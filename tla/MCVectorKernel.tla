--------------------------- MODULE MCVectorKernel ---------------------------
(***************************************************************************)
(* Small instances of VectorKernel: thirty cells, six buffers of five, two *)
(* memories, up to five lanes in strips of at most three.                  *)
(***************************************************************************)
EXTENDS VectorKernel

MCAddr == 0 .. 29

(* The last buffer holds element indices, once distinct and once not.      *)
MCMemory(seed, indices) ==
  [a \in MCAddr |-> IF a >= 25 THEN indices[a - 24]
                    ELSE (seed * a + a \div 5) % Modulus]

MCMemories == {MCMemory(7, <<2, 0, 4, 1, 3>>), MCMemory(11, <<1, 1, 3, 0, 3>>)}

MCStrides(op) ==
  IF op \in StridedLoads \cup StridedStores THEN {-1, 0, 2} ELSE {1}

MCFactors(op) == IF op = "vector_scale" THEN {-3, 2} ELSE {1}

MCPredicates(op) ==
  IF op = "vector_select" THEN Predicates ELSE {"gt", "ule"}

(* Destinations that are a buffer of their own, the first operand, a mask  *)
(* operand and the indices; passthroughs that are the destination or not.  *)
MCStatements ==
  UNION { [ op : {o}, out : {0, 5, 15, 25}, lhs : {5}, rhs : {10},
            pass : IF o \in Merging THEN {0, 10} ELSE {10}, indices : {25},
            stride : MCStrides(o), factor : MCFactors(o), n : {0, 2, 4, 5},
            mask : IF o \in Merging \cup MaskedStores
                     THEN [pred : MCPredicates(o), lhs : {15}, rhs : {20}]
                     ELSE [pred : {"eq"}, lhs : {15}, rhs : {20}] ]
          : o \in Ops }


MCInputs == {c \in [stmt : MCStatements, mem : MCMemories] : Disciplined(c)}

NegativeAddr == 0 .. 23

(* A call with n = -1, for a machine whose registers have three bits, so   *)
(* that the buffers may have as many cells as a register can count.        *)
NegativeInputs ==
  {[stmt |-> [op |-> "vector_masked_store", out |-> 0, lhs |-> 8, rhs |-> 8,
              pass |-> 8, indices |-> 8, stride |-> 1, factor |-> 1, n |-> k,
              mask |-> [pred |-> "ne", lhs |-> 16, rhs |-> 8]],
    mem |-> [a \in NegativeAddr |-> (5 * a + a \div 8) % Modulus]] :
     k \in {-1, 2, 3}}
=============================================================================
