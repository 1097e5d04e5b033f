---------------------------- MODULE MCMLIRKernel ----------------------------
(***************************************************************************)
(* A small instance of MLIRKernel: five buffers of six cells, up to six    *)
(* lanes, so that the second vector is a partial one.  The last cell of the*)
(* last buffer is the last of memory, and an input that starts two cells   *)
(* later runs out of memory unless its last lanes are masked off.          *)
(***************************************************************************)
EXTENDS MLIRKernel

MCAddr == 0 .. 29

MCMemories ==
  {[a \in MCAddr |-> (seed * a + a \div 6) % Modulus] : seed \in {7, 11}}

MCPredicates(op) == IF op = "vector_select" THEN Predicates
                    ELSE {"gt", "ule", "eq", "ne"}

MCStatements ==
  UNION { [ op : {o}, out : {0, 18, 24}, lhs : {6, 26}, rhs : {12},
            pass : IF o \in Merging THEN {0, 12} ELSE {12}, indices : {0},
            stride : {1}, factor : IF o = "vector_scale" THEN {-3, 2} ELSE {1},
            n : {-1, 0, 1, 3, 4, 5, 6},
            mask : IF o \in Merging \cup MaskedStores
                     THEN [pred : MCPredicates(o), lhs : {18}, rhs : {12, 24}]
                     ELSE [pred : {"eq"}, lhs : {18}, rhs : {24}] ]
          : o \in Supported }

MCInputs ==
  {c \in [stmt : MCStatements, mem : MCMemories] :
     InBounds(c.stmt, c.mem) /\ NoForwardOverlap(c.stmt, c.mem)}
=============================================================================
