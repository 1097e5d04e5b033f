--------------------------- MODULE MCVectorReduce ---------------------------
(***************************************************************************)
(* Calls of VectorReduce: elements of three bits in a scalar that is wider,*)
(* up to eleven elements in strips of at most three (RVV) or four (MLIR).  *)
(***************************************************************************)
EXTENDS VectorReduce

MCInputs ==
  { [backend |-> b, input |-> [i \in 0 .. 10 |-> (seed * i + i \div 3) % 8],
     n |-> n, elementModulus |-> 8, initial |-> a] :
      b \in Backends, seed \in {1, 3, 6}, n \in 0 .. 11,
      a \in {-4, -1, 0, 3} }
  \cup
  { [backend |-> b, input |-> [i \in 0 .. 6 |-> (seed * i) % 8], n |-> n,
     elementModulus |-> 8, initial |-> a] :
      b \in {"rvv"}, seed \in {5, 7}, n \in 0 .. 7, a \in {-9, 12} }
  \cup
  { [backend |-> "mlir", input |-> [i \in 0 .. 3 |-> i], n |-> -2,
     elementModulus |-> 8, initial |-> 3] }
=============================================================================
