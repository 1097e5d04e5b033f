--------------------------- MODULE MCMatrixKernel ---------------------------
(***************************************************************************)
(* Matrices of up to two rows, two columns and four inner elements, in     *)
(* strips of at most three: vsetvli may split four as 2 + 2 or 3 + 1.  The *)
(* buffers are adjacent; once b is packed the product may overwrite it.    *)
(***************************************************************************)
EXTENDS MatrixKernel

MCAddr == 0 .. 27

MCPrograms ==
  { [ program |-> [ backend |-> be, packed |-> packed, rows |-> r, cols |-> c,
                    inner |-> n, out |-> 0, a |-> 4, b |-> 12, pack |-> 20 ],
      mem |-> [x \in MCAddr |-> (7 * x + x \div 4) % Modulus] ] :
      be \in {"rvv", "mlir"}, packed \in BOOLEAN,
      r, c \in 0 .. 2, n \in 0 .. 4 }
  \cup
  { [ program |-> [ backend |-> "mlir", packed |-> packed, rows |-> r,
                    cols |-> c, inner |-> n,
                    out |-> 0, a |-> 4, b |-> 12, pack |-> 20 ],
      mem |-> [x \in MCAddr |-> x % Modulus] ] :
      packed \in BOOLEAN, r, c, n \in {-1, 1} }
  \cup
  { [ program |-> [ backend |-> be, packed |-> TRUE, rows |-> r, cols |-> c,
                    inner |-> n, out |-> 12, a |-> 4, b |-> 12, pack |-> 20 ],
      mem |-> [x \in MCAddr |-> (5 * x + x \div 3) % Modulus] ] :
      be \in {"rvv", "mlir"}, r, c \in 1 .. 2, n \in 2 .. 4 }
=============================================================================
