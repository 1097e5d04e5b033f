--------------------------- MODULE MCMaskCodeGen ---------------------------
(***************************************************************************)
(* Programs for MaskCodeGen: two comparisons that disagree in every way    *)
(* over four lanes, three logical masks built on them, and a consumer.     *)
(***************************************************************************)
EXTENDS MaskCodeGen

MCMask == {"c", "d", "m", "n", "o"}

MCLane == 1 .. 4

Compare(m, lanes) ==
  [kind |-> "vector_mask", mask |-> m, lanes |-> lanes, known |-> TRUE]

Logical(op, m, l, r) ==
  [kind |-> "vector_mask_logical", op |-> op, mask |-> m, lhs |-> l, rhs |-> r]

Masked(m) == [kind |-> "vector_masked", mask |-> m]

Function == [kind |-> "function"]

Compares == <<Function, Compare("c", {1, 2}), Compare("d", {1, 3})>>

(* Every way to define m from the comparisons, n from these and m, and o   *)
(* from d, m and n; then a consumer of o.                                  *)
NestedPrograms ==
  { Compares \o <<a, b, e, Masked("o")>> :
      a \in {Logical(op, "m", l, r) :
               op \in {"and", "not"}, l, r \in {"c", "d"}},
      b \in {Logical(op, "n", l, r) :
               op \in {"xor", "not"}, l, r \in {"c", "m"}},
      e \in {Logical(op, "o", l, r) :
               op \in LogicalOps, l, r \in {"d", "m", "n"}} }

(* Masks that are defined twice, unknown, defined from themselves, from a  *)
(* later mask or in a cycle, whose buffers are unknown, or that were       *)
(* defined in an earlier function.                                         *)
IrregularPrograms ==
  { Compares \o <<Logical("and", "m", "c", "d"), x, Masked(u), Masked("c")>> :
      x \in { Compare("c", {4}), Compare("m", {4}),
              Logical("or", "m", "m", "d"), Logical("xor", "c", "d", "d"),
              Logical("or", "n", "n", "d"), Logical("or", "n", "d", "o"),
              [Compare("n", {2}) EXCEPT !.known = FALSE], Function },
      u \in {"m", "n", "o"} }
  \cup
  { Compares \o <<x, y, Masked("n"), Function, Masked("n")>> :
      x \in {Logical("and", "n", l, "d") : l \in {"m", "c"}},
      y \in {Logical("or", "m", "d", r) : r \in {"n", "c"}} }

MCPrograms == NestedPrograms \cup IrregularPrograms

(* Chains of masks nested in right operands.                               *)
ChainMask == {"c", "d", "m", "n", "o"}

MCDeepPrograms ==
  { Compares \o <<Logical(f, "m", "c", "d"), Logical(g, "n", l, "m"),
                  Logical(h, "o", k, "n"), Masked(u)>> :
      f, g, h \in {"and", "or", "xor"}, l, k \in {"c", "d"}, u \in {"n", "o"} }
=============================================================================
