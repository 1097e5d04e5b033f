---------------------------- MODULE VectorLanes ----------------------------
(***************************************************************************)
(* What one vector statement of a .zc program promises.                    *)
(*                                                                         *)
(* A statement names its buffers, an element count n and, for some forms,  *)
(* a stride, a scalar factor, an index buffer or a mask.  Its meaning is   *)
(* the one the test harnesses compute with a scalar loop: lane i of the    *)
(* statement, for 0 <= i < n, has a result that is a function of the       *)
(* memory the statement started from, and a cell it is stored in; no other *)
(* cell changes.  Nothing here knows of strips, registers or vector        *)
(* lengths: the backends are shown to implement VectorStatement, which is   *)
(* this meaning made a machine of one step.                                *)
(*                                                                         *)
(* Memory is a set of element-sized cells.  A buffer is the address of its *)
(* element 0, so that two operands may be the same buffer or overlap.      *)
(***************************************************************************)
EXTENDS Integers

CONSTANTS
  Addr,     \* the addresses of the element cells
  Modulus,  \* 2^SEW: a cell holds a bit pattern in 0 .. Modulus - 1
  Narrow,   \* 2^(SEW/2): what an element of a ptr<i16> operand fits in
  Inputs    \* the statements to execute, each with the memory it starts from

ASSUME AddrAssumption    == Addr \subseteq Int
ASSUME ModulusAssumption == Modulus \in Nat \ {0}
ASSUME NarrowAssumption  == Narrow \in Nat \ {0}

Val == 0 .. Modulus - 1

Memory == [Addr -> Val]

Predicates == {"lt", "le", "gt", "ge", "eq", "ne", "ult", "ule", "ugt", "uge"}

(* The parser's vector statements that act on memory lane by lane.         *)
Ops ==
  { "vector_add", "vector_mul", "vector_copy", "vector_scale",
    "vector_widen_add_i16_i32", "vector_select",
    "vector_strided_load", "vector_indexed_load",
    "vector_strided_store", "vector_indexed_store",
    "vector_masked_add", "vector_masked_sub", "vector_masked_mul",
    "vector_masked_load", "vector_masked_store",
    "vector_masked_strided_load", "vector_masked_indexed_load",
    "vector_masked_strided_store", "vector_masked_indexed_store" }

(* One record type for every statement; a form ignores the operands it     *)
(* does not have.  `out` is the buffer written (`base` of a store), `lhs`  *)
(* the first data operand (`input`, `values`, `true_values`), `pass` the   *)
(* passthrough (`false_values`), and `mask` the comparison that selects    *)
(* the lanes: of vector_select itself, or of the mask symbol it names.     *)
Statement ==
  [ op : Ops, out : Int, lhs : Int, rhs : Int, pass : Int, indices : Int,
    stride : Int, factor : Int, n : Int,
    mask : [pred : Predicates, lhs : Int, rhs : Int] ]

ASSUME InputsAssumption == Inputs \subseteq [stmt : Statement, mem : Memory]

---------------------------------------------------------------------------
(* Integers of the target, as the C harnesses compute with them.           *)

Signed(v) == IF 2 * v < Modulus THEN v ELSE v - Modulus

SignedNarrow(v) ==
  LET w == v % Narrow IN IF 2 * w < Narrow THEN w ELSE w - Narrow

Wrap(i) == i % Modulus

Holds(pred, a, b) ==
  \/ pred = "lt"  /\ Signed(a) < Signed(b)
  \/ pred = "le"  /\ Signed(a) <= Signed(b)
  \/ pred = "gt"  /\ Signed(a) > Signed(b)
  \/ pred = "ge"  /\ Signed(a) >= Signed(b)
  \/ pred = "eq"  /\ a = b
  \/ pred = "ne"  /\ a # b
  \/ pred = "ult" /\ a < b
  \/ pred = "ule" /\ a <= b
  \/ pred = "ugt" /\ a > b
  \/ pred = "uge" /\ a >= b

---------------------------------------------------------------------------
(* The scalar meaning of lane i of statement s, started from memory m.     *)

StridedLoads  == {"vector_strided_load", "vector_masked_strided_load"}
IndexedLoads  == {"vector_indexed_load", "vector_masked_indexed_load"}
StridedStores == {"vector_strided_store", "vector_masked_strided_store"}
IndexedStores == {"vector_indexed_store", "vector_masked_indexed_store"}
MaskedLoads   == { "vector_masked_load", "vector_masked_strided_load",
                   "vector_masked_indexed_load" }
MaskedStores  == { "vector_masked_store", "vector_masked_strided_store",
                   "vector_masked_indexed_store" }
MaskedBinary  == {"vector_masked_add", "vector_masked_sub", "vector_masked_mul"}
Merging       == MaskedLoads \cup MaskedBinary \cup {"vector_select"}
Binary        == MaskedBinary \cup
                 {"vector_add", "vector_mul", "vector_widen_add_i16_i32"}

LaneMask(s, m, i) ==
  Holds(s.mask.pred, m[s.mask.lhs + i], m[s.mask.rhs + i])

LaneIndex(s, m, i) == Signed(m[s.indices + i])

Source(s, m, i) ==
  IF s.op \in StridedLoads THEN s.lhs + i * s.stride
  ELSE IF s.op \in IndexedLoads THEN s.lhs + LaneIndex(s, m, i)
  ELSE s.lhs + i

Destination(s, m, i) ==
  IF s.op \in StridedStores THEN s.out + i * s.stride
  ELSE IF s.op \in IndexedStores THEN s.out + LaneIndex(s, m, i)
  ELSE s.out + i

Writes(s, m, i) == s.op \in MaskedStores => LaneMask(s, m, i)

Compute(s, x, y) ==
  CASE s.op \in {"vector_add", "vector_masked_add"} -> Wrap(x + y)
    [] s.op = "vector_masked_sub"                   -> Wrap(x - y)
    [] s.op \in {"vector_mul", "vector_masked_mul"} -> Wrap(x * y)
    [] s.op = "vector_scale"                        -> Wrap(x * s.factor)
    [] s.op = "vector_widen_add_i16_i32" ->
         Wrap(SignedNarrow(x) + SignedNarrow(y))
    [] OTHER                                        -> x

Result(s, m, i) ==
  IF s.op \in Merging /\ ~LaneMask(s, m, i) THEN m[s.pass + i]
  ELSE Compute(s, m[Source(s, m, i)],
                  IF s.op \in Binary THEN m[s.rhs + i] ELSE 0)

(* The cells lane i reads: a masked load leaves the cell of a false lane   *)
(* alone, so that it may be anywhere.                                      *)
Reads(s, m, i) ==
  (IF s.op \in Merging \cup MaskedStores
     THEN {s.mask.lhs + i, s.mask.rhs + i} ELSE {})
  \cup (IF s.op \in IndexedLoads \cup IndexedStores
          THEN {s.indices + i} ELSE {})
  \cup (IF s.op \in MaskedLoads /\ ~LaneMask(s, m, i)
          THEN {} ELSE {Source(s, m, i)})
  \cup (IF s.op \in Binary THEN {s.rhs + i} ELSE {})
  \cup (IF s.op \in Merging THEN {s.pass + i} ELSE {})

(* m is what executing the first n lanes of s from m0 may leave: every     *)
(* cell some lane stores to holds the result of one such lane, and every   *)
(* other cell is untouched.  When no two lanes store to the same cell      *)
(* there is exactly one such m.  A negative n has no lane.                 *)
Outcome(s, n, m0, m) ==
  \A a \in Addr :
    LET writers == {i \in 0 .. n - 1 :
                      Writes(s, m0, i) /\ Destination(s, m0, i) = a}
    IN  IF writers = {} THEN m[a] = m0[a]
        ELSE \E i \in writers : m[a] = Result(s, m0, i)

(***************************************************************************)
(* The conditions under which a vector loop can be expected to do what the *)
(* scalar loop does, for statement s started from memory m.                *)
(***************************************************************************)

(* Every cell the lanes touch belongs to the program.                      *)
InBounds(s, m) ==
  \A i \in 0 .. s.n - 1 :
    /\ Reads(s, m, i) \subseteq Addr
    /\ Writes(s, m, i) => Destination(s, m, i) \in Addr

(* No lane stores to a cell that a later lane reads: the loads of a later  *)
(* lane may come before or after the store, depending on the vector length.*)
(* A buffer may well be overwritten in place.                              *)
NoForwardOverlap(s, m) ==
  \A j \in 0 .. s.n - 1 : \A i \in 0 .. j - 1 :
    Writes(s, m, i) => Destination(s, m, i) \notin Reads(s, m, j)

(* An index that a lane uses is not negative and its byte offset fits in   *)
(* SEW bits.                                                               *)
SmallIndices(s, m) ==
  s.op \in IndexedLoads \cup IndexedStores =>
    \A i \in 0 .. s.n - 1 :
      (s.op \in MaskedLoads \cup MaskedStores => LaneMask(s, m, i))
        => 4 * m[s.indices + i] < Modulus

Disciplined(input) ==
  /\ input.stmt.n >= 0
  /\ InBounds(input.stmt, input.mem)
  /\ NoForwardOverlap(input.stmt, input.mem)
  /\ SmallIndices(input.stmt, input.mem)
=============================================================================
