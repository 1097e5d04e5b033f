-------------------------- MODULE MLIRKernelProofs --------------------------
(***************************************************************************)
(* Proofs about MLIRKernel, for every memory, every word size and every    *)
(* statement whose inputs are disciplined, negative counts included.       *)
(***************************************************************************)
EXTENDS MLIRKernel, TLAPS

USE ModulusAssumption

---------------------------------------------------------------------------
(* Arithmetic of the target.                                               *)

LEMMA WrapType == \A i \in Int : Wrap(i) \in Val
  BY DEF Wrap, Val

LEMMA SignedNarrowType == \A v \in Val : SignedNarrow(v) \in Int
  BY NarrowAssumption DEF SignedNarrow, Val

---------------------------------------------------------------------------
(* The scalar meaning of a statement (the same facts, about the same       *)
(* definitions, are in VectorKernelProofs).                                *)

LEMMA ReadsFacts ==
  ASSUME NEW s \in Statement, NEW m, NEW i
  PROVE  /\ s.op \in Merging \cup MaskedStores =>
              {s.mask.lhs + i, s.mask.rhs + i} \subseteq Reads(s, m, i)
         /\ s.op \in IndexedLoads \cup IndexedStores =>
              s.indices + i \in Reads(s, m, i)
         /\ ~(s.op \in MaskedLoads /\ ~LaneMask(s, m, i)) =>
              Source(s, m, i) \in Reads(s, m, i)
         /\ s.op \in Binary => s.rhs + i \in Reads(s, m, i)
         /\ s.op \in Merging => s.pass + i \in Reads(s, m, i)
  BY DEF Reads

(* The cells an unfinished lane reads are still as they were.              *)
LEMMA Undisturbed ==
  ASSUME NEW s \in Statement, NEW m0, NEW m,
         InBounds(s, m0), NoForwardOverlap(s, m0),
         NEW d \in Nat, Outcome(s, d, m0, m), NEW j \in d .. s.n - 1
  PROVE  \A a \in Reads(s, m0, j) : a \in Addr /\ m[a] = m0[a]
<1> SUFFICES ASSUME NEW a \in Reads(s, m0, j)
             PROVE  a \in Addr /\ m[a] = m0[a]
  OBVIOUS
<1>1. s.n \in Int
  BY DEF Statement
<1>2. j \in 0 .. s.n - 1
  BY <1>1
<1>3. a \in Addr
  BY <1>2 DEF InBounds
<1>4. \A i \in 0 .. d - 1 : Writes(s, m0, i) => Destination(s, m0, i) # a
  <2> SUFFICES ASSUME NEW i \in 0 .. d - 1, Writes(s, m0, i)
               PROVE  Destination(s, m0, i) # a
    OBVIOUS
  <2>1. i \in 0 .. j - 1
    BY <1>1
  <2> QED
    BY <1>2, <2>1 DEF NoForwardOverlap
<1>5. {i \in 0 .. d - 1 : Writes(s, m0, i) /\ Destination(s, m0, i) = a} = {}
  BY <1>4
<1> QED
  BY <1>3, <1>5 DEF Outcome

LEMMA ResultType ==
  ASSUME NEW s \in Statement, NEW m \in Memory, NEW i \in Int,
         Reads(s, m, i) \subseteq Addr
  PROVE  Result(s, m, i) \in Val
<1>1. CASE s.op \in Merging /\ ~LaneMask(s, m, i)
  BY <1>1, ReadsFacts DEF Result, Memory
<1>2. CASE ~(s.op \in Merging /\ ~LaneMask(s, m, i))
  <2> DEFINE a == m[Source(s, m, i)]
             b == IF s.op \in Binary THEN m[s.rhs + i] ELSE 0
  <2>1. Source(s, m, i) \in Addr
    BY <1>2, ReadsFacts DEF Merging
  <2>2. a \in Val
    BY <2>1 DEF Memory
  <2>3. b \in Val
    BY ReadsFacts DEF Memory, Val
  <2>4. /\ a + b \in Int /\ a - b \in Int /\ a * b \in Int
        /\ a * s.factor \in Int
        /\ SignedNarrow(a) + SignedNarrow(b) \in Int
    BY <2>2, <2>3, SignedNarrowType DEF Val, Statement
  <2> HIDE DEF a, b
  <2>5. Compute(s, a, b) \in Val
    BY <2>2, <2>4, WrapType DEF Compute
  <2> QED
    BY <1>2, <2>5 DEF Result, a, b
<1> QED
  BY <1>1, <1>2

(* Storing the lanes of one more strip.                                    *)
LEMMA OneMoreStrip ==
  ASSUME NEW s, NEW m0, NEW m, NEW n, NEW d \in Nat, NEW w \in Nat,
         Outcome(s, d, m0, m),
         \A a \in Addr :
           \/ \E k \in 0 .. w - 1 : /\ Writes(s, m0, d + k)
                                   /\ Destination(s, m0, d + k) = a
                                   /\ n[a] = Result(s, m0, d + k)
           \/ /\ n[a] = m[a]
              /\ \A k \in 0 .. w - 1 :
                   ~(Writes(s, m0, d + k) /\ Destination(s, m0, d + k) = a)
  PROVE  Outcome(s, d + w, m0, n)
<1> DEFINE W(e, a) == {i \in 0 .. e - 1 :
                         Writes(s, m0, i) /\ Destination(s, m0, i) = a}
<1> SUFFICES ASSUME NEW a \in Addr
             PROVE  IF W(d + w, a) = {} THEN n[a] = m0[a]
                    ELSE \E i \in W(d + w, a) : n[a] = Result(s, m0, i)
  BY DEF Outcome
<1>1. IF W(d, a) = {} THEN m[a] = m0[a]
      ELSE \E i \in W(d, a) : m[a] = Result(s, m0, i)
  BY DEF Outcome
<1>2. CASE \E k \in 0 .. w - 1 : /\ Writes(s, m0, d + k)
                               /\ Destination(s, m0, d + k) = a
                               /\ n[a] = Result(s, m0, d + k)
  <2>1. PICK k \in 0 .. w - 1 : /\ Writes(s, m0, d + k)
                               /\ Destination(s, m0, d + k) = a
                               /\ n[a] = Result(s, m0, d + k)
    BY <1>2
  <2>2. d + k \in 0 .. d + w - 1
    OBVIOUS
  <2>3. d + k \in W(d + w, a)
    BY <2>1, <2>2
  <2> QED
    BY <2>1, <2>3
<1>3. CASE /\ n[a] = m[a]
           /\ \A k \in 0 .. w - 1 :
                ~(Writes(s, m0, d + k) /\ Destination(s, m0, d + k) = a)
  <2>1. ASSUME NEW i \in W(d + w, a)
        PROVE  i \in W(d, a)
    <3>1. CASE i >= d
      <4>1. i - d \in 0 .. w - 1 /\ d + (i - d) = i
        BY <3>1
      <4> QED
        BY <1>3, <4>1
    <3>2. CASE i < d
      BY <3>2
    <3> QED
      BY <3>1, <3>2
  <2>2. W(d, a) \subseteq W(d + w, a)
    OBVIOUS
  <2>3. W(d + w, a) = W(d, a)
    BY <2>1, <2>2
  <2> QED
    BY <1>1, <1>3, <2>3
<1> QED
  BY <1>2, <1>3
---------------------------------------------------------------------------
(* The generators agree with the classes of statements.                    *)

LEMMA FormTable ==
  ASSUME NEW op \in Supported
  PROVE  /\ emitStatement(op).operation =
              IF op \in {"vector_add", "vector_masked_add"} THEN "addi"
              ELSE IF op = "vector_masked_sub" THEN "subi"
              ELSE IF op \in {"vector_mul", "vector_masked_mul"} THEN "muli"
              ELSE IF op = "vector_scale" THEN "broadcast muli"
              ELSE "none"
         /\ emitStatement(op).masked =
              IF op = "vector_masked_load" THEN "read"
              ELSE IF op = "vector_masked_store" THEN "write"
              ELSE IF op \in MaskedBinary \cup {"vector_select"} THEN "select"
              ELSE "none"
<1>1. CASE op = "vector_add"
  BY <1>1 DEF emitStatement, emitVectorAdd, Form, MaskedBinary
<1>2. CASE op = "vector_copy"
  BY <1>2 DEF emitStatement, emitVectorCopy, Form, MaskedBinary
<1>3. CASE op = "vector_scale"
  BY <1>3 DEF emitStatement, emitVectorScale, Form, MaskedBinary
<1>4. CASE op = "vector_mul"
  BY <1>4 DEF emitStatement, emitVectorMul, Form, MaskedBinary
<1>5. CASE op = "vector_select"
  BY <1>5 DEF emitStatement, emitVectorSelect, Form, MaskedBinary
<1>6. CASE op = "vector_masked_store"
  BY <1>6 DEF emitStatement, emitVectorMaskedStore, Form, MaskedBinary
<1>7. CASE op = "vector_masked_load"
  BY <1>7 DEF emitStatement, emitVectorMaskedLoad, Form, MaskedBinary
<1>8. CASE op = "vector_masked_add"
  BY <1>8 DEF emitStatement, emitVectorMaskedBinary,
     emitVectorMaskedBinaryOp, Form, MaskedBinary
<1>9. CASE op = "vector_masked_sub"
  BY <1>9 DEF emitStatement, emitVectorMaskedBinary,
     emitVectorMaskedBinaryOp, Form, MaskedBinary
<1>10. CASE op = "vector_masked_mul"
  BY <1>10 DEF emitStatement, emitVectorMaskedBinary,
     emitVectorMaskedBinaryOp, Form, MaskedBinary
<1> QED
  BY <1>1, <1>2, <1>3, <1>4, <1>5, <1>6, <1>7, <1>8, <1>9, <1>10
  DEF Supported, MaskedBinary

LEMMA FormOfOp ==
  ASSUME NEW op \in Supported
  PROVE  LET f == emitStatement(op)
         IN  /\ f.masked = "read"  <=> op \in MaskedLoads
             /\ f.masked = "write" <=> op \in MaskedStores
             /\ f.masked \in {"select", "read"} <=> op \in Merging
             /\ f.masked = "none"  <=> op \notin Merging \cup MaskedStores
  BY FormTable DEF Supported, MaskedLoads, MaskedStores, Merging, MaskedBinary

LEMMA ArithComputes ==
  ASSUME NEW s \in Statement, s.op \in Supported, NEW a, NEW b
  PROVE  Arith(emitStatement(s.op).operation, a, b, s.factor)
           = Compute(s, a, b)
<1>1. /\ Arith("addi", a, b, s.factor) = Wrap(a + b)
      /\ Arith("subi", a, b, s.factor) = Wrap(a - b)
      /\ Arith("muli", a, b, s.factor) = Wrap(a * b)
      /\ Arith("broadcast muli", a, b, s.factor) = Wrap(a * s.factor)
      /\ Arith("none", a, b, s.factor) = a
  BY DEF Arith
<1> QED
  BY <1>1, FormTable DEF Supported, MaskedBinary, Compute

(* Lane i of a supported statement reads and writes at its own offset.     *)
LEMMA UnitAccess ==
  ASSUME NEW s \in Statement, s.op \in Supported, NEW m, NEW i
  PROVE  Source(s, m, i) = s.lhs + i /\ Destination(s, m, i) = s.out + i
  BY DEF Supported, MaskedBinary, Source, Destination, StridedLoads,
         IndexedLoads, StridedStores, IndexedStores

LEMMA PredicateIsHolds ==
  \A pred, a, b : getMLIRPredicate(pred, a, b) <=> Holds(pred, a, b)
  BY DEF getMLIRPredicate, Holds

---------------------------------------------------------------------------
(* The inductive invariant: inside an iteration `tail` holds the lanes     *)
(* below the count, and what was read is what the scalar loop reads.       *)

TailReflectsCount ==
  pc \in {"read", "write"} =>
    /\ iv < stmt.n
    /\ \A k \in Lanes : tail[k] <=> iv + k < stmt.n

LanesReadInitialMemory ==
  pc = "write" =>
    \A k \in Lanes : tail[k] =>
      /\ form.masked # "none" => (compared[k] <=> LaneMask(stmt, mem0, iv + k))
      /\ LaneResult(k) = Result(stmt, mem0, iv + k)

IInv ==
  /\ TypeOK
  /\ PrefixDone
  /\ TailReflectsCount
  /\ LanesReadInitialMemory
  /\ pc = "end" => iv >= stmt.n

(* What the input of a run satisfies.                                      *)
LEMMA InputFacts ==
  ASSUME DisciplinedInputs, TypeOK
  PROVE  /\ stmt \in Statement /\ stmt.op \in Supported
         /\ stmt.n \in Int /\ stmt.out \in Int
         /\ mem0 \in Memory
         /\ InBounds(stmt, mem0)
         /\ NoForwardOverlap(stmt, mem0)
<1> DEFINE input == [stmt |-> stmt, mem |-> mem0]
<1>1. input \in Inputs /\ input.stmt = stmt /\ input.mem = mem0
  BY DEF TypeOK
<1>2. stmt \in Statement /\ mem0 \in Memory
  BY <1>1, InputsAssumption
<1> QED
  BY <1>1, <1>2 DEF DisciplinedInputs, Statement

(* A live lane reads the memory the statement started from.                *)
LEMMA LaneUndisturbed ==
  ASSUME DisciplinedInputs, IInv, pc \in {"read", "write"},
         NEW k \in Lanes, tail[k]
  PROVE  /\ iv + k \in 0 .. stmt.n - 1
         /\ \A a \in Reads(stmt, mem0, iv + k) :
              a \in Addr /\ mem[a] = mem0[a]
<1> USE InputFacts DEF IInv
<1>1. iv \in Nat /\ k \in Nat /\ iv + k < stmt.n /\ iv < stmt.n
  BY DEF TypeOK, TailReflectsCount, Lanes, Step
<1>2. iv + k \in iv .. stmt.n - 1
  BY <1>1
<1>3. Outcome(stmt, iv, mem0, mem)
  BY <1>1 DEF PrefixDone, LanesDone
<1> QED
  BY <1>1, <1>2, <1>3, Undisturbed

(* The comparison of a live lane is the mask of the lane.                  *)
LEMMA CompareIsMask ==
  ASSUME DisciplinedInputs, IInv, pc = "read", form.masked # "none"
  PROVE  /\ Compare \in [Lanes -> BOOLEAN]
         /\ \A k \in Lanes : tail[k] =>
              (Compare[k] <=> LaneMask(stmt, mem0, iv + k))
<1>1. Compare \in [Lanes -> BOOLEAN]
  BY DEF Compare, getMLIRPredicate
<1>2. ASSUME NEW k \in Lanes, tail[k]
      PROVE  Compare[k] <=> LaneMask(stmt, mem0, iv + k)
  <2> DEFINE a == stmt.mask.lhs + (iv + k)
             b == stmt.mask.rhs + (iv + k)
  <2>1. stmt \in Statement /\ stmt.op \in Merging \cup MaskedStores
    BY InputFacts, FormOfOp DEF IInv, form
  <2>2. {a, b} \subseteq Reads(stmt, mem0, iv + k)
    BY <2>1, ReadsFacts
  <2>3. mem[a] = mem0[a] /\ mem[b] = mem0[b]
    BY <1>2, <2>2, LaneUndisturbed
  <2>4. a = stmt.mask.lhs + iv + k /\ b = stmt.mask.rhs + iv + k
    BY <2>1 DEF Statement, IInv, TypeOK, Lanes, Step
  <2>5. Compare[k] <=> getMLIRPredicate(stmt.mask.pred, mem[a], mem[b])
    BY <1>2, <2>4 DEF Compare, emitVectorRead
  <2> QED
    BY <2>3, <2>5, PredicateIsHolds DEF LaneMask
<1> QED
  BY <1>1, <1>2

(* The data operand is read in the lanes whose cell the scalar loop reads. *)
LEMMA ReadMaskIsSource ==
  ASSUME DisciplinedInputs, IInv, pc = "read", NEW k \in Lanes
  PROVE  ReadMask[k] <=>
           tail[k] /\ ~(stmt.op \in MaskedLoads /\ ~LaneMask(stmt, mem0, iv + k))
<1> USE InputFacts DEF IInv
<1>1. stmt.op \in MaskedLoads <=> form.masked = "read"
  BY FormOfOp DEF form
<1>2. tail[k] \in BOOLEAN
  BY DEF TypeOK
<1>3. CASE form.masked = "read"
  BY <1>1, <1>2, <1>3, CompareIsMask DEF ReadMask, And
<1>4. CASE form.masked # "read"
  BY <1>1, <1>2, <1>4 DEF ReadMask
<1> QED
  BY <1>3, <1>4

(* A vector read of lane cells delivers cells of the initial memory.       *)
LEMMA VectorReadOfLanes ==
  ASSUME DisciplinedInputs, IInv, pc = "read", NEW base \in Int, NEW mask,
         \A k \in Lanes : mask[k] =>
           tail[k] /\ base + (iv + k) \in Reads(stmt, mem0, iv + k)
  PROVE  /\ emitVectorRead(base, mask) \in [Lanes -> Val]
         /\ \A k \in Lanes : mask[k] =>
              emitVectorRead(base, mask)[k] = mem0[base + (iv + k)]
<1>1. ASSUME NEW k \in Lanes, mask[k]
      PROVE  /\ mem[base + iv + k] \in Val
             /\ mem[base + iv + k] = mem0[base + (iv + k)]
  <2>1. base + iv + k = base + (iv + k)
    BY DEF IInv, TypeOK, Lanes, Step
  <2>2. /\ base + (iv + k) \in Addr
        /\ mem[base + (iv + k)] = mem0[base + (iv + k)]
    BY <1>1, LaneUndisturbed
  <2> QED
    BY <2>1, <2>2 DEF IInv, TypeOK, Memory
<1> QED
  BY <1>1 DEF emitVectorRead, Val

---------------------------------------------------------------------------
(* The steps.                                                              *)

LEMMA InitIInv ==
  ASSUME DisciplinedInputs, Init
  PROVE  IInv
<1>1. PICK input \in Inputs : stmt = input.stmt /\ mem = input.mem
  BY DEF Init
<1>2. input \in [stmt : Statement, mem : Memory]
  BY InputsAssumption
<1>3. input = [stmt |-> stmt, mem |-> mem0]
  BY <1>1, <1>2 DEF Init
<1>4. NoLane \in [Lanes -> BOOLEAN] /\ AllZero \in [Lanes -> Val]
  BY DEF NoLane, AllZero, Val
<1>5. TypeOK
  BY <1>1, <1>2, <1>3, <1>4 DEF Init, TypeOK, Step
<1>6. PrefixDone
  <2>1. \A i : LanesDone = i => 0 .. i - 1 = {} \/ FALSE
    BY <1>2, <1>1 DEF Init, LanesDone, Statement
  <2> QED
    BY <2>1 DEF Init, PrefixDone, Outcome
<1> QED
  BY <1>5, <1>6 DEF Init, IInv, TailReflectsCount, LanesReadInitialMemory

LEMMA ExitIInv ==
  ASSUME DisciplinedInputs, IInv, Exit
  PROVE  IInv'
<1> USE DEF Exit, values
<1>1. TypeOK'
  BY DEF IInv, TypeOK
<1>2. PrefixDone'
  BY DEF IInv, PrefixDone, LanesDone
<1> QED
  BY <1>1, <1>2 DEF IInv, TailReflectsCount, LanesReadInitialMemory

LEMMA CreateMaskIInv ==
  ASSUME DisciplinedInputs, IInv, CreateMask
  PROVE  IInv'
<1> USE DEF CreateMask
<1>1. tail' \in [Lanes -> BOOLEAN]
  OBVIOUS
<1>2. TypeOK'
  BY <1>1 DEF IInv, TypeOK
<1>3. PrefixDone'
  BY DEF IInv, PrefixDone, LanesDone
<1>4. TailReflectsCount'
  <2>1. iv \in Int /\ stmt.n \in Int
    BY InputFacts DEF IInv, TypeOK
  <2>2. \A k \in Lanes : k < ActiveLanes <=> iv + k < stmt.n
    BY <2>1 DEF ActiveLanes, Lanes, Step
  <2> QED
    BY <2>2 DEF TailReflectsCount
<1> QED
  BY <1>2, <1>3, <1>4 DEF IInv, LanesReadInitialMemory

LEMMA ReadIInv ==
  ASSUME DisciplinedInputs, IInv, Read
  PROVE  IInv'
<1> DEFINE j(k) == iv + k
           M(k) == LaneMask(stmt, mem0, j(k))
           R(k) == Reads(stmt, mem0, j(k))
<1>1. /\ pc = "read" /\ pc' = "write" /\ TypeOK
      /\ stmt \in Statement /\ stmt.op \in Supported
      /\ iv \in Nat /\ Lanes \subseteq Nat
      /\ tail \in [Lanes -> BOOLEAN]
      /\ UNCHANGED <<stmt, mem, mem0, iv, tail>>
  BY InputFacts DEF IInv, TypeOK, Read, Lanes, Step
<1>2. /\ stmt.lhs \in Int /\ stmt.rhs \in Int
      /\ stmt.pass \in Int /\ stmt.out \in Int
  BY <1>1 DEF Statement
<1>3. ASSUME NEW k \in Lanes, tail[k]
      PROVE  j(k) \in 0 .. stmt.n - 1
  BY <1>1, <1>3, LaneUndisturbed
<1>4. /\ compared' \in [Lanes -> BOOLEAN]
      /\ form.masked # "none" =>
           \A k \in Lanes : tail[k] => (compared'[k] <=> M(k))
  <2>1. CASE form.masked = "none"
    BY <2>1 DEF Read, NoLane
  <2>2. CASE form.masked # "none"
    BY <1>1, <2>2, CompareIsMask DEF Read
  <2> QED
    BY <2>1, <2>2
<1>5. /\ lhs' \in [Lanes -> Val]
      /\ \A k \in Lanes : ReadMask[k] => lhs'[k] = mem0[stmt.lhs + j(k)]
  <2>1. ASSUME NEW k \in Lanes, ReadMask[k]
        PROVE  tail[k] /\ stmt.lhs + j(k) \in R(k)
    <3>1. tail[k] /\ ~(stmt.op \in MaskedLoads /\ ~M(k))
      BY <1>1, <2>1, ReadMaskIsSource
    <3>2. Source(stmt, mem0, j(k)) = stmt.lhs + j(k)
      BY <1>1, UnitAccess
    <3> QED
      BY <1>1, <3>1, <3>2, ReadsFacts
  <2>2. lhs' = emitVectorRead(stmt.lhs, ReadMask)
    BY DEF Read
  <2> QED
    BY <1>1, <1>2, <2>1, <2>2, VectorReadOfLanes
<1>6. /\ rhs' \in [Lanes -> Val]
      /\ \A k \in Lanes : tail[k] =>
           rhs'[k] = IF stmt.op \in Binary THEN mem0[stmt.rhs + j(k)] ELSE 0
  <2>1. CASE stmt.op \in Binary
    <3>1. \A k \in Lanes : tail[k] => tail[k] /\ stmt.rhs + j(k) \in R(k)
      BY <1>1, <2>1, ReadsFacts
    <3>2. rhs' = emitVectorRead(stmt.rhs, tail)
      BY <2>1 DEF Read
    <3> QED
      BY <1>1, <1>2, <2>1, <3>1, <3>2, VectorReadOfLanes
  <2>2. CASE stmt.op \notin Binary
    BY <2>2 DEF Read, AllZero, Val
  <2> QED
    BY <2>1, <2>2
<1>7. /\ passthrough' \in [Lanes -> Val]
      /\ stmt.op \in Merging =>
           \A k \in Lanes : tail[k] => passthrough'[k] = mem0[stmt.pass + j(k)]
  <2>1. CASE stmt.op \in Merging
    <3>1. \A k \in Lanes : tail[k] => tail[k] /\ stmt.pass + j(k) \in R(k)
      BY <1>1, <2>1, ReadsFacts
    <3>2. passthrough' = emitVectorRead(stmt.pass, tail)
      BY <2>1 DEF Read
    <3> QED
      BY <1>1, <1>2, <3>1, <3>2, VectorReadOfLanes
  <2>2. CASE stmt.op \notin Merging
    BY <2>2 DEF Read, AllZero, Val
  <2> QED
    BY <2>1, <2>2
<1>8. ASSUME NEW k \in Lanes, tail[k]
      PROVE  LaneResult(k)' = Result(stmt, mem0, j(k))
  <2>1. LaneResult(k)' =
          IF form.masked \in {"select", "read"} /\ ~compared'[k]
            THEN passthrough'[k]
            ELSE Arith(form.operation, lhs'[k], rhs'[k], stmt.factor)
    BY <1>1 DEF LaneResult, form
  <2>2. /\ form.masked \in {"select", "read"} <=> stmt.op \in Merging
        /\ form.masked = "none" => stmt.op \notin Merging
    BY <1>1, FormOfOp DEF form
  <2>3. stmt.op \in Merging => (compared'[k] <=> M(k))
    BY <1>4, <1>8, <2>2
  <2>4. CASE stmt.op \in Merging /\ ~M(k)
    BY <1>7, <1>8, <2>1, <2>2, <2>3, <2>4 DEF Result
  <2>5. CASE ~(stmt.op \in Merging /\ ~M(k))
    <3>1. ReadMask[k]
      BY <1>1, <1>8, <2>5, ReadMaskIsSource DEF Merging
    <3>2. lhs'[k] = mem0[Source(stmt, mem0, j(k))]
      BY <1>1, <1>5, <3>1, UnitAccess
    <3>3. rhs'[k] = IF stmt.op \in Binary THEN mem0[stmt.rhs + j(k)] ELSE 0
      BY <1>6, <1>8
    <3>4. LaneResult(k)' = Compute(stmt, lhs'[k], rhs'[k])
      BY <1>1, <2>1, <2>2, <2>3, <2>5, ArithComputes DEF form
    <3> QED
      BY <2>5, <3>2, <3>3, <3>4 DEF Result
  <2> QED
    BY <2>4, <2>5
<1>9. LanesReadInitialMemory'
  BY <1>1, <1>4, <1>8 DEF LanesReadInitialMemory, form
<1>10. WrittenCells' \subseteq Addr
  <2> SUFFICES ASSUME NEW k \in Lanes, WriteMask'[k]
               PROVE  stmt.out + iv + k \in Addr
    BY <1>1 DEF WrittenCells
  <2>1. tail[k] /\ (form.masked = "write" => compared'[k])
    BY <1>1 DEF WriteMask, And, form
  <2>2. Writes(stmt, mem0, j(k))
    BY <1>1, <1>4, <2>1, FormOfOp DEF Writes, form
  <2>3. Destination(stmt, mem0, j(k)) \in Addr
    BY <1>1, <1>3, <2>1, <2>2, InputFacts DEF InBounds
  <2>4. Destination(stmt, mem0, j(k)) = stmt.out + iv + k
    BY <1>1, <1>2, UnitAccess
  <2> QED
    BY <2>3, <2>4
<1>11. TypeOK'
  BY <1>1, <1>4, <1>5, <1>6, <1>7, <1>10 DEF TypeOK
<1>12. PrefixDone' /\ TailReflectsCount'
  BY <1>1 DEF IInv, PrefixDone, LanesDone, TailReflectsCount
<1> QED
  BY <1>1, <1>9, <1>11, <1>12 DEF IInv

LEMMA WriteIInv ==
  ASSUME DisciplinedInputs, IInv, Write
  PROVE  IInv'
<1> DEFINE j(k) == iv + k
           w == IF iv + Step <= stmt.n THEN Step ELSE stmt.n - iv
           W(k) == Writes(stmt, mem0, j(k))
           D(k) == Destination(stmt, mem0, j(k))
           R(k) == Result(stmt, mem0, j(k))
<1>1. /\ pc = "write" /\ TypeOK
      /\ stmt \in Statement /\ stmt.op \in Supported
      /\ stmt.n \in Int /\ stmt.out \in Int
      /\ iv \in Nat /\ iv % 4 = 0 /\ iv < stmt.n
      /\ mem \in Memory /\ mem0 \in Memory
      /\ \A k \in Lanes : k \in Nat /\ (tail[k] <=> j(k) < stmt.n)
  BY InputFacts DEF IInv, TypeOK, Write, Lanes, Step, TailReflectsCount
<1>2. w \in Nat /\ 0 .. w - 1 = {k \in Lanes : tail[k]}
  BY <1>1 DEF Lanes, Step
<1>3. ASSUME NEW k \in Lanes
      PROVE  /\ WriteMask[k] <=> tail[k] /\ W(k)
             /\ D(k) = stmt.out + iv + k
             /\ tail[k] => LaneResult(k) = R(k)
  <2>1. stmt.op \in MaskedStores <=> form.masked = "write"
    BY <1>1, FormOfOp DEF form
  <2>2. tail[k] /\ form.masked # "none" =>
          (compared[k] <=> LaneMask(stmt, mem0, j(k)))
    BY <1>1 DEF IInv, LanesReadInitialMemory
  <2>3. WriteMask[k] <=> tail[k] /\ (form.masked = "write" => compared[k])
    BY DEF WriteMask, And
  <2>4. WriteMask[k] <=> tail[k] /\ W(k)
    BY <2>1, <2>2, <2>3 DEF Writes
  <2>5. D(k) = stmt.out + iv + k
    BY <1>1, UnitAccess
  <2> QED
    BY <1>1, <2>4, <2>5 DEF IInv, LanesReadInitialMemory
<1>4. ASSUME NEW k \in Lanes, tail[k] PROVE R(k) \in Val
  <2>1. j(k) \in 0 .. stmt.n - 1
    BY <1>1, <1>4
  <2> QED
    BY <1>1, <2>1, InputFacts, ResultType DEF InBounds
<1>5. ASSUME NEW a \in Addr
      PROVE  \/ \E k \in 0 .. w - 1 : W(k) /\ D(k) = a /\ mem'[a] = R(k)
             \/ /\ mem'[a] = mem[a]
                /\ \A k \in 0 .. w - 1 : ~(W(k) /\ D(k) = a)
  <2>1. CASE a \in WrittenCells
    <3>1. PICK k \in Lanes : WriteMask[k] /\ a = stmt.out + iv + k
      BY <2>1 DEF WrittenCells
    <3>2. a - stmt.out - iv = k
      BY <1>1, <3>1
    <3>3. mem'[a] = LaneResult(k)
      BY <2>1, <3>2 DEF Write
    <3>4. tail[k] /\ W(k) /\ D(k) = a /\ mem'[a] = R(k)
      BY <1>3, <3>1, <3>3
    <3>5. k \in 0 .. w - 1
      BY <1>2, <3>4
    <3> QED
      BY <3>4, <3>5
  <2>2. CASE a \notin WrittenCells
    <3>1. mem'[a] = mem[a]
      BY <2>2 DEF Write
    <3>2. ASSUME NEW k \in 0 .. w - 1, W(k), D(k) = a PROVE FALSE
      <4>1. k \in Lanes /\ tail[k]
        BY <1>2
      <4>2. WriteMask[k] /\ a = stmt.out + iv + k
        BY <1>3, <3>2, <4>1
      <4> QED
        BY <2>2, <4>1, <4>2 DEF WrittenCells
    <3> QED
      BY <3>1, <3>2
  <2> QED
    BY <2>1, <2>2
<1>6. mem' \in Memory
  <2>1. ASSUME NEW a \in Addr PROVE mem'[a] \in Val
    <3>1. mem[a] \in Val
      BY <1>1 DEF Memory
    <3>2. \A k \in 0 .. w - 1 : R(k) \in Val
      BY <1>2, <1>4
    <3> QED
      BY <1>5, <3>1, <3>2
  <2> QED
    BY <2>1 DEF Memory, Write
<1>7. TypeOK'
  <2>1. iv' \in Nat /\ iv' % 4 = 0
    BY <1>1 DEF Write, Step
  <2> QED
    BY <1>1, <1>6, <2>1 DEF TypeOK, Write, values, Step
<1>8. PrefixDone'
  <2>1. Outcome(stmt, iv, mem0, mem)
    BY <1>1 DEF IInv, PrefixDone, LanesDone
  <2>2. Outcome(stmt, iv + w, mem0, mem')
    BY <1>1, <1>2, <1>5, <2>1, OneMoreStrip
  <2>3. LanesDone' = iv + w
    BY <1>1 DEF LanesDone, Write, Step
  <2> QED
    BY <2>2, <2>3 DEF PrefixDone, Write
<1> QED
  BY <1>7, <1>8 DEF IInv, TailReflectsCount, LanesReadInitialMemory, Write

---------------------------------------------------------------------------
(* Safety of the loop.                                                     *)

LEMMA NextIInv ==
  ASSUME DisciplinedInputs, IInv, [Next]_vars
  PROVE  IInv'
<1>1. CASE Exit       BY <1>1, ExitIInv
<1>2. CASE CreateMask BY <1>2, CreateMaskIInv
<1>3. CASE Read       BY <1>3, ReadIInv
<1>4. CASE Write      BY <1>4, WriteIInv
<1>5. CASE UNCHANGED vars
  <2> USE <1>5 DEF vars
  <2>1. TypeOK'
    BY DEF IInv, TypeOK, WrittenCells, WriteMask, And, form
  <2>2. PrefixDone' /\ TailReflectsCount'
    BY DEF IInv, PrefixDone, LanesDone, TailReflectsCount
  <2>3. LanesReadInitialMemory'
    BY DEF IInv, LanesReadInitialMemory, LaneResult, form
  <2> QED
    BY <2>1, <2>2, <2>3 DEF IInv
<1> QED
  BY <1>1, <1>2, <1>3, <1>4, <1>5 DEF Next

(* The loop keeps its inductive invariant, for disciplined inputs.         *)
THEOREM LoopInvariant ==
  ASSUME DisciplinedInputs
  PROVE  Spec => []IInv
<1>1. Init => IInv
  BY InitIInv
<1>2. IInv /\ [Next]_vars => IInv'
  BY NextIInv
<1> QED
  BY <1>1, <1>2, PTL DEF Spec

(* No iteration leaves the memory and register types: in particular every  *)
(* lane that transfer_write stores is a cell of the program.               *)
THEOREM TypeCorrect ==
  ASSUME DisciplinedInputs
  PROVE  Spec => []TypeOK
<1>1. IInv => TypeOK
  BY DEF IInv
<1> QED
  BY <1>1, LoopInvariant, PTL

(* Memory is at every iteration what the lanes so far make of the initial  *)
(* memory, a partial last vector and a count below one included.           *)
THEOREM MemoryIsPrefix ==
  ASSUME DisciplinedInputs
  PROVE  Spec => []PrefixDone
<1>1. IInv => PrefixDone
  BY DEF IInv
<1> QED
  BY <1>1, LoopInvariant, PTL

(* The masked reads touch the cells of the scalar loop and no others.      *)
THEOREM ReadsStayInLanes ==
  ASSUME DisciplinedInputs
  PROVE  Spec => []AccessesOnlyLaneCells
<1> DEFINE Cells == UNION {Reads(stmt, mem0, i) : i \in 0 .. stmt.n - 1}
<1>1. ASSUME IInv, pc = "read" PROVE AccessedCells \subseteq Cells
  <2>1. /\ stmt \in Statement /\ stmt.op \in Supported
        /\ iv \in Nat /\ Lanes \subseteq Nat
    BY <1>1, InputFacts DEF IInv, TypeOK, Lanes, Step
  <2>2. ASSUME NEW base \in Int, NEW mask,
               \A k \in Lanes : mask[k] =>
                 tail[k] /\ base + (iv + k) \in Reads(stmt, mem0, iv + k)
        PROVE  {base + iv + k : k \in {i \in Lanes : mask[i]}} \subseteq Cells
    <3> SUFFICES ASSUME NEW k \in Lanes, mask[k]
                 PROVE  base + iv + k \in Cells
      OBVIOUS
    <3>1. iv + k \in 0 .. stmt.n - 1
      BY <1>1, <2>2, LaneUndisturbed
    <3>2. base + iv + k = base + (iv + k)
      BY <2>1
    <3>3. base + iv + k \in Reads(stmt, mem0, iv + k)
      BY <2>2, <3>2
    <3> QED
      BY <3>1, <3>3
  <2>3. {stmt.lhs + iv + k : k \in {i \in Lanes : ReadMask[i]}} \subseteq Cells
    <3>1. ASSUME NEW k \in Lanes, ReadMask[k]
          PROVE  tail[k] /\ stmt.lhs + (iv + k) \in Reads(stmt, mem0, iv + k)
      <4>1. /\ tail[k]
            /\ ~(stmt.op \in MaskedLoads /\ ~LaneMask(stmt, mem0, iv + k))
        BY <1>1, <3>1, ReadMaskIsSource
      <4> QED
        BY <2>1, <4>1, ReadsFacts, UnitAccess
    <3>2. stmt.lhs \in Int
      BY <2>1 DEF Statement
    <3> QED
      BY <2>2, <3>1, <3>2
  <2>4. form.masked # "none" =>
          /\ {stmt.mask.lhs + iv + k : k \in {i \in Lanes : tail[i]}}
                \subseteq Cells
          /\ {stmt.mask.rhs + iv + k : k \in {i \in Lanes : tail[i]}}
                \subseteq Cells
    <3>1. form.masked # "none" => stmt.op \in Merging \cup MaskedStores
      BY <2>1, FormOfOp DEF form
    <3>2. stmt.mask.lhs \in Int /\ stmt.mask.rhs \in Int
      BY <2>1 DEF Statement
    <3> QED
      BY <2>1, <2>2, <3>1, <3>2, ReadsFacts
  <2>5. stmt.op \in Binary =>
          {stmt.rhs + iv + k : k \in {i \in Lanes : tail[i]}} \subseteq Cells
    <3>1. stmt.rhs \in Int
      BY <2>1 DEF Statement
    <3> QED
      BY <2>1, <2>2, <3>1, ReadsFacts
  <2>6. stmt.op \in Merging =>
          {stmt.pass + iv + k : k \in {i \in Lanes : tail[i]}} \subseteq Cells
    <3>1. stmt.pass \in Int
      BY <2>1 DEF Statement
    <3> QED
      BY <2>1, <2>2, <3>1, ReadsFacts
  <2> QED
    BY <2>3, <2>4, <2>5, <2>6 DEF AccessedCells
<1>2. IInv => AccessesOnlyLaneCells
  BY <1>1 DEF AccessesOnlyLaneCells
<1> QED
  BY <1>2, LoopInvariant, PTL

---------------------------------------------------------------------------
(* Refinement.                                                             *)

(* The instance's operators are those of VectorLanes.                      *)
LEMMA InstanceOutcome ==
  \A s, n, m0, m : Abstract!Outcome(s, n, m0, m) <=> Outcome(s, n, m0, m)
<1>1. \A s, m, i : Abstract!LaneMask(s, m, i) <=> LaneMask(s, m, i)
  BY DEF Abstract!LaneMask, LaneMask, Abstract!Holds, Holds, Abstract!Signed, Signed
<1>2. \A s, m, i : Abstract!LaneIndex(s, m, i) = LaneIndex(s, m, i)
  BY DEF Abstract!LaneIndex, LaneIndex, Abstract!Signed, Signed
<1>3. /\ Abstract!Merging = Merging /\ Abstract!Binary = Binary
      /\ Abstract!MaskedStores = MaskedStores
      /\ Abstract!StridedLoads = StridedLoads
      /\ Abstract!IndexedLoads = IndexedLoads
      /\ Abstract!StridedStores = StridedStores
      /\ Abstract!IndexedStores = IndexedStores
  BY DEF Abstract!Merging, Merging, Abstract!Binary, Binary,
         Abstract!MaskedStores, MaskedStores, Abstract!MaskedLoads, MaskedLoads,
         Abstract!MaskedBinary, MaskedBinary, Abstract!StridedLoads, StridedLoads,
         Abstract!IndexedLoads, IndexedLoads, Abstract!StridedStores,
         StridedStores, Abstract!IndexedStores, IndexedStores
<1>4. \A s, m, i : Abstract!Source(s, m, i) = Source(s, m, i)
  BY <1>2, <1>3 DEF Abstract!Source, Source
<1>5. \A s, m, i : Abstract!Destination(s, m, i) = Destination(s, m, i)
  BY <1>2, <1>3 DEF Abstract!Destination, Destination
<1>6. \A s, m, i : Abstract!Writes(s, m, i) <=> Writes(s, m, i)
  BY <1>1, <1>3 DEF Abstract!Writes, Writes
<1>7. \A s, a, b : Abstract!Compute(s, a, b) = Compute(s, a, b)
  BY DEF Abstract!Compute, Compute, Abstract!Wrap, Wrap,
         Abstract!SignedNarrow, SignedNarrow
<1>8. \A s, m, i : Abstract!Result(s, m, i) = Result(s, m, i)
  BY <1>1, <1>3, <1>4, <1>7 DEF Abstract!Result, Result
<1> QED
  BY <1>5, <1>6, <1>8 DEF Abstract!Outcome, Outcome

(* The loop implements the statement of the abstract specification the RVV *)
(* loop implements too: the two backends agree, for any count.             *)
THEOREM LoopImplementsStatement ==
  ASSUME DisciplinedInputs
  PROVE  Spec => ImplementsStatement
<1>1. Init => Abstract!SInit
  <2> SUFFICES ASSUME Init PROVE Abstract!SInit
    OBVIOUS
  <2>1. PICK input \in Inputs : stmt = input.stmt /\ mem = input.mem
    BY DEF Init
  <2>2. [stmt |-> stmt, mem |-> mem0] = input
    BY <2>1, InputsAssumption DEF Init
  <2> QED
    BY <2>2 DEF Abstract!SInit, Init
<1>2. IInv /\ [Next]_vars => [Abstract!SNext]_(Abstract!svars)
  <2> SUFFICES ASSUME IInv, [Next]_vars
               PROVE  [Abstract!SNext]_(Abstract!svars)
    OBVIOUS
  <2>1. CASE Exit
    <3>1. /\ pc = "head" /\ pc' = "end" /\ iv >= stmt.n
          /\ UNCHANGED <<stmt, mem, mem0>>
      BY <2>1 DEF Exit
    <3>2. LanesDone = stmt.n
      BY <3>1, InputFacts DEF LanesDone, IInv, TypeOK
    <3>3. Outcome(stmt, stmt.n, mem0, mem)
      BY <3>2 DEF IInv, PrefixDone
    <3>4. mem \in Abstract!Memory
      BY DEF IInv, TypeOK, Memory, Val, Abstract!Memory, Abstract!Val
    <3> QED
      BY <3>1, <3>3, <3>4, InstanceOutcome
      DEF Abstract!SNext, Abstract!Execute
  <2>2. CASE CreateMask \/ Read \/ Write
    BY <2>2 DEF CreateMask, Read, Write, Abstract!svars
  <2>3. CASE UNCHANGED vars
    BY <2>3 DEF vars, Abstract!svars
  <2> QED
    BY <2>1, <2>2, <2>3 DEF Next
<1> QED
  BY <1>1, <1>2, LoopInvariant, PTL
  DEF Spec, ImplementsStatement, Abstract!SSpec
=============================================================================
