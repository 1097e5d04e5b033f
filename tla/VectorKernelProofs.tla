------------------------- MODULE VectorKernelProofs -------------------------
(***************************************************************************)
(* Proofs about VectorKernel, for every register group length, every word  *)
(* size, every memory and every statement whose inputs are disciplined.    *)
(***************************************************************************)
EXTENDS VectorKernel, TLAPS

USE ModulusAssumption

---------------------------------------------------------------------------
(* Arithmetic of the target.                                               *)

LEMMA WrapType == \A i \in Int : Wrap(i) \in Val
  BY DEF Wrap, Val

LEMMA SignedType == \A v \in Val : Signed(v) \in Int
  BY DEF Signed, Val

LEMMA SignedNarrowType == \A v \in Val : SignedNarrow(v) \in Int
  BY NarrowAssumption DEF SignedNarrow, Val

---------------------------------------------------------------------------
(* The scalar meaning of a statement (the same facts, about the same       *)
(* definitions, are in MLIRKernelProofs).                                  *)

LEMMA ReadsFacts ==
  ASSUME NEW s \in Statement, NEW m, NEW i
  PROVE  /\ s.op \in Merging \cup MaskedStores =>
              {s.mask.lhs + i, s.mask.rhs + i} \subseteq Reads(s, m, i)
         /\ s.op \in IndexedLoads \cup IndexedStores =>
              s.indices + i \in Reads(s, m, i)
         /\ ~(s.op \in MaskedLoads /\ ~LaneMask(s, m, i)) =>
              Source(s, m, i) \in Reads(s, m, i)
         /\ s.op \in Binary => s.rhs + i \in Reads(s, m, i)
         /\ s.op \in Merging => s.pass + i \in Reads(s, m, i)
  BY DEF Reads

(* The cells an unfinished lane reads are still as they were.              *)
LEMMA Undisturbed ==
  ASSUME NEW s \in Statement, NEW m0, NEW m,
         InBounds(s, m0), NoForwardOverlap(s, m0),
         NEW d \in Nat, Outcome(s, d, m0, m), NEW j \in d .. s.n - 1
  PROVE  \A a \in Reads(s, m0, j) : a \in Addr /\ m[a] = m0[a]
<1> SUFFICES ASSUME NEW a \in Reads(s, m0, j)
             PROVE  a \in Addr /\ m[a] = m0[a]
  OBVIOUS
<1>1. s.n \in Int
  BY DEF Statement
<1>2. j \in 0 .. s.n - 1
  BY <1>1
<1>3. a \in Addr
  BY <1>2 DEF InBounds
<1>4. \A i \in 0 .. d - 1 : Writes(s, m0, i) => Destination(s, m0, i) # a
  <2> SUFFICES ASSUME NEW i \in 0 .. d - 1, Writes(s, m0, i)
               PROVE  Destination(s, m0, i) # a
    OBVIOUS
  <2>1. i \in 0 .. j - 1
    BY <1>1
  <2> QED
    BY <1>2, <2>1 DEF NoForwardOverlap
<1>5. {i \in 0 .. d - 1 : Writes(s, m0, i) /\ Destination(s, m0, i) = a} = {}
  BY <1>4
<1> QED
  BY <1>3, <1>5 DEF Outcome

LEMMA ResultType ==
  ASSUME NEW s \in Statement, NEW m \in Memory, NEW i \in Int,
         Reads(s, m, i) \subseteq Addr
  PROVE  Result(s, m, i) \in Val
<1>1. CASE s.op \in Merging /\ ~LaneMask(s, m, i)
  BY <1>1, ReadsFacts DEF Result, Memory
<1>2. CASE ~(s.op \in Merging /\ ~LaneMask(s, m, i))
  <2> DEFINE a == m[Source(s, m, i)]
             b == IF s.op \in Binary THEN m[s.rhs + i] ELSE 0
  <2>1. Source(s, m, i) \in Addr
    BY <1>2, ReadsFacts DEF Merging
  <2>2. a \in Val
    BY <2>1 DEF Memory
  <2>3. b \in Val
    BY ReadsFacts DEF Memory, Val
  <2>4. /\ a + b \in Int /\ a - b \in Int /\ a * b \in Int
        /\ a * s.factor \in Int
        /\ SignedNarrow(a) + SignedNarrow(b) \in Int
    BY <2>2, <2>3, SignedNarrowType DEF Val, Statement
  <2> HIDE DEF a, b
  <2>5. Compute(s, a, b) \in Val
    BY <2>2, <2>4, WrapType DEF Compute
  <2> QED
    BY <1>2, <2>5 DEF Result, a, b
<1> QED
  BY <1>1, <1>2

(* Storing the lanes of one more strip.                                    *)
LEMMA OneMoreStrip ==
  ASSUME NEW s, NEW m0, NEW m, NEW n, NEW d \in Nat, NEW w \in Nat,
         Outcome(s, d, m0, m),
         \A a \in Addr :
           \/ \E k \in 0 .. w - 1 : /\ Writes(s, m0, d + k)
                                   /\ Destination(s, m0, d + k) = a
                                   /\ n[a] = Result(s, m0, d + k)
           \/ /\ n[a] = m[a]
              /\ \A k \in 0 .. w - 1 :
                   ~(Writes(s, m0, d + k) /\ Destination(s, m0, d + k) = a)
  PROVE  Outcome(s, d + w, m0, n)
<1> DEFINE W(e, a) == {i \in 0 .. e - 1 :
                         Writes(s, m0, i) /\ Destination(s, m0, i) = a}
<1> SUFFICES ASSUME NEW a \in Addr
             PROVE  IF W(d + w, a) = {} THEN n[a] = m0[a]
                    ELSE \E i \in W(d + w, a) : n[a] = Result(s, m0, i)
  BY DEF Outcome
<1>1. IF W(d, a) = {} THEN m[a] = m0[a]
      ELSE \E i \in W(d, a) : m[a] = Result(s, m0, i)
  BY DEF Outcome
<1>2. CASE \E k \in 0 .. w - 1 : /\ Writes(s, m0, d + k)
                               /\ Destination(s, m0, d + k) = a
                               /\ n[a] = Result(s, m0, d + k)
  <2>1. PICK k \in 0 .. w - 1 : /\ Writes(s, m0, d + k)
                               /\ Destination(s, m0, d + k) = a
                               /\ n[a] = Result(s, m0, d + k)
    BY <1>2
  <2>2. d + k \in 0 .. d + w - 1
    OBVIOUS
  <2>3. d + k \in W(d + w, a)
    BY <2>1, <2>2
  <2> QED
    BY <2>1, <2>3
<1>3. CASE /\ n[a] = m[a]
           /\ \A k \in 0 .. w - 1 :
                ~(Writes(s, m0, d + k) /\ Destination(s, m0, d + k) = a)
  <2>1. ASSUME NEW i \in W(d + w, a)
        PROVE  i \in W(d, a)
    <3>1. CASE i >= d
      <4>1. i - d \in 0 .. w - 1 /\ d + (i - d) = i
        BY <3>1
      <4> QED
        BY <1>3, <4>1
    <3>2. CASE i < d
      BY <3>2
    <3> QED
      BY <3>1, <3>2
  <2>2. W(d, a) \subseteq W(d + w, a)
    OBVIOUS
  <2>3. W(d + w, a) = W(d, a)
    BY <2>1, <2>2
  <2> QED
    BY <1>1, <1>3, <2>3
<1> QED
  BY <1>2, <1>3
---------------------------------------------------------------------------
(* The arithmetic of the vector instructions.                              *)

LEMMA EffectiveIndexType == \A v \in Val : EffectiveIndex(v) \in Nat
  BY WrapType DEF EffectiveIndex, Val

(* An index whose byte offset fits is the element index the scalar loop    *)
(* uses.                                                                   *)
LEMMA SmallIndex ==
  \A v \in Val : 4 * v < Modulus => EffectiveIndex(v) = Signed(v)
<1> SUFFICES ASSUME NEW v \in Val, 4 * v < Modulus
             PROVE  EffectiveIndex(v) = Signed(v)
  OBVIOUS
<1>1. (4 * v) % Modulus = 4 * v
  BY DEF Val
<1>2. (4 * v) \div 4 = v
  BY DEF Val
<1> QED
  BY <1>1, <1>2 DEF EffectiveIndex, Wrap, Signed, Val

(* The comparisons RVV has, with swapped operands where it has none, are   *)
(* the ten predicates of the language.                                     *)
LEMMA CompareIsPredicate ==
  ASSUME NEW pred \in Predicates, NEW a \in Val, NEW b \in Val
  PROVE  emitVectorSelectCompareTo(pred, a, b) <=> Holds(pred, a, b)
<1>1. /\ Signed(a) \in Int /\ Signed(b) \in Int
      /\ a \in Int /\ b \in Int
  BY SignedType DEF Val
<1>2. CASE pred \in {"lt", "le", "gt", "ge", "eq"}
  BY <1>1, <1>2 DEF emitVectorSelectCompareTo, Holds, vmslt, vmsle
<1>3. CASE pred \in {"ne", "ult", "ule", "ugt", "uge"}
  BY <1>1, <1>3 DEF emitVectorSelectCompareTo, Holds, vmsltu, vmsleu
<1> QED
  BY <1>2, <1>3 DEF Predicates

LEMMA CompareType ==
  ASSUME NEW pred, NEW a, NEW b
  PROVE  emitVectorSelectCompareTo(pred, a, b) \in BOOLEAN
  BY DEF emitVectorSelectCompareTo

LEMMA StridedSplit ==
  ASSUME NEW base \in Int, NEW i \in Int, NEW k \in Int, NEW d \in Int
  PROVE  base + i * d + k * d = base + (i + k) * d
  OBVIOUS

---------------------------------------------------------------------------
(* The table of emitters agrees with the classes of statements.            *)

LEMMA FormOfOp ==
  ASSUME NEW op \in Ops
  PROVE  LET f == emitStatement(op)
         IN  /\ f.load = IF op \in StridedLoads THEN "strided"
                         ELSE IF op \in IndexedLoads THEN "indexed" ELSE "unit"
             /\ f.store = IF op \in StridedStores THEN "strided"
                          ELSE IF op \in IndexedStores THEN "indexed" ELSE "unit"
             /\ f.binary <=> op \in Binary
             /\ f.mask = IF op \in MaskedLoads THEN "load"
                         ELSE IF op \in MaskedStores THEN "store"
                         ELSE IF op \in Merging THEN "merge" ELSE "none"
  BY DEF Ops, emitStatement, Form, StridedLoads, IndexedLoads, StridedStores,
         IndexedStores, Binary, MaskedBinary, MaskedLoads, MaskedStores, Merging,
         emitVectorAdd, emitVectorMul, emitVectorCopy, emitVectorScale,
         emitVectorWidenAdd, emitVectorSelect, emitVectorStridedLoad,
         emitVectorIndexedLoad, emitVectorStridedStore, emitVectorIndexedStore,
         emitVectorMaskedBinary, emitVectorMaskedLoad, emitVectorMaskedStore,
         emitVectorMaskedStridedLoad, emitVectorMaskedIndexedLoad,
         emitVectorMaskedStridedStore, emitVectorMaskedIndexedStore

LEMMA InstructionComputes ==
  ASSUME NEW s \in Statement, NEW a, NEW b
  PROVE  Instruction(emitStatement(s.op).instruction, a, b, s.factor)
           = Compute(s, a, b)
<1>1. s.op \in Ops
  BY DEF Statement
<1> QED
  BY <1>1
  DEF Ops, emitStatement, Form, Instruction, Compute, MaskedBinary,
      getVectorMaskedBinaryInstruction,
         emitVectorAdd, emitVectorMul, emitVectorCopy, emitVectorScale,
         emitVectorWidenAdd, emitVectorSelect, emitVectorStridedLoad,
         emitVectorIndexedLoad, emitVectorStridedStore, emitVectorIndexedStore,
         emitVectorMaskedBinary, emitVectorMaskedLoad, emitVectorMaskedStore,
         emitVectorMaskedStridedLoad, emitVectorMaskedIndexedLoad,
         emitVectorMaskedStridedStore, emitVectorMaskedIndexedStore

---------------------------------------------------------------------------
(* The inductive invariant: the mask register, once set, is the mask of    *)
(* the strip's lanes in the initial memory.                                *)

MaskReflectsInitialMemory ==
  pc \in {"load", "store"} /\ form.mask # "none" =>
    /\ v0 \in [Body -> BOOLEAN]
    /\ \A k \in Body : v0[k] <=> LaneMask(stmt, mem0, index + k)

IInv ==
  /\ TypeOK
  /\ StripWithinLength
  /\ PrefixDone
  /\ MaskReflectsInitialMemory
  /\ StripReadsInitialMemory

(* What the input of a run satisfies.                                      *)
LEMMA InputFacts ==
  ASSUME DisciplinedInputs, TypeOK
  PROVE  /\ stmt \in Statement /\ stmt.op \in Ops
         /\ stmt.n \in Nat /\ Length = stmt.n
         /\ stmt.mask.pred \in Predicates
         /\ mem0 \in Memory
         /\ InBounds(stmt, mem0)
         /\ NoForwardOverlap(stmt, mem0)
         /\ SmallIndices(stmt, mem0)
<1> DEFINE input == [stmt |-> stmt, mem |-> mem0]
<1>1. input \in Inputs /\ input.stmt = stmt /\ input.mem = mem0
  BY DEF TypeOK
<1>2. Disciplined(input) /\ input.stmt.n < XMod
  BY <1>1 DEF DisciplinedInputs
<1>3. stmt \in Statement /\ mem0 \in Memory
  BY <1>1, InputsAssumption
<1>4. stmt.n \in Nat /\ stmt.n < XMod
  BY <1>1, <1>2, <1>3 DEF Disciplined, Statement
<1>5. Length = stmt.n
  BY <1>4, XModAssumption DEF Length
<1> QED
  BY <1>1, <1>2, <1>3, <1>4, <1>5 DEF Disciplined, Statement

(* Every lane of the strip reads the memory the statement started from.    *)
LEMMA StripUndisturbed ==
  ASSUME DisciplinedInputs, IInv, pc \in {"mask", "load"}, NEW k \in Body
  PROVE  /\ index + k \in 0 .. stmt.n - 1
         /\ \A a \in Reads(stmt, mem0, index + k) :
              a \in Addr /\ mem[a] = mem0[a]
<1> USE InputFacts DEF IInv
<1>1. index \in Nat /\ vl \in Nat /\ index + vl <= stmt.n /\ k \in 0 .. vl - 1
  BY DEF TypeOK, StripWithinLength, Body
<1>2. index + k \in index .. stmt.n - 1
  BY <1>1
<1>3. Outcome(stmt, index, mem0, mem)
  BY DEF PrefixDone, LanesDone
<1> QED
  BY <1>1, <1>2, <1>3, Undisturbed

LEMMA InitIInv ==
  ASSUME DisciplinedInputs, Init
  PROVE  IInv
<1>1. PICK input \in Inputs : stmt = input.stmt /\ mem = input.mem
  BY DEF Init
<1>2. input \in [stmt : Statement, mem : Memory]
  BY InputsAssumption
<1>3. input = [stmt |-> stmt, mem |-> mem0]
  BY <1>1, <1>2 DEF Init
<1>4. LaneVector(NoLanes, BOOLEAN) /\ LaneVector(NoLanes, Val)
      /\ LaneVector(NoLanes, Nat)
  <2>1. \A S : NoLanes \in [0 .. 0 - 1 -> S]
    BY DEF NoLanes
  <2>2. 0 \in 0 .. VLMax
    BY VLMaxAssumption
  <2> QED
    BY <2>1, <2>2 DEF LaneVector
<1>5. TypeOK
  BY <1>1, <1>2, <1>3, <1>4, VLMaxAssumption DEF Init, TypeOK
<1>6. StripWithinLength
  BY <1>5, InputFacts DEF Init, StripWithinLength
<1>7. PrefixDone
  BY DEF Init, PrefixDone, LanesDone, Outcome
<1> QED
  BY <1>5, <1>6, <1>7
  DEF Init, IInv, MaskReflectsInitialMemory, StripReadsInitialMemory

LEMMA ExitIInv ==
  ASSUME DisciplinedInputs, IInv, Exit
  PROVE  IInv'
<1> USE InputFacts DEF Exit, registers
<1>1. TypeOK'
  BY DEF IInv, TypeOK
<1>2. StripWithinLength'
  BY DEF IInv, TypeOK, StripWithinLength
<1>3. PrefixDone'
  BY DEF IInv, PrefixDone, LanesDone
<1> QED
  BY <1>1, <1>2, <1>3
  DEF IInv, MaskReflectsInitialMemory, StripReadsInitialMemory

LEMMA HeadIInv ==
  ASSUME DisciplinedInputs, IInv, Head
  PROVE  IInv'
<1> USE InputFacts DEF Head, registers
<1>1. vl' \in 1 .. VLMax /\ vl' <= stmt.n - index
  BY DEF IInv, VLChoices
<1>2. TypeOK'
  BY <1>1, VLMaxAssumption DEF IInv, TypeOK
<1>3. StripWithinLength'
  BY <1>1, VLMaxAssumption DEF IInv, TypeOK, StripWithinLength
<1>4. PrefixDone'
  BY DEF IInv, PrefixDone, LanesDone
<1>5. MaskReflectsInitialMemory'
  BY DEF MaskReflectsInitialMemory, form
<1> QED
  BY <1>2, <1>3, <1>4, <1>5 DEF IInv, StripReadsInitialMemory

LEMMA MaskIInv ==
  ASSUME DisciplinedInputs, IInv, Mask
  PROVE  IInv'
<1> USE InputFacts DEF Mask
<1>1. TypeOK
  BY DEF IInv
<1>2. vl \in 0 .. VLMax /\ Body = 0 .. vl - 1
  BY <1>1 DEF TypeOK, Body
<1>3. v0' \in [Body -> BOOLEAN]
  BY CompareType
<1>4. TypeOK'
  BY <1>1, <1>2, <1>3 DEF TypeOK, LaneVector
<1>5. StripWithinLength'
  BY DEF IInv, StripWithinLength
<1>6. PrefixDone'
  BY DEF IInv, PrefixDone, LanesDone
<1>7. MaskReflectsInitialMemory'
  <2> SUFFICES ASSUME form.mask # "none", NEW k \in Body
               PROVE  v0'[k] <=> LaneMask(stmt, mem0, index + k)
    BY <1>3 DEF MaskReflectsInitialMemory, form, Body
  <2>1. stmt.op \in Merging \cup MaskedStores
    <3>1. MaskedLoads \subseteq Merging
      BY DEF Merging
    <3> QED
      BY <1>1, <3>1, FormOfOp DEF form
  <2>2. /\ stmt.mask.lhs \in Int /\ stmt.mask.rhs \in Int
        /\ index \in Int /\ k \in Int
    BY <1>1, <1>2 DEF TypeOK, Statement
  <2>3. /\ stmt.mask.lhs + index + k = stmt.mask.lhs + (index + k)
        /\ stmt.mask.rhs + index + k = stmt.mask.rhs + (index + k)
    BY <2>2
  <2>4. \A a \in {stmt.mask.lhs + (index + k), stmt.mask.rhs + (index + k)} :
           mem[a] = mem0[a] /\ mem0[a] \in Val
    BY <1>1, <2>1, StripUndisturbed, ReadsFacts DEF Memory
  <2> QED
    BY <1>1, <2>3, <2>4, CompareIsPredicate DEF LaneMask
<1> QED
  BY <1>4, <1>5, <1>6, <1>7 DEF IInv, StripReadsInitialMemory

LEMMA AdvanceIInv ==
  ASSUME DisciplinedInputs, IInv, Advance
  PROVE  IInv'
<1> USE InputFacts DEF Advance, registers
<1>1. TypeOK'
  BY DEF IInv, TypeOK
<1>2. StripWithinLength'
  BY DEF IInv, TypeOK, StripWithinLength
<1>3. PrefixDone'
  BY DEF IInv, PrefixDone, LanesDone
<1> QED
  BY <1>1, <1>2, <1>3
  DEF IInv, MaskReflectsInitialMemory, StripReadsInitialMemory

(* The mask decides a lane of the emitted code as it decides the scalar    *)
(* lane.                                                                   *)
LEMMA MaskClasses ==
  ASSUME NEW s \in Statement
  PROVE  LET f == emitStatement(s.op)
         IN  /\ f.mask = "load" <=> s.op \in MaskedLoads
             /\ f.mask = "store" <=> s.op \in MaskedStores
             /\ f.mask \in {"merge", "load"} <=> s.op \in Merging
             /\ f.mask # "none" <=> s.op \in Merging \cup MaskedStores
<1>1. s.op \in Ops
  BY DEF Statement
<1>2. MaskedLoads \subseteq Merging
  BY DEF Merging
<1>3. MaskedStores \cap Merging = {}
  BY DEF MaskedStores, Merging, MaskedLoads, MaskedBinary
<1> QED
  BY <1>1, <1>2, <1>3, FormOfOp

LEMMA LoadIInv ==
  ASSUME DisciplinedInputs, IInv, Load
  PROVE  IInv'
<1> DEFINE j(k) == index + k
<1>1. TypeOK
  BY DEF IInv
<1>2. /\ vl \in 0 .. VLMax /\ Body = 0 .. vl - 1 /\ index \in Nat
      /\ mem \in Memory /\ mem0 \in Memory /\ stmt \in Statement
      /\ stmt.op \in Ops
  BY <1>1, InputFacts DEF TypeOK, Body
<1>3. ASSUME NEW k \in Body
      PROVE  /\ j(k) \in 0 .. stmt.n - 1 /\ k \in Nat /\ j(k) \in Nat
             /\ \A a \in Reads(stmt, mem0, j(k)) :
                  a \in Addr /\ mem[a] = mem0[a] /\ mem0[a] \in Val
  <2>1. k \in Nat /\ j(k) \in Nat
    BY <1>2, <1>3
  <2>2. /\ j(k) \in 0 .. stmt.n - 1
        /\ \A a \in Reads(stmt, mem0, j(k)) : a \in Addr /\ mem[a] = mem0[a]
    BY <1>3, StripUndisturbed DEF Load
  <2> QED
    BY <1>2, <2>1, <2>2 DEF Memory
<1>4. ASSUME form.mask # "none", NEW k \in Body
      PROVE  v0[k] <=> LaneMask(stmt, mem0, j(k))
  BY <1>4 DEF IInv, MaskReflectsInitialMemory, Load
<1>5. ASSUME NEW k \in Body, stmt.op \in IndexedLoads \cup IndexedStores
      PROVE  /\ idx'[k] \in Nat
             /\ (stmt.op \in MaskedLoads \cup MaskedStores
                    => LaneMask(stmt, mem0, j(k)))
                  => idx'[k] = LaneIndex(stmt, mem0, j(k))
  <2> DEFINE v == mem0[stmt.indices + j(k)]
  <2>1. stmt.indices + index + k = stmt.indices + j(k)
    BY <1>2, <1>3 DEF Statement
  <2>2. mem[stmt.indices + j(k)] = v /\ v \in Val
    BY <1>2, <1>3, <1>5, ReadsFacts
  <2>3. "indexed" \in {form.load, form.store}
    BY <1>2, <1>5, FormOfOp DEF form, IndexedLoads, StridedLoads,
       IndexedStores, StridedStores
  <2>4. idx'[k] = EffectiveIndex(v)
    BY <2>1, <2>2, <2>3 DEF Load, Indices
  <2>5. (stmt.op \in MaskedLoads \cup MaskedStores
           => LaneMask(stmt, mem0, j(k))) => 4 * v < Modulus
    BY <1>1, <1>3, <1>5, InputFacts DEF SmallIndices
  <2> QED
    BY <2>2, <2>4, <2>5, SmallIndex, EffectiveIndexType DEF LaneIndex
<1>6. ASSUME NEW k \in Body,
             ~(stmt.op \in MaskedLoads /\ ~LaneMask(stmt, mem0, j(k)))
      PROVE  LaneAddress(form.load, stmt.lhs, idx', k) = Source(stmt, mem0, j(k))
  <2>1. stmt.lhs \in Int /\ stmt.stride \in Int
    BY <1>2 DEF Statement
  <2>2. CASE stmt.op \in StridedLoads
    <3>1. form.load = "strided"
      BY <1>2, <2>2, FormOfOp DEF form
    <3>2. stmt.lhs + index * stmt.stride + k * stmt.stride
            = stmt.lhs + j(k) * stmt.stride
      BY <1>2, <1>3, <2>1, StridedSplit
    <3> QED
      BY <2>2, <3>1, <3>2 DEF LaneAddress, Source
  <2>3. CASE stmt.op \in IndexedLoads
    <3>1. stmt.op \notin StridedLoads /\ stmt.op \notin MaskedStores
      BY <2>3 DEF StridedLoads, IndexedLoads, MaskedStores
    <3>2. idx'[k] = LaneIndex(stmt, mem0, j(k))
      BY <1>5, <1>6, <2>3, <3>1
    <3>3. form.load = "indexed"
      BY <1>2, <2>3, <3>1, FormOfOp DEF form
    <3> QED
      BY <2>3, <3>1, <3>2, <3>3 DEF LaneAddress, Source
  <2>4. CASE stmt.op \notin StridedLoads \cup IndexedLoads
    BY <1>2, <1>3, <2>1, <2>4, FormOfOp DEF LaneAddress, Source, form
  <2> QED
    BY <2>2, <2>3, <2>4
<1>7. ASSUME NEW k \in Body, Writes(stmt, mem0, j(k))
      PROVE  StoreAddress(k)' = Destination(stmt, mem0, j(k))
  <2>1. stmt.out \in Int /\ stmt.stride \in Int
    BY <1>2 DEF Statement
  <2>2. StoreAddress(k)' = LaneAddress(form.store, stmt.out, idx', k)
    BY DEF Load, StoreAddress, LaneAddress, form
  <2>3. CASE stmt.op \in StridedStores
    <3>1. form.store = "strided"
      BY <1>2, <2>3, FormOfOp DEF form
    <3>2. stmt.out + index * stmt.stride + k * stmt.stride
            = stmt.out + j(k) * stmt.stride
      BY <1>2, <1>3, <2>1, StridedSplit
    <3> QED
      BY <2>2, <2>3, <3>1, <3>2 DEF LaneAddress, Destination
  <2>4. CASE stmt.op \in IndexedStores
    <3>1. stmt.op \notin StridedStores /\ stmt.op \notin MaskedLoads
      BY <2>4 DEF StridedStores, IndexedStores, MaskedLoads
    <3>2. idx'[k] = LaneIndex(stmt, mem0, j(k))
      BY <1>5, <1>7, <2>4, <3>1 DEF Writes
    <3>3. form.store = "indexed"
      BY <1>2, <2>4, <3>1, FormOfOp DEF form
    <3> QED
      BY <2>2, <2>4, <3>1, <3>2, <3>3 DEF LaneAddress, Destination
  <2>5. CASE stmt.op \notin StridedStores \cup IndexedStores
    BY <1>2, <1>3, <2>1, <2>2, <2>5, FormOfOp DEF LaneAddress, Destination, form
  <2> QED
    BY <2>3, <2>4, <2>5
<1>8. PICK agnostic \in {0, Modulus - 1} :
        x' = [k \in Body |->
                IF form.mask = "load" /\ ~v0[k] THEN agnostic
                ELSE mem[LaneAddress(form.load, stmt.lhs, idx', k)]]
  BY DEF Load
<1>9. ASSUME NEW k \in Body,
             ~(stmt.op \in MaskedLoads /\ ~LaneMask(stmt, mem0, j(k)))
      PROVE  /\ x'[k] = mem0[Source(stmt, mem0, j(k))]
             /\ mem0[Source(stmt, mem0, j(k))] \in Val
  <2>1. ~(form.mask = "load" /\ ~v0[k])
    BY <1>2, <1>4, <1>9, MaskClasses DEF form
  <2>2. x'[k] = mem[Source(stmt, mem0, j(k))]
    BY <1>6, <1>8, <1>9, <2>1
  <2> QED
    BY <1>2, <1>3, <1>9, <2>2, ReadsFacts
<1>10. x' \in [Body -> Val]
  <2>1. ASSUME NEW k \in Body
        PROVE  x'[k] \in Val
    <3>1. CASE stmt.op \in MaskedLoads /\ ~LaneMask(stmt, mem0, j(k))
      <4>1. form.mask = "load" /\ ~v0[k]
        BY <1>2, <1>4, <3>1, MaskClasses DEF form
      <4>2. x'[k] = agnostic
        BY <1>8, <4>1
      <4> QED
        BY <4>2, ModulusAssumption DEF Val
    <3> QED
      BY <1>9, <3>1
  <2> QED
    BY <1>8, <2>1
<1>11. y' = IF form.binary THEN [k \in Body |-> mem0[stmt.rhs + j(k)]]
            ELSE NoLanes
  <2>1. ASSUME NEW k \in Body, form.binary
        PROVE  mem[stmt.rhs + index + k] = mem0[stmt.rhs + j(k)]
    <3>1. stmt.op \in Binary
      BY <1>2, <2>1, FormOfOp DEF form
    <3>2. stmt.rhs + index + k = stmt.rhs + j(k)
      BY <1>2, <1>3 DEF Statement
    <3> QED
      BY <1>2, <1>3, <3>1, <3>2, ReadsFacts
  <2> QED
    BY <2>1 DEF Load
<1>12. p' = IF form.mask \in {"merge", "load"}
              THEN [k \in Body |-> mem0[stmt.pass + j(k)]] ELSE NoLanes
  <2>1. ASSUME NEW k \in Body, form.mask \in {"merge", "load"}
        PROVE  mem[stmt.pass + index + k] = mem0[stmt.pass + j(k)]
    <3>1. stmt.op \in Merging
      BY <1>2, <2>1, MaskClasses DEF form
    <3>2. stmt.pass + index + k = stmt.pass + j(k)
      BY <1>2, <1>3 DEF Statement
    <3> QED
      BY <1>2, <1>3, <3>1, <3>2, ReadsFacts
  <2> QED
    BY <2>1 DEF Load
<1>13. LaneVector(y, Val)' /\ LaneVector(p, Val)' /\ LaneVector(x, Val)'
  <2>1. \A S : NoLanes \in [0 .. 0 - 1 -> S]
    BY DEF NoLanes
  <2>2. 0 \in 0 .. VLMax
    BY VLMaxAssumption
  <2>3. ASSUME form.binary PROVE y' \in [Body -> Val]
    <3>1. ASSUME NEW k \in Body PROVE mem0[stmt.rhs + j(k)] \in Val
      BY <1>2, <1>3, <2>3, ReadsFacts, FormOfOp DEF form
    <3> QED
      BY <1>11, <2>3, <3>1
  <2>4. ASSUME form.mask \in {"merge", "load"} PROVE p' \in [Body -> Val]
    <3>1. ASSUME NEW k \in Body PROVE mem0[stmt.pass + j(k)] \in Val
      BY <1>2, <1>3, <2>4, ReadsFacts, MaskClasses DEF form
    <3> QED
      BY <1>12, <2>4, <3>1
  <2>5. LaneVector(y, Val)'
    BY <1>2, <1>11, <2>1, <2>2, <2>3 DEF LaneVector
  <2>6. LaneVector(p, Val)'
    BY <1>2, <1>12, <2>1, <2>2, <2>4 DEF LaneVector
  <2> QED
    BY <1>2, <1>10, <2>5, <2>6 DEF LaneVector
<1>14. LaneVector(idx, Nat)'
  <2>1. \A S : NoLanes \in [0 .. 0 - 1 -> S]
    BY DEF NoLanes
  <2>2. 0 \in 0 .. VLMax
    BY VLMaxAssumption
  <2>3. CASE "indexed" \in {form.load, form.store}
    <3>1. stmt.op \in IndexedLoads \cup IndexedStores
      BY <1>2, <2>3, FormOfOp DEF form
    <3>2. idx' = [k \in Body |-> idx'[k]]
      BY <2>3 DEF Load, Indices
    <3>3. idx' \in [Body -> Nat]
      BY <1>5, <3>1, <3>2
    <3> QED
      BY <1>2, <3>3 DEF LaneVector
  <2>4. CASE "indexed" \notin {form.load, form.store}
    BY <2>1, <2>2, <2>4 DEF Load, LaneVector
  <2> QED
    BY <2>3, <2>4
<1>15. TypeOK'
  <2>1. LaneVector(v0, BOOLEAN)'
    BY <1>1 DEF TypeOK, LaneVector, Load
  <2> QED
    BY <1>1, <1>13, <1>14, <2>1 DEF TypeOK, Load
<1>16. StripReadsInitialMemory'
  <2> SUFFICES ASSUME NEW k \in Body
               PROVE  /\ (form.mask = "store" => v0[k])
                            <=> Writes(stmt, mem0, j(k))
                      /\ Writes(stmt, mem0, j(k)) =>
                           LaneResult(k)' = Result(stmt, mem0, j(k))
    BY <1>7 DEF Load, StripReadsInitialMemory, Body, form
  <2>1. (form.mask = "store" => v0[k]) <=> Writes(stmt, mem0, j(k))
    BY <1>2, <1>4, MaskClasses DEF form, Writes
  <2>2. LaneResult(k)' = IF form.mask \in {"merge", "load"} /\ ~v0[k] THEN p'[k]
                         ELSE Instruction(form.instruction, x'[k],
                                IF form.binary THEN y'[k] ELSE 0, stmt.factor)
    BY DEF LaneResult, form, Load
  <2>3. CASE form.mask \in {"merge", "load"} /\ ~v0[k]
    <3>1. stmt.op \in Merging /\ ~LaneMask(stmt, mem0, j(k))
      BY <1>2, <1>4, <2>3, MaskClasses DEF form
    <3> QED
      BY <1>12, <2>1, <2>2, <2>3, <3>1 DEF Result
  <2>4. CASE ~(form.mask \in {"merge", "load"} /\ ~v0[k])
    <3>1. ~(stmt.op \in Merging /\ ~LaneMask(stmt, mem0, j(k)))
      BY <1>2, <1>4, <2>4, MaskClasses DEF form
    <3>2. ~(stmt.op \in MaskedLoads /\ ~LaneMask(stmt, mem0, j(k)))
      BY <3>1 DEF Merging
    <3>3. (IF form.binary THEN y'[k] ELSE 0)
            = IF stmt.op \in Binary THEN mem0[stmt.rhs + j(k)] ELSE 0
      BY <1>2, <1>11, FormOfOp DEF form
    <3>4. LaneResult(k)' = Compute(stmt, mem0[Source(stmt, mem0, j(k))],
                             IF stmt.op \in Binary THEN mem0[stmt.rhs + j(k)] ELSE 0)
      BY <1>2, <1>9, <2>2, <2>4, <3>2, <3>3, InstructionComputes DEF form
    <3> QED
      BY <2>1, <3>1, <3>4 DEF Result
  <2> QED
    BY <2>1, <2>3, <2>4
<1>17. StripWithinLength'
  BY DEF IInv, StripWithinLength, Load
<1>18. PrefixDone'
  BY DEF IInv, PrefixDone, LanesDone, Load
<1>19. MaskReflectsInitialMemory'
  BY DEF IInv, MaskReflectsInitialMemory, Load, form, Body
<1> QED
  BY <1>15, <1>16, <1>17, <1>18, <1>19 DEF IInv

LEMMA StoreIInv ==
  ASSUME DisciplinedInputs, IInv, Store
  PROVE  IInv'
<1> DEFINE cells == {StoreAddress(k) : k \in ActiveLanes}
           W(k) == Writes(stmt, mem0, index + k)
           D(k) == Destination(stmt, mem0, index + k)
           R(k) == Result(stmt, mem0, index + k)
<1>1. TypeOK
  BY DEF IInv
<1>2. /\ vl \in 0 .. VLMax /\ Body = 0 .. vl - 1 /\ index \in Nat /\ vl \in Nat
      /\ mem \in Memory /\ mem0 \in Memory /\ stmt \in Statement
      /\ index + vl <= stmt.n /\ pc = "store" /\ stmt.n \in Nat
  BY <1>1, InputFacts DEF IInv, TypeOK, StripWithinLength, Body, Store
<1>3. PICK winner \in [cells -> ActiveLanes] :
        /\ \A a \in cells : StoreAddress(winner[a]) = a
        /\ mem' = [a \in Addr |-> IF a \in cells THEN LaneResult(winner[a])
                                  ELSE mem[a]]
  BY DEF Store
<1>4. \A k \in Body : /\ k \in ActiveLanes <=> W(k)
                      /\ W(k) => StoreAddress(k) = D(k) /\ LaneResult(k) = R(k)
  BY <1>2 DEF IInv, StripReadsInitialMemory, ActiveLanes
<1>5. ActiveLanes = {k \in Body : W(k)}
  BY <1>4 DEF ActiveLanes
<1>6. ASSUME NEW k \in Body PROVE R(k) \in Val
  <2>1. index + k \in 0 .. stmt.n - 1
    BY <1>2
  <2> QED
    BY <1>1, <1>2, <2>1, InputFacts, ResultType DEF InBounds
<1>7. ASSUME NEW a \in cells
      PROVE  /\ winner[a] \in Body /\ W(winner[a]) /\ D(winner[a]) = a
             /\ LaneResult(winner[a]) = R(winner[a])
  BY <1>3, <1>4, <1>5, <1>7
<1>8. ASSUME NEW a \in Addr
      PROVE  \/ \E k \in 0 .. vl - 1 : W(k) /\ D(k) = a /\ mem'[a] = R(k)
             \/ /\ mem'[a] = mem[a]
                /\ \A k \in 0 .. vl - 1 : ~(W(k) /\ D(k) = a)
  <2>1. CASE a \in cells
    BY <1>2, <1>3, <1>7, <2>1
  <2>2. CASE a \notin cells
    <3>1. mem'[a] = mem[a]
      BY <1>3, <2>2
    <3>2. \A k \in Body : ~(W(k) /\ D(k) = a)
      BY <1>4, <1>5, <2>2
    <3> QED
      BY <1>2, <3>1, <3>2
  <2> QED
    BY <2>1, <2>2
<1>9. mem' \in Memory
  <2>1. ASSUME NEW a \in Addr PROVE mem'[a] \in Val
    BY <1>2, <1>6, <1>8 DEF Memory
  <2> QED
    BY <1>3, <2>1 DEF Memory
<1>10. TypeOK'
  BY <1>1, <1>9 DEF TypeOK, LaneVector, Store, registers
<1>11. PrefixDone'
  <2>1. Outcome(stmt, index, mem0, mem)
    BY <1>2 DEF IInv, PrefixDone, LanesDone
  <2>2. Outcome(stmt, index + vl, mem0, mem')
    BY <1>2, <1>8, <2>1, OneMoreStrip
  <2> QED
    BY <2>2 DEF PrefixDone, LanesDone, Store
<1>12. StripWithinLength'
  BY DEF IInv, StripWithinLength, Store
<1> QED
  BY <1>10, <1>11, <1>12
  DEF IInv, MaskReflectsInitialMemory, StripReadsInitialMemory, Store

---------------------------------------------------------------------------
(* Safety of the loop.                                                     *)

LEMMA NextIInv ==
  ASSUME DisciplinedInputs, IInv, [Next]_vars
  PROVE  IInv'
<1>1. CASE Exit    BY <1>1, ExitIInv
<1>2. CASE Head    BY <1>2, HeadIInv
<1>3. CASE Mask    BY <1>3, MaskIInv
<1>4. CASE Load    BY <1>4, LoadIInv
<1>5. CASE Store   BY <1>5, StoreIInv
<1>6. CASE Advance BY <1>6, AdvanceIInv
<1>7. CASE UNCHANGED vars
  <2> USE <1>7 DEF vars
  <2>1. TypeOK'
    BY DEF IInv, TypeOK, LaneVector
  <2>2. StripWithinLength' /\ PrefixDone'
    BY DEF IInv, StripWithinLength, PrefixDone, LanesDone
  <2>3. MaskReflectsInitialMemory'
    BY DEF IInv, MaskReflectsInitialMemory, form, Body
  <2>4. StripReadsInitialMemory'
    BY DEF IInv, StripReadsInitialMemory, form, Body, StoreAddress,
           LaneAddress, LaneResult
  <2> QED
    BY <2>1, <2>2, <2>3, <2>4 DEF IInv
<1> QED
  BY <1>1, <1>2, <1>3, <1>4, <1>5, <1>6, <1>7 DEF Next

(* The loop keeps its inductive invariant, for disciplined inputs.         *)
THEOREM LoopInvariant ==
  ASSUME DisciplinedInputs
  PROVE  Spec => []IInv
<1>1. Init => IInv
  BY InitIInv
<1>2. IInv /\ [Next]_vars => IInv'
  BY NextIInv
<1> QED
  BY <1>1, <1>2, PTL DEF Spec

(* No step of the loop leaves the memory and register types: in particular *)
(* no access leaves the buffers that the scalar loop would touch.          *)
THEOREM TypeCorrect ==
  ASSUME DisciplinedInputs
  PROVE  Spec => []TypeOK
<1>1. IInv => TypeOK
  BY DEF IInv
<1> QED
  BY <1>1, LoopInvariant, PTL

(* The strips partition the element count, whatever vsetvli returns.       *)
THEOREM StripsStayWithinLength ==
  ASSUME DisciplinedInputs
  PROVE  Spec => []StripWithinLength
<1>1. IInv => StripWithinLength
  BY DEF IInv
<1> QED
  BY <1>1, LoopInvariant, PTL

(* Memory is at every point what the finished lanes make of the initial    *)
(* memory, and nothing else has changed.                                   *)
THEOREM MemoryIsPrefix ==
  ASSUME DisciplinedInputs
  PROVE  Spec => []PrefixDone
<1>1. IInv => PrefixDone
  BY DEF IInv
<1> QED
  BY <1>1, LoopInvariant, PTL

(* Every strip computes from the memory the statement started from.        *)
THEOREM StripsReadInitialMemory ==
  ASSUME DisciplinedInputs
  PROVE  Spec => []StripReadsInitialMemory
<1>1. IInv => StripReadsInitialMemory
  BY DEF IInv
<1> QED
  BY <1>1, LoopInvariant, PTL

---------------------------------------------------------------------------
(* Refinement.                                                             *)

(* The instance's operators are those of VectorLanes.                      *)
LEMMA InstanceOutcome ==
  \A s, n, m0, m : Abstract!Outcome(s, n, m0, m) <=> Outcome(s, n, m0, m)
<1>1. \A s, m, i : Abstract!LaneMask(s, m, i) <=> LaneMask(s, m, i)
  BY DEF Abstract!LaneMask, LaneMask, Abstract!Holds, Holds, Abstract!Signed, Signed
<1>2. \A s, m, i : Abstract!LaneIndex(s, m, i) = LaneIndex(s, m, i)
  BY DEF Abstract!LaneIndex, LaneIndex, Abstract!Signed, Signed
<1>3. /\ Abstract!Merging = Merging /\ Abstract!Binary = Binary
      /\ Abstract!MaskedStores = MaskedStores
      /\ Abstract!StridedLoads = StridedLoads
      /\ Abstract!IndexedLoads = IndexedLoads
      /\ Abstract!StridedStores = StridedStores
      /\ Abstract!IndexedStores = IndexedStores
  BY DEF Abstract!Merging, Merging, Abstract!Binary, Binary,
         Abstract!MaskedStores, MaskedStores, Abstract!MaskedLoads, MaskedLoads,
         Abstract!MaskedBinary, MaskedBinary, Abstract!StridedLoads, StridedLoads,
         Abstract!IndexedLoads, IndexedLoads, Abstract!StridedStores,
         StridedStores, Abstract!IndexedStores, IndexedStores
<1>4. \A s, m, i : Abstract!Source(s, m, i) = Source(s, m, i)
  BY <1>2, <1>3 DEF Abstract!Source, Source
<1>5. \A s, m, i : Abstract!Destination(s, m, i) = Destination(s, m, i)
  BY <1>2, <1>3 DEF Abstract!Destination, Destination
<1>6. \A s, m, i : Abstract!Writes(s, m, i) <=> Writes(s, m, i)
  BY <1>1, <1>3 DEF Abstract!Writes, Writes
<1>7. \A s, a, b : Abstract!Compute(s, a, b) = Compute(s, a, b)
  BY DEF Abstract!Compute, Compute, Abstract!Wrap, Wrap,
         Abstract!SignedNarrow, SignedNarrow
<1>8. \A s, m, i : Abstract!Result(s, m, i) = Result(s, m, i)
  BY <1>1, <1>3, <1>4, <1>7 DEF Abstract!Result, Result
<1> QED
  BY <1>5, <1>6, <1>8 DEF Abstract!Outcome, Outcome

(* The loop implements the statement: from the memory it starts with it    *)
(* reaches, at its end label, a memory the scalar meaning allows, for any  *)
(* sequence of vector lengths.                                             *)
THEOREM LoopImplementsStatement ==
  ASSUME DisciplinedInputs
  PROVE  Spec => ImplementsStatement
<1>1. Init => Abstract!SInit
  <2> SUFFICES ASSUME Init PROVE Abstract!SInit
    OBVIOUS
  <2>1. PICK input \in Inputs : stmt = input.stmt /\ mem = input.mem
    BY DEF Init
  <2>2. [stmt |-> stmt, mem |-> mem0] = input
    BY <2>1, InputsAssumption DEF Init
  <2> QED
    BY <2>2 DEF Abstract!SInit, Init
<1>2. IInv /\ [Next]_vars => [Abstract!SNext]_(Abstract!svars)
  <2> SUFFICES ASSUME IInv, [Next]_vars
               PROVE  [Abstract!SNext]_(Abstract!svars)
    OBVIOUS
  <2>1. CASE Exit
    <3>1. pc = "head" /\ pc' = "end" /\ mem' = mem /\ stmt' = stmt
      BY <2>1 DEF Exit
    <3>2. index = stmt.n
      BY <2>1, InputFacts DEF Exit, IInv, TypeOK, StripWithinLength
    <3>3. Outcome(stmt, stmt.n, mem0, mem)
      BY <3>1, <3>2 DEF IInv, PrefixDone, LanesDone
    <3>4. mem \in Abstract!Memory
      BY DEF IInv, TypeOK, Memory, Val, Abstract!Memory, Abstract!Val
    <3> QED
      BY <3>1, <3>3, <3>4, InstanceOutcome
      DEF Abstract!SNext, Abstract!Execute
  <2>2. CASE Head \/ Mask \/ Load \/ Store \/ Advance
    BY <2>2 DEF Head, Mask, Load, Store, Advance, Abstract!svars
  <2>3. CASE UNCHANGED vars
    BY <2>3 DEF vars, Abstract!svars
  <2> QED
    BY <2>1, <2>2, <2>3 DEF Next
<1> QED
  BY <1>1, <1>2, LoopInvariant, PTL
  DEF Spec, ImplementsStatement, Abstract!SSpec
=============================================================================
