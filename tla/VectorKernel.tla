---------------------------- MODULE VectorKernel ----------------------------
(***************************************************************************)
(* The RISC-V vector loop that the direct RVV backend emits for a vector   *)
(* statement (FunctionEmitter in lib/CodeGen/CodeGen.cpp), executed on a   *)
(* machine whose vsetvli may choose any vector length the RVV 1.0          *)
(* specification lets it choose.                                           *)
(*                                                                         *)
(*     li index, 0                                                         *)
(*   loop: bgeu index, n, end        Head                                  *)
(*     sub vl, n, index                                                    *)
(*     vsetvli vl, vl, ...                                                 *)
(*     <mask into v0>                Mask    (masked forms and select)     *)
(*     <loads>                       Load                                  *)
(*     <arithmetic> <store>          Store                                 *)
(*     add index, index, vl          Advance                               *)
(*     j loop                                                              *)
(*   end:                                                                  *)
(*                                                                         *)
(* What the emitters do differently is a table: how the data operand and   *)
(* the destination are addressed, what the mask does, which instruction    *)
(* computes.  Addresses count elements: the emitted code shifts element    *)
(* offsets left by log2 of the element size, which is a renaming of cells  *)
(* except for indexed accesses, where the shift happens in SEW bits and    *)
(* loses bits (EffectiveIndex).                                            *)
(***************************************************************************)
EXTENDS VectorLanes, RVV

---------------------------------------------------------------------------
(* The emitters.                                                           *)

Form(load, binary, instruction, mask, store) ==
  [ load |-> load, binary |-> binary, instruction |-> instruction,
    mask |-> mask, store |-> store ]

emitVectorAdd      == Form("unit", TRUE, "vadd.vv", "none", "unit")
emitVectorMul      == Form("unit", TRUE, "vmul.vv", "none", "unit")
emitVectorCopy     == Form("unit", FALSE, "none", "none", "unit")
emitVectorScale    == Form("unit", FALSE, "vmul.vx", "none", "unit")
emitVectorWidenAdd == Form("unit", TRUE, "vwadd.vv", "none", "unit")
emitVectorSelect   == Form("unit", FALSE, "none", "merge", "unit")

emitVectorStridedLoad  == Form("strided", FALSE, "none", "none", "unit")
emitVectorIndexedLoad  == Form("indexed", FALSE, "none", "none", "unit")
emitVectorStridedStore == Form("unit", FALSE, "none", "none", "strided")
emitVectorIndexedStore == Form("unit", FALSE, "none", "none", "indexed")

getVectorMaskedBinaryInstruction(op) ==
  CASE op = "vector_masked_add" -> "vadd.vv"
    [] op = "vector_masked_sub" -> "vsub.vv"
    [] op = "vector_masked_mul" -> "vmul.vv"

emitVectorMaskedBinary(op) ==
  Form("unit", TRUE, getVectorMaskedBinaryInstruction(op), "merge", "unit")

emitVectorMaskedLoad         == Form("unit", FALSE, "none", "load", "unit")
emitVectorMaskedStridedLoad  == Form("strided", FALSE, "none", "load", "unit")
emitVectorMaskedIndexedLoad  == Form("indexed", FALSE, "none", "load", "unit")
(* Faulty: vse32.v without v0.t.                                           *)
emitVectorMaskedStoreUnmasked == Form("unit", FALSE, "none", "none", "unit")

emitVectorMaskedStore        == Form("unit", FALSE, "none", "store", "unit")
emitVectorMaskedStridedStore == Form("unit", FALSE, "none", "store", "strided")
emitVectorMaskedIndexedStore == Form("unit", FALSE, "none", "store", "indexed")

(* emitStatement's dispatch on the kind of the statement.                  *)
emitStatement(op) ==
  CASE op = "vector_add"                   -> emitVectorAdd
    [] op = "vector_mul"                   -> emitVectorMul
    [] op = "vector_copy"                  -> emitVectorCopy
    [] op = "vector_scale"                 -> emitVectorScale
    [] op = "vector_widen_add_i16_i32"     -> emitVectorWidenAdd
    [] op = "vector_select"                -> emitVectorSelect
    [] op = "vector_strided_load"          -> emitVectorStridedLoad
    [] op = "vector_indexed_load"          -> emitVectorIndexedLoad
    [] op = "vector_strided_store"         -> emitVectorStridedStore
    [] op = "vector_indexed_store"         -> emitVectorIndexedStore
    [] op \in MaskedBinary                 -> emitVectorMaskedBinary(op)
    [] op = "vector_masked_load"           -> emitVectorMaskedLoad
    [] op = "vector_masked_strided_load"   -> emitVectorMaskedStridedLoad
    [] op = "vector_masked_indexed_load"   -> emitVectorMaskedIndexedLoad
    [] op = "vector_masked_store"          -> emitVectorMaskedStore
    [] op = "vector_masked_strided_store"  -> emitVectorMaskedStridedStore
    [] op = "vector_masked_indexed_store"  -> emitVectorMaskedIndexedStore

---------------------------------------------------------------------------
(* The vector instructions, on one lane.                                   *)

vmslt(a, b)  == Signed(a) < Signed(b)
vmsle(a, b)  == Signed(a) <= Signed(b)
vmsltu(a, b) == a < b
vmsleu(a, b) == a <= b

(* Faulty: the operands of gt and ugt are not swapped.                     *)
emitVectorSelectCompareToUnswapped(pred, lhs, rhs) ==
  \/ pred \in {"lt", "gt"}   /\ vmslt(lhs, rhs)
  \/ pred = "le"             /\ vmsle(lhs, rhs)
  \/ pred = "ge"             /\ vmsle(rhs, lhs)
  \/ pred = "eq"             /\ lhs = rhs
  \/ pred = "ne"             /\ lhs # rhs
  \/ pred \in {"ult", "ugt"} /\ vmsltu(lhs, rhs)
  \/ pred = "ule"            /\ vmsleu(lhs, rhs)
  \/ pred = "uge"            /\ vmsleu(rhs, lhs)

(* RVV has no greater-than comparison of two vectors: the emitter swaps    *)
(* the operands.                                                           *)
emitVectorSelectCompareTo(pred, lhs, rhs) ==
  \/ pred = "lt"  /\ vmslt(lhs, rhs)
  \/ pred = "le"  /\ vmsle(lhs, rhs)
  \/ pred = "gt"  /\ vmslt(rhs, lhs)
  \/ pred = "ge"  /\ vmsle(rhs, lhs)
  \/ pred = "eq"  /\ lhs = rhs
  \/ pred = "ne"  /\ lhs # rhs
  \/ pred = "ult" /\ vmsltu(lhs, rhs)
  \/ pred = "ule" /\ vmsleu(lhs, rhs)
  \/ pred = "ugt" /\ vmsltu(rhs, lhs)
  \/ pred = "uge" /\ vmsleu(rhs, lhs)

Instruction(name, a, b, factor) ==
  CASE name = "vadd.vv"  -> Wrap(a + b)
    [] name = "vsub.vv"  -> Wrap(a - b)
    [] name = "vmul.vv"  -> Wrap(a * b)
    [] name = "vmul.vx"  -> Wrap(a * factor)
    [] name = "vwadd.vv" -> Wrap(SignedNarrow(a) + SignedNarrow(b))
    [] name = "none"     -> a

(* vsll.vi idx, idx, 2 in SEW bits, used as an unsigned byte offset.       *)
EffectiveIndex(v) == Wrap(4 * v) \div 4

---------------------------------------------------------------------------
VARIABLES
  stmt,    \* the statement; its scalar operands sit in registers
  mem,     \* the memory of the program
  mem0,    \* history: the memory the statement started from
  pc,      \* where control is
  index,   \* the index register
  vl,      \* the vl register
  v0,      \* the mask register
  x, y, p, \* the data registers: first operand, second operand, passthrough
  idx      \* the register with the element indices

(* A register before it is first loaded, or that a form does not use.      *)
NoLanes == [k \in {} |-> 0]

registers == <<v0, x, y, p, idx>>
vars == <<stmt, mem, mem0, pc, index, vl, v0, x, y, p, idx>>

form == emitStatement(stmt.op)

(* The trip count as bgeu and sub see it.                                  *)
Length == stmt.n % XMod

Body == 0 .. vl - 1

Init ==
  /\ \E input \in Inputs : stmt = input.stmt /\ mem = input.mem
  /\ mem0 = mem
  /\ pc = "head"
  /\ index = 0
  /\ vl = 0
  /\ v0 = NoLanes /\ x = NoLanes /\ y = NoLanes /\ p = NoLanes /\ idx = NoLanes

(* Faulty: the loop ends one lane early.                                   *)
ExitEarly ==
  /\ pc = "head"
  /\ index + 1 >= Length
  /\ pc' = "end"
  /\ UNCHANGED <<stmt, mem, mem0, index, vl, registers>>

Exit ==
  /\ pc = "head"
  /\ index >= Length
  /\ pc' = "end"
  /\ UNCHANGED <<stmt, mem, mem0, index, vl, registers>>

(* Faulty: the remaining count is taken for the vector length.             *)
HeadUnclamped ==
  /\ pc = "head"
  /\ index < Length
  /\ vl' = Length - index
  /\ pc' = IF form.mask = "none" THEN "load" ELSE "mask"
  /\ UNCHANGED <<stmt, mem, mem0, index, registers>>

Head ==
  /\ pc = "head"
  /\ index < Length
  /\ vl' \in VLChoices(Length - index)
  /\ pc' = IF form.mask = "none" THEN "load" ELSE "mask"
  /\ UNCHANGED <<stmt, mem, mem0, index, registers>>

(* emitCompareMaskInto and vector_select's own comparison: both operands   *)
(* are loaded unit-stride and compared into v0.                            *)
Mask ==
  /\ pc = "mask"
  /\ v0' = [k \in Body |->
              emitVectorSelectCompareTo(stmt.mask.pred,
                                        mem[stmt.mask.lhs + index + k],
                                        mem[stmt.mask.rhs + index + k])]
  /\ pc' = "load"
  /\ UNCHANGED <<stmt, mem, mem0, index, vl, x, y, p, idx>>

Indices ==
  [k \in Body |-> EffectiveIndex(mem[stmt.indices + index + k])]

(* The address of lane k of an operand, from the operand's addressing      *)
(* mode; a strided access starts at index * stride.                        *)
LaneAddress(mode, base, indices, k) ==
  CASE mode = "unit"    -> base + index + k
    [] mode = "strided" -> base + index * stmt.stride + k * stmt.stride
    [] mode = "indexed" -> base + indices[k]

(* The lanes a predicated load leaves inactive hold whatever the hardware  *)
(* puts there (mask agnostic): what was there before or all ones.          *)
Load ==
  /\ pc = "load"
  /\ idx' = IF "indexed" \in {form.load, form.store} THEN Indices ELSE NoLanes
  /\ \E agnostic \in {0, Modulus - 1} :
       x' = [k \in Body |->
               IF form.mask = "load" /\ ~v0[k] THEN agnostic
               ELSE mem[LaneAddress(form.load, stmt.lhs, idx', k)]]
  /\ y' = IF form.binary THEN [k \in Body |-> mem[stmt.rhs + index + k]]
          ELSE NoLanes
  /\ p' = IF form.mask \in {"merge", "load"}
            THEN [k \in Body |-> mem[stmt.pass + index + k]] ELSE NoLanes
  /\ pc' = "store"
  /\ UNCHANGED <<stmt, mem, mem0, index, vl, v0>>

(* What lane k stores: the instruction, then vmerge.vvm with the           *)
(* passthrough in the forms that have one.                                 *)
LaneResult(k) ==
  IF form.mask \in {"merge", "load"} /\ ~v0[k] THEN p[k]
  ELSE Instruction(form.instruction, x[k], IF form.binary THEN y[k] ELSE 0,
                   stmt.factor)

StoreAddress(k) == LaneAddress(form.store, stmt.out, idx, k)

ActiveLanes == {k \in Body : form.mask = "store" => v0[k]}

(* The stores of one vector instruction are not ordered: of the lanes that *)
(* store to one cell any may win.                                          *)
Store ==
  /\ pc = "store"
  /\ LET cells == {StoreAddress(k) : k \in ActiveLanes}
     IN  \E winner \in [cells -> ActiveLanes] :
           /\ \A a \in cells : StoreAddress(winner[a]) = a
           /\ mem' = [a \in Addr |-> IF a \in cells THEN LaneResult(winner[a])
                                     ELSE mem[a]]
  /\ pc' = "advance"
  /\ UNCHANGED <<stmt, mem0, index, vl, registers>>

(* Faulty: every strip is taken for a full one.                            *)
AdvanceFullStrip ==
  /\ pc = "advance"
  /\ index' = index + VLMax
  /\ pc' = "head"
  /\ UNCHANGED <<stmt, mem, mem0, vl, registers>>

(* Faulty: the index is not advanced.                                      *)
AdvanceNot ==
  /\ pc = "advance"
  /\ pc' = "head"
  /\ UNCHANGED <<stmt, mem, mem0, index, vl, registers>>

Advance ==
  /\ pc = "advance"
  /\ index' = index + vl
  /\ pc' = "head"
  /\ UNCHANGED <<stmt, mem, mem0, vl, registers>>

Next == Exit \/ Head \/ Mask \/ Load \/ Store \/ Advance

(* The hart keeps executing instructions.                                  *)
Fairness == WF_vars(Next)

Spec == Init /\ [][Next]_vars

FairSpec == Spec /\ Fairness

---------------------------------------------------------------------------
(* The inputs the loop is meant for: see Disciplined; and the count fits   *)
(* the register.                                                           *)
DisciplinedInputs ==
  \A input \in Inputs : Disciplined(input) /\ input.stmt.n < XMod

(* Registers hold lanes of cells, masks hold booleans, and memory stays a  *)
(* memory: no load or store of the loop leaves the addresses of the        *)
(* statement's buffers (mem' would not be a memory otherwise).             *)
LaneVector(r, S) == \E k \in 0 .. VLMax : r \in [0 .. k - 1 -> S]

TypeOK ==
  /\ [stmt |-> stmt, mem |-> mem0] \in Inputs
  /\ mem \in Memory
  /\ pc \in {"head", "mask", "load", "store", "advance", "end"}
  /\ index \in Nat
  /\ vl \in 0 .. VLMax
  /\ LaneVector(v0, BOOLEAN)
  /\ LaneVector(x, Val)
  /\ LaneVector(y, Val)
  /\ LaneVector(p, Val)
  /\ LaneVector(idx, Nat)

(* The strip in progress lies within the element count, and is not empty:  *)
(* the loop neither runs past n nor stands still, whatever lengths vsetvli *)
(* hands out.                                                              *)
StripWithinLength ==
  /\ index <= stmt.n
  /\ pc \notin {"head", "end"} => vl >= 1 /\ index + vl <= stmt.n
  /\ pc = "end" => index = stmt.n

(* The number of lanes whose stores have been made.                        *)
LanesDone == IF pc = "advance" THEN index + vl ELSE index

(* At every point of the loop memory is what the lanes stored so far, and  *)
(* no others, make of the initial memory: false lanes, the lanes of later  *)
(* strips and cells outside the destination are undisturbed.               *)
PrefixDone == Outcome(stmt, LanesDone, mem0, mem)

(* When a strip is about to be stored its registers hold what the scalar   *)
(* loop would have read from the memory the statement started from: the    *)
(* stores of earlier strips have not disturbed any operand, the mask and   *)
(* the indices included.                                                   *)
StripReadsInitialMemory ==
  pc = "store" =>
    \A k \in Body :
      /\ (form.mask = "store" => v0[k]) <=> Writes(stmt, mem0, index + k)
      /\ Writes(stmt, mem0, index + k) =>
           /\ StoreAddress(k) = Destination(stmt, mem0, index + k)
           /\ LaneResult(k) = Result(stmt, mem0, index + k)

(* The loop implements the statement: it is the one step of VectorStatement*)
(* taken when control reaches the end label.                               *)
Abstract == INSTANCE VectorStatement
              WITH mem <- IF pc = "end" THEN mem ELSE mem0,
                   executed <- pc = "end"

ImplementsStatement == Abstract!SSpec

(* docs/phase30r-masked-store.md: "Elements outside `n` are tails and must *)
(* also remain unchanged".  A cell that no lane below n stores to is not   *)
(* written, whatever n is.                                                 *)
TailUnchanged ==
  \A a \in Addr :
    (\A i \in 0 .. stmt.n - 1 :
       Writes(stmt, mem0, i) => Destination(stmt, mem0, i) # a)
    => mem[a] = mem0[a]

(* Every loop reaches its end label.                                       *)
LoopTerminates == <>(pc = "end")
=============================================================================
