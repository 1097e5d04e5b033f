----------------------------- MODULE MLIRKernel -----------------------------
(***************************************************************************)
(* The loop the MLIR backend builds for a vector statement (MLIRGenImpl in *)
(* lib/MLIRGen/MLIRGen.cpp).  It has a fixed step of four lanes, and a     *)
(* vector mask where the RVV loop has a vector length:                     *)
(*                                                                         *)
(*   scf.for %i = 0 to %n step 4 {                                         *)
(*     %tail = vector.create_mask (min_u (%n - %i, 4))      CreateMask     *)
(*     %a = vector.transfer_read ..., %tail                 Read           *)
(*     <arithmetic, comparison, select>                                    *)
(*     vector.transfer_write ..., %tail                     Write          *)
(*   }                                                                     *)
(*                                                                         *)
(* scf.for compares its bounds as signed numbers.  Strided, indexed and    *)
(* widening statements are diagnosed by this backend and have no loop.     *)
(***************************************************************************)
EXTENDS VectorLanes

Step == 4

Lanes == 0 .. Step - 1

(* The statements emitStatement generates a lane-wise loop for.            *)
Supported ==
  {"vector_add", "vector_copy", "vector_scale", "vector_mul", "vector_select",
   "vector_masked_store", "vector_masked_load"} \cup MaskedBinary

---------------------------------------------------------------------------
(* The generators: the arithmetic, and the accesses the comparison masks.  *)

Form(operation, masked) == [operation |-> operation, masked |-> masked]

emitVectorAdd       == Form("addi", "none")
emitVectorCopy      == Form("none", "none")
emitVectorScale     == Form("broadcast muli", "none")
emitVectorMul       == Form("muli", "none")
emitVectorSelect    == Form("none", "select")
emitVectorMaskedStore == Form("none", "write")
emitVectorMaskedLoad  == Form("none", "read")

emitVectorMaskedBinaryOp(op) ==
  CASE op = "vector_masked_add" -> "addi"
    [] op = "vector_masked_sub" -> "subi"
    [] op = "vector_masked_mul" -> "muli"

emitVectorMaskedBinary(op) == Form(emitVectorMaskedBinaryOp(op), "select")

emitStatement(op) ==
  CASE op = "vector_add"          -> emitVectorAdd
    [] op = "vector_copy"         -> emitVectorCopy
    [] op = "vector_scale"        -> emitVectorScale
    [] op = "vector_mul"          -> emitVectorMul
    [] op = "vector_select"       -> emitVectorSelect
    [] op \in MaskedBinary        -> emitVectorMaskedBinary(op)
    [] op = "vector_masked_store" -> emitVectorMaskedStore
    [] op = "vector_masked_load"  -> emitVectorMaskedLoad

(* Faulty: the unsigned predicates compare as signed.                      *)
getMLIRPredicateSigned(pred, lhs, rhs) ==
  \/ pred \in {"lt", "ult"} /\ Signed(lhs) < Signed(rhs)
  \/ pred \in {"le", "ule"} /\ Signed(lhs) <= Signed(rhs)
  \/ pred \in {"gt", "ugt"} /\ Signed(lhs) > Signed(rhs)
  \/ pred \in {"ge", "uge"} /\ Signed(lhs) >= Signed(rhs)
  \/ pred = "eq"            /\ lhs = rhs
  \/ pred = "ne"            /\ lhs # rhs

(* arith.cmpi with the predicate getMLIRPredicate chooses.                 *)
getMLIRPredicate(pred, lhs, rhs) ==
  \/ pred = "lt"  /\ Signed(lhs) < Signed(rhs)
  \/ pred = "le"  /\ Signed(lhs) <= Signed(rhs)
  \/ pred = "gt"  /\ Signed(lhs) > Signed(rhs)
  \/ pred = "ge"  /\ Signed(lhs) >= Signed(rhs)
  \/ pred = "eq"  /\ lhs = rhs
  \/ pred = "ne"  /\ lhs # rhs
  \/ pred = "ult" /\ lhs < rhs
  \/ pred = "ule" /\ lhs <= rhs
  \/ pred = "ugt" /\ lhs > rhs
  \/ pred = "uge" /\ lhs >= rhs

Arith(operation, a, b, factor) ==
  CASE operation = "addi"           -> Wrap(a + b)
    [] operation = "subi"           -> Wrap(a - b)
    [] operation = "muli"           -> Wrap(a * b)
    [] operation = "broadcast muli" -> Wrap(a * factor)
    [] operation = "none"           -> a

---------------------------------------------------------------------------
VARIABLES
  stmt,     \* the statement
  mem,      \* the memory of the program
  mem0,     \* history: the memory the statement started from
  pc,       \* where control is
  iv,       \* the induction variable
  tail,     \* access.mask: the lanes below the element count
  compared, \* vectorMask: the comparison of the mask operands
  lhs, rhs, passthrough  \* the vectors read

values == <<tail, compared, lhs, rhs, passthrough>>
vars == <<stmt, mem, mem0, pc, iv, tail, compared, lhs, rhs, passthrough>>

form == emitStatement(stmt.op)

NoLane   == [k \in Lanes |-> FALSE]
AllZero  == [k \in Lanes |-> 0]

Init ==
  /\ \E input \in Inputs : stmt = input.stmt /\ mem = input.mem
  /\ mem0 = mem
  /\ pc = "head"
  /\ iv = 0
  /\ tail = NoLane /\ compared = NoLane
  /\ lhs = AllZero /\ rhs = AllZero /\ passthrough = AllZero

(* Faulty: the loop stops before a partial vector.                         *)
ExitBeforeTail ==
  /\ pc = "head"
  /\ iv + Step > stmt.n
  /\ pc' = "end"
  /\ UNCHANGED <<stmt, mem, mem0, iv, values>>

(* Faulty: the loop ends where the index equals the count.                 *)
ExitWhenEqual ==
  /\ pc = "head"
  /\ iv = stmt.n
  /\ pc' = "end"
  /\ UNCHANGED <<stmt, mem, mem0, iv, values>>

Exit ==
  /\ pc = "head"
  /\ iv >= stmt.n
  /\ pc' = "end"
  /\ UNCHANGED <<stmt, mem, mem0, iv, values>>

(* createMaskedVectorAccess: the lanes below the remaining element count.  *)
ActiveLanes ==
  LET remaining == stmt.n - iv
  IN  IF remaining < Step THEN remaining ELSE Step

CreateMask ==
  /\ pc = "head"
  /\ iv < stmt.n
  /\ tail' = [k \in Lanes |-> k < ActiveLanes]
  /\ pc' = "read"
  /\ UNCHANGED <<stmt, mem, mem0, iv, compared, lhs, rhs, passthrough>>

(* A masked-off lane of vector.transfer_read is the padding, zero, and its *)
(* cell is not accessed.                                                   *)
emitVectorRead(base, mask) ==
  [k \in Lanes |-> IF mask[k] THEN mem[base + iv + k] ELSE 0]

And(m, c) == [k \in Lanes |-> m[k] /\ c[k]]

(* The comparison of the padding compares equal: a masked-off lane may     *)
(* well be true in it.                                                     *)
Compare ==
  LET l == emitVectorRead(stmt.mask.lhs, tail)
      r == emitVectorRead(stmt.mask.rhs, tail)
  IN  [k \in Lanes |-> getMLIRPredicate(stmt.mask.pred, l[k], r[k])]

(* Faulty: the data operand of a masked load is read in every live lane.   *)
ReadMaskTail == tail

(* The mask of the read of the data operand.                               *)
ReadMask == IF form.masked = "read" THEN And(tail, Compare) ELSE tail

Read ==
  /\ pc = "read"
  /\ compared' = IF form.masked = "none" THEN NoLane ELSE Compare
  /\ lhs' = emitVectorRead(stmt.lhs, ReadMask)
  /\ rhs' = IF stmt.op \in Binary THEN emitVectorRead(stmt.rhs, tail)
            ELSE AllZero
  /\ passthrough' = IF stmt.op \in Merging THEN emitVectorRead(stmt.pass, tail)
                    ELSE AllZero
  /\ pc' = "write"
  /\ UNCHANGED <<stmt, mem, mem0, iv, tail>>

(* arith.select, where the statement has a passthrough.                    *)
LaneResult(k) ==
  IF form.masked \in {"select", "read"} /\ ~compared[k] THEN passthrough[k]
  ELSE Arith(form.operation, lhs[k], rhs[k], stmt.factor)

(* Faulty: the comparison alone masks the store.                           *)
WriteMaskCompared == IF form.masked = "write" THEN compared ELSE tail

WriteMask == IF form.masked = "write" THEN And(tail, compared) ELSE tail

WrittenCells == {stmt.out + iv + k : k \in {j \in Lanes : WriteMask[j]}}

Write ==
  /\ pc = "write"
  /\ mem' = [a \in Addr |-> IF a \in WrittenCells
                            THEN LaneResult(a - stmt.out - iv) ELSE mem[a]]
  /\ iv' = iv + Step
  /\ pc' = "head"
  /\ UNCHANGED <<stmt, mem0, values>>

Next == Exit \/ CreateMask \/ Read \/ Write

Fairness == WF_vars(Next)

Spec == Init /\ [][Next]_vars

FairSpec == Spec /\ Fairness

---------------------------------------------------------------------------
(* The inputs the loop is meant for.  Unlike the RVV loop's they may have  *)
(* a negative count.                                                       *)
DisciplinedInputs ==
  \A input \in Inputs :
    /\ input.stmt.op \in Supported
    /\ InBounds(input.stmt, input.mem)
    /\ NoForwardOverlap(input.stmt, input.mem)

(* Lanes are cells and masks are booleans, and the cells written are cells *)
(* of the program's memory.                                                *)
TypeOK ==
  /\ [stmt |-> stmt, mem |-> mem0] \in Inputs
  /\ mem \in Memory
  /\ pc \in {"head", "read", "write", "end"}
  /\ iv \in Nat /\ iv % Step = 0
  /\ tail \in [Lanes -> BOOLEAN] /\ compared \in [Lanes -> BOOLEAN]
  /\ lhs \in [Lanes -> Val]
  /\ rhs \in [Lanes -> Val]
  /\ passthrough \in [Lanes -> Val]
  /\ pc = "write" => WrittenCells \subseteq Addr

(* Memory is at every iteration what the lanes of the iterations so far    *)
(* make of the initial memory: a partial last vector, whose dead lanes     *)
(* compare equal, stores nothing beyond the element count.                 *)
LanesDone == IF iv <= stmt.n THEN iv ELSE stmt.n

PrefixDone == Outcome(stmt, LanesDone, mem0, mem)

(* The cells the reads of an iteration access.                             *)
AccessedCells ==
  LET cells(base, mask) == {base + iv + k : k \in {j \in Lanes : mask[j]}}
  IN  cells(stmt.lhs, ReadMask)
      \cup (IF form.masked # "none"
              THEN cells(stmt.mask.lhs, tail) \cup cells(stmt.mask.rhs, tail)
              ELSE {})
      \cup (IF stmt.op \in Binary THEN cells(stmt.rhs, tail) ELSE {})
      \cup (IF stmt.op \in Merging THEN cells(stmt.pass, tail) ELSE {})

(* The vector reads access no cell that the scalar loop would not: neither *)
(* the tail beyond the element count, nor the cell of a false lane of a    *)
(* masked load, which may lie outside the buffer.                          *)
AccessesOnlyLaneCells ==
  pc = "read" =>
    AccessedCells \subseteq UNION {Reads(stmt, mem0, i) : i \in 0 .. stmt.n - 1}

(* The loop implements the statement, by the mapping of the RVV loop: what *)
(* the two backends compute is the same.                                   *)
Abstract == INSTANCE VectorStatement
              WITH mem <- IF pc = "end" THEN mem ELSE mem0,
                   executed <- pc = "end"

ImplementsStatement == Abstract!SSpec

(* The loop ends, whatever the sign of the count.                          *)
LoopTerminates == <>(pc = "end")
=============================================================================
