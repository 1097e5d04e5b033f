---------------------------- MODULE MatrixKernel ----------------------------
(***************************************************************************)
(* The loops of matrix_multiply, and of matrix_pack_b followed by          *)
(* matrix_multiply_packed_b, that each backend generates (emitMatrixPackB, *)
(* emitMatrixMultiply in lib/CodeGen/CodeGen.cpp and                       *)
(* lib/MLIRGen/MLIRGen.cpp).                                               *)
(*                                                                         *)
(* The loops over rows and columns are the same everywhere.  The inner one *)
(* is a scalar loop, except for the packed product on RVV, where both      *)
(* operands are contiguous and it runs in strips: vmul.vv, vredsum.vs.     *)
(* The RVV code keeps buffers, counts and loop counters in callee-saved    *)
(* registers, which it saves before and restores after each statement; the *)
(* MLIR code has no registers.                                             *)
(***************************************************************************)
EXTENDS MatrixProduct, RVV

(* A count on RVV is the number its register holds when bgeu compares it.  *)
ASSUME CountsAssumption ==
  \A input \in Programs :
    input.program.backend = "rvv" =>
      /\ input.program.rows  \in 0 .. XMod - 1
      /\ input.program.cols  \in 0 .. XMod - 1
      /\ input.program.inner \in 0 .. XMod - 1

VARIABLES
  pc,            \* where control is
  mem0,          \* history: the memory the program started from
  row, col, k,   \* the loop counters (s6, s7 or s4, s8 or s5)
  accumulator,   \* s9, the iter_arg of the inner loop
  sreg,          \* the callee-saved registers: whose value each holds
  frame          \* those saved on the stack, with whose value

counters == <<row, col, k, accumulator>>
machine  == <<sreg, frame>>
vars == <<program, mem, done, pc, mem0, counters, machine>>

OnRVV == program.backend = "rvv"

SignExtend(v) ==
  LET w == v % Modulus IN IF 2 * w < Modulus THEN w ELSE w - Modulus

(* A bound as bgeu (unsigned) or scf.for (signed) sees it.                 *)
Bound(count) == IF OnRVV THEN count % XMod ELSE count

SavedRegister == 0 .. 11

(* Faulty: s5, the inner loop counter, is not saved.                       *)
emitMatrixPackBSavesFewer == 0 .. 4

(* The registers the statement's code saves and restores, and those it     *)
(* writes.                                                                 *)
emitMatrixPackBSaves     == 0 .. 5
emitMatrixPackBUses      == {0, 1, 2, 3, 4, 5}
emitMatrixMultiplySaves  == 0 .. 11
emitMatrixMultiplyUses   == SavedRegister

Init ==
  /\ MInit
  /\ mem0 = mem
  /\ pc = IF program.packed THEN "pack" ELSE "multiply"
  /\ row = 0 /\ col = 0 /\ k = 0 /\ accumulator = 0
  /\ sreg = [r \in SavedRegister |-> "caller"]
  /\ frame = [r \in {} |-> "caller"]

Enter(saves, uses) ==
  IF OnRVV THEN /\ frame' = [r \in saves |-> sreg[r]]
                /\ sreg' = [r \in SavedRegister |->
                              IF r \in uses THEN "statement" ELSE sreg[r]]
  ELSE UNCHANGED machine

Leave ==
  /\ sreg' = [r \in SavedRegister |->
                IF r \in DOMAIN frame THEN frame[r] ELSE sreg[r]]
  /\ frame' = [r \in {} |-> "caller"]

---------------------------------------------------------------------------
(* matrix_pack_b.                                                          *)

PackEnter ==
  /\ pc = "pack"
  /\ Enter(emitMatrixPackBSaves, emitMatrixPackBUses)
  /\ col' = 0
  /\ pc' = "pack_col"
  /\ UNCHANGED <<program, mem, done, mem0, row, k, accumulator>>

PackCol ==
  /\ pc = "pack_col" /\ col < Bound(program.cols)
  /\ k' = 0
  /\ pc' = "pack_inner"
  /\ UNCHANGED <<program, mem, done, mem0, row, col, accumulator, machine>>

PackLeave ==
  /\ pc = "pack_col" /\ col >= Bound(program.cols)
  /\ Leave
  /\ pc' = "multiply"
  /\ UNCHANGED <<program, mem, done, mem0, counters>>

PackElement ==
  /\ pc = "pack_inner" /\ k < Bound(program.inner)
  /\ LET inputIndex == k * program.cols + col
         outputIndex == col * program.inner + k
     IN  mem' = [mem EXCEPT ![program.pack + outputIndex] =
                               mem[program.b + inputIndex]]
  /\ k' = k + 1
  /\ UNCHANGED <<program, done, mem0, pc, row, col, accumulator, machine>>

(* Faulty: the column counter is not advanced.                             *)
PackNextColStuck ==
  /\ pc = "pack_inner" /\ k >= Bound(program.inner)
  /\ pc' = "pack_col"
  /\ UNCHANGED <<program, mem, done, mem0, counters, machine>>

PackNextCol ==
  /\ pc = "pack_inner" /\ k >= Bound(program.inner)
  /\ col' = col + 1
  /\ pc' = "pack_col"
  /\ UNCHANGED <<program, mem, done, mem0, row, k, accumulator, machine>>

---------------------------------------------------------------------------
(* matrix_multiply and matrix_multiply_packed_b.                           *)

MultiplyEnter ==
  /\ pc = "multiply"
  /\ Enter(emitMatrixMultiplySaves, emitMatrixMultiplyUses)
  /\ row' = 0
  /\ pc' = "row"
  /\ UNCHANGED <<program, mem, done, mem0, col, k, accumulator>>

Row ==
  /\ pc = "row" /\ row < Bound(program.rows)
  /\ col' = 0
  /\ pc' = "col"
  /\ UNCHANGED <<program, mem, done, mem0, row, k, accumulator, machine>>

MultiplyLeave ==
  /\ pc = "row" /\ row >= Bound(program.rows)
  /\ Leave
  /\ pc' = "end"
  /\ done' = TRUE
  /\ UNCHANGED <<program, mem, mem0, counters>>

(* Faulty: the sum of an element goes on from the one before.              *)
ColUncleared ==
  /\ pc = "col" /\ col < Bound(program.cols)
  /\ k' = 0
  /\ pc' = "inner"
  /\ UNCHANGED <<program, mem, done, mem0, row, col, accumulator, machine>>

Col ==
  /\ pc = "col" /\ col < Bound(program.cols)
  /\ k' = 0 /\ accumulator' = 0
  /\ pc' = "inner"
  /\ UNCHANGED <<program, mem, done, mem0, row, col, machine>>

NextRow ==
  /\ pc = "col" /\ col >= Bound(program.cols)
  /\ row' = row + 1
  /\ pc' = "row"
  /\ UNCHANGED <<program, mem, done, mem0, col, k, accumulator, machine>>

lhsIndex(j) == row * program.inner + j

(* Faulty: the packed operand is read row-major.                           *)
rhsIndexRowMajor(j) == j * program.cols + col

rhsIndex(j) == IF program.packed THEN col * program.inner + j
               ELSE j * program.cols + col

rhsBuffer == IF program.packed THEN program.pack ELSE program.b

Term(j) == mem[program.a + lhsIndex(j)] * mem[rhsBuffer + rhsIndex(j)]

(* vmul.vv and vredsum.vs of a strip, in lanes of 32 bits.                 *)
Strip(vl) ==
  LET sum[j \in 0 .. vl] ==
        IF j = 0 THEN accumulator % Modulus
        ELSE (sum[j - 1] + (Term(k + j - 1) % Modulus)) % Modulus
  IN  SignExtend(sum[vl])

InnerStrip ==
  /\ pc = "inner" /\ k < Bound(program.inner)
  /\ OnRVV /\ program.packed
  /\ \E vl \in VLChoices(Bound(program.inner) - k) :
       /\ accumulator' = Strip(vl)
       /\ k' = k + vl
  /\ UNCHANGED <<program, mem, done, mem0, pc, row, col, machine>>

(* mulw, addw; arith.muli, arith.addi.                                     *)
InnerElement ==
  /\ pc = "inner" /\ k < Bound(program.inner)
  /\ ~(OnRVV /\ program.packed)
  /\ accumulator' = SignExtend(accumulator + SignExtend(Term(k)))
  /\ k' = k + 1
  /\ UNCHANGED <<program, mem, done, mem0, pc, row, col, machine>>

(* Faulty: the output is indexed by the inner dimension.                   *)
StoreByInner ==
  /\ pc = "inner" /\ k >= Bound(program.inner)
  /\ mem' = [mem EXCEPT ![program.out + row * program.inner + col] =
                           accumulator % Modulus]
  /\ col' = col + 1
  /\ pc' = "col"
  /\ UNCHANGED <<program, done, mem0, row, k, accumulator, machine>>

(* Faulty: more than the low half of s9 is stored.                         *)
StoreWide ==
  /\ pc = "inner" /\ k >= Bound(program.inner)
  /\ mem' = [mem EXCEPT ![program.out + row * program.cols + col] = accumulator]
  /\ col' = col + 1
  /\ pc' = "col"
  /\ UNCHANGED <<program, done, mem0, row, k, accumulator, machine>>

Store ==
  /\ pc = "inner" /\ k >= Bound(program.inner)
  /\ mem' = [mem EXCEPT ![program.out + row * program.cols + col] =
                           accumulator % Modulus]
  /\ col' = col + 1
  /\ pc' = "col"
  /\ UNCHANGED <<program, done, mem0, row, k, accumulator, machine>>

Next ==
  \/ PackEnter \/ PackCol \/ PackLeave \/ PackElement \/ PackNextCol
  \/ MultiplyEnter \/ Row \/ MultiplyLeave \/ Col \/ NextRow
  \/ InnerStrip \/ InnerElement \/ Store

Fairness == WF_vars(Next)

Spec == Init /\ [][Next]_vars /\ Fairness

---------------------------------------------------------------------------
TypeOK ==
  /\ [program |-> program, mem |-> mem0] \in Programs
  /\ mem \in [Addr -> Val]
  /\ pc \in {"pack", "pack_col", "pack_inner",
             "multiply", "row", "col", "inner", "end"}
  /\ done = (pc = "end")
  /\ row \in Nat /\ col \in Nat /\ k \in Nat
  /\ SignExtend(accumulator) = accumulator
  /\ sreg \in [SavedRegister -> {"caller", "statement"}]
  /\ DOMAIN frame \subseteq SavedRegister

(* In the inner loop the accumulator is the dot product, in the memory the *)
(* program started from, of as much of the row and the column as has been  *)
(* visited: the layout matrix_pack_b wrote is the one the packed product   *)
(* reads, in strips of any length, and no operand has been overwritten.    *)
AccumulatorIsPartialDot ==
  pc = "inner" => accumulator = SignExtend(Dot(mem0, row, col, k))

(* The elements before the one being computed are done and, but for them   *)
(* and the packed copy of b, memory is untouched.                          *)
ProductPrefix ==
  LET finished == {e \in Elements :
                     \/ e[1] < row
                     \/ e[1] = row /\ e[2] < col /\ pc \in {"col", "inner"}}
      packed   == IF program.packed THEN {w[1] : w \in PackOf(mem0)} ELSE {}
  IN  pc \in {"row", "col", "inner", "end"} =>
        /\ \A e \in finished : mem[OutCell(e)] = Product(mem0, e[1], e[2])
        /\ \A x \in Addr \ (packed \cup {OutCell(e) : e \in finished}) :
             mem[x] = mem0[x]

(* Each statement leaves the callee-saved registers as it found them.      *)
CalleeSavedRestored ==
  pc \in {"multiply", "end"} => \A r \in SavedRegister : sreg[r] = "caller"

(* Every variant on every backend computes the same product.               *)
Abstract == INSTANCE MatrixProduct
              WITH mem <- IF done THEN mem ELSE mem0

ImplementsProduct == Abstract!MSpec

MultiplyTerminates == <>(pc = "end")
=============================================================================
