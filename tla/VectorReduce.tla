---------------------------- MODULE VectorReduce ----------------------------
(***************************************************************************)
(* vector_reduce_add, in the loop of each backend: emitVectorReduceAdd in  *)
(* lib/CodeGen/CodeGen.cpp (RVV) and in lib/MLIRGen/MLIRGen.cpp (MLIR).    *)
(*                                                                         *)
(* The RVV loop reduces a strip of any length vsetvli allows with          *)
(* vredsum.vs, in lanes of the input's element width, and carries the sum  *)
(* from strip to strip in a scalar register: vmv.s.x cuts it to the width  *)
(* of a lane, vmv.x.s sign-extends it back.  The MLIR loop carries it as   *)
(* the iter_arg of an scf.for with a step of four, in i32 only.  The       *)
(* result must not depend on any of this.                                  *)
(***************************************************************************)
EXTENDS RVV

(* A call is a record: the `backend`, the elements of the buffer (`input`, *)
(* bit patterns below 2^width, from 0), the element count `n`, 2^width of  *)
(* an element (`elementModulus`), and the number the register of the result*)
(* variable stands for (`initial`).                                        *)
CONSTANT Inputs

Backends == {"rvv", "mlir"}

(* The buffer has the n elements.  A negative count, which the RVV loop    *)
(* takes for a huge one (see VectorKernel), goes to the MLIR loop only.    *)
ASSUME InputsAssumption ==
  \A c \in Inputs :
    /\ c.backend \in Backends
    /\ c.elementModulus \in Nat \ {0} /\ c.initial \in Int /\ c.n \in Int
    /\ \A i \in 0 .. c.n - 1 : c.input[i] \in Int
    /\ c.backend = "rvv" => c.n \in 0 .. XMod - 1

VARIABLES call, pc, index, vl, accumulator

vars == <<call, pc, index, vl, accumulator>>

SignExtend(v, modulus) ==
  LET w == v % modulus IN IF 2 * w < modulus THEN w ELSE w - modulus

(* The sum of the elements from .. to - 1.                                 *)
SumOf(input, from, to) ==
  LET sum[k \in from .. to] ==
        IF k = from THEN 0 ELSE sum[k - 1] + input[k - 1]
  IN  sum[to]

Sum(from, to) == SumOf(call.input, from, to)

OnRVV  == call.backend = "rvv"
OnMLIR == call.backend = "mlir"

(* bgeu and sub see the count as an unsigned register, scf.for as signed.  *)
Length == IF OnRVV THEN call.n % XMod ELSE call.n

Init ==
  /\ call \in Inputs
  /\ pc = "head"
  /\ index = 0
  /\ vl = 0
  /\ accumulator = call.initial

(* Faulty: the loop ends where the index equals the count.                 *)
ExitWhenEqual ==
  /\ pc = "head"
  /\ index = Length
  /\ pc' = "end"
  /\ UNCHANGED <<call, index, vl, accumulator>>

Exit ==
  /\ pc = "head"
  /\ index >= Length
  /\ pc' = "end"
  /\ UNCHANGED <<call, index, vl, accumulator>>

(* Faulty: the last MLIR vector is not masked.                             *)
HeadUnmasked ==
  /\ pc = "head"
  /\ index < Length
  /\ vl' \in IF OnRVV THEN VLChoices(Length - index) ELSE {4}
  /\ pc' = "reduce"
  /\ UNCHANGED <<call, index, accumulator>>

(* vsetvli, or the mask of the lanes that remain.                          *)
Head ==
  /\ pc = "head"
  /\ index < Length
  /\ vl' \in IF OnRVV THEN VLChoices(Length - index)
             ELSE {IF Length - index < 4 THEN Length - index ELSE 4}
  /\ pc' = "reduce"
  /\ UNCHANGED <<call, index, accumulator>>

(* Faulty: vredsum.vs starts every strip from zero.                        *)
emitVectorReduceAddUnseeded ==
  /\ pc = "reduce" /\ OnRVV
  /\ accumulator' = SignExtend(Sum(index, index + vl), call.elementModulus)
  /\ index' = index + vl
  /\ pc' = "head"
  /\ UNCHANGED <<call, vl>>

(* Faulty: every strip is taken for a full one.                            *)
emitVectorReduceAddFullStrip ==
  /\ pc = "reduce" /\ OnRVV
  /\ LET scalar == accumulator % call.elementModulus
     IN  accumulator' = SignExtend(scalar + Sum(index, index + vl),
                                   call.elementModulus)
  /\ index' = index + VLMax
  /\ pc' = "head"
  /\ UNCHANGED <<call, vl>>

(* vle, vmv.s.x, vredsum.vs, vmv.x.s.                                      *)
emitVectorReduceAdd ==
  /\ pc = "reduce" /\ OnRVV
  /\ LET scalar == accumulator % call.elementModulus
     IN  accumulator' = SignExtend(scalar + Sum(index, index + vl),
                                   call.elementModulus)
  /\ index' = index + vl
  /\ pc' = "head"
  /\ UNCHANGED <<call, vl>>

(* vector.reduction <add> of the masked read, whose other lanes are zero,  *)
(* onto the iter_arg.                                                      *)
emitVectorReduceAddMLIR ==
  /\ pc = "reduce" /\ OnMLIR
  /\ accumulator' = SignExtend(accumulator + Sum(index, index + vl),
                               call.elementModulus)
  /\ index' = index + 4
  /\ pc' = "head"
  /\ UNCHANGED <<call, vl>>

Next == Exit \/ Head \/ emitVectorReduceAdd \/ emitVectorReduceAddMLIR

Fairness == WF_vars(Next)

Spec == Init /\ [][Next]_vars /\ Fairness

---------------------------------------------------------------------------
TypeOK ==
  /\ call \in Inputs
  /\ pc \in {"head", "reduce", "end"}
  /\ index \in Nat /\ vl \in 0 .. (IF OnRVV THEN VLMax ELSE 4)
  /\ accumulator \in Int
  /\ pc = "reduce" => index + vl <= call.n

(* What docs/phase40b2-sew-reduction.md defines: the sum of the initial    *)
(* value and the elements, wrapping in a lane of the element's width, and  *)
(* sign-extended.  A count of zero leaves the result variable as it is.    *)
Reduction ==
  IF call.n <= 0 THEN call.initial
  ELSE SignExtend(call.initial + Sum(0, call.n), call.elementModulus)

(* However vsetvli cuts the input into strips, and whichever backend runs, *)
(* the result is the reduction of the whole input.                         *)
ResultIsReduction == pc = "end" => accumulator = Reduction

(* The carried scalar and the elements still to come always make up the    *)
(* result: no strip is dropped or counted twice, and the truncation of     *)
(* vmv.s.x between strips loses nothing.                                   *)
CarriedSum ==
  index <= call.n =>
    SignExtend(accumulator + Sum(index, call.n), call.elementModulus)
      = SignExtend(call.initial + Sum(0, call.n), call.elementModulus)

ReductionEnds == <>(pc = "end")
=============================================================================
