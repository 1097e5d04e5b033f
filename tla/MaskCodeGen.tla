---------------------------- MODULE MaskCodeGen ----------------------------
(***************************************************************************)
(* How the direct RVV backend turns a mask symbol into the mask register   *)
(* v0 of the statement that consumes it (FunctionEmitter in                *)
(* lib/CodeGen/CodeGen.cpp).                                               *)
(*                                                                         *)
(* A vector_mask_* statement emits nothing: the emitter remembers it, and  *)
(* emitMaskIntoVectorRegister expands the symbol, by recursion over the    *)
(* remembered definitions, at each statement that consumes it.  There is   *)
(* no register allocation: the result goes to a given register, and the    *)
(* right operand of a logical mask goes to a scratch register that depends *)
(* on that register only.                                                  *)
(*                                                                         *)
(* The emitted code is straight-line, so an instruction is executed here   *)
(* at the moment it is emitted.  A mask is the set of lanes it selects.    *)
(* The recursion is an explicit stack of calls.                            *)
(***************************************************************************)
EXTENDS Integers, Sequences, FiniteSets

CONSTANTS
  Mask,        \* the names of mask symbols
  Lane,        \* the lanes of a vector
  Programs,    \* the statement sequences to compile
  StackLimit   \* the calls the compiler's stack has room for

LogicalOps == {"and", "or", "xor", "not"}

(* vector_mask_<pred>: `lanes` are those in which the comparison holds, and*)
(* `known` says whether both its buffers are variables of the function.    *)
CompareStatement ==
  [kind : {"vector_mask"}, mask : Mask, lanes : SUBSET Lane, known : BOOLEAN]

(* vector_mask_not has one operand: the parser leaves its rhs empty.       *)
LogicalStatement ==
  [ kind : {"vector_mask_logical"}, op : LogicalOps, mask : Mask,
    lhs : Mask, rhs : Mask ]

ConsumerStatement == [kind : {"vector_masked"}, mask : Mask]

FunctionStart == [kind : {"function"}]

Statement ==
  CompareStatement \cup LogicalStatement \cup ConsumerStatement
    \cup FunctionStart

ASSUME ProgramsAssumption   == Programs \subseteq Seq(Statement)
ASSUME StackLimitAssumption ==
  StackLimit \in Nat /\ IsFiniteSet(Mask) /\ StackLimit >= Cardinality(Mask)

MaskRegister == {"v0", "v1", "v2"}

VARIABLES
  program,        \* the statements of the module, in order
  next,           \* the position of the statement being emitted
  masks,          \* name -> remembered comparison
  logicalMasks,   \* name -> remembered logical mask
  diagnosed,      \* whether a diagnostic has been added
  stack,          \* the active calls of emitMaskIntoVectorRegister
  returned,       \* "none", or what the innermost finished call returned
  reg,            \* the mask registers of the machine
  meaning, depth  \* history: see Define

tables == <<masks, logicalMasks>>
history == <<meaning, depth>>
vars == <<program, next, tables, diagnosed, stack, returned, reg, history>>

NoMasks == [m \in {} |-> {}]

Init ==
  /\ program \in Programs
  /\ next = 1
  /\ masks = NoMasks /\ logicalMasks = NoMasks
  /\ diagnosed = FALSE
  /\ stack = <<>> /\ returned = "none"
  /\ reg = [r \in MaskRegister |-> {}]
  /\ meaning = NoMasks /\ depth = NoMasks

Extend(f, m, v) == [k \in DOMAIN f \cup {m} |-> IF k = m THEN v ELSE f[k]]

Current(kind) ==
  /\ next \in DOMAIN program
  /\ program[next].kind = kind
  /\ stack = <<>> /\ returned = "none"

CurrentStatement == program[next]

Defined(m) == m \in DOMAIN masks \cup DOMAIN logicalMasks

---------------------------------------------------------------------------
(* What a logical mask operation does to two sets of lanes.                *)
Apply(op, a, b) ==
  CASE op = "and" -> a \cap b
    [] op = "or"  -> a \cup b
    [] op = "xor" -> (a \ b) \cup (b \ a)
    [] op = "not" -> Lane \ a

Operands(s) == IF s.op = "not" THEN {s.lhs} ELSE {s.lhs, s.rhs}

(* History.  The lanes a logical mask selects, by its operands' meaning at *)
(* the place of the definition, and how deeply logical masks nest in right *)
(* operands; both only of a mask whose operands have them.                 *)
Define(s) ==
  IF Operands(s) \subseteq DOMAIN meaning
    THEN LET right == IF s.op = "not" THEN 0 ELSE depth[s.rhs] + 1
         IN  /\ meaning' = Extend(meaning, s.mask,
                             Apply(s.op, meaning[s.lhs],
                                   IF s.op = "not" THEN {} ELSE meaning[s.rhs]))
             /\ depth' = Extend(depth, s.mask,
                           IF right > depth[s.lhs] THEN right ELSE depth[s.lhs])
    ELSE UNCHANGED history

---------------------------------------------------------------------------
(* emitFunction starts with empty tables.                                  *)
emitFunction ==
  /\ Current("function")
  /\ masks' = NoMasks /\ logicalMasks' = NoMasks
  /\ meaning' = NoMasks /\ depth' = NoMasks
  /\ next' = next + 1
  /\ UNCHANGED <<program, diagnosed, stack, returned, reg>>

(* Faulty: a name may stand for a comparison and for a logical mask.       *)
rememberVectorMaskUnchecked ==
  /\ Current("vector_mask")
  /\ IF CurrentStatement.mask \in DOMAIN masks
       THEN diagnosed' = TRUE /\ UNCHANGED <<masks, meaning, depth>>
       ELSE /\ masks' = Extend(masks, CurrentStatement.mask, CurrentStatement)
            /\ meaning' = Extend(meaning, CurrentStatement.mask,
                                 CurrentStatement.lanes)
            /\ depth' = Extend(depth, CurrentStatement.mask, 0)
            /\ UNCHANGED diagnosed
  /\ next' = next + 1
  /\ UNCHANGED <<program, logicalMasks, stack, returned, reg>>

rememberVectorMask ==
  /\ Current("vector_mask")
  /\ IF Defined(CurrentStatement.mask)
       THEN diagnosed' = TRUE /\ UNCHANGED <<masks, meaning, depth>>
       ELSE /\ masks' = Extend(masks, CurrentStatement.mask, CurrentStatement)
            /\ meaning' = Extend(meaning, CurrentStatement.mask,
                                 CurrentStatement.lanes)
            /\ depth' = Extend(depth, CurrentStatement.mask, 0)
            /\ UNCHANGED diagnosed
  /\ next' = next + 1
  /\ UNCHANGED <<program, logicalMasks, stack, returned, reg>>

(* Faulty: a mask may be redefined, from itself.                           *)
rememberVectorMaskLogicalAgain ==
  /\ Current("vector_mask_logical")
  /\ logicalMasks' =
       Extend(logicalMasks, CurrentStatement.mask, CurrentStatement)
  /\ Define(CurrentStatement)
  /\ next' = next + 1
  /\ UNCHANGED <<program, masks, diagnosed, stack, returned, reg>>

(* The operands are not looked up here.                                    *)
rememberVectorMaskLogical ==
  /\ Current("vector_mask_logical")
  /\ IF Defined(CurrentStatement.mask)
       THEN diagnosed' = TRUE /\ UNCHANGED <<logicalMasks, history>>
       ELSE /\ logicalMasks' =
                 Extend(logicalMasks, CurrentStatement.mask, CurrentStatement)
            /\ Define(CurrentStatement)
            /\ UNCHANGED diagnosed
  /\ next' = next + 1
  /\ UNCHANGED <<program, masks, stack, returned, reg>>

---------------------------------------------------------------------------
(* emitMaskIntoVectorRegister(mask, dest).                                 *)

Call(m, dest) == [mask |-> m, dest |-> dest, step |-> "call"]

Top == stack[Len(stack)]

Below == SubSeq(stack, 1, Len(stack) - 1)

(* The innermost call, waiting for an operand: its definition.             *)
Definition == logicalMasks[Top.mask]

Overflowed == Len(stack) > StackLimit

(* A statement that consumes a mask wants it in v0.                        *)
Consume ==
  /\ Current("vector_masked")
  /\ stack' = <<Call(CurrentStatement.mask, "v0")>>
  /\ UNCHANGED <<program, next, tables, diagnosed, returned, reg, history>>

Entered ==
  /\ stack # <<>>
  /\ ~Overflowed
  /\ returned = "none"
  /\ Top.step = "call"

(* emitCompareMaskInto.                                                    *)
emitCompareMaskInto ==
  /\ Entered
  /\ Top.mask \in DOMAIN masks
  /\ masks[Top.mask].known
  /\ reg' = [reg EXCEPT ![Top.dest] = masks[Top.mask].lanes]
  /\ stack' = Below /\ returned' = "true"
  /\ UNCHANGED <<program, next, tables, diagnosed, history>>

UnknownBuffer ==
  /\ Entered
  /\ Top.mask \in DOMAIN masks
  /\ ~masks[Top.mask].known
  /\ diagnosed' = TRUE
  /\ stack' = Below /\ returned' = "false"
  /\ UNCHANGED <<program, next, tables, reg, history>>

UnknownMask ==
  /\ Entered
  /\ ~Defined(Top.mask)
  /\ diagnosed' = TRUE
  /\ stack' = Below /\ returned' = "false"
  /\ UNCHANGED <<program, next, tables, reg, history>>

(* A logical mask: first the left operand, into the same register.         *)
EmitLHS ==
  /\ Entered
  /\ Top.mask \notin DOMAIN masks
  /\ Top.mask \in DOMAIN logicalMasks
  /\ stack' = Append(Append(Below, [Top EXCEPT !.step = "lhs"]),
                     Call(Definition.lhs, Top.dest))
  /\ UNCHANGED <<program, next, tables, diagnosed, returned, reg, history>>

Resumed(step, result) ==
  /\ stack # <<>>
  /\ returned = result
  /\ Top.step = step

(* vmnand.mm dest, dest, dest.                                             *)
EmitNot ==
  /\ Resumed("lhs", "true")
  /\ Definition.op = "not"
  /\ reg' = [reg EXCEPT ![Top.dest] = Lane \ (reg[Top.dest] \cap reg[Top.dest])]
  /\ stack' = Below
  /\ UNCHANGED <<program, next, tables, diagnosed, returned, history>>

(* Faulty: there is one scratch register.                                  *)
scratchMaskFixed(destMask) == "v1"

scratchMask(destMask) == IF destMask = "v1" THEN "v2" ELSE "v1"

(* Faulty: the right operand goes where the left one is.                   *)
EmitRHSInPlace ==
  /\ Resumed("lhs", "true")
  /\ Definition.op # "not"
  /\ stack' = Append(Append(Below, [Top EXCEPT !.step = "rhs"]),
                     Call(Definition.rhs, Top.dest))
  /\ returned' = "none"
  /\ UNCHANGED <<program, next, tables, diagnosed, reg, history>>

EmitRHS ==
  /\ Resumed("lhs", "true")
  /\ Definition.op # "not"
  /\ stack' = Append(Append(Below, [Top EXCEPT !.step = "rhs"]),
                     Call(Definition.rhs, scratchMask(Top.dest)))
  /\ returned' = "none"
  /\ UNCHANGED <<program, next, tables, diagnosed, reg, history>>

(* vmand.mm, vmor.mm, vmxor.mm  dest, dest, scratch.                       *)
EmitLogical ==
  /\ Resumed("rhs", "true")
  /\ reg' = [reg EXCEPT ![Top.dest] =
               Apply(Definition.op, reg[Top.dest], reg[scratchMask(Top.dest)])]
  /\ stack' = Below
  /\ UNCHANGED <<program, next, tables, diagnosed, returned, history>>

(* A failed call makes its caller return false.                            *)
ReturnFalse ==
  /\ stack # <<>>
  /\ returned = "false"
  /\ stack' = Below
  /\ UNCHANGED <<program, next, tables, diagnosed, returned, reg, history>>

(* Back in the consumer: it emits its loop body or gives up.               *)
Consumed ==
  /\ stack = <<>>
  /\ returned # "none"
  /\ next' = next + 1
  /\ returned' = "none"
  /\ UNCHANGED <<program, tables, diagnosed, stack, reg, history>>

Resolve ==
  \/ emitCompareMaskInto
  \/ UnknownBuffer
  \/ UnknownMask
  \/ EmitLHS
  \/ EmitNot
  \/ EmitRHS
  \/ EmitLogical
  \/ ReturnFalse

Next ==
  \/ emitFunction
  \/ rememberVectorMask
  \/ rememberVectorMaskLogical
  \/ Consume
  \/ Resolve
  \/ Consumed

(* The compiler is one thread that keeps running.                          *)
Fairness == WF_vars(Next)

Spec == Init /\ [][Next]_vars

FairSpec == Spec /\ Fairness

---------------------------------------------------------------------------
Frame == [mask : Mask, dest : MaskRegister, step : {"call", "lhs", "rhs"}]

(* The tables map names to statements of their own kind, disjointly, and   *)
(* the history is about remembered masks.                                  *)
TypeOK ==
  /\ program \in Programs
  /\ next \in 1 .. Len(program) + 1
  /\ DOMAIN masks \subseteq Mask /\ DOMAIN logicalMasks \subseteq Mask
  /\ DOMAIN masks \cap DOMAIN logicalMasks = {}
  /\ masks \in [DOMAIN masks -> CompareStatement]
  /\ logicalMasks \in [DOMAIN logicalMasks -> LogicalStatement]
  /\ diagnosed \in BOOLEAN
  /\ stack \in Seq(Frame)
  /\ returned \in {"none", "true", "false"}
  /\ reg \in [MaskRegister -> SUBSET Lane]
  /\ DOMAIN meaning \subseteq DOMAIN masks \cup DOMAIN logicalMasks
  /\ meaning \in [DOMAIN meaning -> SUBSET Lane]
  /\ depth \in [DOMAIN meaning -> Nat]

(* Back in the consumer with success.                                      *)
MaskReady == stack = <<>> /\ returned = "true"

(* The consumer finds in v0 the lanes its mask selects, when the operands  *)
(* of the masks it is made of were defined before them and right operands  *)
(* nest at most twice: v0, v1 and v2 are enough for that.                  *)
ShallowMaskInV0 ==
  LET m == CurrentStatement.mask
  IN  MaskReady /\ m \in DOMAIN meaning /\ depth[m] <= 2
        => reg["v0"] = meaning[m]

(* While a right operand is being expanded, the left operand of every call *)
(* on the stack is still in that call's register.                          *)
LiveOperandsKept ==
  stack # <<>> /\ stack[1].mask \in DOMAIN meaning
               /\ depth[stack[1].mask] <= 2 =>
    \A i \in 1 .. Len(stack) :
      stack[i].step = "rhs" =>
        reg[stack[i].dest] = meaning[logicalMasks[stack[i].mask].lhs]

(* The expansion of a mask whose operands were defined before it visits    *)
(* distinct masks: its recursion is no deeper than there are masks.        *)
RecursionBounded ==
  stack # <<>> /\ stack[1].mask \in DOMAIN meaning =>
    \A i, j \in 1 .. Len(stack) :
      stack[i].mask = stack[j].mask => i = j

(* Every function is compiled to its end: a compiler that runs out of      *)
(* stack is expanding a mask some operand of which was not yet defined     *)
(* where it was used.                                                      *)
CompilationEnds ==
  <>( \/ next = Len(program) + 1
      \/ Overflowed /\ stack[1].mask \notin DOMAIN meaning )

(* What docs/phase35-mask-logical.md says of every consumer: the backend   *)
(* "materializes the final consumer mask in v0".                           *)
ConsumerMaskInV0 ==
  MaskReady /\ CurrentStatement.mask \in DOMAIN meaning =>
    reg["v0"] = meaning[CurrentStatement.mask]

(* The rule of docs/phase30n-mask-architecture.md that "A mask must be     *)
(* defined before use": no consumer is served code for a mask that was     *)
(* defined from a mask not yet defined.                                    *)
DefinedBeforeUse == MaskReady => CurrentStatement.mask \in DOMAIN meaning
=============================================================================
