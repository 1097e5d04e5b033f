--------------------------- MODULE ScalarCodeGen ---------------------------
(***************************************************************************)
(* The RISC-V assembly that FunctionEmitter (lib/CodeGen/CodeGen.cpp)      *)
(* writes for a module: scalar expressions and statements, calls, control  *)
(* flow, print_i32 and its runtime.                                        *)
(*                                                                         *)
(* Values live in registers and nowhere else: a parameter in a0, a1, ...,  *)
(* every other value in the next of t0 .. t6 in turn, whether that one is  *)
(* free or not.  An assignment emits no code: it changes the register that *)
(* the name stands for in the code emitted after it.                       *)
(*                                                                         *)
(* The code is a sequence of instructions, tuples that begin with the      *)
(* operation.  The loops of a vector or matrix statement are one           *)
(* instruction, which names the registers it reads and the temporaries it  *)
(* writes.  What is emitted after a diagnostic is never assembled (Driver),*)
(* so an emitter that has reported one emits nothing more.                 *)
(***************************************************************************)
EXTENDS Integers, Sequences, SequencesExt

Argument(i) == "a" \o ToString(i)    \* i counts from 0, as in the ABI
Temporary(i) == "t" \o ToString(i)

(* A FunctionEmitter.  `value` is the register of the last expression.     *)
FunctionEmitter(params) ==
  [ variables |-> [x \in ToSet(params) |->
                     Argument(SelectLastInSeq(params, LAMBDA p : p = x) - 1)],
    nextRegisterID |-> 0, nextLabelID |-> 0, blockTerminated |-> FALSE,
    diagnosed |-> FALSE, value |-> "", code |-> <<>> ]

Diagnosed(e) == [e EXCEPT !.diagnosed = TRUE]

(* Faulty: one temporary fewer.                                            *)
nextTempRegisterOfSix(e, i) == Temporary((e.nextRegisterID + i - 1) % 6)

(* What the i-th next call of nextTempRegister returns.                    *)
nextTempRegister(e, i) == Temporary((e.nextRegisterID + i - 1) % 7)

nextLabel(prefix, e, i) == prefix \o "." \o ToString(e.nextLabelID + i - 1)

Emit(e, code) == [e EXCEPT !.code = @ \o code]

(* Emit code that uses the next n temporaries, and yields a register.      *)
Yield(e, n, code, register) ==
  [Emit(e, code) EXCEPT !.nextRegisterID = @ + n, !.value = register]

UseLabels(e, n) == [e EXCEPT !.nextLabelID = @ + n]

Known(e, names) == names \subseteq DOMAIN e.variables

(* What is emitted after e.                                                *)
After(e, More(_)) == IF e.diagnosed THEN e ELSE More(e)

RECURSIVE emitExpression(_, _), emitExpressions(_, _)
RECURSIVE emitStatement(_, _), emitBlock(_, _)

---------------------------------------------------------------------------
emitInteger(x, e) ==
  LET t == nextTempRegister(e, 1) IN Yield(e, 1, <<<<"li", t, x.value>>>>, t)

emitVariable(x, e) ==
  IF Known(e, {x.name}) THEN [e EXCEPT !.value = e.variables[x.name]]
                        ELSE Diagnosed(e)

emitRiscVBinary(op, lhs, rhs, dest) ==
  CASE op = "+"  -> <<<<"addw", dest, lhs, rhs>>>>
    [] op = "-"  -> <<<<"subw", dest, lhs, rhs>>>>
    [] op = "*"  -> <<<<"mulw", dest, lhs, rhs>>>>
    [] op = "/"  -> <<<<"divw", dest, lhs, rhs>>>>
    [] op = "<"  -> <<<<"slt", dest, lhs, rhs>>>>
    [] op = ">"  -> <<<<"slt", dest, rhs, lhs>>>>
    [] op = "<=" -> <<<<"slt", dest, rhs, lhs>>, <<"xori", dest, dest, 1>>>>
    [] op = ">=" -> <<<<"slt", dest, lhs, rhs>>, <<"xori", dest, dest, 1>>>>
    [] op = "==" -> <<<<"subw", dest, lhs, rhs>>, <<"seqz", dest, dest>>>>
    [] op = "!=" -> <<<<"subw", dest, lhs, rhs>>, <<"snez", dest, dest>>>>

BinaryResult(x, l, r) ==
  LET t == nextTempRegister(r, 1)
  IN  Yield(r, 1, emitRiscVBinary(x.op, l.value, r.value, t), t)

emitBinary(x, e) ==
  After(emitExpression(x.lhs, e), LAMBDA l :
    After(emitExpression(x.rhs, l), LAMBDA r : BinaryResult(x, l, r)))

PassedArguments(x) == IF Len(x.args) < 8 THEN Len(x.args) ELSE 8

ArgumentMoves(x, a) ==
  [i \in 1 .. PassedArguments(x) |-> <<"mv", Argument(i - 1), a.value[i]>>]

CallResult(x, a, moves) ==
  LET t == nextTempRegister(a, 1)
  IN  Yield(a, 1, moves \o << <<"call", x.callee, PassedArguments(x)>>,
                              <<"mv", t, "a0">> >>, t)

(* Faulty: the arguments are moved from the last to the first.             *)
emitCallBackwards(x, e) ==
  After(emitExpressions(x.args, e), LAMBDA a :
    CallResult(x, a, Reverse(ArgumentMoves(x, a))))

emitCall(x, e) ==
  After(emitExpressions(x.args, e), LAMBDA a :
    CallResult(x, a, ArgumentMoves(x, a)))

(* The address of an element: offset and address are two temporaries.      *)
ElementAddress(buffer, index, e) ==
  LET offset == nextTempRegister(e, 1)
  IN  << <<"slli", offset, index, 2>>,
         <<"add", nextTempRegister(e, 2), e.variables[buffer], offset>> >>

LoadResult(x, i) ==
  LET t == nextTempRegister(i, 3)
  IN  Yield(i, 3, ElementAddress(x.buffer, i.value, i)
                  \o <<<<"lw", t, nextTempRegister(i, 2)>>>>, t)

emitLoad(x, e) ==
  IF Known(e, {x.buffer})
    THEN After(emitExpression(x.index, e), LAMBDA i : LoadResult(x, i))
    ELSE Diagnosed(e)

emitExpression(x, e) ==
  IF e.diagnosed THEN e
  ELSE CASE x.kind = "integer"  -> emitInteger(x, e)
         [] x.kind = "variable" -> emitVariable(x, e)
         [] x.kind = "binary"   -> emitBinary(x, e)
         [] x.kind = "call"     -> emitCall(x, e)
         [] x.kind = "load"     -> emitLoad(x, e)

(* Several expressions, from left to right: `value` is their registers.    *)
emitExpressions(xs, e) ==
  IF xs = <<>> THEN [e EXCEPT !.value = <<>>]
  ELSE After(emitExpressions(Front(xs), e), LAMBDA first :
         [emitExpression(Last(xs), first) EXCEPT !.value =
            Append(first.value, @)])

---------------------------------------------------------------------------
Rebind(e, name, register) ==
  [e EXCEPT !.variables = [x \in DOMAIN @ \cup {name} |->
                             IF x = name THEN register ELSE @[x]]]

emitLet(st, e) ==
  After(emitExpression(st.value, e), LAMBDA v : Rebind(v, st.name, v.value))

emitStore(st, e) ==
  IF ~ Known(e, {st.buffer}) THEN Diagnosed(e)
  ELSE After(emitExpression(st.index, e), LAMBDA i :
         After(emitExpression(st.value, i), LAMBDA v :
           Yield(v, 2, ElementAddress(st.buffer, i.value, v)
                       \o <<<<"sw", v.value, nextTempRegister(v, 2)>>>>, "")))

(* The registers that a call of print_i32 saves.                           *)
Saved == {"ra"} \cup {Argument(i) : i \in 0 .. 7}
                \cup {Temporary(i) : i \in 0 .. 6}

emitPrintI32CallWithRegisterSave(register, e) ==
  Emit(e, << <<"save">>, <<"mv", "a0", register>>,
             <<"call", "zc_print_i32", 1>>, <<"restore">> >>)

emitPrintI32(st, e) ==
  After(emitExpression(st.value, e), LAMBDA v :
    emitPrintI32CallWithRegisterSave(v.value, v))

(* The temporaries the loop of a vector statement takes from the allocator,*)
(* after its operands; a matrix statement takes none.                      *)
LoopRegisters(name) ==
  CASE name \in {"vector_copy", "vector_scale", "vector_indexed_load",
                 "vector_indexed_store", "vector_masked_indexed_store"} -> 5
    [] name \in {"vector_add", "vector_mul", "vector_masked_store",
                 "vector_masked_load", "vector_masked_indexed_load"} -> 6
    [] name \in {"vector_strided_load", "vector_strided_store",
                 "vector_widen_add_i16_i32", "vector_select",
                 "vector_masked_add", "vector_masked_strided_load",
                 "vector_masked_strided_store"} -> 7

IsMatrix(name) == name \in {"matrix_pack_b", "matrix_multiply"}

LoopLabels(name) ==
  CASE name = "matrix_pack_b" -> 4
    [] name = "matrix_multiply" -> 6
    [] OTHER -> 2

Labels(name, e) ==
  [i \in 1 .. LoopLabels(name) |->
     <<"label", nextLabel(".L" \o name \o "_" \o ToString(i), e, i)>>]

Registers(e, names) == [i \in DOMAIN names |-> e.variables[names[i]]]

VectorLoop(st, v) ==
  LET n == LoopRegisters(st.name)
  IN  UseLabels(
        Yield(v, n, Labels(st.name, v) \o
          << <<"vector", st.name, Registers(v, st.buffers), v.value,
               {nextTempRegister(v, i) : i \in 1 .. n}>> >>, ""),
        LoopLabels(st.name))

emitVector(st, e) ==
  IF ~ Known(e, ToSet(st.buffers)) THEN Diagnosed(e)
  ELSE After(emitExpressions(st.operands, e), LAMBDA v : VectorLoop(st, v))

(* The loops of a matrix statement begin with moves into saved registers,  *)
(* and use t0 .. t3 whoever has them.                                      *)
MatrixTemporaries == {"t0", "t1", "t2", "t3"}

emitMatrix(st, e) ==
  IF ~ Known(e, ToSet(st.buffers)) THEN Diagnosed(e)
  ELSE After(emitExpressions(st.operands, e), LAMBDA v :
         UseLabels(
           Emit(v, Labels(st.name, v) \o
             << <<"matrix", st.name, Registers(v, st.buffers), v.value>> >>),
           LoopLabels(st.name)))

ReduceLoop(st, n) ==
  LET accumulator == nextTempRegister(n, 1)
      reduce == <<"reduce", accumulator, n.variables[st.result],
                  n.variables[st.input], n.value,
                  {nextTempRegister(n, i) : i \in 1 .. 5}>>
  IN  Rebind(
        UseLabels(Yield(n, 5, Append(Labels(st.kind, n), reduce), ""), 2),
        st.result, accumulator)

emitVectorReduceAdd(st, e) ==
  IF ~ Known(e, {st.result, st.input}) THEN Diagnosed(e)
  ELSE After(emitExpression(st.length, e), LAMBDA n : ReduceLoop(st, n))

emitReturn(st, e) ==
  After(emitExpression(st.value, e), LAMBDA v :
    [Emit(v, <<<<"mv", "a0", v.value>>, <<"ret">>>>)
       EXCEPT !.blockTerminated = TRUE])

---------------------------------------------------------------------------
Branches(st, c) ==
  LET elseLabel == nextLabel(".Lelse", c, 1)
      endLabel == nextLabel(".Lendif", c, 2)
      then == emitBlock(st.then,
                Emit(UseLabels(c, 2), <<<<"beqz", c.value, elseLabel>>>>))
      else == emitBlock(st.else,
                Emit(then, <<<<"j", endLabel>>, <<"label", elseLabel>>>>))
  IN  Emit(else, <<<<"label", endLabel>>>>)

emitIf(st, e) ==
  After(emitExpression(st.cond, e), LAMBDA c : Branches(st, c))

LoopEnd(condLabel, endLabel) == <<<<"j", condLabel>>, <<"label", endLabel>>>>

(* Faulty: the loop goes back to behind its condition.                     *)
emitWhileConditionOnce(st, e) ==
  LET condLabel == nextLabel(".Lwhile", e, 1)
      endLabel == nextLabel(".Lendwhile", e, 2)
  IN  After(emitExpression(st.cond, UseLabels(e, 2)), LAMBDA c :
        Emit(emitBlock(st.body, Emit(c, <<<<"label", condLabel>>,
                                          <<"beqz", c.value, endLabel>>>>)),
             LoopEnd(condLabel, endLabel)))

emitWhile(st, e) ==
  LET condLabel == nextLabel(".Lwhile", e, 1)
      endLabel == nextLabel(".Lendwhile", e, 2)
      condition == Emit(UseLabels(e, 2), <<<<"label", condLabel>>>>)
  IN  After(emitExpression(st.cond, condition), LAMBDA c :
        Emit(emitBlock(st.body, Emit(c, <<<<"beqz", c.value, endLabel>>>>)),
             LoopEnd(condLabel, endLabel)))

emitStatement(st, e) ==
  IF e.diagnosed THEN e
  ELSE CASE st.kind \in {"let", "assign"} -> emitLet(st, e)
         [] st.kind = "store"     -> emitStore(st, e)
         [] st.kind = "print_i32" -> emitPrintI32(st, e)
         [] st.kind = "kernel" ->
              IF IsMatrix(st.name) THEN emitMatrix(st, e)
                                   ELSE emitVector(st, e)
         [] st.kind = "vector_reduce_add" -> emitVectorReduceAdd(st, e)
         [] st.kind = "return"    -> emitReturn(st, e)
         [] st.kind = "if"        -> emitIf(st, e)
         [] st.kind = "while"     -> emitWhile(st, e)

emitBlock(stmts, e) ==
  IF stmts = <<>> THEN e
  ELSE emitStatement(Last(stmts), emitBlock(Front(stmts), e))

---------------------------------------------------------------------------
Body(f) ==
  emitBlock(f.body, Emit(FunctionEmitter(f.params), <<<<"label", f.name>>>>))

ReturnZero == <<<<"li", "a0", 0>>, <<"ret">>>>

(* Faulty: a function with a body needs no epilogue.                       *)
emitFunctionUnended(f) ==
  IF f.body # <<>> THEN Body(f) ELSE Emit(Body(f), ReturnZero)

Ended(e) == IF e.blockTerminated THEN e ELSE Emit(e, ReturnZero)

emitFunction(f) == Ended(Body(f))

(* The runtime: `print_enter` takes the magnitude of a0 and writes the end *)
(* of line (and the digit of zero), `print_digit` writes one digit and     *)
(* repeats, `print_sign` writes the sign, and `print_write` makes the      *)
(* system call and returns.                                                *)
emitPrintI32Runtime ==
  << <<"label", "zc_print_i32">>, <<"print_enter">>, <<"print_digit">>,
     <<"print_sign">>, <<"print_write">> >>

RECURSIVE statementUsesPrintI32(_)
statementUsesPrintI32(st) ==
  LET Uses(stmts) == \E i \in DOMAIN stmts : statementUsesPrintI32(stmts[i])
  IN  CASE st.kind = "print_i32" -> TRUE
        [] st.kind = "if"    -> Uses(st.then) \/ Uses(st.else)
        [] st.kind = "while" -> Uses(st.body)
        [] OTHER -> FALSE

moduleUsesPrintI32(program) ==
  \E i \in DOMAIN program : \E j \in DOMAIN program[i].body :
    statementUsesPrintI32(program[i].body[j])

Linked(program, functions) ==
  [ diagnosed |-> \E i \in DOMAIN program : functions[i].diagnosed,
    code |-> FlattenSeq([i \in DOMAIN program |-> functions[i].code])
             \o IF moduleUsesPrintI32(program) THEN emitPrintI32Runtime
                                               ELSE <<>> ]

emitModule(program) ==
  Linked(program, [i \in DOMAIN program |-> emitFunction(program[i])])
============================================================================
