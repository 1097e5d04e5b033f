--------------------------- MODULE ScalarProgram ---------------------------
(***************************************************************************)
(* What a ZC function computes: the meaning of expressions, variables,     *)
(* calls, loads and stores, print_i32, if, while and return, taken from    *)
(* the SSA code that lib/MLIRGen/MLIRGen.cpp generates for them and, for   *)
(* what it refuses (if, while), from the LLVM dialect of                   *)
(* lib/CodeGen/CodeGen.cpp.  The code generators that put values into      *)
(* registers are compared with it.                                         *)
(*                                                                         *)
(* A program is a sequence of functions [name, params, body]; expressions  *)
(* and statements are records with a `kind`.  A variable is a name for a   *)
(* value, and an assignment gives the name another one.  A pointer is a    *)
(* byte address, and a cell of memory is a word of four bytes.             *)
(*                                                                         *)
(* What a vector or matrix statement does to memory is the subject of      *)
(* VectorKernel and MatrixKernel: here it is an event with the buffers and *)
(* operands it was given.                                                  *)
(***************************************************************************)
EXTENDS Integers, Sequences, SequencesExt

CONSTANTS
  WordBits,   \* the width of i32
  Fuel        \* a bound on loop iterations and calls of one execution

Half == 2 ^ (WordBits - 1)
Word == -Half .. Half - 1
Wrap(v) == ((v + Half) % (2 * Half)) - Half

Magnitude(v) == IF v < 0 THEN -v ELSE v

(* Signed division truncates.                                              *)
Quotient(a, b) ==
  IF (a < 0) = (b < 0) THEN Magnitude(a) \div Magnitude(b)
                       ELSE -(Magnitude(a) \div Magnitude(b))

Truth(b) == IF b THEN 1 ELSE 0

Apply(op, a, b) ==
  CASE op = "+"  -> Wrap(a + b)
    [] op = "-"  -> Wrap(a - b)
    [] op = "*"  -> Wrap(a * b)
    [] op = "/"  -> Quotient(a, b)
    [] op = "<"  -> Truth(a < b)
    [] op = "<=" -> Truth(a <= b)
    [] op = ">"  -> Truth(a > b)
    [] op = ">=" -> Truth(a >= b)
    [] op = "==" -> Truth(a = b)
    [] op = "!=" -> Truth(a # b)

(* arith.divsi has no result for a zero divisor and for an overflow.       *)
Undefined(op, a, b) == op = "/" /\ (b = 0 \/ (a = -Half /\ b = -1))

(* The decimal text of a number, as bytes: sign, digits, end of line.      *)
Decimal(v) ==
  LET m == Magnitude(v)
      count == CHOOSE k \in 1 .. WordBits :
                 m < 10 ^ k /\ (k = 1 \/ m >= 10 ^ (k - 1))
  IN  (IF v < 0 THEN <<45>> ELSE <<>>)
      \o [i \in 1 .. count |-> 48 + ((m \div 10 ^ (count - i)) % 10)]
      \o <<10>>

---------------------------------------------------------------------------
(* The state of an execution: env, mem, out (the events so far), calls (the*)
(* calls made, with their arguments), fuel, value (of the last expression) *)
(* and end: "none" while it goes on, "returned", "undefined" when the      *)
(* source has no meaning, "unfinished" when the fuel is spent.             *)
Going(s) == s.end = "none"
End(s, how) == [s EXCEPT !.end = how]

Bind(f, x, v) == [y \in DOMAIN f \cup {x} |-> IF y = x THEN v ELSE f[y]]

(* The cell that index i of the buffer at address a is.                    *)
Cell(a, i) == a \div 4 + i

SumCells(mem, from, n) ==
  FoldLeft(LAMBDA sum, i : sum + mem[from + i - 1], 0, [i \in 1 .. n |-> i])

RECURSIVE Eval(_, _), EvalAll(_, _), Exec(_, _), ExecBlock(_, _),
          Invoke(_, _, _)

emitVariable(e, s) ==
  IF e.name \in DOMAIN s.env THEN [s EXCEPT !.value = s.env[e.name]]
                             ELSE End(s, "undefined")

emitBinary(e, s) ==
  LET l == Eval(e.lhs, s)
      r == Eval(e.rhs, l)
  IN  IF ~ Going(r) THEN r
      ELSE IF Undefined(e.op, l.value, r.value) THEN End(r, "undefined")
      ELSE [r EXCEPT !.value = Apply(e.op, l.value, r.value)]

emitCall(e, s) ==
  LET a == EvalAll(e.args, s)
  IN  IF Going(a)
        THEN Invoke(e.callee, a.value,
                    [a EXCEPT !.calls = Append(@, <<e.callee, a.value>>)])
        ELSE a

emitLoad(e, s) ==
  LET i == Eval(e.index, s)
  IN  IF ~ Going(i) THEN i
      ELSE IF e.buffer \notin DOMAIN i.env THEN End(i, "undefined")
      ELSE LET c == Cell(i.env[e.buffer], i.value)
           IN  IF c \in DOMAIN i.mem THEN [i EXCEPT !.value = i.mem[c]]
                                     ELSE End(i, "undefined")

Eval(e, s) ==
  IF ~ Going(s) THEN s
  ELSE CASE e.kind = "integer"  -> [s EXCEPT !.value = e.value]
         [] e.kind = "variable" -> emitVariable(e, s)
         [] e.kind = "binary"   -> emitBinary(e, s)
         [] e.kind = "call"     -> emitCall(e, s)
         [] e.kind = "load"     -> emitLoad(e, s)

(* The values of several expressions, from left to right.                  *)
EvalAll(es, s) ==
  IF es = <<>> THEN [s EXCEPT !.value = <<>>]
  ELSE LET first == EvalAll(Front(es), s)
           last == Eval(Last(es), first)
       IN  IF Going(last)
             THEN [last EXCEPT !.value = Append(first.value, last.value)]
             ELSE last

---------------------------------------------------------------------------
emitLet(st, s) ==
  LET v == Eval(st.value, s)
  IN  IF Going(v) THEN [v EXCEPT !.env = Bind(@, st.name, v.value)] ELSE v

emitStore(st, s) ==
  LET i == Eval(st.index, s)
      v == Eval(st.value, i)
  IN  IF ~ Going(v) THEN v
      ELSE IF st.buffer \notin DOMAIN v.env THEN End(v, "undefined")
      ELSE LET c == Cell(v.env[st.buffer], i.value)
           IN  IF c \in DOMAIN v.mem THEN [v EXCEPT !.mem[c] = v.value]
                                     ELSE End(v, "undefined")

emitPrintI32(st, s) ==
  LET v == Eval(st.value, s)
  IN  IF Going(v)
        THEN [v EXCEPT !.out = Append(@, <<"write", Decimal(v.value)>>)]
        ELSE v

(* A vector or matrix statement, as an event.                              *)
emitKernel(st, s) ==
  LET v == EvalAll(st.operands, s)
  IN  IF ~ Going(v) THEN v
      ELSE IF ~ ToSet(st.buffers) \subseteq DOMAIN v.env
        THEN End(v, "undefined")
      ELSE [v EXCEPT !.out = Append(@, <<st.name,
              [i \in DOMAIN st.buffers |-> v.env[st.buffers[i]]], v.value>>)]

(* The reduction adds the first cells of a buffer to a variable.           *)
emitVectorReduceAdd(st, s) ==
  LET n == Eval(st.length, s)
  IN  IF ~ Going(n) THEN n
      ELSE IF ~ {st.result, st.input} \subseteq DOMAIN n.env
        THEN End(n, "undefined")
      ELSE LET first == Cell(n.env[st.input], 0)
           IN  IF n.value < 0 \/ ~ first .. first + n.value - 1
                                     \subseteq DOMAIN n.mem
                 THEN End(n, "undefined")
                 ELSE [n EXCEPT !.env = Bind(@, st.result,
                         Wrap(@[st.result] + SumCells(n.mem, first, n.value)))]

emitReturn(st, s) ==
  LET v == Eval(st.value, s) IN IF Going(v) THEN End(v, "returned") ELSE v

emitIf(st, s) ==
  LET c == Eval(st.cond, s)
  IN  IF Going(c)
        THEN ExecBlock(IF c.value # 0 THEN st.then ELSE st.else, c)
        ELSE c

emitWhile(st, s) ==
  LET c == Eval(st.cond, s)
  IN  IF ~ Going(c) \/ c.value = 0 THEN c
      ELSE IF c.fuel = 0 THEN End(c, "unfinished")
      ELSE Exec(st, ExecBlock(st.body, [c EXCEPT !.fuel = @ - 1]))

Exec(st, s) ==
  IF ~ Going(s) THEN s
  ELSE CASE st.kind \in {"let", "assign"} -> emitLet(st, s)
         [] st.kind = "store"     -> emitStore(st, s)
         [] st.kind = "print_i32" -> emitPrintI32(st, s)
         [] st.kind = "kernel"    -> emitKernel(st, s)
         [] st.kind = "vector_reduce_add" -> emitVectorReduceAdd(st, s)
         [] st.kind = "return"    -> emitReturn(st, s)
         [] st.kind = "if"        -> emitIf(st, s)
         [] st.kind = "while"     -> emitWhile(st, s)

ExecBlock(stmts, s) ==
  IF stmts = <<>> THEN s ELSE Exec(Last(stmts), ExecBlock(Front(stmts), s))

Function(program, name) == SelectInSeq(program, LAMBDA f : f.name = name)

(* A call: the callee has variables of its own, and returns 0 when it ends *)
(* without a return.                                                       *)
Invoke(name, args, s) ==
  LET at == Function(s.program, name)
  IN  IF at = 0 \/ Len(args) # Len(s.program[at].params)
        THEN End(s, "undefined")
      ELSE IF s.fuel = 0 THEN End(s, "unfinished")
      ELSE LET f == s.program[at]
               r == ExecBlock(f.body, [s EXCEPT !.fuel = @ - 1,
                      !.env = [x \in ToSet(f.params) |->
                        args[SelectLastInSeq(f.params, LAMBDA p : p = x)]]])
           IN  IF r.end \in {"none", "returned"}
                 THEN [r EXCEPT !.end = "none", !.env = s.env,
                        !.value = IF Going(r) THEN 0 ELSE @]
                 ELSE r

(* What the first function of a program does when it is called.            *)
Meaning(program, args, mem) ==
  Invoke(program[1].name, args,
    [ program |-> program, env |-> [x \in {} |-> 0], mem |-> mem,
      out |-> <<>>, calls |-> <<>>, fuel |-> Fuel, value |-> 0,
      end |-> "none" ])

Defined(m) == m.end = "none"
============================================================================
