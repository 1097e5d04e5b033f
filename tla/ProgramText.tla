---------------------------- MODULE ProgramText ----------------------------
(***************************************************************************)
(* The tokens a tree stands for, with no more parentheses than it needs:   *)
(* what the parser is compared with.  Arithmetic binds tighter than a      *)
(* comparison, a product tighter than a sum, and operators of the same     *)
(* rank belong to the left.                                                *)
(***************************************************************************)
EXTENDS Grammar

Separated(texts) ==
  FlattenSeq([i \in DOMAIN texts |->
                IF i = 1 THEN texts[i] ELSE <<",">> \o texts[i]])

RECURSIVE ExpressionText(_)

(* An operand, in parentheses if it binds less than it must.               *)
OperandText(e, rank) ==
  IF e.kind = "binary" /\ Rank(e.op) < rank
    THEN <<"(">> \o ExpressionText(e) \o <<")">>
    ELSE ExpressionText(e)

ExpressionText(e) ==
  CASE e.kind = "integer"  -> <<e.value>>
    [] e.kind = "variable" -> <<e.name>>
    [] e.kind = "load" ->
         <<"load", e.buffer, "[">> \o ExpressionText(e.index) \o <<"]">>
    [] e.kind = "call" ->
         <<e.callee, "(">>
           \o Separated([i \in DOMAIN e.args |-> ExpressionText(e.args[i])])
           \o <<")">>
    [] e.kind = "binary" ->
         OperandText(e.lhs, Rank(e.op)) \o <<e.op>>
           \o OperandText(e.rhs, Rank(e.op) + 1)

---------------------------------------------------------------------------
(* The complement has one mask, and an empty name for the other.           *)
KernelText(s) ==
  LET written == SelectSeq(FieldsOf(s.kind), LAMBDA f :
                   ~ (s.kind = "vector_mask_not" /\ f = "rhs"))
  IN  <<s.kind>>
        \o Separated([i \in DOMAIN written |->
             IF IsExpression(written[i]) THEN ExpressionText(s[written[i]])
                                         ELSE <<s[written[i]]>>])
        \o <<";">>

RECURSIVE StatementText(_)
BlockText(body) ==
  <<"{">> \o FlattenSeq([i \in DOMAIN body |-> StatementText(body[i])])
    \o <<"}">>

StatementText(s) ==
  CASE s.kind = "let" ->
         <<"let", s.name, "=">> \o ExpressionText(s.value) \o <<";">>
    [] s.kind = "assign" ->
         <<s.name, "=">> \o ExpressionText(s.value) \o <<";">>
    [] s.kind = "store" ->
         <<"store", s.buffer, "[">> \o ExpressionText(s.index)
           \o <<"]", "=">> \o ExpressionText(s.value) \o <<";">>
    [] s.kind \in {"return", "print_i32"} ->
         <<s.kind>> \o ExpressionText(s.value) \o <<";">>
    [] s.kind = "if" ->
         <<"if">> \o ExpressionText(s.cond) \o BlockText(s.then)
           \o IF s.else = <<>> THEN <<>> ELSE <<"else">> \o BlockText(s.else)
    [] s.kind = "while" ->
         <<"while">> \o ExpressionText(s.cond) \o BlockText(s.body)
    [] OTHER -> KernelText(s)

---------------------------------------------------------------------------
TypeText(type) ==
  IF type \in IntegerTypes THEN <<type>>
  ELSE LET t == CHOOSE t \in IntegerTypes : type = "ptr<" \o t \o ">"
       IN  <<"ptr", "<", t, ">">>

FunctionText(f) ==
  <<"func", f.name, "(">>
    \o Separated([i \in DOMAIN f.params |->
         <<f.params[i].name, ":">> \o TypeText(f.params[i].type)])
    \o <<")", "->">> \o TypeText(f.type) \o BlockText(f.body)

ModuleText(m) == FlattenSeq([i \in DOMAIN m |-> FunctionText(m[i])])
============================================================================
