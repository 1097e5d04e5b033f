------------------------------ MODULE Grammar ------------------------------
(***************************************************************************)
(* The grammar of .zc programs, as rules that derive facts about a list of *)
(* tokens.  A fact <<sort, node, i, j>> says that the tokens from i up to, *)
(* but not with, j are spelled as the grammar spells the node; a list of   *)
(* tokens means a tree if the rules derive it, that is, if the fact is in  *)
(* every set that is closed under them.                                    *)
(*                                                                         *)
(* Arithmetic binds tighter than a comparison, a product tighter than a    *)
(* sum, and operators of the same rank belong to the left.                 *)
(***************************************************************************)
EXTENDS AST, Token, Integers

Rank(op) == CASE op \in {"*", "/"} -> 3
              [] op \in {"+", "-"} -> 2
              [] OTHER -> 1

Operators == {"*", "/", "+", "-", "<", "<=", ">", ">=", "==", "!="}

(* Expressions whose operators outside of parentheses have at least this   *)
(* rank; those of rank 4 have none.                                        *)
Expression(rank) == <<"expression", rank>>
Primary == Expression(4)

Is(ts, i, kind) == i \in DOMAIN ts /\ ts[i].kind = kind

---------------------------------------------------------------------------
(* The fields of a vector or matrix statement, by its keyword, and those   *)
(* that hold an expression.                                                *)
FieldsOf(k) ==
  CASE k = "matrix_pack_b"               -> MatrixPackBStmtAST
    [] k \in MatrixMultiplies            -> MatrixMultiplyStmtAST
    [] k \in VectorAdds                  -> VectorAddStmtAST
    [] k = "vector_strided_load"         -> VectorStridedLoadStmtAST
    [] k = "vector_indexed_load"         -> VectorIndexedLoadStmtAST
    [] k = "vector_strided_store"        -> VectorStridedStoreStmtAST
    [] k = "vector_indexed_store"        -> VectorIndexedStoreStmtAST
    [] k = "vector_copy"                 -> VectorCopyStmtAST
    [] k = "vector_scale"                -> VectorScaleStmtAST
    [] k = "vector_mul"                  -> VectorMulStmtAST
    [] k = "vector_widen_add_i16_i32"    -> VectorWidenAddStmtAST
    [] k = "vector_reduce_add"           -> VectorReduceAddStmtAST
    [] k \in Selects                     -> VectorSelectStmtAST
    [] k \in Masks                       -> VectorMaskStmtAST
    [] k \in MaskLogicals                -> VectorMaskLogicalStmtAST
    [] k = "vector_mask_not"             -> VectorMaskLogicalStmtAST
    [] k \in MaskedBinaries              -> VectorMaskedBinaryStmtAST
    [] k = "vector_masked_store"         -> VectorMaskedStoreStmtAST
    [] k = "vector_masked_load"          -> VectorMaskedLoadStmtAST
    [] k = "vector_masked_strided_load"  -> VectorMaskedStridedLoadStmtAST
    [] k = "vector_masked_indexed_load"  -> VectorMaskedIndexedLoadStmtAST
    [] k = "vector_masked_strided_store" -> VectorMaskedStridedStoreStmtAST
    [] k = "vector_masked_indexed_store" -> VectorMaskedIndexedStoreStmtAST

IsExpression(field) ==
  field \in {"length", "stride", "factor", "rows", "cols", "inner"}

(* What stands for an operand: a name, an expression, or, where the        *)
(* complement has no second mask, nothing.                                 *)
Operand(k, n) ==
  IF k = "vector_mask_not" /\ FieldsOf(k)[n] = "rhs" THEN "absent"
  ELSE IF IsExpression(FieldsOf(k)[n]) THEN "expression" ELSE "name"

(* The first n operands of a statement.                                    *)
Operands(k, n) == <<"operands", k, n>>

(* A comma stands before each operand but the first.                       *)
Separates(ts, n, i, j) ==
  IF n = 0 THEN j = i ELSE Is(ts, i, Comma) /\ j = i + 1

---------------------------------------------------------------------------
(* The rules.                                                              *)

NameRule(D, ts) ==
  \A i \in DOMAIN ts :
    ts[i].kind = "identifier" => <<"name", ts[i].lexeme, i, i + 1>> \in D

IntegerRule(D, ts) ==
  \A i \in DOMAIN ts :
    ts[i].kind = "integer" =>
      <<Primary, IntegerExprAST(ts[i].lexeme), i, i + 1>> \in D

VariableRule(D, ts) ==
  \A x, i, j : <<"name", x, i, j>> \in D =>
                 <<Primary, VariableExprAST(x), i, j>> \in D

LoadRule(D, ts) ==
  \A x, e, i, j, k :
    /\ Is(ts, i, "load") /\ <<"name", x, i + 1, j>> \in D
    /\ Is(ts, j, "[") /\ <<Expression(1), e, j + 1, k>> \in D /\ Is(ts, k, "]")
    => <<Primary, LoadExprAST(x, e), i, k + 1>> \in D

CallRule(D, ts) ==
  \A x, args, i, j, k :
    /\ <<"name", x, i, j>> \in D /\ Is(ts, j, "(")
    /\ \/ <<"arguments", args, j + 1, k>> \in D
       \/ args = <<>> /\ k = j + 1
    /\ Is(ts, k, ")")
    => <<Primary, CallExprAST(x, args), i, k + 1>> \in D

FirstArgument(D, ts) ==
  \A e, i, j : <<Expression(1), e, i, j>> \in D =>
                 <<"arguments", <<e>>, i, j>> \in D

NextArgument(D, ts) ==
  \A args, e, i, j, k :
    /\ <<"arguments", args, i, j>> \in D /\ Is(ts, j, Comma)
    /\ <<Expression(1), e, j + 1, k>> \in D
    => <<"arguments", Append(args, e), i, k>> \in D

GroupRule(D, ts) ==
  \A e, i, j :
    /\ Is(ts, i, "(") /\ <<Expression(1), e, i + 1, j>> \in D /\ Is(ts, j, ")")
    => <<Primary, e, i, j + 1>> \in D

LooserRule(D, ts) ==
  \A e, i, j : \A r \in 1 .. 3 :
    <<Expression(r + 1), e, i, j>> \in D => <<Expression(r), e, i, j>> \in D

BinaryRule(D, ts) ==
  \A l, r, i, j, k :
    /\ j \in DOMAIN ts /\ ts[j].kind \in Operators
    /\ <<Expression(Rank(ts[j].kind)), l, i, j>> \in D
    /\ <<Expression(Rank(ts[j].kind) + 1), r, j + 1, k>> \in D
    => <<Expression(Rank(ts[j].kind)),
         BinaryExprAST(ts[j].lexeme, l, r), i, k>> \in D

ExpressionRules(D, ts) ==
  /\ NameRule(D, ts) /\ IntegerRule(D, ts) /\ VariableRule(D, ts)
  /\ LoadRule(D, ts) /\ CallRule(D, ts) /\ FirstArgument(D, ts)
  /\ NextArgument(D, ts) /\ GroupRule(D, ts) /\ LooserRule(D, ts)
  /\ BinaryRule(D, ts)

---------------------------------------------------------------------------
AssignmentRule(D, ts) ==
  \A x, e, i, j, k :
    /\ <<"name", x, i, j>> \in D /\ Is(ts, j, "=")
    /\ <<Expression(1), e, j + 1, k>> \in D /\ Is(ts, k, Semicolon)
    => /\ <<"statement", AssignStmtAST(x, e), i, k + 1>> \in D
       /\ \A h : Is(ts, h, "let") /\ i = h + 1 =>
                  <<"statement", LetStmtAST(x, e), h, k + 1>> \in D

StoreRule(D, ts) ==
  \A x, a, e, i, j, k, h :
    /\ Is(ts, i, "store") /\ <<"name", x, i + 1, j>> \in D
    /\ Is(ts, j, "[") /\ <<Expression(1), a, j + 1, k>> \in D
    /\ Is(ts, k, "]") /\ Is(ts, k + 1, "=")
    /\ <<Expression(1), e, k + 2, h>> \in D /\ Is(ts, h, Semicolon)
    => <<"statement", StoreStmtAST(x, a, e), i, h + 1>> \in D

PrintRule(D, ts) ==
  \A e, i, j :
    /\ Is(ts, i, "print_i32") /\ <<Expression(1), e, i + 1, j>> \in D
    /\ Is(ts, j, Semicolon)
    => <<"statement", PrintI32StmtAST(e), i, j + 1>> \in D

ReturnRule(D, ts) ==
  \A e, i, j :
    /\ Is(ts, i, "return") /\ <<Expression(1), e, i + 1, j>> \in D
    /\ Is(ts, j, Semicolon)
    => <<"statement", ReturnStmtAST(e), i, j + 1>> \in D

BlockRule(D, ts) ==
  \A body, i, j :
    /\ Is(ts, i, LBrace) /\ <<"statements", body, i + 1, j>> \in D
    /\ Is(ts, j, RBrace)
    => <<"block", body, i, j + 1>> \in D

IfRule(D, ts) ==
  \A e, body, else, i, j, k, h :
    /\ Is(ts, i, "if") /\ <<Expression(1), e, i + 1, j>> \in D
    /\ <<"block", body, j, k>> \in D
    /\ \/ else = <<>> /\ h = k
       \/ Is(ts, k, "else") /\ <<"block", else, k + 1, h>> \in D
    => <<"statement", IfStmtAST(e, body, else), i, h>> \in D

WhileRule(D, ts) ==
  \A e, body, i, j, k :
    /\ Is(ts, i, "while") /\ <<Expression(1), e, i + 1, j>> \in D
    /\ <<"block", body, j, k>> \in D
    => <<"statement", WhileStmtAST(e, body), i, k>> \in D

NoOperand(D, ts) ==
  \A k \in KernelKeywords : \A i \in DOMAIN ts :
    <<Operands(k, 0), <<>>, i, i>> \in D

NextOperand(D, ts) ==
  \A k \in KernelKeywords : \A n \in 0 .. Len(FieldsOf(k)) - 1 :
    \A ops, x, i, j, h, g :
      /\ <<Operands(k, n), ops, i, j>> \in D
      /\ \/ /\ Operand(k, n + 1) = "absent" /\ x = NoName /\ g = j
         \/ /\ Operand(k, n + 1) = "name" /\ Separates(ts, n, j, h)
            /\ <<"name", x, h, g>> \in D
         \/ /\ Operand(k, n + 1) = "expression" /\ Separates(ts, n, j, h)
            /\ <<Expression(1), x, h, g>> \in D
      => <<Operands(k, n + 1), Append(ops, x), i, g>> \in D

KernelRule(D, ts) ==
  \A k \in KernelKeywords : \A ops, i, j :
    /\ Is(ts, i, k) /\ <<Operands(k, Len(FieldsOf(k))), ops, i + 1, j>> \in D
    /\ Is(ts, j, Semicolon)
    => <<"statement", Statement(k, FieldsOf(k), ops), i, j + 1>> \in D

StatementRules(D, ts) ==
  /\ AssignmentRule(D, ts) /\ StoreRule(D, ts) /\ PrintRule(D, ts)
  /\ ReturnRule(D, ts) /\ BlockRule(D, ts) /\ IfRule(D, ts)
  /\ WhileRule(D, ts) /\ NoOperand(D, ts) /\ NextOperand(D, ts)
  /\ KernelRule(D, ts)

---------------------------------------------------------------------------
(* A list of statements or functions, from the first to the last.          *)
NoElement(D, ts) ==
  \A i \in DOMAIN ts :
    {<<"statements", <<>>, i, i>>, <<"functions", <<>>, i, i>>} \subseteq D

NextElement(D, ts) ==
  \A all, one, i, j, k :
    /\ /\ <<"statements", all, i, j>> \in D /\ <<"statement", one, j, k>> \in D
       => <<"statements", Append(all, one), i, k>> \in D
    /\ /\ <<"functions", all, i, j>> \in D /\ <<"function", one, j, k>> \in D
       => <<"functions", Append(all, one), i, k>> \in D

TypeRule(D, ts) ==
  /\ \A i \in DOMAIN ts :
       ts[i].kind \in IntegerTypes => <<"type", ts[i].lexeme, i, i + 1>> \in D
  /\ \A i \in DOMAIN ts :
       /\ ts[i].kind = "ptr" /\ Is(ts, i + 1, "<")
       /\ i + 2 \in DOMAIN ts /\ ts[i + 2].kind \in IntegerTypes
       /\ Is(ts, i + 3, ">")
       => <<"type", "ptr<" \o ts[i + 2].lexeme \o ">", i, i + 4>> \in D

ParameterRule(D, ts) ==
  \A x, t, i, j, k :
    /\ <<"name", x, i, j>> \in D /\ Is(ts, j, ":")
    /\ <<"type", t, j + 1, k>> \in D
    => <<"parameter", ParameterAST(x, t), i, k>> \in D

FirstParameter(D, ts) ==
  \A p, i, j : <<"parameter", p, i, j>> \in D =>
                 <<"parameters", <<p>>, i, j>> \in D

NextParameter(D, ts) ==
  \A ps, p, i, j, k :
    /\ <<"parameters", ps, i, j>> \in D /\ Is(ts, j, Comma)
    /\ <<"parameter", p, j + 1, k>> \in D
    => <<"parameters", Append(ps, p), i, k>> \in D

FunctionRule(D, ts) ==
  \A x, ps, t, body, i, j, k, h, g :
    /\ Is(ts, i, "func") /\ <<"name", x, i + 1, j>> \in D /\ Is(ts, j, "(")
    /\ \/ <<"parameters", ps, j + 1, k>> \in D
       \/ ps = <<>> /\ k = j + 1
    /\ Is(ts, k, ")") /\ Is(ts, k + 1, "->")
    /\ <<"type", t, k + 2, h>> \in D /\ <<"block", body, h, g>> \in D
    => <<"function", FunctionAST(x, ps, t, body), i, g>> \in D

FunctionRules(D, ts) ==
  /\ NoElement(D, ts) /\ NextElement(D, ts) /\ TypeRule(D, ts)
  /\ ParameterRule(D, ts) /\ FirstParameter(D, ts) /\ NextParameter(D, ts)
  /\ FunctionRule(D, ts)

Closed(D, ts) ==
  ExpressionRules(D, ts) /\ StatementRules(D, ts) /\ FunctionRules(D, ts)

(* The tokens, without the one that ends the file, mean the module m.      *)
Means(ts, m) ==
  \A D : Closed(D, ts) => <<"functions", m, 1, Len(ts)>> \in D
============================================================================
