------------------------------- MODULE Parser ------------------------------
(***************************************************************************)
(* lib/Parser/Parser.cpp: recursive descent over a list of tokens.         *)
(*                                                                         *)
(* The calls in progress are an agenda: what is still to be done, first    *)
(* item first.  Entering a parse function replaces its item by what its    *)
(* body does; results are left on the stack `nodes`.  The first item that  *)
(* fails reports a diagnostic, and then every caller returns: what is left *)
(* on the agenda is dropped item by item, except that the callers of       *)
(* parseType report again ("caller").  A stack is a pair of the stack below*)
(* and the last result.                                                    *)
(*                                                                         *)
(* A diagnostic is the number of the token it names.                       *)
(***************************************************************************)
EXTENDS AST, Token, Integers

VARIABLES
  tokens,
  position,     \* the number of the current token: Parser::current + 1
  agenda, nodes,
  failing,      \* a null pointer is being returned
  diagnostics,
  module        \* <<m>> when parseModule has returned m

parserVars == <<tokens, position, agenda, nodes, failing, diagnostics, module>>

Call(f) == <<f>>
Expect(kind) == <<"expect", kind>>
Build(class) == <<"build", class>>
NameItem == Call("name")
ExpressionItem == Call("expression")

ParserInit ==
  /\ tokens = <<>> /\ position = 1
  /\ agenda = <<Call("module")>> /\ nodes = << <<>>, <<>> >>
  /\ failing = FALSE /\ diagnostics = <<>> /\ module = <<>>

---------------------------------------------------------------------------
peekToken(offset) == tokens[IF position + offset > Len(tokens)
                              THEN Len(tokens) ELSE position + offset]
Kind(offset) == peekToken(offset).kind
check(kind) == Kind(0) = kind
lexeme == peekToken(0).lexeme

advanceBy(n) == IF check("eof") THEN position ELSE position + n

Doing(f) == ~ failing /\ agenda # <<>> /\ Head(agenda)[1] = f
argument == Head(agenda)[2]

Then(items) == agenda' = items \o Tail(agenda)
Push(node) == nodes' = <<nodes, node>>

(* After n tokens, go on with these items.                                 *)
Go(n, items) ==
  /\ position' = advanceBy(n) /\ Then(items)
  /\ UNCHANGED <<tokens, failing, diagnostics, module>>

(* The same, and leave a node.                                             *)
Take(n, node, items) == Go(n, items) /\ Push(node)

(* The same, and leave the nodes as they are.                              *)
Proceed(n, items) == Go(n, items) /\ UNCHANGED nodes

reportAtCurrent ==
  /\ diagnostics' = Append(diagnostics, position)
  /\ failing' = TRUE
  /\ UNCHANGED <<tokens, position, agenda, nodes, module>>

expect ==
  /\ Doing("expect")
  /\ IF check(argument) THEN Proceed(1, <<>>) ELSE reportAtCurrent

parseName ==
  /\ Doing("name")
  /\ IF check("identifier") THEN Take(1, lexeme, <<>>) ELSE reportAtCurrent

(* A failing call returns to its caller.                                   *)
ReturnNull ==
  /\ failing /\ agenda # <<>>
  /\ agenda' = Tail(agenda)
  /\ diagnostics' = IF Head(agenda)[1] = "caller"
                      THEN Append(diagnostics, position) ELSE diagnostics
  /\ UNCHANGED <<tokens, position, nodes, failing, module>>

(* An empty list, and its next element.                                    *)
OpenList == Doing("list") /\ Take(0, <<>>, <<>>)

Append1 ==
  /\ Doing("append")
  /\ LET below == nodes[1]
     IN  nodes' = <<below[1], Append(below[2], nodes[2])>>
  /\ Go(0, <<>>)

---------------------------------------------------------------------------
parseModule ==
  /\ Doing("module")
  /\ IF check("eof")
       THEN /\ module' = <<nodes[2]>> /\ Then(<<>>)
            /\ UNCHANGED <<tokens, position, nodes, failing, diagnostics>>
       ELSE Proceed(0, <<Call("function"), Call("append"), Call("module")>>)

parseFunction ==
  /\ Doing("function")
  /\ Proceed(0, << Expect("func"), NameItem, Expect("("), Call("list"),
                   Call("parameters"), Expect("->"), Call("type"),
                   Expect(LBrace), Call("list"), Call("block"),
                   Build("function") >>)

(* Faulty: nobody reports that there is no type.                           *)
parseTypeSilent ==
  /\ Doing("type")
  /\ IF Kind(0) \in IntegerTypes THEN Take(1, lexeme, <<>>)
     ELSE IF check("ptr")
       THEN Proceed(1, <<Expect("<"), Call("pointee"), Expect(">"),
                         Build("pointer"), Call("caller")>>)
     ELSE /\ failing' = TRUE
          /\ UNCHANGED <<tokens, position, agenda, nodes, diagnostics, module>>

(* The caller reports a failure of parseType, which has reported it before *)
(* if it is a pointer type.                                                *)
parseType ==
  /\ Doing("type")
  /\ IF Kind(0) \in IntegerTypes THEN Take(1, lexeme, <<>>)
     ELSE IF check("ptr")
       THEN Proceed(1, <<Expect("<"), Call("pointee"), Expect(">"),
                         Build("pointer"), Call("caller")>>)
     ELSE reportAtCurrent

parsePointee ==
  /\ Doing("pointee")
  /\ IF Kind(0) \in IntegerTypes THEN Take(1, lexeme, <<>>)
                                 ELSE reportAtCurrent

ReturnToCaller == Doing("caller") /\ Proceed(0, <<>>)

Parameter == <<NameItem, Expect(":"), Call("type"), Build("parameter"),
               Call("append"), Call("parameters_")>>

parseParameters ==
  \/ /\ Doing("parameters")
     /\ IF check(")") THEN Proceed(1, <<>>) ELSE Proceed(0, Parameter)
  \/ /\ Doing("parameters_")
     /\ \/ check(")") /\ Proceed(1, <<>>)
        \/ check(Comma) /\ Proceed(1, Parameter)
        \/ Kind(0) \notin {")", Comma} /\ reportAtCurrent

parseBlock ==
  /\ Doing("block")
  /\ IF Kind(0) \in {RBrace, "eof"}
       THEN Proceed(0, <<Expect(RBrace)>>)
       ELSE Proceed(0, <<Call("statement"), Call("append"), Call("block")>>)

---------------------------------------------------------------------------
(* What follows the keyword of a vector or matrix statement: "n" is a name,*)
(* "e" an expression, "0" an empty name; and the class of the node.        *)
Kernel(operands, class) == [operands |-> operands, class |-> class]

parseMatrixPackBStatement ==
  Kernel(<<"n", "n", "e", "e">>, MatrixPackBStmtAST)
parseMatrixMultiplyStatement ==
  Kernel(<<"n", "n", "n", "e", "e", "e">>, MatrixMultiplyStmtAST)
parseVectorAddStatement == Kernel(<<"n", "n", "n", "e">>, VectorAddStmtAST)
parseVectorStridedLoadStatement ==
  Kernel(<<"n", "n", "e", "e">>, VectorStridedLoadStmtAST)
parseVectorIndexedLoadStatement ==
  Kernel(<<"n", "n", "n", "e">>, VectorIndexedLoadStmtAST)
parseVectorStridedStoreStatement ==
  Kernel(<<"n", "n", "e", "e">>, VectorStridedStoreStmtAST)
parseVectorIndexedStoreStatement ==
  Kernel(<<"n", "n", "n", "e">>, VectorIndexedStoreStmtAST)
parseVectorCopyStatement == Kernel(<<"n", "n", "e">>, VectorCopyStmtAST)
parseVectorScaleStatement ==
  Kernel(<<"n", "n", "e", "e">>, VectorScaleStmtAST)
parseVectorMulStatement == Kernel(<<"n", "n", "n", "e">>, VectorMulStmtAST)
parseVectorWidenAddI16I32Statement ==
  Kernel(<<"n", "n", "n", "e">>, VectorWidenAddStmtAST)
parseVectorReduceAddStatement ==
  Kernel(<<"n", "n", "e">>, VectorReduceAddStmtAST)
parseVectorSelectStatement ==
  Kernel(<<"n", "n", "n", "n", "n", "e">>, VectorSelectStmtAST)
parseVectorMaskStatement == Kernel(<<"n", "n", "n", "e">>, VectorMaskStmtAST)
parseVectorMaskLogicalStatement(keyword) ==
  Kernel(<<"n", "n", IF keyword = "vector_mask_not" THEN "0" ELSE "n", "e">>,
         VectorMaskLogicalStmtAST)
parseVectorMaskedBinaryStatement ==
  Kernel(<<"n", "n", "n", "n", "n", "e">>, VectorMaskedBinaryStmtAST)
parseVectorMaskedStoreStatement ==
  Kernel(<<"n", "n", "n", "e">>, VectorMaskedStoreStmtAST)
parseVectorMaskedLoadStatement ==
  Kernel(<<"n", "n", "n", "n", "e">>, VectorMaskedLoadStmtAST)
parseVectorMaskedStridedLoadStatement ==
  Kernel(<<"n", "n", "e", "n", "n", "e">>, VectorMaskedStridedLoadStmtAST)
parseVectorMaskedIndexedLoadStatement ==
  Kernel(<<"n", "n", "n", "n", "n", "e">>, VectorMaskedIndexedLoadStmtAST)
parseVectorMaskedStridedStoreStatement ==
  Kernel(<<"n", "n", "e", "n", "e">>, VectorMaskedStridedStoreStmtAST)
parseVectorMaskedIndexedStoreStatement ==
  Kernel(<<"n", "n", "n", "n", "e">>, VectorMaskedIndexedStoreStmtAST)

parseKernel(k) ==
  CASE k = "matrix_pack_b" -> parseMatrixPackBStatement
    [] k \in MatrixMultiplies -> parseMatrixMultiplyStatement
    [] k \in VectorAdds -> parseVectorAddStatement
    [] k = "vector_strided_load" -> parseVectorStridedLoadStatement
    [] k = "vector_indexed_load" -> parseVectorIndexedLoadStatement
    [] k = "vector_strided_store" -> parseVectorStridedStoreStatement
    [] k = "vector_indexed_store" -> parseVectorIndexedStoreStatement
    [] k = "vector_copy" -> parseVectorCopyStatement
    [] k = "vector_scale" -> parseVectorScaleStatement
    [] k = "vector_mul" -> parseVectorMulStatement
    [] k = "vector_widen_add_i16_i32" -> parseVectorWidenAddI16I32Statement
    [] k = "vector_reduce_add" -> parseVectorReduceAddStatement
    [] k \in Selects -> parseVectorSelectStatement
    [] k \in Masks -> parseVectorMaskStatement
    [] k \in MaskLogicals \cup {"vector_mask_not"} ->
         parseVectorMaskLogicalStatement(k)
    [] k \in MaskedBinaries -> parseVectorMaskedBinaryStatement
    [] k = "vector_masked_store" -> parseVectorMaskedStoreStatement
    [] k = "vector_masked_load" -> parseVectorMaskedLoadStatement
    [] k = "vector_masked_strided_load" ->
         parseVectorMaskedStridedLoadStatement
    [] k = "vector_masked_indexed_load" ->
         parseVectorMaskedIndexedLoadStatement
    [] k = "vector_masked_strided_store" ->
         parseVectorMaskedStridedStoreStatement
    [] k = "vector_masked_indexed_store" ->
         parseVectorMaskedIndexedStoreStatement

(* What parses an operand, and one after the other from operand n, with a  *)
(* comma before each that is present but the first.                        *)
Item(o) == CASE o = "n" -> NameItem
             [] o = "e" -> ExpressionItem
             [] o = "0" -> Call("none")

OperandsFrom(k, n) == <<"operands", <<k, n>>>>

parseOperands ==
  /\ Doing("operands")
  /\ LET k == argument[1]
         n == argument[2]
         ops == parseKernel(k).operands
         comma == IF n = 1 \/ ops[n] = "0" THEN <<>> ELSE <<Expect(Comma)>>
         more == IF n = Len(ops) THEN <<>> ELSE <<OperandsFrom(k, n + 1)>>
     IN  Proceed(0, comma \o <<Item(ops[n]), Call("append")>> \o more)

EmptyName == Doing("none") /\ Take(0, NoName, <<>>)

---------------------------------------------------------------------------
parseStoreStatement ==
  << NameItem, Expect("["), ExpressionItem, Expect("]"), Expect("="),
     ExpressionItem, Expect(Semicolon), Build("store") >>

parsePrintI32Statement ==
  <<ExpressionItem, Expect(Semicolon), Build("print_i32")>>

parseAssignStatement ==
  <<NameItem, Expect("="), ExpressionItem, Expect(Semicolon), Build("assign")>>

parseLetStatement ==
  <<NameItem, Expect("="), ExpressionItem, Expect(Semicolon), Build("let")>>

parseReturnStatement == <<ExpressionItem, Expect(Semicolon), Build("return")>>

parseIfStatement ==
  << ExpressionItem, Expect(LBrace), Call("list"), Call("block"),
     Call("list"), Call("else"), Build("if") >>

parseElse ==
  /\ Doing("else")
  /\ IF check("else") THEN Proceed(1, <<Expect(LBrace), Call("block")>>)
                      ELSE Proceed(0, <<>>)

parseWhileStatement ==
  << ExpressionItem, Expect(LBrace), Call("list"), Call("block"),
     Build("while") >>

(* The name of an assignment is known by the "=" behind it.                *)
parseStatement ==
  /\ Doing("statement")
  /\ LET k == Kind(0)
     IN  CASE k = "let"       -> Proceed(1, parseLetStatement)
           [] k = "store"     -> Proceed(1, parseStoreStatement)
           [] k = "print_i32" -> Proceed(1, parsePrintI32Statement)
           [] k \in KernelKeywords ->
                Take(1, k, << Call("list"), OperandsFrom(k, 1),
                              Expect(Semicolon), Build("kernel") >>)
           [] k = "identifier" /\ Kind(1) = "=" ->
                Proceed(0, parseAssignStatement)
           [] k = "return"    -> Proceed(1, parseReturnStatement)
           [] k = "if"        -> Proceed(1, parseIfStatement)
           [] k = "while"     -> Proceed(1, parseWhileStatement)
           [] OTHER -> reportAtCurrent

---------------------------------------------------------------------------
getTokenPrecedence ==
  CASE Kind(0) \in {"+", "-"} -> 10
    [] Kind(0) \in {"*", "/"} -> 20
    [] Kind(0) \in {"<", "<=", ">", ">=", "==", "!="} -> 5
    [] OTHER -> -1

parseExpression ==
  /\ Doing("expression")
  /\ Proceed(0, <<Call("primary"), <<"rhs", 0>>>>)

(* Faulty: operators of the same precedence are taken from the right.      *)
parseBinaryRHSFromRight ==
  \/ /\ Doing("rhs")
     /\ LET p == getTokenPrecedence
        IN  IF p < argument THEN Proceed(0, <<>>)
            ELSE Take(1, lexeme, << Call("primary"), <<"climb", p>>,
                                    Build("binary"), <<"rhs", argument>> >>)
  \/ /\ Doing("climb")
     /\ Proceed(0, IF argument <= getTokenPrecedence
                     THEN << <<"rhs", argument>> >> ELSE <<>>)

(* While an operator binds as tight as asked for, it and what follows join *)
(* what is on the left; "climb" lets a tighter one have its operand first. *)
parseBinaryRHS ==
  \/ /\ Doing("rhs")
     /\ LET p == getTokenPrecedence
        IN  IF p < argument THEN Proceed(0, <<>>)
            ELSE Take(1, lexeme, << Call("primary"), <<"climb", p>>,
                                    Build("binary"), <<"rhs", argument>> >>)
  \/ /\ Doing("climb")
     /\ Proceed(0, IF argument < getTokenPrecedence
                     THEN << <<"rhs", argument + 1>> >> ELSE <<>>)

parseLoadExpression ==
  <<NameItem, Expect("["), ExpressionItem, Expect("]"), Build("load")>>

parseIdentifierExpression ==
  IF Kind(1) = "("
    THEN Take(2, lexeme, <<Call("list"), Call("arguments"), Build("call")>>)
    ELSE Take(1, VariableExprAST(lexeme), <<>>)

parsePrimary ==
  /\ Doing("primary")
  /\ CASE check("integer")    -> Take(1, IntegerExprAST(lexeme), <<>>)
       [] check("load")       -> Proceed(1, parseLoadExpression)
       [] check("identifier") -> parseIdentifierExpression
       [] check("(")          -> Proceed(1, <<ExpressionItem, Expect(")")>>)
       [] OTHER               -> reportAtCurrent

Argument == <<ExpressionItem, Call("append"), Call("arguments_")>>

parseArguments ==
  \/ /\ Doing("arguments")
     /\ IF check(")") THEN Proceed(1, <<>>) ELSE Proceed(0, Argument)
  \/ /\ Doing("arguments_")
     /\ \/ check(")") /\ Proceed(1, <<>>)
        \/ check(Comma) /\ Proceed(1, Argument)
        \/ Kind(0) \notin {")", Comma} /\ reportAtCurrent

---------------------------------------------------------------------------
(* The stack, after a node of this class has been made of the last results.*)
Made(class, stack) ==
  LET second == stack[1]
      third  == second[1]
      fourth == third[1]
      a == fourth[2]  b == third[2]  c == second[2]  d == stack[2]
  IN  CASE class = "kernel"    ->
             <<third, Statement(c, parseKernel(c).class, d)>>
        [] class = "binary"    -> <<fourth, BinaryExprAST(c, b, d)>>
        [] class = "call"      -> <<third, CallExprAST(c, d)>>
        [] class = "load"      -> <<third, LoadExprAST(c, d)>>
        [] class = "let"       -> <<third, LetStmtAST(c, d)>>
        [] class = "assign"    -> <<third, AssignStmtAST(c, d)>>
        [] class = "store"     -> <<fourth, StoreStmtAST(b, c, d)>>
        [] class = "print_i32" -> <<second, PrintI32StmtAST(d)>>
        [] class = "return"    -> <<second, ReturnStmtAST(d)>>
        [] class = "if"        -> <<fourth, IfStmtAST(b, c, d)>>
        [] class = "while"     -> <<third, WhileStmtAST(c, d)>>
        [] class = "pointer"   -> <<second, "ptr<" \o d \o ">">>
        [] class = "parameter" -> <<third, ParameterAST(c, d)>>
        [] class = "function"  -> <<fourth[1], FunctionAST(a, b, c, d)>>

make_unique ==
  /\ Doing("build")
  /\ nodes' = Made(argument, nodes)
  /\ Go(0, <<>>)

Parse ==
  \/ expect \/ parseName \/ ReturnNull \/ OpenList \/ Append1 \/ EmptyName
  \/ parseModule \/ parseFunction \/ parseType \/ parsePointee
  \/ ReturnToCaller \/ parseParameters \/ parseBlock \/ parseStatement
  \/ parseElse \/ parseOperands \/ parseExpression \/ parseBinaryRHS
  \/ parsePrimary \/ parseArguments \/ make_unique
============================================================================
