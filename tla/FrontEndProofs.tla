--------------------------- MODULE FrontEndProofs ---------------------------
(***************************************************************************)
(* What the front end accepts is what the grammar says, and what it does   *)
(* not accept it reports.                                                  *)
(*                                                                         *)
(* The agenda of the parser is read as a promise.  Each of its items, if it*)
(* succeeds, takes the parser from one state to another, where a state is  *)
(* <<stack, position>>; Does says between which states an item may go, in  *)
(* terms of the facts of the grammar.  The promise is that whoever goes on *)
(* from the present state, item by item, comes to a state where the list of*)
(* functions read so far spans all tokens.  A parse function that replaces *)
(* its item by what its body does keeps the promise, because going along   *)
(* its body is one way of doing the item (Produces).                       *)
(***************************************************************************)
EXTENDS FrontEnd, Grammar, SequenceTheorems, TLAPS

---------------------------------------------------------------------------
(* The lists of tokens that lexAll returns.                                *)
Ended(ts) ==
  /\ \E T : ts \in Seq(T)
  /\ ts # <<>>
  /\ \A i \in DOMAIN ts : ts[i].kind = "eof" <=> i = Len(ts)

(* The rank of the operator at i, 0 if there is none, and the least rank   *)
(* that parseBinaryRHS takes when it is asked for a precedence.            *)
RankAt(ts, i) == IF i \in DOMAIN ts /\ ts[i].kind \in Operators
                   THEN Rank(ts[i].kind) ELSE 0

Precedences == {0, 6, 11, 21}
MinRank(q) == IF q = 0 THEN 1 ELSE IF q = 6 THEN 2 ELSE IF q = 11 THEN 3 ELSE 4
RankOf(p) == IF p = 5 THEN 1 ELSE IF p = 10 THEN 2 ELSE 3

(* An item leaves a node of this sort on the stack.                        *)
Leaves(D, sort, s, t) ==
  t[1][1] = s[1] /\ <<sort, t[1][2], s[2], t[2]>> \in D

(* An item begins a list with this delimiter behind it, or goes on with it.*)
Begins(D, ts, sort, s, t) ==
  /\ t[1][1] = s[1][1]
  /\ s[1][2] = <<>> =>
       \E j : /\ \/ <<sort, t[1][2], s[2], j>> \in D
                 \/ t[1][2] = <<>> /\ j = s[2]
              /\ Is(ts, j, ")") /\ t[2] = j + 1

GoesOn(D, ts, sort, close, s, t) ==
  /\ t[1][1] = s[1][1]
  /\ \A i : <<sort, s[1][2], i, s[2]>> \in D =>
       \E j : /\ <<sort, t[1][2], i, j>> \in D
              /\ Is(ts, j, close) /\ t[2] = j + 1

DoesPointee(ts, s, t) ==
  /\ t[1] = <<s[1], ts[s[2]].lexeme>> /\ t[2] = s[2] + 1
  /\ s[2] \in DOMAIN ts /\ ts[s[2]].kind \in IntegerTypes

DoesElse(D, ts, s, t) ==
  s[1][2] = <<>> =>
    /\ t[1][1] = s[1][1]
    /\ \/ t[1][2] = <<>> /\ t[2] = s[2]
       \/ Is(ts, s[2], "else") /\ <<"block", t[1][2], s[2] + 1, t[2]>> \in D

DoesOperands(D, k, n, s, t) ==
  k \in KernelKeywords /\ n \in 1 .. Len(FieldsOf(k)) =>
    /\ t[1][1] = s[1][1]
    /\ \A i : <<Operands(k, n - 1), s[1][2], i, s[2]>> \in D =>
                <<Operands(k, Len(FieldsOf(k))), t[1][2], i, t[2]>> \in D

(* The left operand so far may stand to the left of the next operator.     *)
DoesRHS(D, ts, q, s, t) ==
  q \in Precedences =>
    /\ t[1][1] = s[1][1]
    /\ \A i : \A r \in 1 .. 4 :
         /\ MinRank(q) <= r /\ RankAt(ts, s[2]) <= r
         /\ <<Expression(r), s[1][2], i, s[2]>> \in D
         => /\ <<Expression(MinRank(q)), t[1][2], i, t[2]>> \in D
            /\ RankAt(ts, t[2]) < MinRank(q)

DoesClimb(D, ts, p, s, t) ==
  p \in {5, 10, 20} =>
    /\ t[1][1] = s[1][1]
    /\ \A i : <<Primary, s[1][2], i, s[2]>> \in D =>
         /\ <<Expression(RankOf(p) + 1), t[1][2], i, t[2]>> \in D
         /\ RankAt(ts, t[2]) <= RankOf(p)

DoesModule(D, ts, s, t) ==
  /\ \A i : <<"functions", s[1][2], i, s[2]>> \in D =>
              <<"functions", t[1][2], i, t[2]>> \in D
  /\ Is(ts, t[2], "eof")

(* What an item of the agenda does if it succeeds.                         *)
Does(D, ts, item, s, t) ==
  LET f == item[1]
      a == item[2]
  IN  /\ f = "expect" => t[1] = s[1] /\ Is(ts, s[2], a) /\ t[2] = s[2] + 1
      /\ f = "name"        => Leaves(D, "name", s, t)
      /\ f = "type"        => Leaves(D, "type", s, t)
      /\ f = "statement"   => Leaves(D, "statement", s, t)
      /\ f = "function"    => Leaves(D, "function", s, t)
      /\ f = "expression"  => Leaves(D, Expression(1), s, t)
      /\ f = "primary"     => Leaves(D, Primary, s, t)
      /\ f = "parameters"  => Begins(D, ts, "parameters", s, t)
      /\ f = "parameters_" => GoesOn(D, ts, "parameters", ")", s, t)
      /\ f = "arguments"   => Begins(D, ts, "arguments", s, t)
      /\ f = "arguments_"  => GoesOn(D, ts, "arguments", ")", s, t)
      /\ f = "block"       => GoesOn(D, ts, "statements", RBrace, s, t)
      /\ f = "pointee"     => DoesPointee(ts, s, t)
      /\ f = "else"        => DoesElse(D, ts, s, t)
      /\ f = "operands"    => DoesOperands(D, a[1], a[2], s, t)
      /\ f = "rhs"         => DoesRHS(D, ts, a, s, t)
      /\ f = "climb"       => DoesClimb(D, ts, a, s, t)
      /\ f = "module"      => DoesModule(D, ts, s, t)
      /\ f = "caller"      => t[1] = s[1] /\ t[2] = s[2]
      /\ f = "list"        => t[1] = <<s[1], <<>>>> /\ t[2] = s[2]
      /\ f = "none"        => t[1] = <<s[1], NoName>> /\ t[2] = s[2]
      /\ f = "append"      =>
           t[1] = <<s[1][1][1], Append(s[1][1][2], s[1][2])>> /\ t[2] = s[2]
      /\ f = "build"       => t[1] = Made(a, s[1]) /\ t[2] = s[2]

(* Going along these items; p[n] is the state after n of them.             *)
Along(D, ts, items, p) ==
  \A n \in 1 .. Len(items) : Does(D, ts, items[n], p[n - 1], p[n])

(* Going along the items from a state is a way to do the item from another.*)
Produces(ts, item, s, items, s1) ==
  \A D : Closed(D, ts) =>
    \A p : p[0] = s1 /\ Along(D, ts, items, p) =>
             Does(D, ts, item, s, p[Len(items)])

(* Whoever does all that is left has read functions that span all tokens.  *)
Promise(ts, items, s) ==
  \A D : Closed(D, ts) =>
    \A p : p[0] = s /\ Along(D, ts, items, p) =>
      LET end == p[Len(items)]
      IN  <<"functions", end[1][2], 1, end[2]>> \in D /\ Is(ts, end[2], "eof")

---------------------------------------------------------------------------
(* What each item does.                                                    *)
LEMMA DoesMake ==
  ASSUME NEW D, NEW ts, NEW s, NEW t, NEW class,
         Does(D, ts, Build(class), s, t)
  PROVE  t[1] = Made(class, s[1]) /\ t[2] = s[2]
  BY DEF Does, Build

LEMMA MakesKernel ==
  ASSUME NEW D, NEW ts, NEW s, NEW t, Does(D, ts, Build("kernel"), s, t)
  PROVE  /\ t[1] = <<s[1][1][1],
                  Statement(s[1][1][2], parseKernel(s[1][1][2]).class,
                            s[1][2])>>
         /\ t[2] = s[2]
  <1>1. t[1] = Made("kernel", s[1]) /\ t[2] = s[2]
    BY DoesMake
  <1> QED
    BY <1>1, Zenon DEF Made

LEMMA MakesBinary ==
  ASSUME NEW D, NEW ts, NEW s, NEW t, Does(D, ts, Build("binary"), s, t)
  PROVE  /\ t[1] = <<s[1][1][1][1],
                  BinaryExprAST(s[1][1][2], s[1][1][1][2], s[1][2])>>
         /\ t[2] = s[2]
  <1>1. t[1] = Made("binary", s[1]) /\ t[2] = s[2]
    BY DoesMake
  <1> QED
    BY <1>1, Zenon DEF Made

LEMMA MakesCallNode ==
  ASSUME NEW D, NEW ts, NEW s, NEW t, Does(D, ts, Build("call"), s, t)
  PROVE  /\ t[1] = <<s[1][1][1], CallExprAST(s[1][1][2], s[1][2])>>
         /\ t[2] = s[2]
  <1>1. t[1] = Made("call", s[1]) /\ t[2] = s[2]
    BY DoesMake
  <1> QED
    BY <1>1, Zenon DEF Made

LEMMA MakesLoad ==
  ASSUME NEW D, NEW ts, NEW s, NEW t, Does(D, ts, Build("load"), s, t)
  PROVE  /\ t[1] = <<s[1][1][1], LoadExprAST(s[1][1][2], s[1][2])>>
         /\ t[2] = s[2]
  <1>1. t[1] = Made("load", s[1]) /\ t[2] = s[2]
    BY DoesMake
  <1> QED
    BY <1>1, Zenon DEF Made

LEMMA MakesLet ==
  ASSUME NEW D, NEW ts, NEW s, NEW t, Does(D, ts, Build("let"), s, t)
  PROVE  /\ t[1] = <<s[1][1][1], LetStmtAST(s[1][1][2], s[1][2])>>
         /\ t[2] = s[2]
  <1>1. t[1] = Made("let", s[1]) /\ t[2] = s[2]
    BY DoesMake
  <1> QED
    BY <1>1, Zenon DEF Made

LEMMA MakesAssign ==
  ASSUME NEW D, NEW ts, NEW s, NEW t, Does(D, ts, Build("assign"), s, t)
  PROVE  /\ t[1] = <<s[1][1][1], AssignStmtAST(s[1][1][2], s[1][2])>>
         /\ t[2] = s[2]
  <1>1. t[1] = Made("assign", s[1]) /\ t[2] = s[2]
    BY DoesMake
  <1> QED
    BY <1>1, Zenon DEF Made

LEMMA MakesStore ==
  ASSUME NEW D, NEW ts, NEW s, NEW t, Does(D, ts, Build("store"), s, t)
  PROVE  /\ t[1] = <<s[1][1][1][1],
                  StoreStmtAST(s[1][1][1][2], s[1][1][2], s[1][2])>>
         /\ t[2] = s[2]
  <1>1. t[1] = Made("store", s[1]) /\ t[2] = s[2]
    BY DoesMake
  <1> QED
    BY <1>1, Zenon DEF Made

LEMMA MakesPrint ==
  ASSUME NEW D, NEW ts, NEW s, NEW t, Does(D, ts, Build("print_i32"), s, t)
  PROVE  /\ t[1] = <<s[1][1], PrintI32StmtAST(s[1][2])>>
         /\ t[2] = s[2]
  <1>1. t[1] = Made("print_i32", s[1]) /\ t[2] = s[2]
    BY DoesMake
  <1> QED
    BY <1>1, Zenon DEF Made

LEMMA MakesReturn ==
  ASSUME NEW D, NEW ts, NEW s, NEW t, Does(D, ts, Build("return"), s, t)
  PROVE  /\ t[1] = <<s[1][1], ReturnStmtAST(s[1][2])>>
         /\ t[2] = s[2]
  <1>1. t[1] = Made("return", s[1]) /\ t[2] = s[2]
    BY DoesMake
  <1> QED
    BY <1>1, Zenon DEF Made

LEMMA MakesIf ==
  ASSUME NEW D, NEW ts, NEW s, NEW t, Does(D, ts, Build("if"), s, t)
  PROVE  /\ t[1] = <<s[1][1][1][1],
                  IfStmtAST(s[1][1][1][2], s[1][1][2], s[1][2])>>
         /\ t[2] = s[2]
  <1>1. t[1] = Made("if", s[1]) /\ t[2] = s[2]
    BY DoesMake
  <1> QED
    BY <1>1, Zenon DEF Made

LEMMA MakesWhile ==
  ASSUME NEW D, NEW ts, NEW s, NEW t, Does(D, ts, Build("while"), s, t)
  PROVE  /\ t[1] = <<s[1][1][1], WhileStmtAST(s[1][1][2], s[1][2])>>
         /\ t[2] = s[2]
  <1>1. t[1] = Made("while", s[1]) /\ t[2] = s[2]
    BY DoesMake
  <1> QED
    BY <1>1, Zenon DEF Made

LEMMA MakesParameter ==
  ASSUME NEW D, NEW ts, NEW s, NEW t, Does(D, ts, Build("parameter"), s, t)
  PROVE  /\ t[1] = <<s[1][1][1], ParameterAST(s[1][1][2], s[1][2])>>
         /\ t[2] = s[2]
  <1>1. t[1] = Made("parameter", s[1]) /\ t[2] = s[2]
    BY DoesMake
  <1> QED
    BY <1>1, Zenon DEF Made

LEMMA MakesFunctionNode ==
  ASSUME NEW D, NEW ts, NEW s, NEW t, Does(D, ts, Build("function"), s, t)
  PROVE  /\ t[1] = <<s[1][1][1][1][1],
                  FunctionAST(s[1][1][1][1][2], s[1][1][1][2],
                              s[1][1][2], s[1][2])>>
         /\ t[2] = s[2]
  <1>1. t[1] = Made("function", s[1]) /\ t[2] = s[2]
    BY DoesMake
  <1> QED
    BY <1>1, Zenon DEF Made

---------------------------------------------------------------------------
(* The rules, as the proofs apply them.                                    *)
LEMMA NextOfEnded ==
  ASSUME NEW ts, Ended(ts), NEW i \in DOMAIN ts, ts[i].kind # "eof"
  PROVE  i \in Int /\ i + 1 \in DOMAIN ts
  BY DEF Ended

LEMMA IsInteger ==
  ASSUME NEW ts, Ended(ts), NEW i, NEW kind, Is(ts, i, kind)
  PROVE  i \in Int
  BY DEF Ended, Is

LEMMA AfterBrace ==
  ASSUME NEW ts, Ended(ts), NEW i, Is(ts, i, LBrace)
  PROVE  i \in Int /\ i + 1 \in DOMAIN ts
  <1>1. LBrace # "eof"
    BY Zenon DEF LBrace
  <1> QED
    BY <1>1, NextOfEnded DEF Is

LEMMA AlongOne ==
  ASSUME NEW D, NEW ts, NEW item, NEW p, Along(D, ts, <<item>>, p)
  PROVE  Does(D, ts, item, p[0], p[1])
  <1>1. Len(<<item>>) = 1 /\ <<item>>[1] = item /\ 1 \in 1 .. 1
    OBVIOUS
  <1>2. Does(D, ts, <<item>>[1], p[1 - 1], p[1])
    BY <1>1 DEF Along
  <1> QED
    BY <1>1, <1>2

LEMMA ProducesOne ==
  ASSUME NEW ts, NEW item, NEW s, NEW one, NEW s1,
         \A D : Closed(D, ts) =>
           \A p : p[0] = s1 /\ Does(D, ts, one, p[0], p[1]) =>
                    Does(D, ts, item, s, p[1])
  PROVE  Produces(ts, item, s, <<one>>, s1)
  <1>1. Len(<<one>>) = 1
    OBVIOUS
  <1> QED
    BY <1>1, AlongOne DEF Produces

LEMMA AppendToEmpty ==
  ASSUME NEW e
  PROVE  Append(<<>>, e) = <<e>>
  OBVIOUS

LEMMA RankAtBounds ==
  ASSUME NEW ts, NEW i
  PROVE  RankAt(ts, i) \in 0 .. 3
  BY DEF RankAt, Rank

LEMMA Loosen ==
  ASSUME NEW D, NEW ts, Closed(D, ts), NEW x, NEW i, NEW j,
         NEW r \in 1 .. 4, NEW n \in 1 .. r, <<Expression(r), x, i, j>> \in D
  PROVE  <<Expression(n), x, i, j>> \in D
  <1>1. \A e, h, k : \A q \in 1 .. 3 :
          <<Expression(q + 1), e, h, k>> \in D =>
            <<Expression(q), e, h, k>> \in D
    BY DEF Closed, ExpressionRules, LooserRule
  <1>2. \A q \in 1 .. 3 : <<Expression(q + 1), x, i, j>> \in D =>
                            <<Expression(q), x, i, j>> \in D
    BY <1>1
  <1> QED
    BY <1>2

LEMMA ApplyRHS ==
  ASSUME NEW D, NEW ts, NEW s, NEW t, NEW q \in Precedences,
         DoesRHS(D, ts, q, s, t), NEW i, NEW r \in 1 .. 4,
         MinRank(q) <= r, RankAt(ts, s[2]) <= r,
         <<Expression(r), s[1][2], i, s[2]>> \in D
  PROVE  /\ <<Expression(MinRank(q)), t[1][2], i, t[2]>> \in D
         /\ RankAt(ts, t[2]) < MinRank(q)
  BY DEF DoesRHS

---------------------------------------------------------------------------
(* Expressions.                                                            *)
LEMMA ProducesName ==
  ASSUME NEW ts, NEW s, Is(ts, s[2], "identifier")
  PROVE  Produces(ts, Call("name"), s, <<>>,
                  <<<<s[1], ts[s[2]].lexeme>>, s[2] + 1>>)
  <1> SUFFICES ASSUME NEW D, Closed(D, ts), NEW p,
                      p[0][1] = <<s[1], ts[s[2]].lexeme>>, p[0][2] = s[2] + 1
               PROVE  Does(D, ts, Call("name"), s, p[0])
    BY DEF Produces
  <1>1. <<"name", ts[s[2]].lexeme, s[2], s[2] + 1>> \in D
    BY DEF Closed, ExpressionRules, NameRule, Is
  <1> QED
    BY <1>1 DEF Does, Call, Leaves

LEMMA ProducesInteger ==
  ASSUME NEW ts, NEW s, Is(ts, s[2], "integer")
  PROVE  Produces(ts, Call("primary"), s, <<>>,
                  <<<<s[1], IntegerExprAST(ts[s[2]].lexeme)>>, s[2] + 1>>)
  <1> SUFFICES ASSUME NEW D, Closed(D, ts), NEW p,
                      p[0][1] = <<s[1], IntegerExprAST(ts[s[2]].lexeme)>>,
                      p[0][2] = s[2] + 1
               PROVE  Does(D, ts, Call("primary"), s, p[0])
    BY DEF Produces
  <1>1. <<Primary, IntegerExprAST(ts[s[2]].lexeme), s[2], s[2] + 1>> \in D
    BY DEF Closed, ExpressionRules, IntegerRule, Is
  <1> QED
    BY <1>1 DEF Does, Call, Leaves

LEMMA ProducesVariable ==
  ASSUME NEW ts, NEW s, Is(ts, s[2], "identifier")
  PROVE  Produces(ts, Call("primary"), s, <<>>,
                  <<<<s[1], VariableExprAST(ts[s[2]].lexeme)>>, s[2] + 1>>)
  <1> SUFFICES ASSUME NEW D, Closed(D, ts), NEW p,
                      p[0][1] = <<s[1], VariableExprAST(ts[s[2]].lexeme)>>,
                      p[0][2] = s[2] + 1
               PROVE  Does(D, ts, Call("primary"), s, p[0])
    BY DEF Produces
  <1>1. <<"name", ts[s[2]].lexeme, s[2], s[2] + 1>> \in D
    BY DEF Closed, ExpressionRules, NameRule, Is
  <1>2. <<Primary, VariableExprAST(ts[s[2]].lexeme), s[2], s[2] + 1>> \in D
    BY <1>1 DEF Closed, ExpressionRules, VariableRule
  <1> QED
    BY <1>2 DEF Does, Call, Leaves

LEMMA ProducesGroup ==
  ASSUME NEW ts, NEW s, Is(ts, s[2], "(")
  PROVE  Produces(ts, Call("primary"), s, <<ExpressionItem, Expect(")")>>,
                  <<s[1], s[2] + 1>>)
  <1> SUFFICES ASSUME NEW D, Closed(D, ts), NEW p,
                      p[0][1] = s[1], p[0][2] = s[2] + 1,
                      Along(D, ts, <<ExpressionItem, Expect(")")>>, p)
               PROVE  Does(D, ts, Call("primary"), s, p[2])
    BY DEF Produces, ExpressionItem
  <1>1. /\ p[1][1][1] = p[0][1]
        /\ <<Expression(1), p[1][1][2], p[0][2], p[1][2]>> \in D
    <2>1. Does(D, ts, Call("expression"), p[0], p[1])
      BY DEF Along, ExpressionItem
    <2> QED
      BY <2>1 DEF Does, Call, Leaves
  <1>2. /\ p[2][1] = p[1][1] /\ Is(ts, p[1][2], ")")
        /\ p[2][2] = p[1][2] + 1
    <2>1. Does(D, ts, Expect(")"), p[1], p[2])
      BY DEF Along, ExpressionItem
    <2> QED
      BY <2>1 DEF Does, Expect
  <1>3. <<Primary, p[1][1][2], s[2], p[1][2] + 1>> \in D
    BY <1>1, <1>2 DEF Closed, ExpressionRules, GroupRule
  <1> QED
    BY <1>1, <1>2, <1>3 DEF Does, Call, Leaves

LEMMA ProducesLoad ==
  ASSUME NEW ts, NEW s, Is(ts, s[2], "load")
  PROVE  Produces(ts, Call("primary"), s, parseLoadExpression,
                  <<s[1], s[2] + 1>>)
  <1> SUFFICES ASSUME NEW D, Closed(D, ts), NEW p,
                      p[0][1] = s[1], p[0][2] = s[2] + 1,
                      Along(D, ts, parseLoadExpression, p)
               PROVE  Does(D, ts, Call("primary"), s, p[5])
    BY DEF Produces, parseLoadExpression, NameItem, ExpressionItem
  <1>1. p[1][1][1] = p[0][1] /\ <<"name", p[1][1][2], p[0][2], p[1][2]>> \in D
    <2>1. Does(D, ts, Call("name"), p[0], p[1])
      BY DEF Along, parseLoadExpression, NameItem, ExpressionItem
    <2> QED
      BY <2>1 DEF Does, Call, Leaves
  <1>2. /\ p[2][1] = p[1][1] /\ Is(ts, p[1][2], "[")
        /\ p[2][2] = p[1][2] + 1
    <2>1. Does(D, ts, Expect("["), p[1], p[2])
      BY DEF Along, parseLoadExpression, NameItem, ExpressionItem
    <2> QED
      BY <2>1 DEF Does, Expect
  <1>3. /\ p[3][1][1] = p[2][1]
        /\ <<Expression(1), p[3][1][2], p[2][2], p[3][2]>> \in D
    <2>1. Does(D, ts, Call("expression"), p[2], p[3])
      BY DEF Along, parseLoadExpression, NameItem, ExpressionItem
    <2> QED
      BY <2>1 DEF Does, Call, Leaves
  <1>4. /\ p[4][1] = p[3][1] /\ Is(ts, p[3][2], "]")
        /\ p[4][2] = p[3][2] + 1
    <2>1. Does(D, ts, Expect("]"), p[3], p[4])
      BY DEF Along, parseLoadExpression, NameItem, ExpressionItem
    <2> QED
      BY <2>1 DEF Does, Expect
  <1>5. /\ p[5][1] = <<p[4][1][1][1], LoadExprAST(p[4][1][1][2], p[4][1][2])>>
        /\ p[5][2] = p[4][2]
    <2>1. Does(D, ts, Build("load"), p[4], p[5])
      BY DEF Along, parseLoadExpression, NameItem, ExpressionItem
    <2> QED
      BY <2>1, MakesLoad
  <1>6. p[5][1] = <<s[1], LoadExprAST(p[1][1][2], p[3][1][2])>>
    BY <1>1, <1>2, <1>3, <1>4, <1>5
  <1>7. <<Primary, LoadExprAST(p[1][1][2], p[3][1][2]), s[2],
          p[3][2] + 1>> \in D
    BY <1>1, <1>2, <1>3, <1>4 DEF Closed, ExpressionRules, LoadRule
  <1> QED
    BY <1>4, <1>5, <1>6, <1>7 DEF Does, Call, Leaves

LEMMA ProducesCall ==
  ASSUME NEW ts, NEW s, s[2] \in Int, Is(ts, s[2], "identifier"),
         Is(ts, s[2] + 1, "(")
  PROVE  Produces(ts, Call("primary"), s, <<Call("list"), Call("arguments"),
                                            Build("call")>>,
                  <<<<s[1], ts[s[2]].lexeme>>, s[2] + 2>>)
  <1> SUFFICES ASSUME NEW D, Closed(D, ts), NEW p,
                      p[0][1] = <<s[1], ts[s[2]].lexeme>>, p[0][2] = s[2] + 2,
                      Along(D, ts, <<Call("list"), Call("arguments"),
                                     Build("call")>>, p)
               PROVE  Does(D, ts, Call("primary"), s, p[3])
    BY DEF Produces
  <1>1. p[1][1] = <<p[0][1], <<>>>> /\ p[1][2] = p[0][2]
    <2>1. Does(D, ts, Call("list"), p[0], p[1])
      BY DEF Along
    <2> QED
      BY <2>1 DEF Does, Call
  <1>2. Begins(D, ts, "arguments", p[1], p[2])
    <2>1. Does(D, ts, Call("arguments"), p[1], p[2])
      BY DEF Along
    <2> QED
      BY <2>1 DEF Does, Call
  <1>3. /\ p[3][1] = <<p[2][1][1][1], CallExprAST(p[2][1][1][2], p[2][1][2])>>
        /\ p[3][2] = p[2][2]
    <2>1. Does(D, ts, Build("call"), p[2], p[3])
      BY DEF Along
    <2> QED
      BY <2>1, MakesCallNode
  <1>4. PICK j : /\ \/ <<"arguments", p[2][1][2], s[2] + 2, j>> \in D
                    \/ p[2][1][2] = <<>> /\ j = s[2] + 2
                 /\ Is(ts, j, ")") /\ p[2][2] = j + 1
    BY <1>1, <1>2 DEF Begins
  <1>5. p[3][1] = <<s[1], CallExprAST(ts[s[2]].lexeme, p[2][1][2])>>
    BY <1>1, <1>2, <1>3 DEF Begins
  <1>6. <<"name", ts[s[2]].lexeme, s[2], s[2] + 1>> \in D
    BY DEF Closed, ExpressionRules, NameRule, Is
  <1>7. (s[2] + 1) + 1 = s[2] + 2
    OBVIOUS
  <1>8. <<Primary, CallExprAST(ts[s[2]].lexeme, p[2][1][2]), s[2],
          j + 1>> \in D
    BY <1>4, <1>6, <1>7 DEF Closed, ExpressionRules, CallRule
  <1>9. p[3][2] = j + 1 /\ p[3][1][1] = s[1]
    BY <1>3, <1>4, <1>5
  <1>10. <<Primary, p[3][1][2], s[2], p[3][2]>> \in D
    BY <1>5, <1>8, <1>9
  <1> QED
    BY <1>9, <1>10 DEF Does, Call, Leaves

LEMMA ProducesExpression ==
  ASSUME NEW ts, NEW s
  PROVE  Produces(ts, ExpressionItem, s, <<Call("primary"), <<"rhs", 0>>>>,
                  <<s[1], s[2]>>)
  <1> SUFFICES ASSUME NEW D, Closed(D, ts), NEW p,
                      p[0][1] = s[1], p[0][2] = s[2],
                      Along(D, ts, <<Call("primary"), <<"rhs", 0>>>>, p)
               PROVE  Does(D, ts, ExpressionItem, s, p[2])
    BY DEF Produces
  <1>1. p[1][1][1] = p[0][1] /\ <<Primary, p[1][1][2], p[0][2], p[1][2]>> \in D
    <2>1. Does(D, ts, Call("primary"), p[0], p[1])
      BY DEF Along
    <2> QED
      BY <2>1 DEF Does, Call, Leaves
  <1>2. DoesRHS(D, ts, 0, p[1], p[2])
    <2>1. Does(D, ts, <<"rhs", 0>>, p[1], p[2])
      BY DEF Along
    <2> QED
      BY <2>1 DEF Does
  <1>3. /\ 0 \in Precedences /\ 4 \in 1 .. 4
        /\ MinRank(0) = 1 /\ MinRank(0) <= 4
        /\ RankAt(ts, p[1][2]) <= 4
    BY RankAtBounds DEF MinRank, Precedences
  <1>4. <<Expression(4), p[1][1][2], s[2], p[1][2]>> \in D
    BY <1>1 DEF Primary
  <1>5. p[2][1][1] = s[1]
    BY <1>1, <1>2, <1>3 DEF DoesRHS
  <1>6. <<Expression(MinRank(0)), p[2][1][2], s[2], p[2][2]>> \in D
    BY <1>2, <1>3, <1>4, ApplyRHS
  <1>7. <<Expression(1), p[2][1][2], s[2], p[2][2]>> \in D
    BY <1>3, <1>6
  <1> QED
    BY <1>5, <1>7 DEF Does, Call, Leaves, ExpressionItem

LEMMA ProducesEndOfRHS ==
  ASSUME NEW ts, NEW s, NEW q, RankAt(ts, s[2]) < MinRank(q)
  PROVE  Produces(ts, <<"rhs", q>>, s, <<>>,
                  <<s[1], s[2]>>)
  <1> SUFFICES ASSUME NEW D, Closed(D, ts), NEW p,
                      p[0][1] = s[1], p[0][2] = s[2]
               PROVE  Does(D, ts, <<"rhs", q>>, s, p[0])
    BY DEF Produces
  <1>1. ASSUME q \in Precedences, NEW i, NEW r \in 1 .. 4, MinRank(q) <= r,
               <<Expression(r), s[1][2], i, s[2]>> \in D
        PROVE  <<Expression(MinRank(q)), s[1][2], i, s[2]>> \in D
    <2>1. MinRank(q) \in 1 .. r
      BY <1>1 DEF Precedences, MinRank
    <2> QED
      BY <1>1, <2>1, Loosen
  <1>2. DoesRHS(D, ts, q, s, p[0])
    BY <1>1 DEF DoesRHS
  <1> QED
    BY <1>2 DEF Does

LEMMA ProducesRHS ==
  ASSUME NEW ts, NEW s, NEW q, q \in Precedences, NEW o \in {5, 10, 20},
         s[2] \in DOMAIN ts, ts[s[2]].kind \in Operators,
         RankAt(ts, s[2]) = RankOf(o), MinRank(q) <= RankOf(o)
  PROVE  Produces(ts, <<"rhs", q>>, s, <<Call("primary"), <<"climb", o>>,
                                         Build("binary"), <<"rhs", q>>>>,
                  <<<<s[1], ts[s[2]].lexeme>>, s[2] + 1>>)
  <1> SUFFICES ASSUME NEW D, Closed(D, ts), NEW p,
                      p[0][1] = <<s[1], ts[s[2]].lexeme>>, p[0][2] = s[2] + 1,
                      Along(D, ts, <<Call("primary"), <<"climb", o>>,
                                     Build("binary"), <<"rhs", q>>>>, p)
               PROVE  Does(D, ts, <<"rhs", q>>, s, p[4])
    BY DEF Produces
  <1>1. p[1][1][1] = p[0][1] /\ <<Primary, p[1][1][2], p[0][2], p[1][2]>> \in D
    <2>1. Does(D, ts, Call("primary"), p[0], p[1])
      BY DEF Along
    <2> QED
      BY <2>1 DEF Does, Call, Leaves
  <1>2. DoesClimb(D, ts, o, p[1], p[2])
    <2>1. Does(D, ts, <<"climb", o>>, p[1], p[2])
      BY DEF Along
    <2> QED
      BY <2>1 DEF Does
  <1>3. /\ p[3][1] = <<p[2][1][1][1][1],
                BinaryExprAST(p[2][1][1][2], p[2][1][1][1][2], p[2][1][2])>>
        /\ p[3][2] = p[2][2]
    <2>1. Does(D, ts, Build("binary"), p[2], p[3])
      BY DEF Along
    <2> QED
      BY <2>1, MakesBinary
  <1>4. DoesRHS(D, ts, q, p[3], p[4])
    <2>1. Does(D, ts, <<"rhs", q>>, p[3], p[4])
      BY DEF Along
    <2> QED
      BY <2>1 DEF Does
  <1>5. /\ p[2][1][1] = <<s[1], ts[s[2]].lexeme>>
        /\ <<Expression(RankOf(o) + 1), p[2][1][2], s[2] + 1, p[2][2]>> \in D
        /\ RankAt(ts, p[2][2]) <= RankOf(o)
    BY <1>1, <1>2 DEF DoesClimb
  <1> DEFINE node == BinaryExprAST(ts[s[2]].lexeme, s[1][2], p[2][1][2])
  <1>6. p[3][1] = <<s[1][1], node>>
    BY <1>3, <1>5
  <1>7. RankOf(o) \in 1 .. 3 /\ Rank(ts[s[2]].kind) = RankOf(o)
    BY DEF RankOf, RankAt
  <1>8. ASSUME NEW i, NEW r \in 1 .. 4, RankAt(ts, s[2]) <= r,
               <<Expression(r), s[1][2], i, s[2]>> \in D
        PROVE  /\ <<Expression(MinRank(q)), p[4][1][2], i, p[4][2]>> \in D
               /\ RankAt(ts, p[4][2]) < MinRank(q)
    <2>0. RankOf(o) \in 1 .. r
      BY <1>7, <1>8
    <2>1. <<Expression(RankOf(o)), s[1][2], i, s[2]>> \in D
      BY <1>8, <2>0, Loosen
    <2>2. <<Expression(RankOf(o)), node, i, p[2][2]>> \in D
      BY <1>5, <1>7, <2>1 DEF Closed, ExpressionRules, BinaryRule
    <2>3. RankOf(o) \in 1 .. 4
      BY <1>7
    <2>4. <<Expression(RankOf(o)), p[3][1][2], i, p[3][2]>> \in D
      BY <1>3, <1>6, <2>2
    <2> QED
      BY <1>3, <1>4, <1>5, <2>3, <2>4 DEF DoesRHS
  <1>9. p[4][1][1] = s[1][1]
    BY <1>4, <1>6 DEF DoesRHS
  <1>10. DoesRHS(D, ts, q, s, p[4])
    BY <1>8, <1>9 DEF DoesRHS
  <1> QED
    BY <1>10 DEF Does

LEMMA ProducesEndOfClimb ==
  ASSUME NEW ts, NEW s, NEW o, RankAt(ts, s[2]) <= RankOf(o)
  PROVE  Produces(ts, <<"climb", o>>, s, <<>>,
                  <<s[1], s[2]>>)
  <1> SUFFICES ASSUME NEW D, Closed(D, ts), NEW p,
                      p[0][1] = s[1], p[0][2] = s[2]
               PROVE  Does(D, ts, <<"climb", o>>, s, p[0])
    BY DEF Produces
  <1>1. ASSUME o \in {5, 10, 20}, NEW i, <<Primary, s[1][2], i, s[2]>> \in D
        PROVE  <<Expression(RankOf(o) + 1), s[1][2], i, s[2]>> \in D
    <2>1. RankOf(o) + 1 \in 1 .. 4 /\ 4 \in 1 .. 4
      BY <1>1 DEF RankOf
    <2>2. <<Expression(4), s[1][2], i, s[2]>> \in D
      BY <1>1 DEF Primary
    <2> QED
      BY <2>1, <2>2, Loosen
  <1>2. DoesClimb(D, ts, o, s, p[0])
    BY <1>1 DEF DoesClimb
  <1> QED
    BY <1>2 DEF Does

LEMMA ProducesClimb ==
  ASSUME NEW ts, NEW s, NEW o, NEW q, q = o + 1
  PROVE  Produces(ts, <<"climb", o>>, s, << <<"rhs", q>> >>,
                  <<s[1], s[2]>>)
  <1> SUFFICES ASSUME NEW D, Closed(D, ts), NEW p,
                      p[0][1] = s[1], p[0][2] = s[2],
                      Does(D, ts, <<"rhs", q>>, p[0], p[1])
               PROVE  Does(D, ts, <<"climb", o>>, s, p[1])
    BY ProducesOne
  <1>1. DoesRHS(D, ts, q, p[0], p[1])
    BY DEF Does
  <1>2. ASSUME o \in {5, 10, 20}
        PROVE  /\ q \in Precedences /\ MinRank(q) = RankOf(o) + 1
               /\ RankOf(o) \in 1 .. 3
    BY <1>2 DEF Precedences, MinRank, RankOf
  <1>3. RankAt(ts, s[2]) <= 4 /\ RankAt(ts, p[1][2]) \in Int
    BY RankAtBounds
  <1>4. ASSUME o \in {5, 10, 20}, NEW i, <<Primary, s[1][2], i, s[2]>> \in D
        PROVE  /\ <<Expression(RankOf(o) + 1), p[1][1][2], i, p[1][2]>> \in D
               /\ RankAt(ts, p[1][2]) <= RankOf(o)
    <2>1. <<Expression(4), s[1][2], i, s[2]>> \in D /\ 4 \in 1 .. 4
      BY <1>4 DEF Primary
    <2>2. /\ q \in Precedences
          /\ MinRank(q) <= 4 /\ RankAt(ts, p[0][2]) <= 4
      BY <1>2, <1>3, <1>4
    <2>4. <<Expression(4), p[0][1][2], i, p[0][2]>> \in D
      BY <2>1
    <2>3. /\ <<Expression(MinRank(q)), p[1][1][2], i, p[1][2]>> \in D
          /\ RankAt(ts, p[1][2]) < MinRank(q)
      BY <1>1, <2>1, <2>2, <2>4 DEF DoesRHS
    <2> QED
      BY <1>2, <1>3, <1>4, <2>3
  <1>5. o \in {5, 10, 20} => p[1][1][1] = s[1][1]
    BY <1>1, <1>2 DEF DoesRHS
  <1>6. DoesClimb(D, ts, o, s, p[1])
    BY <1>4, <1>5 DEF DoesClimb
  <1> QED
    BY <1>6 DEF Does

---------------------------------------------------------------------------
(* Lists in parentheses.                                                   *)
LEMMA ProducesNoArguments ==
  ASSUME NEW ts, NEW s, Is(ts, s[2], ")")
  PROVE  Produces(ts, Call("arguments"), s, <<>>,
                  <<s[1], s[2] + 1>>)
  <1> SUFFICES ASSUME NEW D, Closed(D, ts), NEW p,
                      p[0][1] = s[1], p[0][2] = s[2] + 1
               PROVE  Does(D, ts, Call("arguments"), s, p[0])
    BY DEF Produces
  <1>1. Begins(D, ts, "arguments", s, p[0])
    BY DEF Begins
  <1> QED
    BY <1>1 DEF Does, Call

LEMMA ProducesEndArguments ==
  ASSUME NEW ts, NEW s, Is(ts, s[2], ")")
  PROVE  Produces(ts, Call("arguments_"), s, <<>>,
                  <<s[1], s[2] + 1>>)
  <1> SUFFICES ASSUME NEW D, Closed(D, ts), NEW p,
                      p[0][1] = s[1], p[0][2] = s[2] + 1
               PROVE  Does(D, ts, Call("arguments_"), s, p[0])
    BY DEF Produces
  <1>1. GoesOn(D, ts, "arguments", ")", s, p[0])
    BY DEF GoesOn
  <1> QED
    BY <1>1 DEF Does, Call

LEMMA ProducesNoParameters ==
  ASSUME NEW ts, NEW s, Is(ts, s[2], ")")
  PROVE  Produces(ts, Call("parameters"), s, <<>>,
                  <<s[1], s[2] + 1>>)
  <1> SUFFICES ASSUME NEW D, Closed(D, ts), NEW p,
                      p[0][1] = s[1], p[0][2] = s[2] + 1
               PROVE  Does(D, ts, Call("parameters"), s, p[0])
    BY DEF Produces
  <1>1. Begins(D, ts, "parameters", s, p[0])
    BY DEF Begins
  <1> QED
    BY <1>1 DEF Does, Call

LEMMA ProducesEndParameters ==
  ASSUME NEW ts, NEW s, Is(ts, s[2], ")")
  PROVE  Produces(ts, Call("parameters_"), s, <<>>,
                  <<s[1], s[2] + 1>>)
  <1> SUFFICES ASSUME NEW D, Closed(D, ts), NEW p,
                      p[0][1] = s[1], p[0][2] = s[2] + 1
               PROVE  Does(D, ts, Call("parameters_"), s, p[0])
    BY DEF Produces
  <1>1. GoesOn(D, ts, "parameters", ")", s, p[0])
    BY DEF GoesOn
  <1> QED
    BY <1>1 DEF Does, Call

LEMMA ProducesArguments ==
  ASSUME NEW ts, NEW s
  PROVE  Produces(ts, Call("arguments"), s, Argument,
                  <<s[1], s[2]>>)
  <1> SUFFICES ASSUME NEW D, Closed(D, ts), NEW p,
                      p[0][1] = s[1], p[0][2] = s[2],
                      Along(D, ts, Argument, p)
               PROVE  Does(D, ts, Call("arguments"), s, p[3])
    BY DEF Produces, Argument, ExpressionItem
  <1>1. /\ p[1][1][1] = p[0][1]
        /\ <<Expression(1), p[1][1][2], p[0][2], p[1][2]>> \in D
    <2>1. Does(D, ts, Call("expression"), p[0], p[1])
      BY DEF Along, Argument, ExpressionItem
    <2> QED
      BY <2>1 DEF Does, Call, Leaves
  <1>2. /\ p[2][1] = <<p[1][1][1][1], Append(p[1][1][1][2], p[1][1][2])>>
        /\ p[2][2] = p[1][2]
    <2>1. Does(D, ts, Call("append"), p[1], p[2])
      BY DEF Along, Argument, ExpressionItem
    <2> QED
      BY <2>1 DEF Does, Call
  <1>3. GoesOn(D, ts, "arguments", ")", p[2], p[3])
    <2>1. Does(D, ts, Call("arguments_"), p[2], p[3])
      BY DEF Along, Argument, ExpressionItem
    <2> QED
      BY <2>1 DEF Does, Call
  <1>4. p[2][1][1] = s[1][1] /\ p[2][1][2] = Append(s[1][2], p[1][1][2])
    BY <1>1, <1>2
  <1>5. ASSUME s[1][2] = <<>>
        PROVE  \E j : /\ <<"arguments", p[3][1][2], s[2], j>> \in D
                      /\ Is(ts, j, ")") /\ p[3][2] = j + 1
    <2>1. p[2][1][2] = <<p[1][1][2]>>
      BY <1>4, <1>5, AppendToEmpty
    <2>2. <<"arguments", <<p[1][1][2]>>, s[2], p[1][2]>> \in D
      BY <1>1 DEF Closed, ExpressionRules, FirstArgument
    <2>3. <<"arguments", p[2][1][2], s[2], p[2][2]>> \in D
      BY <1>2, <2>1, <2>2
    <2> QED
      BY <1>3, <2>3 DEF GoesOn
  <1>6. p[3][1][1] = s[1][1]
    BY <1>3, <1>4 DEF GoesOn
  <1>7. Begins(D, ts, "arguments", s, p[3])
    BY <1>5, <1>6 DEF Begins
  <1> QED
    BY <1>7 DEF Does, Call

LEMMA ProducesNextArgument ==
  ASSUME NEW ts, NEW s, Is(ts, s[2], Comma)
  PROVE  Produces(ts, Call("arguments_"), s, Argument,
                  <<s[1], s[2] + 1>>)
  <1> SUFFICES ASSUME NEW D, Closed(D, ts), NEW p,
                      p[0][1] = s[1], p[0][2] = s[2] + 1,
                      Along(D, ts, Argument, p)
               PROVE  Does(D, ts, Call("arguments_"), s, p[3])
    BY DEF Produces, Argument, ExpressionItem
  <1>1. /\ p[1][1][1] = p[0][1]
        /\ <<Expression(1), p[1][1][2], p[0][2], p[1][2]>> \in D
    <2>1. Does(D, ts, Call("expression"), p[0], p[1])
      BY DEF Along, Argument, ExpressionItem
    <2> QED
      BY <2>1 DEF Does, Call, Leaves
  <1>2. /\ p[2][1] = <<p[1][1][1][1], Append(p[1][1][1][2], p[1][1][2])>>
        /\ p[2][2] = p[1][2]
    <2>1. Does(D, ts, Call("append"), p[1], p[2])
      BY DEF Along, Argument, ExpressionItem
    <2> QED
      BY <2>1 DEF Does, Call
  <1>3. GoesOn(D, ts, "arguments", ")", p[2], p[3])
    <2>1. Does(D, ts, Call("arguments_"), p[2], p[3])
      BY DEF Along, Argument, ExpressionItem
    <2> QED
      BY <2>1 DEF Does, Call
  <1>4. p[2][1][1] = s[1][1] /\ p[2][1][2] = Append(s[1][2], p[1][1][2])
    BY <1>1, <1>2
  <1>5. ASSUME NEW i, <<"arguments", s[1][2], i, s[2]>> \in D
        PROVE  \E j : /\ <<"arguments", p[3][1][2], i, j>> \in D
                      /\ Is(ts, j, ")") /\ p[3][2] = j + 1
    <2>1. <<Expression(1), p[1][1][2], s[2] + 1, p[1][2]>> \in D
      BY <1>1
    <2>2. <<"arguments", Append(s[1][2], p[1][1][2]), i, p[1][2]>> \in D
      BY <1>5, <2>1 DEF Closed, ExpressionRules, NextArgument
    <2>3. <<"arguments", p[2][1][2], i, p[2][2]>> \in D
      BY <1>2, <1>4, <2>2
    <2> QED
      BY <1>3, <2>3 DEF GoesOn
  <1>6. p[3][1][1] = s[1][1]
    BY <1>3, <1>4 DEF GoesOn
  <1>7. GoesOn(D, ts, "arguments", ")", s, p[3])
    BY <1>5, <1>6 DEF GoesOn
  <1> QED
    BY <1>7 DEF Does, Call

LEMMA ProducesParameters ==
  ASSUME NEW ts, NEW s
  PROVE  Produces(ts, Call("parameters"), s, Parameter,
                  <<s[1], s[2]>>)
  <1> SUFFICES ASSUME NEW D, Closed(D, ts), NEW p,
                      p[0][1] = s[1], p[0][2] = s[2],
                      Along(D, ts, Parameter, p)
               PROVE  Does(D, ts, Call("parameters"), s, p[6])
    BY DEF Produces, Parameter, NameItem
  <1>1. p[1][1][1] = p[0][1] /\ <<"name", p[1][1][2], p[0][2], p[1][2]>> \in D
    <2>1. Does(D, ts, Call("name"), p[0], p[1])
      BY DEF Along, Parameter, NameItem
    <2> QED
      BY <2>1 DEF Does, Call, Leaves
  <1>2. /\ p[2][1] = p[1][1] /\ Is(ts, p[1][2], ":")
        /\ p[2][2] = p[1][2] + 1
    <2>1. Does(D, ts, Expect(":"), p[1], p[2])
      BY DEF Along, Parameter, NameItem
    <2> QED
      BY <2>1 DEF Does, Expect
  <1>3. p[3][1][1] = p[2][1] /\ <<"type", p[3][1][2], p[2][2], p[3][2]>> \in D
    <2>1. Does(D, ts, Call("type"), p[2], p[3])
      BY DEF Along, Parameter, NameItem
    <2> QED
      BY <2>1 DEF Does, Call, Leaves
  <1>4. /\ p[4][1] = <<p[3][1][1][1], ParameterAST(p[3][1][1][2], p[3][1][2])>>
        /\ p[4][2] = p[3][2]
    <2>1. Does(D, ts, Build("parameter"), p[3], p[4])
      BY DEF Along, Parameter, NameItem
    <2> QED
      BY <2>1, MakesParameter
  <1>5. /\ p[5][1] = <<p[4][1][1][1], Append(p[4][1][1][2], p[4][1][2])>>
        /\ p[5][2] = p[4][2]
    <2>1. Does(D, ts, Call("append"), p[4], p[5])
      BY DEF Along, Parameter, NameItem
    <2> QED
      BY <2>1 DEF Does, Call
  <1>6. GoesOn(D, ts, "parameters", ")", p[5], p[6])
    <2>1. Does(D, ts, Call("parameters_"), p[5], p[6])
      BY DEF Along, Parameter, NameItem
    <2> QED
      BY <2>1 DEF Does, Call
  <1> DEFINE node == ParameterAST(p[1][1][2], p[3][1][2])
  <1>7. p[4][1][1] = s[1] /\ p[4][1][2] = node
    BY <1>1, <1>2, <1>3, <1>4
  <1>8. p[5][1][1] = s[1][1] /\ p[5][1][2] = Append(s[1][2], node)
    BY <1>5, <1>7
  <1>9. <<"parameter", node, p[0][2], p[3][2]>> \in D
    BY <1>1, <1>2, <1>3 DEF Closed, FunctionRules, ParameterRule
  <1>10. ASSUME s[1][2] = <<>>
         PROVE  \E j : /\ <<"parameters", p[6][1][2], s[2], j>> \in D
                       /\ Is(ts, j, ")") /\ p[6][2] = j + 1
    <2>1. p[5][1][2] = <<node>>
      BY <1>8, <1>10, AppendToEmpty
    <2>2. <<"parameters", <<node>>, s[2], p[3][2]>> \in D
      BY <1>9 DEF Closed, FunctionRules, FirstParameter
    <2>3. <<"parameters", p[5][1][2], s[2], p[5][2]>> \in D
      BY <1>4, <1>5, <2>1, <2>2
    <2> QED
      BY <1>6, <2>3 DEF GoesOn
  <1>11. p[6][1][1] = s[1][1]
    BY <1>6, <1>8 DEF GoesOn
  <1>12. Begins(D, ts, "parameters", s, p[6])
    BY <1>10, <1>11 DEF Begins
  <1> QED
    BY <1>12 DEF Does, Call

LEMMA ProducesNextParameter ==
  ASSUME NEW ts, NEW s, Is(ts, s[2], Comma)
  PROVE  Produces(ts, Call("parameters_"), s, Parameter,
                  <<s[1], s[2] + 1>>)
  <1> SUFFICES ASSUME NEW D, Closed(D, ts), NEW p,
                      p[0][1] = s[1], p[0][2] = s[2] + 1,
                      Along(D, ts, Parameter, p)
               PROVE  Does(D, ts, Call("parameters_"), s, p[6])
    BY DEF Produces, Parameter, NameItem
  <1>1. p[1][1][1] = p[0][1] /\ <<"name", p[1][1][2], p[0][2], p[1][2]>> \in D
    <2>1. Does(D, ts, Call("name"), p[0], p[1])
      BY DEF Along, Parameter, NameItem
    <2> QED
      BY <2>1 DEF Does, Call, Leaves
  <1>2. /\ p[2][1] = p[1][1] /\ Is(ts, p[1][2], ":")
        /\ p[2][2] = p[1][2] + 1
    <2>1. Does(D, ts, Expect(":"), p[1], p[2])
      BY DEF Along, Parameter, NameItem
    <2> QED
      BY <2>1 DEF Does, Expect
  <1>3. p[3][1][1] = p[2][1] /\ <<"type", p[3][1][2], p[2][2], p[3][2]>> \in D
    <2>1. Does(D, ts, Call("type"), p[2], p[3])
      BY DEF Along, Parameter, NameItem
    <2> QED
      BY <2>1 DEF Does, Call, Leaves
  <1>4. /\ p[4][1] = <<p[3][1][1][1], ParameterAST(p[3][1][1][2], p[3][1][2])>>
        /\ p[4][2] = p[3][2]
    <2>1. Does(D, ts, Build("parameter"), p[3], p[4])
      BY DEF Along, Parameter, NameItem
    <2> QED
      BY <2>1, MakesParameter
  <1>5. /\ p[5][1] = <<p[4][1][1][1], Append(p[4][1][1][2], p[4][1][2])>>
        /\ p[5][2] = p[4][2]
    <2>1. Does(D, ts, Call("append"), p[4], p[5])
      BY DEF Along, Parameter, NameItem
    <2> QED
      BY <2>1 DEF Does, Call
  <1>6. GoesOn(D, ts, "parameters", ")", p[5], p[6])
    <2>1. Does(D, ts, Call("parameters_"), p[5], p[6])
      BY DEF Along, Parameter, NameItem
    <2> QED
      BY <2>1 DEF Does, Call
  <1> DEFINE node == ParameterAST(p[1][1][2], p[3][1][2])
  <1>7. p[4][1][1] = s[1] /\ p[4][1][2] = node
    BY <1>1, <1>2, <1>3, <1>4
  <1>8. p[5][1][1] = s[1][1] /\ p[5][1][2] = Append(s[1][2], node)
    BY <1>5, <1>7
  <1>9. <<"parameter", node, p[0][2], p[3][2]>> \in D
    BY <1>1, <1>2, <1>3 DEF Closed, FunctionRules, ParameterRule
  <1>10. ASSUME NEW i, <<"parameters", s[1][2], i, s[2]>> \in D
         PROVE  \E j : /\ <<"parameters", p[6][1][2], i, j>> \in D
                       /\ Is(ts, j, ")") /\ p[6][2] = j + 1
    <2>1. <<"parameter", node, s[2] + 1, p[3][2]>> \in D
      BY <1>9
    <2>2. <<"parameters", Append(s[1][2], node), i, p[3][2]>> \in D
      BY <1>10, <2>1 DEF Closed, FunctionRules, NextParameter
    <2>3. <<"parameters", p[5][1][2], i, p[5][2]>> \in D
      BY <1>4, <1>5, <1>8, <2>2
    <2> QED
      BY <1>6, <2>3 DEF GoesOn
  <1>11. p[6][1][1] = s[1][1]
    BY <1>6, <1>8 DEF GoesOn
  <1>12. GoesOn(D, ts, "parameters", ")", s, p[6])
    BY <1>10, <1>11 DEF GoesOn
  <1> QED
    BY <1>12 DEF Does, Call

---------------------------------------------------------------------------
(* Types, blocks and the module.                                           *)
LEMMA ProducesIntegerType ==
  ASSUME NEW ts, NEW s, s[2] \in DOMAIN ts,
         ts[s[2]].kind \in IntegerTypes
  PROVE  Produces(ts, Call("type"), s, <<>>,
                  <<<<s[1], ts[s[2]].lexeme>>, s[2] + 1>>)
  <1> SUFFICES ASSUME NEW D, Closed(D, ts), NEW p,
                      p[0][1] = <<s[1], ts[s[2]].lexeme>>, p[0][2] = s[2] + 1
               PROVE  Does(D, ts, Call("type"), s, p[0])
    BY DEF Produces
  <1>1. <<"type", ts[s[2]].lexeme, s[2], s[2] + 1>> \in D
    BY DEF Closed, FunctionRules, TypeRule
  <1> QED
    BY <1>1 DEF Does, Call, Leaves

LEMMA ProducesPointee ==
  ASSUME NEW ts, NEW s, s[2] \in DOMAIN ts,
         ts[s[2]].kind \in IntegerTypes
  PROVE  Produces(ts, Call("pointee"), s, <<>>,
                  <<<<s[1], ts[s[2]].lexeme>>, s[2] + 1>>)
  <1> SUFFICES ASSUME NEW D, Closed(D, ts), NEW p,
                      p[0][1] = <<s[1], ts[s[2]].lexeme>>, p[0][2] = s[2] + 1
               PROVE  Does(D, ts, Call("pointee"), s, p[0])
    BY DEF Produces
  <1>1. DoesPointee(ts, s, p[0])
    BY DEF DoesPointee
  <1> QED
    BY <1>1 DEF Does, Call

LEMMA ProducesPointerType ==
  ASSUME NEW ts, NEW s, s[2] \in Int, Is(ts, s[2], "ptr")
  PROVE  Produces(ts, Call("type"), s, <<Expect("<"), Call("pointee"),
                                         Expect(">"),
                          Build("pointer"), Call("caller")>>,
                  <<s[1], s[2] + 1>>)
  <1> SUFFICES ASSUME NEW D, Closed(D, ts), NEW p,
                      p[0][1] = s[1], p[0][2] = s[2] + 1,
                      Along(D, ts, <<Expect("<"), Call("pointee"), Expect(">"),
                          Build("pointer"), Call("caller")>>, p)
               PROVE  Does(D, ts, Call("type"), s, p[5])
    BY DEF Produces
  <1>1. /\ p[1][1] = p[0][1] /\ Is(ts, p[0][2], "<")
        /\ p[1][2] = p[0][2] + 1
    <2>1. Does(D, ts, Expect("<"), p[0], p[1])
      BY DEF Along
    <2> QED
      BY <2>1 DEF Does, Expect
  <1>2. DoesPointee(ts, p[1], p[2])
    <2>1. Does(D, ts, Call("pointee"), p[1], p[2])
      BY DEF Along
    <2> QED
      BY <2>1 DEF Does, Call
  <1>3. /\ p[3][1] = p[2][1] /\ Is(ts, p[2][2], ">")
        /\ p[3][2] = p[2][2] + 1
    <2>1. Does(D, ts, Expect(">"), p[2], p[3])
      BY DEF Along
    <2> QED
      BY <2>1 DEF Does, Expect
  <1>4. /\ p[4][1] = <<p[3][1][1], "ptr<" \o p[3][1][2] \o ">">>
        /\ p[4][2] = p[3][2]
    <2>1. Does(D, ts, Build("pointer"), p[3], p[4])
      BY DEF Along
    <2>2. p[4][1] = Made("pointer", p[3][1]) /\ p[4][2] = p[3][2]
      BY <2>1, DoesMake
    <2> QED
      BY <2>2, Zenon DEF Made
  <1>5. p[5][1] = p[4][1] /\ p[5][2] = p[4][2]
    <2>1. Does(D, ts, Call("caller"), p[4], p[5])
      BY DEF Along
    <2> QED
      BY <2>1 DEF Does, Call
  <1>6. /\ p[1][2] = s[2] + 2 /\ p[2][2] = s[2] + 3 /\ p[3][2] = s[2] + 4
        /\ Is(ts, s[2] + 1, "<") /\ Is(ts, s[2] + 3, ">")
        /\ s[2] + 2 \in DOMAIN ts /\ ts[s[2] + 2].kind \in IntegerTypes
        /\ p[2][1][1] = p[1][1] /\ p[2][1][2] = ts[s[2] + 2].lexeme
    BY <1>1, <1>2, <1>3 DEF DoesPointee
  <1>7. <<"type", "ptr<" \o ts[s[2] + 2].lexeme \o ">", s[2], s[2] + 4>> \in D
    BY <1>6 DEF Closed, FunctionRules, TypeRule, Is
  <1>8. /\ p[5][1][1] = s[1]
        /\ p[5][1][2] = "ptr<" \o ts[s[2] + 2].lexeme \o ">"
    BY <1>1, <1>3, <1>4, <1>5, <1>6
  <1>9. p[5][2] = s[2] + 4
    BY <1>4, <1>5, <1>6
  <1>10. <<"type", p[5][1][2], s[2], p[5][2]>> \in D
    BY <1>7, <1>8, <1>9
  <1>11. Leaves(D, "type", s, p[5])
    BY <1>8, <1>10 DEF Leaves
  <1> QED
    BY <1>11 DEF Does, Call

LEMMA ProducesEndOfBlock ==
  ASSUME NEW ts, NEW s
  PROVE  Produces(ts, Call("block"), s, <<Expect(RBrace)>>,
                  <<s[1], s[2]>>)
  <1> SUFFICES ASSUME NEW D, Closed(D, ts), NEW p,
                      p[0][1] = s[1], p[0][2] = s[2],
                      Does(D, ts, Expect(RBrace), p[0], p[1])
               PROVE  Does(D, ts, Call("block"), s, p[1])
    BY ProducesOne
  <1>1. /\ p[1][1] = p[0][1] /\ Is(ts, p[0][2], RBrace)
        /\ p[1][2] = p[0][2] + 1
    BY DEF Does, Expect
  <1>2. GoesOn(D, ts, "statements", RBrace, s, p[1])
    BY <1>1 DEF GoesOn
  <1> QED
    BY <1>2 DEF Does, Call

LEMMA ProducesBlock ==
  ASSUME NEW ts, NEW s
  PROVE  Produces(ts, Call("block"), s, <<Call("statement"), Call("append"),
                                          Call("block")>>,
                  <<s[1], s[2]>>)
  <1> SUFFICES ASSUME NEW D, Closed(D, ts), NEW p,
                      p[0][1] = s[1], p[0][2] = s[2],
                      Along(D, ts, <<Call("statement"), Call("append"),
                                     Call("block")>>, p)
               PROVE  Does(D, ts, Call("block"), s, p[3])
    BY DEF Produces
  <1>1. /\ p[1][1][1] = p[0][1]
        /\ <<"statement", p[1][1][2], p[0][2], p[1][2]>> \in D
    <2>1. Does(D, ts, Call("statement"), p[0], p[1])
      BY DEF Along
    <2> QED
      BY <2>1 DEF Does, Call, Leaves
  <1>2. /\ p[2][1] = <<p[1][1][1][1], Append(p[1][1][1][2], p[1][1][2])>>
        /\ p[2][2] = p[1][2]
    <2>1. Does(D, ts, Call("append"), p[1], p[2])
      BY DEF Along
    <2> QED
      BY <2>1 DEF Does, Call
  <1>3. GoesOn(D, ts, "statements", RBrace, p[2], p[3])
    <2>1. Does(D, ts, Call("block"), p[2], p[3])
      BY DEF Along
    <2> QED
      BY <2>1 DEF Does, Call
  <1>4. p[2][1][1] = s[1][1] /\ p[2][1][2] = Append(s[1][2], p[1][1][2])
    BY <1>1, <1>2
  <1>5. ASSUME NEW i, <<"statements", s[1][2], i, s[2]>> \in D
        PROVE  <<"statements", p[2][1][2], i, p[2][2]>> \in D
    <2>1. <<"statement", p[1][1][2], s[2], p[1][2]>> \in D
      BY <1>1
    <2>2. <<"statements", Append(s[1][2], p[1][1][2]), i, p[1][2]>> \in D
      BY <1>5, <2>1 DEF Closed, FunctionRules, NextElement
    <2> QED
      BY <1>2, <1>4, <2>2
  <1>6. p[3][1][1] = s[1][1]
    BY <1>3, <1>4 DEF GoesOn
  <1>7. GoesOn(D, ts, "statements", RBrace, s, p[3])
    BY <1>3, <1>5, <1>6 DEF GoesOn
  <1> QED
    BY <1>7 DEF Does, Call

LEMMA ProducesModule ==
  ASSUME NEW ts, NEW s
  PROVE  Produces(ts, Call("module"), s, <<Call("function"), Call("append"),
                                           Call("module")>>,
                  <<s[1], s[2]>>)
  <1> SUFFICES ASSUME NEW D, Closed(D, ts), NEW p,
                      p[0][1] = s[1], p[0][2] = s[2],
                      Along(D, ts, <<Call("function"), Call("append"),
                                     Call("module")>>, p)
               PROVE  Does(D, ts, Call("module"), s, p[3])
    BY DEF Produces
  <1>1. /\ p[1][1][1] = p[0][1]
        /\ <<"function", p[1][1][2], p[0][2], p[1][2]>> \in D
    <2>1. Does(D, ts, Call("function"), p[0], p[1])
      BY DEF Along
    <2> QED
      BY <2>1 DEF Does, Call, Leaves
  <1>2. /\ p[2][1] = <<p[1][1][1][1], Append(p[1][1][1][2], p[1][1][2])>>
        /\ p[2][2] = p[1][2]
    <2>1. Does(D, ts, Call("append"), p[1], p[2])
      BY DEF Along
    <2> QED
      BY <2>1 DEF Does, Call
  <1>3. DoesModule(D, ts, p[2], p[3])
    <2>1. Does(D, ts, Call("module"), p[2], p[3])
      BY DEF Along
    <2> QED
      BY <2>1 DEF Does, Call
  <1>4. p[2][1][1] = s[1][1] /\ p[2][1][2] = Append(s[1][2], p[1][1][2])
    BY <1>1, <1>2
  <1>5. ASSUME NEW i, <<"functions", s[1][2], i, s[2]>> \in D
        PROVE  <<"functions", p[2][1][2], i, p[2][2]>> \in D
    <2>1. <<"function", p[1][1][2], s[2], p[1][2]>> \in D
      BY <1>1
    <2>2. <<"functions", Append(s[1][2], p[1][1][2]), i, p[1][2]>> \in D
      BY <1>5, <2>1 DEF Closed, FunctionRules, NextElement
    <2> QED
      BY <1>2, <1>4, <2>2
  <1>6. DoesModule(D, ts, s, p[3])
    BY <1>3, <1>5 DEF DoesModule
  <1> QED
    BY <1>6 DEF Does, Call

LEMMA ProducesNoElse ==
  ASSUME NEW ts, NEW s
  PROVE  Produces(ts, Call("else"), s, <<>>,
                  <<s[1], s[2]>>)
  <1> SUFFICES ASSUME NEW D, Closed(D, ts), NEW p,
                      p[0][1] = s[1], p[0][2] = s[2]
               PROVE  Does(D, ts, Call("else"), s, p[0])
    BY DEF Produces
  <1>1. DoesElse(D, ts, s, p[0])
    BY DEF DoesElse
  <1> QED
    BY <1>1 DEF Does, Call

LEMMA ProducesElse ==
  ASSUME NEW ts, Ended(ts), NEW s, Is(ts, s[2], "else"),
         s[2] \in Int
  PROVE  Produces(ts, Call("else"), s, <<Expect(LBrace), Call("block")>>,
                  <<s[1], s[2] + 1>>)
  <1> SUFFICES ASSUME NEW D, Closed(D, ts), NEW p,
                      p[0][1] = s[1], p[0][2] = s[2] + 1,
                      Along(D, ts, <<Expect(LBrace), Call("block")>>, p)
               PROVE  Does(D, ts, Call("else"), s, p[2])
    BY DEF Produces
  <1>1. /\ p[1][1] = p[0][1] /\ Is(ts, p[0][2], LBrace)
        /\ p[1][2] = p[0][2] + 1
    <2>1. Does(D, ts, Expect(LBrace), p[0], p[1])
      BY DEF Along
    <2> QED
      BY <2>1 DEF Does, Expect
  <1>2. GoesOn(D, ts, "statements", RBrace, p[1], p[2])
    <2>1. Does(D, ts, Call("block"), p[1], p[2])
      BY DEF Along
    <2> QED
      BY <2>1 DEF Does, Call
  <1>3. ASSUME s[1][2] = <<>>
        PROVE  <<"block", p[2][1][2], s[2] + 1, p[2][2]>> \in D
    <2>1. /\ Is(ts, s[2] + 1, LBrace)
          /\ p[1][2] = (s[2] + 1) + 1
          /\ p[1][1] = s[1]
      BY <1>1
    <2>2. p[1][2] \in DOMAIN ts
      BY <2>1, AfterBrace
    <2>3. <<"statements", <<>>, p[1][2], p[1][2]>> \in D
      BY <2>2 DEF Closed, FunctionRules, NoElement
    <2>4. PICK j : /\ <<"statements", p[2][1][2], p[1][2], j>> \in D
                   /\ Is(ts, j, RBrace) /\ p[2][2] = j + 1
      BY <1>2, <1>3, <2>1, <2>3 DEF GoesOn
    <2> QED
      BY <2>1, <2>4 DEF Closed, StatementRules, BlockRule
  <1>4. p[2][1][1] = s[1][1]
    BY <1>1, <1>2 DEF GoesOn
  <1>5. DoesElse(D, ts, s, p[2])
    BY <1>3, <1>4 DEF DoesElse
  <1> QED
    BY <1>5 DEF Does, Call

---------------------------------------------------------------------------
(* Statements.                                                             *)
LEMMA ProducesLet ==
  ASSUME NEW ts, NEW s, Is(ts, s[2], "let")
  PROVE  Produces(ts, Call("statement"), s, parseLetStatement,
                  <<s[1], s[2] + 1>>)
  <1> SUFFICES ASSUME NEW D, Closed(D, ts), NEW p,
                      p[0][1] = s[1], p[0][2] = s[2] + 1,
                      Along(D, ts, parseLetStatement, p)
               PROVE  Does(D, ts, Call("statement"), s, p[5])
    BY DEF Produces, parseLetStatement, NameItem, ExpressionItem
  <1>1. p[1][1][1] = p[0][1] /\ <<"name", p[1][1][2], p[0][2], p[1][2]>> \in D
    <2>1. Does(D, ts, Call("name"), p[0], p[1])
      BY DEF Along, parseLetStatement, NameItem, ExpressionItem
    <2> QED
      BY <2>1 DEF Does, Call, Leaves
  <1>2. /\ p[2][1] = p[1][1] /\ Is(ts, p[1][2], "=")
        /\ p[2][2] = p[1][2] + 1
    <2>1. Does(D, ts, Expect("="), p[1], p[2])
      BY DEF Along, parseLetStatement, NameItem, ExpressionItem
    <2> QED
      BY <2>1 DEF Does, Expect
  <1>3. /\ p[3][1][1] = p[2][1]
        /\ <<Expression(1), p[3][1][2], p[2][2], p[3][2]>> \in D
    <2>1. Does(D, ts, Call("expression"), p[2], p[3])
      BY DEF Along, parseLetStatement, NameItem, ExpressionItem
    <2> QED
      BY <2>1 DEF Does, Call, Leaves
  <1>4. /\ p[4][1] = p[3][1] /\ Is(ts, p[3][2], Semicolon)
        /\ p[4][2] = p[3][2] + 1
    <2>1. Does(D, ts, Expect(Semicolon), p[3], p[4])
      BY DEF Along, parseLetStatement, NameItem, ExpressionItem
    <2> QED
      BY <2>1 DEF Does, Expect
  <1>5. /\ p[5][1] = <<p[4][1][1][1], LetStmtAST(p[4][1][1][2], p[4][1][2])>>
        /\ p[5][2] = p[4][2]
    <2>1. Does(D, ts, Build("let"), p[4], p[5])
      BY DEF Along, parseLetStatement, NameItem, ExpressionItem
    <2> QED
      BY <2>1, MakesLet
  <1> DEFINE node == LetStmtAST(p[1][1][2], p[3][1][2])
  <1>6. p[5][1][1] = s[1] /\ p[5][1][2] = node
    BY <1>1, <1>2, <1>3, <1>4, <1>5
  <1>7. <<"statement", node, s[2], p[3][2] + 1>> \in D
    BY <1>1, <1>2, <1>3, <1>4 DEF Closed, StatementRules, AssignmentRule
  <1>8. <<"statement", p[5][1][2], s[2], p[5][2]>> \in D
    BY <1>4, <1>5, <1>6, <1>7
  <1>9. Leaves(D, "statement", s, p[5])
    BY <1>6, <1>8 DEF Leaves
  <1> QED
    BY <1>9 DEF Does, Call

LEMMA ProducesAssign ==
  ASSUME NEW ts, NEW s
  PROVE  Produces(ts, Call("statement"), s, parseAssignStatement,
                  <<s[1], s[2]>>)
  <1> SUFFICES ASSUME NEW D, Closed(D, ts), NEW p,
                      p[0][1] = s[1], p[0][2] = s[2],
                      Along(D, ts, parseAssignStatement, p)
               PROVE  Does(D, ts, Call("statement"), s, p[5])
    BY DEF Produces, parseAssignStatement, NameItem, ExpressionItem
  <1>1. p[1][1][1] = p[0][1] /\ <<"name", p[1][1][2], p[0][2], p[1][2]>> \in D
    <2>1. Does(D, ts, Call("name"), p[0], p[1])
      BY DEF Along, parseAssignStatement, NameItem, ExpressionItem
    <2> QED
      BY <2>1 DEF Does, Call, Leaves
  <1>2. /\ p[2][1] = p[1][1] /\ Is(ts, p[1][2], "=")
        /\ p[2][2] = p[1][2] + 1
    <2>1. Does(D, ts, Expect("="), p[1], p[2])
      BY DEF Along, parseAssignStatement, NameItem, ExpressionItem
    <2> QED
      BY <2>1 DEF Does, Expect
  <1>3. /\ p[3][1][1] = p[2][1]
        /\ <<Expression(1), p[3][1][2], p[2][2], p[3][2]>> \in D
    <2>1. Does(D, ts, Call("expression"), p[2], p[3])
      BY DEF Along, parseAssignStatement, NameItem, ExpressionItem
    <2> QED
      BY <2>1 DEF Does, Call, Leaves
  <1>4. /\ p[4][1] = p[3][1] /\ Is(ts, p[3][2], Semicolon)
        /\ p[4][2] = p[3][2] + 1
    <2>1. Does(D, ts, Expect(Semicolon), p[3], p[4])
      BY DEF Along, parseAssignStatement, NameItem, ExpressionItem
    <2> QED
      BY <2>1 DEF Does, Expect
  <1>5. /\ p[5][1] = <<p[4][1][1][1], AssignStmtAST(p[4][1][1][2],
                                                    p[4][1][2])>>
        /\ p[5][2] = p[4][2]
    <2>1. Does(D, ts, Build("assign"), p[4], p[5])
      BY DEF Along, parseAssignStatement, NameItem, ExpressionItem
    <2> QED
      BY <2>1, MakesAssign
  <1> DEFINE node == AssignStmtAST(p[1][1][2], p[3][1][2])
  <1>6. p[5][1][1] = s[1] /\ p[5][1][2] = node
    BY <1>1, <1>2, <1>3, <1>4, <1>5
  <1>7. <<"statement", node, s[2], p[3][2] + 1>> \in D
    BY <1>1, <1>2, <1>3, <1>4 DEF Closed, StatementRules, AssignmentRule
  <1>8. <<"statement", p[5][1][2], s[2], p[5][2]>> \in D
    BY <1>4, <1>5, <1>6, <1>7
  <1>9. Leaves(D, "statement", s, p[5])
    BY <1>6, <1>8 DEF Leaves
  <1> QED
    BY <1>9 DEF Does, Call

LEMMA ProducesStore ==
  ASSUME NEW ts, NEW s, Ended(ts), Is(ts, s[2], "store")
  PROVE  Produces(ts, Call("statement"), s, parseStoreStatement,
                  <<s[1], s[2] + 1>>)
  <1> SUFFICES ASSUME NEW D, Closed(D, ts), NEW p,
                      p[0][1] = s[1], p[0][2] = s[2] + 1,
                      Along(D, ts, parseStoreStatement, p)
               PROVE  Does(D, ts, Call("statement"), s, p[8])
    BY DEF Produces, parseStoreStatement, NameItem, ExpressionItem
  <1>1. p[1][1][1] = p[0][1] /\ <<"name", p[1][1][2], p[0][2], p[1][2]>> \in D
    <2>1. Does(D, ts, Call("name"), p[0], p[1])
      BY DEF Along, parseStoreStatement, NameItem, ExpressionItem
    <2> QED
      BY <2>1 DEF Does, Call, Leaves
  <1>2. /\ p[2][1] = p[1][1] /\ Is(ts, p[1][2], "[")
        /\ p[2][2] = p[1][2] + 1
    <2>1. Does(D, ts, Expect("["), p[1], p[2])
      BY DEF Along, parseStoreStatement, NameItem, ExpressionItem
    <2> QED
      BY <2>1 DEF Does, Expect
  <1>3. /\ p[3][1][1] = p[2][1]
        /\ <<Expression(1), p[3][1][2], p[2][2], p[3][2]>> \in D
    <2>1. Does(D, ts, Call("expression"), p[2], p[3])
      BY DEF Along, parseStoreStatement, NameItem, ExpressionItem
    <2> QED
      BY <2>1 DEF Does, Call, Leaves
  <1>4. /\ p[4][1] = p[3][1] /\ Is(ts, p[3][2], "]")
        /\ p[4][2] = p[3][2] + 1
    <2>1. Does(D, ts, Expect("]"), p[3], p[4])
      BY DEF Along, parseStoreStatement, NameItem, ExpressionItem
    <2> QED
      BY <2>1 DEF Does, Expect
  <1>5. /\ p[5][1] = p[4][1] /\ Is(ts, p[4][2], "=")
        /\ p[5][2] = p[4][2] + 1
    <2>1. Does(D, ts, Expect("="), p[4], p[5])
      BY DEF Along, parseStoreStatement, NameItem, ExpressionItem
    <2> QED
      BY <2>1 DEF Does, Expect
  <1>6. /\ p[6][1][1] = p[5][1]
        /\ <<Expression(1), p[6][1][2], p[5][2], p[6][2]>> \in D
    <2>1. Does(D, ts, Call("expression"), p[5], p[6])
      BY DEF Along, parseStoreStatement, NameItem, ExpressionItem
    <2> QED
      BY <2>1 DEF Does, Call, Leaves
  <1>7. /\ p[7][1] = p[6][1] /\ Is(ts, p[6][2], Semicolon)
        /\ p[7][2] = p[6][2] + 1
    <2>1. Does(D, ts, Expect(Semicolon), p[6], p[7])
      BY DEF Along, parseStoreStatement, NameItem, ExpressionItem
    <2> QED
      BY <2>1 DEF Does, Expect
  <1>8. /\ p[8][1] = <<p[7][1][1][1][1],
                StoreStmtAST(p[7][1][1][1][2], p[7][1][1][2], p[7][1][2])>>
        /\ p[8][2] = p[7][2]
    <2>1. Does(D, ts, Build("store"), p[7], p[8])
      BY DEF Along, parseStoreStatement, NameItem, ExpressionItem
    <2> QED
      BY <2>1, MakesStore
  <1> DEFINE node == StoreStmtAST(p[1][1][2], p[3][1][2], p[6][1][2])
  <1>9. /\ p[3][1][1] = p[1][1] /\ p[6][1][1] = p[3][1] /\ p[7][1] = p[6][1]
         /\ p[1][1][1] = s[1]
    BY <1>1, <1>2, <1>3, <1>4, <1>5, <1>6, <1>7
  <1>10. p[8][1][1] = s[1] /\ p[8][1][2] = node
    BY <1>8, <1>9
  <1>11. /\ Is(ts, p[3][2], "]") /\ Is(ts, p[3][2] + 1, "=")
         /\ p[5][2] = p[3][2] + 2
    <2>1. Is(ts, p[3][2], "]") /\ Is(ts, p[3][2] + 1, "=")
      BY <1>4, <1>5
    <2>2. p[3][2] \in Int
      BY <2>1, IsInteger
    <2> QED
      BY <1>4, <1>5, <2>1, <2>2
  <1>12. <<Expression(1), p[6][1][2], p[3][2] + 2, p[6][2]>> \in D
    BY <1>6, <1>11
  <1>13. /\ Is(ts, p[1][2], "[")
         /\ <<Expression(1), p[3][1][2], p[1][2] + 1, p[3][2]>> \in D
         /\ <<"name", p[1][1][2], s[2] + 1, p[1][2]>> \in D
    BY <1>1, <1>2, <1>3
  <1>14. <<"statement", node, s[2], p[6][2] + 1>> \in D
    BY <1>7, <1>11, <1>12, <1>13 DEF Closed, StatementRules, StoreRule
  <1>15. <<"statement", p[8][1][2], s[2], p[8][2]>> \in D
    BY <1>7, <1>8, <1>10, <1>14
  <1>16. Leaves(D, "statement", s, p[8])
    BY <1>10, <1>15 DEF Leaves
  <1> QED
    BY <1>16 DEF Does, Call

LEMMA ProducesPrint ==
  ASSUME NEW ts, NEW s, Is(ts, s[2], "print_i32")
  PROVE  Produces(ts, Call("statement"), s, parsePrintI32Statement,
                  <<s[1], s[2] + 1>>)
  <1> SUFFICES ASSUME NEW D, Closed(D, ts), NEW p,
                      p[0][1] = s[1], p[0][2] = s[2] + 1,
                      Along(D, ts, parsePrintI32Statement, p)
               PROVE  Does(D, ts, Call("statement"), s, p[3])
    BY DEF Produces, parsePrintI32Statement, ExpressionItem
  <1>1. /\ p[1][1][1] = p[0][1]
        /\ <<Expression(1), p[1][1][2], p[0][2], p[1][2]>> \in D
    <2>1. Does(D, ts, Call("expression"), p[0], p[1])
      BY DEF Along, parsePrintI32Statement, ExpressionItem
    <2> QED
      BY <2>1 DEF Does, Call, Leaves
  <1>2. /\ p[2][1] = p[1][1] /\ Is(ts, p[1][2], Semicolon)
        /\ p[2][2] = p[1][2] + 1
    <2>1. Does(D, ts, Expect(Semicolon), p[1], p[2])
      BY DEF Along, parsePrintI32Statement, ExpressionItem
    <2> QED
      BY <2>1 DEF Does, Expect
  <1>3. /\ p[3][1] = <<p[2][1][1], PrintI32StmtAST(p[2][1][2])>>
        /\ p[3][2] = p[2][2]
    <2>1. Does(D, ts, Build("print_i32"), p[2], p[3])
      BY DEF Along, parsePrintI32Statement, ExpressionItem
    <2> QED
      BY <2>1, MakesPrint
  <1>4. p[3][1][1] = s[1] /\ p[3][1][2] = PrintI32StmtAST(p[1][1][2])
    BY <1>1, <1>2, <1>3
  <1>5. <<"statement", PrintI32StmtAST(p[1][1][2]), s[2], p[1][2] + 1>> \in D
    BY <1>1, <1>2 DEF Closed, StatementRules, PrintRule
  <1>6. <<"statement", p[3][1][2], s[2], p[3][2]>> \in D
    BY <1>2, <1>3, <1>4, <1>5
  <1>7. Leaves(D, "statement", s, p[3])
    BY <1>4, <1>6 DEF Leaves
  <1> QED
    BY <1>7 DEF Does, Call

LEMMA ProducesReturn ==
  ASSUME NEW ts, NEW s, Is(ts, s[2], "return")
  PROVE  Produces(ts, Call("statement"), s, parseReturnStatement,
                  <<s[1], s[2] + 1>>)
  <1> SUFFICES ASSUME NEW D, Closed(D, ts), NEW p,
                      p[0][1] = s[1], p[0][2] = s[2] + 1,
                      Along(D, ts, parseReturnStatement, p)
               PROVE  Does(D, ts, Call("statement"), s, p[3])
    BY DEF Produces, parseReturnStatement, ExpressionItem
  <1>1. /\ p[1][1][1] = p[0][1]
        /\ <<Expression(1), p[1][1][2], p[0][2], p[1][2]>> \in D
    <2>1. Does(D, ts, Call("expression"), p[0], p[1])
      BY DEF Along, parseReturnStatement, ExpressionItem
    <2> QED
      BY <2>1 DEF Does, Call, Leaves
  <1>2. /\ p[2][1] = p[1][1] /\ Is(ts, p[1][2], Semicolon)
        /\ p[2][2] = p[1][2] + 1
    <2>1. Does(D, ts, Expect(Semicolon), p[1], p[2])
      BY DEF Along, parseReturnStatement, ExpressionItem
    <2> QED
      BY <2>1 DEF Does, Expect
  <1>3. /\ p[3][1] = <<p[2][1][1], ReturnStmtAST(p[2][1][2])>>
        /\ p[3][2] = p[2][2]
    <2>1. Does(D, ts, Build("return"), p[2], p[3])
      BY DEF Along, parseReturnStatement, ExpressionItem
    <2> QED
      BY <2>1, MakesReturn
  <1>4. p[3][1][1] = s[1] /\ p[3][1][2] = ReturnStmtAST(p[1][1][2])
    BY <1>1, <1>2, <1>3
  <1>5. <<"statement", ReturnStmtAST(p[1][1][2]), s[2], p[1][2] + 1>> \in D
    BY <1>1, <1>2 DEF Closed, StatementRules, ReturnRule
  <1>6. <<"statement", p[3][1][2], s[2], p[3][2]>> \in D
    BY <1>2, <1>3, <1>4, <1>5
  <1>7. Leaves(D, "statement", s, p[3])
    BY <1>4, <1>6 DEF Leaves
  <1> QED
    BY <1>7 DEF Does, Call

LEMMA BlockFact ==
  ASSUME NEW ts, Ended(ts), NEW D, Closed(D, ts), NEW a, NEW b, NEW c, NEW t,
         Is(ts, a[2], LBrace), b[2] = a[2] + 1,
         c[1] = <<b[1], <<>>>>, c[2] = b[2],
         GoesOn(D, ts, "statements", RBrace, c, t)
  PROVE  t[1][1] = b[1] /\ <<"block", t[1][2], a[2], t[2]>> \in D
  <1>1. c[2] \in DOMAIN ts
    BY AfterBrace
  <1>2. <<"statements", <<>>, c[2], c[2]>> \in D
    BY <1>1 DEF Closed, FunctionRules, NoElement
  <1>3. c[1][1] = b[1] /\ c[1][2] = <<>>
    OBVIOUS
  <1>4. PICK j : /\ <<"statements", t[1][2], c[2], j>> \in D
                 /\ Is(ts, j, RBrace) /\ t[2] = j + 1
    BY <1>2, <1>3 DEF GoesOn
  <1>5. <<"block", t[1][2], a[2], j + 1>> \in D
    BY <1>4 DEF Closed, StatementRules, BlockRule
  <1>6. t[1][1] = b[1]
    BY <1>3 DEF GoesOn
  <1> QED
    BY <1>4, <1>5, <1>6

LEMMA ProducesWhile ==
  ASSUME NEW ts, NEW s, Ended(ts), Is(ts, s[2], "while")
  PROVE  Produces(ts, Call("statement"), s, parseWhileStatement,
                  <<s[1], s[2] + 1>>)
  <1> SUFFICES ASSUME NEW D, Closed(D, ts), NEW p,
                      p[0][1] = s[1], p[0][2] = s[2] + 1,
                      Along(D, ts, parseWhileStatement, p)
               PROVE  Does(D, ts, Call("statement"), s, p[5])
    BY DEF Produces, parseWhileStatement, ExpressionItem
  <1>1. /\ p[1][1][1] = p[0][1]
        /\ <<Expression(1), p[1][1][2], p[0][2], p[1][2]>> \in D
    <2>1. Does(D, ts, Call("expression"), p[0], p[1])
      BY DEF Along, parseWhileStatement, ExpressionItem
    <2> QED
      BY <2>1 DEF Does, Call, Leaves
  <1>2. /\ p[2][1] = p[1][1] /\ Is(ts, p[1][2], LBrace)
        /\ p[2][2] = p[1][2] + 1
    <2>1. Does(D, ts, Expect(LBrace), p[1], p[2])
      BY DEF Along, parseWhileStatement, ExpressionItem
    <2> QED
      BY <2>1 DEF Does, Expect
  <1>3. p[3][1] = <<p[2][1], <<>>>> /\ p[3][2] = p[2][2]
    <2>1. Does(D, ts, Call("list"), p[2], p[3])
      BY DEF Along, parseWhileStatement, ExpressionItem
    <2> QED
      BY <2>1 DEF Does, Call
  <1>4. GoesOn(D, ts, "statements", RBrace, p[3], p[4])
    <2>1. Does(D, ts, Call("block"), p[3], p[4])
      BY DEF Along, parseWhileStatement, ExpressionItem
    <2> QED
      BY <2>1 DEF Does, Call
  <1>5. /\ p[5][1] = <<p[4][1][1][1], WhileStmtAST(p[4][1][1][2], p[4][1][2])>>
        /\ p[5][2] = p[4][2]
    <2>1. Does(D, ts, Build("while"), p[4], p[5])
      BY DEF Along, parseWhileStatement, ExpressionItem
    <2> QED
      BY <2>1, MakesWhile
  <1> DEFINE node == WhileStmtAST(p[1][1][2], p[4][1][2])
  <1>6. /\ p[4][1][1] = p[2][1]
        /\ <<"block", p[4][1][2], p[1][2], p[4][2]>> \in D
    BY <1>2, <1>3, <1>4, BlockFact
  <1>7. p[5][1][1] = s[1] /\ p[5][1][2] = node
    BY <1>1, <1>2, <1>5, <1>6
  <1>8. <<"statement", node, s[2], p[4][2]>> \in D
    BY <1>1, <1>6 DEF Closed, StatementRules, WhileRule
  <1>9. <<"statement", p[5][1][2], s[2], p[5][2]>> \in D
    BY <1>5, <1>7, <1>8
  <1>10. Leaves(D, "statement", s, p[5])
    BY <1>7, <1>9 DEF Leaves
  <1> QED
    BY <1>10 DEF Does, Call

LEMMA ProducesIf ==
  ASSUME NEW ts, NEW s, Ended(ts), Is(ts, s[2], "if")
  PROVE  Produces(ts, Call("statement"), s, parseIfStatement,
                  <<s[1], s[2] + 1>>)
  <1> SUFFICES ASSUME NEW D, Closed(D, ts), NEW p,
                      p[0][1] = s[1], p[0][2] = s[2] + 1,
                      Along(D, ts, parseIfStatement, p)
               PROVE  Does(D, ts, Call("statement"), s, p[7])
    BY DEF Produces, parseIfStatement, ExpressionItem
  <1>1. /\ p[1][1][1] = p[0][1]
        /\ <<Expression(1), p[1][1][2], p[0][2], p[1][2]>> \in D
    <2>1. Does(D, ts, Call("expression"), p[0], p[1])
      BY DEF Along, parseIfStatement, ExpressionItem
    <2> QED
      BY <2>1 DEF Does, Call, Leaves
  <1>2. /\ p[2][1] = p[1][1] /\ Is(ts, p[1][2], LBrace)
        /\ p[2][2] = p[1][2] + 1
    <2>1. Does(D, ts, Expect(LBrace), p[1], p[2])
      BY DEF Along, parseIfStatement, ExpressionItem
    <2> QED
      BY <2>1 DEF Does, Expect
  <1>3. p[3][1] = <<p[2][1], <<>>>> /\ p[3][2] = p[2][2]
    <2>1. Does(D, ts, Call("list"), p[2], p[3])
      BY DEF Along, parseIfStatement, ExpressionItem
    <2> QED
      BY <2>1 DEF Does, Call
  <1>4. GoesOn(D, ts, "statements", RBrace, p[3], p[4])
    <2>1. Does(D, ts, Call("block"), p[3], p[4])
      BY DEF Along, parseIfStatement, ExpressionItem
    <2> QED
      BY <2>1 DEF Does, Call
  <1>5. p[5][1] = <<p[4][1], <<>>>> /\ p[5][2] = p[4][2]
    <2>1. Does(D, ts, Call("list"), p[4], p[5])
      BY DEF Along, parseIfStatement, ExpressionItem
    <2> QED
      BY <2>1 DEF Does, Call
  <1>6. DoesElse(D, ts, p[5], p[6])
    <2>1. Does(D, ts, Call("else"), p[5], p[6])
      BY DEF Along, parseIfStatement, ExpressionItem
    <2> QED
      BY <2>1 DEF Does, Call
  <1>7. /\ p[7][1] = <<p[6][1][1][1][1],
                IfStmtAST(p[6][1][1][1][2], p[6][1][1][2], p[6][1][2])>>
        /\ p[7][2] = p[6][2]
    <2>1. Does(D, ts, Build("if"), p[6], p[7])
      BY DEF Along, parseIfStatement, ExpressionItem
    <2> QED
      BY <2>1, MakesIf
  <1> DEFINE node == IfStmtAST(p[1][1][2], p[4][1][2], p[6][1][2])
  <1>8. /\ p[4][1][1] = p[2][1]
        /\ <<"block", p[4][1][2], p[1][2], p[4][2]>> \in D
    BY <1>2, <1>3, <1>4, BlockFact
  <1>9. p[5][1][1] = p[4][1] /\ p[5][1][2] = <<>> /\ p[5][2] = p[4][2]
    BY <1>5
  <1>10. /\ p[6][1][1] = p[4][1]
         /\ \/ p[6][1][2] = <<>> /\ p[6][2] = p[4][2]
            \/ /\ Is(ts, p[4][2], "else")
               /\ <<"block", p[6][1][2], p[4][2] + 1, p[6][2]>> \in D
    BY <1>6, <1>9 DEF DoesElse
  <1>11. p[7][1][1] = s[1] /\ p[7][1][2] = node
    BY <1>1, <1>2, <1>7, <1>8, <1>10
  <1>12. <<Expression(1), p[1][1][2], s[2] + 1, p[1][2]>> \in D
    BY <1>1
  <1>13. <<"statement", node, s[2], p[6][2]>> \in D
    BY <1>8, <1>10, <1>12 DEF Closed, StatementRules, IfRule
  <1>14. <<"statement", p[7][1][2], s[2], p[7][2]>> \in D
    BY <1>7, <1>11, <1>13
  <1>15. Leaves(D, "statement", s, p[7])
    BY <1>11, <1>14 DEF Leaves
  <1> QED
    BY <1>15 DEF Does, Call

LEMMA ProducesFunction ==
  ASSUME NEW ts, Ended(ts), NEW s
  PROVE  Produces(ts, Call("function"), s, << Expect("func"), NameItem,
                                              Expect("("), Call("list"),
                   Call("parameters"), Expect("->"), Call("type"),
                   Expect(LBrace), Call("list"), Call("block"),
                   Build("function") >>,
                  <<s[1], s[2]>>)
  <1> SUFFICES ASSUME NEW D, Closed(D, ts), NEW p,
                      p[0][1] = s[1], p[0][2] = s[2],
                      Along(D, ts, << Expect("func"), NameItem, Expect("("),
                                      Call("list"),
                   Call("parameters"), Expect("->"), Call("type"),
                   Expect(LBrace), Call("list"), Call("block"),
                   Build("function") >>, p)
               PROVE  Does(D, ts, Call("function"), s, p[11])
    BY DEF Produces, NameItem
  <1>1. /\ p[1][1] = p[0][1] /\ Is(ts, p[0][2], "func")
        /\ p[1][2] = p[0][2] + 1
    <2>1. Does(D, ts, Expect("func"), p[0], p[1])
      BY DEF Along, NameItem
    <2> QED
      BY <2>1 DEF Does, Expect
  <1>2. p[2][1][1] = p[1][1] /\ <<"name", p[2][1][2], p[1][2], p[2][2]>> \in D
    <2>1. Does(D, ts, Call("name"), p[1], p[2])
      BY DEF Along, NameItem
    <2> QED
      BY <2>1 DEF Does, Call, Leaves
  <1>3. /\ p[3][1] = p[2][1] /\ Is(ts, p[2][2], "(")
        /\ p[3][2] = p[2][2] + 1
    <2>1. Does(D, ts, Expect("("), p[2], p[3])
      BY DEF Along, NameItem
    <2> QED
      BY <2>1 DEF Does, Expect
  <1>4. p[4][1] = <<p[3][1], <<>>>> /\ p[4][2] = p[3][2]
    <2>1. Does(D, ts, Call("list"), p[3], p[4])
      BY DEF Along, NameItem
    <2> QED
      BY <2>1 DEF Does, Call
  <1>5. Begins(D, ts, "parameters", p[4], p[5])
    <2>1. Does(D, ts, Call("parameters"), p[4], p[5])
      BY DEF Along, NameItem
    <2> QED
      BY <2>1 DEF Does, Call
  <1>6. /\ p[6][1] = p[5][1] /\ Is(ts, p[5][2], "->")
        /\ p[6][2] = p[5][2] + 1
    <2>1. Does(D, ts, Expect("->"), p[5], p[6])
      BY DEF Along, NameItem
    <2> QED
      BY <2>1 DEF Does, Expect
  <1>7. p[7][1][1] = p[6][1] /\ <<"type", p[7][1][2], p[6][2], p[7][2]>> \in D
    <2>1. Does(D, ts, Call("type"), p[6], p[7])
      BY DEF Along, NameItem
    <2> QED
      BY <2>1 DEF Does, Call, Leaves
  <1>8. /\ p[8][1] = p[7][1] /\ Is(ts, p[7][2], LBrace)
        /\ p[8][2] = p[7][2] + 1
    <2>1. Does(D, ts, Expect(LBrace), p[7], p[8])
      BY DEF Along, NameItem
    <2> QED
      BY <2>1 DEF Does, Expect
  <1>9. p[9][1] = <<p[8][1], <<>>>> /\ p[9][2] = p[8][2]
    <2>1. Does(D, ts, Call("list"), p[8], p[9])
      BY DEF Along, NameItem
    <2> QED
      BY <2>1 DEF Does, Call
  <1>10. GoesOn(D, ts, "statements", RBrace, p[9], p[10])
    <2>1. Does(D, ts, Call("block"), p[9], p[10])
      BY DEF Along, NameItem
    <2> QED
      BY <2>1 DEF Does, Call
  <1>11. /\ p[11][1] = <<p[10][1][1][1][1][1],
                FunctionAST(p[10][1][1][1][1][2], p[10][1][1][1][2],
                p[10][1][1][2], p[10][1][2])>>
        /\ p[11][2] = p[10][2]
    <2>1. Does(D, ts, Build("function"), p[10], p[11])
      BY DEF Along, NameItem
    <2> QED
      BY <2>1, MakesFunctionNode
  <1> DEFINE node == FunctionAST(p[2][1][2], p[5][1][2], p[7][1][2],
                                 p[10][1][2])
  <1>12. /\ p[2][1][1] = s[1] /\ Is(ts, s[2], "func")
         /\ <<"name", p[2][1][2], s[2] + 1, p[2][2]>> \in D
    BY <1>1, <1>2
  <1>13. Is(ts, p[2][2], "(") /\ p[3][2] = p[2][2] + 1 /\ p[3][1] = p[2][1]
    BY <1>3
  <1>14. p[4][1][1] = p[2][1] /\ p[4][1][2] = <<>> /\ p[4][2] = p[2][2] + 1
    BY <1>4, <1>13
  <1>15. p[5][1][1] = p[2][1]
    BY <1>5, <1>14 DEF Begins
  <1>16. PICK j : /\ \/ <<"parameters", p[5][1][2], p[2][2] + 1, j>> \in D
                     \/ p[5][1][2] = <<>> /\ j = p[2][2] + 1
                  /\ Is(ts, j, ")") /\ p[5][2] = j + 1
    BY <1>5, <1>14 DEF Begins
  <1>17. /\ Is(ts, j + 1, "->") /\ p[6][2] = j + 2 /\ p[6][1] = p[5][1]
    <2>1. j \in Int
      BY <1>16, IsInteger
    <2> QED
      BY <1>6, <1>16, <2>1
  <1>18. p[7][1][1] = p[5][1] /\ <<"type", p[7][1][2], j + 2, p[7][2]>> \in D
    BY <1>7, <1>17
  <1>19. p[8][1] = p[7][1] /\ Is(ts, p[7][2], LBrace) /\ p[8][2] = p[7][2] + 1
    BY <1>8
  <1>20. /\ p[10][1][1] = p[8][1]
         /\ <<"block", p[10][1][2], p[7][2], p[10][2]>> \in D
    BY <1>9, <1>10, <1>19, BlockFact
  <1>21. p[11][1][1] = s[1] /\ p[11][1][2] = node
    BY <1>11, <1>12, <1>15, <1>18, <1>19, <1>20
  <1>22. <<"function", node, s[2], p[10][2]>> \in D
    BY <1>12, <1>13, <1>16, <1>17, <1>18, <1>20
       DEF Closed, FunctionRules, FunctionRule
  <1>23. <<"function", p[11][1][2], s[2], p[11][2]>> \in D
    BY <1>11, <1>21, <1>22
  <1>24. Leaves(D, "function", s, p[11])
    BY <1>21, <1>23 DEF Leaves
  <1> QED
    BY <1>24 DEF Does, Call

---------------------------------------------------------------------------
(* The operands of a vector or matrix statement are parsed as the grammar  *)
(* has them.                                                               *)
Fits(kernel, k) ==
  /\ kernel.class = FieldsOf(k)
  /\ Len(kernel.operands) = Len(FieldsOf(k))
  /\ Len(FieldsOf(k)) \in Nat \ {0}
  /\ \A n \in 1 .. Len(FieldsOf(k)) :
       \/ kernel.operands[n] = "n" /\ Operand(k, n) = "name"
       \/ kernel.operands[n] = "e" /\ Operand(k, n) = "expression"
       \/ kernel.operands[n] = "0" /\ Operand(k, n) = "absent"

LEMMA KernelFits ==
  ASSUME NEW k \in KernelKeywords
  PROVE  Fits(parseKernel(k), k)
  <1>1. CASE k = "matrix_pack_b"
    <2>1. FieldsOf(k) = MatrixPackBStmtAST
      BY <1>1, Zenon
         DEF FieldsOf, Selects, Masks, MaskLogicals, MaskedBinaries,
            MatrixMultiplies, VectorAdds
    <2>2. parseKernel(k) = parseMatrixPackBStatement
      BY <1>1, Zenon
         DEF parseKernel, Selects, Masks, MaskLogicals, MaskedBinaries,
            MatrixMultiplies, VectorAdds
    <2> QED
      BY <1>1, <2>1, <2>2
         DEF Fits, Operand, IsExpression, Kernel, parseMatrixPackBStatement,
             MatrixPackBStmtAST
  <1>2. CASE k \in MatrixMultiplies
    <2>1. FieldsOf(k) = MatrixMultiplyStmtAST
      BY <1>2, Zenon
         DEF FieldsOf, Selects, Masks, MaskLogicals, MaskedBinaries,
            MatrixMultiplies, VectorAdds
    <2>2. parseKernel(k) = parseMatrixMultiplyStatement
      BY <1>2, Zenon
         DEF parseKernel, Selects, Masks, MaskLogicals, MaskedBinaries,
            MatrixMultiplies, VectorAdds
    <2> QED
      BY <1>2, <2>1, <2>2
         DEF Fits, Operand, IsExpression, Kernel, parseMatrixMultiplyStatement,
             MatrixMultiplyStmtAST, MatrixMultiplies
  <1>3. CASE k \in VectorAdds
    <2>1. FieldsOf(k) = VectorAddStmtAST
      BY <1>3, Zenon
         DEF FieldsOf, Selects, Masks, MaskLogicals, MaskedBinaries,
            MatrixMultiplies, VectorAdds
    <2>2. parseKernel(k) = parseVectorAddStatement
      BY <1>3, Zenon
         DEF parseKernel, Selects, Masks, MaskLogicals, MaskedBinaries,
            MatrixMultiplies, VectorAdds
    <2> QED
      BY <1>3, <2>1, <2>2
         DEF Fits, Operand, IsExpression, Kernel, parseVectorAddStatement,
             VectorAddStmtAST, VectorAdds
  <1>4. CASE k = "vector_strided_load"
    <2>1. FieldsOf(k) = VectorStridedLoadStmtAST
      BY <1>4, Zenon
         DEF FieldsOf, Selects, Masks, MaskLogicals, MaskedBinaries,
            MatrixMultiplies, VectorAdds
    <2>2. parseKernel(k) = parseVectorStridedLoadStatement
      BY <1>4, Zenon
         DEF parseKernel, Selects, Masks, MaskLogicals, MaskedBinaries,
            MatrixMultiplies, VectorAdds
    <2> QED
      BY <1>4, <2>1, <2>2
         DEF Fits, Operand, IsExpression, Kernel,
             parseVectorStridedLoadStatement,
             VectorStridedLoadStmtAST
  <1>5. CASE k = "vector_indexed_load"
    <2>1. FieldsOf(k) = VectorIndexedLoadStmtAST
      BY <1>5, Zenon
         DEF FieldsOf, Selects, Masks, MaskLogicals, MaskedBinaries,
            MatrixMultiplies, VectorAdds
    <2>2. parseKernel(k) = parseVectorIndexedLoadStatement
      BY <1>5, Zenon
         DEF parseKernel, Selects, Masks, MaskLogicals, MaskedBinaries,
            MatrixMultiplies, VectorAdds
    <2> QED
      BY <1>5, <2>1, <2>2
         DEF Fits, Operand, IsExpression, Kernel,
             parseVectorIndexedLoadStatement,
             VectorIndexedLoadStmtAST
  <1>6. CASE k = "vector_strided_store"
    <2>1. FieldsOf(k) = VectorStridedStoreStmtAST
      BY <1>6, Zenon
         DEF FieldsOf, Selects, Masks, MaskLogicals, MaskedBinaries,
            MatrixMultiplies, VectorAdds
    <2>2. parseKernel(k) = parseVectorStridedStoreStatement
      BY <1>6, Zenon
         DEF parseKernel, Selects, Masks, MaskLogicals, MaskedBinaries,
            MatrixMultiplies, VectorAdds
    <2> QED
      BY <1>6, <2>1, <2>2
         DEF Fits, Operand, IsExpression, Kernel,
             parseVectorStridedStoreStatement,
             VectorStridedStoreStmtAST
  <1>7. CASE k = "vector_indexed_store"
    <2>1. FieldsOf(k) = VectorIndexedStoreStmtAST
      BY <1>7, Zenon
         DEF FieldsOf, Selects, Masks, MaskLogicals, MaskedBinaries,
            MatrixMultiplies, VectorAdds
    <2>2. parseKernel(k) = parseVectorIndexedStoreStatement
      BY <1>7, Zenon
         DEF parseKernel, Selects, Masks, MaskLogicals, MaskedBinaries,
            MatrixMultiplies, VectorAdds
    <2> QED
      BY <1>7, <2>1, <2>2
         DEF Fits, Operand, IsExpression, Kernel,
             parseVectorIndexedStoreStatement,
             VectorIndexedStoreStmtAST
  <1>8. CASE k = "vector_copy"
    <2>1. FieldsOf(k) = VectorCopyStmtAST
      BY <1>8, Zenon
         DEF FieldsOf, Selects, Masks, MaskLogicals, MaskedBinaries,
            MatrixMultiplies, VectorAdds
    <2>2. parseKernel(k) = parseVectorCopyStatement
      BY <1>8, Zenon
         DEF parseKernel, Selects, Masks, MaskLogicals, MaskedBinaries,
            MatrixMultiplies, VectorAdds
    <2> QED
      BY <1>8, <2>1, <2>2
         DEF Fits, Operand, IsExpression, Kernel, parseVectorCopyStatement,
             VectorCopyStmtAST
  <1>9. CASE k = "vector_scale"
    <2>1. FieldsOf(k) = VectorScaleStmtAST
      BY <1>9, Zenon
         DEF FieldsOf, Selects, Masks, MaskLogicals, MaskedBinaries,
            MatrixMultiplies, VectorAdds
    <2>2. parseKernel(k) = parseVectorScaleStatement
      BY <1>9, Zenon
         DEF parseKernel, Selects, Masks, MaskLogicals, MaskedBinaries,
            MatrixMultiplies, VectorAdds
    <2> QED
      BY <1>9, <2>1, <2>2
         DEF Fits, Operand, IsExpression, Kernel, parseVectorScaleStatement,
             VectorScaleStmtAST
  <1>10. CASE k = "vector_mul"
    <2>1. FieldsOf(k) = VectorMulStmtAST
      BY <1>10, Zenon
         DEF FieldsOf, Selects, Masks, MaskLogicals, MaskedBinaries,
            MatrixMultiplies, VectorAdds
    <2>2. parseKernel(k) = parseVectorMulStatement
      BY <1>10, Zenon
         DEF parseKernel, Selects, Masks, MaskLogicals, MaskedBinaries,
            MatrixMultiplies, VectorAdds
    <2> QED
      BY <1>10, <2>1, <2>2
         DEF Fits, Operand, IsExpression, Kernel, parseVectorMulStatement,
             VectorMulStmtAST
  <1>11. CASE k = "vector_widen_add_i16_i32"
    <2>1. FieldsOf(k) = VectorWidenAddStmtAST
      BY <1>11, Zenon
         DEF FieldsOf, Selects, Masks, MaskLogicals, MaskedBinaries,
            MatrixMultiplies, VectorAdds
    <2>2. parseKernel(k) = parseVectorWidenAddI16I32Statement
      BY <1>11, Zenon
         DEF parseKernel, Selects, Masks, MaskLogicals, MaskedBinaries,
            MatrixMultiplies, VectorAdds
    <2> QED
      BY <1>11, <2>1, <2>2
         DEF Fits, Operand, IsExpression, Kernel,
             parseVectorWidenAddI16I32Statement,
             VectorWidenAddStmtAST
  <1>12. CASE k = "vector_reduce_add"
    <2>1. FieldsOf(k) = VectorReduceAddStmtAST
      BY <1>12, Zenon
         DEF FieldsOf, Selects, Masks, MaskLogicals, MaskedBinaries,
            MatrixMultiplies, VectorAdds
    <2>2. parseKernel(k) = parseVectorReduceAddStatement
      BY <1>12, Zenon
         DEF parseKernel, Selects, Masks, MaskLogicals, MaskedBinaries,
            MatrixMultiplies, VectorAdds
    <2> QED
      BY <1>12, <2>1, <2>2
         DEF Fits, Operand, IsExpression, Kernel,
             parseVectorReduceAddStatement,
             VectorReduceAddStmtAST
  <1>13. CASE k \in Selects
    <2>1. FieldsOf(k) = VectorSelectStmtAST
      BY <1>13, Zenon
         DEF FieldsOf, Selects, Masks, MaskLogicals, MaskedBinaries,
            MatrixMultiplies, VectorAdds
    <2>2. parseKernel(k) = parseVectorSelectStatement
      BY <1>13, Zenon
         DEF parseKernel, Selects, Masks, MaskLogicals, MaskedBinaries,
            MatrixMultiplies, VectorAdds
    <2> QED
      BY <1>13, <2>1, <2>2
         DEF Fits, Operand, IsExpression, Kernel, parseVectorSelectStatement,
             VectorSelectStmtAST, Selects
  <1>14. CASE k \in Masks
    <2>1. FieldsOf(k) = VectorMaskStmtAST
      BY <1>14, Zenon
         DEF FieldsOf, Selects, Masks, MaskLogicals, MaskedBinaries,
            MatrixMultiplies, VectorAdds
    <2>2. parseKernel(k) = parseVectorMaskStatement
      BY <1>14, Zenon
         DEF parseKernel, Selects, Masks, MaskLogicals, MaskedBinaries,
            MatrixMultiplies, VectorAdds
    <2> QED
      BY <1>14, <2>1, <2>2
         DEF Fits, Operand, IsExpression, Kernel, parseVectorMaskStatement,
             VectorMaskStmtAST, Masks
  <1>15. CASE k \in MaskLogicals
    <2>1. FieldsOf(k) = VectorMaskLogicalStmtAST
      BY <1>15, Zenon
         DEF FieldsOf, Selects, Masks, MaskLogicals, MaskedBinaries,
            MatrixMultiplies, VectorAdds
    <2>2. parseKernel(k) = parseVectorMaskLogicalStatement(k)
      BY <1>15, Zenon
         DEF parseKernel, Selects, Masks, MaskLogicals, MaskedBinaries,
            MatrixMultiplies, VectorAdds
    <2> QED
      BY <1>15, <2>1, <2>2
         DEF Fits, Operand, IsExpression, Kernel,
             parseVectorMaskLogicalStatement,
             VectorMaskLogicalStmtAST, MaskLogicals
  <1>16. CASE k = "vector_mask_not"
    <2>1. FieldsOf(k) = VectorMaskLogicalStmtAST
      BY <1>16, Zenon
         DEF FieldsOf, Selects, Masks, MaskLogicals, MaskedBinaries,
            MatrixMultiplies, VectorAdds
    <2>2. parseKernel(k) = parseVectorMaskLogicalStatement(k)
      BY <1>16, Zenon
         DEF parseKernel, Selects, Masks, MaskLogicals, MaskedBinaries,
            MatrixMultiplies, VectorAdds
    <2> QED
      BY <1>16, <2>1, <2>2
         DEF Fits, Operand, IsExpression, Kernel,
             parseVectorMaskLogicalStatement,
             VectorMaskLogicalStmtAST
  <1>17. CASE k \in MaskedBinaries
    <2>1. FieldsOf(k) = VectorMaskedBinaryStmtAST
      BY <1>17, Zenon
         DEF FieldsOf, Selects, Masks, MaskLogicals, MaskedBinaries,
            MatrixMultiplies, VectorAdds
    <2>2. parseKernel(k) = parseVectorMaskedBinaryStatement
      BY <1>17, Zenon
         DEF parseKernel, Selects, Masks, MaskLogicals, MaskedBinaries,
            MatrixMultiplies, VectorAdds
    <2> QED
      BY <1>17, <2>1, <2>2
         DEF Fits, Operand, IsExpression, Kernel,
             parseVectorMaskedBinaryStatement,
             VectorMaskedBinaryStmtAST, MaskedBinaries
  <1>18. CASE k = "vector_masked_store"
    <2>1. FieldsOf(k) = VectorMaskedStoreStmtAST
      BY <1>18, Zenon
         DEF FieldsOf, Selects, Masks, MaskLogicals, MaskedBinaries,
            MatrixMultiplies, VectorAdds
    <2>2. parseKernel(k) = parseVectorMaskedStoreStatement
      BY <1>18, Zenon
         DEF parseKernel, Selects, Masks, MaskLogicals, MaskedBinaries,
            MatrixMultiplies, VectorAdds
    <2> QED
      BY <1>18, <2>1, <2>2
         DEF Fits, Operand, IsExpression, Kernel,
             parseVectorMaskedStoreStatement,
             VectorMaskedStoreStmtAST
  <1>19. CASE k = "vector_masked_load"
    <2>1. FieldsOf(k) = VectorMaskedLoadStmtAST
      BY <1>19, Zenon
         DEF FieldsOf, Selects, Masks, MaskLogicals, MaskedBinaries,
            MatrixMultiplies, VectorAdds
    <2>2. parseKernel(k) = parseVectorMaskedLoadStatement
      BY <1>19, Zenon
         DEF parseKernel, Selects, Masks, MaskLogicals, MaskedBinaries,
            MatrixMultiplies, VectorAdds
    <2> QED
      BY <1>19, <2>1, <2>2
         DEF Fits, Operand, IsExpression, Kernel,
             parseVectorMaskedLoadStatement,
             VectorMaskedLoadStmtAST
  <1>20. CASE k = "vector_masked_strided_load"
    <2>1. FieldsOf(k) = VectorMaskedStridedLoadStmtAST
      BY <1>20, Zenon
         DEF FieldsOf, Selects, Masks, MaskLogicals, MaskedBinaries,
            MatrixMultiplies, VectorAdds
    <2>2. parseKernel(k) = parseVectorMaskedStridedLoadStatement
      BY <1>20, Zenon
         DEF parseKernel, Selects, Masks, MaskLogicals, MaskedBinaries,
            MatrixMultiplies, VectorAdds
    <2> QED
      BY <1>20, <2>1, <2>2
         DEF Fits, Operand, IsExpression, Kernel,
             parseVectorMaskedStridedLoadStatement,
             VectorMaskedStridedLoadStmtAST
  <1>21. CASE k = "vector_masked_indexed_load"
    <2>1. FieldsOf(k) = VectorMaskedIndexedLoadStmtAST
      BY <1>21, Zenon
         DEF FieldsOf, Selects, Masks, MaskLogicals, MaskedBinaries,
            MatrixMultiplies, VectorAdds
    <2>2. parseKernel(k) = parseVectorMaskedIndexedLoadStatement
      BY <1>21, Zenon
         DEF parseKernel, Selects, Masks, MaskLogicals, MaskedBinaries,
            MatrixMultiplies, VectorAdds
    <2> QED
      BY <1>21, <2>1, <2>2
         DEF Fits, Operand, IsExpression, Kernel,
             parseVectorMaskedIndexedLoadStatement,
             VectorMaskedIndexedLoadStmtAST
  <1>22. CASE k = "vector_masked_strided_store"
    <2>1. FieldsOf(k) = VectorMaskedStridedStoreStmtAST
      BY <1>22, Zenon
         DEF FieldsOf, Selects, Masks, MaskLogicals, MaskedBinaries,
            MatrixMultiplies, VectorAdds
    <2>2. parseKernel(k) = parseVectorMaskedStridedStoreStatement
      BY <1>22, Zenon
         DEF parseKernel, Selects, Masks, MaskLogicals, MaskedBinaries,
            MatrixMultiplies, VectorAdds
    <2> QED
      BY <1>22, <2>1, <2>2
         DEF Fits, Operand, IsExpression, Kernel,
             parseVectorMaskedStridedStoreStatement,
             VectorMaskedStridedStoreStmtAST
  <1>23. CASE k = "vector_masked_indexed_store"
    <2>1. FieldsOf(k) = VectorMaskedIndexedStoreStmtAST
      BY <1>23, Zenon
         DEF FieldsOf, Selects, Masks, MaskLogicals, MaskedBinaries,
            MatrixMultiplies, VectorAdds
    <2>2. parseKernel(k) = parseVectorMaskedIndexedStoreStatement
      BY <1>23, Zenon
         DEF parseKernel, Selects, Masks, MaskLogicals, MaskedBinaries,
            MatrixMultiplies, VectorAdds
    <2> QED
      BY <1>23, <2>1, <2>2
         DEF Fits, Operand, IsExpression, Kernel,
             parseVectorMaskedIndexedStoreStatement,
             VectorMaskedIndexedStoreStmtAST
  <1> QED
    BY <1>1, <1>2, <1>3, <1>4, <1>5, <1>6, <1>7, <1>8, <1>9, <1>10, <1>11,
       <1>12, <1>13, <1>14, <1>15, <1>16, <1>17, <1>18, <1>19, <1>20, <1>21,
       <1>22, <1>23
       DEF KernelKeywords

LEMMA ItemOf ==
  ASSUME NEW o
  PROVE  /\ o = "n" => Item(o) = Call("name")
         /\ o = "e" => Item(o) = ExpressionItem
         /\ o = "0" => Item(o) = Call("none")
  BY Zenon DEF Item, NameItem

(* What is between the operands n and n + 1.                               *)
Gap(ts, k, n, i, j) ==
  IF Operand(k, n + 1) = "absent" THEN j = i ELSE Separates(ts, n, i, j)

(* One more operand.                                                       *)
LEMMA OneOperand ==
  ASSUME NEW ts, NEW D, Closed(D, ts), NEW k \in KernelKeywords,
         NEW n \in 0 .. Len(FieldsOf(k)) - 1, NEW m, m = n + 1,
         NEW a, NEW b, NEW c, NEW e,
         b[1] = a[1], Gap(ts, k, n, a[2], b[2]),
         Does(D, ts, Item(parseKernel(k).operands[m]), b, c),
         Does(D, ts, Call("append"), c, e)
  PROVE  /\ e[1][1] = a[1][1]
         /\ \A i : <<Operands(k, n), a[1][2], i, a[2]>> \in D =>
                     <<Operands(k, m), e[1][2], i, e[2]>> \in D
  <1> DEFINE o == parseKernel(k).operands[n + 1]
  <1>1. \/ o = "n" /\ Operand(k, n + 1) = "name"
        \/ o = "e" /\ Operand(k, n + 1) = "expression"
        \/ o = "0" /\ Operand(k, n + 1) = "absent"
    BY KernelFits DEF Fits
  <1>2. /\ e[1][1] = c[1][1][1] /\ e[1][2] = Append(c[1][1][2], c[1][2])
        /\ e[2] = c[2]
    BY DEF Does, Call
  <1>3. /\ c[1][1] = b[1]
        /\ \/ Operand(k, n + 1) = "name" /\ <<"name", c[1][2], b[2],
                                              c[2]>> \in D
           \/ /\ Operand(k, n + 1) = "expression"
              /\ <<Expression(1), c[1][2], b[2], c[2]>> \in D
           \/ Operand(k, n + 1) = "absent" /\ c[1][2] = NoName /\ c[2] = b[2]
    <2>1. CASE o = "n"
      <3>1. Does(D, ts, Call("name"), b, c) /\ Operand(k, n + 1) = "name"
        BY <1>1, <2>1, ItemOf
      <3> QED
        BY <3>1 DEF Does, Call, Leaves
    <2>2. CASE o = "e"
      <3>1. /\ Does(D, ts, Call("expression"), b, c)
            /\ Operand(k, n + 1) = "expression"
        BY <1>1, <2>2, ItemOf DEF ExpressionItem
      <3> QED
        BY <3>1 DEF Does, Call, Leaves
    <2>3. CASE o = "0"
      <3>1. Does(D, ts, Call("none"), b, c) /\ Operand(k, n + 1) = "absent"
        BY <1>1, <2>3, ItemOf
      <3> QED
        BY <3>1 DEF Does, Call
    <2> QED
      BY <1>1, <2>1, <2>2, <2>3
  <1>4. ASSUME NEW i, <<Operands(k, n), a[1][2], i, a[2]>> \in D
        PROVE  <<Operands(k, n + 1), Append(a[1][2], c[1][2]), i, c[2]>> \in D
    <2>1. NextOperand(D, ts)
      BY DEF Closed, StatementRules
    <2>2. \A ops, x, u, j, h, g :
            /\ <<Operands(k, n), ops, u, j>> \in D
            /\ \/ /\ Operand(k, n + 1) = "absent" /\ x = NoName /\ g = j
               \/ /\ Operand(k, n + 1) = "name" /\ Separates(ts, n, j, h)
                  /\ <<"name", x, h, g>> \in D
               \/ /\ Operand(k, n + 1) = "expression" /\ Separates(ts, n, j, h)
                  /\ <<Expression(1), x, h, g>> \in D
            => <<Operands(k, n + 1), Append(ops, x), u, g>> \in D
      BY <2>1 DEF NextOperand
    <2>3. IF Operand(k, n + 1) = "absent" THEN b[2] = a[2]
                                         ELSE Separates(ts, n, a[2], b[2])
      BY DEF Gap
    <2> QED
      BY <1>3, <1>4, <2>2, <2>3
  <1> QED
    BY <1>2, <1>3, <1>4

LEMMA ProducesOperands ==
  ASSUME NEW ts, NEW s, NEW k \in KernelKeywords,
         NEW n \in 1 .. Len(FieldsOf(k)), NEW comma, NEW more,
         LET ops == parseKernel(k).operands
         IN  /\ comma = IF n = 1 \/ ops[n] = "0" THEN <<>>
                                                ELSE <<Expect(Comma)>>
             /\ more = IF n = Len(ops) THEN <<>>
                                       ELSE <<OperandsFrom(k, n + 1)>>
  PROVE  Produces(ts, OperandsFrom(k, n), s,
                  comma \o <<Item(parseKernel(k).operands[n]), Call("append")>>
                    \o more,
                  <<s[1], s[2]>>)
  <1> DEFINE o == parseKernel(k).operands[n]
             items == comma \o <<Item(o), Call("append")>> \o more
             m == Len(comma)
  <1> SUFFICES ASSUME NEW D, Closed(D, ts), NEW p,
                      p[0][1] = s[1], p[0][2] = s[2], Along(D, ts, items, p)
               PROVE  Does(D, ts, OperandsFrom(k, n), s, p[Len(items)])
    BY DEF Produces
  <1>1. /\ Len(parseKernel(k).operands) = Len(FieldsOf(k))
        /\ Len(FieldsOf(k)) \in Nat
        /\ o = "0" <=> Operand(k, n) = "absent"
    BY KernelFits DEF Fits
  <1>2. /\ m \in {0, 1} /\ Len(items) \in {m + 2, m + 3}
        /\ items[m + 1] = Item(o) /\ items[m + 2] = Call("append")
        /\ m + 1 \in 1 .. Len(items) /\ m + 2 \in 1 .. Len(items)
        /\ m = 0 <=> n = 1 \/ o = "0"
        /\ m = 1 => items[1] = Expect(Comma)
        /\ Len(items) = m + 2 <=> n = Len(FieldsOf(k))
        /\ n # Len(FieldsOf(k)) => items[m + 3] = OperandsFrom(k, n + 1)
    BY <1>1
  <1> HIDE DEF m, items
  <1>3. /\ Does(D, ts, Item(o), p[m], p[m + 1])
        /\ Does(D, ts, Call("append"), p[m + 1], p[m + 2])
    <2>1. (m + 1) - 1 = m /\ (m + 2) - 1 = m + 1
      BY <1>2
    <2> QED
      BY <1>2, <2>1 DEF Along
  <1>4. PICK q \in 0 .. Len(FieldsOf(k)) - 1 : q = n - 1 /\ q + 1 = n
    BY <1>1
  <1>5. p[m][1] = s[1] /\ Gap(ts, k, q, s[2], p[m][2])
    <2>1. CASE m = 0
      BY <1>1, <1>2, <1>4, <2>1 DEF Separates, Gap
    <2>2. CASE m = 1
      <3>1. Does(D, ts, Expect(Comma), p[0], p[1])
        <4>1. 1 \in 1 .. Len(items) /\ 1 - 1 = 0 /\ items[1] = Expect(Comma)
          BY <1>2, <2>2
        <4> QED
          BY <4>1 DEF Along
      <3>2. /\ p[1][1] = p[0][1]
            /\ Is(ts, p[0][2], Comma)
            /\ p[1][2] = p[0][2] + 1
        BY <3>1 DEF Does, Expect
      <3> QED
        BY <1>1, <1>2, <1>4, <2>2, <3>2 DEF Separates, Gap
    <2> QED
      BY <1>2, <2>1, <2>2
  <1>6. /\ p[m + 2][1][1] = s[1][1]
        /\ \A i : <<Operands(k, n - 1), s[1][2], i, s[2]>> \in D =>
                    <<Operands(k, n), p[m + 2][1][2], i, p[m + 2][2]>> \in D
    <2>1. /\ p[m + 2][1][1] = s[1][1]
          /\ \A i : <<Operands(k, q), s[1][2], i, s[2]>> \in D =>
                      <<Operands(k, n), p[m + 2][1][2], i, p[m + 2][2]>> \in D
      <3>1. /\ k \in KernelKeywords /\ n = q + 1
            /\ q \in 0 .. Len(FieldsOf(k)) - 1
        BY <1>4
      <3>2. Closed(D, ts) /\ p[m][1] = s[1] /\ Gap(ts, k, q, s[2], p[m][2])
        BY <1>5
      <3>3. /\ Does(D, ts, Item(parseKernel(k).operands[n]), p[m], p[m + 1])
            /\ Does(D, ts, Call("append"), p[m + 1], p[m + 2])
        BY <1>3
      <3> QED
        BY <3>1, <3>2, <3>3, OneOperand
    <2> QED
      BY <1>4, <2>1
  <1>7. DoesOperands(D, k, n, s, p[Len(items)])
    <2>1. CASE n = Len(FieldsOf(k))
      BY <1>2, <1>6, <2>1 DEF DoesOperands
    <2>2. CASE n # Len(FieldsOf(k))
      <3>1. /\ Len(items) = m + 3 /\ m + 3 \in 1 .. Len(items)
            /\ (m + 3) - 1 = m + 2 /\ items[m + 3] = OperandsFrom(k, n + 1)
            /\ n + 1 \in 1 .. Len(FieldsOf(k)) /\ (n + 1) - 1 = n
        BY <1>1, <1>2, <2>2
      <3>2. Does(D, ts, OperandsFrom(k, n + 1), p[m + 2], p[m + 3])
        BY <3>1 DEF Along
      <3>3. DoesOperands(D, k, n + 1, p[m + 2], p[m + 3])
        BY <3>2 DEF Does, OperandsFrom
      <3>4. /\ p[m + 3][1][1] = s[1][1]
            /\ \A i : <<Operands(k, n), p[m + 2][1][2], i,
                        p[m + 2][2]>> \in D =>
                 <<Operands(k, Len(FieldsOf(k))), p[m + 3][1][2], i,
                   p[m + 3][2]>> \in D
        BY <1>6, <3>1, <3>3 DEF DoesOperands
      <3> QED
        BY <1>6, <3>1, <3>4 DEF DoesOperands
    <2> QED
      BY <2>1, <2>2
  <1> QED
    BY <1>7 DEF Does, OperandsFrom

LEMMA ProducesKernel ==
  ASSUME NEW ts, Ended(ts), NEW s, NEW k \in KernelKeywords,
         Is(ts, s[2], k), s[2] + 1 \in DOMAIN ts
  PROVE  Produces(ts, Call("statement"), s, << Call("list"),
                                               OperandsFrom(k, 1),
                                               Expect(Semicolon),
                              Build("kernel") >>,
                  <<<<s[1], k>>, s[2] + 1>>)
  <1> SUFFICES ASSUME NEW D, Closed(D, ts), NEW p,
                      p[0][1] = <<s[1], k>>, p[0][2] = s[2] + 1,
                      Along(D, ts, << Call("list"), OperandsFrom(k, 1),
                                      Expect(Semicolon),
                              Build("kernel") >>, p)
               PROVE  Does(D, ts, Call("statement"), s, p[4])
    BY DEF Produces
  <1>1. p[1][1] = <<p[0][1], <<>>>> /\ p[1][2] = p[0][2]
    <2>1. Does(D, ts, Call("list"), p[0], p[1])
      BY DEF Along
    <2> QED
      BY <2>1 DEF Does, Call
  <1>2. DoesOperands(D, k, 1, p[1], p[2])
    <2>1. Does(D, ts, OperandsFrom(k, 1), p[1], p[2])
      BY DEF Along
    <2> QED
      BY <2>1 DEF Does, OperandsFrom
  <1>3. /\ p[3][1] = p[2][1] /\ Is(ts, p[2][2], Semicolon)
        /\ p[3][2] = p[2][2] + 1
    <2>1. Does(D, ts, Expect(Semicolon), p[2], p[3])
      BY DEF Along
    <2> QED
      BY <2>1 DEF Does, Expect
  <1>4. /\ p[4][1] = <<p[3][1][1][1],
                Statement(p[3][1][1][2], parseKernel(p[3][1][1][2]).class,
                p[3][1][2])>>
        /\ p[4][2] = p[3][2]
    <2>1. Does(D, ts, Build("kernel"), p[3], p[4])
      BY DEF Along
    <2> QED
      BY <2>1, MakesKernel
  <1>5. Len(FieldsOf(k)) \in Nat \ {0} /\ parseKernel(k).class = FieldsOf(k)
    BY KernelFits DEF Fits
  <1>6. /\ p[2][1][1] = <<s[1], k>>
        /\ <<Operands(k, Len(FieldsOf(k))), p[2][1][2], s[2] + 1,
             p[2][2]>> \in D
    <2>1. <<Operands(k, 0), <<>>, s[2] + 1, s[2] + 1>> \in D
      BY DEF Closed, StatementRules, NoOperand
    <2>2. 1 \in 1 .. Len(FieldsOf(k)) /\ 1 - 1 = 0
      BY <1>5
    <2> QED
      BY <1>1, <1>2, <2>1, <2>2 DEF DoesOperands
  <1>7. <<"statement", Statement(k, FieldsOf(k), p[2][1][2]), s[2],
          p[2][2] + 1>>
          \in D
    BY <1>3, <1>6 DEF Closed, StatementRules, KernelRule
  <1>8. /\ p[4][1][1] = s[1] /\ p[4][2] = p[2][2] + 1
        /\ p[4][1][2] = Statement(k, FieldsOf(k), p[2][1][2])
    BY <1>3, <1>4, <1>5, <1>6
  <1> QED
    BY <1>7, <1>8 DEF Does, Call, Leaves

---------------------------------------------------------------------------
(* Lists, and how a promise is kept when an item gives way to its body.    *)
Listing(a) == \E S : a \in Seq(S)

LEMMA JoinLists ==
  ASSUME NEW a, NEW b, Listing(a), Listing(b)
  PROVE  /\ Listing(a \o b) /\ Len(a) \in Nat /\ Len(b) \in Nat
         /\ Len(a \o b) = Len(a) + Len(b)
         /\ DOMAIN a = 1 .. Len(a) /\ DOMAIN b = 1 .. Len(b)
         /\ DOMAIN (a \o b) = 1 .. Len(a \o b)
         /\ \A i \in 1 .. Len(a) : (a \o b)[i] = a[i]
         /\ \A i \in 1 .. Len(b) : (a \o b)[Len(a) + i] = b[i]
  <1>1. PICK S, T : a \in Seq(S) /\ b \in Seq(T)
    BY DEF Listing
  <1>2. PICK U : U = S \cup T
    OBVIOUS
  <1>3. a \in Seq(U) /\ b \in Seq(U)
    BY <1>1, <1>2, SeqMonotonic
  <1>4. /\ a \o b \in Seq(U) /\ Len(a \o b) = Len(a) + Len(b)
        /\ \A i \in 1 .. Len(a) + Len(b) :
             (a \o b)[i] = IF i <= Len(a) THEN a[i] ELSE b[i - Len(a)]
    BY <1>3, ConcatProperties
  <1>5. Len(a) \in Nat /\ Len(b) \in Nat
    BY <1>3, LenProperties
  <1> QED
    BY <1>3, <1>4, <1>5 DEF Listing

LEMMA TailOfList ==
  ASSUME NEW a, Listing(a), a # <<>>
  PROVE  /\ Listing(Tail(a)) /\ Len(a) \in Nat \ {0} /\ Head(a) = a[1]
         /\ Len(Tail(a)) = Len(a) - 1
         /\ \A i \in 1 .. Len(a) - 1 : Tail(a)[i] = a[i + 1]
  <1>1. PICK S : a \in Seq(S)
    BY DEF Listing
  <1>2. /\ Tail(a) \in Seq(S) /\ Len(Tail(a)) = Len(a) - 1
        /\ \A i \in 1 .. Len(Tail(a)) : Tail(a)[i] = a[i + 1]
    BY <1>1, HeadTailProperties
  <1>3. Len(a) \in Nat \ {0} /\ Head(a) = a[1]
    BY <1>1, EmptySeq
  <1> QED
    BY <1>2, <1>3 DEF Listing

LEMMA KeepPromise ==
  ASSUME NEW ts, NEW a, Listing(a), a # <<>>, NEW items, Listing(items),
         NEW s, NEW s1, Produces(ts, Head(a), s, items, s1), Promise(ts, a, s)
  PROVE  Promise(ts, items \o Tail(a), s1)
  <1> DEFINE new == items \o Tail(a)
             m == Len(items)
             n == Len(a)
  <1> SUFFICES ASSUME NEW D, Closed(D, ts), NEW p, p[0] = s1,
                      Along(D, ts, new, p)
               PROVE  LET end == p[Len(new)]
                      IN  /\ <<"functions", end[1][2], 1, end[2]>> \in D
                          /\ Is(ts, end[2], "eof")
    BY DEF Promise
  <1>1. /\ Listing(Tail(a)) /\ n \in Nat \ {0} /\ Head(a) = a[1]
        /\ Len(Tail(a)) = n - 1
        /\ \A i \in 1 .. n - 1 : Tail(a)[i] = a[i + 1]
    BY TailOfList
  <1>2. /\ m \in Nat /\ Len(new) = m + (n - 1)
        /\ \A i \in 1 .. m : new[i] = items[i]
        /\ \A i \in 1 .. n - 1 : new[m + i] = Tail(a)[i]
    BY <1>1, JoinLists
  <1> DEFINE q == [i \in 0 .. n |-> IF i = 0 THEN s ELSE p[(i - 1) + m]]
  <1> HIDE DEF new, m, n
  <1>3. Along(D, ts, items, p)
    BY <1>1, <1>2 DEF Along, m
  <1>4. Does(D, ts, Head(a), s, p[m])
    BY <1>3 DEF Produces, m
  <1>5. Along(D, ts, a, q)
    <2> SUFFICES ASSUME NEW i \in 1 .. n
                 PROVE  Does(D, ts, a[i], q[i - 1], q[i])
      BY DEF Along, n
    <2>1. CASE i = 1
      BY <1>1, <1>2, <1>4, <2>1
    <2>2. CASE i # 1
      <3>1. /\ i - 1 \in 1 .. n - 1 /\ m + (i - 1) \in 1 .. Len(new)
            /\ (i - 1) + 1 = i
        BY <1>1, <1>2, <2>2
      <3>2. Does(D, ts, new[m + (i - 1)], p[(m + (i - 1)) - 1], p[m + (i - 1)])
        BY <3>1 DEF Along
      <3>3. new[m + (i - 1)] = a[i]
        BY <1>1, <1>2, <3>1
      <3>4. q[i - 1] = p[(m + (i - 1)) - 1] /\ q[i] = p[m + (i - 1)]
        <4>1. /\ ((i - 1) - 1) + m = (m + (i - 1)) - 1
              /\ (i - 1) + m = m + (i - 1) /\ i - 1 # 0 /\ i # 0
              /\ i \in 0 .. n /\ i - 1 \in 0 .. n
          BY <1>1, <1>2, <2>2
        <4> QED
          BY <4>1
      <3> QED
        BY <3>2, <3>3, <3>4
    <2> QED
      BY <2>1, <2>2
  <1>6. q[0] = s /\ q[n] = p[Len(new)]
    <2>1. n \in 0 .. n /\ 0 \in 0 .. n /\ n # 0 /\ (n - 1) + m = Len(new)
      BY <1>1, <1>2
    <2> QED
      BY <2>1
  <1> QED
    BY <1>5, <1>6 DEF Promise, n

(* The promise at the beginning, and what is kept of it at the end.        *)
LEMMA FirstPromise ==
  ASSUME NEW ts, Ended(ts)
  PROVE  Promise(ts, <<Call("module")>>, <<<< <<>>, <<>> >>, 1>>)
  <1> SUFFICES ASSUME NEW D, Closed(D, ts), NEW p,
                      p[0] = <<<< <<>>, <<>> >>, 1>>,
                      Along(D, ts, <<Call("module")>>, p)
               PROVE  /\ <<"functions", p[1][1][2], 1, p[1][2]>> \in D
                      /\ Is(ts, p[1][2], "eof")
    BY DEF Promise
  <1>1. 1 \in DOMAIN ts
    BY DEF Ended
  <1>2. <<"functions", <<>>, 1, 1>> \in D
    BY <1>1 DEF Closed, FunctionRules, NoElement
  <1>3. Does(D, ts, Call("module"), p[0], p[1])
    BY AlongOne
  <1>4. DoesModule(D, ts, p[0], p[1])
    BY <1>3 DEF Does, Call
  <1>5. p[0][1][2] = <<>> /\ p[0][2] = 1
    OBVIOUS
  <1> QED
    BY <1>2, <1>4, <1>5 DEF DoesModule

LEMMA LastPromise ==
  ASSUME NEW ts, Ended(ts), NEW a, NEW s, Len(a) = 1, a[1][1] = "module",
         Promise(ts, a, s), Is(ts, s[2], "eof")
  PROVE  Means(ts, s[1][2])
  <1> SUFFICES ASSUME NEW D, Closed(D, ts)
               PROVE  <<"functions", s[1][2], 1, Len(ts)>> \in D
    BY DEF Means
  <1> DEFINE p == [i \in 0 .. 1 |-> s]
  <1>1. Does(D, ts, a[1], s, s)
    BY DEF Does, DoesModule
  <1>2. Along(D, ts, a, p)
    BY <1>1 DEF Along
  <1>3. <<"functions", s[1][2], 1, s[2]>> \in D
    BY <1>2 DEF Promise
  <1>4. s[2] = Len(ts)
    BY DEF Ended, Is
  <1> QED
    BY <1>3, <1>4

---------------------------------------------------------------------------
(* What an item does is told by its name and, for some, its argument.      *)
WithoutArgument ==
  { "name", "type", "statement", "function", "expression", "primary",
    "parameters", "parameters_", "arguments", "arguments_", "block",
    "pointee", "else", "module", "caller", "list", "none", "append" }

LEMMA SameItem ==
  ASSUME NEW ts, NEW item, NEW one, NEW s, NEW items, NEW s1,
         one[1] = item[1], item[1] \in WithoutArgument \/ one[2] = item[2],
         Produces(ts, one, s, items, s1)
  PROVE  Produces(ts, item, s, items, s1)
  <1>1. ASSUME NEW D, NEW t, Does(D, ts, one, s, t)
        PROVE  Does(D, ts, item, s, t)
    <2>1. CASE one[2] = item[2]
      BY <1>1, <2>1 DEF Does
    <2>2. CASE item[1] \in WithoutArgument
      BY <1>1, <2>2 DEF Does, WithoutArgument
    <2> QED
      BY <2>1, <2>2
  <1> QED
    BY <1>1 DEF Produces

LEMMA ProducesNothing ==
  ASSUME NEW ts, NEW item, NEW s, NEW s1, \A D : Does(D, ts, item, s, s1)
  PROVE  Produces(ts, item, s, <<>>, s1)
  BY DEF Produces

(* The arguments that items have; an agenda ends with the loop of          *)
(* parseModule, which is nowhere else.                                     *)
Proper(item) ==
  /\ item[1] = "expect" => item[2] # "eof"
  /\ item[1] = "rhs" => item[2] \in Precedences
  /\ item[1] = "climb" => item[2] \in {5, 10, 20}
  /\ item[1] = "operands" =>
       \E k \in KernelKeywords : \E n \in 1 .. Len(FieldsOf(k)) :
         item[2] = <<k, n>>

Shape(a) ==
  /\ Listing(a) /\ a # <<>>
  /\ \A i \in 1 .. Len(a) : /\ a[i][1] = "module" <=> i = Len(a)
                            /\ Proper(a[i])

Body(items) ==
  /\ Listing(items)
  /\ \A i \in 1 .. Len(items) : items[i][1] # "module" /\ Proper(items[i])

LEMMA KeepShape ==
  ASSUME NEW a, Shape(a), NEW items, Body(items), Head(a)[1] # "module"
  PROVE  Shape(items \o Tail(a))
  <1> DEFINE new == items \o Tail(a)
             m == Len(items)
             n == Len(a)
  <1>1. /\ Listing(Tail(a)) /\ n \in Nat \ {0} /\ Head(a) = a[1]
        /\ Len(Tail(a)) = n - 1
        /\ \A i \in 1 .. n - 1 : Tail(a)[i] = a[i + 1]
    BY TailOfList DEF Shape
  <1>2. /\ Listing(new) /\ m \in Nat /\ Len(new) = m + (n - 1)
        /\ \A i \in 1 .. m : new[i] = items[i]
        /\ \A i \in 1 .. n - 1 : new[m + i] = Tail(a)[i]
        /\ DOMAIN new = 1 .. Len(new)
    BY <1>1, JoinLists DEF Body
  <1> HIDE DEF new, m, n
  <1>3. n > 1
    <2>1. a[1][1] = "module" <=> 1 = Len(a)
      <3>1. 1 \in 1 .. Len(a) /\ a[1] = Head(a)
        BY <1>1 DEF n
      <3> QED
        BY <3>1, Zenon DEF Shape
    <2> QED
      BY <1>1, <2>1 DEF n
  <1>4. new # <<>>
    BY <1>1, <1>2, <1>3
  <1>5. ASSUME NEW i \in 1 .. Len(new)
        PROVE  (new[i][1] = "module" <=> i = Len(new)) /\ Proper(new[i])
    <2>1. CASE i <= m
      <3>1. i \in 1 .. m /\ new[i] = items[i] /\ i # Len(new)
        BY <1>1, <1>2, <1>3, <2>1
      <3> QED
        BY <3>1 DEF Body, m
    <2>2. CASE i > m
      <3>1. PICK j \in 1 .. n - 1 : j = i - m /\ m + j = i
        BY <1>1, <1>2, <2>2
      <3>2. /\ new[i] = a[j + 1] /\ j + 1 \in 1 .. n
            /\ j + 1 = n <=> i = Len(new)
        BY <1>1, <1>2, <3>1
      <3> QED
        BY <3>2 DEF Shape, n
    <2> QED
      BY <1>2, <2>1, <2>2
  <1> QED
    BY <1>2, <1>4, <1>5 DEF Shape, new

LEMMA AtModule ==
  ASSUME NEW a, Shape(a), Head(a)[1] = "module"
  PROVE  Len(a) = 1 /\ Tail(a) = <<>> /\ a[1][1] = "module"
  <1>1. /\ Listing(Tail(a)) /\ Len(a) \in Nat \ {0} /\ Head(a) = a[1]
        /\ Len(Tail(a)) = Len(a) - 1
    BY TailOfList DEF Shape
  <1>2. a[1][1] = "module" <=> 1 = Len(a)
    <2>1. 1 \in 1 .. Len(a)
      BY <1>1
    <2> QED
      BY <2>1, Zenon DEF Shape
  <1>3. Len(a) = 1 /\ Len(Tail(a)) = 0
    BY <1>1, <1>2
  <1>4. PICK S : Tail(a) \in Seq(S)
    BY <1>1 DEF Listing
  <1> QED
    BY <1>1, <1>3, <1>4, EmptySeq

---------------------------------------------------------------------------
(* A step of the parser that goes on.                                      *)
State == <<nodes, position>>

Working ==
  /\ Ended(tokens) /\ position \in DOMAIN tokens
  /\ Shape(agenda)

Moves ==
  /\ \E items :
       /\ Listing(items)
       /\ agenda' = items \o Tail(agenda) /\ Shape(agenda')
       /\ Produces(tokens, Head(agenda), State, items, State')
  /\ position' \in DOMAIN tokens
  /\ UNCHANGED <<tokens, failing, diagnostics, module>>

LEMMA Current ==
  ASSUME Working
  PROVE  /\ position \in Nat
         /\ Kind(0) = tokens[position].kind /\ lexeme = tokens[position].lexeme
         /\ \A kind : check(kind) <=> Is(tokens, position, kind)
         /\ advanceBy(0) = position
         /\ Kind(0) # "eof" => /\ advanceBy(1) = position + 1
                               /\ position + 1 \in DOMAIN tokens
                               /\ Kind(1) = tokens[position + 1].kind
                               /\ \A kind : Kind(1) = kind <=>
                                              Is(tokens, position + 1, kind)
         /\ Kind(0) # "eof" /\ Kind(1) # "eof" =>
              advanceBy(2) = position + 2 /\ position + 2 \in DOMAIN tokens
  <1>1. PICK T : tokens \in Seq(T)
    BY DEF Working, Ended
  <1>2. /\ DOMAIN tokens = 1 .. Len(tokens) /\ Len(tokens) \in Nat
        /\ position \in 1 .. Len(tokens)
    BY <1>1, LenProperties DEF Working
  <1>3. peekToken(0) = tokens[position]
    BY <1>2 DEF peekToken
  <1>4. \A i \in DOMAIN tokens : tokens[i].kind = "eof" <=> i = Len(tokens)
    BY DEF Working, Ended
  <1>5. position < Len(tokens) => peekToken(1) = tokens[position + 1]
    BY <1>2 DEF peekToken
  <1>6. Kind(0) = tokens[position].kind /\ lexeme = tokens[position].lexeme
    BY <1>3 DEF Kind, lexeme
  <1>7. Kind(0) # "eof" => position < Len(tokens)
    BY <1>2, <1>4, <1>6
  <1>8. Kind(0) # "eof" => Kind(1) = tokens[position + 1].kind
    BY <1>5, <1>7 DEF Kind
  <1>9. \A kind : check(kind) <=> Is(tokens, position, kind)
    BY <1>2, <1>6 DEF check, Is
  <1>10. /\ advanceBy(0) = position
         /\ Kind(0) # "eof" => /\ advanceBy(1) = position + 1
                               /\ advanceBy(2) = position + 2
    BY <1>2, <1>6, <1>9 DEF advanceBy, Is
  <1>11. Kind(0) # "eof" /\ Kind(1) # "eof" => position + 1 < Len(tokens)
    BY <1>2, <1>4, <1>7, <1>8
  <1>12. Kind(0) # "eof" => \A kind : Kind(1) = kind <=>
                                      Is(tokens, position + 1, kind)
    BY <1>2, <1>7, <1>8 DEF Is
  <1>13. /\ Kind(0) # "eof" => position + 1 \in DOMAIN tokens
         /\ Kind(0) # "eof" /\ Kind(1) # "eof" =>
              position + 2 \in DOMAIN tokens
    BY <1>2, <1>7, <1>11
  <1> QED
    BY <1>2, <1>6, <1>8, <1>9, <1>10, <1>12, <1>13

LEMMA StateParts == State[1] = nodes /\ State[2] = position
  BY DEF State

LEMMA Moving ==
  ASSUME Working, NEW f, Doing(f), f # "module", NEW items, Body(items),
         NEW n, Go(n, items), position' \in DOMAIN tokens, NEW one,
         \/ one = Call(f) /\ f \in WithoutArgument
         \/ one = <<f, argument>>,
         Produces(tokens, one, State, items, State')
  PROVE  Moves
  <1>1. Head(agenda)[1] = f /\ agenda' = items \o Tail(agenda)
    BY DEF Doing, Go, Then
  <1>2. one[1] = f /\ (f \in WithoutArgument \/ one[2] = Head(agenda)[2])
    BY DEF Call, argument
  <1>3. Produces(tokens, Head(agenda), State, items, State')
    BY <1>1, <1>2, SameItem
  <1>4. Shape(agenda')
    BY <1>1, KeepShape DEF Working
  <1> QED
    BY <1>1, <1>3, <1>4 DEF Moves, Body, Go

LEMMA MoveInPlace ==
  ASSUME Working, NEW f, Doing(f), f # "module", NEW items, Body(items),
         Proceed(0, items), NEW one,
         \/ one = Call(f) /\ f \in WithoutArgument
         \/ one = <<f, argument>>,
         Produces(tokens, one, State, items, <<nodes, position>>)
  PROVE  Moves
  <1>1. /\ Go(0, items) /\ State' = <<nodes, position>>
        /\ position' \in DOMAIN tokens
    BY Current DEF Proceed, Go, State, Working
  <1> QED
    BY <1>1, Moving

LEMMA MoveOn ==
  ASSUME Working, NEW f, Doing(f), f # "module", NEW items, Body(items),
         Proceed(1, items), Kind(0) # "eof", NEW one,
         \/ one = Call(f) /\ f \in WithoutArgument
         \/ one = <<f, argument>>,
         Produces(tokens, one, State, items, <<nodes, position + 1>>)
  PROVE  Moves
  <1>1. /\ Go(1, items) /\ State' = <<nodes, position + 1>>
        /\ position' \in DOMAIN tokens
    BY Current DEF Proceed, Go, State, Working
  <1> QED
    BY <1>1, Moving

LEMMA MoveWith ==
  ASSUME Working, NEW f, Doing(f), f # "module", NEW items, Body(items),
         NEW node, Take(1, node, items), Kind(0) # "eof", NEW one,
         \/ one = Call(f) /\ f \in WithoutArgument
         \/ one = <<f, argument>>,
         Produces(tokens, one, State, items, <<<<nodes, node>>, position + 1>>)
  PROVE  Moves
  <1>1. /\ Go(1, items) /\ State' = <<<<nodes, node>>, position + 1>>
        /\ position' \in DOMAIN tokens
    BY Current DEF Take, Push, Go, State, Working
  <1> QED
    BY <1>1, Moving

(* A step that only changes the stack.                                     *)
LEMMA MoveNodes ==
  ASSUME Working, NEW f, Doing(f), f # "module", Go(0, <<>>), NEW one,
         \/ one = Call(f) /\ f \in WithoutArgument
         \/ one = <<f, argument>>,
         NEW stack, nodes' = stack,
         \A D : Does(D, tokens, one, State, <<stack, position>>)
  PROVE  Moves
  <1>1. /\ Go(0, <<>>) /\ State' = <<stack, position>>
        /\ position' \in DOMAIN tokens
    BY Current DEF Go, State, Working
  <1>2. Body(<<>>)
    <2>1. <<>> \in Seq({}) /\ Len(<<>>) = 0
      OBVIOUS
    <2> QED
      BY <2>1 DEF Body, Listing
  <1>3. Produces(tokens, one, State, <<>>, State')
    BY <1>1, ProducesNothing
  <1> QED
    BY <1>1, <1>2, <1>3, Moving

LEMMA Marks ==
  /\ LBrace # "eof" /\ RBrace # "eof" /\ Comma # "eof" /\ Semicolon # "eof"
  BY Zenon DEF LBrace, RBrace, Comma, Semicolon

---------------------------------------------------------------------------
(* What parse functions put on the agenda.                                 *)
LEMMA BodyNone == Body(<<>>)
  <1>1. <<>> \in Seq({}) /\ Len(<<>>) = 0
    OBVIOUS
  <1> QED
    BY <1>1 DEF Body, Listing

LEMMA BodyFrom ==
  ASSUME NEW S, NEW items \in Seq(S),
         \A item \in S : item[1] # "module" /\ Proper(item)
  PROVE  Body(items)
  BY ElementOfSeq DEF Body, Listing

LEMMA BodyGroup == Body(<<ExpressionItem, Expect(")")>>)
  <1> DEFINE S == {ExpressionItem, Expect(")")}
  <1>1. <<ExpressionItem, Expect(")")>> \in Seq(S)
    OBVIOUS
  <1>2. \A item \in S : item[1] # "module" /\ Proper(item)
    BY Marks DEF Proper, Call, Expect, Build, ExpressionItem
  <1> HIDE DEF S
  <1> QED
    BY <1>1, <1>2, BodyFrom

LEMMA BodyLoad == Body(parseLoadExpression)
  <1> DEFINE S == {NameItem, Expect("["), ExpressionItem, Expect("]"),
                   Build("load")}
  <1>1. parseLoadExpression \in Seq(S)
    BY DEF parseLoadExpression
  <1>2. \A item \in S : item[1] # "module" /\ Proper(item)
    BY Marks DEF Proper, Call, Expect, Build, NameItem, ExpressionItem
  <1> HIDE DEF S
  <1> QED
    BY <1>1, <1>2, BodyFrom

LEMMA BodyCall == Body(<<Call("list"), Call("arguments"), Build("call")>>)
  <1> DEFINE S == {Call("list"), Call("arguments"), Build("call")}
  <1>1. <<Call("list"), Call("arguments"), Build("call")>> \in Seq(S)
    OBVIOUS
  <1>2. \A item \in S : item[1] # "module" /\ Proper(item)
    BY Marks DEF Proper, Call, Expect, Build
  <1> HIDE DEF S
  <1> QED
    BY <1>1, <1>2, BodyFrom

LEMMA BodyExpression == Body(<<Call("primary"), <<"rhs", 0>>>>)
  <1> DEFINE S == {Call("primary"), <<"rhs", 0>>}
  <1>1. <<Call("primary"), <<"rhs", 0>>>> \in Seq(S)
    OBVIOUS
  <1>2. \A item \in S : item[1] # "module" /\ Proper(item)
    BY Marks DEF Proper, Call, Expect, Build, Precedences
  <1> HIDE DEF S
  <1> QED
    BY <1>1, <1>2, BodyFrom

LEMMA BodyArgument == Body(Argument)
  <1> DEFINE S == {ExpressionItem, Call("append"), Call("arguments_")}
  <1>1. Argument \in Seq(S)
    BY DEF Argument
  <1>2. \A item \in S : item[1] # "module" /\ Proper(item)
    BY Marks DEF Proper, Call, Expect, Build, ExpressionItem
  <1> HIDE DEF S
  <1> QED
    BY <1>1, <1>2, BodyFrom

LEMMA BodyParameter == Body(Parameter)
  <1> DEFINE S == {NameItem, Expect(":"), Call("type"), Build("parameter"),
                   Call("append"), Call("parameters_")}
  <1>1. Parameter \in Seq(S)
    BY DEF Parameter
  <1>2. \A item \in S : item[1] # "module" /\ Proper(item)
    BY Marks DEF Proper, Call, Expect, Build, NameItem
  <1> HIDE DEF S
  <1> QED
    BY <1>1, <1>2, BodyFrom

LEMMA BodyPointer == Body(<<Expect("<"), Call("pointee"), Expect(">"),
                        Build("pointer"), Call("caller")>>)
  <1> DEFINE S == {Expect("<"), Call("pointee"), Expect(">"),
                   Build("pointer"), Call("caller")}
  <1>1. <<Expect("<"), Call("pointee"), Expect(">"), Build("pointer"),
        Call("caller")>> \in Seq(S)
    OBVIOUS
  <1>2. \A item \in S : item[1] # "module" /\ Proper(item)
    BY Marks DEF Proper, Call, Expect, Build
  <1> HIDE DEF S
  <1> QED
    BY <1>1, <1>2, BodyFrom

LEMMA BodyEndOfBlock == Body(<<Expect(RBrace)>>)
  <1> DEFINE S == {Expect(RBrace)}
  <1>1. <<Expect(RBrace)>> \in Seq(S)
    OBVIOUS
  <1>2. \A item \in S : item[1] # "module" /\ Proper(item)
    BY Marks DEF Proper, Call, Expect, Build
  <1> HIDE DEF S
  <1> QED
    BY <1>1, <1>2, BodyFrom

LEMMA BodyBlock == Body(<<Call("statement"), Call("append"), Call("block")>>)
  <1> DEFINE S == {Call("statement"), Call("append"), Call("block")}
  <1>1. <<Call("statement"), Call("append"), Call("block")>> \in Seq(S)
    OBVIOUS
  <1>2. \A item \in S : item[1] # "module" /\ Proper(item)
    BY Marks DEF Proper, Call, Expect, Build
  <1> HIDE DEF S
  <1> QED
    BY <1>1, <1>2, BodyFrom

LEMMA BodyElse == Body(<<Expect(LBrace), Call("block")>>)
  <1> DEFINE S == {Expect(LBrace), Call("block")}
  <1>1. <<Expect(LBrace), Call("block")>> \in Seq(S)
    OBVIOUS
  <1>2. \A item \in S : item[1] # "module" /\ Proper(item)
    BY Marks DEF Proper, Call, Expect, Build
  <1> HIDE DEF S
  <1> QED
    BY <1>1, <1>2, BodyFrom

LEMMA BodyLet == Body(parseLetStatement)
  <1> DEFINE S == {NameItem, Expect("="), ExpressionItem, Expect(Semicolon),
                   Build("let")}
  <1>1. parseLetStatement \in Seq(S)
    BY DEF parseLetStatement
  <1>2. \A item \in S : item[1] # "module" /\ Proper(item)
    BY Marks DEF Proper, Call, Expect, Build, NameItem, ExpressionItem
  <1> HIDE DEF S
  <1> QED
    BY <1>1, <1>2, BodyFrom

LEMMA BodyAssign == Body(parseAssignStatement)
  <1> DEFINE S == {NameItem, Expect("="), ExpressionItem, Expect(Semicolon),
                   Build("assign")}
  <1>1. parseAssignStatement \in Seq(S)
    BY DEF parseAssignStatement
  <1>2. \A item \in S : item[1] # "module" /\ Proper(item)
    BY Marks DEF Proper, Call, Expect, Build, NameItem, ExpressionItem
  <1> HIDE DEF S
  <1> QED
    BY <1>1, <1>2, BodyFrom

LEMMA BodyStore == Body(parseStoreStatement)
  <1> DEFINE S == {NameItem, Expect("["), ExpressionItem, Expect("]"),
                   Expect("="), ExpressionItem, Expect(Semicolon),
                   Build("store")}
  <1>1. parseStoreStatement \in Seq(S)
    BY DEF parseStoreStatement
  <1>2. \A item \in S : item[1] # "module" /\ Proper(item)
    BY Marks DEF Proper, Call, Expect, Build, NameItem, ExpressionItem
  <1> HIDE DEF S
  <1> QED
    BY <1>1, <1>2, BodyFrom

LEMMA BodyPrint == Body(parsePrintI32Statement)
  <1> DEFINE S == {ExpressionItem, Expect(Semicolon), Build("print_i32")}
  <1>1. parsePrintI32Statement \in Seq(S)
    BY DEF parsePrintI32Statement
  <1>2. \A item \in S : item[1] # "module" /\ Proper(item)
    BY Marks DEF Proper, Call, Expect, Build, ExpressionItem
  <1> HIDE DEF S
  <1> QED
    BY <1>1, <1>2, BodyFrom

LEMMA BodyReturn == Body(parseReturnStatement)
  <1> DEFINE S == {ExpressionItem, Expect(Semicolon), Build("return")}
  <1>1. parseReturnStatement \in Seq(S)
    BY DEF parseReturnStatement
  <1>2. \A item \in S : item[1] # "module" /\ Proper(item)
    BY Marks DEF Proper, Call, Expect, Build, ExpressionItem
  <1> HIDE DEF S
  <1> QED
    BY <1>1, <1>2, BodyFrom

LEMMA BodyIf == Body(parseIfStatement)
  <1> DEFINE S == {ExpressionItem, Expect(LBrace), Call("list"),
                   Call("block"), Call("list"), Call("else"), Build("if")}
  <1>1. parseIfStatement \in Seq(S)
    BY DEF parseIfStatement
  <1>2. \A item \in S : item[1] # "module" /\ Proper(item)
    BY Marks DEF Proper, Call, Expect, Build, ExpressionItem
  <1> HIDE DEF S
  <1> QED
    BY <1>1, <1>2, BodyFrom

LEMMA BodyWhile == Body(parseWhileStatement)
  <1> DEFINE S == {ExpressionItem, Expect(LBrace), Call("list"),
                   Call("block"), Build("while")}
  <1>1. parseWhileStatement \in Seq(S)
    BY DEF parseWhileStatement
  <1>2. \A item \in S : item[1] # "module" /\ Proper(item)
    BY Marks DEF Proper, Call, Expect, Build, ExpressionItem
  <1> HIDE DEF S
  <1> QED
    BY <1>1, <1>2, BodyFrom

LEMMA BodyFunction == Body(<<Expect("func"), NameItem, Expect("("),
                        Call("list"), Call("parameters"), Expect("->"),
                        Call("type"), Expect(LBrace), Call("list"),
                        Call("block"), Build("function")>>)
  <1> DEFINE S == {Expect("func"), NameItem, Expect("("), Call("list"),
                   Call("parameters"), Expect("->"), Call("type"),
                   Expect(LBrace), Call("list"), Call("block"),
                   Build("function")}
  <1>1. <<Expect("func"), NameItem, Expect("("), Call("list"),
        Call("parameters"), Expect("->"), Call("type"), Expect(LBrace),
        Call("list"), Call("block"), Build("function")>> \in Seq(S)
    OBVIOUS
  <1>2. \A item \in S : item[1] # "module" /\ Proper(item)
    BY Marks DEF Proper, Call, Expect, Build, NameItem
  <1> HIDE DEF S
  <1> QED
    BY <1>1, <1>2, BodyFrom

LEMMA BodyKernel ==
  ASSUME NEW k \in KernelKeywords
  PROVE  Body(<<Call("list"), OperandsFrom(k, 1), Expect(Semicolon),
                Build("kernel")>>)
  <1> DEFINE S == {Call("list"), OperandsFrom(k, 1), Expect(Semicolon),
                   Build("kernel")}
  <1>1. <<Call("list"), OperandsFrom(k, 1), Expect(Semicolon),
          Build("kernel")>> \in Seq(S)
    OBVIOUS
  <1>2. \A item \in S : item[1] # "module" /\ Proper(item)
    <2>1. 1 \in 1 .. Len(FieldsOf(k))
      BY KernelFits DEF Fits
    <2> QED
      BY <2>1, Marks DEF Proper, Call, Expect, Build, OperandsFrom
  <1> HIDE DEF S
  <1> QED
    BY <1>1, <1>2, BodyFrom

LEMMA BodyOperators ==
  ASSUME NEW p \in {5, 10, 20}, NEW q \in Precedences
  PROVE  /\ Body(<<Call("primary"), <<"climb", p>>, Build("binary"),
                   <<"rhs", q>>>>)
         /\ Body(<< <<"rhs", q>> >>)
  <1> DEFINE S == {Call("primary"), <<"climb", p>>, Build("binary"),
                   <<"rhs", q>>}
  <1>1. /\ <<Call("primary"), <<"climb", p>>, Build("binary"),
             <<"rhs", q>>>> \in Seq(S)
        /\ << <<"rhs", q>> >> \in Seq(S)
    OBVIOUS
  <1>2. \A item \in S : item[1] # "module" /\ Proper(item)
    BY DEF Proper, Call, Build
  <1> HIDE DEF S
  <1> QED
    BY <1>1, <1>2, BodyFrom

---------------------------------------------------------------------------
(* Every step of the parser that does not fail keeps the promise.          *)
LEMMA StepExpect ==
  ASSUME Working, expect
  PROVE  Moves \/ reportAtCurrent
  <1>1. Doing("expect") /\ Proper(Head(agenda))
    <2>1. Head(agenda) = agenda[1] /\ 1 \in 1 .. Len(agenda)
      BY TailOfList DEF Working, Shape
    <2> QED
      BY <2>1, Zenon DEF expect, Working, Shape
  <1>2. CASE check(argument)
    <2>1. Proceed(1, <<>>)
      BY <1>2 DEF expect
    <2>2. Kind(0) # "eof"
      BY <1>1, <1>2 DEF Doing, Proper, argument, check
    <2>3. Is(tokens, position, argument)
      BY <1>2, Current
    <2>4. \A D : Does(D, tokens, <<"expect", argument>>, State,
                      <<nodes, position + 1>>)
      BY <2>3 DEF Does, State
    <2>5. Produces(tokens, <<"expect", argument>>, State, <<>>,
                   <<nodes, position + 1>>)
      BY <2>4, ProducesNothing
    <2> QED
      BY <1>1, <2>1, <2>2, <2>5, BodyNone, MoveOn
  <1>3. CASE ~ check(argument)
    BY <1>3 DEF expect
  <1> QED
    BY <1>2, <1>3

LEMMA StepList ==
  ASSUME Working, OpenList
  PROVE  Moves
  <1>1. /\ Doing("list") /\ Go(0, <<>>)
        /\ nodes' = <<nodes, <<>>>>
    BY DEF OpenList, Take, Push
  <1>2. \A D : Does(D, tokens, Call("list"), State,
                    <<<<nodes, <<>>>>, position>>)
    BY DEF Does, State, Call
  <1> QED
    BY <1>1, <1>2, MoveNodes DEF WithoutArgument

LEMMA StepEmptyName ==
  ASSUME Working, EmptyName
  PROVE  Moves
  <1>1. /\ Doing("none") /\ Go(0, <<>>)
        /\ nodes' = <<nodes, NoName>>
    BY DEF EmptyName, Take, Push
  <1>2. \A D : Does(D, tokens, Call("none"), State,
                    <<<<nodes, NoName>>, position>>)
    BY DEF Does, State, Call
  <1> QED
    BY <1>1, <1>2, MoveNodes DEF WithoutArgument

LEMMA StepAppend ==
  ASSUME Working, Append1
  PROVE  Moves
  <1>1. /\ Doing("append") /\ Go(0, <<>>)
        /\ nodes' = <<nodes[1][1], Append(nodes[1][2], nodes[2])>>
    BY DEF Append1
  <1>2. \A D : Does(D, tokens, Call("append"), State,
                    <<<<nodes[1][1], Append(nodes[1][2], nodes[2])>>,
                      position>>)
    BY DEF Does, State, Call
  <1> QED
    BY <1>1, <1>2, MoveNodes DEF WithoutArgument

LEMMA StepCaller ==
  ASSUME Working, ReturnToCaller
  PROVE  Moves
  <1>1. /\ Doing("caller") /\ Go(0, <<>>)
        /\ nodes' = nodes
    BY DEF ReturnToCaller, Proceed
  <1>2. \A D : Does(D, tokens, Call("caller"), State,
                    <<nodes, position>>)
    BY DEF Does, State, Call
  <1> QED
    BY <1>1, <1>2, MoveNodes DEF WithoutArgument

LEMMA StepMake ==
  ASSUME Working, make_unique
  PROVE  Moves
  <1>1. /\ Doing("build") /\ Go(0, <<>>)
        /\ nodes' = Made(argument, nodes)
    BY DEF make_unique
  <1>2. \A D : Does(D, tokens, <<"build", argument>>, State,
                    <<Made(argument, nodes), position>>)
    BY DEF Does, State
  <1> QED
    BY <1>1, <1>2, MoveNodes

LEMMA StepName ==
  ASSUME Working, parseName
  PROVE  Moves \/ reportAtCurrent
  <1>1. Doing("name")
    BY DEF parseName
  <1>2. CASE check("identifier")
    <2>1. Take(1, lexeme, <<>>)
      BY <1>2, Zenon DEF parseName
    <2>2. Kind(0) # "eof"
      BY <1>2 DEF check, IntegerTypes
    <2>3. Produces(tokens, Call("name"), State, <<>>,
                   <<<<nodes, lexeme>>, position + 1>>)
      BY <1>2, Current, StateParts, ProducesName
    <2> QED
      BY <1>1, <2>1, <2>2, <2>3, BodyNone, MoveWith
         DEF WithoutArgument
  <1>3. CASE ~ check("identifier")
    BY <1>3, Zenon DEF parseName
  <1> QED
    BY <1>2, <1>3

LEMMA StepPointee ==
  ASSUME Working, parsePointee
  PROVE  Moves \/ reportAtCurrent
  <1>1. Doing("pointee")
    BY DEF parsePointee
  <1>2. CASE Kind(0) \in IntegerTypes
    <2>1. Take(1, lexeme, <<>>)
      BY <1>2, Zenon DEF parsePointee
    <2>2. Kind(0) # "eof"
      BY <1>2 DEF check, IntegerTypes
    <2>3. Produces(tokens, Call("pointee"), State, <<>>,
                   <<<<nodes, lexeme>>, position + 1>>)
      BY <1>2, Current, StateParts, ProducesPointee DEF Working
    <2> QED
      BY <1>1, <2>1, <2>2, <2>3, BodyNone, MoveWith
         DEF WithoutArgument
  <1>3. CASE Kind(0) \notin IntegerTypes
    BY <1>3, Zenon DEF parsePointee
  <1> QED
    BY <1>2, <1>3

LEMMA StepType ==
  ASSUME Working, parseType
  PROVE  Moves \/ reportAtCurrent
  <1>1. Doing("type")
    BY DEF parseType
  <1>2. CASE Kind(0) \in IntegerTypes
    <2>1. Take(1, lexeme, <<>>)
      BY <1>2, Zenon DEF parseType
    <2>2. Kind(0) # "eof"
      BY <1>2 DEF check, IntegerTypes
    <2>3. Produces(tokens, Call("type"), State, <<>>,
                   <<<<nodes, lexeme>>, position + 1>>)
      BY <1>2, Current, StateParts, ProducesIntegerType DEF Working
    <2> QED
      BY <1>1, <2>1, <2>2, <2>3, BodyNone, MoveWith
         DEF WithoutArgument
  <1>3. CASE Kind(0) \notin IntegerTypes /\ check("ptr")
    <2>1. Proceed(1, <<Expect("<"), Call("pointee"), Expect(">"),
                         Build("pointer"), Call("caller")>>)
      BY <1>3, Zenon DEF parseType
    <2>2. Kind(0) # "eof"
      BY <1>3 DEF check, IntegerTypes
    <2>3. Produces(tokens, Call("type"), State,
                   <<Expect("<"), Call("pointee"), Expect(">"),
                         Build("pointer"), Call("caller")>>,
                   <<nodes, position + 1>>)
      BY <1>3, Current, StateParts, ProducesPointerType
    <2> QED
      BY <1>1, <2>1, <2>2, <2>3, BodyPointer, MoveOn
         DEF WithoutArgument
  <1>4. CASE Kind(0) \notin IntegerTypes /\ ~ check("ptr")
    BY <1>4, Zenon DEF parseType
  <1> QED
    BY <1>2, <1>3, <1>4

LEMMA StepParameters ==
  ASSUME Working, parseParameters
  PROVE  Moves \/ reportAtCurrent
  <1>1. CASE Doing("parameters") /\ check(")") /\ Proceed(1, <<>>)
    <2>1. Produces(tokens, Call("parameters"), State, <<>>,
                   <<nodes, position + 1>>)
      BY <1>1, Current, StateParts, ProducesNoParameters
    <2>2. Kind(0) # "eof"
      BY <1>1 DEF check
    <2> QED
      BY <1>1, <2>1, <2>2, BodyNone, MoveOn DEF WithoutArgument
  <1>2. CASE Doing("parameters") /\ Proceed(0, Parameter)
    <2>1. Produces(tokens, Call("parameters"), State, Parameter,
                   <<nodes, position>>)
      BY StateParts, ProducesParameters
    <2> QED
      BY <1>2, <2>1, BodyParameter, MoveInPlace DEF WithoutArgument
  <1>3. CASE Doing("parameters_") /\ check(")") /\ Proceed(1, <<>>)
    <2>1. Produces(tokens, Call("parameters_"), State, <<>>,
                   <<nodes, position + 1>>)
      BY <1>3, Current, StateParts, ProducesEndParameters
    <2>2. Kind(0) # "eof"
      BY <1>3 DEF check
    <2> QED
      BY <1>3, <2>1, <2>2, BodyNone, MoveOn DEF WithoutArgument
  <1>4. CASE Doing("parameters_") /\ check(Comma) /\ Proceed(1, Parameter)
    <2>1. Produces(tokens, Call("parameters_"), State, Parameter,
                   <<nodes, position + 1>>)
      BY <1>4, Current, StateParts, ProducesNextParameter
    <2>2. Kind(0) # "eof"
      BY <1>4, Marks DEF check
    <2> QED
      BY <1>4, <2>1, <2>2, BodyParameter, MoveOn DEF WithoutArgument
  <1> QED
    BY <1>1, <1>2, <1>3, <1>4, Zenon DEF parseParameters

LEMMA StepArguments ==
  ASSUME Working, parseArguments
  PROVE  Moves \/ reportAtCurrent
  <1>1. CASE Doing("arguments") /\ check(")") /\ Proceed(1, <<>>)
    <2>1. Produces(tokens, Call("arguments"), State, <<>>,
                   <<nodes, position + 1>>)
      BY <1>1, Current, StateParts, ProducesNoArguments
    <2>2. Kind(0) # "eof"
      BY <1>1 DEF check
    <2> QED
      BY <1>1, <2>1, <2>2, BodyNone, MoveOn DEF WithoutArgument
  <1>2. CASE Doing("arguments") /\ Proceed(0, Argument)
    <2>1. Produces(tokens, Call("arguments"), State, Argument,
                   <<nodes, position>>)
      BY StateParts, ProducesArguments
    <2> QED
      BY <1>2, <2>1, BodyArgument, MoveInPlace DEF WithoutArgument
  <1>3. CASE Doing("arguments_") /\ check(")") /\ Proceed(1, <<>>)
    <2>1. Produces(tokens, Call("arguments_"), State, <<>>,
                   <<nodes, position + 1>>)
      BY <1>3, Current, StateParts, ProducesEndArguments
    <2>2. Kind(0) # "eof"
      BY <1>3 DEF check
    <2> QED
      BY <1>3, <2>1, <2>2, BodyNone, MoveOn DEF WithoutArgument
  <1>4. CASE Doing("arguments_") /\ check(Comma) /\ Proceed(1, Argument)
    <2>1. Produces(tokens, Call("arguments_"), State, Argument,
                   <<nodes, position + 1>>)
      BY <1>4, Current, StateParts, ProducesNextArgument
    <2>2. Kind(0) # "eof"
      BY <1>4, Marks DEF check
    <2> QED
      BY <1>4, <2>1, <2>2, BodyArgument, MoveOn DEF WithoutArgument
  <1> QED
    BY <1>1, <1>2, <1>3, <1>4, Zenon DEF parseArguments

LEMMA StepBlock ==
  ASSUME Working, parseBlock
  PROVE  Moves
  <1>1. Doing("block")
    BY DEF parseBlock
  <1>2. CASE Kind(0) \in {RBrace, "eof"}
    <2>1. Proceed(0, <<Expect(RBrace)>>)
      BY <1>2, Zenon DEF parseBlock
    <2>3. Produces(tokens, Call("block"), State, <<Expect(RBrace)>>,
                   <<nodes, position>>)
      BY <1>2, Current, StateParts, ProducesEndOfBlock
    <2> QED
      BY <1>1, <2>1, <2>3, BodyEndOfBlock, MoveInPlace
         DEF WithoutArgument
  <1>3. CASE Kind(0) \notin {RBrace, "eof"}
    <2>1. Proceed(0, <<Call("statement"), Call("append"), Call("block")>>)
      BY <1>3, Zenon DEF parseBlock
    <2>3. Produces(tokens, Call("block"), State,
                   <<Call("statement"), Call("append"), Call("block")>>,
                   <<nodes, position>>)
      BY <1>3, Current, StateParts, ProducesBlock
    <2> QED
      BY <1>1, <2>1, <2>3, BodyBlock, MoveInPlace
         DEF WithoutArgument
  <1> QED
    BY <1>2, <1>3

LEMMA StepElse ==
  ASSUME Working, parseElse
  PROVE  Moves
  <1>1. Doing("else")
    BY DEF parseElse
  <1>2. CASE check("else")
    <2>1. Proceed(1, <<Expect(LBrace), Call("block")>>)
      BY <1>2, Zenon DEF parseElse
    <2>2. Kind(0) # "eof"
      BY <1>2 DEF check, IntegerTypes
    <2>3. Produces(tokens, Call("else"), State,
                   <<Expect(LBrace), Call("block")>>,
                   <<nodes, position + 1>>)
      BY <1>2, Current, StateParts, ProducesElse DEF Working
    <2> QED
      BY <1>1, <2>1, <2>2, <2>3, BodyElse, MoveOn
         DEF WithoutArgument
  <1>3. CASE ~ check("else")
    <2>1. Proceed(0, <<>>)
      BY <1>3, Zenon DEF parseElse
    <2>3. Produces(tokens, Call("else"), State, <<>>,
                   <<nodes, position>>)
      BY <1>3, Current, StateParts, ProducesNoElse
    <2> QED
      BY <1>1, <2>1, <2>3, BodyNone, MoveInPlace
         DEF WithoutArgument
  <1> QED
    BY <1>2, <1>3

LEMMA StepExpression ==
  ASSUME Working, parseExpression
  PROVE  Moves
  <1>1. /\ Doing("expression")
        /\ Proceed(0, <<Call("primary"), <<"rhs", 0>>>>)
    BY DEF parseExpression
  <1>2. Produces(tokens, Call("expression"), State,
                 <<Call("primary"), <<"rhs", 0>>>>,
                 <<nodes, position>>)
    BY StateParts, ProducesExpression DEF Working, ExpressionItem
  <1> QED
    BY <1>1, <1>2, BodyExpression, MoveInPlace DEF WithoutArgument

LEMMA StepFunction ==
  ASSUME Working, parseFunction
  PROVE  Moves
  <1>1. /\ Doing("function")
        /\ Proceed(0, << Expect("func"), NameItem, Expect("("), Call("list"),
                   Call("parameters"), Expect("->"), Call("type"),
                   Expect(LBrace), Call("list"), Call("block"),
                   Build("function") >>)
    BY DEF parseFunction
  <1>2. Produces(tokens, Call("function"), State,
                 << Expect("func"), NameItem, Expect("("), Call("list"),
                   Call("parameters"), Expect("->"), Call("type"),
                   Expect(LBrace), Call("list"), Call("block"),
                   Build("function") >>,
                 <<nodes, position>>)
    BY StateParts, ProducesFunction DEF Working
  <1> QED
    BY <1>1, <1>2, BodyFunction, MoveInPlace DEF WithoutArgument

LEMMA StepStatement ==
  ASSUME Working, parseStatement
  PROVE  Moves \/ reportAtCurrent
  <1>1. Doing("statement")
    BY DEF parseStatement
  <1>2. CASE Kind(0) = "let"
    <2>1. Proceed(1, parseLetStatement)
      BY <1>2, Zenon DEF parseStatement,
          KernelKeywords, Selects, Masks, MaskLogicals,
          MaskedBinaries, MatrixMultiplies, VectorAdds
    <2>2. Kind(0) # "eof"
      BY <1>2 DEF check, IntegerTypes
    <2>3. Produces(tokens, Call("statement"), State, parseLetStatement,
                   <<nodes, position + 1>>)
      BY <1>2, Current, StateParts, ProducesLet
         DEF check, Working
    <2> QED
      BY <1>1, <2>1, <2>2, <2>3, BodyLet, MoveOn
         DEF WithoutArgument
  <1>3. CASE Kind(0) = "store"
    <2>1. Proceed(1, parseStoreStatement)
      BY <1>3, Zenon DEF parseStatement,
          KernelKeywords, Selects, Masks, MaskLogicals,
          MaskedBinaries, MatrixMultiplies, VectorAdds
    <2>2. Kind(0) # "eof"
      BY <1>3 DEF check, IntegerTypes
    <2>3. Produces(tokens, Call("statement"), State, parseStoreStatement,
                   <<nodes, position + 1>>)
      BY <1>3, Current, StateParts, ProducesStore
         DEF check, Working
    <2> QED
      BY <1>1, <2>1, <2>2, <2>3, BodyStore, MoveOn
         DEF WithoutArgument
  <1>4. CASE Kind(0) = "print_i32"
    <2>1. Proceed(1, parsePrintI32Statement)
      BY <1>4, Zenon DEF parseStatement,
          KernelKeywords, Selects, Masks, MaskLogicals,
          MaskedBinaries, MatrixMultiplies, VectorAdds
    <2>2. Kind(0) # "eof"
      BY <1>4 DEF check, IntegerTypes
    <2>3. Produces(tokens, Call("statement"), State, parsePrintI32Statement,
                   <<nodes, position + 1>>)
      BY <1>4, Current, StateParts, ProducesPrint
         DEF check, Working
    <2> QED
      BY <1>1, <2>1, <2>2, <2>3, BodyPrint, MoveOn
         DEF WithoutArgument
  <1>5. CASE Kind(0) = "return"
    <2>1. Proceed(1, parseReturnStatement)
      BY <1>5, Zenon DEF parseStatement,
          KernelKeywords, Selects, Masks, MaskLogicals,
          MaskedBinaries, MatrixMultiplies, VectorAdds
    <2>2. Kind(0) # "eof"
      BY <1>5 DEF check, IntegerTypes
    <2>3. Produces(tokens, Call("statement"), State, parseReturnStatement,
                   <<nodes, position + 1>>)
      BY <1>5, Current, StateParts, ProducesReturn
         DEF check, Working
    <2> QED
      BY <1>1, <2>1, <2>2, <2>3, BodyReturn, MoveOn
         DEF WithoutArgument
  <1>6. CASE Kind(0) = "if"
    <2>1. Proceed(1, parseIfStatement)
      BY <1>6, Zenon DEF parseStatement,
          KernelKeywords, Selects, Masks, MaskLogicals,
          MaskedBinaries, MatrixMultiplies, VectorAdds
    <2>2. Kind(0) # "eof"
      BY <1>6 DEF check, IntegerTypes
    <2>3. Produces(tokens, Call("statement"), State, parseIfStatement,
                   <<nodes, position + 1>>)
      BY <1>6, Current, StateParts, ProducesIf
         DEF check, Working
    <2> QED
      BY <1>1, <2>1, <2>2, <2>3, BodyIf, MoveOn
         DEF WithoutArgument
  <1>7. CASE Kind(0) = "while"
    <2>1. Proceed(1, parseWhileStatement)
      BY <1>7, Zenon DEF parseStatement,
          KernelKeywords, Selects, Masks, MaskLogicals,
          MaskedBinaries, MatrixMultiplies, VectorAdds
    <2>2. Kind(0) # "eof"
      BY <1>7 DEF check, IntegerTypes
    <2>3. Produces(tokens, Call("statement"), State, parseWhileStatement,
                   <<nodes, position + 1>>)
      BY <1>7, Current, StateParts, ProducesWhile
         DEF check, Working
    <2> QED
      BY <1>1, <2>1, <2>2, <2>3, BodyWhile, MoveOn
         DEF WithoutArgument
  <1>8. CASE Kind(0) = "identifier" /\ Kind(1) = "="
    <2>1. Proceed(0, parseAssignStatement)
      BY <1>8, Zenon DEF parseStatement,
          KernelKeywords, Selects, Masks, MaskLogicals,
          MaskedBinaries, MatrixMultiplies, VectorAdds
    <2>3. Produces(tokens, Call("statement"), State, parseAssignStatement,
                   <<nodes, position>>)
      BY <1>8, Current, StateParts, ProducesAssign
    <2> QED
      BY <1>1, <2>1, <2>3, BodyAssign, MoveInPlace
         DEF WithoutArgument
  <1>9. CASE Kind(0) \in KernelKeywords
    <2>1. Take(1, Kind(0), <<Call("list"), OperandsFrom(Kind(0), 1),
                             Expect(Semicolon),
                         Build("kernel")>>)
      BY <1>9, Zenon DEF parseStatement,
          KernelKeywords, Selects, Masks, MaskLogicals,
          MaskedBinaries, MatrixMultiplies, VectorAdds
    <2>2. Kind(0) # "eof"
      BY <1>9 DEF KernelKeywords, Selects, Masks, MaskLogicals,
          MaskedBinaries, MatrixMultiplies, VectorAdds
    <2>3. Produces(tokens, Call("statement"), State,
                   <<Call("list"), OperandsFrom(Kind(0), 1), Expect(Semicolon),
                         Build("kernel")>>,
                   <<<<nodes, Kind(0)>>, position + 1>>)
      BY <1>9, <2>2, Current, StateParts, ProducesKernel
         DEF check, Working
    <2> QED
      BY <1>1, <1>9, <2>1, <2>2, <2>3, BodyKernel, MoveWith
         DEF WithoutArgument
  <1>10. CASE /\ Kind(0) \notin KernelKeywords
             /\ Kind(0) # "let" /\ Kind(0) # "store"
             /\ Kind(0) # "print_i32" /\ Kind(0) # "return"
             /\ Kind(0) # "if" /\ Kind(0) # "while"
             /\ ~ (Kind(0) = "identifier" /\ Kind(1) = "=")
    BY <1>10, Zenon DEF parseStatement
  <1> QED
    BY <1>2, <1>3, <1>4, <1>5, <1>6, <1>7, <1>8, <1>9, <1>10

LEMMA StepPrimary ==
  ASSUME Working, parsePrimary
  PROVE  Moves \/ reportAtCurrent
  <1>1. Doing("primary")
    BY DEF parsePrimary
  <1>2. CASE check("integer")
    <2>1. Take(1, IntegerExprAST(lexeme), <<>>)
      BY <1>2, Zenon DEF parsePrimary, check
    <2>2. Kind(0) # "eof"
      BY <1>2 DEF check, IntegerTypes
    <2>3. Produces(tokens, Call("primary"), State, <<>>,
                   <<<<nodes, IntegerExprAST(lexeme)>>, position + 1>>)
      BY <1>2, Current, StateParts, ProducesInteger
    <2> QED
      BY <1>1, <2>1, <2>2, <2>3, BodyNone, MoveWith
         DEF WithoutArgument
  <1>3. CASE check("load")
    <2>1. Proceed(1, parseLoadExpression)
      BY <1>3, Zenon DEF parsePrimary, check
    <2>2. Kind(0) # "eof"
      BY <1>3 DEF check, IntegerTypes
    <2>3. Produces(tokens, Call("primary"), State, parseLoadExpression,
                   <<nodes, position + 1>>)
      BY <1>3, Current, StateParts, ProducesLoad
    <2> QED
      BY <1>1, <2>1, <2>2, <2>3, BodyLoad, MoveOn
         DEF WithoutArgument
  <1>4. CASE check("(")
    <2>1. Proceed(1, <<ExpressionItem, Expect(")")>>)
      BY <1>4, Zenon DEF parsePrimary, check
    <2>2. Kind(0) # "eof"
      BY <1>4 DEF check, IntegerTypes
    <2>3. Produces(tokens, Call("primary"), State,
                   <<ExpressionItem, Expect(")")>>,
                   <<nodes, position + 1>>)
      BY <1>4, Current, StateParts, ProducesGroup
    <2> QED
      BY <1>1, <2>1, <2>2, <2>3, BodyGroup, MoveOn
         DEF WithoutArgument
  <1>5. CASE check("identifier") /\ Kind(1) # "("
    <2>1. Take(1, VariableExprAST(lexeme), <<>>)
      BY <1>5, Zenon DEF parsePrimary, check, parseIdentifierExpression
    <2>2. Kind(0) # "eof"
      BY <1>5 DEF check, IntegerTypes
    <2>3. Produces(tokens, Call("primary"), State, <<>>,
                   <<<<nodes, VariableExprAST(lexeme)>>, position + 1>>)
      BY <1>5, Current, StateParts, ProducesVariable
    <2> QED
      BY <1>1, <2>1, <2>2, <2>3, BodyNone, MoveWith
         DEF WithoutArgument
  <1>6. CASE check("identifier") /\ Kind(1) = "("
    <2>1. Take(2, lexeme, <<Call("list"), Call("arguments"), Build("call")>>)
      BY <1>6, Zenon DEF parsePrimary, check, parseIdentifierExpression
    <2>2. Kind(0) # "eof" /\ Kind(1) # "eof"
      BY <1>6 DEF check
    <2>3. /\ Go(2, <<Call("list"), Call("arguments"), Build("call")>>)
          /\ State' = <<<<nodes, lexeme>>, position + 2>>
          /\ position' \in DOMAIN tokens
      BY <2>1, <2>2, Current DEF Take, Push, Go, State
    <2>4. Produces(tokens, Call("primary"), State,
                   <<Call("list"), Call("arguments"), Build("call")>>, State')
      BY <1>6, <2>2, <2>3, Current, StateParts, ProducesCall
    <2> QED
      BY <1>1, <2>3, <2>4, BodyCall, Moving DEF WithoutArgument
  <1>7. CASE ~ \/ check("integer") \/ check("load")
                   \/ check("(") \/ check("identifier")
    BY <1>7, Zenon DEF parsePrimary
  <1> QED
    BY <1>2, <1>3, <1>4, <1>5, <1>6, <1>7

LEMMA HeadProper ==
  ASSUME Working
  PROVE  Proper(Head(agenda))
  <1>1. Head(agenda) = agenda[1] /\ 1 \in 1 .. Len(agenda)
    BY TailOfList DEF Working, Shape
  <1> QED
    BY <1>1, Zenon DEF Working, Shape

LEMMA StepOperands ==
  ASSUME Working, parseOperands
  PROVE  Moves
  <1> DEFINE k == argument[1]
             n == argument[2]
             ops == parseKernel(k).operands
             comma == IF n = 1 \/ ops[n] = "0" THEN <<>> ELSE <<Expect(Comma)>>
             more == IF n = Len(ops) THEN <<>> ELSE <<OperandsFrom(k, n + 1)>>
             items == comma \o <<Item(ops[n]), Call("append")>> \o more
  <1>1. Doing("operands") /\ Proceed(0, items)
    BY DEF parseOperands
  <1>2. /\ k \in KernelKeywords /\ n \in 1 .. Len(FieldsOf(k))
        /\ argument = <<k, n>>
    BY <1>1, HeadProper DEF Proper, Doing, argument
  <1>3. /\ Len(ops) = Len(FieldsOf(k)) /\ Len(ops) \in Nat
        /\ ops[n] \in {"n", "e", "0"}
    BY <1>2, KernelFits DEF Fits
  <1>4. Produces(tokens, OperandsFrom(k, n), State, items, <<nodes, position>>)
    BY <1>2, StateParts, ProducesOperands
  <1>5. Body(items)
    <2> DEFINE S == {Expect(Comma), Item(ops[n]), Call("append")}
                      \cup (IF n = Len(ops) THEN {}
                             ELSE {OperandsFrom(k, n + 1)})
    <2>1. items \in Seq(S)
      <3>1. /\ Expect(Comma) \in S /\ Item(ops[n]) \in S
            /\ Call("append") \in S
            /\ n # Len(ops) => OperandsFrom(k, n + 1) \in S
        OBVIOUS
      <3> HIDE DEF S, k, n, ops
      <3>2. comma \in Seq(S) /\ <<Item(ops[n]), Call("append")>> \in Seq(S)
        BY <3>1
      <3>3. more \in Seq(S)
        BY <3>1
      <3> HIDE DEF comma, more
      <3> QED
        BY <3>2, <3>3, ConcatProperties
    <2>2. Item(ops[n]) \in {Call("name"), ExpressionItem, Call("none")}
      BY <1>3, ItemOf
    <2>3. \A item \in S : item[1] # "module" /\ Proper(item)
      <3>1. n # Len(ops) => n + 1 \in 1 .. Len(FieldsOf(k))
        BY <1>2, <1>3
      <3> QED
        BY <1>2, <2>2, <3>1, Marks
           DEF Proper, Call, Expect, ExpressionItem, OperandsFrom
    <2> HIDE DEF S, items
    <2> QED
      BY <2>1, <2>3, BodyFrom
  <1>6. OperandsFrom(k, n) = <<"operands", argument>>
    BY <1>2 DEF OperandsFrom
  <1> HIDE DEF items
  <1> QED
    BY <1>1, <1>4, <1>5, <1>6, MoveInPlace

LEMMA Precedence ==
  ASSUME Working
  PROVE  \/ /\ getTokenPrecedence \in {5, 10, 20}
            /\ tokens[position].kind \in Operators
            /\ RankAt(tokens, position) = RankOf(getTokenPrecedence)
         \/ getTokenPrecedence = -1 /\ RankAt(tokens, position) = 0
  <1>1. Kind(0) = tokens[position].kind
    BY Current
  <1>2. CASE Kind(0) \in {"+", "-"}
    <2>1. getTokenPrecedence = 10
      BY <1>2, Zenon DEF getTokenPrecedence
    <2>2. Rank(Kind(0)) = 2
      BY <1>2, Zenon DEF Rank
    <2> QED
      BY <1>1, <1>2, <2>1, <2>2 DEF Operators, RankAt, RankOf, Working
  <1>3. CASE Kind(0) \in {"*", "/"}
    <2>1. getTokenPrecedence = 20
      BY <1>3, Zenon DEF getTokenPrecedence
    <2>2. Rank(Kind(0)) = 3
      BY <1>3, Zenon DEF Rank
    <2> QED
      BY <1>1, <1>3, <2>1, <2>2 DEF Operators, RankAt, RankOf, Working
  <1>4. CASE Kind(0) \in {"<", "<=", ">", ">=", "==", "!="}
    <2>1. getTokenPrecedence = 5
      BY <1>4, Zenon DEF getTokenPrecedence
    <2>2. Rank(Kind(0)) = 1
      BY <1>4, Zenon DEF Rank
    <2> QED
      BY <1>1, <1>4, <2>1, <2>2 DEF Operators, RankAt, RankOf, Working
  <1>5. CASE Kind(0) \notin Operators
    <2>1. getTokenPrecedence = -1
      BY <1>5, Zenon DEF getTokenPrecedence, Operators
    <2> QED
      BY <1>1, <1>5, <2>1 DEF RankAt
  <1> QED
    BY <1>2, <1>3, <1>4, <1>5 DEF Operators

LEMMA StepRHS ==
  ASSUME Working, Doing("rhs"),
         LET p == getTokenPrecedence
         IN  IF p < argument THEN Proceed(0, <<>>)
             ELSE Take(1, lexeme, << Call("primary"), <<"climb", p>>,
                                     Build("binary"), <<"rhs", argument>> >>)
  PROVE  Moves
  <1> DEFINE p == getTokenPrecedence
             q == argument
             items == << Call("primary"), <<"climb", p>>, Build("binary"),
                         <<"rhs", q>> >>
  <1>1. /\ q \in Precedences
        /\ \/ /\ p \in {5, 10, 20} /\ tokens[position].kind \in Operators
              /\ RankAt(tokens, position) = RankOf(p)
           \/ p = -1 /\ RankAt(tokens, position) = 0
    BY Precedence, HeadProper DEF Proper, Doing, argument
  <1>2. CASE p < q
    <2>1. RankAt(tokens, position) < MinRank(q)
      BY <1>1, <1>2 DEF Precedences, MinRank, RankOf
    <2>2. Produces(tokens, <<"rhs", q>>, State, <<>>, <<nodes, position>>)
      BY <2>1, StateParts, ProducesEndOfRHS
    <2>3. Proceed(0, <<>>)
      BY <1>2
    <2> QED
      BY <2>2, <2>3, BodyNone, MoveInPlace
  <1>3. CASE ~ (p < q)
    <2>1. Take(1, lexeme, items)
      BY <1>3
    <2>2. /\ p \in {5, 10, 20} /\ MinRank(q) <= RankOf(p)
          /\ tokens[position].kind \in Operators
      BY <1>1, <1>3 DEF Precedences, MinRank, RankOf
    <2>3. Kind(0) # "eof"
      BY <2>2, Current DEF Operators
    <2>4. Produces(tokens, <<"rhs", q>>, State, items,
                   <<<<nodes, lexeme>>, position + 1>>)
      <3>1. /\ State[2] \in DOMAIN tokens
            /\ tokens[State[2]].kind \in Operators
            /\ RankAt(tokens, State[2]) = RankOf(p)
            /\ tokens[State[2]].lexeme = lexeme
        BY <1>1, <2>2, Current, StateParts DEF Working
      <3> HIDE DEF p, q
      <3>2. Produces(tokens, <<"rhs", q>>, State, items,
                     <<<<State[1], tokens[State[2]].lexeme>>, State[2] + 1>>)
        BY <1>1, <2>2, <3>1, ProducesRHS
      <3> QED
        BY <3>1, <3>2, StateParts
    <2>5. Body(items)
      BY <1>1, <2>2, BodyOperators
    <2> HIDE DEF items, p, q
    <2> QED
      BY <2>1, <2>3, <2>4, <2>5, MoveWith DEF q
  <1> QED
    BY <1>2, <1>3

LEMMA StepClimb ==
  ASSUME Working, Doing("climb"),
         Proceed(0, IF argument < getTokenPrecedence
                      THEN << <<"rhs", argument + 1>> >> ELSE <<>>)
  PROVE  Moves
  <1> DEFINE p == getTokenPrecedence
             o == argument
  <1>1. /\ o \in {5, 10, 20}
        /\ \/ p \in {5, 10, 20} /\ RankAt(tokens, position) = RankOf(p)
           \/ p = -1 /\ RankAt(tokens, position) = 0
    BY Precedence, HeadProper DEF Proper, Doing, argument
  <1>2. CASE o < p
    <2>1. o + 1 \in Precedences /\ Proceed(0, << <<"rhs", o + 1>> >>)
      BY <1>1, <1>2 DEF Precedences
    <2>2. Produces(tokens, <<"climb", o>>, State, << <<"rhs", o + 1>> >>,
                   <<nodes, position>>)
      BY StateParts, ProducesClimb
    <2>3. Body(<< <<"rhs", o + 1>> >>)
      BY <1>1, <2>1, BodyOperators
    <2> QED
      BY <2>1, <2>2, <2>3, MoveInPlace
  <1>3. CASE ~ (o < p)
    <2>1. RankAt(tokens, position) <= RankOf(o)
      BY <1>1, <1>3 DEF RankOf
    <2>2. Produces(tokens, <<"climb", o>>, State, <<>>, <<nodes, position>>)
      BY <2>1, StateParts, ProducesEndOfClimb
    <2>3. Proceed(0, <<>>)
      BY <1>3
    <2> QED
      BY <2>2, <2>3, BodyNone, MoveInPlace
  <1> QED
    BY <1>2, <1>3

(* parseModule returns the list of functions.                              *)
Returns ==
  /\ Len(agenda) = 1 /\ agenda[1][1] = "module" /\ agenda' = <<>>
  /\ module' = <<nodes[2]>> /\ Is(tokens, position, "eof")
  /\ UNCHANGED <<tokens, position, nodes, failing, diagnostics>>

LEMMA StepModule ==
  ASSUME Working, parseModule
  PROVE  Moves \/ Returns
  <1>1. /\ Len(agenda) = 1 /\ Tail(agenda) = <<>> /\ agenda[1][1] = "module"
        /\ Head(agenda)[1] = "module"
    BY AtModule DEF parseModule, Doing, Working
  <1>2. CASE check("eof")
    <2>1. /\ module' = <<nodes[2]>> /\ agenda' = <<>> \o Tail(agenda)
          /\ UNCHANGED <<tokens, position, nodes, failing, diagnostics>>
      BY <1>2 DEF parseModule, Then
    <2>2. <<>> \o <<>> = <<>>
      OBVIOUS
    <2> QED
      BY <1>1, <1>2, <2>1, <2>2, Current DEF Returns
  <1>3. CASE ~ check("eof")
    <2> DEFINE items == <<Call("function"), Call("append"), Call("module")>>
    <2>1. Proceed(0, items)
      BY <1>3 DEF parseModule
    <2>2. /\ agenda' = items \o Tail(agenda) /\ State' = <<nodes, position>>
          /\ position' \in DOMAIN tokens
          /\ UNCHANGED <<tokens, failing, diagnostics, module>>
      BY <2>1, Current DEF Proceed, Go, Then, State, Working
    <2>3. Produces(tokens, Head(agenda), State, items, State')
      <3>1. Produces(tokens, Call("module"), State, items, <<nodes, position>>)
        BY StateParts, ProducesModule
      <3> QED
        BY <1>1, <2>2, <3>1, SameItem DEF Call, WithoutArgument
    <2>4. Listing(items) /\ agenda' = items
      <3>1. items \in Seq({Call("function"), Call("append"), Call("module")})
        OBVIOUS
      <3> HIDE DEF items
      <3>2. items \o <<>> = items
        BY <3>1, ConcatEmptySeq
      <3> QED
        BY <1>1, <2>2, <3>1, <3>2 DEF Listing
    <2>5. Shape(items)
      <3>1. Len(items) = 3 /\ items # <<>>
        OBVIOUS
      <3>2. ASSUME NEW i \in 1 .. 3
            PROVE  (items[i][1] = "module" <=> i = 3) /\ Proper(items[i])
        BY DEF Call, Proper
      <3> QED
        BY <2>4, <3>1, <3>2 DEF Shape
    <2> HIDE DEF items
    <2> QED
      BY <2>2, <2>3, <2>4, <2>5 DEF Moves
  <1> QED
    BY <1>2, <1>3

LEMMA StepParse ==
  ASSUME Working, Parse, ~ failing
  PROVE  Moves \/ reportAtCurrent \/ Returns
  <1>1. ~ ReturnNull
    BY DEF ReturnNull
  <1>2. CASE parseBinaryRHS
    BY <1>2, StepRHS, StepClimb DEF parseBinaryRHS
  <1> QED
    BY <1>1, <1>2, StepExpect, StepName, StepList, StepAppend, StepEmptyName,
       StepModule, StepFunction, StepType, StepPointee, StepCaller,
       StepParameters, StepBlock, StepStatement, StepElse, StepOperands,
       StepExpression, StepPrimary, StepArguments, StepMake, Zenon DEF Parse

LEMMA StepFailing ==
  ASSUME Parse, failing \/ agenda = <<>>
  PROVE  ReturnNull
  <1>1. \A f : ~ Doing(f)
    BY DEF Doing
  <1> QED
    BY <1>1, Zenon
       DEF Parse, expect, parseName, OpenList, Append1, EmptyName, parseModule,
           parseFunction, parseType, parsePointee, ReturnToCaller,
           parseParameters, parseBlock, parseStatement, parseElse,
           parseOperands, parseExpression, parseBinaryRHS, parsePrimary,
           parseArguments, make_unique

---------------------------------------------------------------------------
(* The inductive invariant.  While the lexer works, nothing has been       *)
(* parsed; then the parser has reported its failure, or the promise holds, *)
(* or its module is returned.                                              *)
Scanned ==
  /\ position = 1 /\ agenda = <<Call("module")>> /\ nodes = << <<>>, <<>> >>
  /\ failing = FALSE /\ diagnostics = <<>> /\ module = <<>>
  /\ Listing(lexed) /\ lexing \in BOOLEAN
  /\ lexing => \A i \in 1 .. Len(lexed) : lexed[i].kind # "eof"
  /\ ~ lexing => Ended(lexed)

Reported ==
  /\ module = <<>> /\ Listing(agenda)
  /\ diagnostics \in Seq({position}) /\ diagnostics # <<>>

Reading ==
  diagnostics = <<>> /\ Shape(agenda) /\ Promise(tokens, agenda, State)

Parsed ==
  /\ diagnostics = <<>> /\ agenda = <<>>
  /\ Means(tokens, module[1])

Parsing ==
  /\ Ended(tokens) /\ position \in DOMAIN tokens /\ failing \in BOOLEAN
  /\ failing => Reported
  /\ ~ failing /\ module = <<>> => Reading
  /\ ~ failing /\ module # <<>> => Parsed

FrontEndInv ==
  /\ stage = "lexing" => Scanned
  /\ stage \in {"parsing", "accepted"} => tokens = lexed
  /\ stage = "parsing" => Parsing
  /\ stage = "accepted" => module # <<>> /\ Means(tokens, module[1])

LEMMA ParsingStep ==
  ASSUME Parsing, Parse
  PROVE  Parsing' /\ tokens' = tokens
  <1>1. CASE failing
    <2>1. /\ UNCHANGED <<tokens, position, nodes, failing, module>>
          /\ agenda # <<>> /\ agenda' = Tail(agenda)
          /\ \/ diagnostics' = Append(diagnostics, position)
             \/ diagnostics' = diagnostics
      BY <1>1, StepFailing DEF ReturnNull
    <2>2. Reported
      BY <1>1 DEF Parsing
    <2>3. Listing(agenda')
      BY <2>1, <2>2, TailOfList DEF Reported
    <2>4. diagnostics' \in Seq({position}) /\ diagnostics' # <<>>
      BY <2>1, <2>2 DEF Reported
    <2> QED
      BY <1>1, <2>1, <2>2, <2>3, <2>4 DEF Parsing, Reported
  <1>2. CASE ~ failing /\ module = <<>>
    <2>1. Reading /\ Working
      BY <1>2 DEF Parsing, Reading, Working
    <2>2. CASE Moves
      <3>1. PICK items : /\ Listing(items)
                         /\ agenda' = items \o Tail(agenda) /\ Shape(agenda')
                         /\ Produces(tokens, Head(agenda), State, items,
                                     State')
        BY <2>2 DEF Moves
      <3>2. Promise(tokens, items \o Tail(agenda), State')
        BY <2>1, <3>1, KeepPromise DEF Reading, Shape
      <3>3. /\ position' \in DOMAIN tokens
            /\ UNCHANGED <<tokens, failing, diagnostics, module>>
        BY <2>2 DEF Moves
      <3>4. Reading'
        BY <2>1, <3>1, <3>2, <3>3 DEF Reading
      <3> QED
        BY <1>2, <3>3, <3>4 DEF Parsing
    <2>3. CASE reportAtCurrent
      <3>1. Listing(agenda) /\ diagnostics = <<>>
        BY <2>1 DEF Reading, Shape
      <3>2. /\ diagnostics' = Append(diagnostics, position) /\ failing' = TRUE
            /\ UNCHANGED <<tokens, position, agenda, nodes, module>>
        BY <2>3 DEF reportAtCurrent
      <3>3. diagnostics' \in Seq({position}) /\ diagnostics' # <<>>
        BY <3>1, <3>2
      <3> QED
        BY <1>2, <3>1, <3>2, <3>3 DEF Parsing, Reported
    <2>4. CASE Returns
      <3>1. Means(tokens, nodes[2])
        BY <2>1, <2>4, StateParts, LastPromise DEF Returns, Working, Reading
      <3>2. /\ module' = <<nodes[2]>> /\ agenda' = <<>>
            /\ UNCHANGED <<tokens, position, nodes, failing, diagnostics>>
        BY <2>4 DEF Returns
      <3> QED
        BY <1>2, <2>1, <3>1, <3>2 DEF Parsing, Parsed, Reading
    <2> QED
      BY <1>2, <2>1, <2>2, <2>3, <2>4, StepParse
  <1>3. CASE ~ failing /\ module # <<>>
    <2>1. ReturnNull
      BY <1>3, StepFailing DEF Parsing, Parsed
    <2> QED
      BY <1>3, <2>1 DEF ReturnNull
  <1> QED
    BY <1>1, <1>2, <1>3 DEF Parsing

(* The lexer makes a list of tokens, the last of which ends the file.      *)
LEMMA ScanningStep ==
  ASSUME Scanned, Lex, UNCHANGED parserVars
  PROVE  Scanned'
  <1>1. /\ UNCHANGED <<position, agenda, nodes, failing, diagnostics, module>>
    BY DEF parserVars
  <1>2. \/ UNCHANGED <<lexed, lexing>>
        \/ /\ lexing /\ UNCHANGED lexing
           /\ \E t : t.kind # "eof" /\ lexed' = Append(lexed, t)
        \/ /\ lexing /\ lexing' = FALSE
           /\ \E t : t.kind = "eof" /\ lexed' = Append(lexed, t)
    <2>1. CASE SkipBlank \/ SkipComment \/ reportInvalidCharacter
      BY <2>1, Zenon DEF SkipBlank, SkipComment, reportInvalidCharacter
    <2>2. ASSUME NEW kind, NEW n, kind # "eof", MakeToken(kind, n), lexing
          PROVE  /\ lexing /\ UNCHANGED lexing
                 /\ \E t : t.kind # "eof" /\ lexed' = Append(lexed, t)
      <3> DEFINE t == [kind |-> kind, line |-> line, column |-> column,
                       lexeme |-> SubSeq(source, current + 1, current + n)]
      <3>1. lexed' = Append(lexed, t) /\ UNCHANGED lexing
        BY <2>2 DEF MakeToken
      <3>2. t.kind # "eof"
        BY <2>2
      <3> QED
        BY <2>2, <3>1, <3>2
    <2>3. CASE LexIdentifierOrKeyword
      <3>1. "eof" \notin Keywords
        BY DEF Keywords, IntegerTypes, KernelKeywords, Selects, Masks,
               MaskLogicals, MaskedBinaries, MatrixMultiplies, VectorAdds
      <3>2. PICK kind, n : /\ kind \in Keywords \cup {"identifier"}
                           /\ MakeToken(kind, n)
        BY <2>3 DEF LexIdentifierOrKeyword
      <3> QED
        BY <2>2, <2>3, <3>1, <3>2 DEF LexIdentifierOrKeyword, AtToken
    <2>4. CASE LexInteger
      BY <2>2, <2>4 DEF LexInteger, AtToken
    <2>5. CASE LexOperator
      <3>1. "eof" \notin Singles \cup Doubles
        BY Marks, Zenon DEF Singles, Doubles
      <3>2. PICK kind, n : kind \in Singles \cup Doubles /\ MakeToken(kind, n)
        BY <2>5 DEF LexOperator
      <3> QED
        BY <2>2, <2>5, <3>1, <3>2 DEF LexOperator, AtToken
    <2>6. CASE LexEndOfFile
      <3>1. /\ lexing /\ lexing' = FALSE
            /\ \E t : t.kind = "eof" /\ lexed' = Append(lexed, t)
        BY <2>6, Zenon DEF LexEndOfFile
      <3> QED
        BY <3>1
    <2> QED
      BY <2>1, <2>3, <2>4, <2>5, <2>6, Zenon DEF Lex
  <1>3. PICK S : lexed \in Seq(S)
    BY DEF Scanned, Listing
  <1>4. CASE UNCHANGED <<lexed, lexing>>
    BY <1>1, <1>4 DEF Scanned
  <1>5. ASSUME lexing, NEW t, lexed' = Append(lexed, t)
        PROVE  /\ lexed' \in Seq(S \cup {t}) /\ Len(lexed') = Len(lexed) + 1
               /\ Len(lexed) \in Nat /\ lexed'[Len(lexed')] = t
               /\ \A i \in 1 .. Len(lexed) : /\ lexed'[i] = lexed[i]
                                             /\ lexed[i].kind # "eof"
    <2>1. lexed \in Seq(S \cup {t}) /\ t \in S \cup {t}
      BY <1>3, SeqMonotonic
    <2> QED
      BY <1>5, <2>1, AppendProperties DEF Scanned
  <1>6. CASE /\ lexing /\ UNCHANGED lexing
             /\ \E t : t.kind # "eof" /\ lexed' = Append(lexed, t)
    <2>1. PICK t : t.kind # "eof" /\ lexed' = Append(lexed, t)
      BY <1>6
    <2>2. \A i \in 1 .. Len(lexed') : lexed'[i].kind # "eof"
      <3>1. /\ Len(lexed') = Len(lexed) + 1 /\ Len(lexed) \in Nat
            /\ lexed'[Len(lexed')] = t
            /\ \A i \in 1 .. Len(lexed) : lexed'[i].kind # "eof"
        BY <1>5, <1>6, <2>1
      <3> QED
        BY <2>1, <3>1
    <2>3. Listing(lexed')
      BY <1>5, <1>6, <2>1 DEF Listing
    <2> QED
      BY <1>1, <1>6, <2>2, <2>3 DEF Scanned
  <1>7. CASE /\ lexing /\ lexing' = FALSE
             /\ \E t : t.kind = "eof" /\ lexed' = Append(lexed, t)
    <2>1. PICK t : t.kind = "eof" /\ lexed' = Append(lexed, t)
      BY <1>7
    <2>2. /\ lexed' \in Seq(S \cup {t}) /\ Len(lexed') = Len(lexed) + 1
          /\ Len(lexed) \in Nat /\ lexed'[Len(lexed')] = t
          /\ \A i \in 1 .. Len(lexed) : /\ lexed'[i] = lexed[i]
                                        /\ lexed[i].kind # "eof"
      BY <1>5, <1>7, <2>1
    <2>3. \A i \in DOMAIN lexed' : lexed'[i].kind = "eof" <=> i = Len(lexed')
      BY <2>1, <2>2, LenProperties
    <2>4. Ended(lexed') /\ Listing(lexed')
      BY <2>2, <2>3 DEF Ended, Listing
    <2> QED
      BY <1>1, <1>7, <2>4 DEF Scanned
  <1> QED
    BY <1>2, <1>4, <1>6, <1>7

---------------------------------------------------------------------------
LEMMA FrontEndStart == Init => FrontEndInv
  <1> SUFFICES ASSUME Init PROVE FrontEndInv
    OBVIOUS
  <1>1. Listing(<<>>) /\ Len(<<>>) = 0
    <2>1. <<>> \in Seq({}) /\ Len(<<>>) = 0
      OBVIOUS
    <2> QED
      BY <2>1 DEF Listing
  <1> QED
    BY <1>1 DEF Init, LexerInit, ParserInit, FrontEndInv, Scanned

LEMMA FrontEndStep == FrontEndInv /\ [Next]_vars => FrontEndInv'
  <1> SUFFICES ASSUME FrontEndInv, [Next]_vars PROVE FrontEndInv'
    OBVIOUS
  <1>1. CASE StepLexer
    <2>1. Scanned'
      BY <1>1, ScanningStep DEF StepLexer, FrontEndInv
    <2> QED
      BY <1>1, <2>1 DEF StepLexer, FrontEndInv
  <1>2. CASE LexerHasError
    BY <1>2 DEF LexerHasError, FrontEndInv, lexerVars, parserVars
  <1>3. CASE StartParser
    <2>1. /\ Scanned /\ ~ lexing /\ tokens' = lexed /\ stage' = "parsing"
          /\ UNCHANGED <<lexed, position, agenda, nodes, failing, diagnostics,
                         module>>
      BY <1>3 DEF StartParser, FrontEndInv, lexerVars
    <2>2. Ended(lexed) /\ 1 \in DOMAIN lexed
      BY <2>1 DEF Scanned, Ended
    <2>3. Promise(lexed, agenda, State) /\ State' = State
      BY <2>1, <2>2, FirstPromise DEF Scanned, State
    <2>4. Shape(agenda)
      <3>1. agenda \in Seq({Call("module")}) /\ Len(agenda) = 1
        BY <2>1 DEF Scanned
      <3>2. agenda[1][1] = "module" /\ Proper(agenda[1]) /\ agenda # <<>>
        BY <2>1 DEF Scanned, Call, Proper
      <3> QED
        BY <3>1, <3>2 DEF Shape, Listing
    <2>5. Parsing'
      BY <2>1, <2>2, <2>3, <2>4 DEF Parsing, Reading, Scanned
    <2> QED
      BY <2>1, <2>5 DEF FrontEndInv
  <1>4. CASE StepParser
    <2>1. Parsing' /\ tokens' = tokens
      BY <1>4, ParsingStep DEF StepParser, FrontEndInv
    <2> QED
      BY <1>4, <2>1 DEF StepParser, FrontEndInv, lexerVars
  <1>5. CASE ParserReturned
    <2>1. /\ Parsing /\ agenda = <<>>
          /\ stage' = IF diagnostics # <<>> THEN "failed" ELSE "accepted"
          /\ UNCHANGED <<lexed, tokens, module>> /\ tokens = lexed
      BY <1>5 DEF ParserReturned, FrontEndInv, lexerVars, parserVars
    <2>2. diagnostics = <<>> => module # <<>> /\ Means(tokens, module[1])
      BY <2>1 DEF Parsing, Reported, Reading, Shape, Parsed
    <2> QED
      BY <2>1, <2>2 DEF FrontEndInv
  <1>6. CASE UNCHANGED vars
    BY <1>6 DEF vars, FrontEndInv, Scanned, Parsing, Reported, Reading, Parsed,
                lexerVars, parserVars, State
  <1> QED
    BY <1>1, <1>2, <1>3, <1>4, <1>5, <1>6 DEF Next

(* In every state of the front end the invariant holds: what has been read *)
(* so far, together with the calls in progress, can only become a module   *)
(* that the grammar derives, or a failure that has been reported.          *)
THEOREM FrontEndInvariant == Spec => []FrontEndInv
  BY FrontEndStart, FrontEndStep, PTL DEF Spec

(* A failure of the parser is always reported, a report always goes with a *)
(* failure, and all reports name the token it stopped at.                  *)
THEOREM FailuresAreDiagnosed == Spec => []FailureIsDiagnosed
  <1>1. FrontEndInv => FailureIsDiagnosed
    <2> SUFFICES ASSUME FrontEndInv, stage = "parsing", agenda = <<>>
                 PROVE  /\ module = <<>> <=> diagnostics # <<>>
                        /\ \A d \in ToSet(diagnostics) : d = diagnostics[1]
      BY DEF FailureIsDiagnosed
    <2>1. Parsing
      BY DEF FrontEndInv
    <2>2. CASE failing
      <3>1. /\ module = <<>> /\ diagnostics \in Seq({position})
            /\ diagnostics # <<>>
        BY <2>1, <2>2 DEF Parsing, Reported
      <3>2. /\ Len(diagnostics) \in Nat \ {0}
            /\ DOMAIN diagnostics = 1 .. Len(diagnostics)
        BY <3>1, EmptySeq, LenProperties
      <3>3. \A i \in DOMAIN diagnostics : diagnostics[i] = position
        BY <3>1, <3>2, ElementOfSeq
      <3> QED
        BY <3>1, <3>2, <3>3 DEF ToSet
    <2>3. CASE ~ failing
      <3>1. module # <<>> /\ diagnostics = <<>>
        BY <2>1, <2>3 DEF Parsing, Reading, Shape, Parsed
      <3> QED
        BY <3>1 DEF ToSet
    <2> QED
      BY <2>1, <2>2, <2>3 DEF Parsing
  <1> QED
    BY <1>1, FrontEndInvariant, PTL

(* The parser accepts nothing but what the grammar derives, and returns    *)
(* what it derives: the tokens of an accepted text mean the module that the*)
(* caller uses.                                                            *)
THEOREM AcceptedIsMeant ==
  Spec => [](stage = "accepted" => module # <<>> /\ Means(lexed, module[1]))
  <1>1. FrontEndInv =>
          (stage = "accepted" => module # <<>> /\ Means(lexed, module[1]))
    BY DEF FrontEndInv
  <1> QED
    BY <1>1, FrontEndInvariant, PTL

=============================================================================
