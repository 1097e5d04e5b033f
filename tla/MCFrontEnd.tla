----------------------------- MODULE MCFrontEnd ----------------------------
(***************************************************************************)
(* Source texts: odd sequences of characters; every tree of up to three    *)
(* operators; every vector and matrix statement; the other constructs; and *)
(* modules with one token left out, replaced, or nothing behind it.        *)
(***************************************************************************)
EXTENDS FrontEndText

MCNul == "@"

---------------------------------------------------------------------------
(* A token a line, or a space behind it.                                   *)
Joined(texts) ==
  FoldLeft(LAMBDA s, t : s \o t \o (IF t \in {";", "{"} THEN "\n" ELSE " "),
           "", texts)

Odd(text) == [text |-> text, meant |-> <<>>, sound |-> 0]
Written(m) == [text |-> Joined(ModuleText(m)), meant |-> <<m>>, sound |-> 0]
Grouped(texts, m) == [text |-> Joined(texts), meant |-> <<m>>, sound |-> 0]

OddTexts ==
  { "", "\n", "//", "// a\n\r\n\tfunc", "a//b\nc", "a / / b", "a/b//", "1//@",
    "3x x3 _1", "i32i32 i8 func1", "-->->=", "===!=<=>=<>", "a!b", "!=!",
    "$\n $a$", "if(else)while", "func\tf\r\n()->i32{}", "func f()->i32{",
    "func f()->i32{return 1;}}", "func f()->ptr<i32{", "func 1", "f" } \cup
  { "@", "a @ b", "a\n@" }

---------------------------------------------------------------------------
Module1(body) == <<FunctionAST("f", <<>>, "i32", body)>>
v(name) == VariableExprAST(name)

RECURSIVE Trees(_)
Trees(n) ==
  IF n = 0 THEN {v("a")}
  ELSE UNION {{BinaryExprAST(op, l, r) :
                 op \in {"-", "*", "<"}, l \in Trees(k),
                 r \in Trees(n - 1 - k)} : k \in 0 .. n - 1}

Trees3 == UNION {Trees(n) : n \in 0 .. 3}

(* The name of every field, so that two of them cannot be mixed up.        *)
KernelStatement(k) ==
  LET fields == FieldsOf(k)
  IN  Statement(k, fields,
        [i \in DOMAIN fields |->
           IF IsExpression(fields[i]) THEN v(fields[i])
           ELSE IF k = "vector_mask_not" /\ fields[i] = "rhs" THEN ""
           ELSE fields[i]])

Call2 == CallExprAST("g", <<IntegerExprAST("1"), LoadExprAST("b", v("i"))>>)
Parameters ==
  << ParameterAST("x", "i8"), ParameterAST("p", "ptr<i16>") >>

Loads == <<FunctionAST("f", Parameters, "ptr<i64>",
                       <<ReturnStmtAST(LoadExprAST("p", v("x")))>>)>>
Branches == Module1(
  << IfStmtAST(v("c"), <<PrintI32StmtAST(Call2)>>,
               <<AssignStmtAST("x", v("y"))>>) >>)
Loops == Module1(
  << WhileStmtAST(v("c"), <<IfStmtAST(v("d"), <<>>, <<>>)>>),
     LetStmtAST("z", CallExprAST("h", <<>>)) >>)
Stores == Module1(
  << StoreStmtAST("b", v("i"), v("x")),
     KernelStatement("vector_masked_strided_load") >>)
Two == Module1(<<>>) \o <<FunctionAST("g", Parameters, "i32", <<>>)>>

Modules == {<<>>, Loads, Branches, Loops, Stores, Two}

Parenthesised ==
  { Grouped(<<"func", "f", "(", ")", "->", "i32", "{", "return", "(", "(",
              "a", ")", "-", "(", "b", "*", "c", ")", ")", ";", "}">>,
            Module1(<<ReturnStmtAST(BinaryExprAST("-", v("a"),
                        BinaryExprAST("*", v("b"), v("c"))))>>)),
    Grouped(<<"func", "f", "(", ")", "->", "i32", "{", "x", "=", "g", "(",
              "(", "a", ")", ",", "(", "(", "b", ")", ")", ")", ";", "}">>,
            Module1(<<AssignStmtAST("x",
                        CallExprAST("g", <<v("a"), v("b")>>))>>)) }

---------------------------------------------------------------------------
(* An edit at token k leaves the tokens before it as they were; only of    *)
(* "x =" the "x" is to blame when the "=" is gone.                         *)
Edited(texts, k) ==
  LET before == SubSeq(texts, 1, k - 1)
      after == SubSeq(texts, k + 1, Len(texts))
      target == /\ k > 2 /\ texts[k] = "="
                /\ texts[k - 1] # "]" /\ texts[k - 2] # "let"
      Source(ts) == [text |-> Joined(ts), meant |-> <<>>,
                     sound |-> IF target THEN k - 2 ELSE k - 1]
  IN  {Source(before \o new \o after) :
         new \in {<<>>, <<"}">>, <<"a">>, <<"ptr">>, <<texts[k], "(">>}}
        \cup {Source(before)}

Edits(m) == LET texts == ModuleText(m)
            IN  UNION {Edited(texts, k) : k \in DOMAIN texts}

MCSources ==
  {Odd(text) : text \in OddTexts}
    \cup {Written(Module1(<<ReturnStmtAST(e)>>)) : e \in Trees3}
    \cup {Written(Module1(<<KernelStatement(k)>>)) : k \in KernelKeywords}
    \cup {Written(m) : m \in Modules}
    \cup Parenthesised
    \cup UNION {Edits(m) : m \in {Loads, Branches, Loops, Stores, Two}}
============================================================================
