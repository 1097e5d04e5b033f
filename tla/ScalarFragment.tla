-------------------------- MODULE ScalarFragment ---------------------------
(***************************************************************************)
(* The programs that the register discipline of ScalarCodeGen has room     *)
(* for, told from their source alone.  Temporaries are handed out in turn, *)
(* seven in all: a value is still there after at most six further draws.   *)
(***************************************************************************)
EXTENDS ScalarCodeGen

RECURSIVE Draws(_), DrawsAll(_), NamesIn(_), NamesInAll(_), CallsIn(_)

(* The temporaries the code of an expression draws.                        *)
Draws(x) ==
  CASE x.kind = "integer"  -> 1
    [] x.kind = "variable" -> 0
    [] x.kind = "binary"   -> Draws(x.lhs) + Draws(x.rhs) + 1
    [] x.kind = "call"     -> DrawsAll(x.args) + 1
    [] x.kind = "load"     -> Draws(x.index) + 3

DrawsAll(xs) == FoldLeft(LAMBDA n, x : n + Draws(x), 0, xs)

NamesIn(x) ==
  CASE x.kind = "integer"  -> {}
    [] x.kind = "variable" -> {x.name}
    [] x.kind = "binary"   -> NamesIn(x.lhs) \cup NamesIn(x.rhs)
    [] x.kind = "call"     -> NamesInAll(x.args)
    [] x.kind = "load"     -> {x.buffer} \cup NamesIn(x.index)

NamesInAll(xs) == UNION {NamesIn(xs[i]) : i \in DOMAIN xs}

CallsIn(x) ==
  CASE x.kind = "binary" -> CallsIn(x.lhs) \/ CallsIn(x.rhs)
    [] x.kind = "call"   -> TRUE
    [] x.kind = "load"   -> CallsIn(x.index)
    [] OTHER -> FALSE

---------------------------------------------------------------------------
(* A function as its pieces in the order of their code: statements without *)
(* a block, and the conditions of those with one.  `fresh` tells whether a *)
(* name is bound to a temporary, of which `own` draws are made later in the*)
(* piece; `wipes` whether the piece is a matrix statement.                 *)
Piece(draws, fresh, own, wipes) ==
  [draws |-> draws, fresh |-> fresh, own |-> own, wipes |-> wipes]

Operands(st) ==
  CASE st.kind \in {"let", "assign", "print_i32", "return"} -> <<st.value>>
    [] st.kind = "store"  -> <<st.index, st.value>>
    [] st.kind = "kernel" -> st.operands
    [] st.kind = "vector_reduce_add" -> <<st.length>>
    [] st.kind \in {"if", "while"}   -> <<st.cond>>

Blocks(st) ==
  CASE st.kind = "if"    -> <<st.then, st.else>>
    [] st.kind = "while" -> <<st.body>>
    [] OTHER -> <<>>

PieceOf(st) ==
  LET n == DrawsAll(Operands(st))
  IN  CASE st.kind \in {"let", "assign"} ->
             Piece(n, st.value.kind # "variable", 0, FALSE)
        [] st.kind = "store"  -> Piece(n + 2, FALSE, 0, FALSE)
        [] st.kind = "vector_reduce_add" -> Piece(n + 5, TRUE, 4, FALSE)
        [] st.kind = "kernel" ->
             IF IsMatrix(st.name)
               THEN Piece(n, FALSE, 0, TRUE)
               ELSE Piece(n + LoopRegisters(st.name), FALSE, 0, FALSE)
        [] OTHER -> Piece(n, FALSE, 0, FALSE)

RECURSIVE Pieces(_)
Pieces(stmts) ==
  FlattenSeq([i \in DOMAIN stmts |->
    <<PieceOf(stmts[i])>> \o
    FlattenSeq([b \in DOMAIN Blocks(stmts[i]) |->
                 Pieces(Blocks(stmts[i])[b])])])

(* No value is overwritten while it is needed: not within a piece, and, of *)
(* a variable, not by the rest of the function.                            *)
TemporariesSuffice(stmts) ==
  LET p == Pieces(stmts)
      Later(i) == FoldLeft(LAMBDA n, q : n + q.draws, 0,
                           SubSeq(p, i + 1, Len(p)))
  IN  \A i \in DOMAIN p :
        /\ p[i].draws <= 7
        /\ p[i].fresh =>
             /\ p[i].own + Later(i) <= 6
             /\ \A j \in i + 1 .. Len(p) : ~ p[j].wipes

---------------------------------------------------------------------------
RECURSIVE Bound(_), Mentions(_), BindingsStay(_, _), MayReturn(_),
          AlwaysReturns(_), MakesCalls(_)

BoundBy(st) ==
  CASE st.kind \in {"let", "assign"} -> {st.name}
    [] st.kind = "vector_reduce_add" -> {st.result}
    [] OTHER -> {}

Own(st) ==
  BoundBy(st) \cup NamesInAll(Operands(st)) \cup
  CASE st.kind = "store"  -> {st.buffer}
    [] st.kind = "kernel" -> ToSet(st.buffers)
    [] st.kind = "vector_reduce_add" -> {st.input}
    [] OTHER -> {}

Bound(stmts) ==
  UNION {BoundBy(stmts[i]) \cup UNION {Bound(Blocks(stmts[i])[b]) :
                                         b \in DOMAIN Blocks(stmts[i])} :
           i \in DOMAIN stmts}

Mentions(stmts) ==
  UNION {Own(stmts[i]) \cup UNION {Mentions(Blocks(stmts[i])[b]) :
                                     b \in DOMAIN Blocks(stmts[i])} :
           i \in DOMAIN stmts}

(* A name bound in a block occurs nowhere but in that block.               *)
BindingsStay(stmts, outside) ==
  \A i \in DOMAIN stmts :
    LET blocks == Blocks(stmts[i])
        around == outside \cup Own(stmts[i])
                    \cup UNION {Mentions(<<stmts[j]>>) :
                                  j \in DOMAIN stmts \ {i}}
    IN  \A b \in DOMAIN blocks :
          LET other == around \cup UNION {Mentions(blocks[c]) :
                                            c \in DOMAIN blocks \ {b}}
          IN  /\ Bound(blocks[b]) \cap other = {}
              /\ BindingsStay(blocks[b], other)

MayReturn(stmts) ==
  \E i \in DOMAIN stmts :
    \/ stmts[i].kind = "return"
    \/ \E b \in DOMAIN Blocks(stmts[i]) : MayReturn(Blocks(stmts[i])[b])

AlwaysReturns(stmts) ==
  \E i \in DOMAIN stmts :
    \/ stmts[i].kind = "return"
    \/ stmts[i].kind = "if" /\ AlwaysReturns(stmts[i].then)
                            /\ AlwaysReturns(stmts[i].else)

(* The epilogue is left out of a function that has a return anywhere.      *)
Ends(stmts) == MayReturn(stmts) => AlwaysReturns(stmts)

MakesCalls(stmts) ==
  \E i \in DOMAIN stmts :
    \/ \E j \in DOMAIN Operands(stmts[i]) : CallsIn(Operands(stmts[i])[j])
    \/ \E b \in DOMAIN Blocks(stmts[i]) : MakesCalls(Blocks(stmts[i])[b])

(* A function whose code does what its source says.                        *)
InFragment(f) ==
  /\ ~ MakesCalls(f.body)
  /\ TemporariesSuffice(f.body)
  /\ BindingsStay(f.body, ToSet(f.params))
  /\ Ends(f.body)

(* A function that gets as far as its first call, an argument of which is  *)
(* not moved after its register has been given another one.                *)
ReachesCall(f, st) ==
  /\ st.kind \in {"let", "assign", "return", "print_i32"}
  /\ st.value.kind = "call"
  /\ LET actual == st.value.args
     IN  /\ Len(actual) <= 8
         /\ \A i \in DOMAIN actual :
              /\ ~ CallsIn(actual[i])
              /\ actual[i].kind = "variable" =>
                   LET p == SelectInSeq(f.params,
                                        LAMBDA x : x = actual[i].name)
                   IN  p = 0 \/ p >= i

FirstCallInFragment(f) ==
  \E k \in DOMAIN f.body :
    LET before == SubSeq(f.body, 1, k - 1)
    IN  /\ ReachesCall(f, f.body[k])
        /\ ~ MakesCalls(before) /\ ~ MayReturn(before)
        /\ TemporariesSuffice(SubSeq(f.body, 1, k))
        /\ BindingsStay(SubSeq(f.body, 1, k), ToSet(f.params))
        /\ \A i \in 1 .. k - 1 :
             f.body[i].kind \in {"let", "assign"} =>
               f.body[i].value.kind # "variable"
============================================================================
