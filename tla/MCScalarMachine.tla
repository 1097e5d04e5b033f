-------------------------- MODULE MCScalarMachine --------------------------
(***************************************************************************)
(* The programs and inputs on which ScalarMachine is checked.              *)
(***************************************************************************)
EXTENDS ScalarMachine

Num(n) == [kind |-> "integer", value |-> n]
Var(x) == [kind |-> "variable", name |-> x]
Bin(op, l, r) == [kind |-> "binary", op |-> op, lhs |-> l, rhs |-> r]
CallOf(f, as) == [kind |-> "call", callee |-> f, args |-> as]
Load(b, i) == [kind |-> "load", buffer |-> b, index |-> i]

Let(x, e) == [kind |-> "let", name |-> x, value |-> e]
Assign(x, e) == [kind |-> "assign", name |-> x, value |-> e]
Store(b, i, e) == [kind |-> "store", buffer |-> b, index |-> i, value |-> e]
PrintI32(e) == [kind |-> "print_i32", value |-> e]
Return(e) == [kind |-> "return", value |-> e]
If(c, t, e) == [kind |-> "if", cond |-> c, then |-> t, else |-> e]
While(c, b) == [kind |-> "while", cond |-> c, body |-> b]
Kernel(n, bs, es) ==
  [kind |-> "kernel", name |-> n, buffers |-> bs, operands |-> es]
ReduceAdd(r, b, n) ==
  [kind |-> "vector_reduce_add", result |-> r, input |-> b, length |-> n]
Func(f, ps, body) == [name |-> f, params |-> ps, body |-> body]

a == Var("a")   b == Var("b")   c == Var("c")
x == Var("x")   y == Var("y")   z == Var("z")
Params == <<"a", "b", "c">>
Main(body) == <<Func("main", Params, body)>>

MCWordBits == 8
MCFuel == 12
MCGarbage == {0, 77}
Memory == [i \in 0 .. 5 |-> <<3, -128, 127, 0, 5, -7>>[i + 1]]

(* A sequence with the runs of a program on each of some inputs.           *)
On(inputs, prog) ==
  [i \in DOMAIN inputs |->
     [program |-> prog, args |-> inputs[i], mem |-> Memory]]

All(inputs, progs) == FlattenSeq([i \in DOMAIN progs |-> On(inputs, progs[i])])

---------------------------------------------------------------------------
(* Every operator, at the ends of the word and around zero.                *)
Operators == <<"+", "-", "*", "/", "<", "<=", ">", ">=", "==", "!=">>
Ends8 == <<-128, -1, 0, 1, 7, 127>>
Pairs == [i \in 1 .. 36 |->
            <<Ends8[((i - 1) \div 6) + 1], Ends8[((i - 1) % 6) + 1], 5>>]

OperatorRuns ==
  All(Pairs, [i \in DOMAIN Operators |->
    Main(<<Return(Bin(Operators[i], a, b))>>)])

Few == << <<-128, 3, 7>>, <<0, -1, 2>>, <<4, 12, 0>> >>

(* Expressions of five, seven and nine temporaries, and a variable that    *)
(* outlives six or seven of them.                                          *)
Chain(n) ==
  LET f[i \in 1 .. n] == IF i = n THEN Num(n) ELSE Bin("-", Num(i), f[i + 1])
  IN  f[1]

TemporaryRuns ==
  All(Few,
    << Main(<<Return(Chain(3))>>), Main(<<Return(Chain(4))>>),
       Main(<<Return(Chain(5))>>),
       Main(<<Let("x", Num(9)), Let("y", Bin("*", a, Chain(3))), Return(x)>>),
       Main(<<Let("x", Num(9)), Let("y", Chain(4)), Return(x)>>),
       Main(<<Let("x", Bin("+", a, b)), Assign("x", Bin("*", x, x)),
              Let("y", x), Return(Bin("-", y, Num(1)))>>),
       Main(<<Assign("a", b), Let("z", a), Return(Bin("/", c, z))>>),
       Main(<<Return(Bin("<=", Load("c", Num(0)), Load("c", Num(0))))>>),
       Main(<<>>), Main(<<Let("x", a)>>), Main(<<Return(x)>>),
       Main(<<Store("q", Num(0), a)>>), Main(<<Return(Load("q", a))>>),
       <<Func("main", <<"p0", "p1", "p2", "p3", "p4", "p5", "p6", "p7", "p8">>,
              <<Return(Var("p8"))>>)>> >>)

(* a holds the address of a buffer of the memory.                          *)
Buffers == << <<0, 1, 2>>, <<8, 0, 3>>, <<16, 2, 0>> >>

MemoryRuns ==
  All(Buffers,
    << Main(<<Return(Load("a", b))>>), Main(<<Return(Load("a", Num(2)))>>),
       Main(<<Store("a", b, Load("a", Num(0))), Return(Load("a", b))>>),
       Main(<<Store("a", Num(0), Bin("*", b, c)), Store("a", Num(1), c)>>),
       Main(<<Let("x", Num(2)),
              Store("a", Num(0), Bin("+", Load("a", b), b)), Return(x)>>),
       Main(<<ReduceAdd("b", "a", c), Return(b)>>),
       Main(<<Let("x", Num(100)), ReduceAdd("x", "a", Num(2)), Return(x)>>),
       Main(<<ReduceAdd("b", "a", Bin("-", c, Num(1))), Return(b)>>),
       Main(<<Let("x", Num(1)), ReduceAdd("b", "a", c),
              Return(Bin("+", x, b))>>),
       Main(<<ReduceAdd("b", "a", c), Return(Bin("+", b, Num(1)))>>),
       Main(<<ReduceAdd("b", "a", c), Let("y", Chain(2)), Return(b)>>),
       Main(<<ReduceAdd("b", "a", Num(1)), ReduceAdd("b", "a", Num(1)),
              Return(b)>>) >>)

---------------------------------------------------------------------------
(* Numbers of every length, in a loop, and after other values.             *)
PrintRuns ==
  All([i \in DOMAIN Ends8 |-> <<Ends8[i], 40, -10>>],
    << Main(<<PrintI32(a), PrintI32(b), PrintI32(c), Return(a)>>),
       Main(<<Let("x", Bin("/", a, Num(3))), PrintI32(Bin("-", x, b)),
              Return(Bin("+", x, c))>>),
       Main(<<PrintI32(Num(-128)), PrintI32(Bin("<", a, b))>>),
       Main(<<Let("x", Num(7)), PrintI32(x), PrintI32(Num(0)), PrintI32(x),
              If(a, <<PrintI32(x)>>, <<PrintI32(b)>>), Return(x)>>) >>)

CountDown ==
  While(Bin(">", Load("a", Num(0)), Num(0)),
        <<Store("a", Num(0), Bin("-", Load("a", Num(0)), b))>>)

ControlRuns ==
  All(Buffers \o << <<4, 5, 6>>, <<16, -1, 127>> >>,
    << Main(<<If(b, <<Return(a)>>, <<Return(c)>>)>>),
       Main(<<If(Bin("<", b, c), <<Store("a", Num(0), Num(1))>>,
                                 <<Store("a", Num(1), b)>>),
              Return(Load("a", Num(0)))>>),
       Main(<<If(b, <<If(c, <<Return(Num(1))>>, <<Return(Num(2))>>)>>,
                    <<If(c, <<Return(Num(3))>>, <<Return(Num(4))>>)>>)>>),
       Main(<<If(Bin("==", b, Num(0)), <<>>, <<PrintI32(c)>>),
              If(c, <<PrintI32(b)>>, <<>>)>>),
       Main(<<While(Bin(">", Load("a", Num(0)), Num(0)),
                <<Store("a", Num(0), Num(0)), PrintI32(c)>>), Return(b)>>),
       Main(<<CountDown, Return(c)>>),
       Main(<<CountDown, If(c, <<Return(Num(7))>>, <<Return(b)>>)>>),
       Main(<<While(b, <<PrintI32(c), Return(a)>>), Return(c)>>),
       Main(<<While(Num(0), <<>>), If(b, <<Let("x", Num(3)), PrintI32(x)>>,
                    <<Let("y", c), PrintI32(y)>>), Return(a)>>),
       \* out of the fragment: an assignment in a branch, a loop variable,
       \* a return on some paths
       Main(<<Let("x", Num(1)), If(b, <<Assign("x", Num(2))>>, <<>>),
              Return(x)>>),
       Main(<<Let("x", c), If(b, <<Assign("x", Num(0))>>,
                                 <<Assign("x", Num(2))>>), Return(x)>>),
       Main(<<If(b, <<Return(c)>>, <<>>)>>),
       <<Func("main", Params, <<If(b, <<Return(c)>>, <<PrintI32(c)>>)>>),
         Func("next", <<"a">>, <<Return(Num(99))>>)>>,
       <<Func("main", Params, <<Let("x", Num(1)), Let("y", Bin("+", x, x))>>),
         Func("next", <<"a">>, <<Return(Num(99))>>)>>,
       <<Func("main", Params, <<If(b, <<Return(c)>>, <<Return(a)>>)>>),
         Func("next", <<"a">>, <<Store("a", Num(0), Num(1))>>)>>,
       <<Func("main", Params, <<If(b, <<PrintI32(c)>>, <<>>)>>),
         Func("next", Params, <<While(b, <<>>)>>)>>,
       <<Func("main", Params, <<If(b, <<PrintI32(c)>>, <<>>)>>),
         Func("next", Params, <<If(b, <<>>, <<>>)>>)>> >>)

(* Every vector and matrix statement, with its length in a parameter, in a *)
(* literal and in a variable, and a variable that outlives it.             *)
Kernels ==
  << <<"vector_copy", 2, 1>>, <<"vector_scale", 2, 2>>,
     <<"vector_indexed_load", 3, 1>>, <<"vector_indexed_store", 3, 1>>,
     <<"vector_masked_indexed_store", 3, 1>>, <<"vector_add", 3, 1>>,
     <<"vector_mul", 3, 1>>, <<"vector_masked_store", 2, 1>>,
     <<"vector_masked_load", 3, 1>>, <<"vector_masked_indexed_load", 4, 1>>,
     <<"vector_strided_load", 2, 2>>, <<"vector_strided_store", 2, 2>>,
     <<"vector_widen_add_i16_i32", 3, 1>>, <<"vector_select", 5, 1>>,
     <<"vector_masked_add", 4, 1>>, <<"vector_masked_strided_load", 3, 2>>,
     <<"vector_masked_strided_store", 2, 2>>, <<"matrix_pack_b", 2, 2>>,
     <<"matrix_multiply", 3, 3>> >>

With(k, operands) ==
  Kernel(k[1], [i \in 1 .. k[2] |-> IF i = 1 THEN "a" ELSE "c"],
         [i \in 1 .. k[3] |-> operands[i]])

KernelRuns ==
  All(<< <<0, 2, 4>> >>, FlattenSeq([i \in DOMAIN Kernels |->
    LET k == Kernels[i] IN
    << Main(<<With(k, <<b, b, b>>), Return(b)>>),
       Main(<<With(k, <<Num(3), b, b>>), Return(c)>>),
       Main(<<With(k, <<b, Num(3), Chain(2)>>), PrintI32(b)>>),
       Main(<<Let("x", Num(1)), With(k, <<x, x, x>>), Return(x)>>),
       Main(<<Let("x", Num(1)), With(k, <<b, b, b>>), Return(x)>>) >>]))

---------------------------------------------------------------------------
Callee(ps) == Func("f", ps, IF Len(ps) > 8 THEN <<>> ELSE <<Return(a)>>)
CallRun(ps, before, actual) ==
  << Func("main", Params, before \o <<Return(CallOf("f", actual))>>),
     Callee(ps) >>

CallRuns ==
  All(Few,
    << CallRun(<<"a">>, <<>>, <<c>>), CallRun(<<"a", "b">>, <<>>, <<b, b>>),
       CallRun(<<"a", "b">>, <<>>, <<b, c>>),
       CallRun(<<"a", "b">>, <<>>, <<b, a>>),
       CallRun(Params, <<>>, <<c, c, c>>),
       CallRun(<<"a", "b">>, <<>>, <<Num(4), Bin("-", a, b)>>),
       CallRun(<<"a", "b">>, <<Let("x", Num(6)), PrintI32(c)>>, <<x, a>>),
       CallRun(<<"a", "b">>, <<Let("x", Num(6))>>, <<Bin("*", c, x), x>>),
       CallRun(<<"a">>, <<If(b, <<Let("x", a)>>, <<>>)>>, <<Num(1)>>),
       CallRun(<<"a">>, <<>>, <<CallOf("f", <<b>>)>>),
       CallRun(<<"a">>, <<>>, <<b, c>>), CallRun(<<>>, <<>>, <<>>),
       CallRun(<<"p0", "p1", "p2", "p3", "p4", "p5", "p6", "a">>,
               <<>>, [i \in 1 .. 8 |-> c]),
       CallRun([i \in 1 .. 9 |-> "a"], <<>>,
               <<a, b, c>> \o [i \in 1 .. 6 |-> Num(i)]),
       CallRun(<<"a", "b">>, <<Let("x", a)>>, <<c, x>>),
       CallRun(<<"a", "b">>, <<Assign("c", a)>>, <<b, c>>),
       CallRun(<<"a", "b">>, <<Assign("c", Num(1))>>, <<b, c>>),
       <<Func("main", Params, <<Let("x", CallOf("g", <<a>>)), Return(x)>>)>> >>)

MCRuns ==
  OperatorRuns \o TemporaryRuns \o MemoryRuns \o PrintRuns \o ControlRuns
    \o KernelRuns \o CallRuns

(* examples/calls.zc, and programs without a call.                         *)
ExampleCalls ==
  << Func("add", <<"a", "b">>, <<Return(Bin("+", a, b))>>),
     Func("main", <<>>, <<Let("x", CallOf("add", <<Num(2), Num(3)>>)),
                          Assign("x", Bin("+", x, Num(4))), Return(x)>>) >>

CallsRuns ==
  On(<<<<>>>>, <<ExampleCalls[2], ExampleCalls[1]>>)
    \o All(SubSeq(Pairs, 1, 12), <<Main(<<Return(Bin("-", a, b))>>)>>)
    \o On(Few, Main(<<PrintI32(a)>>))
============================================================================
