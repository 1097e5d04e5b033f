--------------------------- MODULE MatrixProduct ---------------------------
(***************************************************************************)
(* What the matrix statements promise: out = a * b over i32, row-major, by *)
(* a program that multiplies directly or packs b first.  The machine takes *)
(* one step.                                                               *)
(***************************************************************************)
EXTENDS Integers

CONSTANTS
  Addr,      \* the addresses of the element cells
  Modulus,   \* 2^32: a cell holds a bit pattern below it
  Programs   \* the programs to run, each with the memory it starts from

ASSUME ModulusAssumption == Modulus \in Nat \ {0}

Val == 0 .. Modulus - 1

(* The cells of a row-major matrix.                                        *)
Cells(base, rows, cols) ==
  {base + i * cols + j : i \in 0 .. rows - 1, j \in 0 .. cols - 1}

(* The caller passes buffers of the shapes it states, and none of those    *)
(* the statement writes is one it still has to read.                       *)
ValidInput(p, m) ==
  LET out  == Cells(p.out, p.rows, p.cols)
      lhs  == Cells(p.a, p.rows, p.inner)
      rhs  == Cells(p.b, p.inner, p.cols)
      pack == Cells(p.pack, p.cols, p.inner)
  IN  /\ p.packed \in BOOLEAN
      /\ p.rows \in Int /\ p.cols \in Int /\ p.inner \in Int
      /\ p.out \in Int /\ p.a \in Int /\ p.b \in Int /\ p.pack \in Int
      /\ m \in [Addr -> Val]
      /\ out \subseteq Addr /\ lhs \subseteq Addr /\ rhs \subseteq Addr
      /\ out \cap lhs = {}
      /\ ~p.packed => out \cap rhs = {}
      /\ p.packed => /\ pack \subseteq Addr
                     /\ pack \cap (out \cup lhs \cup rhs) = {}

ASSUME ProgramsAssumption ==
  \A input \in Programs :
    /\ input = [program |-> input.program, mem |-> input.mem]
    /\ ValidInput(input.program, input.mem)

VARIABLES
  program,   \* [backend, packed, rows, cols, inner, out, a, b, pack]
  mem,       \* the memory of the program
  done       \* whether the product has been computed

mvars == <<program, mem, done>>

(* The scalar loop of the harnesses: the first k terms of element (r, c).  *)
DotOf(p, m, r, c, k) ==
  LET dot[j \in 0 .. k] ==
        IF j = 0 THEN 0
        ELSE dot[j - 1] + m[p.a + r * p.inner + (j - 1)]
                          * m[p.b + (j - 1) * p.cols + c]
  IN  dot[k]

Dot(m, r, c, k) == DotOf(program, m, r, c, k)

Product(m, r, c) ==
  Dot(m, r, c, IF program.inner < 0 THEN 0 ELSE program.inner) % Modulus

Elements == (0 .. program.rows - 1) \X (0 .. program.cols - 1)

OutCell(e) == program.out + e[1] * program.cols + e[2]

(* Packing transposes b, column after column.                              *)
PackCell(k, c) == program.pack + c * program.inner + k

PackOf(m) ==
  {<<PackCell(k, c), m[program.b + k * program.cols + c]>> :
     k \in 0 .. program.inner - 1, c \in 0 .. program.cols - 1}

MInit ==
  /\ \E input \in Programs : program = input.program /\ mem = input.mem
  /\ done = FALSE

(* A count that is not positive makes an empty loop.                       *)
Multiply ==
  /\ ~done
  /\ done' = TRUE
  /\ LET product == {<<OutCell(e), Product(mem, e[1], e[2])>> : e \in Elements}
         written == product \cup (IF program.packed THEN PackOf(mem) ELSE {})
         cells   == {w[1] : w \in written}
     IN  mem' = [x \in Addr |-> IF x \in cells
                                THEN (CHOOSE w \in written : w[1] = x)[2]
                                ELSE mem[x]]
  /\ UNCHANGED program

MSpec == MInit /\ [][Multiply]_mvars
=============================================================================
