# Verification of zcompiler

zcompiler compiles `.zc` programs (scalar code plus vector and matrix
statements over buffers) to MLIR, LLVM IR and RISC-V assembly with the vector
extension (RVV 1.0). This directory holds TLA+ models of its core logic, the TLC
runs that check them and the TLAPS proofs about them. `PROJECT.json` is the
index: components, runs, the source lines behind every definition, hazards.

## 1. The system

| Component | Source | State it keeps | Operations | Hard behaviours |
|---|---|---|---|---|
| Driver and tool pipeline | `tools/zc/zc.cpp`, `lib/Target/RiscV/RiscVBackend.cpp` | emit action, output stream, diagnostics, exit status, temporary files | options, read, lex, parse, generate, fall back, run `mlir-opt`, `mlir-translate`, `llc` | any step may fail; half-written and stale files; output already streamed |
| Lexer | `lib/Lexer` | position, line, column, diagnostics | next token, skip blanks and comments | termination on odd bytes, places put back by hand |
| Parser | `lib/Parser` | position, diagnostics | recursive descent, precedence climbing | precedence, fields passed by position, errors in the middle of a statement |
| AST | `AST.h`, `lib/AST` | tree | construct, dump | none (data) |
| Direct text backend, vector statements | `lib/CodeGen/CodeGen.cpp` | variable table, temporaries, labels | one emitter per statement | strips of any length, in-place buffers, masks, indices, tails |
| Mask symbols | `CodeGen.cpp`, `MLIRGen.cpp` | `masks`, `logicalMasks` | remember, resolve by recursion into `v0` | three registers without allocator, order, cycles |
| Direct text backend, scalar code | `CodeGen.cpp` | variable table, round-robin `t0..t6` | expressions, calls, load, store, `print_i32` | live temporaries, parallel argument moves, `ra` |
| Control flow | `CodeGen.cpp` | `blockTerminated`, labels | `if`, `while`, `return` | compile-time rebinding across branches |
| Matrix kernels | `CodeGen.cpp`, `MLIRGen.cpp` | callee-saved registers | pack, multiply, multiply packed | layout agreed between two statements, strips |
| MLIRGen | `lib/MLIRGen/MLIRGen.cpp` | value table, masks | one builder per statement | partial last vector, signed bounds |
| ZC dialect, ZCToStandard, zc-opt | `lib/Dialect`, `lib/Conversion` | none | rewrite patterns | none of its own |
| Scripts, tests, benchmarks | `scripts`, `test`, `benchmarks` | none | run and compare | none |

The driver calls lexer, parser and one generator in sequence, in one thread. The
generators share nothing but the AST, so what has to agree between the RVV text
backend and the MLIR backend is the meaning of each statement: both are shown
to implement one abstract specification. What runs concurrently or
nondeterministically is not the compiler but its environment: the vector
lengths the machine chooses, what it leaves in inactive lanes, which of two
lanes that store to one cell wins, and the tools and files that fail.

## 2. The modules

| Module | Models | How state and actions correspond to the code |
|---|---|---|
| `VectorLanes` | the meaning of the 19 lane-wise statements, by lanes | records for the statement classes of `AST.h`; the scalar loops of the test harnesses as operators |
| `VectorStatement` | abstract machine: a statement executes in one step | state: statement, memory, executed |
| `RVV` | the machine as far as loops can tell | `VLChoices`: what `vsetvli` may return; `XMod`: the width of a register |
| `VectorKernel` | the RVV loop of the direct backend | registers as functions from lanes; one action per group of instructions (`Head` is `bgeu`, `sub`, `vsetvli`; then `Mask`, `Load`, `Store`, `Advance`); the emitters are a table |
| `MLIRKernel` | the loop of the MLIR backend | `scf.for` with step 4, `create_mask`, masked `transfer_read`/`write`, `select` |
| `MaskCodeGen` | mask tables and `emitMaskIntoVectorRegister` | the recursion is an explicit stack of frames (symbol, register, step); one action per arm of the function |
| `VectorReduce` | `vector_reduce_add` on both backends | the scalar carried between strips |
| `MatrixProduct` | abstract machine: the product in one step | |
| `MatrixKernel` | pack and multiply loops of both backends | loop counters, accumulator, callee-saved registers and their stack frame |
| `ScalarProgram` | the meaning of scalar code, from the SSA values MLIRGen builds | an evaluator with a bound on iterations |
| `ScalarCodeGen` | `FunctionEmitter`: expressions, statements, calls, control flow, `print_i32` | one operator per emitter, from an emitter record to the next; a register is named as in the code, an instruction is a tuple |
| `ScalarFragment` | which programs the seven temporaries have room for | draws counted per statement |
| `ScalarMachine` | the emitted code, assembled and run | registers, memory, program counter, output; one action per kind of instruction; the digit loop of `zc_print_i32` is instruction groups of its own |
| `Token`, `Lexer` | `lib/Lexer`, character by character | position, line, column; one step per turn of `lexAll` or of the comment loop |
| `SourceText` | what the tokens of a text are, without a scanner | |
| `AST`, `Parser` | node classes; `lib/Parser` | the C++ call stack is an agenda of calls; results on a stack of nodes; one disjunct per parse function |
| `Grammar` | which tree a list of tokens means, without a parser | rules that derive facts: these tokens are spelled as this node |
| `ProgramText` | the tokens of a tree, with the fewest parentheses | |
| `FrontEnd` | `zc.cpp` from text to tree: composes `Lexer` and `Parser` | a stage; `tokens` is handed over when `lexAll` returns without a diagnostic |
| `FrontEndText` | `FrontEnd` against `ProgramText` | |
| `Driver` | one run of `zc` | program counter, output, exit status, temporary files, what the `.ll` and `.s` files hold |
| `MC...` | constants for TLC | |
| `PrefixSums` | lemmas on induction, running sums and remainders, shared by reduction and matrices | |
| `VectorKernelProofs`, `MLIRKernelProofs`, `VectorReduceProofs`, `MatrixKernelProofs`, `MaskCodeGenProofs`, `DriverProofs`, `FrontEndProofs` | theorems about the module they are named for | |

`VectorKernel` and `MLIRKernel` extend `VectorLanes` and instantiate
`VectorStatement` with `mem <- IF pc = "end" THEN mem ELSE mem0`: the one
abstract step is taken when control reaches the end of the loop. `MatrixKernel`
extends `MatrixProduct` and instantiates it the same way. `FrontEnd` joins the
actions of `Lexer` and `Parser`, which share no variable but the tokens handed
over. `ScalarMachine` composes generator and machine: the action `EmitModule`
compiles one function of the program after the other, `Assemble` accepts or
rejects the file, and the other actions are instructions. The operators named
`...Unmasked`, `...FullStrip` and so on, commented "Faulty", belong to no
specification: each is a plausible bug that a property is known to catch.

Abstractions. A buffer is the address of its first element and memory is a set
of element cells, so that buffers may overlap; bytes within an element are not
modelled and buffers of one statement have one element width, except for the
widening add, whose operands are the low halves of cells. Register names are
left out of the vector loops; which registers a loop reads and which temporaries
it destroys is in `ScalarCodeGen`, where a whole loop is one instruction.
LMUL only changes how many elements a register group has, which is
the constant `VLMax`. In the driver diagnostics are one bit and
text is a class (empty, garbage, from MLIR, from the reference emitter); in the
front end a diagnostic is the place it names. Scalar memory has word cells only.

## 3. The runs

| Run | Shows | Bounds and why they are enough |
|---|---|---|
| `vector_kernel` | RVV loops implement the statements, terminate, never touch a cell that is not a lane's | up to 5 lanes, `VLMax` 3: full strips, partial strips, and a split of 4 and 5 as 2+2, 3+1, 3+2; 5-bit cells so that sums, products and indices wrap; outputs that are an operand, mask operand or index buffer; strides -1, 0, 2; distinct and repeated indices |
| `negative_count` | the violation below | 3-bit registers, so that -1 is 7 and memory can hold the run-away loop |
| `mlir_kernel` | MLIR loops implement the same statements and access only lane cells | up to 6 lanes, step 4 fixed by the code: a full and a partial vector; counts -1 and 0; an input at the end of memory reachable only through the mask |
| `mask_codegen` | the right mask reaches `v0` for right-nesting of at most two; recursion is bounded when masks are defined before use | two comparisons over four lanes that show every truth-table row; three logical masks; duplicate, unknown, cyclic and cross-function programs; stack limit 6, more than the five names |
| `deep_mask`, `mask_order` | the violations below | chains of three; the programs of `mask_codegen` |
| `vector_reduce` | strips and backends do not matter to the sum | 3-bit elements, up to 11 of them in strips of 3 or 4, initial values outside an element |
| `matrix_kernel` | all four variants compute the product; registers restored | 0..2 rows and columns, inner 0..4 in strips of 3 (3+1 and 2+2), counts of -1 on MLIR; the result in buffers of its own and over b, which a packed program may do |
| `scalar_machine` | generated scalar code computes what the source means wherever the temporaries suffice; the first call gets its arguments; control stays in its function; such programs return | 8-bit words, so that every operator is run at both ends of the word and around zero; expressions and variables that just fit seven temporaries and that just do not; every kind of vector and matrix statement before a live value; two values for what a loop leaves behind; numbers of one to three digits, zero and -128 printed; `Fuel` 12 iterations or calls of the source and `OutLimit` 6 output events, which no program within the fragment reaches |
| `calls` | the violation below | the same machine on programs with a call |
| `front_end` | tokens cover the text, trees are what was written, failures are diagnosed at a token that is to blame, both loops end | 1026 texts: every tree of up to three operators over `-`, `*`, `<` (one per precedence), every vector and matrix keyword with fields of different names, blank, comment and operator sequences that share a prefix, zero bytes in each position, and every one-token edit of five modules that together use each construct |
| `driver` | exit status, diagnostics, output and temporary files agree | every emit action, every failure at every step; sources each stage accepts or not |

An edit of token `k` comes with the number of tokens before it, which a
diagnostic must not name (`ParsedAsWritten`). The `=` of an assignment is
the exception: without it the name before it begins no statement, so that one is
to blame.

A text is a string and a zero byte is the character `Nul`, which stands for
nothing else in the texts.

Fairness. Each model is one thread of control that keeps executing
(`WF_vars(Next)`): the loops run on a hart that keeps fetching, the compiler is
sequential, and the driver waits for tools that are assumed to end. For
`ScalarMachine` it is asked of the assembler and the instructions only
(`WF_vars(Assemble \/ Step)`), since what is promised is promised of the code
the compiler has written. Nothing stronger is used. Deadlock checking is off
because every model ends: at its end label, after its last statement, with a
stopped machine, with a tree or a diagnostic, or with an exit status.

Preconditions. The loops are claimed for `Disciplined` inputs: a count that is
not negative (RVV), operands inside memory, no lane storing to a cell that a
*later* lane reads (a scalar loop would see the store, a vector may not), and
indices whose byte offset fits in SEW bits. In-place use, overlapping
destinations and repeated indices are inside the precondition. In an outcome,
when several lanes store to one cell, any of them may win, as RVV says of
unordered stores.

The reduction is claimed for buffers that have the elements the count says
(`InputsAssumption`). The matrix statements are claimed for `ValidInput`:
buffers of the stated shapes inside memory, a result that overlaps neither `a`
nor, unless it is packed first, `b`, and a packed copy that overlaps none of the
others; the harnesses in `test/qemu` use separate arrays throughout. Rows of one
buffer cannot overlap, since the row length is the number of columns. On RVV
counts are not negative (`CountsAssumption`), as for the loops; on MLIR they may
be.

The scalar code is claimed for functions `InFragment`, told from the source
alone: no value has to outlive more draws of `nextTempRegister` than there are
temporaries, names bound in a block are not used outside it, no calls, and a
return on every path or on none. Programs outside it are in the runs as well, and
only `ControlStaysInFunction` speaks of them: the documents do not say how large
an expression may be. `FragmentReturns` also wants at most one function with
labels, since the label counter starts again in every function.

Disagreements between code and documents, each a run of its own:

* `negative_count`: `bgeu` compares the count as unsigned. With -1 the direct
  backend's masked store writes beyond the tail, against
  `docs/phase30r-masked-store.md`; the MLIR loop does nothing.
* `calls`: nothing saves `ra`, so a function that calls another one never
  returns: its last `ret` jumps behind the call for ever.
  `docs/phase17-functions-memory.md` presents calls as expressions, and
  `docs/phase28b-print-i32.md` says what the one call that does save, saves.
* `deep_mask`: the scratch register of a right operand is `v1`, or `v2` when the
  result goes to `v1`. At the third level of right nesting it is `v1` again,
  which is live. `docs/phase35-mask-logical.md` promises the mask in `v0`.
  `ShallowMaskInV0` shows that two levels are always right.
* `mask_order`: operands are not looked up at the definition of a logical mask,
  against the rule of `docs/phase30n-mask-architecture.md`. Cyclic definitions,
  which the same omission lets through, exhaust the compiler's stack
  (`CompilationEnds` excuses exactly these).

## 4. The proofs

Eight modules hold proofs, one of them of shared lemmas only. They rest on the
named `ASSUME`s of the module they are about and, for the vector loops, on the
precondition above; each theorem holds for every value of the constants, where
TLC tried a few. A few facts on outcomes are stated in both modules about vector
loops, which have no common module of proofs.

`VectorKernelProofs`, from `DisciplinedInputs` and the assumptions on the
constants (cells and modulus, `VLMax` and `XMod` positive) and nothing else:

| Theorem | Says |
|---|---|
| `TypeCorrect` | `TypeOK` always holds; in particular no access leaves memory |
| `StripsStayWithinLength` | `StripWithinLength`: no strip is empty or passes the count |
| `MemoryIsPrefix` | `PrefixDone`: memory is always the outcome of a prefix of the lanes |
| `StripsReadInitialMemory` | each strip computes from the memory the statement began with |
| `LoopImplementsStatement` | the loop refines `VectorStatement` |

They hold for every statement form, memory, number of lanes, stride, factor,
vector length and choice of `vsetvli`, where TLC tried a few. The argument:
`PrefixDone` is not inductive, because a store is right only if the registers
hold what the scalar loop would read. So `LoopInvariant` adds, for each label,
what the registers loaded so far hold *in terms of the initial memory*; the
mask after `Mask`, the data, passthrough and indices after `Load`. A load reads
the current memory, which differs from the initial one only in cells that an
earlier lane stored to; `NoForwardOverlap` says that those are not cells the
lanes to come read. `Store` then extends the outcome by the lanes of the strip.
The refinement follows: at the end the index is the count, so the prefix is the
whole statement.

`MLIRKernelProofs` proves the same of the MLIR loop (`LoopInvariant`,
`TypeCorrect`, `MemoryIsPrefix`, `LoopImplementsStatement`), and
`ReadsStayInLanes`: no active lane of a transfer touches a cell of no lane. The
invariant has a part of its own, `TailReflectsCount`: the mask of `create_mask`
is the lanes below the count, in the last, partial vector too; negative counts
are included, as `scf.for` compares signed. Since both loops refine
`VectorStatement`, the backends agree on every disciplined input.

`MaskCodeGenProofs`, from `ProgramsAssumption` and `StackLimitAssumption`:

| Theorem | Says |
|---|---|
| `TypeCorrect` | `TypeOK`; a name is never both kinds of mask |
| `ShallowMasksAreRight` | `ShallowMaskInV0`: two levels of right nesting are always right |
| `LeftOperandsSurvive` | `LiveOperandsKept`: a live left operand is not overwritten |
| `RecursionVisitsOnce` | `RecursionBounded`: no mask is twice on the stack, if the consumed one was defined from defined masks |

A wrong mask is visible only at the consumer, many returns after the register was
overwritten, so `IInv` describes the whole stack: each frame waits for exactly the
operand above it (`StackDiscipline`); `meaning`, the lanes a mask should have, is
what the tables say (`HistoryMatchesTables`); everything below a defined mask is
defined (`StackInMeaning`); definitions can be ranked so that the stack strictly
descends (`Acyclic`, which gives `RecursionBounded`); the depth of right nesting
still to come plus the number of the register is at most two
(`RegistersSuffice`: this is where the bound in `ShallowMaskInV0` comes from);
hence a left operand is where it was left (`OperandsInRegisters`).

`DriverProofs`, from `InvocationsAssumption`: `TypeCorrect`,
`SuccessMeansOneArtifact`, `FailuresAreReported`, `ToolOutputIsComplete`,
`NoTemporaryLeft`. The invariant says for each program counter what has been
written, what the temporary files hold and which of them exist and are guarded
(`EmitAtPc`, `ExitAtPc`, `ContentsAtPc`, `TempsAtPc`). `NoTemporaryLeft` has the
exception its property states: the first of two files whose second could not be
created.

`PrefixSums` is what the two proofs about sums rest on. Their sums are recursive
functions of the model (`SumOf`, `DotOf`), so something has to be proved by
induction. The library's induction theorems take a predicate, which these
provers cannot instantiate; but a set of naturals has a least element
(`LeastElement`, from `WFMin` and `NatLessThanWellFounded`), so a set with zero
and every successor is all of `Nat` (`SetInduction`), and a set can be cited.
From it: any `n` integers have running sums (`RunningSumExists`), and two
functions that begin alike and step alike agree (`Agree`). A recursive function
of TLA+ is some solution of its equation; `Agree` shows that it is *the* running
sum. The rest is arithmetic that SMT lacks: quotients and remainders
are unique (`UniqueDivision`), and a sum may be wrapped or sign-extended on the
way as often as one likes (`RemainderOfSums`, `TwosComplementOfSum`).

`VectorReduceProofs`, from `InputsAssumption` and the assumptions on the machine:

| Theorem | Says |
|---|---|
| `TypeCorrect` | `TypeOK` |
| `CarryLosesNothing` | `CarriedSum`: cutting the scalar to a lane (`vmv.s.x`) and extending it again (`vmv.x.s`) at each strip loses nothing |
| `SumOfWholeInput` | `ResultIsReduction`: at the end the variable holds the wrapped sum of the whole input, on both backends |

`CarriedSum` speaks of what is still to come and is silent once the index of the
MLIR loop has passed the count, as it does after a last, partial vector; so the
result does not follow from it. The invariant says instead what has been added so
far, at every point of both loops (`SumSoFar`). `StripsInInput` says that no other strip passes the end. The initial
value may be wider than an element: it is cut only if there is a strip at all,
hence the case `index = 0`.

`MatrixKernelProofs`, from `ProgramsAssumption`, `CountsAssumption` and the
assumptions on the constants:

| Theorem | Says |
|---|---|
| `TypeCorrect` | `TypeOK`; in particular every store falls inside memory |
| `AccumulatorIsDot` | `AccumulatorIsPartialDot`: the accumulator is the wrapped sum of the terms so far, one by one or by strips |
| `ProductIsPrefix` | `ProductPrefix`: what is finished is right and nothing else has changed |
| `LoopsImplementProduct` | all four variants refine `MatrixProduct` |
| `CalleeSavedKept` | `CalleeSavedRestored`: a statement hands back the callee-saved registers it used |

They hold for all shapes, layouts, vector lengths and choices of `vsetvli`.
`LoopInv` has what the registers and the memory say of each other. `MemoryState`:
the packed cells hold `b` transposed, the cells of the finished elements
hold products of the *initial* matrices, all other cells are as they were.
`PackedPairs` and `FinishedElements` say which those are, from the loop counters
(`Positions`), for both backends, which pack in different steps. A store must not disturb what is
finished: row-major cells of different elements differ (`RowMajorInjective`, by
uniqueness of division), for the result and for the packed copy, which has its
own layout (`OutLayout`, `PackLayout`, `PackOne`, `StoreOne`). A load must find
the initial value (`Reads`): `a` and `b` are disjoint from what is written so
far, and the packed copy holds, where the multiply statement
looks, what the pack statement was to put there: the layout both must agree on. It
also shows that a packed product may overwrite `b`, which the run now does too.
`StripAdds`: what `vredsum.vs` adds for a strip is the difference of two partial
dot products, wrapped. For the refinement, `AllWritten` shows that at the end the
elements finished are all elements, and that the value the abstract machine
chooses for a cell is the only one.

`RegistersKept`, the other part of the invariant, says that before the restore
every register either still holds the caller's value or is on the stack with it;
`SavesCoverUses` is the lemma that each kernel saves all it uses.

TLC has checked both invariants on the runs' instances before they were proved.

`FrontEndProofs` is about every text, of any length and nesting, and assumes
nothing:

| Theorem | Says |
|---|---|
| `FailuresAreDiagnosed` | `FailureIsDiagnosed`: the parser returns null exactly when it has reported something, and all reports name the token it stopped at |
| `AcceptedIsMeant` | the module that the caller uses is one that the grammar derives from all tokens of the text |

What a list of tokens means is said by `Grammar`, without a parser: rules derive
facts `<<sort, node, i, j>>`, "the tokens from `i` up to `j` are spelled as this
node". There are ranks of expressions, left operands of the operator's own rank
and right operands of the next, lists that grow at their end, and for each vector
and matrix keyword the fields of its node. A fact that the rules derive is one in
*every* set closed under them (`Means`), so a proof that something is derived
takes an arbitrary closed set and applies rules; no recursion and no induction
over trees is needed. (The facts derived in some number of rounds are the least
closed set, so `Means` is neither empty nor all.) TLC cannot evaluate `Means`;
it checks `ParsedAsWritten`, which says the same of the texts of the run in terms
of `ProgramText`.

The agenda of the parser is what makes the induction go through: it is a stack of
calls, and each is a promise. `Does` says between which states (stack of results,
position) an item of the agenda may lead if it succeeds: `expression` leaves one
node, which spans the tokens consumed; `rhs` with precedence `p` extends the left
operand, if that fits to the left of operators of at least `p`; `operands` appends
the rest of a statement's operands; and so on. `Promise` says that whoever does
all items from the present state on arrives at a list of functions that spans all
tokens. When a parse function replaces its item by its body, going along the
body must be a way of doing the item (`Produces`, a lemma for every branch of
every parse function), and then the promise is kept (`KeepPromise`). At the start
it holds by the meaning of `module` (`FirstPromise`); when `parseModule` sees the
end of the file there is nothing else on the agenda, and the promise is the
theorem (`LastPromise`).

Operators are the hard part. `parseBinaryRHS` leaves its loop when the next
operator is too loose for it, and a tighter one first takes the right operand.
`RankAt`, the rank of the operator at the current token, is therefore part of what
`rhs` and `climb` do: `rhs` starts with an expression in which the operator to come
can be used and ends before an operator that is looser than asked for. For the
vector and matrix statements, `KernelFits` compares, keyword by keyword, what
their parse functions read with the fields that the constructor of the node takes.

The invariant (`FrontEndInv`) has a part for each stage: while lexing, the tokens
so far do not end the file and then only the last one does (`Scanned`), which is
why `peek` and `advance` never leave the list; while parsing, either a failure
that has been reported at the current token (`Reported`), or no report and a kept
promise (`Reading`), or the module returned (`Parsed`). `Shape` says that `module`
is the last item of the agenda and nowhere else, and that arguments of items are
precedences or operands there are.

Only model-checked:

* Liveness: the prover has no means for fairness.
* `ScalarMachine`: generator and meaning recurse over trees of statements
  (`RECURSIVE` operators), which takes the SMT backend away, and what they compute
  is induction over those trees.
* `ParsedAsWritten`: that the tree of an accepted text is the right one is what
  `AcceptedIsMeant` says of all texts, but here it is said in terms of
  `ProgramText`, which recurses over trees. That what was written for a module is
  accepted, and that no sound token is blamed, is not proved: which texts and how
  many tokens these are is told by the elements of `Sources`.
* `TokensTileSource`: texts are strings, of whose characters and parts (`SubSeq`)
  the prover knows nothing.

## 5. The plan

Done: lane-wise vector loops, masks, reduction, matrices, driver, scalar code on a
machine, lexer and parser; proofs about the vector loops of both
backends, the reduction, the matrix statements, the masks and the driver: every
safety property of these components that a run checks is a theorem, and so are
the three refinements; and proofs that the front end accepts what the grammar
derives and reports what it does not accept. What is left:

1. Scalar loads and stores of buffers of narrow elements: the code always uses
   words, and no document says what else it should do.
2. `v0` over statements: a snapshot semantics for masks, if the documents choose
   one.
3. The stack depth of the recursive parser.
4. A proof that every text the grammar derives is accepted.

Hazards without a property are listed in `PROJECT.json` with the reason.

Not modelled: AST and token dumping (formatting), the numbering of LLVM values
in the text dialects (whether a file is accepted is up to `llc`, and the driver
lets it fail), the refusals of element widths in vector emitters, dialect
registration, the rewrite patterns of ZCToStandard (one-to-one; MLIR drives
them), build files, scripts, and the external tools beyond success, failure and
what they leave.
