--------------------------- MODULE ScalarMachine ---------------------------
(***************************************************************************)
(* A program compiled by ScalarCodeGen, assembled and run: one action per  *)
(* kind of instruction.                                                    *)
(*                                                                         *)
(* A register holds an integer; the word instructions (addw, ...) wrap to  *)
(* WordBits.  The loop of a vector statement is one step, which appends an *)
(* event to `out` and leaves anything in its temporaries.  If one of these *)
(* temporaries holds the length, a stride or a buffer of the loop itself,  *)
(* the loop is not followed any further: the machine has gone "wild".      *)
(***************************************************************************)
EXTENDS ScalarFragment, FiniteSets

CONSTANTS
  WordBits, Fuel,  \* as in ScalarProgram
  Runs,            \* the runs: records [program, args, mem]
  Garbage,         \* what may be in a register that nobody has written
  OutLimit         \* a bound on the events of a run, for code that loops

Source == INSTANCE ScalarProgram

Wrap(v) == Source!Wrap(v)

ASSUME ScalarAssumption ==
  /\ WordBits \in Nat \ {0} /\ Fuel \in Nat /\ Garbage # {}
  /\ OutLimit \in Nat
  /\ \A i \in DOMAIN Runs : Len(Runs[i].program) > 0

Register == {"ra"} \cup {Argument(i) : i \in 0 .. 7}
                   \cup {Temporary(i) : i \in 0 .. 6}

VARIABLES
  run,        \* the program, its arguments and the initial memory
  code,       \* the instructions of the assembled file
  pc,         \* the next instruction
  regs, mem,
  out,        \* the events so far: one per write, vector or matrix statement
  frames,     \* the saved registers on the stack, the last frame on top
  buffer,     \* the bytes print_i32 has written before its buffer's end
  status,     \* "source", "assembly", "running", "rejected", "returned",
              \* "fault" or "wild"
  firstCall,  \* history: the callee and arguments of the first call
  fits,       \* history: whether the program is in the fragment, and what
  expected    \* it returns: <<value>>, or <<>> if nothing can be expected

machine == <<pc, regs, mem, out, frames, buffer, status>>
history == <<firstCall, fits, expected>>
vars == <<run, code, machine, history>>

program == run.program
args == run.args

(* Arguments are passed in registers; a return to 0 ends the run.          *)
Init ==
  /\ \E i \in DOMAIN Runs : run = Runs[i]
  /\ code = <<>> /\ pc = 0
  /\ \E g \in Garbage :
       regs = [r \in Register |->
                 IF r = "ra" THEN 0
                 ELSE IF r \in {Argument(i) : i \in 0 .. Len(args) - 1}
                   THEN args[CHOOSE i \in 1 .. Len(args) : r = Argument(i - 1)]
                   ELSE g]
  /\ mem = run.mem
  /\ out = <<>> /\ frames = <<>> /\ buffer = <<>>
  /\ status = "source"
  /\ firstCall = <<>> /\ fits = FALSE /\ expected = <<>>

---------------------------------------------------------------------------
(* The assembler and the linker: labels are unique in a file, registers    *)
(* exist, and what is called is defined.                                   *)
LabelsOf(c) == SelectSeq(c, LAMBDA i : i[1] = "label")

UsedRegisters(i) ==
  CASE i[1] = "li" -> {i[2]}
    [] i[1] \in {"mv", "seqz", "snez", "lw", "sw"} -> {i[2], i[3]}
    [] i[1] \in {"slli", "xori"} -> {i[2], i[3]}
    [] i[1] \in {"addw", "subw", "mulw", "divw", "slt", "add"} ->
         {i[2], i[3], i[4]}
    [] i[1] = "beqz" -> {i[2]}
    [] i[1] \in {"vector", "matrix"} -> ToSet(i[3]) \cup ToSet(i[4])
    [] i[1] = "reduce" -> {i[2], i[3], i[4], i[5]}
    [] OTHER -> {}

Assembles(c) ==
  LET names == {l[2] : l \in ToSet(LabelsOf(c))}
  IN  /\ Cardinality(names) = Len(LabelsOf(c))
      /\ \A p \in DOMAIN c :
           /\ UsedRegisters(c[p]) \subseteq Register
           /\ c[p][1] = "call" => c[p][2] \in names

Target(label) == SelectInSeq(code, LAMBDA i : i[1] = "label" /\ i[2] = label)

(* What the program means, from the initial memory of the run.             *)
meaning == Source!Meaning(program, args, run.mem)

(* Programs without duplicate labels and within the registers of the ABI.  *)
HasLabels(stmts) ==
  \E i \in DOMAIN stmts :
    stmts[i].kind \in {"if", "while", "kernel", "vector_reduce_add"}

Accepted ==
  /\ Cardinality({i \in DOMAIN program : HasLabels(program[i].body)}) <= 1
  /\ \A i \in DOMAIN program : Len(program[i].params) <= 8

Expected(result) == IF Source!Defined(result) THEN <<result.value>> ELSE <<>>

Emitted(m) ==
  /\ code' = m.code
  /\ status' = IF m.diagnosed THEN "rejected" ELSE "assembly"
  /\ expected' = IF ~ m.diagnosed /\ Accepted THEN Expected(meaning) ELSE <<>>

EmitModule ==
  /\ status = "source"
  /\ Emitted(emitModule(program))
  /\ fits' = InFragment(program[1])
  /\ UNCHANGED <<run, pc, regs, mem, out, frames, buffer, firstCall>>

Assemble ==
  /\ status = "assembly"
  /\ IF Assembles(code)
       THEN status' = "running" /\ pc' = Target(program[1].name)
       ELSE status' = "rejected" /\ UNCHANGED pc
  /\ UNCHANGED <<run, code, regs, mem, out, frames, buffer, history>>

---------------------------------------------------------------------------
Executing(ops) ==
  /\ status = "running" /\ pc \in DOMAIN code
  /\ code[pc][1] \in ops

instruction == code[pc]

(* divw by zero and of the least number by -1 are defined.                 *)
divw(a, b) == IF b = 0 THEN -1 ELSE Wrap(Source!Quotient(a, b))

Word(op, a, b) ==
  CASE op = "addw" -> Wrap(a + b)
    [] op = "subw" -> Wrap(a - b)
    [] op = "mulw" -> Wrap(a * b)
    [] op = "divw" -> divw(a, b)
    [] op = "slt"  -> IF a < b THEN 1 ELSE 0
    [] op = "add"  -> a + b

Immediate(op, a, n) ==
  CASE op = "slli" -> a * 2 ^ n
    [] op = "xori" -> IF (a + n) % 2 = a % 2 THEN a
                      ELSE IF a % 2 = 0 THEN a + 1 ELSE a - 1

Result(i) ==
  CASE i[1] = "li"   -> i[3]
    [] i[1] = "mv"   -> regs[i[3]]
    [] i[1] = "seqz" -> IF regs[i[3]] = 0 THEN 1 ELSE 0
    [] i[1] = "snez" -> IF regs[i[3]] = 0 THEN 0 ELSE 1
    [] i[1] \in {"slli", "xori"} -> Immediate(i[1], regs[i[3]], i[4])
    [] OTHER         -> Word(i[1], regs[i[3]], regs[i[4]])

Compute ==
  /\ Executing({"li", "mv", "seqz", "snez", "slli", "xori",
                "addw", "subw", "mulw", "divw", "slt", "add"})
  /\ regs' = [regs EXCEPT ![instruction[2]] = Result(instruction)]
  /\ pc' = pc + 1
  /\ UNCHANGED <<run, code, mem, out, frames, buffer, status, history>>

(* The cell an address register points to.                                 *)
CellAt(r) == regs[r] \div 4

LoadWord ==
  /\ Executing({"lw"})
  /\ CellAt(instruction[3]) \in DOMAIN mem
  /\ regs' = [regs EXCEPT ![instruction[2]] = mem[CellAt(instruction[3])]]
  /\ pc' = pc + 1
  /\ UNCHANGED <<run, code, mem, out, frames, buffer, status, history>>

StoreWord ==
  /\ Executing({"sw"})
  /\ CellAt(instruction[3]) \in DOMAIN mem
  /\ mem' = [mem EXCEPT ![CellAt(instruction[3])] = regs[instruction[2]]]
  /\ pc' = pc + 1
  /\ UNCHANGED <<run, code, regs, out, frames, buffer, status, history>>

(* An access outside memory, or no instruction to execute.                 *)
Fault ==
  /\ status = "running"
  /\ \/ pc \notin DOMAIN code
     \/ Executing({"lw", "sw"}) /\ CellAt(instruction[3]) \notin DOMAIN mem
  /\ status' = "fault"
  /\ UNCHANGED <<run, code, pc, regs, mem, out, frames, buffer, history>>

Branch ==
  /\ Executing({"label", "j", "beqz"})
  /\ pc' = CASE instruction[1] = "label" -> pc + 1
             [] instruction[1] = "j" -> Target(instruction[2])
             [] instruction[1] = "beqz" ->
                  IF regs[instruction[2]] = 0 THEN Target(instruction[3])
                                              ELSE pc + 1
  /\ UNCHANGED <<run, code, regs, mem, out, frames, buffer, status,
                 history>>

Call ==
  /\ Executing({"call"})
  /\ regs' = [regs EXCEPT !["ra"] = pc + 1]
  /\ pc' = Target(instruction[2])
  /\ firstCall' =
       IF firstCall = <<>> /\ instruction[2] # "zc_print_i32"
         THEN <<instruction[2], [i \in 1 .. instruction[3] |->
                                   regs[Argument(i - 1)]]>>
         ELSE firstCall
  /\ UNCHANGED <<run, code, mem, out, frames, buffer, status, fits, expected>>

Ret ==
  /\ Executing({"ret"})
  /\ IF regs["ra"] = 0 THEN status' = "returned" /\ UNCHANGED pc
                       ELSE pc' = regs["ra"] /\ UNCHANGED status
  /\ UNCHANGED <<run, code, regs, mem, out, frames, buffer, history>>

---------------------------------------------------------------------------
Save ==
  /\ Executing({"save"})
  /\ frames' = Append(frames, [r \in Saved |-> regs[r]])
  /\ pc' = pc + 1
  /\ UNCHANGED <<run, code, regs, mem, out, buffer, status, history>>

Restore ==
  /\ Executing({"restore"})
  /\ regs' = [r \in Register |-> IF r \in DOMAIN Last(frames)
                                   THEN Last(frames)[r] ELSE regs[r]]
  /\ frames' = Front(frames)
  /\ pc' = pc + 1
  /\ UNCHANGED <<run, code, mem, out, buffer, status, history>>

StackAddress == CHOOSE g \in Garbage : TRUE

(* t0 is the magnitude, t3 the sign, t5 the number of bytes, t1 their place*)
PrintEnter ==
  /\ Executing({"print_enter"})
  /\ LET a == regs["a0"]
         magnitude == Source!Magnitude(a)
     IN  /\ frames' = Append(frames, [r \in {"ra"} |-> regs[r]])
         /\ buffer' = IF magnitude = 0 THEN <<48, 10>> ELSE <<10>>
         /\ regs' = [regs EXCEPT !["t0"] = magnitude, !["t2"] = 10,
                       !["t1"] = StackAddress,
                       !["t3"] = IF a < 0 THEN 1 ELSE 0,
                       !["t4"] = IF magnitude = 0 THEN 48 ELSE 10,
                       !["t5"] = IF magnitude = 0 THEN 2 ELSE 1]
         /\ pc' = IF magnitude = 0 THEN pc + 2 ELSE pc + 1
  /\ UNCHANGED <<run, code, mem, out, status, history>>

PrintDigit ==
  /\ Executing({"print_digit"})
  /\ LET digit == 48 + (regs["t0"] % regs["t2"])
     IN  /\ buffer' = <<digit>> \o buffer
         /\ regs' = [regs EXCEPT !["t4"] = digit,
                       !["t0"] = @ \div regs["t2"], !["t5"] = @ + 1]
  /\ pc' = IF regs'["t0"] = 0 THEN pc + 1 ELSE pc
  /\ UNCHANGED <<run, code, mem, out, frames, status, history>>

PrintSign ==
  /\ Executing({"print_sign"})
  /\ IF regs["t3"] = 0
       THEN UNCHANGED <<buffer, regs>>
       ELSE /\ buffer' = <<45>> \o buffer
            /\ regs' = [regs EXCEPT !["t4"] = 45, !["t5"] = @ + 1]
  /\ pc' = pc + 1
  /\ UNCHANGED <<run, code, mem, out, frames, status, history>>

(* The system call writes t5 bytes and returns their number.               *)
PrintWrite ==
  /\ Executing({"print_write"}) /\ Len(out) < OutLimit
  /\ out' = Append(out, <<"write", SubSeq(buffer, 1, regs["t5"])>>)
  /\ regs' = [regs EXCEPT !["a0"] = regs["t5"], !["a2"] = regs["t5"],
                          !["a1"] = regs["t1"],
                          !["a7"] = 64, !["ra"] = Last(frames)["ra"]]
  /\ frames' = Front(frames)
  /\ IF regs'["ra"] = 0 THEN status' = "returned" /\ UNCHANGED pc
                        ELSE pc' = regs'["ra"] /\ UNCHANGED status
  /\ UNCHANGED <<run, code, mem, buffer, history>>

---------------------------------------------------------------------------
Values(names) == [i \in DOMAIN names |-> regs[names[i]]]

(* Any value is left in the registers of a loop.                           *)
Leave(registers, g) ==
  [r \in Register |-> IF r \in registers THEN g ELSE regs[r]]

GoWild ==
  /\ status' = "wild"
  /\ UNCHANGED <<pc, regs, mem, out, frames, buffer>>

Vector ==
  /\ Executing({"vector"}) /\ Len(out) < OutLimit
  /\ LET read == ToSet(instruction[3]) \cup ToSet(instruction[4])
     IN  IF read \cap instruction[5] # {} THEN GoWild
         ELSE /\ out' = Append(out, <<instruction[2], Values(instruction[3]),
                                      Values(instruction[4])>>)
              /\ \E g \in Garbage : regs' = Leave(instruction[5], g)
              /\ pc' = pc + 1
              /\ UNCHANGED <<mem, frames, buffer, status>>
  /\ UNCHANGED <<run, code, history>>

Matrix ==
  /\ Executing({"matrix"}) /\ Len(out) < OutLimit
  /\ out' = Append(out, <<instruction[2], Values(instruction[3]),
                          Values(instruction[4])>>)
  /\ \E g \in Garbage : regs' = Leave(MatrixTemporaries, g)
  /\ pc' = pc + 1
  /\ UNCHANGED <<run, code, mem, frames, buffer, status, history>>

(* accumulator, result, input, length and the temporaries of the loop      *)
Reduce ==
  /\ Executing({"reduce"})
  /\ LET first == CellAt(instruction[4])
         n == regs[instruction[5]]
     IN  IF {instruction[4], instruction[5]} \cap instruction[6] # {}
             \/ n < 0 \/ ~ first .. first + n - 1 \subseteq DOMAIN mem
           THEN GoWild
           ELSE /\ \E g \in Garbage :
                     regs' = [Leave(instruction[6], g) EXCEPT
                       ![instruction[2]] = Wrap(regs[instruction[3]]
                                             + Source!SumCells(mem, first, n))]
                /\ pc' = pc + 1
                /\ UNCHANGED <<mem, out, frames, buffer, status>>
  /\ UNCHANGED <<run, code, history>>

Step ==
  \/ Compute \/ LoadWord \/ StoreWord \/ Fault
  \/ Branch \/ Call \/ Ret
  \/ Save \/ Restore \/ PrintEnter \/ PrintDigit \/ PrintSign \/ PrintWrite
  \/ Vector \/ Matrix \/ Reduce

Next == EmitModule \/ Assemble \/ Step

Spec == Init /\ [][Next]_vars

(* A processor does not stop in front of an instruction.  Nothing is asked *)
(* of the compiler: what is promised is promised of its output.            *)
FairSpec == Spec /\ WF_vars(Assemble \/ Step)

---------------------------------------------------------------------------
Stopped == status \in {"returned", "fault", "wild"}

(* A function whose temporaries suffice, that binds names in a block for   *)
(* that block only, makes no call and returns on all paths or on none      *)
(* computes what the source says: its result, its memory, what it prints,  *)
(* and what it hands to vector and matrix statements, however the loops of *)
(* these leave their registers.                                            *)
ResultIsMeaning ==
  Stopped /\ InFragment(program[1]) /\ Source!Defined(meaning) =>
    /\ status = "returned"
    /\ regs["a0"] = meaning.value
    /\ mem = meaning.mem
    /\ out = meaning.out

(* The first call of a function reaches the callee with the arguments of   *)
(* the source, when no parameter is passed on after its register was given *)
(* an earlier argument.                                                    *)
FirstCallGetsArguments ==
  firstCall # <<>> /\ FirstCallInFragment(program[1])
    /\ meaning.calls # <<>> => firstCall = meaning.calls[1]

(* The function that the code at p belongs to.                             *)
FunctionAt(p) ==
  LET starts == {q \in 1 .. p :
                   /\ code[q][1] = "label"
                   /\ \/ code[q][2] = "zc_print_i32"
                      \/ \E i \in DOMAIN program : code[q][2] = program[i].name}
  IN  CHOOSE q \in starts : \A r \in starts : r <= q

(* Control leaves a function by a call or a return and in no other way,    *)
(* when every function returns on all its paths or on none.                *)
ControlStaysInFunction ==
  [][ status = "running" /\ pc' # pc
        /\ (\A i \in DOMAIN program : Ends(program[i].body))
        /\ ~ Executing({"call", "ret", "print_write"})
      => pc' \in DOMAIN code /\ FunctionAt(pc') = FunctionAt(pc) ]_vars

(* Such a program, if its source ends, ends: in particular its labels are  *)
(* accepted by the assembler when only one of its functions has any.       *)
FragmentReturns == (fits /\ expected # <<>>) ~> status = "returned"

(* docs/phase17-functions-memory.md:24 "Function calls are expressions":   *)
(* a program whose source ends returns its value, calls or not.            *)
CallsReturn ==
  expected # <<>> ~> (status = "returned" /\ expected = <<regs["a0"]>>)
============================================================================
