------------------------------- MODULE Driver -------------------------------
(***************************************************************************)
(* One run of the zc command: main in tools/zc/zc.cpp and the two entry    *)
(* points of lib/Target/RiscV/RiscVBackend.cpp that call external tools    *)
(* (mlir-opt, mlir-translate, llc) over temporary files.                   *)
(*                                                                         *)
(* LLVM IR and RISC-V assembly each have several producers, tried in turn: *)
(*                                                                         *)
(*   --emit=llvm       MLIR pipeline, else the reference LLVM IR text      *)
(*   --emit=riscv-asm  llc of the MLIR pipeline's LLVM IR, else llc of the *)
(*                     reference LLVM IR, else the direct RISC-V text      *)
(*                                                                         *)
(* A producer that fails must leave the output alone for the next one, and *)
(* its temporary files must not outlive it.  What the source is, what the  *)
(* tools do and whether a file can be made are choices of the environment. *)
(***************************************************************************)
EXTENDS Sequences, Naturals

(* The emit actions, and the text dialects of CodeGen.                     *)
EmitAction == {"none", "tokens", "ast", "mlir", "zc-mlir", "lowered-mlir",
               "llvm", "riscv-asm"}
Dialect == {"zc-mlir", "lowered-mlir", "llvm", "riscv-asm"}

(* The boolean options, in the order main looks at them.                   *)
Flags == <<"tokens", "ast", "mlir", "zc-mlir", "lowered-mlir", "llvm",
           "riscv-asm">>

CONSTANT Invocations
  (* [emit, flags, input, out, lexes, parses, mlir, text]: the value of    *)
  (* --emit, the boolean options, the input file ("missing", "unreadable", *)
  (* "readable"), the output ("stdout", "opens", "fails"), and whether the *)
  (* source lexes, parses, and is supported by MLIRGen and by each dialect *)

ASSUME InvocationsAssumption ==
  \A r \in Invocations :
    /\ r.emit \in EmitAction
    /\ {r.lexes, r.parses, r.mlir} \subseteq BOOLEAN
    /\ r.text \in [Dialect -> BOOLEAN]

VARIABLES
  run,     \* the invocation
  emit,    \* the resolved emit action
  pc,      \* where control is
  output,  \* what has been written to the output stream, in order
  stderr,  \* whether a diagnostic has been printed
  exit,    \* the exit status
  temps,   \* the temporary files that exist
  guarded, \* those a FileRemover in scope will delete
  refused, \* history: a temporary file could not be created
  ir, asm  \* what the temporary .ll and .s files hold

files == <<temps, guarded, refused>>
contents == <<ir, asm>>
vars == <<run, emit, pc, output, stderr, exit, files, contents>>

Init ==
  /\ run \in Invocations
  /\ emit = run.emit
  /\ pc = "options"
  /\ output = <<>>
  /\ stderr = FALSE
  /\ exit = "none"
  /\ temps = {} /\ guarded = {} /\ refused = FALSE
  /\ ir = "empty" /\ asm = "empty"

Goto(label) == pc' = label /\ UNCHANGED <<stderr, exit>>

Exit(status, diagnosed) ==
  /\ pc' = "exited"
  /\ exit' = status
  /\ stderr' = (stderr \/ diagnosed)

Write(producer, complete) ==
  output' = Append(output, [producer |-> producer, complete |-> complete])

---------------------------------------------------------------------------
(* main, up to the choice of a code generator.                             *)

ParseOptions ==
  /\ pc = "options"
  /\ LET given == {i \in DOMAIN Flags : Flags[i] \in run.flags}
     IN  emit' = IF given = {} THEN run.emit
                 ELSE Flags[CHOOSE i \in given : \A j \in given : j <= i]
  /\ Goto("input")
  /\ UNCHANGED <<run, output, files, contents>>

OpenInput ==
  /\ pc = "input"
  /\ IF run.input = "readable" THEN Goto("output") ELSE Exit("1", TRUE)
  /\ UNCHANGED <<run, emit, output, files, contents>>

OpenOutput ==
  /\ pc = "output"
  /\ IF run.out = "fails" THEN Exit("1", TRUE) /\ UNCHANGED output
     ELSE IF emit = "none" THEN Write("hint", TRUE) /\ Exit("0", FALSE)
     ELSE Goto("lex") /\ UNCHANGED output
  /\ UNCHANGED <<run, emit, files, contents>>

(* The tokens are printed before the lexer's errors are looked at.         *)
Lex ==
  /\ pc = "lex"
  /\ IF emit = "tokens"
       THEN /\ Write("tokens", run.lexes)
            /\ IF run.lexes THEN Exit("0", FALSE) ELSE Exit("1", TRUE)
       ELSE /\ IF run.lexes THEN Goto("parse") ELSE Exit("1", TRUE)
            /\ UNCHANGED output
  /\ UNCHANGED <<run, emit, files, contents>>

Parse ==
  /\ pc = "parse"
  /\ IF ~run.parses THEN Exit("1", TRUE) /\ UNCHANGED output
     ELSE IF emit = "ast" THEN Write("ast", TRUE) /\ Exit("0", FALSE)
     ELSE Goto(IF emit \in {"llvm", "riscv-asm"} THEN "outer" ELSE "text")
          /\ UNCHANGED output
  /\ UNCHANGED <<run, emit, files, contents>>

(* generateMLIRModule prints nothing unless it succeeds.                   *)
EmitMLIR ==
  /\ pc = "text" /\ emit = "mlir"
  /\ IF run.mlir THEN Write("mlir", TRUE) /\ Exit("0", FALSE)
     ELSE Exit("1", TRUE) /\ UNCHANGED output
  /\ UNCHANGED <<run, emit, files, contents>>

(* Faulty: the diagnostics of the code generator are not looked at.        *)
EmitTextUnchecked ==
  /\ pc = "text" /\ emit \in Dialect
  /\ Write(emit, run.text[emit])
  /\ Exit("0", FALSE)
  /\ UNCHANGED <<run, emit, files, contents>>

(* emitModule streams its text while it finds out that it cannot go on.    *)
EmitText ==
  /\ pc = "text" /\ emit \in Dialect
  /\ Write(emit, run.text[emit])
  /\ IF run.text[emit] THEN Exit("0", FALSE) ELSE Exit("1", TRUE)
  /\ UNCHANGED <<run, emit, files, contents>>

---------------------------------------------------------------------------
(* emitLLVMIRWithMLIRPipeline and emitRiscVAssemblyWithLLVMBackend.        *)

(* The temporary files of the entry point, and of emitLLVMIRToFile.        *)
Outer == IF emit = "llvm" THEN <<"ll">> ELSE <<"ll", "s">>
Inner == <<"mlir", "dialect">>

Members(list) == {list[i] : i \in DOMAIN list}

(* Faulty: the files are guarded before they exist.                        *)
createTemporaryFileGuarded(list, made) ==
  /\ temps' = temps \cup {list[i] : i \in 1 .. made}
  /\ guarded' = guarded \cup Members(list)
  /\ refused' = (refused \/ made < Len(list))

(* The files are made one after the other, until one cannot be made; they  *)
(* are guarded once all of them exist.                                     *)
createTemporaryFile(list, made) ==
  /\ temps' = temps \cup {list[i] : i \in 1 .. made}
  /\ guarded' = IF made = Len(list) THEN guarded \cup Members(list) ELSE guarded
  /\ refused' = (refused \/ made < Len(list))

(* A function returns: its FileRemovers delete what they guard.            *)
Return(list) ==
  /\ temps' = temps \ (guarded \cap Members(list))
  /\ guarded' = guarded \ Members(list)
  /\ UNCHANGED refused

(* Faulty: the entry point retries.                                        *)
GiveUpRetry == Return(Outer) /\ Goto("outer")

(* The entry point fails, and main goes on to the text of the same kind.   *)
GiveUp == Return(Outer) /\ Goto("text")

(* emitLLVMIRToFile fails: so does the LLVM IR entry point, but the one for*)
(* assembly retries with the reference LLVM IR.                            *)
AfterFailure == IF emit = "llvm" THEN "give_up" ELSE "reference"

CreateOuter ==
  /\ pc = "outer"
  /\ \E made \in 0 .. Len(Outer) :
       /\ createTemporaryFile(Outer, made)
       /\ Goto(IF made < Len(Outer) THEN "text"
               ELSE IF emit = "llvm" THEN "inner" ELSE "find_llc")
  /\ UNCHANGED <<run, emit, output, contents>>

findLLC ==
  /\ pc = "find_llc"
  /\ (Goto("inner") /\ UNCHANGED files) \/ GiveUp
  /\ UNCHANGED <<run, emit, output, contents>>

CreateInner ==
  /\ pc = "inner"
  /\ \E made \in 0 .. Len(Inner) :
       /\ createTemporaryFile(Inner, made)
       /\ Goto(IF made < Len(Inner) THEN AfterFailure ELSE "write_mlir")
  /\ UNCHANGED <<run, emit, output, contents>>

writeStandardMLIRToFile ==
  /\ pc = "write_mlir"
  /\ \/ run.mlir /\ Goto("tools") /\ UNCHANGED files
     \/ Return(Inner) /\ Goto(AfterFailure)
  /\ UNCHANGED <<run, emit, output, contents>>

(* Faulty: the files between MLIRGen and the tools are not removed.        *)
runMLIRToLLVMIRUnguarded ==
  /\ pc = "tools"
  /\ UNCHANGED temps /\ guarded' = guarded \ Members(Inner)
  /\ UNCHANGED refused
  /\ \/ ir' = "mlir" /\ Goto(IF emit = "llvm" THEN "read" ELSE "llc")
     \/ ir' \in {ir, "garbage"} /\ Goto(AfterFailure)
  /\ UNCHANGED <<run, emit, output, asm>>

(* mlir-opt, then mlir-translate into the .ll file.  A tool that is absent *)
(* or fails may have left anything there.                                  *)
runMLIRToLLVMIR ==
  /\ pc = "tools"
  /\ Return(Inner)
  /\ \/ ir' = "mlir" /\ Goto(IF emit = "llvm" THEN "read" ELSE "llc")
     \/ ir' \in {ir, "garbage"} /\ Goto(AfterFailure)
  /\ UNCHANGED <<run, emit, output, asm>>

Fail ==
  /\ pc = "give_up"
  /\ GiveUp
  /\ UNCHANGED <<run, emit, output, contents>>

runLLC ==
  /\ pc = "llc"
  /\ \/ asm' = ir /\ Goto("read")
     \/ asm' \in {asm, "garbage"} /\ Goto("reference")
  /\ UNCHANGED <<run, emit, output, files, ir>>

(* Faulty: the diagnostics of the reference emitter are not looked at.     *)
emitReferenceLLVMIRToFileUnchecked ==
  /\ pc = "reference"
  /\ \/ /\ ir' = IF run.text["llvm"] THEN "reference" ELSE "garbage"
        /\ Goto("reference_llc")
     \/ UNCHANGED ir /\ Goto("give_up")
  /\ UNCHANGED <<run, emit, output, files, asm>>

(* The text emitter writes the .ll file up to what it does not support.    *)
emitReferenceLLVMIRToFile ==
  /\ pc = "reference"
  /\ \/ /\ ir' = IF run.text["llvm"] THEN "reference" ELSE "garbage"
        /\ Goto(IF run.text["llvm"] THEN "reference_llc" ELSE "give_up")
     \/ UNCHANGED ir /\ Goto("give_up")
  /\ UNCHANGED <<run, emit, output, files, asm>>

runReferenceLLC ==
  /\ pc = "reference_llc"
  /\ \/ asm' = ir /\ Goto("read")
     \/ asm' \in {asm, "garbage"} /\ Goto("give_up")
  /\ UNCHANGED <<run, emit, output, files, ir>>

(* Faulty: what could be read is written before the read has succeeded.    *)
ReadBackStreamed ==
  /\ pc = "read"
  /\ Return(Outer)
  /\ \/ Write("llvm_tools", TRUE) /\ Exit("0", FALSE)
     \/ Write("llvm_tools", FALSE) /\ Goto("text")
  /\ UNCHANGED <<run, emit, contents>>

(* The result is read back and copied to the output, and main returns 0.   *)
ReadBack ==
  /\ pc = "read"
  /\ Return(Outer)
  /\ LET content == IF emit = "llvm" THEN ir ELSE asm
     IN  \/ /\ Write("llvm_tools", content \in {"mlir", "reference"})
            /\ Exit("0", FALSE)
         \/ Goto("text") /\ UNCHANGED output
  /\ UNCHANGED <<run, emit, contents>>

Next ==
  \/ ParseOptions \/ OpenInput \/ OpenOutput \/ Lex \/ Parse
  \/ EmitMLIR \/ EmitText
  \/ CreateOuter \/ findLLC \/ CreateInner \/ writeStandardMLIRToFile
  \/ runMLIRToLLVMIR \/ runLLC \/ emitReferenceLLVMIRToFile
  \/ runReferenceLLC \/ ReadBack \/ Fail

(* One thread; the tools it waits for end.                                 *)
Fairness == WF_vars(Next)

Spec == Init /\ [][Next]_vars /\ Fairness

---------------------------------------------------------------------------
Contents == {"empty", "garbage", "mlir", "reference"}

TypeOK ==
  /\ run \in Invocations
  /\ emit \in EmitAction
  /\ \A i \in DOMAIN output : output[i].complete \in BOOLEAN
  /\ stderr \in BOOLEAN
  /\ exit \in {"none", "0", "1"} /\ (exit = "none") = (pc # "exited")
  /\ temps \subseteq Members(<<"ll", "s", "mlir", "dialect">>)
  /\ guarded \subseteq temps
  /\ ir \in Contents /\ asm \in Contents

(* A run that reports success has written one complete artifact: nothing   *)
(* of a producer that failed precedes it, whichever tool failed and        *)
(* whatever it left in the temporary files.                                *)
SuccessIsComplete ==
  exit = "0" => Len(output) = 1 /\ output[1].complete

(* A run that writes something incomplete, or nothing, reports failure and *)
(* has printed why, even when the diagnostics of an earlier producer were  *)
(* dropped for those of the last one.                                      *)
FailureIsReported ==
  exit # "none" =>
    /\ exit = "1" <=> stderr
    /\ exit = "1" <=>
         output = <<>> \/ \E i \in DOMAIN output : ~output[i].complete

(* What the tools wrote was made from LLVM IR that was itself complete, and*)
(* from the MLIR module only if MLIRGen accepted all of the source: no     *)
(* stale or half-written temporary file reaches the output.                *)
OutputFromCompleteIR ==
  \A i \in DOMAIN output :
    output[i].producer = "llvm_tools" =>
      /\ ir \in {"mlir", "reference"}
      /\ ir = "mlir" => run.mlir
      /\ emit = "riscv-asm" => asm = ir

(* No temporary file outlives the run, unless the second of the two that a *)
(* function needs could not be made: then the first is left behind.        *)
TemporariesRemoved ==
  exit # "none" => \/ temps = {}
                   \/ refused /\ temps \in {{"ll"}, {"mlir"}}

(* Whatever fails, main gets to an exit status.                            *)
RunEnds == <>(exit # "none")
=============================================================================
