---------------------------- MODULE DriverProofs ----------------------------
(***************************************************************************)
(* Proofs about Driver, for every set of invocations: what a run of zc     *)
(* writes, reports and leaves behind, whichever tools fail.                *)
(***************************************************************************)
EXTENDS Driver, TLAPS

---------------------------------------------------------------------------
(* The inductive invariant: what holds at each place of the control flow.  *)

Front == {"options", "input", "output", "lex", "parse"}
LLCOnly == {"find_llc", "llc", "reference", "reference_llc"}
Pipeline == {"outer", "inner", "write_mlir", "tools", "give_up", "read"}
              \cup LLCOnly

Types ==
  /\ run \in Invocations
  /\ emit \in EmitAction
  /\ pc \in Front \cup Pipeline \cup {"text", "exited"}
  /\ refused \in BOOLEAN

(* The emit actions that reach the code generators and the tools.          *)
EmitAtPc ==
  /\ pc = "lex" => emit # "none"
  /\ pc = "parse" => emit \notin {"none", "tokens"}
  /\ pc = "lex" => emit # "none"
  /\ pc = "parse" => emit \notin {"none", "tokens"}
  /\ pc = "lex" => emit # "none"
  /\ pc = "parse" => emit \notin {"none", "tokens"}
  /\ pc = "lex" => emit # "none"
  /\ pc = "parse" => emit \notin {"none", "tokens"}
  /\ pc = "lex" => emit # "none"
  /\ pc = "parse" => emit \notin {"none", "tokens"}
  /\ pc = "lex" => emit # "none"
  /\ pc = "parse" => emit \notin {"none", "tokens"}
  /\ pc = "lex" => emit # "none"
  /\ pc = "parse" => emit \notin {"none", "tokens"}
  /\ pc = "text" => emit \in Dialect \cup {"mlir"}
  /\ pc \in Pipeline => emit \in {"llvm", "riscv-asm"}
  /\ pc \in LLCOnly => emit = "riscv-asm"

(* The output and the exit status are settled by the same step.            *)
Wrote(complete) ==
  /\ DOMAIN output = {1} /\ Len(output) = 1
  /\ output[1].complete = complete

ExitAtPc ==
  /\ pc # "exited" => output = <<>> /\ stderr = FALSE /\ exit = "none"
  /\ pc = "exited" =>
       \/ exit = "0" /\ stderr = FALSE /\ Wrote(TRUE)
       \/ exit = "1" /\ stderr = TRUE /\ (output = <<>> \/ Wrote(FALSE))

ContentsAtPc ==
  /\ ir \in Contents /\ asm \in Contents
  /\ ir = "mlir" \/ pc = "tools" => run.mlir = TRUE
  /\ pc = "llc" => ir = "mlir"
  /\ pc = "reference_llc" => ir = "reference"
  /\ pc = "read" => /\ ir \in {"mlir", "reference"}
                    /\ emit = "riscv-asm" => asm = ir

OuterFiles == IF emit = "llvm" THEN {"ll"} ELSE {"ll", "s"}
InnerFiles == {"mlir", "dialect"}

(* While only the files of the entry point are guarded, the first of the   *)
(* inner two may have been left behind.                                    *)
TempsAtPc ==
  /\ pc \in Front \cup {"outer"} => temps = {} /\ guarded = {}
  /\ pc \in {"find_llc", "inner"} => temps = OuterFiles /\ guarded = OuterFiles
  /\ pc \in {"write_mlir", "tools"} =>
       temps = OuterFiles \cup InnerFiles /\ guarded = OuterFiles \cup InnerFiles
  /\ pc \in {"give_up", "llc", "reference", "reference_llc", "read"} =>
       /\ guarded = OuterFiles
       /\ \/ temps = OuterFiles
          \/ refused /\ temps = OuterFiles \cup {"mlir"}
  /\ pc \in {"text", "exited"} =>
       /\ guarded = {}
       /\ \/ temps = {}
          \/ refused /\ temps \in {{"ll"}, {"mlir"}}

IInv ==
  /\ Types
  /\ EmitAtPc
  /\ ExitAtPc
  /\ ContentsAtPc
  /\ TempsAtPc
  /\ OutputFromCompleteIR

---------------------------------------------------------------------------
(* Operators.                                                              *)

LEMMA WriteFacts ==
  ASSUME output = <<>>, NEW producer, NEW complete, Write(producer, complete)
  PROVE  /\ DOMAIN output' = {1} /\ Len(output') = 1
         /\ output'[1].producer = producer /\ output'[1].complete = complete
  BY DEF Write

LEMMA EmptyOutput == output = <<>> => DOMAIN output = {}
  OBVIOUS

LEMMA FileLists ==
  /\ Members(Outer) = OuterFiles /\ Members(Inner) = InnerFiles
  /\ Len(Inner) = 2 /\ Inner[1] = "mlir" /\ Inner[2] = "dialect"
  /\ emit = "llvm" => Len(Outer) = 1 /\ Outer[1] = "ll"
  /\ emit # "llvm" => Len(Outer) = 2 /\ Outer[1] = "ll" /\ Outer[2] = "s"
  BY DEF Members, Outer, Inner, OuterFiles, InnerFiles

LEMMA RunFacts ==
  ASSUME Types
  PROVE  /\ run.emit \in EmitAction
         /\ run.lexes \in BOOLEAN /\ run.parses \in BOOLEAN
         /\ run.mlir \in BOOLEAN
         /\ \A d \in Dialect : run.text[d] \in BOOLEAN
  BY InvocationsAssumption DEF Types

LEMMA LastFlag ==
  ASSUME NEW S \in SUBSET DOMAIN Flags, S # {}
  PROVE  Flags[CHOOSE i \in S : \A j \in S : j <= i] \in EmitAction
<1>1. DOMAIN Flags = 1 .. 7 /\ \A i \in 1 .. 7 : Flags[i] \in EmitAction
  BY DEF Flags, EmitAction
<1>2. \A i \in S : i \in {1, 2, 3, 4, 5, 6, 7}
  BY <1>1
<1>3. \E i \in S : \A j \in S : j <= i
  <2>1. CASE 7 \in S BY <1>2, <2>1
  <2>2. CASE 7 \notin S /\ 6 \in S BY <1>2, <2>2
  <2>3. CASE S \cap {6, 7} = {} /\ 5 \in S BY <1>2, <2>3
  <2>4. CASE S \cap {5, 6, 7} = {} /\ 4 \in S BY <1>2, <2>4
  <2>5. CASE S \cap {4, 5, 6, 7} = {} /\ 3 \in S BY <1>2, <2>5
  <2>6. CASE S \cap {3, 4, 5, 6, 7} = {} /\ 2 \in S BY <1>2, <2>6
  <2>7. CASE S \cap {2, 3, 4, 5, 6, 7} = {} BY <1>2, <2>7
  <2> QED
    BY <2>1, <2>2, <2>3, <2>4, <2>5, <2>6, <2>7
<1>4. (CHOOSE i \in S : \A j \in S : j <= i) \in S
  BY <1>3
<1> QED
  BY <1>1, <1>4

(* main returns after an error, or after it has written an artifact.       *)
LEMMA Exits ==
  ASSUME output = <<>>, stderr = FALSE, NEW producer, NEW complete \in BOOLEAN,
         \/ UNCHANGED output /\ Exit("1", TRUE)
         \/ /\ Write(producer, complete)
            /\ \/ complete = TRUE /\ Exit("0", FALSE)
               \/ complete = FALSE /\ Exit("1", TRUE)
  PROVE  /\ pc' = "exited" /\ ExitAtPc'
         /\ \A i \in DOMAIN output' : output'[i].producer = producer
<1>1. CASE UNCHANGED output /\ Exit("1", TRUE)
  BY <1>1, EmptyOutput DEF ExitAtPc, Exit
<1>2. CASE Write(producer, complete) /\ complete = TRUE /\ Exit("0", FALSE)
  BY <1>2, WriteFacts DEF ExitAtPc, Exit, Wrote
<1>3. CASE Write(producer, complete) /\ complete = FALSE /\ Exit("1", TRUE)
  BY <1>3, WriteFacts DEF ExitAtPc, Exit, Wrote
<1> QED
  BY <1>1, <1>2, <1>3

LEMMA Goes ==
  ASSUME IInv, pc # "exited", NEW label, label # "exited", Goto(label),
         UNCHANGED output
  PROVE  /\ pc' = label /\ output = <<>> /\ ExitAtPc'
         /\ \A i \in DOMAIN output' : output'[i].producer = "main"
  BY EmptyOutput DEF IInv, ExitAtPc, Goto

---------------------------------------------------------------------------
(* main.                                                                   *)

LEMMA MainStep ==
  ASSUME IInv, pc \in Front \cup {"text"},
         UNCHANGED <<run, files, contents>>, emit' \in EmitAction,
         pc' \in {"exited", "outer", "text"} \cup Front,
         pc = "text" => pc' = "exited",
         EmitAtPc', ExitAtPc', NEW producer, producer # "llvm_tools",
         \A i \in DOMAIN output' : output'[i].producer = producer
  PROVE  IInv'
<1>1. Types'
  BY DEF IInv, Types, Pipeline, Front, files
<1>2. ContentsAtPc'
  <2>1. UNCHANGED <<run, ir, asm>>
    BY DEF contents
  <2>2. pc' \notin {"tools", "llc", "reference_llc", "read"}
    BY DEF Front
  <2>3. ir = "mlir" => run.mlir = TRUE
    BY DEF IInv, ContentsAtPc
  <2>4. ir' \in Contents /\ asm' \in Contents
    BY <2>1 DEF IInv, ContentsAtPc
  <2>5. ir' = "mlir" => run'.mlir = TRUE
    BY <2>1, <2>3
  <2> QED
    BY <2>2, <2>4, <2>5 DEF ContentsAtPc
<1>3. TempsAtPc'
  BY DEF IInv, TempsAtPc, files, Front
<1>4. OutputFromCompleteIR'
  BY DEF OutputFromCompleteIR
<1> QED
  BY <1>1, <1>2, <1>3, <1>4 DEF IInv

LEMMA MainFacts ==
  ASSUME IInv, pc \in Front \cup {"text"}
  PROVE  /\ output = <<>> /\ stderr = FALSE /\ pc # "exited"
         /\ emit \in EmitAction
         /\ run.lexes \in BOOLEAN /\ run.mlir \in BOOLEAN
         /\ emit \in Dialect => run.text[emit] \in BOOLEAN
  BY RunFacts DEF IInv, ExitAtPc, Types, Front

LEMMA NoEmitAtPc ==
  ASSUME pc' \in {"input", "output", "exited"}
  PROVE  EmitAtPc'
  BY DEF EmitAtPc, Pipeline, LLCOnly

LEMMA MainExits ==
  ASSUME IInv, pc \in Front \cup {"text"},
         UNCHANGED <<run, emit, files, contents>>,
         NEW producer, NEW complete \in BOOLEAN, producer # "llvm_tools",
         \/ UNCHANGED output /\ Exit("1", TRUE)
         \/ /\ Write(producer, complete)
            /\ \/ complete = TRUE /\ Exit("0", FALSE)
               \/ complete = FALSE /\ Exit("1", TRUE)
  PROVE  IInv'
<1>1. /\ pc' = "exited" /\ ExitAtPc'
      /\ \A i \in DOMAIN output' : output'[i].producer = producer
  BY Exits, MainFacts
<1>2. EmitAtPc' /\ emit' \in EmitAction
  BY <1>1, NoEmitAtPc, MainFacts
<1> QED
  BY <1>1, <1>2, MainStep

LEMMA MainGoes ==
  ASSUME IInv, pc \in Front, UNCHANGED <<run, output, files, contents>>,
         NEW label \in {"outer", "text"} \cup Front, Goto(label),
         emit' \in EmitAction, label \notin {"input", "output"} => EmitAtPc'
  PROVE  IInv'
<1>1. pc # "exited" /\ label # "exited" /\ pc # "text" /\ UNCHANGED output
  BY DEF Front
<1>2. /\ pc' = label /\ ExitAtPc'
      /\ \A i \in DOMAIN output' : output'[i].producer = "main"
  BY <1>1, Goes
<1>3. EmitAtPc'
  BY <1>2, NoEmitAtPc
<1> QED
  BY <1>1, <1>2, <1>3, MainStep

LEMMA OptionsStep ==
  ASSUME IInv, ParseOptions
  PROVE  IInv'
<1>1. /\ pc \in Front /\ Goto("input") /\ "input" \in Front
      /\ UNCHANGED <<run, output, files, contents>>
  BY DEF ParseOptions, Front
<1>2. emit' \in EmitAction
  BY LastFlag, RunFacts DEF ParseOptions, IInv
<1> QED
  BY <1>1, <1>2, MainGoes

LEMMA OpenInputStep ==
  ASSUME IInv, OpenInput
  PROVE  IInv'
<1>1. /\ pc \in Front /\ "output" \in Front
      /\ UNCHANGED <<run, emit, output, files, contents>>
  BY DEF OpenInput, Front
<1>2. CASE Goto("output")
  <2>1. emit' \in EmitAction
    BY <1>1, MainFacts
  <2> QED
    BY <1>1, <1>2, <2>1, MainGoes
<1>3. CASE Exit("1", TRUE)
  <2>1. PICK p \in {"input"}, c \in BOOLEAN : p = "input" /\ c = TRUE
    OBVIOUS
  <2> QED
    BY <1>1, <1>3, <2>1, MainExits
<1> QED
  BY <1>2, <1>3 DEF OpenInput

LEMMA OpenOutputStep ==
  ASSUME IInv, OpenOutput
  PROVE  IInv'
<1>1. /\ pc \in Front /\ "lex" \in Front
      /\ UNCHANGED <<run, emit, files, contents>>
  BY DEF OpenOutput, Front
<1>2. CASE Goto("lex") /\ UNCHANGED output /\ emit # "none"
  <2>1. EmitAtPc'
    BY <1>1, <1>2 DEF EmitAtPc, Goto, Pipeline, LLCOnly
  <2> QED
    BY <1>1, <1>2, <2>1, MainGoes, MainFacts
<1>3. CASE \/ UNCHANGED output /\ Exit("1", TRUE)
           \/ Write("hint", TRUE) /\ Exit("0", FALSE)
  <2>1. PICK p \in {"hint"}, c \in BOOLEAN : p = "hint" /\ c = TRUE
    OBVIOUS
  <2> QED
    BY <1>1, <1>3, <2>1, MainExits
<1> QED
  BY <1>2, <1>3 DEF OpenOutput

LEMMA LexStep ==
  ASSUME IInv, Lex
  PROVE  IInv'
<1>1. /\ pc \in Front /\ pc = "lex" /\ "parse" \in Front
      /\ UNCHANGED <<run, emit, files, contents>>
  BY DEF Lex, Front
<1>2. CASE Goto("parse") /\ UNCHANGED output /\ emit # "tokens"
  <2>1. EmitAtPc'
    BY <1>1, <1>2 DEF IInv, EmitAtPc, Goto, Pipeline, LLCOnly
  <2> QED
    BY <1>1, <1>2, <2>1, MainGoes, MainFacts
<1>3. CASE \/ UNCHANGED output /\ Exit("1", TRUE)
           \/ /\ Write("tokens", run.lexes)
              /\ IF run.lexes THEN Exit("0", FALSE) ELSE Exit("1", TRUE)
  <2>1. PICK c \in BOOLEAN : c = run.lexes
    BY <1>1, MainFacts
  <2>2. \/ UNCHANGED output /\ Exit("1", TRUE)
        \/ /\ Write("tokens", c)
           /\ \/ c = TRUE /\ Exit("0", FALSE)
              \/ c = FALSE /\ Exit("1", TRUE)
    BY <1>3, <2>1
  <2> QED
    BY <1>1, <2>2, MainExits
<1> QED
  BY <1>2, <1>3 DEF Lex

LEMMA ParseStep ==
  ASSUME IInv, Parse
  PROVE  IInv'
<1>1. /\ pc \in Front /\ pc = "parse"
      /\ UNCHANGED <<run, emit, files, contents>>
  BY DEF Parse, Front
<1>2. CASE \/ UNCHANGED output /\ Exit("1", TRUE)
           \/ Write("ast", TRUE) /\ Exit("0", FALSE)
  <2>1. PICK p \in {"ast"}, c \in BOOLEAN : p = "ast" /\ c = TRUE
    OBVIOUS
  <2> QED
    BY <1>1, <1>2, <2>1, MainExits
<1>3. CASE /\ Goto(IF emit \in {"llvm", "riscv-asm"} THEN "outer" ELSE "text")
           /\ emit # "ast" /\ UNCHANGED output
  <2>1. PICK l \in {"outer", "text"} :
          l = (IF emit \in {"llvm", "riscv-asm"} THEN "outer" ELSE "text")
    OBVIOUS
  <2>2. Goto(l) /\ pc' = l
    BY <1>3, <2>1 DEF Goto
  <2>3. emit \in EmitAction /\ emit \notin {"none", "tokens", "ast"}
    BY <1>1, <1>3, MainFacts DEF IInv, EmitAtPc
  <2>4. EmitAtPc'
    BY <1>1, <2>1, <2>2, <2>3
    DEF EmitAtPc, Pipeline, LLCOnly, Dialect, EmitAction
  <2> QED
    BY <1>1, <1>3, <2>2, <2>3, <2>4, MainGoes
<1> QED
  BY <1>2, <1>3 DEF Parse

LEMMA TextSteps ==
  ASSUME IInv, EmitMLIR \/ EmitText
  PROVE  IInv'
<1>1. pc \in Front \cup {"text"} /\ UNCHANGED <<run, emit, files, contents>>
  BY DEF EmitMLIR, EmitText
<1>2. CASE EmitMLIR
  BY <1>1, <1>2, MainExits DEF EmitMLIR
<1>3. CASE EmitText
  <2>1. PICK c \in BOOLEAN : c = run.text[emit]
    BY <1>1, <1>3, MainFacts DEF EmitText
  <2>2. /\ Write(emit, c) /\ emit # "llvm_tools"
        /\ \/ c = TRUE /\ Exit("0", FALSE)
           \/ c = FALSE /\ Exit("1", TRUE)
    BY <1>3, <2>1 DEF EmitText, Dialect
  <2>3. PICK p : p = emit
    OBVIOUS
  <2> QED
    BY <1>1, <2>2, <2>3, MainExits
<1> QED
  BY <1>2, <1>3

---------------------------------------------------------------------------
(* The two entry points that run the tools.                                *)

(* A step from one place of an entry point to another, or back to main     *)
(* without an artifact, writes nothing.                                    *)
LEMMA PipelineGoes ==
  ASSUME IInv, pc \in Pipeline, UNCHANGED <<run, emit, output>>,
         NEW label \in Pipeline \cup {"text"}, Goto(label),
         label \in LLCOnly => emit = "riscv-asm",
         refused' \in BOOLEAN, ContentsAtPc', TempsAtPc'
  PROVE  IInv'
<1>1. pc # "exited" /\ label # "exited" /\ label \notin {"lex", "parse"}
  BY DEF Pipeline, LLCOnly
<1>2. /\ pc' = label /\ ExitAtPc' /\ DOMAIN output' = {}
  BY <1>1, Goes, EmptyOutput
<1>3. Types'
  BY <1>2 DEF IInv, Types
<1>4. EmitAtPc'
  BY <1>1, <1>2 DEF IInv, EmitAtPc, Dialect
<1>5. OutputFromCompleteIR'
  BY <1>2 DEF OutputFromCompleteIR
<1> QED
  BY <1>2, <1>3, <1>4, <1>5 DEF IInv

LEMMA PlainContents ==
  ASSUME IInv, UNCHANGED <<run, contents>>,
         pc' \notin {"tools", "llc", "reference_llc", "read"}
  PROVE  ContentsAtPc'
<1>1. UNCHANGED <<run, ir, asm>>
  BY DEF contents
<1>2. ir' \in Contents /\ asm' \in Contents
  BY <1>1 DEF IInv, ContentsAtPc
<1>3. ir' = "mlir" => run'.mlir = TRUE
  BY <1>1 DEF IInv, ContentsAtPc
<1> QED
  BY <1>2, <1>3 DEF ContentsAtPc

LEMMA CreateFacts ==
  ASSUME NEW list, NEW made, createTemporaryFile(list, made)
  PROVE  /\ temps' = temps \cup {list[i] : i \in 1 .. made}
         /\ made = Len(list) => guarded' = guarded \cup Members(list)
         /\ made # Len(list) => guarded' = guarded
         /\ made < Len(list) => refused' = TRUE
         /\ refused' \in BOOLEAN
<1>1. temps' = temps \cup {list[i] : i \in 1 .. made}
  BY DEF createTemporaryFile
<1>2. /\ made = Len(list) => guarded' = guarded \cup Members(list)
      /\ made # Len(list) => guarded' = guarded
  BY DEF createTemporaryFile
<1>3. (made < Len(list) => refused' = TRUE) /\ refused' \in BOOLEAN
  BY DEF createTemporaryFile
<1> QED
  BY <1>1, <1>2, <1>3

LEMMA ReturnOuter ==
  ASSUME IInv, pc \in {"find_llc", "give_up", "read"}, Return(Outer)
  PROVE  /\ guarded' = {} /\ refused' = refused
         /\ \/ temps' = {}
            \/ refused /\ temps' \in {{"ll"}, {"mlir"}}
<1>1. /\ guarded = OuterFiles
      /\ temps = OuterFiles \/ refused
      /\ temps = OuterFiles \/ temps = OuterFiles \cup {"mlir"}
  BY DEF IInv, TempsAtPc
<1>2. /\ temps' = temps \ OuterFiles /\ guarded' = {} /\ refused' = refused
  BY <1>1, FileLists DEF Return
<1>3. "mlir" \notin OuterFiles
  BY DEF OuterFiles
<1>4. CASE temps = OuterFiles
  BY <1>2, <1>4
<1>5. CASE temps = OuterFiles \cup {"mlir"} /\ refused
  <2>1. temps' = {"mlir"}
    BY <1>2, <1>3, <1>5
  <2> QED
    BY <1>2, <1>5, <2>1
<1> QED
  BY <1>1, <1>4, <1>5

LEMMA ReturnInner ==
  ASSUME IInv, pc \in {"write_mlir", "tools"}, Return(Inner)
  PROVE  /\ guarded' = OuterFiles /\ temps' = OuterFiles /\ refused' = refused
<1>1. /\ guarded = OuterFiles \cup InnerFiles
      /\ temps = OuterFiles \cup InnerFiles
  BY DEF IInv, TempsAtPc
<1>2. OuterFiles \cap InnerFiles = {}
  BY DEF OuterFiles, InnerFiles
<1> QED
  BY <1>1, <1>2, FileLists DEF Return

LEMMA GiveUpStep ==
  ASSUME IInv, pc \in {"find_llc", "give_up"}, GiveUp,
         UNCHANGED <<run, emit, output, contents>>
  PROVE  IInv'
<1>1. pc \in Pipeline /\ Goto("text") /\ pc' = "text"
  BY DEF GiveUp, Goto, Pipeline, LLCOnly
<1>2. refused' \in BOOLEAN /\ TempsAtPc'
  <2>1. /\ guarded' = {} /\ refused' = refused
        /\ \/ temps' = {}
           \/ refused /\ temps' \in {{"ll"}, {"mlir"}}
    BY ReturnOuter DEF GiveUp
  <2> QED
    BY <1>1, <2>1 DEF TempsAtPc, Front, IInv, Types
<1>3. ContentsAtPc'
  BY <1>1, PlainContents
<1>4. "text" \notin LLCOnly
  BY DEF LLCOnly
<1> QED
  BY <1>1, <1>2, <1>3, <1>4, PipelineGoes

LEMMA CreateOuterStep ==
  ASSUME IInv, CreateOuter
  PROVE  IInv'
<1>1. /\ pc = "outer" /\ pc \in Pipeline /\ temps = {} /\ guarded = {}
      /\ refused \in BOOLEAN /\ emit \in {"llvm", "riscv-asm"}
      /\ UNCHANGED <<run, emit, output, contents>>
  BY DEF CreateOuter, Pipeline, IInv, TempsAtPc, Types, EmitAtPc
<1>2. PICK made \in 0 .. Len(Outer) :
        /\ createTemporaryFile(Outer, made)
        /\ Goto(IF made < Len(Outer) THEN "text"
                ELSE IF emit = "llvm" THEN "inner" ELSE "find_llc")
  BY DEF CreateOuter
<1>3. Len(Outer) \in {1, 2}
  BY FileLists
<1>4. /\ temps' = {Outer[i] : i \in 1 .. made} /\ refused' \in BOOLEAN
      /\ made = Len(Outer) => guarded' = OuterFiles
      /\ made # Len(Outer) => guarded' = {}
      /\ made < Len(Outer) => refused' = TRUE
  <2>1. createTemporaryFile(Outer, made)
    BY <1>2
  <2>2. Members(Outer) = OuterFiles
    BY FileLists
  <2> QED
    BY <1>1, <2>1, <2>2, CreateFacts
<1>5. /\ OuterFiles' = OuterFiles
      /\ {Outer[i] : i \in 1 .. Len(Outer)} = OuterFiles
  BY <1>1 DEF OuterFiles, Outer
<1>6. CASE made = Len(Outer)
  <2>1. PICK label \in {"inner", "find_llc"} :
          Goto(label) /\ (label = "find_llc" => emit = "riscv-asm")
    <3>1. ~(made < Len(Outer))
      BY <1>3, <1>6
    <3>2. Goto(IF emit = "llvm" THEN "inner" ELSE "find_llc")
      BY <1>2, <3>1
    <3>3. CASE emit = "llvm" BY <3>2, <3>3
    <3>4. CASE emit # "llvm" BY <1>1, <3>2, <3>4
    <3> QED BY <3>3, <3>4
  <2>2. /\ pc' = label /\ label \in Pipeline
        /\ label \in LLCOnly => emit = "riscv-asm"
    BY <2>1 DEF Goto, Pipeline, LLCOnly
  <2>3. ContentsAtPc'
    BY <1>1, <2>1, <2>2, PlainContents
  <2>4. temps' = OuterFiles /\ guarded' = OuterFiles
    BY <1>4, <1>5, <1>6
  <2>5. TempsAtPc'
    BY <1>5, <2>1, <2>2, <2>4 DEF TempsAtPc, Front
  <2> QED
    BY <1>1, <1>4, <2>1, <2>2, <2>3, <2>5, PipelineGoes
<1>7. CASE made # Len(Outer)
  <2>1. made \in {0, 1} /\ made < Len(Outer)
    <3>1. CASE Len(Outer) = 1 BY <1>7, <3>1
    <3>2. CASE Len(Outer) = 2 BY <1>7, <3>2
    <3> QED BY <1>3, <3>1, <3>2
  <2>2. Goto("text") /\ pc' = "text" /\ guarded' = {} /\ refused' = TRUE
    BY <1>2, <1>4, <1>7, <2>1 DEF Goto
  <2>3. temps' \in {{}, {"ll"}}
    <3>1. CASE made = 0 BY <1>4, <3>1
    <3>2. CASE made = 1
      <4>1. Outer[1] = "ll"
        BY FileLists
      <4> QED
        BY <1>4, <3>2, <4>1
    <3> QED BY <2>1, <3>1, <3>2
  <2>4. ContentsAtPc'
    BY <1>1, <2>2, PlainContents
  <2>5. TempsAtPc'
    BY <2>2, <2>3 DEF TempsAtPc, Front
  <2>6. "text" \notin LLCOnly
    BY DEF LLCOnly
  <2> QED
    BY <1>1, <1>4, <2>2, <2>4, <2>5, <2>6, PipelineGoes
<1> QED
  BY <1>6, <1>7

LEMMA CreateInnerStep ==
  ASSUME IInv, CreateInner
  PROVE  IInv'
<1>1. /\ pc = "inner" /\ pc \in Pipeline
      /\ temps = OuterFiles /\ guarded = OuterFiles
      /\ refused \in BOOLEAN /\ emit \in {"llvm", "riscv-asm"}
      /\ UNCHANGED <<run, emit, output, contents>>
  BY DEF CreateInner, Pipeline, IInv, TempsAtPc, Types, EmitAtPc
<1>2. Len(Inner) = 2 /\ Inner[1] = "mlir" /\ Members(Inner) = InnerFiles
  BY FileLists
<1>3. PICK made \in 0 .. 2 :
        /\ createTemporaryFile(Inner, made)
        /\ Goto(IF made < 2 THEN AfterFailure ELSE "write_mlir")
  BY <1>2 DEF CreateInner
<1>4. /\ temps' = OuterFiles \cup {Inner[i] : i \in 1 .. made}
      /\ refused' \in BOOLEAN
      /\ made = 2 => guarded' = OuterFiles \cup InnerFiles
      /\ made # 2 => guarded' = OuterFiles
      /\ made < 2 => refused' = TRUE
  <2>1. createTemporaryFile(Inner, made)
    BY <1>3
  <2> QED
    BY <1>1, <1>2, <2>1, CreateFacts
<1>5. /\ OuterFiles' = OuterFiles /\ InnerFiles' = InnerFiles
      /\ {Inner[i] : i \in 1 .. 2} = InnerFiles
  BY <1>1 DEF OuterFiles, InnerFiles, Inner
<1>6. CASE made = 2
  <2>1. Goto("write_mlir") /\ pc' = "write_mlir"
    BY <1>3, <1>6 DEF Goto
  <2>2. "write_mlir" \in Pipeline /\ "write_mlir" \notin LLCOnly
    BY DEF Pipeline, LLCOnly
  <2>3. ContentsAtPc'
    BY <1>1, <2>1, PlainContents
  <2>4. TempsAtPc'
    BY <1>4, <1>5, <1>6, <2>1 DEF TempsAtPc, Front
  <2> QED
    BY <1>1, <1>4, <2>1, <2>2, <2>3, <2>4, PipelineGoes
<1>7. CASE made # 2
  <2>1. made \in {0, 1} /\ made < 2
    BY <1>7
  <2>2. PICK label \in {"give_up", "reference"} :
          Goto(label) /\ (label = "reference" => emit = "riscv-asm")
    <3>1. CASE emit = "llvm"
      BY <1>3, <2>1, <3>1 DEF AfterFailure
    <3>2. CASE emit = "riscv-asm"
      BY <1>3, <2>1, <3>2 DEF AfterFailure
    <3> QED
      BY <1>1, <3>1, <3>2
  <2>3. /\ pc' = label /\ label \in Pipeline
        /\ label \in LLCOnly => emit = "riscv-asm"
    BY <2>2 DEF Goto, Pipeline, LLCOnly
  <2>4. ContentsAtPc'
    BY <1>1, <2>2, <2>3, PlainContents
  <2>5. temps' = OuterFiles \/ temps' = OuterFiles \cup {"mlir"}
    <3>1. CASE made = 0
      <4>1. {Inner[i] : i \in 1 .. made} = {} BY <3>1
      <4> QED BY <1>4, <4>1
    <3>2. CASE made = 1
      <4>1. {Inner[i] : i \in 1 .. made} = {"mlir"} BY <1>2, <3>2
      <4> QED BY <1>4, <4>1
    <3> QED BY <2>1, <3>1, <3>2
  <2>6. TempsAtPc'
    <3>1. guarded' = OuterFiles' /\ refused' = TRUE
      BY <1>4, <1>5, <2>1
    <3>2. temps' = OuterFiles' \/ temps' = OuterFiles' \cup {"mlir"}
      BY <1>5, <2>5
    <3>3. pc' \in {"give_up", "reference"}
      BY <2>2, <2>3
    <3> QED
      BY <3>1, <3>2, <3>3 DEF TempsAtPc, Front
  <2> QED
    BY <1>1, <1>4, <2>2, <2>3, <2>4, <2>6, PipelineGoes
<1> QED
  BY <1>6, <1>7

LEMMA FindStep ==
  ASSUME IInv, findLLC
  PROVE  IInv'
<1>1. /\ pc = "find_llc" /\ pc \in Pipeline
      /\ UNCHANGED <<run, emit, output, contents>>
  BY DEF findLLC, Pipeline, LLCOnly
<1>2. CASE GiveUp
  BY <1>1, <1>2, GiveUpStep
<1>3. CASE Goto("inner") /\ UNCHANGED files
  <2>1. /\ pc' = "inner" /\ "inner" \in Pipeline /\ "inner" \notin LLCOnly
    BY <1>3 DEF Goto, Pipeline, LLCOnly
  <2>2. UNCHANGED <<temps, guarded, refused>> /\ OuterFiles' = OuterFiles
    BY <1>1, <1>3 DEF files, OuterFiles
  <2>3. TempsAtPc' /\ refused' \in BOOLEAN
    BY <1>1, <2>1, <2>2 DEF IInv, TempsAtPc, Types, Front
  <2>4. ContentsAtPc'
    BY <1>1, <2>1, PlainContents
  <2> QED
    BY <1>1, <1>3, <2>1, <2>3, <2>4, PipelineGoes
<1> QED
  BY <1>2, <1>3 DEF findLLC

(* The files between MLIRGen and the tools go, and the entry point may or  *)
(* may not have another source of LLVM IR.                                 *)
LEMMA InnerEnds ==
  ASSUME IInv, pc \in {"write_mlir", "tools"}, Return(Inner),
         UNCHANGED <<run, emit, output>>, NEW label, Goto(label),
         label \in {"read", "llc"} \/ label = AfterFailure,
         label = "llc" => emit = "riscv-asm", ContentsAtPc'
  PROVE  IInv'
<1>1. /\ pc \in Pipeline /\ emit \in {"llvm", "riscv-asm"}
      /\ refused \in BOOLEAN
  BY DEF Pipeline, IInv, EmitAtPc, Types
<1>2. /\ label \in {"read", "llc", "give_up", "reference"}
      /\ label \in LLCOnly => emit = "riscv-asm"
  BY <1>1 DEF AfterFailure, LLCOnly
<1>3. pc' = label /\ label \in Pipeline
  BY <1>2 DEF Goto, Pipeline, LLCOnly
<1>4. /\ guarded' = OuterFiles' /\ temps' = OuterFiles' /\ refused' = refused
  BY ReturnInner DEF OuterFiles
<1>5. TempsAtPc'
  BY <1>2, <1>3, <1>4 DEF TempsAtPc, Front
<1> QED
  BY <1>1, <1>2, <1>3, <1>4, <1>5, PipelineGoes

LEMMA WriteMLIRStep ==
  ASSUME IInv, writeStandardMLIRToFile
  PROVE  IInv'
<1>1. /\ pc = "write_mlir" /\ pc \in Pipeline
      /\ UNCHANGED <<run, emit, output, contents>>
      /\ emit \in {"llvm", "riscv-asm"}
  BY DEF writeStandardMLIRToFile, Pipeline, IInv, EmitAtPc
<1>2. CASE run.mlir /\ Goto("tools") /\ UNCHANGED files
  <2>1. /\ pc' = "tools" /\ "tools" \in Pipeline /\ "tools" \notin LLCOnly
    BY <1>2 DEF Goto, Pipeline, LLCOnly
  <2>2. /\ UNCHANGED <<temps, guarded, refused>>
        /\ OuterFiles' = OuterFiles /\ InnerFiles' = InnerFiles
    BY <1>1, <1>2 DEF files, OuterFiles, InnerFiles
  <2>3. TempsAtPc' /\ refused' \in BOOLEAN
    BY <1>1, <2>1, <2>2 DEF IInv, TempsAtPc, Types, Front
  <2>4. run.mlir = TRUE /\ UNCHANGED <<run, ir, asm>>
    BY <1>1, <1>2, RunFacts DEF contents, IInv
  <2>5. ContentsAtPc'
    BY <2>1, <2>4 DEF IInv, ContentsAtPc
  <2> QED
    BY <1>1, <1>2, <2>1, <2>3, <2>5, PipelineGoes
<1>3. CASE Return(Inner) /\ Goto(AfterFailure)
  <2>1. PICK label : label = AfterFailure
    OBVIOUS
  <2>2. Goto(label) /\ pc' = label /\ label \in {"give_up", "reference"}
    BY <1>3, <2>1 DEF Goto, AfterFailure
  <2>3. ContentsAtPc'
    BY <1>1, <2>2, PlainContents
  <2> QED
    BY <1>1, <1>3, <2>1, <2>2, <2>3, InnerEnds
<1> QED
  BY <1>2, <1>3 DEF writeStandardMLIRToFile

LEMMA ToolsStep ==
  ASSUME IInv, runMLIRToLLVMIR
  PROVE  IInv'
<1>1. /\ pc = "tools" /\ Return(Inner)
      /\ UNCHANGED <<run, emit, output, asm>>
      /\ emit \in {"llvm", "riscv-asm"} /\ run.mlir = TRUE
      /\ asm \in Contents /\ ir \in Contents
  BY DEF runMLIRToLLVMIR, Pipeline, IInv, EmitAtPc, ContentsAtPc
<1>2. CASE ir' = "mlir" /\ Goto(IF emit = "llvm" THEN "read" ELSE "llc")
  <2>1. PICK label \in {"read", "llc"} :
          label = (IF emit = "llvm" THEN "read" ELSE "llc")
    OBVIOUS
  <2>2. Goto(label) /\ pc' = label
    BY <1>2, <2>1 DEF Goto
  <2>3. /\ label = "llc" => emit = "riscv-asm"
        /\ label = "read" => emit = "llvm"
    BY <1>1, <2>1
  <2>4. ContentsAtPc'
    BY <1>1, <1>2, <2>2, <2>3 DEF ContentsAtPc, Contents
  <2> QED
    BY <1>1, <2>2, <2>3, <2>4, InnerEnds
<1>3. CASE ir' \in {ir, "garbage"} /\ Goto(AfterFailure)
  <2>1. PICK label : label = AfterFailure
    OBVIOUS
  <2>2. Goto(label) /\ pc' = label /\ label \in {"give_up", "reference"}
    BY <1>3, <2>1 DEF Goto, AfterFailure
  <2>3. ContentsAtPc'
    BY <1>1, <1>3, <2>2 DEF ContentsAtPc, Contents
  <2> QED
    BY <1>1, <2>1, <2>2, <2>3, InnerEnds
<1> QED
  BY <1>2, <1>3 DEF runMLIRToLLVMIR

LEMMA FailStep ==
  ASSUME IInv, Fail
  PROVE  IInv'
  BY GiveUpStep DEF Fail

(* llc and the reference emitter, of the entry point for assembly.         *)
LEMMA AssemblySteps ==
  ASSUME IInv, runLLC \/ emitReferenceLLVMIRToFile \/ runReferenceLLC
  PROVE  IInv'
<1>1. /\ pc \in {"llc", "reference", "reference_llc"} /\ pc \in Pipeline
      /\ emit = "riscv-asm" /\ UNCHANGED <<run, emit, output>>
      /\ UNCHANGED <<temps, guarded, refused>> /\ refused' \in BOOLEAN
      /\ ir \in Contents /\ asm \in Contents
  BY DEF runLLC, emitReferenceLLVMIRToFile, runReferenceLLC, Pipeline, LLCOnly,
    IInv, EmitAtPc, Types, ContentsAtPc, files
<1>2. \A label \in {"read", "reference", "reference_llc", "give_up"} :
        Goto(label) => TempsAtPc' /\ pc' = label
  <2> SUFFICES ASSUME NEW label \in {"read", "reference", "reference_llc",
                                     "give_up"}, Goto(label)
               PROVE  TempsAtPc' /\ pc' = label
    OBVIOUS
  <2>1. pc' = label
    BY DEF Goto
  <2>2. /\ guarded = OuterFiles
        /\ \/ temps = OuterFiles
           \/ refused /\ temps = OuterFiles \cup {"mlir"}
    BY <1>1 DEF IInv, TempsAtPc
  <2>3. OuterFiles' = OuterFiles
    BY <1>1 DEF OuterFiles
  <2> QED
    BY <1>1, <2>1, <2>2, <2>3 DEF TempsAtPc, Front
<1>3. PICK label \in {"read", "reference", "reference_llc", "give_up"} :
        /\ Goto(label) /\ ContentsAtPc'
  <2>1. CASE runLLC
    <3>1. ir = "mlir" /\ run.mlir = TRUE /\ UNCHANGED ir
      BY <2>1 DEF runLLC, IInv, ContentsAtPc
    <3>2. CASE asm' = ir /\ Goto("read")
      BY <1>1, <3>1, <3>2 DEF Goto, ContentsAtPc
    <3>3. CASE asm' \in {asm, "garbage"} /\ Goto("reference")
      BY <1>1, <3>1, <3>3 DEF Goto, ContentsAtPc, Contents
    <3> QED
      BY <2>1, <3>2, <3>3 DEF runLLC
  <2>2. CASE emitReferenceLLVMIRToFile
    <3>1. /\ UNCHANGED asm /\ (ir = "mlir" => run.mlir = TRUE)
          /\ run.text["llvm"] \in BOOLEAN
      BY <2>2, RunFacts
      DEF emitReferenceLLVMIRToFile, IInv, ContentsAtPc, Dialect
    <3>2. CASE UNCHANGED ir /\ Goto("give_up")
      BY <1>1, <3>1, <3>2 DEF Goto, ContentsAtPc
    <3>3. CASE ir' = "reference" /\ Goto("reference_llc")
      BY <1>1, <3>1, <3>3 DEF Goto, ContentsAtPc, Contents
    <3>4. CASE ir' = "garbage" /\ Goto("give_up")
      BY <1>1, <3>1, <3>4 DEF Goto, ContentsAtPc, Contents
    <3> QED
      BY <2>2, <3>1, <3>2, <3>3, <3>4 DEF emitReferenceLLVMIRToFile
  <2>3. CASE runReferenceLLC
    <3>1. ir = "reference" /\ UNCHANGED ir
      BY <2>3 DEF runReferenceLLC, IInv, ContentsAtPc
    <3>2. CASE asm' = ir /\ Goto("read")
      BY <1>1, <3>1, <3>2 DEF Goto, ContentsAtPc
    <3>3. CASE asm' \in {asm, "garbage"} /\ Goto("give_up")
      BY <1>1, <3>1, <3>3 DEF Goto, ContentsAtPc, Contents
    <3> QED
      BY <2>3, <3>2, <3>3 DEF runReferenceLLC
  <2> QED
    BY <2>1, <2>2, <2>3
<1>4. label \in Pipeline
  BY DEF Pipeline, LLCOnly
<1> QED
  BY <1>1, <1>2, <1>3, <1>4, PipelineGoes

(* The only step of an entry point that writes.                            *)
LEMMA ReadBackStep ==
  ASSUME IInv, ReadBack
  PROVE  IInv'
<1>1. /\ pc = "read" /\ pc \in Pipeline /\ Return(Outer) /\ output = <<>>
      /\ stderr = FALSE /\ UNCHANGED <<run, emit, contents>>
      /\ emit \in {"llvm", "riscv-asm"} /\ refused \in BOOLEAN
  BY DEF ReadBack, Pipeline, IInv, ExitAtPc, EmitAtPc, Types
<1>2. /\ guarded' = {} /\ refused' = refused
      /\ \/ temps' = {}
         \/ refused' /\ temps' \in {{"ll"}, {"mlir"}}
  BY <1>1, ReturnOuter
<1>3. /\ ir \in {"mlir", "reference"} /\ (emit = "riscv-asm" => asm = ir)
      /\ (ir = "mlir" => run.mlir = TRUE) /\ UNCHANGED <<ir, asm>>
  BY <1>1 DEF IInv, ContentsAtPc, contents
<1>4. pc' \in {"text", "exited"} => TempsAtPc' /\ ContentsAtPc'
  BY <1>1, <1>2, PlainContents DEF TempsAtPc, Front
<1>5. CASE Goto("text") /\ UNCHANGED output
  <2>1. pc' = "text" /\ "text" \notin LLCOnly /\ refused' \in BOOLEAN
    BY <1>1, <1>2, <1>5 DEF Goto, LLCOnly
  <2> QED
    BY <1>1, <1>4, <1>5, <2>1, PipelineGoes
<1>6. CASE /\ Write("llvm_tools", (IF emit = "llvm" THEN ir ELSE asm)
                                     \in {"mlir", "reference"})
           /\ Exit("0", FALSE)
  <2>1. (IF emit = "llvm" THEN ir ELSE asm) \in {"mlir", "reference"}
    BY <1>1, <1>3
  <2>2. PICK c \in BOOLEAN, p \in {"llvm_tools"} :
          /\ c = TRUE /\ Write(p, c)
    BY <1>6, <2>1 DEF Write
  <2>3. pc' = "exited" /\ ExitAtPc'
    BY <1>1, <1>6, <2>2, Exits
  <2>4. Types' /\ EmitAtPc'
    BY <1>1, <1>2, <2>3, NoEmitAtPc DEF IInv, Types
  <2>5. OutputFromCompleteIR'
    BY <1>1, <1>3 DEF OutputFromCompleteIR
  <2> QED
    BY <1>4, <2>3, <2>4, <2>5 DEF IInv
<1> QED
  BY <1>5, <1>6 DEF ReadBack

---------------------------------------------------------------------------
LEMMA InitIInv == Init => IInv
<1> SUFFICES ASSUME Init PROVE IInv
  OBVIOUS
<1>1. Types
  BY InvocationsAssumption DEF Init, Types, Front
<1>2. EmitAtPc
  BY DEF Init, EmitAtPc, Pipeline, LLCOnly
<1>3. ExitAtPc
  BY DEF Init, ExitAtPc
<1>4. ContentsAtPc
  BY DEF Init, ContentsAtPc, Contents
<1>5. TempsAtPc
  BY DEF Init, TempsAtPc
<1>6. OutputFromCompleteIR
  BY EmptyOutput DEF Init, OutputFromCompleteIR
<1> QED
  BY <1>1, <1>2, <1>3, <1>4, <1>5, <1>6 DEF IInv

LEMMA NextIInv == IInv /\ [Next]_vars => IInv'
<1> SUFFICES ASSUME IInv, [Next]_vars PROVE IInv'
  OBVIOUS
<1>1. CASE ParseOptions              BY <1>1, OptionsStep
<1>2. CASE OpenInput                 BY <1>2, OpenInputStep
<1>3. CASE OpenOutput                BY <1>3, OpenOutputStep
<1>4. CASE Lex                       BY <1>4, LexStep
<1>5. CASE Parse                     BY <1>5, ParseStep
<1>6. CASE EmitMLIR \/ EmitText      BY <1>6, TextSteps
<1>7. CASE CreateOuter               BY <1>7, CreateOuterStep
<1>8. CASE findLLC                   BY <1>8, FindStep
<1>9. CASE CreateInner               BY <1>9, CreateInnerStep
<1>10. CASE writeStandardMLIRToFile  BY <1>10, WriteMLIRStep
<1>11. CASE runMLIRToLLVMIR          BY <1>11, ToolsStep
<1>12. CASE runLLC \/ emitReferenceLLVMIRToFile \/ runReferenceLLC
  BY <1>12, AssemblySteps
<1>13. CASE ReadBack                 BY <1>13, ReadBackStep
<1>14. CASE Fail                     BY <1>14, FailStep
<1>15. CASE UNCHANGED vars
  <2>1. UNCHANGED <<run, emit, pc, output, stderr, exit, temps, guarded,
                    refused, ir, asm>>
    BY <1>15 DEF vars, files, contents
  <2>2. Types' /\ EmitAtPc' /\ ExitAtPc'
    BY <2>1 DEF IInv, Types, EmitAtPc, ExitAtPc, Wrote
  <2>3. ContentsAtPc'
    BY <2>1 DEF IInv, ContentsAtPc
  <2>4. OuterFiles' = OuterFiles /\ InnerFiles' = InnerFiles
    BY <2>1 DEF OuterFiles, InnerFiles
  <2>5. TempsAtPc'
    BY <2>1, <2>4 DEF IInv, TempsAtPc
  <2>6. OutputFromCompleteIR'
    BY <2>1 DEF IInv, OutputFromCompleteIR
  <2> QED
    BY <2>2, <2>3, <2>5, <2>6 DEF IInv
<1> QED
  BY <1>1, <1>2, <1>3, <1>4, <1>5, <1>6, <1>7, <1>8, <1>9, <1>10, <1>11,
     <1>12, <1>13, <1>14, <1>15 DEF Next

---------------------------------------------------------------------------
(* A run of zc keeps the inductive invariant, whatever the tools do.       *)
THEOREM Invariant == Spec => []IInv
  BY InitIInv, NextIInv, PTL DEF Spec

(* Every variable keeps its type, the exit status is settled exactly when  *)
(* main has returned, and a FileRemover guards only files that exist.      *)
THEOREM TypeCorrect == Spec => []TypeOK
<1>1. IInv => TypeOK
  <2> SUFFICES ASSUME IInv PROVE TypeOK
    OBVIOUS
  <2>1. run \in Invocations /\ emit \in EmitAction
    BY DEF IInv, Types
  <2>2. /\ \A i \in DOMAIN output : output[i].complete \in BOOLEAN
        /\ stderr \in BOOLEAN
        /\ exit \in {"none", "0", "1"} /\ (exit = "none") = (pc # "exited")
    BY EmptyOutput DEF IInv, ExitAtPc, Wrote
  <2>3. ir \in Contents /\ asm \in Contents
    BY DEF IInv, ContentsAtPc
  <2>4. Members(<<"ll", "s", "mlir", "dialect">>) = OuterFiles \cup {"ll", "s"}
                                                    \cup InnerFiles
    BY DEF Members, OuterFiles, InnerFiles
  <2>5. pc \in Front \cup {"outer", "find_llc", "inner", "write_mlir", "tools",
                          "give_up", "llc", "reference", "reference_llc",
                          "read", "text", "exited"}
    BY DEF IInv, Types, Pipeline, LLCOnly
  <2>6. /\ guarded \subseteq temps
        /\ temps \subseteq OuterFiles \cup {"ll", "s"} \cup InnerFiles
    BY <2>5 DEF IInv, TempsAtPc, InnerFiles
  <2> QED
    BY <2>1, <2>2, <2>3, <2>4, <2>6 DEF TypeOK
<1> QED
  BY <1>1, Invariant, PTL

(* zc exits with 0 only after it has written one complete artifact, and    *)
(* nothing else.                                                           *)
THEOREM SuccessMeansOneArtifact == Spec => []SuccessIsComplete
<1>1. IInv => SuccessIsComplete
  BY DEF IInv, ExitAtPc, Wrote, SuccessIsComplete
<1> QED
  BY <1>1, Invariant, PTL

(* zc exits with 1 exactly when it has printed a diagnostic, and exactly   *)
(* when its output is absent or incomplete.                                *)
THEOREM FailuresAreReported == Spec => []FailureIsReported
<1>1. IInv => FailureIsReported
  BY EmptyOutput DEF IInv, ExitAtPc, Wrote, FailureIsReported
<1> QED
  BY <1>1, Invariant, PTL

(* The text the two entry points copy to the output was made from complete *)
(* LLVM IR, and from MLIR only if MLIRGen accepted the source.             *)
THEOREM ToolOutputIsComplete == Spec => []OutputFromCompleteIR
<1>1. IInv => OutputFromCompleteIR
  BY DEF IInv
<1> QED
  BY <1>1, Invariant, PTL

(* A run leaves no temporary file, except the first of two of which the    *)
(* second could not be made.                                               *)
THEOREM NoTemporaryLeft == Spec => []TemporariesRemoved
<1>1. IInv => TemporariesRemoved
  BY DEF IInv, ExitAtPc, TempsAtPc, TemporariesRemoved
<1> QED
  BY <1>1, Invariant, PTL
=============================================================================
