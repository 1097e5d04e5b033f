------------------------------ MODULE FrontEnd -----------------------------
(***************************************************************************)
(* What tools/zc/zc.cpp does first with a source file: all tokens, and, if *)
(* no character of the text is invalid, the tree of them; the tree is used *)
(* if the parser has reported nothing.                                     *)
(*                                                                         *)
(* An element of Sources has a `text`; `meant`, <<m>> when the text was    *)
(* written for the module m and <<>> when it was not; and `sound`, how many*)
(* of its first tokens are not to blame if the text is no module.          *)
(***************************************************************************)
EXTENDS SourceText, Parser

CONSTANT Sources

VARIABLES
  run,                  \* the element of Sources
  stage

vars == <<lexerVars, parserVars, run, stage>>

Init ==
  /\ run \in Sources
  /\ source = run.text
  /\ LexerInit /\ ParserInit
  /\ stage = "lexing"

StepLexer ==
  /\ stage = "lexing" /\ Lex
  /\ UNCHANGED <<parserVars, run, stage>>

LexerHasError ==
  /\ stage = "lexing" /\ ~ lexing /\ invalid # {}
  /\ stage' = "failed"
  /\ UNCHANGED <<lexerVars, parserVars, run>>

StartParser ==
  /\ stage = "lexing" /\ ~ lexing /\ invalid = {}
  /\ tokens' = lexed
  /\ stage' = "parsing"
  /\ UNCHANGED <<lexerVars, run, position, agenda, nodes, failing,
                 diagnostics, module>>

StepParser ==
  /\ stage = "parsing" /\ Parse
  /\ UNCHANGED <<lexerVars, run, stage>>

(* parseModule has returned.                                               *)
ParserReturned ==
  /\ stage = "parsing" /\ agenda = <<>>
  /\ stage' = IF diagnostics # <<>> THEN "failed" ELSE "accepted"
  /\ UNCHANGED <<lexerVars, parserVars, run>>

Next == StepLexer \/ LexerHasError \/ StartParser \/ StepParser
          \/ ParserReturned

(* The program is sequential: it goes on while it can.                     *)
Spec == Init /\ [][Next]_vars /\ WF_vars(Next)

---------------------------------------------------------------------------
(* When lexAll returns, nothing of the text is lost and nothing is         *)
(* invented: every character is blank, in a comment, reported as invalid at*)
(* its place, or in exactly one token that has the text found there, a kind*)
(* that fits it and as many characters as it can (Lexer.cpp: lexAll,       *)
(* advance and the places that diagnostics and tokens carry).              *)
TokensTileSource == stage = "lexing" /\ ~ lexing => Tiled

(* The caller uses the module as soon as there is no diagnostic, so a      *)
(* failure is always reported and a report always a failure, and all       *)
(* diagnostics are about the one token the parser stopped at (Parser.cpp:  *)
(* every return of false or null; zc.cpp uses *module).                    *)
FailureIsDiagnosed ==
  stage = "parsing" /\ agenda = <<>> =>
    /\ module = <<>> <=> diagnostics # <<>>
    /\ \A d \in ToSet(diagnostics) : d = diagnostics[1]

(* Lexing and parsing come to an end exactly when no byte of the text is   *)
(* zero: advance does not move over a zero byte, but isAtEnd does not count*)
(* it as the end (Lexer.cpp: advance and isAtEnd; Parser.cpp: each loop).  *)
FrontEndEnds ==
  /\ Nul \in Chars(source) => [](stage = "lexing")
  /\ Nul \notin Chars(source) => <>(stage \in {"accepted", "failed"})
============================================================================
