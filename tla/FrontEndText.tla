---------------------------- MODULE FrontEndText ----------------------------
(***************************************************************************)
(* The front end against the texts it is given, in both directions.        *)
(***************************************************************************)
EXTENDS FrontEnd, ProgramText

Lexemes(ts) == [i \in DOMAIN ts |-> ts[i].lexeme]
Ungrouped(texts) == SelectSeq(texts, LAMBDA t : t \notin {"(", ")"})

(* The parser loses, invents and swaps nothing: the tree of an accepted    *)
(* text is written with the same tokens in the same order, apart from      *)
(* parentheses, and a text written for a module is accepted as that module:*)
(* precedence, associativity, grouping and the fields of all statements;   *)
(* and no diagnostic names a token that the text could still go on behind  *)
(* (Parser.cpp: parseBinaryRHS, every make_unique, reportAtCurrent).       *)
ParsedAsWritten ==
  /\ stage = "accepted" =>
       Ungrouped(ModuleText(module[1])) \o <<"">> = Ungrouped(Lexemes(tokens))
  /\ run.meant # <<>> =>
       stage # "failed" /\ (stage = "accepted" => module = run.meant)
  /\ \A d \in ToSet(diagnostics) : run.sound < d
============================================================================
