------------------------------- MODULE Lexer -------------------------------
(***************************************************************************)
(* lib/Lexer/Lexer.cpp: a source text becomes a list of tokens.            *)
(*                                                                         *)
(* One step is one turn of a loop of lexAll or of                          *)
(* skipWhitespaceAndComments.  The kind of an operator, a delimiter or a   *)
(* keyword is its lexeme.  A diagnostic is the place it names; a place     *)
(* reported again is not counted.  Nul is the character that stands for a  *)
(* zero byte, which peek also returns behind the end of the text.          *)
(***************************************************************************)
EXTENDS Token, Integers, FiniteSets

CONSTANT Nul

VARIABLES
  source,               \* the text
  current,              \* characters consumed
  line, column,         \* the place of the next one
  comment,              \* whether the scanner is in the loop over a comment
  lexed,                \* the tokens so far
  invalid,              \* the places of the invalid characters reported
  lexing                \* lexAll has not returned

place == <<current, line, column>>
lexerVars == <<source, place, comment, lexed, invalid, lexing>>

LexerInit ==
  /\ current = 0 /\ line = 1 /\ column = 1
  /\ comment = FALSE /\ lexed = <<>> /\ invalid = {} /\ lexing = TRUE

Digits == Chars("0123456789")
Letters == Chars("abcdefghijklmnopqrstuvwxyzABCDEFGHIJKLMNOPQRSTUVWXYZ_")
Blanks == {" ", "\t", "\r", "\n"}

ASSUME NulAssumption ==
  /\ Len(Nul) = 1
  /\ Nul \notin Digits \cup Letters \cup Blanks \cup Singles \cup {"!"}

---------------------------------------------------------------------------
isAtEnd == current >= Len(source)

peek(offset) == IF current + offset >= Len(source) THEN Nul
                ELSE SubSeq(source, current + offset + 1, current + offset + 1)

(* Faulty: a new line does not begin with its first column.                *)
advanceSameColumn ==
  IF peek(0) = Nul THEN UNCHANGED place
  ELSE /\ current' = current + 1
       /\ line' = IF peek(0) = "\n" THEN line + 1 ELSE line
       /\ column' = column + 1

(* A zero byte is not moved over.                                          *)
advance ==
  IF peek(0) = Nul THEN UNCHANGED place
  ELSE /\ current' = current + 1
       /\ line' = IF peek(0) = "\n" THEN line + 1 ELSE line
       /\ column' = IF peek(0) = "\n" THEN 1 ELSE column + 1

AtComment == peek(0) = "/" /\ peek(1) = "/"

SkipBlank ==
  /\ lexing /\ ~ comment /\ ~ isAtEnd /\ peek(0) \in Blanks
  /\ advance
  /\ UNCHANGED <<source, comment, lexed, invalid, lexing>>

(* Faulty: the loop over a comment looks only for the end of the line.     *)
SkipCommentToLineEnd ==
  /\ lexing
  /\ comment \/ AtComment
  /\ IF peek(0) = "\n" THEN comment' = FALSE /\ UNCHANGED place
                       ELSE comment' = TRUE /\ advance
  /\ UNCHANGED <<source, lexed, invalid, lexing>>

(* The loop over a comment, up to the end of its line or of the text.      *)
SkipComment ==
  /\ lexing
  /\ comment \/ AtComment
  /\ IF isAtEnd \/ peek(0) = "\n"
       THEN comment' = FALSE /\ UNCHANGED place
       ELSE comment' = TRUE /\ advance
  /\ UNCHANGED <<source, lexed, invalid, lexing>>

---------------------------------------------------------------------------
AtToken == lexing /\ ~ isAtEnd /\ ~ comment /\ peek(0) \notin Blanks
                                            /\ ~ AtComment

(* The length of the longest text of these characters that comes next.     *)
Munch(chars) ==
  CHOOSE n \in 1 .. Len(source) - current :
    peek(n) \notin chars /\ \A k \in 0 .. n - 1 : peek(k) \in chars

(* A token of the next n characters, none of which ends a line.            *)
MakeToken(kind, n) ==
  /\ lexed' = Append(lexed, [kind |-> kind, line |-> line, column |-> column,
                lexeme |-> SubSeq(source, current + 1, current + n)])
  /\ current' = current + n /\ column' = column + n
  /\ UNCHANGED <<source, line, comment, invalid, lexing>>

LexIdentifierOrKeyword ==
  /\ AtToken /\ peek(0) \in Letters
  /\ LET n == Munch(Letters \cup Digits)
         text == SubSeq(source, current + 1, current + n)
     IN  MakeToken(IF text \in Keywords THEN text ELSE "identifier", n)

LexInteger ==
  /\ AtToken /\ peek(0) \in Digits
  /\ MakeToken("integer", Munch(Digits))

LexOperator ==
  /\ AtToken
  /\ LET two == peek(0) \o peek(1)
     IN  IF two \in Doubles THEN MakeToken(two, 2)
                            ELSE peek(0) \in Singles /\ MakeToken(peek(0), 1)

(* Also a "!" without a "=".                                               *)
reportInvalidCharacter ==
  /\ AtToken
  /\ peek(0) \notin Letters \cup Digits \cup Singles
  /\ peek(0) \o peek(1) \notin Doubles
  /\ invalid' = invalid \cup {<<line, column>>}
  /\ advance
  /\ UNCHANGED <<source, comment, lexed, lexing>>

LexEndOfFile ==
  /\ lexing /\ ~ comment /\ isAtEnd
  /\ lexed' = Append(lexed, [kind |-> "eof", line |-> line,
                             column |-> column, lexeme |-> ""])
  /\ lexing' = FALSE
  /\ UNCHANGED <<source, place, comment, invalid>>

Lex ==
  \/ SkipBlank \/ SkipComment
  \/ LexIdentifierOrKeyword \/ LexInteger \/ LexOperator
  \/ reportInvalidCharacter \/ LexEndOfFile
============================================================================
