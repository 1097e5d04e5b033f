----------------------------- MODULE SourceText ----------------------------
(***************************************************************************)
(* A source text as its tokens should cover it; positions count from 1.    *)
(***************************************************************************)
EXTENDS Lexer, FiniteSetsExt

At(p) == IF p > Len(source) THEN Nul ELSE SubSeq(source, p, p)
Positions == 1 .. Len(source)
LineEnds == {p \in Positions : At(p) = "\n"}

(* The line and the column of a position.                                  *)
PlaceOf(p, ends) ==
  LET before == {q \in ends : q < p}
  IN  <<1 + Cardinality(before), p - Max({0} \cup before)>>

InComment(p, ends) ==
  \E q \in 1 .. p : /\ At(q) = "/" /\ At(q + 1) = "/"
                    /\ q .. p \cap ends = {}

Covers(t, at) == /\ at[1] = t.line
                 /\ at[2] \in t.column .. t.column + Len(t.lexeme) - 1

(* Whether a text can be a token, and of which kind.                       *)
IsToken(text, kind) ==
  CASE kind = "identifier" ->
         /\ text \notin Keywords /\ SubSeq(text, 1, 1) \in Letters
         /\ Chars(text) \subseteq Letters \cup Digits
    [] kind = "integer" -> Chars(text) \subseteq Digits
    [] OTHER -> text = kind /\ kind \in Keywords \cup Singles \cup Doubles

(* The last character of a token could not have been followed by the next  *)
(* one in a longer token.                                                  *)
IsLongest(t, next) ==
  CASE t.kind = "integer" -> next \notin Digits
    [] t.kind \in Keywords \cup {"identifier"} ->
         next \notin Letters \cup Digits
    [] OTHER -> t.lexeme \o next \notin Doubles

(* Nothing is lost and nothing invented: each character of the text is     *)
(* blank, in a comment, reported as invalid at its place, or in exactly one*)
(* token, which has the text at its place, a kind that fits and as many    *)
(* characters as can be; the tokens are in the order of the text.          *)
Tiled ==
  LET ts == SubSeq(lexed, 1, Len(lexed) - 1)
      ends == LineEnds
      places == {<<p, PlaceOf(p, ends)>> : p \in Positions}
      wrong == {at[1] : at \in {at \in places : at[2] \in invalid}}
      covered == UNION {{<<at[1], i>> : i \in {i \in DOMAIN ts :
                                                 Covers(ts[i], at[2])}} :
                        at \in places}
      Extent(i) == {c[1] : c \in {c \in covered : c[2] = i}}
      Start(i) == Min(Extent(i))
  IN  /\ \A p \in Positions :
           Cardinality({c \in covered : c[1] = p}) =
             IF At(p) \in Blanks \/ p \in wrong \/ InComment(p, ends)
               THEN 0 ELSE 1
      /\ \A p \in wrong : /\ At(p) \notin Letters \cup Digits \cup Singles
                          /\ At(p) \o At(p + 1) \notin Doubles
      /\ \A i \in DOMAIN ts :
           LET first == Start(i)
               after == first + Len(ts[i].lexeme)
           IN  /\ IsToken(ts[i].lexeme, ts[i].kind)
               /\ Extent(i) = first .. after - 1
               /\ SubSeq(source, first, after - 1) = ts[i].lexeme
               /\ IsLongest(ts[i], At(after))
               /\ i > 1 => Start(i - 1) < first
      /\ lexed[Len(lexed)].kind = "eof"
============================================================================
