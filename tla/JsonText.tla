------------------------------- MODULE JsonText --------------------------------
(***************************************************************************)
(* A text of JSON is a sequence of strings, the pieces it was put together *)
(* from: a bracket, a quote, a delimiter and a digit are pieces of their   *)
(* own.                                                                    *)
(***************************************************************************)
EXTENDS Integers, Sequences

Text == Seq(STRING)

\* The number of characters of a text
Width(s) == LET width[i \in 0..Len(s)] == IF i = 0 THEN 0 ELSE width[i - 1] + Len(s[i])
            IN  width[Len(s)]

Quote == "\""
Comma == ","
Colon == ":"
ObjectStart == "{"
ObjectEnd == "}"
ArrayStart == "["
ArrayEnd == "]"
Openers == {ObjectStart, ArrayStart}
Closers == {ObjectEnd, ArrayEnd}

\* Between the pieces of a text made to be read by people
NewLine == "\n"
Indent == "    "
Space == " "

\* A string, its length, and its first characters, which are a string again.
IsString(piece) ==
  /\ piece \in STRING /\ Len(piece) \in Nat
  /\ \A k \in 1..Len(piece) : SubSeq(piece, 1, k) \in STRING /\ Len(SubSeq(piece, 1, k)) = k
IsText(s) == s \in Text /\ \A i \in DOMAIN s : IsString(s[i])

\* True of any string; the provers only cannot read those that are written out.
ASSUME PiecesAssumption ==
  \A piece \in {Quote, Comma, Colon, NewLine, Indent, Space} \cup Openers \cup Closers :
    IsString(piece)
===============================================================================
