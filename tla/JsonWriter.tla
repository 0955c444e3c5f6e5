------------------------------ MODULE JsonWriter ------------------------------
(***************************************************************************)
(* The JSON writer: each function of its API as an operator from a control *)
(* structure to a control structure.                                       *)
(***************************************************************************)
EXTENDS JsonText, Functions

CONSTANT JWRITE_STACK_DEPTH
ASSUME DepthAssumption == JWRITE_STACK_DEPTH \in Nat \ {0}

NodeType == {"NONE", "JW_OBJECT", "JW_ARRAY"}
Error == {"OK", "BUF_FULL", "NOT_ARRAY", "NOT_OBJECT", "STACK_FULL", "STACK_EMPTY",
          "NEST_ERROR"}

\* struct jWriteControl: bufp counts the characters written, and the last entry of
\* nodeStack is the one at stackpos.
Control == [buffer: Text, buflen: Nat, bufp: Nat, tempbuf: Text, error: Error,
            callNo: Nat, nodeStack: Seq([nodeType: NodeType, elementNo: Nat]),
            isPretty: BOOLEAN]
Node(type) == [nodeType |-> type, elementNo |-> 0]
Zeroed == [buffer |-> <<>>, buflen |-> 0, bufp |-> 0, tempbuf |-> <<>>, error |-> "OK",
           callNo |-> 0, nodeStack |-> <<Node("NONE")>>, isPretty |-> FALSE]

Top(w) == w.nodeStack[Len(w.nodeStack)]
-------------------------------------------------------------------------------
(* Putting text: what does not fit is cut, and the error set each time. *)

\* A mutant: one character more is let in.
PutPast(w, piece) ==
  IF w.bufp + Len(piece) <= w.buflen + 1
    THEN [w EXCEPT !.buffer = Append(@, piece), !.bufp = @ + Len(piece)]
    ELSE [w EXCEPT !.error = "BUF_FULL"]
\* jwPutch for each character of a piece
Put(w, piece) ==
  LET room == w.buflen - w.bufp
  IN  IF Len(piece) <= room
        THEN [w EXCEPT !.buffer = Append(@, piece), !.bufp = @ + Len(piece)]
        ELSE [w EXCEPT !.buffer = IF room = 0 THEN @
                                  ELSE Append(@, SubSeq(piece, 1, room)),
                       !.bufp = w.buflen, !.error = "BUF_FULL"]

\* jwPutraw
Puts(w, s) == LET put[i \in 0..Len(s)] == IF i = 0 THEN w ELSE Put(put[i - 1], s[i])
              IN  put[Len(s)]
\* jwPutstr
Quoted(s) == <<Quote>> \o s \o <<Quote>>

\* jwPretty: a new line, and an indentation for stackpos + 1 levels
Pretty(w) ==
  IF w.isPretty THEN Puts(w, <<NewLine>> \o [i \in 1..Len(w.nodeStack) |-> Indent]) ELSE w

Push(w, type) ==
  IF Len(w.nodeStack) >= JWRITE_STACK_DEPTH THEN [w EXCEPT !.error = "STACK_FULL"]
  ELSE [w EXCEPT !.nodeStack = Append(@, Node(type))]
Pop(w) ==
  IF Len(w.nodeStack) = 1 THEN [w EXCEPT !.error = "STACK_EMPTY"]
  ELSE [w EXCEPT !.nodeStack = SubSeq(@, 1, Len(@) - 1)]
-------------------------------------------------------------------------------
(* Numbers. *)

Digit == <<"0", "1", "2", "3", "4", "5", "6", "7", "8", "9">>
Decimal[n \in Nat] ==
  IF n < 10 THEN <<Digit[n + 1]>> ELSE Append(Decimal[n \div 10], Digit[(n % 10) + 1])

\* The pieces a number is written in
Words == Range(Digit) \cup {"-", ".", "nan"}
ASSUME WordsAssumption == \A word \in Words : IsString(word)

\* modp_itoa10
Itoa(value) == IF value < 0 THEN <<"-">> \o Decimal[-value] ELSE Decimal[value]

\* A double is (whole + (micro + quarter / 4) / 1000000), the precision of the writer
\* is 6 digits, and what is behind them is told apart by quarters only; or it is a NaN,
\* or above 0x7FFFFFFF.
LastMicro == 999999
Double == [kind: {"number"}, neg: BOOLEAN, whole: Nat, micro: 0..LastMicro, quarter: 0..3]
          \cup [kind: {"nan", "huge"}]

\* The part before the point and millionths, rounded.  A tie goes up from an odd digit
\* and from zero, and does not carry.
Rounded(v) ==
  IF v.quarter = 3
    THEN IF v.micro = LastMicro THEN <<v.whole + 1, 0>> ELSE <<v.whole, v.micro + 1>>
    ELSE IF v.quarter = 2 /\ (v.micro = 0 \/ v.micro % 2 = 1)
           THEN <<v.whole, v.micro + 1>> ELSE <<v.whole, v.micro>>

\* At least six digits without the zeros at their end.
Fraction(millionths) ==
  LET short == Decimal[millionths]
      s == [i \in 1..(6 - Len(short)) |-> "0"] \o short
      last == CHOOSE i \in 1..Len(s) : s[i] # "0" /\ \A j \in (i + 1)..Len(s) : s[j] = "0"
  IN  SubSeq(s, 1, last)

\* modp_dtoa2 into str, which keeps its text when the number is huge.
Dtoa(v, str) ==
  CASE v.kind = "nan"    -> <<"nan">>
    [] v.kind = "huge"   -> str
    [] v.kind = "number" ->
         LET r == Rounded(v)
         IN  (IF v.neg THEN <<"-">> ELSE <<>>) \o Decimal[r[1]]
             \o (IF r[2] = 0 THEN <<>> ELSE <<".">> \o Fraction(r[2]))
-------------------------------------------------------------------------------
(* The API. *)

\* jwOpen: an array as the root only changes the buffer.
Open(w, buflen, rootType, isPretty) ==
  LET zapped == [w EXCEPT !.buffer = <<>>, !.buflen = buflen, !.bufp = 0]
  IN  IF rootType = "JW_ARRAY" THEN zapped
      ELSE Put([zapped EXCEPT !.nodeStack = <<Node(rootType)>>, !.error = "OK",
                              !.callNo = 1, !.isPretty = isPretty], ObjectStart)

\* A mutant: the objects that are still open are not missed.
CloseOpen(w) ==
  IF w.error # "OK" THEN w
  ELSE Put(IF w.isPretty THEN Put(w, NewLine) ELSE w, ObjectEnd)
\* jwClose
Close(w) ==
  IF w.error # "OK" THEN w
  ELSE IF Len(w.nodeStack) # 1 THEN [w EXCEPT !.error = "NEST_ERROR"]
  ELSE Put(IF w.isPretty THEN Put(w, NewLine) ELSE w, ObjectEnd)

\* A mutant: a call after an error is not skipped.
EndAlways(w) == Put(IF Top(w).elementNo > 0 THEN Pretty(Pop(w)) ELSE Pop(w),
                    IF Top(w).nodeType = "JW_OBJECT" THEN ObjectEnd ELSE ArrayEnd)
\* jwEnd: the bracket is also put when there was nothing to end.
End(w) ==
  IF w.error # "OK" THEN w
  ELSE Put(IF Top(w).elementNo > 0 THEN Pretty(Pop(w)) ELSE Pop(w),
           IF Top(w).nodeType = "JW_OBJECT" THEN ObjectEnd ELSE ArrayEnd)

\* A member of the innermost node, which must have the type.
Placed(w, type, err) ==
  LET counted == [w EXCEPT !.callNo = @ + 1]
      member == [counted EXCEPT !.nodeStack[Len(w.nodeStack)].elementNo = @ + 1]
  IN  IF Top(w).nodeType # type THEN [counted EXCEPT !.error = err]
      ELSE IF Top(w).elementNo > 0 THEN Put(member, Comma) ELSE member
\* _jwObj
ObjKey(w, key) ==
  IF w.error # "OK" THEN w
  ELSE Puts(Pretty(Placed(w, "JW_OBJECT", "NOT_OBJECT")),
            Quoted(key) \o <<Colon>> \o IF w.isPretty THEN <<Space>> ELSE <<>>)
\* _jwArr
ArrItem(w) == IF w.error # "OK" THEN w ELSE Pretty(Placed(w, "JW_ARRAY", "NOT_ARRAY"))

\* What a call puts: a string, a raw text (also for a bool and a null), a number, or
\* the start of a node.
Str(s) == [kind |-> "string", text |-> s]
Raw(s) == [kind |-> "raw", text |-> s]
Bool(b) == Raw(IF b THEN <<"true">> ELSE <<"false">>)
Null == Raw(<<"null">>)
Int32(n) == [kind |-> "int", int |-> n]
Dbl(v) == [kind |-> "double", double |-> v]
Object == [kind |-> "object"]
Array == [kind |-> "array"]

Converted(w, value) ==
  CASE value.kind = "int"    -> [w EXCEPT !.tempbuf = Itoa(value.int)]
    [] value.kind = "double" -> [w EXCEPT !.tempbuf = Dtoa(value.double, @)]
    [] OTHER                 -> w
PutValue(w, value) ==
  IF w.error # "OK" THEN w
  ELSE CASE value.kind = "string"            -> Puts(w, Quoted(value.text))
         [] value.kind = "raw"               -> Puts(w, value.text)
         [] value.kind \in {"int", "double"} -> Puts(w, w.tempbuf)
         [] value.kind = "object"            -> Push(Put(w, ObjectStart), "JW_OBJECT")
         [] value.kind = "array"             -> Push(Put(w, ArrayStart), "JW_ARRAY")

\* jwObj_raw, jwObj_string, ... jwObj_array
Obj(w, key, value) == PutValue(ObjKey(Converted(w, value), key), value)
\* jwArr_raw, jwArr_string, ... jwArr_array
Arr(w, value) == PutValue(ArrItem(Converted(w, value)), value)

\* jwErrorPos
ErrorPos(w) == w.callNo
===============================================================================
