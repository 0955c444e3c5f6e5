----------------------------- MODULE JsonDocument -----------------------------
(***************************************************************************)
(* A client of both JSON libraries: it opens a document, calls the writer  *)
(* in any order, closes the document, and parses the text when the writer  *)
(* reported no error, with the loop of the mobile request handler.         *)
(***************************************************************************)
EXTENDS JsonWriter, JsonParser

CONSTANTS Keys, Values,   \* what the client writes in an object
          Elements,       \* what it writes in an array
          Lengths,        \* lengths of its buffer
          MaxCalls        \* bound on the calls between jwOpen and jwClose

ASSUME ClientAssumption == /\ Lengths \subseteq Nat \ {0}
                           /\ MaxCalls \in Nat

Value == [kind: {"string", "raw"}, text: Text] \cup [kind: {"int"}, int: Int]
         \cup [kind: {"double"}, double: Double] \cup [kind: {"object", "array"}]
\* The writer copies a text as it is: a string with a quote in it would end there, and
\* a raw text may be anything, so the client keeps to texts without nesting of their own.
ASSUME ValuesAssumption ==
  /\ Values \cup Elements \subseteq Value
  /\ \A key \in Keys : IsText(key) /\ Quote \notin Range(key)
  /\ \A value \in Values \cup Elements :
       /\ value.kind \in {"string", "raw"} => IsText(value.text)
       /\ value.kind = "string" => Quote \notin Range(value.text)
       /\ value.kind = "raw" =>
            Range(value.text) \cap ({Quote} \cup Openers \cup Closers) = {}

VARIABLES
  writer,   \* the writer's control structure
  reader,   \* the parser's structure
  phase,    \* of the document: "none", "open", "closed", "reading", "read"
  calls,    \* calls made since jwOpen
  members   \* history: the key and value of each call made at the root

dvars == <<writer, reader, phase, calls, members>>

DInit == /\ writer = Zeroed /\ reader = Unparsed
         /\ phase = "none" /\ calls = 0 /\ members = <<>>

OpenDocument ==
  /\ phase = "none" /\ phase' = "open"
  /\ \E n \in Lengths, type \in {"JW_OBJECT", "JW_ARRAY"}, isPretty \in BOOLEAN :
       writer' = Open(writer, n, type, isPretty)
  /\ UNCHANGED <<reader, calls, members>>

Call == /\ phase = "open" /\ calls < MaxCalls /\ calls' = calls + 1
        /\ UNCHANGED <<reader, phase>>
WriteObj == /\ Call
            /\ \E key \in Keys, value \in Values :
                 /\ writer' = Obj(writer, key, value)
                 /\ members' = IF Len(writer.nodeStack) > 1 THEN members
                               ELSE Append(members, [key |-> key, value |-> value])
WriteArr == /\ Call
            /\ \E value \in Elements : writer' = Arr(writer, value)
            /\ UNCHANGED members
WriteEnd == Call /\ writer' = End(writer) /\ UNCHANGED members

CloseDocument == /\ phase = "open" /\ phase' = "closed"
                 /\ writer' = Close(writer)
                 /\ UNCHANGED <<reader, calls, members>>

BeginRead == /\ phase = "closed" /\ writer.error = "OK" /\ phase' = "reading"
             /\ reader' = StructInit(writer.buffer)
             /\ UNCHANGED <<writer, calls, members>>
\* while (parserStatus != JSON_END)
Read == /\ phase = "reading"
        /\ reader' = ParseData(reader)
        /\ phase' = IF reader'.parserStatus = "JSON_END" \/ reader'.lost
                    THEN "read" ELSE phase
        /\ UNCHANGED <<writer, calls, members>>

DNext == OpenDocument \/ WriteObj \/ WriteArr \/ WriteEnd \/ CloseDocument
         \/ BeginRead \/ Read

DSpec == DInit /\ [][DNext]_dvars
-------------------------------------------------------------------------------
(* Properties. *)

\* The writer stays in its buffer ("jWrite will not overrun the buffer") and its structure
\* keeps its types.  A token of the parser has a type and a value of its array's length,
\* unless its own value ran over the array, or it ends inside what an earlier value ran over
\* it; its type is lost only to its own value.
DTypeOK == /\ writer \in Control /\ IsParser(reader)
           /\ phase \in {"none", "open", "closed", "reading", "read"}
           /\ calls \in 0..MaxCalls
           /\ writer.bufp = Width(writer.buffer) /\ writer.bufp <= writer.buflen

\* The quotes up to each position of a text, and the opening brackets up to there that
\* are not closed, those in a string left out.
Quotes(text) ==
  LET quotes[i \in 0..Len(text)] ==
        IF i = 0 THEN 0 ELSE quotes[i - 1] + IF text[i] = Quote THEN 1 ELSE 0
  IN  quotes
Opened(text) ==
  LET opened[i \in 0..Len(text)] ==
        IF i = 0 THEN <<>>
        ELSE LET before == opened[i - 1]
             IN  IF Quotes(text)[i] % 2 = 1 THEN before
                 ELSE CASE text[i] \in Openers -> Append(before, text[i])
                        [] text[i] \in Closers -> SubSeq(before, 1, Len(before) - 1)
                        [] OTHER               -> before
  IN  opened
Unclosed(text) == Opened(text)[Len(text)]
Bracket == [JW_OBJECT |-> ObjectStart, JW_ARRAY |-> ArrayStart]

\* As long as there is no error the nodes on the stack are the brackets that are open
\* in the text, each of its type, and a closed text has none open.
NestingIsText ==
  (phase # "none" /\ writer.error = "OK" /\ Top(writer).nodeType # "NONE") =>
    LET nodes == writer.nodeStack
    IN  Unclosed(writer.buffer) =
          IF phase = "open" THEN [i \in DOMAIN nodes |-> Bracket[nodes[i].nodeType]]
                            ELSE <<>>

\* The value a decimal text stands for, in quarters of a millionth.
Denoted(text) ==
  LET digits == SelectSeq(text, LAMBDA d : d \notin {"-", "."})
      point == First(text, {i \in DOMAIN text : text[i] = "."})
      scale == 6 - (Len(text) - point + IF point > Len(text) THEN 1 ELSE 0)
      padded == digits \o [i \in 1..scale |-> "0"]
      number[i \in 0..Len(padded)] ==
        IF i = 0 THEN 0
        ELSE 10 * number[i - 1] + (CHOOSE d \in 1..10 : Digit[d] = padded[i]) - 1
  IN  4 * number[Len(padded)]
Exact(v) == 4 * (1000000 * v.whole + v.micro) + v.quarter
\* A number is written to the nearest digit.
IsNearest(text, v) == /\ Denoted(text) - Exact(v) \in -2..2
                      /\ (text[1] = "-") = v.neg

\* What the libraries can carry: a string without a delimiter of the parser, and a
\* double in range that does not need a tie carried over.
Delimiters == {Comma, Quote} \cup Openers \cup Closers
Carried(value) ==
  CASE value.kind = "string" -> \A i \in DOMAIN value.text : value.text[i] \notin Delimiters
    [] value.kind = "double" -> /\ value.double.kind = "number"
                                /\ value.double.micro = LastMicro => value.double.quarter # 2
    [] OTHER                 -> TRUE

\* The text of the value of the i-th member of an object: what lies between its colon and
\* the comma or bracket behind it, those in strings and in nested values left out.
ValueText(text, i) ==
  LET root == {j \in 2..Len(text) : Quotes(text)[j] % 2 = 0 /\ Len(Opened(text)[j - 1]) = 1}
      colons == {j \in root : text[j] = Colon}
      colon == CHOOSE j \in colons : Cardinality({k \in colons : k <= j}) = i
      ends == {j \in root : j > colon /\ text[j] \in {Comma} \cup Closers}
  IN  SelectSeq(SubSeq(text, colon + 1, Min(ends) - 1), LAMBDA piece : piece # Space)
\* A value has room in its token, with the NUL behind it, and no earlier one reaches it.
HasRoom(i) ==
  /\ Width(ValueText(writer.buffer, i)) < MAXTOKENBYTES
  /\ \A j \in 1..(i - 1) :
       Width(ValueText(writer.buffer, j)) <= (i - j) * TokenSize

Stripped(text) == SelectSeq(text, LAMBDA piece : piece # NewLine)
IsRead(token, value) ==
  /\ token.jsonValue # <<ReadOn>>
  /\ CASE value.kind = "string" -> /\ token.readDataType = "JSTRING"
                                   /\ Stripped(token.jsonValue) = Quoted(value.text)
       [] value.kind = "raw"    -> Stripped(token.jsonValue) = value.text
       [] value.kind = "int"    -> /\ token.readDataType = "JNUMBER"
                                   /\ Stripped(token.jsonValue) = Itoa(value.int)
       [] value.kind = "double" -> /\ token.readDataType = "JNUMBER"
                                   /\ IsNearest(Stripped(token.jsonValue), value.double)
       [] value.kind = "object" -> token.readDataType = "JOBJECT"
       [] value.kind = "array"  -> token.readDataType = "JARRAY"

\* What one library writes the other reads: a text closed without an error, of at
\* least one member that can be carried, parses to its members, in their order, and each
\* value that has room in its token is read as it was written.
ReadsWhatWasWritten ==
  (phase = "read" /\ members # <<>> /\ \A i \in DOMAIN members : Carried(members[i].value))
  => /\ reader.parserStatus = "JSON_END" /\ Len(reader.jData) = Len(members)
     /\ \A i \in DOMAIN members :
          /\ reader.jData[i].keyValue = Quoted(members[i].key)
          /\ IsRead(reader.jData[i], members[i].value) \/ ~HasRoom(i)

\* A search finds the first member with the key, or none if another key with the same
\* hash comes before it.
SearchFindsFirst ==
  (phase = "read" /\ reader.parserStatus = "JSON_END") =>
    \A i \in DOMAIN reader.jData :
      LET KeyOf(j) == reader.jData[j].keyValue
          found == SearchToken(reader, KeyOf(i))
      IN  IF \E j \in 1..i : Hash(KeyOf(j)) = Hash(KeyOf(i)) /\ KeyOf(j) # KeyOf(i)
            THEN found = 0 \/ KeyOf(found) = KeyOf(i)
            ELSE /\ found \in 1..i /\ KeyOf(found) = KeyOf(i)
                 /\ \A j \in 1..(found - 1) : KeyOf(j) # KeyOf(i)

\* "After an error, all the following jWrite calls are skipped internally": the text and
\* the error of the call that failed stay, so the error reported is that of one call.
FirstErrorStays ==
  [][writer.error # "OK" => /\ writer'.error = writer.error
                            /\ writer'.buffer = writer.buffer
                            /\ writer'.callNo = writer.callNo]_dvars

\* "The buffer will always contain a valid '\0' terminated string."
Terminated == phase # "none" => writer.bufp < writer.buflen
===============================================================================
