------------------------------ MODULE JsonParser ------------------------------
(***************************************************************************)
(* The JSON parser: its functions as operators on a parser structure.  A   *)
(* position is the index of a piece of the text.                           *)
(***************************************************************************)
EXTENDS JsonText, Functions, FiniteSetsExt

CONSTANTS MAXTOKENBYTES,  \* size of a token's key and of its value, and the blanks before
                          \* a value after which a call gives up
          MAXJSONBYTES,   \* longest value, and the characters before the root given up after
          MAXTOKENS,      \* tokens of the structure
          EnumSize,       \* bytes of an enumeration, which the compiler chooses
          Hash(_)         \* HashCal, as a string

ReadOn == "..."  \* a value without an end: its characters and others

ASSUME ParserAssumption ==
  /\ {MAXTOKENBYTES, MAXJSONBYTES, MAXTOKENS} \subseteq Nat \ {0}
  /\ MAXTOKENBYTES <= MAXJSONBYTES /\ EnumSize \in {1, 4}
  /\ IsString(ReadOn)

\* struct jsonReadToken: where its value and its type lie, and its size, with an unsigned
\* long of four bytes.
Aligned(n, size) == n + ((size - (n % size)) % size)
ValueAt == Aligned(MAXTOKENBYTES, 4) + 4
TypeAt == Aligned(ValueAt + MAXTOKENBYTES, EnumSize)
TokenSize == Aligned(TypeAt + EnumSize, 4)

DataType == {"JOBJECT", "JARRAY", "JSTRING", "JBOOLEAN", "JNULL", "JNUMBER"}
Overwritten == "OVERWRITTEN"  \* a type that is none: characters of the value
IsToken(t) ==
  /\ t \in [keyValue: Seq(STRING), hashValue: {Hash(t.keyValue), "0"}, jsonValue: Seq(STRING),
             readDataType: DataType \cup {Overwritten}]
  /\ Width(t.keyValue) < MAXTOKENBYTES
  /\ t.jsonValue = <<ReadOn>> \/ Width(t.jsonValue) < MAXTOKENBYTES
  /\ t.readDataType = Overwritten => t.jsonValue = <<ReadOn>>

\* struct jsonParser: numTokens is Len(jData).  spill is the number of characters behind
\* the last token that values have run over; lost says that a call has read past the
\* text, into whatever lies behind it, or written a key past its array or anything past
\* the structure.
IsParser(q) ==
  /\ q \in [buffer: Seq(STRING), currP: Nat, parserStatus: {"JSON_START", "JSON_END"},
            rootType: {"NONE", "JDATA_OBJECT", "JDATA_ARRAY"}, jData: Seq(Range(q.jData)),
            err: {"OK", "NOK", "TOK_ERR", "INVALID"}, spill: Nat, lost: BOOLEAN]
  /\ Len(q.jData) <= MAXTOKENS
  /\ \A token \in Range(q.jData) : IsToken(token)
Unparsed == [buffer |-> <<>>, currP |-> 0, parserStatus |-> "JSON_START", rootType |-> "NONE",
             jData |-> <<>>, err |-> "OK", spill |-> 0, lost |-> FALSE]

\* The characters between two positions
Blanks(text, i, j) == Width(SubSeq(text, i + 1, j - 1))

\* JSONStructInit on a zeroed structure
StructInit(text) ==
  LET roots == {i \in DOMAIN text : text[i] \in Openers}
  IN  IF roots = {} \/ Blanks(text, 0, Min(roots)) >= MAXJSONBYTES
        THEN [Unparsed EXCEPT !.err = "NOK"]
      ELSE [Unparsed EXCEPT !.buffer = text, !.currP = Min(roots),
              !.rootType = IF text[Min(roots)] = ObjectStart THEN "JDATA_OBJECT"
                                                     ELSE "JDATA_ARRAY"]
-------------------------------------------------------------------------------
Behind(text) == Len(text) + 1
First(text, S) == IF S = {} THEN Behind(text) ELSE Min(S)
NextOf(text, i, pieces) == First(text, {j \in (i + 1)..Len(text) : text[j] \in pieces})

\* The type that the first character of a value tells.
Initial(piece) == SubSeq(piece, 1, 1)
TypeOf(piece) ==
  CASE piece = ArrayStart                        -> "JARRAY"
    [] piece = ObjectStart                       -> "JOBJECT"
    [] piece = Quote                             -> "JSTRING"
    [] Initial(piece) \in {"n", "N"}             -> "JNULL"
    [] Initial(piece) \in {"t", "T", "f", "F"}   -> "JBOOLEAN"
    [] OTHER                                     -> "JNUMBER"
Starts == Openers \cup {Quote, "n", "N", "t", "T", "f", "F", "-", ".",
                        "1", "2", "3", "4", "5", "6", "7", "8", "9"}
\* The zero is not in the list for the elements of an array.
StartsOf(rootType) == Starts \cup IF rootType = "JDATA_OBJECT" THEN {"0"} ELSE {}

ValueAfter(text, i, rootType) ==
  First(text, {j \in (i + 1)..Len(text) : Initial(text[j]) \in StartsOf(rootType)})

\* A mutant: the delimiters inside a nested value are not skipped.
EndAfterFlat(text, v) == NextOf(text, v, {Comma} \cup Closers)
Count(text, i, j, pieces) == Cardinality({k \in i..j : text[k] \in pieces})
\* The delimiter that ends the value at v, brackets inside it skipped, quotes or not.
EndAfter(text, v) ==
  First(text, {j \in (v + 1)..Len(text) :
                 /\ text[j] \in {Comma} \cup Closers
                 /\ Count(text, v, j - 1, Openers) = Count(text, v, j - 1, Closers)})
-------------------------------------------------------------------------------
\* A token as it is left in the structure.  The text is copied without an end and without
\* a bound: one that fills its array, or that ends inside what an earlier one left there,
\* is read on, and one that reaches the type, which was set before, is written over it.
Token(p, key, hash, text, piece) ==
  [keyValue |-> key, hashValue |-> hash,
   jsonValue |-> IF Width(text) < MAXTOKENBYTES /\ p.spill <= ValueAt + Width(text)
                 THEN text ELSE <<ReadOn>>,
   readDataType |-> IF ValueAt + Width(text) > TypeAt THEN Overwritten ELSE TypeOf(piece)]
Spill(p, text) == Max({0, p.spill - TokenSize, ValueAt + Width(text) - TokenSize})
IsFull(p) == Len(p.jData) >= MAXTOKENS
Leaves(p, text) == ValueAt + Width(text) > (MAXTOKENS - Len(p.jData)) * TokenSize

\* A mutant: the end of the object is not noticed.
ParsedOn(p, token, text, end) ==
  [p EXCEPT !.jData = Append(@, token), !.currP = end, !.spill = Spill(p, text)]
\* A token is complete: the delimiter behind it says how to go on.
Parsed(p, token, text, end) ==
  LET closing == IF p.rootType = "JDATA_OBJECT" THEN ObjectEnd ELSE ArrayEnd
  IN  [p EXCEPT !.jData = Append(@, token), !.currP = end, !.spill = Spill(p, text),
                !.parserStatus = IF p.buffer[end] = closing THEN "JSON_END" ELSE @,
                !.err = IF p.buffer[end] \in {closing, Comma} THEN "OK" ELSE "INVALID"]

\* JSONParseData, the member of an object
ParseMember(p) ==
  LET key == NextOf(p.buffer, p.currP, {Quote})
      keyEnd == NextOf(p.buffer, key, {Quote})
      colon == NextOf(p.buffer, key, {Colon})
      value == ValueAfter(p.buffer, colon, p.rootType)
      end == EndAfter(p.buffer, value)
      keyValue == SubSeq(p.buffer, key, keyEnd)
      text == SubSeq(p.buffer, value, end - 1)
  IN  IF keyEnd > Len(p.buffer) \/ IsFull(p) \/ Width(keyValue) >= MAXTOKENBYTES
        THEN [p EXCEPT !.lost = TRUE]
      ELSE IF \/ Blanks(p.buffer, colon, value) >= MAXTOKENBYTES
              \/ Width(text) > MAXJSONBYTES
        THEN [p EXCEPT !.err = "TOK_ERR"]
      ELSE IF end > Len(p.buffer) \/ Leaves(p, text) THEN [p EXCEPT !.lost = TRUE]
      ELSE Parsed(p, Token(p, keyValue, Hash(keyValue), text, p.buffer[value]), text, end)

\* The element of an array: it has no key, and its delimiter is copied with it.
ParseElement(p) ==
  LET value == ValueAfter(p.buffer, p.currP, p.rootType)
      end == EndAfter(p.buffer, value)
      text == SubSeq(p.buffer, value, end)
  IN  IF IsFull(p) THEN [p EXCEPT !.lost = TRUE]
      ELSE IF \/ Blanks(p.buffer, p.currP, value) >= MAXTOKENBYTES
              \/ Width(SubSeq(p.buffer, value, end - 1)) > MAXTOKENBYTES + 1
        THEN [p EXCEPT !.err = "TOK_ERR"]
      ELSE IF end > Len(p.buffer) THEN [p EXCEPT !.lost = TRUE]
      ELSE Parsed(p, Token(p, <<>>, "0", text, p.buffer[value]), text, end)

ParseData(p) == IF p.rootType = "JDATA_OBJECT" THEN ParseMember(p) ELSE ParseElement(p)

\* A mutant: the last token of the key is taken.
SearchTokenLast(p, key) ==
  LET same == {i \in DOMAIN p.jData : p.jData[i].keyValue = key}
  IN  IF same = {} THEN 0 ELSE Max(same)
\* SearchToken: the number of the first token with the hash, 0 when its key differs.
SearchToken(p, key) ==
  LET same == {i \in DOMAIN p.jData : p.jData[i].hashValue = Hash(key)}
  IN  IF same # {} /\ p.jData[Min(same)].keyValue = key THEN Min(same) ELSE 0
===============================================================================
