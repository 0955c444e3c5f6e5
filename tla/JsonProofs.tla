------------------------------ MODULE JsonProofs -------------------------------
(***************************************************************************)
(* Proofs about the JSON libraries and the two modules that use them, for  *)
(* every value of their constants.  What a recursive definition computes   *)
(* is proved by looking at the least index where it would differ.          *)
(***************************************************************************)
EXTENDS MobileHandler, JsonDocument, TLAPS,
        FiniteSetTheorems, SequenceTheorems, WellFoundedInduction

LEMMA LeastNat ==
  ASSUME NEW T \in SUBSET Nat, T # {}
  PROVE  \E x \in T : \A y \in T : x <= y
<1>1. PICK x \in T : \A y \in T : ~(<<y, x>> \in OpToRel(<, Nat))
  BY NatLessThanWellFounded, WFMin
<1>2. \A y \in T : ~(y < x)
  BY <1>1 DEF OpToRel
<1>. QED
  BY <1>2

LEMMA MinIs ==
  ASSUME NEW T \in SUBSET Nat, NEW x \in T, \A y \in T : x <= y
  PROVE  Min(T) = x
<1>1. Min(T) \in T /\ \A y \in T : Min(T) <= y
  BY DEF Min
<1>2. x <= Min(T) /\ Min(T) <= x /\ x \in Nat /\ Min(T) \in Nat
  BY <1>1
<1>. QED
  BY <1>2

LEMMA MinFacts ==
  ASSUME NEW T \in SUBSET Nat, T # {}
  PROVE  Min(T) \in T /\ \A y \in T : Min(T) <= y
BY LeastNat DEF Min

LEMMA One ==
  ASSUME NEW T, NEW a \in T
  PROVE  <<a>> \in Seq(T) /\ Len(<<a>>) = 1 /\ <<a>>[1] = a
OBVIOUS

\* The pieces of JSON are different strings.
LEMMA Pieces ==
  /\ Quote \in STRING /\ Comma \in STRING /\ Colon \in STRING
  /\ ObjectStart \in STRING /\ ObjectEnd \in STRING
  /\ ArrayStart \in STRING /\ ArrayEnd \in STRING
  /\ NewLine \in STRING /\ Indent \in STRING /\ Space \in STRING
  /\ Quote \notin {Comma, Colon, NewLine, Indent, Space} \cup Openers \cup Closers
  /\ {Comma, Colon, NewLine, Indent, Space} \cap (Openers \cup Closers) = {}
  /\ Openers \cap Closers = {}
  /\ Comma # Colon /\ ObjectStart # ArrayStart /\ ObjectEnd # ArrayEnd
  /\ ObjectStart \in Openers /\ ArrayStart \in Openers
  /\ ObjectEnd \in Closers /\ ArrayEnd \in Closers
<1>1. /\ Quote \in STRING /\ Comma \in STRING /\ Colon \in STRING
      /\ ObjectStart \in STRING /\ ObjectEnd \in STRING
      /\ ArrayStart \in STRING /\ ArrayEnd \in STRING
      /\ NewLine \in STRING /\ Indent \in STRING /\ Space \in STRING
  <2> SUFFICES ASSUME NEW piece \in {Quote, Comma, Colon, NewLine, Indent, Space}
                                    \cup Openers \cup Closers
               PROVE  piece \in STRING
    BY Zenon DEF Openers, Closers
  <2>. QED
    BY PiecesAssumption, Zenon DEF IsString
<1>3. /\ Quote # Comma /\ Quote # Colon /\ Quote # NewLine /\ Quote # Indent /\ Quote # Space
      /\ Quote # ObjectStart /\ Quote # ObjectEnd /\ Quote # ArrayStart /\ Quote # ArrayEnd
  BY Zenon DEF Quote, Comma, Colon, ObjectStart, ObjectEnd, ArrayStart, ArrayEnd, NewLine,
       Indent, Space
<1>4. /\ Comma # ObjectStart /\ Comma # ObjectEnd /\ Comma # ArrayStart /\ Comma # ArrayEnd
      /\ Colon # ObjectStart /\ Colon # ObjectEnd /\ Colon # ArrayStart /\ Colon # ArrayEnd
  BY Zenon DEF Comma, Colon, ObjectStart, ObjectEnd, ArrayStart, ArrayEnd
<1>5. /\ NewLine # ObjectStart /\ NewLine # ObjectEnd /\ NewLine # ArrayStart
      /\ NewLine # ArrayEnd /\ Indent # ObjectStart /\ Indent # ObjectEnd
      /\ Indent # ArrayStart /\ Indent # ArrayEnd /\ Space # ObjectStart
      /\ Space # ObjectEnd /\ Space # ArrayStart /\ Space # ArrayEnd
  BY Zenon DEF NewLine, Indent, Space, ObjectStart, ObjectEnd, ArrayStart, ArrayEnd
<1>6. /\ Comma # Colon /\ ObjectStart # ArrayStart /\ ObjectEnd # ArrayEnd
      /\ ObjectStart # ObjectEnd /\ ObjectStart # ArrayEnd
      /\ ArrayStart # ObjectEnd /\ ArrayStart # ArrayEnd
  BY Zenon DEF Comma, Colon, ObjectStart, ObjectEnd, ArrayStart, ArrayEnd
<1>. QED
  BY <1>1, <1>3, <1>4, <1>5, <1>6 DEF Openers, Closers

LEMMA Cat ==
  ASSUME NEW s \in Text, NEW u \in Text
  PROVE  /\ s \o u \in Text /\ Len(s) \in Nat /\ Len(u) \in Nat
         /\ Len(s \o u) = Len(s) + Len(u)
         /\ \A k \in 1..Len(s) : (s \o u)[k] = s[k]
         /\ \A k \in 1..Len(u) : (s \o u)[Len(s) + k] = u[k]
<1>1. Len(s) \in Nat /\ Len(u) \in Nat
  BY DEF Text
<1>2. /\ s \o u \in Text /\ Len(s \o u) = Len(s) + Len(u)
      /\ \A k \in 1..(Len(s) + Len(u)) : (s \o u)[k] = IF k <= Len(s) THEN s[k]
                                                     ELSE u[k - Len(s)]
  BY ConcatProperties DEF Text
<1>3. \A k \in 1..Len(u) : (s \o u)[Len(s) + k] = u[k]
  <2> SUFFICES ASSUME NEW k \in 1..Len(u) PROVE (s \o u)[Len(s) + k] = u[k]
    OBVIOUS
  <2>1. Len(s) + k \in 1..(Len(s) + Len(u)) /\ ~(Len(s) + k <= Len(s))
        /\ (Len(s) + k) - Len(s) = k
    BY <1>1
  <2>. QED
    BY <1>2, <2>1
<1>. QED
  BY <1>1, <1>2, <1>3

\* Behind one text comes one piece, or another text.
LEMMA CatPiece ==
  ASSUME NEW s \in Text, NEW a \in STRING
  PROVE  /\ s \o <<a>> \in Text /\ Len(s) \in Nat /\ Len(s \o <<a>>) = Len(s) + 1
         /\ \A k \in 1..Len(s) : (s \o <<a>>)[k] = s[k]
         /\ (s \o <<a>>)[Len(s) + 1] = a
         /\ s \o <<a>> = Append(s, a)
<1> DEFINE one == <<a>>
<1>1. one \in Text /\ Len(one) = 1 /\ one[1] = a
  BY One DEF Text
<1> HIDE DEF one
<1>2. /\ s \o one \in Text /\ Len(s) \in Nat /\ Len(one) \in Nat
      /\ Len(s \o one) = Len(s) + Len(one)
      /\ \A k \in 1..Len(s) : (s \o one)[k] = s[k]
      /\ \A k \in 1..Len(one) : (s \o one)[Len(s) + k] = one[k]
  BY <1>1, Cat
<1>3. s \o one = Append(s, a)
  BY AppendIsConcat DEF Text, one
<1>4. (s \o one)[Len(s) + 1] = a
  <2> DEFINE k == 1
  <2>1. k \in 1..Len(one)
    BY <1>1
  <2>2. \A j \in 1..Len(one) : (s \o one)[Len(s) + j] = one[j]
    BY <1>2
  <2> HIDE DEF k
  <2>3. (s \o one)[Len(s) + k] = one[k]
    BY <2>1, <2>2
  <2>. QED
    BY <2>3, <1>1 DEF k
<1>5. /\ s \o one \in Text /\ Len(s) \in Nat /\ Len(s \o one) = Len(s) + 1
      /\ \A k \in 1..Len(s) : (s \o one)[k] = s[k]
      /\ (s \o one)[Len(s) + 1] = a
      /\ s \o one = Append(s, a)
  BY <1>1, <1>2, <1>3, <1>4
<1>. QED
  BY <1>5, Zenon DEF one

LEMMA SameText ==
  ASSUME NEW s \in Text, NEW u \in Text, Len(s) = Len(u),
         \A k \in 1..Len(s) : s[k] = u[k]
  PROVE  s = u
BY SeqEqual DEF Text

LEMMA QuotedText ==
  ASSUME NEW s \in Text
  PROVE  /\ Quoted(s) \in Text /\ Len(s) \in Nat /\ Len(Quoted(s)) = Len(s) + 2
         /\ Quoted(s)[1] = Quote /\ Quoted(s)[Len(s) + 2] = Quote
         /\ \A k \in 1..Len(s) : Quoted(s)[k + 1] = s[k]
<1> DEFINE u == <<Quote>> \o s
<1>1. Quote \in STRING
  BY Pieces
<1>2. <<Quote>> \in Text /\ Len(<<Quote>>) = 1 /\ <<Quote>>[1] = Quote
  BY <1>1, One DEF Text
<1>3. /\ u \in Text /\ Len(<<Quote>>) \in Nat /\ Len(s) \in Nat
      /\ Len(u) = Len(<<Quote>>) + Len(s)
      /\ \A k \in 1..Len(<<Quote>>) : u[k] = <<Quote>>[k]
      /\ \A k \in 1..Len(s) : u[Len(<<Quote>>) + k] = s[k]
  BY <1>2, Cat
<1>4. Quoted(s) = u \o <<Quote>>
  BY DEF Quoted
<1> HIDE DEF u
<1>5. /\ u \o <<Quote>> \in Text /\ Len(u \o <<Quote>>) = Len(u) + 1
      /\ \A k \in 1..Len(u) : (u \o <<Quote>>)[k] = u[k]
      /\ (u \o <<Quote>>)[Len(u) + 1] = Quote
  BY <1>1, <1>3, CatPiece
<1>6. Len(u) = Len(s) + 1 /\ u[1] = Quote
  BY <1>2, <1>3
<1>7. \A k \in 1..Len(s) : u[k + 1] = s[k] /\ k + 1 \in 1..Len(u)
  BY <1>2, <1>3
<1>. QED
  BY <1>3, <1>4, <1>5, <1>6, <1>7

LEMMA QuotedOne ==
  ASSUME NEW a \in STRING
  PROVE  /\ Quoted(<<a>>) \in Text /\ Len(Quoted(<<a>>)) = 3
         /\ Quoted(<<a>>)[1] = Quote /\ Quoted(<<a>>)[2] = a /\ Quoted(<<a>>)[3] = Quote
<1> DEFINE one == <<a>>
           b == a
<1>1. one \in Text /\ Len(one) = 1 /\ one[1] = b
  BY One DEF Text
<1> HIDE DEF one, b
<1>2. /\ Quoted(one) \in Text /\ Len(Quoted(one)) = Len(one) + 2
      /\ Quoted(one)[1] = Quote /\ Quoted(one)[Len(one) + 2] = Quote
      /\ \A k \in 1..Len(one) : Quoted(one)[k + 1] = one[k]
  BY <1>1, QuotedText
<1>3. Quoted(one)[1 + 1] = one[1]
  BY <1>1, <1>2
<1>4. /\ Quoted(one) \in Text /\ Len(Quoted(one)) = 3
      /\ Quoted(one)[1] = Quote /\ Quoted(one)[2] = b /\ Quoted(one)[3] = Quote
  BY <1>1, <1>2, <1>3
<1>. QED
  BY <1>4, Zenon DEF one, b

LEMMA QuotedSecond ==
  ASSUME NEW a
  PROVE  Quoted(<<a>>)[2] = a
<1> DEFINE T == {Quote, a}
           one == <<a>>
           start == <<Quote>>
           u == start \o one
<1>1. Quote \in T /\ a \in T
  OBVIOUS
<1> HIDE DEF T
<1>2. one \in Seq(T) /\ Len(one) = 1 /\ one[1] = a
  BY <1>1, One
<1>3. start \in Seq(T) /\ Len(start) = 1
  BY <1>1, One
<1>4. Quoted(<<a>>) = u \o start
  BY DEF Quoted
<1> HIDE DEF one, start
<1>5. /\ u \in Seq(T) /\ Len(u) = Len(start) + Len(one)
      /\ \A i \in 1..(Len(start) + Len(one)) :
           u[i] = IF i <= Len(start) THEN start[i] ELSE one[i - Len(start)]
  BY <1>2, <1>3, ConcatProperties
<1> HIDE DEF u
<1>10. u \in Seq(T)
  BY <1>5
<1>6. \A i \in 1..(Len(u) + Len(start)) :
        (u \o start)[i] = IF i <= Len(u) THEN u[i] ELSE start[i - Len(u)]
  BY <1>3, <1>10, ConcatProperties
<1>7. Len(u) = 2
  BY <1>2, <1>3, <1>5
<1>8. u[2] = one[1]
  <2>1. 2 \in 1..(Len(start) + Len(one)) /\ ~(2 <= Len(start)) /\ 2 - Len(start) = 1
    BY <1>2, <1>3
  <2>. QED
    BY <1>5, <2>1
<1>9. (u \o start)[2] = u[2]
  <2>1. 2 \in 1..(Len(u) + Len(start)) /\ 2 <= Len(u)
    BY <1>3, <1>7
  <2>. QED
    BY <1>6, <2>1
<1>. QED
  BY <1>2, <1>4, <1>8, <1>9
-------------------------------------------------------------------------------
(* The parser on a text whose pieces are known. *)

LEMMA NextIs ==
  ASSUME NEW text \in Text, NEW i \in Nat, NEW pieces,
         NEW j \in (i + 1)..Len(text), text[j] \in pieces,
         \A k \in (i + 1)..(j - 1) : text[k] \notin pieces
  PROVE  NextOf(text, i, pieces) = j
<1> DEFINE T == {k \in (i + 1)..Len(text) : text[k] \in pieces}
<1>1. T \in SUBSET Nat /\ j \in T /\ \A k \in T : j <= k
  BY DEF Text
<1>2. Min(T) = j
  <2> HIDE DEF T
  <2>. QED  BY <1>1, MinIs
<1>. QED
  BY <1>1, <1>2 DEF NextOf, First

LEMMA NextAt ==
  ASSUME NEW text \in Text, NEW i \in Nat, NEW j \in Nat, NEW piece,
         i < j, j <= Len(text), text[j] = piece,
         \A k \in Nat : i < k /\ k < j => text[k] # piece
  PROVE  NextOf(text, i, {piece}) = j
<1>1. Len(text) \in Nat
  BY DEF Text
<1>2. j \in (i + 1)..Len(text) /\ \A k \in (i + 1)..(j - 1) : k \in Nat /\ i < k /\ k < j
  BY <1>1
<1>3. \A k \in (i + 1)..(j - 1) : text[k] \notin {piece}
  BY <1>2
<1>. QED
  BY <1>2, <1>3, NextIs

LEMMA NextNone ==
  ASSUME NEW text \in Text, NEW i \in Nat, NEW pieces,
         \A k \in (i + 1)..Len(text) : text[k] \notin pieces
  PROVE  NextOf(text, i, pieces) = Len(text) + 1
BY DEF NextOf, First, Behind

LEMMA ValueIs ==
  ASSUME NEW text \in Text, NEW i \in Nat, NEW type,
         i + 1 \in 1..Len(text), Initial(text[i + 1]) \in StartsOf(type)
  PROVE  ValueAfter(text, i, type) = i + 1
<1> DEFINE T == {k \in (i + 1)..Len(text) : Initial(text[k]) \in StartsOf(type)}
<1>1. T \in SUBSET Nat /\ i + 1 \in T /\ \A k \in T : i + 1 <= k
  BY DEF Text
<1>2. Min(T) = i + 1
  <2> HIDE DEF T
  <2>. QED  BY <1>1, MinIs
<1>. QED
  BY <1>1, <1>2 DEF ValueAfter, First

\* The same pieces somewhere else have as many brackets.
LEMMA CountMoves ==
  ASSUME NEW text, NEW other, NEW d \in Nat, NEW m \in Nat, NEW pieces,
         \A k \in 1..m : other[d + k] = text[k]
  PROVE  Count(other, d + 1, d + m, pieces) = Count(text, 1, m, pieces)
<1> DEFINE here == {k \in 1..m : text[k] \in pieces}
           there == {k \in (d + 1)..(d + m) : other[k] \in pieces}
           move == [k \in here |-> d + k]
<1>1. IsFiniteSet(here)
  <2>1. IsFiniteSet(1..m)
    BY FS_Interval
  <2>. QED
    BY <2>1, FS_Subset
<1>2. \A k \in here : d + k \in there
  OBVIOUS
<1>3. \A k \in there : k - d \in here /\ d + (k - d) = k
  OBVIOUS
<1>4. move \in Bijection(here, there)
  <2>1. move \in [here -> there]
    BY <1>2
  <2>2. \A a, b \in here : move[a] = move[b] => a = b
    OBVIOUS
  <2>3. \A k \in there : move[k - d] = k
    BY <1>3
  <2> HIDE DEF move, here, there
  <2>. QED
    BY <2>1, <2>2, <2>3, <1>3 DEF Bijection, Injection, IsInjective, Surjection
<1>5. Cardinality(there) = Cardinality(here)
  <2> HIDE DEF move, here, there
  <2>. QED  BY <1>1, <1>4, FS_Bijection DEF ExistsBijection
<1>. QED
  BY <1>5 DEF Count

\* A value that ends where its brackets do ends nowhere before, wherever it is copied to.
EndsAt(b, v, j) == /\ b[j] \in {Comma} \cup Closers
                   /\ Count(b, v, j - 1, Openers) = Count(b, v, j - 1, Closers)
LEMMA EndInside ==
  ASSUME NEW text, NEW d \in Nat, NEW value \in Text, value # <<>>,
         \A k \in 1..Len(value) : text[d + k] = value[k],
         EndAfter(Append(value, Comma), 1) = Len(value) + 1
  PROVE  /\ \A j \in (d + 2)..(d + Len(value)) : ~EndsAt(text, d + 1, j)
         /\ Count(text, d + 1, d + Len(value), Openers)
              = Count(text, d + 1, d + Len(value), Closers)
<1> DEFINE m == Len(value)
           own == Append(value, Comma)
           T == {j \in (1 + 1)..Len(own) : EndsAt(own, 1, j)}
<1>1. m \in Nat /\ m > 0 /\ Len(own) = m + 1 /\ \A k \in 1..m : own[k] = value[k]
  BY DEF Text
<1>2. \A j \in 1..m : \A pieces :
       Count(text, d + 1, d + j, pieces) = Count(own, 1, j, pieces)
  <2> SUFFICES ASSUME NEW j \in 1..m, NEW pieces
               PROVE  Count(text, d + 1, d + j, pieces) = Count(own, 1, j, pieces)
    OBVIOUS
  <2>1. \A k \in 1..j : text[d + k] = own[k]
    BY <1>1
  <2> HIDE DEF own
  <2>. QED
    BY <2>1, CountMoves, <1>1
<1>3. m + 1 \in T /\ \A j \in 2..m : j \notin T
  <2>1. First(own, T) = m + 1
    BY <1>1 DEF EndAfter, EndsAt
  <2>2. T # {} => First(own, T) = Min(T)
    BY DEF First
  <2>3. T = {} => Len(own) + 1 = m + 1
    BY <2>1 DEF First, Behind
  <2>4. T \in SUBSET Nat
    BY <1>1
  <2> HIDE DEF T, m, own
  <2>. QED
    BY <2>1, <2>2, <2>3, <2>4, <1>1, MinFacts
<1>4. \A j \in (d + 2)..(d + m) : ~EndsAt(text, d + 1, j)
  <2> SUFFICES ASSUME NEW j \in (d + 2)..(d + m), EndsAt(text, d + 1, j) PROVE FALSE
    OBVIOUS
  <2> DEFINE i == j - d
  <2>1. i \in 2..m /\ j = d + i /\ i - 1 \in 1..m /\ j - 1 = d + (i - 1)
    BY <1>1
  <2>2. own[i] \in {Comma} \cup Closers
    BY <2>1, <1>1 DEF EndsAt
  <2>3. Count(own, 1, i - 1, Openers) = Count(own, 1, i - 1, Closers)
    BY <2>1, <1>2 DEF EndsAt
  <2>4. i \in T
    BY <2>1, <2>2, <2>3, <1>1 DEF EndsAt
  <2>. QED
    BY <2>1, <2>4, <1>3
<1>5. Count(text, d + 1, d + m, Openers) = Count(text, d + 1, d + m, Closers)
  <2>1. Count(own, 1, m, Openers) = Count(own, 1, m, Closers)
    BY <1>3, <1>1 DEF EndsAt
  <2>. QED
    BY <1>1, <1>2, <2>1
<1>. QED
  BY <1>4, <1>5

\* It ends at the delimiter behind it.
LEMMA EndIs ==
  ASSUME NEW text \in Text, NEW d \in Nat, NEW value \in Text, value # <<>>,
         d + Len(value) + 1 \in 1..Len(text),
         \A k \in 1..Len(value) : text[d + k] = value[k],
         text[d + Len(value) + 1] \in {Comma, ObjectEnd},
         EndAfter(Append(value, Comma), 1) = Len(value) + 1
  PROVE  EndAfter(text, d + 1) = d + Len(value) + 1
<1> DEFINE m == Len(value)
           T == {j \in (d + 1 + 1)..Len(text) : EndsAt(text, d + 1, j)}
<1>1. m \in Nat /\ m > 0 /\ Len(text) \in Nat
  BY DEF Text
<1>2. text[d + m + 1] \in {Comma} \cup Closers
  BY Pieces
<1>3. (d + m + 1) - 1 = d + m
  BY <1>1
<1>4. d + m + 1 \in T /\ T \in SUBSET Nat
  BY <1>1, <1>2, <1>3, EndInside DEF EndsAt
<1>5. \A j \in T : d + m + 1 <= j
  <2>1. \A j \in (d + 2)..(d + m) : ~EndsAt(text, d + 1, j)
    BY EndInside
  <2>. QED
    BY <1>1, <2>1
<1>6. Min(T) = d + m + 1
  <2> HIDE DEF T
  <2>. QED  BY <1>4, <1>5, MinIs
<1>. QED
  BY <1>4, <1>6 DEF EndAfter, First, EndsAt

\* In a text that breaks off behind it, it has no end.
LEMMA EndNone ==
  ASSUME NEW text \in Text, NEW d \in Nat, NEW value \in Text, value # <<>>,
         d + Len(value) = Len(text),
         \A k \in 1..Len(value) : text[d + k] = value[k],
         EndAfter(Append(value, Comma), 1) = Len(value) + 1
  PROVE  EndAfter(text, d + 1) = Len(text) + 1
<1> DEFINE T == {j \in (d + 1 + 1)..Len(text) : EndsAt(text, d + 1, j)}
<1>1. \A j \in (d + 1 + 1)..Len(text) : ~EndsAt(text, d + 1, j)
  BY EndInside DEF Text
<1>2. T = {}
  BY <1>1
<1>. QED
  BY <1>2 DEF EndAfter, First, Behind, EndsAt
-------------------------------------------------------------------------------
(* The text of a frame. *)

Longer(text, i, member) ==
  text \o (IF i = 1 THEN <<>> ELSE <<Comma>>) \o Quoted(<<member.key>>) \o <<Colon>>
       \o member.value

LEMMA FrameTexts ==
  ASSUME NEW ms \in Seq(Member)
  PROVE  \E t : /\ t[0] = <<ObjectStart>>
                /\ \A i \in 1..Len(ms) : t[i] = Longer(t[i - 1], i, ms[i])
                /\ FrameText(ms) = Append(t[Len(ms)], ObjectEnd)
<1> DEFINE G(f, k) == f = [i \in 0..k |-> IF i = 0 THEN <<ObjectStart>>
                                          ELSE Longer(f[i - 1], i, ms[i])]
           Bad == {k \in Nat : ~\E f : G(f, k)}
<1>1. Bad = {}
  <2> SUFFICES ASSUME Bad # {} PROVE FALSE
    OBVIOUS
  <2>1. PICK k \in Bad : \A y \in Bad : k <= y
    <3> HIDE DEF G
    <3>. QED  BY LeastNat
  <2>2. k # 0
    <3>1. G([i \in 0..0 |-> <<ObjectStart>>], 0)
      OBVIOUS
    <3>. QED  BY <3>1
  <2>3. k \in Nat /\ k - 1 \in Nat /\ k - 1 \notin Bad
    <3> HIDE DEF G
    <3>. QED  BY <2>1, <2>2
  <2>4. PICK f : G(f, k - 1)
    BY <2>3
  <2> DEFINE h == [i \in 0..k |-> IF i = 0 THEN <<ObjectStart>>
                                  ELSE Longer(f[i - 1], i, ms[i])]
  <2>5. \A i \in 0..(k - 1) : f[i] = h[i]
    <3>. SUFFICES ASSUME NEW i \in 0..(k - 1) PROVE f[i] = h[i]
      OBVIOUS
    <3>1. i \in 0..k
      BY <2>3
    <3>2. f[i] = IF i = 0 THEN <<ObjectStart>> ELSE Longer(f[i - 1], i, ms[i])
      BY <2>4
    <3>3. h[i] = IF i = 0 THEN <<ObjectStart>> ELSE Longer(f[i - 1], i, ms[i])
      BY <3>1
    <3>. QED
      BY Zenon, <3>2, <3>3
  <2>6. G(h, k)
    <3>1. \A i \in 0..k : i # 0 => f[i - 1] = h[i - 1]
      <4> HIDE DEF h
      <4>. QED  BY <2>5, <2>3
    <3>2. h = [i \in 0..k |-> IF i = 0 THEN <<ObjectStart>> ELSE Longer(f[i - 1], i, ms[i])]
      OBVIOUS
    <3> HIDE DEF h
    <3>. QED  BY <3>1, <3>2
  <2>. QED
    BY <2>1, <2>6
<1>2. Len(ms) \in Nat
  OBVIOUS
<1>3. \E f : G(f, Len(ms))
  <2> HIDE DEF G
  <2>. QED  BY <1>1, <1>2
<1> DEFINE t == CHOOSE f : G(f, Len(ms))
<1>4. G(t, Len(ms))
  BY <1>3, Zenon
<1>5. FrameText(ms) = Append(t[Len(ms)], ObjectEnd)
  BY DEF FrameText, Longer
<1> HIDE DEF t
<1>6. t[0] = <<ObjectStart>> /\ \A i \in 1..Len(ms) : t[i] = Longer(t[i - 1], i, ms[i])
  BY <1>4, <1>2
<1>. QED
  BY <1>5, <1>6

\* A member is in a text behind the position d.
Size(member) == Len(member.value)
MemberAt(text, d, member) ==
  /\ text[d + 1] = Quote /\ text[d + 2] = member.key /\ text[d + 3] = Quote
  /\ text[d + 4] = Colon
  /\ \A k \in 1..Size(member) : text[d + 4 + k] = member.value[k]

LEMMA SizeNat ==
  ASSUME NEW member \in Member
  PROVE  Size(member) \in Nat /\ member.value \in Text /\ member.key \in STRING
BY DEF Member, Text, Size

LEMMA LongerText ==
  ASSUME NEW s \in Text, NEW i, NEW member \in Member,
         NEW r, r = Longer(s, i, member), NEW d, d = Len(s) + (IF i = 1 THEN 0 ELSE 1)
  PROVE  /\ r \in Text /\ Len(r) = d + 4 + Size(member)
         /\ \A k \in 1..Len(s) : r[k] = s[k]
         /\ i # 1 => r[d] = Comma
         /\ MemberAt(r, d, member)
<1> DEFINE a == IF i = 1 THEN <<>> ELSE <<Comma>>
           b == Quoted(<<member.key>>)
           sa == s \o a
           sb == sa \o b
           sc == sb \o <<Colon>>
<1>1. Comma \in STRING /\ Colon \in STRING
  BY Pieces
<1>2. member.key \in STRING /\ member.value \in Text
  BY DEF Member
<1>3. <<member.key>> \in Text /\ Len(<<member.key>>) = 1 /\ <<member.key>>[1] = member.key
  BY <1>2, One DEF Text
<1>4. r = sc \o member.value
  BY DEF Longer
<1>5. a \in Text /\ Len(a) = (IF i = 1 THEN 0 ELSE 1) /\ (i # 1 => a[1] = Comma)
  <2>1. <<Comma>> \in Text /\ Len(<<Comma>>) = 1 /\ <<Comma>>[1] = Comma
    BY <1>1, One DEF Text
  <2>2. <<>> \in Text /\ Len(<<>>) = 0
    BY DEF Text
  <2>. QED
    BY <2>1, <2>2
<1>6. b \in Text /\ Len(b) = 3 /\ b[1] = Quote /\ b[2] = member.key /\ b[3] = Quote
  BY <1>2, QuotedOne
<1> HIDE DEF a, b
<1>7. /\ s \o a \in Text /\ Len(s) \in Nat /\ Len(a) \in Nat
      /\ Len(s \o a) = Len(s) + Len(a)
      /\ \A k \in 1..Len(s) : (s \o a)[k] = s[k]
      /\ \A k \in 1..Len(a) : (s \o a)[Len(s) + k] = a[k]
  BY <1>5, Cat
<1>8. sa \in Text /\ Len(sa) \in Nat /\ Len(sa) = Len(s) + (IF i = 1 THEN 0 ELSE 1)
      /\ (\A k \in 1..Len(s) : sa[k] = s[k]) /\ (i # 1 => sa[Len(sa)] = Comma)
  BY <1>5, <1>7
<1> HIDE DEF sa
<1>9. /\ sa \o b \in Text /\ Len(b) \in Nat
      /\ Len(sa \o b) = Len(sa) + Len(b)
      /\ \A k \in 1..Len(sa) : (sa \o b)[k] = sa[k]
      /\ \A k \in 1..Len(b) : (sa \o b)[Len(sa) + k] = b[k]
  BY <1>6, <1>8, Cat
<1>10. /\ sb \in Text /\ Len(sb) = Len(sa) + 3
       /\ \A k \in 1..Len(sa) : sb[k] = sa[k]
       /\ sb[Len(sa) + 1] = Quote /\ sb[Len(sa) + 2] = member.key
       /\ sb[Len(sa) + 3] = Quote
  BY <1>6, <1>8, <1>9
<1> HIDE DEF sb
<1>11. /\ sc \in Text /\ Len(sc) = Len(sb) + 1
       /\ \A k \in 1..Len(sb) : sc[k] = sb[k]
       /\ sc[Len(sb) + 1] = Colon
  BY <1>1, <1>10, CatPiece
<1> HIDE DEF sc
<1>12. /\ Len(sc) = Len(sa) + 4 /\ sc[Len(sa) + 4] = Colon
       /\ \A k \in 1..Len(sa) : sc[k] = sa[k]
       /\ sc[Len(sa) + 1] = Quote /\ sc[Len(sa) + 2] = member.key
       /\ sc[Len(sa) + 3] = Quote
  BY <1>8, <1>10, <1>11
<1>13. /\ sc \o member.value \in Text /\ Len(sc) \in Nat /\ Len(member.value) \in Nat
       /\ Len(sc \o member.value) = Len(sc) + Len(member.value)
       /\ \A k \in 1..Len(sc) : (sc \o member.value)[k] = sc[k]
       /\ \A k \in 1..Len(member.value) :
            (sc \o member.value)[Len(sc) + k] = member.value[k]
  BY <1>2, <1>11, Cat
<1>14. /\ r \in Text /\ Len(r) = Len(sa) + 4 + Len(member.value)
       /\ \A k \in 1..Len(sc) : r[k] = sc[k]
       /\ \A k \in 1..Len(member.value) : r[Len(sa) + 4 + k] = member.value[k]
  <2>1. r \in Text /\ Len(r) = Len(sc) + Len(member.value)
    BY <1>4, <1>13
  <2>2. \A k \in 1..Len(member.value) : r[Len(sc) + k] = member.value[k]
    BY <1>4, <1>13
  <2>3. \A k \in 1..Len(sc) : r[k] = sc[k]
    BY <1>4, <1>13
  <2>4. Len(sc) = Len(sa) + 4
    BY <1>12
  <2>. QED
    BY <2>1, <2>2, <2>3, <2>4
<1>15. /\ \A k \in 1..Len(sa) : r[k] = sa[k]
       /\ r[Len(sa) + 1] = Quote /\ r[Len(sa) + 2] = member.key
       /\ r[Len(sa) + 3] = Quote /\ r[Len(sa) + 4] = Colon
  <2>1. Len(sa) \in Nat /\ \A k \in 1..Len(sa) : k \in 1..Len(sc)
    BY <1>8, <1>12
  <2>2. /\ Len(sa) + 1 \in 1..Len(sc) /\ Len(sa) + 2 \in 1..Len(sc)
        /\ Len(sa) + 3 \in 1..Len(sc) /\ Len(sa) + 4 \in 1..Len(sc)
    BY <1>8, <1>12
  <2>. QED
    BY <2>1, <2>2, <1>12, <1>14
<1>16. \A k \in 1..Len(s) : r[k] = s[k]
  BY <1>7, <1>8, <1>15
<1>17. i # 1 => r[Len(sa)] = Comma
  BY <1>7, <1>8, <1>15
<1>18. Len(sa) = d
  BY <1>8
<1>19. /\ r \in Text /\ Len(r) = d + 4 + Len(member.value)
       /\ \A k \in 1..Len(s) : r[k] = s[k]
       /\ i # 1 => r[d] = Comma
       /\ r[d + 1] = Quote /\ r[d + 2] = member.key /\ r[d + 3] = Quote
       /\ r[d + 4] = Colon
       /\ \A k \in 1..Len(member.value) : r[d + 4 + k] = member.value[k]
  BY <1>14, <1>15, <1>16, <1>17, <1>18
<1>. QED
  BY <1>19, Zenon DEF Size, MemberAt

\* Where the delimiter before a member is: the first one is the start of the object.
Edge(t, i) == IF i = 0 THEN 1 ELSE Len(t[i]) + 1
Built(t, ms, j) ==
  /\ t[j] \in Text /\ t[j][1] = ObjectStart /\ Len(t[j]) \in Nat \ {0}
  /\ \A i \in 1..j :
       /\ Edge(t, i - 1) \in Nat
       /\ Edge(t, i) = Edge(t, i - 1) + 5 + Size(ms[i])
       /\ Edge(t, i) <= Len(t[j]) + 1
       /\ MemberAt(t[j], Edge(t, i - 1), ms[i])
       /\ i < j => t[j][Edge(t, i)] = Comma

LEMMA MemberThere ==
  ASSUME NEW s, NEW u, NEW d \in Nat, NEW member \in Member, NEW n \in Nat,
         MemberAt(s, d, member), d + 4 + Size(member) <= n,
         \A k \in 1..n : u[k] = s[k]
  PROVE  MemberAt(u, d, member)
<1>1. Size(member) \in Nat
  BY SizeNat
<1>2. /\ d + 1 \in 1..n /\ d + 2 \in 1..n /\ d + 3 \in 1..n /\ d + 4 \in 1..n
      /\ \A k \in 1..Size(member) : d + 4 + k \in 1..n
  BY <1>1
<1>. QED
  BY <1>2 DEF MemberAt

LEMMA MemberStays ==
  ASSUME NEW s \in Text, NEW u, NEW d \in Nat, NEW member \in Member,
         MemberAt(s, d, member), d + 4 + Size(member) <= Len(s),
         \A k \in 1..Len(s) : u[k] = s[k]
  PROVE  MemberAt(u, d, member)
<1>1. Len(s) \in Nat
  BY DEF Text
<1>. QED
  BY <1>1, MemberThere

LEMMA BuiltFurther ==
  ASSUME NEW ms \in Seq(Member), NEW t, NEW j \in 1..Len(ms),
         \A i \in 1..Len(ms) : t[i] = Longer(t[i - 1], i, ms[i]),
         j = 1 => t[0] = <<ObjectStart>>,
         Built(t, ms, j - 1)
  PROVE  Built(t, ms, j)
<1> DEFINE s == t[j - 1]
           m == ms[j]
           r == t[j]
           d == Len(s) + (IF j = 1 THEN 0 ELSE 1)
<1>1. s \in Text /\ m \in Member /\ r = Longer(s, j, m) /\ Len(s) \in Nat \ {0}
      /\ s[1] = ObjectStart /\ (j = 1 => s = <<ObjectStart>>)
  BY DEF Built
<1>12. /\ Edge(t, j) = Len(r) + 1
       /\ Edge(t, j - 1) = IF j = 1 THEN 1 ELSE Len(s) + 1
  BY DEF Edge
<1>13. \A i \in 1..(j - 1) :
         /\ Edge(t, i - 1) \in Nat
         /\ Edge(t, i) = Edge(t, i - 1) + 5 + Size(ms[i])
         /\ Edge(t, i) <= Len(s) + 1
         /\ MemberAt(s, Edge(t, i - 1), ms[i])
         /\ i < j - 1 => s[Edge(t, i)] = Comma
  BY DEF Built
<1> HIDE DEF m, s, r
<1>2. /\ r \in Text /\ Len(r) = d + 4 + Size(m)
      /\ \A k \in 1..Len(s) : r[k] = s[k]
      /\ j # 1 => r[d] = Comma
      /\ MemberAt(r, d, m)
  <2>1. d = Len(s) + (IF j = 1 THEN 0 ELSE 1)
    OBVIOUS
  <2> HIDE DEF d
  <2>. QED
    BY <1>1, <2>1, LongerText
<1>3. Edge(t, j - 1) = d /\ d \in Nat
  <2>1. CASE j = 1
    <3>1. s = <<ObjectStart>>
      BY <1>1, <2>1
    <3>2. Len(s) = 1
      BY <3>1, One
    <3>. QED
      BY <2>1, <3>2, <1>12
  <2>2. CASE j # 1
    BY <1>1, <2>2, <1>12
  <2>. QED
    BY <2>1, <2>2
<1>4. Size(m) \in Nat
  BY <1>1, SizeNat
<1>10. Len(s) \in Nat /\ d >= Len(s)
  BY <1>1
<1> HIDE DEF d
<1>5. Edge(t, j) = d + 5 + Size(m) /\ Edge(t, j) = Len(r) + 1
  BY <1>2, <1>3, <1>4, <1>12
<1>11. Len(s) <= Len(r) /\ Len(r) \in Nat \ {0}
  BY <1>2, <1>3, <1>4, <1>10
<1>7. ASSUME NEW i \in 1..(j - 1)
      PROVE  /\ Edge(t, i - 1) \in Nat
             /\ Edge(t, i) = Edge(t, i - 1) + 5 + Size(ms[i])
             /\ Edge(t, i) <= Len(r) + 1
             /\ MemberAt(r, Edge(t, i - 1), ms[i])
             /\ i < j => r[Edge(t, i)] = Comma
  <2>1. /\ Edge(t, i - 1) \in Nat
        /\ Edge(t, i) = Edge(t, i - 1) + 5 + Size(ms[i])
        /\ Edge(t, i) <= Len(s) + 1
        /\ MemberAt(s, Edge(t, i - 1), ms[i])
        /\ i < j - 1 => s[Edge(t, i)] = Comma
    BY <1>13
  <2>7. ms[i] \in Member
    OBVIOUS
  <2>2. Size(ms[i]) \in Nat
    BY <2>7, SizeNat
  <2>3. MemberAt(r, Edge(t, i - 1), ms[i])
    <3>1. Edge(t, i - 1) + 4 + Size(ms[i]) <= Len(s)
      BY <2>1, <2>2, <1>10
    <3>. QED
      BY <1>1, <1>2, <2>1, <2>7, <3>1, MemberStays
  <2>4. Edge(t, i) <= Len(r) + 1
    BY <2>1, <2>2, <1>10, <1>11
  <2>5. CASE i = j - 1
    <3>1. Edge(t, i) = d /\ j # 1
      BY <1>3, <2>5
    <3>. QED
      BY <1>2, <2>1, <2>3, <2>4, <3>1
  <2>6. CASE i # j - 1
    <3>1. i < j - 1 /\ Edge(t, i) \in Nat /\ Edge(t, i) > 0 /\ i + 1 \in 1..(j - 1)
          /\ (i + 1) - 1 = i
      BY <2>1, <2>2, <2>6
    <3>3. /\ Edge(t, i + 1) = Edge(t, i) + 5 + Size(ms[i + 1])
          /\ Edge(t, i + 1) <= Len(s) + 1
      BY <3>1, <1>13
    <3>4. ms[i + 1] \in Member
      BY <3>1
    <3>5. Size(ms[i + 1]) \in Nat
      BY <3>4, SizeNat
    <3>2. Edge(t, i) \in 1..Len(s)
      BY <3>3, <3>5, <3>1, <1>10
    <3>. QED
      BY <3>1, <3>2, <1>2, <2>1, <2>3, <2>4
  <2>. QED
    BY <2>5, <2>6
<1>8. r[1] = ObjectStart
  BY <1>1, <1>2
<1>9. ASSUME NEW i \in 1..j
      PROVE  /\ Edge(t, i - 1) \in Nat
             /\ Edge(t, i) = Edge(t, i - 1) + 5 + Size(ms[i])
             /\ Edge(t, i) <= Len(r) + 1
             /\ MemberAt(r, Edge(t, i - 1), ms[i])
             /\ i < j => r[Edge(t, i)] = Comma
  <2>1. CASE i = j
    <3>1. ms[i] = m
      BY <2>1 DEF m
    <3>2. Edge(t, i) = d + 5 + Size(m) /\ Edge(t, i) = Len(r) + 1 /\ Edge(t, i - 1) = d
      BY <1>3, <1>5, <2>1
    <3>. QED
      BY <1>2, <1>3, <1>11, <2>1, <3>1, <3>2
  <2>2. CASE i # j
    <3>1. i \in 1..(j - 1)
      BY <2>2
    <3>. QED
      BY Zenon, <1>7, <3>1
  <2>. QED
    BY Zenon, <2>1, <2>2
<1>. QED
  BY <1>2, <1>8, <1>9, <1>11 DEF Built, r

\* Where everything is in the text of a frame.
Layout(text, at, ms) ==
  /\ text \in Text /\ text[1] = ObjectStart /\ at[0] = 1
  /\ Len(ms) = 0 => Len(text) = 2 /\ text[2] = ObjectEnd
  /\ Len(ms) # 0 => Len(text) = at[Len(ms)]
  /\ \A i \in 1..Len(ms) :
       /\ at[i - 1] \in Nat /\ at[i] \in Nat /\ at[i] <= Len(text)
       /\ at[i] = at[i - 1] + 5 + Size(ms[i])
       /\ MemberAt(text, at[i - 1], ms[i])
       /\ text[at[i]] = IF i < Len(ms) THEN Comma ELSE ObjectEnd

LEMMA BuiltFrame ==
  ASSUME NEW ms \in Seq(Member), NEW t, t[0] = <<ObjectStart>>,
         \A i \in 1..Len(ms) : t[i] = Longer(t[i - 1], i, ms[i])
  PROVE  Built(t, ms, Len(ms))
<1> DEFINE Bad == {k \in 0..Len(ms) : ~Built(t, ms, k)}
<1>1. Bad = {}
  <2> SUFFICES ASSUME Bad # {} PROVE FALSE
    OBVIOUS
  <2>0. Bad \in SUBSET Nat
    OBVIOUS
  <2>1. PICK k \in Bad : \A y \in Bad : k <= y
    <3> HIDE DEF Bad
    <3>. QED  BY <2>0, LeastNat
  <2>2. Built(t, ms, 0)
    <3>1. t[0] \in Text /\ t[0][1] = ObjectStart /\ Len(t[0]) = 1
      <4>1. ObjectStart \in STRING
        BY Zenon, Pieces
      <4>. QED
        BY Zenon, <4>1, One DEF Text
    <3>. QED
      BY <3>1 DEF Built
  <2>3. k \in 1..Len(ms)
    BY <2>1, <2>2
  <2>4. k - 1 \in 0..Len(ms) /\ ~(k <= k - 1)
    BY <2>3
  <2>5. Built(t, ms, k - 1)
    BY <2>1, <2>4
  <2>6. Built(t, ms, k)
    BY <2>3, <2>5, BuiltFurther
  <2>. QED
    BY <2>1, <2>6
<1>. QED
  BY <1>1

LEMMA FrameLayout ==
  ASSUME NEW ms \in Seq(Member)
  PROVE  \E at : Layout(FrameText(ms), at, ms)
<1> DEFINE n == Len(ms)
           text == FrameText(ms)
<1>1. PICK t : /\ t[0] = <<ObjectStart>>
               /\ \A i \in 1..Len(ms) : t[i] = Longer(t[i - 1], i, ms[i])
               /\ text = Append(t[n], ObjectEnd)
  BY FrameTexts
<1> DEFINE s == t[n]
           at == [i \in 0..n |-> Edge(t, i)]
<1>0. n \in Nat
  OBVIOUS
<1>2. Built(t, ms, n)
  BY <1>1, BuiltFrame
<1>3. /\ s \in Text /\ s[1] = ObjectStart /\ Len(s) \in Nat \ {0}
      /\ \A i \in 1..n :
           /\ Edge(t, i - 1) \in Nat
           /\ Edge(t, i) = Edge(t, i - 1) + 5 + Size(ms[i])
           /\ Edge(t, i) <= Len(s) + 1
           /\ MemberAt(s, Edge(t, i - 1), ms[i])
           /\ i < n => s[Edge(t, i)] = Comma
  BY <1>2 DEF Built
<1>4. /\ n = 0 => s = <<ObjectStart>>
      /\ n # 0 => Edge(t, n) = Len(s) + 1
      /\ Edge(t, 0) = 1
  BY <1>1 DEF Edge
<1>5. ObjectEnd \in STRING
  BY Pieces
<1>6. text = Append(s, ObjectEnd)
  BY <1>1
<1>13. n = 0 => Len(s) = 1
  BY <1>4, One
<1> HIDE DEF s, text
<1>7. /\ text \in Text /\ Len(text) = Len(s) + 1
      /\ \A k \in 1..Len(s) : text[k] = s[k]
      /\ text[Len(s) + 1] = ObjectEnd
  <2>1. text = s \o <<ObjectEnd>>
    BY <1>3, <1>5, <1>6, CatPiece
  <2>. QED
    BY <2>1, <1>3, <1>5, CatPiece, Zenon
<1>8. /\ \A i \in 1..n : at[i - 1] = Edge(t, i - 1) /\ at[i] = Edge(t, i)
      /\ at[0] = Edge(t, 0)
      /\ n # 0 => at[n] = Edge(t, n)
  BY <1>0
<1> HIDE DEF at
<1>9. n = 0 => Len(text) = 2 /\ text[2] = ObjectEnd
  <2>1. n = 0 => Len(s) + 1 = 2
    BY <1>3, <1>13
  <2>. QED
    BY <1>7, <2>1
<1>10. n # 0 => Len(text) = at[n]
  BY <1>4, <1>7, <1>8
<1>11. ASSUME NEW i \in 1..n
       PROVE  /\ at[i - 1] \in Nat /\ at[i] \in Nat /\ at[i] <= Len(text)
              /\ at[i] = at[i - 1] + 5 + Size(ms[i])
              /\ MemberAt(text, at[i - 1], ms[i])
              /\ text[at[i]] = IF i < n THEN Comma ELSE ObjectEnd
  <2>1. ms[i] \in Member
    OBVIOUS
  <2>2. Size(ms[i]) \in Nat
    BY <2>1, SizeNat
  <2>3. /\ at[i - 1] \in Nat /\ at[i] = at[i - 1] + 5 + Size(ms[i])
        /\ at[i] <= Len(s) + 1 /\ MemberAt(s, at[i - 1], ms[i])
        /\ i < n => s[at[i]] = Comma
    BY <1>3, <1>8
  <2>4. at[i] \in Nat /\ at[i] > 0
    BY <2>2, <2>3
  <2>5. MemberAt(text, at[i - 1], ms[i])
    <3>1. at[i - 1] + 4 + Size(ms[i]) <= Len(s)
      BY <2>2, <2>3, <1>3
    <3>. QED
      BY <1>3, <1>7, <2>1, <2>3, <3>1, MemberStays
  <2>6. CASE i = n
    BY <1>4, <1>7, <1>8, <2>3, <2>4, <2>5, <2>6
  <2>7. CASE i # n
    <3>1. i < n /\ i + 1 \in 1..n /\ (i + 1) - 1 = i
      BY <2>7
    <3>2. ms[i + 1] \in Member
      BY <3>1
    <3>3. Size(ms[i + 1]) \in Nat
      BY <3>2, SizeNat
    <3>4. at[i + 1] = at[i] + 5 + Size(ms[i + 1]) /\ at[i + 1] <= Len(s) + 1
      BY <1>3, <1>8, <3>1
    <3>5. at[i] \in 1..Len(s)
      BY <1>3, <2>4, <3>3, <3>4
    <3>6. text[at[i]] = Comma
      BY <3>1, <3>5, <2>3, <1>7
    <3>. QED
      BY <3>1, <3>6, <1>3, <1>7, <2>3, <2>4, <2>5
  <2>. QED
    BY <2>6, <2>7
<1>12. Layout(text, at, ms)
  BY <1>3, <1>4, <1>7, <1>8, <1>9, <1>10, <1>11 DEF Layout
<1>. QED
  BY <1>12 DEF text

-------------------------------------------------------------------------------
(* One member of a frame is parsed. *)

TokenOf(member, type) ==
  [keyValue |-> Quoted(<<member.key>>), hashValue |-> Hash(Quoted(<<member.key>>)),
   jsonValue |-> member.value, readDataType |-> type]

LEMMA PartOf ==
  ASSUME NEW X, NEW s \in Seq(X), NEW u \in Seq(X), NEW d \in Nat,
         d + Len(u) <= Len(s), \A k \in 1..Len(u) : s[d + k] = u[k]
  PROVE  SubSeq(s, d + 1, d + Len(u)) = u
<1> DEFINE m == d + 1
           n == d + Len(u)
           v == SubSeq(s, m, n)
<1>1. Len(u) \in Nat /\ Len(s) \in Nat
  OBVIOUS
<1>2. /\ m \in Int /\ n \in Int /\ n - m + 1 = Len(u)
      /\ IF m <= n THEN n - m + 1 = Len(u) ELSE Len(u) = 0
      /\ \A i \in m..n : i \in 1..Len(s)
  BY <1>1
<1>3. \A k \in 1..Len(u) : m + k - 1 = d + k
  BY <1>1
<1> HIDE DEF m, n
<1>7. \A i \in m..n : s[i] \in X
  BY <1>2
<1>4. /\ v \in Seq(X) /\ Len(v) = (IF m <= n THEN n - m + 1 ELSE 0)
      /\ \A k \in 1..(n - m + 1) : v[k] = s[m + k - 1]
  BY <1>2, <1>7, SubSeqProperties
<1> HIDE DEF v
<1>8. Len(v) = Len(u)
  BY <1>2, <1>4
<1>5. \A k \in 1..Len(v) : v[k] = u[k]
  BY <1>2, <1>3, <1>4, <1>8
<1>6. v = u
  BY <1>8, <1>4, <1>5, SeqEqual
<1>. QED
  BY <1>6 DEF m, n, v

LEMMA PartIs ==
  ASSUME NEW text \in Text, NEW u \in Text, NEW d \in Nat, d + Len(u) <= Len(text),
         \A k \in 1..Len(u) : text[d + k] = u[k]
  PROVE  SubSeq(text, d + 1, d + Len(u)) = u
BY PartOf DEF Text

LEMMA MemberFound ==
  ASSUME NEW text \in Text, NEW d \in Nat, NEW member \in Member, Carries(member),
         MemberAt(text, d, member), d + 4 + Size(member) <= Len(text), NEW type,
         type = "JDATA_OBJECT"
  PROVE  /\ NextOf(text, d, {Quote}) = d + 1 /\ NextOf(text, d + 1, {Quote}) = d + 3
         /\ NextOf(text, d + 1, {Colon}) = d + 4 /\ ValueAfter(text, d + 4, type) = d + 5
         /\ SubSeq(text, d + 1, d + 3) = Quoted(<<member.key>>)
         /\ SubSeq(text, d + 5, d + 4 + Size(member)) = member.value
         /\ d + 5 <= Len(text)
<1> DEFINE n == Size(member)
           u == Quoted(<<member.key>>)
<1>1. member.value \in Text /\ member.key \in STRING
  BY SizeNat
<1>20. n = Len(member.value)
  BY DEF Size
<1>2. n \in Nat /\ n > 0
  <2>1. n \in Nat /\ member.value # <<>>
    BY SizeNat DEF Carries
  <2>. QED
    BY <1>1, <1>20, <2>1, EmptySeq DEF Text
<1>3. Len(text) \in Nat
  BY DEF Text
<1> HIDE DEF n
<1>4. d + 4 + n <= Len(text)
  BY DEF n
<1>16. d + 5 <= Len(text) /\ d + 4 + 1 \in 1..Len(text)
  BY <1>2, <1>3, <1>4
<1>5. /\ d \in Nat /\ d + 1 \in Nat /\ d + 3 \in Nat /\ d + 4 \in Nat /\ d + 4 + 1 = d + 5
      /\ d < d + 1 /\ d + 1 < d + 3 /\ d + 1 < d + 4
      /\ d + 1 <= Len(text) /\ d + 3 <= Len(text) /\ d + 4 <= Len(text)
  BY <1>16, <1>3
<1>15. /\ \A k \in Nat : d < k => ~(k < d + 1)
       /\ \A k \in Nat : d + 1 < k /\ k < d + 3 => k = d + 2
       /\ \A k \in Nat : d + 1 < k /\ k < d + 4 => k = d + 2 \/ k = d + 3
  OBVIOUS
<1>6. /\ text[d + 1] = Quote /\ text[d + 2] = member.key /\ text[d + 3] = Quote
      /\ text[d + 4] = Colon
      /\ \A k \in 1..n : text[d + 4 + k] = member.value[k]
  BY DEF MemberAt, n
<1>7. member.key # Quote /\ member.key # Colon /\ Quote # Colon
  BY Pieces DEF Carries
<1>8. NextOf(text, d, {Quote}) = d + 1
  <2>1. text[d + 1] \in {Quote} /\ \A k \in Nat : d < k /\ k < d + 1 => text[k] \notin {Quote}
    BY Zenon, <1>6, <1>15
  <2>. QED
    BY <1>5, <2>1, NextAt
<1>9. NextOf(text, d + 1, {Quote}) = d + 3
  <2>1. \A k \in Nat : d + 1 < k /\ k < d + 3 => text[k] # Quote
    BY Zenon, <1>6, <1>7, <1>15
  <2>. QED
    BY <1>5, <1>6, <2>1, NextAt
<1>10. NextOf(text, d + 1, {Colon}) = d + 4
  <2>1. \A k \in Nat : d + 1 < k /\ k < d + 4 => text[k] # Colon
    BY Zenon, <1>6, <1>7, <1>15
  <2>. QED
    BY <1>5, <1>6, <2>1, NextAt
<1>11. ValueAfter(text, d + 4, type) = d + 5
  <2>1. text[d + 4 + 1] = member.value[1]
    BY <1>1, <1>2, <1>6
  <2>2. Initial(text[d + 4 + 1]) \in StartsOf(type)
    BY <2>1 DEF Carries
  <2>. QED
    BY <1>5, <1>16, <2>2, ValueIs
<1>12. u \in Text /\ Len(u) = 3 /\ u[1] = Quote /\ u[2] = member.key /\ u[3] = Quote
  BY <1>1, QuotedOne
<1> HIDE DEF u
<1>13. SubSeq(text, d + 1, d + 3) = u
  <2>1. d + Len(u) <= Len(text) /\ d + Len(u) = d + 3
    BY <1>5, <1>12
  <2>2. \A k \in 1..Len(u) : k = 1 \/ k = 2 \/ k = 3
    BY <1>12
  <2>3. \A k \in 1..Len(u) : text[d + k] = u[k]
    BY <1>6, <1>12, <2>2
  <2>. QED
    BY <1>12, <2>1, <2>3, PartIs
<1>14. SubSeq(text, d + 5, d + 4 + n) = member.value
  <2> DEFINE e == d + 4
  <2>1. e \in Nat /\ e + 1 = d + 5 /\ e + n <= Len(text)
    BY <1>4, <1>5
  <2>2. \A k \in 1..n : text[e + k] = member.value[k]
    BY <1>6
  <2> HIDE DEF e
  <2>3. SubSeq(text, e + 1, e + n) = member.value
    BY <1>1, <1>20, <2>1, <2>2, PartIs
  <2>. QED
    BY <2>1, <2>3 DEF e
<1>. QED
  BY <1>8, <1>9, <1>10, <1>11, <1>13, <1>14, <1>16 DEF n, u

LEMMA MemberEnd ==
  ASSUME NEW text \in Text, NEW d \in Nat, NEW member \in Member, Carries(member),
         MemberAt(text, d, member)
  PROVE  /\ (/\ d + 5 + Size(member) <= Len(text)
             /\ text[d + 5 + Size(member)] \in {Comma, ObjectEnd})
               => EndAfter(text, d + 5) = d + 5 + Size(member)
         /\ d + 4 + Size(member) = Len(text) => EndAfter(text, d + 5) = Len(text) + 1
<1> DEFINE n == Size(member)
           v == member.value
           e == d + 4
<1>1. v \in Text /\ v # <<>> /\ EndAfter(Append(v, Comma), 1) = Len(v) + 1
  BY SizeNat DEF Carries
<1>2. n \in Nat /\ Len(v) = n
  BY SizeNat DEF Size
<1>3. \A k \in 1..n : text[e + k] = v[k]
  BY DEF MemberAt
<1>4. Len(text) \in Nat
  BY DEF Text
<1> HIDE DEF n, v
<1>5. e \in Nat /\ e + 1 = d + 5 /\ e + n + 1 = d + 5 + n
  BY <1>2
<1> HIDE DEF e
<1>6. ASSUME e + n + 1 <= Len(text), text[e + n + 1] \in {Comma, ObjectEnd}
      PROVE  EndAfter(text, e + 1) = e + n + 1
  <2>1. e + n + 1 \in 1..Len(text)
    BY <1>2, <1>4, <1>5, <1>6
  <2>. QED
    BY <1>1, <1>2, <1>3, <1>5, <1>6, <2>1, EndIs
<1>7. ASSUME e + n = Len(text)
      PROVE  EndAfter(text, e + 1) = Len(text) + 1
  BY <1>1, <1>2, <1>3, <1>5, <1>7, EndNone
<1>. QED
  BY <1>5, <1>6, <1>7 DEF n, e

\* Where a parser structure stands
StandsAt(q, text, d) == q.buffer = text /\ q.currP = d /\ q.rootType = "JDATA_OBJECT"

\* A token has room for its value before its type, whatever the size of the type.
LEMMA TokenLayout ==
  /\ MAXTOKENBYTES \in Nat /\ MAXTOKENBYTES > 0 /\ MAXTOKENS \in Nat /\ MAXTOKENS > 0
  /\ MAXJSONBYTES \in Nat /\ MAXTOKENBYTES <= MAXJSONBYTES
  /\ ValueAt \in Nat /\ TypeAt \in Nat /\ TokenSize \in Nat
  /\ ValueAt + MAXTOKENBYTES <= TypeAt /\ TypeAt <= TokenSize
<1>1. /\ MAXTOKENBYTES \in Nat \ {0} /\ MAXTOKENS \in Nat \ {0} /\ MAXJSONBYTES \in Nat \ {0}
      /\ MAXTOKENBYTES <= MAXJSONBYTES /\ EnumSize \in {1, 4}
  BY ParserAssumption
<1>2. \A n \in Nat, size \in {1, 4} : Aligned(n, size) \in Nat /\ n <= Aligned(n, size)
  BY DEF Aligned
<1>3. ValueAt \in Nat
  BY <1>1, <1>2 DEF ValueAt
<1>4. TypeAt \in Nat /\ ValueAt + MAXTOKENBYTES <= TypeAt
  BY <1>1, <1>2, <1>3 DEF TypeAt
<1>5. TokenSize \in Nat /\ TypeAt <= TokenSize
  BY <1>1, <1>2, <1>4 DEF TokenSize
<1>. QED
  BY <1>1, <1>3, <1>4, <1>5

\* The maximum of zero and two numbers, and the room a value has that fits its token when nothing
\* has been spilt.
LEMMA MaxFromZero ==
  ASSUME NEW b \in Int, NEW c \in Int
  PROVE  /\ Max({0, b, c}) \in {0, b, c} /\ 0 <= Max({0, b, c})
         /\ b <= Max({0, b, c}) /\ c <= Max({0, b, c})
<1>1. \E x \in {0, b, c} : \A y \in {0, b, c} : x >= y
  OBVIOUS
<1>. QED
  BY <1>1 DEF Max

LEMMA TokenRoom ==
  ASSUME NEW q, q.spill = 0, Len(q.jData) \in Nat, Len(q.jData) < MAXTOKENS,
         NEW text, Width(text) \in 1..(MAXTOKENBYTES - 1)
  PROVE  /\ ~IsFull(q) /\ ~Leaves(q, text) /\ Spill(q, text) = 0
         /\ ~(Width(text) > MAXJSONBYTES)
         /\ \A key, hash, piece :
              Token(q, key, hash, text, piece) =
                [keyValue |-> key, hashValue |-> hash, jsonValue |-> text,
                 readDataType |-> TypeOf(piece)]
<1> DEFINE n == Width(text)
           left == MAXTOKENS - Len(q.jData)
<1>1. n \in Nat /\ n < MAXTOKENBYTES /\ n > 0 /\ n < MAXJSONBYTES
  BY TokenLayout
<1> HIDE DEF n
<1>2. ValueAt + n <= TypeAt /\ ValueAt + n <= TokenSize /\ ValueAt + n \in Nat
  BY <1>1, TokenLayout
<1>3. left \in Nat /\ left >= 1
  BY TokenLayout
<1> HIDE DEF left
<1>4. \A k, m \in Nat : k >= 1 => m <= k * m
  OBVIOUS
<1>5. TokenSize <= left * TokenSize /\ left * TokenSize \in Nat
  BY <1>3, <1>4, TokenLayout
<1>6. ~Leaves(q, text)
  BY <1>2, <1>5, TokenLayout DEF Leaves, n, left
<1>7. ~IsFull(q)
  BY TokenLayout DEF IsFull
<1>8. Spill(q, text) = 0
  <2> DEFINE b == 0 - TokenSize
             c == ValueAt + n - TokenSize
  <2>1. b \in Int /\ c \in Int /\ b <= 0 /\ c <= 0
    BY <1>1, <1>2, TokenLayout
  <2>2. Spill(q, text) = Max({0, b, c})
    BY DEF Spill, n
  <2> HIDE DEF b, c
  <2> DEFINE most == Max({0, b, c})
  <2>3. most \in {0, b, c} /\ 0 <= most
    BY <2>1, MaxFromZero
  <2> HIDE DEF most
  <2>. QED
    BY <2>1, <2>2, <2>3 DEF most
<1>9. \A key, hash, piece :
        Token(q, key, hash, text, piece) =
          [keyValue |-> key, hashValue |-> hash, jsonValue |-> text,
           readDataType |-> TypeOf(piece)]
  BY <1>1, <1>2, TokenLayout DEF Token, n
<1>. QED
  BY <1>1, <1>6, <1>7, <1>8, <1>9, TokenLayout DEF n

\* A member with its delimiter becomes a token, or the call gives up on blanks.
LEMMA MemberParsed ==
  ASSUME NEW text \in Text, NEW d \in Nat, NEW member \in Member, Carries(member),
         MemberAt(text, d, member), d + 5 + Size(member) <= Len(text),
         text[d + 5 + Size(member)] \in {Comma, ObjectEnd},
         NEW q, StandsAt(q, text, d),
         q.spill = 0, Len(q.jData) \in Nat, Len(q.jData) < MAXTOKENS
  PROVE  \/ ParseMember(q) = [q EXCEPT !.err = "TOK_ERR"]
         \/ \E type \in DataType :
              ParseMember(q) =
                Parsed(q, TokenOf(member, type), member.value, d + 5 + Size(member))
<1> DEFINE n == Size(member)
           e == d + 5 + n
           key == Quoted(<<member.key>>)
           late == Blanks(text, d + 4, d + 5) >= MAXTOKENBYTES
           type == TypeOf(text[d + 5])
<1>1. n \in Nat
  BY SizeNat
<1>2. Len(text) \in Nat
  BY DEF Text
<1>3. d + 4 + Size(member) <= Len(text)
  BY <1>1, <1>2
<1> DEFINE root == "JDATA_OBJECT"
<1>4. /\ NextOf(text, d, {Quote}) = d + 1 /\ NextOf(text, d + 1, {Quote}) = d + 3
      /\ NextOf(text, d + 1, {Colon}) = d + 4 /\ ValueAfter(text, d + 4, root) = d + 5
      /\ SubSeq(text, d + 1, d + 3) = key
      /\ SubSeq(text, d + 5, d + 4 + n) = member.value /\ d + 5 <= Len(text)
  BY <1>3, MemberFound
<1>5. EndAfter(text, d + 5) = e
  BY MemberEnd
<1>6. /\ ~(d + 3 > Len(text)) /\ ~(e > Len(text)) /\ e - 1 = d + 4 + n
  BY <1>1, <1>2, <1>4
<1>7. type \in DataType
  BY DEF TypeOf, DataType
<1>8. SubSeq(text, d + 5, e - 1) = member.value
  BY <1>4, <1>6
<1>9. Width(key) \in 1..(MAXTOKENBYTES - 1) /\ Width(member.value) \in 1..(MAXTOKENBYTES - 1)
  BY DEF Carries
<1>10. /\ ~IsFull(q) /\ ~Leaves(q, member.value) /\ ~(Width(member.value) > MAXJSONBYTES)
       /\ Token(q, key, Hash(key), member.value, text[d + 5]) = TokenOf(member, type)
  BY <1>9, TokenRoom DEF TokenOf
<1>11. ~(Width(key) >= MAXTOKENBYTES)
  BY <1>9, TokenLayout
<1> HIDE DEF late, type, e, key
<1>12. ParseMember(q) =
        IF d + 3 > Len(text) \/ IsFull(q) \/ Width(key) >= MAXTOKENBYTES
          THEN [q EXCEPT !.lost = TRUE]
        ELSE IF late \/ Width(member.value) > MAXJSONBYTES THEN [q EXCEPT !.err = "TOK_ERR"]
        ELSE IF e > Len(text) \/ Leaves(q, member.value) THEN [q EXCEPT !.lost = TRUE]
        ELSE Parsed(q, Token(q, key, Hash(key), member.value, text[d + 5]), member.value, e)
  BY <1>4, <1>5, <1>8, Zenon DEF ParseMember, StandsAt, late
<1>13. \/ ParseMember(q) = [q EXCEPT !.err = "TOK_ERR"]
       \/ ParseMember(q) = Parsed(q, TokenOf(member, type), member.value, e)
  BY <1>6, <1>10, <1>11, <1>12, Zenon
<1>. QED
  BY <1>7, <1>13 DEF e

\* Without it the call runs past the text.
LEMMA MemberCut ==
  ASSUME NEW text \in Text, NEW d \in Nat, NEW member \in Member, Carries(member),
         MemberAt(text, d, member), d + 4 + Size(member) = Len(text),
         NEW q, StandsAt(q, text, d)
  PROVE  \/ ParseMember(q) = [q EXCEPT !.err = "TOK_ERR"]
         \/ ParseMember(q) = [q EXCEPT !.lost = TRUE]
<1> DEFINE root == "JDATA_OBJECT"
           e == Len(text) + 1
           key == Quoted(<<member.key>>)
           value == SubSeq(text, d + 5, e - 1)
           past == d + 3 > Len(text) \/ IsFull(q) \/ Width(key) >= MAXTOKENBYTES
           late == \/ Blanks(text, d + 4, d + 5) >= MAXTOKENBYTES
                   \/ Width(value) > MAXJSONBYTES
           token == Token(q, key, Hash(key), value, text[d + 5])
<1>1. Size(member) \in Nat /\ Len(text) \in Nat
  BY SizeNat DEF Text
<1>3. d + 4 + Size(member) <= Len(text)
  BY <1>1
<1>4. /\ NextOf(text, d, {Quote}) = d + 1 /\ NextOf(text, d + 1, {Quote}) = d + 3
      /\ NextOf(text, d + 1, {Colon}) = d + 4 /\ ValueAfter(text, d + 4, root) = d + 5
      /\ SubSeq(text, d + 1, d + 3) = key
  BY <1>3, MemberFound
<1>5. EndAfter(text, d + 5) = e
  BY MemberEnd
<1>6. e > Len(text)
  BY <1>1
<1> HIDE DEF e, key
<1>8. ParseMember(q) =
        IF past THEN [q EXCEPT !.lost = TRUE]
        ELSE IF late THEN [q EXCEPT !.err = "TOK_ERR"]
        ELSE IF e > Len(text) \/ Leaves(q, value) THEN [q EXCEPT !.lost = TRUE]
        ELSE Parsed(q, token, value, e)
  BY <1>4, <1>5, Zenon DEF ParseMember, StandsAt
<1> HIDE DEF token, past, late, value
<1>. QED
  BY <1>6, <1>8

\* In an object without a quote too.
LEMMA NoMember ==
  ASSUME NEW text \in Text, NEW d \in Nat, NEW q, StandsAt(q, text, d),
         \A k \in 1..Len(text) : text[k] # Quote
  PROVE  \/ ParseMember(q) = [q EXCEPT !.err = "TOK_ERR"]
         \/ ParseMember(q) = [q EXCEPT !.lost = TRUE]
<1> DEFINE e == Len(text) + 1
           root == "JDATA_OBJECT"
           colon == NextOf(text, e, {Colon})
           value == ValueAfter(text, colon, root)
           end == EndAfter(text, value)
           keyValue == SubSeq(text, e, e)
           part == SubSeq(text, value, end - 1)
           late == Blanks(text, colon, value) >= MAXTOKENBYTES \/ Width(part) > MAXJSONBYTES
           token == Token(q, keyValue, Hash(keyValue), part, text[value])
           past == Leaves(q, part)
<1>1. Len(text) \in Nat /\ \A i \in Nat : \A k \in (i + 1)..Len(text) : k \in 1..Len(text)
  BY DEF Text
<1>2. \A i \in Nat : NextOf(text, i, {Quote}) = e
  <2> SUFFICES ASSUME NEW i \in Nat PROVE NextOf(text, i, {Quote}) = e
    OBVIOUS
  <2>1. \A k \in (i + 1)..Len(text) : text[k] \notin {Quote}
    BY <1>1
  <2>. QED
    BY <2>1, NextNone
<1>9. e \in Nat
  BY <1>1
<1>3. NextOf(text, d, {Quote}) = e /\ NextOf(text, e, {Quote}) = e
  <2> HIDE DEF e
  <2>. QED  BY <1>2, <1>9
<1>6. e > Len(text)
  BY <1>1
<1> HIDE DEF e
<1>8. ParseMember(q) =
        IF e > Len(text) \/ IsFull(q) \/ Width(keyValue) >= MAXTOKENBYTES
          THEN [q EXCEPT !.lost = TRUE]
        ELSE IF late THEN [q EXCEPT !.err = "TOK_ERR"]
        ELSE IF end > Len(text) \/ past THEN [q EXCEPT !.lost = TRUE]
        ELSE Parsed(q, token, part, end)
  BY <1>3, Zenon DEF ParseMember, StandsAt
<1> HIDE DEF colon, value, end, late, token, part, past, keyValue
<1>. QED
  BY <1>6, <1>8
-------------------------------------------------------------------------------
(* The structure while a frame is read. *)

\* A frame in a buffer, whole or without its end
Laid(buf, at, ms, by) ==
  /\ buf \in Text /\ buf[1] = ObjectStart /\ Len(buf) \in Nat \ {0} /\ at[0] = 1
  /\ Len(ms) = 0 => \A k \in 1..Len(buf) : buf[k] # Quote
  /\ \A i \in 1..Len(ms) :
       /\ at[i - 1] \in Nat /\ at[i] \in Nat /\ at[i] = at[i - 1] + 5 + Size(ms[i])
       /\ MemberAt(buf, at[i - 1], ms[i])
       /\ i < Len(ms) \/ by = "frame" =>
            /\ at[i] <= Len(buf)
            /\ buf[at[i]] = IF i < Len(ms) THEN Comma ELSE ObjectEnd
       /\ ~(i < Len(ms)) /\ by # "frame" => at[i] = Len(buf) + 1

LEMMA FrameLaid ==
  ASSUME NEW ms \in Seq(Member), NEW at, NEW text, Layout(text, at, ms)
  PROVE  /\ Laid(text, at, ms, "frame")
         /\ Laid(SubSeq(text, 1, Len(text) - 1), at, ms, "cutFrame")
<1> DEFINE n == Len(ms)
           cut == SubSeq(text, 1, Len(text) - 1)
           m == Len(text) - 1
<1>1. /\ text \in Text /\ text[1] = ObjectStart /\ at[0] = 1
      /\ n = 0 => Len(text) = 2 /\ text[2] = ObjectEnd
      /\ n # 0 => Len(text) = at[n]
      /\ \A i \in 1..n :
           /\ at[i - 1] \in Nat /\ at[i] \in Nat /\ at[i] <= Len(text)
           /\ at[i] = at[i - 1] + 5 + Size(ms[i])
           /\ MemberAt(text, at[i - 1], ms[i])
           /\ text[at[i]] = IF i < n THEN Comma ELSE ObjectEnd
  BY DEF Layout
<1>2. n \in Nat
  OBVIOUS
<1>3. \A i \in 1..n : ms[i] \in Member
  OBVIOUS
<1>4. \A i \in 1..n : Size(ms[i]) \in Nat
  BY <1>3, SizeNat
<1>5. Len(text) \in Nat /\ Len(text) > 1
  <2>1. CASE n = 0
    BY <1>1, <2>1
  <2>2. CASE n # 0
    <3>1. n \in 1..n
      BY <1>2, <2>2
    <3>2. /\ at[n - 1] \in Nat /\ at[n] = at[n - 1] + 5 + Size(ms[n]) /\ Len(text) = at[n]
          /\ Size(ms[n]) \in Nat
      BY <1>1, <1>4, <3>1, <2>2
    <3>. QED
      BY <3>2
  <2>. QED
    BY <2>1, <2>2
<1>6. m \in Nat /\ m > 0 /\ Len(text) = m + 1
  BY <1>5
<1> HIDE DEF n, m
<1>7. /\ cut \in Text /\ Len(cut) = m
      /\ \A k \in 1..m : cut[k] = text[k]
  <2>1. \A k \in 1..m : text[k] \in STRING
    <3>1. \A k \in 1..Len(text) : text[k] \in STRING
      BY <1>1 DEF Text
    <3>. QED
      BY <1>6, <3>1
  <2>2. cut = SubSeq(text, 1, m)
    BY DEF m
  <2>3. /\ SubSeq(text, 1, m) \in Text
        /\ Len(SubSeq(text, 1, m)) = IF 1 <= m THEN m - 1 + 1 ELSE 0
        /\ \A k \in 1..(m - 1 + 1) : SubSeq(text, 1, m)[k] = text[1 + k - 1]
    BY <1>6, <2>1, SubSeqProperties DEF Text
  <2> DEFINE part == SubSeq(text, 1, m)
  <2>4. part \in Text /\ Len(part) = (IF 1 <= m THEN m - 1 + 1 ELSE 0)
        /\ \A k \in 1..(m - 1 + 1) : part[k] = text[1 + k - 1]
    BY <2>3
  <2> HIDE DEF part
  <2>5. m - 1 + 1 = m /\ \A k \in 1..m : 1 + k - 1 = k
    BY <1>6
  <2>6. part \in Text /\ Len(part) = m /\ \A k \in 1..m : part[k] = text[k]
    BY <1>6, <2>4, <2>5
  <2>. QED
    BY <2>2, <2>6 DEF part
<1> HIDE DEF cut
<1>8. n = 0 => (\A k \in 1..Len(text) : text[k] # Quote) /\ (\A k \in 1..m : cut[k] # Quote)
  <2> SUFFICES ASSUME n = 0
               PROVE (\A k \in 1..Len(text) : text[k] # Quote) /\ (\A k \in 1..m : cut[k] # Quote)
    OBVIOUS
  <2>1. Quote # ObjectStart /\ Quote # ObjectEnd
    BY Pieces
  <2>4. Len(text) = 2
    BY <1>1
  <2>2. \A k \in 1..Len(text) : k = 1 \/ k = 2
    BY <2>4
  <2>3. \A k \in 1..m : k \in 1..Len(text)
    BY <1>6
  <2>. QED
    BY <1>1, <1>7, <2>1, <2>2, <2>3
<1>9. Laid(text, at, ms, "frame")
  BY <1>1, <1>5, <1>8 DEF Laid, n
<1>10. \A i \in 1..n : MemberAt(cut, at[i - 1], ms[i])
  <2> SUFFICES ASSUME NEW i \in 1..n PROVE MemberAt(cut, at[i - 1], ms[i])
    OBVIOUS
  <2>1. at[i - 1] + 4 + Size(ms[i]) <= m
    BY <1>1, <1>4, <1>6
  <2>. QED
    BY <1>1, <1>3, <1>6, <1>7, <2>1, MemberThere
<1>11. \A i \in 1..n : i < n => at[i] <= m /\ cut[at[i]] = Comma
  <2> SUFFICES ASSUME NEW i \in 1..n, i < n PROVE at[i] <= m /\ cut[at[i]] = Comma
    OBVIOUS
  <2>1. i + 1 \in 1..n /\ (i + 1) - 1 = i
    BY <1>2
  <2>2. at[i] \in Nat /\ at[i + 1] = at[i] + 5 + Size(ms[i + 1]) /\ at[i + 1] <= Len(text)
    BY <1>1, <2>1
  <2>3. Size(ms[i + 1]) \in Nat
    BY <1>4, <2>1
  <2>4. at[i] <= m
    BY <1>6, <2>2, <2>3
  <2>5. at[i] > 0
    BY <1>1, <1>4
  <2>6. at[i] \in 1..m
    BY <1>6, <2>2, <2>4, <2>5
  <2>. QED
    BY <1>1, <1>7, <2>4, <2>6
<1>12. \A i \in 1..n : ~(i < n) => at[i] = m + 1
  <2>1. \A i \in 1..n : ~(i < n) => i = n /\ n # 0
    BY <1>2
  <2>. QED
    BY <1>1, <1>6, <2>1
<1>13. cut[1] = ObjectStart
  BY <1>1, <1>6, <1>7
<1>14. Laid(cut, at, ms, "cutFrame")
  BY <1>1, <1>6, <1>7, <1>8, <1>10, <1>11, <1>12, <1>13 DEF Laid, n
<1>. QED
  BY <1>9, <1>14 DEF cut

TokensOf(ms) == {TokenOf(ms[i], type) : i \in 1..Len(ms), type \in DataType}

\* The structure of a frame that has been read up to some member
Standing(q, ms, by) ==
  /\ DOMAIN q = DOMAIN Unparsed /\ q.rootType = "JDATA_OBJECT" /\ ~q.lost /\ q.spill = 0
  /\ q.jData \in Seq(TokensOf(ms)) /\ Len(q.jData) \in 0..Len(ms)
  /\ \A i \in 1..Len(q.jData) :
       \E type \in DataType : q.jData[i] = TokenOf(ms[i], type)
  /\ \E at : Laid(q.buffer, at, ms, by) /\ q.currP = at[Len(q.jData)]
  /\ IF q.parserStatus = "JSON_END"
       THEN by = "frame" /\ Len(q.jData) = Len(ms) /\ Len(ms) > 0
       ELSE Len(q.jData) < Len(ms) \/ Len(ms) = 0

LEMMA EmptyWidth == Width(<<>>) = 0
<1> DEFINE none == <<>>
           width == CHOOSE f : f = [i \in 0..Len(none) |->
                                     IF i = 0 THEN 0 ELSE f[i - 1] + Len(none[i])]
           zero == [i \in 0..Len(none) |-> 0]
<1>1. Width(none) = width[Len(none)]
  BY Zenon DEF Width
<1>2. Len(none) = 0 /\ \A i \in 0..Len(none) : i = 0
  OBVIOUS
<1>3. \A f : [i \in 0..Len(none) |-> IF i = 0 THEN 0 ELSE f[i - 1] + Len(none[i])] = zero
  BY <1>2
<1>4. width = [i \in 0..Len(none) |-> IF i = 0 THEN 0 ELSE width[i - 1] + Len(none[i])]
  <2>1. zero = [i \in 0..Len(none) |-> IF i = 0 THEN 0 ELSE zero[i - 1] + Len(none[i])]
    BY <1>3
  <2>. QED
    BY <2>1, Zenon
<1> HIDE DEF width
<1>5. width = zero
  <2>1. [i \in 0..Len(none) |-> IF i = 0 THEN 0 ELSE width[i - 1] + Len(none[i])] = zero
    BY Zenon, <1>3
  <2>. QED
    BY Zenon, <1>4, <2>1
<1>. QED
  BY <1>1, <1>2, <1>5

LEMMA FrameBegun ==
  ASSUME NEW ms \in Seq(Member), NEW by, NEW at, NEW buf, Laid(buf, at, ms, by)
  PROVE  Standing(StructInit(buf), ms, by) /\ StructInit(buf).parserStatus # "JSON_END"
<1> DEFINE roots == {i \in DOMAIN buf : buf[i] \in Openers}
           q == StructInit(buf)
<1>1. buf \in Text /\ buf[1] = ObjectStart /\ Len(buf) \in Nat \ {0} /\ at[0] = 1
  BY DEF Laid
<1>2. DOMAIN buf = 1..Len(buf)
  BY <1>1 DEF Text
<1>3. roots \in SUBSET Nat /\ 1 \in roots /\ \A i \in roots : 1 <= i
  <2>1. ObjectStart \in Openers
    BY Pieces
  <2>2. 1 \in 1..Len(buf)
    BY <1>1
  <2>. QED
    BY <1>1, <1>2, <2>1, <2>2
<1>4. Min(roots) = 1 /\ roots # {}
  <2> HIDE DEF roots
  <2>. QED  BY <1>3, MinIs
<1>8. ~(Blanks(buf, 0, Min(roots)) >= MAXJSONBYTES)
  <2>1. SubSeq(buf, 0 + 1, Min(roots) - 1) = <<>>
    <3> HIDE DEF roots
    <3>1. Min(roots) - 1 = 0 /\ 0 + 1 = 1 /\ SubSeq(buf, 1, 0) = <<>>
      BY <1>1, <1>4 DEF Text
    <3>. QED
      BY <3>1
  <2>2. Width(<<>>) = 0
    BY EmptyWidth
  <2>3. Blanks(buf, 0, Min(roots)) = 0
    BY <2>1, <2>2, Zenon DEF Blanks
  <2> HIDE DEF roots
  <2>. QED
    BY <2>3, ParserAssumption
<1>5. q = [Unparsed EXCEPT !.buffer = buf, !.currP = 1, !.rootType = "JDATA_OBJECT"]
  BY <1>1, <1>4, <1>8, Zenon DEF StructInit
<1> HIDE DEF q
<1>6. /\ q.spill = 0
      /\ DOMAIN q = DOMAIN Unparsed /\ q.rootType = "JDATA_OBJECT" /\ q.lost = FALSE
      /\ q.jData = <<>> /\ q.buffer = buf /\ q.currP = 1 /\ q.parserStatus = "JSON_START"
  BY <1>5 DEF Unparsed
<1>7. Len(ms) \in Nat
  OBVIOUS
<1>. QED
  BY <1>1, <1>6, <1>7 DEF Standing, q

\* A call on it reads the next member, gives up on blanks, or runs past the text.
LEMMA FrameFurther ==
  ASSUME NEW ms \in Seq(Member), \A i \in 1..Len(ms) : Carries(ms[i]),
         Len(ms) <= MAXTOKENS, NEW by, NEW q,
         Standing(q, ms, by), q.parserStatus # "JSON_END"
  PROVE  \/ ParseData(q).lost /\ ParseData(q).parserStatus # "JSON_END"
         \/ Standing(ParseData(q), ms, by)
<1> DEFINE n == Len(ms)
           j == Len(q.jData)
           r == ParseMember(q)
           buf == q.buffer
<1>1. /\ DOMAIN q = DOMAIN Unparsed /\ q.rootType = "JDATA_OBJECT" /\ q.lost = FALSE
      /\ q.spill = 0 /\ q.jData \in Seq(TokensOf(ms)) /\ j \in 0..n /\ n \in Nat
      /\ \A i \in 1..j : \E type \in DataType : q.jData[i] = TokenOf(ms[i], type)
      /\ j < n \/ n = 0
  BY DEF Standing
<1>2. PICK at : Laid(buf, at, ms, by) /\ q.currP = at[j]
  BY DEF Standing
<1>3. ParseData(q) = r
  BY <1>1 DEF ParseData
<1>4. ASSUME r = [q EXCEPT !.err = "TOK_ERR"] PROVE Standing(r, ms, by)
  <2>1. /\ DOMAIN r = DOMAIN Unparsed /\ r.rootType = q.rootType /\ r.lost = q.lost
        /\ r.jData = q.jData /\ r.buffer = q.buffer /\ r.currP = q.currP
        /\ r.parserStatus = q.parserStatus /\ r.spill = q.spill
    BY <1>1, <1>4 DEF Unparsed
  <2> HIDE DEF r
  <2>. QED
    BY <2>1, Zenon DEF Standing
<1>5. ASSUME r = [q EXCEPT !.lost = TRUE] PROVE r.lost /\ r.parserStatus # "JSON_END"
  BY <1>1, <1>5 DEF Unparsed
<1>6. buf \in Text
  BY <1>2 DEF Laid
<1>7. CASE n = 0
  <2>1. /\ \A k \in 1..Len(buf) : buf[k] # Quote
        /\ at[0] = 1 /\ j = 0
    BY <1>1, <1>2, <1>7 DEF Laid
  <2>2. StandsAt(q, buf, 1)
    BY <1>1, <1>2, <2>1 DEF StandsAt
  <2> HIDE DEF buf
  <2>3. r = [q EXCEPT !.err = "TOK_ERR"] \/ r = [q EXCEPT !.lost = TRUE]
    BY <1>6, <2>1, <2>2, NoMember
  <2>. QED
    BY <1>3, <1>4, <1>5, <2>3, Zenon
<1>8. CASE n # 0
  <2> DEFINE i == j + 1
             d == at[j]
             m == ms[i]
             e == d + 5 + Size(m)
  <2>1. i \in 1..n /\ i - 1 = j /\ m \in Member /\ Carries(m)
    BY <1>1, <1>8
  <2>2. /\ d \in Nat /\ at[i] = e /\ MemberAt(buf, d, m)
        /\ i < n \/ by = "frame" =>
             /\ e <= Len(buf)
             /\ buf[e] = IF i < n THEN Comma ELSE ObjectEnd
        /\ ~(i < n) /\ by # "frame" => e = Len(buf) + 1
    BY <1>2, <2>1 DEF Laid
  <2>3. StandsAt(q, buf, d)
    BY <1>1, <1>2 DEF StandsAt
  <2>6. Len(q.jData) \in Nat /\ Len(q.jData) < MAXTOKENS
    BY <1>1, <1>8, TokenLayout
  <2>7. Spill(q, m.value) = 0
    <3>1. Width(m.value) \in 1..(MAXTOKENBYTES - 1)
      BY <2>1 DEF Carries
    <3> HIDE DEF m
    <3>. QED
      BY <1>1, <2>6, <3>1, TokenRoom
  <2>4. CASE i < n \/ by = "frame"
    <3>1. \/ r = [q EXCEPT !.err = "TOK_ERR"]
          \/ \E type \in DataType : r = Parsed(q, TokenOf(m, type), m.value, e)
      <4>1. e <= Len(buf) /\ buf[e] \in {Comma, ObjectEnd}
        BY <2>2, <2>4
      <4> HIDE DEF buf, m, d
      <4>. QED
        BY <1>1, <1>6, <2>1, <2>2, <2>3, <2>6, <4>1, MemberParsed
    <3>2. ASSUME NEW type \in DataType, r = Parsed(q, TokenOf(m, type), m.value, e)
          PROVE  Standing(r, ms, by)
      <4> DEFINE token == TokenOf(m, type)
      <4>1. token \in TokensOf(ms)
        BY <2>1 DEF TokensOf
      <4> HIDE DEF token, m, d, e
      <4>2. /\ DOMAIN r = DOMAIN Unparsed /\ r.rootType = q.rootType /\ r.lost = q.lost
            /\ r.spill = Spill(q, m.value) /\ r.jData = Append(q.jData, token) /\ r.buffer = q.buffer /\ r.currP = e
            /\ r.parserStatus = IF buf[e] = ObjectEnd THEN "JSON_END" ELSE q.parserStatus
        BY <1>1, <3>2 DEF Unparsed, Parsed, token
      <4> HIDE DEF r, i
      <4>3. /\ r.jData \in Seq(TokensOf(ms)) /\ Len(r.jData) = j + 1 /\ r.jData[j + 1] = token
            /\ \A k \in 1..j : r.jData[k] = q.jData[k]
        BY <1>1, <4>1, <4>2, AppendProperties
      <4>4. Len(r.jData) = i
        BY <4>3 DEF i
      <4>5. ASSUME NEW k \in 1..i
            PROVE  \E ty \in DataType : r.jData[k] = TokenOf(ms[k], ty)
        <5>1. CASE k = i
          BY <4>3, <5>1 DEF token, m, i
        <5>2. CASE k # i
          <6>1. k \in 1..j
            BY <1>1, <5>2 DEF i
          <6>. QED
            BY <1>1, <4>3, <6>1
        <5>. QED
          BY <5>1, <5>2
      <4>6. IF r.parserStatus = "JSON_END"
              THEN by = "frame" /\ i = n /\ n > 0
              ELSE i < n \/ n = 0
        <5>1. CASE i < n
          <6>1. buf[e] = Comma /\ Comma # ObjectEnd
            BY <2>2, <5>1, Pieces
          <6>. QED
            BY <4>2, <5>1, <6>1
        <5>2. CASE ~(i < n)
          <6>1. i = n /\ n > 0 /\ by = "frame"
            BY <2>1, <2>4, <5>2
          <6>2. buf[e] = ObjectEnd
            BY <2>2, <5>2, <6>1
          <6>. QED
            BY <4>2, <6>1, <6>2
        <5>. QED
          BY <5>1, <5>2
      <4>7. \E a : Laid(r.buffer, a, ms, by) /\ r.currP = a[Len(r.jData)]
        BY <1>2, <2>2, <4>2, <4>4
      <4>. QED
        BY <1>1, <2>1, <2>7, <4>2, <4>3, <4>4, <4>5, <4>6, <4>7 DEF Standing
    <3>. QED
      BY <1>3, <1>4, <3>1, <3>2, Zenon
  <2>5. CASE ~(i < n \/ by = "frame")
    <3>1. Size(m) \in Nat
      BY <2>1, SizeNat
    <3>2. d + 4 + Size(m) = Len(buf)
      <4>1. d + 5 + Size(m) = Len(buf) + 1 /\ Len(buf) \in Nat
        BY <1>6, <2>2, <2>5 DEF Text
      <4> HIDE DEF d, m, buf
      <4>. QED
        BY <2>2, <3>1, <4>1
    <3> HIDE DEF buf, m, d
    <3>3. r = [q EXCEPT !.err = "TOK_ERR"] \/ r = [q EXCEPT !.lost = TRUE]
      BY <1>6, <2>1, <2>2, <2>3, <3>2, MemberCut
    <3>. QED
      BY <1>3, <1>4, <1>5, <3>3, Zenon
  <2>. QED
    BY <2>4, <2>5
<1>. QED
  BY <1>7, <1>8
-------------------------------------------------------------------------------
(* Looking for a token. *)

LEMMA ValueInIs ==
  ASSUME NEW ms \in Seq(Member), NEW key, NEW f \in 1..Len(ms), ms[f].key = key,
         \A i \in 1..Len(ms) : i < f => ms[i].key # key
  PROVE  ValueIn(ms, key) = ms[f].value
<1> DEFINE same == {i \in DOMAIN ms : ms[i].key = key}
<1>1. DOMAIN ms = 1..Len(ms) /\ Len(ms) \in Nat
  OBVIOUS
<1>2. same \in SUBSET Nat /\ f \in same
  BY <1>1
<1>3. \A i \in same : f <= i
  BY <1>1
<1>4. Min(same) = f /\ same # {}
  <2> HIDE DEF same
  <2>. QED  BY <1>2, <1>3, MinIs
<1>. QED
  BY <1>4, Zenon DEF ValueIn

LEMMA FoundIs ==
  ASSUME NEW ms \in Seq(Member), NEW by, NEW q, Standing(q, ms, by),
         q.parserStatus = "JSON_END", NEW key, NEW f,
         f = SearchToken(q, Quoted(<<key>>)), f # 0
  PROVE  f \in 1..Len(ms) /\ q.jData[f].jsonValue = ValueIn(ms, key)
         /\ ValueIn(ms, key) = ms[f].value /\ ms[f].key = key
<1> DEFINE tokens == q.jData
           want == Quoted(<<key>>)
           same == {i \in DOMAIN q.jData : q.jData[i].hashValue = Hash(want)}
<1>1. /\ tokens \in Seq(TokensOf(ms)) /\ Len(tokens) = Len(ms) /\ Len(ms) \in Nat
      /\ \A i \in 1..Len(tokens) : \E type \in DataType : tokens[i] = TokenOf(ms[i], type)
  BY DEF Standing
<1>2. DOMAIN tokens = 1..Len(ms)
  BY <1>1
<1>3. \A i \in 1..Len(ms) : /\ tokens[i].keyValue = Quoted(<<ms[i].key>>)
                            /\ tokens[i].hashValue = Hash(Quoted(<<ms[i].key>>))
                            /\ tokens[i].jsonValue = ms[i].value
  <2> SUFFICES ASSUME NEW i \in 1..Len(ms)
               PROVE  /\ tokens[i].keyValue = Quoted(<<ms[i].key>>)
                      /\ tokens[i].hashValue = Hash(Quoted(<<ms[i].key>>))
                      /\ tokens[i].jsonValue = ms[i].value
    OBVIOUS
  <2>1. PICK type \in DataType : tokens[i] = TokenOf(ms[i], type)
    BY <1>1
  <2> HIDE DEF tokens
  <2>. QED
    BY <2>1 DEF TokenOf
<1>4. f = Min(same) /\ same # {} /\ tokens[f].keyValue = want
  BY Zenon DEF SearchToken
<1>5. same \in SUBSET Nat /\ \A i \in same : i \in 1..Len(ms)
  BY <1>1, <1>2
<1>6. f \in same /\ \A i \in same : f <= i
  <2> HIDE DEF same, want, tokens
  <2>1. same \in SUBSET Nat /\ same # {}
    BY <1>4, <1>5
  <2>2. Min(same) \in same /\ \A i \in same : Min(same) <= i
    BY Zenon, <2>1, MinFacts
  <2>. QED
    BY Zenon, <1>4, <2>2
<1>8. f \in 1..Len(ms) /\ Quoted(<<ms[f].key>>) = want
  <2>1. f \in 1..Len(ms)
    BY Zenon, <1>5, <1>6
  <2>. QED
    BY Zenon, <1>3, <1>4, <2>1
<1>9. ms[f].key = key
  <2>1. Quoted(<<ms[f].key>>)[2] = Quoted(<<key>>)[2]
    BY <1>8
  <2>. QED
    BY <2>1, QuotedSecond
<1>10. \A i \in 1..Len(ms) : i < f => ms[i].key # key
  <2> SUFFICES ASSUME NEW i \in 1..Len(ms), i < f, ms[i].key = key PROVE FALSE
    OBVIOUS
  <2>1. tokens[i].hashValue = Hash(want)
    BY <1>3
  <2>2. i \in same
    BY <1>2, <2>1
  <2>3. f <= i /\ f \in Nat
    BY <1>6, <1>8, <2>2
  <2>. QED
    BY <2>3
<1>11. ValueIn(ms, key) = ms[f].value
  BY <1>8, <1>9, <1>10, ValueInIs
<1>. QED
  BY <1>3, <1>8, <1>9, <1>11
-------------------------------------------------------------------------------
(* Numbers. *)

\* A definition by recursion over an interval has a value.
LEMMA Recursion ==
  ASSUME NEW X, NEW a \in X, NEW n \in Nat, NEW g \in [1..n -> [X -> X]]
  PROVE  \E f \in [0..n -> X] : f[0] = a /\ \A i \in 1..n : f[i] = g[i][f[i - 1]]
<1> DEFINE G(f, k) == /\ f \in [0..k -> X] /\ f[0] = a
                      /\ \A i \in 1..k : f[i] = g[i][f[i - 1]]
           Bad == {k \in 0..n : ~\E f : G(f, k)}
<1>1. Bad = {}
  <2> SUFFICES ASSUME Bad # {} PROVE FALSE
    OBVIOUS
  <2>0. Bad \in SUBSET Nat
    OBVIOUS
  <2>1. PICK k \in Bad : \A y \in Bad : k <= y
    <3> HIDE DEF Bad
    <3>. QED  BY <2>0, LeastNat
  <2>2. k # 0
    <3>1. G([i \in 0..0 |-> a], 0)
      OBVIOUS
    <3>. QED  BY <3>1
  <2>3. k \in 1..n /\ k - 1 \in 0..n /\ k - 1 \notin Bad
    <3>1. k \in 0..n
      OBVIOUS
    <3>2. k \in 1..n /\ k - 1 \in 0..n /\ ~(k <= k - 1)
      BY <2>2, <3>1
    <3> HIDE DEF Bad
    <3>. QED  BY <2>1, <3>2
  <2>4. PICK f : G(f, k - 1)
    BY <2>3
  <2> DEFINE h == [i \in 0..k |-> IF i = k THEN g[k][f[k - 1]] ELSE f[i]]
  <2>5. f[k - 1] \in X
    BY <2>3, <2>4
  <2>6. h \in [0..k -> X]
    <3>2. g[k][f[k - 1]] \in X
      BY <2>3, <2>5
    <3>3. \A i \in 0..k : i # k => f[i] \in X
      BY <2>3, <2>4
    <3>. QED
      BY <3>2, <3>3
  <2>7. \A i \in 0..(k - 1) : h[i] = f[i]
    BY <2>3
  <2>8. h[k] = g[k][h[k - 1]]
    <3>1. h[k] = g[k][f[k - 1]] /\ h[k - 1] = f[k - 1]
      BY <2>3
    <3> HIDE DEF h
    <3>. QED  BY <3>1
  <2>9. G(h, k)
    <3> HIDE DEF h
    <3>1. h[0] = a
      BY <2>3, <2>4, <2>7
    <3>2. ASSUME NEW i \in 1..k PROVE h[i] = g[i][h[i - 1]]
      <4>1. CASE i = k
        BY <2>8, <4>1
      <4>2. CASE i # k
        <5>1. i \in 1..(k - 1) /\ i \in 0..(k - 1) /\ i - 1 \in 0..(k - 1)
          BY <2>3, <4>2
        <5>. QED
          BY <2>4, <2>7, <5>1
      <4>. QED
        BY <4>1, <4>2
    <3>. QED
      BY <2>6, <3>1, <3>2
  <2>. QED
    BY <2>1, <2>9
<1>. QED
  BY <1>1

Recursive(X, a, n, g) ==
  \E f \in [0..n -> X] : f[0] = a /\ \A i \in 1..n : f[i] = g[i][f[i - 1]]
LEMMA RecursiveHolds ==
  ASSUME NEW X, NEW a \in X, NEW n \in Nat, NEW g \in [1..n -> [X -> X]]
  PROVE  Recursive(X, a, n, g)
BY Recursion DEF Recursive

LEMMA Digits10 ==
  ASSUME NEW c \in Numeral
  PROVE  DigitValue(c) \in -14..9
<1>1. CASE c = Quote
  BY <1>1 DEF DigitValue
<1>2. CASE c # Quote
  <2>1. \E d \in 1..10 : Digit[d] = c
    BY <1>2 DEF Numeral, Range, Digit
  <2>. QED
    BY <1>2, <2>1 DEF DigitValue
<1>. QED
  BY <1>1, <1>2

LEMMA ModStep ==
  ASSUME NEW x \in Int, NEW d \in Int
  PROVE  (10 * (x % 256) + d) % 256 = (10 * x + d) % 256
OBVIOUS

Byte == 0..255

LEMMA DigitsAreInts ==
  ASSUME NEW text \in Text, Range(text) \subseteq Numeral
  PROVE  \A i \in 1..Len(text) : DigitValue(text[i]) \in Int
<1>. SUFFICES ASSUME NEW i \in 1..Len(text)
              PROVE  DigitValue(text[i]) \in Int
  OBVIOUS
<1>1. text[i] \in Numeral
  BY DEF Text, Range
<1>2. DigitValue(text[i]) \in -14..9
  BY <1>1, Digits10
<1>3. \A k \in -14..9 : k \in Int
  OBVIOUS
<1>. QED
  BY Zenon, <1>2, <1>3

\* An opcode is read modulo 256.
LEMMA ConvertIs ==
  ASSUME NEW text \in Text, Range(text) \subseteq Numeral
  PROVE  Convert(text) = Number(text) % 256
<1> DEFINE n == Len(text)
           D == [i \in 1..n |-> DigitValue(text[i])]
           g == [i \in 1..n |-> [x \in Byte |-> (10 * x + D[i]) % 256]]
           h == [i \in 1..n |-> [x \in Int |-> 10 * x + D[i]]]
           dec == CHOOSE f : f = [i \in 0..n |-> IF i = 0 THEN 0
                                   ELSE (10 * f[i - 1] + DigitValue(text[i])) % 256]
           number == CHOOSE f : f = [i \in 0..n |-> IF i = 0 THEN 0
                                   ELSE 10 * f[i - 1] + DigitValue(text[i])]
<1>1. n \in Nat /\ DOMAIN text = 1..n
  BY DEF Text
<1>2. \A i \in 1..n : DigitValue(text[i]) \in Int
  BY DigitsAreInts
<1>3. \A i \in 1..n : D[i] = DigitValue(text[i]) /\ D[i] \in Int
  BY <1>2
<1> HIDE DEF n, D
<1>4. g \in [1..n -> [Byte -> Byte]]
  <2>1. \A x \in Int : x % 256 \in Byte
    BY DEF Byte
  <2>2. \A i \in 1..n, x \in Byte : 10 * x + D[i] \in Int
    BY <1>3 DEF Byte
  <2>. QED
    BY <2>1, <2>2
<1>5. h \in [1..n -> [Int -> Int]]
  BY <1>3
<1>6. \E f : f = [i \in 0..n |-> IF i = 0 THEN 0
                                 ELSE (10 * f[i - 1] + DigitValue(text[i])) % 256]
  <2>1. PICK f \in [0..n -> Byte] : f[0] = 0 /\ \A i \in 1..n : f[i] = g[i][f[i - 1]]
    <3>1. 0 \in Byte
      BY DEF Byte
    <3> HIDE DEF g
    <3>2. Recursive(Byte, 0, n, g)
      BY <1>1, <1>4, <3>1, RecursiveHolds
    <3>. QED
      BY <3>2 DEF Recursive
  <2>2. \A i \in 1..n : f[i - 1] \in Byte
    BY <1>1
  <2>3. \A i \in 1..n : f[i] = (10 * f[i - 1] + DigitValue(text[i])) % 256
    <3>1. \A i \in 1..n, x \in Byte : g[i][x] = (10 * x + D[i]) % 256
      OBVIOUS
    <3> HIDE DEF g
    <3>2. \A i \in 1..n : f[i] = (10 * f[i - 1] + D[i]) % 256
      BY <2>1, <2>2, <3>1
    <3>. QED
      BY <3>2, <1>3
  <2>4. \A i \in 0..n : i # 0 => i \in 1..n
    BY <1>1
  <2>5. f = [i \in 0..n |-> IF i = 0 THEN 0
                           ELSE (10 * f[i - 1] + DigitValue(text[i])) % 256]
    BY <2>1, <2>3, <2>4
  <2>. QED
    BY <2>5, Zenon
<1>7. \E f : f = [i \in 0..n |-> IF i = 0 THEN 0
                                 ELSE 10 * f[i - 1] + DigitValue(text[i])]
  <2>1. PICK f \in [0..n -> Int] : f[0] = 0 /\ \A i \in 1..n : f[i] = h[i][f[i - 1]]
    <3> DEFINE Z == Int
    <3>1. 0 \in Z /\ h \in [1..n -> [Z -> Z]]
      BY <1>5
    <3> HIDE DEF h, Z
    <3>2. Recursive(Z, 0, n, h)
      BY <1>1, <3>1, RecursiveHolds
    <3>. QED
      BY <3>2 DEF Recursive, Z
  <2>2. \A i \in 1..n : f[i - 1] \in Int
    BY <1>1
  <2>3. \A i \in 1..n : f[i] = 10 * f[i - 1] + DigitValue(text[i])
    BY <2>1, <2>2, <1>3
  <2>4. \A i \in 0..n : i # 0 => i \in 1..n
    BY <1>1
  <2>5. f = [i \in 0..n |-> IF i = 0 THEN 0 ELSE 10 * f[i - 1] + DigitValue(text[i])]
    BY <2>1, <2>3, <2>4
  <2>. QED
    BY <2>5, Zenon
<1>8. dec = [i \in 0..n |-> IF i = 0 THEN 0
                            ELSE (10 * dec[i - 1] + DigitValue(text[i])) % 256]
  BY <1>6, Zenon
<1>9. number = [i \in 0..n |-> IF i = 0 THEN 0
                               ELSE 10 * number[i - 1] + DigitValue(text[i])]
  BY <1>7, Zenon
<1>10. Convert(text) = dec[n] /\ Number(text) = number[n]
  BY Zenon DEF Convert, Number, n
<1> HIDE DEF dec, number
<1>11. /\ dec[0] = 0 /\ number[0] = 0
       /\ \A i \in 1..n : /\ dec[i] = (10 * dec[i - 1] + D[i]) % 256
                          /\ number[i] = 10 * number[i - 1] + D[i]
  BY <1>1, <1>3, <1>8, <1>9
<1> DEFINE Bad == {k \in 0..n : ~(number[k] \in Int /\ dec[k] = number[k] % 256)}
<1>12. Bad = {}
  <2> SUFFICES ASSUME Bad # {} PROVE FALSE
    OBVIOUS
  <2>0. Bad \in SUBSET Nat
    OBVIOUS
  <2>1. PICK k \in Bad : \A y \in Bad : k <= y
    <3> HIDE DEF Bad
    <3>. QED  BY <2>0, LeastNat
  <2>2. k # 0
    BY <1>11
  <2>3. k \in 1..n /\ k - 1 \in 0..n /\ ~(k <= k - 1)
    BY <2>2, <1>1
  <2>4. number[k - 1] \in Int /\ dec[k - 1] = number[k - 1] % 256
    BY <2>1, <2>3
  <2>5. /\ number[k] = 10 * number[k - 1] + D[k]
        /\ dec[k] = (10 * (number[k - 1] % 256) + D[k]) % 256
    BY <1>11, <2>3, <2>4
  <2>6. number[k] \in Int /\ dec[k] = number[k] % 256
    BY <1>3, <2>3, <2>4, <2>5, ModStep
  <2>. QED
    BY <2>1, <2>6
<1>. QED
  BY <1>1, <1>10, <1>12
-------------------------------------------------------------------------------
(* Who opens the lock. *)

Authorised(ms) ==
  /\ ValueIn(ms, "sID") \in Devices
  /\ Number(ValueIn(ms, "op")) % 256 = MOB_UNLOCK_REQ
  /\ ValueIn(ms, "type") # <<>>
  /\ ValueIn(ms, "mobNo") = Quoted(<<"8867830282">>)

\* While a frame is read and checked nothing is done; what follows was asked for by a
\* whole frame.
HandlerInv ==
  /\ pc \in {"idle", "noJson", "parse", "check"} => done = {}
  /\ pc \in {"parse", "check"} => /\ cause.members \in Frames
                                  /\ cause.by \in {"frame", "cutFrame"}
                                  /\ Standing(p, cause.members, cause.by)
  /\ pc = "parse" => p.parserStatus # "JSON_END"
  /\ pc = "check" => p.parserStatus = "JSON_END"
  /\ pc \in {"keys", "open"} => cause.by = "frame" /\ Authorised(cause.members)
  /\ OpensOnlyForKnown

LEMMA FrameMembers ==
  ASSUME NEW ms \in Frames
  PROVE  ms \in Seq(Member) /\ Len(ms) <= MAXTOKENS /\ \A i \in 1..Len(ms) : Carries(ms[i])
<1>1. ms \in Seq(Member)
  BY HandlerAssumption
<1>. QED
  BY <1>1, FramesAssumption

LEMMA HandlerInit == Init => HandlerInv
BY DEF Init, HandlerInv, OpensOnlyForKnown

LEMMA ReceiveStep == HandlerInv /\ Receive => HandlerInv'
<1> SUFFICES ASSUME HandlerInv, Receive PROVE HandlerInv'
  OBVIOUS
<1>1. PICK ms \in Frames, by \in {"frame", "cutFrame"} :
        LET text == FrameText(ms)
        IN  /\ cause' = [by |-> by, members |-> ms]
            /\ p' = StructInit(IF by = "frame" THEN text ELSE SubSeq(text, 1, Len(text) - 1))
  BY DEF Receive
<1> DEFINE text == FrameText(ms)
           cut == SubSeq(text, 1, Len(text) - 1)
<1>2. ms \in Seq(Member)
  BY FrameMembers
<1>3. PICK at : Layout(text, at, ms)
  BY <1>2, FrameLayout
<1> HIDE DEF text
<1>4. Laid(text, at, ms, "frame") /\ Laid(cut, at, ms, "cutFrame")
  BY <1>2, <1>3, FrameLaid
<1> HIDE DEF cut
<1>5. Standing(p', ms, by) /\ p'.parserStatus # "JSON_END"
  <2>1. CASE by = "frame"
    <3>1. p' = StructInit(text)
      BY <1>1, <2>1 DEF text
    <3>. QED
      BY <1>2, <1>4, <2>1, <3>1, FrameBegun
  <2>2. CASE by = "cutFrame"
    <3>1. p' = StructInit(cut)
      BY <1>1, <2>2 DEF text, cut
    <3>. QED
      BY <1>2, <1>4, <2>2, <3>1, FrameBegun
  <2>. QED
    BY <2>1, <2>2
<1>6. pc = "idle" /\ pc' = "parse" /\ done' = done
  BY DEF Receive
<1>7. cause'.members = ms /\ cause'.by = by
  BY <1>1
<1>. QED
  BY <1>5, <1>6, <1>7 DEF HandlerInv, OpensOnlyForKnown

LEMMA ParseStep == HandlerInv /\ Parse => HandlerInv'
<1> SUFFICES ASSUME HandlerInv, Parse PROVE HandlerInv'
  OBVIOUS
<1> DEFINE ms == cause.members
           by == cause.by
<1>1. /\ done = {} /\ ms \in Frames /\ by \in {"frame", "cutFrame"}
      /\ Standing(p, ms, by) /\ p.parserStatus # "JSON_END"
  BY DEF HandlerInv, Parse
<1>2. ms \in Seq(Member) /\ Len(ms) <= MAXTOKENS /\ \A i \in 1..Len(ms) : Carries(ms[i])
  BY <1>1, FrameMembers
<1> HIDE DEF ms, by
<1>3. (p'.lost /\ p'.parserStatus # "JSON_END") \/ Standing(p', ms, by)
  BY <1>1, <1>2, FrameFurther DEF Parse
<1>4. /\ cause' = cause /\ done' = done
      /\ pc' = CASE p'.lost                        -> "lost"
                 [] p'.parserStatus = "JSON_END"  -> "check"
                 [] OTHER                         -> "parse"
  BY DEF Parse
<1>5. CASE Standing(p', ms, by)
  <2>1. ~p'.lost
    BY <1>5 DEF Standing
  <2>. QED
    BY <1>1, <1>4, <1>5, <2>1 DEF HandlerInv, OpensOnlyForKnown, ms, by
<1>6. CASE p'.lost /\ p'.parserStatus # "JSON_END"
  <2>1. pc' = "lost"
    BY <1>4, <1>6
  <2>. QED
    BY <1>1, <1>4, <2>1 DEF HandlerInv, OpensOnlyForKnown
<1>. QED
  BY <1>3, <1>5, <1>6

Names == {"sID", "op", "type", "mobNo"}

\* A token that is found is the first member of that name.
LEMMA HandlerFound ==
  ASSUME HandlerInv, pc = "check", NEW key \in Names, Found(key) # 0
  PROVE  /\ p.jData[Found(key)].jsonValue = ValueIn(cause.members, key)
         /\ \E member \in Member : /\ Carries(member) /\ member.key = key
                                   /\ ValueIn(cause.members, key) = member.value
<1> DEFINE ms == cause.members
           f == Found(key)
<1>1. ms \in Frames /\ Standing(p, ms, cause.by) /\ p.parserStatus = "JSON_END"
  BY DEF HandlerInv
<1>2. ms \in Seq(Member) /\ \A i \in 1..Len(ms) : Carries(ms[i])
  BY <1>1, FrameMembers
<1>3. f = SearchToken(p, Quoted(<<key>>)) /\ f # 0
  BY DEF Found
<1> HIDE DEF ms, f
<1>4. f \in 1..Len(ms) /\ p.jData[f].jsonValue = ValueIn(ms, key)
      /\ ValueIn(ms, key) = ms[f].value /\ ms[f].key = key
  BY <1>1, <1>2, <1>3, FoundIs
<1>5. ms[f] \in Member /\ Carries(ms[f])
  BY <1>2, <1>4
<1>. QED
  BY <1>4, <1>5 DEF ms, f

LEMMA CheckedIsAuthorised ==
  ASSUME HandlerInv, Checked, Opcode = MOB_UNLOCK_REQ, MobileKnown
  PROVE  cause.by = "frame" /\ Authorised(cause.members)
<1>1. /\ pc = "check" /\ Found("op") # 0 /\ Found("type") # 0 /\ KnownDevice
  BY DEF Checked
<1>2. MOB_UNLOCK_REQ # MOB_CONNECT_REQ
  BY DEF MOB_UNLOCK_REQ, MOB_CONNECT_REQ
<1>3. Has("sID", Devices)
  BY <1>1, <1>2 DEF KnownDevice
<1>9. "sID" \in Names /\ "op" \in Names /\ "type" \in Names /\ "mobNo" \in Names
  BY DEF Names
<1>10. \A key \in Names : Found(key) # 0 =>
         /\ p.jData[Found(key)].jsonValue = ValueIn(cause.members, key)
         /\ \E member \in Member : /\ Carries(member) /\ member.key = key
                                   /\ ValueIn(cause.members, key) = member.value
  BY <1>1, HandlerFound
<1>4. ValueIn(cause.members, "sID") \in Devices
  BY <1>3, <1>9, <1>10 DEF Has
<1>5. ValueIn(cause.members, "mobNo") = Quoted(<<"8867830282">>)
  BY <1>9, <1>10 DEF MobileKnown, Has
<1>6. ValueIn(cause.members, "type") # <<>>
  <2>1. \A member \in Member : Carries(member) => member.value # <<>>
    BY DEF Carries
  <2>. QED
    BY <1>1, <1>9, <1>10, <2>1
<1>7. Number(ValueIn(cause.members, "op")) % 256 = MOB_UNLOCK_REQ
  <2> DEFINE text == ValueIn(cause.members, "op")
  <2>1. p.jData[Found("op")].jsonValue = text
    BY <1>1, <1>9, <1>10
  <2>2. PICK member \in Member : Carries(member) /\ member.key = "op" /\ text = member.value
    BY <1>1, <1>9, <1>10
  <2>3. text \in Text /\ Range(text) \subseteq Numeral
    BY <2>2, SizeNat DEF Carries
  <2>4. Convert(text) = MOB_UNLOCK_REQ
    BY <2>1 DEF Opcode
  <2> HIDE DEF text
  <2>5. Number(text) % 256 = MOB_UNLOCK_REQ
    BY <2>3, <2>4, ConvertIs
  <2>. QED
    BY <2>5 DEF text
<1>8. cause.by = "frame"
  BY <1>1 DEF HandlerInv, Standing
<1>. QED
  BY <1>4, <1>5, <1>6, <1>7, <1>8 DEF Authorised

LEMMA AskServerStep == HandlerInv /\ AskServer => HandlerInv'
<1> SUFFICES ASSUME HandlerInv, AskServer PROVE HandlerInv'
  OBVIOUS
<1>1. /\ pc' = "keys" /\ cause' = cause /\ done' = done /\ done = {}
      /\ Checked /\ Opcode = MOB_UNLOCK_REQ /\ MobileKnown
  BY DEF AskServer, HandlerInv, Checked
<1>2. cause.by = "frame" /\ Authorised(cause.members)
  BY <1>1, CheckedIsAuthorised
<1>. QED
  BY <1>1, <1>2 DEF HandlerInv, OpensOnlyForKnown

\* The opening itself: the frame was checked before.
LEMMA OpenStep == HandlerInv /\ (ReadKeys \/ OpenLock) => HandlerInv'
<1> SUFFICES ASSUME HandlerInv, ReadKeys \/ OpenLock PROVE HandlerInv'
  OBVIOUS
<1>1. cause' = cause /\ pc' \in {"open", "answered"} /\ pc \in {"keys", "open"}
  BY DEF ReadKeys, OpenLock, Answer
<1>2. cause.by = "frame" /\ Authorised(cause.members)
  BY <1>1 DEF HandlerInv
<1>. QED
  BY <1>1, <1>2, Zenon DEF HandlerInv, OpensOnlyForKnown, Authorised

\* Every other answer leaves the lock closed.
LEMMA AnswerStep ==
  ASSUME pc' \in {"answered", "noJson", "lost"}, done' \subseteq {"locked"},
         pc' = "answered" \/ done' = {}
  PROVE  HandlerInv'
<1>1. done' \cap {"opened", "newKey"} = {}
  OBVIOUS
<1>. QED
  BY <1>1 DEF HandlerInv, OpensOnlyForKnown

LEMMA HandlerStep == HandlerInv /\ [Next]_vars => HandlerInv'
<1> SUFFICES ASSUME HandlerInv, [Next]_vars PROVE HandlerInv'
  OBVIOUS
<1>1. CASE Receive
  BY <1>1, ReceiveStep
<1>2. CASE ReceiveText
  BY <1>2, AnswerStep DEF ReceiveText, HandlerInv
<1>3. CASE Parse
  BY <1>3, ParseStep
<1>4. CASE AskServer
  BY <1>4, AskServerStep
<1>5. CASE ReadKeys \/ OpenLock
  BY <1>5, OpenStep
<1>6. CASE NoJson \/ NoOpcode \/ BadDevice \/ NoType \/ BadOpcode \/ Connect
           \/ UnlockRefused \/ LockRefused
  <2>1. pc \in {"noJson", "check"} /\ pc' = "answered" /\ done' = done
    BY <1>6 DEF NoJson, NoOpcode, BadDevice, NoType, BadOpcode, Connect, UnlockRefused,
         LockRefused, MobileRefused, Refuse, Answer, Checked
  <2>. QED
    BY <2>1, AnswerStep DEF HandlerInv
<1>7. CASE LockDevice
  <2>1. pc = "check" /\ pc' = "answered" /\ (done' = done \/ done' = done \cup {"locked"})
    BY <1>7 DEF LockDevice, Refuse, Answer, Checked
  <2>. QED
    BY <2>1, AnswerStep DEF HandlerInv
<1>8. CASE SendAnswer
  BY <1>8 DEF SendAnswer, HandlerInv, OpensOnlyForKnown
<1>9. CASE LongPress \/ Report
  <2>1. pc' = "answered" /\ done' \subseteq {"locked"}
    BY <1>9 DEF LongPress, Report, Press
  <2>. QED
    BY <2>1, AnswerStep
<1>10. CASE UnlockPress
  <2>1. pc' = "answered" /\ cause'.by = "UNLOCK_PRESS"
    BY <1>10 DEF UnlockPress, Press
  <2>. QED
    BY <2>1 DEF HandlerInv, OpensOnlyForKnown
<1>11. CASE UNCHANGED vars
  BY <1>11, Zenon DEF vars, HandlerInv, OpensOnlyForKnown
<1>. QED
  BY <1>1, <1>2, <1>3, <1>4, <1>5, <1>6, <1>7, <1>8, <1>9, <1>10, <1>11 DEF Next, Handler

\* The lock opens, and its key is replaced, only for the button or for a whole frame of a
\* known device and phone, however often a name is in the frame and whatever the texts
\* of its other members: the tokens the handler checks are the members of the frame.  The
\* frames are those that fit the parser: at most as many members as it has tokens, with
\* names and values that leave room for a NUL in their arrays (FramesAssumption).
THEOREM HandlerOpensOnlyForKnown == Spec => []OpensOnlyForKnown
<1>1. Init => HandlerInv
  BY HandlerInit
<1>2. HandlerInv /\ [Next]_vars => HandlerInv'
  BY HandlerStep
<1>3. HandlerInv => OpensOnlyForKnown
  BY DEF HandlerInv
<1>. QED
  BY <1>1, <1>2, <1>3, PTL DEF Spec
-------------------------------------------------------------------------------
(* The width of a text. *)

\* What holds of zero, and of each number when it holds of the one before.
LEMMA Upwards ==
  ASSUME NEW n \in Nat, NEW P, 0 \in P, \A k \in 1..n : k - 1 \in P => k \in P
  PROVE  0..n \subseteq P
<1> DEFINE Bad == {k \in 0..n : k \notin P}
<1>1. Bad \in SUBSET Nat
  OBVIOUS
<1>2. ASSUME Bad # {} PROVE FALSE
  <2>1. PICK k \in Bad : \A y \in Bad : k <= y
    <3> HIDE DEF Bad
    <3>. QED  BY <1>1, <1>2, LeastNat
  <2>2. k \in 1..n /\ k - 1 \in 0..n /\ ~(k <= k - 1)
    OBVIOUS
  <2>3. k - 1 \in P
    BY <2>1, <2>2
  <2>. QED
    BY <2>2, <2>3
<1>. QED
  BY <1>2

\* The length of a piece, an operator of its own for the provers
Chars(piece) == Len(piece)
Measured(s) == s \in Text /\ \A i \in 1..Len(s) : Chars(s[i]) \in Nat

LEMMA WidthOf ==
  ASSUME NEW s, Measured(s)
  PROVE  \E f \in [0..Len(s) -> Nat] :
           /\ f[0] = 0 /\ Width(s) = f[Len(s)]
           /\ \A i \in 1..Len(s) : f[i] = f[i - 1] + Chars(s[i])
<1> DEFINE n == Len(s)
           width == CHOOSE f : f = [i \in 0..n |-> IF i = 0 THEN 0 ELSE f[i - 1] + Len(s[i])]
           g == [i \in 1..n |-> [x \in Nat |-> x + Chars(s[i])]]
<1>1. n \in Nat /\ \A i \in 1..n : Chars(s[i]) \in Nat
  BY DEF Measured, Text
<1>2. g \in [1..n -> [Nat -> Nat]]
  <2> HIDE DEF n
  <2>. QED  BY <1>1
<1>3. Width(s) = width[n]
  BY Zenon DEF Width
<1> HIDE DEF n
<1>4. \E f \in [0..n -> Nat] : f[0] = 0 /\ \A i \in 1..n : f[i] = f[i - 1] + Chars(s[i])
  <2> DEFINE Z == Nat
  <2>1. n \in Nat /\ 0 \in Z /\ g \in [1..n -> [Z -> Z]]
    BY <1>1, <1>2
  <2> HIDE DEF g, Z
  <2>2. Recursive(Z, 0, n, g)
    BY <2>1, RecursiveHolds
  <2>3. PICK f \in [0..n -> Z] : f[0] = 0 /\ \A i \in 1..n : f[i] = g[i][f[i - 1]]
    BY <2>2 DEF Recursive
  <2> USE DEF g, Z
  <2>4. \A i \in 1..n : f[i - 1] \in Nat
    BY <1>1
  <2>. QED
    BY <2>3, <2>4
<1>5. PICK f \in [0..n -> Nat] : f[0] = 0 /\ \A i \in 1..n : f[i] = f[i - 1] + Chars(s[i])
  BY <1>4
<1>6. f = [i \in 0..n |-> IF i = 0 THEN 0 ELSE f[i - 1] + Chars(s[i])]
  <2>1. \A i \in 0..n : i # 0 => i \in 1..n
    BY <1>1
  <2>. QED
    BY <1>5, <2>1
<1>7. width = [i \in 0..n |-> IF i = 0 THEN 0 ELSE width[i - 1] + Len(s[i])]
  BY <1>6, Zenon DEF Chars
<1> HIDE DEF width
<1>8. width = [i \in 0..n |-> IF i = 0 THEN 0 ELSE width[i - 1] + Chars(s[i])]
  BY <1>7, Zenon DEF Chars
<1>9. width[0] = 0 /\ \A i \in 1..n : width[i] = width[i - 1] + Chars(s[i])
  BY <1>1, <1>8
<1> DEFINE P == {i \in 0..n : width[i] \in Nat}
<1>10. 0..n \subseteq P
  <2>1. 0 \in P /\ \A k \in 1..n : k - 1 \in P => k \in P
    BY <1>1, <1>9
  <2> HIDE DEF P
  <2>. QED
    BY <1>1, <2>1, Upwards
<1>11. width \in [0..n -> Nat]
  BY <1>8, <1>10
<1>. QED
  BY <1>3, <1>9, <1>11 DEF n

LEMMA WidthAppend ==
  ASSUME NEW s, Measured(s), NEW piece \in STRING, Chars(piece) \in Nat
  PROVE  /\ Measured(Append(s, piece)) /\ Width(s) \in Nat
         /\ Width(Append(s, piece)) = Width(s) + Chars(piece)
<1> DEFINE n == Len(s)
           u == Append(s, piece)
<1>1. /\ n \in Nat /\ s \in Text /\ u \in Text /\ Len(u) = n + 1 /\ u[n + 1] = piece
      /\ \A i \in 1..n : u[i] = s[i]
  <2>1. s \in Text
    BY DEF Measured
  <2> DEFINE v == s \o <<piece>>
  <2>2. /\ v \in Text /\ Len(s) \in Nat /\ Len(v) = Len(s) + 1
        /\ \A k \in 1..Len(s) : v[k] = s[k]
        /\ v[Len(s) + 1] = piece /\ v = Append(s, piece)
    BY <2>1, CatPiece
  <2> HIDE DEF v
  <2>. QED
    BY <2>1, <2>2, Zenon
<1> HIDE DEF n, u
<1>2. Measured(u)
  <2>1. \A i \in 1..(n + 1) : i = n + 1 \/ i \in 1..n
    BY <1>1
  <2>. QED
    BY <1>1, <2>1 DEF Measured, n
<1>3. PICK f \in [0..n -> Nat] : /\ f[0] = 0 /\ Width(s) = f[n]
                                 /\ \A i \in 1..n : f[i] = f[i - 1] + Chars(s[i])
  BY WidthOf DEF n
<1>4. PICK h \in [0..(n + 1) -> Nat] :
        /\ h[0] = 0 /\ Width(u) = h[n + 1]
        /\ \A i \in 1..(n + 1) : h[i] = h[i - 1] + Chars(u[i])
  <2>1. \E h \in [0..Len(u) -> Nat] :
          /\ h[0] = 0 /\ Width(u) = h[Len(u)]
          /\ \A i \in 1..Len(u) : h[i] = h[i - 1] + Chars(u[i])
    BY <1>2, WidthOf, Zenon
  <2>2. Len(u) = n + 1
    BY <1>1
  <2>. QED
    BY <2>1, <2>2, Zenon
<1> DEFINE P == {i \in 0..n : h[i] = f[i]}
<1>5. 0..n \subseteq P
  <2>1. 0 \in P
    BY <1>1, <1>3, <1>4
  <2>2. ASSUME NEW k \in 1..n, k - 1 \in P PROVE k \in P
    <3>1. k \in 1..(n + 1) /\ h[k - 1] = f[k - 1] /\ k \in 0..n
      BY <1>1, <2>2
    <3>2. h[k] = h[k - 1] + Chars(u[k]) /\ f[k] = f[k - 1] + Chars(s[k])
      BY <1>3, <1>4, <3>1
    <3>. QED
      BY <1>1, <3>1, <3>2
  <2> HIDE DEF P
  <2>. QED
    BY <1>1, <2>1, <2>2, Upwards
<1>6. Width(s) \in Nat /\ h[n] = f[n]
  BY <1>1, <1>3, <1>5
<1>7. h[n + 1] = h[n] + Chars(u[n + 1])
  <2>1. n + 1 \in 1..(n + 1) /\ (n + 1) - 1 = n
    BY <1>1
  <2>. QED
    BY <1>4, <2>1
<1>. QED
  BY <1>1, <1>2, <1>3, <1>4, <1>6, <1>7 DEF u
-------------------------------------------------------------------------------
(* The writer keeps its types and stays in its buffer, and what it puts without an error *)
(* is in its buffer as a whole. *)

Good(w) == /\ w \in Control /\ Measured(w.buffer)
           /\ w.bufp = Width(w.buffer) /\ w.bufp <= w.buflen
           /\ Len(w.nodeStack) \in Nat \ {0} /\ w.tempbuf \in Seq(Words)
Kept(w, v) == /\ v.buflen = w.buflen /\ v.callNo = w.callNo /\ v.tempbuf = w.tempbuf
              /\ v.nodeStack = w.nodeStack /\ v.isPretty = w.isPretty
Added(w, v, s) == v.error = "OK" => w.error = "OK" /\ v.buffer = w.buffer \o s

LEMMA PutOne ==
  ASSUME NEW w, Good(w), NEW piece \in STRING, NEW n \in Nat, Chars(piece) = n,
         w.bufp + n <= w.buflen, NEW e \in Error,
         NEW v, v = [w EXCEPT !.buffer = Append(w.buffer, piece), !.bufp = w.bufp + n,
                              !.error = e]
  PROVE  Good(v) /\ Kept(w, v)
<1> DEFINE b == Append(w.buffer, piece)
<1>1. w \in Control /\ Measured(w.buffer) /\ w.bufp = Width(w.buffer) /\ w.buflen \in Nat
  BY DEF Good, Control
<1>2. Measured(b) /\ w.bufp \in Nat /\ Width(b) = w.bufp + n
  BY <1>1, WidthAppend
<1> HIDE DEF b
<1>3. v = [w EXCEPT !.buffer = b, !.bufp = w.bufp + n, !.error = e]
  BY DEF b
<1>4. b \in Text /\ w.bufp + n \in Nat
  BY <1>2 DEF Measured
<1>5. /\ v \in Control /\ v.buffer = b /\ v.bufp = w.bufp + n /\ v.buflen = w.buflen
      /\ v.callNo = w.callNo /\ v.tempbuf = w.tempbuf /\ v.nodeStack = w.nodeStack
      /\ v.isPretty = w.isPretty
  BY <1>1, <1>3, <1>4 DEF Control
<1>. QED
  BY <1>2, <1>5 DEF Good, Kept

LEMMA PutIs ==
  ASSUME NEW w, Good(w), NEW piece, IsString(piece)
  PROVE  /\ Good(Put(w, piece)) /\ Kept(w, Put(w, piece))
         /\ Put(w, piece).error \in {w.error, "BUF_FULL"}
         /\ Added(w, Put(w, piece), <<piece>>)
<1> DEFINE room == w.buflen - w.bufp
           v == Put(w, piece)
<1>1. w \in Control /\ w.error \in Error /\ w.buffer \in Text /\ w.bufp \in Nat
      /\ w.buflen \in Nat /\ w.bufp <= w.buflen
  BY DEF Good, Control
<1>2. piece \in STRING /\ Chars(piece) \in Nat
  BY Zenon DEF IsString, Chars
<1>3. room \in Nat
  BY <1>1
<1>4. v = IF Chars(piece) <= room
            THEN [w EXCEPT !.buffer = Append(@, piece), !.bufp = @ + Chars(piece)]
            ELSE [w EXCEPT !.buffer = IF room = 0 THEN @
                                      ELSE Append(@, SubSeq(piece, 1, room)),
                           !.bufp = w.buflen, !.error = "BUF_FULL"]
  BY Zenon DEF Put, Chars
<1>5. "BUF_FULL" \in Error /\ "BUF_FULL" # "OK"
  BY DEF Error
<1> HIDE DEF v
<1>6. CASE Chars(piece) <= room
  <2>1. v = [w EXCEPT !.buffer = Append(@, piece), !.bufp = @ + Chars(piece)]
    BY <1>4, <1>6
  <2>2. v = [w EXCEPT !.buffer = Append(w.buffer, piece), !.bufp = w.bufp + Chars(piece),
                      !.error = w.error]
    BY <2>1, <1>1 DEF Control
  <2>3. w.bufp + Chars(piece) <= w.buflen
    BY <1>1, <1>2, <1>6
  <2>4. Good(v) /\ Kept(w, v)
    BY <1>1, <1>2, <2>2, <2>3, PutOne
  <2>5. v.error = w.error /\ v.buffer = Append(w.buffer, piece)
    BY <2>1, <1>1 DEF Control
  <2>6. Append(w.buffer, piece) = w.buffer \o <<piece>>
    BY <1>1, <1>2, CatPiece
  <2>. QED
    BY <2>4, <2>5, <2>6 DEF Added, v
<1>7. CASE ~(Chars(piece) <= room) /\ room = 0
  <2>1. v = [w EXCEPT !.buffer = @, !.bufp = w.buflen, !.error = "BUF_FULL"]
    BY <1>4, <1>7
  <2>2. w.bufp = w.buflen
    BY <1>1, <1>7
  <2>3. v \in Control /\ v.error = "BUF_FULL" /\ Kept(w, v) /\ v.buffer = w.buffer
        /\ v.bufp = w.bufp
    BY <2>1, <2>2, <1>1, <1>5 DEF Control, Kept
  <2>4. Good(v)
    BY <2>3 DEF Good, Kept
  <2>. QED
    BY <2>3, <2>4, <1>5 DEF Added, v
<1>8. CASE ~(Chars(piece) <= room) /\ room # 0
  <2> DEFINE part == SubSeq(piece, 1, room)
  <2>1. v = [w EXCEPT !.buffer = Append(@, part), !.bufp = w.buflen, !.error = "BUF_FULL"]
    BY <1>4, <1>8
  <2>2. part \in STRING /\ Chars(part) = room
    <3>1. room \in 1..Chars(piece)
      BY <1>2, <1>3, <1>8
    <3>2. \A k \in 1..Chars(piece) : SubSeq(piece, 1, k) \in STRING
                                     /\ Chars(SubSeq(piece, 1, k)) = k
      BY Zenon DEF IsString, Chars
    <3>. QED
      BY <3>1, <3>2, Zenon
  <2> HIDE DEF part
  <2>3. w.bufp + room = w.buflen
    BY <1>1
  <2>4. v = [w EXCEPT !.buffer = Append(w.buffer, part), !.bufp = w.bufp + room,
                      !.error = "BUF_FULL"]
    BY <2>1, <2>3
  <2>5. Good(v) /\ Kept(w, v)
    <3>1. w.bufp + room <= w.buflen
      BY <2>3, <1>1
    <3> HIDE DEF room
    <3>. QED
      BY <1>3, <1>5, <2>2, <2>4, <3>1, PutOne
  <2>6. v.error = "BUF_FULL"
    BY <2>1, <1>1 DEF Control
  <2>. QED
    BY <2>5, <2>6, <1>5 DEF Added, v
<1>. QED
  BY <1>6, <1>7, <1>8

LEMMA Prefixes ==
  ASSUME NEW s \in Text, NEW b \in Text
  PROVE  /\ b \o SubSeq(s, 1, 0) = b /\ SubSeq(s, 1, Len(s)) = s
         /\ \A k \in 1..Len(s) : /\ SubSeq(s, 1, k - 1) \in Text /\ <<s[k]>> \in Text
                                 /\ (b \o SubSeq(s, 1, k - 1)) \o <<s[k]>> = b \o SubSeq(s, 1, k)
<1> DEFINE T == STRING
<1>1. s \in Seq(T) /\ b \in Seq(T) /\ Len(s) \in Nat
  BY DEF Text
<1> HIDE DEF T
<1>2. SubSeq(s, 1, 0) = <<>> /\ b \o <<>> = b /\ SubSeq(s, 1, Len(s)) = s
  BY <1>1, SubSeqEmpty, ConcatEmptySeq, SubSeqFull
<1>3. ASSUME NEW k \in 1..Len(s)
      PROVE  /\ SubSeq(s, 1, k - 1) \in Seq(T) /\ <<s[k]>> \in Seq(T)
             /\ (b \o SubSeq(s, 1, k - 1)) \o <<s[k]>> = b \o SubSeq(s, 1, k)
  <2>1. 1 \in 1..Len(s) /\ k \in 1..Len(s) /\ k \in Int /\ k - 1 \in Int
        /\ \A i \in 1..(k - 1) : s[i] \in T
    BY <1>1
  <2>2. SubSeq(s, 1, k) = SubSeq(s, 1, k - 1) \o <<s[k]>>
    BY <1>1, <2>1, SubSeqRecursiveSecond
  <2>3. SubSeq(s, 1, k - 1) \in Seq(T)
    BY <1>1, <2>1, SubSeqProperties
  <2>4. s[k] \in T
    BY <1>1
  <2>5. <<s[k]>> \in Seq(T)
    BY <2>4, One
  <2>6. (b \o SubSeq(s, 1, k - 1)) \o <<s[k]>> = b \o (SubSeq(s, 1, k - 1) \o <<s[k]>>)
    <3> DEFINE u == SubSeq(s, 1, k - 1)
               one == <<s[k]>>
    <3>1. b \in Seq(T) /\ u \in Seq(T) /\ one \in Seq(T)
      BY <1>1, <2>3, <2>5
    <3> HIDE DEF u, one
    <3>2. (b \o u) \o one = b \o (u \o one)
      BY <3>1, ConcatAssociative
    <3>. QED
      BY <3>2 DEF u, one
  <2>. QED
    BY <2>2, <2>3, <2>5, <2>6
<1>. QED
  BY <1>2, <1>3, Zenon DEF Text, T

PutAll(w, s, v) == /\ Good(v) /\ Kept(w, v) /\ v.error \in {w.error, "BUF_FULL"}
                   /\ Added(w, v, s)

LEMMA PutMore ==
  ASSUME NEW w, Good(w), NEW s \in Text, NEW v, PutAll(w, s, v), NEW piece, IsString(piece)
  PROVE  PutAll(w, s \o <<piece>>, Put(v, piece))
<1>1. /\ Good(Put(v, piece)) /\ Kept(v, Put(v, piece))
      /\ Put(v, piece).error \in {v.error, "BUF_FULL"}
      /\ Added(v, Put(v, piece), <<piece>>)
  BY PutIs DEF PutAll
<1>2. Kept(w, Put(v, piece)) /\ Put(v, piece).error \in {w.error, "BUF_FULL"}
  BY <1>1 DEF PutAll, Kept
<1>3. ASSUME Put(v, piece).error = "OK"
      PROVE  w.error = "OK" /\ Put(v, piece).buffer = w.buffer \o (s \o <<piece>>)
  <2> DEFINE T == STRING
             one == <<piece>>
  <2>1. /\ v.error = "OK" /\ Put(v, piece).buffer = v.buffer \o one
        /\ w.error = "OK" /\ v.buffer = w.buffer \o s
    BY <1>1, <1>3 DEF Added, PutAll
  <2>2. w.buffer \in Seq(T) /\ s \in Seq(T)
    BY DEF Good, Control, Text
  <2>3. piece \in T
    BY DEF IsString
  <2> HIDE DEF T
  <2>4. one \in Seq(T)
    BY <2>3, One
  <2> HIDE DEF one
  <2>5. (w.buffer \o s) \o one = w.buffer \o (s \o one)
    <3> DEFINE b == w.buffer
    <3>1. b \in Seq(T) /\ s \in Seq(T) /\ one \in Seq(T)
      BY <2>2, <2>4
    <3> HIDE DEF b
    <3>2. (b \o s) \o one = b \o (s \o one)
      BY <3>1, ConcatAssociative
    <3>. QED
      BY <3>2 DEF b
  <2>. QED
    BY <2>1, <2>5 DEF one
<1>. QED
  BY <1>1, <1>2, <1>3 DEF PutAll, Added

LEMMA PutsIs ==
  ASSUME NEW w, Good(w), NEW s, IsText(s)
  PROVE  PutAll(w, s, Puts(w, s))
<1> DEFINE n == Len(s)
           X == {v \in Control : Good(v)}
           g == [i \in 1..n |-> [v \in X |-> Put(v, s[i])]]
           put == CHOOSE f : f = [i \in 0..n |-> IF i = 0 THEN w ELSE Put(f[i - 1], s[i])]
<1>1. /\ n \in Nat /\ s \in Text /\ w \in X
      /\ \A i \in 1..n : IsString(s[i])
  BY DEF IsText, Text, Good
<1>2. Puts(w, s) = put[n]
  BY Zenon DEF Puts
<1> HIDE DEF n
<1>3. \A v \in X, i \in 1..n : Put(v, s[i]) \in X
  BY <1>1, PutIs DEF Good
<1>4. g \in [1..n -> [X -> X]]
  <2> HIDE DEF X
  <2>. QED  BY <1>3
<1> HIDE DEF X
<1>5. \E f : f = [i \in 0..n |-> IF i = 0 THEN w ELSE Put(f[i - 1], s[i])]
  <2>1. PICK f \in [0..n -> X] : f[0] = w /\ \A i \in 1..n : f[i] = g[i][f[i - 1]]
    <3> HIDE DEF g
    <3>1. n \in Nat /\ w \in X
      BY <1>1
    <3>2. Recursive(X, w, n, g)
      BY <3>1, <1>4, RecursiveHolds
    <3>. QED
      BY <3>2 DEF Recursive
  <2>2. \A i \in 1..n : f[i - 1] \in X
    BY <1>1
  <2>3. \A i \in 1..n : f[i] = Put(f[i - 1], s[i])
    BY <2>1, <2>2
  <2>4. \A i \in 0..n : i # 0 => i \in 1..n
    BY <1>1
  <2>5. f = [i \in 0..n |-> IF i = 0 THEN w ELSE Put(f[i - 1], s[i])]
    BY <2>1, <2>3, <2>4
  <2>. QED
    BY <2>5, Zenon
<1>6. put = [i \in 0..n |-> IF i = 0 THEN w ELSE Put(put[i - 1], s[i])]
  BY <1>5, Zenon
<1> HIDE DEF put, g
<1>7. put[0] = w /\ \A i \in 1..n : put[i] = Put(put[i - 1], s[i])
  BY <1>1, <1>6
<1> DEFINE P == {i \in 0..n : PutAll(w, SubSeq(s, 1, i), put[i])}
<1>8. w.buffer \in Text
  BY DEF Good, Control
<1>9. 0 \in P
  <2>1. w.buffer \o SubSeq(s, 1, 0) = w.buffer
    BY <1>1, <1>8, Prefixes
  <2>2. PutAll(w, SubSeq(s, 1, 0), w)
    BY <2>1 DEF PutAll, Kept, Added
  <2>. QED
    BY <1>1, <1>7, <2>2
<1>10. ASSUME NEW k \in 1..n, k - 1 \in P PROVE k \in P
  <2>1. PutAll(w, SubSeq(s, 1, k - 1), put[k - 1]) /\ IsString(s[k]) /\ k \in 0..n
    BY <1>1, <1>10
  <2>2. SubSeq(s, 1, k - 1) \in Text
    BY <1>1, <1>8, Prefixes DEF n
  <2>3. SubSeq(s, 1, k - 1) \o <<s[k]>> = SubSeq(s, 1, k)
    <3>1. 1 \in 1..Len(s) /\ k \in 1..Len(s) /\ k \in 1..Len(s)
      BY <1>1 DEF n
    <3>. QED
      BY <1>1, <3>1, SubSeqRecursiveSecond DEF Text
  <2>4. PutAll(w, SubSeq(s, 1, k - 1) \o <<s[k]>>, Put(put[k - 1], s[k]))
    BY <2>1, <2>2, PutMore
  <2>. QED
    BY <1>7, <2>1, <2>3, <2>4
<1>11. 0..n \subseteq P
  <2> HIDE DEF P
  <2>. QED  BY <1>1, <1>9, <1>10, Upwards
<1>12. n \in P /\ SubSeq(s, 1, n) = s
  <2> HIDE DEF P
  <2>. QED  BY <1>1, <1>8, <1>11, Prefixes DEF n
<1>. QED
  BY <1>2, <1>12
-------------------------------------------------------------------------------
(* What is open behind a text: whether a string is, and the brackets. *)

LEMMA QuotesIs ==
  ASSUME NEW s \in Text
  PROVE  /\ Quotes(s) \in [0..Len(s) -> Nat] /\ Quotes(s)[0] = 0
         /\ \A i \in 1..Len(s) :
              Quotes(s)[i] = Quotes(s)[i - 1] + IF s[i] = Quote THEN 1 ELSE 0
<1> DEFINE n == Len(s)
           Z == Nat
           g == [i \in 1..n |-> [x \in Nat |-> x + IF s[i] = Quote THEN 1 ELSE 0]]
           quotes == CHOOSE f : f = [i \in 0..n |-> IF i = 0 THEN 0
                                  ELSE f[i - 1] + IF s[i] = Quote THEN 1 ELSE 0]
<1>1. n \in Nat
  BY DEF Text
<1>2. Quotes(s) = quotes
  BY Zenon DEF Quotes
<1> HIDE DEF n
<1>3. n \in Nat /\ 0 \in Z /\ g \in [1..n -> [Z -> Z]]
  BY <1>1
<1>4. \E f \in [0..n -> Nat] :
        f = [i \in 0..n |-> IF i = 0 THEN 0 ELSE f[i - 1] + IF s[i] = Quote THEN 1 ELSE 0]
  <2> HIDE DEF g, Z
  <2>1. PICK f \in [0..n -> Z] : f[0] = 0 /\ \A i \in 1..n : f[i] = g[i][f[i - 1]]
    <3>1. Recursive(Z, 0, n, g)
      BY <1>3, RecursiveHolds
    <3>. QED
      BY <3>1 DEF Recursive
  <2> USE DEF Z
  <2>2. \A i \in 1..n : f[i - 1] \in Nat
    BY <1>1, <2>1
  <2>3. \A i \in 1..n : f[i] = f[i - 1] + IF s[i] = Quote THEN 1 ELSE 0
    BY <2>1, <2>2 DEF g
  <2>4. \A i \in 0..n : i # 0 => i \in 1..n
    BY <1>1
  <2>5. f = [i \in 0..n |-> IF i = 0 THEN 0
                            ELSE f[i - 1] + IF s[i] = Quote THEN 1 ELSE 0]
    BY <2>1, <2>3, <2>4
  <2>. QED
    BY <2>1, <2>5
<1>5. quotes = [i \in 0..n |-> IF i = 0 THEN 0
                               ELSE quotes[i - 1] + IF s[i] = Quote THEN 1 ELSE 0]
  BY <1>4, Zenon
<1> HIDE DEF quotes, g
<1>6. quotes[0] = 0 /\ \A i \in 1..n : quotes[i] = quotes[i - 1] + IF s[i] = Quote THEN 1 ELSE 0
  BY <1>1, <1>5
<1> DEFINE P == {i \in 0..n : quotes[i] \in Nat}
<1>7. 0..n \subseteq P
  <2>1. 0 \in P /\ \A k \in 1..n : k - 1 \in P => k \in P
    BY <1>1, <1>6
  <2> HIDE DEF P
  <2>. QED  BY <1>1, <2>1, Upwards
<1>8. quotes \in [0..n -> Nat]
  BY <1>5, <1>7
<1>. QED
  BY <1>2, <1>6, <1>8 DEF n

\* One piece more, inside a string or not
Turned(before, inside, piece) ==
  IF inside THEN before
  ELSE CASE piece \in Openers -> Append(before, piece)
         [] piece \in Closers -> SubSeq(before, 1, Len(before) - 1)
         [] OTHER             -> before

LEMMA TurnedText ==
  ASSUME NEW T, NEW before \in Seq(T), NEW inside \in BOOLEAN, NEW piece \in T
  PROVE  Turned(before, inside, piece) \in Seq(T)
<1>1. Append(before, piece) \in Seq(T)
  OBVIOUS
<1>2. SubSeq(before, 1, Len(before) - 1) \in Seq(T)
  <2>1. Len(before) - 1 \in Int /\ \A i \in 1..(Len(before) - 1) : before[i] \in T
    OBVIOUS
  <2>. QED
    BY <2>1, SubSeqProperties
<1>. QED
  BY <1>1, <1>2, Zenon DEF Turned

LEMMA OpenedIs ==
  ASSUME NEW s \in Text
  PROVE  /\ Opened(s) \in [0..Len(s) -> Text] /\ Opened(s)[0] = <<>>
         /\ \A i \in 1..Len(s) :
              Opened(s)[i] = Turned(Opened(s)[i - 1], Quotes(s)[i] % 2 = 1, s[i])
<1> DEFINE n == Len(s)
           g == [i \in 1..n |-> [x \in Text |-> Turned(x, Quotes(s)[i] % 2 = 1, s[i])]]
           opened == CHOOSE f : f = [i \in 0..n |-> IF i = 0 THEN <<>>
                                  ELSE Turned(f[i - 1], Quotes(s)[i] % 2 = 1, s[i])]
<1>1. n \in Nat /\ \A i \in 1..n : s[i] \in STRING
  BY DEF Text
<1>2. Opened(s) = opened
  BY Zenon DEF Opened, Turned
<1> HIDE DEF n
<1>3. \A i \in 1..n, x \in Text : Turned(x, Quotes(s)[i] % 2 = 1, s[i]) \in Text
  BY <1>1, TurnedText DEF Text
<1>4. <<>> \in Text /\ g \in [1..n -> [Text -> Text]]
  <2>1. <<>> \in Text
    BY DEF Text
  <2>. QED
    BY <1>3, <2>1
<1>5. \E f \in [0..n -> Text] :
        f = [i \in 0..n |-> IF i = 0 THEN <<>>
                            ELSE Turned(f[i - 1], Quotes(s)[i] % 2 = 1, s[i])]
  <2> DEFINE Z == Text
             a == <<>>
  <2>0. n \in Nat /\ a \in Z /\ g \in [1..n -> [Z -> Z]]
    BY <1>1, <1>4
  <2> HIDE DEF g, Z, a
  <2>1. PICK f \in [0..n -> Z] : f[0] = a /\ \A i \in 1..n : f[i] = g[i][f[i - 1]]
    <3>1. n \in Nat
      BY <2>0
    <3>2. a \in Z
      BY <2>0
    <3>3. g \in [1..n -> [Z -> Z]]
      BY <2>0
    <3>4. Recursive(Z, a, n, g)
      BY <3>1, <3>2, <3>3, RecursiveHolds
    <3>. QED
      BY <3>4 DEF Recursive
  <2> USE DEF Z, a
  <2>2. \A i \in 1..n : f[i - 1] \in Text
    BY <1>1, <2>1
  <2>3. \A i \in 1..n : f[i] = Turned(f[i - 1], Quotes(s)[i] % 2 = 1, s[i])
    BY <2>1, <2>2 DEF g
  <2>4. \A i \in 0..n : i # 0 => i \in 1..n
    BY <1>1
  <2>5. f = [i \in 0..n |-> IF i = 0 THEN <<>>
                            ELSE Turned(f[i - 1], Quotes(s)[i] % 2 = 1, s[i])]
    BY <2>1, <2>3, <2>4
  <2>. QED
    BY <2>1, <2>5
<1>6. opened = [i \in 0..n |-> IF i = 0 THEN <<>>
                               ELSE Turned(opened[i - 1], Quotes(s)[i] % 2 = 1, s[i])]
  BY <1>5, Zenon
<1> HIDE DEF opened, g
<1>7. /\ opened[0] = <<>>
      /\ \A i \in 1..n : opened[i] = Turned(opened[i - 1], Quotes(s)[i] % 2 = 1, s[i])
  BY <1>1, <1>6
<1> DEFINE P == {i \in 0..n : opened[i] \in Text}
<1>8. 0..n \subseteq P
  <2>2. 0 \in P
    BY <1>1, <1>4, <1>7
  <2>3. ASSUME NEW k \in 1..n, k - 1 \in P PROVE k \in P
    <3>1. k \in 0..n
      BY <1>1
    <3>2. opened[k - 1] \in Text
      BY <2>3
    <3>3. opened[k] \in Text
      BY Zenon, <1>3, <1>7, <3>2
    <3>. QED
      BY Zenon, <3>1, <3>3
  <2>1. 0 \in P /\ \A k \in 1..n : k - 1 \in P => k \in P
    BY Zenon, <2>2, <2>3
  <2> HIDE DEF P
  <2>. QED  BY <1>1, <2>1, Upwards
<1>9. opened \in [0..n -> Text]
  BY <1>6, <1>8
<1>. QED
  BY <1>2, <1>7, <1>9 DEF n

\* Behind one piece more, whether a string is open and which brackets are
State(s) == [inside |-> Quotes(s)[Len(s)] % 2 = 1, opened |-> Opened(s)[Len(s)]]

LEMMA StateText ==
  ASSUME NEW s \in Text
  PROVE  State(s) \in [inside : BOOLEAN, opened : Text]
<1>1. Len(s) \in 0..Len(s) /\ Opened(s) \in [0..Len(s) -> Text]
  BY OpenedIs DEF Text
<1>2. Opened(s)[Len(s)] \in Text
  BY <1>1
<1>. QED
  BY <1>2 DEF State

LEMMA StateAppend ==
  ASSUME NEW s \in Text, NEW piece, piece \in STRING, NEW inside,
         inside = IF piece = Quote THEN ~State(s).inside ELSE State(s).inside
  PROVE  State(s \o <<piece>>)
           = [inside |-> inside, opened |-> Turned(State(s).opened, inside, piece)]
<1> DEFINE n == Len(s)
           u == s \o <<piece>>
           qs == Quotes(s)
           qu == Quotes(u)
           os == Opened(s)
           ou == Opened(u)
<1>1. /\ n \in Nat /\ u \in Text /\ Len(u) = n + 1 /\ u[n + 1] = piece
      /\ \A i \in 1..n : u[i] = s[i]
  BY CatPiece
<1> HIDE DEF n, u
<1>2. /\ qs \in [0..n -> Nat] /\ qs[0] = 0
      /\ \A i \in 1..n : qs[i] = qs[i - 1] + IF s[i] = Quote THEN 1 ELSE 0
  BY QuotesIs DEF n
<1>3. /\ qu \in [0..(n + 1) -> Nat] /\ qu[0] = 0
      /\ \A i \in 1..(n + 1) : qu[i] = qu[i - 1] + IF u[i] = Quote THEN 1 ELSE 0
  BY <1>1, QuotesIs
<1>4. /\ os[0] = <<>>
      /\ \A i \in 1..n : os[i] = Turned(os[i - 1], qs[i] % 2 = 1, s[i])
  BY OpenedIs DEF n
<1>5. /\ ou[0] = <<>>
      /\ \A i \in 1..(n + 1) : ou[i] = Turned(ou[i - 1], qu[i] % 2 = 1, u[i])
  BY <1>1, OpenedIs
<1>6. State(s) = [inside |-> qs[n] % 2 = 1, opened |-> os[n]]
  BY DEF State, n
<1>7. State(u) = [inside |-> qu[n + 1] % 2 = 1, opened |-> ou[n + 1]]
  BY <1>1 DEF State
<1> HIDE DEF qs, qu, os, ou
<1> DEFINE P == {i \in 0..n : qu[i] = qs[i] /\ ou[i] = os[i]}
<1>8. 0..n \subseteq P
  <2>1. 0 \in P
    BY <1>1, <1>2, <1>3, <1>4, <1>5
  <2>2. ASSUME NEW k \in 1..n, k - 1 \in P PROVE k \in P
    <3>1. k \in 1..(n + 1) /\ k \in 0..n /\ u[k] = s[k]
          /\ qu[k - 1] = qs[k - 1] /\ ou[k - 1] = os[k - 1]
      BY <1>1, <2>2
    <3>2. qu[k] = qs[k]
      BY <1>2, <1>3, <3>1
    <3>3. ou[k] = os[k]
      BY <1>4, <1>5, <3>1, <3>2
    <3>. QED
      BY <3>1, <3>2, <3>3
  <2> HIDE DEF P
  <2>. QED
    BY <1>1, <2>1, <2>2, Upwards
<1>9. n + 1 \in 1..(n + 1) /\ (n + 1) - 1 = n /\ n \in 0..n
  BY <1>1
<1>10. qu[n] = qs[n] /\ ou[n] = os[n] /\ qs[n] \in Nat
  BY <1>2, <1>8, <1>9
<1>11. qu[n + 1] = qs[n] + IF piece = Quote THEN 1 ELSE 0
  BY <1>1, <1>3, <1>9, <1>10
<1>12. (qu[n + 1] % 2 = 1) = inside
  <2>1. State(s).inside = (qs[n] % 2 = 1)
    BY <1>6
  <2>2. CASE piece = Quote
    <3>1. (qu[n + 1] % 2 = 1) = ~(qs[n] % 2 = 1)
      BY <1>10, <1>11, <2>2
    <3>2. inside = ~State(s).inside
      BY <2>2
    <3>. QED
      BY <2>1, <3>1, <3>2, Zenon
  <2>3. CASE piece # Quote
    <3>1. qu[n + 1] = qs[n]
      BY <1>10, <1>11, <2>3
    <3>2. inside = State(s).inside
      BY <2>3
    <3>. QED
      BY <2>1, <3>1, <3>2, Zenon
  <2>. QED
    BY <2>2, <2>3
<1>13. ou[n + 1] = Turned(os[n], qu[n + 1] % 2 = 1, piece)
  BY <1>1, <1>5, <1>9, <1>10
<1>14. State(u) = [inside |-> inside, opened |-> Turned(os[n], inside, piece)]
  BY <1>7, <1>12, <1>13, Zenon
<1>15. State(s).opened = os[n]
  BY <1>6
<1>. QED
  BY <1>14, <1>15, Zenon DEF u

\* A text turns nothing when it is inside a string, or has no brackets.
LEMMA StateRun ==
  ASSUME NEW b \in Text, NEW s \in Text, \A i \in 1..Len(s) : s[i] # Quote,
         State(b).inside \/ \A i \in 1..Len(s) : s[i] \notin Openers \cup Closers
  PROVE  State(b \o s) = State(b)
<1> DEFINE n == Len(s)
           P == {i \in 0..n : State(b \o SubSeq(s, 1, i)) = State(b)}
<1>1. n \in Nat /\ \A i \in 1..n : s[i] \in STRING
  BY DEF Text
<1>2. State(b) = [inside |-> State(b).inside, opened |-> State(b).opened]
      /\ State(b).inside \in BOOLEAN
  BY StateText
<1>3. \A i \in 1..n : Turned(State(b).opened, State(b).inside, s[i]) = State(b).opened
  BY Zenon DEF Turned
<1>4. 0 \in P
  <2>1. b \o SubSeq(s, 1, 0) = b /\ 0 \in 0..n
    BY <1>1, Prefixes
  <2>. QED
    BY <2>1
<1>5. ASSUME NEW k \in 1..n, k - 1 \in P PROVE k \in P
  <2> DEFINE c == b \o SubSeq(s, 1, k - 1)
             piece == s[k]
  <2>1. State(c) = State(b) /\ k \in 0..n
    BY <1>1, <1>5
  <2>2. SubSeq(s, 1, k - 1) \in Text /\ c \o <<piece>> = b \o SubSeq(s, 1, k)
    BY Prefixes
  <2>3. c \in Text
    BY <2>2, Cat
  <2>4. piece \in STRING /\ piece # Quote
    BY <1>1
  <2> HIDE DEF c
  <2>5. Turned(State(c).opened, State(c).inside, piece) = State(b).opened
    BY <1>3, <2>1
  <2> HIDE DEF piece
  <2>6. State(c \o <<piece>>)
          = [inside |-> State(c).inside,
             opened |-> Turned(State(c).opened, State(c).inside, piece)]
    BY <2>3, <2>4, StateAppend
  <2>7. State(c \o <<piece>>) = State(b)
    BY <1>2, <2>1, <2>5, <2>6, Zenon
  <2>. QED
    BY <2>1, <2>2, <2>7
<1>6. 0..n \subseteq P
  <2> HIDE DEF P
  <2>. QED  BY <1>1, <1>4, <1>5, Upwards
<1>7. n \in P /\ SubSeq(s, 1, n) = s
  <2> HIDE DEF P
  <2>. QED  BY <1>1, <1>6, Prefixes
<1>. QED
  BY <1>7

LEMMA QuotedParts ==
  ASSUME NEW b \in Text, NEW s \in Text
  PROVE  b \o Quoted(s) = ((b \o <<Quote>>) \o s) \o <<Quote>> /\ Quoted(s) \in Text
<1> DEFINE T == STRING
           one == <<Quote>>
<1>1. b \in Seq(T) /\ s \in Seq(T) /\ Quote \in T
  BY Pieces DEF Text
<1>2. Quoted(s) = (one \o s) \o one
  BY DEF Quoted
<1> HIDE DEF T
<1>3. one \in Seq(T)
  BY <1>1
<1> HIDE DEF one
<1>4. one \o s \in Seq(T) /\ b \o one \in Seq(T)
  BY <1>1, <1>3
<1>5. (one \o s) \o one \in Seq(T)
  BY <1>3, <1>4
<1>6. b \o ((one \o s) \o one) = (b \o (one \o s)) \o one
  BY <1>1, <1>3, <1>4, ConcatAssociative
<1>7. b \o (one \o s) = (b \o one) \o s
  BY <1>1, <1>3, ConcatAssociative
<1>. QED
  BY <1>2, <1>5, <1>6, <1>7 DEF one, Text, T

LEMMA StateQuoted ==
  ASSUME NEW b \in Text, NEW s \in Text, ~State(b).inside, \A i \in 1..Len(s) : s[i] # Quote
  PROVE  State(b \o Quoted(s)) = State(b)
<1> DEFINE c == b \o <<Quote>>
           d == c \o s
<1>1. /\ State(b) \in [inside : BOOLEAN, opened : Text]
      /\ Quote \in STRING /\ Quote \notin Openers \cup Closers
  BY StateText, Pieces
<1>2. c \in Text
  BY <1>1, CatPiece
<1>3. State(c).inside
  <2>1. State(c) = [inside |-> TRUE, opened |-> Turned(State(b).opened, TRUE, Quote)]
    BY <1>1, StateAppend
  <2>. QED
    BY <2>1
<1>4. State(c).opened = State(b).opened
  <2>1. State(c) = [inside |-> TRUE, opened |-> Turned(State(b).opened, TRUE, Quote)]
    BY <1>1, StateAppend
  <2>2. Turned(State(b).opened, TRUE, Quote) = State(b).opened
    BY DEF Turned
  <2>3. State(c).opened = Turned(State(b).opened, TRUE, Quote)
    <3> DEFINE turned == Turned(State(b).opened, TRUE, Quote)
    <3>1. State(c) = [inside |-> TRUE, opened |-> turned]
      BY <2>1
    <3> HIDE DEF c, turned
    <3>2. State(c).opened = turned
      BY <3>1
    <3>. QED
      BY <3>2 DEF turned
  <2>. QED
    BY <2>2, <2>3, Zenon
<1> HIDE DEF c
<1>5. d \in Text /\ State(d) = State(c)
  BY <1>2, <1>3, Cat, StateRun
<1> HIDE DEF d
<1>6. State(d \o <<Quote>>)
        = [inside |-> FALSE, opened |-> Turned(State(d).opened, FALSE, Quote)]
  BY <1>1, <1>3, <1>5, StateAppend
<1>7. Turned(State(d).opened, FALSE, Quote) = State(d).opened
  BY <1>1, Zenon DEF Turned
<1>8. State(b) = [inside |-> FALSE, opened |-> State(b).opened]
  BY <1>1
<1>9. State(d \o <<Quote>>) = State(b)
  BY <1>4, <1>5, <1>6, <1>7, <1>8
<1>. QED
  BY <1>9, QuotedParts DEF c, d

LEMMA PieceStrings ==
  /\ IsString(Quote) /\ IsString(Comma) /\ IsString(Colon) /\ IsString(NewLine)
  /\ IsString(Indent) /\ IsString(Space) /\ IsString(ObjectStart) /\ IsString(ObjectEnd)
  /\ IsString(ArrayStart) /\ IsString(ArrayEnd)
<1>1. \A piece \in {Quote, Comma, Colon, NewLine, Indent, Space} \cup Openers \cup Closers :
        IsString(piece)
  BY PiecesAssumption
<1>2. {Quote, Comma, Colon, NewLine, Indent, Space, ObjectStart, ObjectEnd, ArrayStart, ArrayEnd}
        \subseteq {Quote, Comma, Colon, NewLine, Indent, Space} \cup Openers \cup Closers
  BY DEF Openers, Closers
<1>. QED
  BY <1>1, <1>2, Zenon

LEMMA TextOne ==
  ASSUME NEW piece, IsString(piece)
  PROVE  IsText(<<piece>>) /\ Len(<<piece>>) = 1 /\ <<piece>>[1] = piece
<1> DEFINE T == STRING
<1>1. piece \in T
  BY DEF IsString
<1> HIDE DEF T
<1>2. <<piece>> \in Seq(T) /\ Len(<<piece>>) = 1 /\ <<piece>>[1] = piece
      /\ DOMAIN <<piece>> = 1..1
  BY <1>1, One
<1>3. \A i \in DOMAIN <<piece>> : i = 1
  BY <1>2
<1>4. <<piece>> \in Text
  BY <1>2 DEF T, Text
<1>. QED
  BY <1>2, <1>3, <1>4, Zenon DEF IsText

LEMMA TextCat ==
  ASSUME NEW s, NEW u, IsText(s), IsText(u)
  PROVE  IsText(s \o u)
<1>1. /\ s \in Text /\ u \in Text
      /\ \A i \in 1..Len(s) : IsString(s[i])
      /\ \A i \in 1..Len(u) : IsString(u[i])
  BY DEF IsText, Text
<1> DEFINE c == s \o u
<1>2. /\ c \in Text /\ Len(s) \in Nat /\ Len(u) \in Nat /\ Len(c) = Len(s) + Len(u)
      /\ \A k \in 1..Len(s) : c[k] = s[k]
      /\ \A k \in 1..Len(u) : c[Len(s) + k] = u[k]
  BY <1>1, Cat
<1>3. DOMAIN c = 1..Len(c)
  BY <1>2 DEF Text
<1> HIDE DEF c
<1>4. ASSUME NEW i \in 1..Len(c) PROVE IsString(c[i])
  <2>1. CASE i <= Len(s)
    BY <1>1, <1>2, <2>1
  <2>2. CASE ~(i <= Len(s))
    <3> DEFINE k == i - Len(s)
    <3>1. k \in 1..Len(u) /\ Len(s) + k = i
      BY <1>2, <2>2
    <3> HIDE DEF k
    <3>2. c[i] = u[k]
      BY <1>2, <3>1
    <3>. QED
      BY <1>1, <3>1, <3>2
  <2>. QED
    BY <2>1, <2>2
<1>. QED
  BY <1>2, <1>3, <1>4 DEF IsText, c

LEMMA TextQuoted ==
  ASSUME NEW s, IsText(s)
  PROVE  IsText(Quoted(s))
BY PieceStrings, TextOne, TextCat, Zenon DEF Quoted

\* A text that leaves open what was open before it
Silent(s) == s \in Text /\ \A b \in Text : ~State(b).inside => State(b \o s) = State(b)
Plain(s) == s \in Text /\ \A i \in 1..Len(s) : s[i] \notin {Quote} \cup Openers \cup Closers

LEMMA SilentPlain == ASSUME NEW s, Plain(s) PROVE Silent(s)
BY StateRun DEF Plain, Silent

LEMMA SilentQuoted ==
  ASSUME NEW s \in Text, \A i \in 1..Len(s) : s[i] # Quote
  PROVE  Silent(Quoted(s))
<1>1. Quoted(s) \in Text
  BY QuotedParts, EmptySeq DEF Text
<1>. QED
  BY <1>1, StateQuoted DEF Silent

LEMMA SilentCat ==
  ASSUME NEW s, NEW u, Silent(s), Silent(u)
  PROVE  Silent(s \o u)
<1>1. s \in Text /\ u \in Text /\ s \o u \in Text
  BY Cat DEF Silent
<1>2. ASSUME NEW b \in Text, ~State(b).inside PROVE State(b \o (s \o u)) = State(b)
  <2>1. b \o s \in Text
    BY <1>1, Cat
  <2>2. State(b \o s) = State(b)
    BY <1>2 DEF Silent
  <2>3. State((b \o s) \o u) = State(b \o s)
    BY <1>2, <2>1, <2>2 DEF Silent
  <2>4. (b \o s) \o u = b \o (s \o u)
    BY <1>1, ConcatAssociative DEF Text
  <2>. QED
    BY <2>2, <2>3, <2>4
<1>. QED
  BY <1>1, <1>2 DEF Silent

LEMMA PlainOne ==
  ASSUME NEW piece, IsString(piece), piece \notin {Quote} \cup Openers \cup Closers
  PROVE  Plain(<<piece>>)
<1>1. <<piece>> \in Text /\ Len(<<piece>>) = 1 /\ <<piece>>[1] = piece
  BY TextOne DEF IsText
<1>2. \A i \in 1..Len(<<piece>>) : i = 1
  BY <1>1
<1>. QED
  BY <1>1, <1>2, Zenon DEF Plain

Types(w) == [i \in 1..Len(w.nodeStack) |-> w.nodeStack[i].nodeType]
Headed(s) == Len(s) >= 1 /\ s[1] = ObjectStart

\* What a call that puts no bracket keeps
Through(w, v) ==
  /\ Good(v)
  /\ v.error = "OK" => /\ w.error = "OK" /\ Types(v) = Types(w)
                       /\ ~State(w.buffer).inside => State(v.buffer) = State(w.buffer)
                       /\ Headed(w.buffer) => Headed(v.buffer)

LEMMA ThroughTwo ==
  ASSUME NEW u, NEW v, NEW w, Through(u, v), Through(v, w)
  PROVE  Through(u, w)
BY Zenon DEF Through

LEMMA HeadedCat ==
  ASSUME NEW s \in Text, NEW u \in Text, Headed(s)
  PROVE  Headed(s \o u)
<1>1. /\ Len(s \o u) = Len(s) + Len(u) /\ Len(s) \in Nat /\ Len(u) \in Nat
      /\ \A k \in 1..Len(s) : (s \o u)[k] = s[k]
  BY Cat
<1>2. Len(s) >= 1 /\ s[1] = ObjectStart
  BY DEF Headed
<1>3. 1 \in 1..Len(s)
  BY <1>1, <1>2
<1>. QED
  BY <1>1, <1>2, <1>3 DEF Headed

LEMMA ThroughPut ==
  ASSUME NEW w, Good(w), NEW s, Silent(s), NEW v, PutAll(w, s, v)
  PROVE  Through(w, v)
<1>1. Good(v) /\ Types(v) = Types(w)
  BY DEF PutAll, Kept, Types
<1>2. w.buffer \in Text /\ s \in Text
  BY DEF Good, Measured, Silent
<1>3. ASSUME v.error = "OK"
      PROVE  /\ w.error = "OK"
             /\ ~State(w.buffer).inside => State(v.buffer) = State(w.buffer)
             /\ Headed(w.buffer) => Headed(v.buffer)
  <2>1. w.error = "OK" /\ v.buffer = w.buffer \o s
    BY <1>3 DEF PutAll, Added
  <2>2. ~State(w.buffer).inside => State(w.buffer \o s) = State(w.buffer)
    BY <1>2 DEF Silent
  <2>3. Headed(w.buffer) => Headed(w.buffer \o s)
    BY <1>2, HeadedCat
  <2>. QED
    BY <2>1, <2>2, <2>3
<1>. QED
  BY <1>1, <1>3 DEF Through

LEMMA ThroughPuts ==
  ASSUME NEW w, Good(w), NEW s, IsText(s), Silent(s)
  PROVE  Through(w, Puts(w, s))
BY PutsIs, ThroughPut

LEMMA ThroughOne ==
  ASSUME NEW w, Good(w), NEW piece, IsString(piece),
         piece \notin {Quote} \cup Openers \cup Closers
  PROVE  Through(w, Put(w, piece))
<1>1. PutAll(w, <<piece>>, Put(w, piece))
  BY PutIs DEF PutAll
<1>2. Silent(<<piece>>)
  BY PlainOne, SilentPlain
<1>. QED
  BY <1>1, <1>2, ThroughPut

LEMMA ThroughSelf == ASSUME NEW w, Good(w) PROVE Through(w, w)
BY DEF Through

LEMMA ThroughPretty ==
  ASSUME NEW w, Good(w)
  PROVE  Through(w, Pretty(w))
<1> DEFINE n == Len(w.nodeStack)
           indents == [i \in 1..n |-> Indent]
           pad == <<NewLine>> \o indents
<1>1. n \in Nat
  BY DEF Good
<1>2. /\ IsString(NewLine) /\ IsString(Indent)
      /\ NewLine \notin {Quote} \cup Openers \cup Closers
      /\ Indent \notin {Quote} \cup Openers \cup Closers
  BY PieceStrings, Pieces
<1> HIDE DEF n
<1>3. IsText(indents) /\ Plain(indents)
  <2> DEFINE T == STRING
  <2>1. Indent \in T
    BY <1>2 DEF IsString
  <2> HIDE DEF T
  <2>2. /\ indents \in Seq(T) /\ Len(indents) = n /\ DOMAIN indents = 1..n
        /\ \A i \in 1..n : indents[i] = Indent
    BY <1>1, <2>1
  <2> HIDE DEF indents
  <2>3. indents \in Text
    BY <2>2 DEF T, Text
  <2>4. \A i \in DOMAIN indents : IsString(indents[i])
    BY <1>2, <2>2
  <2>5. \A i \in 1..Len(indents) : indents[i] \notin {Quote} \cup Openers \cup Closers
    BY <1>2, <2>2, Zenon
  <2>. QED
    BY <2>3, <2>4, <2>5, Zenon DEF IsText, Plain
<1> HIDE DEF indents
<1>4. IsText(pad) /\ Silent(pad)
  <2>1. IsText(<<NewLine>>) /\ Silent(<<NewLine>>)
    BY <1>2, TextOne, PlainOne, SilentPlain
  <2>. QED
    BY <1>3, <2>1, TextCat, SilentCat, SilentPlain, Zenon
<1>5. Through(w, Puts(w, pad)) /\ Through(w, w)
  BY <1>4, ThroughPuts, ThroughSelf
<1>. QED
  BY <1>5, Zenon DEF Pretty, pad, indents, n
-------------------------------------------------------------------------------
(* The texts of numbers. *)

Decimals == Range(Digit)

LEMMA DigitIs ==
  /\ \A d \in 0..9 : Digit[d + 1] \in Decimals
  /\ \A d \in 1..9 : Digit[d + 1] # "0"
<1>1. DOMAIN Digit = 1..10
  BY DEF Digit
<1>2. \A d \in 0..9 : d + 1 \in 1..10
  OBVIOUS
<1>3. \A d \in 0..9 : Digit[d + 1] \in Decimals
  <2>1. \A i \in 1..10 : Digit[i] \in Decimals
    BY <1>1, Zenon DEF Decimals, Range
  <2>. QED
    BY <1>2, <2>1
<1>4. /\ Digit[2] = "1" /\ Digit[3] = "2" /\ Digit[4] = "3" /\ Digit[5] = "4" /\ Digit[6] = "5"
      /\ Digit[7] = "6" /\ Digit[8] = "7" /\ Digit[9] = "8" /\ Digit[10] = "9"
  BY DEF Digit
<1>5. \A i \in 2..10 : Digit[i] # "0"
  <2>1. \A i \in 2..10 : i = 2 \/ i = 3 \/ i = 4 \/ i = 5 \/ i = 6 \/ i = 7 \/ i = 8 \/ i = 9
                         \/ i = 10
    OBVIOUS
  <2>2. /\ "1" # "0" /\ "2" # "0" /\ "3" # "0" /\ "4" # "0" /\ "5" # "0"
        /\ "6" # "0" /\ "7" # "0" /\ "8" # "0" /\ "9" # "0"
    OBVIOUS
  <2>. QED
    BY <1>4, <2>1, <2>2, Zenon
<1>6. \A d \in 1..9 : d + 1 \in 2..10
  OBVIOUS
<1>. QED
  BY <1>3, <1>5, <1>6

LEMMA DivTen ==
  ASSUME NEW n \in Nat
  PROVE  /\ n \div 10 \in Nat /\ n % 10 \in 0..9 /\ n \div 10 <= n
         /\ n >= 10 => n \div 10 < n /\ n \div 10 > 0
OBVIOUS

\* The digits of n, when f has those of the numbers below
Spelling(f, n) ==
  IF n < 10 THEN <<Digit[n + 1]>> ELSE Append(f[n \div 10], Digit[(n % 10) + 1])
UpTo(f, n) == f \in [0..n -> Seq(Decimals)] /\ \A i \in 0..n : f[i] = Spelling(f, i)

LEMMA SpellingIs ==
  ASSUME NEW n \in Nat, NEW f, n >= 10 => f[n \div 10] \in Seq(Decimals)
  PROVE  Spelling(f, n) \in Seq(Decimals)
<1>1. CASE n < 10
  <2>1. Digit[n + 1] \in Decimals
    BY <1>1, DigitIs
  <2>2. <<Digit[n + 1]>> \in Seq(Decimals)
    BY <2>1, One
  <2>. QED
    BY <1>1, <2>2, Zenon DEF Spelling
<1>2. CASE ~(n < 10)
  <2>1. Digit[(n % 10) + 1] \in Decimals /\ f[n \div 10] \in Seq(Decimals)
    BY <1>2, DivTen, DigitIs
  <2>2. Append(f[n \div 10], Digit[(n % 10) + 1]) \in Seq(Decimals)
    BY <2>1, AppendProperties
  <2>. QED
    BY <1>2, <2>2, Zenon DEF Spelling
<1>. QED
  BY <1>1, <1>2

LEMMA UpToExists ==
  ASSUME NEW n \in Nat
  PROVE  \E f : UpTo(f, n)
<1> DEFINE P == {k \in 0..n : \E f : UpTo(f, k)}
<1>1. 0 \in P
  <2> DEFINE f == [i \in 0..0 |-> <<Digit[1]>>]
  <2>1. <<Digit[1]>> \in Seq(Decimals)
    <3>1. Digit[0 + 1] \in Decimals
      BY DigitIs
    <3>. QED
      BY <3>1, One
  <2>2. \A i \in 0..0 : i = 0
    OBVIOUS
  <2>3. f[0] = <<Digit[1]>> /\ f \in [0..0 -> Seq(Decimals)]
    BY <2>1
  <2> HIDE DEF f
  <2>4. Spelling(f, 0) = <<Digit[1]>>
    BY DEF Spelling
  <2>5. UpTo(f, 0)
    BY <2>2, <2>3, <2>4 DEF UpTo
  <2>. QED
    BY <2>5
<1>2. ASSUME NEW k \in 1..n, k - 1 \in P PROVE k \in P
  <2>1. PICK f : UpTo(f, k - 1)
    BY <1>2
  <2> DEFINE h == [i \in 0..k |-> IF i = k THEN Spelling(f, k) ELSE f[i]]
  <2>2. k \in Nat /\ k \in 0..n /\ k \in 0..k /\ \A i \in 0..k : i = k \/ i \in 0..(k - 1)
    OBVIOUS
  <2>3. /\ f \in [0..(k - 1) -> Seq(Decimals)]
        /\ \A i \in 0..(k - 1) : f[i] = Spelling(f, i)
    BY <2>1 DEF UpTo
  <2>4. \A i \in 0..k : i >= 10 => i \div 10 \in 0..(k - 1)
    BY DivTen
  <2>5. Spelling(f, k) \in Seq(Decimals)
    <3>1. k >= 10 => f[k \div 10] \in Seq(Decimals)
      BY <2>2, <2>3, <2>4
    <3>. QED
      BY <2>2, <3>1, SpellingIs
  <2>6. h \in [0..k -> Seq(Decimals)]
    <3>1. \A i \in 0..k : i # k => f[i] \in Seq(Decimals)
      BY <2>2, <2>3
    <3>. QED
      BY <2>5, <3>1
  <2>7. h[k] = Spelling(f, k) /\ \A i \in 0..(k - 1) : h[i] = f[i]
    BY <2>2
  <2> HIDE DEF h
  <2>8. ASSUME NEW i \in 0..k PROVE Spelling(h, i) = Spelling(f, i)
    <3>1. CASE i >= 10
      <4>1. h[i \div 10] = f[i \div 10]
        BY <2>4, <2>7, <3>1
      <4>. QED
        BY <4>1, Zenon DEF Spelling
    <3>2. CASE ~(i >= 10)
      <4>1. i < 10
        BY <3>2
      <4>. QED
        BY <4>1, Zenon DEF Spelling
    <3>. QED
      BY <3>1, <3>2
  <2>9. \A i \in 0..k : h[i] = Spelling(h, i)
    BY <2>2, <2>3, <2>7, <2>8
  <2>10. UpTo(h, k)
    BY <2>6, <2>9 DEF UpTo
  <2>. QED
    BY <2>2, <2>10
<1>3. n \in P
  <2>1. n \in 0..n
    OBVIOUS
  <2> HIDE DEF P
  <2>. QED
    BY <1>1, <1>2, <2>1, Upwards
<1>. QED
  BY <1>3

LEMMA UpToAgree ==
  ASSUME NEW n \in Nat, NEW m \in Nat, n <= m, NEW f, NEW h, UpTo(f, n), UpTo(h, m)
  PROVE  \A i \in 0..n : f[i] = h[i]
<1> DEFINE Bad == {i \in 0..n : f[i] # h[i]}
<1>1. Bad \in SUBSET Nat
  OBVIOUS
<1>2. ASSUME Bad # {} PROVE FALSE
  <2>1. PICK k \in Bad : \A y \in Bad : k <= y
    <3> HIDE DEF Bad
    <3>. QED  BY <1>1, <1>2, LeastNat
  <2>2. k \in 0..n /\ k \in 0..m /\ k \in Nat
    OBVIOUS
  <2>3. f[k] = Spelling(f, k) /\ h[k] = Spelling(h, k)
    BY <2>2 DEF UpTo
  <2>4. CASE k >= 10
    <3>1. k \div 10 \in 0..n /\ ~(k <= k \div 10)
      BY <2>2, <2>4, DivTen
    <3>2. f[k \div 10] = h[k \div 10]
      BY <2>1, <3>1
    <3>3. Spelling(f, k) = Spelling(h, k)
      BY <3>2, Zenon DEF Spelling
    <3>. QED
      BY <2>1, <2>3, <3>3
  <2>5. CASE ~(k >= 10)
    <3>1. k < 10
      BY <2>2, <2>5
    <3>2. Spelling(f, k) = Spelling(h, k)
      BY <3>1, Zenon DEF Spelling
    <3>. QED
      BY <2>1, <2>3, <3>2
  <2>. QED
    BY <2>4, <2>5
<1>. QED
  BY <1>2

LEMMA DecimalIs ==
  /\ Decimal \in [Nat -> Seq(Decimals)]
  /\ \A n \in Nat : Decimal[n] = Spelling(Decimal, n)
<1> DEFINE G(n) == CHOOSE f : UpTo(f, n)
           F == [n \in Nat |-> G(n)[n]]
<1>1. \A n \in Nat : UpTo(G(n), n)
  BY UpToExists, Zenon
<1> HIDE DEF G
<1>2. ASSUME NEW n \in Nat PROVE F[n] \in Seq(Decimals) /\ F[n] = Spelling(F, n)
  <2>1. n \in 0..n /\ F[n] = G(n)[n]
    OBVIOUS
  <2>2. G(n)[n] = Spelling(G(n), n) /\ G(n)[n] \in Seq(Decimals)
    BY <1>1, <2>1 DEF UpTo
  <2>3. CASE n >= 10
    <3> DEFINE d == n \div 10
    <3>1. d \in Nat /\ d <= n /\ d \in 0..d
      BY DivTen
    <3> HIDE DEF d
    <3>2. F[d] = G(d)[d]
      BY <3>1
    <3>3. G(d)[d] = G(n)[d]
      <4>1. UpTo(G(d), d) /\ UpTo(G(n), n)
        BY <1>1, <3>1
      <4>2. \A i \in 0..d : G(d)[i] = G(n)[i]
        BY <3>1, <4>1, UpToAgree
      <4>. QED
        BY <3>1, <4>2
    <3>4. Spelling(F, n) = Spelling(G(n), n)
      <4> HIDE DEF F
      <4>1. F[n \div 10] = G(n)[n \div 10]
        BY <3>2, <3>3 DEF d
      <4>. QED
        BY <4>1, Zenon DEF Spelling
    <3>. QED
      BY <2>1, <2>2, <3>4
  <2>4. CASE ~(n >= 10)
    <3>1. n < 10
      BY <2>4
    <3>2. Spelling(F, n) = Spelling(G(n), n)
      BY <3>1, Zenon DEF Spelling
    <3>. QED
      BY <2>1, <2>2, <3>2
  <2>. QED
    BY <2>3, <2>4
<1>3. F = [n \in Nat |-> Spelling(F, n)]
  BY <1>2
<1> HIDE DEF F
<1>4. Decimal = [n \in Nat |-> Spelling(Decimal, n)]
  <2>1. \E f : f = [n \in Nat |-> Spelling(f, n)]
    BY <1>3, Zenon
  <2>2. Decimal = CHOOSE f : f = [n \in Nat |-> Spelling(f, n)]
    BY Zenon DEF Decimal, Spelling
  <2>. QED
    BY <2>1, <2>2, Zenon
<1>5. \A n \in Nat : Decimal[n] = Spelling(Decimal, n)
  BY <1>4
<1> DEFINE Bad == {n \in Nat : Decimal[n] \notin Seq(Decimals)}
<1>6. ASSUME Bad # {} PROVE FALSE
  <2>1. Bad \in SUBSET Nat
    OBVIOUS
  <2>2. PICK k \in Bad : \A y \in Bad : k <= y
    <3> HIDE DEF Bad
    <3>. QED  BY <1>6, <2>1, LeastNat
  <2>3. k \in Nat /\ Decimal[k] \notin Seq(Decimals)
    OBVIOUS
  <2>4. k >= 10 => Decimal[k \div 10] \in Seq(Decimals)
    <3>1. SUFFICES ASSUME k >= 10 PROVE Decimal[k \div 10] \in Seq(Decimals)
      OBVIOUS
    <3>2. k \div 10 \in Nat /\ ~(k <= k \div 10)
      BY <2>3, <3>1, DivTen
    <3>. QED
      BY <2>2, <3>2
  <2>. QED
    BY <1>5, <2>3, <2>4, SpellingIs
<1>. QED
  BY <1>4, <1>5, <1>6

LEMMA DecimalFirst ==
  ASSUME NEW n \in Nat \ {0}
  PROVE  Len(Decimal[n]) >= 1 /\ Decimal[n][1] # "0"
<1> DEFINE Nonzero(s) == Len(s) >= 1 /\ s[1] # "0"
           Bad == {k \in Nat \ {0} : ~Nonzero(Decimal[k])}
<1>1. ASSUME Bad # {} PROVE FALSE
  <2>1. Bad \in SUBSET Nat
    OBVIOUS
  <2>2. PICK k \in Bad : \A y \in Bad : k <= y
    <3> HIDE DEF Bad
    <3>. QED  BY <1>1, <2>1, LeastNat
  <2>3. k \in Nat /\ k # 0 /\ ~Nonzero(Decimal[k]) /\ Decimal[k] = Spelling(Decimal, k)
    BY DecimalIs
  <2>4. CASE k < 10
    <3> DEFINE d == Digit[k + 1]
    <3>1. d \in Decimals /\ d # "0"
      BY <2>3, <2>4, DigitIs
    <3>2. Decimal[k] = <<d>>
      BY <2>3, <2>4, Zenon DEF Spelling
    <3> HIDE DEF d
    <3>3. Len(<<d>>) = 1 /\ <<d>>[1] = d
      OBVIOUS
    <3>. QED
      BY <2>3, <3>1, <3>2, <3>3
  <2>5. CASE ~(k < 10)
    <3> DEFINE s == Decimal[k \div 10]
               d == Digit[(k % 10) + 1]
    <3>1. k \div 10 \in Nat \ {0} /\ ~(k <= k \div 10) /\ k % 10 \in 0..9
      BY <2>3, <2>5, DivTen
    <3>2. Nonzero(s) /\ s \in Seq(Decimals) /\ d \in Decimals
      BY <2>2, <3>1, DecimalIs, DigitIs
    <3>3. Decimal[k] = Append(s, d)
      BY <2>3, <2>5, Zenon DEF Spelling
    <3> HIDE DEF s, d
    <3>4. /\ Len(Append(s, d)) = Len(s) + 1 /\ Len(s) \in Nat
          /\ \A i \in 1..Len(s) : Append(s, d)[i] = s[i]
      BY <3>2, AppendProperties
    <3>5. 1 \in 1..Len(s)
      BY <3>2, <3>4
    <3>6. Nonzero(Append(s, d))
      BY <3>2, <3>4, <3>5
    <3>. QED
      BY <2>3, <3>3, <3>6
  <2>. QED
    BY <2>4, <2>5
<1>. QED
  BY <1>1

LEMMA FractionIs ==
  ASSUME NEW m \in Nat \ {0}
  PROVE  Fraction(m) \in Seq(Decimals)
<1> DEFINE short == Decimal[m]
           zeros == [i \in 1..(6 - Len(short)) |-> "0"]
           s == zeros \o short
           last == CHOOSE i \in 1..Len(s) : s[i] # "0" /\ \A j \in (i + 1)..Len(s) : s[j] = "0"
<1>1. Fraction(m) = SubSeq(s, 1, last)
  BY Zenon DEF Fraction
<1>2. short \in Seq(Decimals) /\ Len(short) \in Nat /\ Len(short) >= 1 /\ short[1] # "0"
  BY DecimalIs, DecimalFirst
<1> HIDE DEF short
<1>3. zeros \in Seq(Decimals)
  <2> DEFINE zero == "0"
             n == IF 6 - Len(short) \in Nat THEN 6 - Len(short) ELSE 0
  <2>1. zero \in Decimals
    <3>1. Digit[0 + 1] \in Decimals
      BY DigitIs
    <3>2. Digit[1] = "0"
      BY DEF Digit
    <3>. QED
      BY <3>1, <3>2
  <2>2. n \in Nat /\ 1..n = 1..(6 - Len(short))
    BY <1>2
  <2> HIDE DEF n, zero
  <2>3. [i \in 1..n |-> zero] \in Seq(Decimals)
    BY <2>1, <2>2
  <2>. QED
    BY <2>2, <2>3, Zenon DEF zero
<1> HIDE DEF zeros
<1>4. /\ s \in Seq(Decimals) /\ Len(s) = Len(zeros) + Len(short) /\ Len(zeros) \in Nat
      /\ \A i \in 1..(Len(zeros) + Len(short)) :
           s[i] = IF i <= Len(zeros) THEN zeros[i] ELSE short[i - Len(zeros)]
  BY <1>2, <1>3, ConcatProperties
<1> HIDE DEF s
<1> DEFINE k == Len(zeros) + 1
<1>5. k \in 1..Len(s) /\ s[k] # "0"
  <2>1. /\ k \in 1..(Len(zeros) + Len(short)) /\ ~(k <= Len(zeros)) /\ k - Len(zeros) = 1
    BY <1>2, <1>4
  <2> HIDE DEF k
  <2>2. s[k] = short[k - Len(zeros)]
    BY <1>4, <2>1
  <2>3. s[k] = short[1]
    BY <2>1, <2>2
  <2>. QED
    BY <1>2, <1>4, <2>1, <2>3
<1> HIDE DEF k
<1>6. \E i \in 1..Len(s) : s[i] # "0" /\ \A j \in (i + 1)..Len(s) : s[j] = "0"
  <2> DEFINE T == {d \in 0..Len(s) : Len(s) - d \in 1..Len(s) /\ s[Len(s) - d] # "0"}
  <2>1. Len(s) \in Nat
    BY <1>4
  <2>2. Len(s) - k \in T /\ T \in SUBSET Nat
    <3>1. Len(s) - k \in 0..Len(s) /\ Len(s) - (Len(s) - k) = k
      BY <1>5, <2>1
    <3>. QED
      BY <1>5, <3>1
  <2>3. PICK d \in T : \A y \in T : d <= y
    <3> HIDE DEF T
    <3>. QED  BY <2>2, LeastNat
  <2> DEFINE i == Len(s) - d
  <2>4. i \in 1..Len(s) /\ s[i] # "0" /\ d \in Nat
    OBVIOUS
  <2>5. ASSUME NEW j \in (i + 1)..Len(s) PROVE s[j] = "0"
    <3>1. Len(s) - j \in 0..Len(s) /\ Len(s) - (Len(s) - j) = j /\ j \in 1..Len(s)
          /\ ~(d <= Len(s) - j)
      BY <2>1, <2>4
    <3>2. Len(s) - j \notin T
      <4> HIDE DEF T
      <4>. QED  BY <2>3, <3>1
    <3>. QED
      BY <3>1, <3>2
  <2> HIDE DEF i
  <2>. QED
    BY <2>4, <2>5
<1>7. last \in 1..Len(s)
  BY <1>6, Zenon
<1> HIDE DEF last
<1>8. SubSeq(s, 1, last) \in Seq(Decimals)
  <2>1. last \in Int /\ \A i \in 1..last : s[i] \in Decimals
    BY <1>4, <1>7
  <2>. QED
    BY <2>1, SubSeqProperties
<1>. QED
  BY <1>1, <1>8

LEMMA WordsPlain ==
  \A word \in Words : IsString(word) /\ word \notin {Quote} \cup Openers \cup Closers
<1>1. Words = {"0", "1", "2", "3", "4", "5", "6", "7", "8", "9", "-", ".", "nan"}
  <2>1. Range(Digit) = {Digit[1], Digit[2], Digit[3], Digit[4], Digit[5], Digit[6], Digit[7],
                        Digit[8], Digit[9], Digit[10]}
    <3>1. DOMAIN Digit = 1..10
      BY DEF Digit
    <3>2. \A i : i \in 1..10 <=> i = 1 \/ i = 2 \/ i = 3 \/ i = 4 \/ i = 5 \/ i = 6 \/ i = 7
                                 \/ i = 8 \/ i = 9 \/ i = 10
      OBVIOUS
    <3>. QED
      BY <3>1, <3>2, Zenon DEF Range
  <2>2. /\ Digit[1] = "0" /\ Digit[2] = "1" /\ Digit[3] = "2" /\ Digit[4] = "3"
        /\ Digit[5] = "4" /\ Digit[6] = "5" /\ Digit[7] = "6" /\ Digit[8] = "7"
        /\ Digit[9] = "8" /\ Digit[10] = "9"
    BY DEF Digit
  <2>. QED
    BY <2>1, <2>2 DEF Words
<1>2. ASSUME NEW word \in Words PROVE word \notin {Quote} \cup Openers \cup Closers
  BY <1>1 DEF Quote, Openers, Closers, ObjectStart, ObjectEnd, ArrayStart, ArrayEnd
<1>. QED
  BY <1>2, WordsAssumption

LEMMA WordsText ==
  ASSUME NEW s \in Seq(Words)
  PROVE  IsText(s) /\ Plain(s) /\ Range(s) \subseteq Words
<1>1. /\ Len(s) \in Nat /\ DOMAIN s = 1..Len(s) /\ \A i \in 1..Len(s) : s[i] \in Words
  OBVIOUS
<1>2. Words \subseteq STRING
  BY WordsPlain, Zenon DEF IsString
<1>3. s \in Text
  <2> DEFINE T == STRING
  <2>1. Words \subseteq T
    BY <1>2
  <2> HIDE DEF T
  <2>2. s \in Seq(T)
    BY <2>1, SeqMonotonic
  <2>. QED
    BY <2>2 DEF T, Text
<1>. QED
  BY <1>1, <1>3, WordsPlain, Zenon DEF IsText, Plain, Range

LEMMA ItoaIs ==
  ASSUME NEW n \in Int
  PROVE  Itoa(n) \in Seq(Words)
<1>1. Decimals \subseteq Words /\ "-" \in Words
  BY DEF Decimals, Words
<1>2. \A k \in Nat : Decimal[k] \in Seq(Words)
  BY <1>1, DecimalIs, SeqMonotonic
<1>3. CASE n < 0
  <2> DEFINE minus == <<"-">>
             d == Decimal[-n]
  <2>1. d \in Seq(Words)
    <3>1. -n \in Nat
      BY <1>3
    <3>. QED
      BY <1>2, <3>1
  <2>2. minus \in Seq(Words)
    BY <1>1, One
  <2> HIDE DEF minus, d
  <2>3. minus \o d \in Seq(Words)
    BY <2>1, <2>2, ConcatProperties
  <2>. QED
    BY <1>3, <2>3, Zenon DEF Itoa, minus, d
<1>4. CASE ~(n < 0)
  <2>1. Decimal[n] \in Seq(Words)
    BY <1>2, <1>4
  <2>. QED
    BY <1>4, <2>1, Zenon DEF Itoa
<1>. QED
  BY <1>3, <1>4

LEMMA RoundedIs ==
  ASSUME NEW v, v \in Double, v.kind = "number"
  PROVE  Rounded(v)[1] \in Nat /\ Rounded(v)[2] \in Nat
<1> DEFINE whole == v.whole
           micro == v.micro
<1>1. whole \in Nat /\ micro \in Nat
  <2>1. CASE v \in [kind : {"number"}, neg : BOOLEAN, whole : Nat, micro : 0..LastMicro,
                    quarter : 0..3]
    BY <2>1
  <2>2. CASE v \in [kind : {"nan", "huge"}]
    <3>1. v.kind \in {"nan", "huge"}
      BY <2>2
    <3>. QED
      BY <3>1
  <2>. QED
    BY <2>1, <2>2, Zenon DEF Double
<1> HIDE DEF whole, micro
<1>2. \/ Rounded(v) = <<whole + 1, 0>> \/ Rounded(v) = <<whole, micro + 1>>
      \/ Rounded(v) = <<whole, micro>>
  BY Zenon DEF Rounded, whole, micro
<1>3. /\ whole + 1 \in Nat /\ micro + 1 \in Nat /\ 0 \in Nat
  BY <1>1
<1>. QED
  BY <1>1, <1>2, <1>3

LEMMA DtoaIs ==
  ASSUME NEW v, v \in Double, NEW str \in Seq(Words)
  PROVE  Dtoa(v, str) \in Seq(Words)
<1>1. Decimals \subseteq Words /\ "-" \in Words /\ "." \in Words /\ "nan" \in Words
  BY DEF Decimals, Words
<1>2. v.kind \in {"number", "nan", "huge"}
  <2>1. CASE v \in [kind : {"number"}, neg : BOOLEAN, whole : Nat, micro : 0..LastMicro,
                    quarter : 0..3]
    BY <2>1
  <2>2. CASE v \in [kind : {"nan", "huge"}]
    BY <2>2
  <2>. QED
    BY <2>1, <2>2, Zenon DEF Double
<1>3. CASE v.kind = "nan"
  <2>1. Dtoa(v, str) = <<"nan">>
    BY <1>3 DEF Dtoa
  <2> DEFINE nan == "nan"
  <2>2. nan \in Words
    BY <1>1
  <2> HIDE DEF nan
  <2>3. <<nan>> \in Seq(Words)
    BY <2>2, One
  <2>. QED
    BY <2>1, <2>3 DEF nan
<1>4. CASE v.kind = "huge"
  BY <1>4 DEF Dtoa
<1>5. CASE v.kind = "number"
  <2> DEFINE r == Rounded(v)
             sign == IF v.neg THEN <<"-">> ELSE <<>>
             before == Decimal[r[1]]
             behind == IF r[2] = 0 THEN <<>> ELSE <<".">> \o Fraction(r[2])
  <2>1. r[1] \in Nat /\ r[2] \in Nat
    BY <1>5, RoundedIs
  <2>2. Dtoa(v, str) = (sign \o before) \o behind
    BY <1>5 DEF Dtoa
  <2> HIDE DEF r
  <2>3. sign \in Seq(Words)
    <3> DEFINE minus == "-"
    <3>1. minus \in Words
      BY <1>1
    <3> HIDE DEF minus
    <3>2. <<minus>> \in Seq(Words) /\ <<>> \in Seq(Words)
      BY <3>1, One
    <3>. QED
      BY <3>2, Zenon DEF minus
  <2>4. before \in Seq(Words)
    <3>1. before \in Seq(Decimals)
      BY <2>1, DecimalIs
    <3> HIDE DEF before
    <3>. QED
      BY <1>1, <3>1, SeqMonotonic
  <2>5. behind \in Seq(Words)
    <3>1. CASE r[2] = 0
      BY <3>1
    <3>2. CASE r[2] # 0
      <4> DEFINE point == "."
                 fraction == Fraction(r[2])
      <4>1. point \in Words
        BY <1>1
      <4>2. fraction \in Seq(Decimals)
        BY <2>1, <3>2, FractionIs
      <4> HIDE DEF point, fraction
      <4>3. <<point>> \in Seq(Words) /\ fraction \in Seq(Words)
        BY <1>1, <4>1, <4>2, One, SeqMonotonic
      <4>4. <<point>> \o fraction \in Seq(Words)
        BY <4>3, ConcatProperties
      <4>. QED
        BY <3>2, <4>4, Zenon DEF point, fraction
    <3>. QED
      BY <3>1, <3>2
  <2> HIDE DEF sign, before, behind
  <2>6. (sign \o before) \o behind \in Seq(Words)
    BY <2>3, <2>4, <2>5
  <2>. QED
    BY <2>2, <2>6
<1>. QED
  BY <1>2, <1>3, <1>4, <1>5
-------------------------------------------------------------------------------
(* The functions of the writer. *)

Writable(value) ==
  /\ value.kind \in {"string", "raw", "int", "double", "object", "array"}
  /\ value.kind = "int" => value.int \in Int
  /\ value.kind = "double" => value.double \in Double
  /\ value.kind = "string" => IsText(Quoted(value.text)) /\ Silent(Quoted(value.text))
  /\ value.kind = "raw" => IsText(value.text) /\ Silent(value.text)

LEMMA ValuesWritable ==
  ASSUME NEW value \in Values \cup Elements
  PROVE  Writable(value)
<1>1. /\ value \in Value
      /\ value.kind \in {"string", "raw"} => IsText(value.text)
      /\ value.kind = "string" => Quote \notin Range(value.text)
      /\ value.kind = "raw" =>
           Range(value.text) \cap ({Quote} \cup Openers \cup Closers) = {}
  BY ValuesAssumption
<1>2. /\ value.kind \in {"string", "raw", "int", "double", "object", "array"}
      /\ value.kind = "int" => value.int \in Int
      /\ value.kind = "double" => value.double \in Double
  <2> DEFINE D == Double
  <2>1. \/ value \in [kind : {"string", "raw"}, text : Text]
        \/ value \in [kind : {"int"}, int : Int]
        \/ value \in [kind : {"double"}, double : D]
        \/ value \in [kind : {"object", "array"}]
    BY <1>1, Zenon DEF Value
  <2> HIDE DEF D
  <2>2. CASE value \in [kind : {"string", "raw"}, text : Text]
    BY <2>2
  <2>3. CASE value \in [kind : {"int"}, int : Int]
    BY <2>3
  <2>4. CASE value \in [kind : {"double"}, double : D]
    BY <2>4 DEF D
  <2>5. CASE value \in [kind : {"object", "array"}]
    BY <2>5
  <2>. QED
    BY <2>1, <2>2, <2>3, <2>4, <2>5
<1> DEFINE s == value.text
<1>3. value.kind = "string" => IsText(Quoted(s)) /\ Silent(Quoted(s))
  <2> SUFFICES ASSUME value.kind = "string" PROVE IsText(Quoted(s)) /\ Silent(Quoted(s))
    OBVIOUS
  <2>1. IsText(s) /\ Quote \notin Range(s)
    BY <1>1
  <2> HIDE DEF s
  <2>2. s \in Text /\ DOMAIN s = 1..Len(s)
    BY <2>1 DEF IsText, Text
  <2>3. \A i \in 1..Len(s) : s[i] # Quote
    BY <2>1, <2>2 DEF Range
  <2>. QED
    BY <2>1, <2>2, <2>3, TextQuoted, SilentQuoted
<1>4. value.kind = "raw" => IsText(s) /\ Silent(s)
  <2> SUFFICES ASSUME value.kind = "raw" PROVE IsText(s) /\ Silent(s)
    OBVIOUS
  <2>1. IsText(s) /\ Range(s) \cap ({Quote} \cup Openers \cup Closers) = {}
    BY <1>1
  <2> HIDE DEF s
  <2>2. s \in Text /\ DOMAIN s = 1..Len(s)
    BY <2>1 DEF IsText, Text
  <2>3. \A i \in 1..Len(s) : s[i] \notin {Quote} \cup Openers \cup Closers
    BY <2>1, <2>2 DEF Range
  <2>. QED
    BY <2>1, <2>2, <2>3, SilentPlain DEF Plain
<1>. QED
  BY <1>2, <1>3, <1>4, Zenon DEF Writable, s

LEMMA ConvertedIs ==
  ASSUME NEW w, Good(w), NEW value, Writable(value)
  PROVE  Through(w, Converted(w, value))
<1>1. ASSUME NEW s \in Seq(Words) PROVE Through(w, [w EXCEPT !.tempbuf = s])
  <2> DEFINE v == [w EXCEPT !.tempbuf = s]
  <2>1. s \in Text
    BY WordsText DEF IsText
  <2>2. /\ v \in Control /\ v.buffer = w.buffer /\ v.bufp = w.bufp /\ v.buflen = w.buflen
        /\ v.error = w.error /\ v.nodeStack = w.nodeStack /\ v.tempbuf = s
    BY <2>1 DEF Good, Control
  <2> HIDE DEF v
  <2>3. Good(v)
    BY <2>2 DEF Good
  <2>4. Types(v) = Types(w)
    BY <2>2 DEF Types
  <2>5. Through(w, v)
    BY <2>2, <2>3, <2>4 DEF Through
  <2>. QED
    BY <2>5 DEF v
<1>2. CASE value.kind = "int"
  <2>1. Itoa(value.int) \in Seq(Words)
    BY <1>2, ItoaIs DEF Writable
  <2>2. Converted(w, value) = [w EXCEPT !.tempbuf = Itoa(value.int)]
    BY <1>2 DEF Converted
  <2>. QED
    BY <1>1, <2>1, <2>2
<1>3. CASE value.kind = "double"
  <2> DEFINE s == Dtoa(value.double, w.tempbuf)
  <2>1. s \in Seq(Words)
    BY <1>3, DtoaIs DEF Writable, Good
  <2>2. Converted(w, value) = [w EXCEPT !.tempbuf = s]
    BY <1>3 DEF Converted
  <2> HIDE DEF s
  <2>. QED
    BY <1>1, <2>1, <2>2
<1>4. CASE value.kind \notin {"int", "double"}
  <2>1. Converted(w, value) = w
    BY <1>4 DEF Converted
  <2>. QED
    BY <2>1, ThroughSelf
<1>. QED
  BY <1>2, <1>3, <1>4

LEMMA PlacedIs ==
  ASSUME NEW w, Good(w), NEW type, NEW err \in Error, err # "OK"
  PROVE  /\ Through(w, Placed(w, type, err))
         /\ Placed(w, type, err).error = "OK" => Top(w).nodeType = type
<1> DEFINE ns == w.nodeStack
           n == Len(ns)
           R == [nodeType : NodeType, elementNo : Nat]
           raised == [ns EXCEPT ![n].elementNo = ns[n].elementNo + 1]
           counted == [w EXCEPT !.callNo = w.callNo + 1]
           member == [counted EXCEPT !.nodeStack = raised]
           v == Placed(w, type, err)
<1>1. w \in Control /\ w.callNo \in Nat /\ ns \in Seq(R) /\ n \in Nat \ {0}
  BY DEF Good, Control
<1>2. v = IF Top(w).nodeType # type THEN [counted EXCEPT !.error = err]
          ELSE IF Top(w).elementNo > 0 THEN Put(member, Comma) ELSE member
  <2>1. counted.nodeStack = ns
    BY <1>1 DEF Control
  <2>. QED
    BY <2>1 DEF Placed
<1>3. /\ raised \in Seq(R) /\ Len(raised) = n
      /\ \A i \in 1..n : raised[i].nodeType = ns[i].nodeType
  <2> DEFINE one == [ns[n] EXCEPT !.elementNo = ns[n].elementNo + 1]
  <2> HIDE DEF ns, n
  <2>1. n \in 1..n /\ n = Len(ns)
    BY <1>1 DEF n
  <2>2. ns[n] \in R
    <3> HIDE DEF R
    <3>. QED
      BY <1>1, <2>1, ElementOfSeq
  <2>3. one \in R /\ one.nodeType = ns[n].nodeType
    BY <2>2
  <2>4. raised = [ns EXCEPT ![n] = one]
    OBVIOUS
  <2> HIDE DEF one, R, raised
  <2>5. /\ raised \in Seq(R) /\ Len(raised) = Len(ns)
        /\ \A i \in 1..Len(ns) : raised[i] = IF i = n THEN one ELSE ns[i]
    BY <1>1, <2>1, <2>3, <2>4, ExceptSeq
  <2>. QED
    BY <2>1, <2>3, <2>5
<1>4. Good(counted) /\ Types(counted) = Types(w) /\ counted.buffer = w.buffer
      /\ counted.error = w.error /\ counted \in Control
  <2>1. /\ counted \in Control /\ counted.buffer = w.buffer /\ counted.bufp = w.bufp
        /\ counted.buflen = w.buflen /\ counted.error = w.error /\ counted.nodeStack = ns
        /\ counted.tempbuf = w.tempbuf
    BY <1>1 DEF Control
  <2> HIDE DEF counted
  <2>. QED
    BY <2>1 DEF Good, Types
<1> HIDE DEF counted, raised
<1>5. Good([counted EXCEPT !.error = err]) /\ [counted EXCEPT !.error = err].error # "OK"
  <2> DEFINE u == [counted EXCEPT !.error = err]
  <2>1. /\ u \in Control /\ u.buffer = counted.buffer /\ u.bufp = counted.bufp
        /\ u.buflen = counted.buflen /\ u.error = err /\ u.nodeStack = counted.nodeStack
        /\ u.tempbuf = counted.tempbuf
    BY <1>4 DEF Control
  <2> HIDE DEF u
  <2>2. Good(u) /\ u.error # "OK"
    BY <1>4, <2>1 DEF Good
  <2>. QED
    BY <2>2 DEF u
<1>6. Through(w, member)
  <2>1. /\ member \in Control /\ member.buffer = counted.buffer /\ member.bufp = counted.bufp
        /\ member.buflen = counted.buflen /\ member.error = counted.error
        /\ member.nodeStack = raised /\ member.tempbuf = counted.tempbuf
    BY <1>3, <1>4 DEF Control
  <2> HIDE DEF member
  <2>2. Good(member)
    BY <1>1, <1>3, <1>4, <2>1 DEF Good
  <2>3. Types(member) = Types(w)
    <3> HIDE DEF ns, n
    <3>1. Types(member) = [i \in 1..n |-> raised[i].nodeType]
      BY <1>3, <2>1 DEF Types
    <3>2. Types(w) = [i \in 1..n |-> ns[i].nodeType]
      BY DEF Types, n, ns
    <3>. QED
      BY <1>3, <3>1, <3>2
  <2>. QED
    BY <1>4, <2>1, <2>2, <2>3 DEF Through
<1> HIDE DEF member
<1>7. CASE Top(w).nodeType # type
  BY <1>2, <1>5, <1>7 DEF Through
<1>8. CASE Top(w).nodeType = type
  <2>1. Through(member, Put(member, Comma))
    <3>1. Good(member) /\ IsString(Comma) /\ Comma \notin {Quote} \cup Openers \cup Closers
      BY <1>6, PieceStrings, Pieces DEF Through
    <3>. QED
      BY <3>1, ThroughOne
  <2>2. Through(w, Put(member, Comma))
    BY <1>6, <2>1, ThroughTwo
  <2>3. v = Put(member, Comma) \/ v = member
    BY <1>2, <1>8
  <2> HIDE DEF v
  <2>4. Through(w, v)
    BY <1>6, <2>2, <2>3
  <2>. QED
    BY <1>8, <2>4 DEF v
<1>. QED
  BY <1>7, <1>8

\* The piece that a member is put with: what is not skipped needed a node of the type
LEMMA ArrItemIs ==
  ASSUME NEW w, Good(w)
  PROVE  /\ Through(w, ArrItem(w))
         /\ ArrItem(w).error = "OK" => Top(w).nodeType = "JW_ARRAY"
<1> DEFINE v == Placed(w, "JW_ARRAY", "NOT_ARRAY")
<1>1. Through(w, v) /\ (v.error = "OK" => Top(w).nodeType = "JW_ARRAY")
  BY PlacedIs DEF Error
<1>2. ArrItem(w) = IF w.error # "OK" THEN w ELSE Pretty(v)
  BY DEF ArrItem
<1> HIDE DEF v
<1>3. Through(v, Pretty(v))
  BY <1>1, ThroughPretty DEF Through
<1>4. Through(w, Pretty(v)) /\ (Pretty(v).error = "OK" => v.error = "OK")
  BY <1>1, <1>3, ThroughTwo DEF Through
<1>. QED
  BY <1>1, <1>2, <1>4, ThroughSelf

LEMMA ObjKeyIs ==
  ASSUME NEW w, Good(w), NEW key \in Keys
  PROVE  /\ Through(w, ObjKey(w, key))
         /\ ObjKey(w, key).error = "OK" => Top(w).nodeType = "JW_OBJECT"
<1> DEFINE v == Placed(w, "JW_OBJECT", "NOT_OBJECT")
           tail == <<Colon>> \o IF w.isPretty THEN <<Space>> ELSE <<>>
           s == Quoted(key) \o tail
<1>1. Through(w, v) /\ (v.error = "OK" => Top(w).nodeType = "JW_OBJECT")
  BY PlacedIs DEF Error
<1>2. ObjKey(w, key) = IF w.error # "OK" THEN w ELSE Puts(Pretty(v), s)
  <2>1. s = Quoted(key) \o <<Colon>> \o IF w.isPretty THEN <<Space>> ELSE <<>>
    <3>1. Quoted(key) \in Seq(STRING) /\ <<Colon>> \in Seq(STRING)
          /\ (IF w.isPretty THEN <<Space>> ELSE <<>>) \in Seq(STRING)
      <4>1. IsText(Quoted(key)) /\ IsText(<<Colon>>) /\ IsText(<<Space>>)
        BY ValuesAssumption, TextQuoted, TextOne, PieceStrings
      <4>2. Quoted(key) \in Text /\ <<Colon>> \in Text /\ <<Space>> \in Text
        BY <4>1 DEF IsText
      <4>3. <<>> \in Text
        BY DEF Text
      <4>4. (IF w.isPretty THEN <<Space>> ELSE <<>>) \in Text
        BY <4>2, <4>3, Zenon
      <4>. QED
        BY <4>2, <4>4, Zenon DEF Text
    <3> DEFINE a == Quoted(key)
               b == <<Colon>>
               c == IF w.isPretty THEN <<Space>> ELSE <<>>
               T == STRING
    <3>2. a \in Seq(T) /\ b \in Seq(T) /\ c \in Seq(T)
      BY <3>1
    <3> HIDE DEF a, b, c, T
    <3>3. a \o (b \o c) = (a \o b) \o c
      BY <3>2, ConcatAssociative
    <3>. QED
      BY <3>3, Zenon DEF a, b, c
  <2>. QED
    BY <2>1, Zenon DEF ObjKey
<1> HIDE DEF v
<1>3. IsText(Quoted(key)) /\ Silent(Quoted(key))
  <2>1. IsText(key) /\ Quote \notin Range(key)
    BY ValuesAssumption
  <2>2. key \in Text /\ DOMAIN key = 1..Len(key)
    BY <2>1 DEF IsText, Text
  <2>3. \A i \in 1..Len(key) : key[i] # Quote
    BY <2>1, <2>2 DEF Range
  <2>. QED
    BY <2>1, <2>2, <2>3, TextQuoted, SilentQuoted
<1>4. IsText(tail) /\ Silent(tail)
  <2>1. /\ IsText(<<Colon>>) /\ IsText(<<Space>>)
        /\ Silent(<<Colon>>) /\ Silent(<<Space>>)
    BY PieceStrings, Pieces, TextOne, PlainOne, SilentPlain
  <2>2. IsText(<<>>) /\ Silent(<<>>)
    <3>1. <<>> \in Text /\ DOMAIN <<>> = {} /\ Len(<<>>) = 0
      BY DEF Text
    <3>. QED
      BY <3>1, SilentPlain DEF IsText, Plain
  <2>3. IsText(IF w.isPretty THEN <<Space>> ELSE <<>>)
        /\ Silent(IF w.isPretty THEN <<Space>> ELSE <<>>)
    BY <2>1, <2>2
  <2>. QED
    BY <2>1, <2>3, TextCat, SilentCat, Zenon
<1> HIDE DEF tail
<1>5. IsText(s) /\ Silent(s)
  BY <1>3, <1>4, TextCat, SilentCat, Zenon
<1> HIDE DEF s
<1>6. Through(v, Pretty(v)) /\ Good(Pretty(v))
  BY <1>1, ThroughPretty DEF Through
<1>7. Through(Pretty(v), Puts(Pretty(v), s))
  BY <1>5, <1>6, ThroughPuts
<1>8. Through(w, Puts(Pretty(v), s)) /\ (Puts(Pretty(v), s).error = "OK" => v.error = "OK")
  BY <1>1, <1>6, <1>7, ThroughTwo DEF Through
<1>. QED
  BY <1>1, <1>2, <1>8, ThroughSelf

\* A bracket, outside of a string, is put on the brackets that are open or takes the last
LEMMA PutBracket ==
  ASSUME NEW w, Good(w), NEW piece \in Openers \cup Closers
  PROVE  LET v == Put(w, piece)
         IN  /\ Good(v) /\ v.nodeStack = w.nodeStack
             /\ v.error = "OK" =>
                  /\ w.error = "OK" /\ v.buffer = w.buffer \o <<piece>>
                  /\ ~State(w.buffer).inside =>
                       State(v.buffer) = [inside |-> FALSE,
                                          opened |-> Turned(State(w.buffer).opened, FALSE, piece)]
                  /\ Headed(w.buffer) => Headed(v.buffer)
<1> DEFINE v == Put(w, piece)
<1>1. IsString(piece) /\ piece # Quote
  BY PieceStrings, Pieces DEF Openers, Closers
<1>2. PutAll(w, <<piece>>, v)
  BY <1>1, PutIs DEF PutAll
<1> HIDE DEF v
<1>3. Good(v) /\ v.nodeStack = w.nodeStack
  BY <1>2 DEF PutAll, Kept
<1>4. ASSUME v.error = "OK"
      PROVE  /\ w.error = "OK" /\ v.buffer = w.buffer \o <<piece>>
             /\ ~State(w.buffer).inside =>
                  State(v.buffer) = [inside |-> FALSE,
                                     opened |-> Turned(State(w.buffer).opened, FALSE, piece)]
             /\ Headed(w.buffer) => Headed(v.buffer)
  <2>1. w.error = "OK" /\ v.buffer = w.buffer \o <<piece>>
    BY <1>2, <1>4 DEF PutAll, Added
  <2>2. w.buffer \in Text /\ <<piece>> \in Text /\ piece \in STRING
    <3>1. IsText(<<piece>>)
      BY <1>1, TextOne
    <3>. QED
      BY <1>1, <3>1 DEF Good, Measured, IsText, IsString
  <2>3. ASSUME ~State(w.buffer).inside
        PROVE  State(w.buffer \o <<piece>>) =
                 [inside |-> FALSE, opened |-> Turned(State(w.buffer).opened, FALSE, piece)]
    <3>1. State(w.buffer).inside = FALSE
      <4>1. State(w.buffer).inside \in BOOLEAN
        BY <2>2, StateText
      <4>. QED
        BY <2>3, <4>1
    <3>2. FALSE = IF piece = Quote THEN ~State(w.buffer).inside ELSE State(w.buffer).inside
      BY <1>1, <3>1
    <3>. QED
      BY <2>2, <3>2, StateAppend
  <2>4. Headed(w.buffer) => Headed(w.buffer \o <<piece>>)
    BY <2>2, HeadedCat
  <2>. QED
    BY <2>1, <2>3, <2>4
<1>. QED
  BY <1>3, <1>4 DEF v

\* The same structure with another stack
LEMMA StackIs ==
  ASSUME NEW w, Good(w), NEW s, s \in Seq([nodeType : NodeType, elementNo : Nat]),
         Len(s) # 0, NEW v, v = [w EXCEPT !.nodeStack = s]
  PROVE  /\ Good(v) /\ v.nodeStack = s /\ v.buffer = w.buffer /\ v.error = w.error
<1>1. w \in Control /\ Len(s) \in Nat \ {0}
  BY DEF Good
<1>2. /\ v \in Control /\ v.buffer = w.buffer /\ v.bufp = w.bufp /\ v.buflen = w.buflen
      /\ v.error = w.error /\ v.nodeStack = s /\ v.tempbuf = w.tempbuf
  BY <1>1 DEF Control
<1>. QED
  BY <1>1, <1>2 DEF Good

LEMMA PushIs ==
  ASSUME NEW w, Good(w), NEW type \in NodeType
  PROVE  LET v == Push(w, type)
         IN  /\ Good(v)
             /\ v.error = "OK" => /\ w.error = "OK" /\ v.buffer = w.buffer
                                  /\ Types(v) = Append(Types(w), type)
<1> DEFINE R == [nodeType : NodeType, elementNo : Nat]
           ns == w.nodeStack
           n == Len(ns)
           one == Node(type)
           s == Append(ns, one)
           v == [w EXCEPT !.nodeStack = s]
<1>1. w \in Control /\ ns \in Seq(R) /\ n \in Nat \ {0}
  BY DEF Good, Control
<1>2. one \in R /\ one.nodeType = type
  BY DEF Node
<1>3. CASE Len(w.nodeStack) >= JWRITE_STACK_DEPTH
  <2> DEFINE u == [w EXCEPT !.error = "STACK_FULL"]
  <2>1. Push(w, type) = u
    BY <1>3 DEF Push
  <2>2. /\ u \in Control /\ u.buffer = w.buffer /\ u.bufp = w.bufp /\ u.buflen = w.buflen
        /\ u.error = "STACK_FULL" /\ u.nodeStack = w.nodeStack /\ u.tempbuf = w.tempbuf
    BY <1>1 DEF Control, Error
  <2> HIDE DEF u
  <2>3. Good(u)
    BY <2>2 DEF Good
  <2>. QED
    BY <2>1, <2>2, <2>3
<1>4. CASE ~(Len(w.nodeStack) >= JWRITE_STACK_DEPTH)
  <2>1. Push(w, type) = v
    BY <1>4 DEF Push
  <2>2. /\ s \in Seq(R) /\ Len(s) = n + 1
        /\ \A i \in 1..n : s[i] = ns[i]
        /\ s[n + 1] = one
    <3> HIDE DEF R, ns, one
    <3>1. ns \in Seq(R) /\ n = Len(ns) /\ n \in Nat
      BY <1>1
    <3>. QED
      BY <1>2, <3>1
  <2> HIDE DEF s, one
  <2>3. Good(v) /\ v.nodeStack = s /\ v.buffer = w.buffer /\ v.error = w.error
    <3>1. Len(s) # 0
      <4> HIDE DEF n
      <4>. QED
        BY <1>1, <2>2
    <3>. QED
      BY <2>2, <3>1, StackIs
  <2> HIDE DEF v
  <2>4. Types(v) = Append(Types(w), type)
    <3> HIDE DEF ns, n
    <3>1. Types(v) = [i \in 1..(n + 1) |-> s[i].nodeType]
      BY <2>2, <2>3 DEF Types
    <3>2. Types(w) = [i \in 1..n |-> ns[i].nodeType]
      BY DEF Types, n, ns
    <3>3. \A i \in 1..(n + 1) : s[i].nodeType = IF i <= n THEN ns[i].nodeType ELSE type
      BY <1>1, <1>2, <2>2
    <3>4. \A i \in 1..n : ns[i].nodeType \in NodeType
      <4>1. \A i \in 1..n : ns[i] \in R
        <5> HIDE DEF R
        <5>1. n = Len(ns)
          BY DEF n
        <5>. QED
          BY <1>1, <5>1, ElementOfSeq
      <4>. QED
        BY <4>1
    <3> HIDE DEF R
    <3>. QED
      BY <1>1, <3>1, <3>2, <3>3, <3>4
  <2>. QED
    BY <2>1, <2>3, <2>4
<1>. QED
  BY <1>3, <1>4

LEMMA PopIs ==
  ASSUME NEW w, Good(w)
  PROVE  LET v == Pop(w)
         IN  /\ Good(v)
             /\ v.error = "OK" => /\ w.error = "OK" /\ v.buffer = w.buffer
                                  /\ Len(w.nodeStack) >= 2
                                  /\ Types(v) = SubSeq(Types(w), 1, Len(w.nodeStack) - 1)
<1> DEFINE R == [nodeType : NodeType, elementNo : Nat]
           ns == w.nodeStack
           n == Len(ns)
           s == SubSeq(ns, 1, n - 1)
           v == [w EXCEPT !.nodeStack = s]
<1>1. w \in Control /\ ns \in Seq(R) /\ n \in Nat \ {0}
  BY DEF Good, Control
<1>2. CASE Len(w.nodeStack) = 1
  <2> DEFINE u == [w EXCEPT !.error = "STACK_EMPTY"]
  <2>1. Pop(w) = u
    BY <1>2 DEF Pop
  <2>2. /\ u \in Control /\ u.buffer = w.buffer /\ u.bufp = w.bufp /\ u.buflen = w.buflen
        /\ u.error = "STACK_EMPTY" /\ u.nodeStack = w.nodeStack /\ u.tempbuf = w.tempbuf
    BY <1>1 DEF Control, Error
  <2> HIDE DEF u
  <2>3. Good(u)
    BY <2>2 DEF Good
  <2>. QED
    BY <2>1, <2>2, <2>3
<1>3. CASE Len(w.nodeStack) # 1
  <2>1. Pop(w) = v
    BY <1>3 DEF Pop
  <2>2. /\ n >= 2 /\ s \in Seq(R) /\ Len(s) = n - 1
        /\ \A i \in 1..(n - 1) : s[i] = ns[i]
    <3>1. n # 1 /\ n \in Nat \ {0}
      BY <1>1, <1>3
    <3>2. n = Len(ns) /\ ns \in Seq(R)
      BY <1>1
    <3> HIDE DEF n, R, ns
    <3>3. n \in Nat /\ n >= 2
      BY <3>1
    <3>. QED
      BY <3>2, <3>3
  <2> HIDE DEF s
  <2>3. Good(v) /\ v.nodeStack = s /\ v.buffer = w.buffer /\ v.error = w.error
    <3>1. Len(s) # 0
      <4> HIDE DEF n
      <4>. QED
        BY <1>1, <2>2
    <3>. QED
      BY <2>2, <3>1, StackIs
  <2> HIDE DEF v
  <2>4. Types(v) = SubSeq(Types(w), 1, n - 1)
    <3> HIDE DEF ns, n
    <3>1. Types(v) = [i \in 1..(n - 1) |-> s[i].nodeType]
      BY <2>2, <2>3 DEF Types
    <3>2. Types(w) = [i \in 1..n |-> ns[i].nodeType]
      BY DEF Types, n, ns
    <3>3. \A i \in 1..(n - 1) : s[i].nodeType = ns[i].nodeType
      BY <2>2
    <3>4. \A i \in 1..n : ns[i].nodeType \in NodeType
      <4>1. \A i \in 1..n : ns[i] \in R
        <5> HIDE DEF R
        <5>1. n = Len(ns)
          BY DEF n
        <5>. QED
          BY <1>1, <5>1, ElementOfSeq
      <4>. QED
        BY <4>1
    <3> HIDE DEF R
    <3>. QED
      BY <1>1, <2>2, <3>1, <3>2, <3>3, <3>4
  <2>. QED
    BY <2>1, <2>2, <2>3, <2>4
<1>. QED
  BY <1>2, <1>3
-------------------------------------------------------------------------------
(* A document that is open: the nodes and the brackets. *)

Kinds == {"JW_OBJECT", "JW_ARRAY"}
Brackets(ts) == [i \in 1..Len(ts) |-> Bracket[ts[i]]]
Nested(w) == /\ Headed(w.buffer) /\ Types(w) \in Seq(Kinds)
             /\ State(w.buffer) = [inside |-> FALSE, opened |-> Brackets(Types(w))]

LEMMA TypesIs ==
  ASSUME NEW w, Good(w)
  PROVE  /\ Types(w) \in Seq(NodeType) /\ Len(Types(w)) = Len(w.nodeStack)
         /\ Len(Types(w)) \in Nat \ {0}
         /\ Top(w).nodeType = Types(w)[Len(Types(w))]
<1> DEFINE R == [nodeType : NodeType, elementNo : Nat]
           ns == w.nodeStack
           n == Len(ns)
<1>1. ns \in Seq(R) /\ n \in Nat \ {0}
  BY DEF Good, Control
<1>2. \A i \in 1..n : ns[i].nodeType \in NodeType
  <2>1. \A i \in 1..n : ns[i] \in R
    <3> HIDE DEF R
    <3>1. n = Len(ns)
      BY DEF n
    <3>. QED
      BY <1>1, <3>1, ElementOfSeq
  <2>. QED
    BY <2>1
<1>3. Types(w) = [i \in 1..n |-> ns[i].nodeType] /\ Top(w).nodeType = ns[n].nodeType
      /\ n = Len(w.nodeStack)
  BY DEF Types, Top
<1> HIDE DEF R, ns, n
<1>4. Types(w) \in Seq(NodeType) /\ Len(Types(w)) = n
  BY <1>1, <1>2, <1>3
<1>5. n \in 1..n
  BY <1>1
<1>. QED
  BY <1>1, <1>3, <1>4, <1>5

LEMMA BracketsIs ==
  ASSUME NEW ts, ts \in Seq(Kinds)
  PROVE  /\ Brackets(ts) \in Text /\ Len(Brackets(ts)) = Len(ts)
         /\ \A type \in Kinds : Brackets(Append(ts, type)) = Append(Brackets(ts), Bracket[type])
         /\ Len(ts) # 0 => Brackets(SubSeq(ts, 1, Len(ts) - 1))
                             = SubSeq(Brackets(ts), 1, Len(Brackets(ts)) - 1)
<1> DEFINE T == STRING
<1>1. \A type \in Kinds : Bracket[type] \in T
  BY Pieces DEF Kinds, Bracket
<1> HIDE DEF T
<1>2. Brackets(ts) \in Seq(T) /\ Len(Brackets(ts)) = Len(ts)
  <2>1. \A i \in 1..Len(ts) : ts[i] \in Kinds
    BY ElementOfSeq
  <2>. QED
    BY <1>1, <2>1 DEF Brackets
<1>3. ASSUME NEW type \in Kinds
      PROVE  Brackets(Append(ts, type)) = Append(Brackets(ts), Bracket[type])
  BY <1>1, <1>2 DEF Brackets
<1>4. ASSUME Len(ts) # 0
      PROVE  Brackets(SubSeq(ts, 1, Len(ts) - 1))
               = SubSeq(Brackets(ts), 1, Len(Brackets(ts)) - 1)
  BY <1>1, <1>2, <1>4 DEF Brackets
<1>. QED
  BY <1>2, <1>3, <1>4 DEF T, Text

LEMMA NestedThrough ==
  ASSUME NEW w, NEW v, Through(w, v), v.error = "OK", Nested(w)
  PROVE  Nested(v)
BY DEF Through, Nested

\* A member is a string, a text, a number or the start of a node: the node is put on the
\* stack and its bracket in the text.
LEMMA PutNode ==
  ASSUME NEW w, Good(w), Nested(w), NEW type \in Kinds
  PROVE  LET v == Push(Put(w, Bracket[type]), type)
         IN  Good(v) /\ (v.error = "OK" => w.error = "OK" /\ Nested(v))
<1> DEFINE b == Bracket[type]
           u == Put(w, b)
           v == Push(u, type)
<1>1. b \in Openers \cup Closers /\ b \in Openers /\ type \in NodeType
  BY Pieces DEF Bracket, Kinds, NodeType
<1> HIDE DEF b
<1>2. /\ Good(u) /\ u.nodeStack = w.nodeStack
      /\ u.error = "OK" =>
           /\ w.error = "OK"
           /\ ~State(w.buffer).inside =>
                State(u.buffer) = [inside |-> FALSE,
                                   opened |-> Turned(State(w.buffer).opened, FALSE, b)]
           /\ Headed(w.buffer) => Headed(u.buffer)
  BY <1>1, PutBracket
<1>3. Types(u) = Types(w)
  BY <1>2 DEF Types
<1> HIDE DEF u
<1>4. /\ Good(v)
      /\ v.error = "OK" => u.error = "OK" /\ v.buffer = u.buffer
                           /\ Types(v) = Append(Types(u), type)
  BY <1>1, <1>2, PushIs
<1> HIDE DEF v
<1>5. ASSUME v.error = "OK" PROVE w.error = "OK" /\ Nested(v)
  <2> DEFINE ts == Types(w)
  <2>1. ts \in Seq(Kinds) /\ State(w.buffer).inside = FALSE
        /\ State(w.buffer).opened = Brackets(ts) /\ Headed(w.buffer)
    BY DEF Nested
  <2> HIDE DEF ts
  <2>2. w.error = "OK" /\ Headed(v.buffer) /\ Types(v) = Append(ts, type)
    BY <1>2, <1>3, <1>4, <1>5, <2>1 DEF ts
  <2>3. State(v.buffer) = [inside |-> FALSE, opened |-> Turned(Brackets(ts), FALSE, b)]
    BY <1>2, <1>4, <1>5, <2>1
  <2>4. Turned(Brackets(ts), FALSE, b) = Append(Brackets(ts), b)
    <3>1. b \in Openers /\ b \notin Closers
      BY <1>1, Pieces
    <3>. QED
      BY <3>1, Zenon DEF Turned
  <2>5. Append(Brackets(ts), b) = Brackets(Append(ts, type))
    BY <2>1, BracketsIs DEF b
  <2>6. Append(ts, type) \in Seq(Kinds)
    <3> HIDE DEF Kinds
    <3>. QED
      BY <2>1
  <2>. QED
    BY <2>2, <2>3, <2>4, <2>5, <2>6 DEF Nested
<1>. QED
  BY <1>4, <1>5 DEF v, u, b

LEMMA PutValueIs ==
  ASSUME NEW w, Good(w), w.error = "OK" => Nested(w), NEW value, Writable(value)
  PROVE  LET v == PutValue(w, value)
         IN  Good(v) /\ (v.error = "OK" => w.error = "OK" /\ Nested(v))
<1> DEFINE v == PutValue(w, value)
<1>1. CASE w.error # "OK"
  BY <1>1 DEF PutValue
<1>2. ASSUME w.error = "OK", NEW s, IsText(s), Silent(s), v = Puts(w, s)
      PROVE  Good(v) /\ (v.error = "OK" => w.error = "OK" /\ Nested(v))
  <2> HIDE DEF v
  <2>1. Through(w, v)
    BY <1>2, ThroughPuts
  <2>. QED
    BY <1>2, <2>1, NestedThrough DEF Through
<1>3. ASSUME w.error = "OK", NEW type \in Kinds, v = Push(Put(w, Bracket[type]), type)
      PROVE  Good(v) /\ (v.error = "OK" => w.error = "OK" /\ Nested(v))
  BY <1>3, PutNode
<1>4. CASE w.error = "OK" /\ value.kind = "string"
  <2>1. v = Puts(w, Quoted(value.text))
    BY <1>4 DEF PutValue
  <2> HIDE DEF v
  <2>2. Good(v) /\ (v.error = "OK" => w.error = "OK" /\ Nested(v))
    BY <1>2, <1>4, <2>1 DEF Writable
  <2>. QED
    BY <2>2 DEF v
<1>5. CASE w.error = "OK" /\ value.kind = "raw"
  <2>1. v = Puts(w, value.text)
    BY <1>5 DEF PutValue
  <2> HIDE DEF v
  <2>2. Good(v) /\ (v.error = "OK" => w.error = "OK" /\ Nested(v))
    BY <1>2, <1>5, <2>1 DEF Writable
  <2>. QED
    BY <2>2 DEF v
<1>6. CASE w.error = "OK" /\ value.kind \in {"int", "double"}
  <2>1. v = Puts(w, w.tempbuf)
    BY <1>6 DEF PutValue
  <2>2. IsText(w.tempbuf) /\ Silent(w.tempbuf)
    BY WordsText, SilentPlain DEF Good
  <2> HIDE DEF v
  <2>3. Good(v) /\ (v.error = "OK" => w.error = "OK" /\ Nested(v))
    BY <1>2, <1>6, <2>1, <2>2
  <2>. QED
    BY <2>3 DEF v
<1>7. CASE w.error = "OK" /\ value.kind = "object"
  <2>1. v = Push(Put(w, ObjectStart), "JW_OBJECT")
    BY <1>7 DEF PutValue
  <2>2. Bracket["JW_OBJECT"] = ObjectStart /\ "JW_OBJECT" \in Kinds
    BY DEF Bracket, Kinds
  <2> HIDE DEF v
  <2>3. Good(v) /\ (v.error = "OK" => w.error = "OK" /\ Nested(v))
    BY <1>3, <1>7, <2>1, <2>2
  <2>. QED
    BY <2>3 DEF v
<1>8. CASE w.error = "OK" /\ value.kind = "array"
  <2>1. v = Push(Put(w, ArrayStart), "JW_ARRAY")
    BY <1>8 DEF PutValue
  <2>2. Bracket["JW_ARRAY"] = ArrayStart /\ "JW_ARRAY" \in Kinds
    BY DEF Bracket, Kinds
  <2> HIDE DEF v
  <2>3. Good(v) /\ (v.error = "OK" => w.error = "OK" /\ Nested(v))
    BY <1>3, <1>8, <2>1, <2>2
  <2>. QED
    BY <2>3 DEF v
<1>. QED
  BY <1>1, <1>4, <1>5, <1>6, <1>7, <1>8 DEF Writable
-------------------------------------------------------------------------------
(* The calls, from a document that is open to one that is. *)

\* jwOpen with an array as the root leaves a document without a node.
Blank(w) == Types(w) = <<"NONE">> /\ \A i \in 1..Len(w.buffer) : w.buffer[i] \notin Openers
Underway(w) == Good(w) /\ (w.error = "OK" => Blank(w) \/ Nested(w))

\* Where a member is put there is a node, so a document.
LEMMA MemberNested ==
  ASSUME NEW w, Underway(w), NEW u, Through(w, u), NEW v, Through(u, v), NEW type \in Kinds,
         v.error = "OK" => Top(u).nodeType = type
  PROVE  Good(v) /\ (v.error = "OK" => w.error = "OK" /\ Nested(v))
<1>1. Good(v)
  BY DEF Through
<1>2. ASSUME v.error = "OK" PROVE w.error = "OK" /\ Nested(v)
  <2>1. u.error = "OK" /\ w.error = "OK" /\ Good(u) /\ Types(u) = Types(w)
    BY <1>2 DEF Through
  <2>2. Types(w)[Len(Types(w))] = type
    BY <1>2, <2>1, TypesIs
  <2>3. ~Blank(w)
    <3>1. SUFFICES ASSUME Blank(w) PROVE FALSE
      OBVIOUS
    <3>2. Types(w)[Len(Types(w))] = "NONE"
      BY <3>1 DEF Blank
    <3>. QED
      BY <2>2, <3>2 DEF Kinds
  <2>4. Nested(w)
    BY <2>1, <2>3 DEF Underway
  <2>5. Nested(u)
    BY <2>1, <2>4, NestedThrough
  <2>. QED
    BY <1>2, <2>1, <2>5, NestedThrough
<1>. QED
  BY <1>1, <1>2

LEMMA ObjIs ==
  ASSUME NEW w, Underway(w), NEW key \in Keys, NEW value, Writable(value)
  PROVE  Underway(Obj(w, key, value))
<1> DEFINE u == Converted(w, value)
           v == ObjKey(u, key)
<1>1. Good(w)
  BY DEF Underway
<1>2. Through(w, u)
  BY <1>1, ConvertedIs
<1> HIDE DEF u
<1>3. Through(u, v) /\ (v.error = "OK" => Top(u).nodeType = "JW_OBJECT")
  BY <1>2, ObjKeyIs DEF Through
<1> HIDE DEF v
<1>4. Good(v) /\ (v.error = "OK" => Nested(v))
  BY <1>2, <1>3, MemberNested DEF Kinds
<1>5. Underway(PutValue(v, value))
  BY <1>4, PutValueIs DEF Underway
<1>. QED
  BY <1>5 DEF Obj, u, v

LEMMA ArrIs ==
  ASSUME NEW w, Underway(w), NEW value, Writable(value)
  PROVE  Underway(Arr(w, value))
<1> DEFINE u == Converted(w, value)
           v == ArrItem(u)
<1>1. Good(w)
  BY DEF Underway
<1>2. Through(w, u)
  BY <1>1, ConvertedIs
<1> HIDE DEF u
<1>3. Through(u, v) /\ (v.error = "OK" => Top(u).nodeType = "JW_ARRAY")
  BY <1>2, ArrItemIs DEF Through
<1> HIDE DEF v
<1>4. Good(v) /\ (v.error = "OK" => Nested(v))
  BY <1>2, <1>3, MemberNested DEF Kinds
<1>5. Underway(PutValue(v, value))
  BY <1>4, PutValueIs DEF Underway
<1>. QED
  BY <1>5 DEF Arr, u, v

LEMMA TurnedClosed ==
  ASSUME NEW before, NEW piece \in Closers
  PROVE  Turned(before, FALSE, piece) = SubSeq(before, 1, Len(before) - 1)
<1>1. piece \in Closers /\ piece \notin Openers
  BY Pieces
<1>. QED
  BY <1>1, Zenon DEF Turned

\* What ends a node takes it from the stack and its bracket from those that are open.
LEMMA WriteEndIs ==
  ASSUME NEW w, Underway(w)
  PROVE  Underway(End(w))
<1> DEFINE u == Pop(w)
           v == IF Top(w).elementNo > 0 THEN Pretty(u) ELSE u
           piece == IF Top(w).nodeType = "JW_OBJECT" THEN ObjectEnd ELSE ArrayEnd
           e == Put(v, piece)
           ts == Types(w)
           n == Len(w.nodeStack)
<1>1. Good(w)
  BY DEF Underway
<1>2. /\ Good(u)
      /\ u.error = "OK" => /\ w.error = "OK" /\ u.buffer = w.buffer /\ n >= 2
                           /\ Types(u) = SubSeq(ts, 1, n - 1)
  BY <1>1, PopIs
<1>3. piece \in Closers /\ piece \in Openers \cup Closers
  BY Pieces
<1>4. End(w) = IF w.error # "OK" THEN w ELSE e
  BY DEF End
<1> HIDE DEF u, piece
<1>5. Through(u, v)
  BY <1>2, ThroughPretty, ThroughSelf
<1> HIDE DEF v
<1>6. /\ Good(e) /\ e.nodeStack = v.nodeStack
      /\ e.error = "OK" =>
           /\ v.error = "OK"
           /\ ~State(v.buffer).inside =>
                State(e.buffer) = [inside |-> FALSE,
                                   opened |-> Turned(State(v.buffer).opened, FALSE, piece)]
           /\ Headed(v.buffer) => Headed(e.buffer)
  BY <1>3, <1>5, PutBracket DEF Through
<1> HIDE DEF e
<1>7. ASSUME e.error = "OK" PROVE Nested(e)
  <2>1. /\ v.error = "OK" /\ u.error = "OK" /\ w.error = "OK"
        /\ Types(v) = Types(u) /\ Types(u) = SubSeq(ts, 1, n - 1)
    BY <1>2, <1>5, <1>6, <1>7 DEF Through
  <2>2. Len(ts) = n /\ n \in Nat \ {0} /\ n >= 2
    BY <1>1, <1>2, <2>1, TypesIs
  <2>3. Nested(w)
    <3>1. ~Blank(w)
      <4>1. SUFFICES ASSUME Blank(w) PROVE FALSE
        OBVIOUS
      <4>2. ts = <<"NONE">>
        BY <4>1 DEF Blank
      <4> HIDE DEF ts, n
      <4>3. Len(ts) = 1
        BY <4>2
      <4>. QED
        BY <2>2, <4>3
    <3>. QED
      BY <2>1, <3>1 DEF Underway
  <2>4. ts \in Seq(Kinds) /\ State(w.buffer).inside = FALSE
        /\ State(w.buffer).opened = Brackets(ts) /\ Headed(w.buffer)
    BY <2>3 DEF Nested
  <2> HIDE DEF ts, n
  <2>5. State(v.buffer).inside = FALSE /\ State(v.buffer).opened = Brackets(ts)
        /\ Headed(v.buffer)
    BY <1>2, <1>5, <2>1, <2>4 DEF Through
  <2>6. Headed(e.buffer)
        /\ State(e.buffer) = [inside |-> FALSE, opened |-> Turned(Brackets(ts), FALSE, piece)]
    BY <1>6, <1>7, <2>5
  <2>7. Turned(Brackets(ts), FALSE, piece) = Brackets(SubSeq(ts, 1, n - 1))
    <3>1. Brackets(SubSeq(ts, 1, Len(ts) - 1)) = SubSeq(Brackets(ts), 1, Len(Brackets(ts)) - 1)
      <4>1. Len(ts) # 0
        BY <2>2
      <4>. QED
        BY <2>4, <4>1, BracketsIs
    <3>. QED
      BY <1>3, <2>2, <3>1, TurnedClosed
  <2>8. Types(e) = SubSeq(ts, 1, n - 1)
    BY <1>6, <2>1 DEF Types
  <2>9. SubSeq(ts, 1, n - 1) \in Seq(Kinds)
    <3> HIDE DEF Kinds
    <3>. QED
      BY <2>2, <2>4
  <2>. QED
    BY <2>6, <2>7, <2>8, <2>9 DEF Nested
<1>. QED
  BY <1>4, <1>6, <1>7 DEF Underway

LEMMA BlankPut ==
  ASSUME NEW w, Good(w), NEW piece, IsString(piece), piece \notin Openers
  PROVE  LET v == Put(w, piece)
         IN  Good(v) /\ (v.error = "OK" => w.error = "OK" /\ (Blank(w) => Blank(v)))
<1> DEFINE v == Put(w, piece)
<1>1. PutAll(w, <<piece>>, v)
  BY PutIs DEF PutAll
<1> HIDE DEF v
<1>2. Good(v) /\ Types(v) = Types(w)
  BY <1>1 DEF PutAll, Kept, Types
<1>3. ASSUME v.error = "OK" PROVE w.error = "OK" /\ (Blank(w) => Blank(v))
  <2>1. w.error = "OK" /\ v.buffer = w.buffer \o <<piece>>
    BY <1>1, <1>3 DEF PutAll, Added
  <2>2. SUFFICES ASSUME Blank(w) PROVE Blank(v)
    BY <2>1
  <2>3. \A i \in 1..Len(v.buffer) : v.buffer[i] \notin Openers
    <3> DEFINE a == w.buffer
               b == <<piece>>
    <3>1. a \in Text /\ b \in Text /\ Len(b) = 1 /\ b[1] = piece
      BY TextOne DEF Good, Measured, IsText
    <3>2. \A i \in 1..Len(a) : a[i] \notin Openers
      BY <2>2 DEF Blank
    <3> HIDE DEF a, b
    <3>3. /\ Len(a \o b) = Len(a) + Len(b) /\ Len(a) \in Nat
          /\ \A k \in 1..Len(a) : (a \o b)[k] = a[k]
          /\ \A k \in 1..Len(b) : (a \o b)[Len(a) + k] = b[k]
      BY <3>1, Cat
    <3>4. \A i \in 1..Len(a \o b) : (a \o b)[i] \notin Openers
      <4>1. SUFFICES ASSUME NEW i \in 1..Len(a \o b) PROVE (a \o b)[i] \notin Openers
        OBVIOUS
      <4>2. CASE i <= Len(a)
        BY <3>2, <3>3, <4>2
      <4>3. CASE ~(i <= Len(a))
        <5>1. i = Len(a) + 1 /\ 1 \in 1..Len(b)
          BY <3>1, <3>3, <4>3
        <5>. QED
          BY <3>1, <3>3, <5>1
      <4>. QED
        BY <4>2, <4>3
    <3>. QED
      BY <2>1, <3>4 DEF a, b
  <2>. QED
    BY <1>2, <2>2, <2>3 DEF Blank
<1>. QED
  BY <1>2, <1>3 DEF v

\* A document that was closed without an error has no bracket open, or never had one.
Shut(w) ==
  /\ Good(w)
  /\ w.error = "OK" => \/ Blank(w)
                       \/ /\ Headed(w.buffer)
                          /\ State(w.buffer) = [inside |-> FALSE, opened |-> <<>>]

LEMMA WriteCloseIs ==
  ASSUME NEW w, Underway(w)
  PROVE  Shut(Close(w))
<1> DEFINE u == IF w.isPretty THEN Put(w, NewLine) ELSE w
           v == Put(u, ObjectEnd)
<1>1. Good(w)
  BY DEF Underway
<1>2. /\ IsString(NewLine) /\ IsString(ObjectEnd) /\ ObjectEnd \in Openers \cup Closers
      /\ NewLine \notin {Quote} \cup Openers \cup Closers /\ NewLine \notin Openers
      /\ ObjectEnd \in Closers /\ ObjectEnd \notin Openers
  BY PieceStrings, Pieces
<1>3. CASE w.error # "OK"
  BY <1>1, <1>3 DEF Close, Shut
<1>4. CASE w.error = "OK" /\ Len(w.nodeStack) # 1
  <2> DEFINE c == [w EXCEPT !.error = "NEST_ERROR"]
  <2>1. Close(w) = c
    BY <1>4 DEF Close
  <2>2. /\ c \in Control /\ c.buffer = w.buffer /\ c.bufp = w.bufp /\ c.buflen = w.buflen
        /\ c.error = "NEST_ERROR" /\ c.nodeStack = w.nodeStack /\ c.tempbuf = w.tempbuf
    BY <1>1 DEF Good, Control, Error
  <2> HIDE DEF c
  <2>3. Good(c)
    BY <1>1, <2>2 DEF Good
  <2>. QED
    BY <2>1, <2>2, <2>3 DEF Shut
<1>5. CASE w.error = "OK" /\ Len(w.nodeStack) = 1
  <2>1. Close(w) = v
    BY <1>5 DEF Close
  <2>2. Through(w, u) /\ (u.error = "OK" => (Blank(w) => Blank(u)))
    BY <1>1, <1>2, ThroughOne, ThroughSelf, BlankPut
  <2> HIDE DEF u
  <2>3. Good(v) /\ (v.error = "OK" => u.error = "OK" /\ (Blank(u) => Blank(v)))
    BY <1>2, <2>2, BlankPut DEF Through
  <2>4. v.error = "OK" =>
          /\ ~State(u.buffer).inside =>
               State(v.buffer) = [inside |-> FALSE,
                                  opened |-> Turned(State(u.buffer).opened, FALSE, ObjectEnd)]
          /\ Headed(u.buffer) => Headed(v.buffer)
    BY <1>2, <2>2, PutBracket DEF Through
  <2> HIDE DEF v
  <2>5. ASSUME v.error = "OK", Nested(w)
        PROVE  Headed(v.buffer) /\ State(v.buffer) = [inside |-> FALSE, opened |-> <<>>]
    <3> DEFINE ts == Types(w)
    <3>1. ts \in Seq(Kinds) /\ State(w.buffer).inside = FALSE
          /\ State(w.buffer).opened = Brackets(ts) /\ Headed(w.buffer)
      BY <2>5 DEF Nested
    <3>2. Len(ts) = 1
      BY <1>1, <1>5, TypesIs
    <3> HIDE DEF ts
    <3>3. State(u.buffer).inside = FALSE /\ State(u.buffer).opened = Brackets(ts)
          /\ Headed(u.buffer)
      BY <2>2, <2>3, <2>5, <3>1 DEF Through
    <3>4. Headed(v.buffer)
          /\ State(v.buffer) = [inside |-> FALSE,
                                opened |-> Turned(Brackets(ts), FALSE, ObjectEnd)]
      BY <2>4, <2>5, <3>3
    <3>5. Turned(Brackets(ts), FALSE, ObjectEnd) = <<>>
      <4>1. Brackets(ts) \in Text /\ Len(Brackets(ts)) = 1
        BY <3>1, <3>2, BracketsIs
      <4>2. Turned(Brackets(ts), FALSE, ObjectEnd)
              = SubSeq(Brackets(ts), 1, Len(Brackets(ts)) - 1)
        BY <1>2, TurnedClosed
      <4> DEFINE bs == Brackets(ts)
                 T == STRING
      <4>3. bs \in Seq(T) /\ Len(bs) = 1
        BY <4>1 DEF Text
      <4> HIDE DEF bs, T
      <4>4. SubSeq(bs, 1, Len(bs) - 1) = <<>>
        BY <4>3
      <4>. QED
        BY <4>2, <4>4, Zenon DEF bs
    <3>. QED
      BY <3>4, <3>5
  <2>6. v.error = "OK" => Blank(v) \/ /\ Headed(v.buffer)
                                      /\ State(v.buffer) = [inside |-> FALSE, opened |-> <<>>]
    BY <1>5, <2>2, <2>3, <2>5 DEF Underway
  <2>. QED
    BY <2>1, <2>3, <2>6 DEF Shut
<1>. QED
  BY <1>3, <1>4, <1>5

LEMMA AppendFirst ==
  ASSUME NEW a
  PROVE  Append(<<>>, a) = <<a>> /\ <<>> \o <<a>> = <<a>>
OBVIOUS

LEMMA OpenIs ==
  ASSUME NEW n \in Nat, NEW type \in Kinds, NEW isPretty \in BOOLEAN
  PROVE  Underway(Open(Zeroed, n, type, isPretty))
<1> DEFINE one == <<Node("NONE")>>
           z == [Zeroed EXCEPT !.buffer = <<>>, !.buflen = n, !.bufp = 0]
           top == <<Node(type)>>
           o == [z EXCEPT !.nodeStack = top, !.error = "OK", !.callNo = 1,
                          !.isPretty = isPretty]
           u == Put(o, ObjectStart)
           R == [nodeType : NodeType, elementNo : Nat]
<1>1. <<>> \in Text /\ Measured(<<>>) /\ Width(<<>>) = 0 /\ <<>> \in Seq(Words)
  <2>1. <<>> \in Text /\ Len(<<>>) = 0
    BY DEF Text
  <2>2. Measured(<<>>)
    BY <2>1 DEF Measured
  <2>3. Width(<<>>) = 0
    BY <2>1, <2>2, WidthOf
  <2>. QED
    BY <2>1, <2>2, <2>3
<1>2. \A t \in NodeType : Node(t) \in R /\ Node(t).nodeType = t
  BY DEF Node
<1>3. /\ one \in Seq(R) /\ Len(one) = 1 /\ one[1] = Node("NONE")
      /\ top \in Seq(R) /\ Len(top) = 1 /\ top[1] = Node(type)
  <2>1. Node("NONE") \in R /\ Node(type) \in R
    BY <1>2 DEF NodeType, Kinds
  <2> HIDE DEF R
  <2>. QED
    BY <2>1
<1>4. Open(Zeroed, n, type, isPretty) = IF type = "JW_ARRAY" THEN z ELSE u
  BY DEF Open
<1> DEFINE empty == <<>>
<1>5. Zeroed = [buffer |-> empty, buflen |-> 0, bufp |-> 0, tempbuf |-> empty,
                error |-> "OK", callNo |-> 0, nodeStack |-> one, isPretty |-> FALSE]
  BY Zenon DEF Zeroed
<1>6. /\ empty \in Text /\ empty \in Seq(Words) /\ Measured(empty) /\ Width(empty) = 0
      /\ one \in Seq(R) /\ top \in Seq(R)
  BY <1>1, <1>3
<1> HIDE DEF one, top, empty
<1>7. /\ z \in Control /\ z.buffer = empty /\ z.bufp = 0 /\ z.buflen = n
      /\ z.tempbuf = empty /\ z.nodeStack = one /\ z.error = "OK"
  BY <1>5, <1>6 DEF Control, Error, empty
<1> HIDE DEF z
<1>8. /\ o \in Control /\ o.buffer = empty /\ o.bufp = 0 /\ o.buflen = n
      /\ o.tempbuf = empty /\ o.nodeStack = top /\ o.error = "OK"
  BY <1>6, <1>7 DEF Control, Error
<1> HIDE DEF o
<1>9. Good(z) /\ Good(o) /\ z.buffer = <<>> /\ o.buffer = <<>>
  <2>1. Len(z.nodeStack) = 1 /\ Len(o.nodeStack) = 1
    BY <1>3, <1>7, <1>8
  <2>. QED
    BY <1>6, <1>7, <1>8, <2>1 DEF Good, empty
<1> HIDE DEF u
<1>10. CASE type = "JW_ARRAY"
  <2>1. Types(z) = [i \in 1..1 |-> one[i].nodeType]
    BY <1>3, <1>7 DEF Types
  <2>2. one[1].nodeType = "NONE"
    BY <1>2, <1>3 DEF NodeType
  <2>3. Types(z) = <<"NONE">>
    BY <2>1, <2>2
  <2>4. \A i \in 1..Len(z.buffer) : z.buffer[i] \notin Openers
    BY <1>9
  <2>. QED
    BY <1>4, <1>9, <1>10, <2>3, <2>4 DEF Underway, Blank
<1>11. CASE type # "JW_ARRAY"
  <2>1. type = "JW_OBJECT"
    BY <1>11 DEF Kinds
  <2>2. ObjectStart \in Openers \cup Closers /\ ObjectStart \in Openers
        /\ ObjectStart \notin Closers
    BY Pieces
  <2>3. /\ Good(u) /\ u.nodeStack = o.nodeStack
        /\ u.error = "OK" =>
             /\ u.buffer = o.buffer \o <<ObjectStart>>
             /\ ~State(o.buffer).inside =>
                  State(u.buffer)
                    = [inside |-> FALSE,
                       opened |-> Turned(State(o.buffer).opened, FALSE, ObjectStart)]
    BY <1>9, <2>2, PutBracket DEF u
  <2>4. State(o.buffer).inside = FALSE /\ State(o.buffer).opened = <<>>
    <3>1. Len(<<>>) = 0
      OBVIOUS
    <3>2. Quotes(<<>>)[0] = 0 /\ Opened(<<>>)[0] = <<>>
      BY <1>1, QuotesIs, OpenedIs
    <3>3. State(<<>>).inside = (Quotes(<<>>)[0] % 2 = 1) /\ State(<<>>).opened = <<>>
      BY <3>1, <3>2 DEF State
    <3>4. 0 % 2 # 1
      OBVIOUS
    <3>. QED
      BY <1>9, <3>2, <3>3, <3>4
  <2>5. Types(u) = <<"JW_OBJECT">>
    <3>1. Types(u) = [i \in 1..1 |-> top[i].nodeType]
      BY <1>3, <1>8, <2>3 DEF Types
    <3>2. top[1].nodeType = "JW_OBJECT"
      BY <1>2, <1>3, <2>1 DEF NodeType
    <3>. QED
      BY <3>1, <3>2
  <2>6. ASSUME u.error = "OK" PROVE Nested(u)
    <3>1. Headed(u.buffer)
      <4>1. u.buffer = <<>> \o <<ObjectStart>>
        BY <1>9, <2>3, <2>6
      <4>2. <<>> \o <<ObjectStart>> = <<ObjectStart>>
        BY AppendFirst, Zenon
      <4>. QED
        BY <4>1, <4>2 DEF Headed
    <3>2. Turned(<<>>, FALSE, ObjectStart) = <<ObjectStart>>
      <4>1. Turned(<<>>, FALSE, ObjectStart) = Append(<<>>, ObjectStart)
        BY <2>2, Zenon DEF Turned
      <4>. QED
        BY <4>1, AppendFirst, Zenon
    <3>3. State(u.buffer) = [inside |-> FALSE, opened |-> <<ObjectStart>>]
      BY <2>3, <2>4, <2>6, <3>2
    <3>4. Brackets(<<"JW_OBJECT">>) = <<ObjectStart>>
      BY DEF Brackets, Bracket
    <3>5. <<"JW_OBJECT">> \in Seq(Kinds)
      BY DEF Kinds
    <3>. QED
      BY <2>5, <3>1, <3>3, <3>4, <3>5 DEF Nested
  <2>. QED
    BY <1>4, <1>11, <2>3, <2>6 DEF Underway
<1>. QED
  BY <1>10, <1>11
-------------------------------------------------------------------------------
(* The parser's structure keeps its type. *)

LEMMA RangeAppend ==
  ASSUME NEW X, NEW s \in Seq(X), NEW a
  PROVE  /\ Append(s, a) \in Seq(Range(Append(s, a)))
         /\ Range(Append(s, a)) = Range(s) \cup {a}
<1> DEFINE n == Len(s)
           u == Append(s, a)
<1>1. /\ n \in Nat /\ DOMAIN s = 1..n /\ DOMAIN u = 1..(n + 1) /\ Len(u) = n + 1
      /\ u[n + 1] = a /\ \A i \in 1..n : u[i] = s[i]
      /\ u = [i \in 1..(n + 1) |-> u[i]]
  <2>1. u \in Seq(X \cup {a}) /\ s \in Seq(X \cup {a}) /\ n \in Nat /\ Len(u) = n + 1
    <3>1. s \in Seq(X \cup {a}) /\ a \in X \cup {a}
      OBVIOUS
    <3> DEFINE Y == X \cup {a}
    <3> HIDE DEF Y
    <3>2. s \in Seq(Y) /\ a \in Y
      BY <3>1 DEF Y
    <3>3. Append(s, a) \in Seq(Y) /\ Len(s) \in Nat /\ Len(Append(s, a)) = Len(s) + 1
      BY <3>2
    <3>. QED
      BY <3>2, <3>3 DEF Y
  <2>2. u[n + 1] = a /\ \A i \in 1..n : u[i] = s[i]
    OBVIOUS
  <2>3. DOMAIN s = 1..n /\ DOMAIN u = 1..Len(u) /\ u = [i \in 1..Len(u) |-> u[i]]
    <3> DEFINE Y == X \cup {a}
    <3> HIDE DEF Y, u
    <3>1. s \in Seq(Y) /\ u \in Seq(Y)
      BY <2>1 DEF Y
    <3>. QED
      BY <3>1
  <2>. QED
    BY <2>1, <2>2, <2>3
<1> HIDE DEF n, u
<1>2. \A i \in 1..(n + 1) : u[i] \in Range(u)
  BY <1>1 DEF Range
<1>3. [i \in 1..(n + 1) |-> u[i]] \in Seq(Range(u))
  <2> DEFINE Y == Range(u)
  <2> HIDE DEF Y
  <2>1. n + 1 \in Nat /\ \A i \in 1..(n + 1) : u[i] \in Y
    BY <1>1, <1>2 DEF Y
  <2>2. [i \in 1..(n + 1) |-> u[i]] \in Seq(Y)
    BY <2>1
  <2>. QED
    BY <2>2 DEF Y
<1>4. u \in Seq(Range(u))
  BY <1>1, <1>3, Zenon
<1>5. Range(u) = Range(s) \cup {a}
  <2>1. \A i \in 1..(n + 1) : i \in 1..n \/ i = n + 1
    BY <1>1
  <2>2. \A i \in 1..n : i \in 1..(n + 1)
    BY <1>1
  <2>3. n + 1 \in 1..(n + 1)
    BY <1>1
  <2>. QED
    BY <1>1, <2>1, <2>2, <2>3, Zenon DEF Range
<1>. QED
  BY <1>4, <1>5 DEF u

LEMMA FirstIs ==
  ASSUME NEW text \in Text, NEW i \in Nat, NEW X \in SUBSET ((i + 1)..Len(text))
  PROVE  /\ First(text, X) \in Nat \ {0}
         /\ First(text, X) <= Len(text) => First(text, X) \in X
<1>1. Len(text) \in Nat
  BY DEF Text
<1>2. CASE X = {}
  BY <1>1, <1>2 DEF First, Behind
<1>3. CASE X # {}
  <2>1. Min(X) \in X
    <3>1. X \in SUBSET Nat
      BY <1>1
    <3>. QED
      BY <1>3, <3>1, MinFacts
  <2>2. \A j \in (i + 1)..Len(text) : j \in Nat \ {0}
    BY <1>1
  <2>3. First(text, X) = Min(X)
    BY <1>3, Zenon DEF First
  <2>. QED
    BY <2>1, <2>2, <2>3
<1>. QED
  BY <1>2, <1>3

LEMMA PlacesAre ==
  ASSUME NEW text \in Text, NEW i \in Nat
  PROVE  /\ \A pieces : NextOf(text, i, pieces) \in Nat \ {0}
         /\ \A rootType : ValueAfter(text, i, rootType) \in Nat \ {0}
         /\ EndAfter(text, i) \in Nat \ {0}
<1>1. \A pieces : NextOf(text, i, pieces) \in Nat \ {0}
  BY FirstIs DEF NextOf
<1>2. \A rootType : ValueAfter(text, i, rootType) \in Nat \ {0}
  <2> SUFFICES ASSUME NEW rootType PROVE ValueAfter(text, i, rootType) \in Nat \ {0}
    OBVIOUS
  <2> DEFINE X == {j \in (i + 1)..Len(text) : Initial(text[j]) \in StartsOf(rootType)}
  <2>1. X \in SUBSET ((i + 1)..Len(text)) /\ ValueAfter(text, i, rootType) = First(text, X)
    BY DEF ValueAfter
  <2> HIDE DEF X
  <2>. QED
    BY <2>1, FirstIs
<1>3. EndAfter(text, i) \in Nat \ {0}
  <2> DEFINE X == {j \in (i + 1)..Len(text) :
                     /\ text[j] \in {Comma} \cup Closers
                     /\ Count(text, i, j - 1, Openers) = Count(text, i, j - 1, Closers)}
  <2>1. X \in SUBSET ((i + 1)..Len(text)) /\ EndAfter(text, i) = First(text, X)
    BY DEF EndAfter
  <2> HIDE DEF X
  <2>. QED
    BY <2>1, FirstIs
<1>. QED
  BY <1>1, <1>2, <1>3

LEMMA SliceText ==
  ASSUME NEW text \in Text, NEW m \in Nat \ {0}, NEW n \in Int, n <= Len(text)
  PROVE  SubSeq(text, m, n) \in Text
<1> DEFINE T == STRING
<1>1. text \in Seq(T) /\ Len(text) \in Nat
  BY DEF Text
<1> HIDE DEF T
<1>2. \A i \in m..n : text[i] \in T
  BY <1>1
<1>3. SubSeq(text, m, n) \in Seq(T)
  BY <1>2, SubSeqProperties
<1>. QED
  BY <1>3 DEF T, Text

LEMMA TypeOfIs == ASSUME NEW piece PROVE TypeOf(piece) \in DataType
BY Zenon DEF TypeOf, DataType

Fields(tokens) ==
  [buffer : Text, currP : Nat, parserStatus : {"JSON_START", "JSON_END"},
   rootType : {"NONE", "JDATA_OBJECT", "JDATA_ARRAY"}, jData : tokens,
   err : {"OK", "NOK", "TOK_ERR", "INVALID"}, spill : Nat, lost : BOOLEAN]
LEMMA ParserIs ==
  ASSUME NEW q
  PROVE  IsParser(q) <=> /\ q \in Fields(Seq(Range(q.jData))) /\ Len(q.jData) <= MAXTOKENS
                         /\ \A token \in Range(q.jData) : IsToken(token)
BY Zenon DEF IsParser, Fields, Text

LEMMA ParserStops ==
  ASSUME NEW q, IsParser(q)
  PROVE  /\ IsParser([q EXCEPT !.lost = TRUE])
         /\ \A e \in {"OK", "NOK", "TOK_ERR", "INVALID"} : IsParser([q EXCEPT !.err = e])
         /\ \A u : u = [q EXCEPT !.lost = TRUE] \/ (\E e : u = [q EXCEPT !.err = e]) =>
              /\ u.jData = q.jData /\ u.rootType = q.rootType /\ u.buffer = q.buffer
              /\ u.parserStatus = q.parserStatus
<1> DEFINE B == Seq(Range(q.jData))
<1>1. /\ q \in Fields(B) /\ Len(q.jData) <= MAXTOKENS
      /\ \A token \in Range(q.jData) : IsToken(token)
  BY ParserIs
<1> HIDE DEF B
<1>2. ASSUME NEW u, u \in Fields(B), u.jData = q.jData PROVE IsParser(u)
  BY <1>1, <1>2, ParserIs DEF B
<1>3. [q EXCEPT !.lost = TRUE] \in Fields(B) /\ [q EXCEPT !.lost = TRUE].jData = q.jData
  BY <1>1 DEF Fields
<1>4. \A e \in {"OK", "NOK", "TOK_ERR", "INVALID"} :
        [q EXCEPT !.err = e] \in Fields(B) /\ [q EXCEPT !.err = e].jData = q.jData
  BY <1>1 DEF Fields
<1>5. \A u : u = [q EXCEPT !.lost = TRUE] \/ (\E e : u = [q EXCEPT !.err = e]) =>
        /\ u.jData = q.jData /\ u.rootType = q.rootType /\ u.buffer = q.buffer
        /\ u.parserStatus = q.parserStatus
  BY <1>1 DEF Fields
<1>. QED
  BY <1>2, <1>3, <1>4, <1>5

\* What is left in the structure is a token: a type is overwritten only by a value that is
\* read on.
LEMMA TokenIs ==
  ASSUME NEW q, q.spill \in Nat, NEW key \in Text, Width(key) < MAXTOKENBYTES,
         NEW hash \in {Hash(key), "0"}, NEW text \in Text, Width(text) \in Nat, NEW piece
  PROVE  /\ IsToken(Token(q, key, hash, text, piece)) /\ Spill(q, text) \in Nat
         /\ Token(q, key, hash, text, piece).hashValue = hash
         /\ Token(q, key, hash, text, piece).keyValue = key
<1> DEFINE n == Width(text)
           type == IF ValueAt + n > TypeAt THEN Overwritten ELSE TypeOf(piece)
           value == IF n < MAXTOKENBYTES /\ q.spill <= ValueAt + n THEN text ELSE <<ReadOn>>
           token == Token(q, key, hash, text, piece)
<1>1. token = [keyValue |-> key, hashValue |-> hash, jsonValue |-> value,
               readDataType |-> type]
  BY DEF Token
<1>2. type \in DataType \cup {Overwritten} /\ Overwritten \notin DataType
  BY TypeOfIs DEF Overwritten, DataType
<1>3. TypeOf(piece) # Overwritten
  BY TypeOfIs, <1>2
<1>4. type = Overwritten => ~(n < MAXTOKENBYTES)
  <2> HIDE DEF n
  <2>. QED  BY <1>3, TokenLayout DEF n
<1>5. value \in Seq(STRING) /\ (value = <<ReadOn>> \/ Width(value) < MAXTOKENBYTES)
  <2>1. value = <<ReadOn>> \/ (value = text /\ Width(text) < MAXTOKENBYTES)
    BY Zenon
  <2>2. <<ReadOn>> \in Seq(STRING) /\ text \in Seq(STRING)
    <3>1. ReadOn \in STRING
      BY ParserAssumption DEF IsString
    <3>. QED
      BY <3>1, One, Zenon DEF Text
  <2> HIDE DEF value
  <2>. QED
    BY <2>1, <2>2, Zenon
<1>6. Spill(q, text) \in Nat
  <2> DEFINE b == q.spill - TokenSize
             c == ValueAt + n - TokenSize
             most == Max({0, b, c})
  <2>1. b \in Int /\ c \in Int
    BY TokenLayout
  <2>2. Spill(q, text) = most
    BY DEF Spill
  <2> HIDE DEF b, c
  <2>3. most \in {0, b, c} /\ 0 <= most
    BY <2>1, MaxFromZero
  <2> HIDE DEF most
  <2>. QED
    BY <2>1, <2>2, <2>3
<1>7. type = Overwritten => value = <<ReadOn>>
  BY <1>4
<1>8. key \in Seq(STRING)
  BY DEF Text
<1> HIDE DEF token, type, value, n
<1>9. IsToken(token)
  BY <1>1, <1>2, <1>5, <1>7, <1>8 DEF IsToken
<1>. QED
  BY <1>1, <1>6, <1>9 DEF token

LEMMA ParserParsed ==
  ASSUME NEW q, IsParser(q), Len(q.jData) < MAXTOKENS, NEW token, IsToken(token),
         NEW text, Spill(q, text) \in Nat, NEW end \in Nat
  PROVE  /\ IsParser(Parsed(q, token, text, end))
         /\ Parsed(q, token, text, end).jData = Append(q.jData, token)
         /\ Parsed(q, token, text, end).buffer = q.buffer
         /\ Parsed(q, token, text, end).rootType = q.rootType
<1> DEFINE B == Seq(Range(q.jData))
           jData == Append(q.jData, token)
           C == Seq(Range(jData))
           closing == IF q.rootType = "JDATA_OBJECT" THEN ObjectEnd ELSE ArrayEnd
           status == IF q.buffer[end] = closing THEN "JSON_END" ELSE q.parserStatus
           err == IF q.buffer[end] \in {closing, Comma} THEN "OK" ELSE "INVALID"
           spill == Spill(q, text)
           u == Parsed(q, token, text, end)
<1>1. q \in Fields(B) /\ \A t \in Range(q.jData) : IsToken(t)
  BY ParserIs
<1>2. q.jData \in B
  BY <1>1 DEF Fields
<1>3. jData \in C /\ Range(jData) = Range(q.jData) \cup {token}
  BY <1>2, RangeAppend
<1>9. Len(jData) <= MAXTOKENS
  <2> DEFINE X == Range(q.jData) \cup {token}
             old == q.jData
  <2>1. old \in Seq(X) /\ token \in X
    BY <1>2
  <2> HIDE DEF X, old
  <2>2. Len(Append(old, token)) = Len(old) + 1 /\ Len(old) \in Nat
    BY <2>1
  <2>. QED
    BY <2>2, TokenLayout DEF old
<1>4. u = [q EXCEPT !.jData = jData, !.currP = end, !.spill = spill, !.parserStatus = status,
                    !.err = err]
  BY Zenon DEF Parsed
<1>5. /\ status \in {"JSON_START", "JSON_END"} /\ err \in {"OK", "NOK", "TOK_ERR", "INVALID"}
      /\ spill \in Nat
  BY <1>1 DEF Fields
<1> HIDE DEF B, C, jData, status, err, u, spill
<1>6. u \in Fields(C) /\ u.jData = jData /\ u.buffer = q.buffer /\ u.rootType = q.rootType
  BY <1>1, <1>3, <1>4, <1>5 DEF Fields
<1>7. \A t \in Range(jData) : IsToken(t)
  BY <1>1, <1>3
<1>8. IsParser(u)
  BY <1>6, <1>7, <1>9, ParserIs DEF C
<1>. QED
  BY <1>6, <1>8 DEF u, jData

LEMMA ParserStarts ==
  ASSUME NEW text \in Text
  PROVE  /\ IsParser(StructInit(text)) /\ IsParser(Unparsed) /\ StructInit(text).jData = <<>>
         /\ StructInit(text).parserStatus = "JSON_START"
<1> DEFINE none == <<>>
           B == Seq(Range(none))
<1>1. none \in Text /\ none \in B /\ Range(none) = {}
  BY DEF Range, Text
<1> HIDE DEF none, B
<1>2. ASSUME NEW u, u \in Fields(B), u.jData = none PROVE IsParser(u)
  <2>1. Len(none) <= MAXTOKENS
    BY TokenLayout DEF none
  <2>. QED
    BY <1>1, <1>2, <2>1, ParserIs DEF B
<1>3. Unparsed = [buffer |-> none, currP |-> 0, parserStatus |-> "JSON_START",
                  rootType |-> "NONE", jData |-> none, err |-> "OK", spill |-> 0,
                  lost |-> FALSE]
  BY Zenon DEF Unparsed, none
<1>4. Unparsed \in Fields(B) /\ Unparsed.jData = none
  BY <1>1, <1>3 DEF Fields
<1>5. StructInit(text) \in Fields(B) /\ StructInit(text).jData = none
      /\ StructInit(text).parserStatus = "JSON_START"
  <2> DEFINE roots == {i \in DOMAIN text : text[i] \in Openers}
             first == Min(roots)
             far == Blanks(text, 0, first) >= MAXJSONBYTES
             root == IF text[first] = ObjectStart THEN "JDATA_OBJECT" ELSE "JDATA_ARRAY"
  <2>1. StructInit(text) = IF roots = {} \/ far THEN [Unparsed EXCEPT !.err = "NOK"]
                           ELSE [Unparsed EXCEPT !.buffer = text, !.currP = first,
                                                 !.rootType = root]
    BY Zenon DEF StructInit
  <2>2. roots # {} => first \in Nat
    <3>1. roots \in SUBSET Nat
      BY DEF Text
    <3> HIDE DEF roots
    <3>. QED
      BY <3>1, MinFacts
  <2>3. root \in {"JDATA_OBJECT", "JDATA_ARRAY"}
    OBVIOUS
  <2> HIDE DEF roots, first, far, root
  <2>. QED
    BY <1>3, <1>4, <2>1, <2>2, <2>3 DEF Fields
<1>. QED
  BY <1>2, <1>4, <1>5 DEF none

\* A token of an object has the hash of its key.
Hashed(q) == \A i \in 1..Len(q.jData) : q.jData[i].hashValue = Hash(q.jData[i].keyValue)

LEMMA HashedParsed ==
  ASSUME NEW q, IsParser(q), Hashed(q), Len(q.jData) < MAXTOKENS, NEW token,
         IsToken(token), NEW text, Spill(q, text) \in Nat, NEW end \in Nat,
         token.hashValue = Hash(token.keyValue)
  PROVE  Hashed(Parsed(q, token, text, end))
<1> DEFINE X == Range(q.jData)
           s == q.jData
           u == Parsed(q, token, text, end)
<1>1. s \in Seq(X) /\ u.jData = Append(s, token)
  <2>1. u.jData = Append(s, token)
    BY ParserParsed
  <2>2. q \in Fields(Seq(X))
    BY ParserIs
  <2> HIDE DEF X, u
  <2>. QED
    BY <2>1, <2>2 DEF Fields
<1>2. \A i \in 1..Len(s) : s[i].hashValue = Hash(s[i].keyValue)
  BY DEF Hashed
<1> HIDE DEF X, s
<1>3. /\ Len(s) \in Nat /\ Len(Append(s, token)) = Len(s) + 1
      /\ Append(s, token)[Len(s) + 1] = token
      /\ \A i \in 1..Len(s) : Append(s, token)[i] = s[i]
  BY <1>1
<1> DEFINE v == Append(s, token)
<1> HIDE DEF u, v
<1>4. \A i \in 1..Len(v) : v[i].hashValue = Hash(v[i].keyValue)
  <2> SUFFICES ASSUME NEW i \in 1..Len(v) PROVE v[i].hashValue = Hash(v[i].keyValue)
    OBVIOUS
  <2>1. i \in 1..Len(s) \/ i = Len(s) + 1
    BY <1>3 DEF v
  <2>2. CASE i \in 1..Len(s)
    BY <1>2, <1>3, <2>2 DEF v
  <2>3. CASE i = Len(s) + 1
    BY <1>3, <2>3 DEF v
  <2>. QED
    BY <2>1, <2>2, <2>3
<1>. QED
  BY <1>1, <1>4 DEF Hashed, u, v

\* A slice of a text has a width.
LEMMA SliceWidth ==
  ASSUME NEW text, Measured(text), NEW m \in Nat \ {0}, NEW n \in Int, n <= Len(text)
  PROVE  SubSeq(text, m, n) \in Text /\ Width(SubSeq(text, m, n)) \in Nat
<1> DEFINE T == STRING
           part == SubSeq(text, m, n)
<1>1. text \in Seq(T) /\ Len(text) \in Nat /\ \A i \in 1..Len(text) : Chars(text[i]) \in Nat
  BY DEF Measured, Text
<1> HIDE DEF T
<1>2. \A i \in m..n : text[i] \in T /\ i \in 1..Len(text)
  BY <1>1
<1>3. /\ part \in Seq(T) /\ Len(part) = IF m <= n THEN n - m + 1 ELSE 0
      /\ \A i \in 1..(n - m + 1) : part[i] = text[m + i - 1]
  BY <1>2, SubSeqProperties
<1> HIDE DEF part
<1>4. ASSUME NEW i \in 1..Len(part) PROVE Chars(part[i]) \in Nat
  <2>1. i \in 1..(n - m + 1) /\ m + i - 1 \in m..n
    BY <1>3
  <2>. QED
    BY <1>1, <1>2, <1>3, <2>1
<1>5. Measured(part)
  BY <1>3, <1>4 DEF Measured, T, Text
<1>6. Width(part) \in Nat
  <2>1. PICK f \in [0..Len(part) -> Nat] : Width(part) = f[Len(part)]
    BY <1>5, WidthOf
  <2>2. Len(part) \in 0..Len(part)
    BY <1>3
  <2>. QED
    BY <2>1, <2>2
<1>. QED
  BY <1>5, <1>6 DEF part, Measured

LEMMA MemberParser ==
  ASSUME NEW q, IsParser(q), Hashed(q), Measured(q.buffer)
  PROVE  /\ IsParser(ParseMember(q)) /\ Hashed(ParseMember(q))
         /\ ParseMember(q).rootType = q.rootType /\ ParseMember(q).buffer = q.buffer
<1> DEFINE text == q.buffer
           key == NextOf(text, q.currP, {Quote})
           keyEnd == NextOf(text, key, {Quote})
           colon == NextOf(text, key, {Colon})
           value == ValueAfter(text, colon, q.rootType)
           end == EndAfter(text, value)
           keyValue == SubSeq(text, key, keyEnd)
           part == SubSeq(text, value, end - 1)
           past == keyEnd > Len(text) \/ IsFull(q) \/ Width(keyValue) >= MAXTOKENBYTES
           late == Blanks(text, colon, value) >= MAXTOKENBYTES \/ Width(part) > MAXJSONBYTES
           out == Leaves(q, part)
           token == Token(q, keyValue, Hash(keyValue), part, text[value])
           u == ParseMember(q)
<1>1. /\ text \in Text /\ q.currP \in Nat /\ Len(text) \in Nat /\ q.spill \in Nat
      /\ Measured(text)
  BY ParserIs DEF Fields, Text
<1>2. u = IF past THEN [q EXCEPT !.lost = TRUE]
          ELSE IF late THEN [q EXCEPT !.err = "TOK_ERR"]
          ELSE IF end > Len(text) \/ out THEN [q EXCEPT !.lost = TRUE]
          ELSE Parsed(q, token, part, end)
  BY Zenon DEF ParseMember
<1> HIDE DEF text, late, out, u
<1>3. key \in Nat \ {0}
  BY <1>1, PlacesAre
<1> HIDE DEF key
<1>4. keyEnd \in Nat \ {0} /\ colon \in Nat \ {0}
  BY <1>1, <1>3, PlacesAre
<1> HIDE DEF keyEnd, colon
<1>5. value \in Nat \ {0}
  BY <1>1, <1>4, PlacesAre
<1> HIDE DEF value
<1>6. end \in Nat \ {0}
  BY <1>1, <1>5, PlacesAre
<1> HIDE DEF end
<1>7. CASE u = [q EXCEPT !.lost = TRUE] \/ u = [q EXCEPT !.err = "TOK_ERR"]
  <2>1. IsParser(u) /\ u.jData = q.jData /\ u.rootType = q.rootType /\ u.buffer = q.buffer
    BY <1>7, ParserStops
  <2>2. Hashed(u)
    BY <2>1, Zenon DEF Hashed
  <2>. QED
    BY <2>1, <2>2 DEF u
<1>8. CASE ~past /\ ~late /\ ~(end > Len(text)) /\ ~out
  <2>1. ~(keyEnd > Len(text)) /\ ~IsFull(q) /\ ~(Width(keyValue) >= MAXTOKENBYTES)
    BY <1>8
  <2>2. keyValue \in Text /\ Width(keyValue) \in Nat
    BY <1>1, <1>3, <1>4, <2>1, SliceWidth
  <2>3. part \in Text /\ Width(part) \in Nat
    BY <1>1, <1>5, <1>6, <1>8, SliceWidth
  <2>8. Width(keyValue) < MAXTOKENBYTES
    <3> DEFINE w == Width(keyValue)
    <3>1. w \in Nat /\ ~(w >= MAXTOKENBYTES)
      BY <2>1, <2>2
    <3> HIDE DEF w
    <3>2. w < MAXTOKENBYTES
      BY <3>1, TokenLayout
    <3>. QED
      BY <3>2 DEF w
  <2> HIDE DEF keyValue, part
  <2>4. /\ IsToken(token) /\ token.hashValue = Hash(token.keyValue) /\ Spill(q, part) \in Nat
    BY <1>1, <2>2, <2>3, <2>8, TokenIs
  <2>5. u = Parsed(q, token, part, end)
    BY <1>2, <1>8, Zenon
  <2>6. Len(q.jData) < MAXTOKENS
    <3>1. q.jData \in Seq(Range(q.jData))
      BY ParserIs DEF Fields
    <3> DEFINE tokens == q.jData
    <3>2. tokens \in Seq(Range(tokens)) /\ ~(Len(tokens) >= MAXTOKENS)
      BY <2>1, <3>1 DEF IsFull
    <3> HIDE DEF tokens
    <3>3. Len(tokens) < MAXTOKENS
      BY <3>2, TokenLayout
    <3>. QED
      BY <3>3 DEF tokens
  <2> HIDE DEF token
  <2>7. /\ IsParser(u) /\ Hashed(u) /\ u.rootType = q.rootType /\ u.buffer = q.buffer
    BY <1>6, <2>4, <2>5, <2>6, ParserParsed, HashedParsed
  <2>. QED
    BY <2>7 DEF u
<1>. QED
  BY <1>2, <1>7, <1>8, Zenon
-------------------------------------------------------------------------------
(* The document: the invariant of the client. *)

\* What is parsed of a text of the writer: an object, or a text that holds no root.
Reads(q) == /\ Hashed(q) /\ Measured(q.buffer)
            /\ \/ q.rootType = "JDATA_OBJECT"
               \/ q.rootType = "NONE" /\ q.buffer = <<>> /\ q.parserStatus = "JSON_START"

LEMMA ZeroedIs == Good(Zeroed)
<1> DEFINE R == [nodeType : NodeType, elementNo : Nat]
           one == <<Node("NONE")>>
           empty == <<>>
<1>1. /\ empty \in Text /\ empty \in Seq(Words) /\ Measured(empty) /\ Width(empty) = 0
  <2>1. empty \in Text /\ Len(empty) = 0 /\ empty \in Seq(Words)
    BY DEF Text
  <2>2. Measured(empty)
    BY <2>1 DEF Measured
  <2>. QED
    BY <2>1, <2>2, WidthOf
<1>2. one \in Seq(R) /\ Len(one) = 1
  BY DEF Node, NodeType
<1>3. Zeroed = [buffer |-> empty, buflen |-> 0, bufp |-> 0, tempbuf |-> empty,
                error |-> "OK", callNo |-> 0, nodeStack |-> one, isPretty |-> FALSE]
  BY Zenon DEF Zeroed
<1> HIDE DEF one, empty
<1>4. /\ Zeroed \in Control /\ Zeroed.buffer = empty /\ Zeroed.bufp = 0 /\ Zeroed.buflen = 0
      /\ Zeroed.tempbuf = empty /\ Zeroed.nodeStack = one
  BY <1>1, <1>2, <1>3 DEF Control, Error
<1>5. Len(Zeroed.nodeStack) = 1
  BY <1>2, <1>4
<1>. QED
  BY <1>1, <1>4, <1>5 DEF Good

LEMMA ReadsFirst ==
  ASSUME NEW w, Shut(w), w.error = "OK"
  PROVE  Reads(StructInit(w.buffer))
<1> DEFINE text == w.buffer
           roots == {i \in DOMAIN text : text[i] \in Openers}
           first == Min(roots)
           far == Blanks(text, 0, first) >= MAXJSONBYTES
           root == IF text[first] = ObjectStart THEN "JDATA_OBJECT" ELSE "JDATA_ARRAY"
           q == StructInit(text)
<1>1. text \in Text /\ DOMAIN text = 1..Len(text) /\ Len(text) \in Nat /\ Measured(text)
  BY DEF Shut, Good, Control, Text
<1>2. q = IF roots = {} \/ far THEN [Unparsed EXCEPT !.err = "NOK"]
          ELSE [Unparsed EXCEPT !.buffer = text, !.currP = first, !.rootType = root]
  BY Zenon DEF StructInit
<1>3. q.jData = <<>> /\ q.parserStatus = "JSON_START"
  BY <1>1, ParserStarts
<1>4. Hashed(q)
  <2>1. Len(q.jData) = 0
    BY <1>3
  <2>. QED
    BY <2>1 DEF Hashed
<1>5. CASE roots = {} \/ far
  <2>1. q = [Unparsed EXCEPT !.err = "NOK"]
    BY <1>2, <1>5
  <2> HIDE DEF q
  <2>2. q.rootType = "NONE" /\ q.buffer = <<>>
    BY <2>1 DEF Unparsed
  <2>3. Measured(<<>>)
    <3> DEFINE empty == <<>>
    <3>1. empty \in Text /\ Len(empty) = 0
      BY DEF Text
    <3>. QED
      BY <3>1 DEF Measured
  <2>. QED
    BY <1>3, <1>4, <2>2, <2>3 DEF Reads, q
<1>6. CASE ~(roots = {} \/ far)
  <2>1. ~Blank(w)
    <3>1. roots # {}
      BY <1>6
    <3>. QED
      BY <1>1, <3>1 DEF Blank
  <2>2. Headed(text)
    BY <2>1 DEF Shut
  <2>3. 1 \in roots /\ roots \in SUBSET Nat /\ \A i \in roots : 1 <= i
    BY <1>1, <2>2, Pieces DEF Headed
  <2>4. first = 1
    <3> HIDE DEF roots
    <3>. QED
      BY <2>3, MinIs
  <2>5. root = "JDATA_OBJECT"
    BY <2>2, <2>4 DEF Headed
  <2>6. q = [Unparsed EXCEPT !.buffer = text, !.currP = first, !.rootType = root]
    BY <1>2, <1>6, Zenon
  <2> HIDE DEF q, root, text
  <2>7. q.rootType = root /\ q.buffer = text
    BY <2>6 DEF Unparsed
  <2>. QED
    BY <1>1, <1>4, <2>5, <2>7 DEF Reads, q, text
<1>. QED
  BY <1>5, <1>6

LEMMA ReadsFurther ==
  ASSUME NEW q, IsParser(q), Reads(q)
  PROVE  IsParser(ParseData(q)) /\ Reads(ParseData(q))
<1>1. CASE q.rootType = "JDATA_OBJECT"
  <2>1. ParseData(q) = ParseMember(q)
    BY <1>1 DEF ParseData
  <2>. QED
    BY <1>1, <2>1, MemberParser DEF Reads
<1>2. CASE q.rootType # "JDATA_OBJECT"
  <2> DEFINE u == ParseElement(q)
  <2>1. /\ q.rootType = "NONE" /\ q.buffer = <<>> /\ q.parserStatus = "JSON_START" /\ Hashed(q)
        /\ Measured(q.buffer)
    BY <1>2 DEF Reads
  <2>2. ParseData(q) = ParseElement(q)
    BY <1>2 DEF ParseData
  <2> DEFINE value == ValueAfter(q.buffer, q.currP, q.rootType)
             end == EndAfter(q.buffer, value)
  <2>3. end \in Nat \ {0} /\ Len(q.buffer) = 0
    <3>1. q.currP \in Nat /\ q.buffer \in Text
      BY ParserIs DEF Fields
    <3>2. Len(q.buffer) = 0
      BY <2>1
    <3>3. value \in Nat
      BY <3>1, PlacesAre
    <3> HIDE DEF value
    <3>. QED
      BY <3>1, <3>2, <3>3, PlacesAre
  <2>4. u = [q EXCEPT !.lost = TRUE] \/ u = [q EXCEPT !.err = "TOK_ERR"]
    <3>1. end > Len(q.buffer)
      <4> HIDE DEF end
      <4>. QED
        BY <2>3
    <3>. QED
      BY <3>1, Zenon DEF ParseElement
  <2> HIDE DEF u
  <2>5. /\ IsParser(u) /\ u.jData = q.jData /\ u.rootType = q.rootType
        /\ u.buffer = q.buffer /\ u.parserStatus = q.parserStatus
    BY <2>4, ParserStops
  <2>6. Hashed(u)
    BY <2>1, <2>5, Zenon DEF Hashed
  <2>. QED
    BY <2>1, <2>2, <2>5, <2>6 DEF Reads, u
<1>. QED
  BY <1>1, <1>2

DocumentInv ==
  /\ Good(writer) /\ IsParser(reader)
  /\ phase \in {"none", "open", "closed", "reading", "read"} /\ calls \in 0..MaxCalls
  /\ phase = "none" => writer = Zeroed
  /\ phase = "open" => Underway(writer)
  /\ phase \in {"closed", "reading", "read"} => Shut(writer)
  /\ phase \in {"reading", "read"} => Reads(reader)

LEMMA DocumentInit == DInit => DocumentInv
<1> SUFFICES ASSUME DInit PROVE DocumentInv
  OBVIOUS
<1>1. writer = Zeroed /\ reader = Unparsed /\ phase = "none" /\ calls = 0
  BY DEF DInit
<1>2. Good(Zeroed)
  BY ZeroedIs
<1>3. IsParser(Unparsed)
  <2>1. <<>> \in Text
    BY DEF Text
  <2>. QED
    BY <2>1, ParserStarts
<1>4. 0 \in 0..MaxCalls
  BY ClientAssumption
<1>. QED
  BY <1>1, <1>2, <1>3, <1>4 DEF DocumentInv

LEMMA DocumentCall ==
  ASSUME DocumentInv, Call, Underway(writer')
  PROVE  DocumentInv'
<1>1. phase = "open" /\ phase' = "open" /\ calls < MaxCalls /\ calls' = calls + 1
      /\ reader' = reader /\ calls \in 0..MaxCalls /\ IsParser(reader)
  BY DEF Call, DocumentInv
<1>2. calls' \in 0..MaxCalls
  BY <1>1, ClientAssumption
<1>3. Good(writer')
  BY DEF Underway
<1>. QED
  BY <1>1, <1>2, <1>3 DEF DocumentInv

LEMMA DocumentNext == DocumentInv /\ [DNext]_dvars => DocumentInv'
<1> SUFFICES ASSUME DocumentInv, [DNext]_dvars PROVE DocumentInv'
  OBVIOUS
<1>1. CASE OpenDocument
  <2>1. PICK n \in Lengths, type \in {"JW_OBJECT", "JW_ARRAY"}, isPretty \in BOOLEAN :
          writer' = Open(writer, n, type, isPretty)
    BY <1>1 DEF OpenDocument
  <2>2. n \in Nat /\ type \in Kinds
    BY ClientAssumption DEF Kinds
  <2>3. phase = "none" /\ phase' = "open" /\ reader' = reader /\ calls' = calls
        /\ writer = Zeroed
    BY <1>1 DEF OpenDocument, DocumentInv
  <2>4. Underway(writer')
    BY <2>1, <2>2, <2>3, OpenIs
  <2>. QED
    BY <2>3, <2>4 DEF DocumentInv, Underway
<1>2. CASE WriteObj
  <2>1. PICK key \in Keys, value \in Values : writer' = Obj(writer, key, value)
    BY <1>2 DEF WriteObj
  <2>2. Call /\ Underway(writer)
    BY <1>2 DEF WriteObj, Call, DocumentInv
  <2>3. Writable(value)
    BY ValuesWritable
  <2>. QED
    BY <2>1, <2>2, <2>3, ObjIs, DocumentCall
<1>3. CASE WriteArr
  <2>1. PICK value \in Elements : writer' = Arr(writer, value)
    BY <1>3 DEF WriteArr
  <2>2. Call /\ Underway(writer)
    BY <1>3 DEF WriteArr, Call, DocumentInv
  <2>3. Writable(value)
    BY ValuesWritable
  <2>. QED
    BY <2>1, <2>2, <2>3, ArrIs, DocumentCall
<1>4. CASE WriteEnd
  <2>1. Call /\ Underway(writer) /\ writer' = End(writer)
    BY <1>4 DEF WriteEnd, Call, DocumentInv
  <2>. QED
    BY <2>1, WriteEndIs, DocumentCall
<1>5. CASE CloseDocument
  <2>1. /\ phase' = "closed" /\ writer' = Close(writer) /\ Underway(writer)
        /\ reader' = reader /\ calls' = calls
    BY <1>5 DEF CloseDocument, DocumentInv
  <2>2. Shut(writer')
    BY <2>1, WriteCloseIs
  <2>. QED
    BY <2>1, <2>2 DEF DocumentInv, Shut
<1>6. CASE BeginRead
  <2>1. /\ phase' = "reading" /\ writer.error = "OK" /\ reader' = StructInit(writer.buffer)
        /\ writer' = writer /\ calls' = calls /\ Shut(writer)
    BY <1>6 DEF BeginRead, DocumentInv
  <2>2. writer.buffer \in Text
    BY DEF DocumentInv, Good, Control
  <2>3. IsParser(reader') /\ Reads(reader')
    BY <2>1, <2>2, ParserStarts, ReadsFirst
  <2>. QED
    BY <2>1, <2>3 DEF DocumentInv
<1>7. CASE Read
  <2>1. /\ phase' \in {"reading", "read"} /\ reader' = ParseData(reader)
        /\ writer' = writer /\ calls' = calls /\ Shut(writer) /\ Reads(reader)
    BY <1>7 DEF Read, DocumentInv
  <2>2. IsParser(reader') /\ Reads(reader')
    BY <2>1, ReadsFurther DEF DocumentInv
  <2>. QED
    BY <2>1, <2>2 DEF DocumentInv
<1>8. CASE UNCHANGED dvars
  BY <1>8 DEF dvars, DocumentInv
<1>. QED
  BY <1>1, <1>2, <1>3, <1>4, <1>5, <1>6, <1>7, <1>8 DEF DNext

\* At every moment the writer's structure is one its calls can lead to, and so is the
\* parser's.
THEOREM DocumentInvariant == DSpec => []DocumentInv
BY DocumentInit, DocumentNext, PTL DEF DSpec

\* Whatever calls a client makes in whatever order, the writer does not overrun its
\* buffer, its count of characters is the width of its text, and its structure keeps its
\* types.  Of the parser it says no more than the code does: a value of any length is
\* copied, a token keeps the type its value began with unless that value reaches it, and
\* a value that is a text of its own ends inside its array.
THEOREM DocumentTypes == DSpec => []DTypeOK
<1>1. DocumentInv => DTypeOK
  BY DEF DocumentInv, DTypeOK, Good
<1>. QED
  BY <1>1, DocumentInvariant, PTL

LEMMA NestedOpen ==
  ASSUME NEW w, Good(w), Nested(w)
  PROVE  Unclosed(w.buffer)
           = [i \in DOMAIN w.nodeStack |-> Bracket[w.nodeStack[i].nodeType]]
<1> DEFINE ns == w.nodeStack
           n == Len(ns)
<1>1. Unclosed(w.buffer) = State(w.buffer).opened
  BY DEF Unclosed, State
<1>2. State(w.buffer).opened = Brackets(Types(w))
  BY DEF Nested
<1>3. DOMAIN ns = 1..n /\ Len(Types(w)) = n
  <2>1. Len(Types(w)) = n
    BY TypesIs
  <2>2. ns \in Seq([nodeType : NodeType, elementNo : Nat])
    BY DEF Good, Control
  <2>. QED
    BY <2>1, <2>2
<1>4. Types(w) = [i \in 1..n |-> ns[i].nodeType]
  BY DEF Types
<1> HIDE DEF ns, n
<1>5. Brackets(Types(w)) = [i \in 1..n |-> Bracket[Types(w)[i]]]
  BY <1>3, Zenon DEF Brackets
<1>6. \A i \in 1..n : Types(w)[i] = ns[i].nodeType
  BY <1>4
<1>7. Brackets(Types(w)) = [i \in DOMAIN ns |-> Bracket[ns[i].nodeType]]
  BY <1>3, <1>5, <1>6
<1>. QED
  BY <1>1, <1>2, <1>7 DEF ns

\* As long as the writer reports no error its stack of nodes is the brackets that are
\* open in the text, and a text it closed has none open: no sequence of calls gets the
\* closing brackets wrong.
THEOREM DocumentNesting == DSpec => []NestingIsText
<1>1. DocumentInv => NestingIsText
  <2> SUFFICES ASSUME DocumentInv, phase # "none", writer.error = "OK",
                      Top(writer).nodeType # "NONE"
               PROVE  Unclosed(writer.buffer) =
                        IF phase = "open"
                          THEN [i \in DOMAIN writer.nodeStack |->
                                  Bracket[writer.nodeStack[i].nodeType]]
                          ELSE <<>>
    BY DEF NestingIsText
  <2>1. Good(writer)
    BY DEF DocumentInv
  <2>2. ~Blank(writer)
    <3>1. SUFFICES ASSUME Types(writer) = <<"NONE">> PROVE FALSE
      BY DEF Blank
    <3>2. Types(writer)[Len(Types(writer))] = "NONE"
      BY <3>1
    <3>. QED
      BY <2>1, <3>2, TypesIs
  <2>3. CASE phase = "open"
    BY <2>1, <2>2, <2>3, NestedOpen DEF DocumentInv, Underway
  <2>4. CASE phase # "open"
    <3>1. State(writer.buffer).opened = <<>>
      BY <2>2, <2>4 DEF DocumentInv, Shut
    <3>. QED
      BY <2>4, <3>1 DEF Unclosed, State
  <2>. QED
    BY <2>3, <2>4
<1>. QED
  BY <1>1, DocumentInvariant, PTL

\* A search in what was parsed finds the first member with the key, or, when another key
\* with the same hash comes before it, never a member with a different key.
THEOREM DocumentSearch == DSpec => []SearchFindsFirst
<1>1. DocumentInv => SearchFindsFirst
  <2> DEFINE KeyOf(j) == reader.jData[j].keyValue
  <2> SUFFICES ASSUME DocumentInv, phase = "read", reader.parserStatus = "JSON_END",
                      NEW i \in DOMAIN reader.jData
               PROVE  LET found == SearchToken(reader, KeyOf(i))
                      IN  IF \E j \in 1..i : Hash(KeyOf(j)) = Hash(KeyOf(i)) /\ KeyOf(j) # KeyOf(i)
                            THEN found = 0 \/ KeyOf(found) = KeyOf(i)
                            ELSE /\ found \in 1..i /\ KeyOf(found) = KeyOf(i)
                                 /\ \A j \in 1..(found - 1) : KeyOf(j) # KeyOf(i)
    BY Zenon DEF SearchFindsFirst
  <2> DEFINE tokens == reader.jData
             n == Len(tokens)
             same == {k \in DOMAIN tokens : tokens[k].hashValue = Hash(KeyOf(i))}
             first == Min(same)
             found == SearchToken(reader, KeyOf(i))
             clash == \E j \in 1..i : Hash(KeyOf(j)) = Hash(KeyOf(i)) /\ KeyOf(j) # KeyOf(i)
  <2>1. DOMAIN tokens = 1..n /\ n \in Nat
    <3>1. reader \in Fields(Seq(Range(reader.jData)))
      BY ParserIs DEF DocumentInv
    <3>2. tokens \in Seq(Range(reader.jData))
      BY <3>1 DEF Fields
    <3>. QED
      BY <3>2
  <2>2. Hashed(reader)
    BY DEF DocumentInv, Reads
  <2>3. \A k \in 1..n : tokens[k].hashValue = Hash(KeyOf(k))
    BY <2>2 DEF Hashed
  <2>4. found = IF same # {} /\ KeyOf(first) = KeyOf(i) THEN first ELSE 0
    BY Zenon DEF SearchToken
  <2>5. i \in 1..n
    BY <2>1
  <2> HIDE DEF KeyOf, found, n
  <2>6. \A k : k \in same <=> k \in 1..n /\ Hash(KeyOf(k)) = Hash(KeyOf(i))
    BY <2>1, <2>3
  <2> HIDE DEF tokens, same
  <2>7. i \in same /\ same \in SUBSET Nat
    BY <2>1, <2>5, <2>6
  <2>8. first \in same /\ \A k \in same : first <= k
    BY <2>7, MinFacts
  <2> HIDE DEF first
  <2>9. first \in 1..i /\ first \in 1..n /\ Hash(KeyOf(first)) = Hash(KeyOf(i)) /\ n \in Nat
    BY <2>1, <2>5, <2>6, <2>7, <2>8
  <2>10. found = 0 \/ KeyOf(found) = KeyOf(i)
    BY <2>4
  <2>11. ASSUME ~clash
         PROVE  /\ found \in 1..i /\ KeyOf(found) = KeyOf(i)
                /\ \A j \in 1..(found - 1) : KeyOf(j) # KeyOf(i)
    <3>1. KeyOf(first) = KeyOf(i)
      BY <2>9, <2>11
    <3>2. found = first
      BY <2>4, <2>7, <3>1
    <3>3. \A j \in 1..(first - 1) : KeyOf(j) # KeyOf(i)
      <4> SUFFICES ASSUME NEW j \in 1..(first - 1), KeyOf(j) = KeyOf(i) PROVE FALSE
        OBVIOUS
      <4>1. j \in 1..n /\ j < first
        BY <2>9
      <4>2. j \in same
        BY <2>6, <4>1
      <4>. QED
        BY <2>8, <2>9, <4>1, <4>2
    <3>. QED
      BY <2>9, <3>1, <3>2, <3>3
  <2>. QED
    BY <2>10, <2>11, Zenon DEF found
<1>. QED
  BY <1>1, DocumentInvariant, PTL

\* A call after an error changes neither the text nor the error nor the number of the call.
LEMMA CallsSkip ==
  ASSUME NEW w, Good(w), w.error # "OK", NEW value, NEW key
  PROVE  \A v \in {Obj(w, key, value), Arr(w, value), End(w), Close(w)} :
           v.error = w.error /\ v.buffer = w.buffer /\ v.callNo = w.callNo
<1> DEFINE u == Converted(w, value)
<1>1. End(w) = w /\ Close(w) = w
  BY DEF End, Close
<1>2. u.error = w.error /\ u.buffer = w.buffer /\ u.callNo = w.callNo
  <2>1. u = w \/ \E s : u = [w EXCEPT !.tempbuf = s]
    BY Zenon DEF Converted
  <2> HIDE DEF u
  <2>. QED
    BY <2>1 DEF Good, Control
<1> HIDE DEF u
<1>3. ObjKey(u, key) = u /\ ArrItem(u) = u /\ PutValue(u, value) = u
  BY <1>2, Zenon DEF ObjKey, ArrItem, PutValue
<1>4. Obj(w, key, value) = u /\ Arr(w, value) = u
  BY <1>3, Zenon DEF Obj, Arr, u
<1>. QED
  BY <1>1, <1>2, <1>4

\* The text and the error of the first call that failed stay, whatever is called after it,
\* so the number of the call that is reported is that of the call that failed.
THEOREM DocumentFirstError == DSpec => FirstErrorStays
<1> DEFINE Stays == writer.error # "OK" => /\ writer'.error = writer.error
                                           /\ writer'.buffer = writer.buffer
                                           /\ writer'.callNo = writer.callNo
<1>1. DocumentInv /\ [DNext]_dvars => [Stays]_dvars
  <2> SUFFICES ASSUME DocumentInv, [DNext]_dvars, writer.error # "OK"
               PROVE  /\ writer'.error = writer.error /\ writer'.buffer = writer.buffer
                      /\ writer'.callNo = writer.callNo
    OBVIOUS
  <2>1. Good(writer)
    BY DEF DocumentInv
  <2>2. CASE OpenDocument
    <3>1. writer.error = "OK"
      BY <2>2 DEF OpenDocument, DocumentInv, Zeroed
    <3>. QED
      BY <3>1
  <2>3. CASE WriteObj
    <3>1. PICK key \in Keys, value \in Values : writer' = Obj(writer, key, value)
      BY <2>3 DEF WriteObj
    <3>. QED
      BY <2>1, <3>1, CallsSkip
  <2>4. CASE WriteArr
    <3>1. PICK value \in Elements : writer' = Arr(writer, value)
      BY <2>4 DEF WriteArr
    <3>. QED
      BY <2>1, <3>1, CallsSkip
  <2>5. CASE WriteEnd \/ CloseDocument
    <3>1. writer' = End(writer) \/ writer' = Close(writer)
      BY <2>5 DEF WriteEnd, CloseDocument
    <3>. QED
      BY <2>1, <3>1, CallsSkip
  <2>6. CASE BeginRead \/ Read
    BY <2>6 DEF BeginRead, Read
  <2>7. CASE UNCHANGED dvars
    BY <2>7 DEF dvars
  <2>. QED
    BY <2>2, <2>3, <2>4, <2>5, <2>6, <2>7 DEF DNext
<1>. QED
  BY <1>1, DocumentInvariant, PTL DEF DSpec, FirstErrorStays
===============================================================================
