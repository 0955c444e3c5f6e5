---------------------------- MODULE InterruptProofs ----------------------------
(***************************************************************************)
(* Proofs about the two parts that interrupts cut anywhere, for every      *)
(* value of their constants.  The response processor works on whole        *)
(* messages: the byte interrupt, the timer and the statements of           *)
(* yutu_fw_uart_recieve hand one message at a time from one to the next.   *)
(* The scheduler keeps every thread's context, and the response timer runs *)
(* out at the tick it was loaded for.                                      *)
(***************************************************************************)
EXTENDS Uart, Scheduler, TLAPS

-------------------------------------------------------------------------------
(* The UART driver. *)

USE SizesAssumption, PauseAssumption

\* The first m bytes of message k, and nothing after them.
Text(k, m) == [i \in Place |-> IF i < m THEN <<k, i>> ELSE NUL]

\* The number of messages that have left buffer.
Out == IF pc \in {"return", "process"} THEN taken + 1 ELSE taken

\* Where the message after those is: not begun, on the line, or in buffer.
Quiet == /\ Len(sizes) = Out /\ left = 0 /\ byteCount = 0 /\ startRecvFlag = 0
         /\ ~recvBufferFullFlag /\ buffer = Empty
Receiving == /\ Len(sizes) = Out + 1 /\ ~recvBufferFullFlag
             /\ byteCount + left = sizes[Out + 1]
             /\ buffer = Text(Out + 1, byteCount)
             /\ byteCount = 0 => startRecvFlag = 0
             /\ byteCount > 0 => startRecvFlag = 1
             /\ left > 0 => pause <= MaxPause
Held == /\ Len(sizes) = Out + 1 /\ left = 0 /\ byteCount = 0 /\ startRecvFlag = 0
        /\ recvBufferFullFlag
Waiting == Held /\ buffer = Text(Out + 1, sizes[Out + 1])
PhaseInv == /\ pc # "ready" => Quiet \/ Receiving \/ Waiting
            /\ pc \in {"copy", "clear"} => Waiting
            /\ pc = "ready" => Held /\ buffer = Empty

\* The tick that ends a message is the second one after its last byte.
DelayInv == startRecvFlag = 1 => responseTimeDelay = 2 - pause /\ pause \in 0..1

\* What is in recvBuffer after each statement of yutu_fw_uart_recieve.
Copied == /\ taken < Len(sizes)
          /\ \A i \in 0..(sizes[taken + 1] - 1) : recvBuffer[i] = <<taken + 1, i>>
          /\ emptied => recvBuffer = Text(taken + 1, sizes[taken + 1])
CopyInv == /\ pc = "copy" => /\ n = sizes[taken + 1]
                             /\ emptied => recvBuffer = Empty
           /\ pc \in {"clear", "ready", "return", "process"} => Copied

\* The value returned is that of a message: of the last one that ended.
CountInv == /\ Out > 0 \/ recvBufferFullFlag => recvdData > 0
            /\ pc = "process" => retval > 0
            /\ Len(sizes) <= MaxMessages

UartInv == TypeOK /\ PhaseInv /\ DelayInv /\ CopyInv /\ CountInv

LEMMA SizeFacts ==
  ASSUME TypeOK
  PROVE  /\ Len(sizes) \in Nat /\ taken \in Nat /\ Out \in Nat
         /\ \A k \in 1..Len(sizes) : sizes[k] \in 1..(BUFFER_SIZE - 1)
<1>1. sizes \in Seq(Lengths) /\ Len(sizes) \in Nat /\ taken \in 0..Len(sizes)
  BY DEF TypeOK
<1>2. \A k \in 1..Len(sizes) : sizes[k] \in Lengths
  BY <1>1
<1>3. Out \in Nat
  BY <1>1 DEF Out
<1>4. \A x \in Lengths : x \in 1..(BUFFER_SIZE - 1)
  OBVIOUS
<1>5. taken \in Nat
  BY <1>1
<1>. QED
  BY <1>1, <1>2, <1>3, <1>4, <1>5, Zenon

LEMMA TextFacts ==
  ASSUME NEW k \in Nat \ {0}, NEW m \in Place
  PROVE  /\ Text(k, 0) = Empty
         /\ Length(Text(k, m)) = m
         /\ \A i \in 0..(m - 1) : i \in Place /\ Text(k, m)[i] = <<k, i>>
<1>1. Text(k, 0) = Empty
  BY DEF Text, Empty, Place
<1>2. \A i \in Place : Text(k, m)[i] = (IF i < m THEN <<k, i>> ELSE NUL)
  BY DEF Text
<1>3. \A i \in Place : <<k, i>> # NUL
  BY DEF NUL
<1> DEFINE End(i) == Text(k, m)[i] = NUL /\ \A j \in 0..(i - 1) : Text(k, m)[j] # NUL
<1>4. End(m)
  <2>1. m \in Int /\ ~(m < m)
    BY DEF Place
  <2>. Text(k, m)[m] = NUL
    BY <1>2, <2>1
  <2>2. ASSUME NEW j \in 0..(m - 1) PROVE Text(k, m)[j] # NUL
    <3>1. j \in Place /\ j < m
      BY <2>1, <2>2 DEF Place
    <3>. QED
      BY <3>1, <1>2, <1>3
  <2>. QED
    BY <2>1, <2>2
<1>5. ASSUME NEW i \in Place, End(i) PROVE i = m
  <2>1. ~(i < m)
    BY <1>2, <1>3, <1>5
  <2>2. CASE m < i
    <3>1. m \in 0..(i - 1)
      BY <2>2, <1>5 DEF Place
    <3>. QED
      BY <3>1, <1>4, <1>5
  <2>. QED
    BY <2>1, <2>2 DEF Place
<1>6. Length(Text(k, m)) = CHOOSE i \in Place : End(i)
  BY DEF Length
<1> HIDE DEF End
<1>7. Length(Text(k, m)) = m
  BY <1>4, <1>5, <1>6
<1>8. \A i \in 0..(m - 1) : i \in Place /\ i < m
  BY DEF Place
<1>. QED
  BY <1>1, <1>2, <1>7, <1>8

LEMMA InitHolds == Init => UartInv
<1> SUFFICES ASSUME Init PROVE UartInv
  OBVIOUS
<1>1. Empty \in [Place -> {NUL} \cup ((1..MaxMessages) \X Place)] /\ 0 \in Place
  BY DEF Empty, Place
<1>2. TypeOK
  BY <1>1 DEF Init, TypeOK
<1>3. PhaseInv
  BY DEF Init, PhaseInv, Quiet, Out
<1>4. DelayInv /\ CopyInv /\ CountInv
  BY DEF Init, DelayInv, CopyInv, CountInv, Out
<1>. QED
  BY <1>2, <1>3, <1>4 DEF UartInv

-------------------------------------------------------------------------------
(* The line: while a message is on it, the thread is not in the middle of its *)
(* copy, and a new one begins only when nothing is in buffer.                 *)

LEMMA OnTheLine ==
  ASSUME UartInv, left > 0 \/ startRecvFlag = 1
  PROVE  /\ Receiving /\ pc \in {"idle", "return", "process"}
<1>1. PhaseInv /\ TypeOK
  BY DEF UartInv
<1>2. ~Quiet /\ ~Held
  BY <1>1 DEF Quiet, Held
<1>3. ~Waiting
  BY <1>2 DEF Waiting
<1>. QED
  BY <1>1, <1>2, <1>3 DEF PhaseInv, TypeOK

LEMMA LineFree ==
  ASSUME UartInv, left = 0, startRecvFlag = 0, ~recvBufferFullFlag
  PROVE  /\ Quiet /\ pc \in {"idle", "return", "process"}
<1>1. PhaseInv /\ TypeOK
  BY DEF UartInv
<1>2. ~Held /\ ~Waiting
  BY DEF Held, Waiting
<1>3. ~Receiving
  <2> SUFFICES ASSUME Receiving PROVE FALSE
    OBVIOUS
  <2>1. sizes[Out + 1] > 0 /\ byteCount = sizes[Out + 1]
    BY <1>1, SizeFacts DEF Receiving, TypeOK
  <2>. QED
    BY <2>1 DEF Receiving
<1>. QED
  BY <1>1, <1>2, <1>3 DEF PhaseInv, TypeOK

\* What the thread holds is not disturbed by the line.
LEMMA ThreadKept ==
  ASSUME UartInv, UNCHANGED thread, pc \in {"idle", "return", "process"},
         Len(sizes') \in Nat, Len(sizes') >= Len(sizes),
         \A k \in 1..Len(sizes) : sizes'[k] = sizes[k]
  PROVE  /\ CopyInv' /\ Out' = Out
         /\ (recvBuffer \in [Place -> {NUL} \cup ((1..MaxMessages) \X Place)])'
         /\ (emptied \in BOOLEAN)' /\ (n \in Place)' /\ (retval \in 0..BUFFER_SIZE)'
         /\ (pc \in {"idle", "copy", "clear", "ready", "return", "process"})'
         /\ (taken \in 0..Len(sizes))'
<1>1. UNCHANGED <<recvBuffer, pc, n, retval, emptied, taken>>
  BY DEF thread
<1>2. TypeOK /\ CopyInv
  BY DEF UartInv
<1>3. Out' = Out
  BY <1>1 DEF Out
<1>4. /\ (recvBuffer \in [Place -> {NUL} \cup ((1..MaxMessages) \X Place)])'
      /\ (emptied \in BOOLEAN)' /\ (n \in Place)' /\ (retval \in 0..BUFFER_SIZE)'
      /\ (pc \in {"idle", "copy", "clear", "ready", "return", "process"})'
  BY <1>1, <1>2 DEF TypeOK
<1>5. (taken \in 0..Len(sizes))'
  BY <1>1, <1>2, SizeFacts DEF TypeOK
<1>6. ASSUME Copied PROVE Copied'
  <2>1. taken + 1 \in 1..Len(sizes)
    BY <1>2, <1>6, SizeFacts DEF Copied
  <2>2. sizes'[taken' + 1] = sizes[taken + 1] /\ taken' < Len(sizes')
    BY <1>1, <1>2, <2>1, SizeFacts
  <2>3. Text(taken + 1, sizes[taken + 1])' = Text(taken + 1, sizes[taken + 1])
    BY <1>1, <2>2 DEF Text
  <2>. QED
    BY <1>1, <1>6, <2>2, <2>3 DEF Copied
<1>7. CopyInv'
  BY <1>1, <1>2, <1>6 DEF CopyInv
<1>. QED
  BY <1>3, <1>4, <1>5, <1>7

LEMMA BeginStep ==
  ASSUME UartInv, NEW len \in Lengths, Begin(len) PROVE UartInv'
<1>1. /\ left = 0 /\ startRecvFlag = 0 /\ ~recvBufferFullFlag /\ Len(sizes) < MaxMessages
      /\ sizes' = Append(sizes, len) /\ left' = len /\ pause' = 0
      /\ UNCHANGED <<buffer, byteCount, startRecvFlag, recvdData, responseTimeDelay,
                     recvBufferFullFlag, thread>>
  BY DEF Begin, isr
<1>2. TypeOK /\ DelayInv /\ CountInv
  BY DEF UartInv
<1>3. Quiet /\ pc \in {"idle", "return", "process"}
  BY <1>1, LineFree
<1>4. len \in 1..(BUFFER_SIZE - 1)
  OBVIOUS
<1>5. /\ sizes \in Seq(Lengths) /\ sizes' \in Seq(Lengths)
      /\ Len(sizes) \in Nat /\ Len(sizes') = Len(sizes) + 1
      /\ sizes'[Len(sizes) + 1] = len
      /\ \A k \in 1..Len(sizes) : sizes'[k] = sizes[k]
  BY <1>1, <1>2 DEF TypeOK
<1>6. /\ CopyInv' /\ Out' = Out
      /\ (recvBuffer \in [Place -> {NUL} \cup ((1..MaxMessages) \X Place)])'
      /\ (emptied \in BOOLEAN)' /\ (n \in Place)' /\ (retval \in 0..BUFFER_SIZE)'
      /\ (pc \in {"idle", "copy", "clear", "ready", "return", "process"})'
      /\ (taken \in 0..Len(sizes))'
  <2>1. Len(sizes') \in Nat /\ Len(sizes') >= Len(sizes)
    BY <1>5
  <2>. QED
    BY <1>1, <1>3, <1>5, <2>1, ThreadKept
<1>7. TypeOK'
  BY <1>1, <1>2, <1>4, <1>5, <1>6 DEF TypeOK
<1>8. Receiving'
  <2>1. Len(sizes) = Out /\ byteCount = 0 /\ buffer = Empty /\ Out \in Nat
    BY <1>2, <1>3, SizeFacts DEF Quiet
  <2>2. Text(Out + 1, byteCount)' = Empty
    BY <1>1, <1>6, <2>1 DEF Text, Empty, Place
  <2>3. Len(sizes') = Out' + 1 /\ byteCount' + left' = sizes'[Out' + 1]
    BY <1>1, <1>4, <1>5, <1>6, <2>1
  <2>. QED
    BY <1>1, <2>1, <2>2, <2>3 DEF Receiving
<1>9. PhaseInv'
  BY <1>1, <1>3, <1>8 DEF PhaseInv, thread
<1>10. DelayInv' /\ CountInv'
  BY <1>1, <1>2, <1>5, <1>6 DEF DelayInv, CountInv, thread
<1>. QED
  BY <1>6, <1>7, <1>9, <1>10 DEF UartInv

LEMMA ByteStep ==
  ASSUME UartInv, Byte PROVE UartInv'
<1>1. /\ left > 0
      /\ buffer' = [buffer EXCEPT ![byteCount] = <<Len(sizes), sizes[Len(sizes)] - left>>]
      /\ startRecvFlag' = IF byteCount = 0 THEN 1 ELSE startRecvFlag
      /\ responseTimeDelay' = 2 /\ byteCount' = byteCount + 1
      /\ left' = left - 1 /\ pause' = 0
      /\ UNCHANGED <<recvdData, recvBufferFullFlag, sizes, thread>>
  BY DEF Byte
<1>2. TypeOK /\ DelayInv /\ CountInv
  BY DEF UartInv
<1>3. Receiving /\ pc \in {"idle", "return", "process"}
  BY <1>1, OnTheLine
<1> DEFINE k == Out + 1
<1>4. /\ k \in Nat \ {0} /\ Len(sizes) = k /\ sizes[k] \in 1..(BUFFER_SIZE - 1)
      /\ byteCount + left = sizes[k] /\ byteCount \in Nat /\ left \in Nat
  <2>1. Len(sizes) = k /\ byteCount + left = sizes[k]
    BY <1>3 DEF Receiving
  <2>2. byteCount \in Nat /\ left \in Nat
    BY <1>2 DEF TypeOK
  <2>3. k \in 1..Len(sizes) /\ k \in Nat \ {0}
    BY <1>2, <2>1, SizeFacts
  <2>. QED
    BY <1>2, <2>1, <2>2, <2>3, SizeFacts
<1> HIDE DEF k
<1>5. /\ byteCount \in Place /\ byteCount + 1 \in Place
      /\ byteCount' = byteCount + 1 /\ startRecvFlag' = 1
  BY <1>1, <1>3, <1>4 DEF Place, Receiving
<1>6. buffer = Text(k, byteCount)
  BY <1>3 DEF Receiving, k
<1>7. buffer' = Text(k, byteCount + 1)
  <2>1. sizes[Len(sizes)] - left = byteCount
    BY <1>4
  <2>2. buffer' = [buffer EXCEPT ![byteCount] = <<k, byteCount>>]
    BY <1>1, <1>4, <2>1
  <2>3. \A i \in Place : i # byteCount => (i < byteCount <=> i < byteCount + 1)
    BY <1>4 DEF Place
  <2>4. byteCount < byteCount + 1
    BY <1>4
  <2>. QED
    BY <1>6, <2>2, <2>3, <2>4 DEF Text
<1>8. k \in 1..MaxMessages
  BY <1>2, <1>4 DEF CountInv
<1>9. buffer' \in [Place -> {NUL} \cup ((1..MaxMessages) \X Place)]
  BY <1>7, <1>8 DEF Text
<1>10. /\ CopyInv' /\ Out' = Out
       /\ (recvBuffer \in [Place -> {NUL} \cup ((1..MaxMessages) \X Place)])'
       /\ (emptied \in BOOLEAN)' /\ (n \in Place)' /\ (retval \in 0..BUFFER_SIZE)'
       /\ (pc \in {"idle", "copy", "clear", "ready", "return", "process"})'
       /\ (taken \in 0..Len(sizes))'
  <2>1. Len(sizes') \in Nat /\ Len(sizes') >= Len(sizes)
    BY <1>1, <1>4
  <2>. QED
    BY <1>1, <1>3, <2>1, ThreadKept
<1>11. TypeOK'
  BY <1>1, <1>2, <1>4, <1>5, <1>9, <1>10 DEF TypeOK, Place
<1>12. Receiving'
  <2>1. Text(Out + 1, byteCount)' = Text(k, byteCount + 1)
    BY <1>5, <1>10 DEF Text, k
  <2>2. Len(sizes') = Out' + 1 /\ byteCount' + left' = sizes'[Out' + 1]
    BY <1>1, <1>4, <1>10 DEF k
  <2>3. left' > 0 => pause' <= MaxPause
    BY <1>1
  <2>. QED
    BY <1>1, <1>3, <1>4, <1>5, <1>7, <2>1, <2>2, <2>3 DEF Receiving
<1>13. PhaseInv'
  BY <1>1, <1>3, <1>12 DEF PhaseInv, thread
<1>14. DelayInv' /\ CountInv'
  BY <1>1, <1>2, <1>10 DEF DelayInv, CountInv, thread
<1>. QED
  BY <1>10, <1>11, <1>13, <1>14 DEF UartInv

\* The tick that ends a message is not one between two of its bytes.
LEMMA TickStep ==
  ASSUME UartInv, Tick PROVE UartInv'
<1>1. /\ startRecvFlag = 1 /\ (left > 0 => pause < MaxPause)
      /\ responseTimeDelay' = responseTimeDelay - 1 /\ pause' = pause + 1
      /\ UNCHANGED <<buffer, sizes, left, thread>>
  BY DEF Tick
<1>2. TypeOK /\ DelayInv /\ CountInv
  BY DEF UartInv
<1>3. Receiving /\ pc \in {"idle", "return", "process"}
  BY <1>1, OnTheLine
<1>4. /\ Out \in Nat /\ Len(sizes) = Out + 1 /\ sizes[Out + 1] \in 1..(BUFFER_SIZE - 1)
      /\ byteCount + left = sizes[Out + 1] /\ byteCount \in Nat /\ left \in Nat
      /\ byteCount > 0
  <2>1. Len(sizes) = Out + 1 /\ byteCount + left = sizes[Out + 1]
    BY <1>3 DEF Receiving
  <2>2. byteCount \in Nat /\ left \in Nat /\ Out \in Nat
    BY <1>2, SizeFacts DEF TypeOK
  <2>3. Out + 1 \in 1..Len(sizes)
    BY <2>1, <2>2
  <2>4. byteCount > 0
    BY <1>1, <1>3, <2>2 DEF Receiving
  <2>. QED
    BY <1>2, <2>1, <2>2, <2>3, <2>4, SizeFacts
<1>5. responseTimeDelay = 2 - pause /\ pause \in 0..1
  BY <1>1, <1>2 DEF DelayInv
<1>6. /\ CopyInv' /\ Out' = Out
      /\ (recvBuffer \in [Place -> {NUL} \cup ((1..MaxMessages) \X Place)])'
      /\ (emptied \in BOOLEAN)' /\ (n \in Place)' /\ (retval \in 0..BUFFER_SIZE)'
      /\ (pc \in {"idle", "copy", "clear", "ready", "return", "process"})'
      /\ (taken \in 0..Len(sizes))'
  <2>1. Len(sizes') \in Nat /\ Len(sizes') >= Len(sizes)
    BY <1>1, <1>4
  <2>. QED
    BY <1>1, <1>3, <2>1, ThreadKept
<1>7. CASE responseTimeDelay = 1
  <2>1. /\ recvdData' = byteCount /\ byteCount' = 0 /\ startRecvFlag' = 0
        /\ recvBufferFullFlag' = TRUE
    BY <1>7 DEF Tick, MessageEnd
  <2>2. left = 0
    BY <1>1, <1>4, <1>5, <1>7
  <2>3. byteCount = sizes[Out + 1]
    BY <1>4, <2>2
  <2>4. TypeOK'
    BY <1>1, <1>2, <1>4, <1>5, <1>6, <2>1 DEF TypeOK
  <2>5. Held'
    BY <1>1, <1>4, <1>6, <2>1, <2>2 DEF Held
  <2>6. buffer' = Text(Out + 1, sizes[Out + 1])'
    <3>1. Text(Out + 1, sizes[Out + 1])' = Text(Out + 1, byteCount)
      BY <1>1, <1>6, <2>3 DEF Text
    <3>. QED
      BY <1>1, <1>3, <3>1 DEF Receiving
  <2>7. PhaseInv'
    BY <1>1, <1>3, <2>5, <2>6 DEF PhaseInv, Waiting, thread
  <2>8. DelayInv' /\ CountInv'
    BY <1>1, <1>2, <1>4, <1>6, <2>1 DEF DelayInv, CountInv, thread
  <2>. QED
    BY <1>6, <2>4, <2>7, <2>8 DEF UartInv
<1>8. CASE responseTimeDelay # 1
  <2>1. UNCHANGED <<recvdData, byteCount, startRecvFlag, recvBufferFullFlag>>
    BY <1>8 DEF Tick
  <2>2. pause = 0 /\ responseTimeDelay = 2
    BY <1>5, <1>8
  <2>3. TypeOK'
    BY <1>1, <1>2, <1>6, <2>1, <2>2 DEF TypeOK
  <2>4. Receiving'
    <3>1. Text(Out + 1, byteCount)' = Text(Out + 1, byteCount)
      BY <1>6, <2>1 DEF Text
    <3>2. left' > 0 => pause' <= MaxPause
      BY <1>1, <2>2
    <3>. QED
      BY <1>1, <1>3, <1>6, <2>1, <3>1, <3>2 DEF Receiving
  <2>5. PhaseInv'
    BY <1>1, <1>3, <2>4 DEF PhaseInv, thread
  <2>6. DelayInv' /\ CountInv'
    BY <1>1, <1>2, <1>6, <2>1, <2>2 DEF DelayInv, CountInv, thread
  <2>. QED
    BY <1>6, <2>3, <2>5, <2>6 DEF UartInv
<1>. QED
  BY <1>7, <1>8

-------------------------------------------------------------------------------
(* The thread: one statement after the other of yutu_fw_uart_recieve. *)

\* The line is still while there is a message to take out.
LEMMA HeldFacts ==
  ASSUME TypeOK, Held, pc \in {"idle", "copy", "clear", "ready"}
  PROVE  /\ Out = taken /\ taken + 1 \in 1..Len(sizes) /\ Len(sizes) = taken + 1
         /\ taken + 1 \in Nat \ {0}
         /\ sizes[taken + 1] \in Place /\ sizes[taken + 1] \in 1..(BUFFER_SIZE - 1)
<1>1. Out = taken
  BY DEF Out
<1>2. taken + 1 \in 1..Len(sizes) /\ Len(sizes) = taken + 1 /\ taken + 1 \in Nat \ {0}
  BY <1>1, SizeFacts DEF Held
<1>3. sizes[taken + 1] \in 1..(BUFFER_SIZE - 1)
  BY <1>2, SizeFacts
<1>. QED
  BY <1>1, <1>2, <1>3 DEF Place

LEMMA ReceiveStep ==
  ASSUME UartInv, Receive PROVE UartInv'
<1>1. /\ pc = "idle" /\ recvBufferFullFlag /\ pc' = "copy" /\ n' = Length(buffer)
      /\ emptied' = (recvBuffer = Empty)
      /\ recvBuffer' = [i \in Place |-> IF i < POINTER_SIZE THEN NUL ELSE recvBuffer[i]]
      /\ UNCHANGED <<buffer, byteCount, startRecvFlag, recvdData, responseTimeDelay,
                     recvBufferFullFlag, sizes, left, pause, retval, taken>>
  BY DEF Receive, isr, line
<1>2. TypeOK /\ DelayInv /\ CountInv /\ PhaseInv
  BY DEF UartInv
<1>3. Waiting
  BY <1>1, <1>2 DEF PhaseInv, Quiet, Receiving
<1>4. /\ Out = taken /\ Len(sizes) = taken + 1 /\ taken + 1 \in Nat \ {0}
      /\ sizes[taken + 1] \in Place
  BY <1>1, <1>2, <1>3, HeldFacts DEF Waiting
<1>5. n' = sizes[taken + 1]
  BY <1>1, <1>3, <1>4, TextFacts DEF Waiting
<1>6. recvBuffer' \in [Place -> {NUL} \cup ((1..MaxMessages) \X Place)]
  BY <1>1, <1>2 DEF TypeOK
<1>7. TypeOK'
  BY <1>1, <1>2, <1>4, <1>5, <1>6 DEF TypeOK
<1>8. Out' = Out
  BY <1>1 DEF Out
<1>9. Waiting'
  BY <1>1, <1>3, <1>8 DEF Waiting, Held, Text
<1>10. emptied' => recvBuffer' = Empty
  BY <1>1 DEF Empty
<1>11. PhaseInv' /\ CopyInv'
  BY <1>1, <1>5, <1>9, <1>10 DEF PhaseInv, CopyInv
<1>12. DelayInv' /\ CountInv'
  BY <1>1, <1>2, <1>8 DEF DelayInv, CountInv
<1>. QED
  BY <1>7, <1>11, <1>12 DEF UartInv

LEMMA CopyStep ==
  ASSUME UartInv, Copy PROVE UartInv'
<1>1. /\ pc = "copy" /\ pc' = "clear"
      /\ recvBuffer' = [i \in Place |-> IF i < n THEN buffer[i] ELSE recvBuffer[i]]
      /\ UNCHANGED <<buffer, byteCount, startRecvFlag, recvdData, responseTimeDelay,
                     recvBufferFullFlag, sizes, left, pause, n, retval, emptied, taken>>
  BY DEF Copy, isr, line
<1>2. TypeOK /\ DelayInv /\ CountInv /\ PhaseInv /\ CopyInv
  BY DEF UartInv
<1>3. Waiting /\ n = sizes[taken + 1] /\ (emptied => recvBuffer = Empty)
  BY <1>1, <1>2 DEF PhaseInv, CopyInv
<1>4. /\ Out = taken /\ Len(sizes) = taken + 1 /\ taken + 1 \in Nat \ {0}
      /\ n \in Place
  BY <1>1, <1>2, <1>3, HeldFacts DEF Waiting
<1>5. buffer = Text(taken + 1, n)
  BY <1>3, <1>4 DEF Waiting
<1>6. recvBuffer' \in [Place -> {NUL} \cup ((1..MaxMessages) \X Place)]
  BY <1>1, <1>2 DEF TypeOK
<1>7. TypeOK'
  BY <1>1, <1>2, <1>6 DEF TypeOK
<1>8. Out' = Out
  BY <1>1 DEF Out
<1>9. Waiting'
  BY <1>1, <1>3, <1>8 DEF Waiting, Held, Text
<1>10. Copied'
  <2>1. taken' < Len(sizes') /\ sizes'[taken' + 1] = n
    <3>1. taken < Len(sizes)
      BY <1>2, <1>4, SizeFacts
    <3>. QED
      BY <1>1, <1>3, <3>1
  <2>2. \A i \in 0..(n - 1) : i \in Place /\ i < n
    BY <1>4 DEF Place
  <2>3. \A i \in 0..(n - 1) : buffer[i] = <<taken + 1, i>>
    BY <1>4, <1>5, TextFacts
  <2>4. \A i \in 0..(n - 1) : recvBuffer'[i] = <<taken' + 1, i>>
    BY <1>1, <2>2, <2>3
  <2>5. ASSUME emptied' PROVE recvBuffer' = Text(taken + 1, n)
    <3>1. recvBuffer' = [i \in Place |-> IF i < n THEN buffer[i] ELSE Empty[i]]
      BY <1>1, <1>3, <2>5
    <3>2. \A i \in Place : Empty[i] = NUL /\ (i < n => buffer[i] = <<taken + 1, i>>)
      BY <1>5 DEF Empty, Text
    <3>. QED
      BY <3>1, <3>2 DEF Text
  <2>6. Text(taken + 1, sizes[taken + 1])' = Text(taken + 1, n)
    BY <1>1, <1>3 DEF Text
  <2>. QED
    BY <2>1, <2>4, <2>5, <2>6 DEF Copied
<1>11. PhaseInv' /\ CopyInv'
  BY <1>1, <1>9, <1>10 DEF PhaseInv, CopyInv
<1>12. DelayInv' /\ CountInv'
  BY <1>1, <1>2, <1>8 DEF DelayInv, CountInv
<1>. QED
  BY <1>7, <1>11, <1>12 DEF UartInv

LEMMA ClearStep ==
  ASSUME UartInv, Clear PROVE UartInv'
<1>1. /\ pc = "clear" /\ pc' = "ready" /\ buffer' = Empty
      /\ UNCHANGED <<byteCount, startRecvFlag, recvdData, responseTimeDelay, recvBuffer,
                     recvBufferFullFlag, sizes, left, pause, n, retval, emptied, taken>>
  BY DEF Clear, isr, line
<1>2. TypeOK /\ DelayInv /\ CountInv /\ PhaseInv /\ CopyInv
  BY DEF UartInv
<1>3. Waiting /\ Copied
  BY <1>1, <1>2 DEF PhaseInv, CopyInv
<1>4. Empty \in [Place -> {NUL} \cup ((1..MaxMessages) \X Place)]
  BY DEF Empty
<1>5. TypeOK'
  BY <1>1, <1>2, <1>4 DEF TypeOK
<1>6. Out' = Out
  BY <1>1 DEF Out
<1>7. Held' /\ Copied'
  BY <1>1, <1>3, <1>6 DEF Waiting, Held, Copied, Text
<1>8. PhaseInv' /\ CopyInv'
  BY <1>1, <1>7 DEF PhaseInv, CopyInv
<1>9. DelayInv' /\ CountInv'
  BY <1>1, <1>2, <1>6 DEF DelayInv, CountInv
<1>. QED
  BY <1>5, <1>8, <1>9 DEF UartInv

LEMMA ReadyStep ==
  ASSUME UartInv, Ready PROVE UartInv'
<1>1. /\ pc = "ready" /\ pc' = "return" /\ recvBufferFullFlag' = FALSE
      /\ UNCHANGED <<buffer, byteCount, startRecvFlag, recvdData, responseTimeDelay, recvBuffer,
                     sizes, left, pause, n, retval, emptied, taken>>
  BY DEF Ready, isr, line
<1>2. TypeOK /\ DelayInv /\ CountInv /\ PhaseInv /\ CopyInv
  BY DEF UartInv
<1>3. Held /\ buffer = Empty /\ Copied
  BY <1>1, <1>2 DEF PhaseInv, CopyInv
<1>4. Out = taken /\ Len(sizes) = taken + 1 /\ recvdData > 0
  BY <1>1, <1>2, <1>3, HeldFacts DEF CountInv, Held
<1>5. TypeOK'
  BY <1>1, <1>2 DEF TypeOK
<1>6. Out' = taken + 1
  BY <1>1 DEF Out
<1>7. Quiet' /\ Copied'
  BY <1>1, <1>3, <1>4, <1>6 DEF Quiet, Held, Copied, Text
<1>8. PhaseInv' /\ CopyInv'
  BY <1>1, <1>7 DEF PhaseInv, CopyInv
<1>9. DelayInv' /\ CountInv'
  BY <1>1, <1>2, <1>4 DEF DelayInv, CountInv
<1>. QED
  BY <1>5, <1>8, <1>9 DEF UartInv

\* A message that ended since the flag was lowered may have replaced the value
\* returned, by another positive one.
LEMMA ReturnStep ==
  ASSUME UartInv, Return PROVE UartInv'
<1>1. /\ pc = "return" /\ pc' = "process" /\ retval' = recvdData
      /\ UNCHANGED <<buffer, byteCount, startRecvFlag, recvdData, responseTimeDelay, recvBuffer,
                     recvBufferFullFlag, sizes, left, pause, n, emptied, taken>>
  BY DEF Return, isr, line
<1>2. TypeOK /\ DelayInv /\ CountInv /\ PhaseInv /\ CopyInv
  BY DEF UartInv
<1>3. Copied /\ (Quiet \/ Receiving \/ Waiting)
  BY <1>1, <1>2 DEF PhaseInv, CopyInv
<1>4. Out' = Out /\ Out > 0
  BY <1>1, <1>2, SizeFacts DEF Out
<1>5. TypeOK'
  BY <1>1, <1>2 DEF TypeOK
<1>6. Quiet' \/ Receiving' \/ Waiting'
  BY <1>1, <1>3, <1>4 DEF Quiet, Receiving, Waiting, Held, Text
<1>7. Copied'
  BY <1>1, <1>3 DEF Copied, Text
<1>8. PhaseInv' /\ CopyInv'
  BY <1>1, <1>6, <1>7 DEF PhaseInv, CopyInv
<1>9. DelayInv' /\ CountInv'
  BY <1>1, <1>2, <1>4 DEF DelayInv, CountInv
<1>. QED
  BY <1>5, <1>8, <1>9 DEF UartInv

LEMMA ProcessStep ==
  ASSUME UartInv, Process PROVE UartInv'
<1>1. /\ pc = "process" /\ pc' = "idle"
      /\ taken' = IF retval > 0 THEN taken + 1 ELSE taken
      /\ UNCHANGED <<buffer, byteCount, startRecvFlag, recvdData, responseTimeDelay, recvBuffer,
                     recvBufferFullFlag, sizes, left, pause, n, retval, emptied>>
  BY DEF Process, isr, line
<1>2. TypeOK /\ DelayInv /\ CountInv /\ PhaseInv /\ CopyInv
  BY DEF UartInv
<1>3. Copied /\ (Quiet \/ Receiving \/ Waiting) /\ retval > 0
  BY <1>1, <1>2 DEF PhaseInv, CopyInv, CountInv
<1>4. taken' = taken + 1
  BY <1>1, <1>3
<1>5. Out' = Out
  BY <1>1, <1>4 DEF Out
<1>6. TypeOK'
  BY <1>1, <1>2, <1>3, <1>4, SizeFacts DEF TypeOK, Copied
<1>7. Quiet' \/ Receiving' \/ Waiting'
  BY <1>1, <1>3, <1>5 DEF Quiet, Receiving, Waiting, Held, Text
<1>8. PhaseInv' /\ CopyInv'
  BY <1>1, <1>7 DEF PhaseInv, CopyInv
<1>9. DelayInv' /\ CountInv'
  BY <1>1, <1>2, <1>5 DEF DelayInv, CountInv
<1>. QED
  BY <1>6, <1>8, <1>9 DEF UartInv

\* Emptying the caller's buffer, or nothing at all.
LEMMA OtherStep ==
  ASSUME UartInv, ClearCaller \/ UNCHANGED vars PROVE UartInv'
<1>1. UNCHANGED <<buffer, byteCount, startRecvFlag, recvdData, responseTimeDelay, pc,
                  recvBufferFullFlag, sizes, left, pause, n, retval, emptied, taken>>
  BY DEF ClearCaller, isr, line, vars, thread
<1>2. TypeOK /\ DelayInv /\ CountInv /\ PhaseInv /\ CopyInv
  BY DEF UartInv
<1>3. (pc = "idle" /\ recvBuffer' = Empty) \/ recvBuffer' = recvBuffer
  BY DEF ClearCaller, vars, thread
<1>4. Out' = Out
  BY <1>1 DEF Out
<1>5. Empty \in [Place -> {NUL} \cup ((1..MaxMessages) \X Place)]
  BY DEF Empty
<1>6. TypeOK'
  BY <1>1, <1>2, <1>3, <1>5 DEF TypeOK
<1>7. PhaseInv'
  BY <1>1, <1>2, <1>4 DEF PhaseInv, Quiet, Receiving, Waiting, Held, Text
<1>8. CopyInv'
  BY <1>1, <1>2, <1>3 DEF CopyInv, Copied, Text
<1>9. DelayInv' /\ CountInv'
  BY <1>1, <1>2, <1>4 DEF DelayInv, CountInv
<1>. QED
  BY <1>6, <1>7, <1>8, <1>9 DEF UartInv

\* For every size of the buffer and of the pointer, and all messages that fit: no
\* interleaving of the two interrupts with the thread breaks the invariant.
THEOREM UartInvariant == Spec => []UartInv
<1>1. ASSUME UartInv, [Next]_vars PROVE UartInv'
  BY <1>1, BeginStep, ByteStep, TickStep, ReceiveStep, CopyStep, ClearStep, ReadyStep,
     ReturnStep, ProcessStep, OtherStep DEF Next, Thread
<1>. QED
  BY InitHolds, <1>1, PTL DEF Spec

\* The variables of the driver keep their types: byteCount and strlen stay inside the
\* buffer.
THEOREM UartTypes == Spec => []TypeOK
<1>1. UartInv => TypeOK
  BY DEF UartInv
<1>. QED
  BY UartInvariant, <1>1, PTL

\* The response processor works on whole messages, in their order, although either
\* interrupt may cut yutu_fw_uart_recieve between its statements.
THEOREM MessagesAreWhole == Spec => []MessageIsWhole
<1>1. ASSUME UartInv PROVE MessageIsWhole
  <2> SUFFICES ASSUME pc = "process"
               PROVE  /\ taken < Len(sizes)
                      /\ \A i \in 0..(sizes[taken + 1] - 1) : recvBuffer[i] = <<taken + 1, i>>
                      /\ emptied => Length(recvBuffer) = sizes[taken + 1]
    BY DEF MessageIsWhole
  <2>1. TypeOK /\ Copied
    BY <1>1 DEF UartInv, CopyInv
  <2>2. taken + 1 \in 1..Len(sizes) /\ taken + 1 \in Nat \ {0}
    BY <2>1, SizeFacts DEF Copied
  <2>3. sizes[taken + 1] \in Place
    BY <2>1, <2>2, SizeFacts DEF Place
  <2>4. Length(Text(taken + 1, sizes[taken + 1])) = sizes[taken + 1]
    BY <2>2, <2>3, TextFacts
  <2>. QED
    BY <2>1, <2>4 DEF Copied
<1>. QED
  BY UartInvariant, <1>1, PTL
-------------------------------------------------------------------------------
(* The scheduler. *)

HIDE PauseAssumption
HIDE SizesAssumption
USE SchedulerAssumption, TimerAssumption

\* The table while main fills it: the tasks registered are the first ones, and
\* nothing has run.
BootInv ==
  /\ size < SCHEDULER_MAX_TASKS
  /\ called > 0 => size > 0
  /\ refused <= called
  /\ ~started => /\ currentTask = 0 /\ ~pendSV
                 /\ \A t \in Task : done[t] = 0
                 /\ \A t \in 0..(size - 1) : stackPtr[t] = <<t, 0>>

\* Once a thread has the processor: SysTick has picked the next thread exactly when
\* PendSV has not yet exchanged the contexts.
SwitchInv ==
  started => /\ size > 0 /\ currentTask < size /\ cpu[1] \in 0..(size - 1)
             /\ ~pendSV => cpu[1] = currentTask
             /\ pendSV => osCurrentTask = cpu[1] /\ osNextTask = currentTask

\* The timer is off while it is being loaded or cleared, and counts down what is
\* left of the ticks it was loaded with.
TimerInv ==
  /\ user # "off" => ~delayTimerStart
  /\ user \in {"clear", "start"} => respTimeOut = loaded /\ loaded > 0
  /\ user = "start" => ~timeOutFlag
  /\ delayTimerStart => /\ ~timeOutFlag /\ respTimeOut > 0
                        /\ respTimeOut = loaded - waited
  /\ user = "off" /\ timeOutFlag => waited = loaded

SchedulerInv == SchedTypeOK /\ BootInv /\ SwitchInv /\ ContextsKept /\ TimerInv

LEMMA TaskFacts ==
  /\ Task = 0..(SCHEDULER_MAX_TASKS - 1) /\ 0 \in Task
  /\ \A m \in 0..SCHEDULER_MAX_TASKS : 0..(m - 1) \subseteq Task
  /\ \A t \in Task : <<t, 0>> \in Context
  /\ \A k \in Int : k % Period \in 0..(Period - 1)
BY DEF Task, Context

LEMMA ContextFacts ==
  ASSUME NEW c \in Context, c[1] \in Task
  PROVE  c \in Task \X (0..(Period - 1)) /\ c = <<c[1], c[2]>>
         /\ c[2] \in 0..(Period - 1)
<1>1. c # Boot
  BY DEF Boot, None, Task
<1>. QED
  BY <1>1 DEF Context

LEMMA SchedInitHolds == SchedInit => SchedulerInv
<1> SUFFICES ASSUME SchedInit PROVE SchedulerInv
  OBVIOUS
<1>1. stackPtr \in [Task -> Context] /\ cpu \in Context /\ done \in [Task -> 0..(Period - 1)]
  BY DEF SchedInit, Context
<1>2. SchedTypeOK
  <2>1. status \in [Task -> {"ZERO", "IDLE", "ACTIVE"}]
    BY DEF SchedInit
  <2>2. currentTask \in Task /\ size \in 0..SCHEDULER_MAX_TASKS
    BY TaskFacts DEF SchedInit
  <2>3. {osCurrentTask, osNextTask} \subseteq Task \cup {None} /\ {pendSV, started} \subseteq BOOLEAN
    BY DEF SchedInit
  <2>4. called \in 0..Handlers /\ refused \in 0..Handlers
    BY DEF SchedInit
  <2>5. {delayTimerStart, timeOutFlag} \subseteq BOOLEAN
    BY DEF SchedInit
  <2>6. {respTimeOut, loaded, waited} \subseteq Nat
    BY DEF SchedInit
  <2>7. user \in {"off", "load", "clear", "start", "unload", "forget"}
    BY DEF SchedInit
  <2>. QED
    BY <1>1, <2>1, <2>2, <2>3, <2>4, <2>5, <2>6, <2>7 DEF SchedTypeOK
<1>3. BootInv /\ SwitchInv /\ ContextsKept /\ TimerInv
  BY DEF SchedInit, BootInv, SwitchInv, ContextsKept, TimerInv
<1>. QED
  BY <1>2, <1>3 DEF SchedulerInv

\* The response timer in the tick and in the statements of its user.
LEMMA TimerKept ==
  ASSUME SchedulerInv, UNCHANGED timer
  PROVE  /\ TimerInv'
         /\ ({delayTimerStart, timeOutFlag} \subseteq BOOLEAN)'
         /\ ({respTimeOut, loaded, waited} \subseteq Nat)'
         /\ (user \in {"off", "load", "clear", "start", "unload", "forget"})'
BY DEF SchedulerInv, SchedTypeOK, TimerInv, timer

LEMMA TimerTickStep ==
  ASSUME SchedulerInv, TimerTick
  PROVE  /\ TimerInv'
         /\ ({delayTimerStart, timeOutFlag} \subseteq BOOLEAN)'
         /\ ({respTimeOut, loaded, waited} \subseteq Nat)'
         /\ (user \in {"off", "load", "clear", "start", "unload", "forget"})'
BY DEF SchedulerInv, SchedTypeOK, TimerInv, TimerTick

LEMMA UserStep ==
  ASSUME SchedulerInv, TimerStart \/ TimerStop
  PROVE  /\ TimerInv'
         /\ ({delayTimerStart, timeOutFlag} \subseteq BOOLEAN)'
         /\ ({respTimeOut, loaded, waited} \subseteq Nat)'
         /\ (user \in {"off", "load", "clear", "start", "unload", "forget"})'
         /\ UNCHANGED <<table, switch, cpu, boot, done>>
<1> DEFINE Types == /\ delayTimerStart' \in BOOLEAN /\ timeOutFlag' \in BOOLEAN
                    /\ respTimeOut' \in Nat /\ loaded' \in Nat /\ waited' \in Nat
                    /\ user' \in {"off", "load", "clear", "start", "unload", "forget"}
                    /\ UNCHANGED <<table, switch, cpu, boot, done>>
<1>1. /\ delayTimerStart \in BOOLEAN /\ timeOutFlag \in BOOLEAN
      /\ respTimeOut \in Nat /\ loaded \in Nat /\ waited \in Nat
  BY DEF SchedulerInv, SchedTypeOK
<1>2. TimerInv
  BY DEF SchedulerInv
<1>3. CASE /\ Statement("off", "load") /\ delayTimerStart' = FALSE
           /\ UNCHANGED <<respTimeOut, timeOutFlag, loaded, waited>>
  <2>1. user = "off" /\ user' = "load" /\ UNCHANGED <<table, switch, cpu, boot, done>>
    BY <1>3, Zenon DEF Statement
  <2>2. Types
    BY <1>1, <1>3, <2>1
  <2>3. TimerInv'
    BY <1>1, <1>2, <1>3, <2>1 DEF TimerInv
  <2>. QED
    BY <2>2, <2>3
<1>4. CASE /\ Statement("load", "clear") /\ respTimeOut' \in Ticks /\ loaded' = respTimeOut'
           /\ UNCHANGED <<delayTimerStart, timeOutFlag, waited>>
  <2>1. user = "load" /\ user' = "clear" /\ UNCHANGED <<table, switch, cpu, boot, done>>
    BY <1>4, Zenon DEF Statement
  <2>2. Types
    BY <1>1, <1>4, <2>1
  <2>3. ~delayTimerStart'
    BY <1>2, <1>4, <2>1 DEF TimerInv
  <2>4. respTimeOut' = loaded' /\ loaded' > 0
    BY <1>4
  <2>5. TimerInv'
    BY <2>1, <2>3, <2>4 DEF TimerInv
  <2>. QED
    BY <2>2, <2>5
<1>5. CASE /\ Statement("clear", "start") /\ timeOutFlag' = FALSE
           /\ UNCHANGED <<delayTimerStart, respTimeOut, loaded, waited>>
  <2>1. user = "clear" /\ user' = "start" /\ UNCHANGED <<table, switch, cpu, boot, done>>
    BY <1>5, Zenon DEF Statement
  <2>2. Types
    BY <1>1, <1>5, <2>1
  <2>3. TimerInv'
    BY <1>1, <1>2, <1>5, <2>1 DEF TimerInv
  <2>. QED
    BY <2>2, <2>3
<1>6. CASE /\ Statement("start", "off") /\ delayTimerStart' = TRUE /\ waited' = 0
           /\ UNCHANGED <<respTimeOut, timeOutFlag, loaded>>
  <2>1. user = "start" /\ user' = "off" /\ UNCHANGED <<table, switch, cpu, boot, done>>
    BY <1>6, Zenon DEF Statement
  <2>2. Types
    BY <1>1, <1>6, <2>1
  <2>3. TimerInv'
    BY <1>1, <1>2, <1>6, <2>1 DEF TimerInv
  <2>. QED
    BY <2>2, <2>3
<1>7. CASE /\ Statement("off", "unload") /\ delayTimerStart' = FALSE
           /\ UNCHANGED <<respTimeOut, timeOutFlag, loaded, waited>>
  <2>1. user = "off" /\ user' = "unload" /\ UNCHANGED <<table, switch, cpu, boot, done>>
    BY <1>7, Zenon DEF Statement
  <2>2. Types
    BY <1>1, <1>7, <2>1
  <2>3. TimerInv'
    BY <1>1, <1>2, <1>7, <2>1 DEF TimerInv
  <2>. QED
    BY <2>2, <2>3
<1>8. CASE /\ Statement("unload", "forget") /\ respTimeOut' = 0
           /\ UNCHANGED <<delayTimerStart, timeOutFlag, loaded, waited>>
  <2>1. user = "unload" /\ user' = "forget" /\ UNCHANGED <<table, switch, cpu, boot, done>>
    BY <1>8, Zenon DEF Statement
  <2>2. Types
    BY <1>1, <1>8, <2>1
  <2>3. TimerInv'
    BY <1>1, <1>2, <1>8, <2>1 DEF TimerInv
  <2>. QED
    BY <2>2, <2>3
<1>9. CASE /\ Statement("forget", "off") /\ timeOutFlag' = FALSE
           /\ UNCHANGED <<delayTimerStart, respTimeOut, loaded, waited>>
  <2>1. user = "forget" /\ user' = "off" /\ UNCHANGED <<table, switch, cpu, boot, done>>
    BY <1>9, Zenon DEF Statement
  <2>2. Types
    BY <1>1, <1>9, <2>1
  <2>3. TimerInv'
    BY <1>1, <1>2, <1>9, <2>1 DEF TimerInv
  <2>. QED
    BY <2>2, <2>3
<1>. QED
  BY <1>3, <1>4, <1>5, <1>6, <1>7, <1>8, <1>9, Zenon DEF TimerStart, TimerStop

LEMMA TaskInitStep ==
  ASSUME SchedulerInv, TaskInit PROVE SchedulerInv'
<1>1. /\ ~started /\ started' = started /\ called' = called + 1 /\ called < Handlers
      /\ UNCHANGED <<osCurrentTask, osNextTask, pendSV, cpu, done, timer, currentTask>>
  BY DEF TaskInit, switch, table
<1>2. TimerInv' /\ ({delayTimerStart, timeOutFlag} \subseteq BOOLEAN)'
      /\ ({respTimeOut, loaded, waited} \subseteq Nat)'
      /\ (user \in {"off", "load", "clear", "start", "unload", "forget"})'
  BY <1>1, TimerKept
<1>3. SchedTypeOK /\ BootInv
  BY DEF SchedulerInv
<1>4. /\ SwitchInv' /\ ContextsKept'
  BY <1>1 DEF SwitchInv, ContextsKept
<1>5. CASE Full
  <2>1. UNCHANGED <<stackPtr, status, size>> /\ refused' = refused + 1
    BY <1>5 DEF TaskInit, table
  <2>2. SchedTypeOK'
    BY <1>1, <1>2, <1>3, <2>1 DEF SchedTypeOK, BootInv
  <2>3. BootInv'
    BY <1>1, <1>3, <1>5, <2>1 DEF SchedTypeOK, BootInv, Full
  <2>. QED
    BY <1>2, <1>4, <2>2, <2>3 DEF SchedulerInv
<1>6. CASE ~Full
  <2>1. /\ stackPtr' = [stackPtr EXCEPT ![size] = <<size, 0>>]
        /\ status' = [status EXCEPT ![size] = "IDLE"]
        /\ size' = size + 1 /\ refused' = refused
    BY <1>6 DEF TaskInit
  <2>2. size \in Task /\ size + 1 < SCHEDULER_MAX_TASKS
    BY <1>3, <1>6 DEF Full, SchedTypeOK, Task
  <2>3. stackPtr' \in [Task -> Context] /\ status' \in [Task -> {"ZERO", "IDLE", "ACTIVE"}]
    BY <1>3, <2>1, <2>2, TaskFacts DEF SchedTypeOK
  <2>4. SchedTypeOK'
    BY <1>1, <1>2, <1>3, <2>1, <2>2, <2>3 DEF SchedTypeOK, BootInv
  <2>5. BootInv'
    BY <1>1, <1>3, <2>1, <2>2 DEF SchedTypeOK, BootInv
  <2>. QED
    BY <1>2, <1>4, <2>4, <2>5 DEF SchedulerInv
<1>. QED
  BY <1>5, <1>6

LEMMA OsStartStep ==
  ASSUME SchedulerInv, OsStart PROVE SchedulerInv'
<1>1. /\ ~started /\ started' = TRUE /\ called = Handlers /\ osCurrentTask' = currentTask
      /\ cpu' = stackPtr[currentTask]
      /\ UNCHANGED <<stackPtr, status, currentTask, size, osNextTask, pendSV, called,
                     refused, done, timer>>
  BY DEF OsStart, table
<1>2. SchedTypeOK /\ BootInv
  BY DEF SchedulerInv
<1>3. TimerInv' /\ ({delayTimerStart, timeOutFlag} \subseteq BOOLEAN)'
      /\ ({respTimeOut, loaded, waited} \subseteq Nat)'
      /\ (user \in {"off", "load", "clear", "start", "unload", "forget"})'
  BY <1>1, TimerKept
<1>4. size > 0 /\ currentTask = 0 /\ ~pendSV /\ size \in Nat
  BY <1>1, <1>2 DEF SchedTypeOK, BootInv
<1>5. 0 \in 0..(size - 1) /\ 0..(size - 1) \subseteq Task
  BY <1>2, <1>4, TaskFacts DEF SchedTypeOK
<1>6. \A t \in 0..(size - 1) : stackPtr[t] = <<t, 0>> /\ done[t] = 0
  BY <1>1, <1>2, <1>5 DEF BootInv
<1>7. cpu' = <<0, 0>>
  BY <1>1, <1>4, <1>5, <1>6
<1>8. SchedTypeOK'
  BY <1>1, <1>2, <1>3, <1>4, <1>5, <1>7, TaskFacts DEF SchedTypeOK
<1>9. BootInv'
  BY <1>1, <1>2 DEF BootInv
<1>10. SwitchInv' /\ ContextsKept'
  BY <1>1, <1>4, <1>5, <1>6, <1>7 DEF SwitchInv, ContextsKept
<1>. QED
  BY <1>3, <1>8, <1>9, <1>10 DEF SchedulerInv

\* What a thread that runs may rely on.
LEMMA RunningFacts ==
  ASSUME SchedulerInv, started
  PROVE  /\ size \in Nat /\ size > 0 /\ 0..(size - 1) \subseteq Task
         /\ cpu[1] \in 0..(size - 1) /\ cpu[1] \in Task
         /\ currentTask \in 0..(size - 1)
         /\ cpu = <<cpu[1], done[cpu[1]]>> /\ cpu[2] \in 0..(Period - 1)
         /\ \A t \in 0..(size - 1) : t # cpu[1] => stackPtr[t] = <<t, done[t]>>
<1>1. /\ SchedTypeOK /\ SwitchInv /\ ContextsKept
  BY DEF SchedulerInv
<1>2. size \in Nat /\ size > 0 /\ 0..(size - 1) \subseteq Task
  BY <1>1, TaskFacts DEF SchedTypeOK, SwitchInv
<1>3. cpu[1] \in 0..(size - 1) /\ currentTask \in 0..(size - 1)
  BY <1>1 DEF SchedTypeOK, SwitchInv, Task
<1>4. cpu[2] \in 0..(Period - 1)
  BY <1>1, <1>2, <1>3, ContextFacts DEF SchedTypeOK
<1>. QED
  BY <1>1, <1>2, <1>3, <1>4 DEF ContextsKept

LEMMA WorkStep ==
  ASSUME SchedulerInv, Work PROVE SchedulerInv'
<1>1. /\ started /\ cpu' = <<cpu[1], (cpu[2] + 1) % Period>>
      /\ done' = [done EXCEPT ![cpu[1]] = (@ + 1) % Period]
      /\ UNCHANGED <<stackPtr, status, currentTask, size, osCurrentTask, osNextTask, pendSV,
                     called, refused, started, timer>>
  BY DEF Work, table, switch, boot
<1>2. SchedTypeOK /\ BootInv /\ SwitchInv
  BY DEF SchedulerInv
<1>3. TimerInv' /\ ({delayTimerStart, timeOutFlag} \subseteq BOOLEAN)'
      /\ ({respTimeOut, loaded, waited} \subseteq Nat)'
      /\ (user \in {"off", "load", "clear", "start", "unload", "forget"})'
  BY <1>1, TimerKept
<1> DEFINE me == cpu[1]
           next == (cpu[2] + 1) % Period
<1>4. /\ me \in Task /\ me \in 0..(size - 1) /\ cpu[2] = done[me]
      /\ next \in 0..(Period - 1) /\ 0..(size - 1) \subseteq Task
      /\ \A t \in 0..(size - 1) : t # me => stackPtr[t] = <<t, done[t]>>
  <2>1. cpu[2] = done[me]
    BY <1>1, RunningFacts
  <2>2. next \in 0..(Period - 1)
    BY <1>1, RunningFacts, TaskFacts
  <2>. QED
    BY <1>1, <2>1, <2>2, RunningFacts
<1>5. done \in [Task -> 0..(Period - 1)]
  BY <1>2 DEF SchedTypeOK
<1>6. /\ done' = [done EXCEPT ![me] = next]
      /\ cpu' = <<me, next>>
  <2>1. done' = [done EXCEPT ![me] = (done[me] + 1) % Period]
    BY <1>1
  <2>. QED
    BY <1>1, <1>4, <2>1
<1> HIDE DEF next
<1>7. /\ done' \in [Task -> 0..(Period - 1)] /\ cpu' \in Context
      /\ done'[me] = next /\ \A t \in Task : t # me => done'[t] = done[t]
  BY <1>4, <1>5, <1>6 DEF Context
<1>8. SchedTypeOK'
  BY <1>1, <1>2, <1>3, <1>7 DEF SchedTypeOK
<1>9. BootInv' /\ SwitchInv'
  BY <1>1, <1>2, <1>6 DEF BootInv, SwitchInv
<1>10. ContextsKept'
  <2>1. cpu'[1] = me /\ cpu' = <<me, done'[me]>>
    BY <1>6, <1>7
  <2>2. \A t \in 0..(size - 1) : t # me => stackPtr[t] = <<t, done'[t]>>
    BY <1>4, <1>7
  <2>. QED
    BY <1>1, <2>1, <2>2 DEF ContextsKept
<1>. QED
  BY <1>3, <1>8, <1>9, <1>10 DEF SchedulerInv

LEMMA UserStatementStep ==
  ASSUME SchedulerInv, TimerStart \/ TimerStop PROVE SchedulerInv'
<1>1. UNCHANGED <<stackPtr, status, currentTask, size, osCurrentTask, osNextTask, pendSV, cpu,
                  called, refused, started, done>>
  BY UserStep DEF table, switch, boot
<1>2. SchedTypeOK /\ BootInv /\ SwitchInv /\ ContextsKept
  BY DEF SchedulerInv
<1>3. BootInv' /\ SwitchInv' /\ ContextsKept'
  BY <1>1, <1>2 DEF BootInv, SwitchInv, ContextsKept
<1>4. SchedTypeOK'
  BY <1>1, <1>2, UserStep DEF SchedTypeOK
<1>. QED
  BY <1>3, <1>4, UserStep DEF SchedulerInv

LEMMA SysTickStep ==
  ASSUME SchedulerInv, SysTick PROVE SchedulerInv'
<1>1. /\ started /\ ~pendSV /\ pendSV' = TRUE
      /\ osCurrentTask' = currentTask /\ currentTask' = Following(currentTask)
      /\ osNextTask' = currentTask'
      /\ status' = [status EXCEPT ![currentTask] = "IDLE", ![currentTask'] = "ACTIVE"]
      /\ TimerTick
      /\ UNCHANGED <<stackPtr, size, cpu, called, refused, started, done>>
  BY DEF SysTick, boot
<1>2. SchedTypeOK /\ BootInv /\ SwitchInv /\ ContextsKept
  BY DEF SchedulerInv
<1>3. TimerInv' /\ ({delayTimerStart, timeOutFlag} \subseteq BOOLEAN)'
      /\ ({respTimeOut, loaded, waited} \subseteq Nat)'
      /\ (user \in {"off", "load", "clear", "start", "unload", "forget"})'
  BY <1>1, TimerTickStep
<1>4. /\ size \in Nat /\ size > 0 /\ 0..(size - 1) \subseteq Task
      /\ currentTask \in 0..(size - 1) /\ cpu[1] = currentTask
  BY <1>1, <1>2, RunningFacts DEF SwitchInv
<1>5. currentTask' \in 0..(size - 1)
  BY <1>1, <1>4 DEF Following
<1>6. currentTask' \in Task /\ currentTask \in Task
  BY <1>4, <1>5
<1>7. status' \in [Task -> {"ZERO", "IDLE", "ACTIVE"}]
  BY <1>1, <1>2, <1>6 DEF SchedTypeOK
<1>8. SchedTypeOK'
  BY <1>1, <1>2, <1>3, <1>6, <1>7 DEF SchedTypeOK
<1>9. BootInv' /\ ContextsKept'
  BY <1>1, <1>2 DEF BootInv, ContextsKept
<1>10. SwitchInv'
  BY <1>1, <1>4, <1>5 DEF SwitchInv
<1>. QED
  BY <1>3, <1>8, <1>9, <1>10 DEF SchedulerInv

\* The exchange: the outgoing context is saved for the thread it belongs to, and the
\* one put on the processor is the one its thread left behind.
LEMMA PendSVStep ==
  ASSUME SchedulerInv, PendSV PROVE SchedulerInv'
<1>1. /\ pendSV /\ pendSV' = FALSE
      /\ stackPtr' = [stackPtr EXCEPT ![osCurrentTask] = cpu]
      /\ cpu' = stackPtr'[osNextTask]
      /\ UNCHANGED <<status, currentTask, size, osCurrentTask, osNextTask, called, refused,
                     started, done, timer>>
  BY DEF PendSV, boot
<1>2. SchedTypeOK /\ BootInv /\ SwitchInv
  BY DEF SchedulerInv
<1>3. started
  BY <1>1, <1>2 DEF BootInv
<1>4. TimerInv' /\ ({delayTimerStart, timeOutFlag} \subseteq BOOLEAN)'
      /\ ({respTimeOut, loaded, waited} \subseteq Nat)'
      /\ (user \in {"off", "load", "clear", "start", "unload", "forget"})'
  BY <1>1, TimerKept
<1>5. /\ osCurrentTask = cpu[1] /\ osNextTask = currentTask
      /\ cpu[1] \in 0..(size - 1) /\ currentTask \in 0..(size - 1)
      /\ size > 0 /\ 0..(size - 1) \subseteq Task /\ cpu = <<cpu[1], done[cpu[1]]>>
      /\ \A t \in 0..(size - 1) : t # cpu[1] => stackPtr[t] = <<t, done[t]>>
  BY <1>1, <1>2, <1>3, RunningFacts DEF SwitchInv
<1>6. stackPtr' = [stackPtr EXCEPT ![cpu[1]] = cpu] /\ stackPtr \in [Task -> Context]
      /\ cpu \in Context
  BY <1>1, <1>2, <1>5 DEF SchedTypeOK
<1>7. \A t \in 0..(size - 1) : stackPtr'[t] = <<t, done[t]>>
  BY <1>5, <1>6
<1>8. cpu' = <<currentTask, done[currentTask]>>
  BY <1>1, <1>5, <1>7
<1>9. stackPtr' \in [Task -> Context] /\ cpu' \in Context
  BY <1>1, <1>5, <1>6
<1>10. SchedTypeOK'
  BY <1>1, <1>2, <1>4, <1>9 DEF SchedTypeOK
<1>11. BootInv'
  BY <1>1, <1>2, <1>3 DEF BootInv
<1>12. SwitchInv'
  <2>1. cpu'[1] = currentTask
    BY <1>8
  <2>2. size' > 0 /\ currentTask' < size' /\ cpu'[1] \in 0..(size' - 1)
    BY <1>1, <1>2, <1>5, <2>1 DEF SchedTypeOK
  <2>3. ~pendSV' /\ cpu'[1] = currentTask'
    BY <1>1, <2>1
  <2>. QED
    BY <2>2, <2>3, Zenon DEF SwitchInv
<1>13. ContextsKept'
  BY <1>1, <1>7, <1>8 DEF ContextsKept
<1>. QED
  BY <1>4, <1>10, <1>11, <1>12, <1>13 DEF SchedulerInv

LEMMA StutterStep ==
  ASSUME SchedulerInv, UNCHANGED schedVars PROVE SchedulerInv'
<1>1. UNCHANGED <<stackPtr, status, currentTask, size, osCurrentTask, osNextTask, pendSV, cpu,
                  called, refused, started, done, timer>>
  BY DEF schedVars, table, switch, boot
<1>2. SchedTypeOK /\ BootInv /\ SwitchInv /\ ContextsKept
  BY DEF SchedulerInv
<1>3. BootInv' /\ SwitchInv' /\ ContextsKept'
  BY <1>1, <1>2 DEF BootInv, SwitchInv, ContextsKept
<1>4. SchedTypeOK'
  BY <1>1, <1>2, TimerKept DEF SchedTypeOK
<1>. QED
  BY <1>1, <1>3, <1>4, TimerKept DEF SchedulerInv

\* For every number of tasks and every delay: main fills the table, the threads run,
\* SysTick picks and PendSV exchanges, and the invariant is kept.
THEOREM SchedulerInvariant == SchedSpec => []SchedulerInv
<1>1. ASSUME SchedulerInv, [SchedNext]_schedVars PROVE SchedulerInv'
  BY <1>1, TaskInitStep, OsStartStep, WorkStep, UserStatementStep, SysTickStep, PendSVStep,
     StutterStep DEF SchedNext
<1>. QED
  BY SchedInitHolds, <1>1, PTL DEF SchedSpec

\* The variables of the scheduler and the timer keep their types: SysTick never picks
\* an entry outside the table, and the countdown never goes below zero.
THEOREM SchedulerTypes == SchedSpec => []SchedTypeOK
<1>1. SchedulerInv => SchedTypeOK
  BY DEF SchedulerInv
<1>. QED
  BY SchedulerInvariant, <1>1, PTL

\* No thread loses or takes over another's context, however many tasks there are and
\* wherever the ticks fall (SysTick_Handler and PendSV_Handler).
THEOREM ContextsAreKept == SchedSpec => []ContextsKept
<1>1. SchedulerInv => ContextsKept
  BY DEF SchedulerInv
<1>. QED
  BY SchedulerInvariant, <1>1, PTL

\* The response timer runs out at the tick it was loaded for, whatever an earlier wait
\* left behind (rsp_time_out_timer_start and _stop against SysTick_Handler).
THEOREM TimerIsExact == SchedSpec => []TimeOutIsExact
<1>1. SchedulerInv => TimeOutIsExact
  <2> SUFFICES ASSUME SchedulerInv, user = "off"
               PROVE  /\ delayTimerStart => waited < loaded /\ ~timeOutFlag
                      /\ timeOutFlag => waited = loaded
    BY DEF TimeOutIsExact
  <2>1. TimerInv /\ respTimeOut \in Nat /\ loaded \in Nat /\ waited \in Nat
    BY DEF SchedulerInv, SchedTypeOK
  <2>. QED
    BY <2>1 DEF TimerInv
<1>. QED
  BY SchedulerInvariant, <1>1, PTL
===============================================================================
