--------------------------------- MODULE Uart ---------------------------------
(***************************************************************************)
(* Reception in yutu_fw_uart.c: the interrupt of every byte, the 250 us    *)
(* timer that ends a message after a silence, and yutu_fw_uart_recieve,    *)
(* which the response processor calls in its loop and either interrupt may *)
(* cut.  A byte is <<k, i>>, the i-th byte of the k-th message; NUL is     *)
(* <<0, 0>>.  The modem is assumed to send messages shorter than the       *)
(* buffer, without a pause of more than a tick, and to begin one only when *)
(* the last is out of the buffer: the code cannot tell them apart else.    *)
(***************************************************************************)
EXTENDS Integers, Sequences

CONSTANTS BUFFER_SIZE,      \* of buffer and of the caller's buffer (300)
          POINTER_SIZE,     \* sizeof(recvBuffer), a pointer (4)
          Lengths,          \* of the messages
          MaxMessages,      \* bound on the number of messages
          MaxPause          \* timer ticks between two bytes of a message

ASSUME SizesAssumption == /\ BUFFER_SIZE \in Nat /\ POINTER_SIZE \in 1..BUFFER_SIZE
                          /\ Lengths \subseteq 1..(BUFFER_SIZE - 1)
                          /\ MaxMessages \in Nat
\* responseTimeDelay is 2 after a byte: the second tick after it ends the message.
ASSUME PauseAssumption == MaxPause \in 0..1

VARIABLES buffer, byteCount, startRecvFlag, recvdData, responseTimeDelay,
          recvBufferFullFlag,
          recvBuffer,       \* the caller's buffer (responseRecvBuffer)
          pc, n, retval,    \* of the thread: next statement, strlen, value returned
          emptied,          \* history: recvBuffer was empty before the call
          sizes,            \* history: lengths of the messages begun
          left, pause,      \* of the modem: bytes to come, ticks since the last
          taken             \* history: messages the caller has processed

isr == <<byteCount, startRecvFlag, recvdData, responseTimeDelay>>
line == <<sizes, left, pause>>
thread == <<recvBuffer, pc, n, retval, emptied, taken>>
vars == <<buffer, isr, recvBufferFullFlag, line, thread>>

Place == 0..(BUFFER_SIZE - 1)
NUL == <<0, 0>>
Empty == [i \in Place |-> NUL]
\* strlen: the bytes before the first NUL.
Length(b) == CHOOSE i \in Place : b[i] = NUL /\ \A j \in 0..(i - 1) : b[j] # NUL

Init == /\ buffer = Empty /\ byteCount = 0 /\ startRecvFlag = 0 /\ recvdData = 0
        /\ responseTimeDelay = 0 /\ recvBufferFullFlag = FALSE
        /\ recvBuffer = Empty /\ pc = "idle" /\ n = 0 /\ retval = 0
        /\ emptied = FALSE /\ taken = 0
        /\ sizes = <<>> /\ left = 0 /\ pause = 0
-------------------------------------------------------------------------------
(* The modem. *)

Begin(len) == /\ left = 0 /\ startRecvFlag = 0 /\ ~recvBufferFullFlag
              /\ Len(sizes) < MaxMessages
              /\ sizes' = Append(sizes, len)
              /\ left' = len /\ pause' = 0
              /\ UNCHANGED <<buffer, isr, recvBufferFullFlag, thread>>

\* A mutant: the first tick after a byte may end the message.
ByteShort == /\ left > 0
             /\ buffer' = [buffer EXCEPT ![byteCount] =
                             <<Len(sizes), sizes[Len(sizes)] - left>>]
             /\ startRecvFlag' = 1 /\ responseTimeDelay' = 1
             /\ byteCount' = byteCount + 1
             /\ left' = left - 1 /\ pause' = 0
             /\ UNCHANGED <<recvdData, recvBufferFullFlag, sizes, thread>>

\* SERCOM1_2_Handler: the modem's next byte.
Byte == /\ left > 0
        /\ buffer' = [buffer EXCEPT ![byteCount] =
                        <<Len(sizes), sizes[Len(sizes)] - left>>]
        /\ startRecvFlag' = IF byteCount = 0 THEN 1 ELSE startRecvFlag
        /\ responseTimeDelay' = 2
        /\ byteCount' = byteCount + 1
        /\ left' = left - 1 /\ pause' = 0
        /\ UNCHANGED <<recvdData, recvBufferFullFlag, sizes, thread>>

\* Mutants: the length of the message is taken over after it was reset; the
\* count is not reset.
MessageEndReset == /\ recvdData' = 0 /\ byteCount' = 0
                   /\ startRecvFlag' = 0 /\ recvBufferFullFlag' = TRUE
MessageEndCounted == /\ recvdData' = byteCount /\ byteCount' = byteCount
                     /\ startRecvFlag' = 0 /\ recvBufferFullFlag' = TRUE
MessageEnd == /\ recvdData' = byteCount /\ byteCount' = 0
              /\ startRecvFlag' = 0 /\ recvBufferFullFlag' = TRUE

\* TC0_Handler, while a message is being received.
Tick == /\ startRecvFlag = 1
        /\ left > 0 => pause < MaxPause
        /\ responseTimeDelay' = responseTimeDelay - 1
        /\ IF responseTimeDelay = 1
             THEN MessageEnd
             ELSE UNCHANGED <<recvdData, byteCount, startRecvFlag, recvBufferFullFlag>>
        /\ pause' = pause + 1
        /\ UNCHANGED <<buffer, sizes, left, thread>>
-------------------------------------------------------------------------------
(* yutu_fw_uart_recieve, statement by statement, and its caller. *)

Receive == /\ pc = "idle" /\ recvBufferFullFlag
           /\ pc' = "copy" /\ n' = Length(buffer) /\ emptied' = (recvBuffer = Empty)
           /\ recvBuffer' = [i \in Place |-> IF i < POINTER_SIZE THEN NUL
                                                                 ELSE recvBuffer[i]]
           /\ UNCHANGED <<buffer, isr, recvBufferFullFlag, line, retval, taken>>

Copy == /\ pc = "copy" /\ pc' = "clear"
        /\ recvBuffer' = [i \in Place |-> IF i < n THEN buffer[i] ELSE recvBuffer[i]]
        /\ UNCHANGED <<buffer, isr, recvBufferFullFlag, line, n, retval, emptied, taken>>

Clear == /\ pc = "clear" /\ pc' = "ready"
         /\ buffer' = Empty
         /\ UNCHANGED <<isr, recvBufferFullFlag, line, recvBuffer, n, retval, emptied,
                        taken>>

Ready == /\ pc = "ready" /\ pc' = "return"
         /\ recvBufferFullFlag' = FALSE
         /\ UNCHANGED <<buffer, isr, line, recvBuffer, n, retval, emptied, taken>>

Return == /\ pc = "return" /\ pc' = "process"
          /\ retval' = recvdData
          /\ UNCHANGED <<buffer, isr, recvBufferFullFlag, line, recvBuffer, n, emptied,
                         taken>>

\* The response processor is done with a message; it acts on one only when the
\* value returned is positive.
Process == /\ pc = "process" /\ pc' = "idle"
           /\ taken' = IF retval > 0 THEN taken + 1 ELSE taken
           /\ UNCHANGED <<buffer, isr, recvBufferFullFlag, line, recvBuffer, n, retval,
                          emptied>>

\* clear_receive_buffer, before a command is sent.
ClearCaller == /\ pc = "idle" /\ recvBuffer # Empty
               /\ recvBuffer' = Empty
               /\ UNCHANGED <<buffer, isr, recvBufferFullFlag, line, pc, n, retval,
                              emptied, taken>>

Thread == Receive \/ Copy \/ Clear \/ Ready \/ Return \/ Process
Next == (\E len \in Lengths : Begin(len)) \/ Byte \/ Tick \/ Thread \/ ClearCaller

Spec == Init /\ [][Next]_vars

\* A modem that has begun a message ends it, the timer ticks, and the response
\* processor gets its slices.
FairSpec == Spec /\ WF_vars(Byte) /\ WF_vars(Tick) /\ WF_vars(Thread)
-------------------------------------------------------------------------------
(* Properties. *)

TypeOK == /\ {buffer, recvBuffer} \subseteq [Place -> {NUL} \cup
                                               ((1..MaxMessages) \X Place)]
          /\ byteCount \in 0..BUFFER_SIZE /\ recvdData \in 0..BUFFER_SIZE
          /\ startRecvFlag \in {0, 1} /\ responseTimeDelay \in 0..2
          /\ {recvBufferFullFlag, emptied} \subseteq BOOLEAN
          /\ pc \in {"idle", "copy", "clear", "ready", "return", "process"}
          /\ n \in Place /\ retval \in 0..BUFFER_SIZE
          /\ sizes \in Seq(Lengths) /\ left \in 0..BUFFER_SIZE
          /\ pause \in 0..(MaxPause + 2) /\ taken \in 0..Len(sizes)

\* What the response processor works on is the next message of the modem: all its
\* bytes in order and, when its buffer was empty before, nothing after them.
MessageIsWhole ==
  pc = "process" =>
     /\ taken < Len(sizes)
     /\ \A i \in 0..(sizes[taken + 1] - 1) : recvBuffer[i] = <<taken + 1, i>>
     /\ emptied => Length(recvBuffer) = sizes[taken + 1]

\* Every message is processed, in the order of arrival, and none is lost in the
\* interrupts between the statements that take it out of the buffer.
EachIsProcessed == \A k \in 1..MaxMessages : Len(sizes) = k ~> taken >= k
===============================================================================
