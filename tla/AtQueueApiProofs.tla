--------------------------- MODULE AtQueueApiProofs ---------------------------
(***************************************************************************)
(* Proof that the AT command queue, used under its two conditions, is a    *)
(* bounded FIFO for every size of the array, round its end as often as the *)
(* calls take it there.                                                    *)
(***************************************************************************)
EXTENDS AtQueueApi, AtQueueProofs, SequenceTheorems

USE QueueSizeAssumption

\* The slot of the k-th command that waits.
PlaceOf(k) == Wrap(currentCmd + k - 1)

\* The commands that wait lie one behind the other from currentCmd to lastCmd, and
\* with those of the list that is being added they fit.
QueueInv ==
  /\ QueueTypeOK /\ rest \in Seq(Offered)
  /\ commandCount + Len(rest) <= ATCOMMAND_EXEC_CMD_QUEUE
  /\ commandCount > 0 => lastCmd = PlaceOf(commandCount)

\* The place behind a place is the next index, and no place of a window that fits
\* in the array is taken twice.
LEMMA PlaceFacts ==
  ASSUME NEW i \in Index, NEW k \in 1..ATCOMMAND_EXEC_CMD_QUEUE
  PROVE  /\ Wrap(i + k - 1) \in Index /\ Wrap(i) = i
         /\ NextIndex(Wrap(i + k - 1)) = Wrap(i + k)
         /\ Wrap(NextIndex(i) + k - 1) = Wrap(i + k)
         /\ \A j \in 1..ATCOMMAND_EXEC_CMD_QUEUE :
               j # k => Wrap(i + j - 1) # Wrap(i + k - 1)
<1>1. \A x \in Index : NextIndex(x) \in Index /\ NextIndex(x) = Wrap(x + 1)
  BY IndexFacts, NextIndexWraps
<1>. QED
  BY <1>1, WrapFacts DEF Index

LEMMA PlacesOf ==
  ASSUME currentCmd \in Index
  PROVE  /\ PlaceOf(1) = currentCmd
         /\ \A k \in 1..ATCOMMAND_EXEC_CMD_QUEUE :
               /\ PlaceOf(k) \in Index
               /\ NextIndex(PlaceOf(k)) = PlaceOf(k + 1)
               /\ Wrap(NextIndex(currentCmd) + k - 1) = PlaceOf(k + 1)
         /\ \A j, k \in 1..ATCOMMAND_EXEC_CMD_QUEUE : j # k => PlaceOf(j) # PlaceOf(k)
<1>1. PlaceOf(1) = currentCmd
  <2>1. currentCmd + 1 - 1 = currentCmd /\ Wrap(currentCmd) = currentCmd
    BY WrapFacts DEF Index
  <2>. QED
    BY <2>1 DEF PlaceOf
<1>2. ASSUME NEW k \in 1..ATCOMMAND_EXEC_CMD_QUEUE
      PROVE  /\ PlaceOf(k) \in Index
             /\ NextIndex(PlaceOf(k)) = PlaceOf(k + 1)
             /\ Wrap(NextIndex(currentCmd) + k - 1) = PlaceOf(k + 1)
  <2>1. currentCmd + k = currentCmd + (k + 1) - 1
    BY DEF Index
  <2>2. PlaceOf(k + 1) = Wrap(currentCmd + k) /\ PlaceOf(k) = Wrap(currentCmd + k - 1)
    BY <2>1 DEF PlaceOf
  <2>3. /\ Wrap(currentCmd + k - 1) \in Index
        /\ NextIndex(Wrap(currentCmd + k - 1)) = Wrap(currentCmd + k)
        /\ Wrap(NextIndex(currentCmd) + k - 1) = Wrap(currentCmd + k)
    BY PlaceFacts
  <2>. QED
    BY <2>2, <2>3
<1>3. ASSUME NEW j \in 1..ATCOMMAND_EXEC_CMD_QUEUE, NEW k \in 1..ATCOMMAND_EXEC_CMD_QUEUE,
             j # k
      PROVE  PlaceOf(j) # PlaceOf(k)
  <2>1. \A i \in 1..ATCOMMAND_EXEC_CMD_QUEUE :
          i # k => Wrap(currentCmd + i - 1) # Wrap(currentCmd + k - 1)
    BY PlaceFacts, Zenon
  <2>2. Wrap(currentCmd + j - 1) # Wrap(currentCmd + k - 1)
    BY <1>3, <2>1, Zenon
  <2>. QED
    BY <2>2 DEF PlaceOf
<1>. QED
  BY <1>1, <1>2, <1>3

\* The commands that wait, by their places.
PendingShape ==
  /\ Pending \in Seq(Slot) /\ Len(Pending) = commandCount
  /\ \A k \in 1..commandCount : Pending[k] = atCmdQueue[PlaceOf(k)]
                                /\ PlaceOf(k) \in Index

LEMMA PendingHasShape == QueueInv => PendingShape
<1> SUFFICES ASSUME QueueInv PROVE PendingShape
  OBVIOUS
<1>1. /\ commandCount \in Nat /\ commandCount <= ATCOMMAND_EXEC_CMD_QUEUE
      /\ currentCmd \in Index /\ atCmdQueue \in [Index -> Slot]
  <2>1. commandCount \in Uint8 /\ Len(rest) \in Nat
    BY DEF QueueInv, QueueTypeOK
  <2>. QED
    BY <2>1 DEF QueueInv, QueueTypeOK, Uint8
<1>2. \A k \in 1..commandCount : PlaceOf(k) \in Index
  BY <1>1, PlaceFacts DEF PlaceOf
<1>3. Pending = [k \in 1..commandCount |-> atCmdQueue[PlaceOf(k)]]
  BY DEF Pending, PlaceOf, Wrap
<1>. QED
  BY <1>1, <1>2, <1>3 DEF PendingShape

LEMMA PendingHasShapeNext == QueueInv' => PendingShape'
BY PendingHasShape, PTL

LEMMA EmptyPending == QueueInv /\ commandCount = 0 => Pending = <<>>
BY PendingHasShape, EmptySeq DEF PendingShape

LEMMA EmptyPendingNext == (QueueInv /\ commandCount = 0)' => (Pending = <<>>)'
BY EmptyPending, PTL

-------------------------------------------------------------------------------
(* What the operations do to the commands that wait. *)

LEMMA InvTypes ==
  ASSUME QueueInv
  PROVE  /\ commandCount \in Nat /\ commandCount \in Uint8
         /\ commandCount <= ATCOMMAND_EXEC_CMD_QUEUE
         /\ Len(rest) \in Nat /\ currentCmd \in Index /\ lastCmd \in Index
         /\ firstCmd \in Index /\ atCmdQueue \in [Index -> Slot] /\ QueueTypeOK
<1>1. commandCount \in Nat /\ commandCount \in Uint8 /\ Len(rest) \in Nat
  BY DEF QueueInv, QueueTypeOK, Uint8
<1>. QED
  BY <1>1 DEF QueueInv, QueueTypeOK

\* A command that is added waits behind the others, in a slot that none of them has.
LEMMA AddedLast ==
  ASSUME QueueInv, NEW c \in Offered, commandCount < ATCOMMAND_EXEC_CMD_QUEUE,
         commandCount > 0 \/ currentCmd = lastCmd, AddAtCmd(c),
         rest' \in Seq(Offered), commandCount + 1 + Len(rest') <= ATCOMMAND_EXEC_CMD_QUEUE
  PROVE  QueueInv' /\ Pending' = Append(Pending, Stored(c))
<1>1. /\ commandCount \in Nat /\ commandCount \in Uint8 /\ commandCount < 255
      /\ currentCmd \in Index /\ lastCmd \in Index /\ atCmdQueue \in [Index -> Slot]
      /\ QueueTypeOK /\ ~QueueFull
  BY InvTypes DEF QueueFull
<1>2. c \in Command /\ Stored(c) \in Slot
  BY OfferedAssumption, StoredType
<1>3. TailIndex = PlaceOf(commandCount + 1) /\ TailIndex \in Index
  <2>1. CASE commandCount = 0
    BY <1>1, <2>1, PlacesOf DEF TailIndex
  <2>2. CASE commandCount > 0
    <3>1. lastCmd = PlaceOf(commandCount) /\ commandCount \in 1..ATCOMMAND_EXEC_CMD_QUEUE
      BY <1>1, <2>2 DEF QueueInv
    <3>. QED
      BY <1>1, <2>2, <3>1, PlacesOf, IndexFacts DEF TailIndex
  <2>. QED
    BY <1>1, <2>1, <2>2
<1>4. /\ commandCount' = commandCount + 1 /\ lastCmd' = TailIndex
      /\ currentCmd' = currentCmd
      /\ atCmdQueue' = [atCmdQueue EXCEPT ![TailIndex] = Stored(c)]
  BY <1>1, Uint8Facts DEF AddAtCmd
<1>5. QueueTypeOK'
  BY <1>1, <1>2, AddAtCmdType
<1>6. QueueInv'
  BY <1>1, <1>3, <1>4, <1>5 DEF QueueInv, PlaceOf
<1>7. /\ Pending \in Seq(Slot) /\ Len(Pending) = commandCount
      /\ \A k \in 1..commandCount : Pending[k] = atCmdQueue[PlaceOf(k)]
                                    /\ PlaceOf(k) \in Index
      /\ Pending' \in Seq(Slot) /\ Len(Pending') = commandCount + 1
      /\ \A k \in 1..(commandCount + 1) : Pending'[k] = atCmdQueue'[PlaceOf(k)]
  BY <1>4, <1>6, PendingHasShape, PendingHasShapeNext DEF PendingShape, PlaceOf
<1>8. /\ Append(Pending, Stored(c)) \in Seq(Slot)
      /\ Len(Append(Pending, Stored(c))) = commandCount + 1
      /\ \A k \in 1..commandCount : Append(Pending, Stored(c))[k] = Pending[k]
      /\ Append(Pending, Stored(c))[commandCount + 1] = Stored(c)
  BY <1>2, <1>7, AppendProperties
<1>9. ASSUME NEW k \in 1..(commandCount + 1)
      PROVE  Pending'[k] = Append(Pending, Stored(c))[k]
  <2>1. CASE k = commandCount + 1
    BY <1>1, <1>3, <1>4, <1>7, <1>8, <2>1
  <2>2. CASE k # commandCount + 1
    <3>1. k \in 1..commandCount
      BY <1>1, <2>2
    <3>2. PlaceOf(k) \in Index /\ PlaceOf(k) # TailIndex
      <4>1. /\ k \in 1..ATCOMMAND_EXEC_CMD_QUEUE
            /\ commandCount + 1 \in 1..ATCOMMAND_EXEC_CMD_QUEUE
        BY <1>1, <3>1
      <4>. QED
        BY <1>1, <1>3, <2>2, <4>1, PlacesOf
    <3>3. atCmdQueue'[PlaceOf(k)] = atCmdQueue[PlaceOf(k)]
      BY <1>1, <1>4, <3>2
    <3>. QED
      BY <1>7, <1>8, <3>1, <3>3
  <2>. QED
    BY <2>1, <2>2
<1>10. Pending' = Append(Pending, Stored(c))
  BY <1>7, <1>8, <1>9, SeqEqual
<1>. QED
  BY <1>6, <1>10

\* The command at currentCmd leaves, whatever becomes of its slot.
LEMMA TakenFirst ==
  ASSUME QueueInv, QueueTypeOK', commandCount > 0, Advance,
         UNCHANGED <<lastCmd, rest>>,
         \A i \in Index : i # currentCmd => atCmdQueue'[i] = atCmdQueue[i]
  PROVE  QueueInv' /\ Pending # <<>> /\ Pending' = Tail(Pending)
<1>1. /\ commandCount \in Nat /\ commandCount \in Uint8 /\ Len(rest) \in Nat
      /\ commandCount \in 1..ATCOMMAND_EXEC_CMD_QUEUE
      /\ currentCmd \in Index /\ lastCmd \in Index
  BY InvTypes
<1>2. commandCount' = commandCount - 1 /\ currentCmd' = NextIndex(currentCmd)
  BY <1>1, Uint8Facts DEF Advance
<1>3. \A k \in 1..(ATCOMMAND_EXEC_CMD_QUEUE - 1) : PlaceOf(k)' = PlaceOf(k + 1)
  BY <1>1, <1>2, PlacesOf DEF PlaceOf
<1>4. QueueInv'
  <2>1. rest' \in Seq(Offered) /\ commandCount' + Len(rest') <= ATCOMMAND_EXEC_CMD_QUEUE
    BY <1>1, <1>2 DEF QueueInv
  <2>2. commandCount' > 0 => lastCmd' = PlaceOf(commandCount)'
    <3> SUFFICES ASSUME commandCount' > 0 PROVE lastCmd' = PlaceOf(commandCount)'
      OBVIOUS
    <3>1. commandCount - 1 \in 1..(ATCOMMAND_EXEC_CMD_QUEUE - 1)
      BY <1>1, <1>2
    <3>2. Wrap(currentCmd' + (commandCount - 1) - 1) = Wrap(currentCmd + ((commandCount - 1) + 1) - 1)
      BY <1>3, <3>1 DEF PlaceOf
    <3>3. (commandCount - 1) + 1 = commandCount
      BY <1>1
    <3>. QED
      BY <1>1, <1>2, <3>2, <3>3 DEF QueueInv, PlaceOf
  <2>. QED
    BY <2>1, <2>2 DEF QueueInv
<1>5. /\ Pending \in Seq(Slot) /\ Len(Pending) = commandCount /\ Pending # <<>>
      /\ \A k \in 1..commandCount : Pending[k] = atCmdQueue[PlaceOf(k)]
                                    /\ PlaceOf(k) \in Index
      /\ Pending' \in Seq(Slot) /\ Len(Pending') = commandCount - 1
      /\ \A k \in 1..(commandCount - 1) : Pending'[k] = atCmdQueue'[PlaceOf(k)']
  BY <1>1, <1>2, <1>4, PendingHasShape, PendingHasShapeNext DEF PendingShape
<1>6. /\ Tail(Pending) \in Seq(Slot) /\ Len(Tail(Pending)) = commandCount - 1
      /\ \A k \in 1..(commandCount - 1) : Tail(Pending)[k] = Pending[k + 1]
  BY <1>5, HeadTailProperties
<1>7. ASSUME NEW k \in 1..(commandCount - 1) PROVE Pending'[k] = Tail(Pending)[k]
  <2>1. k \in 1..(ATCOMMAND_EXEC_CMD_QUEUE - 1) /\ k + 1 \in 1..commandCount
    BY <1>1
  <2>2. PlaceOf(k + 1) \in Index /\ PlaceOf(k + 1) # currentCmd
    <3>1. /\ 1 \in 1..ATCOMMAND_EXEC_CMD_QUEUE /\ k + 1 # 1
          /\ k + 1 \in 1..ATCOMMAND_EXEC_CMD_QUEUE
      BY <1>1, <2>1
    <3>. QED
      BY <1>1, <3>1, PlacesOf
  <2>. QED
    BY <1>3, <1>5, <1>6, <2>1, <2>2
<1>8. Pending' = Tail(Pending)
  BY <1>5, <1>6, <1>7, SeqEqual
<1>. QED
  BY <1>4, <1>5, <1>8

-------------------------------------------------------------------------------
(* Every call of the API is an action of the bounded FIFO, or leaves it. *)

Put == \E c \in {Stored(d) : d \in Offered} : Fifo!Put(c)

LEMMA QueueKept ==
  ASSUME QueueInv, rest' \in Seq(Offered),
         commandCount + Len(rest') <= ATCOMMAND_EXEC_CMD_QUEUE,
         UNCHANGED <<atCmdQueue, firstCmd, lastCmd, currentCmd, repeatCount,
                     commandCount, cmdQueueWrite, currentCmdRet, currentCmdStatus>>
  PROVE  QueueInv' /\ Pending' = Pending
BY DEF QueueInv, QueueTypeOK, PlaceOf, Pending

LEMMA PutStep ==
  ASSUME QueueInv, NEW c \in Offered, commandCount < ATCOMMAND_EXEC_CMD_QUEUE,
         commandCount > 0 \/ currentCmd = lastCmd, AddAtCmd(c),
         rest' \in Seq(Offered), commandCount + 1 + Len(rest') <= ATCOMMAND_EXEC_CMD_QUEUE
  PROVE  QueueInv' /\ Put
<1>1. QueueInv' /\ Pending' = Append(Pending, Stored(c))
  BY AddedLast
<1>2. Len(Pending) < ATCOMMAND_EXEC_CMD_QUEUE
  BY PendingHasShape DEF PendingShape
<1>3. Fifo!Put(Stored(c))
  BY <1>1, <1>2 DEF Fifo!Put
<1>. QED
  BY <1>1, <1>3 DEF Put

LEMMA ResetStep == ASSUME QueueInv, Reset PROVE QueueInv' /\ Fifo!Erase
<1>1. /\ rest = <<>> /\ rest' = <<>> /\ commandCount' = 0 /\ QueueInit
  BY DEF Reset, QueueInit, QueueClear
<1>2. QueueTypeOK'
  BY <1>1, QueueInitType
<1>3. QueueInv'
  BY <1>1, <1>2 DEF QueueInv
<1>. QED
  BY <1>1, <1>3, EmptyPendingNext DEF Fifo!Erase

LEMMA AddStep ==
  ASSUME QueueInv, Waived = {}, NEW c \in Offered, Add(c)
  PROVE  QueueInv' /\ (Put \/ UNCHANGED Pending)
<1>1. /\ rest = <<>> /\ rest' = <<>> /\ AddAtCmd(c)
      /\ commandCount > 0 \/ currentCmd = lastCmd
  BY DEF Add, NotDrained
<1>2. /\ commandCount \in Nat /\ commandCount <= ATCOMMAND_EXEC_CMD_QUEUE
      /\ rest' \in Seq(Offered) /\ Len(rest') = 0
  BY <1>1, InvTypes DEF QueueInv
<1>3. CASE QueueFull
  <2>1. UNCHANGED <<atCmdQueue, firstCmd, lastCmd, currentCmd, repeatCount,
                    commandCount, cmdQueueWrite, currentCmdRet, currentCmdStatus>>
    BY <1>1, <1>3 DEF AddAtCmd, outcome
  <2>. QED
    BY <1>2, <2>1, QueueKept
<1>4. CASE ~QueueFull
  BY <1>1, <1>2, <1>4, PutStep DEF QueueFull
<1>. QED
  BY <1>3, <1>4

LEMMA OpenListStep ==
  ASSUME QueueInv, Waived = {}, NEW b \in Lists, OpenList(b)
  PROVE  QueueInv' /\ UNCHANGED Pending
<1>1. firstCmd = currentCmd /\ DelAtCmdHead /\ rest' = b /\ ~QueueError(Len(b))
  BY DEF OpenList, NotExecuted
<1>2. rest' \in Seq(Offered) /\ Len(rest') \in Nat /\ commandCount \in Nat
  BY <1>1, OfferedAssumption, InvTypes
<1>3. commandCount + Len(rest') <= ATCOMMAND_EXEC_CMD_QUEUE
  BY <1>1, <1>2 DEF QueueError
<1>4. UNCHANGED <<atCmdQueue, firstCmd, lastCmd, currentCmd, repeatCount,
                  commandCount, cmdQueueWrite, currentCmdRet, currentCmdStatus>>
  BY <1>1 DEF DelAtCmdHead, outcome
<1>. QED
  BY <1>2, <1>3, <1>4, QueueKept

LEMMA AddNextStep == ASSUME QueueInv, Waived = {}, AddNext PROVE QueueInv' /\ Put
<1>1. /\ rest # <<>> /\ AddAtCmd(Head(rest)) /\ rest' = Tail(rest)
      /\ commandCount > 0 \/ currentCmd = lastCmd
  BY DEF AddNext, NotDrained
<1>2. /\ rest \in Seq(Offered) /\ Head(rest) \in Offered /\ rest' \in Seq(Offered)
      /\ Len(rest') = Len(rest) - 1 /\ Len(rest) \in Nat \ {0}
      /\ commandCount \in Nat /\ commandCount + Len(rest) <= ATCOMMAND_EXEC_CMD_QUEUE
  BY <1>1, HeadTailProperties, InvTypes DEF QueueInv
<1>3. /\ commandCount < ATCOMMAND_EXEC_CMD_QUEUE
      /\ commandCount + 1 + Len(rest') <= ATCOMMAND_EXEC_CMD_QUEUE
  BY <1>2
<1>. QED
  BY <1>1, <1>2, <1>3, PutStep

LEMMA TakeStep ==
  ASSUME QueueInv, Waived = {}, DeleteFirst \/ Complete
  PROVE  QueueInv' /\ Fifo!Take
<1>1. /\ Advance /\ commandCount > 0 /\ QueueTypeOK'
      /\ UNCHANGED <<lastCmd, rest>>
      /\ \A i \in Index : i # currentCmd => atCmdQueue'[i] = atCmdQueue[i]
  <2>1. /\ commandCount \in Nat /\ firstCmd \in Index /\ currentCmd \in Index
        /\ atCmdQueue \in [Index -> Slot] /\ QueueTypeOK
    BY InvTypes
  <2>2. CASE DeleteFirst
    <3>1. /\ firstCmd = currentCmd /\ commandCount > 0 /\ Advance
          /\ atCmdQueue' = [atCmdQueue EXCEPT ![currentCmd] = Removed(@)]
          /\ firstCmd' = NextIndex(currentCmd)
          /\ UNCHANGED <<lastCmd, rest, repeatCount, cmdQueueWrite, currentCmdRet,
                         currentCmdStatus>>
      BY <2>1, <2>2 DEF DeleteFirst, NotExecuted, DelAtCommandHead, Advance, outcome
    <3>2. Removed(atCmdQueue[currentCmd]) \in Slot
      BY <2>1, RemovedType
    <3>3. atCmdQueue' \in [Index -> Slot] /\ firstCmd' \in Index
      BY <2>1, <3>1, <3>2, IndexFacts
    <3>4. currentCmd' \in Index /\ commandCount' \in Uint8
      BY <2>1, <3>1, AdvanceType
    <3>5. QueueTypeOK'
      BY <2>1, <3>1, <3>3, <3>4 DEF QueueTypeOK
    <3>. QED
      BY <2>1, <3>1, <3>5
  <2>3. CASE Complete
    <3>1. /\ commandCount > 0 /\ Advance
          /\ UNCHANGED <<atCmdQueue, firstCmd, lastCmd, rest, repeatCount,
                         cmdQueueWrite, currentCmdRet, currentCmdStatus>>
      BY <2>3 DEF Complete, outcome
    <3>2. currentCmd' \in Index /\ commandCount' \in Uint8
      BY <2>1, <3>1, AdvanceType
    <3>3. QueueTypeOK'
      BY <2>1, <3>1, <3>2 DEF QueueTypeOK
    <3>. QED
      BY <3>1, <3>3
  <2>. QED
    BY <2>2, <2>3
<1>. QED
  BY <1>1, TakenFirst DEF Fifo!Take

\* Under the two conditions of use the queue is a bounded FIFO of the commands that
\* were added, for every size of the array: none that waits is overwritten,
\* reordered, lost or executed twice, wherever in the array it lies.
THEOREM QueueIsFifo == (Waived = {}) => (Spec => ImplementsQueue)
<1> SUFFICES ASSUME Waived = {} PROVE Spec => ImplementsQueue
  OBVIOUS
<1>1. Init => QueueInv /\ Fifo!Init
  <2> SUFFICES ASSUME Init PROVE QueueInv /\ Fifo!Init
    OBVIOUS
  <2>1. QueueTypeOK
    BY EmptySlotType, IndexFacts
       DEF Init, QueueZeroed, QueueTypeOK, Uint8, Rsp, Status, NOK_OPER
  <2>2. rest = <<>> /\ commandCount = 0
    BY DEF Init, QueueZeroed
  <2>3. QueueInv
    BY <2>1, <2>2 DEF QueueInv
  <2>. QED
    BY <2>2, <2>3, EmptyPending DEF Fifo!Init
<1>2. QueueInv /\ [Next]_vars => QueueInv' /\ [Fifo!Next]_Pending
  <2> SUFFICES ASSUME QueueInv, [Next]_vars PROVE QueueInv' /\ [Fifo!Next]_Pending
    OBVIOUS
  <2>1. CASE Reset
    BY <2>1, ResetStep DEF Fifo!Next
  <2>2. ASSUME NEW c \in Offered, Add(c) PROVE QueueInv' /\ [Fifo!Next]_Pending
    BY <2>2, AddStep DEF Put, Fifo!Next
  <2>3. ASSUME NEW b \in Lists, OpenList(b) PROVE QueueInv' /\ [Fifo!Next]_Pending
    BY <2>3, OpenListStep
  <2>4. CASE AddNext
    BY <2>4, AddNextStep DEF Put, Fifo!Next
  <2>5. CASE DeleteFirst \/ Complete
    BY <2>5, TakeStep DEF Fifo!Next
  <2>6. CASE UNCHANGED vars
    <3>1. UNCHANGED <<atCmdQueue, firstCmd, lastCmd, currentCmd, repeatCount, rest,
                      commandCount, cmdQueueWrite, currentCmdRet, currentCmdStatus>>
      BY <2>6 DEF vars, queue, indices, outcome
    <3>2. rest' \in Seq(Offered) /\ commandCount + Len(rest') <= ATCOMMAND_EXEC_CMD_QUEUE
      BY <3>1 DEF QueueInv
    <3>. QED
      BY <3>1, <3>2, QueueKept
  <2>. QED
    BY <2>1, <2>2, <2>3, <2>4, <2>5, <2>6 DEF Next
<1>. QED
  BY <1>1, <1>2, PTL DEF Spec, ImplementsQueue, Fifo!Spec
===============================================================================
