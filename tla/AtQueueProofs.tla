----------------------------- MODULE AtQueueProofs -----------------------------
(***************************************************************************)
(* What the operations of the AT command queue do to its types and to the  *)
(* index arithmetic, for every module that gives them to a caller.         *)
(***************************************************************************)
EXTENDS AtQueue, TLAPS

USE QueueSizeAssumption

LEMMA IndexFacts ==
  /\ 0 \in Index
  /\ \A i \in Index : /\ NextIndex(i) \in Index
                      /\ i + 1 \in Index => NextIndex(i) = i + 1
BY DEF Index, NextIndex

\* An index, or one past the end of the array, taken round it.
Wrap(x) == x % ATCOMMAND_EXEC_CMD_QUEUE

LEMMA WrapFacts ==
  \A x \in 0..(2 * ATCOMMAND_EXEC_CMD_QUEUE - 1) :
     /\ Wrap(x) \in Index
     /\ Wrap(x) = IF x < ATCOMMAND_EXEC_CMD_QUEUE THEN x
                                                  ELSE x - ATCOMMAND_EXEC_CMD_QUEUE
<1> SUFFICES ASSUME NEW x \in 0..(2 * ATCOMMAND_EXEC_CMD_QUEUE - 1)
             PROVE  /\ Wrap(x) \in Index
                    /\ Wrap(x) = IF x < ATCOMMAND_EXEC_CMD_QUEUE
                                   THEN x ELSE x - ATCOMMAND_EXEC_CMD_QUEUE
  OBVIOUS
<1>1. CASE x < ATCOMMAND_EXEC_CMD_QUEUE
  BY <1>1 DEF Wrap, Index
<1>2. CASE x >= ATCOMMAND_EXEC_CMD_QUEUE
  BY <1>2 DEF Wrap, Index
<1>. QED
  BY <1>1, <1>2

LEMMA NextIndexWraps == \A i \in Index : NextIndex(i) = Wrap(i + 1)
BY DEF NextIndex, Wrap

LEMMA Uint8Facts ==
  /\ \A n \in Int : n % 256 \in Uint8
  /\ \A n \in Uint8 : Dec8(n) \in Uint8 /\ Inc8(n) \in Uint8
  /\ \A n \in Uint8 : n > 0 => Dec8(n) = n - 1
  /\ \A n \in Uint8 : n < 255 => Inc8(n) = n + 1
<1>1. \A n \in Int : n % 256 \in Uint8
  BY DEF Uint8
<1>2. ASSUME NEW n \in Uint8
      PROVE  Dec8(n) \in Uint8 /\ Inc8(n) \in Uint8
  <2>1. n \in Int /\ n - 1 \in Int /\ n + 1 \in Int
    BY DEF Uint8
  <2>. QED
    BY <1>1, <2>1 DEF Dec8, Inc8
<1>3. ASSUME NEW n \in Uint8, n > 0 PROVE Dec8(n) = n - 1
  BY <1>3 DEF Uint8, Dec8
<1>4. ASSUME NEW n \in Uint8, n < 255 PROVE Inc8(n) = n + 1
  BY <1>4 DEF Uint8, Inc8
<1>. QED
  BY <1>1, <1>2, <1>3, <1>4

LEMMA EmptySlotType == EmptySlot \in Slot /\ EmptySlots \in [Index -> Slot]
BY NamesAssumption DEF EmptySlot, EmptySlots, Slot, Uint8, Status, NOK_OPER

LEMMA RemovedType == \A s \in Slot : Removed(s) \in Slot
BY NamesAssumption DEF Removed, EmptySlot, Slot, Uint8, Status, NOK_OPER

LEMMA StoredType ==
  ASSUME NEW c \in Command
  PROVE  /\ Stored(c) \in Slot
         /\ Stored(c).rspFunc \in RspFunc /\ Stored(c).atCmd = c.atCmd
         /\ Stored(c).repCount = c.repCount
         /\ Stored(c).successStatus = c.successStatus
BY NamesAssumption DEF Stored, Slot, Command, Uint8, Status, NOK_OPER

LEMMA RepeatUsedType ==
  ASSUME QueueTypeOK
  PROVE  /\ RepeatUsed \in [Index -> Slot]
         /\ RepeatUsed[currentCmd].repCount = Dec8(CurrentSlot.repCount)
         /\ RepeatUsed[currentCmd] = [CurrentSlot EXCEPT !.repCount = Dec8(@)]
         /\ \A i \in Index : i # currentCmd => RepeatUsed[i] = atCmdQueue[i]
<1>1. CurrentSlot \in Slot
  BY DEF QueueTypeOK, CurrentSlot
<1>2. [CurrentSlot EXCEPT !.repCount = Dec8(@)] \in Slot
  BY <1>1, Uint8Facts DEF Slot
<1>3. RepeatUsed = [atCmdQueue EXCEPT ![currentCmd] = [CurrentSlot EXCEPT !.repCount = Dec8(@)]]
  BY DEF RepeatUsed, CurrentSlot
<1>4. [CurrentSlot EXCEPT !.repCount = Dec8(@)].repCount = Dec8(CurrentSlot.repCount)
  BY <1>1 DEF Slot
<1>. QED
  BY <1>2, <1>3, <1>4 DEF QueueTypeOK

LEMMA QueueInitType == ASSUME QueueInit PROVE QueueTypeOK'
<1>1. 0 \in Uint8 /\ NOK_OPER \in Status /\ "ERROR" \in Rsp
  BY DEF Uint8, Rsp, Status, NOK_OPER
<1>. QED
  BY <1>1, EmptySlotType, IndexFacts
     DEF QueueInit, QueueClear, OutcomeClear, QueueTypeOK

LEMMA AddAtCmdType ==
  ASSUME QueueTypeOK, NEW c \in Command, AddAtCmd(c)
  PROVE  QueueTypeOK'
<1>1. Stored(c) \in Slot
  BY StoredType
<1>2. TailIndex \in Index
  BY IndexFacts DEF TailIndex, QueueTypeOK
<1>3. atCmdQueue' \in [Index -> Slot] /\ lastCmd' \in Index /\ commandCount' \in Uint8
  BY <1>1, <1>2, Uint8Facts DEF AddAtCmd, QueueTypeOK
<1>. QED
  BY <1>3 DEF AddAtCmd, QueueTypeOK, outcome

LEMMA DelAtCmdHeadType ==
  ASSUME QueueTypeOK, DelAtCmdHead
  PROVE  QueueTypeOK'
<1>1. \A i \in Index : atCmdQueue[i] \in Slot /\ Removed(atCmdQueue[i]) \in Slot
  BY RemovedType DEF QueueTypeOK
<1>2. commandCount - ExecutedCount \in Int
  <2>1. currentCmd - firstCmd \in Int
    BY DEF QueueTypeOK, Index
  <2>2. ExecutedCount \in Int
    BY <2>1 DEF ExecutedCount
  <2>. QED
    BY <2>2 DEF QueueTypeOK, Uint8
<1>3. atCmdQueue' \in [Index -> Slot]
  <2>1. CASE firstCmd = currentCmd \/ commandCount = 0
    BY <2>1 DEF DelAtCmdHead, QueueTypeOK
  <2>2. CASE ~(firstCmd = currentCmd \/ commandCount = 0)
    BY <2>2, <1>1 DEF DelAtCmdHead
  <2>. QED
    BY <2>1, <2>2
<1>4. firstCmd' \in Index /\ commandCount' \in Uint8
  BY <1>2, Uint8Facts DEF DelAtCmdHead, QueueTypeOK
<1>. QED
  BY <1>3, <1>4 DEF DelAtCmdHead, QueueTypeOK, outcome

LEMMA AdvanceType ==
  ASSUME QueueTypeOK, Advance
  PROVE  currentCmd' \in Index /\ commandCount' \in Uint8
BY IndexFacts, Uint8Facts DEF Advance, QueueTypeOK
================================================================================
