---------------------------- MODULE AtEngineProofs ----------------------------
(***************************************************************************)
(* Proofs that the invariants of the command engine hold for every queue   *)
(* size, every list of commands and every answer of the modem, that the    *)
(* engine keeps the promise of CommandFifo, and that a call returns true   *)
(* exactly when its last command was accepted.                             *)
(***************************************************************************)
EXTENDS AtEngine, AtQueueProofs, SequenceTheorems

USE QueueSizeAssumption

LEMMA BatchFacts ==
  /\ Offered \subseteq Command /\ Command \subseteq Slot
  /\ \A b \in Batches : b \in Seq(Offered) /\ b # <<>> /\ b[Len(b)] \in Slot
  /\ \A b \in Seq(Offered) : b # <<>> => /\ Head(b) \in Offered
                                         /\ Tail(b) \in Seq(Offered)
                                         /\ Len(Tail(b)) = Len(b) - 1
<1>1. Offered \subseteq Command /\ Command \subseteq Slot
  BY BatchesAssumption DEF Command, Slot
<1>2. \A b \in Batches : b \in Seq(Offered) /\ b # <<>>
  BY BatchesAssumption
<1>3. ASSUME NEW b \in Seq(Offered), b # <<>>
      PROVE  /\ b[Len(b)] \in Offered
             /\ Head(b) \in Offered /\ Tail(b) \in Seq(Offered)
             /\ Len(Tail(b)) = Len(b) - 1
  BY <1>3
<1>. QED
  BY <1>1, <1>2, <1>3

LEMMA TypeInductive == TypeOK /\ [Next]_vars => TypeOK'
<1> SUFFICES ASSUME TypeOK, [Next]_vars PROVE TypeOK'
  OBVIOUS
<1> USE DEF TypeOK
<1>1. ASSUME NEW b \in Batches, Call(b) PROVE TypeOK'
  BY <1>1, BatchFacts, EmptySlotType, IndexFacts
     DEF Call, QueueClear, OutcomeClear, QueueTypeOK, Uint8, Rsp, Status,
         NOK_OPER, engine, flags, timer
<1>2. CASE Open
  BY <1>2, DelAtCmdHeadType DEF Open, engine, flags, timer, history
<1>3. CASE Refused
  BY <1>3, QueueInitType, EmptySlotType DEF Refused, engine, flags, timer, history
<1>4. CASE Add
  BY <1>4, AddAtCmdType, BatchFacts DEF Add, engine, flags, timer, history
<1>5. CASE Close
  BY <1>5 DEF Close, QueueTypeOK, indices, outcome, engine, flags, timer, history
<1>6. CASE Return
  BY <1>6, QueueInitType, EmptySlotType DEF Return, engine, flags, timer, history
<1>7. CASE ExecuteAt
  <2>1. CurrentSlot.repCount \in Uint8
    BY DEF QueueTypeOK, CurrentSlot, Slot
  <2>2. QueueTypeOK'
    BY <1>7, <2>1 DEF ExecuteAt, QueueTypeOK, indices, outcome
  <2>3. tried' \in Nat /\ UNCHANGED <<caller, batch, goal, accepted>>
    BY <1>7 DEF ExecuteAt, tester
  <2>4. modemStatus' = "RSP_WAIT" /\ s_atExecute' = TRUE /\ modemRspWait' = TRUE
        /\ responseRecvd' = FALSE /\ delayTimerStart' = TRUE /\ timeOutFlag' = FALSE
    BY <1>7 DEF ExecuteAt, TimerStart
  <2>. QED
    BY <2>2, <2>3, <2>4
<1>8. CASE RspWaitTimeOut
  <2>1. AfterTimeOut \in [Index -> Slot]
    BY RepeatUsedType DEF AfterTimeOut, QueueTypeOK
  <2>2. currentCmd' \in Index /\ commandCount' \in Uint8 /\ tried' \in Nat
    BY <1>8, AdvanceType DEF RspWaitTimeOut, QueueTypeOK
  <2>. QED
    BY <1>8, <2>1, <2>2 DEF RspWaitTimeOut, QueueTypeOK, TimerStop, outcome, tester
<1>9. CASE RspWaitRecvd
  BY <1>9 DEF RspWaitRecvd, QueueTypeOK, queue, indices, outcome, flags, timer,
              tester, history
<1>10. CASE Idle
  BY <1>10 DEF Idle, QueueTypeOK, queue, indices, outcome, flags, TimerStop,
               tester, history
<1>11. CASE RspRetry
  <2>1. RepeatUsed \in [Index -> Slot] /\ "ERROR" \in Rsp /\ NOK_OPER \in Status
    BY RepeatUsedType DEF Rsp, Status, NOK_OPER
  <2>2. QueueTypeOK'
    BY <1>11, <2>1 DEF RspRetry, QueueTypeOK, indices
  <2>. QED
    BY <1>11, <2>2 DEF RspRetry, RspTaken, TimerStop, tester, history
<1>12. CASE RspAbandon
  BY <1>12, QueueInitType DEF RspAbandon, RspTaken, TimerStop, tester
<1>13. ASSUME NEW ret \in {"CONTINUE", "FINISH"}, RspAccept(ret) PROVE TypeOK'
  <2>1. CurrentSlot.successStatus \in Status /\ CurrentSlot.atCmd \in Cmd \cup {NoCmd}
    BY DEF QueueTypeOK, CurrentSlot, Slot
  <2>2. /\ currentCmd' \in Index /\ commandCount' \in Uint8
        /\ currentCmdStatus' \in Status
        /\ tried' \in Nat /\ accepted' \subseteq Cmd \cup {NoCmd}
    BY <1>13, <2>1, AdvanceType DEF RspAccept, QueueTypeOK, history
  <2>. QED
    BY <1>13, <2>2 DEF RspAccept, RspTaken, TimerStop, QueueTypeOK, Rsp, tester
<1>14. CASE RspWait
  BY <1>14 DEF RspWait, RspTaken, TimerStart, QueueTypeOK, indices, Rsp, tester, history
<1>15. CASE TimerExpires
  BY <1>15 DEF TimerExpires, QueueTypeOK, queue, indices, outcome, flags, tester, history
<1>16. CASE UNCHANGED vars
  BY <1>16 DEF vars, QueueTypeOK, queue, indices, outcome, engine, flags, timer,
               tester, history
<1>. QED
  BY <1>1, <1>2, <1>3, <1>4, <1>5, <1>6, <1>7, <1>8, <1>9, <1>10, <1>11, <1>12,
     <1>13, <1>14, <1>15, <1>16
     DEF Next, Tester, Proceed, Dispatcher, Responder

\* Every variable of the engine keeps its type, for every queue size, every
\* list of commands and every answer of the modem.
THEOREM TypeCorrect == Spec => []TypeOK
<1>1. Init => TypeOK
  BY EmptySlotType, IndexFacts
     DEF Init, TypeOK, QueueZeroed, QueueTypeOK, Uint8, Rsp, Status, NOK_OPER
<1>. QED
  BY <1>1, TypeInductive, PTL DEF Spec
-------------------------------------------------------------------------------
(* The inductive invariant, one lemma for each action that touches the queue. *)

\* The command under execution is the first of the window.
LEMMA WindowFacts ==
  ASSUME IInv, commandCount > 0
  PROVE  /\ currentCmd \in Index /\ lastCmd \in Index
         /\ lastCmd = currentCmd + commandCount - 1
         /\ commandCount \in Uint8 /\ commandCount <= ATCOMMAND_EXEC_CMD_QUEUE
         /\ Dec8(commandCount) = commandCount - 1
         /\ commandCount > 1 => NextIndex(currentCmd) = currentCmd + 1
         /\ CurrentSlot \in Slot /\ CurrentSlot.repCount \in Uint8
         /\ CurrentSlot.rspFunc \in RspFunc /\ CurrentSlot.atCmd \in Cmd
<1>1. /\ currentCmd \in Index /\ lastCmd \in Index /\ commandCount \in Uint8
      /\ CurrentSlot \in Slot
  BY DEF IInv, TypeOK, QueueTypeOK, CurrentSlot
<1>2. lastCmd = currentCmd + commandCount - 1
  BY DEF IInv, WindowInArray
<1>3. commandCount <= ATCOMMAND_EXEC_CMD_QUEUE
  BY <1>1, <1>2 DEF Index, Uint8
<1>4. Dec8(commandCount) = commandCount - 1
  BY <1>1, Uint8Facts
<1>5. commandCount > 1 => NextIndex(currentCmd) = currentCmd + 1
  <2>1. commandCount > 1 => currentCmd + 1 \in Index
    BY <1>1, <1>2 DEF Index, Uint8
  <2>. QED
    BY <1>1, <2>1, IndexFacts
<1>6. currentCmd \in currentCmd..lastCmd
  BY <1>1, <1>2 DEF Index, Uint8
<1>7. CurrentSlot.rspFunc \in RspFunc /\ CurrentSlot.atCmd \in Cmd
  BY <1>6 DEF IInv, SlotsInv, CurrentSlot
<1>. QED
  BY <1>1, <1>2, <1>3, <1>4, <1>5, <1>7 DEF Slot

LEMMA CallStep == ASSUME IInv, NEW b \in Batches, Call(b), TypeOK' PROVE IInv'
<1>1. /\ caller = "idle" /\ caller' = "opening" /\ commandCount' = 0
      /\ currentCmd' = 0 /\ lastCmd' = 0 /\ firstCmd' = 0
      /\ cmdQueueWrite' = TRUE /\ currentCmdStatus' = NOK_OPER
      /\ UNCHANGED <<modemStatus, s_atExecute, modemRspWait, delayTimerStart,
                     timeOutFlag, tried>>
  BY DEF Call, QueueClear, OutcomeClear, engine, flags, timer
<1>2. s_atExecute = FALSE /\ tried = 0 /\ modemStatus # "IDLE"
  BY <1>1 DEF IInv, ExecutingIsQueued, CallerInv, TypeOK
<1>3. WindowInArray' /\ ExecutingIsQueued' /\ CallerInv' /\ SlotsInv'
  BY <1>1, <1>2 DEF WindowInArray, ExecutingIsQueued, CallerInv, SlotsInv
<1>4. WaitIsTimed' /\ TriesInv'
  BY <1>1, <1>2 DEF IInv, WaitIsTimed, TriesInv
<1>. QED
  BY <1>3, <1>4 DEF IInv

LEMMA OpenStep == ASSUME IInv, Open, TypeOK' PROVE IInv'
<1>1. /\ caller = "opening" /\ caller' = "filling" /\ commandCount = 0
      /\ commandCount + Len(batch) <= ATCOMMAND_EXEC_CMD_QUEUE
  <2>1. Len(batch) \in Nat /\ commandCount = 0 /\ caller = "opening"
    BY DEF IInv, CallerInv, TypeOK, Open
  <2>. QED
    BY <2>1 DEF Open, QueueError
<1>2. /\ UNCHANGED <<firstCmd, commandCount, lastCmd, currentCmd, cmdQueueWrite,
                     currentCmdStatus, batch, modemStatus, s_atExecute,
                     modemRspWait, delayTimerStart, timeOutFlag, tried>>
  BY <1>1 DEF Open, DelAtCmdHead, outcome, engine, flags, timer, history
<1>3. s_atExecute = FALSE /\ tried = 0 /\ modemStatus # "IDLE"
  BY <1>1 DEF IInv, ExecutingIsQueued, CallerInv, TypeOK
<1>4. WindowInArray' /\ ExecutingIsQueued' /\ CallerInv' /\ SlotsInv'
  BY <1>1, <1>2, <1>3 DEF IInv, WindowInArray, ExecutingIsQueued, CallerInv, SlotsInv
<1>5. WaitIsTimed' /\ TriesInv'
  BY <1>1, <1>2, <1>3 DEF IInv, WaitIsTimed, TriesInv
<1>. QED
  BY <1>4, <1>5 DEF IInv

LEMMA CloseStep == ASSUME IInv, Close, TypeOK' PROVE IInv'
<1>1. /\ caller = "filling" /\ caller' = "waiting" /\ cmdQueueWrite' = FALSE
      /\ batch = <<>> /\ batch' = <<>>
      /\ UNCHANGED <<atCmdQueue, firstCmd, commandCount, lastCmd, currentCmd, repeatCount,
                     modemStatus, s_atExecute, modemRspWait, delayTimerStart,
                     timeOutFlag, tried>>
  BY DEF Close, indices, engine, flags, timer, history
<1>2. s_atExecute = FALSE /\ tried = 0 /\ modemStatus # "IDLE"
  BY <1>1 DEF IInv, ExecutingIsQueued, CallerInv, TypeOK
<1>3. WindowInArray' /\ ExecutingIsQueued' /\ CallerInv' /\ SlotsInv'
  BY <1>1, <1>2 DEF IInv, WindowInArray, ExecutingIsQueued, CallerInv, SlotsInv
<1>4. WaitIsTimed' /\ TriesInv'
  BY <1>1, <1>2 DEF IInv, WaitIsTimed, TriesInv, CurrentSlot, InFlight
<1>. QED
  BY <1>3, <1>4 DEF IInv

\* Refused, Return and RspAbandon end with an empty queue and nothing under
\* execution.
LEMMA EmptiedStep ==
  ASSUME IInv, QueueInit, TypeOK', s_atExecute' = FALSE, modemRspWait' = FALSE,
         tried' = 0, modemStatus' # "IDLE",
         caller' \in {"idle", "waiting"}, batch' = <<>>,
         ~(delayTimerStart' /\ timeOutFlag')
  PROVE  IInv'
<1>1. /\ commandCount' = 0 /\ currentCmd' = 0 /\ lastCmd' = 0 /\ firstCmd' = 0
      /\ cmdQueueWrite' = FALSE /\ currentCmdStatus' = NOK_OPER
  BY DEF QueueInit, QueueClear, OutcomeClear
<1>2. WindowInArray' /\ ExecutingIsQueued' /\ CallerInv' /\ SlotsInv'
  BY <1>1 DEF WindowInArray, ExecutingIsQueued, CallerInv, SlotsInv
<1>3. WaitIsTimed' /\ TriesInv'
  BY <1>1 DEF WaitIsTimed, TriesInv
<1>. QED
  BY <1>2, <1>3 DEF IInv

\* The repeats left in any slot the queue points at.
LEMMA CurrentSlotType ==
  ASSUME TypeOK PROVE CurrentSlot \in Slot /\ CurrentSlot.repCount \in Uint8
BY DEF TypeOK, QueueTypeOK, CurrentSlot, Slot

LEMMA CurrentSlotTypeNext ==
  ASSUME TypeOK' PROVE (CurrentSlot.repCount \in Uint8)'
BY DEF TypeOK, QueueTypeOK, CurrentSlot, Slot

LEMMA AddStep == ASSUME IInv, Add, TypeOK' PROVE IInv'
<1>1. /\ caller = "filling" /\ batch # <<>> /\ AddAtCmd(Head(batch))
      /\ batch' = Tail(batch)
      /\ UNCHANGED <<firstCmd, currentCmd, repeatCount, cmdQueueWrite,
                     currentCmdStatus, caller, modemStatus, s_atExecute,
                     modemRspWait, delayTimerStart, timeOutFlag, tried>>
  BY DEF Add, AddAtCmd, outcome, engine, flags, timer, history
<1>2. /\ s_atExecute = FALSE /\ tried = 0 /\ modemStatus # "IDLE" /\ currentCmd = 0
      /\ firstCmd = 0
  BY <1>1 DEF IInv, ExecutingIsQueued, CallerInv, TypeOK, WindowInArray
<1>3. /\ Head(batch) \in Command /\ Len(batch) \in Nat \ {0}
      /\ Len(batch') = Len(batch) - 1
  BY <1>1, BatchFacts DEF IInv, TypeOK
<1>4. /\ commandCount \in Uint8 /\ lastCmd \in Index
      /\ atCmdQueue \in [Index -> Slot]
      /\ commandCount + Len(batch) <= ATCOMMAND_EXEC_CMD_QUEUE
  BY <1>1 DEF IInv, TypeOK, QueueTypeOK, WindowInArray
<1>5. commandCount < ATCOMMAND_EXEC_CMD_QUEUE /\ commandCount < 255
  BY <1>3, <1>4 DEF Uint8
<1>6. ~QueueFull
  BY <1>4, <1>5 DEF QueueFull, Uint8
<1>7. TailIndex = commandCount /\ TailIndex \in Index
  <2>1. CASE commandCount = 0
    BY <1>1, <2>1, IndexFacts DEF TailIndex, IInv, CallerInv
  <2>2. CASE commandCount > 0
    <3>1. lastCmd = commandCount - 1
      BY <1>2, <1>4, <2>2 DEF IInv, WindowInArray, Uint8
    <3>2. lastCmd + 1 \in Index
      BY <1>4, <1>5, <3>1 DEF Index, Uint8
    <3>. QED
      BY <1>4, <2>2, <3>1, <3>2, IndexFacts DEF TailIndex, Index, Uint8
  <2>. QED
    BY <1>4, <2>1, <2>2 DEF Uint8
<1>8. /\ commandCount' = commandCount + 1 /\ lastCmd' = commandCount
      /\ atCmdQueue' = [atCmdQueue EXCEPT ![commandCount] = Stored(Head(batch))]
  BY <1>1, <1>4, <1>5, <1>6, <1>7, Uint8Facts DEF AddAtCmd
<1>9. WindowInArray' /\ ExecutingIsQueued' /\ CallerInv'
  BY <1>1, <1>2, <1>3, <1>4, <1>8
     DEF IInv, WindowInArray, ExecutingIsQueued, CallerInv, Uint8
<1>10. SlotsInv'
  <2> SUFFICES ASSUME NEW i \in 0..commandCount
               PROVE  atCmdQueue'[i].rspFunc \in RspFunc /\ atCmdQueue'[i].atCmd \in Cmd
    BY <1>1, <1>2, <1>8 DEF SlotsInv
  <2>1. i \in Index
    BY <1>4, <1>5 DEF Index, Uint8
  <2>2. CASE i = commandCount
    <3>1. Head(batch).atCmd \in Cmd
      BY <1>3 DEF Command
    <3>. QED
      BY <1>3, <1>4, <1>8, <2>1, <2>2, <3>1, StoredType
  <2>3. CASE i # commandCount
    <3>1. commandCount > 0 /\ lastCmd = commandCount - 1 /\ i \in 0..lastCmd
      BY <1>2, <1>4, <2>3 DEF IInv, WindowInArray, Uint8
    <3>2. atCmdQueue[i].rspFunc \in RspFunc /\ atCmdQueue[i].atCmd \in Cmd
      BY <1>2, <3>1 DEF IInv, SlotsInv
    <3>. QED
      BY <1>4, <1>8, <2>1, <2>3, <3>2
  <2>. QED
    BY <2>2, <2>3
<1>11. WaitIsTimed'
  BY <1>1 DEF IInv, WaitIsTimed
<1>12. TriesInv'
  <2>1. (CurrentSlot.repCount \in Uint8)' /\ InFlight' = 0 /\ tried' = 0
    BY <1>1, <1>2, CurrentSlotTypeNext DEF InFlight
  <2>2. (CurrentSlot.repCount + tried - InFlight \in Uint8)'
    BY <2>1 DEF Uint8
  <2>. QED
    BY <1>1, <1>2, <2>1, <2>2 DEF IInv, TriesInv
<1>. QED
  BY <1>9, <1>10, <1>11, <1>12 DEF IInv

LEMMA ExecuteStep == ASSUME IInv, ExecuteAt, TypeOK' PROVE IInv'
<1>1. /\ modemStatus = "EXECUTE_AT" /\ commandCount > 0 /\ cmdQueueWrite = FALSE
      /\ s_atExecute = FALSE
      /\ repeatCount' = CurrentSlot.repCount
      /\ s_atExecute' = TRUE /\ modemRspWait' = TRUE /\ modemStatus' = "RSP_WAIT"
      /\ responseRecvd' = FALSE /\ delayTimerStart' = TRUE /\ timeOutFlag' = FALSE
      /\ tried' = tried + 1
      /\ UNCHANGED <<atCmdQueue, firstCmd, lastCmd, currentCmd, commandCount,
                     cmdQueueWrite, currentCmdStatus, caller, batch>>
  BY DEF ExecuteAt, TimerStart, indices, outcome, tester, IInv, TypeOK, QueueTypeOK
<1>2. caller = "waiting"
  BY <1>1 DEF IInv, CallerInv, TypeOK
<1>3. /\ UNCHANGED CurrentSlot /\ CurrentSlot.rspFunc # NoFunc
      /\ CurrentSlot.repCount \in Uint8 /\ tried \in Nat
  BY <1>1, WindowFacts, NamesAssumption DEF CurrentSlot, IInv, TypeOK
<1>4. WindowInArray' /\ ExecutingIsQueued' /\ SlotsInv' /\ WaitIsTimed'
  BY <1>1, <1>2, <1>3
     DEF IInv, WindowInArray, ExecutingIsQueued, SlotsInv, WaitIsTimed
<1>5. CallerInv'
  BY <1>1, <1>2 DEF IInv, CallerInv
<1>6. TriesInv'
  <2>1. InFlight = 0 /\ InFlight' = 1
    BY <1>1 DEF InFlight
  <2>2. CurrentSlot.repCount + tried \in Uint8
    BY <1>1, <1>3, <2>1 DEF IInv, TriesInv, Uint8
  <2>3. (CurrentSlot.repCount + tried - InFlight \in Uint8)' /\ tried' > 0
    BY <1>1, <1>3, <2>1, <2>2 DEF Uint8
  <2>. QED
    BY <1>1, <1>3, <2>3 DEF TriesInv
<1>. QED
  BY <1>4, <1>5, <1>6 DEF IInv

\* Dropping the command under execution leaves the rest of the window.
LEMMA AdvanceStep ==
  ASSUME IInv, commandCount > 0, Advance, caller = "waiting",
         UNCHANGED <<firstCmd, lastCmd, caller, batch>>,
         \A i \in Index : i # currentCmd => atCmdQueue'[i] = atCmdQueue[i]
  PROVE  WindowInArray' /\ SlotsInv' /\ commandCount' = commandCount - 1
<1>1. commandCount' = commandCount - 1
  BY WindowFacts DEF Advance
<1>2. commandCount' > 0 => currentCmd' = currentCmd + 1
  BY <1>1, WindowFacts DEF Advance, Uint8
<1>3. WindowInArray'
  BY <1>1, <1>2, WindowFacts DEF IInv, WindowInArray, Uint8, Index
<1>4. SlotsInv'
  <2> SUFFICES ASSUME commandCount' > 0, NEW i \in (currentCmd + 1)..lastCmd
               PROVE  atCmdQueue'[i].rspFunc \in RspFunc /\ atCmdQueue'[i].atCmd \in Cmd
    BY <1>2 DEF SlotsInv
  <2>1. i \in Index /\ i # currentCmd /\ i \in currentCmd..lastCmd
    BY WindowFacts DEF Index
  <2>. QED
    BY <2>1 DEF IInv, SlotsInv
<1>. QED
  BY <1>1, <1>3, <1>4

\* What holds when a step leaves nothing under execution and nothing awaited.
LEMMA QuietStep ==
  ASSUME IInv, TypeOK', caller = "waiting",
         s_atExecute' = FALSE, modemRspWait' = FALSE, modemStatus' # "IDLE",
         delayTimerStart' = FALSE,
         UNCHANGED <<cmdQueueWrite, caller, batch>>,
         commandCount' = 0 => tried' = 0,
         commandCount' > 0 => (CurrentSlot.repCount + tried \in Uint8)'
  PROVE  ExecutingIsQueued' /\ WaitIsTimed' /\ CallerInv' /\ TriesInv'
<1>1. ExecutingIsQueued' /\ WaitIsTimed'
  BY DEF ExecutingIsQueued, WaitIsTimed
<1>2. CallerInv'
  BY DEF IInv, CallerInv
<1>3. TriesInv'
  <2>1. InFlight' = 0
    BY DEF InFlight
  <2>2. tried' \in Nat /\ (CurrentSlot.repCount \in Uint8)'
    BY CurrentSlotTypeNext DEF TypeOK
  <2>3. (CurrentSlot.repCount + tried - InFlight = CurrentSlot.repCount + tried)'
    BY <2>1, <2>2 DEF Uint8
  <2>. QED
    BY <2>3 DEF TriesInv
<1>. QED
  BY <1>1, <1>2, <1>3

LEMMA TimeOutStep == ASSUME IInv, RspWaitTimeOut, TypeOK' PROVE IInv'
<1>1. /\ modemRspWait = TRUE /\ s_atExecute = TRUE /\ caller = "waiting"
      /\ commandCount > 0 /\ repeatCount = CurrentSlot.repCount /\ tried > 0
      /\ modemStatus = "RSP_WAIT"
  BY DEF RspWaitTimeOut, IInv, WaitIsTimed, ExecutingIsQueued, TriesInv, TypeOK
<1>2. /\ modemRspWait' = FALSE /\ modemStatus' # "IDLE" /\ delayTimerStart' = FALSE
      /\ UNCHANGED <<firstCmd, lastCmd, cmdQueueWrite, caller, batch>>
  BY DEF RspWaitTimeOut, TimerStop, tester
<1>3. /\ CurrentSlot.repCount \in Uint8 /\ currentCmd \in Index /\ tried \in Nat
      /\ atCmdQueue \in [Index -> Slot] /\ QueueTypeOK
      /\ CurrentSlot.repCount + tried - 1 \in Uint8
  BY <1>1, WindowFacts DEF IInv, TypeOK, QueueTypeOK, TriesInv, InFlight
<1>4. /\ \A i \in Index : i # currentCmd => atCmdQueue'[i] = atCmdQueue[i]
      /\ atCmdQueue'[currentCmd].repCount =
           IF CurrentSlot.repCount > 0 THEN CurrentSlot.repCount - 1 ELSE 0
  <2>1. CASE CurrentSlot.repCount > 0
    BY <1>1, <1>3, <2>1, RepeatUsedType, Uint8Facts DEF RspWaitTimeOut, AfterTimeOut
  <2>2. CASE CurrentSlot.repCount = 0
    BY <1>1, <1>3, <2>2 DEF RspWaitTimeOut, AfterTimeOut, CurrentSlot
  <2>. QED
    BY <1>3, <2>1, <2>2 DEF Uint8
<1>5. Exhausted <=> CurrentSlot.repCount <= 1
  BY <1>1, <1>3, <1>4 DEF Exhausted, RspWaitTimeOut, Uint8
<1>6. s_atExecute' = FALSE
  <2>1. repeatCount = 0 => Exhausted
    BY <1>1, <1>5
  <2>2. s_atExecute' = (s_atExecute /\ repeatCount = 0 /\ ~Exhausted)
    BY DEF RspWaitTimeOut
  <2>. QED
    BY <2>1, <2>2, Zenon
<1>7. CASE Exhausted
  <2>1. Advance /\ tried' = 0
    BY <1>7 DEF RspWaitTimeOut
  <2>2. WindowInArray' /\ SlotsInv'
    BY <1>1, <1>2, <1>4, <2>1, AdvanceStep
  <2>3. (CurrentSlot.repCount + tried \in Uint8)'
    BY <2>1, CurrentSlotTypeNext DEF Uint8
  <2>4. ExecutingIsQueued' /\ WaitIsTimed' /\ CallerInv' /\ TriesInv'
    BY <1>1, <1>2, <1>6, <2>1, <2>3, QuietStep
  <2>. QED
    BY <2>2, <2>4 DEF IInv
<1>8. CASE ~Exhausted
  <2>1. UNCHANGED <<currentCmd, commandCount, tried>>
    BY <1>8 DEF RspWaitTimeOut
  <2>2. WindowInArray'
    BY <1>1, <1>2, <2>1 DEF IInv, WindowInArray
  <2>3. CurrentSlot' = RepeatUsed[currentCmd]
    BY <1>1, <1>3, <1>5, <1>8, <2>1 DEF RspWaitTimeOut, AfterTimeOut, CurrentSlot, Uint8
  <2>4. SlotsInv'
    <3> SUFFICES ASSUME NEW i \in currentCmd..lastCmd
                 PROVE  atCmdQueue'[i].rspFunc \in RspFunc /\ atCmdQueue'[i].atCmd \in Cmd
      BY <1>2, <2>1 DEF SlotsInv
    <3>1. i \in Index
      BY <1>1, WindowFacts DEF Index
    <3>2. CASE i = currentCmd
      <4>1. atCmdQueue'[i] = [CurrentSlot EXCEPT !.repCount = Dec8(@)]
        BY <1>3, <2>1, <2>3, <3>2, RepeatUsedType DEF CurrentSlot
      <4>. QED
        BY <1>1, <4>1, WindowFacts DEF Slot
    <3>3. CASE i # currentCmd
      BY <1>1, <1>4, <3>1, <3>3 DEF IInv, SlotsInv
    <3>. QED
      BY <3>2, <3>3
  <2>5. (CurrentSlot.repCount + tried \in Uint8)'
    <3>1. CurrentSlot.repCount > 0
      BY <1>3, <1>5, <1>8 DEF Uint8
    <3>2. CurrentSlot' = atCmdQueue'[currentCmd]
      BY <2>1 DEF CurrentSlot
    <3>3. CurrentSlot'.repCount = CurrentSlot.repCount - 1
      BY <1>4, <3>1, <3>2
    <3>4. CurrentSlot'.repCount + tried' = CurrentSlot.repCount + tried - 1
      BY <1>3, <2>1, <3>3 DEF Uint8
    <3>. QED
      BY <1>3, <3>4
  <2>6. ExecutingIsQueued' /\ WaitIsTimed' /\ CallerInv' /\ TriesInv'
    <3>1. ~(commandCount' = 0)
      BY <1>1, <2>1
    <3>. QED
      BY <1>1, <1>2, <1>6, <2>5, <3>1, QuietStep
  <2>. QED
    BY <2>2, <2>4, <2>6 DEF IInv
<1>. QED
  BY <1>7, <1>8

\* What the response processor finds and leaves when it takes an answer.
LEMMA RspTakenFacts ==
  ASSUME IInv, NEW ret, RspTaken(ret)
  PROVE  /\ s_atExecute = TRUE /\ modemStatus = "RSP_WAIT" /\ caller = "waiting"
         /\ commandCount > 0 /\ tried > 0 /\ repeatCount = CurrentSlot.repCount
         /\ s_atExecute' = FALSE /\ modemRspWait' = FALSE
         /\ UNCHANGED <<caller, batch, goal>>
         /\ tried \in Nat /\ CurrentSlot.repCount \in Uint8 /\ currentCmd \in Index
         /\ atCmdQueue \in [Index -> Slot] /\ QueueTypeOK
         /\ CurrentSlot.repCount + tried - 1 \in Uint8
<1>1. s_atExecute = TRUE
  BY DEF RspTaken, IInv, TypeOK
<1>2. /\ modemStatus = "RSP_WAIT" /\ caller = "waiting" /\ commandCount > 0
      /\ tried > 0 /\ repeatCount = CurrentSlot.repCount
      /\ CurrentSlot.repCount + tried - 1 \in Uint8
  BY <1>1 DEF IInv, WaitIsTimed, ExecutingIsQueued, TriesInv, InFlight
<1>. QED
  BY <1>1, <1>2, WindowFacts DEF RspTaken, tester, IInv, TypeOK, QueueTypeOK

LEMMA RetryStep == ASSUME IInv, RspRetry, TypeOK' PROVE IInv'
<1>1. RspTaken("ERROR") /\ CurrentSlot.repCount > 0 /\ atCmdQueue' = RepeatUsed
  BY DEF RspRetry
<1>2. /\ UNCHANGED <<firstCmd, lastCmd, currentCmd, commandCount, cmdQueueWrite, tried>>
      /\ delayTimerStart' = FALSE /\ modemStatus' # "IDLE"
  BY DEF RspRetry, TimerStop, indices, history
<1>. /\ caller = "waiting" /\ commandCount > 0 /\ tried \in Nat
     /\ s_atExecute' = FALSE /\ modemRspWait' = FALSE /\ UNCHANGED <<caller, batch>>
     /\ CurrentSlot.repCount \in Uint8 /\ currentCmd \in Index /\ QueueTypeOK
     /\ CurrentSlot.repCount + tried - 1 \in Uint8
  BY <1>1, RspTakenFacts
<1>3. WindowInArray'
  BY <1>2 DEF IInv, WindowInArray
<1>4. CurrentSlot' = [CurrentSlot EXCEPT !.repCount = Dec8(@)]
  BY <1>1, <1>2, RepeatUsedType DEF CurrentSlot
<1>5. SlotsInv'
  <2> SUFFICES ASSUME NEW i \in currentCmd..lastCmd
               PROVE  atCmdQueue'[i].rspFunc \in RspFunc /\ atCmdQueue'[i].atCmd \in Cmd
    BY <1>2 DEF SlotsInv
  <2>1. i \in Index
    BY WindowFacts DEF Index
  <2>2. CASE i = currentCmd
    <3>1. atCmdQueue'[i] = [CurrentSlot EXCEPT !.repCount = Dec8(@)]
      BY <1>1, <2>2, RepeatUsedType
    <3>. QED
      BY <1>1, <3>1, WindowFacts DEF Slot
  <2>3. CASE i # currentCmd
    BY <1>1, <2>1, <2>3, RepeatUsedType DEF IInv, SlotsInv
  <2>. QED
    BY <2>2, <2>3
<1>6. (CurrentSlot.repCount + tried \in Uint8)'
  <2>1. CurrentSlot \in Slot
    BY <1>1, WindowFacts
  <2>2. CurrentSlot'.repCount = CurrentSlot.repCount - 1
    <3>1. CurrentSlot'.repCount = Dec8(CurrentSlot.repCount)
      BY <1>4, <2>1 DEF Slot
    <3>2. Dec8(CurrentSlot.repCount) = CurrentSlot.repCount - 1
      BY <1>1, Uint8Facts
    <3>. QED
      BY <3>1, <3>2
  <2>3. CurrentSlot'.repCount + tried' = CurrentSlot.repCount + tried - 1
    BY <1>1, <1>2, <2>2 DEF Uint8
  <2>. QED
    BY <1>1, <2>3
<1>7. ~(commandCount' = 0)
  BY <1>1, <1>2
<1>8. ExecutingIsQueued' /\ WaitIsTimed' /\ CallerInv' /\ TriesInv'
  BY <1>1, <1>2, <1>6, <1>7, QuietStep
<1>. QED
  BY <1>3, <1>5, <1>8 DEF IInv

LEMMA AcceptStep == ASSUME IInv, NEW ret, RspAccept(ret), TypeOK' PROVE IInv'
<1>1. RspTaken(ret) /\ commandCount > 0
  BY RspTakenFacts DEF RspAccept
<1>2. /\ Advance /\ tried' = 0 /\ delayTimerStart' = FALSE /\ modemStatus' # "IDLE"
      /\ UNCHANGED <<atCmdQueue, firstCmd, lastCmd, cmdQueueWrite>>
  BY <1>1 DEF RspAccept, TimerStop
<1>3. WindowInArray' /\ SlotsInv'
  BY <1>1, <1>2, RspTakenFacts, AdvanceStep
<1>4. (CurrentSlot.repCount + tried \in Uint8)'
  BY <1>2, CurrentSlotTypeNext DEF Uint8
<1>5. ExecutingIsQueued' /\ WaitIsTimed' /\ CallerInv' /\ TriesInv'
  BY <1>1, <1>2, <1>4, RspTakenFacts, QuietStep
<1>. QED
  BY <1>3, <1>5 DEF IInv

LEMMA WaitStep == ASSUME IInv, RspWait, TypeOK' PROVE IInv'
<1>1. /\ RspTaken("WAIT") /\ modemStatus' = "IDLE"
      /\ delayTimerStart' = TRUE /\ timeOutFlag' = FALSE
      /\ UNCHANGED <<atCmdQueue, firstCmd, lastCmd, currentCmd, repeatCount,
                     commandCount, cmdQueueWrite, currentCmdStatus, tried>>
  BY DEF RspWait, TimerStart, indices, history
<1>2. InFlight = 1 /\ InFlight' = 1 /\ UNCHANGED CurrentSlot
  BY <1>1, RspTakenFacts DEF InFlight, CurrentSlot
<1>3. WindowInArray' /\ ExecutingIsQueued' /\ SlotsInv' /\ WaitIsTimed'
  BY <1>1, RspTakenFacts
     DEF IInv, WindowInArray, ExecutingIsQueued, SlotsInv, WaitIsTimed
<1>4. CallerInv'
  BY <1>1, RspTakenFacts DEF IInv, CallerInv
<1>5. TriesInv'
  BY <1>1, <1>2, RspTakenFacts DEF IInv, TriesInv
<1>. QED
  BY <1>3, <1>4, <1>5 DEF IInv

\* The steps that touch neither the queue nor what is under execution.
LEMMA TimerStep ==
  ASSUME IInv, TypeOK', RspWaitRecvd \/ Idle \/ TimerExpires
  PROVE  IInv'
<1>1. /\ UNCHANGED <<atCmdQueue, firstCmd, lastCmd, currentCmd, repeatCount,
                     commandCount, cmdQueueWrite, currentCmdStatus, s_atExecute,
                     modemRspWait, caller, batch, tried>>
      /\ UNCHANGED CurrentSlot
  BY DEF RspWaitRecvd, Idle, TimerExpires, queue, indices, outcome, flags, tester,
         history, CurrentSlot
<1>2. WindowInArray' /\ ExecutingIsQueued' /\ SlotsInv'
  BY <1>1 DEF IInv, WindowInArray, ExecutingIsQueued, SlotsInv
<1>3. /\ s_atExecute = TRUE \/ modemRspWait = TRUE
           => modemStatus' = "RSP_WAIT" /\ delayTimerStart' # timeOutFlag'
      /\ modemStatus' = "IDLE" <=> modemStatus = "IDLE"
      /\ ~(delayTimerStart' /\ timeOutFlag')
      /\ s_atExecute = TRUE => responseRecvd' = FALSE
  <2>1. CASE RspWaitRecvd
    <3>1. responseRecvd = TRUE /\ s_atExecute = FALSE /\ modemRspWait = FALSE
      BY <2>1 DEF RspWaitRecvd, IInv, TriesInv, WaitIsTimed, TypeOK
    <3>. QED
      BY <2>1, <3>1 DEF RspWaitRecvd, timer, IInv, TriesInv
  <2>2. CASE Idle
    BY <2>2 DEF Idle, TimerStop, flags, IInv, TriesInv, WaitIsTimed, TypeOK
  <2>3. CASE TimerExpires
    BY <2>3 DEF TimerExpires, flags, IInv, TriesInv, WaitIsTimed, TypeOK
  <2>. QED
    BY <2>1, <2>2, <2>3
<1>4. WaitIsTimed' /\ CallerInv'
  BY <1>1, <1>3 DEF IInv, WaitIsTimed, CallerInv, TypeOK
<1>5. TriesInv'
  <2>1. InFlight' = InFlight
    BY <1>1, <1>3 DEF InFlight
  <2>. QED
    BY <1>1, <1>3, <2>1 DEF IInv, TriesInv, TypeOK
<1>. QED
  BY <1>2, <1>4, <1>5 DEF IInv

LEMMA UnchangedStep == ASSUME IInv, UNCHANGED vars PROVE IInv'
<1>1. TypeOK'
  BY TypeInductive DEF IInv
<1>2. /\ UNCHANGED <<atCmdQueue, firstCmd, lastCmd, currentCmd, repeatCount,
                     commandCount, cmdQueueWrite, currentCmdStatus>>
      /\ UNCHANGED <<modemStatus, s_atExecute, modemRspWait, responseRecvd,
                     delayTimerStart, timeOutFlag, caller, batch, tried>>
      /\ UNCHANGED <<CurrentSlot, InFlight>>
  BY DEF vars, queue, indices, outcome, engine, flags, timer, tester, history,
         CurrentSlot, InFlight
<1>3. WindowInArray' /\ ExecutingIsQueued' /\ SlotsInv'
  BY <1>2 DEF IInv, WindowInArray, ExecutingIsQueued, SlotsInv
<1>4. WaitIsTimed' /\ CallerInv' /\ TriesInv'
  BY <1>2 DEF IInv, WaitIsTimed, CallerInv, TriesInv
<1>. QED
  BY <1>1, <1>3, <1>4 DEF IInv

\* The calling function sees an empty queue only when nothing is under way.
LEMMA EmptyIsQuiet ==
  ASSUME IInv, commandCount = 0
  PROVE  /\ s_atExecute = FALSE /\ modemRspWait = FALSE /\ modemStatus # "IDLE"
         /\ tried = 0
<1>1. s_atExecute = FALSE
  BY DEF IInv, ExecutingIsQueued, TypeOK
<1>2. modemRspWait = FALSE
  BY <1>1 DEF IInv, WaitIsTimed, TypeOK
<1>. QED
  BY <1>1, <1>2 DEF IInv, TriesInv

LEMMA InitIInv == Init => IInv
<1> SUFFICES ASSUME Init PROVE IInv
  OBVIOUS
<1>1. TypeOK
  BY EmptySlotType, IndexFacts
     DEF Init, TypeOK, QueueZeroed, QueueTypeOK, Uint8, Rsp, Status, NOK_OPER
<1>2. /\ firstCmd = 0 /\ lastCmd = 0 /\ currentCmd = 0 /\ commandCount = 0
      /\ cmdQueueWrite = FALSE /\ currentCmdStatus = NOK_OPER
      /\ modemStatus = "EXECUTE_AT" /\ s_atExecute = FALSE /\ modemRspWait = FALSE
      /\ delayTimerStart = FALSE /\ caller = "idle" /\ batch = <<>> /\ tried = 0
  BY DEF Init, QueueZeroed
<1>3. WindowInArray /\ ExecutingIsQueued /\ SlotsInv
  BY <1>2 DEF WindowInArray, ExecutingIsQueued, SlotsInv
<1>4. WaitIsTimed /\ CallerInv /\ TriesInv
  BY <1>2 DEF WaitIsTimed, CallerInv, TriesInv
<1>. QED
  BY <1>1, <1>3, <1>4 DEF IInv

LEMMA Inductive == IInv /\ [Next]_vars => IInv'
<1> SUFFICES ASSUME IInv, [Next]_vars PROVE IInv'
  OBVIOUS
<1>1. TypeOK'
  BY TypeInductive DEF IInv
<1>2. ASSUME NEW b \in Batches, Call(b) PROVE IInv'
  BY <1>1, <1>2, CallStep
<1>3. CASE Open
  BY <1>1, <1>3, OpenStep
<1>4. CASE Refused
  <2>1. /\ commandCount = 0 /\ QueueInit /\ caller' = "idle" /\ batch' = <<>>
        /\ UNCHANGED <<modemStatus, s_atExecute, modemRspWait, delayTimerStart,
                       timeOutFlag, tried>>
    BY <1>4 DEF Refused, IInv, CallerInv, engine, flags, timer, history
  <2>2. ~(delayTimerStart' /\ timeOutFlag')
    BY <2>1 DEF IInv, TriesInv
  <2>. QED
    BY <1>1, <2>1, <2>2, EmptyIsQuiet, EmptiedStep
<1>5. CASE Add
  BY <1>1, <1>5, AddStep
<1>6. CASE Close
  BY <1>1, <1>6, CloseStep
<1>7. CASE Return
  <2>1. /\ commandCount = 0 /\ QueueInit /\ caller' = "idle" /\ batch' = <<>>
        /\ UNCHANGED <<modemStatus, s_atExecute, modemRspWait, delayTimerStart,
                       timeOutFlag, tried>>
    BY <1>7 DEF Return, IInv, CallerInv, engine, flags, timer, history
  <2>2. ~(delayTimerStart' /\ timeOutFlag')
    BY <2>1 DEF IInv, TriesInv
  <2>. QED
    BY <1>1, <2>1, <2>2, EmptyIsQuiet, EmptiedStep
<1>8. CASE ExecuteAt
  BY <1>1, <1>8, ExecuteStep
<1>9. CASE RspWaitTimeOut
  BY <1>1, <1>9, TimeOutStep
<1>10. CASE RspWaitRecvd \/ Idle \/ TimerExpires
  BY <1>1, <1>10, TimerStep
<1>11. CASE RspRetry
  BY <1>1, <1>11, RetryStep
<1>12. CASE RspAbandon
  <2>1. /\ RspTaken("ERROR") /\ QueueInit /\ tried' = 0
        /\ delayTimerStart' = FALSE /\ modemStatus' # "IDLE"
    BY <1>12 DEF RspAbandon, TimerStop
  <2>2. /\ s_atExecute' = FALSE /\ modemRspWait' = FALSE /\ caller' = "waiting"
        /\ UNCHANGED batch /\ caller = "waiting"
    BY <2>1, RspTakenFacts
  <2>3. batch' = <<>>
    BY <2>2 DEF IInv, CallerInv
  <2>. QED
    BY <1>1, <2>1, <2>2, <2>3, EmptiedStep
<1>13. ASSUME NEW ret \in {"CONTINUE", "FINISH"}, RspAccept(ret) PROVE IInv'
  BY <1>1, <1>13, AcceptStep
<1>14. CASE RspWait
  BY <1>1, <1>14, WaitStep
<1>15. CASE UNCHANGED vars
  BY <1>15, UnchangedStep
<1>. QED
  BY <1>2, <1>3, <1>4, <1>5, <1>6, <1>7, <1>8, <1>9, <1>10, <1>11, <1>12, <1>13,
     <1>14, <1>15
     DEF Next, Tester, Proceed, Dispatcher, Responder

\* The inductive invariant of the engine, for every queue size, every list of
\* commands and every answer of the modem.
THEOREM EngineInvariant == Spec => []IInv
BY InitIInv, Inductive, PTL DEF Spec

\* The response processor never works on a slot that has left the queue, and
\* never finds a NULL callback in it.
THEOREM ExecutingCommandIsQueued == Spec => []ExecutingIsQueued
<1>1. IInv => ExecutingIsQueued
  BY DEF IInv
<1>. QED
  BY <1>1, EngineInvariant, PTL

\* No silence of the modem leaves a command waiting without a timer.
THEOREM ExecutingCommandIsTimed == Spec => []WaitIsTimed
<1>1. IInv => WaitIsTimed
  BY DEF IInv
<1>. QED
  BY <1>1, EngineInvariant, PTL

\* The commands of a call never go round the end of the array, and fit in it.
THEOREM QueueDoesNotWrap == Spec => []WindowInArray
<1>1. IInv => WindowInArray
  BY DEF IInv
<1>. QED
  BY <1>1, EngineInvariant, PTL
-------------------------------------------------------------------------------
(* The refinement of CommandFifo. *)

LEMMA ModFacts == \A i \in Index : i % ATCOMMAND_EXEC_CMD_QUEUE = i
BY DEF Index

LEMMA RestoredFacts ==
  ASSUME NEW s \in Slot, NEW n \in Int, s.repCount + n \in Uint8
  PROVE  /\ [s EXCEPT !.repCount = @ + n] \in Slot
         /\ [s EXCEPT !.repCount = @ + n].repCount = s.repCount + n
         /\ [s EXCEPT !.repCount = @ + n].successStatus = s.successStatus
         /\ n = 0 => [s EXCEPT !.repCount = @ + n] = s
BY DEF Slot, Uint8

\* What the mapping makes of the queue, without the arithmetic that goes round the
\* array.
TodoShape ==
  /\ Todo \in Seq(Slot) /\ Len(Todo) = commandCount
  /\ commandCount = 0 => Todo = <<>>
  /\ commandCount > 0 => Todo # <<>> /\ Head(Todo) = Todo[1]
                         /\ Todo[1] = Restored(CurrentSlot)
  /\ \A k \in 2..commandCount : Todo[k] = atCmdQueue[currentCmd + k - 1]

LEMMA TodoHasShape == IInv => TodoShape
<1> SUFFICES ASSUME IInv PROVE TodoShape
  OBVIOUS
<1>1. /\ commandCount \in Uint8 /\ currentCmd \in Index /\ tried \in Nat
      /\ commandCount \in Nat
      /\ atCmdQueue \in [Index -> Slot] /\ CurrentSlot \in Slot /\ InFlight \in {0, 1}
  BY DEF IInv, TypeOK, QueueTypeOK, Uint8, CurrentSlot, InFlight
<1>2. ASSUME NEW k \in 1..commandCount
      PROVE  /\ currentCmd + k - 1 \in Index
             /\ Pending[k] = atCmdQueue[currentCmd + k - 1]
  <2>1. commandCount > 0
    BY <1>1, <1>2
  <2>2. currentCmd + k - 1 \in Index
    BY <1>1, <2>1, WindowFacts DEF Index, Uint8
  <2>3. Pending[k] = atCmdQueue[(currentCmd + k - 1) % ATCOMMAND_EXEC_CMD_QUEUE]
    BY DEF Pending
  <2>. QED
    BY <2>2, <2>3, ModFacts
<1>3. commandCount > 0 => Restored(CurrentSlot) \in Slot
  <2> SUFFICES ASSUME commandCount > 0 PROVE Restored(CurrentSlot) \in Slot
    OBVIOUS
  <2>1. CurrentSlot.repCount + (tried - InFlight) \in Uint8
    <3>1. CurrentSlot.repCount + tried - InFlight \in Uint8
      BY DEF IInv, TriesInv
    <3>. QED
      BY <1>1, <3>1 DEF Slot, Uint8
  <2>2. tried - InFlight \in Int
    BY <1>1
  <2>3. [CurrentSlot EXCEPT !.repCount = @ + (tried - InFlight)] \in Slot
    BY <1>1, <2>1, <2>2, RestoredFacts
  <2>4. Restored(CurrentSlot) = [CurrentSlot EXCEPT !.repCount = @ + (tried - InFlight)]
    BY <1>1 DEF Restored, Slot, Uint8
  <2>. QED
    BY <2>3, <2>4
<1>4. \A k \in 1..commandCount :
        (IF k = 1 THEN Restored(CurrentSlot) ELSE Pending[k]) \in Slot
  BY <1>1, <1>2, <1>3
<1>5. Todo \in Seq(Slot) /\ Len(Todo) = commandCount
  BY <1>1, <1>4 DEF Todo
<1>6. commandCount = 0 => Todo = <<>>
  BY <1>5
<1>7. commandCount > 0 => Todo # <<>> /\ Head(Todo) = Todo[1] /\ Todo[1] = Restored(CurrentSlot)
  BY <1>1, <1>5 DEF Todo
<1>8. \A k \in 2..commandCount : Todo[k] = atCmdQueue[currentCmd + k - 1]
  BY <1>1, <1>2 DEF Todo
<1>. QED
  BY <1>5, <1>6, <1>7, <1>8 DEF TodoShape

LEMMA TodoHasShapeNext == IInv' => TodoShape'
BY TodoHasShape, PTL

\* Nothing leaves or joins the queue, and the first command keeps what it is
\* restored to.
LEMMA TodoKept ==
  ASSUME TodoShape, TodoShape', commandCount \in Nat,
         UNCHANGED <<currentCmd, commandCount>>,
         commandCount > 0 => Restored(CurrentSlot)' = Restored(CurrentSlot),
         \A k \in 2..commandCount :
            atCmdQueue'[currentCmd + k - 1] = atCmdQueue[currentCmd + k - 1]
  PROVE  Todo' = Todo
<1>1. Todo \in Seq(Slot) /\ Todo' \in Seq(Slot) /\ Len(Todo) = commandCount
      /\ Len(Todo') = commandCount
  BY DEF TodoShape
<1>2. ASSUME NEW k \in 1..commandCount PROVE Todo'[k] = Todo[k]
  <2>1. CASE k = 1
    BY <1>2, <2>1 DEF TodoShape
  <2>2. CASE k # 1
    BY <1>2, <2>2 DEF TodoShape
  <2>. QED
    BY <2>1, <2>2
<1>. QED
  BY <1>1, <1>2, SeqEqual

\* The first command leaves the queue.
LEMMA TodoAdvanced ==
  ASSUME IInv, IInv', commandCount > 0, Advance, tried' = 0, InFlight' = 0,
         \A i \in Index : i # currentCmd => atCmdQueue'[i] = atCmdQueue[i]
  PROVE  Todo' = Tail(Todo)
<1>1. /\ commandCount \in Uint8 /\ commandCount' = commandCount - 1
      /\ currentCmd \in Index /\ lastCmd \in Index
      /\ lastCmd = currentCmd + commandCount - 1
      /\ commandCount > 1 => currentCmd' = currentCmd + 1
  BY WindowFacts DEF Advance
<1>2. /\ TodoShape /\ TodoShape'
      /\ Todo \in Seq(Slot) /\ Todo # <<>> /\ Len(Todo) = commandCount
      /\ Todo' \in Seq(Slot) /\ Len(Todo') = commandCount - 1
  BY <1>1, TodoHasShape, TodoHasShapeNext DEF TodoShape
<1>3. /\ Tail(Todo) \in Seq(Slot) /\ Len(Tail(Todo)) = commandCount - 1
      /\ \A k \in 1..(commandCount - 1) : Tail(Todo)[k] = Todo[k + 1]
  BY <1>2, HeadTailProperties
<1>4. ASSUME NEW k \in 1..(commandCount - 1) PROVE Todo'[k] = Todo[k + 1]
  <2>1. /\ commandCount > 1 /\ k + 1 \in 2..commandCount
        /\ currentCmd + k \in Index /\ currentCmd + k # currentCmd
    BY <1>1 DEF Uint8, Index
  <2>2. Todo[k + 1] = atCmdQueue[currentCmd + k]
    <3>1. Todo[k + 1] = atCmdQueue[currentCmd + (k + 1) - 1]
      BY <1>2, <2>1 DEF TodoShape
    <3>2. currentCmd + (k + 1) - 1 = currentCmd + k
      BY <1>1 DEF Index
    <3>. QED
      BY <3>1, <3>2
  <2>3. CASE k = 1
    <3>1. CurrentSlot' = atCmdQueue'[currentCmd + 1] /\ CurrentSlot' \in Slot
      BY <1>1, <2>1, CurrentSlotType DEF CurrentSlot, IInv, TypeOK, QueueTypeOK
    <3>2. Restored(CurrentSlot)' = CurrentSlot'
      <4>1. (Restored(CurrentSlot))' = [CurrentSlot' EXCEPT !.repCount = @ + 0 - 0]
        BY DEF Restored
      <4>2. CurrentSlot'.repCount + 0 - 0 = CurrentSlot'.repCount
        BY <3>1 DEF Slot, Uint8
      <4>. QED
        BY <3>1, <4>1, <4>2 DEF Slot
    <3>3. Todo'[1] = Restored(CurrentSlot)'
      BY <1>1, <1>2, <2>1 DEF TodoShape
    <3>. QED
      BY <2>1, <2>2, <2>3, <3>1, <3>2, <3>3
  <2>4. CASE k # 1
    <3>1. k \in 2..commandCount'
      BY <1>1, <2>1, <2>4
    <3>2. Todo'[k] = atCmdQueue'[currentCmd' + k - 1]
      BY <1>2, <3>1 DEF TodoShape
    <3>3. currentCmd' + k - 1 = currentCmd + k
      BY <1>1, <2>1 DEF Index
    <3>. QED
      BY <2>1, <2>2, <3>2, <3>3
  <2>. QED
    BY <2>3, <2>4
<1>. QED
  BY <1>2, <1>3, <1>4, SeqEqual

-------------------------------------------------------------------------------
(* Every action of the engine is an action of the abstract queue, or leaves *)
(* what the abstract queue sees as it is.                                   *)

FifoPhase == IF caller = "opening" THEN "idle" ELSE caller

\* The abstract queue sees nothing of the step.
Hidden == UNCHANGED <<FifoPhase, Todo, tried, currentCmdStatus>>

LEMMA HiddenIsStutter == Hidden => UNCHANGED Fifo!vars
BY DEF Hidden, FifoPhase, Fifo!vars

\* With nothing sent, or its answer taken, a slot is restored by its tries.
LEMMA RestoredUntried ==
  ASSUME NEW s \in Slot, tried = 0, InFlight = 0
  PROVE  Restored(s) = s
<1>1. Restored(s) = [s EXCEPT !.repCount = @ + 0 - 0]
  BY DEF Restored
<1>2. s.repCount + 0 - 0 = s.repCount
  BY DEF Slot, Uint8
<1>. QED
  BY <1>1, <1>2 DEF Slot

\* What Restored makes of the fields of the first command.
LEMMA RestoredFields ==
  ASSUME IInv, commandCount > 0
  PROVE  /\ Restored(CurrentSlot).repCount = CurrentSlot.repCount + tried - InFlight
         /\ Restored(CurrentSlot).successStatus = CurrentSlot.successStatus
         /\ InFlight \in {0, 1} /\ tried \in Nat /\ CurrentSlot.repCount \in Uint8
         /\ Head(Todo) = Restored(CurrentSlot) /\ Todo # <<>>
<1>1. CurrentSlot \in Slot /\ CurrentSlot.repCount \in Uint8
  BY WindowFacts
<1>2. Head(Todo) = Restored(CurrentSlot) /\ Todo # <<>>
  BY TodoHasShape DEF TodoShape
<1>. QED
  BY <1>1, <1>2 DEF Restored, Slot, InFlight, IInv, TypeOK

\* Two slots that differ by the repeats used, restored alike.
LEMMA RestoredAlike ==
  ASSUME NEW s \in Slot, NEW m \in Int, NEW n \in Int,
         NEW a \in Int, NEW b \in Int, m + a = n + b
  PROVE  [[s EXCEPT !.repCount = m] EXCEPT !.repCount = @ + a]
           = [[s EXCEPT !.repCount = n] EXCEPT !.repCount = @ + b]
BY DEF Slot

\* Steps that leave the queue, what is under execution and the caller's phase.
LEMMA QuietIsHidden ==
  ASSUME IInv, IInv',
         UNCHANGED <<atCmdQueue, currentCmd, commandCount, currentCmdStatus, tried>>,
         FifoPhase' = FifoPhase, InFlight' = InFlight
  PROVE  Hidden
<1>1. commandCount \in Nat
  BY DEF IInv, TypeOK, QueueTypeOK, Uint8
<1>2. Restored(CurrentSlot)' = Restored(CurrentSlot)
  BY DEF Restored, CurrentSlot
<1>3. TodoShape /\ TodoShape'
  BY TodoHasShape, TodoHasShapeNext
<1>4. Todo' = Todo
  BY <1>1, <1>2, <1>3, TodoKept
<1>. QED
  BY <1>4 DEF Hidden

\* Steps between two empty queues.
LEMMA EmptyIsHidden ==
  ASSUME IInv, IInv', commandCount = 0, commandCount' = 0,
         FifoPhase' = FifoPhase, UNCHANGED currentCmdStatus
  PROVE  Hidden
<1>1. Todo = <<>> /\ Todo' = <<>>
  BY TodoHasShape, TodoHasShapeNext DEF TodoShape
<1>2. tried = 0 /\ tried' = 0
  BY DEF IInv, TriesInv
<1>. QED
  BY <1>1, <1>2 DEF Hidden

LEMMA CallIsHidden == ASSUME IInv, IInv', NEW b \in Batches, Call(b) PROVE Hidden
<1>1. /\ caller = "idle" /\ caller' = "opening" /\ commandCount' = 0
      /\ currentCmdStatus' = NOK_OPER
  BY DEF Call, QueueClear, OutcomeClear
<1>2. commandCount = 0 /\ currentCmdStatus = NOK_OPER
  BY <1>1 DEF IInv, CallerInv
<1>. QED
  BY <1>1, <1>2, EmptyIsHidden DEF FifoPhase

LEMMA RefusedIsHidden == ASSUME IInv, IInv', Refused PROVE Hidden
<1>1. /\ caller = "opening" /\ caller' = "idle" /\ commandCount' = 0
      /\ currentCmdStatus' = NOK_OPER
  BY DEF Refused, QueueInit, QueueClear, OutcomeClear
<1>2. commandCount = 0 /\ currentCmdStatus = NOK_OPER
  BY <1>1 DEF IInv, CallerInv
<1>. QED
  BY <1>1, <1>2, EmptyIsHidden DEF FifoPhase

LEMMA OpenIsOpen == ASSUME IInv, IInv', Open PROVE Fifo!Open
<1>1. caller = "opening" /\ caller' = "filling" /\ UNCHANGED <<tried, currentCmdStatus>>
      /\ commandCount = 0
  BY DEF Open, DelAtCmdHead, outcome, history, IInv, CallerInv
<1>2. commandCount' = 0
  BY <1>1 DEF Open, DelAtCmdHead
<1>3. Todo = <<>> /\ Todo' = <<>>
  BY <1>1, <1>2, TodoHasShape, TodoHasShapeNext DEF TodoShape
<1>. QED
  BY <1>1, <1>3 DEF Fifo!Open

LEMMA CloseIsClose == ASSUME IInv, IInv', Close PROVE Fifo!Close
<1>1. /\ caller = "filling" /\ caller' = "waiting"
      /\ UNCHANGED <<atCmdQueue, currentCmd, commandCount, currentCmdStatus, tried>>
      /\ UNCHANGED <<s_atExecute, modemStatus>>
  BY DEF Close, indices, outcome, engine, flags, history
<1>2. commandCount \in Nat
  BY DEF IInv, TypeOK, QueueTypeOK, Uint8
<1>3. Restored(CurrentSlot)' = Restored(CurrentSlot)
  BY <1>1 DEF Restored, CurrentSlot, InFlight
<1>4. TodoShape /\ TodoShape'
  BY TodoHasShape, TodoHasShapeNext
<1>5. Todo' = Todo
  BY <1>1, <1>2, <1>3, <1>4, TodoKept
<1>. QED
  BY <1>1, <1>5 DEF Fifo!Close

LEMMA ReturnIsFinish == ASSUME IInv, IInv', Return PROVE Fifo!Finish
<1>1. /\ caller = "waiting" /\ caller' = "idle" /\ commandCount = 0
      /\ commandCount' = 0 /\ currentCmdStatus' = 0 /\ UNCHANGED tried
  BY DEF Return, QueueInit, QueueClear, OutcomeClear, NOK_OPER, history
<1>2. Todo = <<>> /\ Todo' = <<>>
  BY <1>1, TodoHasShape, TodoHasShapeNext DEF TodoShape
<1>. QED
  BY <1>1, <1>2 DEF Fifo!Finish

\* What one turn of the loop of add_at_cmd_queue does to the window.
LEMMA AddFacts ==
  ASSUME IInv, IInv', Add
  PROVE  /\ Head(batch) \in Offered /\ Stored(Head(batch)) \in Slot
         /\ commandCount \in Uint8 /\ commandCount' = commandCount + 1
         /\ currentCmd = 0 /\ currentCmd' = 0 /\ commandCount \in Index
         /\ atCmdQueue \in [Index -> Slot]
         /\ atCmdQueue' = [atCmdQueue EXCEPT ![commandCount] = Stored(Head(batch))]
         /\ tried = 0 /\ tried' = 0 /\ InFlight = 0 /\ InFlight' = 0
         /\ UNCHANGED <<caller, currentCmdStatus>> /\ caller = "filling"
<1>1. /\ caller = "filling" /\ batch # <<>> /\ AddAtCmd(Head(batch))
      /\ UNCHANGED <<firstCmd, currentCmd, caller, currentCmdStatus, tried,
                     s_atExecute, modemStatus>>
  BY DEF Add, AddAtCmd, outcome, engine, flags, history
<1>2. tried = 0 /\ modemStatus # "IDLE" /\ currentCmd = 0 /\ s_atExecute = FALSE
  BY <1>1 DEF IInv, CallerInv, ExecutingIsQueued, TypeOK
<1>3. /\ Head(batch) \in Offered /\ Stored(Head(batch)) \in Slot
      /\ Len(batch) \in Nat \ {0}
  <2>1. batch \in Seq(Offered)
    BY DEF IInv, TypeOK
  <2>. QED
    BY <1>1, <2>1, BatchFacts, StoredType
<1>4. /\ commandCount \in Uint8 /\ lastCmd \in Index /\ atCmdQueue \in [Index -> Slot]
      /\ commandCount + Len(batch) <= ATCOMMAND_EXEC_CMD_QUEUE
  BY <1>1 DEF IInv, TypeOK, QueueTypeOK, WindowInArray
<1>5. commandCount \in Index /\ commandCount < 255 /\ ~QueueFull
  BY <1>3, <1>4 DEF Index, Uint8, QueueFull
<1>6. TailIndex = commandCount
  <2>1. CASE commandCount = 0
    BY <1>1, <2>1 DEF TailIndex, IInv, CallerInv
  <2>2. CASE commandCount > 0
    <3>1. lastCmd = commandCount - 1 /\ lastCmd + 1 = commandCount
      BY <1>2, <1>4, <2>2 DEF IInv, WindowInArray, Uint8
    <3>. QED
      BY <1>4, <1>5, <2>2, <3>1, IndexFacts DEF TailIndex
  <2>. QED
    BY <1>4, <2>1, <2>2 DEF Uint8
<1>7. /\ commandCount' = commandCount + 1
      /\ atCmdQueue' = [atCmdQueue EXCEPT ![commandCount] = Stored(Head(batch))]
  BY <1>1, <1>4, <1>5, <1>6, Uint8Facts DEF AddAtCmd
<1>. QED
  BY <1>1, <1>2, <1>3, <1>4, <1>5, <1>7 DEF InFlight

LEMMA AddIsPut ==
  ASSUME IInv, IInv', Add
  PROVE  \E c \in {Stored(d) : d \in Offered} : Fifo!Put(c)
<1> DEFINE c == Stored(Head(batch))
<1>1. /\ c \in {Stored(d) : d \in Offered} /\ c \in Slot
      /\ commandCount \in Nat /\ commandCount' = commandCount + 1
      /\ currentCmd = 0 /\ currentCmd' = 0 /\ commandCount \in Index
      /\ atCmdQueue \in [Index -> Slot]
      /\ atCmdQueue' = [atCmdQueue EXCEPT ![commandCount] = c]
      /\ tried = 0 /\ tried' = 0 /\ InFlight = 0 /\ InFlight' = 0
      /\ UNCHANGED <<caller, currentCmdStatus>> /\ caller = "filling"
  BY AddFacts DEF Uint8
<1>2. /\ TodoShape /\ TodoShape'
      /\ Todo \in Seq(Slot) /\ Len(Todo) = commandCount
      /\ Todo' \in Seq(Slot) /\ Len(Todo') = commandCount + 1
  BY <1>1, TodoHasShape, TodoHasShapeNext DEF TodoShape
<1>3. /\ Append(Todo, c) \in Seq(Slot) /\ Len(Append(Todo, c)) = commandCount + 1
      /\ \A k \in 1..commandCount : Append(Todo, c)[k] = Todo[k]
      /\ Append(Todo, c)[commandCount + 1] = c
  BY <1>1, <1>2, AppendProperties
<1>4. ASSUME NEW k \in 1..commandCount PROVE Todo[k] = atCmdQueue[k - 1]
  <2>1. CASE k = 1
    <3>1. CurrentSlot \in Slot /\ CurrentSlot = atCmdQueue[0]
      BY <1>1, CurrentSlotType DEF CurrentSlot, IInv
    <3>2. Restored(CurrentSlot) = CurrentSlot
      BY <1>1, <3>1, RestoredUntried
    <3>. QED
      BY <1>1, <1>2, <1>4, <2>1, <3>1, <3>2 DEF TodoShape
  <2>2. CASE k # 1
    BY <1>1, <1>2, <1>4, <2>2 DEF TodoShape
  <2>. QED
    BY <2>1, <2>2
<1>5. ASSUME NEW k \in 1..(commandCount + 1) PROVE Todo'[k] = atCmdQueue'[k - 1]
  <2>1. CASE k = 1
    <3>1. CurrentSlot' \in Slot /\ CurrentSlot' = atCmdQueue'[0]
      BY <1>1 DEF CurrentSlot, IInv, TypeOK, QueueTypeOK
    <3>2. Restored(CurrentSlot)' = CurrentSlot'
      <4>1. (Restored(CurrentSlot))' = [CurrentSlot' EXCEPT !.repCount = @ + 0 - 0]
        BY <1>1 DEF Restored
      <4>2. CurrentSlot'.repCount + 0 - 0 = CurrentSlot'.repCount
        BY <3>1 DEF Slot, Uint8
      <4>. QED
        BY <3>1, <4>1, <4>2 DEF Slot
    <3>. QED
      BY <1>1, <1>2, <2>1, <3>1, <3>2 DEF TodoShape
  <2>2. CASE k # 1
    BY <1>1, <1>2, <1>5, <2>2 DEF TodoShape
  <2>. QED
    BY <2>1, <2>2
<1>6. ASSUME NEW k \in 1..(commandCount + 1) PROVE Todo'[k] = Append(Todo, c)[k]
  <2>1. CASE k = commandCount + 1
    BY <1>1, <1>3, <1>5, <2>1
  <2>2. CASE k # commandCount + 1
    <3>1. k \in 1..commandCount /\ k - 1 \in Index /\ k - 1 # commandCount
      <4>1. commandCount \in 0..(ATCOMMAND_EXEC_CMD_QUEUE - 1) /\ k \in Int
        BY <1>1 DEF Index
      <4>. QED
        BY <2>2, <4>1 DEF Index
    <3>2. atCmdQueue'[k - 1] = atCmdQueue[k - 1]
      BY <1>1, <3>1
    <3>. QED
      BY <1>3, <1>4, <1>5, <3>1, <3>2
  <2>. QED
    BY <2>1, <2>2
<1>7. Todo' = Append(Todo, c)
  BY <1>2, <1>3, <1>6, SeqEqual
<1>8. Fifo!Put(c)
  BY <1>1, <1>7 DEF Fifo!Put
<1>. QED
  BY <1>1, <1>8

LEMMA ExecuteAtIsTry == ASSUME IInv, IInv', ExecuteAt PROVE Fifo!Try
<1>1. /\ commandCount > 0 /\ cmdQueueWrite = FALSE /\ s_atExecute = FALSE
      /\ modemStatus = "EXECUTE_AT" /\ s_atExecute' = TRUE /\ tried' = tried + 1
      /\ UNCHANGED <<atCmdQueue, currentCmd, commandCount, currentCmdStatus, caller>>
  BY DEF ExecuteAt, indices, outcome, tester, IInv, TypeOK, QueueTypeOK
<1>2. InFlight = 0 /\ InFlight' = 1 /\ caller = "waiting" /\ commandCount \in Nat
  BY <1>1 DEF InFlight, IInv, CallerInv, TypeOK, QueueTypeOK, Uint8
<1>3. /\ Restored(CurrentSlot).repCount = CurrentSlot.repCount + tried
      /\ tried \in Nat /\ CurrentSlot.repCount \in Nat
      /\ Head(Todo) = Restored(CurrentSlot) /\ Todo # <<>>
  <2>1. /\ Restored(CurrentSlot).repCount = CurrentSlot.repCount + tried - 0
        /\ tried \in Nat /\ CurrentSlot.repCount \in Uint8
    BY <1>1, <1>2, RestoredFields
  <2>2. CurrentSlot.repCount \in Nat
    BY <2>1 DEF Uint8
  <2>3. CurrentSlot.repCount + tried - 0 = CurrentSlot.repCount + tried
    BY <2>1, <2>2
  <2>. QED
    BY <1>1, <2>1, <2>2, <2>3, RestoredFields
<1>4. Restored(CurrentSlot)' = Restored(CurrentSlot)
  <2>1. CurrentSlot \in Slot /\ CurrentSlot' = CurrentSlot
    BY <1>1, WindowFacts DEF CurrentSlot
  <2>2. /\ Restored(CurrentSlot) = [CurrentSlot EXCEPT !.repCount = @ + tried - 0]
        /\ (Restored(CurrentSlot))' = [CurrentSlot EXCEPT !.repCount = @ + (tried + 1) - 1]
    BY <1>1, <1>2, <2>1 DEF Restored
  <2>3. CurrentSlot.repCount + tried - 0 = CurrentSlot.repCount + (tried + 1) - 1
    BY <1>3
  <2>. QED
    BY <2>2, <2>3
<1>5. TodoShape /\ TodoShape'
  BY TodoHasShape, TodoHasShapeNext
<1>6. Todo' = Todo
  BY <1>1, <1>2, <1>4, <1>5, TodoKept
<1>7. tried <= Head(Todo).repCount
  BY <1>3
<1>. QED
  BY <1>1, <1>2, <1>3, <1>6, <1>7 DEF Fifo!Try

\* Using up a repeat when its send is no longer in flight leaves the restored
\* command as it was.
LEMMA RepeatKeepsTodo ==
  ASSUME IInv, IInv', commandCount > 0, InFlight = 1, InFlight' = 0,
         CurrentSlot.repCount > 0, atCmdQueue' = RepeatUsed,
         UNCHANGED <<currentCmd, commandCount, tried>>
  PROVE  Todo' = Todo
<1>1. /\ CurrentSlot \in Slot /\ CurrentSlot.repCount \in Uint8 /\ tried \in Nat
      /\ commandCount \in Nat /\ currentCmd \in Index /\ lastCmd \in Index
      /\ lastCmd = currentCmd + commandCount - 1 /\ QueueTypeOK
  BY WindowFacts DEF IInv, TypeOK, QueueTypeOK, Uint8
<1>2. CurrentSlot' = [CurrentSlot EXCEPT !.repCount = CurrentSlot.repCount - 1]
  <2>1. CurrentSlot' = [CurrentSlot EXCEPT !.repCount = Dec8(@)]
    BY <1>1, RepeatUsedType DEF CurrentSlot
  <2>2. Dec8(CurrentSlot.repCount) = CurrentSlot.repCount - 1
    BY <1>1, Uint8Facts
  <2>. QED
    BY <2>1, <2>2
<1>3. Restored(CurrentSlot)' = Restored(CurrentSlot)
  <2>1. /\ Restored(CurrentSlot) = [CurrentSlot EXCEPT !.repCount = @ + tried - 1]
        /\ (Restored(CurrentSlot))' = [CurrentSlot' EXCEPT !.repCount = @ + tried - 0]
    BY DEF Restored
  <2>2. CurrentSlot'.repCount = CurrentSlot.repCount - 1
    BY <1>1, <1>2 DEF Slot
  <2>3. CurrentSlot.repCount + tried - 1 = (CurrentSlot.repCount - 1) + tried - 0
    BY <1>1 DEF Uint8
  <2>4. [CurrentSlot' EXCEPT !.repCount = @ + tried - 0]
          = [CurrentSlot EXCEPT !.repCount = (CurrentSlot.repCount - 1) + tried - 0]
    BY <1>1, <1>2, <2>2 DEF Slot
  <2>. QED
    BY <2>1, <2>3, <2>4
<1>4. ASSUME NEW k \in 2..commandCount
      PROVE  atCmdQueue'[currentCmd + k - 1] = atCmdQueue[currentCmd + k - 1]
  <2>1. currentCmd + k - 1 \in Index /\ currentCmd + k - 1 # currentCmd
    BY <1>1, <1>4 DEF Index
  <2>. QED
    BY <1>1, <2>1, RepeatUsedType
<1>5. TodoShape /\ TodoShape'
  BY TodoHasShape, TodoHasShapeNext
<1>. QED
  BY <1>1, <1>3, <1>4, <1>5, TodoKept

\* What the abstract queue knows of a command that has been sent.
LEMMA SentFacts ==
  ASSUME IInv, s_atExecute = TRUE
  PROVE  /\ InFlight = 1 /\ caller = "waiting" /\ commandCount > 0
         /\ tried \in Nat /\ tried > 0 /\ CurrentSlot.repCount \in Nat
         /\ CurrentSlot.repCount \in Uint8
         /\ Todo # <<>> /\ Head(Todo).repCount = CurrentSlot.repCount + tried - 1
         /\ Head(Todo).successStatus = CurrentSlot.successStatus
<1>1. InFlight = 1 /\ caller = "waiting" /\ commandCount > 0 /\ tried > 0
  BY DEF InFlight, IInv, ExecutingIsQueued, TriesInv
<1>2. CurrentSlot.repCount \in Uint8 /\ CurrentSlot.repCount \in Nat
  BY <1>1, WindowFacts DEF Uint8
<1>. QED
  BY <1>1, <1>2, RestoredFields

LEMMA RetryIsRefuse == ASSUME IInv, IInv', RspRetry PROVE Fifo!Refuse
<1>1. /\ RspTaken("ERROR") /\ CurrentSlot.repCount > 0 /\ atCmdQueue' = RepeatUsed
      /\ currentCmdStatus' = 0 /\ modemStatus' = "RSP_WAIT"
      /\ UNCHANGED <<currentCmd, commandCount, tried>>
  BY DEF RspRetry, indices, history, NOK_OPER
<1>2. s_atExecute = TRUE /\ s_atExecute' = FALSE /\ UNCHANGED caller
  BY <1>1, RspTakenFacts
<1>3. InFlight' = 0
  BY <1>1, <1>2 DEF InFlight
<1>4. Todo' = Todo
  BY <1>1, <1>2, <1>3, SentFacts, RepeatKeepsTodo
<1>5. tried <= Head(Todo).repCount
  <2>1. /\ Head(Todo).repCount = CurrentSlot.repCount + tried - 1
        /\ CurrentSlot.repCount \in Nat /\ tried \in Nat
    BY <1>2, SentFacts
  <2>. QED
    BY <1>1, <2>1
<1>. QED
  BY <1>1, <1>2, <1>4, <1>5, SentFacts DEF Fifo!Refuse

LEMMA AbandonIsAbandon == ASSUME IInv, IInv', RspAbandon PROVE Fifo!Abandon
<1>1. /\ RspTaken("ERROR") /\ CurrentSlot.repCount = 0 /\ commandCount' = 0
      /\ currentCmdStatus' = 0 /\ tried' = 0
  BY DEF RspAbandon, QueueInit, QueueClear, OutcomeClear, NOK_OPER
<1>2. s_atExecute = TRUE /\ UNCHANGED caller
  BY <1>1, RspTakenFacts
<1>3. Todo' = <<>>
  BY <1>1, TodoHasShapeNext DEF TodoShape
<1>4. tried = Head(Todo).repCount + 1
  <2>1. Head(Todo).repCount = CurrentSlot.repCount + tried - 1 /\ tried \in Nat
    BY <1>2, SentFacts
  <2>. QED
    BY <1>1, <2>1
<1>. QED
  BY <1>1, <1>2, <1>3, <1>4, SentFacts DEF Fifo!Abandon

LEMMA AcceptIsAccept ==
  ASSUME IInv, IInv', NEW ret, RspAccept(ret) PROVE Fifo!Accept
<1>1. RspTaken(ret) /\ s_atExecute = TRUE /\ commandCount > 0 /\ s_atExecute' = FALSE
      /\ UNCHANGED caller
  BY RspTakenFacts DEF RspAccept
<1>2. /\ Advance /\ tried' = 0 /\ currentCmdStatus' = CurrentSlot.successStatus
      /\ modemStatus' = "RSP_WAIT" /\ UNCHANGED atCmdQueue
  BY <1>1 DEF RspAccept
<1>3. InFlight' = 0
  BY <1>1, <1>2 DEF InFlight
<1>4. Todo' = Tail(Todo)
  BY <1>1, <1>2, <1>3, TodoAdvanced
<1>. QED
  BY <1>1, <1>2, <1>4, SentFacts DEF Fifo!Accept, Fifo!Done

LEMMA WaitIsHidden == ASSUME IInv, IInv', RspWait PROVE Hidden
<1>1. /\ RspTaken("WAIT") /\ modemStatus' = "IDLE"
      /\ UNCHANGED <<atCmdQueue, currentCmd, commandCount, currentCmdStatus, tried>>
  BY DEF RspWait, indices, history
<1>2. s_atExecute = TRUE /\ UNCHANGED caller
  BY <1>1, RspTakenFacts
<1>3. InFlight' = InFlight
  BY <1>1, <1>2 DEF InFlight
<1>. QED
  BY <1>1, <1>2, <1>3, QuietIsHidden DEF FifoPhase

\* A time-out drops the command, or leaves it to be sent again.
LEMMA TimeOutIsGiveUp ==
  ASSUME IInv, IInv', RspWaitTimeOut PROVE Fifo!GiveUp \/ Hidden
<1>1. s_atExecute = TRUE /\ repeatCount = CurrentSlot.repCount
  BY DEF RspWaitTimeOut, IInv, WaitIsTimed, TriesInv, TypeOK
<1>2. /\ InFlight = 1 /\ caller = "waiting" /\ commandCount > 0
      /\ tried \in Nat /\ tried > 0 /\ CurrentSlot.repCount \in Nat
      /\ CurrentSlot.repCount \in Uint8
      /\ Todo # <<>> /\ Head(Todo).repCount = CurrentSlot.repCount + tried - 1
  BY <1>1, SentFacts
<1>3. /\ atCmdQueue' = AfterTimeOut /\ modemStatus' = "EXECUTE_AT"
      /\ UNCHANGED <<caller, currentCmdStatus>>
  BY DEF RspWaitTimeOut, outcome, tester
<1>4. /\ QueueTypeOK /\ currentCmd \in Index
      /\ \A i \in Index : i # currentCmd => atCmdQueue'[i] = atCmdQueue[i]
      /\ CurrentSlot.repCount > 0 =>
           /\ atCmdQueue' = RepeatUsed
           /\ AfterTimeOut[currentCmd].repCount = CurrentSlot.repCount - 1
      /\ CurrentSlot.repCount = 0 => AfterTimeOut[currentCmd].repCount = 0
  <2>1. QueueTypeOK /\ currentCmd \in Index
    BY DEF IInv, TypeOK, QueueTypeOK
  <2>2. CASE CurrentSlot.repCount > 0
    BY <1>1, <1>2, <1>3, <2>1, <2>2, RepeatUsedType, Uint8Facts DEF AfterTimeOut
  <2>3. CASE CurrentSlot.repCount = 0
    BY <1>1, <1>3, <2>1, <2>3 DEF AfterTimeOut, CurrentSlot
  <2>. QED
    BY <1>2, <2>1, <2>2, <2>3
<1>5. Exhausted <=> CurrentSlot.repCount <= 1
  BY <1>2, <1>4 DEF Exhausted
<1>6. InFlight' = 0
  <2>1. repeatCount = 0 => Exhausted
    BY <1>1, <1>5
  <2>2. s_atExecute' = (s_atExecute /\ repeatCount = 0 /\ ~Exhausted)
    BY DEF RspWaitTimeOut
  <2>3. s_atExecute' = FALSE
    BY <2>1, <2>2, Zenon
  <2>. QED
    BY <1>3, <2>3 DEF InFlight
<1>7. CASE Exhausted
  <2>1. Advance /\ tried' = 0
    BY <1>7 DEF RspWaitTimeOut
  <2>2. Todo' = Tail(Todo)
    BY <1>2, <1>4, <1>6, <2>1, TodoAdvanced
  <2>3. tried >= Head(Todo).repCount
    BY <1>2, <1>5, <1>7
  <2>4. Fifo!GiveUp
    BY <1>2, <1>3, <2>1, <2>2, <2>3 DEF Fifo!GiveUp, Fifo!Done
  <2>. QED
    BY <2>4
<1>8. CASE ~Exhausted
  <2>1. UNCHANGED <<currentCmd, commandCount, tried>>
    BY <1>8 DEF RspWaitTimeOut
  <2>2. CurrentSlot.repCount > 0
    BY <1>2, <1>5, <1>8
  <2>3. Todo' = Todo
    BY <1>2, <1>4, <1>6, <2>1, <2>2, RepeatKeepsTodo
  <2>. QED
    BY <1>3, <2>1, <2>3 DEF Hidden, FifoPhase
<1>. QED
  BY <1>7, <1>8

LEMMA QuietStepIsHidden ==
  ASSUME IInv, IInv', RspWaitRecvd \/ Idle \/ TimerExpires \/ UNCHANGED vars
  PROVE  Hidden
<1>1. /\ UNCHANGED <<atCmdQueue, currentCmd, commandCount, currentCmdStatus, tried>>
      /\ UNCHANGED <<caller, s_atExecute>>
  BY DEF RspWaitRecvd, Idle, TimerExpires, vars, queue, indices, outcome, engine,
         flags, tester, history
<1>2. modemStatus' = "IDLE" <=> modemStatus = "IDLE"
  BY DEF RspWaitRecvd, Idle, TimerExpires, vars, engine
<1>3. InFlight' = InFlight
  BY <1>1, <1>2 DEF InFlight
<1>. QED
  BY <1>1, <1>3, QuietIsHidden DEF FifoPhase

\* The engine implements CommandFifo, for every queue size, every list of
\* commands and every answer of the modem: no command of a call is skipped, lost
\* or tried more often than it asks for, and the status is that of the last one
\* accepted.
THEOREM EngineImplementsFifo == Spec => ImplementsFifo
<1>1. Init => Fifo!Init
  <2> SUFFICES ASSUME Init PROVE Fifo!Init
    OBVIOUS
  <2>1. IInv /\ commandCount = 0 /\ caller = "idle" /\ tried = 0 /\ currentCmdStatus = 0
    BY InitIInv DEF Init, QueueZeroed, NOK_OPER
  <2>2. Todo = <<>>
    BY <2>1, TodoHasShape DEF TodoShape
  <2>. QED
    BY <2>1, <2>2 DEF Fifo!Init
<1>2. IInv /\ [Next]_vars => [Fifo!Next]_Fifo!vars
  <2> SUFFICES ASSUME IInv, [Next]_vars PROVE [Fifo!Next]_Fifo!vars
    OBVIOUS
  <2>1. IInv'
    BY Inductive
  <2>2. ASSUME NEW b \in Batches, Call(b) PROVE Hidden
    BY <2>1, <2>2, CallIsHidden
  <2>3. CASE Open
    BY <2>1, <2>3, OpenIsOpen DEF Fifo!Next
  <2>4. CASE Refused
    BY <2>1, <2>4, RefusedIsHidden, HiddenIsStutter
  <2>5. CASE Add
    BY <2>1, <2>5, AddIsPut DEF Fifo!Next
  <2>6. CASE Close
    BY <2>1, <2>6, CloseIsClose DEF Fifo!Next
  <2>7. CASE Return
    BY <2>1, <2>7, ReturnIsFinish DEF Fifo!Next
  <2>8. CASE ExecuteAt
    BY <2>1, <2>8, ExecuteAtIsTry DEF Fifo!Next
  <2>9. CASE RspWaitTimeOut
    BY <2>1, <2>9, TimeOutIsGiveUp, HiddenIsStutter DEF Fifo!Next
  <2>10. CASE RspWaitRecvd \/ Idle \/ TimerExpires \/ UNCHANGED vars
    BY <2>1, <2>10, QuietStepIsHidden, HiddenIsStutter
  <2>11. CASE RspRetry
    BY <2>1, <2>11, RetryIsRefuse DEF Fifo!Next
  <2>12. CASE RspAbandon
    BY <2>1, <2>12, AbandonIsAbandon DEF Fifo!Next
  <2>13. ASSUME NEW ret \in {"CONTINUE", "FINISH"}, RspAccept(ret)
         PROVE  Fifo!Accept
    BY <2>1, <2>13, AcceptIsAccept
  <2>14. CASE RspWait
    BY <2>1, <2>14, WaitIsHidden, HiddenIsStutter
  <2>. QED
    BY <2>2, <2>3, <2>4, <2>5, <2>6, <2>7, <2>8, <2>9, <2>10, <2>11, <2>12, <2>13,
       <2>14, HiddenIsStutter
       DEF Next, Tester, Proceed, Dispatcher, Responder, Fifo!Next
<1>. QED
  BY <1>1, <1>2, EngineInvariant, PTL DEF Spec, ImplementsFifo, Fifo!Spec

-------------------------------------------------------------------------------
(* The result of a call. *)

\* Steps that neither the queue nor the list of the call takes part in.
LEMMA GoalKept ==
  ASSUME GoalInv,
         UNCHANGED <<currentCmd, lastCmd, commandCount, currentCmdStatus, caller,
                     batch, goal, accepted>>,
         commandCount > 0 => \A i \in currentCmd..lastCmd :
            /\ atCmdQueue'[i].atCmd = atCmdQueue[i].atCmd
            /\ atCmdQueue'[i].successStatus = atCmdQueue[i].successStatus
  PROVE  GoalInv'
<1>1. GoalIsLast'
  <2>1. \A k \in 1..Len(batch') : IF k = Len(batch') THEN batch'[k] = goal'
                                                    ELSE Distinct(batch'[k], goal')
    BY DEF GoalInv, GoalIsLast, Distinct
  <2>2. ASSUME commandCount' > 0, NEW i \in currentCmd'..lastCmd'
        PROVE  IF i = lastCmd' /\ batch' = <<>> THEN IsGoal(atCmdQueue[i])'
                                                ELSE Distinct(atCmdQueue'[i], goal')
    BY <2>2 DEF GoalInv, GoalIsLast, IsGoal, Distinct
  <2>. QED
    BY <2>1, <2>2 DEF GoalIsLast
<1>. QED
  BY <1>1 DEF GoalInv, Result

LEMMA GoalCall ==
  ASSUME IInv, NEW b \in Batches, Call(b), IInv' PROVE GoalInv'
<1>1. /\ caller' = "opening" /\ batch' = b /\ goal' = b[Len(b)] /\ accepted' = {}
      /\ commandCount' = 0
  BY DEF Call, QueueClear
<1>2. /\ b \in Seq(Offered) /\ b # <<>> /\ b[Len(b)].successStatus # NOK_OPER
      /\ \A k \in 1..(Len(b) - 1) : Distinct(b[k], b[Len(b)])
  BY BatchFacts, LastAssumption
<1>3. ASSUME NEW k \in 1..Len(b)
      PROVE  IF k = Len(b) THEN b[k] = goal' ELSE Distinct(b[k], goal')
  <2>1. Len(b) \in Nat
    BY <1>2
  <2>2. k # Len(b) => k \in 1..(Len(b) - 1)
    BY <1>3, <2>1
  <2>. QED
    BY <1>1, <1>2, <2>2
<1>4. GoalIsLast'
  BY <1>1, <1>3 DEF GoalIsLast
<1>. QED
  BY <1>1, <1>2, <1>4 DEF GoalInv

LEMMA GoalOpen == ASSUME IInv, GoalInv, Open, IInv' PROVE GoalInv'
<1>1. /\ caller = "opening" /\ caller' = "filling" /\ commandCount = 0
      /\ UNCHANGED <<batch, goal, accepted>>
  BY DEF Open, history, IInv, CallerInv
<1>2. commandCount' = 0
  BY <1>1 DEF Open, DelAtCmdHead
<1>3. GoalIsLast'
  BY <1>1, <1>2 DEF GoalInv, GoalIsLast, Distinct
<1>. QED
  BY <1>1, <1>2, <1>3 DEF GoalInv

LEMMA GoalClose == ASSUME IInv, GoalInv, Close, IInv' PROVE GoalInv'
<1>1. /\ caller = "filling" /\ caller' = "waiting" /\ batch = <<>> /\ batch' = <<>>
      /\ UNCHANGED <<atCmdQueue, currentCmd, lastCmd, commandCount,
                     currentCmdStatus, goal, accepted>>
  BY DEF Close, indices, outcome, history
<1>2. currentCmdStatus = NOK_OPER
  BY <1>1 DEF IInv, CallerInv
<1>3. GoalIsLast'
  BY <1>1 DEF GoalInv, GoalIsLast, Distinct, IsGoal
<1>. QED
  BY <1>1, <1>2, <1>3 DEF GoalInv, Result

LEMMA GoalAdd == ASSUME IInv, GoalInv, Add, IInv' PROVE GoalInv'
<1>1. /\ caller = "filling" /\ caller' = "filling" /\ batch # <<>>
      /\ batch' = Tail(batch) /\ batch \in Seq(Offered)
      /\ UNCHANGED <<goal, accepted>>
  BY DEF Add, history, IInv, TypeOK
<1>2. /\ commandCount \in Nat /\ commandCount' = commandCount + 1
      /\ currentCmd = 0 /\ currentCmd' = 0 /\ commandCount \in Index
      /\ atCmdQueue \in [Index -> Slot]
      /\ atCmdQueue' = [atCmdQueue EXCEPT ![commandCount] = Stored(Head(batch))]
      /\ Head(batch) \in Offered
  BY AddFacts DEF Uint8
<1>3. /\ lastCmd' = commandCount
      /\ commandCount > 0 => lastCmd = commandCount - 1
  BY <1>2 DEF IInv, WindowInArray
<1>4. /\ Len(batch) \in Nat \ {0} /\ Head(batch) = batch[1]
      /\ Len(batch') = Len(batch) - 1
      /\ \A k \in 1..Len(batch') : batch'[k] = batch[k + 1]
      /\ batch' = <<>> <=> Len(batch) = 1
  <2>1. Len(batch) \in Nat \ {0} /\ Head(batch) = batch[1]
    BY <1>1
  <2>2. /\ Len(batch') = Len(batch) - 1 /\ batch' \in Seq(Offered)
        /\ \A k \in 1..Len(batch') : batch'[k] = batch[k + 1]
    BY <1>1, HeadTailProperties
  <2>3. batch' = <<>> <=> Len(batch') = 0
    BY <2>2
  <2>. QED
    BY <2>1, <2>2, <2>3
<1>5. /\ Stored(Head(batch)).atCmd = batch[1].atCmd
      /\ Stored(Head(batch)).successStatus = batch[1].successStatus
  BY <1>2, <1>4, BatchFacts, StoredType
<1>6. \A k \in 1..Len(batch) : IF k = Len(batch) THEN batch[k] = goal
                                                 ELSE Distinct(batch[k], goal)
  BY DEF GoalInv, GoalIsLast
<1>7. ASSUME NEW k \in 1..Len(batch')
      PROVE  IF k = Len(batch') THEN batch'[k] = goal' ELSE Distinct(batch'[k], goal')
  <2>1. k + 1 \in 1..Len(batch) /\ (k = Len(batch') <=> k + 1 = Len(batch))
    BY <1>4, <1>7
  <2>. QED
    BY <1>1, <1>4, <1>6, <1>7, <2>1
<1>8. ASSUME NEW i \in 0..commandCount
      PROVE  IF i = commandCount /\ batch' = <<>> THEN IsGoal(atCmdQueue[i])'
                                                  ELSE Distinct(atCmdQueue'[i], goal')
  <2>1. CASE i = commandCount
    <3>1. atCmdQueue'[i] = Stored(Head(batch))
      BY <1>2, <2>1
    <3>2. IF Len(batch) = 1 THEN batch[1] = goal ELSE Distinct(batch[1], goal)
      BY <1>4, <1>6
    <3>. QED
      BY <1>1, <1>4, <1>5, <2>1, <3>1, <3>2 DEF IsGoal, Distinct
  <2>2. CASE i # commandCount
    <3>1. commandCount > 0 /\ i \in currentCmd..lastCmd
      BY <1>2, <1>3, <1>8, <2>2
    <3>2. i \in Index
      <4>1. commandCount \in 0..(ATCOMMAND_EXEC_CMD_QUEUE - 1)
        BY <1>2 DEF Index
      <4>. QED
        BY <1>8, <4>1 DEF Index
    <3>3. atCmdQueue'[i] = atCmdQueue[i]
      BY <1>2, <2>2, <3>2
    <3>4. Distinct(atCmdQueue[i], goal)
      BY <1>1, <3>1 DEF GoalInv, GoalIsLast
    <3>. QED
      BY <1>1, <2>2, <3>3, <3>4
  <2>. QED
    BY <2>1, <2>2
<1>9. GoalIsLast'
  BY <1>2, <1>3, <1>7, <1>8 DEF GoalIsLast
<1>10. commandCount' > 0
  BY <1>2
<1>. QED
  BY <1>1, <1>9, <1>10 DEF GoalInv

LEMMA GoalIdle ==
  ASSUME IInv', caller' = "idle", commandCount' = 0 PROVE GoalInv'
<1>1. batch' = <<>> /\ Len(batch') = 0
  BY DEF IInv, CallerInv
<1>2. GoalIsLast'
  BY <1>1 DEF GoalIsLast
<1>. QED
  BY <1>2 DEF GoalInv

\* The callback of a slot that has used a repeat still has its text and status.
LEMMA RepeatKeepsNames ==
  ASSUME QueueTypeOK, NEW i \in Index
  PROVE  /\ RepeatUsed[i].atCmd = atCmdQueue[i].atCmd
         /\ RepeatUsed[i].successStatus = atCmdQueue[i].successStatus
<1>1. CASE i = currentCmd
  <2>1. RepeatUsed[i] = [CurrentSlot EXCEPT !.repCount = Dec8(@)]
    BY <1>1, RepeatUsedType
  <2>2. CurrentSlot \in Slot /\ CurrentSlot = atCmdQueue[i]
    BY <1>1 DEF QueueTypeOK, CurrentSlot
  <2>. QED
    BY <2>1, <2>2 DEF Slot
<1>2. CASE i # currentCmd
  BY <1>2, RepeatUsedType
<1>. QED
  BY <1>1, <1>2

\* Before the last command is done with: the status can be cleared.
LEMMA GoalRetry == ASSUME IInv, GoalInv, RspRetry, IInv' PROVE GoalInv'
<1>1. /\ RspTaken("ERROR") /\ atCmdQueue' = RepeatUsed /\ currentCmdStatus' = NOK_OPER
      /\ UNCHANGED <<currentCmd, lastCmd, commandCount, accepted>>
  BY DEF RspRetry, indices, history
<1>2. caller = "waiting" /\ commandCount > 0 /\ UNCHANGED <<caller, batch, goal>>
  BY <1>1, RspTakenFacts
<1>3. QueueTypeOK /\ \A i \in currentCmd..lastCmd : i \in Index
  BY <1>2, WindowFacts DEF IInv, TypeOK, Index
<1>4. \A i \in currentCmd..lastCmd :
        /\ atCmdQueue'[i].atCmd = atCmdQueue[i].atCmd
        /\ atCmdQueue'[i].successStatus = atCmdQueue[i].successStatus
  BY <1>1, <1>3, RepeatKeepsNames
<1>5. GoalIsLast'
  <2>1. ASSUME NEW i \in currentCmd'..lastCmd'
        PROVE  IF i = lastCmd' /\ batch' = <<>> THEN IsGoal(atCmdQueue[i])'
                                                ELSE Distinct(atCmdQueue'[i], goal')
    BY <1>1, <1>2, <1>4, <2>1 DEF GoalInv, GoalIsLast, IsGoal, Distinct
  <2>. QED
    BY <1>2, <2>1 DEF GoalInv, GoalIsLast, Distinct
<1>. QED
  BY <1>1, <1>2, <1>5 DEF GoalInv, Result

LEMMA GoalAbandon == ASSUME IInv, GoalInv, RspAbandon, IInv' PROVE GoalInv'
<1>1. /\ RspTaken("ERROR") /\ commandCount' = 0 /\ currentCmdStatus' = NOK_OPER
      /\ UNCHANGED accepted
  BY DEF RspAbandon, QueueInit, QueueClear, OutcomeClear
<1>2. caller = "waiting" /\ commandCount > 0 /\ UNCHANGED <<caller, batch, goal>>
  BY <1>1, RspTakenFacts
<1>3. GoalIsLast'
  BY <1>1, <1>2 DEF GoalInv, GoalIsLast, Distinct
<1>. QED
  BY <1>1, <1>2, <1>3 DEF GoalInv, Result

\* The first command leaves: what is left of the window still ends with the last
\* command of the call.
LEMMA GoalAdvanced ==
  ASSUME IInv, GoalInv, commandCount > 0, Advance,
         UNCHANGED <<lastCmd, batch, goal>>,
         \A i \in Index : i # currentCmd => atCmdQueue'[i] = atCmdQueue[i]
  PROVE  /\ GoalIsLast' /\ commandCount' = commandCount - 1
         /\ commandCount = 1 <=> currentCmd = lastCmd
<1>1. /\ currentCmd \in Index /\ lastCmd \in Index /\ commandCount \in Uint8
      /\ lastCmd = currentCmd + commandCount - 1
      /\ commandCount' = commandCount - 1
      /\ commandCount > 1 => currentCmd' = currentCmd + 1
  BY WindowFacts DEF Advance
<1>2. ASSUME commandCount' > 0, NEW i \in currentCmd'..lastCmd'
      PROVE  IF i = lastCmd' /\ batch' = <<>> THEN IsGoal(atCmdQueue[i])'
                                              ELSE Distinct(atCmdQueue'[i], goal')
  <2>1. i \in (currentCmd + 1)..lastCmd
    BY <1>1, <1>2 DEF Uint8
  <2>2. i \in Index /\ i # currentCmd /\ i \in currentCmd..lastCmd
    BY <1>1, <2>1 DEF Index
  <2>. QED
    BY <2>2 DEF GoalInv, GoalIsLast, IsGoal, Distinct
<1>3. GoalIsLast'
  BY <1>2 DEF GoalInv, GoalIsLast, Distinct
<1>4. commandCount = 1 <=> currentCmd = lastCmd
  BY <1>1 DEF Uint8, Index
<1>. QED
  BY <1>1, <1>3, <1>4

LEMMA GoalAccept ==
  ASSUME IInv, GoalInv, NEW ret, RspAccept(ret), IInv' PROVE GoalInv'
<1>1. /\ RspTaken(ret) /\ caller = "waiting" /\ commandCount > 0
      /\ UNCHANGED <<caller, batch, goal>>
  BY RspTakenFacts DEF RspAccept
<1>2. /\ Advance /\ UNCHANGED <<lastCmd, atCmdQueue>>
      /\ currentCmdStatus' = CurrentSlot.successStatus
      /\ accepted' = accepted \cup {CurrentSlot.atCmd}
  BY <1>1 DEF RspAccept
<1>3. /\ GoalIsLast' /\ commandCount' = commandCount - 1
      /\ commandCount = 1 <=> currentCmd = lastCmd
  BY <1>1, <1>2, GoalAdvanced
<1>4. batch = <<>> /\ commandCount \in Nat /\ currentCmd \in currentCmd..lastCmd
  <2>1. /\ commandCount \in Uint8 /\ currentCmd \in Index /\ lastCmd \in Index
        /\ lastCmd = currentCmd + commandCount - 1
    BY <1>1, WindowFacts
  <2>2. commandCount \in Nat /\ currentCmd \in currentCmd..lastCmd
    BY <1>1, <2>1 DEF Uint8, Index
  <2>. QED
    BY <1>1, <2>2 DEF IInv, CallerInv
<1>5. goal.atCmd \notin accepted
  BY <1>1 DEF GoalInv
<1>6. IF commandCount = 1 THEN IsGoal(CurrentSlot) ELSE Distinct(CurrentSlot, goal)
  BY <1>1, <1>3, <1>4 DEF GoalInv, GoalIsLast, CurrentSlot
<1>7. CASE commandCount = 1
  <2>1. Result' /\ goal'.atCmd \in accepted' /\ ~(commandCount' > 0)
    BY <1>1, <1>2, <1>3, <1>6, <1>7 DEF IsGoal, Result
  <2>. QED
    BY <1>1, <1>3, <2>1 DEF GoalInv
<1>8. CASE commandCount # 1
  <2>1. ~Result' /\ goal'.atCmd \notin accepted'
    BY <1>1, <1>2, <1>5, <1>6, <1>8 DEF Distinct, Result
  <2>. QED
    BY <1>1, <1>3, <2>1 DEF GoalInv
<1>. QED
  BY <1>7, <1>8

LEMMA GoalTimeOut == ASSUME IInv, GoalInv, RspWaitTimeOut, IInv' PROVE GoalInv'
<1>1. s_atExecute = TRUE /\ caller = "waiting" /\ commandCount > 0
  BY DEF RspWaitTimeOut, IInv, WaitIsTimed, ExecutingIsQueued, TypeOK
<1>2. /\ atCmdQueue' = AfterTimeOut
      /\ UNCHANGED <<caller, batch, goal, accepted, lastCmd, currentCmdStatus>>
  BY DEF RspWaitTimeOut, outcome, tester
<1>3. /\ QueueTypeOK /\ \A i \in currentCmd..lastCmd : i \in Index
      /\ commandCount \in Nat
  <2>1. commandCount \in Uint8 /\ currentCmd \in Index /\ lastCmd \in Index
    BY <1>1, WindowFacts
  <2>2. commandCount \in Nat /\ \A i \in currentCmd..lastCmd : i \in Index
    BY <2>1 DEF Uint8, Index
  <2>. QED
    BY <2>2 DEF IInv, TypeOK
<1>4. ~Result /\ goal.atCmd \notin accepted
  BY <1>1 DEF GoalInv
<1>5. CASE Exhausted
  <2>1. Advance
    BY <1>5 DEF RspWaitTimeOut
  <2>2. \A i \in Index : i # currentCmd => atCmdQueue'[i] = atCmdQueue[i]
    BY <1>2, <1>3, RepeatUsedType DEF AfterTimeOut
  <2>3. GoalIsLast'
    BY <1>1, <1>2, <2>1, <2>2, GoalAdvanced
  <2>. QED
    BY <1>1, <1>2, <1>4, <2>3 DEF GoalInv, Result
<1>6. CASE ~Exhausted
  <2>1. UNCHANGED <<currentCmd, commandCount>>
    BY <1>6 DEF RspWaitTimeOut
  <2>2. \A i \in currentCmd..lastCmd :
          /\ atCmdQueue'[i].atCmd = atCmdQueue[i].atCmd
          /\ atCmdQueue'[i].successStatus = atCmdQueue[i].successStatus
    BY <1>2, <1>3, RepeatKeepsNames DEF AfterTimeOut
  <2>. QED
    BY <1>2, <2>1, <2>2, GoalKept
<1>. QED
  BY <1>5, <1>6

LEMMA GoalQuiet ==
  ASSUME IInv, GoalInv, IInv',
         ExecuteAt \/ RspWaitRecvd \/ Idle \/ TimerExpires \/ RspWait \/ UNCHANGED vars
  PROVE  GoalInv'
<1>1. UNCHANGED <<atCmdQueue, currentCmd, lastCmd, commandCount, currentCmdStatus,
                  caller, batch, goal, accepted>>
  BY DEF ExecuteAt, RspWaitRecvd, Idle, TimerExpires, RspWait, RspTaken, vars, queue,
         indices, outcome, tester, history
<1>. QED
  BY <1>1, GoalKept

\* Until the last command of a call is done with, neither the status nor the
\* history of accepted commands tells of it; from then on both tell the same.
THEOREM StatusTellsGoal == Spec => []GoalInv
<1>1. Init => GoalInv
  <2> SUFFICES ASSUME Init PROVE GoalInv
    OBVIOUS
  <2>1. batch = <<>> /\ Len(batch) = 0 /\ commandCount = 0 /\ caller = "idle"
    BY DEF Init, QueueZeroed
  <2>. QED
    BY <2>1 DEF GoalInv, GoalIsLast
<1>2. IInv /\ GoalInv /\ [Next]_vars => GoalInv'
  <2> SUFFICES ASSUME IInv, GoalInv, [Next]_vars PROVE GoalInv'
    OBVIOUS
  <2>1. IInv'
    BY Inductive
  <2>2. ASSUME NEW b \in Batches, Call(b) PROVE GoalInv'
    BY <2>1, <2>2, GoalCall
  <2>3. CASE Open
    BY <2>1, <2>3, GoalOpen
  <2>4. CASE Refused \/ Return
    BY <2>1, <2>4, GoalIdle DEF Refused, Return, QueueInit, QueueClear
  <2>5. CASE Add
    BY <2>1, <2>5, GoalAdd
  <2>6. CASE Close
    BY <2>1, <2>6, GoalClose
  <2>7. CASE RspWaitTimeOut
    BY <2>1, <2>7, GoalTimeOut
  <2>8. CASE RspRetry
    BY <2>1, <2>8, GoalRetry
  <2>9. CASE RspAbandon
    BY <2>1, <2>9, GoalAbandon
  <2>10. ASSUME NEW ret \in {"CONTINUE", "FINISH"}, RspAccept(ret) PROVE GoalInv'
    BY <2>1, <2>10, GoalAccept
  <2>11. CASE ExecuteAt \/ RspWaitRecvd \/ Idle \/ TimerExpires \/ RspWait
              \/ UNCHANGED vars
    BY <2>1, <2>11, GoalQuiet
  <2>. QED
    BY <2>2, <2>3, <2>4, <2>5, <2>6, <2>7, <2>8, <2>9, <2>10, <2>11
       DEF Next, Tester, Proceed, Dispatcher, Responder
<1>. QED
  BY <1>1, <1>2, EngineInvariant, PTL DEF Spec

\* The result a call returns tells whether its last command was accepted during
\* it, for every list whose last command alone has its text and its status.
THEOREM ResultTellsLast == Spec => ResultIsLast
<1>1. GoalInv => (Return => (Result <=> goal.atCmd \in accepted))
  BY DEF GoalInv, Return
<1>. QED
  BY <1>1, StatusTellsGoal, PTL DEF Spec, ResultIsLast
===============================================================================
