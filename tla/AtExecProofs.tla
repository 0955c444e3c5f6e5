----------------------------- MODULE AtExecProofs -----------------------------
(***************************************************************************)
(* Proofs about the command engine under the pre-emptive scheduler, for    *)
(* every queue size, every list of commands, every answer of the modem and *)
(* every tick.  The types hold whatever a tick cuts.  With the passes of    *)
(* the dispatcher and of the response processor whole, the flags tell      *)
(* which command is under execution, only queued commands are sent, and no *)
(* more often than their repeats allow; with a faithful modem besides, a   *)
(* call that reports success has been granted.                             *)
(***************************************************************************)
EXTENDS AtExec, AtQueueProofs

(* Types. *)

ModemStatus == {"EXECUTE_AT", "RSP_WAIT", "IDLE"}
PlaceTypes == running \in Thread /\ DOMAIN pc = Thread /\ \A t \in Thread : pc[t] \in Labels[t]
FlagTypes == /\ modemStatus \in ModemStatus
             /\ s_atExecute \in BOOLEAN /\ modemRspWait \in BOOLEAN /\ responseRecvd \in BOOLEAN
             /\ delayTimerStart \in BOOLEAN /\ timeOutFlag \in BOOLEAN
             /\ rspRxPtr \in BOOLEAN /\ turned \in BOOLEAN
             /\ respTimeOut \in Delay \cup {0}
TextTypes == /\ responseRecvBuffer \in Text /\ inbox \in Text
             /\ air \in Seq(Text) /\ spoken \in 0..MaxUnsolicited
LocalTypes == /\ reg \in [Thread -> Uint8 \X Uint8] /\ cmd \in Slot /\ goal \in Slot
              /\ batch \in Seq(Queued) /\ granted \subseteq Cmd
DataTypes == QueueTypeOK /\ FlagTypes /\ TextTypes /\ LocalTypes

LEMMA TypesSplit == TypeOK <=> PlaceTypes /\ DataTypes
  BY DEF TypeOK, PlaceTypes, DataTypes, FlagTypes, TextTypes, LocalTypes, ModemStatus

LEMMA TypesSplitNext == TypeOK' <=> PlaceTypes' /\ DataTypes'
  BY DEF TypeOK, PlaceTypes, DataTypes, FlagTypes, TextTypes, LocalTypes, ModemStatus

\* The tester's loop has a command to add when it stores one.
AddInv == Adding => batch # <<>>

LEMMA IndexIsByte == Index \subseteq Uint8 /\ 0 \in Uint8
  BY QueueSizeAssumption DEF Index, Uint8

LEMMA QueuedAreCommands == Queued \subseteq Command /\ Command \subseteq Slot
<1>1. Queued \subseteq Command
  <2> SUFFICES ASSUME NEW b \in Batches, NEW i \in 1..Len(b) PROVE b[i] \in Command
    BY DEF Queued
  <2>1. b \in Seq(Command)
    BY BatchesAssumption
  <2>. QED
    BY <2>1
<1>2. Command \subseteq Slot
  BY DEF Command, Slot
<1>. QED
  BY <1>1, <1>2

LEMMA SlotFacts ==
  ASSUME NEW s \in Slot
  PROVE  /\ s.atCmd \in Cmd \cup {NoCmd} /\ s.rspFunc \in RspFunc \cup {NoFunc}
         /\ s.repCount \in Uint8 /\ s.rspDelay \in Delay \cup {0} /\ s.successStatus \in Status
  BY DEF Slot

LEMMA CurrentSlotType == ASSUME QueueTypeOK PROVE CurrentSlot \in Slot /\ currentCmd \in Uint8
  BY IndexIsByte DEF QueueTypeOK, CurrentSlot

LEMMA EmptySeq == \A S : <<>> \in Seq(S)
  OBVIOUS

LEMMA InitTypes == Init => TypeOK
<1> SUFFICES ASSUME Init PROVE TypeOK
  OBVIOUS
<1>1. QueueTypeOK
  <2>1. 0 \in Uint8 /\ NOK_OPER \in Status /\ "CONTINUE" \in Rsp
    BY DEF Uint8, Rsp, Status, NOK_OPER
  <2>. QED
    BY <2>1, EmptySlotType, IndexFacts DEF Init, QueueZeroed, QueueTypeOK
<1>2. PlaceTypes
  <2>1. DOMAIN pc = Thread /\ running \in Thread
    BY DEF Init, Thread
  <2>2. pc["T"] \in Labels["T"] /\ pc["D"] \in Labels["D"] /\ pc["R"] \in Labels["R"]
    BY DEF Init, Labels
  <2>. QED
    BY <2>1, <2>2 DEF PlaceTypes, Thread
<1>3. FlagTypes
  BY DEF Init, FlagTypes, ModemStatus
<1>4. TextTypes
  <2>1. "" \in Text
    BY DEF Text
  <2>2. 0 \in 0..MaxUnsolicited
    BY UnsolicitedAssumption
  <2>. QED
    BY <2>1, <2>2, EmptySeq DEF Init, TextTypes
<1>5. LocalTypes
  <2>1. reg \in [Thread -> Uint8 \X Uint8]
    BY IndexIsByte DEF Init
  <2>2. batch \in Seq(Queued) /\ granted \subseteq Cmd
    BY EmptySeq DEF Init
  <2>3. cmd \in Slot /\ goal \in Slot
    BY EmptySlotType DEF Init
  <2>. QED
    BY <2>1, <2>2, <2>3 DEF LocalTypes
<1>. QED
  BY <1>1, <1>2, <1>3, <1>4, <1>5, TypesSplit DEF DataTypes

\* A thread's statement moves that thread alone.
LEMMA Moves ==
  ASSUME PlaceTypes, NEW t \in Thread, NEW a, NEW b, Go(t, a, b)
  PROVE  /\ running = t /\ running' = t /\ pc[t] = a /\ pc'[t] = b /\ DOMAIN pc' = Thread
         /\ \A s \in Thread : s # t => pc'[s] = pc[s]
         /\ b \in Labels[t] => PlaceTypes'
  BY DEF PlaceTypes, Go

LEMMA TurnedType ==
  ASSUME FlagTypes, NEW t, NEW a, NEW b, Go(t, a, b) PROVE turned' \in BOOLEAN
  BY DEF FlagTypes, Go

(* Each operator keeps the types of the data, whatever the thread and the statement. *)

USE DEF DataTypes

LEMMA TestTypes ==
  ASSUME DataTypes, NEW t, NEW a, NEW b, Test(t, a, b) PROVE DataTypes'
<1>1. turned' \in BOOLEAN
  BY TurnedType DEF Test, Step
<1>. QED
  BY <1>1 DEF Test, Step, data, modem, queue, indices, outcome, engine, timer, local, QueueTypeOK,
     CurrentSlot, FlagTypes, TextTypes, LocalTypes

\* What a statement leaves alone.
LEMMA SameQueue == ASSUME QueueTypeOK, UNCHANGED queue PROVE QueueTypeOK'
  BY DEF queue, indices, outcome, QueueTypeOK
LEMMA SameText ==
  ASSUME TextTypes, UNCHANGED <<responseRecvBuffer, modem>> PROVE TextTypes'
  BY DEF TextTypes, modem
LEMMA SameLocal ==
  ASSUME LocalTypes, UNCHANGED <<reg, cmd, batch, goal, granted>> PROVE LocalTypes'
  BY DEF LocalTypes
LEMMA SameFlags ==
  ASSUME FlagTypes, UNCHANGED <<engine, timer, rspRxPtr>>, NEW t, NEW a, NEW b, Go(t, a, b)
  PROVE  FlagTypes'
<1>1. turned' \in BOOLEAN
  BY TurnedType
<1>. QED
  BY <1>1 DEF FlagTypes, engine, timer

LEMMA InitQueueTypes ==
  ASSUME DataTypes, NEW t, InitQueue(t) PROVE DataTypes'
<1>1. QueueTypeOK'
  <2>1. 0 \in Uint8 /\ NOK_OPER \in Status /\ "ERROR" \in Rsp
    BY DEF Uint8, Rsp, Status, NOK_OPER
  <2>. QED
    BY <2>1, EmptySlotType, IndexFacts
       DEF InitQueue, OutcomeClear, QueueTypeOK, indices, outcome
<1>2. TextTypes' /\ LocalTypes'
  BY SameText, SameLocal DEF InitQueue, Step, local
<1>3. FlagTypes'
  BY SameFlags DEF InitQueue, Step, local
<1>. QED
  BY <1>1, <1>2, <1>3

LEMMA LoadTypes ==
  ASSUME LocalTypes, NEW t, NEW i \in Uint8, NEW v \in Uint8, Load(t, i, v)
  PROVE  reg' \in [Thread -> Uint8 \X Uint8]
<1>1. <<i, v>> \in Uint8 \X Uint8
  OBVIOUS
<1>. QED
  BY <1>1 DEF LocalTypes, Load

LEMMA OperandType ==
  ASSUME LocalTypes, NEW t \in Thread PROVE Operand(t) \in Uint8 /\ reg[t][1] \in Uint8
  BY DEF LocalTypes, Operand

\* The slots when one's repeats are stored.
LEMMA RepeatsStored ==
  ASSUME QueueTypeOK, NEW i, NEW n \in Uint8
  PROVE  [atCmdQueue EXCEPT ![i].repCount = n] \in [Index -> Slot]
<1>1. \A j \in Index : [atCmdQueue[j] EXCEPT !.repCount = n] \in Slot
  BY DEF QueueTypeOK, Slot
<1>. QED
  BY <1>1 DEF QueueTypeOK

LEMMA UseRepeatTypes ==
  ASSUME DataTypes, NEW t \in Thread, NEW b, UseRepeat(t, b) PROVE DataTypes'
<1>1. QueueTypeOK' /\ reg' \in [Thread -> Uint8 \X Uint8]
  <2>1. CASE Step(t, "repeat", "repeat_store") /\ Load(t, currentCmd, CurrentSlot.repCount)
             /\ UNCHANGED atCmdQueue
    <3>1. CurrentSlot.repCount \in Uint8 /\ currentCmd \in Uint8
      BY CurrentSlotType, SlotFacts
    <3>2. QueueTypeOK'
      BY <2>1, SameQueue DEF UseRepeat, queue, indices
    <3>. QED
      BY <2>1, <3>1, <3>2, LoadTypes
  <2>2. CASE /\ atCmdQueue' = [atCmdQueue EXCEPT ![reg[t][1]].repCount = Dec8(Operand(t))]
             /\ Load(t, 0, 0)
    <3>1. Dec8(Operand(t)) \in Uint8
      BY OperandType, Uint8Facts
    <3>2. atCmdQueue' \in [Index -> Slot]
      BY <2>2, <3>1, RepeatsStored
    <3>3. QueueTypeOK'
      BY <3>2 DEF UseRepeat, indices, outcome, QueueTypeOK
    <3>. QED
      BY <2>2, <3>3, LoadTypes, IndexIsByte
  <2>. QED
    BY <2>1, <2>2 DEF UseRepeat
<1>2. LocalTypes'
  BY <1>1 DEF UseRepeat, LocalTypes
<1>3. TextTypes'
  BY SameText DEF UseRepeat, Step
<1>4. FlagTypes'
  BY SameFlags DEF UseRepeat, Step
<1>. QED
  BY <1>1, <1>2, <1>3, <1>4

LEMMA AdvanceQueueTypes ==
  ASSUME DataTypes, NEW t \in Thread, NEW b, AdvanceQueue(t, b) PROVE DataTypes'
<1>1. /\ currentCmd' \in Index /\ commandCount' \in Uint8
      /\ reg' \in [Thread -> Uint8 \X Uint8]
  <2>1. currentCmd \in Index /\ currentCmd \in Uint8 /\ commandCount \in Uint8
    BY IndexIsByte DEF QueueTypeOK
  <2>2. NextIndex(Operand(t)) \in Index /\ Dec8(Operand(t)) \in Uint8
    <3>1. Operand(t) \in Uint8
      BY OperandType
    <3>2. \A n \in Uint8 : NextIndex(n) \in Index
      BY QueueSizeAssumption DEF NextIndex, Uint8, Index
    <3>. QED
      BY <3>1, <3>2, Uint8Facts
  <2>3. CASE UNCHANGED <<currentCmd, commandCount>> /\ Load(t, 0, currentCmd)
    BY <2>1, <2>3, LoadTypes, IndexIsByte
  <2>4. CASE UNCHANGED <<currentCmd, commandCount>> /\ Load(t, 0, commandCount)
    BY <2>1, <2>4, LoadTypes, IndexIsByte
  <2>5. CASE currentCmd' = NextIndex(Operand(t)) /\ UNCHANGED commandCount /\ Load(t, 0, 0)
    BY <2>1, <2>2, <2>5, LoadTypes, IndexIsByte
  <2>6. CASE commandCount' = Dec8(Operand(t)) /\ UNCHANGED currentCmd /\ Load(t, 0, 0)
    BY <2>1, <2>2, <2>6, LoadTypes, IndexIsByte
  <2>. QED
    BY <2>3, <2>4, <2>5, <2>6 DEF AdvanceQueue
<1>2. QueueTypeOK'
  BY <1>1 DEF AdvanceQueue, outcome, QueueTypeOK
<1>3. LocalTypes'
  BY <1>1 DEF AdvanceQueue, LocalTypes
<1>4. TextTypes'
  BY SameText DEF AdvanceQueue, Step
<1>5. FlagTypes'
  BY SameFlags DEF AdvanceQueue, Step
<1>. QED
  BY <1>2, <1>3, <1>4, <1>5

LEMMA StartTimerTypes ==
  ASSUME DataTypes, NEW t, NEW b, StartTimer(t, b) PROVE DataTypes'
<1>1. CurrentSlot.rspDelay \in Delay \cup {0}
  BY CurrentSlotType, SlotFacts
<1>2. turned' \in BOOLEAN
  BY TurnedType DEF StartTimer, Step
<1>3. FlagTypes'
  BY <1>1, <1>2 DEF StartTimer, FlagTypes, engine, local
<1>4. QueueTypeOK' /\ TextTypes' /\ LocalTypes'
  BY SameQueue, SameText, SameLocal DEF StartTimer, Step, local
<1>. QED
  BY <1>3, <1>4

LEMMA StopTimerTypes ==
  ASSUME DataTypes, NEW t, NEW a1, NEW a2, NEW b, StopTimer(t, a1, a2, b) PROVE DataTypes'
<1>2. turned' \in BOOLEAN
  BY TurnedType DEF StopTimer, Step
<1>3. FlagTypes'
  BY <1>2 DEF StopTimer, FlagTypes, engine, local
<1>4. QueueTypeOK' /\ TextTypes' /\ LocalTypes'
  BY SameQueue, SameText, SameLocal DEF StopTimer, Step, local
<1>. QED
  BY <1>3, <1>4

LEMMA SetFlagTypes ==
  ASSUME DataTypes, NEW t, NEW a, NEW b, NEW v \in BOOLEAN,
         SetExecute(t, a, b, v) \/ SetRspWait(t, a, b, v) \/ SetRecvd(t, a, b, v)
  PROVE  DataTypes'
<1>1. turned' \in BOOLEAN
  BY TurnedType DEF SetExecute, SetRspWait, SetRecvd, Step
<1>2. FlagTypes'
  BY <1>1 DEF SetExecute, SetRspWait, SetRecvd, FlagTypes, timer, local
<1>3. QueueTypeOK' /\ TextTypes' /\ LocalTypes'
  BY SameQueue, SameText, SameLocal DEF SetExecute, SetRspWait, SetRecvd, Step, local
<1>. QED
  BY <1>2, <1>3

LEMMA SetStatusTypes ==
  ASSUME DataTypes, NEW t, NEW a, NEW b, NEW v \in ModemStatus, SetStatus(t, a, b, v)
  PROVE  DataTypes'
<1>1. turned' \in BOOLEAN
  BY TurnedType DEF SetStatus, Step
<1>2. FlagTypes'
  BY <1>1 DEF SetStatus, FlagTypes, timer, local
<1>3. QueueTypeOK' /\ TextTypes' /\ LocalTypes'
  BY SameQueue, SameText, SameLocal DEF SetStatus, Step, local
<1>. QED
  BY <1>2, <1>3

LEMMA SetWriteTypes ==
  ASSUME DataTypes, NEW t, NEW a, NEW b, NEW v \in BOOLEAN, SetWrite(t, a, b, v)
  PROVE  DataTypes'
<1>1. QueueTypeOK'
  BY DEF SetWrite, QueueTypeOK, indices, outcome
<1>2. FlagTypes'
  BY SameFlags DEF SetWrite, Step, local
<1>3. TextTypes' /\ LocalTypes'
  BY SameText, SameLocal DEF SetWrite, Step, local
<1>. QED
  BY <1>1, <1>2, <1>3

LEMMA SetOutcomeTypes ==
  ASSUME DataTypes, NEW a, NEW b, NEW v \in Status, SetOutcome(a, b, v)
  PROVE  DataTypes'
<1>1. QueueTypeOK'
  BY DEF SetOutcome, QueueTypeOK, indices
<1>2. FlagTypes'
  BY SameFlags DEF SetOutcome, Step, local
<1>3. TextTypes' /\ LocalTypes'
  BY SameText, SameLocal DEF SetOutcome, Step, local
<1>. QED
  BY <1>1, <1>2, <1>3

(* The steps of each thread. *)

\* Thread t goes from one of its statements to another, and the rest stay.
Alone(t) == /\ running = t /\ running' = t /\ DOMAIN pc' = Thread /\ pc'[t] \in Labels[t]
            /\ \A s \in Thread : s # t => pc'[s] = pc[s]

LEMMA AloneTypes ==
  ASSUME PlaceTypes, NEW t \in Thread, Alone(t) PROVE PlaceTypes'
  BY DEF PlaceTypes, Alone

LEMMA GoAlone ==
  ASSUME PlaceTypes, NEW t \in Thread, NEW a, NEW b, Go(t, a, b), b \in Labels[t]
  PROVE  Alone(t)
  BY Moves DEF Alone

LEMMA InitQueueAlone ==
  ASSUME PlaceTypes, NEW t \in {"T", "R"}, InitQueue(t) PROVE Alone(t)
<1>1. {"slots", "count", "write", "outcome", AfterInit(t)} \subseteq Labels[t]
  <2>1. CASE t = "T"
    <3>1. {"slots", "count", "write", "outcome", "open", "idle"} \subseteq Labels["T"]
      BY DEF Labels
    <3>2. AfterInit(t) = "open" \/ AfterInit(t) = "idle"
      BY <2>1 DEF AfterInit
    <3>. QED
      BY <2>1, <3>1, <3>2
  <2>2. CASE t = "R"
    <3>1. {"slots", "count", "write", "outcome", "status"} \subseteq Labels["R"]
      BY DEF Labels
    <3>2. AfterInit(t) = "status"
      BY <2>2 DEF AfterInit
    <3>. QED
      BY <2>2, <3>1, <3>2
  <2>. QED
    BY <2>1, <2>2
<1>2. PICK a, b : Go(t, a, b) /\ b \in Labels[t]
  BY <1>1 DEF InitQueue, Step
<1>3. t \in Thread
  BY DEF Thread
<1>. QED
  BY <1>2, <1>3, GoAlone

LEMMA UseRepeatAlone ==
  ASSUME PlaceTypes, NEW t \in {"D", "R"}, NEW b \in Labels[t],
         UseRepeat(t, b) \/ AdvanceQueue(t, b) \/ StartTimer(t, b)
  PROVE  Alone(t)
<1>1. {"repeat_store", "current_store", "count_down", "count_store", "start"} \subseteq Labels[t]
  BY DEF Labels
<1>2. PICK c, d : Go(t, c, d) /\ d \in Labels[t]
  BY <1>1 DEF UseRepeat, AdvanceQueue, StartTimer, Step
<1>3. t \in Thread
  BY DEF Thread
<1>. QED
  BY <1>2, <1>3, GoAlone

LEMMA StepAlone ==
  ASSUME PlaceTypes, NEW t \in Thread, NEW a, NEW b \in Labels[t], NEW v,
         \/ Step(t, a, b) \/ Test(t, a, b)
         \/ SetStatus(t, a, b, v) \/ SetExecute(t, a, b, v) \/ SetRspWait(t, a, b, v)
         \/ SetRecvd(t, a, b, v) \/ SetWrite(t, a, b, v)
  PROVE  Alone(t)
<1>1. Go(t, a, b)
  BY DEF Step, Test, SetStatus, SetExecute, SetRspWait, SetRecvd, SetWrite
<1>. QED
  BY <1>1, GoAlone

LEMMA StopAlone ==
  ASSUME PlaceTypes, NEW t \in Thread, NEW a1, NEW a2 \in Labels[t], NEW b \in Labels[t],
         StopTimer(t, a1, a2, b)
  PROVE  Alone(t)
<1>1. Go(t, a1, a2) \/ Go(t, a2, b)
  BY DEF Step, StopTimer
<1>. QED
  BY <1>1, GoAlone

LEMMA TesterAlone ==
  ASSUME PlaceTypes, Tester PROVE Alone("T")
<1>1. "T" \in Thread
  BY DEF Thread
<1>. DEFINE L == Labels["T"]
<1>2. {"idle", "slots", "count", "enter", "more", "count_up", "up_store", "shut", "poll",
       "result"} \subseteq L
  BY DEF Labels
<1>3. CASE InitQueue("T")
  BY <1>3, InitQueueAlone
<1>. HIDE DEF L
<1>4. ASSUME ~InitQueue("T") PROVE \E a, b : Go("T", a, b) /\ b \in L
  BY <1>2, <1>4 DEF Tester, Proceed, SetWrite, Enter, Refused, More, Store, CountUp, Poll, Return,
                    Call, Step, Test
<1>. QED
  BY <1>1, <1>3, <1>4, GoAlone DEF L

LEMMA DispatcherAlone ==
  ASSUME PlaceTypes, Dispatcher PROVE Alone("D")
<1>1. "D" \in Thread
  BY DEF Thread
<1>. DEFINE L == Labels["D"]
<1>2. {"loop", "clear", "not_received", "copy", "repeats", "executing", "send", "arm"} \subseteq L
  BY DEF Labels
<1>3. {"waiting", "sent", "timed_out", "repeat", "not_executing", "drop", "current", "dropped"}
        \subseteq L
  BY DEF Labels
<1>4. {"resume", "not_waiting", "stop", "stopped", "received", "again", "idle_stop",
       "idle_stopped"} \subseteq L
  BY DEF Labels
<1>5. CASE UseRepeat("D", "not_executing") \/ AdvanceQueue("D", "dropped")
           \/ StartTimer("D", "waiting")
  <2>1. "not_executing" \in Labels["D"] /\ "dropped" \in Labels["D"] /\ "waiting" \in Labels["D"]
    BY <1>3
  <2>. QED
    BY <1>5, <2>1, UseRepeatAlone
<1>6. CASE StopTimer("D", "stop", "stopped", "received")
           \/ StopTimer("D", "idle_stop", "idle_stopped", "loop")
  <2>1. /\ "stopped" \in Labels["D"] /\ "received" \in Labels["D"]
        /\ "idle_stopped" \in Labels["D"] /\ "loop" \in Labels["D"]
    BY <1>2, <1>4
  <2>. QED
    BY <1>1, <1>6, <2>1, StopAlone
<1>. HIDE DEF L
<1>7. CASE Dispatch \/ ClearBuffer \/ Copy \/ Repeats \/ (\E a \in Answers \cup {""} : Send(a))
           \/ TimedOut
  <2>1. \E a, b : Go("D", a, b) /\ b \in L
    BY <1>2, <1>3, <1>4, <1>7 DEF Dispatch, ClearBuffer, Copy, Repeats, Send, TimedOut, Step, Test
  <2>. QED
    BY <1>1, <2>1, GoAlone DEF L
<1>8. CASE \/ SetRecvd("D", "not_received", "copy", FALSE)
           \/ SetExecute("D", "executing", "send", TRUE)
           \/ SetRspWait("D", "waiting", "sent", TRUE)
           \/ SetStatus("D", "sent", "loop", "RSP_WAIT")
           \/ SetExecute("D", "not_executing", "drop", FALSE)
           \/ SetExecute("D", "dropped", "resume", FALSE)
           \/ SetStatus("D", "resume", "not_waiting", "EXECUTE_AT")
           \/ SetRspWait("D", "not_waiting", "stop", FALSE)
           \/ Test("D", "received", IF responseRecvd THEN "again" ELSE "loop")
           \/ SetStatus("D", "again", "loop", "EXECUTE_AT")
  <2>1. \E a, b : Go("D", a, b) /\ b \in L
    BY <1>2, <1>3, <1>4, <1>8 DEF SetRecvd, SetExecute, SetRspWait, SetStatus, Step, Test
  <2>. QED
    BY <1>1, <2>1, GoAlone DEF L
<1>. QED
  BY <1>5, <1>6, <1>7, <1>8, Zenon DEF Dispatcher

LEMMA ResponderAlone ==
  ASSUME PlaceTypes, Responder PROVE Alone("R")
<1>1. "R" \in Thread
  BY DEF Thread
<1>. DEFINE L == Labels["R"]
<1>2. {"loop", "urc", "test", "taken", "set_received", "not_waiting", "stop", "stopped",
       "callback", "invoke", "switch"} \subseteq L
  BY DEF Labels
<1>3. {"error", "repeat", "nok", "slots", "accept", "succeed", "current", "status", "wait",
       "arm"} \subseteq L
  BY DEF Labels
<1>4. CASE InitQueue("R")
  BY <1>4, InitQueueAlone
<1>5. CASE UseRepeat("R", "nok") \/ AdvanceQueue("R", "status") \/ StartTimer("R", "loop")
  <2>1. "nok" \in Labels["R"] /\ "status" \in Labels["R"] /\ "loop" \in Labels["R"]
    BY <1>2, <1>3
  <2>. QED
    BY <1>5, <2>1, UseRepeatAlone
<1>6. CASE StopTimer("R", "stop", "stopped", "callback")
  <2>1. "stopped" \in Labels["R"] /\ "callback" \in Labels["R"]
    BY <1>2
  <2>. QED
    BY <1>1, <1>6, <2>1, StopAlone
<1>. HIDE DEF L
<1>7. CASE Receive \/ Urc \/ Callback \/ Switch
  <2>1. \E a, b : Go("R", a, b) /\ b \in L
    BY <1>2, <1>3, <1>7 DEF Receive, Urc, Callback, Switch, Step, Test
  <2>. QED
    BY <1>1, <2>1, GoAlone DEF L
<1>8. CASE \/ Test("R", "test", IF s_atExecute THEN "taken" ELSE "loop")
           \/ SetExecute("R", "taken", "set_received", FALSE)
           \/ SetRecvd("R", "set_received", "not_waiting", TRUE)
           \/ SetRspWait("R", "not_waiting", "stop", FALSE)
           \/ Test("R", "callback", IF CurrentSlot.rspFunc # NoFunc THEN "invoke" ELSE "loop")
           \/ Test("R", "error", IF CurrentSlot.repCount > 0 THEN "repeat" ELSE "slots")
           \/ SetOutcome("nok", "status", NOK_OPER)
           \/ Test("R", "accept", IF commandCount > 0 THEN "succeed" ELSE "status")
           \/ SetOutcome("succeed", "current", CurrentSlot.successStatus)
           \/ SetStatus("R", "status", "loop", "RSP_WAIT")
           \/ SetStatus("R", "wait", "arm", "IDLE")
  <2>1. \E a, b : Go("R", a, b) /\ b \in L
    BY <1>2, <1>3, <1>8 DEF SetRecvd, SetExecute, SetRspWait, SetStatus, SetOutcome, Step, Test
  <2>. QED
    BY <1>1, <2>1, GoAlone DEF L
<1>. QED
  BY <1>4, <1>5, <1>6, <1>7, <1>8, Zenon DEF Responder

LEMMA TailType == ASSUME NEW S, NEW s \in Seq(S), s # <<>> PROVE Tail(s) \in Seq(S)
  OBVIOUS

LEMMA HeadType == ASSUME NEW S, NEW s \in Seq(S), s # <<>> PROVE Head(s) \in S
  OBVIOUS

LEMMA AppendType == ASSUME NEW S, NEW s \in Seq(S), NEW e \in S PROVE Append(s, e) \in Seq(S)
  OBVIOUS

LEMMA TesterTypes ==
  ASSUME DataTypes, AddInv, Tester PROVE DataTypes'
<1>1. "T" \in Thread /\ 0 \in Uint8
  BY IndexIsByte DEF Thread
<1>2. CASE InitQueue("T")
  BY <1>2, InitQueueTypes
<1>3. CASE SetWrite("T", "open", "enter", TRUE)
           \/ SetWrite("T", "shut", IF goal = EmptySlot THEN "slots" ELSE "poll", FALSE)
  BY <1>3, SetWriteTypes
<1>4. CASE Enter
  <2>1. QueueTypeOK'
    BY <1>4, DelAtCmdHeadType DEF Enter
  <2>2. FlagTypes' /\ TextTypes' /\ LocalTypes'
    BY <1>4, SameFlags, SameText, SameLocal DEF Enter, Step, local
  <2>. QED
    BY <2>1, <2>2
<1>5. CASE Refused \/ More \/ Return
  <2>0. batch \in Seq(Queued) /\ (batch # <<>> => Tail(batch) \in Seq(Queued))
    BY TailType DEF LocalTypes
  <2>1. batch' \in Seq(Queued) /\ goal' \in Slot
    BY <1>5, <2>0, EmptySeq, EmptySlotType DEF Refused, More, Return, LocalTypes
  <2>2. LocalTypes'
    BY <1>5, <2>1 DEF Refused, More, Return, LocalTypes
  <2>3. QueueTypeOK' /\ FlagTypes' /\ TextTypes'
    BY <1>5, SameQueue, SameFlags, SameText DEF Refused, More, Return, Step
  <2>. QED
    BY <2>2, <2>3
<1>6. CASE Store
  <2>1. Head(batch) \in Command
    BY <1>6, QueuedAreCommands DEF Store, LocalTypes
  <2>2. TailIndex \in Index
    BY IndexFacts DEF TailIndex, QueueTypeOK
  <2>3. Stored(Head(batch)) \in Slot
    BY <2>1, StoredType
  <2>4. QueueTypeOK'
    BY <1>6, <2>2, <2>3 DEF Store, QueueTypeOK, outcome
  <2>5. FlagTypes' /\ TextTypes' /\ LocalTypes'
    BY <1>6, SameFlags, SameText, SameLocal DEF Store, Step, local
  <2>. QED
    BY <2>4, <2>5
<1>7. CASE CountUp
  <2>1. commandCount \in Uint8
    BY DEF QueueTypeOK
  <2>2. Inc8(Operand("T")) \in Uint8
    BY <1>1, OperandType, Uint8Facts
  <2>3. commandCount' \in Uint8
    BY <1>7, <2>1, <2>2 DEF CountUp
  <2>4. reg' \in [Thread -> Uint8 \X Uint8]
    BY <1>1, <1>7, <2>1, LoadTypes DEF CountUp
  <2>5. batch' \in Seq(Queued)
    <3>1. batch' = batch \/ (batch' = Tail(batch) /\ batch \in Seq(Queued))
      BY <1>7 DEF CountUp, LocalTypes
    <3>2. batch # <<>>
      BY <1>7 DEF CountUp, Step, Go, AddInv, Adding
    <3>. QED
      BY <3>1, <3>2, TailType DEF LocalTypes
  <2>6. LocalTypes'
    BY <1>7, <2>4, <2>5 DEF CountUp, LocalTypes
  <2>7. QueueTypeOK'
    BY <1>7, <2>3 DEF CountUp, QueueTypeOK, indices, outcome
  <2>8. FlagTypes' /\ TextTypes'
    BY <1>7, SameFlags, SameText DEF CountUp, Step
  <2>. QED
    BY <2>6, <2>7, <2>8
<1>8. CASE Poll \/ (~turned /\ Test("T", "idle", "idle"))
  BY <1>8, TestTypes DEF Poll
<1>9. ASSUME NEW b \in Batches, Call(b) PROVE DataTypes'
  <2>1. b \in Seq(Queued) /\ b[Len(b)] \in Slot
    <3>1. b \in Seq(Command) /\ b # <<>>
      BY BatchesAssumption
    <3>2. Len(b) \in 1..Len(b) /\ \A i \in 1..Len(b) : b[i] \in Queued
      BY <3>1 DEF Queued
    <3>. QED
      BY <3>1, <3>2, QueuedAreCommands
  <2>2. LocalTypes'
    BY <1>9, <2>1 DEF Call, LocalTypes
  <2>3. QueueTypeOK' /\ FlagTypes' /\ TextTypes'
    BY <1>9, SameQueue, SameFlags, SameText DEF Call, Step
  <2>. QED
    BY <2>2, <2>3
<1>. QED
  BY <1>2, <1>3, <1>4, <1>5, <1>6, <1>7, <1>8, <1>9 DEF Tester, Proceed

LEMMA DispatcherTypes ==
  ASSUME DataTypes, Dispatcher PROVE DataTypes'
<1>1. "D" \in Thread /\ TRUE \in BOOLEAN /\ FALSE \in BOOLEAN
  BY DEF Thread
<1>2. CASE Dispatch \/ TimedOut
           \/ Test("D", "received", IF responseRecvd THEN "again" ELSE "loop")
  BY <1>2, TestTypes DEF Dispatch, TimedOut
<1>3. CASE \/ SetRecvd("D", "not_received", "copy", FALSE)
           \/ SetExecute("D", "executing", "send", TRUE)
           \/ SetRspWait("D", "waiting", "sent", TRUE)
           \/ SetExecute("D", "not_executing", "drop", FALSE)
           \/ SetExecute("D", "dropped", "resume", FALSE)
           \/ SetRspWait("D", "not_waiting", "stop", FALSE)
  BY <1>1, <1>3, SetFlagTypes
<1>4. CASE \/ SetStatus("D", "sent", "loop", "RSP_WAIT")
           \/ SetStatus("D", "resume", "not_waiting", "EXECUTE_AT")
           \/ SetStatus("D", "again", "loop", "EXECUTE_AT")
  BY <1>4, SetStatusTypes DEF ModemStatus
<1>5. CASE UseRepeat("D", "not_executing") \/ AdvanceQueue("D", "dropped")
           \/ StartTimer("D", "waiting")
  BY <1>1, <1>5, UseRepeatTypes, AdvanceQueueTypes, StartTimerTypes
<1>6. CASE StopTimer("D", "stop", "stopped", "received")
           \/ StopTimer("D", "idle_stop", "idle_stopped", "loop")
  BY <1>6, StopTimerTypes
<1>7. CASE ClearBuffer
  <2>1. TextTypes'
    BY <1>7 DEF ClearBuffer, Step, TextTypes, Text, modem
  <2>2. turned' \in BOOLEAN
    BY <1>7, TurnedType DEF ClearBuffer, Step
  <2>3. FlagTypes'
    BY <1>7, <2>2 DEF ClearBuffer, FlagTypes, engine, timer
  <2>4. QueueTypeOK' /\ LocalTypes'
    BY <1>7, SameQueue, SameLocal DEF ClearBuffer
  <2>. QED
    BY <2>1, <2>3, <2>4
<1>8. CASE Copy
  <2>1. LocalTypes'
    BY <1>8, CurrentSlotType DEF Copy, LocalTypes
  <2>2. QueueTypeOK' /\ FlagTypes' /\ TextTypes'
    BY <1>8, SameQueue, SameFlags, SameText DEF Copy, Step
  <2>. QED
    BY <2>1, <2>2
<1>9. CASE Repeats
  <2>1. cmd.repCount \in Uint8
    BY SlotFacts DEF LocalTypes
  <2>2. QueueTypeOK'
    BY <1>9, <2>1 DEF Repeats, QueueTypeOK, indices, outcome
  <2>3. FlagTypes' /\ TextTypes' /\ LocalTypes'
    BY <1>9, SameFlags, SameText, SameLocal DEF Repeats, Step, local
  <2>. QED
    BY <2>2, <2>3
<1>10. ASSUME NEW a \in Answers \cup {""}, Send(a) PROVE DataTypes'
  <2>1. TextTypes'
    <3>1. air' \in Seq(Text)
      BY <1>10, AppendType DEF Send, TextTypes, Text
    <3>. QED
      BY <1>10, <3>1 DEF Send, TextTypes
  <2>2. LocalTypes'
    <3>1. granted' \subseteq Cmd
      <4>1. CASE a = ""
        BY <1>10, <4>1 DEF Send, LocalTypes
      <4>2. CASE a # ""
        <5>1. cmd.atCmd \in Cmd
          BY <1>10, <4>2, SlotFacts DEF Send, LocalTypes
        <5>. QED
          BY <1>10, <5>1 DEF Send, LocalTypes
      <4>. QED
        BY <4>1, <4>2
    <3>. QED
      BY <1>10, <3>1, EmptySlotType DEF Send, LocalTypes
  <2>3. FlagTypes'
    BY <1>10, SameFlags DEF Send
  <2>4. QueueTypeOK'
    BY <1>10, SameQueue DEF Send
  <2>. QED
    BY <2>1, <2>2, <2>3, <2>4
<1>. QED
  BY <1>2, <1>3, <1>4, <1>5, <1>6, <1>7, <1>8, <1>9, <1>10, Zenon DEF Dispatcher

LEMMA ResponderTypes ==
  ASSUME DataTypes, Responder PROVE DataTypes'
<1>1. "R" \in Thread /\ TRUE \in BOOLEAN /\ FALSE \in BOOLEAN
  BY DEF Thread
<1>2. CASE \/ Switch
           \/ Test("R", "test", IF s_atExecute THEN "taken" ELSE "loop")
           \/ Test("R", "callback", IF CurrentSlot.rspFunc # NoFunc THEN "invoke" ELSE "loop")
           \/ Test("R", "error", IF CurrentSlot.repCount > 0 THEN "repeat" ELSE "slots")
           \/ Test("R", "accept", IF commandCount > 0 THEN "succeed" ELSE "status")
  BY <1>2, TestTypes DEF Switch
<1>3. CASE \/ SetExecute("R", "taken", "set_received", FALSE)
           \/ SetRecvd("R", "set_received", "not_waiting", TRUE)
           \/ SetRspWait("R", "not_waiting", "stop", FALSE)
  BY <1>1, <1>3, SetFlagTypes
<1>4. CASE SetStatus("R", "status", "loop", "RSP_WAIT") \/ SetStatus("R", "wait", "arm", "IDLE")
  BY <1>4, SetStatusTypes DEF ModemStatus
<1>5. CASE UseRepeat("R", "nok") \/ AdvanceQueue("R", "status") \/ StartTimer("R", "loop")
  BY <1>1, <1>5, UseRepeatTypes, AdvanceQueueTypes, StartTimerTypes
<1>6. CASE StopTimer("R", "stop", "stopped", "callback") \/ InitQueue("R")
  BY <1>6, StopTimerTypes, InitQueueTypes
<1>7. CASE SetOutcome("nok", "status", NOK_OPER)
           \/ SetOutcome("succeed", "current", CurrentSlot.successStatus)
  <2>1. NOK_OPER \in Status /\ CurrentSlot.successStatus \in Status
    BY CurrentSlotType, SlotFacts DEF Status, NOK_OPER
  <2>. QED
    BY <1>7, <2>1, SetOutcomeTypes
<1>8. CASE Receive
  <2>1. "" \in Text
    BY DEF Text
  <2>2. TextTypes'
    BY <1>8, <2>1 DEF Receive, TextTypes
  <2>3. FlagTypes'
    BY <1>8, SameFlags DEF Receive, local
  <2>4. QueueTypeOK' /\ LocalTypes'
    BY <1>8, SameQueue, SameLocal DEF Receive, local
  <2>. QED
    BY <2>2, <2>3, <2>4
<1>9. CASE Urc
  <2>1. responseRecvBuffer' \in Text
    BY <1>9 DEF Urc, TextTypes, Text
  <2>2. TextTypes'
    BY <1>9, <2>1 DEF Urc, Step, TextTypes, modem
  <2>3. FlagTypes'
    BY <1>9, SameFlags DEF Urc, Step, local
  <2>4. QueueTypeOK' /\ LocalTypes'
    BY <1>9, SameQueue, SameLocal DEF Urc, local
  <2>. QED
    BY <2>2, <2>3, <2>4
<1>10. CASE Callback
  <2>1. CurrentSlot.rspFunc \in RspFunc
    BY <1>10, CurrentSlotType, SlotFacts DEF Callback
  <2>2. currentCmdRet' \in Rsp
    BY <1>10, <2>1, RspOfAssumption DEF Callback, TextTypes, Text
  <2>3. QueueTypeOK'
    BY <1>10, <2>2 DEF Callback, QueueTypeOK, indices
  <2>4. FlagTypes' /\ TextTypes' /\ LocalTypes'
    BY <1>10, SameFlags, SameText, SameLocal DEF Callback, Step, local
  <2>. QED
    BY <2>3, <2>4
<1>. QED
  BY <1>2, <1>3, <1>4, <1>5, <1>6, <1>7, <1>8, <1>9, <1>10, Zenon DEF Responder

LEMMA ModemTypes ==
  ASSUME TypeOK, (\E u \in Unsolicited : Speak(u)) \/ Deliver \/ SysTick \/ TimerExpires
  PROVE  TypeOK'
<1>0. PlaceTypes /\ DataTypes
  BY TypesSplit
<1>1. ASSUME NEW u \in Unsolicited, Speak(u) PROVE PlaceTypes' /\ DataTypes'
  <2>1. air' \in Seq(Text) /\ spoken' \in 0..MaxUnsolicited
    <3>1. air \in Seq(Text) /\ u \in Text /\ spoken \in 0..MaxUnsolicited
      BY <1>0 DEF TextTypes, Text
    <3>2. air' = Append(air, u) /\ spoken < MaxUnsolicited /\ spoken' = spoken + 1
      BY <1>1 DEF Speak
    <3>3. air' \in Seq(Text)
      BY <3>1, <3>2, AppendType
    <3>4. spoken' \in 0..MaxUnsolicited
      BY <3>1, <3>2, UnsolicitedAssumption
    <3>. QED
      BY <3>3, <3>4
  <2>2. TextTypes'
    BY <1>0, <1>1, <2>1 DEF Speak, TextTypes, data
  <2>3. QueueTypeOK' /\ LocalTypes'
    BY <1>0, <1>1, SameQueue, SameLocal DEF Speak, data, local
  <2>4. FlagTypes' /\ PlaceTypes'
    BY <1>0, <1>1 DEF Speak, FlagTypes, PlaceTypes, data, engine, timer, local
  <2>. QED
    BY <2>2, <2>3, <2>4, TypesSplitNext, Zenon
<1>2. CASE Deliver
  <2>1. air' \in Seq(Text) /\ inbox' \in Text
    <3>1. Head(air) \in Text /\ Tail(air) \in Seq(Text)
      <4>1. air \in Seq(Text) /\ air # <<>>
        BY <1>0, <1>2 DEF Deliver, TextTypes
      <4>. QED
        BY <4>1, TailType, HeadType
    <3>. QED
      BY <1>2, <3>1 DEF Deliver
  <2>2. TextTypes'
    BY <1>0, <1>2, <2>1 DEF Deliver, TextTypes, data
  <2>3. QueueTypeOK' /\ LocalTypes'
    BY <1>0, <1>2, SameQueue, SameLocal DEF Deliver, data, local
  <2>4. FlagTypes' /\ PlaceTypes'
    BY <1>0, <1>2 DEF Deliver, FlagTypes, PlaceTypes, data, engine, timer, local
  <2>. QED
    BY <2>2, <2>3, <2>4, TypesSplitNext, Zenon
<1>3. CASE SysTick \/ TimerExpires
  <2>1. Tick
    BY <1>3 DEF SysTick, TimerExpires
  <2>2. running' \in Thread
    BY <1>0, <2>1 DEF Tick, PlaceTypes, Thread, NextThread
  <2>3. PlaceTypes'
    BY <1>0, <2>1, <2>2 DEF Tick, PlaceTypes
  <2>4. FlagTypes'
    BY <1>0, <1>3 DEF SysTick, TimerExpires, Tick, FlagTypes, engine, timer, local
  <2>5. QueueTypeOK' /\ TextTypes' /\ LocalTypes'
    BY <1>0, <2>1, SameQueue, SameText, SameLocal DEF Tick, local
  <2>. QED
    BY <2>3, <2>4, <2>5, TypesSplitNext, Zenon
<1>. QED
  BY <1>1, <1>2, <1>3, TypesSplitNext

\* Nobody but the tester takes commands from its list.
LEMMA OtherLocal ==
  ASSUME Dispatcher \/ Responder
  PROVE  UNCHANGED <<batch, goal>>
<1>1. CASE Dispatcher
  BY <1>1 DEF Dispatcher, Dispatch, ClearBuffer, Copy, Repeats, Send, StartTimer, StopTimer, TimedOut,
     UseRepeat, AdvanceQueue, SetStatus, SetExecute, SetRspWait, SetRecvd, Test, data, local
<1>2. CASE Responder
  BY <1>2 DEF Responder, Receive, Urc, Callback, Switch, SetOutcome, InitQueue, StartTimer, StopTimer,
     UseRepeat, AdvanceQueue, SetStatus, SetExecute, SetRspWait, SetRecvd, Test, data, local
<1>. QED
  BY <1>1, <1>2

LEMMA AddStep == ASSUME TypeOK, AddInv, [Next]_vars PROVE AddInv'
<1>0. PlaceTypes /\ "T" \in Thread
  BY TypesSplit DEF Thread
<1>. USE DEF AddInv, Adding
<1>1. CASE Tester
  BY <1>0, <1>1 DEF Tester, Proceed, InitQueue, AfterInit, SetWrite, Enter, Refused, More, Store, CountUp,
     Poll, Return, Call, Test, Step, Go, PlaceTypes, data, local
<1>2. CASE Dispatcher \/ Responder
  <2>1. pc'["T"] = pc["T"]
    BY <1>0, <1>2, DispatcherAlone, ResponderAlone DEF Alone
  <2>. QED
    BY <1>2, <2>1, OtherLocal
<1>3. CASE (\E u \in Unsolicited : Speak(u)) \/ Deliver \/ SysTick \/ TimerExpires
           \/ UNCHANGED vars
  BY <1>3 DEF Speak, Deliver, SysTick, TimerExpires, Tick, vars, data, local
<1>. QED
  BY <1>1, <1>2, <1>3 DEF Next

LEMMA TypeStep == ASSUME TypeOK, AddInv, [Next]_vars PROVE TypeOK'
<1>0. PlaceTypes /\ DataTypes
  BY TypesSplit
<1>1. \A t \in {"T", "D", "R"} : t \in Thread
  BY DEF Thread
<1>2. CASE Tester
  BY <1>0, <1>1, <1>2, TesterAlone, TesterTypes, AloneTypes, TypesSplitNext
<1>3. CASE Dispatcher
  BY <1>0, <1>1, <1>3, DispatcherAlone, DispatcherTypes, AloneTypes, TypesSplitNext
<1>4. CASE Responder
  BY <1>0, <1>1, <1>4, ResponderAlone, ResponderTypes, AloneTypes, TypesSplitNext
<1>5. CASE (\E u \in Unsolicited : Speak(u)) \/ Deliver \/ SysTick \/ TimerExpires
  BY <1>5, ModemTypes
<1>6. CASE UNCHANGED vars
  <2>1. QueueTypeOK' /\ TextTypes' /\ LocalTypes'
    BY <1>0, <1>6, SameQueue, SameText, SameLocal DEF vars, data, local
  <2>2. FlagTypes' /\ PlaceTypes'
    BY <1>0, <1>6 DEF vars, data, engine, timer, local, FlagTypes, PlaceTypes
  <2>. QED
    BY <2>1, <2>2, TypesSplitNext
<1>. QED
  BY <1>2, <1>3, <1>4, <1>5, <1>6 DEF Next

\* Whatever ticks cut, every byte keeps its width, every thread is at a statement of
\* its own, and only texts of commands are sent.
THEOREM ExecTypes == Spec => []TypeOK
<1>1. Init => TypeOK /\ AddInv
  <2>1. ASSUME Init PROVE AddInv
    <3>1. pc["T"] = "idle"
      BY <2>1 DEF Init
    <3>. QED
      BY <3>1 DEF AddInv, Adding
  <2>. QED
    BY <2>1, InitTypes
<1>2. TypeOK /\ AddInv /\ [Next]_vars => TypeOK' /\ AddInv'
  BY TypeStep, AddStep
<1>. QED
  BY <1>1, <1>2, PTL DEF Spec

(* The passes, when no tick cuts the dispatcher and the response processor. *)

LEMMA TesterPass ==
  ASSUME TypeOK, PassInv, Alone("T")
  PROVE  /\ PassInv' /\ pc["D"] = "loop" /\ pc["R"] = "loop"
         /\ pc'["D"] = "loop" /\ pc'["R"] = "loop" /\ pc["T"] \in Labels["T"]
  BY DEF TypeOK, PassInv, Alone, Thread

LEMMA OtherPass ==
  ASSUME TypeOK, PassInv, NEW t \in {"D", "R"}, Alone(t)
  PROVE  /\ PassInv' /\ pc'["T"] = pc["T"] /\ pc["T"] \in Labels["T"]
         /\ t = "D" => pc["R"] = "loop" /\ pc'["R"] = "loop"
         /\ t = "R" => pc["D"] = "loop" /\ pc'["D"] = "loop"
  BY DEF TypeOK, PassInv, Alone, Thread

LEMMA InitPass == Init => PassInv /\ CallInv /\ WorkInv /\ FlagsInv /\ WindowInv /\ LoadInv
                            /\ RepeatsLeft
<1> SUFFICES ASSUME Init
             PROVE  PassInv /\ CallInv /\ WorkInv /\ FlagsInv /\ WindowInv /\ LoadInv
                      /\ RepeatsLeft
  OBVIOUS
<1>1. pc["T"] = "idle" /\ pc["D"] = "loop" /\ pc["R"] = "loop"
  BY DEF Init
<1>2. ~s_atExecute /\ ~modemRspWait /\ commandCount = 0 /\ batch = <<>>
  BY DEF Init, QueueZeroed
<1>3. PassInv
  BY <1>1 DEF PassInv
<1>4. CallInv
  BY <1>1, <1>2 DEF CallInv, Adding
<1>5. WorkInv
  BY <1>1, <1>2 DEF WorkInv, AtQueueD, AtQueueR
<1>6. FlagsInv
  BY <1>1, <1>2 DEF FlagsInv
<1>7. WindowInv
  BY <1>1, <1>2 DEF WindowInv, Left, Advancing, Adding
<1>8. LoadInv
  BY <1>1 DEF LoadInv
<1>9. RepeatsLeft
  <2> SUFFICES ASSUME NEW i \in Index, NEW c \in Queued, atCmdQueue[i].atCmd = c.atCmd
               PROVE FALSE
    BY DEF RepeatsLeft
  <2>1. atCmdQueue[i].atCmd = NoCmd
    BY DEF Init, QueueZeroed, EmptySlots, EmptySlot
  <2>2. c.atCmd \in Cmd
    BY QueuedAreCommands DEF Command
  <2>. QED
    BY <2>1, <2>2, NamesAssumption
<1>. QED
  BY <1>3, <1>4, <1>5, <1>6, <1>7, <1>8, <1>9

-------------------------------------------------------------------------------
(* The tester. *)

LEMMA TesterKeeps ==
  ASSUME Tester
  PROVE  UNCHANGED <<engine, timer, responseRecvBuffer, rspRxPtr, cmd, modem, repeatCount>>
         \/ (pc["T"] = "slots" /\ UNCHANGED <<engine, timer, responseRecvBuffer, rspRxPtr, cmd, modem>>)
  BY DEF Tester, Proceed, InitQueue, SetWrite, Enter, DelAtCmdHead, Refused, More, Store, CountUp, Poll,
     Return, Call, Test, Step, Go, data, queue, local

\* While the tester polls, it changes nothing.
LEMMA PollKeeps ==
  ASSUME Tester, PlaceTypes, pc["T"] = "poll"
  PROVE  /\ UNCHANGED data /\ pc'["T"] \in {"poll", "result"}
         /\ pc'["T"] = "result" => commandCount = 0
<1>1. Poll
  BY DEF Tester, Proceed, InitQueue, SetWrite, Enter, Refused, More, Store, CountUp, Poll,
     Return, Call, Test, Step, Go
<1>. QED
  BY <1>1 DEF Poll, Test, Step, Go, PlaceTypes, Thread

LEMMA EmptyLength ==
  ASSUME NEW S, NEW s \in Seq(S)
  PROVE  /\ Len(s) \in Nat /\ (Len(s) = 0 <=> s = <<>>)
         /\ s # <<>> => Len(Tail(s)) = Len(s) - 1
  OBVIOUS

LEMMA TesterCalls ==
  ASSUME TypeOK, PassInv, CallInv, WindowInv, LoadInv, Tester
  PROVE  CallInv'
<1>0. PlaceTypes /\ Alone("T")
  BY TypesSplit, TesterAlone
<1>1. commandCount \in Uint8 /\ lastCmd \in Index /\ currentCmd \in Index
  BY DEF TypeOK, QueueTypeOK
<1>2. batch \in Seq(Queued) /\ goal \in Slot
  BY DEF TypeOK
<1>. USE <1>0, <1>1, <1>2 DEF CallInv, Adding, PlaceTypes, Thread
<1>3. CASE InitQueue("T")
  BY <1>3 DEF InitQueue, Step, Go, AfterInit, indices, local
<1>4. CASE SetWrite("T", "open", "enter", TRUE)
  BY <1>4 DEF SetWrite, Step, Go, indices, local
<1>5. CASE SetWrite("T", "shut", IF goal = EmptySlot THEN "slots" ELSE "poll", FALSE)
  BY <1>5 DEF SetWrite, Step, Go, indices, local
<1>6. CASE Enter
  <2>1. pc["T"] = "enter" /\ pc'["T"] = "more" /\ UNCHANGED <<batch, goal>>
    BY <1>6 DEF Enter, Step, Go, local
  <2>2. UNCHANGED <<commandCount, currentCmd, lastCmd, cmdQueueWrite>>
    BY <1>6, <2>1 DEF Enter, DelAtCmdHead, indices
  <2>3. commandCount + Len(batch) <= ATCOMMAND_EXEC_CMD_QUEUE
    BY <1>6, QueueSizeAssumption DEF Enter, QueueError, Uint8
  <2>. QED
    BY <2>1, <2>2, <2>3
<1>7. CASE Refused
  BY <1>7 DEF Refused, Step, Go, queue, indices
<1>8. CASE More
  <2>1. pc["T"] = "more" /\ UNCHANGED <<commandCount, currentCmd, lastCmd, cmdQueueWrite, goal>>
    BY <1>8 DEF More, Step, Go, queue, indices
  <2>2. batch = <<>>
    <3>1. CASE QueueFull
      <4>1. Len(batch) = 0
        BY <2>1, <3>1, QueueSizeAssumption DEF QueueFull, Uint8
      <4>. QED
        BY <4>1, EmptyLength
    <3>. QED
      BY <1>8, <3>1 DEF More
  <2>3. pc'["T"] = "shut" /\ batch' = <<>>
    BY <1>8, <2>2 DEF More, Step, Go
  <2>. QED
    BY <2>1, <2>3
<1>9. CASE Store
  BY <1>9 DEF Store, Step, Go, local
<1>10. CASE CountUp
  <2>1. /\ pc["T"] \in {"count_up", "up_store"}
        /\ UNCHANGED <<currentCmd, lastCmd, cmdQueueWrite, goal>>
    BY <1>10 DEF CountUp, Step, Go, indices
  <2>2. CASE pc["T"] = "count_up"
    BY <1>10, <2>1, <2>2 DEF CountUp, Step, Go
  <2>3. CASE pc["T"] = "up_store"
    <3>1. pc'["T"] = "more" /\ commandCount' = Inc8(commandCount) /\ batch' = Tail(batch)
      BY <1>10, <2>3 DEF CountUp, Step, Go, LoadInv
    <3>2. Len(batch) >= 1 /\ Len(Tail(batch)) = Len(batch) - 1
      BY <2>3, EmptyLength
    <3>3. /\ Len(batch) \in Nat /\ commandCount \in Nat
          /\ commandCount + Len(batch) <= ATCOMMAND_EXEC_CMD_QUEUE
      BY <2>3, EmptyLength DEF Uint8
    <3>4. commandCount < 255
      BY <3>2, <3>3, QueueSizeAssumption
    <3>5. commandCount' = commandCount + 1
      BY <3>1, <3>4, Uint8Facts
    <3>6. commandCount' + Len(batch') <= ATCOMMAND_EXEC_CMD_QUEUE /\ commandCount' # 0
      <4>1. Len(batch') = Len(batch) - 1
        BY <3>1, <3>2
      <4>. QED
        BY <3>3, <3>5, <4>1, QueueSizeAssumption
    <3>7. /\ pc'["T"] = "more" /\ currentCmd' = 0 /\ goal' # EmptySlot /\ cmdQueueWrite'
          /\ commandCount' + Len(batch') <= ATCOMMAND_EXEC_CMD_QUEUE /\ commandCount' # 0
      BY <2>1, <2>3, <3>1, <3>6
    <3>. QED
      BY <3>7
  <2>. QED
    BY <2>1, <2>2, <2>3
<1>11. CASE Poll \/ (~turned /\ Test("T", "idle", "idle"))
  BY <1>11 DEF Poll, Test, Step, Go, data, queue, indices, local
<1>12. CASE Return
  BY <1>12 DEF Return, Step, Go, queue, indices
<1>13. ASSUME NEW b \in Batches, Call(b) PROVE CallInv'
  <2>1. b[Len(b)].atCmd \in Cmd
    <3>1. b \in Seq(Command) /\ b # <<>>
      BY BatchesAssumption
    <3>2. Len(b) \in 1..Len(b)
      BY <3>1
    <3>3. b[Len(b)] \in Command
      BY <3>1, <3>2
    <3>. QED
      BY <3>3 DEF Command
  <2>2. goal' # EmptySlot
    BY <1>13, <2>1, NamesAssumption DEF Call, EmptySlot
  <2>3. pc["T"] = "idle" /\ pc'["T"] = "slots" /\ UNCHANGED commandCount
    BY <1>13 DEF Call, Step, Go, queue
  <2>. QED
    BY <2>2, <2>3
<1>. QED
  BY <1>3, <1>4, <1>5, <1>6, <1>7, <1>8, <1>9, <1>10, <1>11, <1>12, <1>13 DEF Tester, Proceed

LEMMA TesterWork ==
  ASSUME TypeOK, PassInv, CallInv, WorkInv, FlagsInv, LoadInv, Tester
  PROVE  WorkInv' /\ FlagsInv' /\ LoadInv'
<1>0. PlaceTypes /\ Alone("T")
  BY TypesSplit, TesterAlone
<1>1. /\ pc["D"] = "loop" /\ pc["R"] = "loop" /\ pc'["D"] = "loop" /\ pc'["R"] = "loop"
  BY <1>0, TesterPass
<1>2. UNCHANGED <<engine, timer, responseRecvBuffer, rspRxPtr, cmd, modem>>
  BY TesterKeeps
<1>3. CASE pc["T"] = "poll"
  <2>1. UNCHANGED data /\ pc'["T"] \in {"poll", "result"} /\ (pc'["T"] = "result" => commandCount = 0)
    BY <1>0, <1>3, PollKeeps
  <2>2. WorkInv'
    BY <1>1, <1>3, <2>1 DEF WorkInv, AtQueueD, AtQueueR, data, queue, engine
  <2>3. FlagsInv'
    BY <1>1, <2>1 DEF FlagsInv, data, queue, indices, engine, CurrentSlot
  <2>4. LoadInv'
    BY <1>1, <2>1 DEF LoadInv
  <2>. QED
    BY <2>2, <2>3, <2>4
<1>4. CASE pc["T"] # "poll"
  <2>1. ~s_atExecute /\ ~s_atExecute'
    BY <1>2, <1>4 DEF WorkInv, engine
  <2>2. WorkInv'
    BY <1>1, <2>1 DEF WorkInv, AtQueueD, AtQueueR
  <2>3. FlagsInv'
    BY <1>1, <1>2, <2>1 DEF FlagsInv, engine
  <2>4. LoadInv'
    <3>1. pc'["T"] = "up_store" => Operand("T")' = commandCount'
      <4>1. ASSUME pc'["T"] = "up_store"
            PROVE  reg' = [reg EXCEPT !["T"] = <<0, commandCount>>] /\ commandCount' = commandCount
        BY <1>0, <4>1 DEF Tester, Proceed, InitQueue, AfterInit, SetWrite, Enter, Refused, More, Store,
           CountUp, Poll, Return, Call, Test, Step, Go, PlaceTypes, Thread, Load
      <4>2. DOMAIN reg = Thread /\ "T" \in Thread
        BY DEF TypeOK, Thread
      <4>. QED
        BY <4>1, <4>2 DEF Operand
    <3>. QED
      BY <1>1, <3>1 DEF LoadInv
  <2>. QED
    BY <2>2, <2>3, <2>4
<1>. QED
  BY <1>3, <1>4

LEMMA TesterRepeats ==
  ASSUME TypeOK, RepeatsLeft, Tester PROVE RepeatsLeft'
<1>1. CASE UNCHANGED atCmdQueue
  BY <1>1 DEF RepeatsLeft
<1>2. CASE atCmdQueue' = EmptySlots
  <2> SUFFICES ASSUME NEW i \in Index, NEW c \in Queued, atCmdQueue'[i].atCmd = c.atCmd
               PROVE FALSE
    BY DEF RepeatsLeft
  <2>1. atCmdQueue'[i].atCmd = NoCmd
    BY <1>2 DEF EmptySlots, EmptySlot
  <2>2. c.atCmd \in Cmd
    BY QueuedAreCommands DEF Command
  <2>. QED
    BY <2>1, <2>2, NamesAssumption
<1>3. CASE Store
  <2> SUFFICES ASSUME NEW i \in Index, NEW c \in Queued, atCmdQueue'[i].atCmd = c.atCmd
               PROVE atCmdQueue'[i].repCount <= c.repCount
    BY DEF RepeatsLeft
  <2>1. Head(batch) \in Queued /\ Head(batch) \in Command /\ c.repCount \in Nat
    <3>1. Head(batch) \in Queued
      BY <1>3, HeadType DEF Store, TypeOK
    <3>. QED
      BY <3>1, QueuedAreCommands DEF Command, Uint8
  <2>2. CASE i = TailIndex
    <3>1. atCmdQueue'[i] = Stored(Head(batch))
      BY <1>3, <2>2 DEF Store, TypeOK, QueueTypeOK
    <3>2. Head(batch).atCmd = c.atCmd /\ atCmdQueue'[i].repCount = Head(batch).repCount
      BY <2>1, <3>1, StoredType
    <3>. QED
      BY <2>1, <3>2, RepeatsAssumption
  <2>3. CASE i # TailIndex
    <3>1. atCmdQueue'[i] = atCmdQueue[i]
      BY <1>3, <2>3 DEF Store, TypeOK, QueueTypeOK
    <3>. QED
      BY <3>1 DEF RepeatsLeft
  <2>. QED
    BY <2>2, <2>3
<1>4. CASE Enter
  <2>1. CASE ~UNCHANGED atCmdQueue
    <3> SUFFICES ASSUME NEW i \in Index, NEW c \in Queued, atCmdQueue'[i].atCmd = c.atCmd
                 PROVE atCmdQueue'[i].repCount <= c.repCount
      BY DEF RepeatsLeft
    <3>1. atCmdQueue'[i] = atCmdQueue[i] \/ atCmdQueue'[i] = Removed(atCmdQueue[i])
      BY <1>4, <2>1 DEF Enter, DelAtCmdHead
    <3>2. Removed(atCmdQueue[i]).atCmd = NoCmd
      BY DEF Removed, EmptySlot
    <3>3. c.atCmd \in Cmd
      BY QueuedAreCommands DEF Command
    <3>. QED
      BY <3>1, <3>2, <3>3, NamesAssumption DEF RepeatsLeft
  <2>. QED
    BY <1>1, <2>1
<1>5. UNCHANGED atCmdQueue \/ atCmdQueue' = EmptySlots \/ Store \/ Enter
  BY DEF Tester, Proceed, InitQueue, SetWrite, Refused, More, CountUp, Poll, Return, Call, Test, data, queue
<1>. QED
  BY <1>1, <1>2, <1>3, <1>4, <1>5

LEMMA TesterWindow ==
  ASSUME TypeOK, PassInv, CallInv, CallInv', WindowInv, LoadInv, Tester
  PROVE  WindowInv'
<1>0. PlaceTypes /\ Alone("T")
  BY TypesSplit, TesterAlone
<1>1. /\ pc["D"] = "loop" /\ pc["R"] = "loop" /\ pc'["D"] = "loop" /\ pc'["R"] = "loop"
  BY <1>0, TesterPass
<1>2. /\ Left = (IF Adding THEN commandCount + 1 ELSE commandCount)
      /\ Left' = (IF Adding' THEN commandCount' + 1 ELSE commandCount')
  BY <1>1 DEF Left, Advancing
<1>3. commandCount \in Nat /\ lastCmd \in Nat /\ commandCount <= 255
  BY DEF TypeOK, QueueTypeOK, Index, Uint8
<1>4. CASE UNCHANGED queue /\ ~Adding /\ ~Adding'
  BY <1>2, <1>4 DEF WindowInv, queue, indices
<1>5. CASE commandCount' = 0 /\ ~Adding'
  BY <1>2, <1>5 DEF WindowInv
<1>6. CASE UNCHANGED <<atCmdQueue, indices, commandCount>> /\ Adding /\ Adding'
  BY <1>2, <1>6 DEF WindowInv, indices
<1>7. CASE Store
  <2>1. pc["T"] = "more" /\ pc'["T"] = "count_up" /\ ~Adding /\ Adding'
    BY <1>0, <1>7 DEF Store, Step, Go, Adding, PlaceTypes, Thread
  <2>2. currentCmd = 0 /\ currentCmd' = 0 /\ commandCount' = commandCount
    BY <1>7, <2>1 DEF Store, CallInv
  <2>3. TailIndex = commandCount /\ commandCount < ATCOMMAND_EXEC_CMD_QUEUE
    <3>1. commandCount < ATCOMMAND_EXEC_CMD_QUEUE
      BY <1>3, <1>7, QueueSizeAssumption DEF Store, QueueFull
    <3>2. CASE commandCount = 0
      BY <2>1, <3>1, <3>2 DEF CallInv, TailIndex
    <3>3. CASE commandCount > 0
      <4>1. commandCount = lastCmd + 1
        BY <1>2, <1>3, <2>1, <2>2, <3>3 DEF WindowInv
      <4>2. NextIndex(lastCmd) = lastCmd + 1
        BY <1>3, <3>1, <4>1, QueueSizeAssumption DEF NextIndex
      <4>. QED
        BY <3>1, <3>3, <4>1, <4>2 DEF TailIndex
    <3>. QED
      BY <1>3, <3>1, <3>2, <3>3
  <2>4. lastCmd' = commandCount /\ Left' = commandCount + 1
    BY <1>2, <1>7, <2>1, <2>2, <2>3 DEF Store
  <2>5. ASSUME NEW i \in 0..commandCount PROVE atCmdQueue'[i].atCmd # NoCmd
    <3>1. i \in Index
      BY <1>3, <2>3, QueueSizeAssumption DEF Index
    <3>2. CASE i = commandCount
      <4>1. atCmdQueue'[i] = Stored(Head(batch))
        BY <1>7, <2>3, <3>1, <3>2 DEF Store, TypeOK, QueueTypeOK
      <4>2. Head(batch) \in Command
        BY <1>7, HeadType, QueuedAreCommands DEF Store, TypeOK
      <4>3. Head(batch).atCmd \in Cmd
        BY <4>2 DEF Command
      <4>. QED
        BY <4>1, <4>2, <4>3, StoredType, NamesAssumption
    <3>3. CASE i # commandCount
      <4>1. atCmdQueue'[i] = atCmdQueue[i]
        BY <1>7, <2>3, <3>1, <3>3 DEF Store, TypeOK, QueueTypeOK
      <4>2. commandCount > 0 /\ Left = commandCount
        BY <1>2, <1>3, <2>1, <3>3
      <4>3. i \in currentCmd..lastCmd
        <5>1. commandCount = lastCmd + 1
          BY <1>3, <2>2, <4>2 DEF WindowInv
        <5>. QED
          BY <1>3, <2>2, <3>3, <5>1
      <4>. QED
        BY <4>1, <4>2, <4>3 DEF WindowInv
    <3>. QED
      BY <3>2, <3>3
  <2>6. currentCmd' + Left' = lastCmd' + 1 /\ currentCmd'..lastCmd' = 0..commandCount
    BY <1>3, <2>2, <2>4
  <2>. QED
    BY <2>5, <2>6 DEF WindowInv
<1>8. CASE CountUp
  <2>1. CASE pc["T"] = "count_up"
    <3>1. UNCHANGED <<atCmdQueue, indices, commandCount>> /\ Adding /\ Adding'
      BY <1>0, <1>8, <2>1 DEF CountUp, Step, Go, Adding, PlaceTypes, Thread
    <3>. QED
      BY <1>6, <3>1
  <2>2. CASE pc["T"] = "up_store"
    <3>1. /\ Adding /\ ~Adding' /\ commandCount' = Inc8(commandCount)
          /\ UNCHANGED <<atCmdQueue, indices>>
      BY <1>0, <1>8, <2>2 DEF CountUp, Step, Go, Adding, LoadInv, PlaceTypes, Thread
    <3>2. commandCount < 255
      <4>1. batch # <<>> /\ commandCount + Len(batch) <= ATCOMMAND_EXEC_CMD_QUEUE
        BY <2>2 DEF CallInv, Adding
      <4>2. Len(batch) \in Nat /\ Len(batch) # 0
        BY <4>1, EmptyLength DEF TypeOK
      <4>. QED
        BY <1>3, <4>1, <4>2, QueueSizeAssumption
    <3>3. commandCount' = commandCount + 1
      BY <3>1, <3>2, Uint8Facts DEF TypeOK, QueueTypeOK
    <3>4. Left' = Left
      BY <1>2, <3>1, <3>3
    <3>. QED
      BY <3>1, <3>4 DEF WindowInv, indices
  <2>. QED
    BY <1>8, <2>1, <2>2 DEF CountUp, Step, Go
<1>9. CASE ~Store /\ ~CountUp
  <2>1. ~Adding /\ ~Adding'
    BY <1>0, <1>9 DEF Tester, Proceed, InitQueue, AfterInit, SetWrite, Enter, Refused, More, Poll, Return,
       Call, Test, Step, Go, Adding, PlaceTypes, Thread
  <2>2. \/ UNCHANGED <<atCmdQueue, indices, commandCount>>
        \/ pc'["T"] \in {"count", "write", "outcome", "open", "idle", "more"} /\ (Enter \/ InitQueue("T"))
    BY <1>0, <1>9 DEF Tester, Proceed, InitQueue, AfterInit, SetWrite, Enter, Refused, More, Poll, Return,
       Call, Test, Step, Go, PlaceTypes, Thread, data, queue
  <2>3. CASE UNCHANGED <<atCmdQueue, indices, commandCount>>
    BY <1>2, <2>1, <2>3 DEF WindowInv, indices
  <2>4. CASE Enter
    <3>1. commandCount = 0
      BY <2>4 DEF Enter, Step, Go, CallInv
    <3>. QED
      BY <1>5, <2>1, <2>4, <3>1 DEF Enter, DelAtCmdHead
  <2>5. CASE pc'["T"] \in {"count", "write", "outcome", "open", "idle"}
    BY <1>5, <2>1, <2>5 DEF CallInv
  <2>6. CASE InitQueue("T")
    <3>1. pc'["T"] \in {"count", "write", "outcome", "open", "idle"}
      BY <1>0, <2>6 DEF InitQueue, AfterInit, Step, Go, PlaceTypes, Thread
    <3>. QED
      BY <2>5, <3>1
  <2>. QED
    BY <2>2, <2>3, <2>4, <2>6
<1>. QED
  BY <1>7, <1>8, <1>9
-------------------------------------------------------------------------------
(* The dispatcher and the response processor. *)

\* While the tester does not poll, neither of the two touches the queue.
LEMMA OtherKeeps ==
  ASSUME TypeOK, PassInv, WorkInv, FlagsInv, Dispatcher \/ Responder, pc["T"] # "poll"
  PROVE  UNCHANGED queue
<1>1. CASE Dispatcher
  <2>1. pc["D"] \notin AtQueueD
    BY DEF WorkInv
  <2>2. pc["D"] \notin {"repeats", "repeat", "repeat_store", "current", "current_store",
                        "count_down", "count_store"}
    BY <2>1 DEF AtQueueD, Labels
  <2>3. ~Repeats /\ ~UseRepeat("D", "not_executing") /\ ~AdvanceQueue("D", "dropped")
    BY <2>2 DEF Repeats, UseRepeat, AdvanceQueue, Step, Go
  <2>. QED
    BY <1>1, <2>3 DEF Dispatcher, Dispatch, ClearBuffer, Copy, Send, StartTimer, StopTimer, TimedOut,
       SetStatus, SetExecute, SetRspWait, SetRecvd, Test, data
<1>2. CASE Responder
  <2>1. pc["R"] \notin {"invoke", "repeat", "repeat_store", "nok", "slots", "count", "write",
                        "outcome", "succeed", "current", "current_store", "count_down",
                        "count_store"}
    BY DEF WorkInv, AtQueueR
  <2>2. ~InitQueue("R") /\ ~UseRepeat("R", "nok") /\ ~AdvanceQueue("R", "status")
    BY <2>1 DEF InitQueue, UseRepeat, AdvanceQueue, Step, Go
  <2>3. /\ ~Callback /\ ~SetOutcome("nok", "status", NOK_OPER)
        /\ ~SetOutcome("succeed", "current", CurrentSlot.successStatus)
    BY <2>1 DEF Callback, SetOutcome, Step, Go
  <2>. QED
    BY <1>2, <2>2, <2>3 DEF Responder, Receive, Urc, Switch, StartTimer, StopTimer,
       SetStatus, SetExecute, SetRspWait, SetRecvd, Test, data
<1>. QED
  BY <1>1, <1>2

LEMMA OtherCalls ==
  ASSUME TypeOK, PassInv, CallInv, WorkInv, FlagsInv, Dispatcher \/ Responder
  PROVE  CallInv'
<1>1. UNCHANGED <<batch, goal>>
  BY OtherLocal
<1>2. pc'["T"] = pc["T"]
  BY TypesSplit, DispatcherAlone, ResponderAlone DEF Alone, Thread
<1>3. CASE pc["T"] = "poll"
  BY <1>1, <1>2, <1>3 DEF CallInv, Adding
<1>4. CASE pc["T"] # "poll"
  <2>1. UNCHANGED queue
    BY <1>4, OtherKeeps
  <2>. QED
    BY <1>1, <1>2, <2>1 DEF CallInv, Adding, queue, indices
<1>. QED
  BY <1>3, <1>4

LEMMA DispatcherWork ==
  ASSUME TypeOK, PassInv, CallInv, WorkInv, FlagsInv, LoadInv, Dispatcher
  PROVE  WorkInv'
<1>0. PlaceTypes /\ Alone("D")
  BY TypesSplit, DispatcherAlone
<1>1. /\ pc'["T"] = pc["T"] /\ pc["R"] = "loop" /\ pc'["R"] = "loop"
      /\ pc["T"] \in Labels["T"]
  BY <1>0, OtherPass
<1>2. commandCount \in Uint8 /\ repeatCount \in Uint8
  BY DEF TypeOK, QueueTypeOK
<1>. USE <1>1, <1>2 DEF WorkInv, AtQueueD, AtQueueR
<1>3. \A b : pc' = [pc EXCEPT !["D"] = b] => pc'["D"] = b
  BY <1>0 DEF PlaceTypes, Thread
<1>. USE <1>3
<1>4. CASE Dispatch
  <2>1. commandCount > 0 /\ ~cmdQueueWrite => pc["T"] = "poll"
    BY DEF CallInv, Labels
  <2>. QED
    BY <1>4, <2>1 DEF Dispatch, Ready, Test, Step, Go, data, queue, engine, FlagsInv, Labels
<1>5. CASE ClearBuffer \/ Copy \/ Repeats
  BY <1>5 DEF ClearBuffer, Copy, Repeats, Step, Go, queue, engine, Labels
<1>6. CASE \/ SetRecvd("D", "not_received", "copy", FALSE)
           \/ SetRspWait("D", "waiting", "sent", TRUE)
           \/ SetRspWait("D", "not_waiting", "stop", FALSE)
           \/ SetStatus("D", "sent", "loop", "RSP_WAIT")
           \/ SetStatus("D", "resume", "not_waiting", "EXECUTE_AT")
           \/ SetStatus("D", "again", "loop", "EXECUTE_AT")
  BY <1>6 DEF SetRecvd, SetRspWait, SetStatus, Step, Go, queue, Labels
<1>7. CASE \/ SetExecute("D", "executing", "send", TRUE)
           \/ SetExecute("D", "not_executing", "drop", FALSE)
           \/ SetExecute("D", "dropped", "resume", FALSE)
  BY <1>7 DEF SetExecute, Step, Go, queue, Labels
<1>8. CASE \E a \in Answers \cup {""} : Send(a)
  BY <1>8 DEF Send, Go, queue, engine, Labels
<1>9. CASE \/ StartTimer("D", "waiting") \/ StopTimer("D", "stop", "stopped", "received")
           \/ StopTimer("D", "idle_stop", "idle_stopped", "loop")
  BY <1>9 DEF StartTimer, StopTimer, Step, Go, queue, engine, Labels
<1>10. CASE TimedOut
  BY <1>10 DEF TimedOut, Test, Step, Go, data, queue, engine, Labels
<1>11. CASE UseRepeat("D", "not_executing")
  BY <1>11 DEF UseRepeat, Step, Go, engine, Labels
<1>12. CASE AdvanceQueue("D", "dropped")
  BY <1>12 DEF AdvanceQueue, Step, Go, engine, Labels
<1>13. CASE Test("D", "received", IF responseRecvd THEN "again" ELSE "loop")
  BY <1>13 DEF Test, Step, Go, data, queue, engine, Labels
<1>. QED
  BY <1>4, <1>5, <1>6, <1>7, <1>8, <1>9, <1>10, <1>11, <1>12, <1>13, Zenon DEF Dispatcher

LEMMA DispatcherFlags ==
  ASSUME TypeOK, PassInv, WorkInv, FlagsInv, LoadInv, Dispatcher
  PROVE  FlagsInv'
<1>0. PlaceTypes /\ Alone("D")
  BY TypesSplit, DispatcherAlone
<1>1. pc["R"] = "loop" /\ pc'["R"] = "loop"
  BY <1>0, OtherPass
<1>2. commandCount \in Uint8 /\ repeatCount \in Uint8
  BY DEF TypeOK, QueueTypeOK
<1>. USE <1>1, <1>2 DEF FlagsInv
<1>3. \A b : pc' = [pc EXCEPT !["D"] = b] => pc'["D"] = b
  BY <1>0 DEF PlaceTypes, Thread
<1>. USE <1>3
<1>4. CASE Dispatch
  BY <1>4 DEF Dispatch, Ready, Test, Step, Go, data, queue, indices, engine, local, CurrentSlot
<1>5. CASE ClearBuffer
  BY <1>5 DEF ClearBuffer, Step, Go, queue, indices, engine, CurrentSlot
<1>6. CASE Copy
  BY <1>6 DEF Copy, Step, Go, queue, indices, engine, CurrentSlot
<1>7. CASE Repeats
  BY <1>7 DEF Repeats, Step, Go, indices, engine, local, CurrentSlot
<1>8. CASE SetRecvd("D", "not_received", "copy", FALSE)
  BY <1>8 DEF SetRecvd, Step, Go, queue, indices, local, CurrentSlot
<1>9. CASE \/ SetRspWait("D", "waiting", "sent", TRUE)
           \/ SetRspWait("D", "not_waiting", "stop", FALSE)
  BY <1>9 DEF SetRspWait, Step, Go, queue, indices, local, CurrentSlot
<1>10. CASE \/ SetStatus("D", "sent", "loop", "RSP_WAIT")
           \/ SetStatus("D", "resume", "not_waiting", "EXECUTE_AT")
           \/ SetStatus("D", "again", "loop", "EXECUTE_AT")
  BY <1>10 DEF SetStatus, Step, Go, queue, indices, local, CurrentSlot
<1>11. CASE SetExecute("D", "executing", "send", TRUE)
  BY <1>11 DEF SetExecute, Step, Go, queue, indices, local, CurrentSlot
<1>12. CASE SetExecute("D", "not_executing", "drop", FALSE)
           \/ SetExecute("D", "dropped", "resume", FALSE)
  BY <1>12 DEF SetExecute, Step, Go, queue, indices, local, CurrentSlot
<1>13. CASE \E a \in Answers \cup {""} : Send(a)
  <2>1. /\ pc["D"] = "send" /\ pc'["D"] = "arm"
        /\ UNCHANGED <<modemStatus, s_atExecute, modemRspWait, responseRecvd, repeatCount>>
        /\ UNCHANGED <<atCmdQueue, currentCmd>>
    BY <1>13 DEF Send, Go, queue, indices, engine
  <2>. QED
    BY <2>1 DEF CurrentSlot
<1>14. CASE \/ StartTimer("D", "waiting") \/ StopTimer("D", "stop", "stopped", "received")
           \/ StopTimer("D", "idle_stop", "idle_stopped", "loop")
  BY <1>14 DEF StartTimer, StopTimer, Step, Go, queue, indices, engine, local, CurrentSlot
<1>15. CASE TimedOut
  BY <1>15 DEF TimedOut, Test, Step, Go, data, queue, indices, engine, local, CurrentSlot, Uint8,
     WorkInv
<1>16. CASE UseRepeat("D", "not_executing")
  BY <1>16 DEF UseRepeat, Step, Go, indices, engine, CurrentSlot
<1>17. CASE AdvanceQueue("D", "dropped")
  BY <1>17 DEF AdvanceQueue, Step, Go, engine, CurrentSlot
<1>18. CASE Test("D", "received", IF responseRecvd THEN "again" ELSE "loop")
  BY <1>18 DEF Test, Step, Go, data, queue, indices, engine, local, CurrentSlot
<1>. QED
  BY <1>4, <1>5, <1>6, <1>7, <1>8, <1>9, <1>10, <1>11, <1>12, <1>13, <1>14, <1>15, <1>16, <1>17,
     <1>18, Zenon DEF Dispatcher
LEMMA OtherRepeats ==
  ASSUME TypeOK, LoadInv, RepeatsLeft, Dispatcher \/ Responder
  PROVE  RepeatsLeft'
<1>1. CASE UNCHANGED atCmdQueue
  BY <1>1 DEF RepeatsLeft
<1>2. CASE atCmdQueue' = EmptySlots
  <2> SUFFICES ASSUME NEW i \in Index, NEW c \in Queued, atCmdQueue'[i].atCmd = c.atCmd
               PROVE FALSE
    BY DEF RepeatsLeft
  <2>1. atCmdQueue'[i].atCmd = NoCmd
    BY <1>2 DEF EmptySlots, EmptySlot
  <2>2. c.atCmd \in Cmd
    BY QueuedAreCommands DEF Command
  <2>. QED
    BY <2>1, <2>2, NamesAssumption
<1>3. ASSUME NEW t \in {"D", "R"}, NEW b, Step(t, "repeat_store", b), UseRepeat(t, b)
      PROVE  RepeatsLeft'
  <2> SUFFICES ASSUME NEW i \in Index, NEW c \in Queued, atCmdQueue'[i].atCmd = c.atCmd
               PROVE atCmdQueue'[i].repCount <= c.repCount
    BY DEF RepeatsLeft
  <2>1. /\ CurrentSlot.repCount > 0 /\ reg[t][1] = currentCmd /\ Operand(t) = CurrentSlot.repCount
    BY <1>3 DEF Step, Go, LoadInv, Operand
  <2>2. atCmdQueue' = RepeatUsed
    BY <1>3, <2>1 DEF UseRepeat, Step, Go, RepeatUsed, CurrentSlot
  <2>3. QueueTypeOK
    BY DEF TypeOK
  <2>4. c.repCount \in Nat
    BY QueuedAreCommands DEF Command, Uint8
  <2>5. CASE i = currentCmd
    <3>1. CurrentSlot.repCount \in Uint8 /\ CurrentSlot \in Slot
      BY <2>3, CurrentSlotType, SlotFacts
    <3>2. atCmdQueue'[i] = [CurrentSlot EXCEPT !.repCount = Dec8(@)]
      BY <2>2, <2>3, <2>5, RepeatUsedType
    <3>3. /\ atCmdQueue'[i].atCmd = CurrentSlot.atCmd
          /\ atCmdQueue'[i].repCount = Dec8(CurrentSlot.repCount)
      BY <3>1, <3>2 DEF Slot
    <3>4. Dec8(CurrentSlot.repCount) = CurrentSlot.repCount - 1
      BY <2>1, <3>1, Uint8Facts
    <3>5. CurrentSlot.repCount <= c.repCount
      BY <2>5, <3>3 DEF RepeatsLeft, CurrentSlot
    <3>. QED
      BY <2>4, <3>1, <3>3, <3>4, <3>5 DEF Uint8
  <2>6. CASE i # currentCmd
    <3>1. atCmdQueue'[i] = atCmdQueue[i]
      BY <2>2, <2>3, <2>6 DEF RepeatUsed, QueueTypeOK
    <3>. QED
      BY <3>1 DEF RepeatsLeft
  <2>. QED
    BY <2>5, <2>6
<1>4. CASE Dispatcher
  <2>1. UNCHANGED atCmdQueue
        \/ (UseRepeat("D", "not_executing") /\ Step("D", "repeat_store", "not_executing"))
    BY <1>4 DEF Dispatcher, Dispatch, ClearBuffer, Copy, Repeats, Send, StartTimer, StopTimer, TimedOut,
       UseRepeat, AdvanceQueue, SetStatus, SetExecute, SetRspWait, SetRecvd, Test, data, queue
  <2>. QED
    BY <1>1, <1>3, <2>1
<1>5. CASE Responder
  <2>1. UNCHANGED atCmdQueue \/ atCmdQueue' = EmptySlots
        \/ (UseRepeat("R", "nok") /\ Step("R", "repeat_store", "nok"))
    BY <1>5 DEF Responder, Receive, Urc, Callback, Switch, SetOutcome, InitQueue, StartTimer, StopTimer,
       UseRepeat, AdvanceQueue, SetStatus, SetExecute, SetRspWait, SetRecvd, Test, data, queue
  <2>. QED
    BY <1>1, <1>2, <1>3, <2>1
<1>. QED
  BY <1>4, <1>5

\* The dispatcher and the response processor only take commands off the front of the window,
\* or empty it.
Shrinks ==
  Left' > 0 => /\ Left > 0 /\ lastCmd' = lastCmd
               /\ currentCmd' >= currentCmd /\ currentCmd' + Left' = currentCmd + Left
               /\ \A i \in currentCmd..lastCmd :
                    /\ atCmdQueue'[i].atCmd = atCmdQueue[i].atCmd
                    /\ atCmdQueue'[i].successStatus = atCmdQueue[i].successStatus

LEMMA AdvanceShrinks ==
  ASSUME TypeOK, PassInv, WorkInv, WindowInv, LoadInv, NEW t \in {"D", "R"}, NEW b,
         b \notin {"count", "count_down", "count_store"}, Alone(t), AdvanceQueue(t, b)
  PROVE  Shrinks
<1>1. /\ \A s \in {"D", "R"} : s # t => pc[s] = "loop" /\ pc'[s] = "loop"
      /\ pc'["T"] = pc["T"] /\ UNCHANGED <<atCmdQueue, lastCmd>>
  BY OtherPass DEF AdvanceQueue
<1>2. /\ pc[t] \in {"current", "current_store", "count_down", "count_store"}
      /\ pc["T"] = "poll" /\ commandCount > 0
  BY DEF AdvanceQueue, Step, Go, WorkInv, AtQueueD, AtQueueR, Labels
<1>3. ~Adding /\ ~Adding' /\ pc["R"] # "count"
  BY <1>1, <1>2 DEF Adding
<1>4. Advancing <=> pc[t] \in {"count_down", "count_store"}
  BY <1>1 DEF Advancing
<1>5. pc'["R"] # "count" /\ (Advancing' <=> pc'[t] \in {"count_down", "count_store"})
  <2>1. pc'[t] # "count"
    BY <1>2 DEF AdvanceQueue, Step, Go, TypeOK, Thread
  <2>. QED
    BY <1>1, <2>1 DEF Advancing
<1>6. commandCount \in Nat /\ lastCmd \in Index /\ currentCmd \in Index /\ commandCount \in Uint8
  BY DEF TypeOK, QueueTypeOK, Uint8
<1>7. CASE pc[t] = "current" \/ pc[t] = "count_down"
  <2>1. UNCHANGED <<currentCmd, commandCount>> /\ (Advancing' <=> Advancing)
    BY <1>4, <1>5, <1>7 DEF AdvanceQueue, Step, Go, TypeOK, Thread
  <2>2. Left' = Left
    BY <1>3, <1>5, <2>1 DEF Left
  <2>. QED
    BY <1>1, <1>6, <2>1, <2>2 DEF Shrinks, Index
<1>8. CASE pc[t] = "current_store"
  <2>1. pc'[t] = "count_down" /\ currentCmd' = NextIndex(currentCmd) /\ UNCHANGED commandCount
    BY <1>8 DEF AdvanceQueue, Step, Go, TypeOK, Thread, LoadInv
  <2>2. Left = commandCount /\ Left' = commandCount - 1
    BY <1>3, <1>4, <1>5, <1>8, <2>1 DEF Left
  <2>3. currentCmd + commandCount = lastCmd + 1
    BY <1>2, <2>2 DEF WindowInv
  <2>4. ASSUME Left' > 0 PROVE currentCmd' = currentCmd + 1
    <3>1. currentCmd + 1 \in Index
      BY <1>6, <2>2, <2>3, <2>4, QueueSizeAssumption DEF Index
    <3>. QED
      BY <1>6, <2>1, <3>1, IndexFacts
  <2>. QED
    BY <1>1, <1>2, <1>6, <2>2, <2>4 DEF Shrinks, Index
<1>9. CASE pc[t] = "count_store"
  <2>1. commandCount' = Dec8(commandCount) /\ UNCHANGED currentCmd /\ pc'[t] = b
    BY <1>9 DEF AdvanceQueue, Step, Go, TypeOK, Thread, LoadInv
  <2>2. commandCount' = commandCount - 1
    BY <1>2, <1>6, <2>1, Uint8Facts
  <2>3. Left' = Left
    BY <1>3, <1>4, <1>5, <1>9, <2>1, <2>2 DEF Left
  <2>. QED
    BY <1>1, <1>6, <2>1, <2>3 DEF Shrinks, Index
<1>. QED
  BY <1>2, <1>7, <1>8, <1>9

LEMMA RepeatKeeps ==
  ASSUME TypeOK, NEW t \in {"D", "R"}, NEW b, UseRepeat(t, b)
  PROVE  \A i \in currentCmd..lastCmd :
            /\ atCmdQueue'[i].atCmd = atCmdQueue[i].atCmd
            /\ atCmdQueue'[i].successStatus = atCmdQueue[i].successStatus
<1> SUFFICES ASSUME NEW i \in currentCmd..lastCmd
             PROVE  /\ atCmdQueue'[i].atCmd = atCmdQueue[i].atCmd
                    /\ atCmdQueue'[i].successStatus = atCmdQueue[i].successStatus
  OBVIOUS
<1>1. i \in Index
  BY QueueSizeAssumption DEF TypeOK, QueueTypeOK, Index
<1>2. atCmdQueue[i] \in Slot /\ DOMAIN atCmdQueue = Index
  BY <1>1 DEF TypeOK, QueueTypeOK
<1>3. CASE UNCHANGED atCmdQueue
  BY <1>3
<1>4. CASE atCmdQueue' = [atCmdQueue EXCEPT ![reg[t][1]].repCount = Dec8(Operand(t))]
  <2>1. CASE i # reg[t][1]
    BY <1>1, <1>2, <1>4, <2>1
  <2>2. CASE i = reg[t][1]
    <3>1. atCmdQueue'[i] = [atCmdQueue[i] EXCEPT !.repCount = Dec8(Operand(t))]
      BY <1>1, <1>2, <1>4, <2>2
    <3>. QED
      BY <1>2, <3>1 DEF Slot
  <2>. QED
    BY <2>1, <2>2
<1>. QED
  BY <1>3, <1>4 DEF UseRepeat

\* Any other step of the two keeps the window.
LEMMA KeepsWindow ==
  ASSUME TypeOK, UNCHANGED <<indices, commandCount>>,
         pc["R"] # "count", pc'["R"] # "count", Advancing' <=> Advancing, Adding' <=> Adding,
         UNCHANGED atCmdQueue \/ \E t \in {"D", "R"} : \E b : UseRepeat(t, b)
  PROVE  Shrinks
<1>1. Left' = Left
  BY DEF Left
<1>2. \A i \in currentCmd..lastCmd :
         /\ atCmdQueue'[i].atCmd = atCmdQueue[i].atCmd
         /\ atCmdQueue'[i].successStatus = atCmdQueue[i].successStatus
  BY RepeatKeeps
<1>3. currentCmd \in Int
  BY DEF TypeOK, QueueTypeOK, Index
<1>. QED
  BY <1>1, <1>2, <1>3 DEF Shrinks, indices
LEMMA DispatcherShrinks ==
  ASSUME TypeOK, PassInv, CallInv, WorkInv, FlagsInv, WindowInv, LoadInv, Dispatcher
  PROVE  Shrinks
<1>0. PlaceTypes /\ Alone("D")
  BY TypesSplit, DispatcherAlone
<1>1. pc["R"] = "loop" /\ pc'["R"] = "loop" /\ pc'["T"] = pc["T"]
  BY <1>0, OtherPass
<1>2. CASE AdvanceQueue("D", "dropped")
  BY <1>0, <1>2, AdvanceShrinks
<1>3. CASE ~AdvanceQueue("D", "dropped")
  <2>1. (Advancing' <=> Advancing) /\ (Adding' <=> Adding)
    <3>1. pc["D"] \notin {"count_down", "count_store"} /\ pc'["D"] \notin {"count_down", "count_store"}
      BY <1>0, <1>3 DEF Dispatcher, Dispatch, ClearBuffer, Copy, Repeats, Send, StartTimer, StopTimer,
         TimedOut, UseRepeat, SetStatus, SetExecute, SetRspWait, SetRecvd, Test, Step, Go,
         PlaceTypes, Thread
    <3>. QED
      BY <1>1, <3>1 DEF Advancing, Adding
  <2>2. UNCHANGED <<indices, commandCount>>
    BY <1>3 DEF Dispatcher, Dispatch, ClearBuffer, Copy, Repeats, Send, StartTimer, StopTimer,
       TimedOut, UseRepeat, SetStatus, SetExecute, SetRspWait, SetRecvd, Test, data, queue
  <2>3. UNCHANGED atCmdQueue \/ UseRepeat("D", "not_executing")
    BY <1>3 DEF Dispatcher, Dispatch, ClearBuffer, Copy, Repeats, Send, StartTimer, StopTimer,
       TimedOut, SetStatus, SetExecute, SetRspWait, SetRecvd, Test, data, queue
  <2>. QED
    BY <1>1, <2>1, <2>2, <2>3, KeepsWindow
<1>. QED
  BY <1>2, <1>3

LEMMA ResponderShrinks ==
  ASSUME TypeOK, PassInv, CallInv, WorkInv, FlagsInv, WindowInv, LoadInv, Responder
  PROVE  Shrinks
<1>0. PlaceTypes /\ Alone("R")
  BY TypesSplit, ResponderAlone
<1>1. pc["D"] = "loop" /\ pc'["D"] = "loop" /\ pc'["T"] = pc["T"]
  BY <1>0, OtherPass
<1>2. CASE AdvanceQueue("R", "status")
  BY <1>0, <1>2, AdvanceShrinks
<1>3. CASE InitQueue("R")
  <2>1. CASE pc["R"] = "slots"
    <3>1. pc'["R"] = "count"
      BY <1>0, <1>3, <2>1 DEF InitQueue, Step, Go, PlaceTypes, Thread
    <3>. QED
      BY <3>1 DEF Shrinks, Left
  <2>2. CASE pc["R"] # "slots"
    <3>1. pc["T"] = "poll" /\ pc["R"] \in {"count", "write", "outcome"}
      BY <1>3, <2>2 DEF InitQueue, Step, Go, WorkInv
    <3>2. pc'["R"] \in {"write", "outcome", "status"}
      BY <1>0, <1>3, <2>2 DEF InitQueue, AfterInit, Step, Go, PlaceTypes, Thread
    <3>3. ~Adding' /\ ~Adding /\ ~Advancing' /\ ~Advancing
      BY <1>1, <3>1, <3>2 DEF Advancing, Adding
    <3>4. CASE pc["R"] = "count"
      <4>1. commandCount' = 0
        BY <1>3, <3>4 DEF InitQueue, Step, Go
      <4>. QED
        BY <3>2, <3>3, <4>1 DEF Shrinks, Left
    <3>5. CASE pc["R"] # "count"
      <4>1. UNCHANGED <<atCmdQueue, indices, commandCount>>
        BY <1>3, <3>1, <3>5 DEF InitQueue, Step, Go
      <4>. QED
        BY <3>2, <3>3, <3>5, <4>1, KeepsWindow
    <3>. QED
      BY <3>4, <3>5
  <2>. QED
    BY <2>1, <2>2
<1>4. CASE ~AdvanceQueue("R", "status") /\ ~InitQueue("R")
  <2>1. /\ pc["R"] \notin {"count", "count_down", "count_store"}
        /\ pc'["R"] \notin {"count", "count_down", "count_store"}
    BY <1>0, <1>4 DEF Responder, Receive, Urc, Callback, Switch, SetOutcome, StartTimer, StopTimer,
       UseRepeat, SetStatus, SetExecute, SetRspWait, SetRecvd, Test, Step, Go, PlaceTypes, Thread
  <2>2. (Advancing' <=> Advancing) /\ (Adding' <=> Adding)
    BY <1>1, <2>1 DEF Advancing, Adding
  <2>3. UNCHANGED <<indices, commandCount>>
    BY <1>4 DEF Responder, Receive, Urc, Callback, Switch, SetOutcome, StartTimer, StopTimer,
       UseRepeat, SetStatus, SetExecute, SetRspWait, SetRecvd, Test, data, queue
  <2>4. UNCHANGED atCmdQueue \/ UseRepeat("R", "nok")
    BY <1>4 DEF Responder, Receive, Urc, Callback, Switch, SetOutcome, StartTimer, StopTimer,
       SetStatus, SetExecute, SetRspWait, SetRecvd, Test, data, queue
  <2>. QED
    BY <2>1, <2>2, <2>3, <2>4, KeepsWindow
<1>. QED
  BY <1>2, <1>3, <1>4

LEMMA OtherWindow ==
  ASSUME TypeOK, PassInv, CallInv, WorkInv, FlagsInv, WindowInv, LoadInv, Dispatcher \/ Responder
  PROVE  WindowInv'
<1>1. Shrinks
  BY DispatcherShrinks, ResponderShrinks
<1>2. currentCmd \in Int /\ lastCmd \in Int
  BY DEF TypeOK, QueueTypeOK, Index
<1>3. TypeOK'
  BY TypeStep DEF Next, AddInv, CallInv, Adding
<1>4. currentCmd' \in Int
  BY <1>3 DEF TypeOK, QueueTypeOK, Index
<1> SUFFICES ASSUME Left' > 0
             PROVE  /\ currentCmd' + Left' = lastCmd' + 1
                    /\ \A i \in currentCmd'..lastCmd' : atCmdQueue'[i].atCmd # NoCmd
  BY DEF WindowInv
<1>5. currentCmd + Left = lastCmd + 1 /\ \A i \in currentCmd..lastCmd : atCmdQueue[i].atCmd # NoCmd
  BY <1>1 DEF Shrinks, WindowInv
<1>6. \A i \in currentCmd'..lastCmd' : i \in currentCmd..lastCmd
  BY <1>1, <1>2, <1>4 DEF Shrinks
<1>. QED
  BY <1>1, <1>5, <1>6 DEF Shrinks

\* What was loaded by a statement of the two is in memory until it is stored.
LEMMA OtherLoads ==
  ASSUME TypeOK, PassInv, WorkInv, FlagsInv, LoadInv, NEW t \in {"D", "R"},
         (t = "D" /\ Dispatcher) \/ (t = "R" /\ Responder)
  PROVE  LoadInv'
<1>0. PlaceTypes /\ Alone(t)
  BY TypesSplit, DispatcherAlone, ResponderAlone
<1>1. /\ pc'["T"] = pc["T"] /\ \A s \in {"D", "R"} : s # t => pc'[s] = "loop"
      /\ t \in Thread /\ t # "T" /\ t \in DOMAIN reg /\ "T" \in DOMAIN reg
  BY <1>0, OtherPass DEF Thread, TypeOK
<1>2. pc["T"] = "up_store" => Operand("T")' = commandCount'
  <2>1. reg'["T"] = reg["T"]
    <3>1. UNCHANGED reg \/ \E i, v : Load(t, i, v)
      <4>1. CASE t = "D"
        BY <4>1 DEF Dispatcher, Dispatch, ClearBuffer, Copy, Repeats, Send, StartTimer, StopTimer,
           TimedOut, UseRepeat, AdvanceQueue, SetStatus, SetExecute, SetRspWait, SetRecvd, Test, data,
           local
      <4>2. CASE t = "R"
        BY <4>2 DEF Responder, Receive, Urc, Callback, Switch, SetOutcome, InitQueue, StartTimer,
           StopTimer, UseRepeat, AdvanceQueue, SetStatus, SetExecute, SetRspWait, SetRecvd, Test, data,
           local
      <4>. QED
        BY <4>1, <4>2
    <3>. QED
      BY <1>1, <3>1 DEF Load
  <2>2. ASSUME pc["T"] = "up_store" PROVE UNCHANGED commandCount
    <3>1. UNCHANGED queue
      BY <2>2, OtherKeeps
    <3>. QED
      BY <3>1 DEF queue
  <2>. QED
    BY <2>1, <2>2 DEF LoadInv, Operand
<1>3. CASE \E b : b \notin {"repeat", "repeat_store", "current_store", "count_store"} /\ pc'[t] = b
  BY <1>1, <1>2, <1>3 DEF LoadInv
<1>4. CASE pc'[t] = "repeat"
  <2>1. CurrentSlot' = CurrentSlot /\ CurrentSlot.repCount > 0
    <3>1. CASE t = "D"
      <4>1. TimedOut /\ pc["D"] = "timed_out" /\ repeatCount > 0
        BY <1>0, <1>4, <3>1 DEF Dispatcher, Dispatch, ClearBuffer, Copy, Repeats, Send, StartTimer,
           StopTimer, TimedOut, UseRepeat, AdvanceQueue, SetStatus, SetExecute, SetRspWait, SetRecvd,
           Test, Step, Go, PlaceTypes, Thread
      <4>2. repeatCount = CurrentSlot.repCount
        BY <4>1 DEF FlagsInv
      <4>. QED
        BY <4>1, <4>2 DEF TimedOut, Test, data, queue, indices, CurrentSlot
    <3>2. CASE t = "R"
      <4>1. Test("R", "error", IF CurrentSlot.repCount > 0 THEN "repeat" ELSE "slots")
            /\ CurrentSlot.repCount > 0
        BY <1>0, <1>4, <3>2 DEF Responder, Receive, Urc, Callback, Switch, SetOutcome, InitQueue,
           AfterInit, StartTimer, StopTimer, UseRepeat, AdvanceQueue, SetStatus, SetExecute,
           SetRspWait, SetRecvd, Test, Step, Go, PlaceTypes, Thread
      <4>. QED
        BY <4>1 DEF Test, data, queue, indices, CurrentSlot
    <3>. QED
      BY <3>1, <3>2
  <2>. QED
    BY <1>1, <1>2, <1>4, <2>1 DEF LoadInv
<1>5. CASE pc'[t] = "repeat_store"
  <2>1. pc[t] = "repeat" /\ reg' = [reg EXCEPT ![t] = <<currentCmd, CurrentSlot.repCount>>]
        /\ UNCHANGED <<atCmdQueue, currentCmd>>
    <3>1. CASE t = "D"
      BY <1>0, <1>5, <3>1 DEF Dispatcher, Dispatch, ClearBuffer, Copy, Repeats, Send, StartTimer,
         StopTimer, TimedOut, UseRepeat, AdvanceQueue, SetStatus, SetExecute, SetRspWait, SetRecvd,
         Test, Step, Go, PlaceTypes, Thread, Load, indices
    <3>2. CASE t = "R"
      BY <1>0, <1>5, <3>2 DEF Responder, Receive, Urc, Callback, Switch, SetOutcome, InitQueue,
         AfterInit, StartTimer, StopTimer, UseRepeat, AdvanceQueue, SetStatus, SetExecute,
         SetRspWait, SetRecvd, Test, Step, Go, PlaceTypes, Thread, Load, indices
    <3>. QED
      BY <3>1, <3>2
  <2>2. reg'[t] = <<currentCmd, CurrentSlot.repCount>> /\ CurrentSlot' = CurrentSlot
    BY <1>1, <2>1 DEF CurrentSlot
  <2>3. CurrentSlot.repCount > 0
    BY <2>1 DEF LoadInv
  <2>. QED
    BY <1>1, <1>2, <1>5, <2>1, <2>2, <2>3 DEF LoadInv
<1>6. CASE pc'[t] = "current_store" \/ pc'[t] = "count_store"
  <2>1. /\ UNCHANGED <<currentCmd, commandCount>>
        /\ \/ pc'[t] = "current_store" /\ reg' = [reg EXCEPT ![t] = <<0, currentCmd>>]
           \/ pc'[t] = "count_store" /\ reg' = [reg EXCEPT ![t] = <<0, commandCount>>]
    <3>1. CASE t = "D"
      BY <1>0, <1>6, <3>1 DEF Dispatcher, Dispatch, ClearBuffer, Copy, Repeats, Send, StartTimer,
         StopTimer, TimedOut, UseRepeat, AdvanceQueue, SetStatus, SetExecute, SetRspWait, SetRecvd,
         Test, Step, Go, PlaceTypes, Thread, Load
    <3>2. CASE t = "R"
      BY <1>0, <1>6, <3>2 DEF Responder, Receive, Urc, Callback, Switch, SetOutcome, InitQueue,
         AfterInit, StartTimer, StopTimer, UseRepeat, AdvanceQueue, SetStatus, SetExecute,
         SetRspWait, SetRecvd, Test, Step, Go, PlaceTypes, Thread, Load
    <3>. QED
      BY <3>1, <3>2
  <2>. QED
    BY <1>1, <1>2, <1>6, <2>1 DEF LoadInv, Operand
<1>. QED
  BY <1>3, <1>4, <1>5, <1>6
LEMMA ResponderWork ==
  ASSUME TypeOK, PassInv, CallInv, WorkInv, FlagsInv, LoadInv, Responder
  PROVE  WorkInv' /\ FlagsInv'
<1>0. PlaceTypes /\ Alone("R")
  BY TypesSplit, ResponderAlone
<1>1. /\ pc'["T"] = pc["T"] /\ pc["D"] = "loop" /\ pc'["D"] = "loop"
      /\ pc["T"] \in Labels["T"]
  BY <1>0, OtherPass
<1>2. commandCount \in Uint8 /\ repeatCount \in Uint8
  BY DEF TypeOK, QueueTypeOK
<1>. USE <1>1, <1>2 DEF WorkInv, FlagsInv, AtQueueD, AtQueueR
<1>3. \A b : pc' = [pc EXCEPT !["R"] = b] => pc'["R"] = b
  BY <1>0 DEF PlaceTypes, Thread
<1>. USE <1>3
<1>4. CASE Receive \/ Urc
  <2>1. UNCHANGED <<atCmdQueue, currentCmd, commandCount, repeatCount, engine, cmd>>
    BY <1>4 DEF Receive, Urc, queue, indices, local
  <2>2. pc["R"] \in {"loop", "urc"} /\ pc'["R"] \in {"loop", "urc", "test"}
    BY <1>4 DEF Receive, Urc, Step, Go
  <2>. QED
    BY <2>1, <2>2 DEF engine, CurrentSlot
<1>5. CASE Test("R", "test", IF s_atExecute THEN "taken" ELSE "loop")
  BY <1>5 DEF Test, Step, Go, data, queue, indices, engine, local, CurrentSlot, Labels
<1>6. CASE SetExecute("R", "taken", "set_received", FALSE)
  BY <1>6 DEF SetExecute, Step, Go, queue, indices, local, CurrentSlot, Labels
<1>7. CASE SetRecvd("R", "set_received", "not_waiting", TRUE)
  BY <1>7 DEF SetRecvd, Step, Go, queue, indices, local, CurrentSlot, Labels
<1>8. CASE SetRspWait("R", "not_waiting", "stop", FALSE)
  BY <1>8 DEF SetRspWait, Step, Go, queue, indices, local, CurrentSlot, Labels
<1>9. CASE StopTimer("R", "stop", "stopped", "callback") \/ StartTimer("R", "loop")
  BY <1>9 DEF StopTimer, StartTimer, Step, Go, queue, indices, engine, local, CurrentSlot, Labels
<1>10. CASE \/ Test("R", "callback", IF CurrentSlot.rspFunc # NoFunc THEN "invoke" ELSE "loop")
            \/ Test("R", "error", IF CurrentSlot.repCount > 0 THEN "repeat" ELSE "slots")
            \/ Test("R", "accept", IF commandCount > 0 THEN "succeed" ELSE "status")
  BY <1>10 DEF Test, Step, Go, data, queue, indices, engine, local, CurrentSlot, Labels
<1>11. CASE Callback
  BY <1>11 DEF Callback, Step, Go, indices, engine, local, CurrentSlot, Labels
<1>12. CASE Switch
  BY <1>12 DEF Switch, Test, Step, Go, data, queue, indices, engine, local, CurrentSlot, Labels
<1>13. CASE SetOutcome("nok", "status", NOK_OPER)
            \/ SetOutcome("succeed", "current", CurrentSlot.successStatus)
  BY <1>13 DEF SetOutcome, Step, Go, indices, engine, local, CurrentSlot, Labels
<1>14. CASE SetStatus("R", "status", "loop", "RSP_WAIT") \/ SetStatus("R", "wait", "arm", "IDLE")
  BY <1>14 DEF SetStatus, Step, Go, queue, indices, local, CurrentSlot, Labels
<1>15. CASE UseRepeat("R", "nok") \/ AdvanceQueue("R", "status") \/ InitQueue("R")
  <2>1. ~s_atExecute /\ ~modemRspWait /\ pc["T"] = "poll"
    BY <1>15 DEF UseRepeat, AdvanceQueue, InitQueue, Step, Go
  <2>2. UNCHANGED engine
    BY <1>15 DEF UseRepeat, AdvanceQueue, InitQueue
  <2>3. FlagsInv'
    BY <2>1, <2>2 DEF engine
  <2>4. ~s_atExecute' /\ pc'["T"] = "poll"
    BY <2>1, <2>2 DEF engine
  <2>5. pc'["R"] \in AtQueueR => commandCount' > 0
    <3>1. CASE UseRepeat("R", "nok")
      BY <3>1 DEF UseRepeat, Step, Go
    <3>2. CASE AdvanceQueue("R", "status")
      BY <3>2 DEF AdvanceQueue, Step, Go
    <3>3. CASE InitQueue("R")
      BY <3>3 DEF InitQueue, AfterInit, Step, Go
    <3>. QED
      BY <1>15, <3>1, <3>2, <3>3
  <2>6. WorkInv'
    BY <2>4, <2>5
  <2>. QED
    BY <2>3, <2>6
<1>. QED
  BY <1>4, <1>5, <1>6, <1>7, <1>8, <1>9, <1>10, <1>11, <1>12, <1>13, <1>14, <1>15, Zenon DEF Responder
-------------------------------------------------------------------------------
(* The modem, the ticks, and the theorems. *)

LEMMA TickPass ==
  ASSUME TypeOK, {"D", "R"} \subseteq Whole, PassInv, Tick PROVE PassInv'
<1>1. pc["D"] = "loop" /\ pc["R"] = "loop"
  <2>1. ASSUME NEW t \in {"D", "R"} PROVE pc[t] = "loop"
    <3>1. CASE running = t
      <4>1. pc[t] \in Heads /\ pc[t] \in Labels[t]
        BY <3>1 DEF Tick, TypeOK, Thread
      <4>. QED
        BY <4>1 DEF Heads, Labels
    <3>2. CASE running # t
      BY <3>2 DEF PassInv
    <3>. QED
      BY <3>1, <3>2
  <2>. QED
    BY <2>1
<1>. QED
  BY <1>1 DEF Tick, PassInv

LEMMA ModemPasses ==
  ASSUME TypeOK, {"D", "R"} \subseteq Whole, PassInv,
         \/ (\E u \in Unsolicited : Speak(u)) \/ Deliver
         \/ SysTick \/ TimerExpires \/ UNCHANGED vars
  PROVE  PassInv' /\ UNCHANGED <<queue, engine, responseRecvBuffer, local, granted, pc>>
<1>1. CASE SysTick \/ TimerExpires
  BY <1>1, TickPass DEF SysTick, TimerExpires, Tick
<1>2. CASE (\E u \in Unsolicited : Speak(u)) \/ Deliver \/ UNCHANGED vars
  BY <1>2 DEF Speak, Deliver, vars, data, PassInv
<1>. QED
  BY <1>1, <1>2

Conjuncts == /\ PassInv /\ CallInv /\ WorkInv /\ FlagsInv /\ WindowInv /\ LoadInv
             /\ RepeatsLeft

LEMMA ModemKeeps ==
  ASSUME CallInv, WorkInv, FlagsInv, WindowInv, LoadInv, RepeatsLeft,
         UNCHANGED <<queue, engine, local, pc>>
  PROVE  CallInv' /\ WorkInv' /\ FlagsInv' /\ WindowInv' /\ LoadInv' /\ RepeatsLeft'
<1>0. UNCHANGED <<CurrentSlot, Left, Adding>>
  BY DEF queue, indices, local, CurrentSlot, Left, Advancing, Adding
<1>1. CallInv' /\ WorkInv' /\ RepeatsLeft'
  BY <1>0 DEF queue, indices, engine, local, CallInv, WorkInv, RepeatsLeft
<1>2. FlagsInv' /\ LoadInv'
  BY <1>0 DEF queue, indices, engine, local, FlagsInv, LoadInv, Operand
<1>3. WindowInv'
  BY <1>0 DEF queue, indices, WindowInv
<1>. QED
  BY <1>1, <1>2, <1>3

\* With whole passes, every step keeps what relates the threads, the flags and the queue.
LEMMA ExecStep ==
  ASSUME TypeOK, {"D", "R"} \subseteq Whole, Conjuncts, [Next]_vars
  PROVE  Conjuncts'
<1>. USE DEF Conjuncts
<1>0. PlaceTypes
  BY TypesSplit
<1>1. CASE Tester
  <2>1. PassInv' /\ CallInv'
    BY <1>0, <1>1, TesterAlone, TesterPass, TesterCalls
  <2>2. WorkInv' /\ FlagsInv' /\ LoadInv' /\ RepeatsLeft'
    BY <1>1, TesterWork, TesterRepeats
  <2>3. WindowInv'
    BY <1>1, <2>1, TesterWindow
  <2>. QED
    BY <2>1, <2>2, <2>3
<1>2. CASE Dispatcher
  <2>1. PassInv' /\ CallInv'
    BY <1>0, <1>2, DispatcherAlone, OtherPass, OtherCalls
  <2>2. WorkInv' /\ FlagsInv' /\ WindowInv'
    BY <1>2, DispatcherWork, DispatcherFlags, OtherWindow
  <2>3. LoadInv' /\ RepeatsLeft'
    BY <1>2, OtherLoads, OtherRepeats
  <2>. QED
    BY <2>1, <2>2, <2>3
<1>3. CASE Responder
  <2>1. PassInv' /\ CallInv'
    BY <1>0, <1>3, ResponderAlone, OtherPass, OtherCalls
  <2>2. WorkInv' /\ FlagsInv' /\ WindowInv'
    BY <1>3, ResponderWork, OtherWindow
  <2>3. LoadInv' /\ RepeatsLeft'
    BY <1>3, OtherLoads, OtherRepeats
  <2>. QED
    BY <2>1, <2>2, <2>3
<1>4. CASE \/ (\E u \in Unsolicited : Speak(u)) \/ Deliver
           \/ SysTick \/ TimerExpires \/ UNCHANGED vars
  BY <1>4, ModemPasses, ModemKeeps
<1>. QED
  BY <1>1, <1>2, <1>3, <1>4 DEF Next

\* When no tick cuts a pass of the dispatcher or of the response processor, one of them
\* works at a time and only while the tester waits, the flags tell which command is under
\* execution, the commands that wait are the slots from currentCmd to lastCmd, and no
\* loaded operand is overtaken by a store.
THEOREM ExecInvariant == Spec => []ExecInv
<1>1. CASE {"D", "R"} \subseteq Whole
  <2>1. Init => TypeOK /\ Conjuncts
    BY InitTypes, InitPass DEF Conjuncts
  <2>2. TypeOK /\ Conjuncts /\ [Next]_vars => Conjuncts'
    BY <1>1, ExecStep
  <2>3. Conjuncts => ExecInv
    BY DEF Conjuncts, ExecInv
  <2>. QED
    BY <2>1, <2>2, <2>3, ExecTypes, PTL DEF Spec
<1>2. CASE ~({"D", "R"} \subseteq Whole)
  <2>1. ExecInv
    BY <1>2 DEF ExecInv
  <2>. QED
    BY <2>1, PTL
<1>. QED
  BY <1>1, <1>2

\* No interleaving of whole passes sends a command more than repCount + 1 times.
THEOREM RepeatsAreLeft == {"D", "R"} \subseteq Whole => (Spec => []RepeatsLeft)
<1> SUFFICES ASSUME {"D", "R"} \subseteq Whole PROVE Spec => []RepeatsLeft
  OBVIOUS
<1>1. ExecInv => RepeatsLeft
  BY DEF ExecInv
<1>. QED
  BY <1>1, ExecInvariant, PTL

\* With whole passes the dispatcher never sends an emptied slot, and nothing while a call
\* fills the queue: it reads a slot of the window that cannot change until it is sent.
THEOREM OnlyQueuedAreSent == {"D", "R"} \subseteq Whole => (Spec => []SendsQueued)
<1> SUFFICES ASSUME {"D", "R"} \subseteq Whole PROVE Spec => []SendsQueued
  OBVIOUS
<1>1. TypeOK /\ ExecInv => SendsQueued
  <2> SUFFICES ASSUME TypeOK, ExecInv, pc["D"] = "send"
               PROVE  cmd.atCmd # NoCmd /\ pc["T"] \in {"poll", "result"}
    BY DEF SendsQueued
  <2>1. pc["R"] = "loop"
    BY DEF ExecInv, PassInv
  <2>2. pc["T"] = "poll" /\ commandCount > 0
    BY DEF ExecInv, WorkInv, AtQueueD, Labels
  <2>3. cmd = CurrentSlot
    BY DEF ExecInv, FlagsInv
  <2>4. Left = commandCount
    BY <2>1, <2>2 DEF Left, Advancing, Adding
  <2>5. currentCmd + commandCount = lastCmd + 1
    BY <2>2, <2>4 DEF ExecInv, WindowInv
  <2>6. commandCount \in Int /\ currentCmd \in Int /\ lastCmd \in Int
    BY DEF TypeOK, QueueTypeOK, Uint8, Index
  <2>7. currentCmd \in currentCmd..lastCmd
    BY <2>2, <2>5, <2>6
  <2>8. CurrentSlot.atCmd # NoCmd
    BY <2>2, <2>4, <2>7 DEF ExecInv, WindowInv, CurrentSlot
  <2>. QED
    BY <2>2, <2>3, <2>8
<1>. QED
  BY <1>1, ExecTypes, ExecInvariant, PTL
-------------------------------------------------------------------------------
(* What a call reports, when the modem is faithful. *)

\* The slot under execution is the first of those that wait.
LEMMA WindowHead ==
  ASSUME TypeOK, WindowInv, commandCount > 0, Left = commandCount
  PROVE  /\ currentCmd \in currentCmd..lastCmd /\ currentCmd \in Index
         /\ CurrentSlot.atCmd # NoCmd /\ CurrentSlot \in Slot
<1>1. commandCount \in Int /\ currentCmd \in Int /\ lastCmd \in Int /\ currentCmd \in Index
  BY DEF TypeOK, QueueTypeOK, Uint8, Index
<1>2. currentCmd \in currentCmd..lastCmd
  BY <1>1 DEF WindowInv
<1>3. CurrentSlot.atCmd # NoCmd
  BY <1>2 DEF WindowInv, CurrentSlot
<1>. QED
  BY <1>1, <1>2, <1>3, CurrentSlotType DEF TypeOK

LEMMA WorkHead ==
  ASSUME TypeOK, Conjuncts,
         \/ pc["D"] \in AtQueueD /\ pc["D"] \notin {"count_down", "count_store"}
         \/ pc["R"] \in AtQueueR /\ pc["R"] \notin {"count_down", "count_store"}
         \/ s_atExecute /\ pc["D"] \notin {"count_down", "count_store", "dropped"}
  PROVE  /\ pc["T"] = "poll" /\ commandCount > 0 /\ Left = commandCount
         /\ currentCmd \in currentCmd..lastCmd /\ currentCmd \in Index
         /\ CurrentSlot.atCmd # NoCmd /\ CurrentSlot \in Slot
<1>1. pc["T"] = "poll" /\ commandCount > 0
  BY DEF Conjuncts, WorkInv
<1>2. /\ pc["D"] \notin {"count_down", "count_store"}
      /\ pc["R"] \notin {"count", "count_down", "count_store"}
  <2>1. pc["D"] = "loop" \/ pc["R"] = "loop"
    BY DEF Conjuncts, PassInv
  <2>2. "loop" \notin AtQueueD /\ "loop" \notin AtQueueR /\ "count" \notin AtQueueR
    BY DEF AtQueueD, AtQueueR
  <2>3. s_atExecute => pc["R"] \in {"loop", "urc", "test", "taken"}
    BY DEF Conjuncts, FlagsInv
  <2>. QED
    BY <2>1, <2>2, <2>3
<1>3. Left = commandCount
  BY <1>1, <1>2 DEF Left, Advancing, Adding
<1>. QED
  BY <1>1, <1>3, WindowHead DEF Conjuncts

\* What a step may make of a slot.
LEMMA SlotStep ==
  ASSUME TypeOK, Next, NEW i \in Index
  PROVE  \/ atCmdQueue'[i] = atCmdQueue[i]
         \/ atCmdQueue'[i].atCmd = NoCmd
         \/ \E c \in Command : atCmdQueue'[i] = Stored(c)
         \/ \E n : atCmdQueue'[i] = [atCmdQueue[i] EXCEPT !.repCount = n]
<1>0. DOMAIN atCmdQueue = Index
  BY DEF TypeOK, QueueTypeOK
<1>1. CASE UNCHANGED atCmdQueue
  BY <1>1
<1>2. CASE atCmdQueue' = EmptySlots
  BY <1>2 DEF EmptySlots, EmptySlot
<1>3. ASSUME NEW t \in {"D", "R"}, NEW b, UseRepeat(t, b)
      PROVE  \E n : atCmdQueue'[i] = [atCmdQueue[i] EXCEPT !.repCount = n]
  <2>1. CASE UNCHANGED atCmdQueue
    <3>1. atCmdQueue[i] \in Slot
      BY DEF TypeOK, QueueTypeOK
    <3>2. atCmdQueue[i] = [atCmdQueue[i] EXCEPT !.repCount = atCmdQueue[i].repCount]
      BY <3>1 DEF Slot
    <3>. QED
      BY <2>1, <3>2
  <2>2. CASE atCmdQueue' = [atCmdQueue EXCEPT ![reg[t][1]].repCount = Dec8(Operand(t))]
    <3>1. CASE i = reg[t][1]
      <4>1. atCmdQueue'[i] = [atCmdQueue[i] EXCEPT !.repCount = Dec8(Operand(t))]
        BY <1>0, <2>2, <3>1
      <4>. QED
        BY <4>1
    <3>2. CASE i # reg[t][1]
      <4>1. atCmdQueue'[i] = atCmdQueue[i]
        BY <1>0, <2>2, <3>2
      <4>2. atCmdQueue[i] \in Slot
        BY DEF TypeOK, QueueTypeOK
      <4>3. atCmdQueue[i] = [atCmdQueue[i] EXCEPT !.repCount = atCmdQueue[i].repCount]
        BY <4>2 DEF Slot
      <4>. QED
        BY <4>1, <4>3
    <3>. QED
      BY <3>1, <3>2
  <2>. QED
    BY <1>3, <2>1, <2>2 DEF UseRepeat
<1>4. CASE Store
  <2>1. Head(batch) \in Command
    BY <1>4, HeadType, QueuedAreCommands DEF Store, TypeOK
  <2>2. atCmdQueue'[i] = atCmdQueue[i] \/ atCmdQueue'[i] = Stored(Head(batch))
    BY <1>0, <1>4 DEF Store
  <2>. QED
    BY <2>1, <2>2
<1>5. CASE Enter
  <2>1. atCmdQueue'[i] = atCmdQueue[i] \/ atCmdQueue'[i] = Removed(atCmdQueue[i])
    BY <1>5 DEF Enter, DelAtCmdHead
  <2>2. Removed(atCmdQueue[i]).atCmd = NoCmd
    BY DEF Removed, EmptySlot
  <2>. QED
    BY <2>1, <2>2
<1>6. CASE Tester
  <2>1. UNCHANGED atCmdQueue \/ atCmdQueue' = EmptySlots \/ Store \/ Enter
    BY <1>6 DEF Tester, Proceed, InitQueue, SetWrite, Refused, More, CountUp, Poll, Return, Call, Test,
       data, queue
  <2>. QED
    BY <1>1, <1>2, <1>4, <1>5, <2>1
<1>7. CASE Dispatcher
  <2>1. UNCHANGED atCmdQueue \/ UseRepeat("D", "not_executing")
    BY <1>7 DEF Dispatcher, Dispatch, ClearBuffer, Copy, Repeats, Send, StartTimer, StopTimer, TimedOut,
       AdvanceQueue, SetStatus, SetExecute, SetRspWait, SetRecvd, Test, data, queue
  <2>. QED
    BY <1>1, <1>3, <2>1
<1>8. CASE Responder
  <2>1. UNCHANGED atCmdQueue \/ atCmdQueue' = EmptySlots \/ UseRepeat("R", "nok")
    BY <1>8 DEF Responder, Receive, Urc, Callback, Switch, SetOutcome, InitQueue, StartTimer, StopTimer,
       AdvanceQueue, SetStatus, SetExecute, SetRspWait, SetRecvd, Test, data, queue
  <2>. QED
    BY <1>1, <1>2, <1>3, <2>1
<1>9. CASE (\E u \in Unsolicited : Speak(u)) \/ Deliver \/ SysTick \/ TimerExpires
  BY <1>1, <1>9 DEF Speak, Deliver, SysTick, TimerExpires, Tick, data, queue
<1>. QED
  BY <1>6, <1>7, <1>8, <1>9 DEF Next

SlotDelays == \A i \in Index : atCmdQueue[i].atCmd # NoCmd => atCmdQueue[i].rspDelay # 0

LEMMA DelayStep ==
  ASSUME TypeOK, Faithful, SlotDelays, [Next]_vars PROVE SlotDelays'
<1> SUFFICES ASSUME NEW i \in Index, atCmdQueue'[i].atCmd # NoCmd
             PROVE  atCmdQueue'[i].rspDelay # 0
  BY DEF SlotDelays
<1>1. CASE UNCHANGED vars
  BY <1>1 DEF vars, data, queue, SlotDelays
<1>2. CASE Next
  <2>1. CASE atCmdQueue'[i] = atCmdQueue[i]
    BY <2>1 DEF SlotDelays
  <2>2. ASSUME NEW c \in Command, atCmdQueue'[i] = Stored(c) PROVE atCmdQueue'[i].rspDelay # 0
    <3>1. Stored(c).rspDelay = c.rspDelay /\ c.rspDelay \in Delay
      BY DEF Stored, Command
    <3>. QED
      BY <2>2, <3>1 DEF Faithful
  <2>3. ASSUME NEW n, atCmdQueue'[i] = [atCmdQueue[i] EXCEPT !.repCount = n]
        PROVE  atCmdQueue'[i].rspDelay # 0
    <3>1. atCmdQueue[i] \in Slot
      BY DEF TypeOK, QueueTypeOK
    <3>2. /\ atCmdQueue'[i].atCmd = atCmdQueue[i].atCmd
          /\ atCmdQueue'[i].rspDelay = atCmdQueue[i].rspDelay
      BY <2>3, <3>1 DEF Slot
    <3>. QED
      BY <3>2 DEF SlotDelays
  <2>. QED
    BY <1>2, <2>1, <2>2, <2>3, SlotStep
<1>. QED
  BY <1>1, <1>2
LEMMA DelayIsPositive ==
  ASSUME TypeOK, Faithful, TimerInv, CurrentSlot.atCmd # NoCmd
  PROVE  CurrentSlot.rspDelay > 0
<1>1. CurrentSlot.rspDelay # 0
  BY DEF TimerInv, CurrentSlot, TypeOK, QueueTypeOK
<1>2. CurrentSlot.rspDelay \in Nat
  <2>1. CurrentSlot \in Slot
    BY CurrentSlotType DEF TypeOK
  <2>2. CurrentSlot.rspDelay \in Delay \cup {0}
    BY <2>1, SlotFacts
  <2>3. Delay \cup {0} \subseteq Nat
    BY NamesAssumption
  <2>. QED
    BY <2>2, <2>3
<1>. QED
  BY <1>1, <1>2

\* The part of TimerInv about the timer itself.
Armed == /\ delayTimerStart \/ (\E t \in {"D", "R"} : pc[t] = "start") => respTimeOut > 0
         /\ (\E t \in {"D", "R"} : pc[t] \in {"stopped", "idle_stopped"}) => ~delayTimerStart
         /\ pc["R"] \in {"wait", "arm"} => CurrentSlot.atCmd # NoCmd
         /\ timeOutFlag /\ pc["D"] # "arm" => ~Flying

LEMMA TimerParts == TimerInv <=> SlotDelays /\ Armed
  BY DEF TimerInv, SlotDelays, Armed
LEMMA TimerPartsNext == TimerInv' <=> SlotDelays' /\ Armed'
  BY DEF TimerInv, SlotDelays, Armed

LEMMA TesterTimer ==
  ASSUME TypeOK, PassInv, Armed, Tester PROVE Armed'
<1>1. /\ pc["D"] = "loop" /\ pc["R"] = "loop" /\ pc'["D"] = "loop" /\ pc'["R"] = "loop"
  BY TypesSplit, TesterAlone, TesterPass
<1>2. UNCHANGED <<timer, modem>>
  BY TesterKeeps
<1>. QED
  BY <1>1, <1>2 DEF Armed, timer, modem, Flying

LEMMA DispatcherTimer ==
  ASSUME TypeOK, Faithful, Conjuncts, TimerInv, Armed, Dispatcher PROVE Armed'
<1>0. PlaceTypes /\ Alone("D")
  BY TypesSplit, DispatcherAlone
<1>1. pc["R"] = "loop" /\ pc'["R"] = "loop"
  BY <1>0, OtherPass DEF Conjuncts
<1>2. CASE StartTimer("D", "waiting")
  <2>1. UNCHANGED modem
    BY <1>2 DEF StartTimer, Step
  <2>2. CASE pc["D"] = "arm"
    <3>1. /\ pc'["D"] = "start" /\ delayTimerStart' = FALSE /\ timeOutFlag' = FALSE
          /\ respTimeOut' = CurrentSlot.rspDelay
      BY <1>0, <1>2, <2>2 DEF StartTimer, Step, Go, PlaceTypes, Thread
    <3>2. CurrentSlot.rspDelay > 0
      <4>1. pc["D"] \in AtQueueD
        BY <2>2 DEF AtQueueD, Labels
      <4>. QED
        BY <2>2, <4>1, WorkHead, DelayIsPositive
    <3>. QED
      BY <1>1, <3>1, <3>2 DEF Armed
  <2>3. CASE pc["D"] # "arm"
    <3>1. /\ pc["D"] = "start" /\ pc'["D"] = "waiting" /\ UNCHANGED <<respTimeOut, timeOutFlag>>
      BY <1>0, <1>2, <2>3 DEF StartTimer, Step, Go, PlaceTypes, Thread
    <3>. QED
      BY <1>1, <2>1, <3>1 DEF Armed, modem, Flying
  <2>. QED
    BY <2>2, <2>3
<1>3. CASE \/ StopTimer("D", "stop", "stopped", "received")
           \/ StopTimer("D", "idle_stop", "idle_stopped", "loop")
  <2>1. UNCHANGED modem /\ pc["D"] # "arm" /\ (timeOutFlag' => timeOutFlag)
    BY <1>3 DEF StopTimer, Step, Go
  <2>2. delayTimerStart' = FALSE /\ pc'["D"] # "start"
    BY <1>0, <1>3 DEF StopTimer, Step, Go, PlaceTypes, Thread, Armed
  <2>. QED
    BY <1>1, <2>1, <2>2 DEF Armed, modem, Flying
<1>4. CASE \E a \in Answers \cup {""} : Send(a)
  <2>1. pc'["D"] = "arm" /\ UNCHANGED timer
    BY <1>0, <1>4 DEF Send, Go, PlaceTypes, Thread
  <2>. QED
    BY <1>1, <2>1 DEF Armed, timer
<1>5. CASE ~StartTimer("D", "waiting") /\ ~StopTimer("D", "stop", "stopped", "received")
           /\ ~StopTimer("D", "idle_stop", "idle_stopped", "loop")
           /\ ~(\E a \in Answers \cup {""} : Send(a))
  <2>1. UNCHANGED <<timer, modem>>
    BY <1>5 DEF Dispatcher, Dispatch, ClearBuffer, Copy, Repeats, TimedOut, UseRepeat, AdvanceQueue,
       SetStatus, SetExecute, SetRspWait, SetRecvd, Test, Step, data
  <2>2. pc["D"] # "arm" /\ pc'["D"] \notin {"start", "stopped", "idle_stopped"}
    BY <1>0, <1>5 DEF Dispatcher, Dispatch, ClearBuffer, Copy, Repeats, TimedOut, UseRepeat,
       AdvanceQueue, SetStatus, SetExecute, SetRspWait, SetRecvd, Test, Step, Go, PlaceTypes, Thread
  <2>. QED
    BY <1>1, <2>1, <2>2 DEF Armed, timer, modem, Flying
<1>. QED
  BY <1>2, <1>3, <1>4, <1>5

LEMMA ResponderTimer ==
  ASSUME TypeOK, Faithful, Conjuncts, TimerInv, Armed, Responder PROVE Armed'
<1>0. PlaceTypes /\ Alone("R")
  BY TypesSplit, ResponderAlone
<1>1. pc["D"] = "loop" /\ pc'["D"] = "loop"
  BY <1>0, OtherPass DEF Conjuncts
<1>2. CASE StartTimer("R", "loop")
  <2>1. UNCHANGED modem
    BY <1>2 DEF StartTimer, Step
  <2>2. CASE pc["R"] = "arm"
    <3>1. /\ pc'["R"] = "start" /\ delayTimerStart' = FALSE /\ timeOutFlag' = FALSE
          /\ respTimeOut' = CurrentSlot.rspDelay
      BY <1>0, <1>2, <2>2 DEF StartTimer, Step, Go, PlaceTypes, Thread
    <3>2. CurrentSlot.rspDelay > 0
      BY <2>2, DelayIsPositive DEF Armed
    <3>. QED
      BY <1>1, <3>1, <3>2 DEF Armed
  <2>3. CASE pc["R"] # "arm"
    <3>1. /\ pc["R"] = "start" /\ pc'["R"] = "loop" /\ UNCHANGED <<respTimeOut, timeOutFlag>>
      BY <1>0, <1>2, <2>3 DEF StartTimer, Step, Go, PlaceTypes, Thread
    <3>. QED
      BY <1>1, <2>1, <3>1 DEF Armed, modem, Flying
  <2>. QED
    BY <2>2, <2>3
<1>3. CASE StopTimer("R", "stop", "stopped", "callback")
  <2>1. UNCHANGED modem /\ (timeOutFlag' => timeOutFlag)
    BY <1>3 DEF StopTimer, Step, Go
  <2>2. delayTimerStart' = FALSE /\ pc'["R"] \in {"stopped", "callback"}
    BY <1>0, <1>3 DEF StopTimer, Step, Go, PlaceTypes, Thread, Armed
  <2>. QED
    BY <1>1, <2>1, <2>2 DEF Armed, modem, Flying
<1>4. CASE ~StartTimer("R", "loop") /\ ~StopTimer("R", "stop", "stopped", "callback")
  <2>1. UNCHANGED timer /\ (Flying' => Flying)
    BY <1>4 DEF Responder, Receive, Urc, Callback, Switch, SetOutcome, InitQueue, UseRepeat,
       AdvanceQueue, SetStatus, SetExecute, SetRspWait, SetRecvd, Test, Step, data, modem, Flying
  <2>2. pc'["R"] \notin {"start", "stopped"}
    BY <1>0, <1>4 DEF Responder, Receive, Urc, Callback, Switch, SetOutcome, InitQueue, AfterInit,
       UseRepeat, AdvanceQueue, SetStatus, SetExecute, SetRspWait, SetRecvd, Test, Step, Go,
       PlaceTypes, Thread
  <2>3. ASSUME pc'["R"] \in {"wait", "arm"} PROVE CurrentSlot'.atCmd # NoCmd
    <3>1. \/ Switch /\ pc["R"] = "switch"
          \/ SetStatus("R", "wait", "arm", "IDLE") /\ pc["R"] = "wait"
      BY <1>0, <1>4, <2>3 DEF Responder, Receive, Urc, Callback, Switch, SetOutcome, InitQueue,
         AfterInit, UseRepeat, AdvanceQueue, SetStatus, SetExecute, SetRspWait, SetRecvd, Test, Step,
         Go, PlaceTypes, Thread
    <3>2. CurrentSlot' = CurrentSlot
      BY <3>1 DEF Switch, Test, SetStatus, data, queue, indices, CurrentSlot
    <3>3. CurrentSlot.atCmd # NoCmd
      <4>1. CASE pc["R"] = "switch"
        <5>1. pc["R"] \in AtQueueR
          BY <4>1 DEF AtQueueR
        <5>. QED
          BY <4>1, <5>1, WorkHead
      <4>2. CASE pc["R"] = "wait"
        BY <4>2 DEF Armed
      <4>. QED
        BY <3>1, <4>1, <4>2
    <3>. QED
      BY <3>2, <3>3
  <2>4. pc'["R"] # "idle_stopped"
    BY <1>0 DEF Alone, Labels
  <2>. QED
    BY <1>1, <2>1, <2>2, <2>3, <2>4 DEF Armed, timer
<1>. QED
  BY <1>2, <1>3, <1>4

LEMMA ModemTimer ==
  ASSUME TypeOK, Faithful, Armed,
         \/ (\E u \in Unsolicited : Speak(u)) \/ Deliver \/ SysTick \/ TimerExpires
         \/ UNCHANGED vars
  PROVE  Armed'
<1>1. CASE Deliver
  <2>1. UNCHANGED <<timer, queue, pc>> /\ Flying
    BY <1>1 DEF Deliver, data, Flying
  <2>. QED
    BY <2>1 DEF Armed, timer, queue, indices, CurrentSlot
<1>2. CASE SysTick \/ UNCHANGED vars
  <2>1. UNCHANGED <<timer, queue, pc, modem>>
    BY <1>2 DEF SysTick, Tick, vars, data
  <2>. QED
    BY <2>1 DEF Armed, timer, queue, indices, CurrentSlot, modem, Flying
<1>3. CASE TimerExpires
  <2>1. UNCHANGED <<queue, pc, modem, respTimeOut>> /\ delayTimerStart /\ delayTimerStart' = FALSE
    BY <1>3 DEF TimerExpires, Tick, MayRunOut, RunsOut
  <2>2. respTimeOut > 0 /\ ~Flying
    BY <1>3, <2>1 DEF TimerExpires, MayRunOut, Armed, Faithful, Flying
  <2>. QED
    BY <2>1, <2>2 DEF Armed, queue, indices, CurrentSlot, modem, Flying
<1>. QED
  BY <1>1, <1>2, <1>3 DEF Faithful

LEMMA TimerStep ==
  ASSUME TypeOK, Faithful, Conjuncts, TimerInv, [Next]_vars PROVE TimerInv'
<1>1. SlotDelays /\ Armed
  BY TimerParts
<1>2. SlotDelays'
  BY <1>1, DelayStep
<1>3. Armed'
  <2>1. PassInv
    BY DEF Conjuncts
  <2>. QED
    BY <1>1, <2>1, TesterTimer, DispatcherTimer, ResponderTimer, ModemTimer DEF Next
<1>. QED
  BY <1>2, <1>3, TimerPartsNext
\* A message has come in.
Held == inbox # ""

LEMMA FlyingFacts == /\ Flying <=> air # <<>> \/ Held
                     /\ Flying' <=> air' # <<>> \/ Held'
  BY DEF Flying, Held
LEMMA HeldFacts == UNCHANGED inbox => (Held' <=> Held)
  BY DEF Held

\* The parts of AnswerInv: what is under way, and what the response processor holds.
Airborne ==
  /\ air = <<>> \/ ~Held
  /\ Len(air) <= 1
  /\ Flying => /\ s_atExecute /\ pc["R"] = "loop"
               /\ pc["D"] \in {"loop", "arm", "start", "waiting", "sent", "received", "again"}
  /\ \A k \in 1..Len(air) : TellsCurrent(air[k])
  /\ Held => TellsCurrent(inbox)
InHand ==
  /\ pc["R"] \in {"urc", "test", "taken", "set_received", "not_waiting", "stop", "stopped",
                  "callback", "invoke"} => TellsCurrent(responseRecvBuffer)
  /\ pc["R"] = "switch" =>
       currentCmdRet \in {"ERROR", "WAIT"} \/ CurrentSlot.atCmd \in granted
  /\ pc["R"] \in {"accept", "succeed"} => CurrentSlot.atCmd \in granted

LEMMA AnswerParts == AnswerInv <=> Airborne /\ InHand
  BY DEF AnswerInv, Airborne, InHand, Held
LEMMA AnswerPartsNext == AnswerInv' <=> Airborne' /\ InHand'
  BY DEF AnswerInv, Airborne, InHand, Held

LEMMA EmptyAir == ASSUME air' = <<>>, ~Held' PROVE Airborne'
<1>1. Len(air') = 0 /\ \A k \in 1..Len(air') : FALSE
  OBVIOUS
<1>2. ~Flying'
  BY FlyingFacts
<1>. QED
  BY <1>1, <1>2 DEF Airborne

\* A step that changes none of these keeps what is under way.
LEMMA SameAir ==
  ASSUME Airborne, UNCHANGED <<air, inbox, s_atExecute, atCmdQueue, currentCmd, granted>>,
         pc'["R"] = "loop",
         pc'["D"] \in {"loop", "arm", "start", "waiting", "sent", "received", "again"}
  PROVE  Airborne'
<1>1. (Held' <=> Held) /\ (Flying' <=> Flying)
  BY HeldFacts, FlyingFacts
<1>. QED
  BY <1>1 DEF Airborne, TellsCurrent, CurrentSlot

LEMMA TesterAnswer ==
  ASSUME TypeOK, Conjuncts, Airborne, Tester PROVE Airborne' /\ InHand'
<1>0. PlaceTypes
  BY TypesSplit
<1>1. /\ pc["D"] = "loop" /\ pc["R"] = "loop" /\ pc'["D"] = "loop" /\ pc'["R"] = "loop"
  BY <1>0, TesterAlone, TesterPass DEF Conjuncts
<1>2. InHand'
  BY <1>1 DEF InHand
<1>3. UNCHANGED <<air, inbox, s_atExecute>>
  BY TesterKeeps DEF modem, engine
<1>4. CASE Flying
  <2>1. pc["T"] = "poll"
    BY <1>4 DEF Airborne, Conjuncts, WorkInv
  <2>2. UNCHANGED <<atCmdQueue, currentCmd, granted>>
    BY <1>0, <2>1, PollKeeps DEF data, queue, indices
  <2>. QED
    BY <1>1, <1>2, <1>3, <2>2, SameAir
<1>5. CASE ~Flying
  BY <1>2, <1>3, <1>5, FlyingFacts, HeldFacts, EmptyAir
<1>. QED
  BY <1>4, <1>5

LEMMA DispatcherAnswer ==
  ASSUME TypeOK, Faithful, Conjuncts, TimerInv, Airborne, Dispatcher PROVE Airborne' /\ InHand'
<1>0. PlaceTypes /\ Alone("D")
  BY TypesSplit, DispatcherAlone
<1>1. pc["R"] = "loop" /\ pc'["R"] = "loop"
  BY <1>0, OtherPass DEF Conjuncts
<1>2. InHand'
  BY <1>1 DEF InHand
<1>3. ASSUME NEW a, a \in Answers \cup {""}, Send(a) PROVE Airborne'
  <2>1. /\ pc["D"] = "send" /\ pc'["D"] = "arm"
        /\ UNCHANGED <<atCmdQueue, currentCmd, s_atExecute, inbox>>
    BY <1>0, <1>3, Zenon DEF Send, Go, PlaceTypes, Thread, queue, indices, engine
  <2>2. ~Flying /\ s_atExecute /\ cmd = CurrentSlot
    BY <2>1 DEF Airborne, Conjuncts, FlagsInv
  <2>3. air = <<>> /\ ~Held /\ ~Held'
    BY <2>1, <2>2, FlyingFacts, HeldFacts
  <2>4. CASE a = ""
    <3>1. air' = air
      BY <1>3, <2>4 DEF Send
    <3>. QED
      BY <2>3, <3>1, EmptyAir
  <2>5. CASE a # ""
    <3>1. a \in Answers /\ air' = Append(air, a)
      BY <1>3, <2>5, Zenon DEF Send
    <3>2. air' = <<a>> /\ Len(air') = 1 /\ air'[1] = a /\ 1..Len(air') = {1}
      BY <2>3, <3>1
    <3>3. TellsCurrent(a)'
      <4>1. granted' = IF a = "OK" THEN granted \cup {cmd.atCmd} ELSE granted
        BY <1>3 DEF Send
      <4>2. a = "OK" => CurrentSlot.atCmd \in granted'
        BY <2>2, <4>1
      <4>. QED
        BY <2>1, <3>1, <4>2 DEF TellsCurrent, CurrentSlot
    <3>4. \A k \in 1..Len(air') : TellsCurrent(air[k])'
      BY <3>2, <3>3 DEF TellsCurrent
    <3>. QED
      BY <1>1, <2>1, <2>2, <2>3, <3>2, <3>4 DEF Airborne
  <2>. QED
    BY <2>4, <2>5
<1>4. CASE ~(\E a \in Answers \cup {""} : Send(a))
  <2>1. UNCHANGED <<air, inbox, granted>>
    BY <1>4 DEF Dispatcher, Dispatch, ClearBuffer, Copy, Repeats, TimedOut, StartTimer, StopTimer,
       UseRepeat, AdvanceQueue, SetStatus, SetExecute, SetRspWait, SetRecvd, Test, Step, data, modem
  <2>2. CASE ~Flying
    BY <1>2, <2>1, <2>2, FlyingFacts, HeldFacts, EmptyAir
  <2>3. CASE Flying
    <3>1. /\ s_atExecute
          /\ pc["D"] \in {"loop", "arm", "start", "waiting", "sent", "received", "again"}
      BY <2>3 DEF Airborne
    <3>2. pc["D"] = "loop" => ~timeOutFlag
      BY <2>3 DEF TimerInv
    <3>3. /\ UNCHANGED <<s_atExecute, atCmdQueue, currentCmd>>
          /\ pc'["D"] \in {"loop", "arm", "start", "waiting", "sent", "received", "again"}
      <4>1. \/ Dispatch \/ StartTimer("D", "waiting") \/ SetRspWait("D", "waiting", "sent", TRUE)
            \/ SetStatus("D", "sent", "loop", "RSP_WAIT")
            \/ Test("D", "received", IF responseRecvd THEN "again" ELSE "loop")
            \/ SetStatus("D", "again", "loop", "EXECUTE_AT")
        BY <1>4, <3>1 DEF Dispatcher, ClearBuffer, Copy, Repeats, TimedOut, StopTimer,
           UseRepeat, AdvanceQueue, SetStatus, SetExecute, SetRspWait, SetRecvd, Test, Step, Go
      <4>2. CASE Dispatch
        BY <1>0, <3>1, <3>2, <4>2 DEF Dispatch, Ready, Test, Step, Go, PlaceTypes, Thread, data, queue,
           indices, engine
      <4>3. CASE ~Dispatch
        BY <1>0, <4>1, <4>3 DEF StartTimer, SetRspWait, SetStatus, Test, Step, Go, PlaceTypes, Thread,
           data, queue, indices, engine
      <4>. QED
        BY <4>2, <4>3
    <3>4. Airborne'
      BY <1>1, <2>1, <3>3, SameAir
    <3>. QED
      BY <1>2, <3>4
  <2>. QED
    BY <2>2, <2>3
<1>. QED
  BY <1>2, <1>3, <1>4
\* What the response processor does to the message and the answers.
LEMMA ReceiveFacts ==
  ASSUME PlaceTypes, Receive
  PROVE  /\ UNCHANGED <<air, atCmdQueue, currentCmd, s_atExecute, granted>> /\ pc["R"] = "loop"
         /\ \/ Held /\ ~Held' /\ pc'["R"] = "urc" /\ responseRecvBuffer' = inbox
            \/ pc'["R"] = "loop" /\ UNCHANGED inbox
<1>1. UNCHANGED <<air, atCmdQueue, currentCmd, s_atExecute, granted>>
  BY DEF Receive, queue, indices, engine
<1>2. /\ pc["R"] = "loop"
      /\ \/ Held /\ ~Held' /\ pc'["R"] = "urc" /\ responseRecvBuffer' = inbox
         \/ pc'["R"] = "loop" /\ UNCHANGED inbox
  BY DEF Receive, Go, Held, Message, PlaceTypes, Thread
<1>. QED
  BY <1>1, <1>2

LEMMA UrcFacts ==
  ASSUME PlaceTypes, Urc, responseRecvBuffer \in {"OK", "ERROR"}
  PROVE  /\ UNCHANGED <<responseRecvBuffer, atCmdQueue, currentCmd, granted>>
         /\ pc["R"] = "urc" /\ pc'["R"] = "test"
<1>1. responseRecvBuffer # "+BTSPPDATA" /\ responseRecvBuffer # "URC"
  OBVIOUS
<1>2. UNCHANGED <<atCmdQueue, currentCmd, granted>>
  BY DEF Urc, queue, indices
<1>3. UNCHANGED responseRecvBuffer
  BY <1>1, Zenon DEF Urc
<1>4. pc["R"] = "urc" /\ pc'["R"] = "test"
  BY <1>1, Zenon DEF Urc, Step, Go, PlaceTypes, Thread
<1>. QED
  BY <1>2, <1>3, <1>4

LEMMA ResponderAnswer ==
  ASSUME TypeOK, Faithful, Conjuncts, Airborne, InHand, Responder PROVE Airborne' /\ InHand'
<1>0. PlaceTypes /\ Alone("R")
  BY TypesSplit, ResponderAlone
<1>1. pc["D"] = "loop" /\ pc'["D"] = "loop"
  BY <1>0, OtherPass DEF Conjuncts
<1>2. CASE Receive
  <2>1. CASE pc'["R"] = "loop"
    <3>1. UNCHANGED inbox
      BY <1>0, <1>2, <2>1, ReceiveFacts
    <3>2. Airborne'
      BY <1>0, <1>1, <1>2, <2>1, <3>1, ReceiveFacts, SameAir
    <3>. QED
      BY <2>1, <3>2 DEF InHand
  <2>2. CASE pc'["R"] # "loop"
    <3>1. Held /\ ~Held' /\ pc'["R"] = "urc" /\ responseRecvBuffer' = inbox
      BY <1>0, <1>2, <2>2, ReceiveFacts
    <3>2. UNCHANGED <<air, atCmdQueue, currentCmd, granted>>
      BY <1>0, <1>2, ReceiveFacts
    <3>3. air' = <<>> /\ TellsCurrent(inbox)
      BY <3>1, <3>2 DEF Airborne
    <3>4. Airborne'
      BY <3>1, <3>3, EmptyAir
    <3>5. TellsCurrent(responseRecvBuffer)'
      BY <3>1, <3>2, <3>3 DEF TellsCurrent, CurrentSlot
    <3>. QED
      BY <3>1, <3>4, <3>5 DEF InHand
  <2>. QED
    BY <2>1, <2>2
<1>3. CASE ~Receive
  <2>1. UNCHANGED <<air, inbox, granted>>
    BY <1>3 DEF Responder, Urc, Callback, Switch, SetOutcome, InitQueue, StartTimer, StopTimer,
       UseRepeat, AdvanceQueue, SetStatus, SetExecute, SetRspWait, SetRecvd, Test, Step, data, modem
  <2>2. Airborne'
    <3>1. pc["R"] # "loop"
      BY <1>3 DEF Responder, Urc, Callback, Switch, SetOutcome, InitQueue, StartTimer, StopTimer,
         UseRepeat, AdvanceQueue, SetStatus, SetExecute, SetRspWait, SetRecvd, Test, Step, Go
    <3>2. ~Flying
      BY <3>1 DEF Airborne
    <3>. QED
      BY <2>1, <3>2, FlyingFacts, HeldFacts, EmptyAir
  <2>3. CASE Urc
    <3>1. responseRecvBuffer \in Answers /\ TellsCurrent(responseRecvBuffer)
      BY <2>3 DEF Urc, Step, Go, InHand, TellsCurrent
    <3>2. responseRecvBuffer \in {"OK", "ERROR"}
      BY <3>1 DEF Faithful
    <3>3. TellsCurrent(responseRecvBuffer)'
      BY <1>0, <2>3, <3>1, <3>2, UrcFacts DEF TellsCurrent, CurrentSlot
    <3>. QED
      BY <1>0, <2>2, <2>3, <3>2, <3>3, UrcFacts DEF InHand
  <2>4. CASE Callback
    <3>1. /\ pc["R"] = "invoke" /\ pc'["R"] = "switch" /\ UNCHANGED <<atCmdQueue, currentCmd>>
          /\ CurrentSlot.rspFunc # NoFunc
          /\ currentCmdRet' \in RspOf[CurrentSlot.rspFunc][responseRecvBuffer]
      BY <1>0, <2>4 DEF Callback, Step, Go, PlaceTypes, Thread, indices
    <3>2. TellsCurrent(responseRecvBuffer)
      BY <3>1 DEF InHand
    <3>3. currentCmdRet' \in {"ERROR", "WAIT"} \/ CurrentSlot.atCmd \in granted
      <4>1. CASE responseRecvBuffer = "OK"
        BY <3>2, <4>1 DEF TellsCurrent
      <4>2. CASE responseRecvBuffer # "OK"
        <5>1. CurrentSlot \in Slot
          BY CurrentSlotType DEF TypeOK
        <5>2. CurrentSlot.rspFunc \in RspFunc
          BY <3>1, <5>1, SlotFacts
        <5>3. responseRecvBuffer \in Answers \ {"OK"}
          BY <3>2, <4>2 DEF TellsCurrent
        <5>. QED
          BY <3>1, <5>2, <5>3 DEF Faithful
      <4>. QED
        BY <4>1, <4>2
    <3>4. CurrentSlot' = CurrentSlot
      BY <3>1 DEF CurrentSlot
    <3>. QED
      BY <2>1, <2>2, <3>1, <3>3, <3>4 DEF InHand
  <2>5. CASE Switch
    <3>1. pc["R"] = "switch" /\ UNCHANGED <<CurrentSlot, currentCmdRet>>
      BY <2>5 DEF Switch, Test, Step, Go, data, queue, indices, outcome, CurrentSlot
    <3>2. /\ pc'["R"] \in {"error", "wait", "loop", "accept"}
          /\ pc'["R"] = "accept" => currentCmdRet \notin {"ERROR", "WAIT"}
      <4>1. pc'["R"] = CASE currentCmdRet = "ERROR"    -> "error"
                          [] currentCmdRet = "WAIT"     -> "wait"
                          [] currentCmdRet = "FUN_OVER" -> "loop"
                          [] OTHER                      -> "accept"
        BY <1>0, <2>5 DEF Switch, Test, Step, Go, PlaceTypes, Thread
      <4>. QED
        BY <4>1
    <3>. QED
      BY <2>1, <2>2, <3>1, <3>2 DEF InHand
  <2>6. CASE \/ Test("R", "test", IF s_atExecute THEN "taken" ELSE "loop")
             \/ SetExecute("R", "taken", "set_received", FALSE)
             \/ SetRecvd("R", "set_received", "not_waiting", TRUE)
             \/ SetRspWait("R", "not_waiting", "stop", FALSE)
             \/ StopTimer("R", "stop", "stopped", "callback")
             \/ Test("R", "callback", IF CurrentSlot.rspFunc # NoFunc THEN "invoke" ELSE "loop")
    <3>1. UNCHANGED <<responseRecvBuffer, atCmdQueue, currentCmd>>
      BY <2>6 DEF Test, SetExecute, SetRecvd, SetRspWait, StopTimer, data, queue, indices
    <3>2. /\ pc["R"] \in {"test", "taken", "set_received", "not_waiting", "stop", "stopped",
                          "callback"}
          /\ pc'["R"] \in {"loop", "taken", "set_received", "not_waiting", "stop", "stopped",
                           "callback", "invoke"}
      BY <1>0, <2>6 DEF Test, SetExecute, SetRecvd, SetRspWait, StopTimer, Step, Go, PlaceTypes, Thread
    <3>3. TellsCurrent(responseRecvBuffer)'
      BY <2>1, <3>1, <3>2 DEF InHand, TellsCurrent, CurrentSlot
    <3>. QED
      BY <2>2, <3>2, <3>3 DEF InHand
  <2>7. CASE Test("R", "accept", IF commandCount > 0 THEN "succeed" ELSE "status")
    <3>1. pc["R"] = "accept" /\ pc'["R"] \in {"succeed", "status"} /\ UNCHANGED CurrentSlot
      BY <1>0, <2>7 DEF Test, Step, Go, PlaceTypes, Thread, data, queue, indices, CurrentSlot
    <3>. QED
      BY <2>1, <2>2, <3>1 DEF InHand
  <2>8. CASE pc'["R"] \in {"loop", "error", "repeat", "repeat_store", "nok", "slots", "count",
                           "write", "outcome", "current", "current_store", "count_down",
                           "count_store", "status", "wait", "arm", "start"}
    BY <2>2, <2>8 DEF InHand
  <2>9. \/ Urc \/ Callback \/ Switch
        \/ Test("R", "test", IF s_atExecute THEN "taken" ELSE "loop")
        \/ SetExecute("R", "taken", "set_received", FALSE)
        \/ SetRecvd("R", "set_received", "not_waiting", TRUE)
        \/ SetRspWait("R", "not_waiting", "stop", FALSE)
        \/ StopTimer("R", "stop", "stopped", "callback")
        \/ Test("R", "callback", IF CurrentSlot.rspFunc # NoFunc THEN "invoke" ELSE "loop")
        \/ Test("R", "accept", IF commandCount > 0 THEN "succeed" ELSE "status")
        \/ pc'["R"] \in {"loop", "error", "repeat", "repeat_store", "nok", "slots", "count",
                         "write", "outcome", "current", "current_store", "count_down",
                         "count_store", "status", "wait", "arm", "start"}
    BY <1>0, <1>3 DEF Responder, SetOutcome, InitQueue, AfterInit, StartTimer,
       UseRepeat, AdvanceQueue, SetStatus, Test, Step, Go, PlaceTypes, Thread
  <2>. QED
    BY <2>3, <2>4, <2>5, <2>6, <2>7, <2>8, <2>9
<1>. QED
  BY <1>2, <1>3

LEMMA ModemAnswer ==
  ASSUME TypeOK, Faithful, Airborne, InHand,
         \/ (\E u \in Unsolicited : Speak(u)) \/ Deliver \/ SysTick \/ TimerExpires
         \/ UNCHANGED vars
  PROVE  Airborne' /\ InHand'
<1>1. CASE Deliver
  <2>1. /\ ~Held /\ air # <<>> /\ inbox' = Head(air) /\ air' = Tail(air)
        /\ UNCHANGED <<atCmdQueue, currentCmd, granted, s_atExecute, pc, responseRecvBuffer,
                       currentCmdRet>>
    BY <1>1 DEF Deliver, data, queue, indices, outcome, engine, Held
  <2>2. Flying /\ Len(air) <= 1 /\ \A k \in 1..Len(air) : TellsCurrent(air[k])
    BY <2>1, FlyingFacts DEF Airborne
  <2>3. Len(air) = 1 /\ Head(air) = air[1] /\ Tail(air) = <<>> /\ 1 \in 1..Len(air)
    <3>1. air \in Seq(Text)
      BY DEF TypeOK
    <3>2. Len(air) \in Nat /\ Len(air) # 0
      BY <2>1, <3>1, EmptyLength
    <3>3. Len(air) = 1
      <4>1. \A n \in Nat : n <= 1 /\ n # 0 => n = 1
        OBVIOUS
      <4>. QED
        BY <2>2, <3>2, <4>1
    <3>4. Head(air) = air[1]
      BY <2>1, <3>1
    <3>5. Tail(air) \in Seq(Text) /\ Len(Tail(air)) = 0
      BY <2>1, <3>1, <3>3, EmptyLength, TailType
    <3>6. Tail(air) = <<>>
      BY <3>5, EmptyLength
    <3>. QED
      BY <3>3, <3>4, <3>6
  <2>4. TellsCurrent(inbox)'
    BY <2>1, <2>2, <2>3 DEF TellsCurrent, CurrentSlot
  <2>5. air' = <<>> /\ Len(air') = 0 /\ \A k \in 1..Len(air') : FALSE
    BY <2>1, <2>3
  <2>6. Airborne'
    BY <2>1, <2>2, <2>4, <2>5 DEF Airborne
  <2>7. InHand'
    BY <2>1 DEF InHand, TellsCurrent, CurrentSlot
  <2>. QED
    BY <2>6, <2>7
<1>2. CASE SysTick \/ TimerExpires \/ UNCHANGED vars
  <2>1. UNCHANGED <<air, inbox, atCmdQueue, currentCmd, granted, s_atExecute, pc, responseRecvBuffer,
                    currentCmdRet>>
    BY <1>2 DEF SysTick, TimerExpires, Tick, vars, data, modem, queue, indices, outcome, engine
  <2>2. (Flying' <=> Flying) /\ (Held' <=> Held)
    BY <2>1, FlyingFacts, HeldFacts
  <2>3. Airborne'
    BY <2>1, <2>2 DEF Airborne, TellsCurrent, CurrentSlot
  <2>4. InHand'
    BY <2>1 DEF InHand, TellsCurrent, CurrentSlot
  <2>. QED
    BY <2>3, <2>4
<1>. QED
  BY <1>1, <1>2 DEF Faithful

LEMMA AnswerStep ==
  ASSUME TypeOK, Faithful, Conjuncts, TimerInv, AnswerInv, [Next]_vars PROVE AnswerInv'
<1>1. Airborne /\ InHand
  BY AnswerParts
<1>2. Airborne' /\ InHand'
  BY <1>1, TesterAnswer, DispatcherAnswer, ResponderAnswer, ModemAnswer DEF Next
<1>. QED
  BY <1>2, AnswerPartsNext
(* The call: its last command decides on the result. *)

GoalStatus == goal # EmptySlot => goal.successStatus # NOK_OPER
GoalBatch == \A k \in 1..Len(batch) : IF k = Len(batch)
                                        THEN batch[k] = goal
                                        ELSE batch[k].successStatus # goal.successStatus
GoalWindow == Left > 0 =>
                \A i \in currentCmd..lastCmd :
                  IF i = lastCmd /\ Unsent = 0
                    THEN atCmdQueue[i].atCmd = goal.atCmd
                    ELSE atCmdQueue[i].successStatus # goal.successStatus
GoalResult == pc["T"] \in {"open", "enter", "more", "count_up", "up_store", "shut", "poll", "result"} =>
                goal = EmptySlot \/ (Success => goal.atCmd \in granted)
GoalPolled == pc["T"] \in {"poll", "result"} => goal # EmptySlot

LEMMA GoalParts == GoalInv <=> GoalStatus /\ GoalBatch /\ GoalWindow /\ GoalResult /\ GoalPolled
  BY DEF GoalInv, GoalStatus, GoalBatch, GoalWindow, GoalResult, GoalPolled
LEMMA GoalPartsNext ==
  GoalInv' <=> GoalStatus' /\ GoalBatch' /\ GoalWindow' /\ GoalResult' /\ GoalPolled'
  BY DEF GoalInv, GoalStatus, GoalBatch, GoalWindow, GoalResult, GoalPolled

LEMMA EmptyBatch == ASSUME batch' = <<>> PROVE GoalBatch'
<1>1. Len(batch') = 0 /\ \A k \in 1..Len(batch') : FALSE
  OBVIOUS
<1>. QED
  BY <1>1 DEF GoalBatch

\* A list is never cut short: the queue was empty when its first command was stored.
LEMMA MoreIsOver ==
  ASSUME TypeOK, CallInv, More PROVE batch = <<>> /\ batch' = <<>> /\ pc["T"] = "more"
<1>1. pc["T"] = "more" /\ batch \in Seq(Queued) /\ commandCount \in Uint8
  BY DEF More, Step, Go, TypeOK, QueueTypeOK
<1>2. batch = <<>>
  <2>1. CASE QueueFull
    <3>1. commandCount + Len(batch) <= ATCOMMAND_EXEC_CMD_QUEUE
      BY <1>1 DEF CallInv
    <3>2. Len(batch) = 0
      BY <1>1, <2>1, <3>1, QueueSizeAssumption DEF QueueFull, Uint8
    <3>. QED
      BY <1>1, <3>2, EmptyLength
  <2>. QED
    BY <2>1 DEF More
<1>. QED
  BY <1>1, <1>2 DEF More

\* The statements of the tester that change what it is to be told.
LEMMA TesterGoalSteps ==
  ASSUME TypeOK, CallInv, Tester
  PROVE  \/ UNCHANGED <<batch, goal, granted>>
         \/ (\E b \in Batches : Call(b))
         \/ Refused \/ Return
         \/ CountUp /\ pc["T"] = "up_store"
<1>1. CASE More
  BY <1>1, MoreIsOver DEF More
<1>2. CASE ~More
  BY <1>2 DEF Tester, Proceed, InitQueue, SetWrite, Enter, Store, CountUp, Poll, Test, Step, Go, data,
     local
<1>. QED
  BY <1>1, <1>2

LEMMA BatchFacts ==
  ASSUME NEW b \in Batches
  PROVE  /\ b \in Seq(Command) /\ b # <<>> /\ Len(b) \in Nat /\ Len(b) # 0
         /\ b[Len(b)] \in Command /\ b[Len(b)] # EmptySlot
         /\ b[Len(b)].successStatus # NOK_OPER
         /\ \A k \in 1..Len(b) : k = Len(b) \/ b[k].successStatus # b[Len(b)].successStatus
<1>1. b \in Seq(Command) /\ b # <<>>
  BY BatchesAssumption
<1>2. Len(b) \in Nat /\ Len(b) # 0
  BY <1>1, EmptyLength
<1>3. Len(b) \in 1..Len(b)
  BY <1>2
<1>4. b[Len(b)] \in Command
  BY <1>1, <1>3
<1>5. b[Len(b)] # EmptySlot
  BY <1>4, NamesAssumption DEF Command, EmptySlot
<1>6. \A k \in 1..Len(b) : k = Len(b) \/ k \in 1..(Len(b) - 1)
  BY <1>2
<1>. QED
  BY <1>1, <1>2, <1>4, <1>5, <1>6, LastAssumption

LEMMA TesterBatch ==
  ASSUME TypeOK, CallInv, GoalStatus, GoalBatch, Tester
  PROVE  GoalStatus' /\ GoalBatch'
<1>1. CASE UNCHANGED <<batch, goal, granted>>
  BY <1>1 DEF GoalStatus, GoalBatch
<1>2. ASSUME NEW b \in Batches, Call(b) PROVE GoalStatus' /\ GoalBatch'
  <2>1. batch' = b /\ goal' = b[Len(b)]
    BY <1>2 DEF Call
  <2>. QED
    BY <2>1, BatchFacts DEF GoalStatus, GoalBatch
<1>3. CASE Refused
  <2>1. batch' = <<>> /\ goal' = EmptySlot
    BY <1>3 DEF Refused
  <2>. QED
    BY <2>1, EmptyBatch DEF GoalStatus
<1>4. CASE Return
  <2>1. goal' = EmptySlot /\ batch' = batch /\ pc["T"] = "result"
    BY <1>4 DEF Return, Step, Go
  <2>2. batch' = <<>>
    BY <2>1 DEF CallInv
  <2>. QED
    BY <2>1, <2>2, EmptyBatch DEF GoalStatus
<1>5. CASE CountUp /\ pc["T"] = "up_store"
  <2>1. batch' = Tail(batch) /\ goal' = goal /\ batch # <<>> /\ batch \in Seq(Queued)
    BY <1>5 DEF CountUp, Step, Go, CallInv, TypeOK
  <2>2. /\ Len(batch') = Len(batch) - 1 /\ Len(batch) \in Nat
        /\ \A k \in 1..(Len(batch) - 1) : batch'[k] = batch[k + 1]
    BY <2>1
  <2>3. ASSUME NEW k \in 1..Len(batch')
        PROVE  IF k = Len(batch') THEN batch'[k] = goal'
                                  ELSE batch'[k].successStatus # goal'.successStatus
    <3>1. k + 1 \in 1..Len(batch) /\ k \in 1..(Len(batch) - 1) /\ (k = Len(batch') <=> k + 1 = Len(batch))
      BY <2>2
    <3>2. batch'[k] = batch[k + 1]
      BY <2>2, <3>1
    <3>. QED
      BY <2>1, <3>1, <3>2 DEF GoalBatch
  <2>4. GoalStatus'
    BY <2>1 DEF GoalStatus
  <2>. QED
    BY <2>3, <2>4 DEF GoalBatch
<1>. QED
  BY <1>1, <1>2, <1>3, <1>4, <1>5, TesterGoalSteps
LEMMA TesterGoalWindow ==
  ASSUME TypeOK, Conjuncts, CallInv', GoalBatch, GoalWindow, Tester
  PROVE  GoalWindow'
<1>0. PlaceTypes /\ Alone("T") /\ PassInv /\ CallInv /\ WindowInv /\ LoadInv
  BY TypesSplit, TesterAlone DEF Conjuncts
<1>1. /\ pc["D"] = "loop" /\ pc["R"] = "loop" /\ pc'["D"] = "loop" /\ pc'["R"] = "loop"
  BY <1>0, TesterPass
<1>2. /\ Left = (IF Adding THEN commandCount + 1 ELSE commandCount)
      /\ Left' = (IF Adding' THEN commandCount' + 1 ELSE commandCount')
  BY <1>1 DEF Left, Advancing
<1>3. /\ commandCount \in Nat /\ lastCmd \in Nat /\ commandCount <= 255
      /\ batch \in Seq(Queued) /\ Len(batch) \in Nat
  BY EmptyLength DEF TypeOK, QueueTypeOK, Index, Uint8
<1>4. CASE commandCount' = 0 /\ ~Adding'
  BY <1>2, <1>4 DEF GoalWindow
<1>5. CASE UNCHANGED <<atCmdQueue, indices, commandCount, batch, goal>> /\ (Adding' <=> Adding)
  BY <1>2, <1>5 DEF GoalWindow, Unsent, indices
<1>6. CASE Store
  <2>1. /\ pc["T"] = "more" /\ pc'["T"] = "count_up" /\ ~Adding /\ Adding'
        /\ UNCHANGED <<batch, goal, commandCount, currentCmd>> /\ batch # <<>>
    BY <1>0, <1>6 DEF Store, Step, Go, Adding, PlaceTypes, Thread, local
  <2>2. /\ currentCmd = 0 /\ Unsent = Len(batch) /\ Unsent' = Len(batch) - 1 /\ Len(batch) > 0
        /\ Left = commandCount /\ Left' = commandCount + 1
    BY <1>0, <1>2, <1>3, <2>1, EmptyLength DEF CallInv, Unsent
  <2>3. TailIndex = commandCount /\ commandCount \in Index
    <3>1. commandCount < ATCOMMAND_EXEC_CMD_QUEUE
      BY <1>3, <1>6, QueueSizeAssumption DEF Store, QueueFull
    <3>2. CASE commandCount = 0
      BY <1>0, <1>3, <2>1, <3>1, <3>2, QueueSizeAssumption DEF CallInv, TailIndex, Index
    <3>3. CASE commandCount > 0
      <4>1. commandCount = lastCmd + 1
        BY <1>0, <1>3, <2>2, <3>3 DEF WindowInv
      <4>2. NextIndex(lastCmd) = lastCmd + 1
        BY <1>3, <3>1, <4>1, QueueSizeAssumption DEF NextIndex
      <4>. QED
        BY <1>3, <3>1, <3>3, <4>1, <4>2, QueueSizeAssumption DEF TailIndex, Index
    <3>. QED
      BY <1>3, <3>2, <3>3
  <2>4. lastCmd' = commandCount
    BY <1>6, <2>3 DEF Store
  <2>5. ASSUME NEW i \in 0..commandCount
        PROVE  IF i = lastCmd' /\ Unsent' = 0
                 THEN atCmdQueue'[i].atCmd = goal'.atCmd
                 ELSE atCmdQueue'[i].successStatus # goal'.successStatus
    <3>1. CASE i = commandCount
      <4>1. atCmdQueue'[i] = Stored(Head(batch)) /\ Head(batch) = batch[1]
        BY <1>3, <1>6, <2>1, <2>3, <3>1 DEF Store, TypeOK, QueueTypeOK
      <4>2. batch[1] \in Command
        BY <1>3, <2>1, <4>1, HeadType, QueuedAreCommands
      <4>3. /\ atCmdQueue'[i].atCmd = batch[1].atCmd
            /\ atCmdQueue'[i].successStatus = batch[1].successStatus
        BY <4>1, <4>2, StoredType
      <4>4. 1 \in 1..Len(batch)
        BY <1>3, <2>2
      <4>5. CASE Len(batch) = 1
        <5>1. batch[1] = goal /\ Unsent' = 0
          BY <2>2, <4>4, <4>5 DEF GoalBatch
        <5>. QED
          BY <2>1, <2>4, <3>1, <4>3, <5>1
      <4>6. CASE Len(batch) # 1
        <5>1. batch[1].successStatus # goal.successStatus /\ Unsent' # 0
          BY <1>3, <2>2, <4>4, <4>6 DEF GoalBatch
        <5>. QED
          BY <2>1, <4>3, <5>1
      <4>. QED
        BY <4>5, <4>6
    <3>2. CASE i # commandCount
      <4>1. atCmdQueue'[i] = atCmdQueue[i]
        <5>1. i \in Index
          BY <1>3, <2>3, QueueSizeAssumption DEF Index
        <5>. QED
          BY <1>6, <2>3, <3>2, <5>1 DEF Store, TypeOK, QueueTypeOK
      <4>2. commandCount > 0 /\ i # lastCmd'
        BY <1>3, <2>4, <3>2
      <4>3. i \in currentCmd..lastCmd
        <5>1. commandCount = lastCmd + 1
          BY <1>0, <1>3, <2>2, <4>2 DEF WindowInv
        <5>. QED
          BY <1>3, <2>2, <3>2, <5>1
      <4>4. atCmdQueue[i].successStatus # goal.successStatus
        BY <2>2, <4>2, <4>3 DEF GoalWindow
      <4>. QED
        BY <2>1, <4>1, <4>2, <4>4
    <3>. QED
      BY <3>1, <3>2
  <2>6. currentCmd'..lastCmd' = 0..commandCount
    BY <2>1, <2>2, <2>4
  <2>. QED
    BY <2>5, <2>6 DEF GoalWindow
<1>7. CASE CountUp /\ pc["T"] = "up_store"
  <2>1. /\ Adding /\ ~Adding' /\ commandCount' = Inc8(commandCount) /\ batch' = Tail(batch)
        /\ UNCHANGED <<atCmdQueue, indices, goal>> /\ batch # <<>>
        /\ commandCount + Len(batch) <= ATCOMMAND_EXEC_CMD_QUEUE
    BY <1>0, <1>7 DEF CountUp, Step, Go, Adding, LoadInv, CallInv, PlaceTypes, Thread
  <2>2. Len(batch) # 0 /\ Len(batch') = Len(batch) - 1
    BY <1>3, <2>1, EmptyLength
  <2>3. commandCount < 255
    BY <1>3, <2>1, <2>2, QueueSizeAssumption
  <2>4. commandCount' = commandCount + 1
    <3>1. commandCount \in Uint8
      BY <1>3 DEF Uint8
    <3>. QED
      BY <2>1, <2>3, <3>1, Uint8Facts
  <2>5. Left' = Left /\ Unsent' = Unsent
    BY <1>2, <2>1, <2>2, <2>4 DEF Unsent
  <2>. QED
    BY <2>1, <2>5 DEF GoalWindow, indices
<1>8. CASE ~Store /\ ~(CountUp /\ pc["T"] = "up_store")
  <2>1. CASE CountUp
    <3>1. /\ UNCHANGED <<atCmdQueue, indices, commandCount, batch, goal>> /\ Adding /\ Adding'
      BY <1>0, <1>8, <2>1 DEF CountUp, Step, Go, Adding, PlaceTypes, Thread
    <3>. QED
      BY <1>5, <3>1
  <2>2. CASE ~CountUp
    <3>1. ~Adding /\ ~Adding'
      BY <1>0, <1>8, <2>2 DEF Tester, Proceed, InitQueue, AfterInit, SetWrite, Enter, Refused, More, Poll,
         Return, Call, Test, Step, Go, Adding, PlaceTypes, Thread
    <3>2. \/ UNCHANGED <<atCmdQueue, indices, commandCount, batch, goal>>
          \/ pc'["T"] \in {"slots", "count", "write", "outcome", "open", "idle"}
          \/ Enter \/ Refused
      <4>1. More => UNCHANGED <<atCmdQueue, indices, commandCount, batch, goal>>
        BY <1>0, MoreIsOver DEF More, queue
      <4>. QED
        BY <1>0, <1>8, <2>2, <4>1 DEF Tester, Proceed, InitQueue, AfterInit, SetWrite, Poll, Return, Call,
           Test, Step, Go, PlaceTypes, Thread, data, queue, local
    <3>3. CASE Enter \/ Refused
      <4>1. commandCount = 0
        BY <1>0, <3>3 DEF Enter, Refused, Step, Go, CallInv
      <4>. QED
        BY <1>4, <3>1, <3>3, <4>1 DEF Enter, Refused, DelAtCmdHead, queue
    <3>4. CASE pc'["T"] \in {"slots", "count", "write", "outcome", "open", "idle"}
      BY <1>4, <3>1, <3>4 DEF CallInv
    <3>. QED
      BY <1>5, <3>1, <3>2, <3>3, <3>4
  <2>. QED
    BY <2>1, <2>2
<1>. QED
  BY <1>6, <1>7, <1>8

LEMMA TesterGoalResult ==
  ASSUME TypeOK, CallInv, GoalStatus, GoalResult, GoalPolled, Tester
  PROVE  GoalResult' /\ GoalPolled'
<1>0. PlaceTypes
  BY TypesSplit
<1>1. CASE InitQueue("T")
  <2>1. /\ UNCHANGED goal /\ pc'["T"] \in {"count", "write", "outcome", "open", "idle"}
        /\ pc'["T"] = "open" => currentCmdStatus' = NOK_OPER
    BY <1>0, <1>1 DEF InitQueue, AfterInit, OutcomeClear, Step, Go, PlaceTypes, Thread, local
  <2>. QED
    BY <2>1 DEF GoalStatus, GoalResult, GoalPolled, Success
<1>2. CASE \/ SetWrite("T", "open", "enter", TRUE) \/ Enter \/ More \/ Store \/ CountUp \/ Poll
           \/ SetWrite("T", "shut", IF goal = EmptySlot THEN "slots" ELSE "poll", FALSE)
           \/ (~turned /\ Test("T", "idle", "idle"))
  <2>1. UNCHANGED <<goal, granted, currentCmdStatus>>
    BY <1>2 DEF SetWrite, Enter, DelAtCmdHead, More, Store, CountUp, Poll, Test, data, queue, outcome, local
  <2>2. /\ pc["T"] \in {"open", "enter", "more", "count_up", "up_store", "shut", "poll"}
             \/ pc'["T"] = "idle"
        /\ pc'["T"] = "poll" => goal # EmptySlot \/ pc["T"] = "poll"
        /\ pc'["T"] = "result" => pc["T"] = "poll"
    BY <1>0, <1>2 DEF SetWrite, Enter, More, Store, CountUp, Poll, Test, Step, Go, PlaceTypes, Thread
  <2>. QED
    BY <2>1, <2>2 DEF GoalResult, GoalPolled, Success
<1>3. CASE Refused \/ Return \/ \E b \in Batches : Call(b)
  <2>1. goal' = EmptySlot \/ pc'["T"] = "slots"
    BY <1>0, <1>3 DEF Refused, Return, Call, Step, Go, PlaceTypes, Thread
  <2>2. pc'["T"] \in {"slots", "shut"}
    BY <1>0, <1>3 DEF Refused, Return, Call, Step, Go, PlaceTypes, Thread
  <2>. QED
    BY <2>1, <2>2 DEF GoalResult, GoalPolled
<1>. QED
  BY <1>1, <1>2, <1>3 DEF Tester, Proceed

LEMMA OtherGoalWindow ==
  ASSUME TypeOK, Conjuncts, GoalWindow, Dispatcher \/ Responder
  PROVE  GoalWindow'
<1>1. Shrinks
  BY DispatcherShrinks, ResponderShrinks DEF Conjuncts
<1>2. currentCmd \in Int /\ lastCmd \in Int
  BY DEF TypeOK, QueueTypeOK, Index
<1>3. TypeOK'
  BY TypeStep DEF Next, AddInv, Conjuncts, CallInv, Adding
<1>4. currentCmd' \in Int
  BY <1>3 DEF TypeOK, QueueTypeOK, Index
<1>5. UNCHANGED <<batch, goal>> /\ Unsent' = Unsent
  <2>1. pc'["T"] = pc["T"]
    BY TypesSplit, DispatcherAlone, ResponderAlone DEF Alone, Thread
  <2>. QED
    BY <2>1, OtherLocal DEF Unsent, Adding
<1> SUFFICES ASSUME Left' > 0, NEW i \in currentCmd'..lastCmd'
             PROVE  IF i = lastCmd' /\ Unsent' = 0
                      THEN atCmdQueue'[i].atCmd = goal'.atCmd
                      ELSE atCmdQueue'[i].successStatus # goal'.successStatus
  BY DEF GoalWindow
<1>6. i \in currentCmd..lastCmd
  BY <1>1, <1>2, <1>4 DEF Shrinks
<1>. QED
  BY <1>1, <1>5, <1>6 DEF Shrinks, GoalWindow

\* The response processor sets the status of the command under execution, which is the one the
\* call waits for only when it is the last one.
LEMMA OtherGoalResult ==
  ASSUME TypeOK, Conjuncts, AnswerInv, GoalStatus, GoalWindow, GoalResult, GoalPolled,
         Dispatcher \/ Responder
  PROVE  GoalResult' /\ GoalPolled'
<1>1. UNCHANGED goal /\ pc'["T"] = pc["T"]
  BY TypesSplit, OtherLocal, DispatcherAlone, ResponderAlone DEF Alone, Thread
<1>2. CASE UNCHANGED currentCmdStatus /\ granted \subseteq granted'
  BY <1>1, <1>2 DEF GoalResult, GoalPolled, Success
<1>3. CASE currentCmdStatus' = NOK_OPER
  BY <1>1, <1>3 DEF GoalStatus, GoalResult, GoalPolled, Success
<1>4. CASE SetOutcome("succeed", "current", CurrentSlot.successStatus)
  <2>1. /\ pc["R"] = "succeed" /\ currentCmdStatus' = CurrentSlot.successStatus /\ UNCHANGED granted
    BY <1>4 DEF SetOutcome, Step, Go
  <2>2. CurrentSlot.atCmd \in granted
    BY <2>1 DEF AnswerInv
  <2>3. pc["R"] \in AtQueueR
    BY <2>1 DEF AtQueueR
  <2>4. /\ commandCount > 0 /\ Left = commandCount /\ currentCmd \in currentCmd..lastCmd
    BY <2>1, <2>3, WorkHead
  <2>5. IF currentCmd = lastCmd /\ Unsent = 0
          THEN CurrentSlot.atCmd = goal.atCmd
          ELSE CurrentSlot.successStatus # goal.successStatus
    BY <2>4 DEF GoalWindow, CurrentSlot
  <2>. QED
    BY <1>1, <2>1, <2>2, <2>5 DEF GoalResult, GoalPolled, Success
<1>5. CASE Dispatcher
  <2>1. UNCHANGED currentCmdStatus /\ granted \subseteq granted'
    BY <1>5 DEF Dispatcher, Dispatch, ClearBuffer, Copy, Repeats, Send, StartTimer, StopTimer,
       TimedOut, UseRepeat, AdvanceQueue, SetStatus, SetExecute, SetRspWait, SetRecvd, Test, data, queue,
       outcome
  <2>. QED
    BY <1>2, <2>1
<1>6. CASE Responder
  <2>1. \/ UNCHANGED <<currentCmdStatus, granted>>
        \/ currentCmdStatus' = NOK_OPER
        \/ SetOutcome("succeed", "current", CurrentSlot.successStatus)
    BY <1>6 DEF Responder, Receive, Urc, Callback, Switch, SetOutcome, InitQueue, OutcomeClear,
       StartTimer, StopTimer, UseRepeat, AdvanceQueue, SetStatus, SetExecute, SetRspWait, SetRecvd,
       Test, data, queue, outcome
  <2>. QED
    BY <1>2, <1>3, <1>4, <2>1
<1>. QED
  BY <1>5, <1>6

LEMMA GoalStep ==
  ASSUME TypeOK, Conjuncts, CallInv', AnswerInv, GoalInv, [Next]_vars PROVE GoalInv'
<1>0. /\ GoalStatus /\ GoalBatch /\ GoalWindow /\ GoalResult /\ GoalPolled /\ CallInv
  BY GoalParts DEF Conjuncts
<1>1. CASE Tester
  BY <1>0, <1>1, TesterBatch, TesterGoalWindow, TesterGoalResult, GoalPartsNext
<1>2. CASE Dispatcher \/ Responder
  <2>1. GoalStatus' /\ GoalBatch'
    BY <1>0, <1>2, OtherLocal DEF GoalStatus, GoalBatch
  <2>. QED
    BY <1>0, <1>2, <2>1, OtherGoalWindow, OtherGoalResult, GoalPartsNext
<1>3. CASE \/ (\E u \in Unsolicited : Speak(u)) \/ Deliver \/ SysTick \/ TimerExpires
           \/ UNCHANGED vars
  <2>1. UNCHANGED <<queue, local, granted, pc>>
    BY <1>3 DEF Speak, Deliver, SysTick, TimerExpires, Tick, vars, data
  <2>2. UNCHANGED <<batch, goal, currentCmdStatus>>
    BY <2>1 DEF queue, outcome, local
  <2>3. UNCHANGED <<Left, Unsent>>
    BY <2>1 DEF queue, local, Left, Advancing, Adding, Unsent
  <2>4. GoalStatus' /\ GoalBatch' /\ GoalWindow'
    BY <1>0, <2>1, <2>2, <2>3 DEF queue, indices, GoalStatus, GoalBatch, GoalWindow
  <2>5. GoalResult' /\ GoalPolled'
    BY <1>0, <2>1, <2>2 DEF GoalResult, GoalPolled, Success
  <2>. QED
    BY <2>4, <2>5, GoalPartsNext
<1>. QED
  BY <1>1, <1>2, <1>3 DEF Next

LEMMA InitGrant == Init /\ Faithful => TimerInv /\ AnswerInv /\ GoalInv
<1> SUFFICES ASSUME Init, Faithful PROVE TimerInv /\ AnswerInv /\ GoalInv
  OBVIOUS
<1>1. pc["T"] = "idle" /\ pc["D"] = "loop" /\ pc["R"] = "loop" /\ goal = EmptySlot /\ batch = <<>>
  BY DEF Init
<1>2. TimerInv
  <2>1. SlotDelays
    BY DEF Init, QueueZeroed, EmptySlots, EmptySlot, SlotDelays
  <2>2. Armed
    BY <1>1 DEF Init, Armed
  <2>. QED
    BY <2>1, <2>2, TimerParts
<1>3. AnswerInv
  <2>1. air = <<>> /\ ~Held
    BY DEF Init, Held
  <2>2. Len(air) = 0 /\ \A k \in 1..Len(air) : FALSE
    BY <2>1
  <2>3. Airborne
    BY <2>1, <2>2, FlyingFacts DEF Airborne
  <2>4. InHand
    BY <1>1 DEF InHand
  <2>. QED
    BY <2>3, <2>4, AnswerParts
<1>4. GoalInv
  <2>1. Len(batch) = 0 /\ \A k \in 1..Len(batch) : FALSE
    BY <1>1
  <2>2. Left = 0
    BY <1>1 DEF Init, QueueZeroed, Left, Advancing, Adding
  <2>. QED
    BY <1>1, <2>1, <2>2, GoalParts DEF GoalStatus, GoalBatch, GoalWindow, GoalResult, GoalPolled
<1>. QED
  BY <1>2, <1>3, <1>4

\* With a faithful modem, whole passes and every tick, the answer under way or in hand answers the
\* command under execution, and no command but the last of a call has the status of its success.
THEOREM GrantInvariant == Spec => []GrantInv
<1>1. CASE Faithful
  <2>1. {"D", "R"} \subseteq Whole
    BY <1>1 DEF Faithful
  <2>2. Init => TimerInv /\ AnswerInv /\ GoalInv
    BY <1>1, InitGrant
  <2>3. TypeOK /\ ExecInv /\ ExecInv' /\ TimerInv /\ AnswerInv /\ GoalInv /\ [Next]_vars
          => TimerInv' /\ AnswerInv' /\ GoalInv'
    <3>1. (ExecInv => Conjuncts) /\ (ExecInv' => CallInv')
      BY <2>1 DEF ExecInv, Conjuncts
    <3>. QED
      BY <1>1, <3>1, TimerStep, AnswerStep, GoalStep
  <2>4. TimerInv /\ AnswerInv /\ GoalInv => GrantInv
    BY DEF GrantInv
  <2>. QED
    BY <2>2, <2>3, <2>4, ExecTypes, ExecInvariant, PTL DEF Spec
<1>2. CASE ~Faithful
  <2>1. GrantInv
    BY <1>2 DEF GrantInv
  <2>. QED
    BY <2>1, PTL
<1>. QED
  BY <1>1, <1>2

\* With a faithful modem a call reports success only when the modem has answered its last command
\* with OK: what the functions of yutu_fw_bt.c and yutu_fw_gsm_gprs.c read from currentCmdStatus
\* is then the truth.
THEOREM SuccessGranted == Faithful => (Spec => []SuccessIsGranted)
<1> SUFFICES ASSUME Faithful PROVE Spec => []SuccessIsGranted
  OBVIOUS
<1>1. GrantInv => SuccessIsGranted
  BY DEF GrantInv, GoalInv, SuccessIsGranted
<1>. QED
  BY <1>1, GrantInvariant, PTL
===============================================================================
