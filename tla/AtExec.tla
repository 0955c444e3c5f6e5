-------------------------------- MODULE AtExec --------------------------------
(***************************************************************************)
(* The AT command engine under the pre-emptive scheduler.  The tester (T), *)
(* the dispatcher (D) and the response processor (R) are interleaved       *)
(* statement by statement: SysTick may end a slice after any statement,    *)
(* and a statement that updates a shared counter from its old value is a   *)
(* load and a store.  The threads take their slices in turn; a slice of 20 *)
(* ms brings a thread back to the head of its loop at least once.          *)
(***************************************************************************)
EXTENDS AtQueue

CONSTANTS Batches,        \* the lists of commands that are queued
          Answers,        \* what the modem may answer a command with
          MaxAir,         \* answers under way at a time
          Unsolicited,    \* what it may send of its own accord
          MaxUnsolicited, \* and how often
          Prompt,         \* TRUE when an answer never comes after its time-out
          Whole,          \* threads whose passes are assumed not to be cut by a tick
          RspOf           \* RspOf[f][m]: what the callback f may return for m

ASSUME BatchesAssumption == Batches \subseteq Seq(Command) \ {<<>>}
ASSUME UnsolicitedAssumption == MaxUnsolicited \in Nat
\* The firmware gives a command the same repeats wherever it queues it.
Queued == UNION {{b[i] : i \in 1..Len(b)} : b \in Batches}
ASSUME RepeatsAssumption ==
  \A c, d \in Queued : c.atCmd = d.atCmd => c.repCount = d.repCount
\* The result of a call is read from the status of its last command, which no
\* other command of the list sets.
ASSUME LastAssumption ==
  \A b \in Batches :
    /\ b[Len(b)].successStatus # NOK_OPER
    /\ \A k \in 1..(Len(b) - 1) : b[k].successStatus # b[Len(b)].successStatus
ASSUME RspOfAssumption ==
  \A f \in RspFunc : \A m \in Answers \cup Unsolicited \cup {""} :
    RspOf[f][m] \in SUBSET Rsp \ {{}}

VARIABLES
  modemStatus, s_atExecute, modemRspWait, responseRecvd,
  delayTimerStart, respTimeOut, timeOutFlag,
  responseRecvBuffer,     \* the message being processed, "" when cleared
  rspRxPtr,               \* the pointer to that buffer is set
  inbox,                  \* the message yutu_fw_uart_recieve would return, or ""
  air,                    \* what the modem has sent and the UART not yet taken
  spoken,                 \* number of unsolicited messages so far
  running, turned,        \* the thread in its slice; it has been round its loop
  pc, reg,                \* of each thread: next statement, loaded operand
  cmd,                    \* the dispatcher's copy of the command to send
  batch, goal,            \* of the calling function: still to add, last command
  granted                 \* history: commands of this call answered with "OK"

engine == <<modemStatus, s_atExecute, modemRspWait, responseRecvd>>
timer == <<delayTimerStart, respTimeOut, timeOutFlag>>
modem == <<inbox, air, spoken>>
local == <<reg, cmd, batch, goal, rspRxPtr>>
data == <<queue, engine, timer, responseRecvBuffer, local, granted>>
vars == <<data, modem, running, turned, pc>>

Thread == {"T", "D", "R"}                \* in the order of task_init
NextThread == [T |-> "D", D |-> "R", R |-> "T"]
Heads == {"idle", "poll", "loop"}

Init == /\ QueueZeroed
        /\ modemStatus = "EXECUTE_AT"
        /\ s_atExecute = FALSE /\ modemRspWait = FALSE /\ responseRecvd = FALSE
        /\ delayTimerStart = FALSE /\ respTimeOut = 0 /\ timeOutFlag = FALSE
        /\ responseRecvBuffer = "" /\ rspRxPtr = FALSE
        /\ inbox = "" /\ air = <<>> /\ spoken = 0
        /\ running = "T" /\ turned = FALSE
        /\ pc = [T |-> "idle", D |-> "loop", R |-> "loop"]
        /\ reg = [t \in Thread |-> <<0, 0>>]
        /\ cmd = EmptySlot /\ batch = <<>> /\ goal = EmptySlot /\ granted = {}

\* Thread t, in its slice, executes the statement at a and goes on to b.
Go(t, a, b) == /\ running = t /\ pc[t] = a
               /\ pc' = [pc EXCEPT ![t] = b]
               /\ turned' = (turned \/ b \in Heads)
               /\ UNCHANGED running
Step(t, a, b) == Go(t, a, b) /\ UNCHANGED modem
Test(t, a, b) == Step(t, a, b) /\ UNCHANGED data
Load(t, i, v) == reg' = [reg EXCEPT ![t] = <<i, v>>]
Operand(t) == reg[t][2]
-------------------------------------------------------------------------------
(* What several threads do: atcommand_exec_at_cmd_queue_init, the use of a  *)
(* repeat, the advance to the next command, and the timer.                  *)

AfterInit(t) == IF t = "R" THEN "status" ELSE IF batch # <<>> THEN "open" ELSE "idle"
InitQueue(t) ==
  /\ \/ /\ Step(t, "slots", "count")
        /\ atCmdQueue' = EmptySlots /\ repeatCount' = 0
        /\ firstCmd' = 0 /\ lastCmd' = 0 /\ currentCmd' = 0
        /\ UNCHANGED <<commandCount, cmdQueueWrite, outcome>>
     \/ /\ Step(t, "count", "write")
        /\ commandCount' = 0
        /\ UNCHANGED <<atCmdQueue, indices, repeatCount, cmdQueueWrite, outcome>>
     \/ /\ Step(t, "write", "outcome")
        /\ cmdQueueWrite' = FALSE
        /\ UNCHANGED <<atCmdQueue, indices, repeatCount, commandCount, outcome>>
     \/ /\ Step(t, "outcome", AfterInit(t))
        /\ OutcomeClear
        /\ UNCHANGED <<atCmdQueue, indices, repeatCount, commandCount, cmdQueueWrite>>
  /\ UNCHANGED <<engine, timer, responseRecvBuffer, local, granted>>

UseRepeat(t, b) ==
  /\ \/ /\ Step(t, "repeat", "repeat_store")
        /\ Load(t, currentCmd, CurrentSlot.repCount)
        /\ UNCHANGED atCmdQueue
     \/ /\ Step(t, "repeat_store", b)
        /\ atCmdQueue' = [atCmdQueue EXCEPT ![reg[t][1]].repCount = Dec8(Operand(t))]
        /\ Load(t, 0, 0)
  /\ UNCHANGED <<indices, repeatCount, commandCount, cmdQueueWrite, outcome,
                 engine, timer, responseRecvBuffer, rspRxPtr, cmd, batch, goal, granted>>

AdvanceQueue(t, b) ==
  /\ \/ /\ Step(t, "current", "current_store")
        /\ Load(t, 0, currentCmd)
        /\ UNCHANGED <<currentCmd, commandCount>>
     \/ /\ Step(t, "current_store", "count_down")
        /\ currentCmd' = NextIndex(Operand(t))
        /\ Load(t, 0, 0)
        /\ UNCHANGED commandCount
     \/ /\ Step(t, "count_down", "count_store")
        /\ Load(t, 0, commandCount)
        /\ UNCHANGED <<currentCmd, commandCount>>
     \/ /\ Step(t, "count_store", b)
        /\ commandCount' = Dec8(Operand(t))
        /\ Load(t, 0, 0)
        /\ UNCHANGED currentCmd
  /\ UNCHANGED <<atCmdQueue, firstCmd, lastCmd, repeatCount, cmdQueueWrite, outcome,
                 engine, timer, responseRecvBuffer, rspRxPtr, cmd, batch, goal, granted>>

\* A mutant: the flag that starts the timer is never set.
StartTimerNever(t, b) ==
  /\ Step(t, "arm", b)
  /\ delayTimerStart' = FALSE /\ timeOutFlag' = FALSE
  /\ respTimeOut' = CurrentSlot.rspDelay
  /\ UNCHANGED <<queue, engine, responseRecvBuffer, local, granted>>

\* rsp_time_out_timer_start loads the counter while the timer is off, so its
\* first three assignments are one step; rsp_time_out_timer_stop is two.
StartTimer(t, b) ==
  /\ \/ /\ Step(t, "arm", "start")
        /\ delayTimerStart' = FALSE /\ timeOutFlag' = FALSE
        /\ respTimeOut' = CurrentSlot.rspDelay
     \/ /\ Step(t, "start", b)
        /\ delayTimerStart' = TRUE
        /\ UNCHANGED <<respTimeOut, timeOutFlag>>
  /\ UNCHANGED <<queue, engine, responseRecvBuffer, local, granted>>
StopTimer(t, a1, a2, b) ==
  /\ \/ /\ Step(t, a1, a2)
        /\ delayTimerStart' = FALSE
        /\ UNCHANGED <<respTimeOut, timeOutFlag>>
     \/ /\ Step(t, a2, b)
        /\ respTimeOut' = 0 /\ timeOutFlag' = FALSE
        /\ UNCHANGED delayTimerStart
  /\ UNCHANGED <<queue, engine, responseRecvBuffer, local, granted>>

\* One assignment to each flag of the engine.
SetStatus(t, a, b, v) ==
  /\ Step(t, a, b) /\ modemStatus' = v
  /\ UNCHANGED <<queue, s_atExecute, modemRspWait, responseRecvd, timer,
                 responseRecvBuffer, local, granted>>
SetExecute(t, a, b, v) ==
  /\ Step(t, a, b) /\ s_atExecute' = v
  /\ UNCHANGED <<queue, modemStatus, modemRspWait, responseRecvd, timer,
                 responseRecvBuffer, local, granted>>
SetRspWait(t, a, b, v) ==
  /\ Step(t, a, b) /\ modemRspWait' = v
  /\ UNCHANGED <<queue, modemStatus, s_atExecute, responseRecvd, timer,
                 responseRecvBuffer, local, granted>>
SetRecvd(t, a, b, v) ==
  /\ Step(t, a, b) /\ responseRecvd' = v
  /\ UNCHANGED <<queue, modemStatus, s_atExecute, modemRspWait, timer,
                 responseRecvBuffer, local, granted>>
SetWrite(t, a, b, v) ==
  /\ Step(t, a, b) /\ cmdQueueWrite' = v
  /\ UNCHANGED <<atCmdQueue, indices, repeatCount, commandCount, outcome, engine,
                 timer, responseRecvBuffer, local, granted>>
-------------------------------------------------------------------------------
(* The tester thread: a function that queues commands and waits. *)

Call(b) == /\ Step("T", "idle", "slots")
           /\ batch' = b /\ goal' = b[Len(b)] /\ granted' = {}
           /\ UNCHANGED <<queue, engine, timer, responseRecvBuffer, rspRxPtr, reg, cmd>>

\* atcommand_exec_add_at_cmd_queue: its test with del_at_cmd_head, then its loop.
Enter == /\ ~QueueError(Len(batch)) /\ Step("T", "enter", "more")
         /\ DelAtCmdHead
         /\ UNCHANGED <<engine, timer, responseRecvBuffer, local, granted>>
Refused == /\ QueueError(Len(batch)) /\ Step("T", "enter", "shut")
           /\ batch' = <<>> /\ goal' = EmptySlot
           /\ UNCHANGED <<queue, engine, timer, responseRecvBuffer, rspRxPtr, reg, cmd,
                           granted>>
More == /\ QueueFull \/ batch = <<>>
        /\ Step("T", "more", IF batch = <<>> THEN "shut" ELSE "more")
        /\ batch' = IF batch = <<>> THEN <<>> ELSE Tail(batch)
        /\ UNCHANGED <<queue, engine, timer, responseRecvBuffer, rspRxPtr, reg, cmd,
                        goal, granted>>
Store == /\ ~QueueFull /\ batch # <<>> /\ Step("T", "more", "count_up")
         /\ lastCmd' = TailIndex
         /\ atCmdQueue' = [atCmdQueue EXCEPT ![TailIndex] = Stored(Head(batch))]
         /\ UNCHANGED <<firstCmd, currentCmd, repeatCount, commandCount, cmdQueueWrite,
                        outcome, engine, timer, responseRecvBuffer, local, granted>>
CountUp == /\ \/ /\ Step("T", "count_up", "up_store")
                 /\ Load("T", 0, commandCount)
                 /\ UNCHANGED <<commandCount, batch>>
              \/ /\ Step("T", "up_store", "more")
                 /\ commandCount' = Inc8(Operand("T"))
                 /\ batch' = Tail(batch)
                 /\ Load("T", 0, 0)
           /\ UNCHANGED <<atCmdQueue, indices, repeatCount, cmdQueueWrite, outcome,
                          engine, timer, responseRecvBuffer, rspRxPtr, cmd, goal,
                          granted>>

\* The loop on commandCount, and the value that is read after it.
Poll == /\ commandCount = 0 \/ ~turned
        /\ Test("T", "poll", IF commandCount = 0 THEN "result" ELSE "poll")
\* A mutant: any accepted command makes the call succeed.
SuccessOfAny == currentCmdStatus # NOK_OPER
Success == currentCmdStatus = goal.successStatus
Return == /\ Step("T", "result", "slots")
          /\ goal' = EmptySlot
          /\ UNCHANGED <<queue, engine, timer, responseRecvBuffer, rspRxPtr, reg, cmd,
                         batch, granted>>

Proceed == \/ InitQueue("T") \/ SetWrite("T", "open", "enter", TRUE)
           \/ Enter \/ Refused \/ More \/ Store \/ CountUp
           \/ SetWrite("T", "shut", IF goal = EmptySlot THEN "slots" ELSE "poll", FALSE)
           \/ Poll \/ Return
           \/ (~turned /\ Test("T", "idle", "idle"))
Tester == Proceed \/ \E b \in Batches : Call(b)
-------------------------------------------------------------------------------
(* The dispatcher thread. *)

\* A mutant: the dispatcher does not wait until the queue is filled.
ReadyWhileFilling == commandCount > 0 /\ ~s_atExecute
Ready == commandCount > 0 /\ ~cmdQueueWrite /\ ~s_atExecute

\* The switch on modemStatus with the condition of its case.
Dispatch ==
  \/ /\ modemStatus = "EXECUTE_AT" /\ (Ready \/ ~turned)
     /\ Test("D", "loop", IF Ready THEN "clear" ELSE "loop")
  \/ /\ modemStatus = "RSP_WAIT"
     /\ Test("D", "loop", IF timeOutFlag /\ modemRspWait THEN "timed_out"
                                                          ELSE "received")
  \/ /\ modemStatus = "IDLE" /\ (timeOutFlag \/ ~turned)
     /\ Test("D", "loop", IF timeOutFlag THEN "idle_stop" ELSE "loop")

ClearBuffer == /\ Step("D", "clear", "not_received")
               /\ responseRecvBuffer' = "" /\ rspRxPtr' = TRUE
               /\ UNCHANGED <<queue, engine, timer, reg, cmd, batch, goal, granted>>
Copy == /\ Step("D", "copy", "repeats")
        /\ cmd' = CurrentSlot
        /\ UNCHANGED <<queue, engine, timer, responseRecvBuffer, rspRxPtr, reg, batch,
                        goal, granted>>
Repeats == /\ Step("D", "repeats", "executing")
           /\ repeatCount' = cmd.repCount
           /\ UNCHANGED <<atCmdQueue, indices, commandCount, cmdQueueWrite, outcome,
                          engine, timer, responseRecvBuffer, local, granted>>

\* The text leaves through the UART; the modem will answer a, or nothing.  An
\* emptied slot has no text.
Send(a) == /\ Go("D", "send", "arm")
           /\ a # "" => cmd.atCmd # NoCmd /\ Len(air) < MaxAir
           /\ air' = IF a = "" THEN air ELSE Append(air, a)
           /\ granted' = IF a = "OK" THEN granted \cup {cmd.atCmd} ELSE granted
           /\ cmd' = EmptySlot
           /\ UNCHANGED <<queue, engine, timer, responseRecvBuffer, rspRxPtr, inbox,
                          spoken, reg, batch, goal>>

\* A mutant: a time-out uses a repeat even when none was left at the send.
TimedOutUnguarded ==
  \/ Test("D", "timed_out", "repeat")
  \/ Test("D", "drop", IF CurrentSlot.repCount = 0 /\ commandCount > 0
                         THEN "current" ELSE "resume")
TimedOut ==
  \/ Test("D", "timed_out", IF repeatCount > 0 THEN "repeat" ELSE "drop")
  \/ Test("D", "drop", IF CurrentSlot.repCount = 0 /\ commandCount > 0
                         THEN "current" ELSE "resume")

Dispatcher ==
  \/ Dispatch
  \/ ClearBuffer \/ SetRecvd("D", "not_received", "copy", FALSE) \/ Copy
  \/ Repeats \/ SetExecute("D", "executing", "send", TRUE)
  \/ (\E a \in Answers \cup {""} : Send(a))
  \/ StartTimer("D", "waiting") \/ SetRspWait("D", "waiting", "sent", TRUE)
  \/ SetStatus("D", "sent", "loop", "RSP_WAIT")
  \/ TimedOut
  \/ UseRepeat("D", "not_executing") \/ SetExecute("D", "not_executing", "drop", FALSE)
  \/ AdvanceQueue("D", "dropped") \/ SetExecute("D", "dropped", "resume", FALSE)
  \/ SetStatus("D", "resume", "not_waiting", "EXECUTE_AT")
  \/ SetRspWait("D", "not_waiting", "stop", FALSE)
  \/ StopTimer("D", "stop", "stopped", "received")
  \/ Test("D", "received", IF responseRecvd THEN "again" ELSE "loop")
  \/ SetStatus("D", "again", "loop", "EXECUTE_AT")
  \/ StopTimer("D", "idle_stop", "idle_stopped", "loop")
-------------------------------------------------------------------------------
(* The response processor thread. *)

\* The UART hands over a message once a first dispatch has set rspRxPtr.
Message == rspRxPtr /\ inbox # ""

Receive == /\ \/ /\ Message
                 /\ Go("R", "loop", "urc")
                 /\ responseRecvBuffer' = inbox /\ inbox' = ""
              \/ /\ ~Message /\ ~turned
                 /\ Go("R", "loop", "loop")
                 /\ UNCHANGED <<responseRecvBuffer, inbox>>
           /\ UNCHANGED <<queue, engine, timer, air, spoken, local, granted>>

\* global_urc_handler empties the buffer for any entry of its table, and
\* returns true for the last entry only.
Urc == /\ Step("R", "urc", IF responseRecvBuffer = "+BTSPPDATA" THEN "loop" ELSE "test")
       /\ responseRecvBuffer' = IF responseRecvBuffer \in {"URC", "+BTSPPDATA"}
                                  THEN "" ELSE responseRecvBuffer
       /\ UNCHANGED <<queue, engine, timer, local, granted>>

\* The callback is tested, then called: a call through a slot that has been
\* emptied in between never comes back.
Callback ==
  /\ CurrentSlot.rspFunc # NoFunc /\ Step("R", "invoke", "switch")
  /\ currentCmdRet' \in RspOf[CurrentSlot.rspFunc][responseRecvBuffer]
  /\ UNCHANGED <<atCmdQueue, indices, repeatCount, commandCount, cmdQueueWrite,
                 currentCmdStatus, engine, timer, responseRecvBuffer, local, granted>>

Switch == Test("R", "switch", CASE currentCmdRet = "ERROR"    -> "error"
                                [] currentCmdRet = "WAIT"     -> "wait"
                                [] currentCmdRet = "FUN_OVER" -> "loop"
                                [] OTHER                      -> "accept")
SetOutcome(a, b, v) ==
  /\ Step("R", a, b) /\ currentCmdStatus' = v
  /\ UNCHANGED <<atCmdQueue, indices, repeatCount, commandCount, cmdQueueWrite,
                 currentCmdRet, engine, timer, responseRecvBuffer, local, granted>>

Responder ==
  \/ Receive \/ Urc
  \/ Test("R", "test", IF s_atExecute THEN "taken" ELSE "loop")
  \/ SetExecute("R", "taken", "set_received", FALSE)
  \/ SetRecvd("R", "set_received", "not_waiting", TRUE)
  \/ SetRspWait("R", "not_waiting", "stop", FALSE)
  \/ StopTimer("R", "stop", "stopped", "callback")
  \/ Test("R", "callback", IF CurrentSlot.rspFunc # NoFunc THEN "invoke" ELSE "loop")
  \/ Callback
  \/ Switch
  \/ Test("R", "error", IF CurrentSlot.repCount > 0 THEN "repeat" ELSE "slots")
  \/ UseRepeat("R", "nok") \/ SetOutcome("nok", "status", NOK_OPER)
  \/ InitQueue("R")
  \/ Test("R", "accept", IF commandCount > 0 THEN "succeed" ELSE "status")
  \/ SetOutcome("succeed", "current", CurrentSlot.successStatus)
  \/ AdvanceQueue("R", "status")
  \/ SetStatus("R", "status", "loop", "RSP_WAIT")
  \/ SetStatus("R", "wait", "arm", "IDLE") \/ StartTimer("R", "loop")
-------------------------------------------------------------------------------
(* The modem, the UART and SysTick. *)

Speak(u) == /\ spoken < MaxUnsolicited
            /\ spoken' = spoken + 1
            /\ air' = Append(air, u)
            /\ UNCHANGED <<data, inbox, running, turned, pc>>

Deliver == /\ air # <<>> /\ inbox = ""
           /\ inbox' = Head(air) /\ air' = Tail(air)
           /\ UNCHANGED <<data, spoken, running, turned, pc>>

\* A timer runs out at a tick.  A prompt modem's answers are dealt with first,
\* unless the timer was loaded from an emptied slot.
RunsOut == delayTimerStart /\ ~timeOutFlag
MayRunOut == /\ RunsOut
             /\ Prompt /\ respTimeOut > 0 => air = <<>> /\ inbox = "" /\ pc["R"] = "loop"

Tick == /\ turned /\ turned' = FALSE
        /\ running \in Whole => pc[running] \in Heads
        /\ running' = NextThread[running]
        /\ UNCHANGED <<queue, engine, responseRecvBuffer, local, granted, modem, pc>>
SysTick == Tick /\ (RunsOut => respTimeOut > 0) /\ UNCHANGED timer
TimerExpires == /\ Tick /\ MayRunOut
                /\ delayTimerStart' = FALSE /\ timeOutFlag' = TRUE
                /\ UNCHANGED respTimeOut

Next == \/ Tester \/ Dispatcher \/ Responder
        \/ (\E u \in Unsolicited : Speak(u)) \/ Deliver
        \/ SysTick \/ TimerExpires

Spec == Init /\ [][Next]_vars

\* A thread in its slice executes, and the UART takes in what the modem has
\* sent.  Ticks never stop, and the one at which a running timer is due is never
\* put off for ever.
Fairness == /\ WF_vars(Proceed) /\ WF_vars(Dispatcher) /\ WF_vars(Responder)
            /\ WF_vars(Deliver)
            /\ WF_vars(SysTick \/ TimerExpires) /\ SF_vars(TimerExpires)
FairSpec == Spec /\ Fairness
-------------------------------------------------------------------------------
(* Properties. *)

Labels ==
  [T |-> {"idle", "slots", "count", "write", "outcome", "open", "enter", "more",
          "count_up", "up_store", "shut", "poll", "result"},
   D |-> {"loop", "clear", "not_received", "copy", "repeats", "executing", "send",
          "arm", "start", "waiting", "sent", "timed_out", "repeat", "repeat_store",
          "not_executing", "drop", "current", "current_store", "count_down",
          "count_store", "dropped", "resume", "not_waiting", "stop", "stopped",
          "received", "again", "idle_stop", "idle_stopped"},
   R |-> {"loop", "urc", "test", "taken", "set_received", "not_waiting", "stop",
          "stopped", "callback", "invoke", "switch", "error", "repeat",
          "repeat_store", "nok", "slots", "count", "write", "outcome", "accept",
          "succeed", "current", "current_store", "count_down", "count_store",
          "status", "wait", "arm", "start"}]

Text == Answers \cup Unsolicited \cup {""}

\* Every variable keeps its type, every thread is at a statement of its own.
TypeOK == /\ QueueTypeOK
          /\ modemStatus \in {"EXECUTE_AT", "RSP_WAIT", "IDLE"}
          /\ {s_atExecute, modemRspWait, responseRecvd, delayTimerStart,
              timeOutFlag, rspRxPtr, turned} \subseteq BOOLEAN
          /\ respTimeOut \in Delay \cup {0}
          /\ {responseRecvBuffer, inbox} \subseteq Text
          /\ air \in Seq(Text) /\ spoken \in 0..MaxUnsolicited
          /\ running \in Thread
          /\ DOMAIN pc = Thread /\ \A t \in Thread : pc[t] \in Labels[t]
          /\ reg \in [Thread -> Uint8 \X Uint8]
          /\ cmd \in Slot /\ goal \in Slot /\ batch \in Seq(Queued) /\ granted \subseteq Cmd

\* The repeats left for a command are never more than it was queued with, so a
\* command is sent at most repCount + 1 times.
RepeatsLeft == \A i \in Index : \A c \in Queued :
                 atCmdQueue[i].atCmd = c.atCmd => atCmdQueue[i].repCount <= c.repCount

\* The dispatcher never sends an emptied slot, and nothing while the queue is
\* being filled.
SendsQueued == pc["D"] = "send" => /\ cmd.atCmd # NoCmd
                                   /\ pc["T"] \in {"poll", "result"}

(* What keeps those two when no tick cuts the dispatcher and the response      *)
(* processor: each finds the queue and the flags as its last pass left them.   *)

\* One of the two is in a pass at a time, and the tester is then between two of its
\* statements.
PassInv == \A t \in {"D", "R"} : pc[t] # "loop" => running = t

\* The tester empties the queue, fills it from its first slot, and waits.
Adding == pc["T"] \in {"count_up", "up_store"}
CallInv ==
  /\ pc["T"] \in {"idle", "slots", "count", "write", "outcome", "open", "enter", "result"}
       => commandCount = 0
  /\ pc["T"] \in {"count", "write", "outcome", "open", "enter"}
       => currentCmd = 0 /\ lastCmd = 0
  /\ pc["T"] \in {"enter", "more", "count_up", "up_store", "shut"} => cmdQueueWrite
  /\ pc["T"] \in {"open", "enter", "count_up", "up_store"} => batch # <<>>
  /\ pc["T"] \in {"shut", "poll", "result", "idle"} => batch = <<>>
  /\ batch # <<>> \/ pc["T"] = "more" => goal # EmptySlot
  /\ pc["T"] = "more" \/ Adding =>
       currentCmd = 0 /\ commandCount + Len(batch) <= ATCOMMAND_EXEC_CMD_QUEUE
  /\ pc["T"] = "more" /\ commandCount = 0 => lastCmd = 0
  /\ pc["T"] = "shut" /\ goal = EmptySlot => commandCount = 0

\* A command is under execution, or one of the two works on the queue, only while
\* the tester waits for commands.
AtQueueD == Labels["D"] \ {"loop", "dropped", "resume", "not_waiting", "stop", "stopped",
                           "received", "again", "idle_stop", "idle_stopped"}
AtQueueR == {"taken", "set_received", "not_waiting", "stop", "stopped", "callback", "invoke",
             "switch", "error", "repeat", "repeat_store", "slots", "accept", "succeed",
             "current", "current_store", "count_down", "count_store"}
WorkInv ==
  /\ \/ pc["D"] \in AtQueueD \cup {"dropped", "resume"}
     \/ pc["R"] \in AtQueueR \cup {"nok", "count", "write", "outcome", "status", "wait"}
     \/ s_atExecute
     => pc["T"] = "poll"
  /\ pc["D"] \in AtQueueD \/ pc["R"] \in AtQueueR => commandCount > 0
  /\ s_atExecute /\ pc["D"] # "dropped" => commandCount > 0

\* The flags between the statements that change them, and the repeats read at the send.
FlagsInv ==
  /\ s_atExecute => ~responseRecvd /\ pc["R"] \in {"loop", "urc", "test", "taken"}
  /\ s_atExecute => \/ modemStatus = "RSP_WAIT"
                     \/ pc["D"] \in {"send", "arm", "start", "waiting", "sent"}
  /\ pc["D"] \in {"clear", "not_received", "copy", "repeats", "executing", "resume",
                  "not_waiting", "stop", "stopped"} => ~s_atExecute
  /\ pc["D"] \in {"copy", "repeats", "executing", "send"} => ~responseRecvd
  /\ pc["D"] \in {"send", "arm", "start", "waiting", "sent", "timed_out", "repeat",
                  "repeat_store", "not_executing"} => s_atExecute
  /\ pc["D"] = "again" => responseRecvd
  /\ modemRspWait => \/ s_atExecute
                     \/ pc["R"] \in {"set_received", "not_waiting"}
                     \/ pc["D"] \in {"drop", "current", "current_store", "count_down",
                                     "count_store", "dropped", "resume", "not_waiting"}
  /\ \/ pc["D"] = "executing"
     \/ s_atExecute /\ pc["D"] \notin {"not_executing", "count_down", "count_store", "dropped"}
     => repeatCount = CurrentSlot.repCount
  /\ pc["D"] = "drop" /\ s_atExecute => repeatCount = 0
  /\ pc["D"] \in {"repeats", "executing", "send"} => cmd = CurrentSlot

\* The commands that wait lie from currentCmd to lastCmd.  The count is not yet
\* up to date behind the store of a command, an advance, and the clearing of the slots.
Advancing == \E t \in {"D", "R"} : pc[t] \in {"count_down", "count_store"}
Left == IF pc["R"] = "count" THEN 0
        ELSE IF Advancing THEN commandCount - 1
        ELSE IF Adding THEN commandCount + 1
        ELSE commandCount
WindowInv ==
  Left > 0 => /\ currentCmd + Left = lastCmd + 1
              /\ \A i \in currentCmd..lastCmd : atCmdQueue[i].atCmd # NoCmd

\* An operand that was loaded is still the one in memory, and a repeat is left.
LoadInv ==
  /\ pc["T"] = "up_store" => Operand("T") = commandCount
  /\ \A t \in {"D", "R"} :
       /\ pc[t] \in {"repeat", "repeat_store"} => CurrentSlot.repCount > 0
       /\ pc[t] = "repeat_store" => reg[t] = <<currentCmd, CurrentSlot.repCount>>
       /\ pc[t] = "current_store" => Operand(t) = currentCmd
       /\ pc[t] = "count_store" => Operand(t) = commandCount

ExecInv == {"D", "R"} \subseteq Whole =>
             /\ PassInv /\ CallInv /\ WorkInv /\ FlagsInv /\ WindowInv /\ LoadInv
             /\ RepeatsLeft

\* A call reports success only when the modem has granted its last command.
SuccessIsGranted == pc["T"] = "result" /\ Success => goal.atCmd \in granted

(* What keeps that one when, besides, no answer comes after its time-out, a     *)
(* callback accepts "OK" only, and nothing but answers comes: the message under  *)
(* way, or in hand, answers the command under execution.                        *)
Faithful == /\ {"D", "R"} \subseteq Whole /\ Prompt /\ 0 \notin Delay
            /\ Unsolicited = {} /\ Answers \subseteq {"OK", "ERROR"}
            /\ \A f \in RspFunc : \A a \in Answers \ {"OK"} : RspOf[f][a] \subseteq {"ERROR", "WAIT"}

\* A timer that runs is not due at once, and has not run out while an answer is
\* under way.
Flying == air # <<>> \/ inbox # ""
TimerInv ==
  /\ \A i \in Index : atCmdQueue[i].atCmd # NoCmd => atCmdQueue[i].rspDelay # 0
  /\ delayTimerStart \/ (\E t \in {"D", "R"} : pc[t] = "start") => respTimeOut > 0
  /\ (\E t \in {"D", "R"} : pc[t] \in {"stopped", "idle_stopped"}) => ~delayTimerStart
  /\ pc["R"] \in {"wait", "arm"} => CurrentSlot.atCmd # NoCmd
  /\ timeOutFlag /\ pc["D"] # "arm" => ~Flying

\* At most one answer is under way, to the command under execution.
TellsCurrent(m) == m \in Answers /\ (m = "OK" => CurrentSlot.atCmd \in granted)
AnswerInv ==
  /\ air = <<>> \/ inbox = ""
  /\ Len(air) <= 1
  /\ Flying => /\ s_atExecute /\ pc["R"] = "loop"
               /\ pc["D"] \in {"loop", "arm", "start", "waiting", "sent", "received", "again"}
  /\ \A k \in 1..Len(air) : TellsCurrent(air[k])
  /\ inbox # "" => TellsCurrent(inbox)
  /\ pc["R"] \in {"urc", "test", "taken", "set_received", "not_waiting", "stop", "stopped",
                  "callback", "invoke"} => TellsCurrent(responseRecvBuffer)
  /\ pc["R"] = "switch" =>
       currentCmdRet \in {"ERROR", "WAIT"} \/ CurrentSlot.atCmd \in granted
  /\ pc["R"] \in {"accept", "succeed"} => CurrentSlot.atCmd \in granted

\* The last command is in the list or in the last slot, and none before it has its status.
Unsent == IF Adding THEN Len(batch) - 1 ELSE Len(batch)
GoalInv ==
  /\ goal # EmptySlot => goal.successStatus # NOK_OPER
  /\ \A k \in 1..Len(batch) : IF k = Len(batch)
                                THEN batch[k] = goal
                                ELSE batch[k].successStatus # goal.successStatus
  /\ Left > 0 =>
       \A i \in currentCmd..lastCmd :
         IF i = lastCmd /\ Unsent = 0
           THEN atCmdQueue[i].atCmd = goal.atCmd
           ELSE atCmdQueue[i].successStatus # goal.successStatus
  /\ pc["T"] \in {"open", "enter", "more", "count_up", "up_store", "shut", "poll", "result"} =>
       goal = EmptySlot \/ (Success => goal.atCmd \in granted)
  /\ pc["T"] \in {"poll", "result"} => goal # EmptySlot

GrantInv == Faithful => TimerInv /\ AnswerInv /\ GoalInv

\* A call returns.
CallReturns == pc["T"] = "poll" ~> pc["T"] = "idle"
===============================================================================
