------------------------------- MODULE AtEngine -------------------------------
(***************************************************************************)
(* The AT command engine: the function that queues commands and waits, the *)
(* dispatcher thread, the response processor thread and the response       *)
(* timer.  One step is one pass of a thread's loop, so a pass is never     *)
(* preempted here (AtExec splits the passes).  The modem is not            *)
(* constrained: it may answer a command with any result its callback can   *)
(* return, late, twice or never.                                           *)
(***************************************************************************)
EXTENDS AtQueue

CONSTANTS Offered,        \* the commands the firmware's functions queue
          Batches,        \* the lists they queue them in
          RspOf           \* what each callback can return

ASSUME BatchesAssumption == /\ Offered \subseteq Command
                            /\ Batches \subseteq Seq(Offered) \ {<<>>}
\* The result of a call is read from the status of its last command, which no
\* other command of the list sets; nor has another its text.
Distinct(c, d) == c.atCmd # d.atCmd /\ c.successStatus # d.successStatus
ASSUME LastAssumption ==
  \A b \in Batches : /\ b[Len(b)].successStatus # NOK_OPER
                     /\ \A k \in 1..(Len(b) - 1) : Distinct(b[k], b[Len(b)])
ASSUME RspOfAssumption == RspOf \in [RspFunc -> SUBSET (Rsp \ {"FUN_OVER"})]

VARIABLES
  modemStatus,            \* "EXECUTE_AT", "RSP_WAIT" or "IDLE"
  s_atExecute, modemRspWait, responseRecvd,
  delayTimerStart, timeOutFlag,
  caller,                 \* where the calling function is, see Tester
  batch,                  \* commands the caller has not yet added
  goal,                   \* the last command of the call
  tried,                  \* history: sends of the command under execution
  accepted                \* history: commands of this call that were accepted

flags == <<s_atExecute, modemRspWait, responseRecvd>>
timer == <<delayTimerStart, timeOutFlag>>
engine == <<modemStatus, flags, timer>>
tester == <<caller, batch, goal>>
history == <<tried, accepted>>
vars == <<queue, engine, tester, history>>

Init == /\ QueueZeroed
        /\ modemStatus = "EXECUTE_AT"
        /\ s_atExecute = FALSE /\ modemRspWait = FALSE /\ responseRecvd = FALSE
        /\ delayTimerStart = FALSE /\ timeOutFlag = FALSE
        /\ caller = "idle" /\ batch = <<>> /\ goal = EmptySlot
        /\ tried = 0 /\ accepted = {}

\* A mutant: the flag that starts the timer is cleared and not set again.
TimerNotStarted == delayTimerStart' = FALSE /\ timeOutFlag' = FALSE

\* rsp_time_out_timer_start and rsp_time_out_timer_stop; the ticks that the
\* first loads are not counted here.
TimerStart == delayTimerStart' = TRUE /\ timeOutFlag' = FALSE
TimerStop == delayTimerStart' = FALSE /\ timeOutFlag' = FALSE
-------------------------------------------------------------------------------
(* The calling function, in the tester thread: "idle" (no call), "opening"  *)
(* (before add_at_cmd_queue), "filling" (in its loop), "waiting" (until     *)
(* commandCount is zero).                                                   *)

Call(b) == /\ caller = "idle"
           /\ QueueClear /\ cmdQueueWrite' = TRUE /\ OutcomeClear
           /\ caller' = "opening" /\ batch' = b /\ goal' = b[Len(b)]
           /\ accepted' = {}
           /\ UNCHANGED <<engine, tried>>

Open == /\ caller = "opening" /\ ~QueueError(Len(batch))
        /\ DelAtCmdHead
        /\ caller' = "filling"
        /\ UNCHANGED <<batch, goal, engine, history>>

\* The list does not fit: the call returns false after the closing queue_init.
Refused == /\ caller = "opening" /\ QueueError(Len(batch))
           /\ QueueInit
           /\ caller' = "idle" /\ batch' = <<>> /\ goal' = EmptySlot
           /\ UNCHANGED <<engine, history>>

\* One turn of the loop of add_at_cmd_queue.
Add == /\ caller = "filling" /\ batch # <<>>
       /\ AddAtCmd(Head(batch))
       /\ batch' = Tail(batch)
       /\ UNCHANGED <<caller, goal, engine, history>>

Close == /\ caller = "filling" /\ batch = <<>>
         /\ cmdQueueWrite' = FALSE
         /\ caller' = "waiting"
         /\ UNCHANGED <<atCmdQueue, indices, repeatCount, commandCount, outcome,
                        batch, goal, engine, history>>

\* A mutant: any accepted command makes the call succeed.
ResultOfAny == currentCmdStatus # NOK_OPER

\* The value the call returns when its loop on commandCount ends.
Result == currentCmdStatus = goal.successStatus

Return == /\ caller = "waiting" /\ commandCount = 0
          /\ QueueInit
          /\ caller' = "idle" /\ goal' = EmptySlot
          /\ UNCHANGED <<batch, engine, history>>

Proceed == Open \/ Refused \/ Add \/ Close \/ Return
Tester == Proceed \/ \E b \in Batches : Call(b)
-------------------------------------------------------------------------------
(* The dispatcher thread. *)

\* case MODEM_EXECUTE_AT with send_at_command.
ExecuteAt ==
  /\ modemStatus = "EXECUTE_AT"
  /\ commandCount > 0 /\ ~cmdQueueWrite /\ ~s_atExecute
  /\ repeatCount' = CurrentSlot.repCount
  /\ s_atExecute' = TRUE /\ modemRspWait' = TRUE /\ responseRecvd' = FALSE
  /\ TimerStart
  /\ modemStatus' = "RSP_WAIT"
  /\ tried' = tried + 1
  /\ UNCHANGED <<atCmdQueue, indices, commandCount, cmdQueueWrite, outcome,
                 tester, accepted>>

\* A mutant: a time-out uses a repeat even when none is left.
AfterTimeOutUnguarded == RepeatUsed

\* A time-out uses a repeat of the command, if one was left when it was sent,
\* and drops the command when none is left now.
AfterTimeOut == IF repeatCount > 0 THEN RepeatUsed ELSE atCmdQueue
Exhausted == AfterTimeOut[currentCmd].repCount = 0 /\ commandCount > 0

RspWaitTimeOut ==
  /\ modemStatus = "RSP_WAIT" /\ timeOutFlag /\ modemRspWait
  /\ atCmdQueue' = AfterTimeOut
  /\ IF Exhausted THEN Advance /\ tried' = 0
                  ELSE UNCHANGED <<currentCmd, commandCount, tried>>
  /\ s_atExecute' = (s_atExecute /\ repeatCount = 0 /\ ~Exhausted)
  /\ modemRspWait' = FALSE
  /\ TimerStop
  /\ modemStatus' = "EXECUTE_AT"
  /\ UNCHANGED <<firstCmd, lastCmd, repeatCount, cmdQueueWrite, outcome,
                 responseRecvd, tester, accepted>>

RspWaitRecvd ==
  /\ modemStatus = "RSP_WAIT" /\ ~(timeOutFlag /\ modemRspWait)
  /\ responseRecvd
  /\ modemStatus' = "EXECUTE_AT"
  /\ UNCHANGED <<queue, flags, timer, tester, history>>

\* case MODEM_IDLE: nothing in the loop leaves it.
Idle == /\ modemStatus = "IDLE" /\ timeOutFlag
        /\ TimerStop
        /\ UNCHANGED <<queue, modemStatus, flags, tester, history>>

Dispatcher == ExecuteAt \/ RspWaitTimeOut \/ RspWaitRecvd \/ Idle
-------------------------------------------------------------------------------
(* The response processor thread: a message that is no URC, while a command *)
(* is under execution.  Any other message leaves this state as it is.       *)

\* A mutant: an answer does not end the wait for it.
RspTakenStillWaited(ret) == /\ s_atExecute /\ s_atExecute' = FALSE
                            /\ responseRecvd' = TRUE
                            /\ CurrentSlot.rspFunc # NoFunc
                            /\ ret \in RspOf[CurrentSlot.rspFunc]
                            /\ UNCHANGED <<modemRspWait, tester>>

\* The code skips what follows when the slot has no callback, which
\* ExecutingIsQueued excludes.
RspTaken(ret) == /\ s_atExecute /\ s_atExecute' = FALSE
                 /\ responseRecvd' = TRUE
                 /\ modemRspWait' = FALSE
                 /\ CurrentSlot.rspFunc # NoFunc
                 /\ ret \in RspOf[CurrentSlot.rspFunc]
                 /\ UNCHANGED tester

RspRetry == /\ RspTaken("ERROR") /\ TimerStop
            /\ CurrentSlot.repCount > 0
            /\ atCmdQueue' = RepeatUsed
            /\ currentCmdRet' = "ERROR" /\ currentCmdStatus' = NOK_OPER
            /\ modemStatus' = "RSP_WAIT"
            /\ UNCHANGED <<indices, repeatCount, commandCount, cmdQueueWrite,
                           history>>

RspAbandon == /\ RspTaken("ERROR") /\ TimerStop
              /\ CurrentSlot.repCount = 0
              /\ QueueInit
              /\ tried' = 0
              /\ modemStatus' = "RSP_WAIT"
              /\ UNCHANGED accepted

RspAccept(ret) ==
  /\ RspTaken(ret) /\ TimerStop
  /\ currentCmdRet' = ret
  /\ IF commandCount > 0
       THEN /\ currentCmdStatus' = CurrentSlot.successStatus
            /\ Advance
            /\ tried' = 0 /\ accepted' = accepted \cup {CurrentSlot.atCmd}
       ELSE UNCHANGED <<currentCmdStatus, currentCmd, commandCount, history>>
  /\ modemStatus' = "RSP_WAIT"
  /\ UNCHANGED <<atCmdQueue, firstCmd, lastCmd, repeatCount, cmdQueueWrite>>

\* The callback asks for a second message: the dispatcher goes idle and the
\* timer is started again, but s_atExecute stays false.
RspWait == /\ RspTaken("WAIT") /\ TimerStart
           /\ currentCmdRet' = "WAIT"
           /\ modemStatus' = "IDLE"
           /\ UNCHANGED <<atCmdQueue, indices, repeatCount, commandCount,
                          cmdQueueWrite, currentCmdStatus, history>>

Responder == \/ RspRetry \/ RspAbandon \/ RspWait
             \/ \E ret \in {"CONTINUE", "FINISH"} : RspAccept(ret)
-------------------------------------------------------------------------------
\* SysTick_Handler when respTimeOut runs out.
TimerExpires == /\ delayTimerStart /\ ~timeOutFlag
                /\ delayTimerStart' = FALSE /\ timeOutFlag' = TRUE
                /\ UNCHANGED <<queue, modemStatus, flags, tester, history>>

Next == Tester \/ Dispatcher \/ Responder \/ TimerExpires

Spec == Init /\ [][Next]_vars

\* The scheduler gives every thread its slice in turn and SysTick never stops;
\* the modem owes nothing, and a function that has returned need not be called
\* again.
Fairness == WF_vars(Proceed) /\ WF_vars(Dispatcher) /\ WF_vars(TimerExpires)
FairSpec == Spec /\ Fairness
-------------------------------------------------------------------------------
(* Properties. *)

\* Every variable keeps its type; the history variables count what they say.
TypeOK == /\ QueueTypeOK
          /\ modemStatus \in {"EXECUTE_AT", "RSP_WAIT", "IDLE"}
          /\ s_atExecute \in BOOLEAN /\ modemRspWait \in BOOLEAN
          /\ responseRecvd \in BOOLEAN
          /\ delayTimerStart \in BOOLEAN /\ timeOutFlag \in BOOLEAN
          /\ caller \in {"idle", "opening", "filling", "waiting"}
          /\ batch \in Seq(Offered) /\ goal \in Slot
          /\ tried \in Nat /\ accepted \subseteq Cmd \cup {NoCmd}

\* A repeat is used up by the answer to a send or by its time-out: until then,
\* and for good once the dispatcher is idle, the last send has used none.
InFlight == IF s_atExecute \/ modemStatus = "IDLE" THEN 1 ELSE 0

\* The commands not yet done with, the first with the repCount it came with.
Restored(s) == [s EXCEPT !.repCount = @ + tried - InFlight]
Todo == [k \in 1..commandCount |-> IF k = 1 THEN Restored(CurrentSlot)
                                            ELSE Pending[k]]

Fifo == INSTANCE CommandFifo
          WITH Commands <- {Stored(c) : c \in Offered},
               phase <- IF caller = "opening" THEN "idle" ELSE caller,
               todo <- Todo, tries <- tried, status <- currentCmdStatus

\* The engine keeps the promise of CommandFifo, whatever the modem answers:
\* commands are tried in order, each between once and repCount + 1 times, none
\* is skipped or lost, and the status belongs to the last accepted one.
ImplementsFifo == Fifo!Spec

\* The command under execution is still in the queue, and its slot has the
\* callback that will take the answer: the response processor never works on a
\* slot that queue_init or a time-out has taken away.
ExecutingIsQueued ==
  s_atExecute => /\ caller = "waiting" /\ commandCount > 0
                 /\ CurrentSlot.rspFunc # NoFunc

\* A command under execution is always guarded by a timer that runs or has just
\* run out, with the dispatcher where it looks at it: a silent modem cannot
\* leave it waiting.
WaitIsTimed ==
  (s_atExecute \/ modemRspWait) =>
     /\ s_atExecute /\ modemRspWait /\ modemStatus = "RSP_WAIT"
     /\ delayTimerStart # timeOutFlag

\* The commands still to be executed are the last ones added, and with those
\* still to be added they fit in the array without going round its end.
WindowInArray ==
  /\ firstCmd = 0
  /\ commandCount > 0 => lastCmd = currentCmd + commandCount - 1
  /\ caller = "filling" => commandCount + Len(batch) <= ATCOMMAND_EXEC_CMD_QUEUE

\* The conjuncts that make the invariants above inductive.  What the queue
\* holds while the caller is not yet, or no longer, waiting:
CallerInv ==
  /\ (cmdQueueWrite = TRUE) <=> (caller \in {"opening", "filling"})
  /\ caller \in {"idle", "waiting"} => batch = <<>>
  /\ caller # "waiting" => /\ tried = 0 /\ currentCmdStatus = NOK_OPER
                           /\ currentCmd = 0 /\ modemStatus # "IDLE"
  /\ caller \in {"idle", "opening"} => commandCount = 0
  /\ caller # "waiting" /\ commandCount = 0 => lastCmd = 0

\* The slots still to be executed hold commands, with a callback.
SlotsInv == commandCount > 0 =>
  \A i \in currentCmd..lastCmd :
     atCmdQueue[i].rspFunc \in RspFunc /\ atCmdQueue[i].atCmd \in Cmd

\* Sends, and repeats left, of the command under execution.
TriesInv ==
  /\ commandCount = 0 => tried = 0
  /\ commandCount > 0 => CurrentSlot.repCount + tried - InFlight \in Uint8
  /\ s_atExecute => /\ tried > 0 /\ repeatCount = CurrentSlot.repCount
                     /\ responseRecvd = FALSE
  /\ modemStatus = "IDLE" =>
       tried > 0 /\ commandCount > 0 /\ s_atExecute = FALSE /\ modemRspWait = FALSE
  /\ ~(delayTimerStart /\ timeOutFlag)

IInv == /\ TypeOK /\ WindowInArray /\ ExecutingIsQueued /\ WaitIsTimed
        /\ CallerInv /\ SlotsInv /\ TriesInv

\* What makes ResultIsLast hold: wherever the last command of the call is,
\* in the list or in the queue, it alone has its text and its status; until it is
\* done with, neither the status nor the history tells of it, and from then on
\* both tell the same.
IsGoal(s) == s.atCmd = goal.atCmd /\ s.successStatus = goal.successStatus
GoalIsLast ==
  /\ \A k \in 1..Len(batch) : IF k = Len(batch) THEN batch[k] = goal
                                               ELSE Distinct(batch[k], goal)
  /\ commandCount > 0 =>
       \A i \in currentCmd..lastCmd : IF i = lastCmd /\ batch = <<>>
                                        THEN IsGoal(atCmdQueue[i])
                                        ELSE Distinct(atCmdQueue[i], goal)
GoalInv ==
  /\ GoalIsLast
  /\ caller # "idle" => goal.successStatus # NOK_OPER
  /\ caller \in {"opening", "filling"} => /\ accepted = {}
                                          /\ commandCount > 0 \/ batch # <<>>
  /\ caller = "waiting" => /\ Result <=> goal.atCmd \in accepted
                           /\ commandCount > 0 => ~Result

\* A call returns true exactly when its last command was accepted during it
\* (those before it may all have been given up): true is success, as yutu_fw_bt.h:38 has
\* it of bt_init and as the tester takes the value of every call.  Lines 47, 64 and 74 of
\* that header say the opposite of other calls, "1 to failure to connect and 0 for success".
ResultIsLast == [][Return => (Result <=> goal.atCmd \in accepted)]_vars

\* A call returns, even when the modem never answers, unless a callback has made
\* the dispatcher wait for a second message.
CallReturnsOrIdles == caller = "waiting" ~> caller = "idle" \/ modemStatus = "IDLE"
===============================================================================
