------------------------------- MODULE Scheduler -------------------------------
(***************************************************************************)
(* The round-robin scheduler: yutu_fw_scheduler.c and the PendSV handler.  *)
(* A context is what a thread has on its stack and in the registers; here  *)
(* <<t, k>>, thread t after k of its own steps.  SysTick picks the next    *)
(* thread, PendSV later exchanges the contexts; the processor belongs to   *)
(* one context in between.  SysTick also counts the response timer, which  *)
(* a thread starts and stops statement by statement (rsp_time_out_timer_   *)
(* start and _stop); delay_ms, which nothing calls, is left out.           *)
(***************************************************************************)
EXTENDS Integers, FiniteSets

CONSTANTS SCHEDULER_MAX_TASKS,
          Handlers,         \* number of task_init calls of the firmware
          Period,           \* own steps of a thread are counted modulo Period
          User,             \* the thread that uses the response timer
          Ticks             \* what it loads the timer with

ASSUME TimerAssumption == User \in Nat /\ Ticks \subseteq Nat \ {0}
ASSUME SchedulerAssumption == /\ SCHEDULER_MAX_TASKS \in Nat \ {0, 1}
                              /\ Handlers \in Nat \ {0} /\ Period \in Nat \ {0}

VARIABLES stackPtr, status,     \* of m_task_table.tasks
          currentTask, size,    \* of m_task_table
          osCurrentTask, osNextTask,
          pendSV,               \* PendSV is pending
          cpu,                  \* the context on the processor
          called, refused,      \* task_init calls made, and those that failed
          started,              \* osCurrentTask->handler() has been called
          done,                 \* history: own steps of each thread
          delayTimerStart, respTimeOut, timeOutFlag,
          user,                 \* the next statement of the timer's user
          loaded, waited        \* history: ticks asked for, ticks since the start

table == <<stackPtr, status, currentTask, size>>
switch == <<osCurrentTask, osNextTask, pendSV>>
boot == <<called, refused, started>>
timer == <<delayTimerStart, respTimeOut, timeOutFlag, user, loaded, waited>>
schedVars == <<table, switch, cpu, boot, done, timer>>

Task == 0..(SCHEDULER_MAX_TASKS - 1)
None == -1                      \* a NULL osCurrentTask or osNextTask
Boot == <<None, 0>>             \* main, before the first thread

SchedInit == /\ stackPtr = [t \in Task |-> Boot] /\ status = [t \in Task |-> "ZERO"]
             /\ currentTask = 0 /\ size = 0
             /\ osCurrentTask = None /\ osNextTask = None
             /\ pendSV = FALSE /\ cpu = Boot
             /\ called = 0 /\ refused = 0 /\ started = FALSE
             /\ done = [t \in Task |-> 0]
             /\ delayTimerStart = FALSE /\ respTimeOut = 0 /\ timeOutFlag = FALSE
             /\ user = "off" /\ loaded = 0 /\ waited = 0

\* scheduler_os_task_init
Full == size >= SCHEDULER_MAX_TASKS - 1
TaskInit == /\ ~started /\ called < Handlers
            /\ called' = called + 1
            /\ IF Full
                 THEN refused' = refused + 1 /\ UNCHANGED table
                 ELSE /\ stackPtr' = [stackPtr EXCEPT ![size] = <<size, 0>>]
                      /\ status' = [status EXCEPT ![size] = "IDLE"]
                      /\ size' = size + 1
                      /\ UNCHANGED <<currentTask, refused>>
            /\ UNCHANGED <<switch, cpu, started, done, timer>>

\* scheduler_os_start: the first thread starts as a call, its status unchanged.
OsStart == /\ ~started /\ called = Handlers
           /\ started' = TRUE
           /\ osCurrentTask' = currentTask
           /\ cpu' = stackPtr[currentTask]
           /\ UNCHANGED <<table, osNextTask, pendSV, called, refused, done, timer>>

\* The thread whose context is on the processor goes on.
Work == /\ started
        /\ cpu' = <<cpu[1], (cpu[2] + 1) % Period>>
        /\ done' = [done EXCEPT ![cpu[1]] = (@ + 1) % Period]
        /\ UNCHANGED <<table, switch, boot, timer>>
-------------------------------------------------------------------------------
(* The response timer. *)

Statement(a, b) == /\ started /\ cpu[1] = User /\ user = a /\ user' = b
                   /\ UNCHANGED <<table, switch, cpu, boot, done>>

\* A mutant: the timer is started before it is loaded.
TimerStartFirst ==
  \/ /\ Statement("off", "load") /\ delayTimerStart' = TRUE
     /\ waited' = 0 /\ loaded' \in Ticks
     /\ UNCHANGED <<respTimeOut, timeOutFlag>>
  \/ /\ Statement("load", "clear") /\ respTimeOut' = loaded
     /\ UNCHANGED <<delayTimerStart, timeOutFlag, loaded, waited>>
  \/ /\ Statement("clear", "off") /\ timeOutFlag' = FALSE
     /\ UNCHANGED <<delayTimerStart, respTimeOut, loaded, waited>>

TimerStart ==
  \/ /\ Statement("off", "load") /\ delayTimerStart' = FALSE
     /\ UNCHANGED <<respTimeOut, timeOutFlag, loaded, waited>>
  \/ /\ Statement("load", "clear") /\ respTimeOut' \in Ticks
     /\ loaded' = respTimeOut'
     /\ UNCHANGED <<delayTimerStart, timeOutFlag, waited>>
  \/ /\ Statement("clear", "start") /\ timeOutFlag' = FALSE
     /\ UNCHANGED <<delayTimerStart, respTimeOut, loaded, waited>>
  \/ /\ Statement("start", "off") /\ delayTimerStart' = TRUE /\ waited' = 0
     /\ UNCHANGED <<respTimeOut, timeOutFlag, loaded>>

TimerStop ==
  \/ /\ Statement("off", "unload") /\ delayTimerStart' = FALSE
     /\ UNCHANGED <<respTimeOut, timeOutFlag, loaded, waited>>
  \/ /\ Statement("unload", "forget") /\ respTimeOut' = 0
     /\ UNCHANGED <<delayTimerStart, timeOutFlag, loaded, waited>>
  \/ /\ Statement("forget", "off") /\ timeOutFlag' = FALSE
     /\ UNCHANGED <<delayTimerStart, respTimeOut, loaded, waited>>

\* A mutant: a timer that has run out is counted on.
TimerTickOn ==
  /\ IF delayTimerStart
       THEN /\ respTimeOut' = respTimeOut - 1
            /\ timeOutFlag' = (respTimeOut' <= 0)
            /\ waited' = waited + 1
            /\ UNCHANGED delayTimerStart
       ELSE UNCHANGED <<respTimeOut, timeOutFlag, delayTimerStart, waited>>
  /\ UNCHANGED <<user, loaded>>

\* The part of SysTick_Handler that counts.
TimerTick ==
  /\ IF delayTimerStart /\ ~timeOutFlag
       THEN /\ respTimeOut' = respTimeOut - 1
            /\ timeOutFlag' = (respTimeOut' <= 0)
            /\ delayTimerStart' = (respTimeOut' > 0)
            /\ waited' = waited + 1
       ELSE UNCHANGED <<respTimeOut, timeOutFlag, delayTimerStart, waited>>
  /\ UNCHANGED <<user, loaded>>
-------------------------------------------------------------------------------
(* The switch from one thread to the next. *)

\* A mutant: the last task is followed by itself.
FollowingStuck(t) == IF t + 1 >= size THEN t ELSE t + 1

Following(t) == IF t + 1 >= size THEN 0 ELSE t + 1

\* SysTick_Handler.  A period is 20 ms: PendSV is never still pending.
SysTick == /\ started /\ ~pendSV
           /\ osCurrentTask' = currentTask
           /\ currentTask' = Following(currentTask)
           /\ osNextTask' = currentTask'
           /\ status' = [status EXCEPT ![currentTask] = "IDLE", ![currentTask'] = "ACTIVE"]
           /\ TimerTick
           /\ pendSV' = TRUE
           /\ UNCHANGED <<stackPtr, size, cpu, boot, done>>

\* A mutant: the stack pointer goes to the task that comes next.
PendSVSwapped == /\ pendSV /\ pendSV' = FALSE
                 /\ stackPtr' = [stackPtr EXCEPT ![osNextTask] = cpu]
                 /\ cpu' = stackPtr[osNextTask]
                 /\ UNCHANGED <<status, currentTask, size, osCurrentTask, osNextTask,
                                boot, done, timer>>

\* PendSV_Handler, with interrupts off; a single task gets its own context back.
PendSV == /\ pendSV /\ pendSV' = FALSE
          /\ stackPtr' = [stackPtr EXCEPT ![osCurrentTask] = cpu]
          /\ cpu' = stackPtr'[osNextTask]
          /\ UNCHANGED <<status, currentTask, size, osCurrentTask, osNextTask,
                         boot, done, timer>>

SchedNext == \/ TaskInit \/ OsStart \/ Work \/ TimerStart \/ TimerStop
             \/ SysTick \/ PendSV

SchedSpec == SchedInit /\ [][SchedNext]_schedVars
SchedFairSpec == SchedSpec /\ WF_schedVars(TaskInit) /\ WF_schedVars(OsStart)
                 /\ WF_schedVars(SysTick) /\ WF_schedVars(PendSV)
-------------------------------------------------------------------------------
(* Properties. *)

Context == {Boot} \cup (Task \X (0..(Period - 1)))
SchedTypeOK == /\ stackPtr \in [Task -> Context] /\ cpu \in Context
               /\ status \in [Task -> {"ZERO", "IDLE", "ACTIVE"}]
               /\ currentTask \in Task /\ size \in 0..SCHEDULER_MAX_TASKS
               /\ {osCurrentTask, osNextTask} \subseteq Task \cup {None}
               /\ {pendSV, started} \subseteq BOOLEAN
               /\ called \in 0..Handlers /\ refused \in 0..Handlers
               /\ done \in [Task -> 0..(Period - 1)]
               /\ {delayTimerStart, timeOutFlag} \subseteq BOOLEAN
               /\ {respTimeOut, loaded, waited} \subseteq Nat
               /\ user \in {"off", "load", "clear", "start", "unload", "forget"}

\* No thread loses or takes over another's context: the one on the processor, and
\* each one saved in the table, is where its thread left off.
ContextsKept ==
  started => /\ cpu = <<cpu[1], done[cpu[1]]>>
             /\ \A t \in 0..(size - 1) : t # cpu[1] => stackPtr[t] = <<t, done[t]>>

\* The timer runs out at the tick it was loaded for, wherever a tick falls in the
\* statements that start it: never early by what an earlier wait left behind.
TimeOutIsExact ==
  user = "off" => /\ delayTimerStart => waited < loaded /\ ~timeOutFlag
                  /\ timeOutFlag => waited = loaded

\* Every task that was registered gets the processor again and again.
EachRuns == \A t \in Task : [](t < size => <>(started /\ cpu[1] = t))
===============================================================================
