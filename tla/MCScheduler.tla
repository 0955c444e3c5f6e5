------------------------------ MODULE MCScheduler ------------------------------
(***************************************************************************)
(* The table of the code, with four entries, and one task more than the    *)
(* three it accepts; the timer is loaded with one tick and with more than  *)
(* a round of the threads.                                                 *)
(***************************************************************************)
EXTENDS Scheduler

MCTicks == {1, SCHEDULER_MAX_TASKS - 1}
===============================================================================
