------------------------------ MODULE AtQueueApi ------------------------------
(***************************************************************************)
(* The AT command queue under every order of calls of its API, with the    *)
(* engine completing commands in between.  The firmware itself calls       *)
(* queue_init before every list (AtEngine); here a queue is also reused,   *)
(* under two conditions of use that the code does not check.               *)
(***************************************************************************)
EXTENDS AtQueue

CONSTANTS Offered,      \* commands that are added
          Lists,        \* lists that add_at_cmd_queue is given
          Waived        \* conditions of use that callers do not keep to

ASSUME OfferedAssumption == /\ Offered \subseteq Command
                            /\ Lists \subseteq Seq(Offered)
                            /\ Waived \subseteq {"drained", "executed"}

VARIABLE rest           \* of add_at_cmd_queue: commands it has still to add

vars == <<queue, rest>>

Init == QueueZeroed /\ rest = <<>>

\* The conditions of use: nothing is added to a queue that has drained, where
\* currentCmd has moved past lastCmd, and no list is added, or head deleted,
\* while commands that were executed lie in front of currentCmd.
NotDrained == "drained" \in Waived \/ commandCount > 0 \/ currentCmd = lastCmd
NotExecuted == "executed" \in Waived \/ firstCmd = currentCmd

\* atcommand_exec_at_cmd_queue_init
Reset == rest = <<>> /\ QueueInit /\ UNCHANGED rest

\* atcommand_exec_add_at_cmd
Add(c) == /\ rest = <<>> /\ NotDrained
          /\ AddAtCmd(c)
          /\ UNCHANGED rest

\* atcommand_exec_add_at_cmd_queue: its test with del_at_cmd_head, then its
\* loop, in the course of which the engine may complete a command.
OpenList(b) == /\ rest = <<>> /\ NotDrained /\ NotExecuted
               /\ ~QueueError(Len(b))
               /\ DelAtCmdHead
               /\ rest' = b
AddNext == /\ rest # <<>> /\ NotDrained
           /\ AddAtCmd(Head(rest))
           /\ rest' = Tail(rest)

\* atcommand_exec_del_at_command_head
DeleteFirst == /\ rest = <<>> /\ NotExecuted
               /\ DelAtCommandHead
               /\ UNCHANGED rest

\* The engine is done with a command; by the first condition of use it does
\* not drain the queue in the middle of a list.
Complete == /\ commandCount > 0
            /\ rest = <<>> \/ commandCount > 1 \/ "drained" \in Waived
            /\ Advance
            /\ UNCHANGED <<atCmdQueue, firstCmd, lastCmd, repeatCount, cmdQueueWrite,
                           outcome, rest>>

Next == \/ Reset
        \/ \E c \in Offered : Add(c)
        \/ (\E b \in Lists : OpenList(b)) \/ AddNext
        \/ DeleteFirst
        \/ Complete

Spec == Init /\ [][Next]_vars
-------------------------------------------------------------------------------
(* Properties. *)

Fifo == INSTANCE BoundedFifo
          WITH Size <- ATCOMMAND_EXEC_CMD_QUEUE, Item <- {Stored(c) : c \in Offered},
               waiting <- Pending

\* Under the conditions of use the slots from currentCmd are a bounded FIFO of
\* the commands that were added, round the end of the array: a command that
\* waits is never overwritten, reordered, lost, or executed twice.
ImplementsQueue == Fifo!Spec
===============================================================================
