------------------------------- MODULE AtQueue -------------------------------
(***************************************************************************)
(* The AT command queue of yutu_fw_at_command_exec.c.  The fields of       *)
(* cmdQueue (atcommand_exec_atcmd_queue_t) are the variables; a slot is a  *)
(* record with the fields of atcommand_exec_at_command_t, where the text   *)
(* of a command is a model value.  Every counter of the C structure is a   *)
(* uint8_t.  The operations are actions that the modules extending this    *)
(* one give to the threads that call them.                                 *)
(***************************************************************************)
EXTENDS Integers, Sequences

CONSTANTS ATCOMMAND_EXEC_CMD_QUEUE,  \* number of slots (10 in the code)
          Cmd,                       \* texts of the commands the firmware sends
          NoCmd,                     \* a slot whose text has been zeroed
          RspFunc,                   \* the response callbacks
          NoFunc,                    \* a NULL callback
          DefaultFunc,               \* at_command_default_callback
          Delay                      \* the values of rspDelay that are used

ASSUME QueueSizeAssumption == ATCOMMAND_EXEC_CMD_QUEUE \in 1..255
ASSUME NamesAssumption == /\ NoCmd \notin Cmd
                          /\ NoFunc \notin RspFunc
                          /\ DefaultFunc \in RspFunc
                          /\ Delay \subseteq Nat

VARIABLES atCmdQueue,       \* the slots
          firstCmd, lastCmd, currentCmd,
          repeatCount,      \* repCount of the command last sent
          commandCount,     \* commands still to be executed
          cmdQueueWrite,    \* the caller is filling the queue
          currentCmdRet, currentCmdStatus

indices == <<firstCmd, lastCmd, currentCmd>>
outcome == <<currentCmdRet, currentCmdStatus>>
queue == <<atCmdQueue, indices, repeatCount, commandCount, cmdQueueWrite, outcome>>

Index == 0..(ATCOMMAND_EXEC_CMD_QUEUE - 1)
Uint8 == 0..255
Dec8(n) == (n - 1) % 256
Inc8(n) == (n + 1) % 256
\* A mutant: the index does not go round the end.
NextIndexStraight(i) == i + 1
NextIndex(i) == (i + 1) % ATCOMMAND_EXEC_CMD_QUEUE

NOK_OPER == 0
Status == 0..5                                   \* NOK_OPER, CMD1_OK .. CMD5_OK
Rsp == {"ERROR", "CONTINUE", "FUN_OVER", "FINISH", "WAIT"}

\* What a caller hands in, and what a slot can hold.
Command == [atCmd : Cmd, rspFunc : RspFunc \cup {NoFunc}, repCount : Uint8,
            rspDelay : Delay, successStatus : Status]
Slot == [atCmd : Cmd \cup {NoCmd}, rspFunc : RspFunc \cup {NoFunc},
         repCount : Uint8, rspDelay : Delay \cup {0}, successStatus : Status]

QueueTypeOK == /\ atCmdQueue \in [Index -> Slot]
               /\ firstCmd \in Index /\ lastCmd \in Index /\ currentCmd \in Index
               /\ repeatCount \in Uint8 /\ commandCount \in Uint8
               /\ cmdQueueWrite \in BOOLEAN
               /\ currentCmdRet \in Rsp /\ currentCmdStatus \in Status

EmptySlot == [atCmd |-> NoCmd, rspFunc |-> NoFunc, repCount |-> 0,
              rspDelay |-> 0, successStatus |-> NOK_OPER]
EmptySlots == [i \in Index |-> EmptySlot]

CurrentSlot == atCmdQueue[currentCmd]

\* at_command_remove leaves successStatus as it was.
Removed(s) == [EmptySlot EXCEPT !.successStatus = s.successStatus]

\* A mutant: no default callback.
StoredAsGiven(c) == c

\* What add_at_cmd stores for the command c: a NULL callback becomes the
\* default one.
Stored(c) == [c EXCEPT !.rspFunc = IF @ = NoFunc THEN DefaultFunc ELSE @]
-------------------------------------------------------------------------------
(* The state of the queue before main starts: zeroed memory, where          *)
(* AT_RSP_CONTINUE is 0.                                                    *)
QueueZeroed == /\ atCmdQueue = EmptySlots
               /\ firstCmd = 0 /\ lastCmd = 0 /\ currentCmd = 0
               /\ repeatCount = 0 /\ commandCount = 0
               /\ cmdQueueWrite = FALSE
               /\ currentCmdRet = "CONTINUE" /\ currentCmdStatus = NOK_OPER

\* atcommand_exec_at_cmd_queue_init, in the order of its assignments:
\* commandCount is zero before the status is.
QueueClear == /\ atCmdQueue' = EmptySlots
              /\ firstCmd' = 0 /\ lastCmd' = 0 /\ currentCmd' = 0
              /\ repeatCount' = 0 /\ commandCount' = 0
OutcomeClear == currentCmdRet' = "ERROR" /\ currentCmdStatus' = NOK_OPER
QueueInit == QueueClear /\ cmdQueueWrite' = FALSE /\ OutcomeClear

\* at_command_queue_full_check
QueueFull == commandCount >= ATCOMMAND_EXEC_CMD_QUEUE

\* A mutant: the first command is added behind the slot lastCmd points at.
TailIndexNext == NextIndex(lastCmd)

\* atcommand_exec_add_at_cmd: lastCmd moves on only when commands are waiting.
TailIndex == IF commandCount > 0 THEN NextIndex(lastCmd) ELSE lastCmd
AddAtCmd(c) ==
  /\ IF QueueFull
       THEN UNCHANGED <<atCmdQueue, lastCmd, commandCount>>
       ELSE /\ lastCmd' = TailIndex
            /\ atCmdQueue' = [atCmdQueue EXCEPT ![TailIndex] = Stored(c)]
            /\ commandCount' = Inc8(commandCount)
  /\ UNCHANGED <<firstCmd, currentCmd, repeatCount, cmdQueueWrite, outcome>>

\* The slots from firstCmd up to, and without, currentCmd, going round the end.
Executed ==
  IF currentCmd < firstCmd THEN {i \in Index : i >= firstCmd \/ i < currentCmd}
                           ELSE {i \in Index : i >= firstCmd /\ i < currentCmd}
ExecutedCount == (currentCmd - firstCmd) % ATCOMMAND_EXEC_CMD_QUEUE

\* atcommand_exec_del_at_cmd_head takes the executed commands off commandCount
\* although they were taken off when they completed.
DelAtCmdHead ==
  /\ IF firstCmd = currentCmd \/ commandCount = 0
       THEN UNCHANGED <<atCmdQueue, firstCmd, commandCount>>
       ELSE /\ atCmdQueue' = [i \in Index |-> IF i \in Executed
                                                THEN Removed(atCmdQueue[i])
                                                ELSE atCmdQueue[i]]
            /\ commandCount' = (commandCount - ExecutedCount) % 256
            /\ firstCmd' = currentCmd
  /\ UNCHANGED <<lastCmd, currentCmd, repeatCount, cmdQueueWrite, outcome>>

\* A mutant: one command too many is let in.
QueueErrorLate(n) == commandCount + n > ATCOMMAND_EXEC_CMD_QUEUE + 1

\* The test that opens atcommand_exec_add_at_cmd_queue: n more do not fit.
QueueError(n) == commandCount + n > ATCOMMAND_EXEC_CMD_QUEUE

\* atcommand_exec_del_at_command_head
DelAtCommandHead ==
  /\ commandCount # 0
  /\ atCmdQueue' = [atCmdQueue EXCEPT ![firstCmd] = Removed(@)]
  /\ currentCmd' = IF firstCmd = currentCmd THEN NextIndex(currentCmd)
                                            ELSE currentCmd
  /\ firstCmd' = NextIndex(firstCmd)
  /\ commandCount' = Dec8(commandCount)
  /\ UNCHANGED <<lastCmd, repeatCount, cmdQueueWrite, outcome>>

\* The two assignments with which a command leaves the queue, after an accepted
\* answer and after its last time-out.
Advance == currentCmd' = NextIndex(currentCmd) /\ commandCount' = Dec8(commandCount)

\* The slots after one repeat of the command under execution is used up.
RepeatUsed == [atCmdQueue EXCEPT ![currentCmd].repCount = Dec8(@)]

\* The commands still to be executed, in the order they will be sent.
Pending ==
  [k \in 1..commandCount |->
     atCmdQueue[(currentCmd + k - 1) % ATCOMMAND_EXEC_CMD_QUEUE]]
==============================================================================
