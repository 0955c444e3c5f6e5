----------------------------- MODULE CommandFifo -----------------------------
(***************************************************************************)
(* What the command engine promises the function that queues AT commands:  *)
(* the commands of a call are tried in the order they were queued, each at *)
(* least once and at most repCount + 1 times, none is skipped, and the     *)
(* status a call reads afterwards was set by the last command to be        *)
(* accepted, unless a refusal came after it.                               *)
(***************************************************************************)
EXTENDS Naturals, Sequences

CONSTANT Commands           \* records with the fields repCount, successStatus

VARIABLES phase,            \* "idle", "filling" or "waiting"
          todo,             \* the commands of the call not yet done with
          tries,            \* how often Head(todo) has been tried
          status            \* successStatus of the last accepted command, or 0

vars == <<phase, todo, tries, status>>

Init == phase = "idle" /\ todo = <<>> /\ tries = 0 /\ status = 0

Open == /\ phase = "idle"
        /\ phase' = "filling"
        /\ UNCHANGED <<todo, tries, status>>

Put(c) == /\ phase = "filling"
          /\ todo' = Append(todo, c)
          /\ UNCHANGED <<phase, tries, status>>

Close == /\ phase = "filling"
         /\ phase' = "waiting"
         /\ UNCHANGED <<todo, tries, status>>

Try == /\ phase = "waiting" /\ todo # <<>>
       /\ tries <= Head(todo).repCount
       /\ tries' = tries + 1
       /\ UNCHANGED <<phase, todo, status>>

Done == todo' = Tail(todo) /\ tries' = 0 /\ UNCHANGED phase

Accept == /\ tries > 0 /\ todo # <<>>
          /\ status' = Head(todo).successStatus
          /\ Done

\* The modem refused the command and tries are left.
Refuse == /\ tries > 0 /\ todo # <<>>
          /\ tries <= Head(todo).repCount
          /\ status' = 0
          /\ UNCHANGED <<phase, todo, tries>>

\* The command is given up after as many silent tries as it may repeat.
GiveUp == /\ tries > 0 /\ todo # <<>>
          /\ tries >= Head(todo).repCount
          /\ Done /\ UNCHANGED status

\* The whole call is abandoned when the last try of a command is refused.
Abandon == /\ tries > 0 /\ todo # <<>>
           /\ tries = Head(todo).repCount + 1
           /\ todo' = <<>> /\ tries' = 0 /\ status' = 0
           /\ UNCHANGED phase

Finish == /\ phase = "waiting" /\ todo = <<>>
          /\ phase' = "idle" /\ status' = 0
          /\ UNCHANGED <<todo, tries>>

Next == \/ Open \/ (\E c \in Commands : Put(c)) \/ Close
        \/ Try \/ Accept \/ Refuse \/ GiveUp \/ Abandon \/ Finish

Spec == Init /\ [][Next]_vars
==============================================================================
