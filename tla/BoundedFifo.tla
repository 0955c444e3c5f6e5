------------------------------ MODULE BoundedFifo ------------------------------
(***************************************************************************)
(* What the documentation of the queue API promises: a list of at most     *)
(* Size commands that are executed in the order they were added.           *)
(***************************************************************************)
EXTENDS Naturals, Sequences

CONSTANTS Size, Item

VARIABLE waiting

Init == waiting = <<>>

\* A command is added to the existing queue, unless it is full.
Put(c) == Len(waiting) < Size /\ waiting' = Append(waiting, c)

\* The current command was executed, or is deleted.
Take == waiting # <<>> /\ waiting' = Tail(waiting)

Erase == waiting' = <<>>

Next == (\E c \in Item : Put(c)) \/ Take \/ Erase

Spec == Init /\ [][Next]_waiting
===============================================================================
