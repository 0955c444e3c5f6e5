------------------------------- MODULE MCAtExec -------------------------------
(***************************************************************************)
(* Small instances of AtExec: two slots, calls of one or two commands that *)
(* may repeat once or twice, and a call that does not fit.                 *)
(***************************************************************************)
EXTENDS AtExec

CONSTANTS at, cpin, bt, cip, default, connectCb

MCCmd == {at, cpin, bt, cip}
MCRspFunc == {default, connectCb}
MCText == {"OK", "ERROR", "RDY", "URC", "+BTSPPDATA", ""}

\* The default callback compares every line with a NULL third entry too: where
\* NULL reads as the empty string, the last line always matches it and the
\* callback returns AT_RSP_CONTINUE for every message.
ReadsNull == [m \in MCText |-> {"CONTINUE"}]
ReadsLines == [m \in MCText |-> CASE m = "OK"    -> {"FINISH"}
                                  [] m = "ERROR" -> {"ERROR"}
                                  [] OTHER       -> {"CONTINUE"}]

\* The callback of connect_server waits after "OK".
Connect == [m \in MCText |-> IF m = "OK" THEN {"WAIT"} ELSE {"ERROR"}]

\* Any build, and one where NULL matches nothing.
AnyBuild == [f \in MCRspFunc |->
               IF f = connectCb THEN Connect
                                ELSE [m \in MCText |-> ReadsNull[m] \cup ReadsLines[m]]]
LineBuild == [f \in MCRspFunc |-> IF f = connectCb THEN Connect ELSE ReadsLines]

C(c, func, rep, status) ==
  [atCmd |-> c, rspFunc |-> func, repCount |-> rep, rspDelay |-> 1,
   successStatus |-> status]

Two == <<C(at, NoFunc, 2, 1), C(cpin, NoFunc, 1, 2)>>
One == <<C(bt, NoFunc, 2, 1)>>
Server == <<C(cip, connectCb, 1, 1)>>
Long == Two \o <<C(cip, NoFunc, 1, 3)>>

Calls == {Two, One, Long}
AllCalls == Calls \cup {Server}
OneCall == {One}

=============================================================================
