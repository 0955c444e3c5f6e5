------------------------------- MODULE Responses -------------------------------
(***************************************************************************)
(* The response callbacks and the dispatch of unsolicited result codes.    *)
(* A message is the sequence of its lines that are not empty; the buffer   *)
(* after clear_receive_buffer is the empty message.  A line is a record of *)
(* what it says, the entry of a table that it starts with or any other     *)
(* text, and what it carries behind it: a text in quotes, or data.         *)
(***************************************************************************)
EXTENDS Naturals, Sequences

Line(says, carries) == [says |-> says, carries |-> carries]
Says(s) == Line(s, "")

\* strncmp at line k: an entry of several lines continues on the next ones.
StartsAt(entry, msg, k) ==
  /\ k + Len(entry) - 1 <= Len(msg)
  /\ \A j \in 1..Len(entry) : msg[k + j - 1].says = entry[j]
Hits(table, msg) ==
  {h \in (1..Len(msg)) \X (1..Len(table)) : StartsAt(table[h[2]], msg, h[1])}

\* The number of the entry that matches, 0 when none does: the last line that
\* matches one decides.  No line matches two entries of a table.
RspType(table, msg) ==
  IF Hits(table, msg) = {} THEN 0
  ELSE (CHOOSE h \in Hits(table, msg) : \A g \in Hits(table, msg) : g[1] <= h[1])[2]
Told(table, msg, rsp, otherwise) ==
  LET t == RspType(table, msg) IN IF t = 0 THEN otherwise ELSE rsp[t]

\* at_command_default_callback: its third entry is NULL.  When what lies at
\* address 0 is an empty string, it matches the end of every message.
DefaultRsp(msg) ==
  {"CONTINUE", Told(<<<<"OK">>, <<"ERROR">>>>, msg, <<"FINISH", "ERROR">>, "CONTINUE")}

CpinRsp(msg) == Told(<<<<"+CPIN: READY">>, <<"+CPIN: NOT READY">>, <<"ERROR">>>>, msg,
                     <<"FINISH", "ERROR", "ERROR">>, "CONTINUE")

\* A mutant: as for AT+CPIN?, no answer is no error.
CregRspContinue(msg) ==
  Told(<<<<"+CREG: 0,1">>, <<"+CREG: 0,5">>, <<"ERROR">>>>, msg,
       <<"FINISH", "FINISH", "ERROR">>, "CONTINUE")
CregRsp(msg) == Told(<<<<"+CREG: 0,1">>, <<"+CREG: 0,5">>, <<"ERROR">>>>, msg,
                     <<"FINISH", "FINISH", "ERROR">>, "ERROR")

HasAddress == <<<<"+SAPBR: 1,1,">>, <<"+SAPBR: 1,3,">>, <<"ERROR">>>>
IpRsp(msg) == Told(HasAddress, msg, <<"FINISH", "ERROR", "ERROR">>, "ERROR")
\* The address is the first text in quotes of the message, on whatever line.
Quoted(msg) == {k \in 1..Len(msg) : msg[k].carries # ""}
FirstQuoted(msg) == msg[CHOOSE k \in Quoted(msg) : \A j \in Quoted(msg) : k <= j].carries

ConnectRsp(msg) ==
  Told(<<<<"OK">>, <<"ERROR", "ALREADY CONNECT">>, <<"CONNECT OK">>,
         <<"STATE: IP STATUS", "CONNECT FAIL">>>>, msg,
       <<"WAIT", "FINISH", "FINISH", "ERROR">>, "ERROR")

\* atcommand_exec_send_gprs_packet_callback looks at the first line only.
First(msg, s) == msg # <<>> /\ msg[1].says = s
Prompts(msg) == First(msg, ">")
SendRsp(msg) == CASE Prompts(msg)          -> "WAIT"
                  [] First(msg, "SEND OK") -> "FINISH"
                  [] OTHER                 -> "ERROR"

CallbackRsp(rspFunc, msg) ==
  CASE rspFunc = "default" -> DefaultRsp(msg)
    [] rspFunc = "cpin"    -> {CpinRsp(msg)}
    [] rspFunc = "creg"    -> {CregRsp(msg)}
    [] rspFunc = "ipaddr"  -> {IpRsp(msg)}
    [] rspFunc = "connect" -> {ConnectRsp(msg)}
    [] rspFunc = "send"    -> {SendRsp(msg)}
-------------------------------------------------------------------------------
\* The table that gsm_gprs_init fills.
UrcTable == <<"+CMTI: ", "RECV FROM:", "CLOSED", "+BTPAIR:", "SEND OK",
              "+BTPAIRING: ", "+BTCONNECT:", "+BTCONNECTING: ", "+BTDISCONN: ",
              "+BTSPPDATA: ">>

\* global_urc_handler looks at the first line only; 0 when it is no URC.
UrcEntry(table, msg) ==
  IF \E i \in 1..Len(table) : First(msg, table[i])
    THEN CHOOSE i \in 1..Len(table) : First(msg, table[i]) ELSE 0

\* The loop goes on with the entries behind the one that matched, on a buffer that
\* has been cleared: only the last entry is reported as a URC.
IsUrc(table, msg) == UrcEntry(table, msg) = Len(table) /\ table # <<>>
\* What the buffer holds for the callback of the command.
LeftOf(table, msg) == IF UrcEntry(table, msg) = 0 THEN msg ELSE <<>>
===============================================================================
