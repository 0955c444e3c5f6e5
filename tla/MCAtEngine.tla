------------------------------ MODULE MCAtEngine ------------------------------
(***************************************************************************)
(* Small instances of AtEngine: four slots for the ten of the code; calls  *)
(* of one to four commands with one to three repeats, as the firmware's,   *)
(* and one call too long for the queue.                                    *)
(***************************************************************************)
EXTENDS AtEngine

CONSTANTS ate0, at, cpin, creg, cip, btpower,      \* the commands
          default, cregCb, connectCb               \* the callbacks

MCCmd == {ate0, at, cpin, creg, cip, btpower}
MCRspFunc == {default, cregCb, connectCb}

\* The calls of the enabled code never wait for a second message;
\* connect_server and send_gprs_data do.
MCRspOf == [f \in MCRspFunc |->
              CASE f = default -> {"ERROR", "CONTINUE", "FINISH"}
                [] f = cregCb  -> {"ERROR", "FINISH"}
                [] OTHER       -> {"WAIT", "FINISH", "ERROR"}]

C(cmd, func, rep, status) ==
  [atCmd |-> cmd, rspFunc |-> func, repCount |-> rep, rspDelay |-> 1,
   successStatus |-> status]

\* gsm_gprs_init, bt_init or bt_power_on, disconnect_bt, and a list of five.
GsmInit == <<C(ate0, NoFunc, 3, 1), C(at, NoFunc, 3, 2),
             C(cpin, default, 2, 3), C(creg, cregCb, 2, 4)>>
BtPowerOn == <<C(btpower, NoFunc, 3, 1)>>
BtDisconnect == <<C(btpower, NoFunc, 1, 1)>>
TooLong == GsmInit \o <<C(btpower, NoFunc, 3, 5)>>

\* connect_server: AT+CIPSRIP=1 and AT+CIPSTART.
ConnectServer == <<C(at, NoFunc, 3, 1), C(cip, connectCb, 1, 2)>>

AllCalls == {GsmInit, BtPowerOn, BtDisconnect, TooLong, ConnectServer}

MCOffered == UNION {{b[i] : i \in 1..Len(b)} : b \in AllCalls}
===============================================================================
