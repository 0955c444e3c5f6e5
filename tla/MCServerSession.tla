--------------------------- MODULE MCServerSession ----------------------------
(***************************************************************************)
(* A small session: four slots, one repeat, one message under way, bursts  *)
(* of two lines, one lost connection, frames of 32 bytes, texts of at most *)
(* two bytes, and two calls of the packet writer.                          *)
(***************************************************************************)
EXTENDS ServerSession

MCBatches == {Batch[f] : f \in Function}
MCOffered == UNION {{b[i] : i \in 1..Len(b)} : b \in MCBatches}
MCCmd == {c.atCmd : c \in MCOffered}
MCRspFunc == {"default", "cpin", "creg", "ipaddr", "connect", "send"}
MCRspOf == [f \in MCRspFunc |-> Rsp \ {"FUN_OVER"}]
MCFlagSets == {{"WILL_FLAG", "WILL_RETAIN", "PASSWORD_FLAG"}, {"USERNAME_FLAG"}}
MCConfigs == {[MqttUsername |-> <<117>>, MqttPassword |-> <<112, 119>>, clientID |-> <<105>>,
               willTopic |-> <<116, 117>>, willMessage |-> <<>>, protocolName |-> <<77>>,
               protocolType |-> 4, keepAliveDurationSec |-> 300, qosLevel |-> 1]}
MCSettings == {<<"willTopic", <<97>>>>, <<"willTopic", <<98, 99>>>>}

\* States that differ in what nothing reads again are one: the slots of commands
\* that are done with, which the next queue_init clears, the history of the
\* accepted commands, and the data of the server.
MCView == <<Pending, indices, repeatCount, commandCount, cmdQueueWrite, outcome, engine,
            tester, tried, app, modem, machineState, ip_address, urcQueue, doing, wire, unheard>>
MCTexts == {<<97>>}
===============================================================================
