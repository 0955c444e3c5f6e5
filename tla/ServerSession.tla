----------------------------- MODULE ServerSession -----------------------------
(***************************************************************************)
(* The session with the server: the AT engine with the callbacks and the   *)
(* URC handler of the firmware in it, the functions that register with the *)
(* network, open the GPRS bearer, connect and send (in the order the       *)
(* tester thread has them), the MQTT packet writer, and a modem that tells *)
(* of a connection it has, answers late or not at all, and may send two    *)
(* results in one burst.  The steps of the engine are those of AtEngine.   *)
(***************************************************************************)
EXTENDS AtEngine, Responses, MqttWriter

CONSTANTS MaxRepeats,     \* bound on repCount (3 in the code)
          MaxAir,         \* bound on the messages the modem has under way
          MaxLines,       \* bound on the lines of two results sent in one burst
          MaxWrites,      \* bound on the calls of the packet writer
          MaxDrops,       \* bound on the connections that are lost
          Addresses,      \* IP addresses the network gives
          Payloads,       \* what the server may send
          Texts, FlagSets,           \* what the application hands the writer
          Settings, Levels,          \* what it sets: <<field, text>>, and QoS levels
          Configs                    \* its configurations at the start

VARIABLES
  machineState,           \* the bits of it that are set here
  ip_address,             \* of gprsConfig
  urcQueue,               \* the table of URCs, empty before gsm_gprs_init
  dataServer,             \* what the server has sent, "" when nothing
  mqttDataPacket, appConfig, asked,   \* the frame, its configuration, the last request
  wished,                 \* history: the configuration the application asked for
  mixed,                  \* history: texts set over a longer one, whose end is left
  doing,                  \* the function the tester is in
  writes,
  command, mode,          \* of the modem: command not yet answered; "command" or "text"
  link, drops,            \* of its connection to the server: "down", "opening", "up"
  air,                    \* messages sent and not yet taken
  told,                   \* history: what it has told of registration and address
  wire,                   \* history: the last bytes sent after a prompt, for which request
  unheard                 \* history: CLOSED came behind other lines in one burst, or
                          \* while connect_server was under way

app == <<mqttDataPacket, appConfig, asked, wished, mixed, writes>>
modem == <<command, mode, link, drops, air, told>>
state == <<machineState, ip_address, urcQueue, dataServer>>
svars == <<vars, app, modem, state, doing, wire, unheard>>

NoRequest == [kind |-> "none"]
Nowhere == [bytes |-> <<>>, request |-> NoRequest]
-------------------------------------------------------------------------------
(* The functions and the commands they queue. *)

C(cmd, rspFunc, rep, delay, status) ==
  [atCmd |-> cmd, rspFunc |-> rspFunc, rspDelay |-> delay, successStatus |-> status,
   repCount |-> IF rep > MaxRepeats THEN MaxRepeats ELSE rep]
GsmGprsInit == <<C("ATE0", NoFunc, 3, 3000, 1), C("AT", NoFunc, 3, 3000, 2),
                 C("CPIN?", "cpin", 3, 3000, 3), C("CREG?", "creg", 3, 3000, 4)>>
GprsOn == <<C("SAPBR=3,1 CONTYPE", NoFunc, 3, 3000, 1), C("SAPBR=3,1 APN", NoFunc, 3, 3000, 2),
            C("SAPBR=1,1", NoFunc, 3, 10000, 3), C("SAPBR=2,1", "ipaddr", 3, 3000, 4)>>
ConnectServer == <<C("CIPSRIP=1", NoFunc, 3, 10000, 1), C("CIPSTART", "connect", 1, 60000, 2)>>
SendGprsData == <<C("CIPSEND", "send", 1, 60000, 1)>>
Batch == [modem |-> GsmGprsInit, gprs |-> GprsOn, connect |-> ConnectServer,
          send |-> SendGprsData]
Function == DOMAIN Batch
Sets == [modem |-> {"MDM_RDY"}, gprs |-> {"GPRS_RDY"}, connect |-> {"SERVER_RDY"},
         send |-> {}]
Needs == [modem |-> {}, gprs |-> {"MDM_RDY"}, connect |-> {"MDM_RDY", "GPRS_RDY"},
          send |-> {"SERVER_RDY"}]

ASSUME SessionAssumption ==
  /\ \A f \in Function : Batch[f] \in Batches /\ Len(Batch[f]) <= ATCOMMAND_EXEC_CMD_QUEUE
  /\ DefaultFunc = "default"
  /\ {"cpin", "creg", "ipaddr", "connect", "send"} \subseteq RspFunc
  /\ "" \notin Addresses

\* What the application hands the writer fits in the frame, and in its configuration.
ASSUME RequestsAssumption ==
  /\ Configs \subseteq Config /\ Levels \subseteq 0..2
  /\ FlagSets \subseteq SUBSET DOMAIN FlagBit
  /\ Settings \subseteq TextFields \X ShortText
  /\ \A topic \in Texts : /\ topic \in Seq(Byte)
                          /\ Len(topic) <= 251 /\ Len(topic) + 8 <= MQTT_BUFF_SIZE

\* The frame has room for MaxWrites calls: each ping goes one byte on from where the
\* packet before ended, and nothing in the code stops it at the end of the frame.
ASSUME RoomAssumption ==
  /\ MaxWrites \in Nat /\ 18 + 6 * TextSize + MaxWrites <= MQTT_BUFF_SIZE
  /\ \A topic, text \in Texts : 8 + Len(topic) + Len(text) + MaxWrites <= MQTT_BUFF_SIZE

SInit == /\ Init
         /\ machineState = {} /\ ip_address = "" /\ urcQueue = <<>> /\ dataServer = ""
         /\ mqttDataPacket = ZeroFrame /\ appConfig \in Configs /\ asked = NoRequest
         /\ wished = appConfig /\ mixed = {}
         /\ doing = "none" /\ writes = 0
         /\ command = NoCmd /\ mode = "command" /\ link = "down" /\ drops = 0
         /\ air = <<>> /\ told = {} /\ wire = Nowhere /\ unheard = FALSE

\* The tester calls a function whose bit is not set; gsm_gprs_init fills the table
\* of URCs once more.
IsDue(f) == /\ Needs[f] \subseteq machineState
            /\ Sets[f] = {} \/ ~(Sets[f] \subseteq machineState)
            /\ f = "send" => asked # NoRequest
Begin(f) == /\ IsDue(f) /\ Call(Batch[f])
            /\ doing' = f
            /\ urcQueue' = IF f = "modem" THEN UrcTable ELSE urcQueue
            /\ UNCHANGED <<machineState, ip_address, dataServer, app, modem, wire, unheard>>
Fill == /\ Open \/ Add \/ Close
        /\ UNCHANGED <<state, app, modem, doing, wire, unheard>>
Finish == /\ Return /\ doing' = "none"
          /\ machineState' = machineState \cup (IF Result THEN Sets[doing] ELSE {})
          /\ UNCHANGED <<ip_address, urcQueue, dataServer, app, modem, wire, unheard>>
-------------------------------------------------------------------------------
(* The application: it fills the frame while the tester calls nothing. *)

Asks(request, frame) == /\ caller = "idle" /\ "SERVER_RDY" \in machineState
                        /\ writes < MaxWrites /\ writes' = writes + 1
                        /\ asked' = request /\ mqttDataPacket' = frame
                        /\ UNCHANGED <<vars, state, appConfig, wished, mixed, modem, doing,
                                      wire, unheard>>
Request == \/ \E fs \in FlagSets :
                Asks([kind |-> "connect", config |-> wished, mixed |-> mixed, flags |-> fs],
                     Connect(mqttDataPacket, appConfig, fs))
           \/ \E topic \in Texts :
                \/ Asks([kind |-> "unsubscribe", topic |-> topic, id |-> 10],
                        Unsubscribe(mqttDataPacket, topic, 10))
                \/ Asks([kind |-> "subscribe"], Subscribe(mqttDataPacket, 10, topic, appConfig))
                \/ \E text \in Texts :
                     Asks([kind |-> "publish"], Publish(mqttDataPacket, appConfig, topic, text))
           \/ Asks([kind |-> "ping"], Ping(mqttDataPacket))
           \/ Asks([kind |-> "disconn"], Disconn(mqttDataPacket))
Configure == /\ caller = "idle" /\ "SERVER_RDY" \in machineState
             /\ writes < MaxWrites /\ writes' = writes + 1
             /\ \/ \E s \in Settings :
                     /\ appConfig' = SetText(appConfig, s[1], s[2])
                     /\ wished' = [wished EXCEPT ![s[1]] = s[2]]
                     /\ mixed' = IF Len(s[2]) < Len(appConfig[s[1]])
                                    THEN mixed \cup {s[1]} ELSE mixed \ {s[1]}
                \/ \E q \in Levels : /\ appConfig' = [appConfig EXCEPT !.qosLevel = q]
                                     /\ wished' = [wished EXCEPT !.qosLevel = q]
                                     /\ UNCHANGED mixed
             /\ UNCHANGED <<vars, state, mqttDataPacket, asked, modem, doing, wire, unheard>>
-------------------------------------------------------------------------------
(* The dispatcher and the response processor. *)

\* In text mode the modem takes what is sent for data.
Execute == /\ ExecuteAt
           /\ command' = IF mode = "command" THEN CurrentSlot.atCmd ELSE command
           /\ UNCHANGED <<mode, link, drops, air, told, state, app, doing, wire, unheard>>
Wait == /\ RspWaitTimeOut \/ RspWaitRecvd \/ Idle \/ TimerExpires
        /\ UNCHANGED <<app, modem, state, doing, wire, unheard>>

\* mqtt_response_handler sees the line end where it looks for a packet: data is
\* kept, four bytes of it, only after such a message.
Received(msg) == dataServer' = IF mqttDataPacket.packetType = "NORMAL" /\ First(msg, "RECV FROM:")
                                 THEN msg[1].carries ELSE dataServer
\* The URC of the message, by its callback.
FrameAfterUrc(msg) == IF First(msg, "RECV FROM:")
                        THEN [mqttDataPacket EXCEPT !.packetType = "NORMAL"]
                        ELSE mqttDataPacket
StateAfterUrc(msg) == IF First(msg, "CLOSED") THEN machineState \ {"SERVER_RDY"}
                      ELSE machineState

Taken(ret) == CASE ret = "ERROR" -> RspRetry \/ RspAbandon
                [] ret = "WAIT"  -> RspWait
                [] OTHER         -> RspAccept(ret)

\* The prompt: Ctrl-Z is stored behind the packet, and the packet sent without it.
Ended(f) == [f EXCEPT !.data[f.totalSize] = 26]
SentOf(f) == [i \in 1..f.totalSize |-> f.data[i - 1]]

\* What is left of the message goes to the callback of the command.
Answered(left) ==
  /\ \E ret \in CallbackRsp(CurrentSlot.rspFunc, left) : Taken(ret)
  /\ ip_address' = IF CurrentSlot.rspFunc = "ipaddr" /\ RspType(HasAddress, left) = 1
                     THEN FirstQuoted(left) ELSE ip_address
  /\ IF CurrentSlot.rspFunc = "send" /\ Prompts(left)
       THEN /\ mqttDataPacket' = Ended(mqttDataPacket)
            /\ wire' = [bytes |-> SentOf(Ended(mqttDataPacket)), request |-> asked]
       ELSE mqttDataPacket' = FrameAfterUrc(Head(air)) /\ UNCHANGED wire
Ignored == /\ mqttDataPacket' = FrameAfterUrc(Head(air))
           /\ UNCHANGED <<vars, ip_address, wire>>

Message ==
  /\ air # <<>> /\ air' = Tail(air)
  /\ LET msg == Head(air) IN
       /\ machineState' = IF UrcEntry(urcQueue, msg) = 0 THEN machineState ELSE StateAfterUrc(msg)
       /\ Received(msg)
       /\ unheard' = (unheard \/ (First(msg, "CLOSED") /\ doing = "connect"))
       /\ IF s_atExecute /\ ~IsUrc(urcQueue, msg) THEN Answered(LeftOf(urcQueue, msg))
                                                  ELSE Ignored
  /\ UNCHANGED <<command, mode, link, drops, told, urcQueue, appConfig, asked, wished, mixed,
                  writes, doing>>
-------------------------------------------------------------------------------
(* The modem.  It leaves text mode with the connection only: it is sent no  *)
(* Ctrl-Z (see Ended), so it never has a SEND OK to tell.                   *)

\* A message of its own, or more lines of the burst before.
Tells(lines) ==
  \/ Len(air) < MaxAir /\ air' = Append(air, lines) /\ UNCHANGED unheard
  \/ /\ air # <<>> /\ Len(air[Len(air)]) + Len(lines) <= MaxLines
     /\ air' = [air EXCEPT ![Len(air)] = @ \o lines]
     /\ unheard' = (unheard \/ lines[1].says = "CLOSED")
ModemOnly == UNCHANGED <<vars, app, state, doing, wire>>

Answers(lines) == /\ command # NoCmd /\ mode = "command" /\ command' = NoCmd
                  /\ Tells(lines)
                  /\ UNCHANGED drops /\ ModemOnly
Ok == <<Says("OK")>>
Error == <<Says("ERROR")>>
Plain == {"ATE0", "AT", "SAPBR=3,1 CONTYPE", "SAPBR=3,1 APN", "SAPBR=1,1", "CIPSRIP=1"}
AnswerPlain == /\ command \in Plain /\ (Answers(Ok) \/ Answers(Error))
               /\ UNCHANGED <<mode, link, told>>
AnswerCpin == /\ command = "CPIN?"
              /\ \E s \in {"+CPIN: READY", "+CPIN: NOT READY"} : Answers(<<Says(s)>> \o Ok)
              /\ UNCHANGED <<mode, link, told>>
AnswerCreg == /\ command = "CREG?"
              /\ \E s \in {"+CREG: 0,1", "+CREG: 0,5", "+CREG: 0,2"} :
                   /\ Answers(<<Says(s)>> \o Ok)
                   /\ told' = IF s = "+CREG: 0,2" THEN told ELSE told \cup {"registered"}
              /\ UNCHANGED <<mode, link>>
AnswerAddress ==
  /\ command = "SAPBR=2,1"
  /\ \/ \E a \in Addresses : /\ Answers(<<Line("+SAPBR: 1,1,", a)>> \o Ok)
                             /\ told' = told \cup {a}
     \/ /\ Answers(<<Line("+SAPBR: 1,3,", "0.0.0.0")>> \o Ok)
        /\ told' = told \cup {"0.0.0.0"}
  /\ UNCHANGED <<mode, link>>
AnswerConnect ==
  /\ command = "CIPSTART"
  /\ IF link = "up" THEN Answers(Error \o <<Says("ALREADY CONNECT")>>) /\ UNCHANGED link
     ELSE \/ Answers(Ok) /\ link' = "opening"
          \/ Answers(Ok \o <<Says("CONNECT OK")>>) /\ link' = "up"
          \/ /\ \/ Answers(Error)
                \/ Answers(<<Says("STATE: IP STATUS"), Says("CONNECT FAIL")>>)
             /\ UNCHANGED link
  /\ UNCHANGED <<mode, told>>
AnswerSend == /\ command = "CIPSEND"
              /\ IF link = "up" THEN Answers(<<Says(">")>>) /\ mode' = "text"
                                ELSE Answers(Error) /\ UNCHANGED mode
              /\ UNCHANGED <<link, told>>
Connects == /\ link = "opening"
            /\ \/ Tells(<<Says("CONNECT OK")>>) /\ link' = "up"
               \/ Tells(<<Says("STATE: IP STATUS"), Says("CONNECT FAIL")>>) /\ link' = "down"
            /\ UNCHANGED <<command, mode, drops, told>> /\ ModemOnly
Drops == /\ link = "up" /\ drops < MaxDrops /\ drops' = drops + 1
         /\ link' = "down" /\ mode' = "command"
         /\ Tells(<<Says("CLOSED")>>)
         /\ UNCHANGED <<command, told>> /\ ModemOnly
Receives == /\ link = "up" /\ \E d \in Payloads : Tells(<<Line("RECV FROM:", d)>>)
            /\ UNCHANGED <<command, mode, link, drops, told>> /\ ModemOnly
\* A URC that has no callback.
Short == /\ Tells(<<Says("+CMTI: ")>>)
         /\ UNCHANGED <<command, mode, link, drops, told>> /\ ModemOnly

Modem == \/ AnswerPlain \/ AnswerCpin \/ AnswerCreg \/ AnswerAddress \/ AnswerConnect
         \/ AnswerSend \/ Connects \/ Drops \/ Receives \/ Short

SNext == \/ \E f \in Function : Begin(f)
         \/ Fill \/ Finish \/ Request \/ Configure \/ Execute \/ Wait \/ Message \/ Modem

SSpec == SInit /\ [][SNext]_svars
-------------------------------------------------------------------------------
(* Properties. *)

\* The variables keep their types: no byte is stored behind the frame, whatever is
\* written, sent and received in whatever order.
STypeOK == /\ TypeOK
           /\ machineState \subseteq {"MDM_RDY", "GPRS_RDY", "SERVER_RDY"}
           /\ mqttDataPacket \in Frame
           /\ urcQueue \in {<<>>, UrcTable} /\ dataServer \in Payloads \cup {""}
           /\ doing \in Function \cup {"none"} /\ mode \in {"command", "text"}
           /\ link \in {"down", "opening", "up"}

\* The bits of machineState say what the modem has told: it is registered, it
\* has the address that was stored, and, once every message has been taken, it is
\* connected; whatever is lost, late, or repeated.
ReadyIsTold ==
  /\ "MDM_RDY" \in machineState => "registered" \in told
  /\ "GPRS_RDY" \in machineState => ip_address \in told
  /\ ~unheard /\ "SERVER_RDY" \in machineState /\ air = <<>> => link = "up"

\* How MQTT reads a packet: fields of two bytes of length and a text, from position
\* first on.
FieldEnds(b, first, n) ==
  LET at[k \in 0..n] == IF k = 0 THEN first
                        ELSE at[k - 1] + 2 + 256 * b[at[k - 1]] + b[at[k - 1] + 1]
  IN at
Fields(b, first, n) == [k \in 1..n |-> SubSeq(b, FieldEnds(b, first, n)[k - 1] + 2,
                                              FieldEnds(b, first, n)[k] - 1)]
Reads(b, first, texts) == /\ Fields(b, first, Len(texts)) = texts
                          /\ FieldEnds(b, first, Len(texts))[Len(texts)] = Len(b) + 1
Given(r, flag, text) == IF flag \in r.flags THEN <<text>> ELSE <<>>
WholeWill(r) == "WILL_FLAG" \in r.flags <=> "WILL_RETAIN" \in r.flags

\* The bytes b read as the packet that was requested: its length byte is that of what
\* follows, and its fields are those that were wished for.  Behind a connect packet
\* exactly one byte more is sent, which is what the frame held there; and nothing is
\* said of a connect packet with a text that was set over a longer one, since the end
\* of that one is sent with it.  (The packets that read wrong whatever the session does
\* are listed in README.md.)
ReadsAs(b, r) ==
  LET whole == SubSeq(b, 1, Len(b) - 1) IN
  /\ r.kind = "unsubscribe" =>
       /\ b[1] = 162 /\ b[2] = Len(b) - 2 /\ b[3] = 0 /\ b[4] = r.id
       /\ Reads(b, 5, <<r.topic>>)
  /\ r.kind = "connect" /\ WholeWill(r) /\ r.mixed = {} =>
       /\ b[1] = 16 /\ b[2] = Len(whole) - 2
       /\ Fields(whole, 3, 1) = <<r.config.protocolName>>
       /\ LET p == 5 + Len(r.config.protocolName) IN
            /\ b[p] = r.config.protocolType
            /\ "WILL_FLAG" \in r.flags <=> (b[p + 1] \div 4) % 2 = 1
            /\ "USERNAME_FLAG" \in r.flags <=> b[p + 1] \div 128 = 1
            /\ 256 * b[p + 2] + b[p + 3] = r.config.keepAliveDurationSec
            /\ Reads(whole, p + 4, <<r.config.clientID>>
                 \o Given(r, "WILL_FLAG", r.config.willTopic)
                 \o Given(r, "WILL_RETAIN", r.config.willMessage)
                 \o Given(r, "USERNAME_FLAG", r.config.MqttUsername)
                 \o Given(r, "PASSWORD_FLAG", r.config.MqttPassword))

\* What leaves after a prompt is the packet the application asked for last, and reads
\* as that: as long as its length byte says, no byte up to there is of an earlier packet
\* in the same frame, of another request or of an earlier configuration.
SentReadsAsAsked == ReadsAs(wire.bytes, wire.request)
===============================================================================
