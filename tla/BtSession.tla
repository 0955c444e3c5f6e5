------------------------------- MODULE BtSession -------------------------------
(***************************************************************************)
(* The Bluetooth session: machineState, btProfile and dataEvents between   *)
(* the tester thread (T), which brings the modem up, answers pairing and   *)
(* connection requests and serves the frames of the phone, and the         *)
(* response processor (R), which records the unsolicited result codes.     *)
(* A function of the tester that queues AT commands is a call that returns *)
(* (AtEngine); an update of a shared byte is a load and a store.  The URC  *)
(* table is filled before Bluetooth is powered and not changed afterwards. *)
(***************************************************************************)
EXTENDS Naturals, Sequences

CONSTANTS MaxFrames,    \* bound on the frames the phone sends
          MaxAir,       \* bound on the URCs under way when the phone acts
          Assumptions   \* sets of assumptions about timing, see Assumption

ASSUME BoundsAssumption == MaxFrames \in Nat /\ MaxAir \in Nat \ {0}
\* whole: no tick cuts the response processor in the handling of a message;
\* apart: no URC of the session is taken while a call of the tester is under
\*        way, up to the recording of its result;
\* waits: the phone sends a frame when the one before is done with.
Assumption == {"whole", "apart", "waits"}
ASSUME AssumptionsAssumption == Assumptions \subseteq SUBSET Assumption

VARIABLES
  machineState,         \* the bits of it that are set
  btStatus,             \* of btProfile
  btMsgFrame,           \* number of the frame in the buffer, 0 when erased
  dataEvents,           \* the bits of it that are set
  pcT, pcR,             \* next statement of each thread
  loadT, loadR,         \* what a thread has loaded from a shared byte
  frame,                \* of R: the frame it stores; of T: the start it has read
  begun,
  call, answer,         \* the function the tester waits in, and what it will return
  power,                \* the modem's Bluetooth is on
  link,                 \* of the phone: "off" .. "up"
  air,                  \* URCs sent and not yet taken: <<URC, number of the frame>>
  frames,               \* frames the phone has sent
  served,               \* history: the frames handled, as read: <<start, end>>, up
                        \* to the first one too many
  assumed               \* the assumptions made of this behaviour

shared == <<machineState, btStatus, btMsgFrame, dataEvents>>
tester == <<pcT, loadT, begun, call>>
responder == <<pcR, loadR, frame, assumed>>
phone == <<power, link, air, frames>>
vars == <<shared, tester, responder, phone, answer, served>>

Bit == {"MDM_RDY", "BT_HOST_SET", "BT_PWR_RDY", "BT_RDY"}
Event == {"RD_RDY", "WR_RDY", "SENT"}
Status == {"UNPAIRED", "PAIRING", "HFPDISCONN", "SPPCONNECT", "SPPCONNECTED",
           "DISCONNECTED", "PAIRED", "HFPDISCONNECTED"}

\* yutu_fw_mobile_message_handler, before the threads start.
Init == /\ machineState = {} /\ btStatus = "UNPAIRED"
        /\ btMsgFrame = 0 /\ dataEvents = {}
        /\ pcT = "modem" /\ pcR = "idle" /\ loadT = {} /\ loadR = {}
        /\ frame = 0 /\ begun = 0 /\ call = "none" /\ answer = "none"
        /\ power = FALSE /\ link = "off" /\ air = <<>> /\ frames = 0
        /\ served = <<>> /\ assumed \in Assumptions
-------------------------------------------------------------------------------
(* The tester thread: the conditions of its loop, in order. *)

GoT(a, b) == /\ pcT = a /\ pcT' = b
             /\ "whole" \in assumed => pcR = "idle"
             /\ UNCHANGED <<responder, phone>>
After == [modem |-> "host", host |-> "power", power |-> "session",
          session |-> "data", data |-> "modem"]

\* What gsm_gprs_init, bt_init and bt_power_on set, and need to be set.
Sets == [modem |-> "MDM_RDY", host |-> "BT_HOST_SET", power |-> "BT_PWR_RDY",
         accept |-> "BT_RDY"]
Needs == [modem |-> {}, host |-> {"MDM_RDY"}, power |-> {"MDM_RDY", "BT_HOST_SET"}]
IsDue(s) == Sets[s] \notin machineState /\ Needs[s] \subseteq machineState

BringUp(s) == /\ GoT(s, IF IsDue(s) THEN "call" ELSE After[s])
              /\ call' = IF IsDue(s) THEN s ELSE "none"
              /\ UNCHANGED <<shared, loadT, begun, answer, served>>

InSession == /\ {"MDM_RDY", "BT_HOST_SET", "BT_PWR_RDY"} \subseteq machineState
             /\ "BT_RDY" \notin machineState
Session == /\ GoT("session", IF InSession THEN "switch" ELSE "data")
           /\ UNCHANGED <<shared, loadT, begun, call, answer, served>>

\* switch(btProfile.btStatus)
Request == [PAIRING |-> "pair", HFPDISCONN |-> "disconnect", SPPCONNECT |-> "accept"]
Switch == /\ GoT("switch", IF btStatus \in DOMAIN Request THEN "call" ELSE "data")
          /\ call' = IF btStatus \in DOMAIN Request THEN Request[btStatus] ELSE "none"
          /\ UNCHANGED <<shared, loadT, begun, answer, served>>

\* A call is over: a failed one changes nothing.
Place(c) == CASE c \in DOMAIN After -> After[c]
              [] c = "send"         -> "clear"
              [] OTHER              -> "data"
Return ==
  /\ answer # "none" /\ answer' = "none"
  /\ GoT("call", IF answer = "ERROR" \/ call = "send" THEN Place(call)
                 ELSE IF call \in DOMAIN Sets THEN "set" ELSE "record")
  /\ call' = IF answer = "ERROR" \/ call = "send" THEN "none" ELSE call
  /\ UNCHANGED <<shared, loadT, begun, served>>

\* A mutant: the number of the status is taken for a bit.
SetOfStatus ==
  \/ /\ GoT("set", "set_store") /\ loadT' = machineState
     /\ UNCHANGED <<shared, begun, call, answer, served>>
  \/ /\ GoT("set_store", IF call = "accept" THEN "record" ELSE Place(call))
     /\ machineState' = loadT \cup {btStatus} /\ loadT' = {}
     /\ call' = IF call = "accept" THEN call ELSE "none"
     /\ UNCHANGED <<btStatus, btMsgFrame, dataEvents, begun, answer, served>>
\* machineState |= ..., then the status of an answered request.
Set == \/ /\ GoT("set", "set_store") /\ loadT' = machineState
          /\ UNCHANGED <<shared, begun, call, answer, served>>
       \/ /\ GoT("set_store", IF call = "accept" THEN "record" ELSE Place(call))
          /\ machineState' = loadT \cup {Sets[call]} /\ loadT' = {}
          /\ call' = IF call = "accept" THEN call ELSE "none"
          /\ UNCHANGED <<btStatus, btMsgFrame, dataEvents, begun, answer, served>>
Record == /\ GoT("record", "data") /\ call' = "none"
          /\ btStatus' = CASE call = "pair"       -> "PAIRED"
                           [] call = "disconnect" -> "HFPDISCONNECTED"
                           [] call = "accept"     -> "SPPCONNECTED"
          /\ UNCHANGED <<machineState, btMsgFrame, dataEvents, loadT, begun, answer,
                         served>>

\* The frame is parsed by btCallback, from its start to its end, and the reply sent.
Data == \/ /\ GoT("data", IF "RD_RDY" \in dataEvents THEN "parse" ELSE "modem")
           /\ begun' = IF "RD_RDY" \in dataEvents THEN btMsgFrame ELSE 0
           /\ UNCHANGED <<shared, loadT, call, answer, served>>
        \/ /\ GoT("parse", "call") /\ call' = "send"
           /\ begun' = 0
           /\ served' = IF Len(served) > frames THEN served
                        ELSE Append(served, <<begun, btMsgFrame>>)
           /\ UNCHANGED <<shared, loadT, answer>>

\* A mutant: the event is set, not cleared.
ClearSets == \/ /\ GoT("clear", "clear_store") /\ loadT' = dataEvents
                /\ UNCHANGED <<shared, begun, call, answer, served>>
             \/ /\ GoT("clear_store", "modem")
                /\ dataEvents' = loadT \cup {"RD_RDY"} /\ loadT' = {}
                /\ UNCHANGED <<machineState, btStatus, btMsgFrame, begun, call, answer,
                               served>>
\* dataEvents.event_bit.BT_DATA_RD_RDY = 0
Clear == \/ /\ GoT("clear", "clear_store") /\ loadT' = dataEvents
            /\ UNCHANGED <<shared, begun, call, answer, served>>
         \/ /\ GoT("clear_store", "modem")
            /\ dataEvents' = loadT \ {"RD_RDY"} /\ loadT' = {}
            /\ UNCHANGED <<machineState, btStatus, btMsgFrame, begun, call, answer,
                           served>>

Tester == \/ \E s \in DOMAIN Needs : BringUp(s)
          \/ Session \/ Switch \/ Return \/ Set \/ Record \/ Data \/ Clear
-------------------------------------------------------------------------------
(* The response processor: one handler for each URC of the session. *)

GoR(a, b) == pcR = a /\ pcR' = b /\ UNCHANGED <<tester, served, assumed>>
InCall == pcT \in {"call", "set", "set_store", "record"}
Take(u, b) == /\ air # <<>> /\ Head(air)[1] = u
              /\ GoR("idle", b)
              /\ air' = Tail(air)
              /\ UNCHANGED <<power, link, frames>>
TakeApart(u, b) == Take(u, b) /\ ("apart" \in assumed => ~InCall)

\* A URC of the session that meets a command under execution is reported as no
\* URC: the emptied buffer then answers the command, "OK" for the default
\* callback and "ERROR" for that of AT+BTSPPSEND.
Upset == IF pcT = "call" /\ answer = "none"
           THEN answer' \in {"none", IF call = "send" THEN "ERROR" ELSE "OK"}
           ELSE UNCHANGED answer

SetStatus(v) == /\ btStatus' = v
                /\ UNCHANGED <<machineState, btMsgFrame, dataEvents, loadR, frame>>
\* yutu_fw_bt_pair, yutu_fw_bt_profile_connect and yutu_fw_bt_connect
Pairing == TakeApart("+BTPAIRING", "idle") /\ SetStatus("PAIRING") /\ Upset
Connecting == TakeApart("+BTCONNECTING", "idle") /\ SetStatus("SPPCONNECT") /\ Upset
Connected == /\ TakeApart("+BTCONNECT_SPP", "idle") /\ SetStatus("SPPCONNECT") /\ Upset
\* The second test of yutu_fw_bt_connect is true for HFP, too.
ConnectedHFP == \/ /\ TakeApart("+BTCONNECT_HFP", "again") /\ SetStatus("HFPDISCONN")
                   /\ UNCHANGED answer
                \/ /\ GoR("again", "idle") /\ SetStatus("SPPCONNECT") /\ Upset
                   /\ UNCHANGED phone

\* A mutant: BT_RDY stays set.
DisconnectedReady ==
  /\ TakeApart("+BTDISCONN", "idle") /\ SetStatus("DISCONNECTED")
  /\ UNCHANGED answer
\* yutu_fw_bt_disconnect
Disconnected ==
  \/ /\ TakeApart("+BTDISCONN", "unready") /\ SetStatus("DISCONNECTED")
     /\ UNCHANGED answer
  \/ /\ GoR("unready", "unready_store") /\ loadR' = machineState
     /\ UNCHANGED <<shared, frame, phone, answer>>
  \/ /\ GoR("unready_store", "idle")
     /\ machineState' = loadR \ {"BT_RDY"} /\ loadR' = {} /\ Upset
     /\ UNCHANGED <<btStatus, btMsgFrame, dataEvents, frame, phone>>

\* dataEvents.event_bit... = 1, or = 0, and then to b.
LoadEvents(a, b) == /\ GoR(a, b) /\ loadR' = dataEvents
                    /\ UNCHANGED <<shared, frame, phone, answer>>
StoreEvents(a, b, v) == /\ GoR(a, b) /\ dataEvents' = v /\ loadR' = {}
                        /\ UNCHANGED <<machineState, btStatus, btMsgFrame, frame>>

\* A mutant: the event of the frame is not set.
FrameSilent ==
  \/ /\ Take("+BTSPPDATA", "store") /\ btMsgFrame' = 0 /\ frame' = Head(air)[2]
     /\ UNCHANGED <<machineState, btStatus, dataEvents, loadR, answer>>
  \/ /\ GoR("store", "idle") /\ btMsgFrame' = frame /\ frame' = 0
     /\ UNCHANGED <<machineState, btStatus, dataEvents, loadR, phone, answer>>
\* yutu_fw_recv_bt_data
Frame ==
  \/ /\ Take("+BTSPPDATA", "store") /\ btMsgFrame' = 0 /\ frame' = Head(air)[2]
     /\ UNCHANGED <<machineState, btStatus, dataEvents, loadR, answer>>
  \/ /\ GoR("store", "ready") /\ btMsgFrame' = frame /\ frame' = 0
     /\ UNCHANGED <<machineState, btStatus, dataEvents, loadR, phone, answer>>
  \/ LoadEvents("ready", "ready_store")
  \/ StoreEvents("ready_store", "idle", loadR \cup {"RD_RDY"})
       /\ UNCHANGED <<phone, answer>>

\* yutu_fw_data_send_ack
SendOk ==
  \/ /\ Take("SEND_OK", IF "SENT" \in dataEvents THEN "written" ELSE "idle")
     /\ UNCHANGED <<shared, loadR, frame>>
     /\ IF "SENT" \in dataEvents THEN UNCHANGED answer ELSE Upset
  \/ LoadEvents("written", "written_store")
  \/ StoreEvents("written_store", "unsent", loadR \cup {"WR_RDY"})
       /\ UNCHANGED <<phone, answer>>
  \/ LoadEvents("unsent", "unsent_store")
  \/ StoreEvents("unsent_store", "idle", loadR \ {"SENT"}) /\ Upset /\ UNCHANGED phone

\* send_bt_data_callback on the prompt of AT+BTSPPSEND: the reply leaves, and the
\* modem acknowledges it unless the link is gone.
Prompt ==
  \/ pcT = "call" /\ call = "send" /\ answer = "none" /\ LoadEvents("idle", "sent_store")
  \/ /\ StoreEvents("sent_store", "idle", loadR \cup {"SENT"})
     /\ answer' = IF pcT = "call" /\ call = "send" THEN "OK" ELSE answer
     /\ air' = IF link = "up" THEN Append(air, <<"SEND_OK", 0>>) ELSE air
     /\ UNCHANGED <<power, link, frames>>

Responder == \/ Pairing \/ Connecting \/ Connected \/ ConnectedHFP \/ Disconnected
             \/ Frame \/ SendOk \/ Prompt
-------------------------------------------------------------------------------
(* The modem and the phone. *)

\* The modem refuses a command or stays silent; it accepts one it can carry out.
Refuse == /\ pcT = "call" /\ answer = "none" /\ pcR = "idle" /\ answer' = "ERROR"
          /\ UNCHANGED <<shared, tester, responder, phone, served>>
Accept ==
  /\ pcT = "call" /\ answer = "none" /\ pcR = "idle" /\ call # "send"
  /\ call = "accept" => link = "asked"
  /\ call = "pair" => link = "pairing"
  /\ answer' = "OK"
  /\ power' = (power \/ call = "power")
  /\ link' = CASE call = "accept" -> "up" [] call = "pair" -> "paired" [] OTHER -> link
  /\ air' = IF call = "accept" THEN Append(air, <<"+BTCONNECT_SPP", 0>>) ELSE air
  /\ UNCHANGED <<shared, tester, responder, frames, served>>

\* The phone pairs before it asks for a connection; it may also open and close a
\* hands-free connection, which the firmware does not want.
Acts(from, to, u, n) == /\ power /\ link \in from /\ Len(air) < MaxAir
                        /\ link' = to /\ air' = Append(air, <<u, n>>)
                        /\ UNCHANGED <<shared, tester, responder, power, answer, served>>
Pair == Acts({"off"}, "pairing", "+BTPAIRING", 0) /\ UNCHANGED frames
Ask == Acts({"paired"}, "asked", "+BTCONNECTING", 0) /\ UNCHANGED frames
HandsFree == /\ \E l \in {"paired", "asked", "up"} : Acts({l}, l, "+BTCONNECT_HFP", 0)
             /\ UNCHANGED frames
Drop == /\ \E to \in {"paired", "off"} : Acts({"up"}, to, "+BTDISCONN", 0)
        /\ UNCHANGED frames

Unhandled == \/ "RD_RDY" \in dataEvents \/ pcR # "idle" \/ call = "send"
             \/ pcT \in {"parse", "clear", "clear_store"}
             \/ \E i \in 1..Len(air) : air[i] = <<"+BTSPPDATA", frames>>
Send == /\ frames < MaxFrames /\ frames' = frames + 1
        /\ "waits" \in assumed => ~Unhandled
        /\ Acts({"up"}, "up", "+BTSPPDATA", frames + 1)

Next == \/ Tester \/ Responder \/ Refuse \/ Accept
        \/ Pair \/ Ask \/ HandsFree \/ Drop \/ Send

Spec == Init /\ [][Next]_vars

\* Both threads get their slices, the response processor also between the calls of
\* the tester; a call returns (AtEngine); the modem does what it can carry out when
\* it is told again and again.
Fairness == /\ SF_vars(Tester) /\ SF_vars(Responder)
            /\ SF_vars(Refuse \/ Accept) /\ SF_vars(Accept)
FairSpec == Spec /\ Fairness
-------------------------------------------------------------------------------
(* Properties, each under the assumptions it needs. *)

URC == {"+BTPAIRING", "+BTCONNECTING", "+BTCONNECT_SPP", "+BTCONNECT_HFP",
        "+BTDISCONN", "SEND_OK", "+BTSPPDATA"}
Frames == 0..MaxFrames
\* The variables keep their types.
TypeOK == /\ machineState \subseteq Bit /\ btStatus \in Status
          /\ btMsgFrame \in Frames /\ dataEvents \subseteq Event
          /\ pcT \in {"modem", "host", "power", "session", "switch", "call", "set",
                      "set_store", "record", "data", "parse", "clear", "clear_store"}
          /\ pcR \in {"idle", "again", "unready", "unready_store", "store", "ready",
                      "ready_store", "written", "written_store", "unsent",
                      "unsent_store", "sent_store"}
          /\ loadT \in (SUBSET Bit) \cup (SUBSET Event)
          /\ loadR \in (SUBSET Bit) \cup (SUBSET Event)
          /\ frame \in Frames /\ begun \in Frames
          /\ call \in {"none", "modem", "host", "power", "pair", "disconnect",
                       "accept", "send"}
          /\ answer \in {"none", "OK", "ERROR"} /\ power \in BOOLEAN
          /\ link \in {"off", "pairing", "paired", "asked", "up"}
          /\ air \in Seq(URC \X Frames) /\ frames \in Frames
          /\ served \in Seq(Frames \X Frames) /\ assumed \subseteq Assumption

Under(A) == A \subseteq assumed

\* Once every URC has been taken and no call is under way, BT_RDY says whether
\* the phone is connected: no update of machineState is lost, or made too late.
ReadyIsConnected ==
  Under({"apart"}) /\ air = <<>> /\ pcR = "idle" /\ ~InCall
    => ("BT_RDY" \in machineState <=> link = "up")

\* The frames are handled once each, in the order they were sent, and each is
\* read whole: none is overwritten while it is parsed.
ServedInOrder ==
  Under({"whole", "waits"}) => /\ Len(served) <= frames
                               /\ \A k \in 1..Len(served) : served[k] = <<k, k>>

\* A phone that wants to pair, or to connect, again or for the first time, is
\* answered.
RequestsAnswered ==
  Under({"whole", "apart"}) => /\ link = "pairing" ~> link # "pairing"
                               /\ link = "asked" ~> link # "asked"

\* Every frame is handled, from its start to its end.
EachServed ==
  Under({"waits"}) =>
    \A n \in 1..MaxFrames : frames >= n ~> \E k \in 1..Len(served) : served[k] = <<n, n>>
===============================================================================
