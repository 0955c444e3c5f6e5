---------------------------- MODULE BtSessionProofs ----------------------------
(***************************************************************************)
(* Proof that, when no result code of the session is taken during a call   *)
(* of the tester, BT_RDY says whether the phone is connected, and that,    *)
(* when the phone waits and no tick cuts the response processor, the       *)
(* frames are read whole, once and in order, for any number of frames and  *)
(* of result codes under way.                                              *)
(***************************************************************************)
EXTENDS BtSession, TLAPS

(* Result codes under way. *)

Holds(s, u) == \E i \in 1..Len(s) : s[i][1] = u
\* At most one loss of the link, and no acknowledgement after it.
LossIsLast(s) ==
  \A i, j \in 1..Len(s) :
    s[i][1] = "+BTDISCONN" /\ s[j][1] \in {"+BTDISCONN", "SEND_OK"} => j <= i
\* At most one frame, and that is number n.
OneFrame(s, n) ==
  /\ \A i, j \in 1..Len(s) : s[i][1] = "+BTSPPDATA" /\ s[j][1] = "+BTSPPDATA" => i = j
  /\ \A i \in 1..Len(s) : s[i][1] = "+BTSPPDATA" => s[i] = <<"+BTSPPDATA", n>>

LEMMA TailElements ==
  ASSUME NEW S, NEW s \in Seq(S), s # <<>>
  PROVE  /\ Tail(s) \in Seq(S) /\ Len(Tail(s)) = Len(s) - 1
         /\ Head(s) = s[1] /\ Head(s) \in S
         /\ 1 \in 1..Len(s) /\ Len(s) \in Nat
         /\ \A i \in 1..Len(Tail(s)) : i + 1 \in 1..Len(s) /\ Tail(s)[i] = s[i + 1]
         /\ \A i \in 1..Len(s) : i = 1 \/ (i - 1 \in 1..Len(Tail(s)) /\ Tail(s)[i - 1] = s[i])
  OBVIOUS

LEMMA AppendElements ==
  ASSUME NEW S, NEW s \in Seq(S), NEW e \in S
  PROVE  /\ Append(s, e) \in Seq(S) /\ Len(Append(s, e)) = Len(s) + 1
         /\ Len(s) \in Nat
         /\ \A i \in 1..Len(s) : i \in 1..Len(Append(s, e)) /\ Append(s, e)[i] = s[i]
         /\ \A i \in 1..Len(Append(s, e)) : i \in 1..Len(s) \/ i = Len(s) + 1
         /\ Append(s, e)[Len(s) + 1] = e
  OBVIOUS

Codes == Seq(URC \X Frames)

\* Taking a code leaves the others.
LEMMA TakenCode ==
  ASSUME NEW s \in Codes, s # <<>>
  PROVE  /\ \A u : Holds(Tail(s), u) => Holds(s, u)
         /\ \A u : u # Head(s)[1] => (Holds(Tail(s), u) <=> Holds(s, u))
         /\ Holds(s, Head(s)[1])
<1>1. ASSUME NEW u, Holds(Tail(s), u) PROVE Holds(s, u)
  BY <1>1, TailElements DEF Codes, Holds
<1>2. ASSUME NEW u, u # Head(s)[1], Holds(s, u) PROVE Holds(Tail(s), u)
  <2>1. PICK i \in 1..Len(s) : s[i][1] = u
    BY <1>2 DEF Holds
  <2>2. i # 1
    BY <1>2, <2>1, TailElements DEF Codes
  <2>3. i - 1 \in 1..Len(Tail(s)) /\ Tail(s)[i - 1] = s[i]
    BY <2>2, TailElements DEF Codes
  <2>. QED
    BY <2>1, <2>3 DEF Holds
<1>3. Holds(s, Head(s)[1])
  BY TailElements DEF Codes, Holds
<1>. QED
  BY <1>1, <1>2, <1>3

LEMMA TakenLoss ==
  ASSUME NEW s \in Codes, s # <<>>, LossIsLast(s)
  PROVE  /\ LossIsLast(Tail(s))
         /\ Head(s)[1] = "+BTDISCONN"
              => ~Holds(Tail(s), "+BTDISCONN") /\ ~Holds(Tail(s), "SEND_OK")
<1>1. LossIsLast(Tail(s))
  BY TailElements DEF Codes, LossIsLast
<1>2. ASSUME Head(s)[1] = "+BTDISCONN", NEW i \in 1..Len(Tail(s))
      PROVE  Tail(s)[i][1] \notin {"+BTDISCONN", "SEND_OK"}
  BY <1>2, TailElements DEF Codes, LossIsLast
<1>. QED
  BY <1>1, <1>2 DEF Holds

LEMMA TakenFrame ==
  ASSUME NEW s \in Codes, s # <<>>, NEW n, OneFrame(s, n)
  PROVE  /\ OneFrame(Tail(s), n)
         /\ Head(s)[1] = "+BTSPPDATA"
              => ~Holds(Tail(s), "+BTSPPDATA") /\ Head(s)[2] = n
<1>1. OneFrame(Tail(s), n)
  BY TailElements DEF Codes, OneFrame
<1>2. ASSUME Head(s)[1] = "+BTSPPDATA"
      PROVE  ~Holds(Tail(s), "+BTSPPDATA") /\ Head(s)[2] = n
  BY <1>2, TailElements DEF Codes, OneFrame, Holds
<1>. QED
  BY <1>1, <1>2

\* Sending a code leaves the others.
LEMMA SentCode ==
  ASSUME NEW s \in Codes, NEW v \in URC, NEW k \in Frames
  PROVE  \A u : Holds(Append(s, <<v, k>>), u) <=> Holds(s, u) \/ u = v
  BY AppendElements DEF Codes, Holds

LEMMA SentLoss ==
  ASSUME NEW s \in Codes, NEW v \in URC, NEW k \in Frames, LossIsLast(s),
         Holds(s, "+BTDISCONN") => v \notin {"+BTDISCONN", "SEND_OK"}
  PROVE  LossIsLast(Append(s, <<v, k>>))
<1> DEFINE t == Append(s, <<v, k>>)
<1>1. SUFFICES ASSUME NEW i \in 1..Len(t), NEW j \in 1..Len(t), t[i][1] = "+BTDISCONN",
                      t[j][1] \in {"+BTDISCONN", "SEND_OK"}
               PROVE  j <= i
  BY DEF LossIsLast
<1>2. <<v, k>> \in URC \X Frames
  OBVIOUS
<1>3. CASE i \in 1..Len(s)
  <2>1. Holds(s, "+BTDISCONN")
    BY <1>1, <1>2, <1>3, AppendElements DEF Codes, Holds
  <2>2. j \in 1..Len(s)
    BY <1>1, <1>2, <2>1, AppendElements DEF Codes
  <2>. QED
    BY <1>1, <1>2, <1>3, <2>2, AppendElements DEF Codes, LossIsLast
<1>4. CASE i = Len(s) + 1
  BY <1>1, <1>2, <1>4, AppendElements DEF Codes
<1>. QED
  BY <1>2, <1>3, <1>4, AppendElements DEF Codes

LEMMA SentFrame ==
  ASSUME NEW s \in Codes, NEW v \in URC, NEW k \in Frames, NEW n, OneFrame(s, n)
  PROVE  /\ v # "+BTSPPDATA" => OneFrame(Append(s, <<v, k>>), n)
         /\ v = "+BTSPPDATA" /\ ~Holds(s, "+BTSPPDATA") => OneFrame(Append(s, <<v, k>>), k)
<1>1. <<v, k>> \in URC \X Frames
  OBVIOUS
<1>2. ASSUME v # "+BTSPPDATA" PROVE OneFrame(Append(s, <<v, k>>), n)
  BY <1>1, <1>2, AppendElements DEF Codes, OneFrame
<1>3. ASSUME v = "+BTSPPDATA", ~Holds(s, "+BTSPPDATA") PROVE OneFrame(Append(s, <<v, k>>), k)
  BY <1>1, <1>3, AppendElements DEF Codes, OneFrame, Holds
<1>. QED
  BY <1>2, <1>3

-------------------------------------------------------------------------------
(* Types, and what a call in progress says of the threads. *)

LEMMA Tables ==
  /\ DOMAIN After = {"modem", "host", "power", "session", "data"}
  /\ After["modem"] = "host" /\ After["host"] = "power" /\ After["power"] = "session"
  /\ DOMAIN Sets = {"modem", "host", "power", "accept"}
  /\ Sets["modem"] = "MDM_RDY" /\ Sets["host"] = "BT_HOST_SET"
  /\ Sets["power"] = "BT_PWR_RDY" /\ Sets["accept"] = "BT_RDY"
  /\ DOMAIN Needs = {"modem", "host", "power"}
  /\ DOMAIN Request = {"PAIRING", "HFPDISCONN", "SPPCONNECT"}
  /\ Request["PAIRING"] = "pair" /\ Request["HFPDISCONN"] = "disconnect"
  /\ Request["SPPCONNECT"] = "accept"
<1>1. DOMAIN After = {"modem", "host", "power", "session", "data"}
  BY DEF After
<1>2. After["modem"] = "host" /\ After["host"] = "power" /\ After["power"] = "session"
  BY DEF After
<1>3. DOMAIN Sets = {"modem", "host", "power", "accept"}
  BY DEF Sets
<1>4. /\ Sets["modem"] = "MDM_RDY" /\ Sets["host"] = "BT_HOST_SET"
      /\ Sets["power"] = "BT_PWR_RDY" /\ Sets["accept"] = "BT_RDY"
  BY DEF Sets
<1>5. DOMAIN Needs = {"modem", "host", "power"}
  BY DEF Needs
<1>6. DOMAIN Request = {"PAIRING", "HFPDISCONN", "SPPCONNECT"}
  BY DEF Request
<1>7. /\ Request["PAIRING"] = "pair" /\ Request["HFPDISCONN"] = "disconnect"
      /\ Request["SPPCONNECT"] = "accept"
  BY DEF Request
<1>. QED
  BY <1>1, <1>2, <1>3, <1>4, <1>5, <1>6, <1>7

\* A call is under way exactly when the tester says which, it is the one the
\* tester's next statement is about, and only a call that waits has an answer.
CallInv ==
  /\ InCall <=> call # "none"
  /\ pcT \in {"set", "set_store"} => call \in {"modem", "host", "power", "accept"}
  /\ pcT = "record" => call \in {"pair", "disconnect", "accept"}
  /\ answer # "none" => pcT = "call"
  /\ pcR = "sent_store" => pcT = "call" /\ call = "send" /\ answer = "none"
\* A loaded byte is the one its thread is about to store.
LoadInv ==
  /\ pcT = "set_store" => loadT \subseteq Bit
  /\ pcT = "clear_store" => loadT \subseteq Event
  /\ pcR = "unready_store" => loadR \subseteq Bit
  /\ pcR \in {"ready_store", "written_store", "unsent_store", "sent_store"}
       => loadR \subseteq Event
TypeInv == TypeOK /\ CallInv /\ LoadInv

LEMMA InitTypes == Init => TypeInv
<1>. SUFFICES ASSUME Init PROVE TypeInv
  OBVIOUS
<1>. USE DEF Init
<1>1. /\ machineState \subseteq Bit /\ btStatus \in Status /\ dataEvents \subseteq Event
      /\ assumed \subseteq Assumption
  BY AssumptionsAssumption DEF Bit, Status, Event
<1>2. loadT \in (SUBSET Bit) \cup (SUBSET Event) /\ loadR \in (SUBSET Bit) \cup (SUBSET Event)
  OBVIOUS
<1>3. btMsgFrame \in Frames /\ frame \in Frames /\ begun \in Frames /\ frames \in Frames
  BY BoundsAssumption DEF Frames
<1>4. air \in Seq(URC \X Frames) /\ served \in Seq(Frames \X Frames)
  OBVIOUS
<1>5. TypeOK
  BY <1>1, <1>2, <1>3, <1>4 DEF TypeOK
<1>6. CallInv /\ LoadInv
  BY DEF CallInv, LoadInv, InCall
<1>. QED
  BY <1>5, <1>6 DEF TypeInv

\* The steps of the tester, in terms of the bytes and the place they change.
LEMMA TesterCalls ==
  ASSUME TypeInv, Tester PROVE CallInv'
<1>. USE DEF TypeInv, CallInv, InCall, responder, phone, shared
<1>1. ASSUME NEW s \in DOMAIN Needs, BringUp(s) PROVE CallInv'
  BY <1>1, Tables DEF BringUp, GoT
<1>2. CASE Session
  BY <1>2 DEF Session, GoT
<1>3. CASE Switch
  BY <1>3, Tables DEF Switch, GoT
<1>4. CASE Return
  <2>1. call \in {"modem", "host", "power", "pair", "disconnect", "accept", "send"}
    BY <1>4 DEF Return, GoT, TypeOK
  <2>. QED
    BY <1>4, <2>1, Tables DEF Return, GoT, Place
<1>5. CASE Set
  BY <1>5, Tables DEF Set, GoT, Place
<1>6. CASE Record
  BY <1>6 DEF Record, GoT
<1>7. CASE Data
  BY <1>7 DEF Data, GoT
<1>8. CASE Clear
  BY <1>8 DEF Clear, GoT
<1>. QED
  BY <1>1, <1>2, <1>3, <1>4, <1>5, <1>6, <1>7, <1>8 DEF Tester

LEMMA OtherCalls ==
  ASSUME TypeInv, Responder \/ Refuse \/ Accept \/ Pair \/ Ask \/ HandsFree \/ Drop \/ Send
  PROVE  CallInv'
<1>. USE DEF TypeInv, CallInv, InCall, responder, phone, shared, tester
<1>1. CASE Pairing \/ Connecting \/ Connected
  BY <1>1 DEF Pairing, Connecting, Connected, TakeApart, Take, GoR, Upset
<1>2. CASE ConnectedHFP
  BY <1>2 DEF ConnectedHFP, TakeApart, Take, GoR, Upset
<1>3. CASE Disconnected
  BY <1>3 DEF Disconnected, TakeApart, Take, GoR, Upset
<1>4. CASE Frame
  BY <1>4 DEF Frame, Take, GoR, LoadEvents, StoreEvents
<1>5. CASE SendOk
  BY <1>5 DEF SendOk, Take, GoR, LoadEvents, StoreEvents, Upset
<1>6. CASE Prompt
  BY <1>6 DEF Prompt, GoR, LoadEvents, StoreEvents
<1>7. CASE Refuse \/ Accept
  BY <1>7 DEF Refuse, Accept
<1>8. CASE Pair \/ Ask \/ HandsFree \/ Drop \/ Send
  BY <1>8 DEF Pair, Ask, HandsFree, Drop, Send, Acts
<1>. QED
  BY <1>1, <1>2, <1>3, <1>4, <1>5, <1>6, <1>7, <1>8 DEF Responder

LEMMA TesterLoads ==
  ASSUME TypeInv, Tester PROVE LoadInv'
<1>. USE DEF TypeInv, LoadInv, TypeOK, responder, phone, shared
<1>1. ASSUME NEW s \in DOMAIN Needs, BringUp(s) PROVE LoadInv'
  BY <1>1, Tables DEF BringUp, GoT
<1>2. CASE Session
  BY <1>2 DEF Session, GoT
<1>3. CASE Switch
  BY <1>3 DEF Switch, GoT
<1>4. CASE Return
  BY <1>4, Tables DEF Return, GoT, Place
<1>5. CASE Set
  BY <1>5, Tables DEF Set, GoT, Place, CallInv
<1>6. CASE Record
  BY <1>6 DEF Record, GoT
<1>7. CASE Data
  BY <1>7 DEF Data, GoT
<1>8. CASE Clear
  BY <1>8 DEF Clear, GoT
<1>. QED
  BY <1>1, <1>2, <1>3, <1>4, <1>5, <1>6, <1>7, <1>8 DEF Tester

LEMMA OtherLoads ==
  ASSUME TypeInv, Responder \/ Refuse \/ Accept \/ Pair \/ Ask \/ HandsFree \/ Drop \/ Send
  PROVE  LoadInv'
<1>. USE DEF TypeInv, LoadInv, TypeOK, responder, phone, shared, tester
<1>1. CASE Pairing \/ Connecting \/ Connected
  BY <1>1 DEF Pairing, Connecting, Connected, TakeApart, Take, GoR, SetStatus
<1>2. CASE ConnectedHFP
  BY <1>2 DEF ConnectedHFP, TakeApart, Take, GoR, SetStatus
<1>3. CASE Disconnected
  BY <1>3 DEF Disconnected, TakeApart, Take, GoR, SetStatus
<1>4. CASE Frame
  BY <1>4 DEF Frame, Take, GoR, LoadEvents, StoreEvents
<1>5. CASE SendOk
  BY <1>5 DEF SendOk, Take, GoR, LoadEvents, StoreEvents
<1>6. CASE Prompt
  BY <1>6 DEF Prompt, GoR, LoadEvents, StoreEvents
<1>7. CASE Refuse \/ Accept
  BY <1>7 DEF Refuse, Accept
<1>8. CASE Pair \/ Ask \/ HandsFree \/ Drop \/ Send
  BY <1>8 DEF Pair, Ask, HandsFree, Drop, Send, Acts
<1>. QED
  BY <1>1, <1>2, <1>3, <1>4, <1>5, <1>6, <1>7, <1>8 DEF Responder

\* What TypeOK says of the places, of the shared bytes and of the frames.
PlaceTypes ==
  /\ pcT \in {"modem", "host", "power", "session", "switch", "call", "set", "set_store",
              "record", "data", "parse", "clear", "clear_store"}
  /\ pcR \in {"idle", "again", "unready", "unready_store", "store", "ready",
              "ready_store", "written", "written_store", "unsent", "unsent_store",
              "sent_store"}
  /\ call \in {"none", "modem", "host", "power", "pair", "disconnect", "accept", "send"}
  /\ answer \in {"none", "OK", "ERROR"} /\ power \in BOOLEAN
  /\ link \in {"off", "pairing", "paired", "asked", "up"}
Loadable == (SUBSET Bit) \cup (SUBSET Event)
ByteTypes ==
  /\ machineState \subseteq Bit /\ btStatus \in Status /\ dataEvents \subseteq Event
  /\ loadT \in Loadable /\ loadR \in Loadable /\ assumed \subseteq Assumption
FrameTypes ==
  /\ btMsgFrame \in Frames /\ frame \in Frames /\ begun \in Frames /\ frames \in Frames
  /\ air \in Codes /\ served \in Seq(Frames \X Frames)

LEMMA TypesSplit == TypeOK <=> PlaceTypes /\ ByteTypes /\ FrameTypes
  BY DEF TypeOK, PlaceTypes, ByteTypes, FrameTypes, Loadable, Codes

LEMMA LoadableSets ==
  /\ {} \in Loadable
  /\ \A s : s \subseteq Bit \/ s \subseteq Event => s \in Loadable
  BY DEF Loadable

LEMMA TesterPlaces ==
  ASSUME PlaceTypes, CallInv, Tester PROVE PlaceTypes'
<1>. USE DEF PlaceTypes, responder, phone
<1>1. ASSUME NEW s \in DOMAIN Needs, BringUp(s) PROVE PlaceTypes'
  BY <1>1, Tables DEF BringUp, GoT
<1>2. CASE Session
  BY <1>2 DEF Session, GoT
<1>3. CASE Switch
  BY <1>3, Tables DEF Switch, GoT
<1>4. CASE Return
  BY <1>4, Tables DEF Return, GoT, Place
<1>5. CASE Set
  BY <1>5, Tables DEF Set, GoT, Place, CallInv
<1>6. CASE Record
  BY <1>6 DEF Record, GoT
<1>7. CASE Data
  BY <1>7 DEF Data, GoT
<1>8. CASE Clear
  BY <1>8 DEF Clear, GoT
<1>. QED
  BY <1>1, <1>2, <1>3, <1>4, <1>5, <1>6, <1>7, <1>8 DEF Tester

LEMMA OtherPlaces ==
  ASSUME PlaceTypes,
         Responder \/ Refuse \/ Accept \/ Pair \/ Ask \/ HandsFree \/ Drop \/ Send
  PROVE  PlaceTypes'
<1>. USE DEF PlaceTypes, responder, phone, tester
<1>1. CASE Pairing \/ Connecting \/ Connected
  BY <1>1 DEF Pairing, Connecting, Connected, TakeApart, Take, GoR, Upset
<1>2. CASE ConnectedHFP
  BY <1>2 DEF ConnectedHFP, TakeApart, Take, GoR, Upset
<1>3. CASE Disconnected
  BY <1>3 DEF Disconnected, TakeApart, Take, GoR, Upset
<1>4. CASE Frame
  BY <1>4 DEF Frame, Take, GoR, LoadEvents, StoreEvents
<1>5. CASE SendOk
  BY <1>5 DEF SendOk, Take, GoR, LoadEvents, StoreEvents, Upset
<1>6. CASE Prompt
  BY <1>6 DEF Prompt, GoR, LoadEvents, StoreEvents
<1>7. CASE Refuse
  BY <1>7 DEF Refuse
<1>8. CASE Accept
  BY <1>8 DEF Accept
<1>9. CASE Pair \/ Ask \/ HandsFree \/ Drop \/ Send
  BY <1>9 DEF Pair, Ask, HandsFree, Drop, Send, Acts
<1>. QED
  BY <1>1, <1>2, <1>3, <1>4, <1>5, <1>6, <1>7, <1>8, <1>9 DEF Responder

LEMMA TesterBytes ==
  ASSUME ByteTypes, CallInv, LoadInv, Tester PROVE ByteTypes'
<1>. USE LoadableSets DEF ByteTypes, responder, shared
<1>1. ASSUME NEW s \in DOMAIN Needs, BringUp(s) PROVE ByteTypes'
  BY <1>1 DEF BringUp, GoT
<1>2. CASE Session \/ Switch \/ Return
  BY <1>2 DEF Session, Switch, Return, GoT
<1>3. CASE Set
  <2>1. CASE pcT = "set"
    <3>1. machineState \in Loadable
      BY LoadableSets
    <3>2. loadT' = machineState /\ machineState' = machineState
      BY <1>3, <2>1 DEF Set, GoT
    <3>. QED
      BY <1>3, <2>1, <3>1, <3>2 DEF Set, GoT
  <2>2. CASE pcT = "set_store"
    <3>1. Sets[call] \in Bit
      BY <2>2, Tables DEF CallInv, Bit
    <3>2. loadT \subseteq Bit
      BY <2>2 DEF LoadInv
    <3>3. machineState' = loadT \cup {Sets[call]} /\ loadT' = {}
      BY <1>3, <2>2 DEF Set, GoT
    <3>4. machineState' \subseteq Bit /\ loadT' \in Loadable
      BY <3>1, <3>2, <3>3, LoadableSets
    <3>. QED
      BY <1>3, <2>2, <3>4 DEF Set, GoT
  <2>. QED
    BY <1>3, <2>1, <2>2 DEF Set, GoT
<1>4. CASE Record
  BY <1>4 DEF Record, GoT, Status, CallInv
<1>5. CASE Data
  BY <1>5 DEF Data, GoT
<1>6. CASE Clear
  BY <1>6 DEF Clear, GoT, LoadInv
<1>. QED
  BY <1>1, <1>2, <1>3, <1>4, <1>5, <1>6 DEF Tester

LEMMA OtherBytes ==
  ASSUME ByteTypes, LoadInv,
         Responder \/ Refuse \/ Accept \/ Pair \/ Ask \/ HandsFree \/ Drop \/ Send
  PROVE  ByteTypes'
<1>. USE LoadableSets DEF ByteTypes, responder, shared, tester
<1>1. CASE Pairing \/ Connecting \/ Connected
  BY <1>1 DEF Pairing, Connecting, Connected, TakeApart, Take, GoR, SetStatus, Status
<1>2. CASE ConnectedHFP
  BY <1>2 DEF ConnectedHFP, TakeApart, Take, GoR, SetStatus, Status
<1>3. CASE Disconnected
  BY <1>3 DEF Disconnected, TakeApart, Take, GoR, SetStatus, Status, LoadInv
<1>4. CASE Frame
  BY <1>4 DEF Frame, Take, GoR, LoadEvents, StoreEvents, LoadInv, Event
<1>5. CASE SendOk
  BY <1>5 DEF SendOk, Take, GoR, LoadEvents, StoreEvents, LoadInv, Event
<1>6. CASE Prompt
  BY <1>6 DEF Prompt, GoR, LoadEvents, StoreEvents, LoadInv, Event
<1>7. CASE Refuse \/ Accept
  BY <1>7 DEF Refuse, Accept
<1>8. CASE Pair \/ Ask \/ HandsFree \/ Drop \/ Send
  BY <1>8 DEF Pair, Ask, HandsFree, Drop, Send, Acts
<1>. QED
  BY <1>1, <1>2, <1>3, <1>4, <1>5, <1>6, <1>7, <1>8 DEF Responder

\* The codes stay codes, whichever is taken or sent.
LEMMA TakenCodes ==
  ASSUME FrameTypes, air # <<>>
  PROVE  Tail(air) \in Codes /\ Head(air)[2] \in Frames
<1>1. Tail(air) \in Codes
  BY TailElements DEF FrameTypes, Codes
<1>2. Head(air) \in URC \X Frames
  BY TailElements DEF FrameTypes, Codes
<1>. QED
  BY <1>1, <1>2

LEMMA SentCodes ==
  ASSUME FrameTypes, NEW u \in URC, NEW n \in Frames
  PROVE  Append(air, <<u, n>>) \in Codes
  BY DEF FrameTypes, Codes

LEMMA TesterFrames ==
  ASSUME FrameTypes, Tester PROVE FrameTypes'
<1>0. 0 \in Frames
  BY BoundsAssumption DEF Frames
<1>. USE <1>0 DEF FrameTypes, responder, phone, shared
<1>1. ASSUME NEW s \in DOMAIN Needs, BringUp(s) PROVE FrameTypes'
  BY <1>1 DEF BringUp, GoT
<1>2. CASE Session \/ Switch \/ Return \/ Set \/ Record \/ Clear
  BY <1>2 DEF Session, Switch, Return, Set, Record, Clear, GoT
<1>3. CASE Data
  <2>1. Append(served, <<begun, btMsgFrame>>) \in Seq(Frames \X Frames)
    OBVIOUS
  <2>. QED
    BY <1>3, <2>1 DEF Data, GoT
<1>. QED
  BY <1>1, <1>2, <1>3 DEF Tester

LEMMA OtherFrames ==
  ASSUME FrameTypes,
         Responder \/ Refuse \/ Accept \/ Pair \/ Ask \/ HandsFree \/ Drop \/ Send
  PROVE  FrameTypes'
<1>0. 0 \in Frames
  BY BoundsAssumption DEF Frames
<1>s. \A u \in URC, n \in Frames : Append(air, <<u, n>>) \in Codes
  BY SentCodes
<1>. USE <1>0, TakenCodes, <1>s DEF FrameTypes, responder, phone, shared, tester
<1>1. CASE Pairing \/ Connecting \/ Connected
  BY <1>1 DEF Pairing, Connecting, Connected, TakeApart, Take, GoR, SetStatus
<1>2. CASE ConnectedHFP
  BY <1>2 DEF ConnectedHFP, TakeApart, Take, GoR, SetStatus
<1>3. CASE Disconnected
  BY <1>3 DEF Disconnected, TakeApart, Take, GoR, SetStatus
<1>4. CASE Frame
  BY <1>4 DEF Frame, Take, GoR, LoadEvents, StoreEvents
<1>5. CASE SendOk
  BY <1>5 DEF SendOk, Take, GoR, LoadEvents, StoreEvents
<1>6. CASE Prompt
  BY <1>6 DEF Prompt, GoR, LoadEvents, StoreEvents, URC
<1>7. CASE Refuse \/ Accept
  BY <1>7 DEF Refuse, Accept, URC
<1>8. CASE Pair \/ Ask \/ HandsFree \/ Drop
  BY <1>8 DEF Pair, Ask, HandsFree, Drop, Acts, URC
<1>9. CASE Send
  <2>1. frames + 1 \in Frames
    BY <1>9, BoundsAssumption DEF Send, Frames
  <2>. QED
    BY <1>9, <2>1 DEF Send, Acts, URC
<1>. QED
  BY <1>1, <1>2, <1>3, <1>4, <1>5, <1>6, <1>7, <1>8, <1>9 DEF Responder

LEMMA TypeStep == TypeInv /\ [Next]_vars => TypeInv'
<1>. SUFFICES ASSUME TypeInv, [Next]_vars PROVE TypeInv'
  OBVIOUS
<1>0. PlaceTypes /\ ByteTypes /\ FrameTypes
  BY TypesSplit DEF TypeInv
<1>s. PlaceTypes' /\ ByteTypes' /\ FrameTypes' => TypeOK'
  BY TypesSplit, PTL
<1>1. CASE Tester
  BY <1>0, <1>1, <1>s, TesterPlaces, TesterBytes, TesterFrames, TesterCalls, TesterLoads
     DEF TypeInv
<1>2. CASE Responder \/ Refuse \/ Accept \/ Pair \/ Ask \/ HandsFree \/ Drop \/ Send
  BY <1>0, <1>2, <1>s, OtherPlaces, OtherBytes, OtherFrames, OtherCalls, OtherLoads
     DEF TypeInv
<1>3. CASE UNCHANGED vars
  BY <1>3 DEF vars, shared, tester, responder, phone, TypeInv, TypeOK, CallInv, LoadInv,
              InCall
<1>. QED
  BY <1>1, <1>2, <1>3 DEF Next
-------------------------------------------------------------------------------
(* The link and BT_RDY, when no code of the session is taken during a call. *)

Unreadying == {"unready", "unready_store"}
\* The link is lost and BT_RDY not yet cleared for it.
Gone == pcR \in Unreadying \/ Holds(air, "+BTDISCONN")
\* The modem has accepted the connection and BT_RDY is not yet set for it.
Setting == call = "accept" /\ (pcT \in {"set", "set_store"} \/ answer = "OK")
Live == "BT_RDY" \in machineState \/ Setting

\* BT_RDY is set or about to be exactly when the link is up or its loss not yet
\* handled.
LiveInv == /\ Live <=> (link = "up" \/ Gone)
           /\ link = "up" => ~Gone
\* A code that may answer the wrong call comes when no connection is being accepted.
CodesInv ==
  /\ LossIsLast(air)
  /\ Holds(air, "SEND_OK") => "BT_RDY" \in machineState
  /\ pcR \in Unreadying => /\ "BT_RDY" \in machineState
                           /\ ~Holds(air, "+BTDISCONN") /\ ~Holds(air, "SEND_OK")
  /\ pcR \in {"written", "written_store", "unsent", "unsent_store"}
       => "BT_RDY" \in machineState
\* The places of the two threads.
PlacesInv ==
  /\ pcR \in {"again"} \cup Unreadying
       => answer = "none" /\ pcT \notin {"set", "set_store", "record"}
  /\ pcR = "again" => btStatus = "HFPDISCONN" /\ call # "accept"
  /\ pcT = "switch" => "BT_RDY" \notin machineState
  /\ call = "accept" /\ pcT # "record" => "BT_RDY" \notin machineState
  /\ pcT = "set_store" => loadT = machineState
  /\ pcR = "unready_store" => loadR = machineState
LinkInv == "apart" \in assumed => LiveInv /\ CodesInv /\ PlacesInv

LEMMA InitLink == Init => LinkInv
  BY DEF Init, LinkInv, LiveInv, CodesInv, PlacesInv, Live, Setting, Gone, Holds, LossIsLast,
         Unreadying

LEMMA TesterLink ==
  ASSUME TypeInv, LinkInv, "apart" \in assumed, Tester
  PROVE  LiveInv' /\ CodesInv' /\ PlacesInv'
<1>0. LiveInv /\ CodesInv /\ PlacesInv /\ CallInv /\ PlaceTypes
  BY TypesSplit DEF LinkInv, TypeInv
<1>. USE <1>0 DEF LiveInv, CodesInv, PlacesInv, Live, Setting, Gone, Unreadying, CallInv,
                  InCall, responder, phone, shared
<1>1. ASSUME NEW s \in DOMAIN Needs, BringUp(s) PROVE LiveInv' /\ CodesInv' /\ PlacesInv'
  BY <1>1, Tables DEF BringUp, GoT
<1>2. CASE Session
  BY <1>2 DEF Session, GoT, InSession
<1>3. CASE Switch
  BY <1>3, Tables DEF Switch, GoT
<1>4. CASE Return
  BY <1>4, Tables DEF Return, GoT, Place, PlaceTypes
<1>5. CASE Set
  BY <1>5, Tables DEF Set, GoT, Place
<1>6. CASE Record
  BY <1>6 DEF Record, GoT
<1>7. CASE Data
  BY <1>7 DEF Data, GoT
<1>8. CASE Clear
  BY <1>8 DEF Clear, GoT
<1>. QED
  BY <1>1, <1>2, <1>3, <1>4, <1>5, <1>6, <1>7, <1>8 DEF Tester

\* What the taking of a code leaves of the codes under way.
LEMMA TakeLink ==
  ASSUME TypeInv, CodesInv, NEW u \in URC, NEW b, Take(u, b)
  PROVE  /\ LossIsLast(air') /\ Holds(air, u)
         /\ \A v : Holds(air', v) => Holds(air, v)
         /\ u # "+BTDISCONN" => (Holds(air', "+BTDISCONN") <=> Holds(air, "+BTDISCONN"))
         /\ u = "+BTDISCONN" => ~Holds(air', "+BTDISCONN") /\ ~Holds(air', "SEND_OK")
<1>1. air \in Codes
  BY TypesSplit DEF TypeInv, FrameTypes
<1>2. air # <<>> /\ Head(air)[1] = u /\ air' = Tail(air)
  BY DEF Take
<1>. QED
  BY <1>1, <1>2, TakenCode, TakenLoss DEF CodesInv

LEMMA ResponderLink ==
  ASSUME TypeInv, LinkInv, "apart" \in assumed, Responder
  PROVE  LiveInv' /\ CodesInv' /\ PlacesInv'
<1>0. LiveInv /\ CodesInv /\ PlacesInv /\ CallInv /\ PlaceTypes
  BY TypesSplit DEF LinkInv, TypeInv
<1>t. ASSUME NEW u \in URC, NEW b, Take(u, b)
      PROVE  /\ LossIsLast(air') /\ Holds(air, u)
             /\ \A v : Holds(air', v) => Holds(air, v)
             /\ u # "+BTDISCONN" => (Holds(air', "+BTDISCONN") <=> Holds(air, "+BTDISCONN"))
             /\ u = "+BTDISCONN" => ~Holds(air', "+BTDISCONN") /\ ~Holds(air', "SEND_OK")
  BY <1>0, <1>t, TakeLink
<1>. USE <1>0 DEF LiveInv, CodesInv, PlacesInv, Live, Setting, Gone, Unreadying, CallInv,
                  InCall, phone, shared, tester, GoR
<1>1. ASSUME NEW u \in URC, NEW v, TakeApart(u, "idle"), SetStatus(v), Upset,
             u # "+BTDISCONN"
      PROVE  LiveInv' /\ CodesInv' /\ PlacesInv'
  <2>1. Take(u, "idle") /\ ~InCall
    BY <1>1 DEF TakeApart
  <2>. QED
    BY <1>1, <1>t, <2>1 DEF Take, SetStatus, Upset
<1>2. CASE Pairing \/ Connecting \/ Connected
  BY <1>1, <1>2 DEF Pairing, Connecting, Connected, URC
<1>3. CASE ConnectedHFP
  <2>1. CASE TakeApart("+BTCONNECT_HFP", "again") /\ SetStatus("HFPDISCONN") /\ UNCHANGED answer
    <3>1. Take("+BTCONNECT_HFP", "again") /\ ~InCall
      BY <2>1 DEF TakeApart
    <3>. QED
      BY <1>t, <2>1, <3>1 DEF Take, SetStatus, URC
  <2>2. CASE /\ GoR("again", "idle") /\ SetStatus("SPPCONNECT") /\ Upset /\ UNCHANGED phone
    BY <2>2 DEF SetStatus, Upset
  <2>. QED
    BY <1>3, <2>1, <2>2 DEF ConnectedHFP
<1>4. CASE Disconnected
  <2>1. CASE TakeApart("+BTDISCONN", "unready") /\ SetStatus("DISCONNECTED") /\ UNCHANGED answer
    <3>1. Take("+BTDISCONN", "unready") /\ ~InCall
      BY <2>1 DEF TakeApart
    <3>. QED
      BY <1>t, <2>1, <3>1 DEF Take, SetStatus, URC
  <2>2. CASE GoR("unready", "unready_store") /\ loadR' = machineState
               /\ UNCHANGED <<shared, frame, phone, answer>>
    BY <2>2
  <2>3. CASE /\ GoR("unready_store", "idle")
             /\ machineState' = loadR \ {"BT_RDY"} /\ loadR' = {} /\ Upset
             /\ UNCHANGED <<btStatus, btMsgFrame, dataEvents, frame, phone>>
    BY <2>3 DEF Upset
  <2>. QED
    BY <1>4, <2>1, <2>2, <2>3 DEF Disconnected
<1>5. CASE Frame
  <2>1. CASE /\ Take("+BTSPPDATA", "store")
             /\ UNCHANGED <<machineState, btStatus, dataEvents, loadR, answer>>
    BY <1>t, <2>1 DEF Take, URC
  <2>2. CASE GoR("store", "ready") /\ UNCHANGED <<machineState, btStatus, loadR, phone, answer>>
    BY <2>2
  <2>3. CASE LoadEvents("ready", "ready_store")
    BY <2>3 DEF LoadEvents
  <2>4. CASE StoreEvents("ready_store", "idle", loadR \cup {"RD_RDY"}) /\ UNCHANGED <<phone, answer>>
    BY <2>4 DEF StoreEvents
  <2>. QED
    BY <1>5, <2>1, <2>2, <2>3, <2>4 DEF Frame
<1>6. CASE SendOk
  <2>1. CASE /\ Take("SEND_OK", IF "SENT" \in dataEvents THEN "written" ELSE "idle")
             /\ UNCHANGED <<shared, loadR, frame>>
             /\ IF "SENT" \in dataEvents THEN UNCHANGED answer ELSE Upset
    <3>1. CASE "SENT" \in dataEvents
      <4>1. Take("SEND_OK", "written")
        BY <2>1, <3>1
      <4>. QED
        BY <1>t, <2>1, <3>1, <4>1 DEF Take, URC
    <3>2. CASE "SENT" \notin dataEvents
      <4>1. Take("SEND_OK", "idle")
        BY <2>1, <3>2
      <4>. QED
        BY <1>t, <2>1, <3>2, <4>1 DEF Take, URC, Upset
    <3>. QED
      BY <3>1, <3>2
  <2>2. CASE LoadEvents("written", "written_store") \/ LoadEvents("unsent", "unsent_store")
    BY <2>2 DEF LoadEvents
  <2>3. CASE StoreEvents("written_store", "unsent", loadR \cup {"WR_RDY"})
               /\ UNCHANGED <<phone, answer>>
    BY <2>3 DEF StoreEvents
  <2>4. CASE StoreEvents("unsent_store", "idle", loadR \ {"SENT"}) /\ Upset /\ UNCHANGED phone
    BY <2>4 DEF StoreEvents, Upset
  <2>. QED
    BY <1>6, <2>1, <2>2, <2>3, <2>4 DEF SendOk
<1>7. CASE Prompt
  <2>1. CASE LoadEvents("idle", "sent_store")
    BY <2>1 DEF LoadEvents
  <2>2. CASE /\ StoreEvents("sent_store", "idle", loadR \cup {"SENT"})
             /\ answer' = IF pcT = "call" /\ call = "send" THEN "OK" ELSE answer
             /\ air' = IF link = "up" THEN Append(air, <<"SEND_OK", 0>>) ELSE air
             /\ UNCHANGED <<power, link, frames>>
    <3>1. CASE link = "up"
      <4>1. 0 \in Frames /\ air \in Codes
        BY TypesSplit, BoundsAssumption DEF TypeInv, FrameTypes, Frames
      <4>2. ~Holds(air, "+BTDISCONN")
        BY <3>1
      <4>3. LossIsLast(air') /\ \A v : Holds(air', v) <=> Holds(air, v) \/ v = "SEND_OK"
        BY <2>2, <3>1, <4>1, <4>2, SentCode, SentLoss DEF URC
      <4>. QED
        BY <2>2, <3>1, <4>3 DEF StoreEvents
    <3>2. CASE link # "up"
      BY <2>2, <3>2 DEF StoreEvents
    <3>. QED
      BY <3>1, <3>2
  <2>. QED
    BY <1>7, <2>1, <2>2 DEF Prompt
<1>. QED
  BY <1>2, <1>3, <1>4, <1>5, <1>6, <1>7 DEF Responder

LEMMA PhoneLink ==
  ASSUME TypeInv, LinkInv, "apart" \in assumed,
         Refuse \/ Accept \/ Pair \/ Ask \/ HandsFree \/ Drop \/ Send
  PROVE  LiveInv' /\ CodesInv' /\ PlacesInv'
<1>0. LiveInv /\ CodesInv /\ PlacesInv /\ CallInv /\ PlaceTypes
  BY TypesSplit DEF LinkInv, TypeInv
<1>c. 0 \in Frames /\ air \in Codes /\ frames \in Frames
  BY TypesSplit, BoundsAssumption DEF TypeInv, FrameTypes, Frames
<1>s. ASSUME NEW u \in URC, NEW n \in Frames, air' = Append(air, <<u, n>>),
             link = "up" \/ u \notin {"+BTDISCONN", "SEND_OK"}
      PROVE  LossIsLast(air') /\ \A v : Holds(air', v) <=> Holds(air, v) \/ v = u
  BY <1>0, <1>c, <1>s, SentCode, SentLoss DEF LiveInv, CodesInv, Gone
<1>. USE <1>0 DEF LiveInv, CodesInv, PlacesInv, Live, Setting, Gone, Unreadying, CallInv,
                  InCall, shared, tester, responder
<1>1. CASE Refuse
  BY <1>1 DEF Refuse, phone
<1>2. CASE Accept /\ call = "accept"
  <2>1. LossIsLast(air') /\ \A v : Holds(air', v) <=> Holds(air, v) \/ v = "+BTCONNECT_SPP"
    BY <1>2, <1>c, <1>s DEF Accept, URC
  <2>. QED
    BY <1>2, <2>1 DEF Accept
<1>3. CASE Accept /\ call # "accept"
  BY <1>3 DEF Accept
<1>4. ASSUME NEW from, NEW to, NEW u \in URC, NEW n \in Frames, Acts(from, to, u, n),
             \/ u \notin {"+BTDISCONN", "SEND_OK"} /\ (link = "up" <=> to = "up")
             \/ u = "+BTDISCONN" /\ from = {"up"} /\ to # "up"
      PROVE  LiveInv' /\ CodesInv' /\ PlacesInv'
  <2>1. LossIsLast(air') /\ \A v : Holds(air', v) <=> Holds(air, v) \/ v = u
    BY <1>4, <1>s DEF Acts
  <2>2. CASE u \notin {"+BTDISCONN", "SEND_OK"}
    BY <1>4, <2>1, <2>2 DEF Acts
  <2>3. CASE u = "+BTDISCONN"
    BY <1>4, <2>1, <2>3 DEF Acts
  <2>. QED
    BY <1>4, <2>2, <2>3
<1>5. CASE Pair \/ Ask
  BY <1>4, <1>5, <1>c DEF Pair, Ask, Acts, URC
<1>6. CASE HandsFree
  <2>1. PICK l \in {"paired", "asked", "up"} : Acts({l}, l, "+BTCONNECT_HFP", 0)
    BY <1>6 DEF HandsFree
  <2>2. link = l
    BY <2>1 DEF Acts
  <2>. QED
    BY <1>4, <1>c, <2>1, <2>2 DEF URC
<1>7. CASE Drop
  BY <1>4, <1>7, <1>c DEF Drop, URC
<1>8. CASE Send
  <2>1. frames + 1 \in Frames
    BY <1>c, <1>8, BoundsAssumption DEF Send, Frames
  <2>2. Acts({"up"}, "up", "+BTSPPDATA", frames + 1) /\ link = "up"
    BY <1>8 DEF Send, Acts
  <2>. QED
    BY <1>4, <2>1, <2>2 DEF URC
<1>. QED
  BY <1>1, <1>2, <1>3, <1>5, <1>6, <1>7, <1>8

\* What is assumed of a behaviour is assumed of all of it.
LEMMA AssumedStays == Next => assumed' = assumed
<1>. SUFFICES ASSUME Next PROVE assumed' = assumed
  OBVIOUS
<1>1. CASE Tester
  BY <1>1 DEF Tester, BringUp, Session, Switch, Return, Set, Record, Data, Clear, GoT,
              responder
<1>2. CASE Responder
  BY <1>2 DEF Responder, Pairing, Connecting, Connected, ConnectedHFP, Disconnected, Frame,
              SendOk, Prompt, TakeApart, Take, GoR, LoadEvents, StoreEvents
<1>3. CASE Refuse \/ Accept \/ Pair \/ Ask \/ HandsFree \/ Drop \/ Send
  BY <1>3 DEF Refuse, Accept, Pair, Ask, HandsFree, Drop, Send, Acts, responder
<1>. QED
  BY <1>1, <1>2, <1>3 DEF Next

LEMMA LinkStep == TypeInv /\ LinkInv /\ [Next]_vars => LinkInv'
<1>. SUFFICES ASSUME TypeInv, LinkInv, [Next]_vars, "apart" \in assumed'
              PROVE  LiveInv' /\ CodesInv' /\ PlacesInv'
  BY DEF LinkInv
<1>1. CASE UNCHANGED vars
  BY <1>1 DEF vars, shared, tester, responder, phone, LinkInv, LiveInv, CodesInv, PlacesInv,
              Live, Setting, Gone
<1>2. CASE Next
  BY <1>2, AssumedStays, TesterLink, ResponderLink, PhoneLink DEF Next
<1>. QED
  BY <1>1, <1>2

-------------------------------------------------------------------------------
(* The frames, when no tick cuts the response processor and the phone waits. *)

\* The stages of a frame: under way, being stored, announced, being answered.
Coming == Holds(air, "+BTSPPDATA")
Storing == pcR \in {"store", "ready", "ready_store"}
Announced == "RD_RDY" \in dataEvents
Serving == call = "send" \/ pcT \in {"clear", "clear_store"}
Pending == Coming \/ Storing \/ (Announced /\ ~Serving)

\* At most one frame has not been answered, it is the last one sent, and it is in
\* one stage at a time.
StageInv ==
  /\ OneFrame(air, frames)
  /\ Coming => ~Storing /\ ~Announced
  /\ Storing => ~Announced
  /\ pcT = "parse" => Announced
  /\ Serving => Announced
  /\ pcR \in {"ready_store", "written_store", "unsent_store", "sent_store"}
       => loadR = dataEvents
\* The buffer holds it from the time it is stored.
BufferInv ==
  /\ pcR = "store" => frame = frames
  /\ pcR \in {"ready", "ready_store"} => btMsgFrame = frames
  /\ Announced => btMsgFrame = frames
  /\ pcT = "parse" => begun = frames
\* All frames but that one have been read.
ReadInv ==
  /\ Pending => Len(served) + 1 = frames
  /\ ~Pending => Len(served) = frames
  /\ \A k \in 1..Len(served) : served[k] = <<k, k>>
FrameInv ==
  {"whole", "waits"} \subseteq assumed => StageInv /\ BufferInv /\ ReadInv

LEMMA InitFrame == Init => FrameInv
<1>. SUFFICES ASSUME Init PROVE StageInv /\ BufferInv /\ ReadInv
  BY DEF FrameInv
<1>. USE DEF Init
<1>1. Len(air) = 0 /\ Len(served) = 0
  OBVIOUS
<1>2. OneFrame(air, frames) /\ ~Coming
  BY <1>1 DEF OneFrame, Coming, Holds
<1>3. ~Storing /\ ~Announced /\ ~Serving
  BY DEF Storing, Announced, Serving
<1>4. StageInv /\ BufferInv
  BY <1>2, <1>3 DEF StageInv, BufferInv
<1>5. ReadInv
  BY <1>1, <1>2, <1>3 DEF ReadInv, Pending
<1>. QED
  BY <1>4, <1>5

LEMMA ReadOne ==
  ASSUME TypeInv, ReadInv, Pending, served' = Append(served, <<frames, frames>>)
  PROVE  Len(served') = frames /\ \A k \in 1..Len(served') : served'[k] = <<k, k>>
<1>1. frames \in Frames /\ served \in Seq(Frames \X Frames) /\ Len(served) + 1 = frames
  BY TypesSplit DEF TypeInv, FrameTypes, ReadInv
<1>2. <<frames, frames>> \in Frames \X Frames
  BY <1>1
<1>3. Len(served') = frames
  BY <1>1, <1>2, AppendElements
<1>4. ASSUME NEW k \in 1..Len(served') PROVE served'[k] = <<k, k>>
  <2>1. CASE k \in 1..Len(served)
    BY <1>1, <1>2, <2>1, AppendElements DEF ReadInv
  <2>2. CASE k = Len(served) + 1
    BY <1>1, <1>2, <2>2, AppendElements
  <2>. QED
    BY <1>1, <1>2, <1>4, <2>1, <2>2, AppendElements
<1>. QED
  BY <1>3, <1>4

LEMMA TesterFrame ==
  ASSUME TypeInv, FrameInv, {"whole", "waits"} \subseteq assumed, Tester
  PROVE  StageInv' /\ BufferInv' /\ ReadInv'
<1>0. StageInv /\ BufferInv /\ ReadInv /\ CallInv /\ PlaceTypes
  BY TypesSplit DEF FrameInv, TypeInv
<1>. USE <1>0 DEF StageInv, BufferInv, ReadInv, Pending, Coming, Storing, Announced, Serving,
                  CallInv, InCall, responder, phone, shared
<1>1. ASSUME NEW s \in DOMAIN Needs, BringUp(s) PROVE StageInv' /\ BufferInv' /\ ReadInv'
  BY <1>1, Tables DEF BringUp, GoT
<1>2. CASE Session
  BY <1>2 DEF Session, GoT
<1>3. CASE Switch
  BY <1>3, Tables DEF Switch, GoT
<1>4. CASE Return
  BY <1>4, Tables DEF Return, GoT, Place, PlaceTypes
<1>5. CASE Set
  BY <1>5, Tables DEF Set, GoT, Place
<1>6. CASE Record
  BY <1>6 DEF Record, GoT
<1>7. CASE Data
  <2>1. CASE GoT("data", IF "RD_RDY" \in dataEvents THEN "parse" ELSE "modem")
    BY <1>7, <2>1 DEF Data, GoT
  <2>2. CASE GoT("parse", "call")
    <3>1. /\ call' = "send" /\ UNCHANGED <<shared, loadT, answer>>
          /\ served' = IF Len(served) > frames THEN served
                       ELSE Append(served, <<begun, btMsgFrame>>)
      BY <1>7, <2>2 DEF Data, GoT
    <3>2. Announced /\ begun = frames /\ btMsgFrame = frames /\ Pending
      BY <2>2 DEF GoT
    <3>3. Len(served) + 1 = frames /\ frames \in Nat /\ Len(served) \in Nat
      BY <3>2, TypesSplit, BoundsAssumption DEF TypeInv, FrameTypes, Frames
    <3>4. served' = Append(served, <<frames, frames>>)
      BY <3>1, <3>2, <3>3
    <3>5. Len(served') = frames /\ \A k \in 1..Len(served') : served'[k] = <<k, k>>
      BY <3>2, <3>4, ReadOne
    <3>6. ~Pending' /\ frames' = frames
      BY <2>2, <3>1, <3>2 DEF GoT
    <3>7. ReadInv'
      BY <3>5, <3>6
    <3>. QED
      BY <2>2, <3>1, <3>2, <3>7 DEF GoT
  <2>. QED
    BY <1>7, <2>1, <2>2 DEF Data
<1>8. CASE Clear
  BY <1>8 DEF Clear, GoT
<1>. QED
  BY <1>1, <1>2, <1>3, <1>4, <1>5, <1>6, <1>7, <1>8 DEF Tester

LEMMA ResponderFrame ==
  ASSUME TypeInv, FrameInv, {"whole", "waits"} \subseteq assumed, Responder
  PROVE  StageInv' /\ BufferInv' /\ ReadInv'
<1>0. StageInv /\ BufferInv /\ ReadInv /\ CallInv /\ PlaceTypes
  BY TypesSplit DEF FrameInv, TypeInv
<1>c. air \in Codes
  BY TypesSplit DEF TypeInv, FrameTypes
<1>t. ASSUME NEW u \in URC, NEW b, Take(u, b)
      PROVE  /\ OneFrame(air', frames) /\ Holds(air, u)
             /\ u # "+BTSPPDATA" => (Holds(air', "+BTSPPDATA") <=> Holds(air, "+BTSPPDATA"))
             /\ u = "+BTSPPDATA" => ~Holds(air', "+BTSPPDATA") /\ Head(air)[2] = frames
  <2>1. air # <<>> /\ Head(air)[1] = u /\ air' = Tail(air)
    BY <1>t DEF Take
  <2>. QED
    BY <1>0, <1>c, <2>1, TakenCode, TakenFrame DEF StageInv
<1>. USE <1>0 DEF StageInv, BufferInv, ReadInv, Pending, Coming, Storing, Announced, Serving,
                  CallInv, InCall, phone, shared, tester, GoR
<1>1. ASSUME NEW u \in URC, NEW b \in {"idle", "again", "unready", "written"}, Take(u, b),
             u # "+BTSPPDATA", UNCHANGED <<btMsgFrame, dataEvents, loadR, frame>>
      PROVE  StageInv' /\ BufferInv' /\ ReadInv'
  BY <1>1, <1>t DEF Take
<1>2. CASE Pairing \/ Connecting \/ Connected
  BY <1>1, <1>2 DEF Pairing, Connecting, Connected, TakeApart, SetStatus, URC
<1>3. CASE ConnectedHFP
  <2>1. CASE TakeApart("+BTCONNECT_HFP", "again") /\ SetStatus("HFPDISCONN")
    BY <1>1, <2>1 DEF TakeApart, SetStatus, URC
  <2>2. CASE GoR("again", "idle") /\ SetStatus("SPPCONNECT") /\ UNCHANGED phone
    BY <2>2 DEF SetStatus
  <2>. QED
    BY <1>3, <2>1, <2>2 DEF ConnectedHFP
<1>4. CASE Disconnected
  <2>1. CASE TakeApart("+BTDISCONN", "unready") /\ SetStatus("DISCONNECTED")
    BY <1>1, <2>1 DEF TakeApart, SetStatus, URC
  <2>2. CASE GoR("unready", "unready_store") /\ loadR' = machineState
               /\ UNCHANGED <<shared, frame, phone, answer>>
    BY <2>2
  <2>3. CASE GoR("unready_store", "idle")
               /\ UNCHANGED <<btStatus, btMsgFrame, dataEvents, frame, phone>>
    BY <2>3
  <2>. QED
    BY <1>4, <2>1, <2>2, <2>3 DEF Disconnected
<1>5. CASE Frame
  <2>1. CASE /\ Take("+BTSPPDATA", "store") /\ btMsgFrame' = 0 /\ frame' = Head(air)[2]
             /\ UNCHANGED <<machineState, btStatus, dataEvents, loadR, answer>>
    BY <1>t, <2>1 DEF Take, URC
  <2>2. CASE /\ GoR("store", "ready") /\ btMsgFrame' = frame /\ frame' = 0
             /\ UNCHANGED <<machineState, btStatus, dataEvents, loadR, phone, answer>>
    BY <2>2
  <2>3. CASE LoadEvents("ready", "ready_store")
    BY <2>3 DEF LoadEvents
  <2>4. CASE /\ StoreEvents("ready_store", "idle", loadR \cup {"RD_RDY"})
             /\ UNCHANGED <<phone, answer>>
    BY <2>4 DEF StoreEvents
  <2>. QED
    BY <1>5, <2>1, <2>2, <2>3, <2>4 DEF Frame
<1>6. CASE SendOk
  <2>1. CASE /\ Take("SEND_OK", IF "SENT" \in dataEvents THEN "written" ELSE "idle")
             /\ UNCHANGED <<shared, loadR, frame>>
    <3>1. PICK b \in {"idle", "written"} : Take("SEND_OK", b)
      BY <2>1
    <3>. QED
      BY <1>1, <2>1, <3>1 DEF URC
  <2>2. CASE LoadEvents("written", "written_store") \/ LoadEvents("unsent", "unsent_store")
    BY <2>2 DEF LoadEvents
  <2>3. CASE /\ StoreEvents("written_store", "unsent", loadR \cup {"WR_RDY"})
             /\ UNCHANGED <<phone, answer>>
    BY <2>3 DEF StoreEvents
  <2>4. CASE StoreEvents("unsent_store", "idle", loadR \ {"SENT"}) /\ UNCHANGED phone
    BY <2>4 DEF StoreEvents
  <2>. QED
    BY <1>6, <2>1, <2>2, <2>3, <2>4 DEF SendOk
<1>7. CASE Prompt
  <2>1. CASE LoadEvents("idle", "sent_store")
    BY <2>1 DEF LoadEvents
  <2>2. CASE /\ StoreEvents("sent_store", "idle", loadR \cup {"SENT"})
             /\ air' = IF link = "up" THEN Append(air, <<"SEND_OK", 0>>) ELSE air
             /\ UNCHANGED <<power, link, frames>>
    <3>1. CASE link = "up"
      <4>1. 0 \in Frames
        BY BoundsAssumption DEF Frames
      <4>2. OneFrame(air', frames) /\ (Holds(air', "+BTSPPDATA") <=> Holds(air, "+BTSPPDATA"))
        BY <1>c, <2>2, <3>1, <4>1, SentCode, SentFrame DEF URC
      <4>. QED
        BY <2>2, <4>2 DEF StoreEvents
    <3>2. CASE link # "up"
      BY <2>2, <3>2 DEF StoreEvents
    <3>. QED
      BY <3>1, <3>2
  <2>. QED
    BY <1>7, <2>1, <2>2 DEF Prompt
<1>. QED
  BY <1>2, <1>3, <1>4, <1>5, <1>6, <1>7 DEF Responder

LEMMA PhoneFrame ==
  ASSUME TypeInv, FrameInv, {"whole", "waits"} \subseteq assumed,
         Refuse \/ Accept \/ Pair \/ Ask \/ HandsFree \/ Drop \/ Send
  PROVE  StageInv' /\ BufferInv' /\ ReadInv'
<1>0. StageInv /\ BufferInv /\ ReadInv
  BY DEF FrameInv
<1>c. 0 \in Frames /\ air \in Codes /\ frames \in Frames
  BY TypesSplit, BoundsAssumption DEF TypeInv, FrameTypes, Frames
<1>. USE <1>0 DEF StageInv, BufferInv, ReadInv, Pending, Coming, Storing, Announced, Serving,
                  shared, tester, responder
<1>s. ASSUME NEW u \in URC, u # "+BTSPPDATA", air' = Append(air, <<u, 0>>),
             UNCHANGED <<shared, tester, responder, frames, served>>
      PROVE  StageInv' /\ BufferInv' /\ ReadInv'
  <2>1. OneFrame(air', frames) /\ (Holds(air', "+BTSPPDATA") <=> Holds(air, "+BTSPPDATA"))
    BY <1>c, <1>s, SentCode, SentFrame
  <2>. QED
    BY <1>s, <2>1
<1>1. CASE Refuse \/ (Accept /\ call # "accept")
  BY <1>1 DEF Refuse, Accept, phone
<1>2. CASE Accept /\ call = "accept"
  BY <1>2, <1>s DEF Accept, URC
<1>3. CASE Pair \/ Ask \/ HandsFree \/ Drop
  BY <1>3, <1>s DEF Pair, Ask, HandsFree, Drop, Acts, URC
<1>4. CASE Send
  <2>1. frames + 1 \in Frames /\ frames \in Nat
    BY <1>c, <1>4, BoundsAssumption DEF Send, Frames
  <2>2. ~Unhandled /\ air' = Append(air, <<"+BTSPPDATA", frames + 1>>) /\ frames' = frames + 1
        /\ UNCHANGED <<shared, tester, responder, answer, served>>
    BY <1>4 DEF Send, Acts
  <2>3. ~Coming
    BY <2>2 DEF Unhandled, Holds, OneFrame
  <2>4. ~Storing /\ ~Announced /\ ~Serving /\ pcT # "parse" /\ pcR = "idle"
    BY <2>2 DEF Unhandled
  <2>5. OneFrame(air', frames') /\ Holds(air', "+BTSPPDATA")
    BY <1>c, <2>1, <2>2, <2>3, SentCode, SentFrame DEF URC
  <2>6. Pending' /\ ~Pending
    BY <2>3, <2>4, <2>5
  <2>7. ReadInv'
    BY <2>1, <2>2, <2>6
  <2>. QED
    BY <2>2, <2>4, <2>5, <2>7
<1>. QED
  BY <1>1, <1>2, <1>3, <1>4

LEMMA FrameStep == TypeInv /\ FrameInv /\ [Next]_vars => FrameInv'
<1>. SUFFICES ASSUME TypeInv, FrameInv, [Next]_vars, ({"whole", "waits"} \subseteq assumed)'
              PROVE  StageInv' /\ BufferInv' /\ ReadInv'
  BY DEF FrameInv
<1>1. CASE UNCHANGED vars
  BY <1>1 DEF vars, shared, tester, responder, phone, FrameInv, StageInv, BufferInv, ReadInv,
              Pending, Coming, Storing, Announced, Serving
<1>2. CASE Next
  BY <1>2, AssumedStays, TesterFrame, ResponderFrame, PhoneFrame DEF Next
<1>. QED
  BY <1>1, <1>2
-------------------------------------------------------------------------------
\* The threads, the link and the frames stay in step.
BtInv == TypeInv /\ LinkInv /\ FrameInv

THEOREM BtSessionInvariant == Spec => []BtInv
<1>1. Init => BtInv
  BY InitTypes, InitLink, InitFrame DEF BtInv
<1>2. BtInv /\ [Next]_vars => BtInv'
  BY TypeStep, LinkStep, FrameStep DEF BtInv
<1>. QED
  BY <1>1, <1>2, PTL DEF Spec

\* Every variable of the session keeps its type: no byte gets a bit that is not
\* its own, and no thread waits for a call it has not made.
THEOREM BtSessionTypes == Spec => []TypeOK
<1>1. BtInv => TypeOK
  BY DEF BtInv, TypeInv
<1>. QED
  BY <1>1, BtSessionInvariant, PTL

\* BT_RDY says whether the phone is connected once all is quiet, whatever the
\* number of codes under way: the read-modify-writes of machineState by
\* yutu_fw_bt_disconnect and by the tester lose nothing.
THEOREM ReadySaysConnected == Spec => []ReadyIsConnected
<1>1. BtInv => ReadyIsConnected
  <2>. SUFFICES ASSUME BtInv, "apart" \in assumed, air = <<>>, pcR = "idle", ~InCall
                PROVE  "BT_RDY" \in machineState <=> link = "up"
    BY DEF ReadyIsConnected, Under
  <2>1. ~Gone
    BY DEF Gone, Unreadying, Holds
  <2>2. ~Setting
    BY DEF Setting, BtInv, TypeInv, CallInv, InCall
  <2>. QED
    BY <2>1, <2>2 DEF BtInv, LinkInv, LiveInv, Live
<1>. QED
  BY <1>1, BtSessionInvariant, PTL

\* The frames are read once each, whole and in order, for any number of them.
THEOREM FramesAreServedInOrder == Spec => []ServedInOrder
<1>1. BtInv => ServedInOrder
  <2>. SUFFICES ASSUME BtInv, {"whole", "waits"} \subseteq assumed
                PROVE  /\ Len(served) <= frames
                       /\ \A k \in 1..Len(served) : served[k] = <<k, k>>
    BY DEF ServedInOrder, Under
  <2>1. Len(served) \in Nat /\ frames \in Nat
    BY TypesSplit, BoundsAssumption DEF BtInv, TypeInv, FrameTypes, Frames
  <2>. QED
    BY <2>1 DEF BtInv, FrameInv, ReadInv
<1>. QED
  BY <1>1, BtSessionInvariant, PTL

================================================================================
