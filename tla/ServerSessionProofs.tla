-------------------------- MODULE ServerSessionProofs --------------------------
(***************************************************************************)
(* Proof that the session takes only steps of the AT engine, so that every *)
(* theorem about the engine holds in it, that the bits of machineState say *)
(* what the modem has told, and that a packet that leaves reads as it was  *)
(* asked for and is stored inside the frame.                               *)
(***************************************************************************)
EXTENDS ServerSession, AtEngineProofs, WellFoundedInduction

\* What a callback returns is one of the four results the response processor knows.
LEMMA KnownResult ==
  ASSUME TypeOK, NEW ret, RspTaken(ret)
  PROVE  ret \in {"ERROR", "CONTINUE", "FINISH", "WAIT"}
<1>1. CurrentSlot \in Slot
  BY DEF TypeOK, QueueTypeOK, CurrentSlot
<1>2. CurrentSlot.rspFunc \in RspFunc
  BY <1>1 DEF RspTaken, Slot
<1>3. ret \in Rsp \ {"FUN_OVER"}
  BY <1>2, RspOfAssumption DEF RspTaken
<1>. QED
  BY <1>3 DEF Rsp

\* A step of the session is one of the engine, or leaves the engine alone.
LEMMA EngineStep ==
  ASSUME TypeOK, [SNext]_svars PROVE [Next]_vars
<1>1. ASSUME NEW f \in Function, Begin(f) PROVE [Next]_vars
  <2>1. Batch[f] \in Batches
    BY SessionAssumption
  <2>2. Call(Batch[f])
    BY <1>1 DEF Begin
  <2>. QED
    BY <2>1, <2>2 DEF Next, Tester
<1>2. CASE Fill \/ Finish
  BY <1>2 DEF Fill, Finish, Next, Tester, Proceed
<1>3. CASE Request \/ Configure
  BY <1>3 DEF Request, Configure, Asks
<1>4. CASE Execute \/ Wait
  BY <1>4 DEF Execute, Wait, Next, Dispatcher
<1>5. CASE Message
  <2>1. CASE Answered(LeftOf(urcQueue, Head(air)))
    <3>1. PICK ret : Taken(ret)
      BY <2>1 DEF Answered
    <3>2. RspRetry \/ RspAbandon \/ RspWait \/ RspAccept(ret)
      BY <3>1 DEF Taken
    <3>3. ASSUME RspAccept(ret), ~(RspRetry \/ RspAbandon \/ RspWait)
          PROVE  ret \in {"CONTINUE", "FINISH"}
      <4>1. ret # "ERROR" /\ ret # "WAIT"
        BY <3>1, <3>3 DEF Taken
      <4>. QED
        BY <3>3, <4>1, KnownResult DEF RspAccept
    <3>. QED
      BY <3>2, <3>3 DEF Next, Responder
  <2>2. CASE Ignored
    BY <2>2 DEF Ignored
  <2>. QED
    BY <1>5, <2>1, <2>2 DEF Message
<1>6. CASE Modem
  <2>1. UNCHANGED vars
    BY <1>6 DEF Modem, AnswerPlain, AnswerCpin, AnswerCreg, AnswerAddress, AnswerConnect,
       AnswerSend, Connects, Drops, Receives, Short, Answers, ModemOnly
  <2>. QED
    BY <2>1
<1>7. CASE UNCHANGED svars
  BY <1>7 DEF svars
<1>. QED
  BY <1>1, <1>2, <1>3, <1>4, <1>5, <1>6, <1>7 DEF SNext

\* The session is a behaviour of the engine: no callback, function of the firmware or
\* answer of this modem makes a step that AtEngine does not know.
THEOREM SessionIsEngine == SSpec => Spec
<1>1. SInit => Init
  BY DEF SInit
<1>2. IInv => TypeOK
  BY DEF IInv
<1>3. IInv /\ [SNext]_svars => [Next]_vars
  BY <1>2, EngineStep
<1>4. SSpec => []IInv
  BY <1>1, <1>3, InitIInv, Inductive, PTL DEF SSpec
<1>. QED
  BY <1>1, <1>3, <1>4, PTL DEF SSpec, Spec

\* What a call promises holds in the session, with the answers of this modem.
THEOREM SessionImplementsFifo == SSpec => ImplementsFifo
BY SessionIsEngine, EngineImplementsFifo, PTL
-------------------------------------------------------------------------------
(* What the callbacks find in a message. *)

LEMMA LeastNat ==
  ASSUME NEW S \in SUBSET Nat, S # {}
  PROVE  \E x \in S : \A y \in S : x <= y
<1>1. PICK x \in S : \A y \in S : ~(<<y, x>> \in OpToRel(<, Nat))
  BY NatLessThanWellFounded, WFMin
<1>2. \A y \in S : ~(y < x)
  BY <1>1 DEF OpToRel
<1>. QED
  BY <1>2

LEMMA Greatest ==
  ASSUME NEW n \in Nat, NEW S \in SUBSET (1..n), S # {}
  PROVE  \E x \in S : \A y \in S : y <= x
<1> DEFINE Rest == {n - x : x \in S}
<1>1. Rest \in SUBSET Nat /\ Rest # {}
  <2>1. \A x \in S : n - x \in Nat
    OBVIOUS
  <2>. QED
    BY <2>1
<1>2. PICK r \in Rest : \A q \in Rest : r <= q
  BY <1>1, LeastNat
<1>3. PICK x \in S : r = n - x
  OBVIOUS
<1>4. \A y \in S : n - x <= n - y
  BY <1>2, <1>3
<1>. QED
  BY <1>4

\* The entry that decides starts at some line of the message.
LEMMA Decides ==
  ASSUME NEW table, NEW msg, Len(table) \in Nat, Len(msg) \in Nat, RspType(table, msg) # 0
  PROVE  \E k \in 1..Len(msg) : /\ RspType(table, msg) \in 1..Len(table)
                                /\ StartsAt(table[RspType(table, msg)], msg, k)
<1> DEFINE H == Hits(table, msg)
           Last(h) == \A g \in H : g[1] <= h[1]
<1>1. \A h \in H : /\ h[1] \in 1..Len(msg) /\ h[2] \in 1..Len(table)
                   /\ StartsAt(table[h[2]], msg, h[1])
  BY DEF Hits
<1>2. H # {} /\ RspType(table, msg) = (CHOOSE h \in H : Last(h))[2]
  BY DEF RspType
<1> HIDE DEF H
<1>3. \E h \in H : Last(h)
  <2>1. {h[1] : h \in H} \in SUBSET (1..Len(msg)) /\ {h[1] : h \in H} # {}
    BY <1>1, <1>2
  <2>2. PICK x \in {h[1] : h \in H} : \A y \in {h[1] : h \in H} : y <= x
    BY <2>1, Greatest
  <2>. QED
    BY <2>2
<1>4. (CHOOSE h \in H : Last(h)) \in H
  BY <1>3
<1>. QED
  BY <1>1, <1>2, <1>4

LEMMA FirstQuotedFacts ==
  ASSUME NEW msg, Len(msg) \in Nat, Quoted(msg) # {}
  PROVE  \E k \in 1..Len(msg) : FirstQuoted(msg) = msg[k].carries /\ msg[k].carries # ""
<1>1. \A k \in Quoted(msg) : k \in 1..Len(msg) /\ msg[k].carries # ""
  BY DEF Quoted
<1>2. \E k \in Quoted(msg) : \A j \in Quoted(msg) : k <= j
  <2>1. 1..Len(msg) \subseteq Nat
    OBVIOUS
  <2>2. Quoted(msg) \in SUBSET Nat
    BY <1>1, <2>1, Zenon
  <2>. QED
    BY <2>2, LeastNat
<1>. QED
  BY <1>1, <1>2 DEF FirstQuoted

LEMMA StartsFacts ==
  ASSUME NEW entry, Len(entry) \in Nat, NEW msg, Len(msg) \in Nat, NEW k \in 1..Len(msg),
         StartsAt(entry, msg, k), NEW j \in 1..Len(entry)
  PROVE  k + j - 1 \in 1..Len(msg) /\ msg[k + j - 1].says = entry[j]
BY SMTT(20) DEF StartsAt

LEMMA CregTold ==
  ASSUME NEW msg, Len(msg) \in Nat, CregRsp(msg) # "ERROR"
  PROVE  \E k \in 1..Len(msg) : msg[k].says \in {"+CREG: 0,1", "+CREG: 0,5"}
<1> DEFINE table == <<<<"+CREG: 0,1">>, <<"+CREG: 0,5">>, <<"ERROR">>>>
           rsp == <<"FINISH", "FINISH", "ERROR">>
           t == RspType(table, msg)
<1>1. Len(table) = 3
  OBVIOUS
<1>2. table[1] = <<"+CREG: 0,1">> /\ table[2] = <<"+CREG: 0,5">>
  OBVIOUS
<1>3. rsp[3] = "ERROR"
  OBVIOUS
<1>4. CregRsp(msg) = IF t = 0 THEN "ERROR" ELSE rsp[t]
  BY DEF CregRsp, Told
<1> HIDE DEF table, rsp
<1>5. t # 0 /\ t # 3
  BY <1>3, <1>4
<1>6. PICK k \in 1..Len(msg) : t \in 1..3 /\ StartsAt(table[t], msg, k)
  BY <1>1, <1>5, Decides
<1>7. t = 1 \/ t = 2
  BY <1>5, <1>6
<1>8. ASSUME NEW w, StartsAt(<<w>>, msg, k) PROVE msg[k].says = w
  <2>1. Len(<<w>>) = 1 /\ <<w>>[1] = w /\ k + 1 - 1 = k
    OBVIOUS
  <2>. QED
    BY <1>8, <2>1, StartsFacts
<1>. QED
  BY <1>2, <1>6, <1>7, <1>8

LEMMA AddressTold ==
  ASSUME NEW msg, Len(msg) \in Nat
  PROVE  /\ IpRsp(msg) # "ERROR" => RspType(HasAddress, msg) = 1
         /\ RspType(HasAddress, msg) = 1 =>
              \E k \in 1..Len(msg) : msg[k].says = "+SAPBR: 1,1,"
<1> DEFINE t == RspType(HasAddress, msg)
           rsp == <<"FINISH", "ERROR", "ERROR">>
           entry == <<"+SAPBR: 1,1,">>
<1>8. Len(HasAddress) = 3
  BY DEF HasAddress
<1>1. HasAddress[1] = entry /\ entry[1] = "+SAPBR: 1,1,"
  BY DEF HasAddress
<1>2. 1 \in 1..Len(entry) /\ Len(entry) \in Nat
  OBVIOUS
<1> HIDE DEF entry
<1>3. rsp[2] = "ERROR" /\ rsp[3] = "ERROR"
  OBVIOUS
<1>4. IpRsp(msg) = IF t = 0 THEN "ERROR" ELSE rsp[t]
  BY DEF IpRsp, Told
<1> HIDE DEF rsp
<1>5. ASSUME t # 0
      PROVE  \E k \in 1..Len(msg) : t \in 1..3 /\ StartsAt(HasAddress[t], msg, k)
  BY <1>8, <1>5, Decides
<1> HIDE DEF t
<1>6. IpRsp(msg) # "ERROR" => t = 1
  BY <1>3, <1>4, <1>5
<1>7. ASSUME t = 1 PROVE \E k \in 1..Len(msg) : msg[k].says = "+SAPBR: 1,1,"
  <2>1. t # 0
    BY <1>7
  <2>2. PICK k \in 1..Len(msg) : StartsAt(entry, msg, k)
    BY <1>1, <1>5, <1>7, <2>1
  <2>3. k + 1 - 1 \in 1..Len(msg) /\ msg[k + 1 - 1].says = entry[1]
    BY <1>2, <2>2, StartsFacts
  <2>. QED
    BY <1>1, <2>3, Zenon
<1>. QED
  BY <1>6, <1>7 DEF t

LEMMA ConnectTold ==
  ASSUME NEW msg, Len(msg) \in Nat, ConnectRsp(msg) \notin {"ERROR", "WAIT"}
  PROVE  \E k \in 1..Len(msg) : msg[k].says \in {"CONNECT OK", "ALREADY CONNECT"}
<1> DEFINE table == <<<<"OK">>, <<"ERROR", "ALREADY CONNECT">>, <<"CONNECT OK">>,
                      <<"STATE: IP STATUS", "CONNECT FAIL">>>>
           rsp == <<"WAIT", "FINISH", "FINISH", "ERROR">>
           t == RspType(table, msg)
<1>1. Len(table) = 4
  OBVIOUS
<1>2. table[2] = <<"ERROR", "ALREADY CONNECT">> /\ table[3] = <<"CONNECT OK">>
  OBVIOUS
<1>3. rsp[1] = "WAIT" /\ rsp[4] = "ERROR"
  OBVIOUS
<1>4. ConnectRsp(msg) = IF t = 0 THEN "ERROR" ELSE rsp[t]
  BY DEF ConnectRsp, Told
<1> HIDE DEF table, rsp
<1>5. t # 0 /\ t # 1 /\ t # 4
  BY <1>3, <1>4
<1>6. PICK k \in 1..Len(msg) : t \in 1..4 /\ StartsAt(table[t], msg, k)
  BY <1>1, <1>5, Decides
<1>7. CASE t = 2
  <2> DEFINE entry == <<"ERROR", "ALREADY CONNECT">>
  <2>1. StartsAt(entry, msg, k)
    BY <1>2, <1>6, <1>7
  <2>2. 2 \in 1..Len(entry) /\ Len(entry) \in Nat
    OBVIOUS
  <2>3. entry[2] = "ALREADY CONNECT"
    OBVIOUS
  <2> HIDE DEF entry
  <2>4. k + 2 - 1 \in 1..Len(msg) /\ msg[k + 2 - 1].says = entry[2]
    BY <2>1, <2>2, StartsFacts
  <2>. QED
    BY <2>3, <2>4, Zenon
<1>8. CASE t = 3
  <2> DEFINE entry == <<"CONNECT OK">>
  <2>1. StartsAt(entry, msg, k)
    BY <1>2, <1>6, <1>8
  <2>2. 1 \in 1..Len(entry) /\ Len(entry) \in Nat
    OBVIOUS
  <2>3. entry[1] = "CONNECT OK"
    OBVIOUS
  <2> HIDE DEF entry
  <2>4. k + 1 - 1 \in 1..Len(msg) /\ msg[k + 1 - 1].says = entry[1]
    BY <2>1, <2>2, StartsFacts
  <2>. QED
    BY <2>3, <2>4, Zenon
<1>9. t = 2 \/ t = 3
  BY <1>5, <1>6
<1>. QED
  BY <1>7, <1>8, <1>9

-------------------------------------------------------------------------------
(* The invariant. *)

\* The commands whose acceptance sets a bit, and the lines that answer them.
RegistrationCmd == "CREG?"
AddressCmd == "SAPBR=2,1"
ConnectCmd == "CIPSTART"
TellsRegistered(l) == l.says \in {"+CREG: 0,1", "+CREG: 0,5"}
TellsAddress(l) == l.says = "+SAPBR: 1,1,"
TellsConnected(l) == l.says \in {"CONNECT OK", "ALREADY CONNECT"}
Closes(m) == First(m, "CLOSED")

Lines(msg) == {msg[i] : i \in 1..Len(msg)}
Said == {"OK", "ERROR", "+CPIN: READY", "+CPIN: NOT READY", "+CREG: 0,1", "+CREG: 0,5",
         "+CREG: 0,2", "+SAPBR: 1,1,", "+SAPBR: 1,3,", "ALREADY CONNECT", "CONNECT OK",
         "STATE: IP STATUS", "CONNECT FAIL", ">", "CLOSED", "RECV FROM:", "+CMTI: "}
\* What a line carries; data comes behind RECV FROM: only.
Carried == Addresses \cup Payloads \cup {"", "0.0.0.0"}
AnyLine == {l \in [says : Said, carries : Carried] : l.says = "RECV FROM:" => l.carries \in Payloads}
\* The connection is there, or a message behind the k-th tells that it is not.
UpBehind(k) == link = "up" \/ \E j \in (k + 1)..Len(air) : Closes(air[j])

\* What a line under way says is true: it was when it was sent, and what has changed
\* since is told behind it.
LineTrue(l, k) ==
  /\ TellsRegistered(l) => "registered" \in told
  /\ TellsAddress(l) => l.carries # ""
  /\ l.carries # "" => l.carries \in told \/ "GPRS_RDY" \in machineState
  /\ TellsConnected(l) => unheard \/ UpBehind(k)
AirTypeOK == air \in Seq(Seq(AnyLine))
AirTrue == \A k \in 1..Len(air) : \A l \in Lines(air[k]) : LineTrue(l, k)
AirInv == AirTypeOK /\ AirTrue

\* The last command of each function has the callback that reads its answer, and
\* only that function queues it.
GoalCmd == [modem |-> RegistrationCmd, gprs |-> AddressCmd, connect |-> ConnectCmd,
            send |-> "CIPSEND"]
Fits(s, f) == /\ s.atCmd = RegistrationCmd => s.rspFunc = "creg"
              /\ s.atCmd = AddressCmd => s.rspFunc = "ipaddr"
              /\ s.atCmd = ConnectCmd => s.rspFunc = "connect" /\ f = "connect"
              /\ s.rspFunc = "ipaddr" => f = "gprs"
SlotsFit == \A i \in Index : Fits(atCmdQueue[i], doing)
BatchFit == \A k \in 1..Len(batch) : Fits(batch[k], doing)
DoingInv == caller # "idle" => doing \in Function /\ goal.atCmd = GoalCmd[doing]
CallInv == SlotsFit /\ BatchFit /\ DoingInv

\* What was accepted, and the bits it sets, was told; in which state of the session
\* each function runs.
MayBeUp == \/ "SERVER_RDY" \in machineState
           \/ doing = "connect" /\ ConnectCmd \in accepted
RegisteredInv == RegistrationCmd \in accepted \/ "MDM_RDY" \in machineState =>
                   "registered" \in told
AddressInv == AddressCmd \in accepted \/ "GPRS_RDY" \in machineState => ip_address \in told
UpInv == MayBeUp => unheard \/ UpBehind(0)
OrderInv == /\ doing = "gprs" => "GPRS_RDY" \notin machineState
            /\ doing = "connect" => "MDM_RDY" \in machineState /\ "GPRS_RDY" \in machineState
            /\ "SERVER_RDY" \in machineState => "MDM_RDY" \in machineState
            /\ doing = "modem" \/ "MDM_RDY" \in machineState => urcQueue = UrcTable
            /\ link # "down" \/ command = ConnectCmd => "GPRS_RDY" \in machineState

SessionInv == AirInv /\ CallInv /\ RegisteredInv /\ AddressInv /\ UpInv /\ OrderInv

-------------------------------------------------------------------------------
(* The commands: those of a call are the ones its function lists. *)

LEMMA Functions ==
  /\ Function = {"modem", "gprs", "connect", "send"}
  /\ Batch["modem"] = GsmGprsInit /\ Batch["gprs"] = GprsOn
  /\ Batch["connect"] = ConnectServer /\ Batch["send"] = SendGprsData
  /\ GoalCmd["modem"] = RegistrationCmd /\ GoalCmd["gprs"] = AddressCmd
  /\ GoalCmd["connect"] = ConnectCmd /\ GoalCmd["send"] = "CIPSEND"
BY DEF Function, Batch, GoalCmd

LEMMA FitsFacts ==
  ASSUME NEW s, NEW f,
         s.atCmd = RegistrationCmd => s.rspFunc = "creg",
         s.atCmd = AddressCmd => s.rspFunc = "ipaddr",
         s.atCmd = ConnectCmd => s.rspFunc = "connect" /\ f = "connect",
         s.rspFunc = "ipaddr" => f = "gprs"
  PROVE  Fits(s, f)
BY Zenon DEF Fits

LEMMA CommandIs ==
  ASSUME NEW cmd, NEW func, NEW rep, NEW delay, NEW status, NEW s,
         s = C(cmd, func, rep, delay, status)
  PROVE  s.atCmd = cmd /\ s.rspFunc = func
BY DEF C

LEMMA NoFuncIsNone ==
  NoFunc # "default" /\ NoFunc # "cpin" /\ NoFunc # "creg" /\ NoFunc # "ipaddr"
    /\ NoFunc # "connect" /\ NoFunc # "send"
BY SessionAssumption, NamesAssumption

\* A list of at most four commands.
LEMMA ListFits ==
  ASSUME NEW b, NEW f, NEW n \in 1..4, Len(b) = n,
         \A k \in {1, 2, 3, 4} : k <= n => Fits(b[k], f)
  PROVE  \A k \in 1..Len(b) : Fits(b[k], f)
<1>1. \A k \in 1..n : k \in {1, 2, 3, 4} /\ k <= n
  OBVIOUS
<1>. QED
  BY <1>1

LEMMA GsmGprsInitFits ==
  /\ \A k \in 1..Len(GsmGprsInit) : Fits(GsmGprsInit[k], "modem")
  /\ GsmGprsInit[Len(GsmGprsInit)].atCmd = RegistrationCmd
<1>0. Len(GsmGprsInit) = 4
  BY DEF GsmGprsInit
<1>1. GsmGprsInit[1].atCmd = "ATE0" /\ GsmGprsInit[1].rspFunc = NoFunc
  <2>1. GsmGprsInit[1] = C("ATE0", NoFunc, 3, 3000, 1)
    BY DEF GsmGprsInit
  <2>. QED
    BY <2>1 DEF C
<1>2. GsmGprsInit[2].atCmd = "AT" /\ GsmGprsInit[2].rspFunc = NoFunc
  <2>1. GsmGprsInit[2] = C("AT", NoFunc, 3, 3000, 2)
    BY DEF GsmGprsInit
  <2>. QED
    BY <2>1 DEF C
<1>3. GsmGprsInit[3].atCmd = "CPIN?" /\ GsmGprsInit[3].rspFunc = "cpin"
  <2>1. GsmGprsInit[3] = C("CPIN?", "cpin", 3, 3000, 3)
    BY DEF GsmGprsInit
  <2>. QED
    BY <2>1 DEF C
<1>4. GsmGprsInit[4].atCmd = "CREG?" /\ GsmGprsInit[4].rspFunc = "creg"
  <2>1. GsmGprsInit[4] = C("CREG?", "creg", 3, 3000, 4)
    BY DEF GsmGprsInit
  <2>. QED
    BY <2>1 DEF C
<1>5. Fits(GsmGprsInit[1], "modem")
  BY <1>1, NoFuncIsNone, FitsFacts, Zenon DEF RegistrationCmd, AddressCmd, ConnectCmd
<1>6. Fits(GsmGprsInit[2], "modem")
  BY <1>2, NoFuncIsNone, FitsFacts, Zenon DEF RegistrationCmd, AddressCmd, ConnectCmd
<1>7. Fits(GsmGprsInit[3], "modem")
  BY <1>3, NoFuncIsNone, FitsFacts, Zenon DEF RegistrationCmd, AddressCmd, ConnectCmd
<1>8. Fits(GsmGprsInit[4], "modem")
  BY <1>4, NoFuncIsNone, FitsFacts, Zenon DEF RegistrationCmd, AddressCmd, ConnectCmd
<1>9. \A k \in {1, 2, 3, 4} : k <= 4 => Fits(GsmGprsInit[k], "modem")
  BY <1>5, <1>6, <1>7, <1>8
<1>10. \A k \in 1..Len(GsmGprsInit) : Fits(GsmGprsInit[k], "modem")
  BY <1>0, <1>9, ListFits
<1>. QED
  BY <1>0, <1>4, <1>10, Zenon DEF RegistrationCmd

LEMMA GprsOnFits ==
  /\ \A k \in 1..Len(GprsOn) : Fits(GprsOn[k], "gprs")
  /\ GprsOn[Len(GprsOn)].atCmd = AddressCmd
<1>0. Len(GprsOn) = 4
  BY DEF GprsOn
<1>1. GprsOn[1].atCmd = "SAPBR=3,1 CONTYPE" /\ GprsOn[1].rspFunc = NoFunc
  <2> DEFINE text == "SAPBR=3,1 CONTYPE"
  <2>1. GprsOn[1] = C(text, NoFunc, 3, 3000, 1)
    BY DEF GprsOn
  <2> HIDE DEF text
  <2>2. GprsOn[1].atCmd = text /\ GprsOn[1].rspFunc = NoFunc
    BY <2>1, CommandIs
  <2>. QED
    BY <2>2 DEF text
<1>2. GprsOn[2].atCmd = "SAPBR=3,1 APN" /\ GprsOn[2].rspFunc = NoFunc
  <2> DEFINE text == "SAPBR=3,1 APN"
  <2>1. GprsOn[2] = C(text, NoFunc, 3, 3000, 2)
    BY DEF GprsOn
  <2> HIDE DEF text
  <2>2. GprsOn[2].atCmd = text /\ GprsOn[2].rspFunc = NoFunc
    BY <2>1, CommandIs
  <2>. QED
    BY <2>2 DEF text
<1>3. GprsOn[3].atCmd = "SAPBR=1,1" /\ GprsOn[3].rspFunc = NoFunc
  <2> DEFINE text == "SAPBR=1,1"
  <2>1. GprsOn[3] = C(text, NoFunc, 3, 10000, 3)
    BY DEF GprsOn
  <2> HIDE DEF text
  <2>2. GprsOn[3].atCmd = text /\ GprsOn[3].rspFunc = NoFunc
    BY <2>1, CommandIs
  <2>. QED
    BY <2>2 DEF text
<1>4. GprsOn[4].atCmd = "SAPBR=2,1" /\ GprsOn[4].rspFunc = "ipaddr"
  <2> DEFINE text == "SAPBR=2,1"
  <2>1. GprsOn[4] = C(text, "ipaddr", 3, 3000, 4)
    BY DEF GprsOn
  <2> HIDE DEF text
  <2>2. GprsOn[4].atCmd = text /\ GprsOn[4].rspFunc = "ipaddr"
    BY <2>1, CommandIs
  <2>. QED
    BY <2>2 DEF text
<1>5. Fits(GprsOn[1], "gprs")
  BY <1>1, NoFuncIsNone, FitsFacts, Zenon DEF RegistrationCmd, AddressCmd, ConnectCmd
<1>6. Fits(GprsOn[2], "gprs")
  BY <1>2, NoFuncIsNone, FitsFacts, Zenon DEF RegistrationCmd, AddressCmd, ConnectCmd
<1>7. Fits(GprsOn[3], "gprs")
  BY <1>3, NoFuncIsNone, FitsFacts, Zenon DEF RegistrationCmd, AddressCmd, ConnectCmd
<1>8. Fits(GprsOn[4], "gprs")
  BY <1>4, NoFuncIsNone, FitsFacts, Zenon DEF RegistrationCmd, AddressCmd, ConnectCmd
<1>9. \A k \in {1, 2, 3, 4} : k <= 4 => Fits(GprsOn[k], "gprs")
  BY <1>5, <1>6, <1>7, <1>8
<1>10. \A k \in 1..Len(GprsOn) : Fits(GprsOn[k], "gprs")
  BY <1>0, <1>9, ListFits
<1>. QED
  BY <1>0, <1>4, <1>10, Zenon DEF AddressCmd

LEMMA ConnectServerFits ==
  /\ \A k \in 1..Len(ConnectServer) : Fits(ConnectServer[k], "connect")
  /\ ConnectServer[Len(ConnectServer)].atCmd = ConnectCmd
<1>0. Len(ConnectServer) = 2
  BY DEF ConnectServer
<1>1. ConnectServer[1].atCmd = "CIPSRIP=1" /\ ConnectServer[1].rspFunc = NoFunc
  <2> DEFINE text == "CIPSRIP=1"
  <2>1. ConnectServer[1] = C(text, NoFunc, 3, 10000, 1)
    BY DEF ConnectServer
  <2> HIDE DEF text
  <2>2. ConnectServer[1].atCmd = text /\ ConnectServer[1].rspFunc = NoFunc
    BY <2>1, CommandIs
  <2>. QED
    BY <2>2 DEF text
<1>2. ConnectServer[2].atCmd = "CIPSTART" /\ ConnectServer[2].rspFunc = "connect"
  <2>1. ConnectServer[2] = C("CIPSTART", "connect", 1, 60000, 2)
    BY DEF ConnectServer
  <2>. QED
    BY <2>1 DEF C
<1>3. Fits(ConnectServer[1], "connect")
  BY <1>1, NoFuncIsNone, FitsFacts, Zenon DEF RegistrationCmd, AddressCmd, ConnectCmd
<1>4. Fits(ConnectServer[2], "connect")
  BY <1>2, NoFuncIsNone, FitsFacts, Zenon DEF RegistrationCmd, AddressCmd, ConnectCmd
<1>5. \A k \in {1, 2, 3, 4} : k <= 2 => Fits(ConnectServer[k], "connect")
  BY <1>3, <1>4
<1>6. \A k \in 1..Len(ConnectServer) : Fits(ConnectServer[k], "connect")
  BY <1>0, <1>5, ListFits
<1>. QED
  BY <1>0, <1>2, <1>6, Zenon DEF ConnectCmd

LEMMA SendGprsDataFits ==
  /\ \A k \in 1..Len(SendGprsData) : Fits(SendGprsData[k], "send")
  /\ SendGprsData[Len(SendGprsData)].atCmd = "CIPSEND"
<1>0. Len(SendGprsData) = 1
  BY DEF SendGprsData
<1>1. SendGprsData[1].atCmd = "CIPSEND" /\ SendGprsData[1].rspFunc = "send"
  <2>1. SendGprsData[1] = C("CIPSEND", "send", 1, 60000, 1)
    BY DEF SendGprsData
  <2>. QED
    BY <2>1 DEF C
<1>2. Fits(SendGprsData[1], "send")
  BY <1>1, NoFuncIsNone, FitsFacts, Zenon DEF RegistrationCmd, AddressCmd, ConnectCmd
<1>3. \A k \in {1, 2, 3, 4} : k <= 1 => Fits(SendGprsData[k], "send")
  BY <1>2
<1>. QED
  BY <1>0, <1>1, <1>3, ListFits

LEMMA BatchFits ==
  ASSUME NEW f \in Function
  PROVE  /\ Batch[f] \in Batches
         /\ Batch[f][Len(Batch[f])].atCmd = GoalCmd[f]
         /\ \A k \in 1..Len(Batch[f]) : Fits(Batch[f][k], f)
<1>1. Batch[f] \in Batches
  BY SessionAssumption
<1>2. CASE f = "modem"
  BY <1>1, <1>2, Functions, GsmGprsInitFits
<1>3. CASE f = "gprs"
  BY <1>1, <1>3, Functions, GprsOnFits
<1>4. CASE f = "connect"
  BY <1>1, <1>4, Functions, ConnectServerFits
<1>5. CASE f = "send"
  BY <1>1, <1>5, Functions, SendGprsDataFits
<1>. QED
  BY <1>2, <1>3, <1>4, <1>5, Functions

-------------------------------------------------------------------------------
(* The slots keep what they hold. *)

LEMMA NamesDiffer ==
  /\ NoCmd # RegistrationCmd /\ NoCmd # AddressCmd /\ NoCmd # ConnectCmd
  /\ NoFunc # "ipaddr" /\ NoFunc \notin RspFunc
<1>1. ASSUME NEW f \in Function PROVE GoalCmd[f] \in Cmd
  <2>1. Batch[f] \in Batches /\ Batch[f][Len(Batch[f])].atCmd = GoalCmd[f]
    BY BatchFits
  <2>2. Batch[f][Len(Batch[f])] \in Offered
    BY <2>1, BatchesAssumption
  <2>. QED
    BY <2>1, <2>2, BatchesAssumption DEF Command
<1>2. GoalCmd["modem"] \in Cmd /\ GoalCmd["gprs"] \in Cmd /\ GoalCmd["connect"] \in Cmd
  BY <1>1, Functions
<1>3. NoCmd \notin Cmd /\ NoFunc \notin RspFunc
  BY NamesAssumption
<1>. QED
  BY <1>2, <1>3, Functions, NoFuncIsNone

LEMMA EmptyFits == \A f : Fits(EmptySlot, f)
<1>1. EmptySlot.atCmd = NoCmd /\ EmptySlot.rspFunc = NoFunc
  BY DEF EmptySlot
<1>. QED
  BY <1>1, NamesDiffer, FitsFacts

LEMMA RemovedFits == \A s, f : Fits(Removed(s), f)
<1>1. \A s : Removed(s).atCmd = NoCmd /\ Removed(s).rspFunc = NoFunc
  BY DEF Removed, EmptySlot
<1>. QED
  BY <1>1, NamesDiffer, FitsFacts

LEMMA AlikeFits ==
  ASSUME NEW s, NEW t, NEW f, Fits(s, f), t.atCmd = s.atCmd, t.rspFunc = s.rspFunc
  PROVE  Fits(t, f)
BY DEF Fits

LEMMA StoredFits ==
  ASSUME NEW c \in Command, NEW f, Fits(c, f)
  PROVE  Fits(Stored(c), f)
<1>1. Stored(c).atCmd = c.atCmd
  BY StoredType
<1>2. Stored(c).rspFunc = IF c.rspFunc = NoFunc THEN DefaultFunc ELSE c.rspFunc
  BY DEF Stored, Command
<1>3. DefaultFunc # "ipaddr" /\ NoFunc # "creg" /\ NoFunc # "ipaddr" /\ NoFunc # "connect"
  BY SessionAssumption, NoFuncIsNone
<1>4. CASE c.rspFunc = NoFunc
  BY <1>1, <1>2, <1>3, <1>4, FitsFacts DEF Fits
<1>5. CASE c.rspFunc # NoFunc
  BY <1>1, <1>2, <1>5, AlikeFits
<1>. QED
  BY <1>4, <1>5

LEMMA RepeatFits ==
  ASSUME QueueTypeOK, NEW i \in Index, NEW f, Fits(atCmdQueue[i], f)
  PROVE  Fits(RepeatUsed[i], f)
<1>1. CASE i = currentCmd
  <2>1. RepeatUsed[i] = [CurrentSlot EXCEPT !.repCount = Dec8(@)]
    BY <1>1, RepeatUsedType
  <2>2. CurrentSlot \in Slot /\ CurrentSlot = atCmdQueue[i]
    BY <1>1 DEF QueueTypeOK, CurrentSlot
  <2>3. RepeatUsed[i].atCmd = atCmdQueue[i].atCmd /\ RepeatUsed[i].rspFunc = atCmdQueue[i].rspFunc
    BY <2>1, <2>2 DEF Slot
  <2>. QED
    BY <2>3, AlikeFits
<1>2. CASE i # currentCmd
  BY <1>2, RepeatUsedType
<1>. QED
  BY <1>1, <1>2

LEMMA EmptiedFit ==
  ASSUME QueueClear PROVE SlotsFit'
<1>1. \A i \in Index : atCmdQueue'[i] = EmptySlot
  BY DEF QueueClear, EmptySlots
<1>. QED
  BY <1>1, EmptyFits DEF SlotsFit

\* What the callers and the threads do to the slots and to the list of the call.
LEMMA CallStart ==
  ASSUME NEW f \in Function, Begin(f) PROVE CallInv'
<1>1. QueueClear /\ doing' = f /\ batch' = Batch[f] /\ goal' = Batch[f][Len(Batch[f])]
  BY DEF Begin, Call
<1>2. SlotsFit'
  BY <1>1, EmptiedFit
<1>3. BatchFit' /\ DoingInv'
  BY <1>1, BatchFits DEF BatchFit, DoingInv
<1>. QED
  BY <1>2, <1>3 DEF CallInv

LEMMA CallFills ==
  ASSUME TypeOK, CallInv, Fill PROVE CallInv'
<1>1. CASE Open
  <2>1. \A i \in Index : atCmdQueue'[i] = atCmdQueue[i] \/ \E s : atCmdQueue'[i] = Removed(s)
    BY <1>1 DEF Open, DelAtCmdHead
  <2>2. SlotsFit'
    BY <2>1, RemovedFits DEF Fill, SlotsFit, CallInv
  <2>. QED
    BY <1>1, <2>2 DEF Open, Fill, CallInv, BatchFit, DoingInv
<1>2. CASE Add
  <2>1. batch \in Seq(Offered) /\ batch # <<>> /\ batch' = Tail(batch) /\ doing' = doing
        /\ caller = "filling" /\ caller' = caller /\ goal' = goal /\ AddAtCmd(Head(batch))
    BY <1>2 DEF Add, Fill, TypeOK
  <2>2. Head(batch) \in Command /\ Head(batch) = batch[1] /\ 1 \in 1..Len(batch)
    BY <2>1, BatchFacts
  <2>3. Fits(Stored(Head(batch)), doing)
    BY <2>2, StoredFits DEF CallInv, BatchFit
  <2>4. \A i \in Index : atCmdQueue'[i] = atCmdQueue[i] \/ atCmdQueue'[i] = Stored(Head(batch))
    BY <2>1 DEF AddAtCmd, TypeOK, QueueTypeOK
  <2>5. SlotsFit'
    BY <2>1, <2>3, <2>4 DEF SlotsFit, CallInv
  <2>6. /\ Len(Tail(batch)) = Len(batch) - 1 /\ Len(batch) \in Nat
        /\ \A k \in 1..Len(Tail(batch)) : Tail(batch)[k] = batch[k + 1]
    BY <2>1, HeadTailProperties
  <2>7. BatchFit'
    BY <2>1, <2>6 DEF BatchFit, CallInv
  <2>. QED
    BY <2>1, <2>5, <2>7 DEF CallInv, DoingInv
<1>3. CASE Close
  BY <1>3 DEF Close, Fill, CallInv, SlotsFit, BatchFit, DoingInv
<1>. QED
  BY <1>1, <1>2, <1>3 DEF Fill

LEMMA CallEnds ==
  ASSUME IInv, CallInv, Finish PROVE CallInv'
<1>1. caller = "waiting" /\ batch' = batch /\ QueueInit /\ caller' = "idle"
  BY DEF Finish, Return
<1>2. batch = <<>>
  BY <1>1 DEF IInv, CallerInv
<1>3. SlotsFit'
  BY <1>1, EmptiedFit DEF QueueInit
<1>4. BatchFit'
  BY <1>1, <1>2 DEF BatchFit
<1>. QED
  BY <1>1, <1>3, <1>4 DEF CallInv, DoingInv

\* The threads keep or empty the slots, and leave the call as it is.
LEMMA CallKept ==
  ASSUME TypeOK, CallInv, UNCHANGED <<batch, goal, caller, doing>>,
         \/ atCmdQueue' = atCmdQueue \/ atCmdQueue' = RepeatUsed \/ QueueClear
  PROVE  CallInv'
<1>1. CASE atCmdQueue' = atCmdQueue
  BY <1>1 DEF CallInv, SlotsFit, BatchFit, DoingInv
<1>2. CASE atCmdQueue' = RepeatUsed
  <2>1. SlotsFit'
    BY <1>2, RepeatFits DEF TypeOK, SlotsFit, CallInv
  <2>. QED
    BY <2>1 DEF CallInv, BatchFit, DoingInv
<1>3. CASE QueueClear
  <2>1. SlotsFit'
    BY <1>3, EmptiedFit
  <2>. QED
    BY <2>1 DEF CallInv, BatchFit, DoingInv
<1>. QED
  BY <1>1, <1>2, <1>3

-------------------------------------------------------------------------------
(* The messages under way. *)

LEMMA LineFacts ==
  /\ \A s, c : Line(s, c).says = s /\ Line(s, c).carries = c
  /\ \A s : Says(s).says = s /\ Says(s).carries = ""
  /\ \A s \in Said : s # "RECV FROM:" => Says(s) \in AnyLine
  /\ \A s \in Said, c \in Addresses \cup Payloads \cup {"0.0.0.0"} :
       (s = "RECV FROM:" => c \in Payloads) => Line(s, c) \in AnyLine
<1>1. \A s, c : Line(s, c).says = s /\ Line(s, c).carries = c
  BY DEF Line
<1>2. \A s : Says(s).says = s /\ Says(s).carries = ""
  BY <1>1 DEF Says
<1>3. \A s \in Said, c \in Carried :
        (s = "RECV FROM:" => c \in Payloads) => Line(s, c) \in AnyLine
  BY DEF Line, AnyLine
<1>4. "" \in Carried /\ \A c \in Addresses \cup Payloads \cup {"0.0.0.0"} : c \in Carried
  BY DEF Carried
<1>. QED
  BY <1>1, <1>2, <1>3, <1>4 DEF Says

LEMMA LinesOfOne ==
  ASSUME NEW x PROVE Lines(<<x>>) = {x}
<1>1. Len(<<x>>) = 1 /\ <<x>>[1] = x
  OBVIOUS
<1>2. 1..1 = {1}
  OBVIOUS
<1>. QED
  BY <1>1, <1>2 DEF Lines

LEMMA LinesOfConcat ==
  ASSUME NEW S, NEW a \in Seq(S), NEW b \in Seq(S), NEW l \in Lines(a \o b)
  PROVE  l \in Lines(a) \/ l \in Lines(b)
<1>1. PICK i \in 1..Len(a \o b) : l = (a \o b)[i]
  BY DEF Lines
<1>2. /\ Len(a \o b) = Len(a) + Len(b) /\ Len(a) \in Nat /\ Len(b) \in Nat
      /\ (a \o b)[i] = IF i <= Len(a) THEN a[i] ELSE b[i - Len(a)]
  BY <1>1, ConcatProperties, LenProperties
<1>3. CASE i <= Len(a)
  BY <1>1, <1>2, <1>3 DEF Lines
<1>4. CASE ~(i <= Len(a))
  <2>1. i - Len(a) \in 1..Len(b) /\ l = b[i - Len(a)]
    BY <1>1, <1>2, <1>4
  <2>. QED
    BY <2>1 DEF Lines
<1>. QED
  BY <1>3, <1>4

\* What Tells does to the messages: they keep their places and their lines, and the
\* new lines are the last.
LEMMA TellsFacts ==
  ASSUME AirTypeOK, NEW lines \in Seq(AnyLine), lines # <<>>, Tells(lines)
  PROVE  /\ air' \in Seq(Seq(AnyLine))
         /\ Len(air') \in Nat /\ Len(air) \in Nat /\ Len(air) <= Len(air')
         /\ \A k \in 1..Len(air') : \A l \in Lines(air'[k]) :
              \/ k \in 1..Len(air) /\ l \in Lines(air[k])
              \/ l \in Lines(lines)
         /\ \A j \in 1..Len(air) : Closes(air[j]) => Closes(air'[j])
         /\ unheard => unheard'
         /\ Closes(lines) => \/ unheard'
                             \/ Len(air') = Len(air) + 1 /\ Closes(air'[Len(air')])
<1>1. air \in Seq(Seq(AnyLine)) /\ Len(air) \in Nat
  BY LenProperties DEF AirTypeOK
<1>2. CASE air' = Append(air, lines) /\ UNCHANGED unheard
  <2>1. /\ air' \in Seq(Seq(AnyLine)) /\ Len(air') = Len(air) + 1
        /\ \A i \in 1..Len(air) : air'[i] = air[i]
        /\ air'[Len(air) + 1] = lines
    BY <1>1, <1>2, AppendProperties
  <2>2. \A k \in 1..Len(air') : k \in 1..Len(air) \/ k = Len(air) + 1
    BY <1>1, <2>1
  <2>3. Len(air') \in Nat /\ Len(air) <= Len(air')
    BY <1>1, <2>1
  <2>. QED
    BY <1>1, <1>2, <2>1, <2>2, <2>3
<1>3. CASE /\ air # <<>> /\ air' = [air EXCEPT ![Len(air)] = @ \o lines]
           /\ unheard' = (unheard \/ lines[1].says = "CLOSED")
  <2> DEFINE n == Len(air)
             new == air[n] \o lines
  <2>1. n \in 1..Len(air)
    BY <1>1, <1>3, EmptySeq
  <2>2. air[n] \in Seq(AnyLine)
    BY <1>1, <2>1, ElementOfSeq
  <2>3. /\ new \in Seq(AnyLine) /\ Len(new) = Len(air[n]) + Len(lines)
        /\ \A i \in 1..(Len(air[n]) + Len(lines)) :
              new[i] = IF i <= Len(air[n]) THEN air[n][i] ELSE lines[i - Len(air[n])]
    BY <2>2, ConcatProperties
  <2>4. air' = [air EXCEPT ![n] = new]
    BY <1>3
  <2>5. \A l \in Lines(new) : l \in Lines(air[n]) \/ l \in Lines(lines)
    BY <2>2, LinesOfConcat
  <2>6. Len(air[n]) \in Nat /\ Len(lines) \in Nat
    BY <2>2, LenProperties
  <2>7. Closes(air[n]) => Closes(new)
    <3>1. CASE air[n] = <<>>
      BY <3>1 DEF Closes, First
    <3>2. CASE air[n] # <<>>
      <4>1. Len(air[n]) >= 1
        BY <2>2, <2>6, <3>2, EmptySeq
      <4>2. 1 \in 1..(Len(air[n]) + Len(lines)) /\ 1 <= Len(air[n])
        BY <2>6, <4>1
      <4>3. new[1] = air[n][1]
        BY <2>3, <4>2
      <4>4. new # <<>>
        BY <2>3, <2>6, <4>1, EmptySeq
      <4>. QED
        BY <4>3, <4>4 DEF Closes, First
    <3>. QED
      BY <3>1, <3>2
  <2> HIDE DEF new
  <2>8. /\ air' \in Seq(Seq(AnyLine)) /\ Len(air') = Len(air)
        /\ \A j \in 1..Len(air) : air'[j] = IF j = n THEN new ELSE air[j]
    BY <1>1, <2>1, <2>3, <2>4, ExceptSeq
  <2>9. Closes(lines) => unheard'
    BY <1>3 DEF Closes, First
  <2>10. \A k \in 1..Len(air') : \A l \in Lines(air'[k]) :
           \/ k \in 1..Len(air) /\ l \in Lines(air[k])
           \/ l \in Lines(lines)
    <3> SUFFICES ASSUME NEW k \in 1..Len(air'), NEW l \in Lines(air'[k])
                 PROVE  (k \in 1..Len(air) /\ l \in Lines(air[k])) \/ l \in Lines(lines)
      OBVIOUS
    <3>1. k \in 1..Len(air) /\ air'[k] = IF k = n THEN new ELSE air[k]
      BY <2>8
    <3>2. CASE k = n
      <4>1. l \in Lines(new)
        BY <3>1, <3>2
      <4>2. l \in Lines(air[n]) \/ l \in Lines(lines)
        BY <2>5, <4>1
      <4>. QED
        BY <3>1, <3>2, <4>2
    <3>3. CASE k # n
      BY <3>1, <3>3
    <3>. QED
      BY <3>2, <3>3
  <2>11. \A j \in 1..Len(air) : Closes(air[j]) => Closes(air'[j])
    BY <2>7, <2>8
  <2>12. unheard => unheard'
    BY <1>3
  <2>. QED
    BY <1>1, <2>8, <2>9, <2>10, <2>11, <2>12
<1>. QED
  BY <1>2, <1>3 DEF Tells

\* A line that is true when it is sent stays true, and so do those before it.
TrueWhenSent(l) == /\ TellsRegistered(l) => "registered" \in told'
                   /\ TellsAddress(l) => l.carries # ""
                   /\ l.carries # "" => l.carries \in told' \/ "GPRS_RDY" \in machineState
                   /\ TellsConnected(l) => link' = "up"

LEMMA ModemTells ==
  ASSUME AirInv, NEW lines \in Seq(AnyLine), lines # <<>>, Tells(lines),
         told \subseteq told', machineState' = machineState,
         link = "up" => link' = "up" \/ Closes(lines),
         \A l \in Lines(lines) : TrueWhenSent(l)
  PROVE  /\ AirInv'
         /\ unheard \/ UpBehind(0) => unheard' \/ UpBehind(0)'
<1>1. /\ air' \in Seq(Seq(AnyLine))
      /\ Len(air') \in Nat /\ Len(air) \in Nat /\ Len(air) <= Len(air')
      /\ \A k \in 1..Len(air') : \A l \in Lines(air'[k]) :
           \/ k \in 1..Len(air) /\ l \in Lines(air[k])
           \/ l \in Lines(lines)
      /\ \A j \in 1..Len(air) : Closes(air[j]) => Closes(air'[j])
      /\ unheard => unheard'
      /\ Closes(lines) => \/ unheard'
                          \/ Len(air') = Len(air) + 1 /\ Closes(air'[Len(air')])
  BY TellsFacts DEF AirInv
<1>2. ASSUME NEW k \in 0..Len(air), UpBehind(k), ~unheard' PROVE UpBehind(k)'
  <2>1. CASE link = "up"
    <3>1. CASE link' = "up"
      BY <3>1 DEF UpBehind
    <3>2. CASE Closes(lines)
      <4>1. Len(air') = Len(air) + 1 /\ Closes(air'[Len(air')])
        BY <1>1, <1>2, <3>2
      <4>2. Len(air') \in (k + 1)..Len(air')
        BY <1>1, <4>1
      <4>. QED
        BY <4>1, <4>2 DEF UpBehind
    <3>. QED
      BY <2>1, <3>1, <3>2
  <2>2. ASSUME NEW j \in (k + 1)..Len(air), Closes(air[j]) PROVE UpBehind(k)'
    <3>1. j \in 1..Len(air) /\ j \in (k + 1)..Len(air')
      BY <1>1
    <3>2. Closes(air'[j])
      BY <1>1, <2>2, <3>1
    <3>. QED
      BY <3>1, <3>2 DEF UpBehind
  <2>. QED
    BY <1>2, <2>1, <2>2 DEF UpBehind
<1>3. AirTrue'
  <2> SUFFICES ASSUME NEW k \in 1..Len(air'), NEW l \in Lines(air'[k]) PROVE LineTrue(l, k)'
    BY DEF AirTrue, Lines
  <2>1. CASE k \in 1..Len(air) /\ l \in Lines(air[k])
    <3>1. LineTrue(l, k) /\ k \in 0..Len(air)
      BY <1>1, <2>1 DEF AirInv, AirTrue
    <3>2. TellsConnected(l) => unheard' \/ UpBehind(k)'
      BY <1>1, <1>2, <3>1 DEF LineTrue
    <3>3. l.carries # "" => l.carries \in told' \/ "GPRS_RDY" \in machineState'
      BY <3>1 DEF LineTrue
    <3>4. /\ TellsRegistered(l) => "registered" \in told'
          /\ TellsAddress(l) => l.carries # ""
      BY <3>1 DEF LineTrue
    <3>. QED
      BY <3>2, <3>3, <3>4 DEF LineTrue, TellsRegistered, TellsAddress, TellsConnected
  <2>2. CASE l \in Lines(lines)
    <3>1. TrueWhenSent(l)
      BY <2>2
    <3>2. TellsConnected(l) => UpBehind(k)'
      BY <3>1 DEF TrueWhenSent, UpBehind
    <3>. QED
      BY <3>1, <3>2 DEF LineTrue, TrueWhenSent, TellsRegistered, TellsAddress, TellsConnected
  <2>. QED
    BY <1>1, <2>1, <2>2
<1>4. 0 \in 0..Len(air)
  BY <1>1
<1>. QED
  BY <1>1, <1>2, <1>3, <1>4 DEF AirInv, AirTypeOK

\* What is left to show of an action of the modem.
LEMMA ModemKeeps ==
  ASSUME SessionInv, ModemOnly, AirInv', told \subseteq told',
         unheard \/ UpBehind(0) => unheard' \/ UpBehind(0)',
         link' # "down" \/ command' = ConnectCmd => "GPRS_RDY" \in machineState
  PROVE  SessionInv'
<1>1. UNCHANGED <<atCmdQueue, batch, goal, caller, accepted, doing, machineState, ip_address,
                  urcQueue>>
  BY DEF ModemOnly, vars, queue, tester, history, state
<1>2. CallInv'
  BY <1>1 DEF SessionInv, CallInv, SlotsFit, BatchFit, DoingInv
<1>3. RegisteredInv' /\ AddressInv'
  BY <1>1 DEF SessionInv, RegisteredInv, AddressInv, RegistrationCmd, AddressCmd
<1>4. UpInv'
  BY <1>1 DEF SessionInv, UpInv, MayBeUp, ConnectCmd
<1>5. OrderInv'
  BY <1>1 DEF SessionInv, OrderInv, ConnectCmd, UrcTable
<1>. QED
  BY <1>2, <1>3, <1>4, <1>5 DEF SessionInv

LEMMA OneLine ==
  ASSUME NEW a \in AnyLine
  PROVE  <<a>> \in Seq(AnyLine) /\ <<a>> # <<>> /\ Lines(<<a>>) = {a}
<1>1. <<a>> \in Seq(AnyLine)
  OBVIOUS
<1>2. <<a>> # <<>>
  OBVIOUS
<1>. QED
  BY <1>1, <1>2, LinesOfOne

LEMMA TwoLines ==
  ASSUME NEW a \in AnyLine, NEW b \in AnyLine
  PROVE  /\ <<a, b>> \in Seq(AnyLine) /\ <<a, b>> # <<>>
         /\ <<a>> \o <<b>> = <<a, b>>
         /\ \A l \in Lines(<<a, b>>) : l = a \/ l = b
<1>1. Len(<<a, b>>) = 2 /\ <<a, b>>[1] = a /\ <<a, b>>[2] = b
  OBVIOUS
<1>2. 1..2 = {1, 2}
  OBVIOUS
<1>3. \A l \in Lines(<<a, b>>) : l = a \/ l = b
  BY <1>1, <1>2 DEF Lines
<1>4. <<a, b>> \in Seq(AnyLine)
  OBVIOUS
<1>5. <<a, b>> # <<>>
  OBVIOUS
<1>6. <<a>> \o <<b>> = <<a, b>>
  <2> DEFINE c == <<a>> \o <<b>>
  <2>1. <<a>> \in Seq(AnyLine) /\ <<b>> \in Seq(AnyLine)
    BY OneLine
  <2>2. Len(<<a>>) = 1 /\ Len(<<b>>) = 1 /\ <<a>>[1] = a /\ <<b>>[1] = b
    OBVIOUS
  <2>3. /\ c \in Seq(AnyLine) /\ Len(c) = Len(<<a>>) + Len(<<b>>)
        /\ \A i \in 1..(Len(<<a>>) + Len(<<b>>)) :
              c[i] = IF i <= Len(<<a>>) THEN <<a>>[i] ELSE <<b>>[i - Len(<<a>>)]
    BY <2>1, ConcatProperties
  <2> HIDE DEF c
  <2>4. Len(c) = 2 /\ c[1] = a /\ c[2] = b
    BY <2>2, <2>3
  <2>5. \A i \in 1..Len(c) : c[i] = <<a, b>>[i]
    BY <1>1, <1>2, <2>4
  <2>6. c = <<a, b>>
    BY <1>1, <1>4, <2>3, <2>4, <2>5, SeqEqual
  <2>. QED
    BY <2>6 DEF c
<1>. QED
  BY <1>3, <1>4, <1>5, <1>6

\* The lines that tell nothing of registration, address or connection.
Other == Said \ {"+CREG: 0,1", "+CREG: 0,5", "+SAPBR: 1,1,", "CONNECT OK", "ALREADY CONNECT",
                 "RECV FROM:"}

LEMMA OthersSaid ==
  {"OK", "ERROR", "+CPIN: READY", "+CPIN: NOT READY", "+CREG: 0,2", "STATE: IP STATUS",
   "CONNECT FAIL", ">", "CLOSED", "+CMTI: "} \subseteq Other
BY Zenon DEF Other, Said

LEMMA OtherLine ==
  ASSUME NEW s \in Other
  PROVE  Says(s) \in AnyLine /\ TrueWhenSent(Says(s))
<1>1. Says(s) \in AnyLine /\ Says(s).says = s /\ Says(s).carries = ""
  BY LineFacts DEF Other
<1>2. ~TellsRegistered(Says(s)) /\ ~TellsAddress(Says(s)) /\ ~TellsConnected(Says(s))
  BY <1>1, Zenon DEF Other, TellsRegistered, TellsAddress, TellsConnected
<1>. QED
  BY <1>1, <1>2 DEF TrueWhenSent

LEMMA ConnectedLine ==
  ASSUME NEW s \in {"CONNECT OK", "ALREADY CONNECT"}, link' = "up"
  PROVE  Says(s) \in AnyLine /\ TrueWhenSent(Says(s))
<1>1. s \in Said /\ s # "RECV FROM:"
  BY Zenon DEF Said
<1>2. Says(s) \in AnyLine /\ Says(s).says = s /\ Says(s).carries = ""
  BY <1>1, LineFacts
<1>3. ~TellsRegistered(Says(s)) /\ ~TellsAddress(Says(s))
  BY <1>2, Zenon DEF TellsRegistered, TellsAddress
<1>. QED
  BY <1>2, <1>3 DEF TrueWhenSent

LEMMA RegisteredLine ==
  ASSUME NEW s \in {"+CREG: 0,1", "+CREG: 0,5"}, "registered" \in told'
  PROVE  Says(s) \in AnyLine /\ TrueWhenSent(Says(s))
<1>1. s \in Said /\ s # "RECV FROM:"
  BY Zenon DEF Said
<1>2. Says(s) \in AnyLine /\ Says(s).says = s /\ Says(s).carries = ""
  BY <1>1, LineFacts
<1>3. ~TellsConnected(Says(s)) /\ ~TellsAddress(Says(s))
  BY <1>2, Zenon DEF TellsConnected, TellsAddress
<1>. QED
  BY <1>2, <1>3 DEF TrueWhenSent

\* A line that carries an address or data.
LEMMA CarryingLine ==
  ASSUME NEW s \in {"+SAPBR: 1,1,", "+SAPBR: 1,3,", "RECV FROM:"},
         NEW c \in Addresses \cup Payloads \cup {"0.0.0.0"},
         s = "+SAPBR: 1,1," => c # "", s = "RECV FROM:" => c \in Payloads,
         c \in told' \/ "GPRS_RDY" \in machineState
  PROVE  Line(s, c) \in AnyLine /\ TrueWhenSent(Line(s, c))
<1>1. s \in Said
  BY Zenon DEF Said
<1>2. Line(s, c) \in AnyLine /\ Line(s, c).says = s /\ Line(s, c).carries = c
  BY <1>1, LineFacts
<1>3. ~TellsConnected(Line(s, c)) /\ ~TellsRegistered(Line(s, c))
      /\ (TellsAddress(Line(s, c)) => c # "")
  BY <1>2, Zenon DEF TellsConnected, TellsRegistered, TellsAddress
<1>. QED
  BY <1>2, <1>3 DEF TrueWhenSent

\* An answer of the modem, given that its lines are true.
LEMMA AnswerKeeps ==
  ASSUME SessionInv, NEW lines \in Seq(AnyLine), lines # <<>>, Answers(lines),
         told \subseteq told', link' = link \/ command = ConnectCmd,
         link = "up" => link' = "up",
         \A l \in Lines(lines) : TrueWhenSent(l)
  PROVE  SessionInv'
<1>1. ModemOnly /\ Tells(lines) /\ command' = NoCmd
  BY DEF Answers
<1>2. machineState' = machineState
  BY <1>1 DEF ModemOnly, state
<1>3. AirInv' /\ (unheard \/ UpBehind(0) => unheard' \/ UpBehind(0)')
  BY <1>1, <1>2, ModemTells DEF SessionInv
<1>4. link' # "down" \/ command' = ConnectCmd => "GPRS_RDY" \in machineState
  BY <1>1, NamesDiffer DEF SessionInv, OrderInv
<1>. QED
  BY <1>1, <1>3, <1>4, ModemKeeps

LEMMA OtherLines ==
  ASSUME NEW a \in Other, NEW b \in Other
  PROVE  /\ <<Says(a)>> \in Seq(AnyLine) /\ <<Says(a)>> # <<>>
         /\ \A l \in Lines(<<Says(a)>>) : TrueWhenSent(l)
         /\ <<Says(a), Says(b)>> \in Seq(AnyLine) /\ <<Says(a), Says(b)>> # <<>>
         /\ \A l \in Lines(<<Says(a), Says(b)>>) : TrueWhenSent(l)
         /\ <<Says(a)>> \o <<Says(b)>> = <<Says(a), Says(b)>>
<1>1. Says(a) \in AnyLine /\ TrueWhenSent(Says(a)) /\ Says(b) \in AnyLine /\ TrueWhenSent(Says(b))
  BY OtherLine
<1>. QED
  BY <1>1, OneLine, TwoLines

LEMMA LineAndOk ==
  ASSUME NEW a \in AnyLine, TrueWhenSent(a)
  PROVE  /\ <<a>> \o Ok \in Seq(AnyLine) /\ <<a>> \o Ok # <<>>
         /\ \A l \in Lines(<<a>> \o Ok) : TrueWhenSent(l)
<1>1. Says("OK") \in AnyLine /\ TrueWhenSent(Says("OK"))
  BY OthersSaid, OtherLine
<1>. QED
  BY <1>1, TwoLines DEF Ok

LEMMA PlainStep == ASSUME SessionInv, AnswerPlain PROVE SessionInv'
<1>1. link' = link /\ told' = told
  BY DEF AnswerPlain
<1>2. "OK" \in Other /\ "ERROR" \in Other
  BY OthersSaid
<1>3. /\ Ok \in Seq(AnyLine) /\ Ok # <<>> /\ \A l \in Lines(Ok) : TrueWhenSent(l)
      /\ Error \in Seq(AnyLine) /\ Error # <<>> /\ \A l \in Lines(Error) : TrueWhenSent(l)
  BY <1>2, OtherLines DEF Ok, Error
<1>4. Answers(Ok) \/ Answers(Error)
  BY DEF AnswerPlain
<1>. QED
  BY <1>1, <1>3, <1>4, AnswerKeeps

LEMMA CpinStep == ASSUME SessionInv, AnswerCpin PROVE SessionInv'
<1>1. link' = link /\ told' = told
  BY DEF AnswerCpin
<1>2. PICK s \in {"+CPIN: READY", "+CPIN: NOT READY"} : Answers(<<Says(s)>> \o Ok)
  BY Zenon DEF AnswerCpin
<1>3. s \in Other
  BY OthersSaid, Zenon
<1>. QED
  BY <1>1, <1>2, <1>3, OtherLine, LineAndOk, AnswerKeeps

LEMMA CregStep == ASSUME SessionInv, AnswerCreg PROVE SessionInv'
<1>1. link' = link
  BY DEF AnswerCreg
<1>2. PICK s \in {"+CREG: 0,1", "+CREG: 0,5", "+CREG: 0,2"} :
         /\ Answers(<<Says(s)>> \o Ok)
         /\ told' = IF s = "+CREG: 0,2" THEN told ELSE told \cup {"registered"}
  BY Zenon DEF AnswerCreg
<1>3. told \subseteq told'
  BY <1>2
<1>4. Says(s) \in AnyLine /\ TrueWhenSent(Says(s))
  <2>1. CASE s = "+CREG: 0,2"
    <3>1. s \in Other
      BY <2>1, OthersSaid, Zenon
    <3>. QED
      BY <3>1, OtherLine
  <2>2. CASE s # "+CREG: 0,2"
    <3>1. s \in {"+CREG: 0,1", "+CREG: 0,5"}
      BY <2>2, Zenon
    <3>2. "registered" \in told'
      BY <1>2, <2>2, Zenon
    <3>. QED
      BY <3>1, <3>2, RegisteredLine
  <2>. QED
    BY <2>1, <2>2
<1>. QED
  BY <1>1, <1>2, <1>3, <1>4, LineAndOk, AnswerKeeps

LEMMA AddressStep == ASSUME SessionInv, AnswerAddress PROVE SessionInv'
<1>1. link' = link
  BY DEF AnswerAddress
<1>2. PICK s \in {"+SAPBR: 1,1,", "+SAPBR: 1,3,"},
           c \in Addresses \cup Payloads \cup {"0.0.0.0"} :
         /\ Answers(<<Line(s, c)>> \o Ok)
         /\ told' = told \cup {c}
         /\ s = "+SAPBR: 1,1," => c # ""
  <2>1. CASE \E a \in Addresses : /\ Answers(<<Line("+SAPBR: 1,1,", a)>> \o Ok)
                                  /\ told' = told \cup {a}
    <3>1. PICK a \in Addresses : /\ Answers(<<Line("+SAPBR: 1,1,", a)>> \o Ok)
                                 /\ told' = told \cup {a}
      BY <2>1, Zenon
    <3>2. a # "" /\ a \in Addresses \cup Payloads \cup {"0.0.0.0"}
      BY SessionAssumption
    <3>. QED
      BY <3>1, <3>2, Zenon
  <2>2. CASE /\ Answers(<<Line("+SAPBR: 1,3,", "0.0.0.0")>> \o Ok)
             /\ told' = told \cup {"0.0.0.0"}
    BY <2>2, Zenon
  <2>. QED
    BY <2>1, <2>2, Zenon DEF AnswerAddress
<1>3. told \subseteq told' /\ c \in told'
  BY <1>2
<1>4. Line(s, c) \in AnyLine /\ TrueWhenSent(Line(s, c))
  <2>1. s \in {"+SAPBR: 1,1,", "+SAPBR: 1,3,", "RECV FROM:"}
    BY Zenon
  <2>. QED
    BY <1>2, <1>3, <2>1, CarryingLine, Zenon
<1>. QED
  BY <1>1, <1>2, <1>3, <1>4, LineAndOk, AnswerKeeps

LEMMA ConnectStep == ASSUME SessionInv, AnswerConnect PROVE SessionInv'
<1>1. command = ConnectCmd /\ told' = told
  BY DEF AnswerConnect, ConnectCmd
<1>2. "OK" \in Other /\ "ERROR" \in Other /\ "STATE: IP STATUS" \in Other /\ "CONNECT FAIL" \in Other
  BY OthersSaid, Zenon
<1>3. Says("OK") \in AnyLine /\ TrueWhenSent(Says("OK"))
      /\ Says("ERROR") \in AnyLine /\ TrueWhenSent(Says("ERROR"))
  BY <1>2, OtherLine
<1>4. CASE link = "up" /\ Answers(Error \o <<Says("ALREADY CONNECT")>>) /\ UNCHANGED link
  <2> DEFINE already == Says("ALREADY CONNECT")
  <2>1. already \in AnyLine /\ TrueWhenSent(already)
    BY <1>4, ConnectedLine, Zenon
  <2>2. Answers(Error \o <<already>>)
    BY <1>4
  <2> HIDE DEF already
  <2>. QED
    BY <1>1, <1>3, <1>4, <2>1, <2>2, TwoLines, AnswerKeeps DEF Error
<1>5. CASE Answers(Ok \o <<Says("CONNECT OK")>>) /\ link' = "up"
  <2> DEFINE ok == Says("CONNECT OK")
  <2>1. ok \in AnyLine /\ TrueWhenSent(ok)
    BY <1>5, ConnectedLine, Zenon
  <2>2. Answers(Ok \o <<ok>>)
    BY <1>5
  <2> HIDE DEF ok
  <2>. QED
    BY <1>1, <1>3, <1>5, <2>1, <2>2, TwoLines, AnswerKeeps DEF Ok
<1>6. CASE link # "up" /\ (Answers(Ok) \/ Answers(Error))
  BY <1>1, <1>2, <1>6, OtherLines, AnswerKeeps DEF Ok, Error
<1>7. CASE Answers(<<Says("STATE: IP STATUS"), Says("CONNECT FAIL")>>) /\ UNCHANGED link
  <2> DEFINE a == "STATE: IP STATUS"
             b == "CONNECT FAIL"
  <2>1. a \in Other /\ b \in Other
    BY <1>2, Zenon
  <2>2. Answers(<<Says(a), Says(b)>>)
    BY <1>7
  <2> HIDE DEF a, b
  <2>. QED
    BY <1>1, <1>7, <2>1, <2>2, OtherLines, AnswerKeeps
<1>. QED
  BY <1>4, <1>5, <1>6, <1>7, Zenon DEF AnswerConnect

LEMMA SendStep == ASSUME SessionInv, AnswerSend PROVE SessionInv'
<1>1. link' = link /\ told' = told
  BY DEF AnswerSend
<1>2. ">" \in Other /\ "ERROR" \in Other
  BY OthersSaid, Zenon
<1>3. Answers(<<Says(">")>>) \/ Answers(<<Says("ERROR")>>)
  BY Zenon DEF AnswerSend, Error
<1>. QED
  BY <1>1, <1>2, <1>3, OtherLines, AnswerKeeps

LEMMA ConnectsStep == ASSUME SessionInv, Connects PROVE SessionInv'
<1>1. /\ link = "opening" /\ told' = told /\ command' = command /\ ModemOnly
      /\ \/ Tells(<<Says("CONNECT OK")>>) /\ link' = "up"
         \/ Tells(<<Says("STATE: IP STATUS"), Says("CONNECT FAIL")>>) /\ link' = "down"
  BY Zenon DEF Connects
<1>2. machineState' = machineState /\ link # "up"
  BY <1>1 DEF ModemOnly, state
<1>3. PICK lines \in Seq(AnyLine) : /\ lines # <<>> /\ Tells(lines)
                                    /\ \A l \in Lines(lines) : TrueWhenSent(l)
  <2>1. CASE Tells(<<Says("CONNECT OK")>>) /\ link' = "up"
    <3> DEFINE ok == Says("CONNECT OK")
    <3>1. ok \in AnyLine /\ TrueWhenSent(ok)
      BY <2>1, ConnectedLine, Zenon
    <3>2. Tells(<<ok>>)
      BY <2>1
    <3> HIDE DEF ok
    <3>. QED
      BY <3>1, <3>2, OneLine
  <2>2. CASE Tells(<<Says("STATE: IP STATUS"), Says("CONNECT FAIL")>>)
    <3> DEFINE a == "STATE: IP STATUS"
               b == "CONNECT FAIL"
    <3>1. a \in Other /\ b \in Other
      BY OthersSaid, Zenon
    <3>2. Tells(<<Says(a), Says(b)>>)
      BY <2>2
    <3> HIDE DEF a, b
    <3>. QED
      BY <3>1, <3>2, OtherLines
  <2>. QED
    BY <1>1, <2>1, <2>2, Zenon
<1>4. AirInv' /\ (unheard \/ UpBehind(0) => unheard' \/ UpBehind(0)')
  BY <1>1, <1>2, <1>3, ModemTells DEF SessionInv
<1>5. "GPRS_RDY" \in machineState
  BY <1>1 DEF SessionInv, OrderInv
<1>. QED
  BY <1>1, <1>4, <1>5, ModemKeeps

LEMMA DropsStep == ASSUME SessionInv, Drops PROVE SessionInv'
<1>1. /\ link = "up" /\ link' = "down" /\ Tells(<<Says("CLOSED")>>) /\ ModemOnly
      /\ told' = told /\ command' = command
  BY DEF Drops
<1>2. machineState' = machineState
  BY <1>1 DEF ModemOnly, state
<1>3. "CLOSED" \in Other
  BY OthersSaid
<1>4. Closes(<<Says("CLOSED")>>)
  <2>1. Says("CLOSED").says = "CLOSED" /\ <<Says("CLOSED")>>[1] = Says("CLOSED")
    BY LineFacts
  <2>2. <<Says("CLOSED")>> # <<>>
    BY <1>3, OtherLines
  <2>. QED
    BY <2>1, <2>2 DEF Closes, First
<1>5. AirInv' /\ (unheard \/ UpBehind(0) => unheard' \/ UpBehind(0)')
  BY <1>1, <1>2, <1>3, <1>4, OtherLines, ModemTells DEF SessionInv
<1>6. "GPRS_RDY" \in machineState
  BY <1>1 DEF SessionInv, OrderInv
<1>. QED
  BY <1>1, <1>5, <1>6, ModemKeeps

LEMMA ReceivesStep == ASSUME SessionInv, Receives PROVE SessionInv'
<1>1. /\ link = "up" /\ link' = link /\ ModemOnly /\ told' = told /\ command' = command
  BY DEF Receives
<1>2. PICK d \in Payloads : Tells(<<Line("RECV FROM:", d)>>)
  BY Zenon DEF Receives
<1>3. "GPRS_RDY" \in machineState
  BY <1>1 DEF SessionInv, OrderInv
<1>4. Line("RECV FROM:", d) \in AnyLine /\ TrueWhenSent(Line("RECV FROM:", d))
  <2>1. "RECV FROM:" \in {"+SAPBR: 1,1,", "+SAPBR: 1,3,", "RECV FROM:"}
        /\ "RECV FROM:" # "+SAPBR: 1,1,"
    BY Zenon
  <2>2. d \in Addresses \cup Payloads \cup {"0.0.0.0"}
    BY Zenon
  <2>. QED
    BY <1>3, <2>1, <2>2, CarryingLine, Zenon
<1>5. machineState' = machineState
  BY <1>1 DEF ModemOnly, state
<1> DEFINE line == Line("RECV FROM:", d)
<1>6. line \in AnyLine /\ TrueWhenSent(line) /\ Tells(<<line>>)
  BY <1>2, <1>4, Zenon
<1> HIDE DEF line
<1>7. AirInv' /\ (unheard \/ UpBehind(0) => unheard' \/ UpBehind(0)')
  BY <1>1, <1>5, <1>6, OneLine, ModemTells DEF SessionInv
<1>. QED
  BY <1>1, <1>3, <1>7, ModemKeeps

LEMMA ShortStep == ASSUME SessionInv, Short PROVE SessionInv'
<1> DEFINE text == "+CMTI: "
<1>1. /\ Tells(<<Says(text)>>) /\ link' = link /\ ModemOnly /\ told' = told
      /\ command' = command
  BY Zenon DEF Short
<1>2. text \in Other
  BY OthersSaid, Zenon
<1> HIDE DEF text
<1>3. machineState' = machineState
  BY <1>1 DEF ModemOnly, state
<1>4. AirInv' /\ (unheard \/ UpBehind(0) => unheard' \/ UpBehind(0)')
  BY <1>1, <1>2, <1>3, OtherLines, ModemTells DEF SessionInv
<1>5. link' # "down" \/ command' = ConnectCmd => "GPRS_RDY" \in machineState
  BY <1>1 DEF SessionInv, OrderInv
<1>. QED
  BY <1>1, <1>4, <1>5, ModemKeeps

LEMMA ModemStep == ASSUME SessionInv, Modem PROVE SessionInv'
BY PlainStep, CpinStep, CregStep, AddressStep, ConnectStep, SendStep, ConnectsStep, DropsStep,
   ReceivesStep, ShortStep DEF Modem

-------------------------------------------------------------------------------
(* The tester, the application and the dispatcher. *)

\* What the air invariant and the promise of the connection depend on.
LEMMA AirKept ==
  ASSUME AirInv, UNCHANGED <<air, told, link, unheard>>,
         "GPRS_RDY" \in machineState => "GPRS_RDY" \in machineState'
  PROVE  AirInv' /\ (unheard \/ UpBehind(0) => unheard' \/ UpBehind(0)')
<1>1. \A k : UpBehind(k)' <=> UpBehind(k)
  BY DEF UpBehind
<1>2. AirTrue'
  <2> SUFFICES ASSUME NEW k \in 1..Len(air'), NEW l \in Lines(air'[k]) PROVE LineTrue(l, k)'
    BY DEF AirTrue, Lines
  <2>1. LineTrue(l, k)
    BY DEF AirInv, AirTrue
  <2>. QED
    BY <1>1, <2>1 DEF LineTrue, TellsRegistered, TellsAddress, TellsConnected
<1>. QED
  BY <1>1, <1>2 DEF AirInv, AirTypeOK

LEMMA BeginStep ==
  ASSUME SessionInv, NEW f \in Function, Begin(f) PROVE SessionInv'
<1>1. /\ UNCHANGED <<machineState, ip_address, command, link, air, told, unheard>>
      /\ doing' = f /\ accepted' = {} /\ IsDue(f)
      /\ urcQueue' = IF f = "modem" THEN UrcTable ELSE urcQueue
  BY DEF Begin, Call, modem
<1>2. AirInv' /\ (unheard \/ UpBehind(0) => unheard' \/ UpBehind(0)')
  BY <1>1, AirKept DEF SessionInv
<1>3. CallInv'
  BY CallStart
<1>4. RegisteredInv' /\ AddressInv' /\ UpInv'
  BY <1>1, <1>2 DEF SessionInv, RegisteredInv, AddressInv, UpInv, MayBeUp
<1>5. /\ f = "gprs" => "GPRS_RDY" \notin machineState
      /\ f = "connect" => "MDM_RDY" \in machineState /\ "GPRS_RDY" \in machineState
  BY <1>1 DEF IsDue, Sets, Needs, Function
<1>6. OrderInv'
  BY <1>1, <1>5 DEF SessionInv, OrderInv, UrcTable, ConnectCmd
<1>. QED
  BY <1>2, <1>3, <1>4, <1>6 DEF SessionInv

\* A step that leaves what the session knows as it is.
LEMMA KnownKept ==
  ASSUME SessionInv, CallInv',
         UNCHANGED <<machineState, ip_address, command, link, air, told, unheard, doing,
                     accepted, urcQueue>>
  PROVE  SessionInv'
<1>1. AirInv' /\ (unheard \/ UpBehind(0) => unheard' \/ UpBehind(0)')
  BY AirKept DEF SessionInv
<1>2. RegisteredInv' /\ AddressInv' /\ UpInv'
  BY <1>1 DEF SessionInv, RegisteredInv, AddressInv, UpInv, MayBeUp, RegistrationCmd,
     AddressCmd, ConnectCmd
<1>3. OrderInv'
  BY DEF SessionInv, OrderInv, UrcTable, ConnectCmd
<1>. QED
  BY <1>1, <1>2, <1>3 DEF SessionInv

LEMMA FillStep == ASSUME IInv, SessionInv, Fill PROVE SessionInv'
<1>1. CallInv'
  BY CallFills DEF IInv, SessionInv
<1>2. UNCHANGED <<machineState, ip_address, command, link, air, told, unheard, doing, accepted,
                  urcQueue>>
  BY DEF Fill, Open, Add, Close, state, modem, history
<1>. QED
  BY <1>1, <1>2, KnownKept

\* A call that returns true sets the bits of its function: its last command was
\* accepted, and what that says is known to be told.
LEMMA FinishStep == ASSUME IInv, GoalInv, SessionInv, Finish PROVE SessionInv'
<1>1. /\ UNCHANGED <<ip_address, urcQueue, command, link, air, told, unheard, accepted>>
      /\ doing' = "none" /\ caller = "waiting"
      /\ machineState' = machineState \cup (IF Result THEN Sets[doing] ELSE {})
  BY DEF Finish, Return, modem, history
<1>2. CallInv'
  BY CallEnds DEF SessionInv
<1>3. AirInv' /\ (unheard \/ UpBehind(0) => unheard' \/ UpBehind(0)')
  BY <1>1, AirKept DEF SessionInv
<1>4. doing \in Function /\ goal.atCmd = GoalCmd[doing] /\ (Result <=> goal.atCmd \in accepted)
  BY <1>1 DEF SessionInv, CallInv, DoingInv, GoalInv
<1>5. /\ "MDM_RDY" \in machineState' =>
            "MDM_RDY" \in machineState \/ (doing = "modem" /\ RegistrationCmd \in accepted)
      /\ "GPRS_RDY" \in machineState' =>
            "GPRS_RDY" \in machineState \/ (doing = "gprs" /\ AddressCmd \in accepted)
      /\ "SERVER_RDY" \in machineState' =>
            "SERVER_RDY" \in machineState \/ (doing = "connect" /\ ConnectCmd \in accepted)
      /\ machineState \subseteq machineState'
  <2>1. Sets["modem"] = {"MDM_RDY"} /\ Sets["gprs"] = {"GPRS_RDY"}
        /\ Sets["connect"] = {"SERVER_RDY"} /\ Sets["send"] = {}
    BY DEF Sets
  <2>2. \/ machineState' = machineState
        \/ GoalCmd[doing] \in accepted /\ machineState' = machineState \cup Sets[doing]
    <3>1. CASE Result
      BY <1>1, <1>4, <3>1
    <3>2. CASE ~Result
      BY <1>1, <3>2
    <3>. QED
      BY <3>1, <3>2
  <2>3. CASE machineState' = machineState
    BY <2>3
  <2>4. CASE GoalCmd[doing] \in accepted /\ machineState' = machineState \cup Sets[doing]
    <3>1. CASE doing = "modem"
      BY <2>1, <2>4, <3>1, Functions
    <3>2. CASE doing = "gprs"
      BY <2>1, <2>4, <3>2, Functions
    <3>3. CASE doing = "connect"
      BY <2>1, <2>4, <3>3, Functions
    <3>4. CASE doing = "send"
      BY <2>1, <2>4, <3>4, Functions
    <3>. QED
      BY <1>4, <3>1, <3>2, <3>3, <3>4, Functions
  <2>. QED
    BY <2>2, <2>3, <2>4
<1>6. RegisteredInv' /\ AddressInv'
  BY <1>1, <1>5 DEF SessionInv, RegisteredInv, AddressInv, RegistrationCmd, AddressCmd
<1>7. UpInv'
  BY <1>1, <1>3, <1>5 DEF SessionInv, UpInv, MayBeUp
<1>8. OrderInv'
  BY <1>1, <1>5 DEF SessionInv, OrderInv, UrcTable, ConnectCmd
<1>. QED
  BY <1>2, <1>3, <1>6, <1>7, <1>8 DEF SessionInv

LEMMA SessionExecutes == ASSUME TypeOK, SessionInv, Execute PROVE SessionInv'
<1>1. /\ UNCHANGED <<machineState, ip_address, link, air, told, unheard, doing, accepted,
                     urcQueue, atCmdQueue, batch, goal, caller>>
      /\ command' = command \/ command' = CurrentSlot.atCmd
  BY DEF Execute, ExecuteAt, state, tester
<1>2. CallInv'
  BY <1>1, CallKept DEF SessionInv
<1>3. AirInv' /\ (unheard \/ UpBehind(0) => unheard' \/ UpBehind(0)')
  BY <1>1, AirKept DEF SessionInv
<1>4. RegisteredInv' /\ AddressInv' /\ UpInv'
  BY <1>1, <1>3 DEF SessionInv, RegisteredInv, AddressInv, UpInv, MayBeUp, RegistrationCmd,
     AddressCmd, ConnectCmd
<1>5. command' = ConnectCmd => command = ConnectCmd \/ doing = "connect"
  <2>1. Fits(CurrentSlot, doing)
    BY DEF TypeOK, QueueTypeOK, CurrentSlot, SessionInv, CallInv, SlotsFit
  <2>. QED
    BY <1>1, <2>1 DEF Fits
<1>6. OrderInv'
  BY <1>1, <1>5 DEF SessionInv, OrderInv, UrcTable, ConnectCmd
<1>. QED
  BY <1>2, <1>3, <1>4, <1>6 DEF SessionInv

LEMMA SessionWaits == ASSUME TypeOK, SessionInv, Wait PROVE SessionInv'
<1>1. /\ UNCHANGED <<machineState, ip_address, command, link, air, told, unheard, doing, accepted,
                     urcQueue, batch, goal, caller>>
      /\ atCmdQueue' = atCmdQueue \/ atCmdQueue' = RepeatUsed
  BY DEF Wait, RspWaitTimeOut, AfterTimeOut, RspWaitRecvd, Idle, TimerExpires, state, modem,
     tester, history, queue
<1>2. CallInv'
  BY <1>1, CallKept DEF SessionInv
<1>. QED
  BY <1>1, <1>2, KnownKept

LEMMA ApplicationStep == ASSUME SessionInv, Request \/ Configure PROVE SessionInv'
<1>1. UNCHANGED <<vars, state, modem, doing, unheard>>
  BY DEF Request, Configure, Asks
<1>2. UNCHANGED <<machineState, ip_address, command, link, air, told, unheard, doing, accepted,
                  urcQueue, atCmdQueue, batch, goal, caller>>
  BY <1>1 DEF vars, state, modem, queue, tester, history
<1>3. CallInv'
  BY <1>2 DEF SessionInv, CallInv, SlotsFit, BatchFit, DoingInv
<1>. QED
  BY <1>2, <1>3, KnownKept

-------------------------------------------------------------------------------
(* The response processor. *)

\* The messages move up by one.
LEMMA TailFacts ==
  ASSUME AirTypeOK, air # <<>>, air' = Tail(air)
  PROVE  /\ Head(air) = air[1] /\ Head(air) \in Seq(AnyLine) /\ Len(Head(air)) \in Nat
         /\ 1 \in 1..Len(air) /\ Len(air) \in Nat
         /\ air' \in Seq(Seq(AnyLine)) /\ Len(air') = Len(air) - 1
         /\ \A k \in 1..Len(air') : air'[k] = air[k + 1]
<1>1. air \in Seq(Seq(AnyLine)) /\ Len(air) \in Nat \ {0}
  BY EmptySeq DEF AirTypeOK
<1>2. /\ Head(air) \in Seq(AnyLine) /\ Tail(air) \in Seq(Seq(AnyLine))
      /\ Len(Tail(air)) = Len(air) - 1
      /\ \A i \in 1..Len(Tail(air)) : Tail(air)[i] = air[i + 1]
  BY <1>1, HeadTailProperties
<1>3. Head(air) = air[1] /\ Len(Head(air)) \in Nat
  BY <1>1, <1>2, LenProperties
<1>. QED
  BY <1>1, <1>2, <1>3

LEMMA AirMoves ==
  ASSUME AirInv, air # <<>>, air' = Tail(air), UNCHANGED <<link, told>>,
         unheard => unheard', "GPRS_RDY" \in machineState => "GPRS_RDY" \in machineState'
  PROVE  AirInv' /\ (unheard \/ UpBehind(1) => unheard' \/ UpBehind(0)')
<1>1. /\ 1 \in 1..Len(air) /\ Len(air) \in Nat /\ air' \in Seq(Seq(AnyLine))
      /\ Len(air') = Len(air) - 1 /\ \A k \in 1..Len(air') : air'[k] = air[k + 1]
  BY TailFacts DEF AirInv
<1>2. ASSUME NEW k \in 0..Len(air'), UpBehind(k + 1) PROVE UpBehind(k)'
  <2>1. ASSUME NEW j \in (k + 2)..Len(air), Closes(air[j]) PROVE UpBehind(k)'
    <3>1. j - 1 \in (k + 1)..Len(air') /\ j - 1 \in 1..Len(air') /\ (j - 1) + 1 = j
      BY <1>1
    <3>2. Closes(air'[j - 1])
      BY <1>1, <2>1, <3>1
    <3>. QED
      BY <3>1, <3>2 DEF UpBehind
  <2>2. (k + 1) + 1 = k + 2
    BY <1>1
  <2>. QED
    BY <1>2, <2>1, <2>2 DEF UpBehind
<1>3. AirTrue'
  <2> SUFFICES ASSUME NEW k \in 1..Len(air'), NEW l \in Lines(air'[k]) PROVE LineTrue(l, k)'
    BY DEF AirTrue, Lines
  <2>1. k + 1 \in 1..Len(air) /\ l \in Lines(air[k + 1]) /\ k \in 0..Len(air')
    BY <1>1
  <2>2. LineTrue(l, k + 1)
    BY <2>1 DEF AirInv, AirTrue
  <2>3. TellsConnected(l) => unheard' \/ UpBehind(k)'
    BY <1>2, <2>1, <2>2 DEF LineTrue
  <2>4. l.carries # "" => l.carries \in told' \/ "GPRS_RDY" \in machineState'
    BY <2>2 DEF LineTrue
  <2>5. /\ TellsRegistered(l) => "registered" \in told'
        /\ TellsAddress(l) => l.carries # ""
    BY <2>2 DEF LineTrue
  <2>. QED
    BY <2>3, <2>4, <2>5 DEF LineTrue, TellsRegistered, TellsAddress, TellsConnected
<1>4. 0 \in 0..Len(air') /\ 0 + 1 = 1
  BY <1>1
<1>. QED
  BY <1>1, <1>2, <1>3, <1>4 DEF AirInv, AirTypeOK

\* The table knows the URC that tells of a lost connection.
LEMMA ClosedIsKnown == \A msg : Closes(msg) => UrcEntry(UrcTable, msg) # 0
<1> SUFFICES ASSUME NEW msg, Closes(msg) PROVE UrcEntry(UrcTable, msg) # 0
  OBVIOUS
<1>1. Len(UrcTable) = 10
  BY DEF UrcTable
<1>2. UrcTable[3] = "CLOSED"
  BY DEF UrcTable
<1>3. 3 \in 1..Len(UrcTable) /\ First(msg, UrcTable[3])
  BY <1>1, <1>2 DEF Closes
<1>4. \E i \in 1..Len(UrcTable) : First(msg, UrcTable[i])
  BY <1>3
<1>5. \A i \in 1..Len(UrcTable) : i # 0
  BY <1>1
<1>6. UrcEntry(UrcTable, msg) = CHOOSE i \in 1..Len(UrcTable) : First(msg, UrcTable[i])
  BY <1>4, Zenon DEF UrcEntry
<1>7. UrcEntry(UrcTable, msg) \in 1..Len(UrcTable)
  BY <1>4, <1>6, Zenon
<1>. QED
  BY <1>5, <1>7, Zenon

LEMMA LeftFacts ==
  ASSUME NEW table, NEW msg, Len(msg) \in Nat
  PROVE  /\ Len(LeftOf(table, msg)) \in Nat
         /\ \A k \in 1..Len(LeftOf(table, msg)) : LeftOf(table, msg)[k] \in Lines(msg)
<1>1. CASE UrcEntry(table, msg) = 0
  BY <1>1 DEF LeftOf, Lines
<1>2. CASE UrcEntry(table, msg) # 0
  BY <1>2 DEF LeftOf
<1>. QED
  BY <1>1, <1>2

\* The address that is stored was told: the answer it is read from carries one, and
\* while the address is asked for no line under way carries anything else.
LEMMA AddressIsTold ==
  ASSUME SessionInv, NEW left, Len(left) \in Nat, 1 \in 1..Len(air),
         \A k \in 1..Len(left) : left[k] \in Lines(air[1]),
         doing = "gprs", RspType(HasAddress, left) = 1
  PROVE  FirstQuoted(left) \in told
<1>1. PICK k \in 1..Len(left) : left[k].says = "+SAPBR: 1,1,"
  BY AddressTold
<1>2. TellsAddress(left[k])
  BY <1>1, Zenon DEF TellsAddress
<1>3. \A j \in 1..Len(left) : LineTrue(left[j], 1)
  BY DEF SessionInv, AirInv, AirTrue
<1>4. left[k].carries # ""
  BY <1>2, <1>3 DEF LineTrue
<1>5. PICK j \in 1..Len(left) : FirstQuoted(left) = left[j].carries /\ left[j].carries # ""
  BY <1>4, FirstQuotedFacts DEF Quoted
<1>6. "GPRS_RDY" \notin machineState
  BY DEF SessionInv, OrderInv
<1>. QED
  BY <1>3, <1>5, <1>6 DEF LineTrue

\* What an answer changes in the engine: the slots are kept or emptied, and a command
\* is accepted only with the result its own callback read.
LEMMA TakenFacts ==
  ASSUME IInv, NEW left, Answered(left)
  PROVE  /\ UNCHANGED <<batch, goal, caller>>
         /\ atCmdQueue' = atCmdQueue \/ atCmdQueue' = RepeatUsed \/ QueueClear
         /\ \/ accepted' = accepted
            \/ /\ accepted' = accepted \cup {CurrentSlot.atCmd}
               /\ \E ret \in CallbackRsp(CurrentSlot.rspFunc, left) : ret \notin {"ERROR", "WAIT"}
<1>1. PICK ret \in CallbackRsp(CurrentSlot.rspFunc, left) : Taken(ret)
  BY DEF Answered
<1>2. CASE RspRetry \/ RspAbandon \/ RspWait
  BY <1>2 DEF RspRetry, RspAbandon, RspWait, RspTaken, tester, history, QueueInit
<1>3. CASE RspAccept(ret) /\ ret \notin {"ERROR", "WAIT"}
  BY <1>3 DEF RspAccept, RspTaken, tester, history
<1>4. (RspRetry \/ RspAbandon \/ RspWait) \/ (RspAccept(ret) /\ ret \notin {"ERROR", "WAIT"})
  BY <1>1 DEF Taken
<1>. QED
  BY <1>2, <1>3, <1>4

\* A command that sets a bit is accepted when its answer has told so.
LEMMA AcceptedIsTold ==
  ASSUME SessionInv, NEW left, Len(left) \in Nat, 1 \in 1..Len(air),
         \A k \in 1..Len(left) : left[k] \in Lines(air[1]),
         NEW slot, Fits(slot, doing),
         NEW ret \in CallbackRsp(slot.rspFunc, left), ret \notin {"ERROR", "WAIT"}
  PROVE  /\ slot.atCmd = RegistrationCmd => "registered" \in told
         /\ slot.atCmd = AddressCmd => /\ slot.rspFunc = "ipaddr"
                                       /\ RspType(HasAddress, left) = 1
         /\ slot.atCmd = ConnectCmd => unheard \/ UpBehind(1)
<1>1. \A j \in 1..Len(left) : LineTrue(left[j], 1)
  BY DEF SessionInv, AirInv, AirTrue
<1>2. CASE slot.rspFunc = "creg"
  <2>1. ret = CregRsp(left)
    BY <1>2 DEF CallbackRsp
  <2>2. PICK k \in 1..Len(left) : left[k].says \in {"+CREG: 0,1", "+CREG: 0,5"}
    BY <2>1, CregTold
  <2>3. TellsRegistered(left[k])
    BY <2>2, Zenon DEF TellsRegistered
  <2>4. "registered" \in told
    BY <1>1, <2>3 DEF LineTrue
  <2>. QED
    BY <1>2, <2>4 DEF Fits
<1>3. CASE slot.rspFunc = "ipaddr"
  <2>1. ret = IpRsp(left)
    BY <1>3 DEF CallbackRsp
  <2>2. RspType(HasAddress, left) = 1
    BY <2>1, AddressTold
  <2>. QED
    BY <1>3, <2>2 DEF Fits
<1>4. CASE slot.rspFunc = "connect"
  <2>1. ret = ConnectRsp(left)
    BY <1>4 DEF CallbackRsp
  <2>2. PICK k \in 1..Len(left) : left[k].says \in {"CONNECT OK", "ALREADY CONNECT"}
    BY <2>1, ConnectTold
  <2>3. TellsConnected(left[k])
    BY <2>2, Zenon DEF TellsConnected
  <2>4. unheard \/ UpBehind(1)
    BY <1>1, <2>3 DEF LineTrue
  <2>. QED
    BY <1>4, <2>4 DEF Fits
<1>. QED
  BY <1>2, <1>3, <1>4 DEF Fits

LEMMA MessageStep == ASSUME IInv, SessionInv, Message PROVE SessionInv'
<1> DEFINE msg == Head(air)
           left == LeftOf(urcQueue, msg)
<1>1. /\ air # <<>> /\ air' = Tail(air)
      /\ machineState' = IF UrcEntry(urcQueue, msg) = 0 THEN machineState ELSE StateAfterUrc(msg)
      /\ unheard' = (unheard \/ (Closes(msg) /\ doing = "connect"))
      /\ Answered(left) \/ Ignored
      /\ UNCHANGED <<command, link, told, urcQueue, doing>>
  BY DEF Message, Closes
<1>2. /\ msg = air[1] /\ Len(msg) \in Nat /\ 1 \in 1..Len(air) /\ Len(air) \in Nat
  BY <1>1, TailFacts DEF SessionInv, AirInv
<1>3. Len(left) \in Nat /\ \A k \in 1..Len(left) : left[k] \in Lines(air[1])
  BY <1>2, LeftFacts
<1>4. \/ machineState' = machineState
      \/ Closes(msg) /\ machineState' = machineState \ {"SERVER_RDY"}
  BY <1>1 DEF StateAfterUrc, Closes
<1>5. /\ "SERVER_RDY" \in machineState' => "SERVER_RDY" \in machineState
      /\ "MDM_RDY" \in machineState' <=> "MDM_RDY" \in machineState
      /\ "GPRS_RDY" \in machineState' <=> "GPRS_RDY" \in machineState
  BY <1>4
<1>6. unheard => unheard'
  BY <1>1
<1>7. AirInv' /\ (unheard \/ UpBehind(1) => unheard' \/ UpBehind(0)')
  BY <1>1, <1>5, <1>6, AirMoves DEF SessionInv
<1>8. Fits(CurrentSlot, doing)
  BY DEF IInv, TypeOK, QueueTypeOK, CurrentSlot, SessionInv, CallInv, SlotsFit
\* The engine's part.
<1>9. /\ UNCHANGED <<batch, goal, caller>>
      /\ atCmdQueue' = atCmdQueue \/ atCmdQueue' = RepeatUsed \/ QueueClear
      /\ \/ accepted' = accepted
         \/ /\ accepted' = accepted \cup {CurrentSlot.atCmd}
            /\ \E ret \in CallbackRsp(CurrentSlot.rspFunc, left) : ret \notin {"ERROR", "WAIT"}
      /\ \/ ip_address' = ip_address
         \/ /\ ip_address' = FirstQuoted(left) /\ CurrentSlot.rspFunc = "ipaddr"
            /\ RspType(HasAddress, left) = 1
      /\ CurrentSlot.rspFunc = "ipaddr" /\ RspType(HasAddress, left) = 1 /\ accepted' # accepted
           => ip_address' = FirstQuoted(left)
  <2>1. CASE Answered(left)
    <3>1. ip_address' = IF CurrentSlot.rspFunc = "ipaddr" /\ RspType(HasAddress, left) = 1
                          THEN FirstQuoted(left) ELSE ip_address
      BY <2>1 DEF Answered
    <3>. QED
      BY <2>1, <3>1, TakenFacts
  <2>2. CASE Ignored
    BY <2>2 DEF Ignored, vars, queue, tester, history
  <2>. QED
    BY <1>1, <2>1, <2>2
<1>10. CallInv'
  BY <1>1, <1>9, CallKept DEF IInv, SessionInv
<1>11. ASSUME accepted' # accepted
       PROVE  /\ accepted' = accepted \cup {CurrentSlot.atCmd}
              /\ CurrentSlot.atCmd = RegistrationCmd => "registered" \in told
              /\ CurrentSlot.atCmd = AddressCmd => /\ CurrentSlot.rspFunc = "ipaddr"
                                                   /\ RspType(HasAddress, left) = 1
              /\ CurrentSlot.atCmd = ConnectCmd => unheard \/ UpBehind(1)
  <2>1. PICK ret \in CallbackRsp(CurrentSlot.rspFunc, left) : ret \notin {"ERROR", "WAIT"}
    BY <1>9, <1>11
  <2> HIDE DEF left
  <2>. QED
    BY <1>2, <1>3, <1>8, <1>9, <1>11, <2>1, AcceptedIsTold
<1> HIDE DEF left, msg
<1>12. RegisteredInv'
  BY <1>1, <1>5, <1>11 DEF SessionInv, RegisteredInv, RegistrationCmd
<1>13. AddressInv'
  <2>1. ASSUME CurrentSlot.rspFunc = "ipaddr", RspType(HasAddress, left) = 1
        PROVE  FirstQuoted(left) \in told
    <3>1. doing = "gprs"
      BY <1>8, <2>1 DEF Fits
    <3>. QED
      BY <1>2, <1>3, <2>1, <3>1, AddressIsTold
  <2>2. CASE ip_address' = ip_address
    <3>1. AddressCmd \in accepted' => AddressCmd \in accepted \/ ip_address \in told
      BY <1>9, <1>11, <2>1, <2>2
    <3>. QED
      BY <1>1, <1>5, <2>2, <3>1 DEF SessionInv, AddressInv, AddressCmd
  <2>3. CASE ip_address' # ip_address
    <3>1. ip_address' \in told'
      BY <1>1, <1>9, <2>1, <2>3
    <3>. QED
      BY <3>1 DEF AddressInv
  <2>. QED
    BY <2>2, <2>3
<1>14. UpInv'
  <2> SUFFICES ASSUME MayBeUp', ~unheard' PROVE UpBehind(0)'
    BY DEF UpInv
  <2>1. CASE MayBeUp
    <3>1. UpBehind(0)
      BY <1>6, <2>1 DEF SessionInv, UpInv
    <3>2. CASE UpBehind(1)
      BY <1>7, <3>2
    <3>3. CASE ~UpBehind(1)
      <4>1. Closes(msg)
        <5>1. link # "up" /\ ~\E j \in (1 + 1)..Len(air) : Closes(air[j])
          BY <3>3 DEF UpBehind
        <5>2. PICK j \in (0 + 1)..Len(air) : Closes(air[j])
          BY <3>1, <5>1 DEF UpBehind
        <5>3. j = 1
          BY <1>2, <5>1, <5>2
        <5>. QED
          BY <1>2, <5>2, <5>3
      <4>2. doing # "connect"
        BY <1>1, <4>1
      <4>3. "SERVER_RDY" \in machineState
        BY <2>1, <4>2 DEF MayBeUp
      <4>4. urcQueue = UrcTable
        BY <4>3 DEF SessionInv, OrderInv
      <4>5. UrcEntry(urcQueue, msg) # 0
        BY <4>1, <4>4, ClosedIsKnown
      <4>6. machineState' = machineState \ {"SERVER_RDY"}
        BY <1>1, <4>1, <4>5 DEF StateAfterUrc, Closes
      <4>7. ~MayBeUp'
        BY <1>1, <4>2, <4>6 DEF MayBeUp
      <4>. QED
        BY <4>7
    <3>. QED
      BY <3>2, <3>3
  <2>2. CASE ~MayBeUp
    <3>1. doing = "connect" /\ ConnectCmd \in accepted' /\ ConnectCmd \notin accepted
      BY <1>1, <1>5, <2>2 DEF MayBeUp, ConnectCmd
    <3>2. unheard \/ UpBehind(1)
      BY <1>11, <3>1
    <3>. QED
      BY <1>7, <3>2
  <2>. QED
    BY <2>1, <2>2
<1>15. OrderInv'
  BY <1>1, <1>5 DEF SessionInv, OrderInv, UrcTable, ConnectCmd
<1>. QED
  BY <1>7, <1>10, <1>12, <1>13, <1>14, <1>15 DEF SessionInv

-------------------------------------------------------------------------------
LEMMA SessionInit == SInit => SessionInv
<1> SUFFICES ASSUME SInit PROVE SessionInv
  OBVIOUS
<1>1. /\ air = <<>> /\ batch = <<>> /\ caller = "idle" /\ accepted = {}
      /\ machineState = {} /\ doing = "none" /\ link = "down" /\ command = NoCmd
      /\ atCmdQueue = EmptySlots
  BY DEF SInit, Init, QueueZeroed
<1>2. Len(air) = 0 /\ Len(batch) = 0 /\ air \in Seq(Seq(AnyLine))
  BY <1>1, EmptySeq
<1>3. AirInv
  BY <1>2 DEF AirInv, AirTypeOK, AirTrue
<1>4. CallInv
  BY <1>1, <1>2, EmptyFits DEF CallInv, SlotsFit, BatchFit, DoingInv, EmptySlots
<1>5. RegisteredInv /\ AddressInv /\ UpInv
  BY <1>1 DEF RegisteredInv, AddressInv, UpInv, MayBeUp
<1>6. OrderInv
  BY <1>1, NamesDiffer DEF OrderInv
<1>. QED
  BY <1>3, <1>4, <1>5, <1>6 DEF SessionInv

LEMMA SessionInductive ==
  IInv /\ GoalInv /\ SessionInv /\ [SNext]_svars => SessionInv'
<1> SUFFICES ASSUME IInv, GoalInv, SessionInv, [SNext]_svars PROVE SessionInv'
  OBVIOUS
<1>1. TypeOK
  BY DEF IInv
<1>2. ASSUME NEW f \in Function, Begin(f) PROVE SessionInv'
  BY <1>2, BeginStep
<1>3. CASE Fill
  BY <1>3, FillStep
<1>4. CASE Finish
  BY <1>4, FinishStep
<1>5. CASE Request \/ Configure
  BY <1>5, ApplicationStep
<1>6. CASE Execute
  BY <1>1, <1>6, SessionExecutes
<1>7. CASE Wait
  BY <1>1, <1>7, SessionWaits
<1>8. CASE Message
  BY <1>8, MessageStep
<1>9. CASE Modem
  BY <1>9, ModemStep
<1>10. CASE UNCHANGED svars
  <2>1. UNCHANGED <<machineState, ip_address, command, link, air, told, unheard, doing, accepted,
                    urcQueue, atCmdQueue, batch, goal, caller>>
    BY <1>10 DEF svars, vars, state, modem, queue, tester, history
  <2>2. CallInv'
    BY <2>1 DEF SessionInv, CallInv, SlotsFit, BatchFit, DoingInv
  <2>. QED
    BY <2>1, <2>2, KnownKept
<1>. QED
  BY <1>2, <1>3, <1>4, <1>5, <1>6, <1>7, <1>8, <1>9, <1>10 DEF SNext

\* Whatever the modem answers, loses or tells late: every line under way is true, every
\* command has the callback that reads its answer, and what was accepted was told.
THEOREM SessionInvariant == SSpec => []SessionInv
<1>1. SSpec => []IInv /\ []GoalInv
  BY SessionIsEngine, EngineInvariant, StatusTellsGoal, PTL
<1>. QED
  BY <1>1, SessionInit, SessionInductive, PTL DEF SSpec

\* The bits of machineState say what the modem has told: the module is registered, the
\* stored address is one it gave, and it is connected once every message is taken,
\* unless CLOSED came where nothing looks for it.
THEOREM BitsAreTold == SSpec => []ReadyIsTold
<1>1. SessionInv => ReadyIsTold
  <2> SUFFICES ASSUME SessionInv PROVE ReadyIsTold
    OBVIOUS
  <2>1. ASSUME air = <<>>, UpBehind(0) PROVE link = "up"
    <3>1. Len(air) = 0 /\ 0 + 1 = 1 /\ ~\E j \in 1..0 : TRUE
      BY <2>1
    <3>. QED
      BY <2>1, <3>1 DEF UpBehind
  <2>. QED
    BY <2>1 DEF SessionInv, RegisteredInv, AddressInv, UpInv, MayBeUp, ReadyIsTold
<1>. QED
  BY <1>1, SessionInvariant, PTL

-------------------------------------------------------------------------------
(* What the packet writer writes can be read back. *)

\* From position p on, b has the bytes of s.
Holds(b, p, s) == /\ p \in Nat \ {0} /\ p + Len(s) <= Len(b) + 1
                  /\ \A i \in 1..Len(s) : b[p + i - 1] = s[i]

LEMMA HoldsConcat ==
  ASSUME NEW b \in Seq(Byte), NEW s \in Seq(Byte), NEW t \in Seq(Byte), NEW p,
         Holds(b, p, s \o t)
  PROVE  Holds(b, p, s) /\ Holds(b, p + Len(s), t)
<1> DEFINE T == Byte
<1>1. b \in Seq(T) /\ s \in Seq(T) /\ t \in Seq(T)
  OBVIOUS
<1> HIDE DEF T
<1>2. /\ Len(s) \in Nat /\ Len(t) \in Nat /\ Len(b) \in Nat /\ p \in Nat \ {0}
      /\ Len(s \o t) = Len(s) + Len(t)
      /\ p + Len(s \o t) <= Len(b) + 1
  BY <1>1 DEF Holds
<1>3. \A i \in 1..Len(s) : b[p + i - 1] = s[i]
  <2> SUFFICES ASSUME NEW i \in 1..Len(s) PROVE b[p + i - 1] = s[i]
    OBVIOUS
  <2>1. i \in 1..Len(s \o t) /\ (s \o t)[i] = s[i]
    BY <1>1, <1>2
  <2>. QED
    BY <2>1 DEF Holds
<1>4. \A i \in 1..Len(t) : b[p + Len(s) + i - 1] = t[i]
  <2> SUFFICES ASSUME NEW i \in 1..Len(t) PROVE b[p + Len(s) + i - 1] = t[i]
    OBVIOUS
  <2> DEFINE j == Len(s) + i
  <2>1. j \in 1..Len(s \o t) /\ (s \o t)[j] = t[i]
    BY <1>1, <1>2
  <2>2. b[p + j - 1] = (s \o t)[j]
    BY <2>1 DEF Holds
  <2>3. p + j - 1 = p + Len(s) + i - 1
    BY <1>2
  <2>. QED
    BY <2>1, <2>2, <2>3
<1>. QED
  BY <1>2, <1>3, <1>4 DEF Holds

LEMMA Divided ==
  ASSUME NEW n \in Word
  PROVE  /\ (n \div 256) \in Byte /\ (n % 256) \in Byte
         /\ ((n \div 256) % 256) = (n \div 256)
         /\ (256 * (n \div 256)) + (n % 256) = n
<1>1. n \in Nat /\ n < 256 * 256
  BY DEF Word
<1>2. (n \div 256) \in Nat /\ (n % 256) \in 0..255 /\ (256 * (n \div 256)) + (n % 256) = n
  BY <1>1
<1>3. (n \div 256) < 256
  BY <1>1
<1>4. (n \div 256) \in 0..255
  <2>1. \A q \in Nat : q < 256 => q \in 0..255
    OBVIOUS
  <2>. QED
    BY Zenon, <1>2, <1>3, <2>1
<1>5. \A k \in 0..255 : (k % 256) = k
  OBVIOUS
<1>. QED
  BY Zenon, <1>2, <1>4, <1>5 DEF Byte

LEMMA SmallWord == ASSUME NEW m \in 0..255 PROVE m \in Word
<1> DEFINE w == 256 * 256 - 1
<1>1. w \in Nat /\ 255 <= w
  OBVIOUS
<1> HIDE DEF w
<1>2. m \in 0..w
  BY <1>1
<1>. QED
  BY <1>2 DEF Word, w

LEMMA BytesOfTwo ==
  ASSUME NEW n \in Word
  PROVE  /\ Two(n) \in Seq(Byte) /\ Len(Two(n)) = 2 /\ Two(n)[1] \in Byte /\ Two(n)[2] \in Byte
         /\ 256 * Two(n)[1] + Two(n)[2] = n
<1> DEFINE T == Byte  x == (n \div 256) % 256  y == n % 256
<1>1. x \in T /\ y \in T
  <2>1. (n \div 256) \in Byte /\ (n % 256) \in Byte
    BY Zenon, Divided
  <2>2. ((n \div 256) % 256) = (n \div 256)
    BY Zenon, Divided
  <2>. QED
    BY Zenon, <2>1, <2>2
<1>2. 256 * x + y = n
  BY Zenon, Divided
<1>3. Two(n) = <<x, y>>
  BY DEF Two
<1> HIDE DEF T, x, y
<1>4. <<x, y>> \in Seq(T) /\ Len(<<x, y>>) = 2 /\ <<x, y>>[1] = x /\ <<x, y>>[2] = y
  BY <1>1
<1>. QED
  BY Zenon, <1>1, <1>2, <1>3, <1>4 DEF T

\* A text that is written as a field
Brief(t) == t \in Seq(Byte) /\ Len(t) \in Word

LEMMA FieldIs ==
  ASSUME NEW t, Brief(t)
  PROVE  Field(t) \in Seq(Byte) /\ Len(Field(t)) = 2 + Len(t) /\ Len(t) \in Nat
<1> DEFINE T == Byte
<1>0. t \in Seq(T)
  BY DEF Brief
<1> HIDE DEF T
<1>1. Len(t) \in Nat
  BY <1>0
<1>2. Two(Len(t)) \in Seq(T) /\ Len(Two(Len(t))) = 2
  BY Zenon, BytesOfTwo DEF T, Brief
<1>3. \A u, v \in Seq(T) : u \o v \in Seq(T) /\ Len(u \o v) = Len(u) + Len(v)
  OBVIOUS
<1>. QED
  BY <1>0, <1>1, <1>2, <1>3 DEF Field, T

\* What is read at a place where a field is
LEMMA FieldRead ==
  ASSUME NEW b \in Seq(Byte), NEW t, Brief(t), NEW p, Holds(b, p, Field(t))
  PROVE  /\ p \in Nat \ {0} /\ p + 2 + Len(t) <= Len(b) + 1 /\ Len(t) \in Nat
         /\ 256 * b[p] + b[p + 1] = Len(t)
         /\ SubSeq(b, p + 2, p + 2 + Len(t) - 1) = t
<1> DEFINE T == Byte  n == Len(t)  w == Two(n)
<1>1. b \in Seq(T) /\ t \in Seq(T) /\ w \in Seq(T) /\ Len(w) = 2
  BY Zenon, BytesOfTwo DEF Brief
<1>2. Holds(b, p, w) /\ Holds(b, p + Len(w), t)
  BY Zenon, <1>1, HoldsConcat DEF Field
<1>3. 256 * w[1] + w[2] = n
  BY Zenon, BytesOfTwo DEF Brief
<1>4. n \in Nat
  BY <1>1
<1> HIDE DEF T, w
<1>5. p \in Nat \ {0} /\ p + 2 + Len(t) <= Len(b) + 1
      /\ \A i \in 1..Len(t) : b[p + 2 + i - 1] = t[i]
  BY <1>1, <1>2 DEF Holds
<1>6. b[p] = w[1] /\ b[p + 1] = w[2]
  <2>1. \A i \in 1..2 : b[p + i - 1] = w[i]
    BY <1>1, <1>2 DEF Holds
  <2>2. b[p + 1 - 1] = w[1] /\ b[p + 2 - 1] = w[2]
    BY <2>1
  <2>3. p + 1 - 1 = p /\ p + 2 - 1 = p + 1
    BY <1>5
  <2>. QED
    BY <2>2, <2>3
<1>7. SubSeq(b, p + 2, p + 2 + Len(t) - 1) = t
  <2> DEFINE u == SubSeq(b, p + 2, p + 2 + Len(t) - 1)
  <2>1. Len(t) \in Nat /\ Len(b) \in Nat
    BY <1>1
  <2>2. u \in Seq(T) /\ Len(u) = Len(t) /\ \A i \in 1..Len(t) : u[i] = b[p + 2 + i - 1]
    BY <1>1, <1>5, <2>1
  <2> HIDE DEF u
  <2>3. \A i \in 1..Len(t) : u[i] = t[i]
    BY <1>5, <2>2
  <2>4. u = t
    BY <1>1, <2>2, <2>3
  <2>. QED
    BY Zenon, <2>4 DEF u
<1>. QED
  BY <1>3, <1>4, <1>5, <1>6, <1>7

BriefText == {t \in Seq(Byte) : Len(t) \in Word}
Fielded(b, e, k, t) == Holds(b, e[k - 1], Field(t)) /\ e[k] = e[k - 1] + 2 + Len(t)
\* From place first to place end, b has the fields of some texts.
Spells(b, first, texts, end) ==
  \E e \in [0..Len(texts) -> Nat] :
    e[0] = first /\ e[Len(texts)] = end /\ \A k \in 1..Len(texts) : Fielded(b, e, k, texts[k])

LEMMA SpellsNone ==
  ASSUME NEW b, NEW first \in Nat
  PROVE  Spells(b, first, <<>>, first)
<1> DEFINE e == [k \in 0..0 |-> first]
<1>1. e \in [0..0 -> Nat] /\ e[0] = first
  OBVIOUS
<1> HIDE DEF e
<1>2. Len(<<>>) = 0 /\ \A k \in 1..0 : FALSE
  OBVIOUS
<1>3. \A k \in 1..Len(<<>>) : Fielded(b, e, k, <<>>[k])
  BY <1>2
<1>. QED
  BY Zenon, <1>1, <1>2, <1>3 DEF Spells

LEMMA SpellsMore ==
  ASSUME NEW b, NEW first, NEW texts \in Seq(BriefText), NEW end, NEW t \in BriefText,
         Spells(b, first, texts, end), Holds(b, end, Field(t))
  PROVE  /\ Spells(b, first, texts \o <<t>>, end + 2 + Len(t))
         /\ texts \o <<t>> \in Seq(BriefText)
<1> DEFINE n == Len(texts)
           m == Len(t)
           more == texts \o <<t>>
           R == BriefText
<1>1. n \in Nat /\ m \in Nat
  <2>1. t \in Seq(Byte)
    BY DEF BriefText
  <2>. QED
    BY <2>1
<1>2. texts \in Seq(R) /\ t \in R
  OBVIOUS
<1> HIDE DEF R
<1>3. more \in Seq(R) /\ Len(more) = n + 1 /\ more[n + 1] = t /\ \A k \in 1..n : more[k] = texts[k]
  BY <1>2
<1>4. PICK e \in [0..n -> Nat] : /\ e[0] = first /\ e[n] = end
                                 /\ \A k \in 1..n : Fielded(b, e, k, texts[k])
  BY Zenon DEF Spells
<1> HIDE DEF n, m, more
<1> DEFINE h == [k \in 0..(n + 1) |-> IF k = n + 1 THEN end + 2 + m ELSE e[k]]
<1>5. end \in Nat
  BY <1>1, <1>4
<1>6. h \in [0..(n + 1) -> Nat] /\ h[0] = first /\ h[n + 1] = end + 2 + m /\ h[n] = end
      /\ \A k \in 0..n : h[k] = e[k]
  BY <1>1, <1>4, <1>5
<1> HIDE DEF h
<1>7. \A k \in 1..n : Fielded(b, h, k, more[k])
  <2> SUFFICES ASSUME NEW k \in 1..n PROVE Fielded(b, h, k, more[k])
    OBVIOUS
  <2>1. k \in 0..n /\ k - 1 \in 0..n
    BY <1>1
  <2>2. h[k] = e[k] /\ h[k - 1] = e[k - 1]
    BY Zenon, <2>1, <1>6
  <2>3. Fielded(b, e, k, texts[k]) /\ more[k] = texts[k]
    BY Zenon, <1>3, <1>4
  <2>. QED
    BY Zenon, <2>2, <2>3 DEF Fielded
<1>8. Fielded(b, h, n + 1, more[n + 1])
  <2>1. (n + 1) - 1 = n
    BY <1>1
  <2>2. h[(n + 1) - 1] = end
    BY Zenon, <2>1, <1>6
  <2>3. h[n + 1] = h[(n + 1) - 1] + 2 + Len(t)
    BY Zenon, <2>2, <1>6 DEF m
  <2>4. Holds(b, h[(n + 1) - 1], Field(t))
    BY Zenon, <2>2
  <2>. QED
    BY Zenon, <2>3, <2>4, <1>3 DEF Fielded
<1>9. \A k \in 1..(n + 1) : k \in 1..n \/ k = n + 1
  BY <1>1
<1>10. Spells(b, first, more, end + 2 + m)
  <2>1. \A k \in 1..Len(more) : Fielded(b, h, k, more[k])
    BY Zenon, <1>3, <1>7, <1>8, <1>9
  <2>. QED
    BY Zenon, <1>3, <1>6, <2>1 DEF Spells
<1>. QED
  BY Zenon, <1>3, <1>10 DEF R, m, more

LEMMA ByteAt ==
  ASSUME NEW b \in Seq(Byte), NEW i \in 1..Len(b)
  PROVE  b[i] \in Int /\ b[i] \in Byte
<1>1. b[i] \in Byte
  OBVIOUS
<1>2. \A x \in Byte : x \in Int
  BY DEF Byte
<1>. QED
  BY Zenon, <1>1, <1>2

\* What is read of such bytes is the texts.
LEMMA SpelledIsRead ==
  ASSUME NEW b \in Seq(Byte), NEW first, NEW texts \in Seq(BriefText), NEW end,
         Spells(b, first, texts, end)
  PROVE  /\ Fields(b, first, Len(texts)) = texts
         /\ FieldEnds(b, first, Len(texts))[Len(texts)] = end
<1> DEFINE n == Len(texts)
           R == BriefText
           At(x) == x + 2 + 256 * b[x] + b[x + 1]
<1>1. n \in Nat
  OBVIOUS
<1>2. PICK e \in [0..n -> Nat] : /\ e[0] = first /\ e[n] = end
                                 /\ \A k \in 1..n : Fielded(b, e, k, texts[k])
  BY Zenon DEF Spells
<1>3. texts \in Seq(R) /\ DOMAIN texts = 1..n
  OBVIOUS
<1>4. \A k \in 1..n : texts[k] \in R
  <2> HIDE DEF R
  <2>. QED
    BY <1>3
<1>5. \A k \in 1..n : /\ e[k] = At(e[k - 1])
                      /\ SubSeq(b, e[k - 1] + 2, e[k] - 1) = texts[k]
  <2> SUFFICES ASSUME NEW k \in 1..n
               PROVE  /\ e[k] = At(e[k - 1])
                      /\ SubSeq(b, e[k - 1] + 2, e[k] - 1) = texts[k]
    OBVIOUS
  <2> DEFINE t == texts[k]  q == e[k - 1]
  <2>1. Brief(t)
    BY Zenon, <1>4 DEF Brief, BriefText
  <2>2. Holds(b, q, Field(t)) /\ e[k] = q + 2 + Len(t)
    BY Zenon, <1>2 DEF Fielded
  <2>3. /\ q \in Nat \ {0} /\ q + 2 + Len(t) <= Len(b) + 1 /\ Len(t) \in Nat
        /\ 256 * b[q] + b[q + 1] = Len(t)
        /\ SubSeq(b, q + 2, q + 2 + Len(t) - 1) = t
    <3> HIDE DEF t, q, n
    <3>. QED
      BY <2>1, <2>2, FieldRead
  <2> HIDE DEF t, q, n
  <2>4. Len(b) \in Nat
    OBVIOUS
  <2>5. q \in 1..Len(b) /\ q + 1 \in 1..Len(b)
    BY <2>3, <2>4
  <2>6. b[q] \in Int /\ b[q + 1] \in Int
    BY <2>5, ByteAt
  <2>7. \A x, y, l \in Int : 256 * x + y = l => q + 2 + 256 * x + y = q + 2 + l
    BY <2>3
  <2>8. q + 2 + 256 * b[q] + b[q + 1] = q + 2 + Len(t)
    <3> DEFINE x == b[q]  y == b[q + 1]  l == Len(t)
    <3>1. x \in Int /\ y \in Int /\ l \in Int /\ 256 * x + y = l
      BY <2>3, <2>6
    <3> HIDE DEF x, y, l
    <3>2. q + 2 + 256 * x + y = q + 2 + l
      BY <2>7, <3>1
    <3>. QED
      BY Zenon, <3>2 DEF x, y, l
  <2>9. e[k] - 1 = q + 2 + Len(t) - 1 /\ e[k] = At(q)
    <3>1. (q + 2 + Len(t)) - 1 = q + 2 + Len(t) - 1
      BY <2>3
    <3>. QED
      BY Zenon, <2>2, <2>8, <3>1 DEF At
  <2>10. SubSeq(b, q + 2, e[k] - 1) = t
    BY Zenon, <2>3, <2>9
  <2> HIDE DEF At
  <2>. QED
    BY Zenon, <2>9, <2>10 DEF q, t
<1> DEFINE Rec(f) == f = [k \in 0..n |-> IF k = 0 THEN first ELSE At(f[k - 1])]
<1> HIDE DEF n, At
<1>6. Rec(e)
  <2>1. \A k \in 0..n : k # 0 => k \in 1..n
    BY <1>1
  <2>2. \A k \in 0..n : e[k] = IF k = 0 THEN first ELSE At(e[k - 1])
    BY <1>2, <1>5, <2>1
  <2>. QED
    BY <1>2, <2>2
<1>7. ASSUME NEW f, Rec(f) PROVE f = e
  <2> DEFINE Bad == {k \in 0..n : f[k] # e[k]}
  <2>1. \A k \in 0..n : f[k] = IF k = 0 THEN first ELSE At(f[k - 1])
    BY <1>7
  <2>2. Bad = {}
    <3> SUFFICES ASSUME Bad # {} PROVE FALSE
      OBVIOUS
    <3>1. Bad \in SUBSET Nat
      BY <1>1
    <3>2. PICK k \in Bad : \A y \in Bad : k <= y
      <4> HIDE DEF Bad
      <4>. QED
        BY <3>1, LeastNat
    <3>3. k \in 0..n /\ f[k] # e[k]
      OBVIOUS
    <3>4. k # 0
      BY <1>1, <1>2, <2>1, <3>3
    <3>5. k \in 1..n /\ k - 1 \in 0..n /\ ~(k <= k - 1)
      BY <1>1, <3>3, <3>4
    <3>6. f[k - 1] = e[k - 1]
      BY <3>2, <3>5
    <3>7. f[k] = At(f[k - 1]) /\ e[k] = At(e[k - 1])
      BY Zenon, <1>5, <2>1, <3>3, <3>4, <3>5
    <3>. QED
      BY Zenon, <3>3, <3>6, <3>7
  <2>3. \A k \in 0..n : f[k] = e[k]
    BY <2>2
  <2>4. f = [k \in 0..n |-> f[k]] /\ e = [k \in 0..n |-> e[k]]
    BY <1>2, <1>7
  <2>. QED
    BY <2>3, <2>4
<1>8. (CHOOSE f : Rec(f)) = e
  <2> HIDE DEF Rec
  <2>. QED
    BY <1>6, <1>7
<1>9. FieldEnds(b, first, n) = e
  BY Zenon, <1>8 DEF FieldEnds, At
<1>10. Fields(b, first, n) = texts
  <2>1. Fields(b, first, n) = [k \in 1..n |-> SubSeq(b, e[k - 1] + 2, e[k] - 1)]
    BY <1>9 DEF Fields
  <2>2. texts = [k \in 1..n |-> texts[k]]
    BY <1>3
  <2>. QED
    BY <1>5, <2>1, <2>2
<1>. QED
  BY Zenon, <1>2, <1>9, <1>10 DEF n

\* A text that is there or not
Optional(given, t) == IF given THEN Field(t) ELSE <<>>
OptionalText(given, t) == IF given THEN <<t>> ELSE <<>>

LEMMA OptionalIs ==
  ASSUME NEW given \in BOOLEAN, NEW t \in BriefText
  PROVE  /\ Optional(given, t) \in Seq(Byte) /\ Len(t) \in Nat
         /\ Len(Optional(given, t)) = IF given THEN 2 + Len(t) ELSE 0
<1>1. Brief(t)
  BY DEF Brief, BriefText
<1>2. Field(t) \in Seq(Byte) /\ Len(Field(t)) = 2 + Len(t) /\ Len(t) \in Nat
  BY Zenon, <1>1, FieldIs
<1>3. <<>> \in Seq(Byte) /\ Len(<<>>) = 0
  OBVIOUS
<1>4. CASE given
  BY Zenon, <1>2, <1>4 DEF Optional
<1>5. CASE ~given
  <2>1. Optional(given, t) = <<>>
    BY Zenon, <1>5 DEF Optional
  <2>. QED
    BY <1>2, <1>3, <1>5, <2>1
<1>. QED
  BY Zenon, <1>4, <1>5

LEMMA SpellsOptional ==
  ASSUME NEW b, NEW first, NEW texts \in Seq(BriefText), NEW end \in Nat, NEW t \in BriefText,
         NEW given \in BOOLEAN,
         Spells(b, first, texts, end), Holds(b, end, Optional(given, t))
  PROVE  /\ Spells(b, first, texts \o OptionalText(given, t), end + Len(Optional(given, t)))
         /\ texts \o OptionalText(given, t) \in Seq(BriefText)
<1>1. CASE given
  <2>1. Optional(given, t) = Field(t) /\ OptionalText(given, t) = <<t>>
    BY Zenon, <1>1 DEF Optional, OptionalText
  <2>2. /\ Spells(b, first, texts \o <<t>>, end + 2 + Len(t))
        /\ texts \o <<t>> \in Seq(BriefText)
    BY Zenon, <2>1, SpellsMore
  <2>3. Len(Optional(given, t)) = 2 + Len(t) /\ Len(t) \in Nat
    BY Zenon, <1>1, OptionalIs
  <2>4. end + Len(Optional(given, t)) = end + 2 + Len(t)
    BY <2>3
  <2>. QED
    BY Zenon, <2>1, <2>2, <2>4
<1>2. CASE ~given
  <2>1. Optional(given, t) = <<>> /\ OptionalText(given, t) = <<>>
    BY Zenon, <1>2 DEF Optional, OptionalText
  <2>2. texts \o <<>> = texts
    <3> DEFINE R == BriefText
    <3>1. texts \in Seq(R)
      OBVIOUS
    <3> HIDE DEF R
    <3>. QED
      BY <3>1
  <2>3. Len(<<>>) = 0 /\ end + 0 = end
    OBVIOUS
  <2>. QED
    BY Zenon, <2>1, <2>2, <2>3
<1>. QED
  BY <1>1, <1>2

LEMMA HoldsPrefix ==
  ASSUME NEW b \in Seq(Byte), NEW m \in Nat, m <= Len(b), NEW p, NEW s \in Seq(Byte),
         Holds(b, p, s), p + Len(s) <= m + 1
  PROVE  Holds(SubSeq(b, 1, m), p, s)
<1> DEFINE T == Byte  u == SubSeq(b, 1, m)
<1>1. b \in Seq(T) /\ s \in Seq(T) /\ Len(s) \in Nat /\ Len(b) \in Nat
  OBVIOUS
<1>2. p \in Nat \ {0} /\ \A i \in 1..Len(s) : b[p + i - 1] = s[i]
  BY DEF Holds
<1> HIDE DEF T
<1>3. Len(u) = m /\ \A i \in 1..m : u[i] = b[i]
  BY <1>1
<1> HIDE DEF u
<1>4. \A i \in 1..Len(s) : p + i - 1 \in 1..m
  BY <1>1, <1>2
<1>5. \A i \in 1..Len(s) : u[p + i - 1] = s[i]
  BY Zenon, <1>2, <1>3, <1>4
<1>6. p + Len(s) <= Len(u) + 1
  BY <1>3
<1>. QED
  BY Zenon, <1>2, <1>5, <1>6 DEF Holds, u
-------------------------------------------------------------------------------
(* A frame that a writer begins and fills. *)

\* What every writer finds, and leaves
FrameLike(f) == f \in [data : [0..(MQTT_BUFF_SIZE - 1) -> Byte], totalSize : Nat,
                       nextPos : Nat, packetType : PacketType]

LEMMA WrittenIs ==
  ASSUME NEW f, FrameLike(f), f.nextPos = 2, NEW s \in Seq(Byte), NEW n \in Nat, n = Len(s),
         2 + n <= MQTT_BUFF_SIZE
  PROVE  /\ FrameLike(Written(f, s)) /\ Written(f, s).nextPos = 2 + n
         /\ Written(f, s).data[0] = f.data[0]
         /\ \A i \in 1..n : Written(f, s).data[1 + i] = s[i]
<1> DEFINE T == Byte
           D == 0..(MQTT_BUFF_SIZE - 1)
           old == f.data
           new == [i \in D |-> IF i >= 2 /\ i < 2 + n THEN s[i - 2 + 1] ELSE old[i]]
           g == Written(f, s)
<1>1. /\ old \in [D -> T] /\ f.totalSize \in Nat /\ f.packetType \in PacketType
      /\ DOMAIN f = {"data", "totalSize", "nextPos", "packetType"}
  BY DEF FrameLike
<1>2. g = [f EXCEPT !.data = new, !.nextPos = 2 + n]
  <2>1. DOMAIN f.data = D
    BY <1>1
  <2>. QED
    BY <2>1 DEF Written
<1>3. MQTT_BUFF_SIZE \in Nat
  BY FrameSizeAssumption
<1>4. \A i \in D : i >= 2 /\ i < 2 + n => i - 2 + 1 \in 1..n
  BY <1>3
<1>5. \A i \in 1..n : s[i] \in T
  <2>1. s \in Seq(T)
    OBVIOUS
  <2> HIDE DEF T
  <2>. QED
    BY <2>1
<1> HIDE DEF T
<1>6. new \in [D -> T]
  BY <1>1, <1>4, <1>5
<1>7. new[0] = old[0]
  <2>1. 0 \in D /\ ~(0 >= 2)
    BY <1>3
  <2>. QED
    BY <2>1
<1>8. \A i \in 1..n : new[1 + i] = s[i]
  <2> SUFFICES ASSUME NEW i \in 1..n PROVE new[1 + i] = s[i]
    OBVIOUS
  <2>1. 1 + i \in D /\ 1 + i >= 2 /\ 1 + i < 2 + n /\ 1 + i - 2 + 1 = i
    BY <1>3
  <2>. QED
    BY <2>1
<1> HIDE DEF new
<1>9. /\ g.data = new /\ g.nextPos = 2 + n /\ g.totalSize = f.totalSize
      /\ g.packetType = f.packetType
      /\ g = [data |-> new, totalSize |-> f.totalSize, nextPos |-> 2 + n,
              packetType |-> f.packetType]
  <2> HIDE DEF g, D, old
  <2>. QED
    BY <1>1, <1>2 DEF FrameLike
<1> HIDE DEF g
<1>10. FrameLike(g)
  <2>1. 2 + n \in Nat
    OBVIOUS
  <2>. QED
    BY <1>1, <1>6, <1>9, <2>1 DEF FrameLike, T
<1>. QED
  BY Zenon, <1>7, <1>8, <1>9, <1>10 DEF g

Place == 0..(MQTT_BUFF_SIZE - 1)
\* h is f with its length.
SizedFrom(h, f, total, n) ==
  /\ FrameLike(h) /\ h.totalSize = total /\ h.packetType = f.packetType
  /\ h.data[1] = n /\ \A i \in Place : i # 1 => h.data[i] = f.data[i]

LEMMA SizedIs ==
  ASSUME NEW f, FrameLike(f), NEW total \in Nat, NEW n \in 0..255, f.nextPos = 2 + n
  PROVE  SizedFrom(Sized(f, total), f, total, n)
<1> DEFINE T == Byte
           D == Place
           old == f.data
           new == [old EXCEPT ![1] = (f.nextPos - 2) % 256]
           g == Sized(f, total)
<1>1. /\ old \in [D -> T] /\ f.nextPos \in Nat /\ f.packetType \in PacketType
      /\ DOMAIN f = {"data", "totalSize", "nextPos", "packetType"}
  BY DEF FrameLike, Place
<1>2. (f.nextPos - 2) % 256 = n
  <2>1. \A k \in 0..255 : k % 256 = k
    OBVIOUS
  <2>2. (2 + n) - 2 = n
    OBVIOUS
  <2>. QED
    BY Zenon, <2>1, <2>2
<1>3. n \in T
  BY DEF Byte
<1>4. 1 \in D
  BY FrameSizeAssumption DEF Place
<1> HIDE DEF T, D
<1>5. new \in [D -> T] /\ new[1] = n /\ \A i \in D : i # 1 => new[i] = old[i]
  BY <1>1, <1>2, <1>3, <1>4
<1>6. g = [f EXCEPT !.data = new, !.totalSize = total]
  BY DEF Sized
<1> HIDE DEF new
<1>7. /\ g.data = new /\ g.nextPos = f.nextPos /\ g.totalSize = total
      /\ g.packetType = f.packetType
      /\ g = [data |-> new, totalSize |-> total, nextPos |-> f.nextPos,
              packetType |-> f.packetType]
  <2> HIDE DEF g, old
  <2>. QED
    BY <1>1, <1>6 DEF FrameLike
<1> HIDE DEF g
<1>8. FrameLike(g)
  BY <1>1, <1>5, <1>7 DEF FrameLike, T, D, Place
<1>. QED
  BY Zenon, <1>5, <1>7, <1>8 DEF g, D, SizedFrom

LEMMA BegunIs ==
  ASSUME NEW f, FrameLike(f), NEW type \in Byte
  PROVE  /\ FrameLike(Begun(f, type)) /\ Begun(f, type).nextPos = 2
         /\ Begun(f, type).data[0] = type
<1> DEFINE T == Byte
           D == 0..(MQTT_BUFF_SIZE - 1)
           old == f.data
           new == [old EXCEPT ![0] = type]
           g == Begun(f, type)
<1>1. /\ old \in [D -> T] /\ f.totalSize \in Nat /\ f.packetType \in PacketType
      /\ DOMAIN f = {"data", "totalSize", "nextPos", "packetType"}
  BY DEF FrameLike
<1>2. 0 \in D /\ type \in T
  BY FrameSizeAssumption
<1> HIDE DEF T, D
<1>3. new \in [D -> T] /\ new[0] = type
  BY <1>1, <1>2
<1>4. g = [f EXCEPT !.data = new, !.nextPos = 2]
  BY DEF Begun
<1> HIDE DEF new
<1>5. /\ g.nextPos = 2 /\ g.data = new
      /\ g = [data |-> new, totalSize |-> f.totalSize, nextPos |-> 2,
              packetType |-> f.packetType]
  <2> HIDE DEF g, old
  <2>. QED
    BY <1>1, <1>4 DEF FrameLike
<1> HIDE DEF g
<1>6. FrameLike(g)
  BY <1>1, <1>3, <1>5 DEF FrameLike, T, D
<1>. QED
  BY Zenon, <1>3, <1>5, <1>6 DEF g

\* The bytes that leave of a frame
LEMMA SentIs ==
  ASSUME NEW f, FrameLike(f), f.totalSize <= MQTT_BUFF_SIZE
  PROVE  /\ SentOf(f) \in Seq(Byte) /\ Len(SentOf(f)) = f.totalSize
         /\ \A i \in 1..f.totalSize : SentOf(f)[i] = f.data[i - 1]
<1> DEFINE T == Byte
           D == 0..(MQTT_BUFF_SIZE - 1)
           d == f.data  n == f.totalSize
           b == [i \in 1..n |-> d[i - 1]]
<1>1. d \in [D -> T] /\ n \in Nat /\ n <= MQTT_BUFF_SIZE /\ MQTT_BUFF_SIZE \in Nat
  BY FrameSizeAssumption DEF FrameLike
<1> HIDE DEF T, d, n
<1>2. \A i \in 1..n : i - 1 \in D
  BY <1>1
<1>3. \A i \in 1..n : d[i - 1] \in T
  BY <1>1, <1>2
<1>4. b \in Seq(T) /\ Len(b) = n /\ \A i \in 1..n : b[i] = d[i - 1]
  BY <1>1, <1>3
<1>5. SentOf(f) = b
  BY DEF SentOf, d, n
<1>. QED
  BY Zenon, <1>4, <1>5 DEF T, d, n

\* h is a packet of some type that was filled with s, n bytes, and is sent as b.
Packs(h, b, type, s, n, total) ==
  /\ FrameLike(h) /\ h.totalSize = total
  /\ b \in Seq(Byte) /\ Len(b) = total /\ b[1] = type /\ b[2] = n /\ Holds(b, 3, s)

LEMMA PacketIs ==
  ASSUME NEW f, FrameLike(f), NEW type \in Byte, NEW s \in Seq(Byte), NEW n \in 0..255,
         n = Len(s), NEW total \in Nat, 2 + n <= total, total <= MQTT_BUFF_SIZE
  PROVE  /\ Written(Begun(f, type), s).nextPos = 2 + n
         /\ Packs(Sized(Written(Begun(f, type), s), total),
                  SentOf(Sized(Written(Begun(f, type), s), total)), type, s, n, total)
<1> DEFINE g == Written(Begun(f, type), s)
           h == Sized(g, total)
           b == SentOf(h)
<1>1. FrameLike(Begun(f, type)) /\ Begun(f, type).nextPos = 2 /\ Begun(f, type).data[0] = type
  BY Zenon, BegunIs
<1>2. MQTT_BUFF_SIZE \in Nat /\ n \in Nat /\ 2 + n <= MQTT_BUFF_SIZE
  BY FrameSizeAssumption
<1>3. /\ FrameLike(g) /\ g.nextPos = 2 + n /\ g.data[0] = type
      /\ \A i \in 1..n : g.data[1 + i] = s[i]
  BY Zenon, <1>1, <1>2, WrittenIs
<1> HIDE DEF g
<1>4. SizedFrom(h, g, total, n)
  BY Zenon, <1>3, SizedIs
<1>5. FrameLike(h) /\ h.totalSize = total
  BY Zenon, <1>4 DEF SizedFrom
<1>6. /\ b \in Seq(Byte) /\ Len(b) = total /\ \A i \in 1..total : b[i] = h.data[i - 1]
  <2>1. h.totalSize <= MQTT_BUFF_SIZE
    BY Zenon, <1>5
  <2>2. /\ SentOf(h) \in Seq(Byte) /\ Len(SentOf(h)) = h.totalSize
        /\ \A i \in 1..h.totalSize : SentOf(h)[i] = h.data[i - 1]
    BY Zenon, <1>5, <2>1, SentIs
  <2>. QED
    BY Zenon, <1>5, <2>2
<1> HIDE DEF h, b
<1>7. b[1] = type /\ b[2] = n
  <2>1. /\ 1 \in 1..total /\ 2 \in 1..total /\ 1 - 1 = 0 /\ 2 - 1 = 1 /\ 0 \in Place
        /\ 0 # 1
    BY <1>2 DEF Place
  <2>2. b[1] = h.data[0] /\ b[2] = h.data[1] /\ h.data[0] = g.data[0]
    BY Zenon, <1>4, <1>6, <2>1 DEF SizedFrom
  <2>. QED
    BY Zenon, <1>3, <1>4, <2>2 DEF SizedFrom
<1>8. \A i \in 1..n : b[3 + i - 1] = s[i]
  <2> SUFFICES ASSUME NEW i \in 1..n PROVE b[3 + i - 1] = s[i]
    OBVIOUS
  <2>1. /\ 2 + i \in 1..total /\ (2 + i) - 1 = 1 + i /\ 1 + i \in Place /\ 1 + i # 1
        /\ 3 + i - 1 = 2 + i
    BY <1>2 DEF Place
  <2>2. b[2 + i] = h.data[1 + i] /\ h.data[1 + i] = g.data[1 + i]
    BY Zenon, <1>4, <1>6, <2>1 DEF SizedFrom
  <2>. QED
    BY Zenon, <1>3, <2>1, <2>2
<1>9. 3 + Len(s) <= Len(b) + 1
  <2>1. 3 + n <= total + 1
    BY <1>2
  <2>. QED
    BY Zenon, <1>6, <2>1
<1>10. Holds(b, 3, s)
  BY <1>8, <1>9 DEF Holds
<1>11. Packs(h, b, type, s, n, total)
  BY Zenon, <1>5, <1>6, <1>7, <1>10 DEF Packs
<1>. QED
  BY Zenon, <1>3, <1>11 DEF b, h, g

LEMMA ConcatIs ==
  ASSUME NEW s \in Seq(Byte), NEW t \in Seq(Byte)
  PROVE  s \o t \in Seq(Byte) /\ Len(s \o t) = Len(s) + Len(t)
<1> DEFINE T == Byte
<1>1. s \in Seq(T) /\ t \in Seq(T)
  OBVIOUS
<1> HIDE DEF T
<1>2. s \o t \in Seq(T) /\ Len(s \o t) = Len(s) + Len(t)
  BY <1>1
<1>. QED
  BY Zenon, <1>2 DEF T

\* From place p on, what is read of b is the texts, which end at place end.
Gives(b, p, texts, end) == /\ Fields(b, p, Len(texts)) = texts
                           /\ FieldEnds(b, p, Len(texts))[Len(texts)] = end
LEMMA SpelledGives ==
  ASSUME NEW b \in Seq(Byte), NEW p, NEW texts \in Seq(BriefText), NEW end,
         Spells(b, p, texts, end)
  PROVE  Gives(b, p, texts, end)
BY SpelledIsRead DEF Gives

LEMMA OneText ==
  ASSUME NEW t \in BriefText
  PROVE  <<>> \in Seq(BriefText) /\ <<t>> \in Seq(BriefText) /\ <<>> \o <<t>> = <<t>> /\ Len(<<t>>) = 1
<1> DEFINE R == BriefText
<1>1. t \in R
  OBVIOUS
<1> HIDE DEF R
<1>2. <<>> \in Seq(R) /\ <<t>> \in Seq(R) /\ <<>> \o <<t>> = <<t>> /\ Len(<<t>>) = 1
  BY <1>1
<1>. QED
  BY Zenon, <1>2 DEF R

LEMMA SpellsOne ==
  ASSUME NEW b \in Seq(Byte), NEW p \in Nat, NEW t \in BriefText, Holds(b, p, Field(t))
  PROVE  Spells(b, p, <<t>>, p + 2 + Len(t)) /\ Gives(b, p, <<t>>, p + 2 + Len(t))
<1>1. Spells(b, p, <<>>, p)
  BY Zenon, SpellsNone
<1>2. Spells(b, p, <<>> \o <<t>>, p + 2 + Len(t))
  BY Zenon, <1>1, OneText, SpellsMore
<1>3. Spells(b, p, <<t>>, p + 2 + Len(t))
  BY Zenon, <1>2, OneText
<1>. QED
  BY Zenon, <1>3, OneText, SpelledGives

\* A topic that fits in the frame and a field
Topic(t) == t \in Seq(Byte) /\ Len(t) <= 251 /\ Len(t) + 8 <= MQTT_BUFF_SIZE

LEMMA TopicIs ==
  ASSUME NEW t, Topic(t)
  PROVE  /\ t \in BriefText /\ Field(t) \in Seq(Byte) /\ Len(Field(t)) = 2 + Len(t)
         /\ Len(t) \in 0..251
<1> DEFINE m == Len(t)
<1>1. t \in Seq(Byte) /\ m <= 251
  BY Zenon DEF Topic
<1>2. m \in Nat
  BY <1>1
<1> HIDE DEF m
<1>3. m \in 0..251 /\ m \in 0..255
  BY <1>1, <1>2
<1>4. m \in Word
  BY Zenon, <1>3, SmallWord
<1>5. t \in BriefText /\ Brief(t)
  BY Zenon, <1>1, <1>4 DEF BriefText, Brief, m
<1>6. Field(t) \in Seq(Byte) /\ Len(Field(t)) = 2 + Len(t)
  BY Zenon, <1>5, FieldIs
<1>. QED
  BY Zenon, <1>3, <1>5, <1>6 DEF m

\* An unsubscribe packet reads as it was asked for.
LEMMA UnsubscribeReads ==
  ASSUME NEW f, FrameLike(f), NEW topic, Topic(topic), NEW h, h = Unsubscribe(f, topic, 10)
  PROVE  /\ FrameLike(h) /\ h.totalSize <= MQTT_BUFF_SIZE
         /\ ReadsAs(SentOf(h), [kind |-> "unsubscribe", topic |-> topic, id |-> 10])
<1> DEFINE m == Len(topic)
           u == Two(10)
           v == Field(topic)
           s == u \o v
           n == 4 + m
           total == 2 + n
           type == 162
           g == Written(Begun(f, type), s)
           b == SentOf(h)
<1>1. /\ topic \in BriefText /\ v \in Seq(Byte) /\ Len(v) = 2 + m /\ m \in 0..251
      /\ m + 8 <= MQTT_BUFF_SIZE
  BY Zenon, TopicIs DEF Topic
<1>2. u \in Seq(Byte) /\ Len(u) = 2 /\ u[1] = 0 /\ u[2] = 10
  <2>1. 10 \in Word
    BY DEF Word
  <2>2. u \in Seq(Byte) /\ Len(u) = 2
    BY Zenon, <2>1, BytesOfTwo
  <2>3. u[1] = 0 /\ u[2] = 10
    BY DEF Two
  <2>. QED
    BY Zenon, <2>2, <2>3
<1> HIDE DEF m, u, v
<1>3. s \in Seq(Byte) /\ Len(s) = n /\ n = Len(s)
  <2>1. Len(s) = Len(u) + Len(v) /\ s \in Seq(Byte)
    BY Zenon, <1>1, <1>2, ConcatIs
  <2>2. 2 + (2 + m) = n
    BY <1>1
  <2>. QED
    BY Zenon, <1>1, <1>2, <2>1, <2>2
<1>4. /\ n \in 0..255 /\ total \in Nat /\ 2 + n <= total /\ total <= MQTT_BUFF_SIZE
      /\ type \in Byte /\ n = total - 2 /\ total = 2 + n
  BY <1>1, FrameSizeAssumption DEF Byte
<1> HIDE DEF s, n, total, type
<1>5. g.nextPos = total /\ Packs(Sized(g, total), SentOf(Sized(g, total)), type, s, n, total)
  <2>1. /\ g.nextPos = 2 + n
        /\ Packs(Sized(g, total), SentOf(Sized(g, total)), type, s, n, total)
    <3> DEFINE l == Len(s)
    <3>1. /\ s \in Seq(Byte) /\ l \in 0..255 /\ total \in Nat /\ type \in Byte
          /\ 2 + l <= total /\ total <= MQTT_BUFF_SIZE
      BY Zenon, <1>3, <1>4
    <3>2. /\ g.nextPos = 2 + l
          /\ Packs(Sized(g, total), SentOf(Sized(g, total)), type, s, l, total)
      BY Zenon, <3>1, PacketIs
    <3>. QED
      BY Zenon, <1>3, <3>2
  <2>. QED
    BY Zenon, <1>4, <2>1
<1> HIDE DEF g
<1>6. h = Sized(g, total)
  BY Zenon, <1>5 DEF Unsubscribe, g, s, u, v, type
<1>7. Packs(h, b, type, s, n, total)
  BY Zenon, <1>5, <1>6
<1> HIDE DEF b
<1>8. /\ FrameLike(h) /\ h.totalSize = total /\ b \in Seq(Byte) /\ Len(b) = total
      /\ b[1] = 162 /\ b[2] = n /\ Holds(b, 3, s)
  BY Zenon, <1>7 DEF Packs, type
<1>9. Holds(b, 3, u) /\ Holds(b, 3 + Len(u), v)
  BY Zenon, <1>1, <1>2, <1>8, HoldsConcat DEF s
<1>10. b[3] = 0 /\ b[4] = 10
  <2>1. \A i \in 1..2 : b[3 + i - 1] = u[i]
    BY Zenon, <1>2, <1>9 DEF Holds
  <2>2. b[3 + 1 - 1] = u[1] /\ b[3 + 2 - 1] = u[2] /\ 3 + 1 - 1 = 3 /\ 3 + 2 - 1 = 4
    BY <2>1
  <2>. QED
    BY Zenon, <2>2, <1>2
<1>11. Reads(b, 5, <<topic>>)
  <2>1. 5 \in Nat /\ 3 + 2 = 5
    OBVIOUS
  <2>2. Holds(b, 5, Field(topic))
    BY Zenon, <1>2, <1>9, <2>1 DEF v
  <2>3. Gives(b, 5, <<topic>>, 5 + 2 + Len(topic))
    BY Zenon, <1>1, <1>8, <2>1, <2>2, SpellsOne
  <2>4. 5 + 2 + m = total + 1
    BY <1>1 DEF total, n
  <2>. QED
    BY Zenon, <1>8, <2>3, <2>4 DEF Reads, Gives, m
<1>12. b[2] = Len(b) - 2
  BY Zenon, <1>4, <1>8
<1> DEFINE r == [kind |-> "unsubscribe", topic |-> topic, id |-> 10]
<1>13. r.kind = "unsubscribe" /\ r.kind # "connect" /\ r.topic = topic /\ r.id = 10
  OBVIOUS
<1> HIDE DEF r
<1>14. ReadsAs(b, r)
  BY Zenon, <1>8, <1>10, <1>11, <1>12, <1>13 DEF ReadsAs
<1>. QED
  BY Zenon, <1>4, <1>8, <1>14 DEF b, r

LEMMA ShortIs ==
  ASSUME NEW t \in ShortText
  PROVE  /\ t \in BriefText /\ Field(t) \in Seq(Byte) /\ Len(Field(t)) = 2 + Len(t)
         /\ Len(t) \in 0..TextSize
<1> DEFINE m == Len(t)
<1>1. t \in Seq(Byte) /\ m \in 0..TextSize
  BY Zenon DEF ShortText
<1> HIDE DEF m
<1>2. m \in Word
  <2>1. TextSize \in 0..255
    BY FrameSizeAssumption
  <2>2. m \in 0..255
    BY <1>1, <2>1
  <2>. QED
    BY Zenon, <2>2, SmallWord
<1>3. t \in BriefText /\ Brief(t)
  BY Zenon, <1>1, <1>2 DEF BriefText, Brief, m
<1>4. Field(t) \in Seq(Byte) /\ Len(Field(t)) = 2 + Len(t)
  BY Zenon, <1>3, FieldIs
<1>. QED
  BY Zenon, <1>1, <1>3, <1>4 DEF m

LEMMA OptionalFits ==
  ASSUME NEW given \in BOOLEAN, NEW t \in ShortText
  PROVE  /\ t \in BriefText /\ Optional(given, t) \in Seq(Byte)
         /\ Len(Optional(given, t)) \in 0..(2 + TextSize)
<1> DEFINE m == Len(t)
<1>1. t \in BriefText /\ m \in 0..TextSize
  BY Zenon, ShortIs
<1>2. /\ Optional(given, t) \in Seq(Byte)
      /\ Len(Optional(given, t)) = IF given THEN 2 + m ELSE 0
  BY Zenon, <1>1, OptionalIs
<1> HIDE DEF m
<1>3. 2 + m \in 0..(2 + TextSize) /\ 0 \in 0..(2 + TextSize)
  BY <1>1, FrameSizeAssumption
<1>. QED
  BY Zenon, <1>1, <1>2, <1>3

\* The bits of the flag byte are those of the flags.
LEMMA FlagBits ==
  ASSUME NEW fs
  PROVE  /\ FlagByte(fs) \in Byte
         /\ "WILL_FLAG" \in fs <=> (FlagByte(fs) \div 4) % 2 = 1
         /\ "USERNAME_FLAG" \in fs <=> FlagByte(fs) \div 128 = 1
<1> DEFINE On(flag) == IF flag \in fs THEN 1 ELSE 0
           user == On("USERNAME_FLAG")
           pass == On("PASSWORD_FLAG")
           retain == On("WILL_RETAIN")
           qos1 == On("WILL_QOS1")
           qos0 == On("WILL_QOS0")
           will == On("WILL_FLAG")
           clean == On("CLEAN_SESSION")
           low == 64 * pass + 32 * retain + 16 * qos1 + 8 * qos0 + 4 * will + 2 * clean
           high == 16 * user + 8 * pass + 4 * retain + 2 * qos1 + qos0
           byte == FlagByte(fs)
<1>1. /\ user \in 0..1 /\ pass \in 0..1 /\ retain \in 0..1 /\ qos1 \in 0..1
      /\ qos0 \in 0..1 /\ will \in 0..1 /\ clean \in 0..1
  OBVIOUS
<1>2. byte = 128 * user + 64 * pass + 32 * retain + 16 * qos1 + 8 * qos0 + 4 * will + 2 * clean
  BY DEF FlagByte, FlagBit
<1>3. ("WILL_FLAG" \in fs <=> will = 1) /\ ("USERNAME_FLAG" \in fs <=> user = 1)
  OBVIOUS
<1> HIDE DEF user, pass, retain, qos1, qos0, will, clean, byte
<1>4. byte = 128 * user + low /\ low \in 0..127 /\ byte \in 0..255
  BY <1>1, <1>2
<1>5. byte = 4 * (2 * high + will) + 2 * clean /\ high \in Nat
  BY <1>1, <1>2
<1> HIDE DEF low, high
<1>6. byte \div 128 = user
  BY <1>1, <1>4
<1>7. byte \div 4 = 2 * high + will
  BY <1>1, <1>5
<1>8. (2 * high + will) % 2 = will
  BY <1>1, <1>5
<1>. QED
  BY Zenon, <1>3, <1>4, <1>6, <1>7, <1>8 DEF byte, Byte

LEMMA ConfigIs ==
  ASSUME NEW c \in Config
  PROVE  /\ c.MqttUsername \in ShortText /\ c.MqttPassword \in ShortText
         /\ c.clientID \in ShortText /\ c.willTopic \in ShortText
         /\ c.willMessage \in ShortText /\ c.protocolName \in ShortText
         /\ c.protocolType \in Byte /\ c.keepAliveDurationSec \in Word /\ c.qosLevel \in 0..2
<1> DEFINE S == ShortText  B == Byte  W == Word
<1>1. c \in [MqttUsername : S, MqttPassword : S, clientID : S, willTopic : S, willMessage : S,
             protocolName : S, protocolType : B, keepAliveDurationSec : W, qosLevel : 0..2]
  BY Zenon DEF Config
<1> HIDE DEF S, B, W
<1>2. /\ c.MqttUsername \in S /\ c.MqttPassword \in S /\ c.clientID \in S /\ c.willTopic \in S
      /\ c.willMessage \in S /\ c.protocolName \in S /\ c.protocolType \in B
      /\ c.keepAliveDurationSec \in W /\ c.qosLevel \in 0..2
  BY <1>1
<1>. QED
  BY Zenon, <1>2 DEF S, B, W

LEMMA LengthsAdd ==
  ASSUME NEW s \in Seq(Byte), NEW t \in Seq(Byte), NEW i \in Nat, NEW j \in Nat, NEW k,
         Len(s) \in 0..i, Len(t) \in 0..j, k = i + j
  PROVE  s \o t \in Seq(Byte) /\ Len(s \o t) \in 0..k /\ Len(s \o t) = Len(s) + Len(t)
<1> DEFINE x == Len(s)  y == Len(t)
<1>1. s \o t \in Seq(Byte) /\ Len(s \o t) = x + y
  BY Zenon, ConcatIs
<1>2. x \in 0..i /\ y \in 0..j
  OBVIOUS
<1> HIDE DEF x, y
<1>3. x + y \in 0..k
  BY <1>2
<1>. QED
  BY Zenon, <1>1, <1>3 DEF x, y

LEMMA HoldsTwo ==
  ASSUME NEW b, NEW p \in Nat, NEW w, Len(w) = 2, Holds(b, p, w)
  PROVE  b[p] = w[1] /\ b[p + 1] = w[2]
<1>1. \A i \in 1..2 : b[p + i - 1] = w[i]
  BY Zenon DEF Holds
<1>2. b[p + 1 - 1] = w[1] /\ b[p + 2 - 1] = w[2]
  BY <1>1
<1>3. p + 1 - 1 = p /\ p + 2 - 1 = p + 1
  OBVIOUS
<1>. QED
  BY Zenon, <1>2, <1>3

\* What a connect packet holds behind its length, part by part
NameOf(c) == Field(c.protocolName)
HeadOf(c, fs) == NameOf(c) \o <<c.protocolType, FlagByte(fs)>>
KeepOf(c, fs) == HeadOf(c, fs) \o Two(c.keepAliveDurationSec)
ClientOf(c, fs) == KeepOf(c, fs) \o Field(c.clientID)
TopicOf(c, fs) == ClientOf(c, fs) \o Optional("WILL_FLAG" \in fs, c.willTopic)
WillOf(c, fs) == TopicOf(c, fs) \o Optional("WILL_RETAIN" \in fs, c.willMessage)
UserOf(c, fs) == WillOf(c, fs) \o Optional("USERNAME_FLAG" \in fs, c.MqttUsername)
BodyOf(c, fs) == UserOf(c, fs) \o Optional("PASSWORD_FLAG" \in fs, c.MqttPassword)

Bounded(s, k) == s \in Seq(Byte) /\ Len(s) \in 0..k

LEMMA BodyFits ==
  ASSUME NEW c \in Config, NEW fs
  PROVE  /\ Bounded(NameOf(c), 2 + TextSize) /\ Bounded(HeadOf(c, fs), 4 + TextSize)
         /\ Bounded(KeepOf(c, fs), 6 + TextSize) /\ Bounded(ClientOf(c, fs), 8 + 2 * TextSize)
         /\ Bounded(TopicOf(c, fs), 10 + 3 * TextSize) /\ Bounded(WillOf(c, fs), 12 + 4 * TextSize)
         /\ Bounded(UserOf(c, fs), 14 + 5 * TextSize) /\ Bounded(BodyOf(c, fs), 16 + 6 * TextSize)
<1> DEFINE z == TextSize
<1>1. z \in Nat
  BY FrameSizeAssumption
<1>2. 2 + z \in Nat /\ 2 \in Nat /\ 4 + z = (2 + z) + 2 /\ 2 \in 0..2
  BY <1>1
<1>3. \A t \in ShortText : Bounded(Field(t), 2 + z)
  <2>1. \A m \in 0..z : 2 + m \in 0..(2 + z)
    BY <1>1
  <2>. QED
    BY Zenon, <2>1, ShortIs DEF Bounded
<1>4. \A t \in ShortText : \A flag : Bounded(Optional(flag \in fs, t), 2 + z)
  <2> TAKE t \in ShortText
  <2> TAKE flag
  <2> DEFINE given == flag \in fs
  <2>1. given \in BOOLEAN
    OBVIOUS
  <2> HIDE DEF given
  <2>2. Bounded(Optional(given, t), 2 + z)
    BY Zenon, <2>1, OptionalFits DEF Bounded
  <2>. QED
    BY Zenon, <2>2 DEF given
<1> HIDE DEF z
<1>5. Bounded(<<c.protocolType, FlagByte(fs)>>, 2)
  <2> DEFINE B == Byte  x == c.protocolType  y == FlagByte(fs)
  <2>1. x \in B /\ y \in B
    BY Zenon, ConfigIs, FlagBits
  <2> HIDE DEF B, x, y
  <2>2. <<x, y>> \in Seq(B) /\ Len(<<x, y>>) = 2
    BY <2>1
  <2>. QED
    BY Zenon, <1>2, <2>2 DEF Bounded, B, x, y
<1>6. Bounded(Two(c.keepAliveDurationSec), 2)
  BY Zenon, <1>2, ConfigIs, BytesOfTwo DEF Bounded
<1>7. ASSUME NEW s, NEW t, NEW i \in Nat, NEW j \in Nat, Bounded(s, i), Bounded(t, j)
      PROVE  Bounded(s \o t, i + j)
  BY Zenon, <1>7, LengthsAdd DEF Bounded
<1>8. Bounded(NameOf(c), 2 + z)
  BY Zenon, <1>3, ConfigIs DEF NameOf
<1>9. Bounded(HeadOf(c, fs), 4 + z)
  BY Zenon, <1>2, <1>5, <1>7, <1>8 DEF HeadOf
<1>10. Bounded(KeepOf(c, fs), 6 + z)
  <2>1. Bounded(Two(c.keepAliveDurationSec), 2)
    BY Zenon, <1>6
  <2>2. 4 + z \in Nat /\ 2 \in Nat /\ 6 + z = (4 + z) + 2
    BY <1>1
  <2>3. Bounded(HeadOf(c, fs) \o Two(c.keepAliveDurationSec),
               (4 + z) + 2)
    BY Zenon, <1>7, <1>9, <2>1, <2>2
  <2>. QED
    BY Zenon, <2>2, <2>3 DEF KeepOf
<1>11. Bounded(ClientOf(c, fs), 8 + 2 * z)
  <2>1. Bounded(Field(c.clientID), 2 + z)
    BY Zenon, <1>3, ConfigIs
  <2>2. 6 + z \in Nat /\ 2 + z \in Nat /\ 8 + 2 * z = (6 + z) + (2 + z)
    BY <1>1
  <2>3. Bounded(KeepOf(c, fs) \o Field(c.clientID),
               (6 + z) + (2 + z))
    BY Zenon, <1>7, <1>10, <2>1, <2>2
  <2>. QED
    BY Zenon, <2>2, <2>3 DEF ClientOf
<1>12. Bounded(TopicOf(c, fs), 10 + 3 * z)
  <2>1. Bounded(Optional("WILL_FLAG" \in fs, c.willTopic), 2 + z)
    BY Zenon, <1>4, ConfigIs
  <2>2. 8 + 2 * z \in Nat /\ 2 + z \in Nat /\ 10 + 3 * z = (8 + 2 * z) + (2 + z)
    BY <1>1
  <2>3. Bounded(ClientOf(c, fs) \o Optional("WILL_FLAG" \in fs, c.willTopic),
               (8 + 2 * z) + (2 + z))
    BY Zenon, <1>7, <1>11, <2>1, <2>2
  <2>. QED
    BY Zenon, <2>2, <2>3 DEF TopicOf
<1>13. Bounded(WillOf(c, fs), 12 + 4 * z)
  <2>1. Bounded(Optional("WILL_RETAIN" \in fs, c.willMessage), 2 + z)
    BY Zenon, <1>4, ConfigIs
  <2>2. 10 + 3 * z \in Nat /\ 2 + z \in Nat /\ 12 + 4 * z = (10 + 3 * z) + (2 + z)
    BY <1>1
  <2>3. Bounded(TopicOf(c, fs) \o Optional("WILL_RETAIN" \in fs, c.willMessage),
               (10 + 3 * z) + (2 + z))
    BY Zenon, <1>7, <1>12, <2>1, <2>2
  <2>. QED
    BY Zenon, <2>2, <2>3 DEF WillOf
<1>14. Bounded(UserOf(c, fs), 14 + 5 * z)
  <2>1. Bounded(Optional("USERNAME_FLAG" \in fs, c.MqttUsername), 2 + z)
    BY Zenon, <1>4, ConfigIs
  <2>2. 12 + 4 * z \in Nat /\ 2 + z \in Nat /\ 14 + 5 * z = (12 + 4 * z) + (2 + z)
    BY <1>1
  <2>3. Bounded(WillOf(c, fs) \o Optional("USERNAME_FLAG" \in fs, c.MqttUsername),
               (12 + 4 * z) + (2 + z))
    BY Zenon, <1>7, <1>13, <2>1, <2>2
  <2>. QED
    BY Zenon, <2>2, <2>3 DEF UserOf
<1>15. Bounded(BodyOf(c, fs), 16 + 6 * z)
  <2>1. Bounded(Optional("PASSWORD_FLAG" \in fs, c.MqttPassword), 2 + z)
    BY Zenon, <1>4, ConfigIs
  <2>2. 14 + 5 * z \in Nat /\ 2 + z \in Nat /\ 16 + 6 * z = (14 + 5 * z) + (2 + z)
    BY <1>1
  <2>3. Bounded(UserOf(c, fs) \o Optional("PASSWORD_FLAG" \in fs, c.MqttPassword),
               (14 + 5 * z) + (2 + z))
    BY Zenon, <1>7, <1>14, <2>1, <2>2
  <2>. QED
    BY Zenon, <2>2, <2>3 DEF BodyOf
<1>. QED
  BY Zenon, <1>8, <1>9, <1>10, <1>11, <1>12, <1>13, <1>14, <1>15 DEF z

\* The texts behind the keep-alive time
TextsOf(c, fs) ==
  <<c.clientID>> \o OptionalText("WILL_FLAG" \in fs, c.willTopic)
    \o OptionalText("WILL_RETAIN" \in fs, c.willMessage)
    \o OptionalText("USERNAME_FLAG" \in fs, c.MqttUsername)
    \o OptionalText("PASSWORD_FLAG" \in fs, c.MqttPassword)
\* What a connect packet says at place p, behind the name of the protocol
SaysAt(b, p, c, fs) == /\ b[p] = c.protocolType /\ b[p + 1] = FlagByte(fs)
                       /\ 256 * b[p + 2] + b[p + 3] = c.keepAliveDurationSec
                       /\ Gives(b, p + 4, TextsOf(c, fs), 3 + Len(BodyOf(c, fs)))

LEMMA SpellsThen ==
  ASSUME NEW b \in Seq(Byte), NEW q, NEW texts \in Seq(BriefText), NEW s \in Seq(Byte),
         NEW t \in ShortText, NEW given \in BOOLEAN,
         Spells(b, q, texts, 3 + Len(s)), Holds(b, 3, s \o Optional(given, t))
  PROVE  /\ Spells(b, q, texts \o OptionalText(given, t), 3 + Len(s \o Optional(given, t)))
         /\ texts \o OptionalText(given, t) \in Seq(BriefText)
<1> DEFINE x == Optional(given, t)  m == Len(s)  n == Len(x)
<1>1. x \in Seq(Byte) /\ t \in BriefText
  BY Zenon, OptionalFits
<1>2. Len(s \o x) = m + n
  BY Zenon, <1>1, ConcatIs
<1>3. Holds(b, 3 + m, x)
  BY Zenon, <1>1, HoldsConcat
<1>4. m \in Nat /\ n \in Nat
  BY <1>1
<1> HIDE DEF m, n, x
<1>5. 3 + m \in Nat /\ (3 + m) + n = 3 + (m + n)
  BY <1>4
<1>6. /\ Spells(b, q, texts \o OptionalText(given, t), (3 + m) + n)
      /\ texts \o OptionalText(given, t) \in Seq(BriefText)
  BY Zenon, <1>1, <1>3, <1>5, SpellsOptional DEF m, n, x
<1>. QED
  BY Zenon, <1>2, <1>5, <1>6 DEF x

LEMMA BodyReads ==
  ASSUME NEW c \in Config, NEW fs, NEW b \in Seq(Byte), Holds(b, 3, BodyOf(c, fs))
  PROVE  /\ Gives(b, 3, <<c.protocolName>>, 5 + Len(c.protocolName))
         /\ SaysAt(b, 5 + Len(c.protocolName), c, fs)
<1> DEFINE z == TextSize
           w1 == <<c.protocolType, FlagByte(fs)>>
           w2 == Two(c.keepAliveDurationSec)
           w3 == Field(c.clientID)
           w4 == Optional("WILL_FLAG" \in fs, c.willTopic)
           w5 == Optional("WILL_RETAIN" \in fs, c.willMessage)
           w6 == Optional("USERNAME_FLAG" \in fs, c.MqttUsername)
           w7 == Optional("PASSWORD_FLAG" \in fs, c.MqttPassword)
<1>1. /\ NameOf(c) \in Seq(Byte) /\ HeadOf(c, fs) \in Seq(Byte) /\ KeepOf(c, fs) \in Seq(Byte)
      /\ ClientOf(c, fs) \in Seq(Byte) /\ TopicOf(c, fs) \in Seq(Byte)
      /\ WillOf(c, fs) \in Seq(Byte) /\ UserOf(c, fs) \in Seq(Byte)
      /\ BodyOf(c, fs) \in Seq(Byte)
  BY Zenon, BodyFits DEF Bounded
<1>2. \A flag : (flag \in fs) \in BOOLEAN
  OBVIOUS
<1>3. w1 \in Seq(Byte) /\ Len(w1) = 2 /\ w1[1] = c.protocolType /\ w1[2] = FlagByte(fs)
  <2> DEFINE B == Byte  x == c.protocolType  y == FlagByte(fs)
  <2>1. x \in B /\ y \in B
    BY Zenon, ConfigIs, FlagBits
  <2> HIDE DEF B, x, y
  <2>2. <<x, y>> \in Seq(B) /\ Len(<<x, y>>) = 2 /\ <<x, y>>[1] = x /\ <<x, y>>[2] = y
    BY <2>1
  <2>. QED
    BY Zenon, <2>2 DEF B, x, y
<1>4. w2 \in Seq(Byte) /\ Len(w2) = 2 /\ 256 * w2[1] + w2[2] = c.keepAliveDurationSec
  BY Zenon, ConfigIs, BytesOfTwo
<1>5. /\ c.clientID \in BriefText /\ w3 \in Seq(Byte) /\ Len(w3) = 2 + Len(c.clientID)
      /\ Len(c.clientID) \in 0..z
      /\ c.protocolName \in BriefText /\ Len(NameOf(c)) = 2 + Len(c.protocolName)
      /\ Len(c.protocolName) \in 0..z
  BY Zenon, ConfigIs, ShortIs DEF NameOf
<1>6. w4 \in Seq(Byte) /\ w5 \in Seq(Byte) /\ w6 \in Seq(Byte) /\ w7 \in Seq(Byte)
  BY Zenon, <1>2, ConfigIs, OptionalFits
<1> HIDE DEF w1, w2, w3, w4, w5, w6, w7
<1>7. ASSUME NEW s \in Seq(Byte), NEW t \in Seq(Byte), Holds(b, 3, s \o t)
      PROVE  Holds(b, 3, s) /\ Holds(b, 3 + Len(s), t)
  BY Zenon, <1>7, HoldsConcat
<1>8. Holds(b, 3, UserOf(c, fs))
  BY Zenon, <1>1, <1>6, <1>7 DEF BodyOf, w7
<1>9. Holds(b, 3, WillOf(c, fs))
  BY Zenon, <1>1, <1>6, <1>7, <1>8 DEF UserOf, w6
<1>10. Holds(b, 3, TopicOf(c, fs))
  BY Zenon, <1>1, <1>6, <1>7, <1>9 DEF WillOf, w5
<1>11. Holds(b, 3, ClientOf(c, fs))
  BY Zenon, <1>1, <1>6, <1>7, <1>10 DEF TopicOf, w4
<1>12. Holds(b, 3, KeepOf(c, fs)) /\ Holds(b, 3 + Len(KeepOf(c, fs)), w3)
  BY Zenon, <1>1, <1>5, <1>7, <1>11 DEF ClientOf, w3
<1>13. Holds(b, 3, HeadOf(c, fs)) /\ Holds(b, 3 + Len(HeadOf(c, fs)), w2)
  BY Zenon, <1>1, <1>4, <1>7, <1>12 DEF KeepOf, w2
<1>14. Holds(b, 3, NameOf(c)) /\ Holds(b, 3 + Len(NameOf(c)), w1)
  BY Zenon, <1>1, <1>3, <1>7, <1>13 DEF HeadOf, w1
<1>15. /\ Len(HeadOf(c, fs)) = Len(NameOf(c)) + 2
       /\ Len(KeepOf(c, fs)) = Len(HeadOf(c, fs)) + 2
       /\ Len(ClientOf(c, fs)) = Len(KeepOf(c, fs)) + Len(w3)
  <2>1. Len(HeadOf(c, fs)) = Len(NameOf(c)) + Len(w1)
    BY Zenon, <1>1, <1>3, ConcatIs DEF HeadOf, w1
  <2>2. Len(KeepOf(c, fs)) = Len(HeadOf(c, fs)) + Len(w2)
    BY Zenon, <1>1, <1>4, ConcatIs DEF KeepOf, w2
  <2>3. Len(ClientOf(c, fs)) = Len(KeepOf(c, fs)) + Len(w3)
    BY Zenon, <1>1, <1>5, ConcatIs DEF ClientOf, w3
  <2>. QED
    BY Zenon, <1>3, <1>4, <2>1, <2>2, <2>3
<1> DEFINE a == Len(c.protocolName)
           k == Len(c.clientID)
           p == 5 + a
<1>16. a \in Nat /\ k \in Nat
  <2>1. z \in Nat
    BY FrameSizeAssumption
  <2> HIDE DEF z, a, k
  <2>2. a \in 0..z /\ k \in 0..z
    BY Zenon, <1>5 DEF a, k
  <2>. QED
    BY <2>1, <2>2
<1> HIDE DEF a, k, z
<1>17. /\ 3 + (2 + a) = p /\ 3 + ((2 + a) + 2) = p + 2 /\ 3 + (((2 + a) + 2) + 2) = p + 4
       /\ (p + 4) + 2 + k = 3 + ((((2 + a) + 2) + 2) + (2 + k)) /\ 3 + 2 + a = p
       /\ p \in Nat /\ p + 2 \in Nat /\ p + 4 \in Nat /\ (p + 2) + 1 = p + 3 /\ 3 \in Nat
  BY <1>16
<1>18. /\ 3 + Len(NameOf(c)) = p /\ 3 + Len(HeadOf(c, fs)) = p + 2
       /\ 3 + Len(KeepOf(c, fs)) = p + 4 /\ (p + 4) + 2 + k = 3 + Len(ClientOf(c, fs))
  BY Zenon, <1>5, <1>15, <1>17 DEF a, k
<1>19. Gives(b, 3, <<c.protocolName>>, p)
  <2>1. Holds(b, 3, Field(c.protocolName))
    BY Zenon, <1>14 DEF NameOf
  <2>2. Gives(b, 3, <<c.protocolName>>, 3 + 2 + a)
    BY Zenon, <1>5, <1>17, <2>1, SpellsOne DEF a
  <2>. QED
    BY Zenon, <1>17, <2>2
<1>20. b[p] = c.protocolType /\ b[p + 1] = FlagByte(fs)
  <2>1. Holds(b, p, w1)
    BY Zenon, <1>14, <1>18
  <2> HIDE DEF p
  <2>. QED
    BY Zenon, <1>3, <1>17, <2>1, HoldsTwo
<1>21. 256 * b[p + 2] + b[p + 3] = c.keepAliveDurationSec
  <2>1. Holds(b, p + 2, w2)
    BY Zenon, <1>13, <1>18
  <2>2. b[p + 2] = w2[1] /\ b[(p + 2) + 1] = w2[2]
    BY Zenon, <1>4, <1>17, <2>1, HoldsTwo
  <2>. QED
    BY Zenon, <1>4, <1>17, <2>2
<1>22. /\ Spells(b, p + 4, <<c.clientID>>, 3 + Len(ClientOf(c, fs)))
       /\ <<c.clientID>> \in Seq(BriefText)
  <2>1. Holds(b, p + 4, Field(c.clientID))
    BY Zenon, <1>12, <1>18 DEF w3
  <2>2. Spells(b, p + 4, <<c.clientID>>, (p + 4) + 2 + k)
    BY Zenon, <1>5, <1>17, <2>1, SpellsOne DEF k
  <2>. QED
    BY Zenon, <1>5, <1>18, <2>2, OneText
<1> HIDE DEF p
<1> DEFINE u1 == <<c.clientID>> \o OptionalText("WILL_FLAG" \in fs, c.willTopic)
           u2 == u1 \o OptionalText("WILL_RETAIN" \in fs, c.willMessage)
           u3 == u2 \o OptionalText("USERNAME_FLAG" \in fs, c.MqttUsername)
           u4 == u3 \o OptionalText("PASSWORD_FLAG" \in fs, c.MqttPassword)
<1>23. Spells(b, p + 4, u1, 3 + Len(TopicOf(c, fs))) /\ u1 \in Seq(BriefText)
  <2> DEFINE given == "WILL_FLAG" \in fs  text == c.willTopic
  <2>1. given \in BOOLEAN /\ text \in ShortText
    BY Zenon, <1>2, ConfigIs
  <2>2. Holds(b, 3, ClientOf(c, fs) \o Optional(given, text))
    BY Zenon, <1>10 DEF TopicOf
  <2> HIDE DEF given, text
  <2>3. /\ Spells(b, p + 4, <<c.clientID>> \o OptionalText(given, text),
                  3 + Len(ClientOf(c, fs) \o Optional(given, text)))
        /\ <<c.clientID>> \o OptionalText(given, text) \in Seq(BriefText)
    BY Zenon, <1>1, <1>22, <2>1, <2>2, SpellsThen
  <2>. QED
    BY Zenon, <2>3 DEF TopicOf, given, text
<1> HIDE DEF u1
<1>24. Spells(b, p + 4, u2, 3 + Len(WillOf(c, fs))) /\ u2 \in Seq(BriefText)
  <2> DEFINE given == "WILL_RETAIN" \in fs  text == c.willMessage
  <2>1. given \in BOOLEAN /\ text \in ShortText
    BY Zenon, <1>2, ConfigIs
  <2>2. Holds(b, 3, TopicOf(c, fs) \o Optional(given, text))
    BY Zenon, <1>9 DEF WillOf
  <2> HIDE DEF given, text
  <2>3. /\ Spells(b, p + 4, u1 \o OptionalText(given, text),
                  3 + Len(TopicOf(c, fs) \o Optional(given, text)))
        /\ u1 \o OptionalText(given, text) \in Seq(BriefText)
    BY Zenon, <1>1, <1>23, <2>1, <2>2, SpellsThen
  <2>. QED
    BY Zenon, <2>3 DEF WillOf, given, text
<1> HIDE DEF u2
<1>25. Spells(b, p + 4, u3, 3 + Len(UserOf(c, fs))) /\ u3 \in Seq(BriefText)
  <2> DEFINE given == "USERNAME_FLAG" \in fs  text == c.MqttUsername
  <2>1. given \in BOOLEAN /\ text \in ShortText
    BY Zenon, <1>2, ConfigIs
  <2>2. Holds(b, 3, WillOf(c, fs) \o Optional(given, text))
    BY Zenon, <1>8 DEF UserOf
  <2> HIDE DEF given, text
  <2>3. /\ Spells(b, p + 4, u2 \o OptionalText(given, text),
                  3 + Len(WillOf(c, fs) \o Optional(given, text)))
        /\ u2 \o OptionalText(given, text) \in Seq(BriefText)
    BY Zenon, <1>1, <1>24, <2>1, <2>2, SpellsThen
  <2>. QED
    BY Zenon, <2>3 DEF UserOf, given, text
<1> HIDE DEF u3
<1>26. Spells(b, p + 4, u4, 3 + Len(BodyOf(c, fs))) /\ u4 \in Seq(BriefText)
  <2> DEFINE given == "PASSWORD_FLAG" \in fs  text == c.MqttPassword
  <2>1. given \in BOOLEAN /\ text \in ShortText
    BY Zenon, <1>2, ConfigIs
  <2>2. Holds(b, 3, UserOf(c, fs) \o Optional(given, text))
    BY Zenon DEF BodyOf
  <2> HIDE DEF given, text
  <2>3. /\ Spells(b, p + 4, u3 \o OptionalText(given, text),
                  3 + Len(UserOf(c, fs) \o Optional(given, text)))
        /\ u3 \o OptionalText(given, text) \in Seq(BriefText)
    BY Zenon, <1>1, <1>25, <2>1, <2>2, SpellsThen
  <2>. QED
    BY Zenon, <2>3 DEF BodyOf, given, text
<1>27. u4 = TextsOf(c, fs)
  BY Zenon DEF TextsOf, u3, u2, u1
<1>28. Gives(b, p + 4, TextsOf(c, fs), 3 + Len(BodyOf(c, fs)))
  <2> HIDE DEF u4
  <2>. QED
    BY Zenon, <1>26, <1>27, SpelledGives
<1>. QED
  BY Zenon, <1>19, <1>20, <1>21, <1>28 DEF SaysAt, p, a

\* A frame keeps its bytes when its type is set.
LEMMA TypedIs ==
  ASSUME NEW f, FrameLike(f), NEW type \in PacketType, NEW h, h = [f EXCEPT !.packetType = type]
  PROVE  /\ FrameLike(h) /\ h.totalSize = f.totalSize /\ SentOf(h) = SentOf(f)
<1> DEFINE d == f.data  D == [0..(MQTT_BUFF_SIZE - 1) -> Byte]  T == PacketType
<1>1. f \in [data : D, totalSize : Nat, nextPos : Nat, packetType : T]
  BY Zenon DEF FrameLike
<1> HIDE DEF D, T, d
<1>2. /\ h \in [data : D, totalSize : Nat, nextPos : Nat, packetType : T]
      /\ h.totalSize = f.totalSize /\ h.data = f.data
  BY <1>1 DEF T
<1>3. FrameLike(h)
  BY Zenon, <1>2 DEF FrameLike, D, T
<1>4. SentOf(h) = SentOf(f)
  BY Zenon, <1>2 DEF SentOf
<1>. QED
  BY Zenon, <1>2, <1>3, <1>4

\* A connect packet reads as it was asked for, when the configuration it is written from
\* is the one that was wished for.
LEMMA ConnectReads ==
  ASSUME NEW f, FrameLike(f), NEW c \in Config, NEW fs, NEW h, h = Connect(f, c, fs),
         NEW w, NEW m, m = {} => c = w
  PROVE  /\ FrameLike(h) /\ h.totalSize <= MQTT_BUFF_SIZE
         /\ ReadsAs(SentOf(h), [kind |-> "connect", config |-> w, mixed |-> m, flags |-> fs])
<1> DEFINE s == BodyOf(c, fs)
           n == Len(s)
           total == 3 + n
           g == Written(Begun(f, 16), s)
           k == Sized(g, total)
           b == SentOf(h)
           whole == SubSeq(b, 1, Len(b) - 1)
           p == 5 + Len(c.protocolName)
<1>1. s \in Seq(Byte) /\ n \in 0..(16 + 6 * TextSize)
  BY Zenon, BodyFits DEF Bounded
<1> HIDE DEF s, n
<1>2. /\ n \in 0..255 /\ n \in Nat /\ total \in Nat /\ 2 + n <= total /\ total <= MQTT_BUFF_SIZE
      /\ (2 + n) + 1 = total /\ total - 1 = 2 + n /\ 2 + n \in Nat /\ (2 + n) - 2 = n
      /\ (2 + n) + 1 = 3 + n /\ 3 + n <= (2 + n) + 1
  BY <1>1, FrameSizeAssumption
<1>3. 16 \in Byte
  BY DEF Byte
<1>4. g.nextPos = 2 + n /\ Packs(k, SentOf(k), 16, s, n, total)
  BY Zenon, <1>1, <1>2, <1>3, PacketIs DEF n
<1>5. h = [k EXCEPT !.packetType = "CONN"]
  <2>1. h = [Sized(g, g.nextPos + 1) EXCEPT !.packetType = "CONN"]
    BY Zenon DEF Connect, s, BodyOf, UserOf, WillOf, TopicOf, ClientOf, KeepOf, HeadOf, NameOf,
                 Optional
  <2> HIDE DEF g
  <2>. QED
    BY Zenon, <1>2, <1>4, <2>1
<1> HIDE DEF g, k, total
<1>6. FrameLike(h) /\ h.totalSize = total /\ b = SentOf(k)
  <2>1. "CONN" \in PacketType
    BY DEF PacketType
  <2>. QED
    BY Zenon, <1>4, <1>5, <2>1, TypedIs DEF Packs
<1>7. b \in Seq(Byte) /\ Len(b) = total /\ b[1] = 16 /\ b[2] = n /\ Holds(b, 3, s)
  BY Zenon, <1>4, <1>6 DEF Packs
<1> HIDE DEF b
<1>8. whole \in Seq(Byte) /\ Len(whole) = 2 + n
  <2> DEFINE T == Byte
  <2>1. b \in Seq(T)
    BY <1>7
  <2> HIDE DEF T
  <2>2. whole \in Seq(T) /\ Len(whole) = 2 + n
    BY <1>2, <1>7, <2>1 DEF total
  <2>. QED
    BY Zenon, <2>2 DEF T
<1>9. Holds(whole, 3, s)
  <2>1. 2 + n <= Len(b) /\ 3 + Len(s) <= (2 + n) + 1
    BY Zenon, <1>2, <1>7 DEF n
  <2>2. whole = SubSeq(b, 1, 2 + n)
    BY Zenon, <1>2, <1>7
  <2>. QED
    BY Zenon, <1>1, <1>2, <1>7, <2>1, <2>2, HoldsPrefix
<1> HIDE DEF whole
<1>10. SaysAt(b, p, c, fs)
  BY Zenon, <1>7, BodyReads DEF s
<1>11. Gives(whole, 3, <<c.protocolName>>, p) /\ SaysAt(whole, p, c, fs)
  BY Zenon, <1>8, <1>9, BodyReads DEF s
<1> HIDE DEF p
<1>12. /\ b[p] = c.protocolType /\ b[p + 1] = FlagByte(fs)
       /\ 256 * b[p + 2] + b[p + 3] = c.keepAliveDurationSec
  BY Zenon, <1>10 DEF SaysAt
<1>13. Fields(whole, 3, 1) = <<c.protocolName>>
  <2>1. Len(<<c.protocolName>>) = 1
    OBVIOUS
  <2>. QED
    BY Zenon, <1>11, <2>1 DEF Gives
<1>14. Reads(whole, p + 4, TextsOf(c, fs))
  <2>1. Gives(whole, p + 4, TextsOf(c, fs), 3 + n)
    BY Zenon, <1>11 DEF SaysAt, s, n
  <2>. QED
    BY Zenon, <1>2, <1>8, <2>1 DEF Gives, Reads
<1>15. /\ "WILL_FLAG" \in fs <=> (b[p + 1] \div 4) % 2 = 1
       /\ "USERNAME_FLAG" \in fs <=> b[p + 1] \div 128 = 1
  BY Zenon, <1>12, FlagBits
<1>16. b[2] = Len(whole) - 2
  BY Zenon, <1>2, <1>7, <1>8
<1> DEFINE r == [kind |-> "connect", config |-> w, mixed |-> m, flags |-> fs]
<1>17. /\ r.kind = "connect" /\ r.kind # "unsubscribe" /\ r.config = w /\ r.mixed = m
       /\ r.flags = fs
  OBVIOUS
<1> HIDE DEF r
<1>18. ASSUME c = w
       PROVE  TextsOf(c, fs) = <<r.config.clientID>>
                          \o Given(r, "WILL_FLAG", r.config.willTopic)
                          \o Given(r, "WILL_RETAIN", r.config.willMessage)
                          \o Given(r, "USERNAME_FLAG", r.config.MqttUsername)
                          \o Given(r, "PASSWORD_FLAG", r.config.MqttPassword)
  BY Zenon, <1>17, <1>18 DEF TextsOf, Given, OptionalText
<1>19. ReadsAs(b, r)
  <2>1. CASE c = w
    BY Zenon, <2>1, <1>7, <1>12, <1>13, <1>14, <1>15, <1>16, <1>17, <1>18
       DEF ReadsAs, whole, p
  <2>2. CASE m # {}
    BY Zenon, <2>2, <1>17 DEF ReadsAs
  <2>. QED
    BY Zenon, <2>1, <2>2
<1>. QED
  BY Zenon, <1>2, <1>6, <1>19 DEF b, r
-------------------------------------------------------------------------------
(* The other writers keep the frame a frame. *)

LEMMA WrittenLike ==
  ASSUME NEW f, FrameLike(f), NEW s \in Seq(Byte)
  PROVE  FrameLike(Written(f, s))
<1> DEFINE T == Byte  D == 0..(MQTT_BUFF_SIZE - 1)  P == PacketType
           old == f.data  p == f.nextPos  n == Len(s)
           new == [i \in D |-> IF i >= p /\ i < p + n THEN s[i - p + 1] ELSE old[i]]
           g == Written(f, s)
<1>1. f \in [data : [D -> T], totalSize : Nat, nextPos : Nat, packetType : P]
  BY Zenon DEF FrameLike
<1>2. s \in Seq(T) /\ n \in Nat /\ MQTT_BUFF_SIZE \in Nat
  BY FrameSizeAssumption
<1>3. g = [f EXCEPT !.data = new, !.nextPos = p + n]
  <2>1. DOMAIN f.data = D
    BY <1>1
  <2>. QED
    BY <2>1 DEF Written
<1> HIDE DEF T, P, g
<1>4. p \in Nat /\ old \in [D -> T]
  BY <1>1
<1> HIDE DEF p, old
<1>5. \A i \in D : i >= p /\ i < p + n => s[i - p + 1] \in T
  <2> SUFFICES ASSUME NEW i \in D, i >= p, i < p + n PROVE s[i - p + 1] \in T
    OBVIOUS
  <2>1. i - p + 1 \in 1..n
    BY <1>2, <1>4
  <2>. QED
    BY <1>2, <2>1
<1>6. new \in [D -> T] /\ p + n \in Nat
  BY <1>2, <1>4, <1>5
<1> HIDE DEF new, n, D
<1>7. g \in [data : [D -> T], totalSize : Nat, nextPos : Nat, packetType : P]
  BY <1>1, <1>3, <1>6
<1>. QED
  BY Zenon, <1>7 DEF FrameLike, D, T, P, g

\* A byte is stored, or falls behind the frame.
LEMMA PutLike ==
  ASSUME NEW f, FrameLike(f), NEW i, NEW v \in Byte, NEW g, g = [f EXCEPT !.data[i] = v]
  PROVE  FrameLike(g)
<1> DEFINE T == Byte  D == 0..(MQTT_BUFF_SIZE - 1)  P == PacketType
<1>1. f \in [data : [D -> T], totalSize : Nat, nextPos : Nat, packetType : P] /\ v \in T
  BY Zenon DEF FrameLike
<1> HIDE DEF T, D, P
<1>2. g \in [data : [D -> T], totalSize : Nat, nextPos : Nat, packetType : P]
  BY <1>1
<1>. QED
  BY Zenon, <1>2 DEF FrameLike, T, D, P

\* A count is set.
LEMMA CountsLike ==
  ASSUME NEW f, FrameLike(f), NEW k \in Nat, NEW g,
         g = [f EXCEPT !.totalSize = k] \/ g = [f EXCEPT !.nextPos = k]
  PROVE  FrameLike(g)
<1> DEFINE T == [0..(MQTT_BUFF_SIZE - 1) -> Byte]  P == PacketType
<1>1. f \in [data : T, totalSize : Nat, nextPos : Nat, packetType : P]
  BY Zenon DEF FrameLike
<1> HIDE DEF T, P
<1>2. g \in [data : T, totalSize : Nat, nextPos : Nat, packetType : P]
  BY <1>1
<1>. QED
  BY Zenon, <1>2 DEF FrameLike, T, P

LEMMA SizedLike ==
  ASSUME NEW f, FrameLike(f), NEW total \in Nat
  PROVE  FrameLike(Sized(f, total)) /\ f.nextPos \in Nat
<1> DEFINE v == (f.nextPos - 2) % 256  g == [f EXCEPT !.data[1] = v]
<1>1. f.nextPos \in Nat
  BY DEF FrameLike
<1>2. v \in Byte
  BY <1>1 DEF Byte
<1>3. FrameLike(g)
  BY Zenon, <1>2, PutLike
<1>4. Sized(f, total) = [g EXCEPT !.totalSize = total]
  BY <1>1 DEF Sized, FrameLike
<1> HIDE DEF g
<1>. QED
  BY Zenon, <1>1, <1>3, <1>4, CountsLike

LEMMA PublishLike ==
  ASSUME NEW f, FrameLike(f), NEW c, NEW topic, Topic(topic), NEW text \in Seq(Byte)
  PROVE  FrameLike(Publish(f, c, topic, text))
<1> DEFINE id == IF c.qosLevel = 0 THEN <<>> ELSE <<0, 10>>
           s == Field(topic) \o id \o text
           g == Written([f EXCEPT !.nextPos = 2], s)
<1>1. s \in Seq(Byte)
  <2>1. Field(topic) \in Seq(Byte)
    BY Zenon, TopicIs
  <2>2. <<>> \in Seq(Byte) /\ <<0, 10>> \in Seq(Byte)
    <3>1. 0 \in Byte /\ 10 \in Byte
      BY DEF Byte
    <3>. QED
      BY <3>1
  <2>3. id \in Seq(Byte)
    BY Zenon, <2>2
  <2> HIDE DEF id
  <2>4. Field(topic) \o id \in Seq(Byte)
    BY Zenon, <2>1, <2>3, ConcatIs
  <2>. QED
    BY Zenon, <2>4, ConcatIs
<1>2. 2 \in Nat
  OBVIOUS
<1>3. FrameLike(g)
  BY Zenon, <1>1, <1>2, CountsLike, WrittenLike
<1>4. Publish(f, c, topic, text) \in {Sized(g, g.nextPos + 1), g}
  BY Zenon DEF Publish
<1> HIDE DEF g
<1>5. g.nextPos + 1 \in Nat
  BY <1>3 DEF FrameLike
<1>6. FrameLike(Sized(g, g.nextPos + 1))
  BY Zenon, <1>3, <1>5, SizedLike
<1>. QED
  BY <1>3, <1>4, <1>6

LEMMA SubscribeLike ==
  ASSUME NEW f, FrameLike(f), NEW c \in Config, NEW topic, Topic(topic)
  PROVE  FrameLike(Subscribe(f, 10, topic, c))
<1> DEFINE s == Two(10) \o Field(topic)
           g == Written(Begun(f, 130), s)
           k == Sized(g, g.nextPos + 1)
<1>1. s \in Seq(Byte)
  <2>1. 10 \in Word
    BY DEF Word
  <2>. QED
    BY Zenon, <2>1, BytesOfTwo, TopicIs, ConcatIs
<1>2. FrameLike(Begun(f, 130))
  <2> DEFINE type == 130
  <2>1. type \in Byte
    BY DEF Byte
  <2> HIDE DEF type
  <2>2. FrameLike(Begun(f, type)) /\ Begun(f, type).nextPos = 2
    BY Zenon, <2>1, BegunIs
  <2>. QED
    BY <2>2 DEF type
<1>3. FrameLike(g)
  BY Zenon, <1>1, <1>2, WrittenLike
<1>4. Subscribe(f, 10, topic, c) = [k EXCEPT !.data[g.nextPos] = c.qosLevel]
  BY Zenon DEF Subscribe
<1> HIDE DEF g
<1>5. g.nextPos + 1 \in Nat
  BY <1>3 DEF FrameLike
<1>6. FrameLike(k)
  BY Zenon, <1>3, <1>5, SizedLike
<1>7. c.qosLevel \in Byte
  <2>1. c.qosLevel \in 0..2
    BY Zenon, ConfigIs
  <2>. QED
    BY <2>1 DEF Byte
<1> HIDE DEF k
<1>. QED
  BY Zenon, <1>4, <1>6, <1>7, PutLike

LEMMA TwoBytesLike ==
  ASSUME NEW f, FrameLike(f), NEW type \in Byte, NEW packet \in PacketType
  PROVE  FrameLike(TwoBytes(f, type, packet))
<1> DEFINE p == f.nextPos
           f1 == [f EXCEPT !.data[p] = type]
           f2 == [f1 EXCEPT !.data[p + 1] = 0]
           f3 == [f2 EXCEPT !.nextPos = p + 1]
           f4 == [f3 EXCEPT !.totalSize = 2]
<1>1. TwoBytes(f, type, packet) = [f4 EXCEPT !.packetType = packet]
  BY Zenon DEF TwoBytes
<1>2. 0 \in Byte /\ p + 1 \in Nat /\ 2 \in Nat
  BY DEF Byte, FrameLike
<1> HIDE DEF p
<1>3. FrameLike(f1)
  BY Zenon, PutLike
<1> HIDE DEF f1
<1>4. FrameLike(f2)
  BY Zenon, <1>2, <1>3, PutLike
<1> HIDE DEF f2
<1>5. FrameLike(f3)
  BY Zenon, <1>2, <1>4, CountsLike
<1> HIDE DEF f3
<1>6. FrameLike(f4)
  BY Zenon, <1>2, <1>5, CountsLike
<1> HIDE DEF f4
<1>. QED
  BY Zenon, <1>1, <1>6, TypedIs

LEMMA EndedIs ==
  ASSUME NEW f, FrameLike(f)
  PROVE  FrameLike(Ended(f)) /\ SentOf(Ended(f)) = SentOf(f)
<1> DEFINE D == 0..(MQTT_BUFF_SIZE - 1)  d == f.data  n == f.totalSize
           e == [d EXCEPT ![n] = 26]
           g == Ended(f)
<1>1. d \in [D -> Byte] /\ n \in Nat /\ MQTT_BUFF_SIZE \in Nat
  BY FrameSizeAssumption DEF FrameLike
<1>2. g.data = e /\ g.totalSize = n
  BY DEF Ended, FrameLike
<1>3. 26 \in Byte
  BY DEF Byte
<1>4. FrameLike(g)
  BY Zenon, <1>3, PutLike DEF Ended
<1> HIDE DEF d, n, g
<1>5. \A i \in 1..n : e[i - 1] = d[i - 1]
  <2>1. CASE n \in D
    <3>1. \A i \in 1..n : i - 1 \in D /\ i - 1 # n
      BY <1>1, <2>1
    <3>. QED
      BY <1>1, <3>1
  <2>2. CASE n \notin D
    BY <1>1, <2>2
  <2>. QED
    BY <2>1, <2>2
<1> HIDE DEF e
<1>6. SentOf(g) = [i \in 1..n |-> d[i - 1]]
  BY <1>2, <1>5 DEF SentOf
<1>. QED
  BY Zenon, <1>4, <1>6 DEF SentOf, g, d, n

\* A text that is set is one that fits.
LEMMA OverwrittenIs ==
  ASSUME NEW old \in ShortText, NEW new \in ShortText
  PROVE  Overwritten(old, new) \in ShortText
<1> DEFINE T == Byte  m == Len(new)  k == Len(old)
           rest == SubSeq(old, m + 1, k)
<1>1. old \in Seq(T) /\ new \in Seq(T)
  BY Zenon DEF ShortText
<1>2. m \in 0..TextSize /\ k \in 0..TextSize
  BY Zenon DEF ShortText
<1>3. TextSize \in Nat
  BY FrameSizeAssumption
<1> HIDE DEF T
<1>4. rest \in Seq(T) /\ Len(rest) = IF m < k THEN k - m ELSE 0
  BY <1>1
<1>5. Overwritten(old, new) \in Seq(T) /\ Len(Overwritten(old, new)) = m + Len(rest)
  BY <1>1, <1>4 DEF Overwritten
<1> HIDE DEF m, k, rest
<1>6. Len(Overwritten(old, new)) \in 0..TextSize
  BY <1>2, <1>3, <1>4, <1>5
<1>. QED
  BY Zenon, <1>5, <1>6 DEF ShortText, T

\* A text that is not shorter is set whole.
LEMMA OverwrittenAll ==
  ASSUME NEW old \in ShortText, NEW new \in ShortText, Len(old) <= Len(new)
  PROVE  Overwritten(old, new) = new
<1> DEFINE T == Byte  rest == SubSeq(old, Len(new) + 1, Len(old))
<1>1. old \in Seq(T) /\ new \in Seq(T)
  BY Zenon DEF ShortText
<1> HIDE DEF T
<1>2. rest = <<>>
  BY <1>1
<1>3. Overwritten(old, new) = new \o <<>>
  BY Zenon, <1>2 DEF Overwritten
<1>. QED
  BY <1>1, <1>3

LEMMA FieldsOf ==
  ASSUME NEW c \in Config
  PROVE  /\ c = [x \in DOMAIN c |-> c[x]]
         /\ DOMAIN c = {"MqttUsername", "MqttPassword", "clientID", "willTopic", "willMessage",
                        "protocolName", "protocolType", "keepAliveDurationSec", "qosLevel"}
<1> DEFINE S == ShortText  B == Byte  W == Word  Q == 0..2
<1>1. c \in [MqttUsername : S, MqttPassword : S, clientID : S, willTopic : S, willMessage : S,
             protocolName : S, protocolType : B, keepAliveDurationSec : W, qosLevel : Q]
  BY Zenon DEF Config
<1> HIDE DEF S, B, W, Q
<1>. QED
  BY <1>1

\* A text put in the place of another.
LEMMA TextPut ==
  ASSUME NEW c \in Config, NEW field \in TextFields, NEW x \in ShortText,
         NEW d, d = [c EXCEPT ![field] = x]
  PROVE  /\ d \in Config /\ d[field] = x
         /\ \A other \in DOMAIN c : other # field => d[other] = c[other]
<1> DEFINE S == ShortText  B == Byte  W == Word
<1>1. c \in [MqttUsername : S, MqttPassword : S, clientID : S, willTopic : S, willMessage : S,
             protocolName : S, protocolType : B, keepAliveDurationSec : W, qosLevel : 0..2]
  BY Zenon DEF Config
<1>2. x \in S
  OBVIOUS
<1> HIDE DEF S, B, W
<1>3. d \in [MqttUsername : S, MqttPassword : S, clientID : S, willTopic : S, willMessage : S,
             protocolName : S, protocolType : B, keepAliveDurationSec : W, qosLevel : 0..2]
  BY <1>1, <1>2 DEF TextFields
<1>4. d \in Config
  BY Zenon, <1>3 DEF Config, S, B, W
<1>5. /\ c = [y \in DOMAIN c |-> c[y]] /\ field \in DOMAIN c
  BY FieldsOf DEF TextFields
<1> HIDE DEF S
<1>6. d = [y \in DOMAIN c |-> IF y = field THEN x ELSE c[y]]
  BY Zenon, <1>5
<1>. QED
  BY Zenon, <1>4, <1>5, <1>6

LEMMA SetTextIs ==
  ASSUME NEW c \in Config, NEW field \in TextFields, NEW text \in ShortText,
         NEW d, d = SetText(c, field, text)
  PROVE  /\ d \in Config /\ c[field] \in ShortText /\ d[field] = Overwritten(c[field], text)
         /\ \A other \in DOMAIN c : other # field => d[other] = c[other]
<1> DEFINE x == Overwritten(c[field], text)
<1>1. c[field] \in ShortText
  BY Zenon, ConfigIs DEF TextFields
<1>2. x \in ShortText
  BY Zenon, <1>1, OverwrittenIs
<1>3. d = [c EXCEPT ![field] = x]
  BY Zenon DEF SetText
<1> HIDE DEF x
<1> DEFINE e == [c EXCEPT ![field] = x]
<1>4. /\ e \in Config /\ e[field] = x
      /\ \A other \in DOMAIN c : other # field => e[other] = c[other]
  BY Zenon, <1>2, TextPut
<1>5. d = e
  BY <1>3
<1> HIDE DEF e
<1>6. /\ d \in Config /\ d[field] = x
      /\ \A other \in DOMAIN c : other # field => d[other] = c[other]
  BY Zenon, <1>4, <1>5
<1>. QED
  BY Zenon, <1>1, <1>6 DEF x

LEMMA LevelIs ==
  ASSUME NEW c \in Config, NEW q \in 0..2
  PROVE  [c EXCEPT !.qosLevel = q] \in Config
<1> DEFINE S == ShortText  B == Byte  W == Word
<1>1. c \in [MqttUsername : S, MqttPassword : S, clientID : S, willTopic : S, willMessage : S,
             protocolName : S, protocolType : B, keepAliveDurationSec : W, qosLevel : 0..2]
  BY Zenon DEF Config
<1> HIDE DEF S, B, W
<1>2. [c EXCEPT !.qosLevel = q]
        \in [MqttUsername : S, MqttPassword : S, clientID : S, willTopic : S, willMessage : S,
             protocolName : S, protocolType : B, keepAliveDurationSec : W, qosLevel : 0..2]
  BY <1>1
<1>. QED
  BY Zenon, <1>2 DEF Config, S, B, W
-------------------------------------------------------------------------------
(* The frame reads as what was asked for last, whatever is set, sent or     *)
(* received meanwhile; so what is sent of it does.                          *)

\* A configuration that only the texts in apart keep from being the one wished for.
Wishes(c, w, apart) ==
  /\ c \in Config /\ w \in Config
  /\ \A field \in TextFields : field \notin apart => c[field] = w[field]
  /\ c.protocolType = w.protocolType /\ c.qosLevel = w.qosLevel
  /\ c.keepAliveDurationSec = w.keepAliveDurationSec

PacketInv == /\ FrameLike(mqttDataPacket) /\ Wishes(appConfig, wished, mixed)
             /\ ReadsAs(SentOf(mqttDataPacket), asked)
             /\ SentReadsAsAsked

\* Nothing is said of the other packets.
LEMMA OthersRead ==
  ASSUME NEW b, NEW r, r.kind # "unsubscribe", r.kind # "connect"
  PROVE  ReadsAs(b, r)
BY Zenon DEF ReadsAs

LEMMA WishIs ==
  ASSUME NEW c, NEW w, Wishes(c, w, {})
  PROVE  c = w
<1> DEFINE S == ShortText  B == Byte  W == Word  Q == 0..2
<1>1. /\ c \in Config /\ w \in Config
      /\ \A field \in TextFields : c[field] = w[field]
      /\ c.protocolType = w.protocolType /\ c.qosLevel = w.qosLevel
      /\ c.keepAliveDurationSec = w.keepAliveDurationSec
  BY Zenon DEF Wishes
<1>2. \A x \in Config :
        x \in [MqttUsername : S, MqttPassword : S, clientID : S, willTopic : S, willMessage : S,
               protocolName : S, protocolType : B, keepAliveDurationSec : W, qosLevel : Q]
  BY Zenon DEF Config
<1> HIDE DEF S, B, W, Q
<1>3. /\ c.MqttUsername = w.MqttUsername /\ c.MqttPassword = w.MqttPassword
      /\ c.clientID = w.clientID /\ c.willTopic = w.willTopic
      /\ c.willMessage = w.willMessage /\ c.protocolName = w.protocolName
  BY <1>1 DEF TextFields
<1>4. \A x \in Config :
        x = [MqttUsername |-> x.MqttUsername, MqttPassword |-> x.MqttPassword,
             clientID |-> x.clientID, willTopic |-> x.willTopic,
             willMessage |-> x.willMessage, protocolName |-> x.protocolName,
             protocolType |-> x.protocolType,
             keepAliveDurationSec |-> x.keepAliveDurationSec, qosLevel |-> x.qosLevel]
  BY <1>2
<1>. QED
  BY Zenon, <1>1, <1>3, <1>4

LEMMA RequestPacket == ASSUME PacketInv, Request PROVE PacketInv'
<1> DEFINE f == mqttDataPacket  c == appConfig
           Done(request, frame) == FrameLike(frame) /\ ReadsAs(SentOf(frame), request)
<1>1. /\ FrameLike(f) /\ c \in Config /\ SentReadsAsAsked /\ Wishes(c, wished, mixed)
      /\ mixed = {} => c = wished
  <2>1. FrameLike(f) /\ SentReadsAsAsked /\ Wishes(c, wished, mixed)
    BY Zenon DEF PacketInv
  <2>2. c \in Config
    BY Zenon, <2>1 DEF Wishes
  <2>3. ASSUME mixed = {} PROVE c = wished
    <3>1. Wishes(c, wished, {})
      BY Zenon, <2>1, <2>3
    <3>. QED
      BY Zenon, <3>1, WishIs
  <2>. QED
    BY Zenon, <2>1, <2>2, <2>3
<1>2. ASSUME NEW request, NEW frame, Asks(request, frame), Done(request, frame)
      PROVE  PacketInv'
  <2>1. /\ asked' = request /\ mqttDataPacket' = frame /\ appConfig' = appConfig
        /\ wished' = wished /\ mixed' = mixed /\ wire' = wire
    BY Zenon, <1>2 DEF Asks
  <2>. QED
    BY Zenon, <1>1, <1>2, <2>1 DEF PacketInv, SentReadsAsAsked, SentOf, FrameLike, Wishes
<1>3. ASSUME NEW topic \in Texts PROVE Topic(topic) /\ topic \in Seq(Byte)
  BY Zenon, <1>3, RequestsAssumption DEF Topic
<1>4. ASSUME NEW fs \in FlagSets
      PROVE  Done([kind |-> "connect", config |-> wished, mixed |-> mixed, flags |-> fs],
                  Connect(f, c, fs))
  BY Zenon, <1>1, <1>4, ConnectReads
<1>5. ASSUME NEW topic \in Texts
      PROVE  Done([kind |-> "unsubscribe", topic |-> topic, id |-> 10], Unsubscribe(f, topic, 10))
  BY Zenon, <1>1, <1>3, <1>5, UnsubscribeReads
<1>6. ASSUME NEW b
      PROVE  /\ ReadsAs(b, [kind |-> "subscribe"]) /\ ReadsAs(b, [kind |-> "publish"])
             /\ ReadsAs(b, [kind |-> "ping"]) /\ ReadsAs(b, [kind |-> "disconn"])
  <2>1. \A k \in {"subscribe", "publish", "ping", "disconn"} :
          [kind |-> k].kind # "unsubscribe" /\ [kind |-> k].kind # "connect"
    OBVIOUS
  <2>. QED
    BY Zenon, <2>1, OthersRead
<1>7. ASSUME NEW topic \in Texts
      PROVE  Done([kind |-> "subscribe"], Subscribe(f, 10, topic, c))
  BY Zenon, <1>1, <1>3, <1>6, <1>7, SubscribeLike
<1>8. ASSUME NEW topic \in Texts, NEW text \in Texts
      PROVE  Done([kind |-> "publish"], Publish(f, c, topic, text))
  BY Zenon, <1>1, <1>3, <1>6, <1>8, PublishLike
<1>9. Done([kind |-> "ping"], Ping(f)) /\ Done([kind |-> "disconn"], Disconn(f))
  <2>1. 192 \in Byte /\ 224 \in Byte /\ "PING" \in PacketType /\ "DISCONN" \in PacketType
    BY DEF Byte, PacketType
  <2>2. FrameLike(Ping(f)) /\ FrameLike(Disconn(f))
    BY Zenon, <1>1, <2>1, TwoBytesLike DEF Ping, Disconn
  <2>. QED
    BY Zenon, <1>6, <2>2
<1> HIDE DEF Done, f, c
<1>. QED
  BY Zenon, <1>2, <1>4, <1>5, <1>7, <1>8, <1>9 DEF Request, f, c

\* Setting a text leaves the other fields alone; it is apart from what was wished for
\* only while the end of a longer one is left.
LEMMA TextWished ==
  ASSUME NEW c, NEW w, NEW apart, Wishes(c, w, apart), NEW field \in TextFields,
         NEW text \in ShortText, NEW d, d = SetText(c, field, text),
         NEW m, m = IF Len(text) < Len(c[field]) THEN apart \cup {field} ELSE apart \ {field}
  PROVE  Wishes(d, [w EXCEPT ![field] = text], m)
<1> DEFINE v == [w EXCEPT ![field] = text]
<1>1. c \in Config /\ w \in Config
  BY Zenon DEF Wishes
<1>2. /\ d \in Config /\ c[field] \in ShortText /\ d[field] = Overwritten(c[field], text)
      /\ \A other \in DOMAIN c : other # field => d[other] = c[other]
  BY <1>1, SetTextIs
<1>3. /\ v \in Config /\ v[field] = text
      /\ \A other \in DOMAIN w : other # field => v[other] = w[other]
  BY Zenon, <1>1, TextPut
<1> HIDE DEF v
<1>5. /\ TextFields \subseteq DOMAIN c /\ TextFields \subseteq DOMAIN w
      /\ {"protocolType", "qosLevel", "keepAliveDurationSec"} \subseteq DOMAIN c \cap DOMAIN w
      /\ \A x \in {"protocolType", "qosLevel", "keepAliveDurationSec"} : x \notin TextFields
  BY <1>1, FieldsOf DEF TextFields
<1>6. d.protocolType = v.protocolType
  BY <1>3, <1>2, <1>5 DEF Wishes
<1>7. d.qosLevel = v.qosLevel
  BY <1>3, <1>2, <1>5 DEF Wishes
<1>8. d.keepAliveDurationSec = v.keepAliveDurationSec
  BY <1>3, <1>2, <1>5 DEF Wishes
<1>9. ASSUME NEW other \in TextFields, other \notin m PROVE d[other] = v[other]
  <2>1. CASE other = field
    <3>1. Len(c[field]) <= Len(text)
      BY <1>2, <1>9, <2>1 DEF ShortText
    <3>2. Overwritten(c[field], text) = text
      BY Zenon, <1>2, <3>1, OverwrittenAll
    <3>. QED
      BY <1>2, <1>3, <2>1, <3>2
  <2>2. CASE other # field
    <3>1. other \notin apart
      BY <1>9, <2>2
    <3>2. c[other] = w[other]
      BY Zenon, <1>9, <3>1 DEF Wishes
    <3>. QED
      BY Zenon, <1>2, <1>3, <1>5, <1>9, <2>2, <3>2
  <2>. QED
    BY Zenon, <2>1, <2>2
<1>. QED
  BY Zenon, <1>2, <1>3, <1>6, <1>7, <1>8, <1>9 DEF Wishes, v

LEMMA LevelWished ==
  ASSUME NEW c, NEW w, NEW apart, Wishes(c, w, apart), NEW q \in Levels
  PROVE  Wishes([c EXCEPT !.qosLevel = q], [w EXCEPT !.qosLevel = q], apart)
<1> DEFINE d == [c EXCEPT !.qosLevel = q]  v == [w EXCEPT !.qosLevel = q]
<1>1. c \in Config /\ w \in Config
  BY Zenon DEF Wishes
<1>2. d \in Config /\ v \in Config
  BY Zenon, <1>1, LevelIs, RequestsAssumption
<1>3. ASSUME NEW field \in TextFields PROVE d[field] = c[field] /\ v[field] = w[field]
  BY <1>1, FieldsOf DEF TextFields
<1>4. /\ d.protocolType = c.protocolType /\ v.protocolType = w.protocolType
      /\ d.keepAliveDurationSec = c.keepAliveDurationSec
      /\ v.keepAliveDurationSec = w.keepAliveDurationSec
      /\ d.qosLevel = q /\ v.qosLevel = q
  BY <1>1, FieldsOf
<1> HIDE DEF d, v
<1>. QED
  BY Zenon, <1>2, <1>3, <1>4 DEF Wishes, d, v

LEMMA ConfigurePacket == ASSUME PacketInv, Configure PROVE PacketInv'
<1>1. mqttDataPacket' = mqttDataPacket /\ asked' = asked /\ wire' = wire
  BY DEF Configure
<1>2. Wishes(appConfig, wished, mixed)
  BY Zenon DEF PacketInv
<1> DEFINE Set(s) == /\ appConfig' = SetText(appConfig, s[1], s[2])
                     /\ wished' = [wished EXCEPT ![s[1]] = s[2]]
                     /\ mixed' = IF Len(s[2]) < Len(appConfig[s[1]])
                                   THEN mixed \cup {s[1]} ELSE mixed \ {s[1]}
           Put(q) == /\ appConfig' = [appConfig EXCEPT !.qosLevel = q]
                     /\ wished' = [wished EXCEPT !.qosLevel = q]
                     /\ mixed' = mixed
<1>3. ASSUME NEW s \in Settings, Set(s) PROVE Wishes(appConfig', wished', mixed')
  <2> DEFINE F == TextFields  S == ShortText
  <2>1. s \in F \X S
    BY Zenon, RequestsAssumption
  <2> HIDE DEF F, S
  <2>2. s[1] \in F /\ s[2] \in S
    BY <2>1
  <2>3. Wishes(appConfig', [wished EXCEPT ![s[1]] = s[2]], mixed')
    BY Zenon, <1>2, <1>3, <2>2, TextWished DEF F, S
  <2>. QED
    BY Zenon, <1>3, <2>3
<1>4. ASSUME NEW q \in Levels, Put(q) PROVE Wishes(appConfig', wished', mixed')
  BY Zenon, <1>2, <1>4, LevelWished
<1>5. (\E s \in Settings : Set(s)) \/ (\E q \in Levels : Put(q))
  BY Zenon DEF Configure
<1>6. Wishes(appConfig', wished', mixed')
  BY Zenon, <1>3, <1>4, <1>5
<1>. QED
  BY Zenon, <1>1, <1>6 DEF PacketInv, SentReadsAsAsked, SentOf, FrameLike, Wishes

LEMMA MessagePacket == ASSUME PacketInv, Message PROVE PacketInv'
<1> DEFINE f == mqttDataPacket  left == LeftOf(urcQueue, Head(air))
<1>1. /\ FrameLike(f) /\ Wishes(appConfig, wished, mixed)
      /\ ReadsAs(SentOf(f), asked) /\ SentReadsAsAsked
  BY Zenon DEF PacketInv
<1>2. appConfig' = appConfig /\ asked' = asked /\ wished' = wished /\ mixed' = mixed
  BY Zenon DEF Message
<1>3. Answered(left) \/ Ignored
  BY Zenon DEF Message
<1>4. CASE mqttDataPacket' = FrameAfterUrc(Head(air)) /\ wire' = wire
  <2>1. FrameLike(FrameAfterUrc(Head(air))) /\ SentOf(FrameAfterUrc(Head(air))) = SentOf(f)
    <3>1. "NORMAL" \in PacketType
      BY DEF PacketType
    <3>. QED
      BY Zenon, <1>1, <3>1, TypedIs DEF FrameAfterUrc
  <2>. QED
    BY Zenon, <1>1, <1>2, <1>4, <2>1
      DEF PacketInv, SentReadsAsAsked, SentOf, FrameLike, Wishes
<1>5. CASE /\ mqttDataPacket' = Ended(f)
           /\ wire' = [bytes |-> SentOf(Ended(f)), request |-> asked]
  <2>1. FrameLike(Ended(f)) /\ SentOf(Ended(f)) = SentOf(f)
    BY Zenon, <1>1, EndedIs
  <2>2. wire'.bytes = SentOf(f) /\ wire'.request = asked
    BY <1>5, <2>1
  <2>. QED
    BY Zenon, <1>1, <1>2, <1>5, <2>1, <2>2
      DEF PacketInv, SentReadsAsAsked, SentOf, FrameLike, Wishes
<1>6. CASE Answered(left)
  <2>1. \/ /\ mqttDataPacket' = Ended(f)
           /\ wire' = [bytes |-> SentOf(Ended(f)), request |-> asked]
        \/ mqttDataPacket' = FrameAfterUrc(Head(air)) /\ wire' = wire
    BY Zenon, <1>6 DEF Answered
  <2>. QED
    BY Zenon, <1>4, <1>5, <2>1
<1>7. CASE Ignored
  <2>1. mqttDataPacket' = FrameAfterUrc(Head(air)) /\ wire' = wire
    BY Zenon, <1>7 DEF Ignored
  <2>. QED
    BY Zenon, <1>4, <2>1
<1>. QED
  BY Zenon, <1>3, <1>6, <1>7

\* Every other step leaves the frame, its configuration and what was sent alone.
LEMMA PacketKept ==
  ASSUME PacketInv, UNCHANGED <<mqttDataPacket, appConfig, asked, wished, mixed, wire>>
  PROVE  PacketInv'
BY Zenon DEF PacketInv, SentReadsAsAsked, SentOf, FrameLike, Wishes

LEMMA PacketInductive == PacketInv /\ [SNext]_svars => PacketInv'
<1> SUFFICES ASSUME PacketInv, [SNext]_svars PROVE PacketInv'
  OBVIOUS
<1>1. ASSUME NEW f \in Function, Begin(f) PROVE PacketInv'
  BY <1>1, PacketKept DEF Begin, app
<1>2. CASE Fill \/ Finish \/ Execute \/ Wait
  BY <1>2, PacketKept DEF Fill, Finish, Execute, Wait, app
<1>3. CASE Modem
  <2>1. UNCHANGED <<app, wire>>
    BY <1>3 DEF Modem, AnswerPlain, AnswerCpin, AnswerCreg, AnswerAddress, AnswerConnect,
                AnswerSend, Connects, Drops, Receives, Short, Answers, ModemOnly
  <2>. QED
    BY <2>1, PacketKept DEF app
<1>4. CASE UNCHANGED svars
  BY <1>4, PacketKept DEF svars, app
<1>. QED
  BY <1>1, <1>2, <1>3, <1>4, RequestPacket, ConfigurePacket, MessagePacket DEF SNext

LEMMA PacketInit == SInit => PacketInv
<1> SUFFICES ASSUME SInit PROVE PacketInv
  OBVIOUS
<1>1. /\ mqttDataPacket = ZeroFrame /\ appConfig \in Configs /\ asked = NoRequest
      /\ wire = Nowhere /\ wished = appConfig
  BY Zenon DEF SInit
<1>2. FrameLike(ZeroFrame)
  <2>1. 0 \in Byte /\ "NORMAL" \in PacketType
    BY DEF Byte, PacketType
  <2>. QED
    BY <2>1 DEF FrameLike, ZeroFrame
<1>3. \A b : ReadsAs(b, NoRequest)
  <2>1. NoRequest.kind # "unsubscribe" /\ NoRequest.kind # "connect"
    BY DEF NoRequest
  <2>. QED
    BY Zenon, <2>1, OthersRead
<1>4. wire.request = NoRequest
  BY <1>1 DEF Nowhere
<1>5. appConfig \in Config
  BY Zenon, <1>1, RequestsAssumption
<1>6. Wishes(appConfig, wished, mixed)
  BY Zenon, <1>1, <1>5 DEF Wishes
<1>. QED
  BY Zenon, <1>1, <1>2, <1>3, <1>4, <1>6 DEF PacketInv, SentReadsAsAsked

\* What leaves after a prompt reads as the connect or unsubscribe packet that was asked for
\* last, for every size of the frame and of the texts, whatever was written to the frame
\* before: its length byte is right, its fields are the texts the application set last, and
\* behind a connect packet exactly one byte is sent that is not of it.  A connect packet with
\* a text that was set over a longer one is left out: it does not read as was asked for.
THEOREM PacketsReadAsAsked == SSpec => []SentReadsAsAsked
<1>1. SSpec => []PacketInv
  BY PacketInit, PacketInductive, PTL DEF SSpec
<1>2. PacketInv => SentReadsAsAsked
  BY Zenon DEF PacketInv
<1>. QED
  BY <1>1, <1>2, PTL
-------------------------------------------------------------------------------
(* No byte is stored behind the frame.                                       *)

\* Where a frame ends when something has been written to it
LEMMA WrittenEnds ==
  ASSUME NEW f, FrameLike(f), NEW s \in Seq(Byte), NEW g, g = Written(f, s)
  PROVE  g.nextPos = f.nextPos + Len(s) /\ g.totalSize = f.totalSize
<1> DEFINE old == f.data
           new == [i \in DOMAIN old |-> IF i >= f.nextPos /\ i < f.nextPos + Len(s)
                                          THEN s[i - f.nextPos + 1] ELSE old[i]]
           q == f.nextPos + Len(s)
<1>1. g = [f EXCEPT !.data = new, !.nextPos = q]
  BY DEF Written
<1>2. DOMAIN f = {"data", "totalSize", "nextPos", "packetType"}
  BY DEF FrameLike
<1> HIDE DEF new, q
<1>3. g.nextPos = q /\ g.totalSize = f.totalSize
  BY <1>1, <1>2
<1>. QED
  BY <1>3 DEF q

LEMMA SizedEnds ==
  ASSUME NEW f, FrameLike(f), NEW total, NEW g, g = Sized(f, total)
  PROVE  g.nextPos = f.nextPos /\ g.totalSize = total
<1> DEFINE v == (f.nextPos - 2) % 256
<1>1. g = [f EXCEPT !.data[1] = v, !.totalSize = total]
  BY DEF Sized
<1>2. DOMAIN f = {"data", "totalSize", "nextPos", "packetType"}
  BY DEF FrameLike
<1> HIDE DEF v
<1>. QED
  BY <1>1, <1>2

\* The longest packet leaves room for a ping per call.
Longest == MQTT_BUFF_SIZE - MaxWrites
Within(f) == FrameLike(f) /\ f.nextPos <= Longest /\ f.totalSize < MQTT_BUFF_SIZE

LEMMA PacketWithin ==
  ASSUME NEW f, FrameLike(f), f.nextPos = 2, NEW s \in Seq(Byte),
         2 + Len(s) <= Longest, Len(s) + 3 < MQTT_BUFF_SIZE,
         NEW g, g = Written(f, s)
  PROVE  /\ FrameLike(g) /\ g.nextPos = 2 + Len(s) /\ g.totalSize = f.totalSize
         /\ Within(Sized(g, g.nextPos)) /\ Within(Sized(g, g.nextPos + 1))
<1> DEFINE n == Len(s)  q == g.nextPos
<1>1. FrameLike(g) /\ q = 2 + n /\ g.totalSize = f.totalSize
  BY Zenon, WrittenLike, WrittenEnds
<1>2. n \in Nat /\ 2 + n <= Longest /\ n + 3 < MQTT_BUFF_SIZE
  OBVIOUS
<1> HIDE DEF n, q
<1>3. /\ q \in Nat /\ q + 1 \in Nat /\ q <= Longest /\ q < MQTT_BUFF_SIZE
      /\ q + 1 < MQTT_BUFF_SIZE
  BY <1>1, <1>2, FrameSizeAssumption
<1>4. ASSUME NEW total \in Nat, total < MQTT_BUFF_SIZE PROVE Within(Sized(g, total))
  <2>1. FrameLike(Sized(g, total))
    BY Zenon, <1>1, SizedLike
  <2> DEFINE h == Sized(g, total)
  <2>2. h = Sized(g, total)
    OBVIOUS
  <2> HIDE DEF h
  <2>3. h.nextPos = g.nextPos /\ h.totalSize = total
    BY <1>1, <2>2, SizedEnds
  <2>4. FrameLike(h) /\ h.nextPos = q
    BY Zenon, <2>1, <2>2, <2>3 DEF q
  <2>5. Within(h)
    BY Zenon, <1>3, <1>4, <2>3, <2>4 DEF Within
  <2>. QED
    BY Zenon, <2>2, <2>5
<1>. QED
  BY Zenon, <1>1, <1>3, <1>4 DEF n, q

LEMMA UnsubscribeFits ==
  ASSUME NEW f, FrameLike(f), NEW topic, Topic(topic), 8 + Len(topic) <= Longest
  PROVE  Within(Unsubscribe(f, topic, 10))
<1> DEFINE s == Two(10) \o Field(topic)
           m == Len(topic)
           f1 == Begun(f, 162)
           g == Written(f1, s)
<1>1. s \in Seq(Byte) /\ Len(s) = 2 + (2 + m) /\ m \in Nat
  <2>1. 10 \in Word
    BY DEF Word
  <2>2. m \in 0..251
    BY Zenon, TopicIs
  <2>3. Two(10) \in Seq(Byte) /\ Len(Two(10)) = 2 /\ Field(topic) \in Seq(Byte)
        /\ Len(Field(topic)) = 2 + m
    BY Zenon, <2>1, BytesOfTwo, TopicIs
  <2> HIDE DEF m
  <2>4. s \in Seq(Byte) /\ Len(s) = 2 + (2 + m)
    BY Zenon, <2>3, ConcatIs
  <2>. QED
    BY <2>2, <2>4
<1>2. m + 8 <= MQTT_BUFF_SIZE /\ 8 + m <= Longest
  BY Zenon DEF Topic
<1> HIDE DEF s, m
<1>3. s \in Seq(Byte) /\ 2 + Len(s) <= Longest /\ Len(s) + 3 < MQTT_BUFF_SIZE
  BY <1>1, <1>2, FrameSizeAssumption, RoomAssumption DEF Longest
<1>4. FrameLike(f1) /\ f1.nextPos = 2 /\ g = Written(f1, s)
  <2> DEFINE type == 162
  <2>1. type \in Byte
    BY DEF Byte
  <2> HIDE DEF type
  <2>2. FrameLike(Begun(f, type)) /\ Begun(f, type).nextPos = 2
    BY Zenon, <2>1, BegunIs
  <2>. QED
    BY <2>2 DEF type
<1> HIDE DEF f1, g
<1>5. Within(Sized(g, g.nextPos))
  BY <1>3, <1>4, PacketWithin
<1>. QED
  BY Zenon, <1>5 DEF Unsubscribe, s, f1, g

LEMMA SubscribeFits ==
  ASSUME NEW f, FrameLike(f), NEW c \in Config, NEW topic, Topic(topic),
         8 + Len(topic) <= Longest
  PROVE  Within(Subscribe(f, 10, topic, c))
<1> DEFINE s == Two(10) \o Field(topic)
           m == Len(topic)
           f1 == Begun(f, 130)
           g == Written(f1, s)
           k == Sized(g, g.nextPos + 1)
           h == Subscribe(f, 10, topic, c)
<1>1. s \in Seq(Byte) /\ Len(s) = 2 + (2 + m) /\ m \in Nat
  <2>1. 10 \in Word
    BY DEF Word
  <2>2. m \in 0..251
    BY Zenon, TopicIs
  <2>3. Two(10) \in Seq(Byte) /\ Len(Two(10)) = 2 /\ Field(topic) \in Seq(Byte)
        /\ Len(Field(topic)) = 2 + m
    BY Zenon, <2>1, BytesOfTwo, TopicIs
  <2> HIDE DEF m
  <2>4. s \in Seq(Byte) /\ Len(s) = 2 + (2 + m)
    BY Zenon, <2>3, ConcatIs
  <2>. QED
    BY <2>2, <2>4
<1>2. m + 8 <= MQTT_BUFF_SIZE /\ 8 + m <= Longest
  BY Zenon DEF Topic
<1> HIDE DEF s, m
<1>3. s \in Seq(Byte) /\ 2 + Len(s) <= Longest /\ Len(s) + 3 < MQTT_BUFF_SIZE
  BY <1>1, <1>2, FrameSizeAssumption, RoomAssumption DEF Longest
<1>4. FrameLike(f1) /\ f1.nextPos = 2 /\ g = Written(f1, s)
  <2> DEFINE type == 130
  <2>1. type \in Byte
    BY DEF Byte
  <2> HIDE DEF type
  <2>2. FrameLike(Begun(f, type)) /\ Begun(f, type).nextPos = 2
    BY Zenon, <2>1, BegunIs
  <2>. QED
    BY <2>2 DEF type
<1>5. Within(k)
  <2> HIDE DEF f1, g
  <2>. QED
    BY <1>3, <1>4, PacketWithin
<1>6. h = [k EXCEPT !.data[g.nextPos] = c.qosLevel]
  BY Zenon DEF Subscribe, s
<1>7. FrameLike(h)
  BY Zenon, SubscribeLike
<1> HIDE DEF h, k, g
<1>8. h.nextPos = k.nextPos /\ h.totalSize = k.totalSize
  BY <1>5, <1>6 DEF Within, FrameLike
<1>. QED
  BY Zenon, <1>5, <1>7, <1>8 DEF Within, h

LEMMA TypedFits ==
  ASSUME NEW f, Within(f), NEW type \in PacketType, NEW h, h = [f EXCEPT !.packetType = type]
  PROVE  Within(h) /\ h.nextPos = f.nextPos
<1>1. FrameLike(f) /\ f.nextPos <= Longest /\ f.totalSize < MQTT_BUFF_SIZE
  BY Zenon DEF Within
<1>2. FrameLike(h) /\ h.totalSize = f.totalSize
  BY Zenon, <1>1, TypedIs
<1>3. h.nextPos = f.nextPos
  BY <1>1 DEF FrameLike
<1>. QED
  BY Zenon, <1>1, <1>2, <1>3 DEF Within

LEMMA ConnectFits ==
  ASSUME NEW f, FrameLike(f), NEW c \in Config, NEW fs
  PROVE  Within(Connect(f, c, fs))
<1> DEFINE s == BodyOf(c, fs)
           n == Len(s)
           f1 == Begun(f, 16)
           g == Written(f1, s)
           k == Sized(g, g.nextPos + 1)
<1>1. s \in Seq(Byte) /\ n \in 0..(16 + 6 * TextSize)
  BY Zenon, BodyFits DEF Bounded
<1> HIDE DEF s, n
<1>2. 2 + n <= Longest /\ n + 3 < MQTT_BUFF_SIZE
  BY <1>1, FrameSizeAssumption, RoomAssumption DEF Longest
<1>3. 16 \in Byte /\ "CONN" \in PacketType
  BY DEF Byte, PacketType
<1>4. Within(k)
  <2>1. FrameLike(f1) /\ f1.nextPos = 2
    BY Zenon, <1>3, BegunIs
  <2> HIDE DEF f1
  <2>. QED
    BY Zenon, <1>1, <1>2, <2>1, PacketWithin DEF n
<1>5. Connect(f, c, fs) = [k EXCEPT !.packetType = "CONN"]
  <2>1. Connect(f, c, fs) = [Sized(g, g.nextPos + 1) EXCEPT !.packetType = "CONN"]
    BY Zenon DEF Connect, s, BodyOf, UserOf, WillOf, TopicOf, ClientOf, KeepOf, HeadOf, NameOf,
                 Optional
  <2>. QED
    BY Zenon, <2>1
<1> HIDE DEF g, k
<1>. QED
  BY Zenon, <1>3, <1>4, <1>5, TypedFits

LEMMA PublishFits ==
  ASSUME NEW f, FrameLike(f), f.totalSize < MQTT_BUFF_SIZE, NEW c, NEW topic, Topic(topic),
         NEW text \in Seq(Byte), 8 + Len(topic) + Len(text) <= Longest
  PROVE  Within(Publish(f, c, topic, text))
<1> DEFINE id == IF c.qosLevel = 0 THEN <<>> ELSE <<0, 10>>
           s == Field(topic) \o id \o text
           f2 == [f EXCEPT !.nextPos = 2]
           g == Written(f2, s)
           m == Len(topic)  j == Len(id)  l == Len(text)
<1>1. id \in Seq(Byte) /\ j \in 0..2
  <2>1. 0 \in Byte /\ 10 \in Byte
    BY DEF Byte
  <2>2. CASE c.qosLevel = 0
    <3>1. id = <<>>
      BY <2>2
    <3>. QED
      BY <3>1
  <2>3. CASE c.qosLevel # 0
    <3>1. id = <<0, 10>>
      BY <2>3
    <3> HIDE DEF id
    <3>. QED
      BY <2>1, <3>1
  <2>. QED
    BY <2>2, <2>3
<1> HIDE DEF id
<1>2. s \in Seq(Byte) /\ Len(s) = ((2 + m) + j) + l /\ m \in 0..251 /\ l \in Nat
  <2>1. Field(topic) \in Seq(Byte) /\ Len(Field(topic)) = 2 + m /\ m \in 0..251
    BY Zenon, TopicIs
  <2>2. Field(topic) \o id \in Seq(Byte) /\ Len(Field(topic) \o id) = (2 + m) + j
    BY Zenon, <1>1, <2>1, ConcatIs
  <2>3. s \in Seq(Byte) /\ Len(s) = ((2 + m) + j) + l
    BY Zenon, <2>2, ConcatIs
  <2>4. l \in Nat
    OBVIOUS
  <2>. QED
    BY Zenon, <2>1, <2>3, <2>4
<1>3. 8 + m + l <= Longest
  OBVIOUS
<1> HIDE DEF s, m, j, l
<1>4. 2 + Len(s) <= Longest /\ Len(s) + 3 < MQTT_BUFF_SIZE
  BY <1>1, <1>2, <1>3, FrameSizeAssumption, RoomAssumption DEF Longest
<1>5. FrameLike(f2) /\ f2.nextPos = 2 /\ f2.totalSize = f.totalSize
  <2>1. 2 \in Nat
    OBVIOUS
  <2>2. FrameLike(f2)
    BY Zenon, <2>1, CountsLike
  <2>3. f2.nextPos = 2 /\ f2.totalSize = f.totalSize
    BY DEF FrameLike
  <2>. QED
    BY Zenon, <2>2, <2>3
<1>6. Publish(f, c, topic, text) \in {Sized(g, g.nextPos + 1), g}
  BY Zenon DEF Publish, s, id
<1> HIDE DEF f2
<1>7. /\ FrameLike(g) /\ g.nextPos = 2 + Len(s) /\ g.totalSize = f2.totalSize
      /\ Within(Sized(g, g.nextPos + 1))
  BY Zenon, <1>2, <1>4, <1>5, PacketWithin
<1> HIDE DEF g
<1>8. Within(g)
  BY Zenon, <1>4, <1>5, <1>7 DEF Within
<1>. QED
  BY Zenon, <1>6, <1>7, <1>8

\* ping and disconn go one byte on.
LEMMA TwoBytesFit ==
  ASSUME NEW f, FrameLike(f), NEW type, NEW packet, NEW h, h = TwoBytes(f, type, packet)
  PROVE  h.nextPos = f.nextPos + 1 /\ h.totalSize = 2
<1> DEFINE p == f.nextPos
           q == p + 1
           new == [f.data EXCEPT ![p] = type, ![q] = 0]
<1>1. DOMAIN f = {"data", "totalSize", "nextPos", "packetType"}
  BY DEF FrameLike
<1>2. h = [f EXCEPT !.data = new, !.nextPos = q, !.totalSize = 2, !.packetType = packet]
  BY DEF TwoBytes
<1> HIDE DEF new, q
<1>3. h.nextPos = q /\ h.totalSize = 2
  BY <1>1, <1>2
<1>. QED
  BY Zenon, <1>3 DEF q, p

LEMMA EndedFits ==
  ASSUME NEW f, FrameLike(f), NEW h, h = Ended(f)
  PROVE  h.nextPos = f.nextPos /\ h.totalSize = f.totalSize
<1> DEFINE new == [f.data EXCEPT ![f.totalSize] = 26]
<1>1. DOMAIN f = {"data", "totalSize", "nextPos", "packetType"}
  BY DEF FrameLike
<1>2. h = [f EXCEPT !.data = new]
  BY DEF Ended
<1> HIDE DEF new
<1>. QED
  BY <1>1, <1>2

\* Where the frame may end after the calls that were made; with that, in it.
RoomInv == /\ writes \in 0..MaxWrites /\ FrameLike(mqttDataPacket)
           /\ mqttDataPacket.nextPos < Longest + writes
           /\ mqttDataPacket.totalSize < MQTT_BUFF_SIZE

LEMMA RoomKept ==
  ASSUME RoomInv, writes' = writes, NEW h, mqttDataPacket' = h, FrameLike(h),
         h.nextPos = mqttDataPacket.nextPos, h.totalSize = mqttDataPacket.totalSize
  PROVE  RoomInv'
<1>1. FrameLike(mqttDataPacket)'
  BY Zenon DEF FrameLike
<1>. QED
  BY Zenon, <1>1 DEF RoomInv, Longest

\* A packet of its own, and two bytes more
LEMMA AsksRoom ==
  ASSUME RoomInv, NEW request, NEW h, Asks(request, h), FrameLike(h),
         h.totalSize < MQTT_BUFF_SIZE,
         h.nextPos <= Longest \/ h.nextPos = mqttDataPacket.nextPos + 1
  PROVE  RoomInv'
<1> DEFINE p == mqttDataPacket.nextPos  q == h.nextPos
<1>1. writes' = writes + 1 /\ writes < MaxWrites /\ mqttDataPacket' = h
  BY DEF Asks
<1>2. writes \in 0..MaxWrites /\ p < Longest + writes /\ p \in Nat /\ q \in Nat
  BY DEF RoomInv, FrameLike
<1>3. q <= Longest \/ q = p + 1
  OBVIOUS
<1> HIDE DEF p, q
<1>4. q < Longest + writes' /\ writes' \in 0..MaxWrites
  BY <1>1, <1>2, <1>3, RoomAssumption, FrameSizeAssumption DEF Longest
<1>5. FrameLike(mqttDataPacket)'
  BY Zenon, <1>1 DEF FrameLike
<1>6. (mqttDataPacket.nextPos < Longest + writes)' /\ (mqttDataPacket.totalSize < MQTT_BUFF_SIZE)'
  BY <1>1, <1>4 DEF q, Longest
<1>. QED
  BY Zenon, <1>4, <1>5, <1>6 DEF RoomInv

LEMMA RequestRoom == ASSUME PacketInv, RoomInv, Request PROVE RoomInv'
<1> DEFINE f == mqttDataPacket  c == appConfig
<1>1. FrameLike(f) /\ f.totalSize < MQTT_BUFF_SIZE /\ c \in Config
  BY Zenon DEF PacketInv, Wishes, RoomInv
<1>2. ASSUME NEW request, NEW h, Asks(request, h), Within(h) PROVE RoomInv'
  BY Zenon, <1>2, AsksRoom DEF Within
<1>3. ASSUME NEW topic \in Texts
      PROVE  Topic(topic) /\ topic \in Seq(Byte) /\ Len(topic) \in Nat
  <2>1. Topic(topic) /\ topic \in Seq(Byte)
    BY Zenon, <1>3, RequestsAssumption DEF Topic
  <2>. QED
    BY <2>1
<1>4. ASSUME NEW topic \in Texts, NEW text \in Texts
      PROVE  8 + Len(topic) + Len(text) <= Longest /\ 8 + Len(topic) <= Longest
  <2>1. Len(topic) \in Nat /\ Len(text) \in Nat
    BY Zenon, <1>3, <1>4
  <2>2. 8 + Len(topic) + Len(text) + MaxWrites <= MQTT_BUFF_SIZE /\ MaxWrites \in Nat
        /\ MQTT_BUFF_SIZE \in Nat
    BY Zenon, <1>4, RoomAssumption, FrameSizeAssumption
  <2> DEFINE m == Len(topic)  l == Len(text)
  <2> HIDE DEF m, l
  <2>3. 8 + m + l <= Longest /\ 8 + m <= Longest
    BY <2>1, <2>2 DEF Longest, m, l
  <2>. QED
    BY Zenon, <2>3 DEF m, l
<1>5. ASSUME NEW fs \in FlagSets PROVE Within(Connect(f, c, fs))
  BY Zenon, <1>1, ConnectFits
<1>6. ASSUME NEW topic \in Texts
      PROVE  Within(Unsubscribe(f, topic, 10)) /\ Within(Subscribe(f, 10, topic, c))
  BY Zenon, <1>1, <1>3, <1>4, <1>6, UnsubscribeFits, SubscribeFits
<1>7. ASSUME NEW topic \in Texts, NEW text \in Texts PROVE Within(Publish(f, c, topic, text))
  BY Zenon, <1>1, <1>3, <1>4, <1>7, PublishFits
<1>8. ASSUME NEW request, NEW type \in Byte, NEW packet \in PacketType,
             Asks(request, TwoBytes(f, type, packet))
      PROVE  RoomInv'
  <2>1. PICK h : h = TwoBytes(f, type, packet)
    OBVIOUS
  <2>2. FrameLike(h) /\ h.nextPos = f.nextPos + 1 /\ h.totalSize = 2
    BY Zenon, <1>1, <1>8, <2>1, TwoBytesLike, TwoBytesFit
  <2>3. h.totalSize < MQTT_BUFF_SIZE
    BY <2>2, FrameSizeAssumption
  <2>. QED
    BY Zenon, <1>8, <2>1, <2>2, <2>3, AsksRoom
<1>9. 192 \in Byte /\ 224 \in Byte /\ "PING" \in PacketType /\ "DISCONN" \in PacketType
  BY DEF Byte, PacketType
<1> HIDE DEF f, c
<1>. QED
  BY Zenon, <1>2, <1>5, <1>6, <1>7, <1>8, <1>9 DEF Request, Ping, Disconn, f, c

LEMMA MessageRoom == ASSUME RoomInv, Message PROVE RoomInv'
<1> DEFINE f == mqttDataPacket
<1>1. FrameLike(f) /\ writes' = writes
  BY Zenon DEF RoomInv, Message
<1>2. mqttDataPacket' = Ended(f) \/ mqttDataPacket' = FrameAfterUrc(Head(air))
  BY Zenon DEF Message, Answered, Ignored
<1>3. PICK h : mqttDataPacket' = h
  OBVIOUS
<1>4. FrameLike(h) /\ h.nextPos = f.nextPos /\ h.totalSize = f.totalSize
  <2>1. CASE h = Ended(f)
    <3>1. FrameLike(h)
      BY Zenon, <1>1, <2>1, EndedIs
    <3>. QED
      BY Zenon, <1>1, <2>1, <3>1, EndedFits
  <2>2. CASE h = [f EXCEPT !.packetType = "NORMAL"]
    <3>1. "NORMAL" \in PacketType
      BY DEF PacketType
    <3>2. FrameLike(h) /\ h.totalSize = f.totalSize
      BY Zenon, <1>1, <2>2, <3>1, TypedIs
    <3>3. h.nextPos = f.nextPos
      BY <1>1, <2>2 DEF FrameLike
    <3>. QED
      BY Zenon, <3>2, <3>3
  <2>3. CASE h = f
    BY Zenon, <1>1, <2>3
  <2>. QED
    BY Zenon, <1>2, <1>3, <2>1, <2>2, <2>3 DEF FrameAfterUrc
<1>. QED
  BY Zenon, <1>1, <1>3, <1>4, RoomKept

LEMMA RoomInductive == PacketInv /\ RoomInv /\ [SNext]_svars => RoomInv'
<1> SUFFICES ASSUME PacketInv, RoomInv, [SNext]_svars PROVE RoomInv'
  OBVIOUS
<1> DEFINE f == mqttDataPacket
<1>0. FrameLike(f)
  BY DEF RoomInv
<1>1. ASSUME UNCHANGED <<mqttDataPacket, writes>> PROVE RoomInv'
  BY Zenon, <1>0, <1>1, RoomKept
<1>2. ASSUME NEW g \in Function, Begin(g) PROVE RoomInv'
  BY <1>1, <1>2 DEF Begin, app
<1>3. CASE Fill \/ Finish \/ Execute \/ Wait
  BY <1>1, <1>3 DEF Fill, Finish, Execute, Wait, app
<1>4. CASE Modem
  <2>1. UNCHANGED app
    BY <1>4 DEF Modem, AnswerPlain, AnswerCpin, AnswerCreg, AnswerAddress, AnswerConnect,
                AnswerSend, Connects, Drops, Receives, Short, Answers, ModemOnly
  <2>. QED
    BY <1>1, <2>1 DEF app
<1>5. CASE Configure
  <2>1. writes \in 0..MaxWrites /\ f.nextPos < Longest + writes /\ f.nextPos \in Nat
        /\ f.totalSize < MQTT_BUFF_SIZE /\ f' = f /\ writes' = writes + 1 /\ writes < MaxWrites
    BY <1>5 DEF RoomInv, Configure, FrameLike
  <2>2. f.nextPos < Longest + writes' /\ writes' \in 0..MaxWrites
    BY <2>1, RoomAssumption, FrameSizeAssumption DEF Longest
  <2>3. FrameLike(f)'
    BY Zenon, <1>0, <2>1 DEF FrameLike
  <2>4. (f.nextPos < Longest + writes)' /\ (f.totalSize < MQTT_BUFF_SIZE)'
    BY <2>1, <2>2 DEF Longest
  <2>. QED
    BY Zenon, <2>2, <2>3, <2>4 DEF RoomInv
<1>6. CASE UNCHANGED svars
  BY <1>1, <1>6 DEF svars, app
<1>. QED
  BY <1>2, <1>3, <1>4, <1>5, <1>6, RequestRoom, MessageRoom DEF SNext

LEMMA RoomInit == SInit => RoomInv
<1> SUFFICES ASSUME SInit PROVE RoomInv
  OBVIOUS
<1>1. mqttDataPacket = ZeroFrame /\ writes = 0 /\ PacketInv
  BY PacketInit DEF SInit
<1>2. ZeroFrame.nextPos = 0 /\ ZeroFrame.totalSize = 0
  BY DEF ZeroFrame
<1>3. FrameLike(mqttDataPacket)
  BY Zenon, <1>1 DEF PacketInv
<1>4. 0 < Longest + 0 /\ 0 < MQTT_BUFF_SIZE /\ 0 \in 0..MaxWrites
  BY FrameSizeAssumption, RoomAssumption DEF Longest
<1>. QED
  BY Zenon, <1>1, <1>2, <1>3, <1>4 DEF RoomInv

\* The other variables of the session
SessionTypeInv == /\ machineState \subseteq {"MDM_RDY", "GPRS_RDY", "SERVER_RDY"}
                  /\ urcQueue \in {<<>>, UrcTable} /\ dataServer \in Payloads \cup {""}
                  /\ doing \in Function \cup {"none"} /\ mode \in {"command", "text"}
                  /\ link \in {"down", "opening", "up"}

LEMMA FunctionSets ==
  ASSUME NEW f \in Function PROVE Sets[f] \subseteq {"MDM_RDY", "GPRS_RDY", "SERVER_RDY"}
BY DEF Function, Batch, Sets

LEMMA FirstElement == ASSUME NEW S, NEW s \in Seq(S), s # <<>> PROVE s[1] \in S
OBVIOUS

\* Data that is kept is data that the server sent.
LEMMA DataIsSent ==
  ASSUME AirTypeOK, air # <<>>, Received(Head(air)), dataServer \in Payloads \cup {""}
  PROVE  dataServer' \in Payloads \cup {""}
<1> DEFINE msg == Head(air)
<1>1. msg \in Seq(AnyLine)
  BY Zenon, HeadTailProperties DEF AirTypeOK
<1>2. CASE First(msg, "RECV FROM:")
  <2>1. msg # <<>> /\ msg[1].says = "RECV FROM:"
    BY <1>2 DEF First
  <2> DEFINE T == AnyLine
  <2>2. msg \in Seq(T)
    BY <1>1
  <2> HIDE DEF msg, T
  <2>3. msg[1] \in T
    BY Zenon, <2>1, <2>2, FirstElement
  <2>4. msg[1].carries \in Payloads
    BY Zenon, <2>1, <2>3 DEF T, AnyLine
  <2>. QED
    BY Zenon, <2>4 DEF Received, msg
<1>3. CASE ~First(msg, "RECV FROM:")
  BY Zenon, <1>3 DEF Received
<1>. QED
  BY Zenon, <1>2, <1>3

LEMMA SessionTypeInductive ==
  SessionInv /\ SessionTypeInv /\ [SNext]_svars => SessionTypeInv'
<1> SUFFICES ASSUME SessionInv, SessionTypeInv, [SNext]_svars PROVE SessionTypeInv'
  OBVIOUS
<1>1. ASSUME NEW f \in Function, Begin(f) PROVE SessionTypeInv'
  BY <1>1 DEF Begin, SessionTypeInv, modem
<1>2. CASE Finish
  <2>1. doing \in Function
    BY <1>2 DEF SessionInv, CallInv, DoingInv, Finish, Return
  <2>2. machineState' \subseteq {"MDM_RDY", "GPRS_RDY", "SERVER_RDY"}
    BY <1>2, <2>1, FunctionSets DEF Finish, SessionTypeInv
  <2>. QED
    BY <1>2, <2>2 DEF Finish, SessionTypeInv, modem
<1>3. CASE Fill \/ Wait \/ Request \/ Configure
  BY <1>3 DEF Fill, Wait, Request, Asks, Configure, SessionTypeInv, modem, state
<1>4. CASE Execute
  BY <1>4 DEF Execute, SessionTypeInv, state
<1>5. CASE Message
  <2>1. /\ air # <<>> /\ Received(Head(air)) /\ mode' = mode /\ link' = link
        /\ urcQueue' = urcQueue /\ doing' = doing
    BY <1>5 DEF Message
  <2>2. dataServer' \in Payloads \cup {""}
    BY <2>1, DataIsSent DEF SessionInv, AirInv, SessionTypeInv
  <2>3. machineState' \subseteq machineState
    BY <1>5 DEF Message, StateAfterUrc
  <2>. QED
    BY <2>1, <2>2, <2>3 DEF SessionTypeInv
<1>6. CASE Modem
  <2>1. UNCHANGED <<machineState, urcQueue, dataServer, doing>>
    BY <1>6 DEF Modem, AnswerPlain, AnswerCpin, AnswerCreg, AnswerAddress, AnswerConnect,
                AnswerSend, Connects, Drops, Receives, Short, Answers, ModemOnly, state
  <2>2. mode' \in {mode, "text", "command"} /\ link' \in {link, "opening", "up", "down"}
    BY <1>6 DEF Modem, AnswerPlain, AnswerCpin, AnswerCreg, AnswerAddress, AnswerConnect,
                AnswerSend, Connects, Drops, Receives, Short
  <2>. QED
    BY <2>1, <2>2 DEF SessionTypeInv
<1>7. CASE UNCHANGED svars
  BY <1>7 DEF svars, modem, state, SessionTypeInv
<1>. QED
  BY <1>1, <1>2, <1>3, <1>4, <1>5, <1>6, <1>7 DEF SNext

LEMMA RoomIsFrame == RoomInv => mqttDataPacket \in Frame
<1> SUFFICES ASSUME RoomInv PROVE mqttDataPacket \in Frame
  OBVIOUS
<1> DEFINE f == mqttDataPacket  D == [0..(MQTT_BUFF_SIZE - 1) -> Byte]  T == PacketType
           p == f.nextPos  t == f.totalSize
<1>1. f \in [data : D, totalSize : Nat, nextPos : Nat, packetType : T]
  BY Zenon DEF RoomInv, FrameLike
<1>2. /\ p < Longest + writes /\ t < MQTT_BUFF_SIZE /\ writes \in 0..MaxWrites
  BY Zenon DEF RoomInv
<1> HIDE DEF f, D, T
<1>3. p \in Nat /\ t \in Nat
  BY <1>1
<1>4. p \in 0..(MQTT_BUFF_SIZE - 1) /\ t \in 0..(MQTT_BUFF_SIZE - 1)
  BY <1>2, <1>3, FrameSizeAssumption, RoomAssumption DEF Longest
<1> DEFINE N == 0..(MQTT_BUFF_SIZE - 1)
<1> HIDE DEF N
<1>5. f \in [data : D, totalSize : N, nextPos : N, packetType : T]
  BY <1>1, <1>4 DEF N
<1>. QED
  BY Zenon, <1>5 DEF Frame, f, D, T, N

\* The variables of the session keep their types; what matters most of it: no writer and no
\* callback stores a byte behind the frame, as long as MaxWrites calls have their room.
THEOREM SessionTypes == SSpec => []STypeOK
<1>1. SSpec => []TypeOK
  BY SessionIsEngine, TypeCorrect, PTL
<1>2. SSpec => []PacketInv
  BY PacketInit, PacketInductive, PTL DEF SSpec
<1>3. SSpec => []RoomInv
  BY <1>2, RoomInit, RoomInductive, PTL DEF SSpec
<1>4. SInit => SessionTypeInv
  BY DEF SInit, SessionTypeInv
<1>5. SSpec => []SessionTypeInv
  BY <1>4, SessionInvariant, SessionTypeInductive, PTL DEF SSpec
<1>6. TypeOK /\ RoomInv /\ SessionTypeInv => STypeOK
  BY RoomIsFrame DEF SessionTypeInv, STypeOK
<1>. QED
  BY <1>1, <1>3, <1>5, <1>6, PTL
===============================================================================
