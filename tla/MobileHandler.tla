---------------------------- MODULE MobileHandler -----------------------------
(***************************************************************************)
(* The application: the handler of the phone's requests, which the tester  *)
(* thread calls with a frame, and the handlers of the buttons and of the   *)
(* reports.  The handler parses the frame, checks it, works the lock, and  *)
(* leaves its answer in btSendDataBuffer.                                  *)
(***************************************************************************)
EXTENDS Packets, JsonParser

CONSTANTS Frames,    \* the members of the frames the phone may send
          Results,   \* what the stubs of the lock's driver may return
          Statuses,  \* what yutu_fw_get_lock_status may return
          Shackles,  \* what yutu_fw_get_shackle_status may return
          JunkBytes  \* opcodes that may be read through a NULL pointer

Member == [key: STRING, value: Text]
ASSUME HandlerAssumption ==
  /\ Frames \subseteq Seq(Member)
  /\ SUCCESS \in Results /\ Results \subseteq {SUCCESS, FAILURE}
  /\ LOCKED \in Statuses /\ Statuses \subseteq {LOCKED, UNLOCKED}
  /\ SHACKLE_IN \in Shackles /\ Shackles \subseteq {SHACKLE_IN, SHACKLE_OUT}
  /\ JunkBytes \subseteq 0..255 /\ JunkBytes # {}

\* The frames the parser can carry: at most as many members as it has tokens, each with
\* room in its token; no name is a delimiter of one, each value starts like one and ends
\* where its brackets do, and an opcode is made of digits and quotes.
Numeral == Range(Digit) \cup {Quote}
Carries(member) ==
  /\ member.key \notin {Quote, Colon}
  /\ {Width(Quoted(<<member.key>>)), Width(member.value)} \subseteq 1..(MAXTOKENBYTES - 1)
  /\ member.value # <<>> /\ Initial(member.value[1]) \in StartsOf("JDATA_OBJECT")
  /\ EndAfter(Append(member.value, Comma), 1) = Len(member.value) + 1
  /\ member.key = "op" => Range(member.value) \subseteq Numeral
ASSUME FramesAssumption ==
  \A frame \in Frames : Len(frame) <= MAXTOKENS /\ \A i \in DOMAIN frame : Carries(frame[i])

VARIABLES
  pc,        \* where the handler is
  cause,     \* history: what is being handled, and the members of the frame
  p,         \* req_packet_parsed
  op,        \* req_json_packet_opcode: the number of a token of p, or 0
  response,  \* btSendDataBuffer
  report,    \* the last packet made for the server
  done       \* history: what was done to the lock

vars == <<pc, cause, p, op, response, report, done>>

Nothing == [by |-> "nothing", members |-> <<>>]
Init == /\ pc = "idle" /\ cause = Nothing /\ p = Unparsed /\ op = 0
        /\ response = <<>> /\ report = <<>> /\ done = {}
-------------------------------------------------------------------------------
(* Reading a frame. *)

\* convert_string_to_integer: a uint8_t, to which a quote is a digit like any other.
DigitValue(c) == IF c = Quote THEN 34 - 48 ELSE (CHOOSE d \in 1..10 : Digit[d] = c) - 1
Convert(text) ==
  LET dec[i \in 0..Len(text)] ==
        IF i = 0 THEN 0 ELSE (10 * dec[i - 1] + DigitValue(text[i])) % 256
  IN  dec[Len(text)]

\* The text of an object (external: the phone writes it).
FrameText(members) ==
  LET text[i \in 0..Len(members)] ==
        IF i = 0 THEN <<ObjectStart>>
        ELSE text[i - 1] \o (IF i = 1 THEN <<>> ELSE <<Comma>>)
             \o Quoted(<<members[i].key>>) \o <<Colon>> \o members[i].value
  IN  Append(text[Len(members)], ObjectEnd)

\* The tester calls the handler with a frame: a whole one, or one without its end.
Receive ==
  /\ pc = "idle" /\ pc' = "parse"
  /\ \E members \in Frames, by \in {"frame", "cutFrame"} :
       LET text == FrameText(members)
       IN  /\ cause' = [by |-> by, members |-> members]
           /\ p' = StructInit(IF by = "frame" THEN text ELSE SubSeq(text, 1, Len(text) - 1))
  /\ UNCHANGED <<op, response, report, done>>

\* A text without a bracket; the next one is looked for in what lies behind the frame.
ReceiveText ==
  /\ pc = "idle" /\ pc' \in {"noJson", "lost"}
  /\ cause' = [by |-> "text", members |-> <<>>]
  /\ p' = StructInit(<<"text">>)
  /\ UNCHANGED <<op, response, report, done>>

\* while (parserStatus != JSON_END); "lost" when it has read past the frame.
Parse ==
  /\ pc = "parse"
  /\ p' = ParseData(p)
  /\ pc' = CASE p'.lost                        -> "lost"
              [] p'.parserStatus = "JSON_END"  -> "check"
              [] OTHER                         -> "parse"
  /\ UNCHANGED <<cause, op, response, report, done>>
-------------------------------------------------------------------------------
(* Checking the request. *)

Found(key) == SearchToken(p, Quoted(<<key>>))
\* What is read through a pointer to a token: anything when it is NULL.
TextOf(token) == IF token = 0 THEN Junk ELSE {p.jData[token].jsonValue}
Has(key, texts) == Found(key) # 0 /\ p.jData[Found(key)].jsonValue \in texts
Opcode == Convert(p.jData[Found("op")].jsonValue)

Answer(text) == /\ pc' = "answered" /\ response' = text
                /\ UNCHANGED <<cause, p, op>>
Refuse(text) == Answer(text) /\ UNCHANGED <<report, done>>

NoJson == /\ pc = "noJson"
          /\ \E id \in Junk : Refuse(ErrorPacket(id, 0, INVALID_JSON))

\* The opcode is read through the pointer that was found to be NULL.
NoOpcode ==
  /\ pc = "check" /\ Found("op") = 0
  /\ \E id \in TextOf(Found("sID")), opcode \in JunkBytes :
       Refuse(ErrorPacket(id, opcode, MOB_INVALID_OPCODE))

Devices == {Quoted(<<"12134456799">>), Quoted(<<"01010101010">>)}
KnownDevice == Opcode = MOB_CONNECT_REQ \/ Has("sID", Devices)
BadDevice ==
  /\ pc = "check" /\ Found("op") # 0 /\ ~KnownDevice
  /\ \E id \in TextOf(Found("sID")) :
       Refuse(ErrorPacket(id, Opcode, MOB_INVALID_DEVICE_ID))
NoType ==
  /\ pc = "check" /\ Found("op") # 0 /\ KnownDevice /\ Found("type") = 0
  /\ \E id \in TextOf(Found("sID")) : Refuse(ErrorPacket(id, Opcode, INVALID_JSON))

Checked == pc = "check" /\ Found("op") # 0 /\ KnownDevice /\ Found("type") # 0

\* The default of the switch
BadOpcode ==
  /\ Checked /\ Opcode \notin {MOB_CONNECT_REQ, MOB_UNLOCK_REQ, MOB_LOCK_REQ}
  /\ Refuse(ErrorPacket(<<"111111111111">>, MOB_INVALID_OPCODE, FAILURE))

Connect ==
  /\ Checked /\ Opcode = MOB_CONNECT_REQ
  /\ IF Has("SGTIN", {Quoted(<<"1234333566666">>)})
       THEN \E status \in Statuses : Refuse(ConnectAnswer(status))
       ELSE \E id \in TextOf(Found("sID")) :
              Refuse(ErrorPacket(id, Opcode, INVALID_SGTIN_NUMBER))

\* A mutant: any number will do.
AnyMobile == Found("mobNo") # 0
MobileKnown == Has("mobNo", {Quoted(<<"8867830282">>)})
MobileRefused ==
  Refuse(ErrorPacket(<<"01010101010">>, Opcode, IF Found("mobNo") = 0
                                                  THEN MOBILE_NUMBER_NOT_FOUND
                                                  ELSE INVALID_MOBILE_NUMBER))
UnlockRefused == Checked /\ Opcode = MOB_UNLOCK_REQ /\ ~MobileKnown /\ MobileRefused
-------------------------------------------------------------------------------
(* Unlocking. *)

\* The request to the server, made in the answer's buffer and not sent.  An error packet
\* about a missing location is written over what is there of it, and not sent either.
AskServer ==
  /\ Checked /\ Opcode = MOB_UNLOCK_REQ /\ MobileKnown
  /\ pc' = "keys" /\ op' = Found("op")
  /\ \E lat \in TextOf(Found("lat")), lon \in TextOf(Found("lon")) :
       LET begun == Begun(UnlockRequestBegin)
           whole == Calls(begun, UnlockRequestRest(lat, lon,
                                   p.jData[Found("mobNo")].jsonValue)).buffer
           over == Puts([Zeroed EXCEPT !.buflen = begun.bufp],
                        ErrorPacket(<<"123456789013">>, Opcode, MOBILE_LOCATION_NOT_FOUND))
       IN  response' = IF Found("lat") # 0 /\ Found("lon") # 0 THEN whole
                       ELSE over.buffer \o SubSeq(whole, Len(begun.buffer) + 1, Len(whole))
  /\ report' = response'
  /\ UNCHANGED <<cause, p, done>>

\* The server's answer, for the time being a text in the program, is parsed in place of
\* the request.  It has both keys, of ten characters; the old one is not compared.
Digits(s) == [i \in DOMAIN s |-> Digit[s[i] + 1]]
ServerAnswer ==
  FrameText(<<[key |-> "dID", value |-> Quoted(Digits(<<1, 2, 1, 3, 4, 4, 5, 6, 7, 9, 9>>))],
              [key |-> "op", value |-> <<"2">>],
              [key |-> "DAT", value |-> Quoted(Digits(<<0, 2, 1, 3, 4, 4, 0, 1, 2, 2, 2, 0, 1, 9>>))],
              [key |-> "type", value |-> <<"1">>],
              [key |-> "oKey", value |-> Quoted(Digits([i \in 1..8 |-> 3]))],
              [key |-> "nKey", value |-> Quoted(Digits([i \in 1..8 |-> 4]))]>>)
ParsedWhole(text) ==
  LET Further(q) == IF q.parserStatus = "JSON_END" \/ q.lost THEN q ELSE ParseData(q)
      parsed[i \in 0..Len(text)] ==
        IF i = 0 THEN StructInit(text) ELSE Further(parsed[i - 1])
  IN  parsed[Len(text)]
ReadKeys == /\ pc = "keys" /\ pc' = "open"
            /\ p' = ParsedWhole(ServerAnswer)
            /\ done' = done \cup {"newKey"}
            /\ UNCHANGED <<cause, op, response, report>>

\* The token of the opcode is one of the server's answer by now.
StaleOpcode == IF op > Len(p.jData) THEN 0 ELSE Convert(p.jData[op].jsonValue)
\* A mutant: the result of the driver is not looked at.
ResultOfSuccess(res) == SUCCESS
UnlockResult(res) == res
OpenLock ==
  /\ pc = "open"
  /\ \E res \in Results, status \in Statuses, id \in Junk :
       /\ report' = UnlockPacket(id, IF StaleOpcode = MOB_SVR_UNLOCK_REQ THEN MOBILE_UNLCK
                                                                       ELSE REMOTE_UNLCK)
       /\ Answer(UnlockAnswer(UnlockResult(res), IF res = SUCCESS THEN UNLOCKED ELSE status))
       /\ done' = IF res = SUCCESS THEN done \cup {"opened"} ELSE done
-------------------------------------------------------------------------------
(* Locking.  The error packets about a missing location are overwritten. *)

LockRefused ==
  /\ Checked /\ Opcode = MOB_LOCK_REQ
  /\ \E shackle \in Shackles :
       IF shackle = SHACKLE_OUT
         THEN Refuse(ErrorPacket(<<"01010101010">>, Opcode, SHACKLE_NOT_IN_ERROR))
         ELSE ~MobileKnown /\ MobileRefused
LockDevice ==
  /\ Checked /\ Opcode = MOB_LOCK_REQ /\ SHACKLE_IN \in Shackles /\ MobileKnown
  /\ \E res \in Results, status \in Statuses, id \in Junk :
       IF res = SUCCESS
         THEN /\ report' = LockReport(id, MOBILE_LCK, p.jData[Found("mobNo")].jsonValue)
              /\ Answer(LockAnswer(status))
              /\ done' = done \cup {"locked"}
         ELSE Refuse(ErrorPacket(<<"01010101010">>, Opcode, LOCKING_FAILED))
-------------------------------------------------------------------------------
(* The caller, the buttons and the packets for the server. *)

\* The tester sends the answer.
SendAnswer == /\ pc = "answered" /\ pc' = "idle"
              /\ cause' = Nothing /\ p' = Unparsed /\ op' = 0
              /\ response' = <<>> /\ report' = <<>> /\ done' = {}

\* yutu_fwap_buttonpress_handler: the other presses do nothing.
Press(button, packet, acts) ==
  /\ pc = "idle" /\ pc' = "answered"
  /\ cause' = [by |-> button, members |-> <<>>]
  /\ report' = packet /\ done' = acts
  /\ UNCHANGED <<p, op, response>>
LongPress ==
  \E res \in Results, id \in Junk, mobileNo \in Junk :
    IF res = SUCCESS
      THEN Press("LONG_PRESS", LockReport(id, BUTTON_LOCK, mobileNo), {"locked"})
      ELSE Press("LONG_PRESS", ErrorPacket(id, BUTTON_LOCK, LOCKING_FAILED), {})
UnlockPress ==
  \E res \in Results, id \in Junk :
    IF res = SUCCESS THEN Press("UNLOCK_PRESS", UnlockPacket(id, BUTTON_UNLCK), {"opened"})
                     ELSE Press("UNLOCK_PRESS", <<>>, {})

\* yutu_fwap_report_packet_handler, and the packets of yutu_if_*
Report ==
  \E id \in Junk, sgtin \in Junk, status \in Statuses, shackle \in Shackles,
     code \in {MOB_INVALID_OPCODE} :
    \E packet \in {ReportPacket(id, status, shackle), RegistrationPacket(id, sgtin),
                   ServerError(id, code)} :
      Press("server", packet, {})

Handler == \/ Parse \/ NoJson \/ NoOpcode \/ BadDevice \/ NoType \/ BadOpcode \/ Connect
           \/ UnlockRefused \/ AskServer \/ ReadKeys \/ OpenLock
           \/ LockRefused \/ LockDevice
Next == \/ Receive \/ ReceiveText \/ Handler \/ SendAnswer
        \/ LongPress \/ UnlockPress \/ Report

\* The tester thread gets its slices: WF_vars(Handler), with what enables Handler written
\* out, since each of its steps starts, and each step from there is one of its.
Busy == pc \in {"noJson", "parse", "check", "keys", "open"}
Spec == Init /\ [][Next]_vars /\ ([]<>(~Busy) \/ []<><<Busy>>_vars)
-------------------------------------------------------------------------------
(* Properties. *)

\* Every structure keeps its type, and an answer stays in its buffer, whatever is read
\* through a missing token.
TypeOK ==
  /\ pc \in {"idle", "noJson", "parse", "check", "keys", "open", "answered", "lost"}
  /\ cause \in [by: {"nothing", "frame", "cutFrame", "text", "LONG_PRESS", "UNLOCK_PRESS",
                     "server"},
                members: Seq(Member)]
  /\ IsParser(p) /\ op \in Nat
  /\ response \in Text /\ Width(response) <= BUFF_SIZE
  /\ report \in Text /\ Width(report) <= BUFF_SIZE
  /\ done \subseteq {"opened", "locked", "newKey"}

\* The value of the first member with a key
ValueIn(members, key) ==
  LET same == {i \in DOMAIN members : members[i].key = key}
  IN  IF same = {} THEN <<>> ELSE members[Min(same)].value

\* The number that is read of a text
Number(text) ==
  LET number[i \in 0..Len(text)] ==
        IF i = 0 THEN 0 ELSE 10 * number[i - 1] + DigitValue(text[i])
  IN  number[Len(text)]

\* The lock is opened, and its key replaced, by the button or by a whole frame whose
\* first members of these names are a known device, an opcode that is 112 modulo 256,
\* any type, and the number of the phone.
OpensOnlyForKnown ==
  done \cap {"opened", "newKey"} # {} =>
    \/ cause.by = "UNLOCK_PRESS"
    \/ /\ cause.by = "frame"
       /\ ValueIn(cause.members, "sID") \in Devices
       /\ Number(ValueIn(cause.members, "op")) % 256 = MOB_UNLOCK_REQ
       /\ ValueIn(cause.members, "type") # <<>>
       /\ ValueIn(cause.members, "mobNo") = Quoted(<<"8867830282">>)

\* The phone learns from the answer what was done: it says success of an unlocking, or of
\* a locking, exactly when that was done, and an error exactly when nothing was tried or
\* the locking failed.  Frames whose answer is made of a missing token are left out.
AnswerTellsOutcome ==
  (pc = "answered" /\ cause.by = "frame" /\
   \A key \in {"sID", "op"} : ValueIn(cause.members, key) # <<>>) =>
    LET answer == ParsedWhole(response)
        Says(key, n) == LET token == SearchToken(answer, Quoted(<<key>>))
                        IN  token # 0 /\ answer.jData[token].jsonValue = Itoa(n)
        Success(opcode) == Says("op", opcode) /\ Says("res", SUCCESS)
    IN  /\ answer.parserStatus = "JSON_END"
        /\ Success(MOB_UNLOCK_REQ) = ("opened" \in done)
        /\ Success(MOB_LOCK_REQ) = ("locked" \in done)
        /\ (Says("type", 3) \/ Says("op", MOB_CONNECT_REQ)) = (done = {})

\* The handler finds the end of every whole frame with a member, and answers it.
RequestAnswered ==
  (pc = "parse" /\ cause.by = "frame" /\ cause.members # <<>>) ~> pc = "answered"
===============================================================================
