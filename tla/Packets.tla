------------------------------- MODULE Packets --------------------------------
(***************************************************************************)
(* The packets the application makes with the JSON writer, as the sequence *)
(* of its calls.                                                           *)
(***************************************************************************)
EXTENDS JsonWriter

CONSTANTS BUFF_SIZE,  \* the length given to jwOpen
          Junk        \* texts that may be read through a NULL pointer
ASSUME PacketsAssumption == BUFF_SIZE \in Nat \ {0} /\ Junk \subseteq Text /\ Junk # {}

O(key, value) == [call |-> "obj", key |-> <<key>>, value |-> value]
A(value) == [call |-> "arr", key |-> <<>>, value |-> value]
E == [call |-> "end", key |-> <<>>, value |-> Null]
S(piece) == Str(<<piece>>)

Do(w, c) == CASE c.call = "obj" -> Obj(w, c.key, c.value)
              [] c.call = "arr" -> Arr(w, c.value)
              [] c.call = "end" -> End(w)
Calls(w, cs) == LET done[i \in 0..Len(cs)] == IF i = 0 THEN w ELSE Do(done[i - 1], cs[i])
                IN  done[Len(cs)]
Begun(cs) == Calls(Open(Zeroed, BUFF_SIZE, "JW_OBJECT", FALSE), cs)
Packet(cs) == Begun(cs).buffer

SUCCESS == 0
FAILURE == 1
UNLOCKED == 0
LOCKED == 1
SHACKLE_OUT == 0
SHACKLE_IN == 1
REQUEST == 0
RESPONSE == 1
ONE_WAY == 3

MOB_CONNECT_REQ == 110
MOB_UNLOCK_REQ == 112
MOB_LOCK_REQ == 117
MOB_SVR_UNLOCK_REQ == 2
INVALID_SGTIN_NUMBER == 120
SHACKLE_NOT_IN_ERROR == 42
MOB_INVALID_OPCODE == 131
MOB_INVALID_DEVICE_ID == 130
INVALID_JSON == 75
MOBILE_NUMBER_NOT_FOUND == 140
INVALID_MOBILE_NUMBER == 141
MOBILE_LOCATION_NOT_FOUND == 142
LOCKING_FAILED == 84
LOCK_REPORT_PACKET == 85
BUTTON_LOCK == 90
MOBILE_UNLCK == 0
REMOTE_UNLCK == 1
BUTTON_UNLCK == 2
MOBILE_LCK == 0

\* What the stubs of the hardware return.
DateTime == S("13425464645")
Latitude == S("78.4750203")
Longitude == S("17.4172617")
Percent == Int32(21)
-------------------------------------------------------------------------------
\* yutu_fwap_create_error_packet
ErrorPacket(id, opcode, code) ==
  Packet(<<O("deviceID", Str(id)), O("opCode", Int32(opcode)), O("dateTime", DateTime),
           O("type", Int32(3)), O("errorCode", Int32(code)), E>>)

\* yutu_fwap_create_unlock_packet
UnlockPacket(id, method) ==
  Packet(<<O("deviceID", Str(id)), O("dateTime", DateTime), O("opCode", Int32(9)),
           O("unlockMethod", Int32(method)), O("deviceLocation", Object),
           O("latitude", Latitude), O("longitude", Longitude), E,
           O("type", Int32(ONE_WAY)), E>>)

\* yutu_fwap_create_lock_report_packet
LockReport(id, method, mobileNo) ==
  Packet(<<O("deviceID", Str(id)), O("dateTime", DateTime),
           O("opCode", Int32(LOCK_REPORT_PACKET)), O("lockMethod", Int32(method)),
           O("type", Int32(ONE_WAY)), O("mobileNo", Str(mobileNo)), E>>)

\* yutu_fwap_create_report_packet: with an empty DeviceID 378 characters, so it is cut.
ReportPacket(id, status, shackle) ==
  Packet(<<O("DeviceID", Str(id)), O("DateTime", DateTime), O("OpCode", Int32(8)),
           O("Type", Int32(1)), O("asset_name", S("YUTU01-001")), O("client", S("YuTu")),
           O("location", Object), O("type", S("Point")), O("coordinates", Array),
           A(Latitude), A(Longitude), E, E, O("device_type", S("LockTracking")),
           O("device temperature", Percent), O("lockstatus", Int32(status)),
           O("isOpen", S("no")), O("timestamp", Int32(1545108774)),
           O("tampered", S("yes")), O("device_key", S("IHPX2LQDKZAT6LGUUW4U")),
           O("Current speed", S("35")), O("shackelstatus", Int32(shackle)),
           O("device_no", S("YUTU01")), E>>)

\* yutu_if_send_resistration_packet
RegistrationPacket(id, sgtin) ==
  Packet(<<O("DeviceId", Str(id)), O("Opcode", Int32(1)), O("DateTime", DateTime),
           O("Type", Int32(REQUEST)), O("SGTIN", Str(sgtin)), E>>)

\* yutu_if_send_error_packet
ServerError(id, code) ==
  Packet(<<O("DeviceId", Str(id)), O("Opcode", Int32(255)), O("DateTime", DateTime),
           O("Type", Int32(RESPONSE)), O("Error", Int32(code)), E>>)

\* The answer to MOB_CONNECT_REQ
ConnectAnswer(status) ==
  Packet(<<O("sID", S("01010101010")), O("op", Int32(MOB_CONNECT_REQ)),
           O("DAT", DateTime), O("type", Int32(RESPONSE)), O("enKey", S("a2b23asdfs")),
           O("batt", Percent), O("lckSt", Int32(status)), O("dTemp", Percent), E>>)

\* The request to the server that MOB_UNLOCK_REQ makes, up to the search for the location.
UnlockRequestBegin ==
  <<O("dID", S("123456789013")), O("op", Int32(MOB_SVR_UNLOCK_REQ)), O("DAT", DateTime),
    O("type", Int32(REQUEST))>>
UnlockRequestRest(lat, lon, mobileNumber) ==
  <<O("mLat", Str(lat)), O("mLon", Str(lon)), O("dLat", Latitude), O("dLon", Longitude),
    O("mobNo", Str(mobileNumber)), O("unlckType", S("MOBILE_UNLCK")),
    O("tripID", S("123")), E>>

\* The answers to MOB_UNLOCK_REQ and MOB_LOCK_REQ
UnlockAnswer(res, status) ==
  Packet(<<O("sID", S("12134456799")), O("op", Int32(MOB_UNLOCK_REQ)),
           O("DAT", DateTime), O("res", Int32(res)), O("type", Int32(RESPONSE)),
           O("lckSt", Int32(status)), E>>)
LockAnswer(status) ==
  Packet(<<O("sID", S("01010101010")), O("op", Int32(MOB_LOCK_REQ)), O("DAT", DateTime),
           O("type", Int32(RESPONSE)), O("res", Int32(SUCCESS)), O("batt", Percent),
           O("lckSt", Int32(status)), O("dTemp", Percent), E>>)
===============================================================================
