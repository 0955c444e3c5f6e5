------------------------------ MODULE MqttWriter ------------------------------
(***************************************************************************)
(* The MQTT packet writer: every writer fills the one frame it is given    *)
(* from what it holds already, so the functions here take the frame and    *)
(* return it.  A text is the sequence of its bytes; the frame has the      *)
(* fields of data_packet_t and the configuration those of                  *)
(* app_config_struct_t, without dup and retain: publish works them into a  *)
(* type byte that it then does not store.                                  *)
(***************************************************************************)
EXTENDS Integers, Sequences

CONSTANTS MQTT_BUFF_SIZE,      \* bytes of a frame (400 in the code)
          TextSize             \* bytes of a text of the configuration (19 in the code)

\* A connect packet with all texts fits in the frame, and its length in a byte.
ASSUME FrameSizeAssumption == /\ MQTT_BUFF_SIZE \in Nat /\ TextSize \in Nat
                              /\ 20 + 6 * TextSize <= MQTT_BUFF_SIZE
                              /\ 16 + 6 * TextSize <= 255

Byte == 0..255
Word == 0..(256 * 256 - 1)
PacketType == {"NORMAL", "CONN", "PING", "DISCONN"}   \* those that are ever stored
\* The writers store a byte at nextPos, and the callback of the prompt one at totalSize.
Frame == [data : [0..(MQTT_BUFF_SIZE - 1) -> Byte], totalSize : 0..(MQTT_BUFF_SIZE - 1),
          nextPos : 0..(MQTT_BUFF_SIZE - 1), packetType : PacketType]

\* The texts are in arrays that have room for their NUL.
ShortText == {s \in Seq(Byte) : Len(s) \in 0..TextSize}
Config == [MqttUsername : ShortText, MqttPassword : ShortText, clientID : ShortText,
           willTopic : ShortText, willMessage : ShortText, protocolName : ShortText,
           protocolType : Byte, keepAliveDurationSec : Word, qosLevel : 0..2]

\* The frame before main: zeroed memory.
ZeroFrame == [data |-> [i \in 0..(MQTT_BUFF_SIZE - 1) |-> 0], totalSize |-> 0,
              nextPos |-> 0, packetType |-> "NORMAL"]

Two(n) == <<(n \div 256) % 256, n % 256>>
Field(s) == Two(Len(s)) \o s

\* data[nextPos++] = ... for each byte of s
Written(f, s) ==
  [f EXCEPT !.data = [i \in DOMAIN @ |->
                        IF i >= f.nextPos /\ i < f.nextPos + Len(s)
                          THEN s[i - f.nextPos + 1] ELSE @[i]],
            !.nextPos = @ + Len(s)]

\* A mutant: the bytes are appended to the packet before.
BegunBehind(f, type) == [f EXCEPT !.data[0] = type]
Begun(f, type) == [f EXCEPT !.data[0] = type, !.nextPos = 2]
Sized(f, total) == [f EXCEPT !.data[1] = (f.nextPos - 2) % 256, !.totalSize = total]

FlagBit == [USERNAME_FLAG |-> 128, PASSWORD_FLAG |-> 64, WILL_RETAIN |-> 32,
            WILL_QOS1 |-> 16, WILL_QOS0 |-> 8, WILL_FLAG |-> 4, CLEAN_SESSION |-> 2]
FlagByte(flags) ==
  LET Bit(flag) == IF flag \in flags THEN FlagBit[flag] ELSE 0
  IN  Bit("USERNAME_FLAG") + Bit("PASSWORD_FLAG") + Bit("WILL_RETAIN") + Bit("WILL_QOS1")
      + Bit("WILL_QOS0") + Bit("WILL_FLAG") + Bit("CLEAN_SESSION")

\* The will message goes with WILL_RETAIN, not with WILL_FLAG; one byte more is
\* counted than was written.
Connect(f, c, flags) ==
  LET Given(flag, s) == IF flag \in flags THEN Field(s) ELSE <<>>
      g == Written(Begun(f, 16),
                   Field(c.protocolName) \o <<c.protocolType, FlagByte(flags)>>
                     \o Two(c.keepAliveDurationSec) \o Field(c.clientID)
                     \o Given("WILL_FLAG", c.willTopic)
                     \o Given("WILL_RETAIN", c.willMessage)
                     \o Given("USERNAME_FLAG", c.MqttUsername)
                     \o Given("PASSWORD_FLAG", c.MqttPassword))
  IN [Sized(g, g.nextPos + 1) EXCEPT !.packetType = "CONN"]

\* ping and disconn go on where the packet before ended, but send its first bytes.
TwoBytes(f, type, packet) ==
  [f EXCEPT !.data[f.nextPos] = type, !.data[f.nextPos + 1] = 0,
            !.nextPos = @ + 1, !.totalSize = 2, !.packetType = packet]
Ping(f) == TwoBytes(f, 192, "PING")
Disconn(f) == TwoBytes(f, 224, "DISCONN")

\* A mutant: one byte more is counted, as in the other writers.
UnsubscribeLong(f, topic, id) ==
  LET g == Written(Begun(f, 162), Two(id) \o Field(topic)) IN Sized(g, g.nextPos + 1)
Unsubscribe(f, topic, id) ==
  LET g == Written(Begun(f, 162), Two(id) \o Field(topic)) IN Sized(g, g.nextPos)

\* The QoS byte is written behind the packet and missing from its length.
Subscribe(f, id, topic, c) ==
  LET g == Written(Begun(f, 130), Two(id) \o Field(topic))
  IN [Sized(g, g.nextPos + 1) EXCEPT !.data[g.nextPos] = c.qosLevel]

\* The type byte stays that of the packet before.  A packet longer than 255
\* bytes is refused when it has been written.
Publish(f, c, topic, text) ==
  LET g == Written([f EXCEPT !.nextPos = 2],
                   Field(topic) \o (IF c.qosLevel = 0 THEN <<>> ELSE <<0, 10>>) \o text)
  IN IF g.nextPos - 1 <= 255 THEN Sized(g, g.nextPos + 1) ELSE g

\* The setters copy a text without its NUL: the end of a longer one stays.
Overwritten(old, new) == new \o SubSeq(old, Len(new) + 1, Len(old))
SetText(c, field, text) == [c EXCEPT ![field] = Overwritten(@, text)]
TextFields == {"MqttUsername", "MqttPassword", "clientID", "willTopic", "willMessage",
               "protocolName"}
===============================================================================
