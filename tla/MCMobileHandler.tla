--------------------------- MODULE MCMobileHandler ----------------------------
(***************************************************************************)
(* Small instances of MobileHandler: members right, wrong or missing, in   *)
(* three orders, and a frame that names a member twice.                    *)
(***************************************************************************)
EXTENDS MobileHandler

M(key, value) == [key |-> key, value |-> value]
Q(piece) == Quoted(<<piece>>)
Wanted(key, values) == {<<>>} \cup {<<M(key, value)>> : value \in values}

Sid == Wanted("sID", {Q("12134456799"), Q("999")})
\* 368 is 112 modulo 256, and so is no quoted opcode of three digits.
Op == Wanted("op", {Decimal[110], Decimal[112], Decimal[117], Decimal[368], Decimal[2],
                    <<Quote, "1", "1", "2", Quote>>})
Type == Wanted("type", {<<"0">>})
Sgtin == Wanted("SGTIN", {Q("1234333566666"), Q("12")})
MobNo == Wanted("mobNo", {Q("8867830282"), Q("12")})
Location == {<<>>, <<M("lat", Q("78.1"))>>, <<M("lat", Q("78.1")), M("lon", <<"1">>)>>}

MCFrames ==
  {s \o o \o t \o d : s \in Sid, o \in Op, t \in Type, d \in Sgtin \cup MobNo}
  \cup {<<M("sID", Q("01010101010"))>> \o t \o n \o l \o o :
          o \in Op, t \in Type, n \in MobNo, l \in Location}
  \cup {o \o <<M("sID", Q("12134456799")), M("type", <<"0">>),
               M("x", <<ObjectStart>> \o Q("mobNo") \o <<Colon>> \o Q("8867830282")
                      \o <<ObjectEnd>>),
               M("mobNo", Q("12")), M("mobNo", Q("8867830282"))>> : o \in Op}

\* Nothing, something, and more than the buffer holds.
MCJunk == {<<>>, <<Quote, "4">>, [i \in 1..10 |-> "..............................  "]}
MCHash(key) == key[2]

=============================================================================
