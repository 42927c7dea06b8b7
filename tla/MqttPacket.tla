----------------------------- MODULE MqttPacket -----------------------------
(***************************************************************************)
(* MQTT packets as bytes (MQTTPacket.c, MQTTConnectClient.c,               *)
(* MQTTSerializePublish.c, MQTTDeserializePublish.c, MQTTSubscribeClient.c)*)
(* A packet is a header byte, the length of the rest, and the rest.  The   *)
(* length is computed before the rest is written.  A string is a sequence; *)
(* what its members are does not matter.                                   *)
(***************************************************************************)
EXTENDS Naturals, Sequences

TypeCode == [CONNECT |-> 1, CONNACK |-> 2, PUBLISH |-> 3, PUBACK |-> 4, PUBREC |-> 5, PUBREL |-> 6,
             PUBCOMP |-> 7, SUBSCRIBE |-> 8, SUBACK |-> 9, PINGREQ |-> 12, PINGRESP |-> 13]

-----------------------------------------------------------------------------
(* Writing *)

Header(type, qos) == 16 * TypeCode[type] + 2 * qos

\* What four bytes of length can say.
MaxLength == 268435455

Encode[length \in 0 .. MaxLength] ==
  IF length < 128 THEN <<length>> ELSE <<128 + (length % 128)>> \o Encode[length \div 128]

WriteInt(n) == <<(n \div 256) % 256, n % 256>>

WriteString(s) == WriteInt(Len(s)) \o s

\* At least the length of a whole packet with the rest given.
PacketLen(rest) ==
  rest + 1 + (IF rest + 1 < 128 THEN 1 ELSE IF rest + 1 < 16384 THEN 2 ELSE IF rest + 1 < 2097151 THEN 3 ELSE 4)

\* A packet in a buffer, nothing if it might not fit.
Framed(header, length, rest, buflen) ==
  IF PacketLen(length) > buflen THEN <<>> ELSE <<header>> \o Encode[length] \o rest

ConnectLength(clientID) == 12 + Len(clientID) + 2

\* Protocol level 3, a clean session without will, user and password.
SerializeConnect(clientID, keepAlive, buflen) ==
  Framed(Header("CONNECT", 0), ConnectLength(clientID),
         WriteInt(6) \o <<"M", "Q", "I", "s", "d", "p">> \o <<3, 2>> \o WriteInt(keepAlive)
           \o WriteString(clientID),
         buflen)

SubscribeLength(topic) == 2 + 2 + Len(topic) + 1

SerializeSubscribe(id, topic, qos, buflen) ==
  Framed(Header("SUBSCRIBE", 1), SubscribeLength(topic), WriteInt(id) \o WriteString(topic) \o <<qos>>, buflen)

\* Mutant of PublishLength: the packet id is forgotten.
PublishLengthAnonymous(qos, topic, payload) == 2 + Len(topic) + Len(payload)

PublishLength(qos, topic, payload) == 2 + Len(topic) + Len(payload) + (IF qos > 0 THEN 2 ELSE 0)

SerializePublish(qos, id, topic, payload, buflen) ==
  Framed(Header("PUBLISH", qos), PublishLength(qos, topic, payload),
         WriteString(topic) \o (IF qos > 0 THEN WriteInt(id) ELSE <<>>) \o payload, buflen)

SerializeAck(type, id) == <<Header(type, IF type = "PUBREL" THEN 1 ELSE 0)>> \o Encode[2] \o WriteInt(id)

SerializeZero(type) == <<Header(type, 0)>> \o Encode[0]

-----------------------------------------------------------------------------
(* Reading *)

TypeOf(buf) == CHOOSE type \in DOMAIN TypeCode : TypeCode[type] = buf[1] \div 16

Multiplier == <<1, 128, 16384, 2097152>>

\* The length of the rest, and where it starts.
Decode(buf) ==
  LET digits   == CHOOSE k \in 1 .. 4 : buf[k + 1] < 128 /\ \A j \in 1 .. k - 1 : buf[j + 1] >= 128
      Value(k) == IF k <= digits THEN (buf[k + 1] % 128) * Multiplier[k] ELSE 0
  IN  [length |-> Value(1) + Value(2) + Value(3) + Value(4), start |-> digits + 2]

ReadInt(buf, i) == 256 * buf[i] + buf[i + 1]

\* A string at i in a packet that ends before end fits in it.
StringFits(buf, i, end) == end - i > 1 /\ i + 2 + ReadInt(buf, i) <= end

Error == [type |-> "error"]

DeserializePublish(buf) ==
  LET qos     == (buf[1] \div 2) % 4
      rest    == Decode(buf)
      end     == rest.start + rest.length
      idAt    == rest.start + 2 + ReadInt(buf, rest.start)
      payload == idAt + (IF qos > 0 THEN 2 ELSE 0)
  IN  IF ~StringFits(buf, rest.start, end) THEN Error
      ELSE [type |-> "PUBLISH", arg |-> qos, id |-> IF qos > 0 THEN ReadInt(buf, idAt) ELSE 0,
            topic |-> SubSeq(buf, rest.start + 2, idAt - 1), payload |-> SubSeq(buf, payload, end - 1)]

DeserializeAck(buf) ==
  LET rest == Decode(buf)
  IN  IF rest.length < 2 THEN Error ELSE [type |-> TypeOf(buf), id |-> ReadInt(buf, rest.start), arg |-> 0]

\* The second byte is the return code.
DeserializeConnack(buf) ==
  LET rest == Decode(buf)
  IN  IF rest.length < 2 THEN Error ELSE [type |-> "CONNACK", id |-> 0, arg |-> buf[rest.start + 1]]

\* Of a subscription to one topic.
DeserializeSuback(buf) ==
  LET rest == Decode(buf)
  IN  IF rest.length < 2 THEN Error
      ELSE [type |-> "SUBACK", id |-> ReadInt(buf, rest.start),
            arg |-> IF rest.length = 2 THEN 0 ELSE buf[rest.start + 2]]
=============================================================================
