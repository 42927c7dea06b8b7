----------------------------- MODULE MqttClient -----------------------------
(***************************************************************************)
(* The network as the main loop uses it: Networking.cpp on the MQTT client *)
(* (MQTTClient.c) on its timers and its transport (MQTT_lpc1549.c).  The   *)
(* program connects, subscribes to the settings, and then polls for them   *)
(* and publishes its status by turns.  The broker is not part of the       *)
(* repository: it may refuse a connection or a subscription, answer late   *)
(* or never, and send a message again.                                     *)
(*                                                                         *)
(* Packets are sent and received whole and in order; what they look like   *)
(* on the wire is a matter of the properties only.  Time is counted in     *)
(* ticks, and passes only while the client waits for a packet, while the   *)
(* callback of a settings message writes to the fan, or while the program  *)
(* does something else.                                                    *)
(***************************************************************************)
EXTENDS Integers, Json, MqttPacket

CONSTANTS
  KeepAlive,       \* keepAliveInterval
  CommandTimeout,  \* command_timeout_ms
  PollTime,        \* of Networking::poll
  WorkTime,        \* at most between two calls: the sensors, the fan, the LCD
  HandlingTime,    \* at most in the callback: the fan's register
  Polls,           \* between two publications
  MaxPacketId,     \* MAX_PACKET_ID
  BufSize,         \* of sendbuf and readbuf
  Strings,         \* what the program sends: its name, the two topics, a status
  QoS,             \* of the settings messages that are sent
  Texts,           \* what they say, ...
  Meanings,        \* ... and the fields the sender means
  MaxRetries,      \* bound: messages and releases sent again
  MaxUnread        \* bound: packets the broker has not read when a poll begins

Messages == DOMAIN QoS

ASSUME MqttAssumption ==
  /\ {CommandTimeout, PollTime, Polls, MaxPacketId} \subseteq Nat \ {0}
  /\ {WorkTime, HandlingTime, MaxRetries, MaxUnread} \subseteq Nat /\ KeepAlive \in Nat \ {0}
  /\ MaxPacketId > 1
  /\ 2 * (WorkTime + PollTime + HandlingTime) <= KeepAlive
  /\ 2 * (CommandTimeout + HandlingTime) <= 3 * KeepAlive
  /\ Messages \subseteq Nat \ {0} /\ QoS \in [Messages -> 0 .. 2]
  /\ DOMAIN Texts = Messages /\ DOMAIN Meanings = Messages

\* What is sent.
Sequences(s) == Seq({s[i] : i \in DOMAIN s})
AllStrings ==
  {Strings.client, Strings.settings, Strings.status, Strings.text} \cup {Texts[m] : m \in Messages}

\* Numbers that are read fit their two bytes, and packets their buffer.
ASSUME WireAssumption ==
  /\ MaxPacketId < 65536 /\ Len(Strings.settings) < 65536 /\ \A m \in Messages : m < 65536
  /\ BufSize \in 0 .. MaxLength
  /\ \A s \in AllStrings : s \in Sequences(s)
  /\ PacketLen(ConnectLength(Strings.client)) <= BufSize
  /\ PacketLen(SubscribeLength(Strings.settings)) <= BufSize
  /\ PacketLen(PublishLength(1, Strings.status, Strings.text)) <= BufSize
  /\ \A m \in Messages : PacketLen(PublishLength(QoS[m], Strings.settings, Texts[m])) <= BufSize

\* The senders of the settings write what they mean.
ASSUME MeaningAssumption ==
  \A m \in Messages : Meanings[m] \in Sequences(Meanings[m]) /\ Says(Texts[m], Meanings[m])

VARIABLES
  call,        \* the call that goes on, "work" between two calls
  turn,        \* its number: 0 connect, 1 subscribe, then polls and a publication
  timer,       \* ticks left of its timer, or of the work
  busy,        \* ticks that the callback has taken so far
  registered,  \* NetworkingStorage has the instance
  isconnected, handler, ping_outstanding, next_packetid,
  last_sent, last_received,   \* ticks left of the two timers; the first counts on below 0
  toBroker, toClient,         \* packets on their way
  subscribed,  \* the broker's view
  status,      \* of the settings messages, the broker's view
  delivered,   \* the settings messages handed to the program's callback
  retries

session == <<isconnected, handler, ping_outstanding, next_packetid>>
broker  == <<subscribed, status, retries>>
vars    == <<call, turn, timer, busy, registered, session, last_sent, last_received,
             toBroker, toClient, broker, delivered>>

Packet(type, id, arg) == [type |-> type, id |-> id, arg |-> arg]

Refused == 128     \* of a subscription

Init ==
  /\ call = "connect" /\ turn = 0 /\ timer = CommandTimeout /\ busy = 0 /\ registered = FALSE
  /\ isconnected = FALSE /\ handler = FALSE /\ ping_outstanding = FALSE /\ next_packetid = 1
  /\ last_sent = KeepAlive /\ last_received = KeepAlive
  /\ toBroker = <<Packet("CONNECT", 0, 0)>> /\ toClient = <<>>
  /\ subscribed = FALSE /\ status = [m \in Messages |-> "unsent"] /\ retries = 0
  /\ delivered = {}

-----------------------------------------------------------------------------
(* One turn of cycle() *)

\* Mutant of GetNextPacketId: no return to 1.
GetNextPacketIdUnwrapped(id) == id + 1

GetNextPacketId(id) == IF id = MaxPacketId THEN 1 ELSE id + 1

\* Mutant of Answer: a release is not answered.
AnswerPublishOnly(p) ==
  CASE p.type = "PUBLISH" /\ p.arg = 1 -> <<Packet("PUBACK", p.id, 0)>>
    [] p.type = "PUBLISH" /\ p.arg = 2 -> <<Packet("PUBREC", p.id, 0)>>
    [] OTHER                           -> <<>>

\* The answer that a packet requires.
Answer(p) ==
  CASE p.type = "PUBLISH" /\ p.arg = 1 -> <<Packet("PUBACK", p.id, 0)>>
    [] p.type = "PUBLISH" /\ p.arg = 2 -> <<Packet("PUBREC", p.id, 0)>>
    [] p.type = "PUBREC"               -> <<Packet("PUBREL", p.id, 0)>>
    [] p.type = "PUBREL"               -> <<Packet("PUBCOMP", p.id, 0)>>
    [] OTHER                           -> <<>>

\* Mutant of Targeted: strcmp agrees.
TargetedIfEqual(cstring, topic) == cstring = topic

\* NetworkingStorage::send: strcmp differs.  Received topics come without a C string.
NoString == "NULL"
Targeted(cstring, topic) == cstring # topic

\* The packet is for the program's callback.
Called(p) ==
  p.type = "PUBLISH" /\ handler /\ registered /\ Targeted(NoString, "controller/settings")

\* messageArrived and the callback of the program, which returns with this.
Deliver(p) ==
  delivered' = IF Called(p) THEN delivered \cup {p.id} ELSE delivered

Awaited == [connect |-> "CONNACK", subscribe |-> "SUBACK", publish |-> "PUBACK"]

\* Mutant of Outcome: the timer is not looked at.
OutcomePatient(type, failed) ==
  IF failed THEN "failure"
  ELSE IF call = "poll" THEN IF timer = 0 THEN "success" ELSE "more"
  ELSE IF type = Awaited[call] THEN "success"
  ELSE "more"

\* MQTTYield and waitfor after a turn.
Outcome(type, failed) ==
  IF failed THEN "failure"
  ELSE IF call = "poll" THEN IF timer = 0 THEN "success" ELSE "more"
  ELSE IF type = Awaited[call] THEN "success"
  ELSE IF timer = 0 THEN "failure" ELSE "more"

Return ==
  /\ call' = "work" /\ timer' \in 0 .. WorkTime
  /\ turn' = IF turn = Polls + 2 THEN 2 ELSE turn + 1

CloseSession ==
  isconnected' = FALSE /\ handler' = FALSE /\ ping_outstanding' = FALSE

\* Mutant of Fail: only what fails in cycle closes the session.
FailLightly(outstanding) ==
  ping_outstanding' = outstanding /\ UNCHANGED <<isconnected, handler>>

\* The session after a turn that did not succeed.  A failed poll closes an
\* open session (in cycle), a failed command any session (in the command).
Fail(outstanding) ==
  IF call \in {"poll", "connect"} /\ ~isconnected
  THEN ping_outstanding' = outstanding /\ UNCHANGED <<isconnected, handler>>
  ELSE CloseSession

Accepted(p) == call = "connect" /\ p.arg = 0
Granted(p) == call = "subscribe" /\ p.arg # Refused

\* The call has what it wants: p is the acknowledgement of a command.
Succeed(p, outstanding) ==
  /\ isconnected' = (isconnected \/ Accepted(p))
  /\ registered' = (registered \/ Accepted(p))
  /\ handler' = (handler \/ Granted(p))
  /\ ping_outstanding' = (outstanding /\ ~Accepted(p))

\* Mutant of Due: the broker is pinged when it has not been heard, only.
DueReceived(sent, received) == received <= 0

Due(sent, received) == sent <= 0 \/ received <= 0

\* keepalive() and what follows; answers are sent before.
Conclude(p, sent, received, outstanding, answers) ==
  LET due     == Due(sent, received)
      failed  == due /\ outstanding
      pings   == due /\ ~outstanding
      outcome == Outcome(p.type, failed)
  IN  /\ last_sent' = IF pings THEN KeepAlive ELSE sent
      /\ last_received' = received
      /\ toBroker' = toBroker \o answers \o (IF pings THEN <<Packet("PINGREQ", 0, 0)>> ELSE <<>>)
      /\ CASE outcome = "success" -> Succeed(p, outstanding \/ pings) /\ Return
           [] outcome = "failure" -> Fail(outstanding \/ pings) /\ UNCHANGED registered /\ Return
           [] outcome = "more"    -> /\ ping_outstanding' = (outstanding \/ pings)
                                     /\ UNCHANGED <<isconnected, handler, registered, call, turn, timer>>
      /\ UNCHANGED <<next_packetid, broker>>

Waiting == call # "work"

SentAfter(packets) == IF packets = <<>> THEN last_sent ELSE KeepAlive

\* A packet is read and handled.  It was read before the callback began.
HandlePacket ==
  /\ Waiting /\ toClient # <<>>
  /\ LET p == Head(toClient)
     IN  /\ Deliver(p)
         /\ Conclude(p, SentAfter(Answer(p)), KeepAlive - busy,
                     ping_outstanding /\ p.type # "PINGRESP", Answer(p))
  /\ busy' = 0 /\ toClient' = Tail(toClient)

\* Nothing came in time.
TimeOut ==
  /\ Waiting /\ timer = 0 /\ busy = 0
  /\ Conclude(Packet("none", 0, 0), last_sent, last_received, ping_outstanding, <<>>)
  /\ UNCHANGED <<busy, toClient, delivered>>

Less(ticks) == IF ticks = 0 THEN 0 ELSE ticks - 1

\* Bound: ticks that last_sent counts below 0, more than half an interval.
MaxOverdue == KeepAlive \div 2 + 1

Elapse ==
  /\ timer' = Less(timer)
  /\ last_sent' = IF last_sent = -MaxOverdue THEN last_sent ELSE last_sent - 1
  /\ last_received' = Less(last_received)
  /\ UNCHANGED <<call, turn, registered, session, toBroker, toClient, broker, delivered>>

\* What has arrived is read before time passes.
Tick ==
  /\ timer > 0 /\ (Waiting => toClient = <<>>)
  /\ Elapse /\ UNCHANGED busy

\* The callback waits for the fan to answer, while all timers run on.
Block ==
  /\ Waiting /\ toClient # <<>> /\ Called(Head(toClient)) /\ busy < HandlingTime
  /\ Elapse /\ busy' = busy + 1

-----------------------------------------------------------------------------
(* The program's next call *)

\* A command: subscribe or publish.
Command(name, packet, id) ==
  /\ isconnected
  /\ call' = name /\ timer' = CommandTimeout
  /\ toBroker' = Append(toBroker, packet) /\ last_sent' = SentAfter(<<packet>>)
  /\ next_packetid' = id
  /\ UNCHANGED <<turn, registered, isconnected, handler, ping_outstanding>>

Skip ==
  Return /\ UNCHANGED <<registered, next_packetid, toBroker, last_sent>>

Idle == call = "work" /\ timer = 0

Subscribe ==
  /\ Idle /\ turn = 1
  /\ LET id == GetNextPacketId(next_packetid)
     IN  \/ Command("subscribe", Packet("SUBSCRIBE", id, 2), id)
         \/ ~isconnected /\ CloseSession /\ Skip
  /\ UNCHANGED <<busy, last_received, toClient, broker, delivered>>

Publish ==
  /\ Idle /\ turn = Polls + 2
  /\ LET id == GetNextPacketId(next_packetid)
     IN  \/ Command("publish", Packet("PUBLISH", id, 1), id)
         \/ ~isconnected /\ CloseSession /\ Skip
  /\ UNCHANGED <<busy, last_received, toClient, broker, delivered>>

Poll ==
  /\ Idle /\ turn \in 2 .. Polls + 1 /\ Len(toBroker) <= MaxUnread
  /\ \/ /\ registered /\ call' = "poll" /\ timer' = PollTime
        /\ UNCHANGED <<turn, registered, next_packetid, toBroker, last_sent>>
     \/ ~registered /\ Skip
  /\ UNCHANGED <<busy, isconnected, handler, ping_outstanding, last_received, toClient, broker,
                 delivered>>

-----------------------------------------------------------------------------
(* The broker *)

client == <<call, turn, timer, busy, registered, session, last_sent, last_received, delivered>>

Tell(p) == toClient' = Append(toClient, p)

BrokerReceive ==
  /\ toBroker # <<>> /\ toBroker' = Tail(toBroker)
  /\ LET p == Head(toBroker)
     IN  \/ /\ p.type = "CONNECT" /\ \E rc \in {0, 5} : Tell(Packet("CONNACK", 0, rc))
            /\ UNCHANGED <<subscribed, status>>
         \/ /\ p.type = "SUBSCRIBE"
            /\ \E granted \in {2, Refused} :
                 Tell(Packet("SUBACK", p.id, granted)) /\ subscribed' = (granted # Refused)
            /\ UNCHANGED status
         \/ /\ p.type = "PUBLISH" /\ Tell(Packet("PUBACK", p.id, 0))
            /\ UNCHANGED <<subscribed, status>>
         \/ /\ p.type = "PINGREQ" /\ Tell(Packet("PINGRESP", 0, 0))
            /\ UNCHANGED <<subscribed, status>>
         \/ /\ p.type = "PUBREC" /\ Tell(Packet("PUBREL", p.id, 0))
            /\ status' = [status EXCEPT ![p.id] = IF @ = "sent" THEN "received" ELSE @]
            /\ UNCHANGED subscribed
         \/ /\ p.type \in {"PUBACK", "PUBCOMP"} /\ status' = [status EXCEPT ![p.id] = "complete"]
            /\ UNCHANGED <<toClient, subscribed>>
  /\ UNCHANGED <<client, retries>>

\* A message to the subscriber, in the order of their numbers.
BrokerPublish(m) ==
  /\ subscribed /\ status[m] = "unsent" /\ \A k \in Messages : k < m => status[k] # "unsent"
  /\ Tell(Packet("PUBLISH", m, QoS[m]))
  /\ status' = [status EXCEPT ![m] = IF QoS[m] = 0 THEN "complete" ELSE "sent"]
  /\ UNCHANGED <<client, toBroker, subscribed, retries>>

\* A broker that waits too long for an answer.
BrokerRetry(m) ==
  /\ retries < MaxRetries /\ status[m] \in {"sent", "received"}
  /\ Tell(IF status[m] = "sent" THEN Packet("PUBLISH", m, QoS[m]) ELSE Packet("PUBREL", m, 0))
  /\ retries' = retries + 1
  /\ UNCHANGED <<client, toBroker, subscribed, status>>

-----------------------------------------------------------------------------

Client == HandlePacket \/ TimeOut \/ Tick \/ Block \/ Subscribe \/ Poll \/ Publish

Next ==
  \/ Client
  \/ BrokerReceive \/ \E m \in Messages : BrokerPublish(m) \/ BrokerRetry(m)

Spec == Init /\ [][Next]_vars

\* The program is one thread that never stops, and time passes while it waits.
FairSpec == Spec /\ WF_vars(Client)

-----------------------------------------------------------------------------
(* Properties *)

ToBrokerTypes ==
  {"CONNECT", "SUBSCRIBE", "PUBLISH", "PUBACK", "PUBREC", "PUBREL", "PUBCOMP", "PINGREQ"}
ToClientTypes == {"CONNACK", "SUBACK", "PUBLISH", "PUBACK", "PUBREL", "PINGRESP"}

Packets(types) == [type : types, id : Nat, arg : Nat]

TypeOK ==
  /\ call \in DOMAIN Awaited \cup {"poll", "work"} /\ turn \in 0 .. Polls + 2
  /\ timer \in Nat /\ busy \in 0 .. HandlingTime /\ registered \in BOOLEAN
  /\ isconnected \in BOOLEAN /\ handler \in BOOLEAN /\ ping_outstanding \in BOOLEAN
  /\ next_packetid \in 1 .. MaxPacketId
  /\ last_sent \in -MaxOverdue .. KeepAlive /\ last_received \in 0 .. KeepAlive
  /\ toBroker \in Seq(Packets(ToBrokerTypes)) /\ toClient \in Seq(Packets(ToClientTypes))
  /\ subscribed \in BOOLEAN /\ retries \in 0 .. MaxRetries
  /\ status \in [Messages -> {"unsent", "sent", "received", "complete"}]
  /\ delivered \subseteq Messages

\* The bytes of a packet that the client sends, and that the broker sends.
Sent(p) ==
  CASE p.type = "CONNECT"   -> SerializeConnect(Strings.client, KeepAlive, BufSize)
    [] p.type = "SUBSCRIBE" -> SerializeSubscribe(p.id, Strings.settings, p.arg, BufSize)
    [] p.type = "PUBLISH"   -> SerializePublish(p.arg, p.id, Strings.status, Strings.text, BufSize)
    [] p.type = "PINGREQ"   -> SerializeZero(p.type)
    [] OTHER                -> SerializeAck(p.type, p.id)

SentByBroker(p) ==
  CASE p.type = "CONNACK"  -> <<Header(p.type, 0)>> \o Encode[2] \o <<0, p.arg>>
    [] p.type = "SUBACK"   -> <<Header(p.type, 0)>> \o Encode[3] \o WriteInt(p.id) \o <<p.arg>>
    [] p.type = "PUBLISH"  -> SerializePublish(p.arg, p.id, Strings.settings, Texts[p.id], BufSize)
    [] p.type = "PINGRESP" -> SerializeZero(p.type)
    [] OTHER               -> SerializeAck(p.type, p.id)

\* What the client reads out of them.
Read(buf) ==
  CASE TypeOf(buf) = "CONNACK"  -> DeserializeConnack(buf)
    [] TypeOf(buf) = "SUBACK"   -> DeserializeSuback(buf)
    [] TypeOf(buf) = "PUBLISH"  -> DeserializePublish(buf)
    [] TypeOf(buf) = "PINGRESP" -> Packet(TypeOf(buf), 0, 0)
    [] OTHER                    -> DeserializeAck(buf)

\* The length that a packet announces is the length that follows, although it
\* is computed before and apart from what is written; and the packet fits the
\* buffer, also where one more byte of it takes one more byte of length.
FramesWhole ==
  toBroker # <<>> =>
    LET buf == Sent(Head(toBroker))
    IN  buf # <<>> /\ Len(buf) <= BufSize /\ Decode(buf).start + Decode(buf).length = Len(buf) + 1

\* The client reads what the broker has written.  A message of QoS 0 has no number.
ReadAsWritten ==
  toClient # <<>> =>
    LET p    == Head(toClient)
        read == Read(SentByBroker(p))
    IN  IF p.type = "PUBLISH"
        THEN read = [type |-> p.type, id |-> IF p.arg > 0 THEN p.id ELSE 0, arg |-> p.arg,
                     topic |-> Strings.settings, payload |-> Texts[p.id]]
        ELSE read = p

\* What travels as bytes is the packet that was meant, in both directions.
PacketsAgree == FramesWhole /\ ReadAsWritten

\* No packet of a type in a queue; none but the k-th.
NoneOf(queue, type) == \A i \in 1 .. Len(queue) : queue[i].type # type
OnlyOne(queue, type, k) == \A i \in 1 .. Len(queue) : queue[i].type = type <=> i = k

\* The publication that waits is on its way to the broker, ...
Published ==
  /\ \E k \in 1 .. Len(toBroker) :
       OnlyOne(toBroker, "PUBLISH", k) /\ toBroker[k].id = next_packetid
  /\ NoneOf(toClient, "PUBACK")

\* ... or its acknowledgement is on its way back, ...
Acknowledged ==
  /\ NoneOf(toBroker, "PUBLISH")
  /\ \E k \in 1 .. Len(toClient) :
       OnlyOne(toClient, "PUBACK", k) /\ toClient[k].id = next_packetid

\* ... or there is none.
NonePublished == NoneOf(toBroker, "PUBLISH") /\ NoneOf(toClient, "PUBACK")

\* The client looks at the type of an acknowledgement only.  Nevertheless, in
\* an open session the only one that can come is that of the publication that
\* waits for it: a call that gave up has closed the session.
AcknowledgementsMatch ==
  isconnected => IF call = "publish" THEN Published \/ Acknowledged ELSE NonePublished

\* What the broker believes delivered has been handed to the program, as long
\* as the session is open.
CompleteMeansDelivered ==
  isconnected /\ handler =>
    \A m \in Messages : status[m] \in {"received", "complete"} /\ QoS[m] > 0 => m \in delivered

\* The program takes the settings that the sender meant, wherever the sender puts
\* blanks, with one exception: true with a blank behind it does not count as true.
SettingsAsMeant ==
  \A m \in delivered : TrueEnds(Texts[m]) => Settings(Fields(Texts[m])) = Settings(Meanings[m])

\* The client looks at its keep-alive timers only at the end of cycle(), so it may
\* be late by the work between two polls, the poll, and a callback that blocks.
\* Nevertheless the broker of an open session never waits for a packet longer than
\* one and a half intervals, after which it may take the client for dead.
HeardInTime == isconnected => KeepAlive + 2 * last_sent >= 0

\* Every call ends, whatever the broker does.
CallsEnd == Waiting ~> ~Waiting

\* The handshake of every settings message is brought to its end, also when
\* the session is closed meanwhile, provided that the broker reads what it is sent.
SettingsAnswered ==
  WF_vars(BrokerReceive) => \A m \in Messages : status[m] = "sent" ~> status[m] = "complete"
=============================================================================
