-------------------------- MODULE MqttClientProofs --------------------------
(***************************************************************************)
(* Proofs about MqttClient, for all intervals and timeouts, every number   *)
(* of polls and every set of messages.                                     *)
(***************************************************************************)
EXTENDS MqttClient, SequenceTheorems, FiniteSetTheorems, WellFoundedInduction, TLAPS

-----------------------------------------------------------------------------
(* Time *)

LEMMA ConstantTypes ==
  /\ CommandTimeout \in Nat /\ PollTime \in Nat /\ Polls \in Nat /\ WorkTime \in Nat
  /\ HandlingTime \in Nat /\ KeepAlive \in Nat /\ MaxPacketId \in Nat /\ MaxRetries \in Nat
  /\ CommandTimeout > 0 /\ PollTime > 0 /\ Polls > 0 /\ MaxPacketId > 1 /\ KeepAlive > 0
BY MqttAssumption

LEMMA Intervals ==
  /\ KeepAlive + 2 * (1 - WorkTime - PollTime - HandlingTime) >= 0
  /\ KeepAlive + 2 * (KeepAlive - CommandTimeout - HandlingTime) >= 0
  /\ HandlingTime <= KeepAlive
<1>1. /\ 2 * (WorkTime + PollTime + HandlingTime) <= KeepAlive
      /\ 2 * (CommandTimeout + HandlingTime) <= 3 * KeepAlive
  BY MqttAssumption
<1> QED
  BY <1>1, ConstantTypes

\* The count below 0 goes beyond half an interval.
LEMMA OverdueType == MaxOverdue \in Nat /\ 2 * MaxOverdue > KeepAlive
BY ConstantTypes DEF MaxOverdue

\* Which call waits how long at most.
Timing ==
  /\ call \in {"connect", "subscribe", "poll", "publish", "work"}
  /\ timer \in Nat /\ busy \in 0 .. HandlingTime /\ last_sent \in Int
  /\ call = "poll" => timer <= PollTime
  /\ call = "work" => timer <= WorkTime
  /\ call \in {"connect", "subscribe", "publish"} => timer <= CommandTimeout

\* Ticks that the callback has gone on when the timer of the call had run out, at most.
Overrun == IF timer = 0 THEN busy ELSE 0

\* When a call ends and the session stays open, less than an interval has passed
\* since a packet was sent: otherwise the broker was pinged at its end.  So at least
\* this is left of the interval, after the time that has passed since then.
LeastSent ==
  CASE call = "work" -> timer + 1 - WorkTime
    [] call = "poll" -> timer + 1 - WorkTime - PollTime - Overrun
    [] OTHER         -> timer + KeepAlive - CommandTimeout - Overrun

\* A session is opened by the first call.
AliveInv == Timing /\ (isconnected => call # "connect" /\ last_sent >= LeastSent)

LEMMA AliveMeansHeard ==
  ASSUME AliveInv
  PROVE  HeardInTime
<1> SUFFICES ASSUME isconnected PROVE KeepAlive + 2 * last_sent >= 0
  BY DEF HeardInTime
<1>1. last_sent >= LeastSent /\ last_sent \in Int /\ timer \in Nat
  BY DEF AliveInv, Timing
<1>2. Overrun \in 0 .. HandlingTime
  BY ConstantTypes DEF Overrun, AliveInv, Timing
<1>3. CASE call = "work"
  <2>1. last_sent >= 1 - WorkTime
    BY <1>1, <1>3, ConstantTypes DEF LeastSent
  <2> QED
    BY <1>1, <2>1, ConstantTypes, Intervals
<1>4. CASE call = "poll"
  <2>1. last_sent >= timer + 1 - WorkTime - PollTime - Overrun
    BY <1>1, <1>4 DEF LeastSent
  <2>2. last_sent >= 1 - WorkTime - PollTime - HandlingTime
    BY <1>1, <1>2, <2>1, ConstantTypes
  <2> QED
    BY <1>1, <2>2, ConstantTypes, Intervals
<1>5. CASE call \notin {"work", "poll"}
  <2>1. last_sent >= timer + KeepAlive - CommandTimeout - Overrun
    BY <1>1, <1>5 DEF LeastSent
  <2>2. last_sent >= KeepAlive - CommandTimeout - HandlingTime
    BY <1>1, <1>2, <2>1, ConstantTypes
  <2> QED
    BY <1>1, <2>2, ConstantTypes, Intervals
<1> QED
  BY <1>3, <1>4, <1>5

-----------------------------------------------------------------------------
(* A turn of cycle() *)

LEMMA OutcomeCases ==
  ASSUME NEW type, NEW failed
  PROVE  Outcome(type, failed) \in {"success", "failure", "more"}
BY DEF Outcome

\* If the session stays open, less than an interval has passed now.
LEMMA ConcludeAlive ==
  ASSUME AliveInv, call # "work", NEW p, NEW sent \in {last_sent, KeepAlive}, NEW received,
         NEW outstanding \in BOOLEAN, NEW answers,
         Conclude(p, sent, received, outstanding, answers), busy' = 0
  PROVE  AliveInv'
<1> DEFINE due == Due(sent, received)
<1>1. Timing
  BY DEF AliveInv
<1>2. sent \in Int /\ last_sent' = IF due /\ ~outstanding THEN KeepAlive ELSE sent
  BY <1>1, ConstantTypes DEF Conclude, Timing
<1>3. ~(due /\ outstanding) => last_sent' > 0
  BY <1>2, ConstantTypes DEF Due
<1>4. last_sent' \in {last_sent, KeepAlive} /\ last_sent' \in Int
  BY <1>2, ConstantTypes
<1>5. busy' \in 0 .. HandlingTime
  BY ConstantTypes
<1>6. \/ Outcome(p.type, due /\ outstanding) = "success" /\ Return
      \/ Outcome(p.type, due /\ outstanding) = "failure" /\ (\E o : Fail(o)) /\ Return
      \/ /\ Outcome(p.type, due /\ outstanding) = "more"
         /\ UNCHANGED <<isconnected, call, timer>>
  <2>1. Outcome(p.type, due /\ outstanding) \in {"success", "failure", "more"}
    BY OutcomeCases
  <2> QED
    BY <2>1 DEF Conclude
<1> HIDE DEF due
<1>7. ASSUME Return PROVE Timing' /\ call' = "work" /\ timer' \in 0 .. WorkTime
  BY <1>4, <1>5, <1>7, ConstantTypes DEF Return, Timing
<1>8. CASE Outcome(p.type, due /\ outstanding) = "success" /\ Return
  <2>1. last_sent' > 0
    BY <1>3, <1>8 DEF Outcome
  <2>2. LeastSent' = timer' + 1 - WorkTime
    BY <1>7, <1>8 DEF LeastSent
  <2>3. last_sent' >= LeastSent'
    BY <1>4, <1>7, <1>8, <2>1, <2>2, ConstantTypes
  <2> QED
    BY <1>7, <1>8, <2>3 DEF AliveInv
<1>9. CASE (\E o : Fail(o)) /\ Return
  <2>1. isconnected' = FALSE \/ (~isconnected /\ isconnected' = isconnected)
    BY <1>9 DEF Fail, CloseSession
  <2> QED
    BY <1>7, <1>9, <2>1 DEF AliveInv
<1>10. CASE Outcome(p.type, due /\ outstanding) = "more" /\ UNCHANGED <<isconnected, call, timer>>
  <2>1. last_sent' > 0 /\ timer # 0
    BY <1>3, <1>10 DEF Outcome
  <2>2. Timing'
    BY <1>1, <1>4, <1>5, <1>10 DEF Timing
  <2> SUFFICES ASSUME isconnected PROVE last_sent' >= LeastSent'
    BY <1>10, <2>2 DEF AliveInv
  <2>3. Overrun = 0 /\ Overrun' = 0
    BY <1>10, <2>1 DEF Overrun
  <2>4. CASE call = "poll"
    <3>1. LeastSent' = timer + 1 - WorkTime - PollTime - 0
      BY <1>10, <2>3, <2>4 DEF LeastSent
    <3> QED
      BY <1>1, <1>4, <2>1, <2>4, <3>1, ConstantTypes DEF Timing
  <2>5. CASE call # "poll"
    <3>1. /\ LeastSent = timer + KeepAlive - CommandTimeout - 0
          /\ LeastSent' = timer + KeepAlive - CommandTimeout - 0
      BY <1>10, <2>3, <2>5 DEF LeastSent
    <3>2. last_sent >= LeastSent
      BY DEF AliveInv
    <3>3. timer <= CommandTimeout /\ timer \in Nat
      BY <1>1, <2>5 DEF Timing
    <3>4. KeepAlive >= LeastSent'
      BY <3>1, <3>3, ConstantTypes
    <3> QED
      BY <1>4, <3>1, <3>2, <3>4
  <2> QED
    BY <2>4, <2>5
<1> QED
  BY <1>6, <1>8, <1>9, <1>10

-----------------------------------------------------------------------------
(* The broker hears of an open session in time *)

LEMMA InitAlive ==
  ASSUME Init
  PROVE  AliveInv
BY ConstantTypes DEF Init, AliveInv, Timing

LEMMA HandlePacketAlive ==
  ASSUME AliveInv, ping_outstanding \in BOOLEAN, HandlePacket
  PROVE  AliveInv'
<1> DEFINE p == Head(toClient)
           outstanding == ping_outstanding /\ p.type # "PINGRESP"
<1>1. /\ call # "work" /\ busy' = 0
      /\ Conclude(p, SentAfter(Answer(p)), KeepAlive - busy, outstanding, Answer(p))
  BY DEF HandlePacket, Waiting
<1>2. SentAfter(Answer(p)) \in {last_sent, KeepAlive}
  BY DEF SentAfter
<1>3. outstanding \in BOOLEAN
  OBVIOUS
<1> HIDE DEF p, outstanding
<1> QED
  BY <1>1, <1>2, <1>3, ConcludeAlive

LEMMA TimeOutAlive ==
  ASSUME AliveInv, ping_outstanding \in BOOLEAN, TimeOut
  PROVE  AliveInv'
<1> DEFINE p == Packet("none", 0, 0)
<1>1. /\ call # "work" /\ busy' = 0
      /\ Conclude(p, last_sent, last_received, ping_outstanding, <<>>)
  BY DEF TimeOut, Waiting
<1> HIDE DEF p
<1> QED
  BY <1>1, ConcludeAlive

LEMMA BoundFalls ==
  ASSUME NEW t \in Nat, NEW t2 \in Nat, NEW o \in Nat, NEW o2 \in Nat, t2 - o2 <= t - o - 1,
         NEW l \in Int, NEW l2 \in Int, l2 >= l - 1, NEW b \in Int, l >= t - o + b
  PROVE  l2 >= t2 - o2 + b
OBVIOUS

\* One tick: the bound falls with the time.
LEMMA ElapseAlive ==
  ASSUME AliveInv, Elapse, busy' \in 0 .. HandlingTime,
         (timer > 0 /\ busy' = busy) \/ (call # "work" /\ busy' = busy + 1)
  PROVE  AliveInv'
<1>1. Timing
  BY DEF AliveInv
<1>2. /\ call' = call /\ isconnected' = isconnected /\ timer' = Less(timer)
      /\ last_sent' = IF last_sent = -MaxOverdue THEN last_sent ELSE last_sent - 1
  BY DEF Elapse, session
<1>3. last_sent' \in Int /\ last_sent' >= last_sent - 1
  BY <1>1, <1>2, OverdueType DEF Timing
<1>4. timer' \in Nat /\ timer' <= timer /\ timer \in Nat /\ busy \in Nat /\ busy' \in Nat
  BY <1>1, <1>2, ConstantTypes DEF Less, Timing
<1>5. Timing'
  BY <1>1, <1>2, <1>3, <1>4, ConstantTypes DEF Timing
<1>6. call = "work" => timer' = timer - 1
  BY <1>2, <1>4 DEF Less
<1>7. timer' - Overrun' <= timer - Overrun - 1 /\ Overrun \in Nat /\ Overrun' \in Nat
  <2>1. CASE timer = 0
    <3>1. busy' = busy + 1 /\ timer' = 0
      BY <1>2, <2>1 DEF Less
    <3>2. Overrun = busy /\ Overrun' = busy'
      BY <2>1, <3>1 DEF Overrun
    <3>3. 0 - (busy + 1) <= 0 - busy - 1
      BY <1>4
    <3> QED
      BY <1>4, <2>1, <3>1, <3>2, <3>3
  <2>2. CASE timer > 0
    <3>1. timer' = timer - 1 /\ Overrun = 0
      BY <1>2, <2>2 DEF Less, Overrun
    <3>2. Overrun' \in Nat
      BY <1>4 DEF Overrun
    <3> DEFINE after == Overrun'
    <3>3. after \in Nat /\ (timer - 1) - after <= timer - 0 - 1
      <4> HIDE DEF after
      <4>1. after \in Nat
        BY <3>2 DEF after
      <4> QED
        BY <1>4, <4>1
    <3> QED
      BY <3>1, <3>2, <3>3
  <2> QED
    BY <1>4, <2>1, <2>2
<1> SUFFICES ASSUME isconnected PROVE last_sent' >= LeastSent'
  BY <1>2, <1>5 DEF AliveInv
<1>8. last_sent >= LeastSent /\ last_sent \in Int
  BY <1>1 DEF AliveInv, Timing
<1>9. CASE call = "work"
  <2> DEFINE b == 1 - WorkTime
  <2>1. LeastSent = timer - 0 + b /\ LeastSent' = timer' - 0 + b /\ b \in Int
    BY <1>2, <1>4, <1>9, ConstantTypes DEF LeastSent
  <2>2. timer' - 0 <= timer - 0 - 1
    BY <1>4, <1>6, <1>9
  <2> HIDE DEF b
  <2> QED
    BY <1>3, <1>4, <1>8, <2>1, <2>2, BoundFalls
<1>10. CASE call # "work"
  <2> DEFINE b == IF call = "poll" THEN 1 - WorkTime - PollTime ELSE KeepAlive - CommandTimeout
  <2>1. b \in Int
    BY ConstantTypes
  <2>2. LeastSent = timer - Overrun + b
    BY <1>4, <1>7, <1>10, ConstantTypes DEF LeastSent
  <2>3. LeastSent' = timer' - Overrun' + b
    <3> DEFINE after == Overrun'
    <3>1. after \in Nat
      BY <1>7
    <3>2. LeastSent' = IF call = "poll" THEN timer' + 1 - WorkTime - PollTime - after
                       ELSE timer' + KeepAlive - CommandTimeout - after
      BY <1>2, <1>10 DEF LeastSent
    <3> HIDE DEF after
    <3>3. LeastSent' = (timer' - after) + b
      BY <1>4, <3>1, <3>2, ConstantTypes
    <3> QED
      BY <3>3 DEF after
  <2> HIDE DEF b
  <2> QED
    BY <1>3, <1>4, <1>7, <1>8, <2>1, <2>2, <2>3, BoundFalls
<1> QED
  BY <1>9, <1>10

LEMMA TickAlive ==
  ASSUME AliveInv, Tick
  PROVE  AliveInv'
<1>1. Elapse /\ timer > 0 /\ busy' = busy /\ busy \in 0 .. HandlingTime
  BY DEF Tick, AliveInv, Timing
<1> QED
  BY <1>1, ElapseAlive

LEMMA BlockAlive ==
  ASSUME AliveInv, Block
  PROVE  AliveInv'
<1>1. Elapse /\ call # "work" /\ busy' = busy + 1 /\ busy < HandlingTime /\ busy \in 0 .. HandlingTime
  BY DEF Block, Waiting, AliveInv, Timing
<1>2. busy' \in 0 .. HandlingTime
  BY <1>1, ConstantTypes
<1> QED
  BY <1>1, <1>2, ElapseAlive

\* A command begins: a packet is sent now.
LEMMA CommandAlive ==
  ASSUME AliveInv, NEW name \in {"subscribe", "publish"}, NEW packet, NEW id,
         Command(name, packet, id), busy' = busy
  PROVE  AliveInv'
<1>1. Timing
  BY DEF AliveInv
<1>2. call' = name /\ timer' = CommandTimeout /\ last_sent' = KeepAlive
  BY DEF Command, SentAfter
<1>3. Timing'
  BY <1>1, <1>2, ConstantTypes DEF Timing
<1>4. Overrun' = 0
  BY <1>2, ConstantTypes DEF Overrun
<1>5. LeastSent' = CommandTimeout + KeepAlive - CommandTimeout - 0
  BY <1>2, <1>4 DEF LeastSent
<1>6. last_sent' >= LeastSent'
  BY <1>2, <1>5, ConstantTypes
<1> QED
  BY <1>2, <1>3, <1>6 DEF AliveInv

\* A call that is left out without a session.
LEMMA SkipAlive ==
  ASSUME AliveInv, Return, isconnected' = FALSE, UNCHANGED <<busy, last_sent>>
  PROVE  AliveInv'
<1>1. Timing'
  BY ConstantTypes DEF AliveInv, Timing, Return
<1> QED
  BY <1>1 DEF AliveInv

LEMMA SubscribeAlive ==
  ASSUME AliveInv, Subscribe
  PROVE  AliveInv'
<1> DEFINE id == GetNextPacketId(next_packetid)
<1>1. busy' = busy
  BY DEF Subscribe
<1>2. CASE Command("subscribe", Packet("SUBSCRIBE", id, 2), id)
  BY <1>1, <1>2, CommandAlive
<1>3. CASE CloseSession /\ Skip
  BY <1>1, <1>3, SkipAlive DEF CloseSession, Skip
<1> QED
  BY <1>2, <1>3 DEF Subscribe

LEMMA PublishAlive ==
  ASSUME AliveInv, Publish
  PROVE  AliveInv'
<1> DEFINE id == GetNextPacketId(next_packetid)
<1>1. busy' = busy
  BY DEF Publish
<1>2. CASE Command("publish", Packet("PUBLISH", id, 1), id)
  BY <1>1, <1>2, CommandAlive
<1>3. CASE CloseSession /\ Skip
  BY <1>1, <1>3, SkipAlive DEF CloseSession, Skip
<1> QED
  BY <1>2, <1>3 DEF Publish

\* An open session belongs to a registered instance.
OpenMeansRegistered ==
  /\ isconnected \in BOOLEAN /\ registered \in BOOLEAN /\ ping_outstanding \in BOOLEAN
  /\ isconnected => registered

\* Only an instance that was connected is registered.
LEMMA PollAlive ==
  ASSUME AliveInv, OpenMeansRegistered, Poll
  PROVE  AliveInv'
<1>1. /\ Timing /\ call = "work" /\ timer = 0 /\ isconnected' = isconnected /\ busy' = busy
      /\ isconnected => last_sent >= LeastSent
  BY DEF AliveInv, Poll, Idle
<1>2. CASE ~registered /\ Skip
  <2>1. isconnected' = FALSE /\ Return /\ last_sent' = last_sent
    BY <1>1, <1>2 DEF OpenMeansRegistered, Skip
  <2> QED
    BY <1>1, <2>1, SkipAlive
<1>3. CASE call' = "poll" /\ timer' = PollTime /\ last_sent' = last_sent
  <2>1. Timing'
    BY <1>1, <1>3, ConstantTypes DEF Timing
  <2>2. Overrun' = 0
    BY <1>3, ConstantTypes DEF Overrun
  <2>3. LeastSent = 0 + 1 - WorkTime /\ LeastSent' = PollTime + 1 - WorkTime - PollTime - 0
    BY <1>1, <1>3, <2>2 DEF LeastSent
  <2>4. LeastSent' = LeastSent
    BY <2>3, ConstantTypes
  <2> QED
    BY <1>1, <1>3, <2>1, <2>4 DEF AliveInv
<1> QED
  BY <1>2, <1>3 DEF Poll

\* The broker leaves the client alone.
LEMMA BrokerLeaves ==
  ASSUME BrokerReceive \/ \E m \in Messages : BrokerPublish(m) \/ BrokerRetry(m)
  PROVE  UNCHANGED client
BY DEF BrokerReceive, BrokerPublish, BrokerRetry

LEMMA ConcludeRegistered ==
  ASSUME OpenMeansRegistered, NEW p, NEW sent, NEW received, NEW outstanding \in BOOLEAN, NEW answers,
         Conclude(p, sent, received, outstanding, answers)
  PROVE  OpenMeansRegistered'
<1>1. Outcome(p.type, Due(sent, received) /\ outstanding) \in {"success", "failure", "more"}
  BY OutcomeCases
<1>2. \/ \E o \in BOOLEAN : Succeed(p, o)
      \/ (\E o \in BOOLEAN : Fail(o)) /\ UNCHANGED registered
      \/ \E o \in BOOLEAN : ping_outstanding' = o /\ UNCHANGED <<isconnected, registered>>
  BY <1>1 DEF Conclude
<1>3. CASE \E o \in BOOLEAN : Succeed(p, o)
  BY <1>3 DEF Succeed, OpenMeansRegistered, Accepted
<1>4. CASE (\E o \in BOOLEAN : Fail(o)) /\ UNCHANGED registered
  BY <1>4 DEF Fail, CloseSession, OpenMeansRegistered
<1>5. CASE \E o \in BOOLEAN : ping_outstanding' = o /\ UNCHANGED <<isconnected, registered>>
  BY <1>5 DEF OpenMeansRegistered
<1> QED
  BY <1>2, <1>3, <1>4, <1>5

LEMMA NextRegistered ==
  ASSUME OpenMeansRegistered, [Next]_vars
  PROVE  OpenMeansRegistered'
<1> DEFINE p == Head(toClient)
           outstanding == ping_outstanding /\ p.type # "PINGRESP"
<1>1. CASE HandlePacket
  <2>1. Conclude(p, SentAfter(Answer(p)), KeepAlive - busy, outstanding, Answer(p))
    BY <1>1 DEF HandlePacket
  <2>2. outstanding \in BOOLEAN
    BY DEF OpenMeansRegistered
  <2> HIDE DEF p, outstanding
  <2> QED
    BY <2>1, <2>2, ConcludeRegistered
<1>2. CASE TimeOut
  BY <1>2, ConcludeRegistered DEF TimeOut, OpenMeansRegistered
<1>3. CASE Elapse
  BY <1>3 DEF Elapse, session, OpenMeansRegistered
<1>4. CASE Subscribe \/ Publish
  BY <1>4 DEF Subscribe, Publish, Command, CloseSession, Skip, OpenMeansRegistered
<1>5. CASE Poll
  BY <1>5 DEF Poll, Skip, OpenMeansRegistered
<1>6. CASE UNCHANGED client
  BY <1>6 DEF client, session, OpenMeansRegistered
<1>7. CASE UNCHANGED vars
  BY <1>7 DEF vars, session, OpenMeansRegistered
<1> QED
  BY <1>1, <1>2, <1>3, <1>4, <1>5, <1>6, <1>7, BrokerLeaves DEF Next, Client, Tick, Block

LEMMA NextAlive ==
  ASSUME AliveInv, OpenMeansRegistered, [Next]_vars
  PROVE  AliveInv'
<1>1. CASE HandlePacket
  BY <1>1, HandlePacketAlive DEF OpenMeansRegistered
<1>2. CASE TimeOut
  BY <1>2, TimeOutAlive DEF OpenMeansRegistered
<1>3. CASE Tick \/ Block
  BY <1>3, TickAlive, BlockAlive
<1>4. CASE Subscribe
  BY <1>4, SubscribeAlive
<1>5. CASE Publish
  BY <1>5, PublishAlive
<1>6. CASE Poll
  BY <1>6, PollAlive
<1>7. CASE UNCHANGED <<call, timer, busy, isconnected, last_sent>>
  BY <1>7 DEF AliveInv, Timing, LeastSent, Overrun
<1>8. UNCHANGED client => UNCHANGED <<call, timer, busy, isconnected, last_sent>>
  BY DEF client, session
<1>9. UNCHANGED vars => UNCHANGED <<call, timer, busy, isconnected, last_sent>>
  BY DEF vars, session
<1> QED
  BY <1>1, <1>2, <1>3, <1>4, <1>5, <1>6, <1>7, <1>8, <1>9, BrokerLeaves DEF Next, Client

\* Whatever the work, the polls, the commands and the callbacks take within their
\* bounds, the broker of an open session never waits longer than one and a half
\* intervals for a packet.
THEOREM SessionAlwaysHeard == Spec => []HeardInTime
<1>1. Init => AliveInv /\ OpenMeansRegistered
  BY InitAlive DEF Init, OpenMeansRegistered
<1>2. AliveInv /\ OpenMeansRegistered /\ [Next]_vars => (AliveInv /\ OpenMeansRegistered)'
  BY NextAlive, NextRegistered
<1>3. AliveInv => HeardInTime
  BY AliveMeansHeard
<1> QED
  BY <1>1, <1>2, <1>3, PTL DEF Spec

-----------------------------------------------------------------------------
(* Types *)

\* Messages that come are messages of the broker.
ClientPackets == {p \in Packets(ToClientTypes) : p.type = "PUBLISH" => p.id \in Messages}
BrokerPackets == Packets(ToBrokerTypes)

Queues == toBroker \in Seq(BrokerPackets) /\ toClient \in Seq(ClientPackets)

Numbers ==
  /\ call \in {"connect", "subscribe", "publish", "poll", "work"} /\ turn \in 0 .. Polls + 2
  /\ timer \in Nat /\ busy \in 0 .. HandlingTime /\ next_packetid \in 1 .. MaxPacketId
  /\ last_sent \in -MaxOverdue .. KeepAlive /\ last_received \in 0 .. KeepAlive /\ retries \in 0 .. MaxRetries

Booleans ==
  /\ registered \in BOOLEAN /\ isconnected \in BOOLEAN /\ handler \in BOOLEAN
  /\ ping_outstanding \in BOOLEAN /\ subscribed \in BOOLEAN

Statuses == {"unsent", "sent", "received", "complete"}

Knowledge == status \in [Messages -> Statuses] /\ delivered \subseteq Messages

TypeInv == Queues /\ Numbers /\ Booleans /\ Knowledge

LEMMA TypeInvMeansOK ==
  ASSUME TypeInv
  PROVE  TypeOK
<1>1. Seq(ClientPackets) \subseteq Seq(Packets(ToClientTypes))
  <2>1. ClientPackets \subseteq Packets(ToClientTypes)
    BY DEF ClientPackets
  <2> QED
    BY <2>1
<1>2. DOMAIN Awaited \cup {"poll", "work"} = {"connect", "subscribe", "publish", "poll", "work"}
  BY DEF Awaited
<1>3. toBroker \in Seq(Packets(ToBrokerTypes)) /\ toClient \in Seq(Packets(ToClientTypes))
  BY <1>1 DEF TypeInv, Queues, BrokerPackets
<1>4. Numbers /\ Booleans /\ Knowledge
  BY DEF TypeInv
<1> QED
  BY <1>2, <1>3, <1>4 DEF TypeOK, Numbers, Booleans, Knowledge, Statuses

\* The messages have numbers.
LEMMA MessagesAreNumbers == Messages \subseteq Nat
BY MqttAssumption

LEMMA PacketTyped ==
  ASSUME NEW types, NEW type \in types, NEW id \in Nat, NEW arg \in Nat
  PROVE  Packet(type, id, arg) \in Packets(types)
BY DEF Packet, Packets

\* The first of a queue, and the queue without it.
LEMMA QueueTaken ==
  ASSUME NEW S, NEW s \in Seq(S), s # <<>>
  PROVE  /\ Len(s) \in Nat /\ Len(s) > 0 /\ Head(s) \in S /\ Head(s) = s[1] /\ Tail(s) \in Seq(S)
         /\ Len(Tail(s)) = Len(s) - 1 /\ \A i \in 1 .. Len(Tail(s)) : Tail(s)[i] = s[i + 1]
<1>1. Len(s) \in Nat /\ Len(s) # 0
  BY EmptySeq
<1> QED
  BY <1>1

\* A queue with one more.
LEMMA QueueAdded ==
  ASSUME NEW S, NEW s \in Seq(S), NEW x \in S
  PROVE  /\ Append(s, x) \in Seq(S) /\ Len(s) \in Nat /\ Len(Append(s, x)) = Len(s) + 1
         /\ \A i \in 1 .. Len(s) : Append(s, x)[i] = s[i]
         /\ Append(s, x)[Len(s) + 1] = x
OBVIOUS

\* Packets with which the client confirms a message.
Confirming(p) == p.type \in {"PUBACK", "PUBREC", "PUBCOMP"}

\* At most one packet answers another one.
LEMMA AnswerIsPacket ==
  ASSUME NEW p \in ClientPackets
  PROVE  \/ Answer(p) = <<>>
         \/ \E q \in BrokerPackets :
              /\ Answer(p) = <<q>> /\ q.id = p.id /\ q.type \notin {"SUBSCRIBE", "PUBLISH"}
              /\ p.type \in {"PUBLISH", "PUBREC", "PUBREL"}
              /\ Confirming(q) => p.type \in {"PUBLISH", "PUBREL"}
<1>1. p.id \in Nat /\ p.type \in ToClientTypes
  BY DEF ClientPackets, Packets
<1>2. \A type \in ToBrokerTypes : Packet(type, p.id, 0) \in BrokerPackets
                                /\ Packet(type, p.id, 0).id = p.id /\ Packet(type, p.id, 0).type = type
  BY <1>1 DEF Packet, Packets, BrokerPackets
<1>3. {"PUBACK", "PUBREC", "PUBREL", "PUBCOMP"} \subseteq ToBrokerTypes
  BY DEF ToBrokerTypes
<1> QED
  BY <1>2, <1>3 DEF Answer, Confirming

\* Joining two queues.
LEMMA QueueJoined ==
  ASSUME NEW S, NEW s \in Seq(S), NEW t \in Seq(S)
  PROVE  /\ s \o t \in Seq(S) /\ Len(s) \in Nat /\ Len(t) \in Nat /\ Len(s \o t) = Len(s) + Len(t)
         /\ \A i \in 1 .. Len(s) : (s \o t)[i] = s[i]
         /\ \A i \in Len(s) + 1 .. Len(s \o t) : (s \o t)[i] = t[i - Len(s)]
OBVIOUS

\* A queue t that begins with s.
Begins(s, t) == Len(s) \in Nat /\ Len(t) \in Nat /\ Len(t) >= Len(s) /\ \A i \in 1 .. Len(s) : t[i] = s[i]

Ping == Packet("PINGREQ", 0, 0)

LEMMA PingTyped == Ping \in BrokerPackets /\ Ping.type = "PINGREQ"
<1>1. "PINGREQ" \in ToBrokerTypes
  BY DEF ToBrokerTypes
<1> QED
  BY <1>1, PacketTyped DEF Ping, Packet, BrokerPackets

\* A turn of cycle() sends the answer, then perhaps a ping.
LEMMA ConcludeQueue ==
  ASSUME Queues, NEW p, NEW sent, NEW received, NEW outstanding,
         NEW answers, answers = <<>> \/ \E q \in BrokerPackets : answers = <<q>>,
         Conclude(p, sent, received, outstanding, answers)
  PROVE  /\ toBroker' \in Seq(BrokerPackets) /\ Begins(toBroker, toBroker')
         /\ \A i \in Len(toBroker) + 1 .. Len(toBroker') :
              answers = <<toBroker'[i]>> \/ toBroker'[i] = Ping
<1> DEFINE joined == toBroker \o answers
<1>1. toBroker \in Seq(BrokerPackets) /\ answers \in Seq(BrokerPackets)
  <2>1. <<>> \in Seq(BrokerPackets) /\ \A q \in BrokerPackets : <<q>> \in Seq(BrokerPackets)
    OBVIOUS
  <2> QED
    BY <2>1 DEF Queues
<1>2. /\ joined \in Seq(BrokerPackets) /\ Len(joined) = Len(toBroker) + Len(answers)
      /\ Len(toBroker) \in Nat /\ Len(answers) \in Nat
      /\ \A i \in 1 .. Len(toBroker) : joined[i] = toBroker[i]
      /\ \A i \in Len(toBroker) + 1 .. Len(joined) : joined[i] = answers[i - Len(toBroker)]
  BY <1>1, QueueJoined
<1>3. \A i \in Len(toBroker) + 1 .. Len(joined) : answers = <<joined[i]>>
  <2>1. CASE answers = <<>>
    BY <1>2, <2>1
  <2>2. CASE \E q \in BrokerPackets : answers = <<q>>
    <3>1. PICK q \in BrokerPackets : answers = <<q>>
      BY <2>2
    <3>2. Len(answers) = 1 /\ answers[1] = q
      BY <3>1
    <3>3. \A i \in Len(toBroker) + 1 .. Len(joined) : i - Len(toBroker) = 1
      BY <1>2, <3>2
    <3>4. \A i \in Len(toBroker) + 1 .. Len(joined) : joined[i] = answers[1]
      BY <1>2, <3>3
    <3> QED
      BY <3>1, <3>2, <3>4
  <2> QED
    BY <2>1, <2>2
<1>4. toBroker' = joined \o <<>> \/ toBroker' = joined \o <<Ping>>
  BY DEF Conclude, Ping
<1> HIDE DEF joined
<1>5. CASE toBroker' = joined \o <<>>
  <2>1. toBroker' = joined
    BY <1>2, <1>5
  <2> QED
    BY <1>2, <1>3, <2>1 DEF Begins
<1>6. CASE toBroker' = joined \o <<Ping>>
  <2>1. toBroker' = Append(joined, Ping)
    BY <1>2, <1>6
  <2>2. /\ toBroker' \in Seq(BrokerPackets) /\ Len(toBroker') = Len(joined) + 1
        /\ \A i \in 1 .. Len(joined) : toBroker'[i] = joined[i]
        /\ toBroker'[Len(joined) + 1] = Ping
    BY <1>2, <2>1, QueueAdded, PingTyped
  <2>3. Begins(toBroker, toBroker')
    BY <1>2, <2>2 DEF Begins
  <2>4. \A i \in Len(toBroker) + 1 .. Len(toBroker') : i \in Len(toBroker) + 1 .. Len(joined) \/ i = Len(joined) + 1
    BY <1>2, <2>2, SMTT(60)
  <2>5. \A i \in Len(toBroker) + 1 .. Len(joined) : toBroker'[i] = joined[i]
    BY <1>2, <2>2
  <2> QED
    BY <1>3, <2>2, <2>3, <2>4, <2>5
<1> QED
  BY <1>4, <1>5, <1>6

LEMMA ConcludeNumbers ==
  ASSUME Numbers, call # "work", NEW p, NEW sent \in -MaxOverdue .. KeepAlive,
         NEW received \in 0 .. KeepAlive, NEW outstanding, NEW answers,
         Conclude(p, sent, received, outstanding, answers), busy' = 0
  PROVE  Numbers'
<1>1. /\ last_sent' \in -MaxOverdue .. KeepAlive /\ last_received' \in 0 .. KeepAlive
      /\ busy' \in 0 .. HandlingTime
  BY ConstantTypes, OverdueType DEF Conclude
<1>2. next_packetid' = next_packetid /\ retries' = retries
  BY DEF Conclude, broker
<1>3. Outcome(p.type, Due(sent, received) /\ outstanding) \in {"success", "failure", "more"}
  BY OutcomeCases
<1>4. Return \/ UNCHANGED <<call, turn, timer>>
  BY <1>3 DEF Conclude
<1>5. CASE Return
  BY <1>1, <1>2, <1>5, ConstantTypes DEF Return, Numbers
<1>6. CASE UNCHANGED <<call, turn, timer>>
  BY <1>1, <1>2, <1>6 DEF Numbers
<1> QED
  BY <1>4, <1>5, <1>6

LEMMA ConcludeBooleans ==
  ASSUME Booleans, NEW p, NEW sent, NEW received, NEW outstanding \in BOOLEAN, NEW answers,
         Conclude(p, sent, received, outstanding, answers)
  PROVE  Booleans' /\ UNCHANGED broker
<1>1. Outcome(p.type, Due(sent, received) /\ outstanding) \in {"success", "failure", "more"}
  BY OutcomeCases
<1>2. \/ \E o \in BOOLEAN : Succeed(p, o)
      \/ (\E o \in BOOLEAN : Fail(o)) /\ UNCHANGED registered
      \/ \E o \in BOOLEAN : ping_outstanding' = o /\ UNCHANGED <<isconnected, handler, registered>>
  BY <1>1 DEF Conclude
<1>3. UNCHANGED broker
  BY DEF Conclude
<1>4. subscribed' = subscribed
  BY <1>3 DEF broker
<1>5. CASE \E o \in BOOLEAN : Succeed(p, o)
  BY <1>3, <1>4, <1>5 DEF Succeed, Accepted, Granted, Booleans
<1>6. CASE (\E o \in BOOLEAN : Fail(o)) /\ UNCHANGED registered
  BY <1>3, <1>4, <1>6 DEF Fail, CloseSession, Booleans
<1>7. CASE \E o \in BOOLEAN : ping_outstanding' = o /\ UNCHANGED <<isconnected, handler, registered>>
  BY <1>3, <1>4, <1>7 DEF Booleans
<1> QED
  BY <1>2, <1>5, <1>6, <1>7

LEMMA HandlePacketTyped ==
  ASSUME TypeInv, HandlePacket
  PROVE  TypeInv'
<1> DEFINE p == Head(toClient)
           outstanding == ping_outstanding /\ p.type # "PINGRESP"
<1>1. /\ call # "work" /\ Deliver(p) /\ toClient' = Tail(toClient) /\ toClient # <<>> /\ busy' = 0
      /\ Conclude(p, SentAfter(Answer(p)), KeepAlive - busy, outstanding, Answer(p))
  BY DEF HandlePacket, Waiting
<1>2. p \in ClientPackets /\ Tail(toClient) \in Seq(ClientPackets)
  BY <1>1, QueueTaken DEF TypeInv, Queues
<1>3. SentAfter(Answer(p)) \in -MaxOverdue .. KeepAlive /\ KeepAlive - busy \in 0 .. KeepAlive
  <2>1. last_sent \in -MaxOverdue .. KeepAlive /\ busy \in 0 .. HandlingTime
    BY DEF TypeInv, Numbers
  <2>2. KeepAlive \in -MaxOverdue .. KeepAlive /\ KeepAlive - busy \in 0 .. KeepAlive
    BY <2>1, ConstantTypes, OverdueType, Intervals
  <2> QED
    BY <2>1, <2>2 DEF SentAfter
<1>4. outstanding \in BOOLEAN
  BY DEF TypeInv, Booleans
<1> HIDE DEF p, outstanding
<1>5. Answer(p) = <<>> \/ \E q \in BrokerPackets : Answer(p) = <<q>>
  BY <1>2, AnswerIsPacket, Zenon
<1>6. toBroker' \in Seq(BrokerPackets)
  BY <1>1, <1>5, ConcludeQueue DEF TypeInv
<1>7. Numbers'
  BY <1>1, <1>3, ConcludeNumbers DEF TypeInv
<1>8. Booleans' /\ status' = status
  BY <1>1, <1>4, ConcludeBooleans DEF TypeInv, broker
<1>9. delivered' \subseteq Messages
  BY <1>1, <1>2 DEF Deliver, Called, TypeInv, Knowledge, ClientPackets
<1> QED
  BY <1>1, <1>2, <1>6, <1>7, <1>8, <1>9 DEF TypeInv, Queues, Knowledge

LEMMA TimeOutTyped ==
  ASSUME TypeInv, TimeOut
  PROVE  TypeInv'
<1> DEFINE p == Packet("none", 0, 0)
<1>1. /\ call # "work" /\ busy' = 0 /\ UNCHANGED <<toClient, delivered>>
      /\ Conclude(p, last_sent, last_received, ping_outstanding, <<>>)
  BY DEF TimeOut, Waiting
<1> HIDE DEF p
<1>2. toBroker' \in Seq(BrokerPackets)
  BY <1>1, ConcludeQueue DEF TypeInv
<1>3. Numbers'
  BY <1>1, ConcludeNumbers DEF TypeInv, Numbers
<1>4. Booleans' /\ status' = status
  BY <1>1, ConcludeBooleans DEF TypeInv, Booleans, broker
<1> QED
  BY <1>1, <1>2, <1>3, <1>4 DEF TypeInv, Queues, Knowledge

LEMMA ElapseTyped ==
  ASSUME TypeInv, Elapse, busy' \in 0 .. HandlingTime
  PROVE  TypeInv'
<1>1. Numbers'
  <2>1. timer' \in Nat
    BY DEF Elapse, Less, TypeInv, Numbers
  <2>2. last_sent \in -MaxOverdue .. KeepAlive /\ last_received \in 0 .. KeepAlive
    BY DEF TypeInv, Numbers
  <2>3. last_sent' \in -MaxOverdue .. KeepAlive
    BY <2>2, ConstantTypes, OverdueType DEF Elapse
  <2>4. last_received' \in 0 .. KeepAlive
    BY <2>2, ConstantTypes DEF Elapse, Less
  <2> QED
    BY <2>1, <2>3, <2>4 DEF Elapse, session, broker, TypeInv, Numbers
<1>2. Booleans'
  BY DEF Elapse, session, broker, TypeInv, Booleans
<1>3. Queues' /\ Knowledge'
  BY DEF Elapse, broker, TypeInv, Queues, Knowledge
<1> QED
  BY <1>1, <1>2, <1>3 DEF TypeInv

LEMMA TickTyped ==
  ASSUME TypeInv, Tick \/ Block
  PROVE  TypeInv'
<1>1. busy \in 0 .. HandlingTime
  BY DEF TypeInv, Numbers
<1>2. Elapse /\ busy' \in 0 .. HandlingTime
  BY <1>1, ConstantTypes DEF Tick, Block
<1> QED
  BY <1>2, ElapseTyped

\* Numbers of packets are packet identifiers.
LEMMA PacketIdTyped ==
  ASSUME Numbers
  PROVE  GetNextPacketId(next_packetid) \in 1 .. MaxPacketId
BY ConstantTypes DEF Numbers, GetNextPacketId

LEMMA CommandTyped ==
  ASSUME TypeInv, NEW name \in {"subscribe", "publish"}, NEW packet \in BrokerPackets,
         NEW id \in 1 .. MaxPacketId, Command(name, packet, id),
         UNCHANGED <<busy, last_received, toClient, broker, delivered>>
  PROVE  TypeInv'
<1>1. toBroker' \in Seq(BrokerPackets)
  BY QueueAdded DEF Command, TypeInv, Queues
<1>2. Numbers'
  BY ConstantTypes, OverdueType DEF Command, SentAfter, broker, TypeInv, Numbers
<1>3. Booleans'
  BY DEF Command, broker, TypeInv, Booleans
<1> QED
  BY <1>1, <1>2, <1>3 DEF broker, TypeInv, Queues, Knowledge

LEMMA SkipTyped ==
  ASSUME TypeInv, Skip, isconnected' \in BOOLEAN, handler' \in BOOLEAN, ping_outstanding' \in BOOLEAN,
         UNCHANGED <<busy, last_received, toClient, broker, delivered>>
  PROVE  TypeInv'
<1>1. Numbers'
  BY ConstantTypes DEF Skip, Return, broker, TypeInv, Numbers
<1>2. Booleans'
  BY DEF Skip, broker, TypeInv, Booleans
<1> QED
  BY <1>1, <1>2 DEF Skip, broker, TypeInv, Queues, Knowledge

LEMMA SubscribeTyped ==
  ASSUME TypeInv, Subscribe
  PROVE  TypeInv'
<1> DEFINE id == GetNextPacketId(next_packetid)
<1>1. id \in 1 .. MaxPacketId
  BY PacketIdTyped DEF TypeInv
<1>2. Packet("SUBSCRIBE", id, 2) \in BrokerPackets
  <2>1. id \in Nat /\ "SUBSCRIBE" \in ToBrokerTypes
    BY <1>1, ConstantTypes DEF ToBrokerTypes
  <2> HIDE DEF id
  <2> QED
    BY <2>1, PacketTyped DEF BrokerPackets
<1>3. CASE Command("subscribe", Packet("SUBSCRIBE", id, 2), id)
  BY <1>1, <1>2, <1>3, CommandTyped DEF Subscribe
<1>4. CASE CloseSession /\ Skip
  BY <1>4, SkipTyped DEF Subscribe, CloseSession
<1> QED
  BY <1>3, <1>4 DEF Subscribe

LEMMA PublishTyped ==
  ASSUME TypeInv, Publish
  PROVE  TypeInv'
<1> DEFINE id == GetNextPacketId(next_packetid)
<1>1. id \in 1 .. MaxPacketId
  BY PacketIdTyped DEF TypeInv
<1>2. Packet("PUBLISH", id, 1) \in BrokerPackets
  <2>1. id \in Nat /\ "PUBLISH" \in ToBrokerTypes
    BY <1>1, ConstantTypes DEF ToBrokerTypes
  <2> HIDE DEF id
  <2> QED
    BY <2>1, PacketTyped DEF BrokerPackets
<1>3. CASE Command("publish", Packet("PUBLISH", id, 1), id)
  BY <1>1, <1>2, <1>3, CommandTyped DEF Publish
<1>4. CASE CloseSession /\ Skip
  BY <1>4, SkipTyped DEF Publish, CloseSession
<1> QED
  BY <1>3, <1>4 DEF Publish

LEMMA PollTyped ==
  ASSUME TypeInv, Poll
  PROVE  TypeInv'
<1>1. isconnected' \in BOOLEAN /\ handler' \in BOOLEAN /\ ping_outstanding' \in BOOLEAN
  BY DEF Poll, TypeInv, Booleans
<1>2. UNCHANGED <<busy, last_received, toClient, broker, delivered>>
  BY DEF Poll
<1>3. CASE Skip
  BY <1>1, <1>2, <1>3, SkipTyped
<1>4. CASE call' = "poll" /\ timer' = PollTime /\ UNCHANGED <<turn, registered, next_packetid, toBroker, last_sent>>
  <2>1. Numbers'
    BY <1>2, <1>4, ConstantTypes DEF broker, TypeInv, Numbers
  <2>2. Booleans'
    BY <1>1, <1>2, <1>4 DEF broker, TypeInv, Booleans
  <2> QED
    BY <1>2, <1>4, <2>1, <2>2 DEF broker, TypeInv, Queues, Knowledge
<1> QED
  BY <1>3, <1>4 DEF Poll

\* What the broker sends is a packet.
LEMMA TellTyped ==
  ASSUME Queues, NEW type \in ToClientTypes, NEW id \in Nat, NEW arg \in Nat,
         type = "PUBLISH" => id \in Messages, Tell(Packet(type, id, arg))
  PROVE  toClient' \in Seq(ClientPackets)
<1>1. Packet(type, id, arg) \in ClientPackets
  BY PacketTyped DEF ClientPackets, Packet
<1> QED
  BY <1>1, QueueAdded DEF Tell, Queues

LEMMA BrokerReceiveTyped ==
  ASSUME TypeInv, BrokerReceive
  PROVE  TypeInv'
<1> DEFINE p == Head(toBroker)
<1>1. p \in BrokerPackets /\ toBroker' \in Seq(BrokerPackets)
  BY QueueTaken DEF BrokerReceive, TypeInv, Queues
<1>2. p.id \in Nat
  BY <1>1 DEF BrokerPackets, Packets
<1>3. UNCHANGED client /\ retries' = retries
  BY DEF BrokerReceive
<1>4. toClient' \in Seq(ClientPackets)
  <2>1. UNCHANGED toClient \/ \E type \in ToClientTypes \ {"PUBLISH"}, id, arg \in Nat : Tell(Packet(type, id, arg))
    BY <1>2 DEF BrokerReceive, ToClientTypes, Refused
  <2> QED
    BY <2>1, TellTyped DEF TypeInv, Queues
<1>5. subscribed' \in BOOLEAN
  BY DEF BrokerReceive, TypeInv, Booleans
<1>6. status' \in [Messages -> Statuses]
  <2>1. status \in [Messages -> Statuses]
    BY DEF TypeInv, Knowledge
  <2>2. [status EXCEPT ![p.id] = IF @ = "sent" THEN "received" ELSE @] \in [Messages -> Statuses]
    BY <2>1 DEF Statuses
  <2>3. [status EXCEPT ![p.id] = "complete"] \in [Messages -> Statuses]
    BY <2>1 DEF Statuses
  <2> QED
    BY <2>1, <2>2, <2>3 DEF BrokerReceive
<1>7. Numbers'
  BY <1>3 DEF client, session, TypeInv, Numbers
<1>8. Booleans'
  BY <1>3, <1>5 DEF client, session, TypeInv, Booleans
<1> QED
  BY <1>1, <1>3, <1>4, <1>6, <1>7, <1>8 DEF client, TypeInv, Queues, Knowledge

LEMMA BrokerPublishTyped ==
  ASSUME TypeInv, NEW m \in Messages, BrokerPublish(m)
  PROVE  TypeInv'
<1>1. m \in Nat /\ QoS[m] \in Nat
  BY MqttAssumption, MessagesAreNumbers
<1>2. toClient' \in Seq(ClientPackets)
  BY <1>1, TellTyped DEF BrokerPublish, ToClientTypes, TypeInv
<1>3. status' \in [Messages -> Statuses]
  BY DEF BrokerPublish, TypeInv, Knowledge, Statuses
<1>4. UNCHANGED <<client, toBroker, subscribed, retries>>
  BY DEF BrokerPublish
<1>5. Numbers'
  BY <1>4 DEF client, session, TypeInv, Numbers
<1>6. Booleans'
  BY <1>4 DEF client, session, TypeInv, Booleans
<1> QED
  BY <1>2, <1>3, <1>4, <1>5, <1>6 DEF client, TypeInv, Queues, Knowledge

LEMMA BrokerRetryTyped ==
  ASSUME TypeInv, NEW m \in Messages, BrokerRetry(m)
  PROVE  TypeInv'
<1>1. m \in Nat /\ QoS[m] \in Nat
  BY MqttAssumption, MessagesAreNumbers
<1>2. toClient' \in Seq(ClientPackets)
  <2>1. Tell(Packet("PUBLISH", m, QoS[m])) \/ Tell(Packet("PUBREL", m, 0))
    BY DEF BrokerRetry
  <2> QED
    BY <1>1, <2>1, TellTyped DEF ToClientTypes, TypeInv
<1>3. retries' \in 0 .. MaxRetries
  BY ConstantTypes DEF BrokerRetry, TypeInv, Numbers
<1>4. UNCHANGED <<client, toBroker, subscribed, status>>
  BY DEF BrokerRetry
<1>5. Numbers'
  BY <1>3, <1>4 DEF client, session, TypeInv, Numbers
<1>6. Booleans'
  BY <1>4 DEF client, session, TypeInv, Booleans
<1> QED
  BY <1>2, <1>4, <1>5, <1>6 DEF client, TypeInv, Queues, Knowledge

LEMMA NextTyped ==
  ASSUME TypeInv, [Next]_vars
  PROVE  TypeInv'
<1>1. CASE UNCHANGED vars
  <2>1. Booleans'
    BY <1>1 DEF vars, session, broker, TypeInv, Booleans
  <2>2. Numbers'
    BY <1>1 DEF vars, session, broker, TypeInv, Numbers
  <2> QED
    BY <1>1, <2>1, <2>2 DEF vars, broker, TypeInv, Queues, Knowledge
<1> QED
  BY <1>1, HandlePacketTyped, TimeOutTyped, TickTyped, SubscribeTyped, PublishTyped, PollTyped,
     BrokerReceiveTyped, BrokerPublishTyped, BrokerRetryTyped DEF Next, Client

LEMMA InitTyped ==
  ASSUME Init
  PROVE  TypeInv
<1>1. Packet("CONNECT", 0, 0) \in BrokerPackets
  BY PacketTyped DEF ToBrokerTypes, BrokerPackets
<1>2. Queues
  BY <1>1, EmptySeq DEF Init, Queues
<1>3. Numbers
  BY ConstantTypes, OverdueType DEF Init, Numbers
<1>4. Booleans
  BY DEF Init, Booleans
<1>5. Knowledge
  BY DEF Init, Knowledge, Statuses
<1> QED
  BY <1>2, <1>3, <1>4, <1>5 DEF TypeInv

\* The types hold in every reachable state; in particular every message that is
\* handed to the program is one that the broker has.
THEOREM TypeCorrect == Spec => []TypeOK
<1>1. Init => TypeInv
  BY InitTyped
<1>2. TypeInv /\ [Next]_vars => TypeInv'
  BY NextTyped
<1>3. TypeInv => TypeOK
  BY TypeInvMeansOK
<1> QED
  BY <1>1, <1>2, <1>3, PTL DEF Spec

-----------------------------------------------------------------------------
(* Complete means delivered *)

\* With a session and a handler, whatever is confirmed, or was, has been delivered.
Heard ==
  /\ \A m \in Messages : status[m] = "received" \/ (status[m] = "complete" /\ QoS[m] > 0) => m \in delivered
  /\ \A i \in 1 .. Len(toBroker) : Confirming(toBroker[i]) => toBroker[i].id \in delivered
  /\ \A i \in 1 .. Len(toClient) : toClient[i].type = "PUBREL" => toClient[i].id \in delivered

\* Before that, nothing has been confirmed, ...
Clean ==
  /\ \A m \in Messages : status[m] # "received" /\ (status[m] = "complete" => QoS[m] = 0)
  /\ \A i \in 1 .. Len(toBroker) : ~Confirming(toBroker[i])
  /\ NoneOf(toClient, "PUBREL")

\* ... and nothing sent that would have to be, ...
Unheard ==
  ~subscribed /\ NoneOf(toClient, "PUBLISH") /\ \A m \in Messages : status[m] # "sent"

\* ... unless the subscription has been granted: its only acknowledgement comes
\* before all messages.
Quiet == Unheard /\ NoneOf(toBroker, "SUBSCRIBE") /\ NoneOf(toClient, "SUBACK")

Asked ==
  /\ Unheard /\ NoneOf(toClient, "SUBACK")
  /\ \E k \in 1 .. Len(toBroker) : OnlyOne(toBroker, "SUBSCRIBE", k)

Told ==
  /\ NoneOf(toBroker, "SUBSCRIBE")
  /\ \E k \in 1 .. Len(toClient) :
       /\ OnlyOne(toClient, "SUBACK", k)
       /\ \A i \in 1 .. k : toClient[i].type # "PUBLISH"
       /\ toClient[k].arg = Refused => Unheard

Opening == call = "connect" \/ (isconnected /\ ~handler)

DeliveredInv ==
  /\ call = "connect" => ~handler
  /\ isconnected /\ handler => Heard
  /\ Opening => Clean
  /\ Opening /\ call = "subscribe" => Asked \/ Told
  /\ Opening /\ call # "subscribe" => Quiet


\* Queues of which the first is taken, or that grow.
LEMMA NoneTaken ==
  ASSUME NEW S, NEW s \in Seq(S), s # <<>>, NEW type, NoneOf(s, type)
  PROVE  NoneOf(Tail(s), type) /\ Head(s).type # type
<1>1. /\ Len(s) \in Nat /\ Len(s) > 0 /\ Head(s) = s[1] /\ Len(Tail(s)) = Len(s) - 1
      /\ \A i \in 1 .. Len(Tail(s)) : Tail(s)[i] = s[i + 1]
  BY QueueTaken
<1>2. \A i \in 1 .. Len(Tail(s)) : i + 1 \in 1 .. Len(s)
  BY <1>1
<1> QED
  BY <1>1, <1>2 DEF NoneOf

LEMMA OnlyTaken ==
  ASSUME NEW S, NEW s \in Seq(S), s # <<>>, NEW type, NEW k \in 1 .. Len(s), OnlyOne(s, type, k)
  PROVE  /\ k = 1 => Head(s).type = type /\ NoneOf(Tail(s), type)
         /\ k # 1 => /\ Head(s).type # type /\ k - 1 \in 1 .. Len(Tail(s))
                     /\ OnlyOne(Tail(s), type, k - 1)
<1>1. /\ Len(s) \in Nat /\ Len(s) > 0 /\ Head(s) = s[1] /\ Len(Tail(s)) = Len(s) - 1
      /\ \A i \in 1 .. Len(Tail(s)) : Tail(s)[i] = s[i + 1]
  BY QueueTaken
<1>2. \A i \in 1 .. Len(Tail(s)) : i + 1 \in 1 .. Len(s) /\ (i + 1 = k <=> i = k - 1) /\ i + 1 # 1
  BY <1>1
<1>3. \A i \in 1 .. Len(s) : s[i].type = type <=> i = k
  BY DEF OnlyOne
<1>4. \A i \in 1 .. Len(Tail(s)) : Tail(s)[i].type = type <=> i = k - 1
  BY <1>1, <1>2, <1>3
<1>5. Head(s).type = type <=> k = 1
  BY <1>1, <1>3
<1>6. k = 1 => \A i \in 1 .. Len(Tail(s)) : i # k - 1
  OBVIOUS
<1>7. k # 1 => k - 1 \in 1 .. Len(Tail(s))
  BY <1>1
<1> QED
  BY <1>4, <1>5, <1>6, <1>7 DEF NoneOf, OnlyOne

LEMMA NoneGrown ==
  ASSUME NEW s, NEW t, Begins(s, t), NEW type, NoneOf(s, type),
         \A i \in Len(s) + 1 .. Len(t) : t[i].type # type
  PROVE  NoneOf(t, type)
<1>1. \A i \in 1 .. Len(t) : i \in 1 .. Len(s) \/ i \in Len(s) + 1 .. Len(t)
  BY DEF Begins
<1> QED
  BY <1>1 DEF NoneOf, Begins

LEMMA OnlyGrown ==
  ASSUME NEW s, NEW t, Begins(s, t), NEW type, NEW k \in 1 .. Len(s), OnlyOne(s, type, k),
         \A i \in Len(s) + 1 .. Len(t) : t[i].type # type
  PROVE  k \in 1 .. Len(t) /\ OnlyOne(t, type, k)
<1>1. \A i \in 1 .. Len(t) : i \in 1 .. Len(s) \/ i \in Len(s) + 1 .. Len(t)
  BY DEF Begins
<1>2. k \in 1 .. Len(t) /\ \A i \in Len(s) + 1 .. Len(t) : i # k
  BY DEF Begins
<1> QED
  BY <1>1, <1>2 DEF OnlyOne, Begins

LEMMA AppendBegins ==
  ASSUME NEW S, NEW s \in Seq(S), NEW x \in S
  PROVE  /\ Begins(s, Append(s, x)) /\ Len(s) \in Nat /\ Len(Append(s, x)) = Len(s) + 1
         /\ \A i \in Len(s) + 1 .. Len(Append(s, x)) : i = Len(s) + 1 /\ Append(s, x)[i] = x
<1>1. /\ Len(s) \in Nat /\ Len(Append(s, x)) = Len(s) + 1
      /\ \A i \in 1 .. Len(s) : Append(s, x)[i] = s[i]
      /\ Append(s, x)[Len(s) + 1] = x
  BY QueueAdded
<1> QED
  BY <1>1 DEF Begins

LEMMA CleanMeansHeard == Clean /\ QoS \in [Messages -> 0 .. 2] => Heard
BY DEF Clean, Heard, NoneOf

\* How a turn of cycle() leaves the session.
LEMMA ConcludeSession ==
  ASSUME call # "work", isconnected \in BOOLEAN, handler \in BOOLEAN, call = "connect" => ~isconnected,
         NEW p, NEW sent, NEW received, NEW outstanding, NEW answers,
         Conclude(p, sent, received, outstanding, answers)
  PROVE  \/ UNCHANGED <<isconnected, handler, call>> /\ (call = "subscribe" => p.type # "SUBACK")
         \/ call' = "work" /\ isconnected' = FALSE
         \/ call' = "work" /\ call = "connect" /\ handler' = handler
         \/ /\ call' = "work" /\ call # "connect" /\ UNCHANGED <<isconnected, handler>>
            /\ call = "subscribe" => p.type = "SUBACK" /\ p.arg = Refused
         \/ /\ call' = "work" /\ call = "subscribe" /\ p.type = "SUBACK" /\ p.arg # Refused
            /\ isconnected' = isconnected /\ handler' = TRUE
<1> DEFINE failed == Due(sent, received) /\ outstanding
<1>1. Outcome(p.type, failed) \in {"success", "failure", "more"}
  BY OutcomeCases
<1>2. \/ Outcome(p.type, failed) = "success" /\ (\E o : Succeed(p, o)) /\ Return
      \/ (\E o : Fail(o)) /\ Return
      \/ Outcome(p.type, failed) = "more" /\ UNCHANGED <<isconnected, handler, call>>
  BY <1>1 DEF Conclude
<1>3. CASE Outcome(p.type, failed) = "success" /\ (\E o : Succeed(p, o)) /\ Return
  <2>1. call' = "work"
    BY <1>3 DEF Return
  <2>2. isconnected' = (isconnected \/ Accepted(p)) /\ handler' = (handler \/ Granted(p))
    BY <1>3 DEF Succeed
  <2>3. call = "subscribe" => p.type = "SUBACK"
    BY <1>3 DEF Outcome, Awaited
  <2> QED
    BY <2>1, <2>2, <2>3 DEF Accepted, Granted
<1>4. CASE (\E o : Fail(o)) /\ Return
  <2>1. isconnected' = FALSE
    BY <1>4 DEF Fail, CloseSession
  <2> QED
    BY <1>4, <2>1 DEF Return
<1>5. CASE Outcome(p.type, failed) = "more" /\ UNCHANGED <<isconnected, handler, call>>
  <2>1. call = "subscribe" => p.type # "SUBACK"
    BY <1>5 DEF Outcome, Awaited
  <2> QED
    BY <1>5, <2>1
<1> QED
  BY <1>2, <1>3, <1>4, <1>5

\* The effect of a turn without a packet on the queues ...
Silent ==
  /\ toClient' = toClient /\ UNCHANGED <<subscribed, status, delivered>>
  /\ Begins(toBroker, toBroker')
  /\ \A i \in Len(toBroker) + 1 .. Len(toBroker') : toBroker'[i] = Ping

\* ... and of one that handles a packet.
Handled ==
  /\ toClient # <<>> /\ toClient' = Tail(toClient) /\ UNCHANGED <<subscribed, status>>
  /\ Deliver(Head(toClient))
  /\ Begins(toBroker, toBroker')
  /\ \A i \in Len(toBroker) + 1 .. Len(toBroker') :
       \/ toBroker'[i] = Ping
       \/ /\ toBroker'[i].id = Head(toClient).id /\ toBroker'[i].type \notin {"SUBSCRIBE", "PUBLISH"}
          /\ Confirming(toBroker'[i]) => Head(toClient).type \in {"PUBLISH", "PUBREL"}

LEMMA TimeOutSilent ==
  ASSUME TypeInv, TimeOut
  PROVE  Silent
<1> DEFINE p == Packet("none", 0, 0)
<1>1. /\ UNCHANGED <<toClient, delivered>>
      /\ Conclude(p, last_sent, last_received, ping_outstanding, <<>>)
  BY DEF TimeOut
<1> HIDE DEF p
<1>2. /\ Begins(toBroker, toBroker')
      /\ \A i \in Len(toBroker) + 1 .. Len(toBroker') : <<>> = <<toBroker'[i]>> \/ toBroker'[i] = Ping
  <2> DEFINE none == <<>>
  <2>1. Conclude(p, last_sent, last_received, ping_outstanding, none)
    BY <1>1
  <2>2. none = <<>> \/ \E q \in BrokerPackets : none = <<q>>
    OBVIOUS
  <2> HIDE DEF none
  <2>3. /\ Begins(toBroker, toBroker')
        /\ \A i \in Len(toBroker) + 1 .. Len(toBroker') : none = <<toBroker'[i]>> \/ toBroker'[i] = Ping
    BY <2>1, <2>2, ConcludeQueue DEF TypeInv
  <2> QED
    BY <2>3 DEF none
<1>3. \A x : <<>> # <<x>>
  OBVIOUS
<1>4. UNCHANGED broker
  BY <1>1 DEF Conclude
<1> QED
  BY <1>1, <1>2, <1>3, <1>4 DEF Silent, broker

LEMMA HandlePacketHandled ==
  ASSUME TypeInv, HandlePacket
  PROVE  Handled
<1> DEFINE p == Head(toClient)
           outstanding == ping_outstanding /\ p.type # "PINGRESP"
<1>1. /\ Deliver(p) /\ toClient' = Tail(toClient) /\ toClient # <<>>
      /\ Conclude(p, SentAfter(Answer(p)), KeepAlive - busy, outstanding, Answer(p))
  BY DEF HandlePacket
<1>2. p \in ClientPackets
  BY <1>1, QueueTaken DEF TypeInv, Queues
<1> HIDE DEF p, outstanding
<1>3. Answer(p) = <<>> \/ \E q \in BrokerPackets : Answer(p) = <<q>>
  BY <1>2, AnswerIsPacket, Zenon
<1>4. /\ Begins(toBroker, toBroker')
      /\ \A i \in Len(toBroker) + 1 .. Len(toBroker') : Answer(p) = <<toBroker'[i]>> \/ toBroker'[i] = Ping
  BY <1>1, <1>3, ConcludeQueue DEF TypeInv
<1>5. \A x : Answer(p) = <<x>> => /\ x.id = p.id /\ x.type \notin {"SUBSCRIBE", "PUBLISH"}
                                  /\ Confirming(x) => p.type \in {"PUBLISH", "PUBREL"}
  <2>1. CASE Answer(p) = <<>>
    <3>1. \A x : <<>> # <<x>>
      OBVIOUS
    <3> QED
      BY <2>1, <3>1
  <2>2. CASE Answer(p) # <<>>
    <3>1. PICK q \in BrokerPackets :
            /\ Answer(p) = <<q>> /\ q.id = p.id /\ q.type \notin {"SUBSCRIBE", "PUBLISH"}
            /\ Confirming(q) => p.type \in {"PUBLISH", "PUBREL"}
      BY <1>2, <2>2, AnswerIsPacket, Zenon
    <3>2. \A x : <<q>> = <<x>> => x = q
      OBVIOUS
    <3> QED
      BY <3>1, <3>2
  <2> QED
    BY <2>1, <2>2
<1>6. UNCHANGED broker
  BY <1>1 DEF Conclude
<1> QED
  BY <1>1, <1>4, <1>5, <1>6 DEF Handled, broker, p

\* The stages when nothing is handled.
LEMMA SilentStages ==
  ASSUME TypeInv, Silent
  PROVE  /\ Heard => Heard'
         /\ Clean => Clean'
         /\ Quiet => Quiet'
         /\ Asked => Asked'
         /\ Told => Told'
<1>1. \A i \in Len(toBroker) + 1 .. Len(toBroker') : toBroker'[i].type = "PINGREQ"
  BY PingTyped DEF Silent
<1>2. /\ Begins(toBroker, toBroker') /\ toClient' = toClient
      /\ UNCHANGED <<subscribed, status, delivered>>
  BY DEF Silent
<1>3. \A i \in 1 .. Len(toBroker') :
        \/ i \in 1 .. Len(toBroker) /\ toBroker'[i] = toBroker[i]
        \/ toBroker'[i].type = "PINGREQ"
  BY <1>1, <1>2 DEF Begins
<1>4. Heard => Heard'
  BY <1>2, <1>3 DEF Heard, Confirming
<1>5. Clean => Clean'
  BY <1>2, <1>3 DEF Clean, Confirming, NoneOf
<1>6. Unheard => Unheard'
  BY <1>2 DEF Unheard, NoneOf
<1>7. NoneOf(toBroker, "SUBSCRIBE") => NoneOf(toBroker, "SUBSCRIBE")'
  <2>1. NoneOf(toBroker, "SUBSCRIBE") => NoneOf(toBroker', "SUBSCRIBE")
    BY <1>1, <1>2, NoneGrown
  <2> QED
    BY <2>1 DEF NoneOf
<1>8. Quiet => Quiet'
  BY <1>2, <1>6, <1>7 DEF Quiet, NoneOf
<1>9. Asked => Asked'
  <2> SUFFICES ASSUME Asked PROVE Asked'
    OBVIOUS
  <2>1. PICK k \in 1 .. Len(toBroker) : OnlyOne(toBroker, "SUBSCRIBE", k)
    BY DEF Asked
  <2>2. k \in 1 .. Len(toBroker') /\ OnlyOne(toBroker', "SUBSCRIBE", k)
    BY <1>1, <1>2, <2>1, OnlyGrown
  <2>3. \E j \in 1 .. Len(toBroker') : OnlyOne(toBroker, "SUBSCRIBE", j)'
    BY <2>2 DEF OnlyOne
  <2> QED
    BY <1>2, <1>6, <2>3 DEF Asked, NoneOf
<1>10. Told => Told'
  BY <1>2, <1>6, <1>7 DEF Told, OnlyOne
<1> QED
  BY <1>4, <1>5, <1>8, <1>9, <1>10

\* What a packet does to the stages.
LEMMA HandledHeard ==
  ASSUME TypeInv, Handled, Heard, handler, registered
  PROVE  Heard'
<1> DEFINE p == Head(toClient)
<1>1. /\ toClient \in Seq(ClientPackets) /\ toClient # <<>> /\ toClient' = Tail(toClient)
      /\ UNCHANGED <<subscribed, status>> /\ Begins(toBroker, toBroker') /\ Deliver(p)
  BY DEF Handled, TypeInv, Queues
<1>2. /\ Len(toClient) \in Nat /\ Len(toClient) > 0 /\ p = toClient[1]
      /\ Len(toClient') = Len(toClient) - 1
      /\ \A i \in 1 .. Len(toClient') : toClient'[i] = toClient[i + 1] /\ i + 1 \in 1 .. Len(toClient)
  BY <1>1, QueueTaken
<1>3. delivered \subseteq delivered' /\ (p.type = "PUBLISH" => p.id \in delivered')
  <2>1. Targeted(NoString, "controller/settings")
    BY DEF Targeted, NoString
  <2> QED
    BY <1>1, <2>1 DEF Deliver, Called
<1>4. p.type = "PUBREL" => p.id \in delivered'
  BY <1>2, <1>3 DEF Heard
<1>5. \A i \in 1 .. Len(toBroker') : i \in 1 .. Len(toBroker) \/ i \in Len(toBroker) + 1 .. Len(toBroker')
  BY <1>1 DEF Begins
<1>6. \A i \in 1 .. Len(toBroker) : Confirming(toBroker'[i]) => toBroker'[i].id \in delivered'
  BY <1>1, <1>3 DEF Heard, Begins
<1>7. \A i \in Len(toBroker) + 1 .. Len(toBroker') : Confirming(toBroker'[i]) => toBroker'[i].id \in delivered'
  <2>1. ~Confirming(Ping)
    BY PingTyped DEF Confirming
  <2>2. \A i \in Len(toBroker) + 1 .. Len(toBroker') :
          toBroker'[i] = Ping \/ (/\ toBroker'[i].id = p.id
                                  /\ Confirming(toBroker'[i]) => p.type \in {"PUBLISH", "PUBREL"})
    BY DEF Handled
  <2> HIDE DEF p
  <2> QED
    BY <1>3, <1>4, <2>1, <2>2
<1>8. \A i \in 1 .. Len(toBroker') : Confirming(toBroker'[i]) => toBroker'[i].id \in delivered'
  BY <1>5, <1>6, <1>7
<1>9. \A i \in 1 .. Len(toClient') : toClient'[i].type = "PUBREL" => toClient'[i].id \in delivered'
  BY <1>2, <1>3 DEF Heard
<1>10. \A m \in Messages : status'[m] = "received" \/ (status'[m] = "complete" /\ QoS[m] > 0) => m \in delivered'
  BY <1>1, <1>3 DEF Heard
<1> QED
  BY <1>8, <1>9, <1>10 DEF Heard, Confirming

\* Before a subscription has been granted, no packet is answered.
LEMMA HandledStages ==
  ASSUME TypeInv, Handled, Clean, Quiet \/ Asked \/ Told
  PROVE  /\ Clean'
         /\ Quiet => Quiet' /\ Head(toClient).type # "SUBACK"
         /\ Asked => Asked' /\ Head(toClient).type # "SUBACK"
         /\ Told /\ Head(toClient).type # "SUBACK" => Told'
         /\ Told /\ Head(toClient).type = "SUBACK" /\ Head(toClient).arg = Refused => Quiet'
<1> DEFINE p == Head(toClient)
<1>1. /\ toClient \in Seq(ClientPackets) /\ toClient # <<>> /\ toClient' = Tail(toClient)
      /\ UNCHANGED <<subscribed, status>> /\ Begins(toBroker, toBroker')
  BY DEF Handled, TypeInv, Queues
<1>2. /\ Len(toClient) \in Nat /\ Len(toClient) > 0 /\ p = toClient[1]
      /\ Len(toClient') = Len(toClient) - 1
      /\ \A i \in 1 .. Len(toClient') : toClient'[i] = toClient[i + 1] /\ i + 1 \in 1 .. Len(toClient)
  BY <1>1, QueueTaken
<1>3. p.type # "PUBREL" /\ p.type # "PUBLISH"
  <2>1. p.type # "PUBREL"
    BY <1>2 DEF Clean, NoneOf
  <2>2. CASE Quiet \/ Asked
    BY <1>2, <2>1, <2>2 DEF Quiet, Asked, Unheard, NoneOf
  <2>3. CASE Told
    <3>1. PICK k \in 1 .. Len(toClient) : \A i \in 1 .. k : toClient[i].type # "PUBLISH"
      BY <2>3 DEF Told
    <3>2. 1 \in 1 .. k
      OBVIOUS
    <3> QED
      BY <1>2, <2>1, <3>1, <3>2
  <2> QED
    BY <2>2, <2>3
<1>4. \A i \in Len(toBroker) + 1 .. Len(toBroker') : toBroker'[i].type # "SUBSCRIBE" /\ ~Confirming(toBroker'[i])
  <2>1. ~Confirming(Ping) /\ Ping.type # "SUBSCRIBE"
    BY PingTyped DEF Confirming
  <2> QED
    BY <1>3, <2>1 DEF Handled
<1>5. Clean'
  <2>1. \A i \in 1 .. Len(toBroker') : i \in 1 .. Len(toBroker) \/ i \in Len(toBroker) + 1 .. Len(toBroker')
    BY <1>1 DEF Begins
  <2>2. \A i \in 1 .. Len(toBroker') : ~Confirming(toBroker'[i])
    BY <1>1, <1>4, <2>1 DEF Clean, Begins
  <2>3. NoneOf(toClient', "PUBREL")
    BY <1>1, NoneTaken DEF Clean
  <2> QED
    BY <1>1, <2>2, <2>3 DEF Clean, NoneOf, Confirming
<1>6. Unheard => Unheard'
  <2>1. NoneOf(toClient, "PUBLISH") => NoneOf(toClient', "PUBLISH")
    BY <1>1, NoneTaken
  <2> QED
    BY <1>1, <2>1 DEF Unheard, NoneOf
<1>7. NoneOf(toBroker, "SUBSCRIBE") => NoneOf(toBroker', "SUBSCRIBE")
  BY <1>1, <1>4, NoneGrown
<1>8. NoneOf(toClient, "SUBACK") => NoneOf(toClient', "SUBACK") /\ p.type # "SUBACK"
  BY <1>1, NoneTaken
<1>9. Quiet => Quiet' /\ p.type # "SUBACK"
  BY <1>6, <1>7, <1>8 DEF Quiet, NoneOf
<1>10. Asked => Asked' /\ p.type # "SUBACK"
  <2> SUFFICES ASSUME Asked PROVE Asked' /\ p.type # "SUBACK"
    OBVIOUS
  <2>1. PICK k \in 1 .. Len(toBroker) : OnlyOne(toBroker, "SUBSCRIBE", k)
    BY DEF Asked
  <2>2. k \in 1 .. Len(toBroker') /\ OnlyOne(toBroker', "SUBSCRIBE", k)
    BY <1>1, <1>4, <2>1, OnlyGrown
  <2>3. \E j \in 1 .. Len(toBroker') : OnlyOne(toBroker, "SUBSCRIBE", j)'
    BY <2>2 DEF OnlyOne
  <2> QED
    BY <1>6, <1>8, <2>3 DEF Asked, NoneOf
<1>11. ASSUME Told
       PROVE  /\ p.type # "SUBACK" => Told'
              /\ p.type = "SUBACK" /\ p.arg = Refused => Quiet'
  <2>1. PICK k \in 1 .. Len(toClient) :
          /\ OnlyOne(toClient, "SUBACK", k)
          /\ \A i \in 1 .. k : toClient[i].type # "PUBLISH"
          /\ toClient[k].arg = Refused => Unheard
    BY <1>11 DEF Told
  <2>2. /\ k = 1 => NoneOf(toClient', "SUBACK")
        /\ k # 1 => k - 1 \in 1 .. Len(toClient') /\ OnlyOne(toClient', "SUBACK", k - 1)
        /\ p.type = "SUBACK" <=> k = 1
    BY <1>1, <2>1, OnlyTaken
  <2>3. NoneOf(toBroker', "SUBSCRIBE")
    BY <1>7, <1>11 DEF Told
  <2>4. CASE k = 1
    <3>1. p.arg = Refused => Unheard'
      BY <1>2, <1>6, <2>1, <2>4
    <3> QED
      BY <2>2, <2>3, <2>4, <3>1 DEF Quiet, NoneOf
  <2>5. CASE k # 1
    <3>1. k - 1 \in 1 .. Len(toClient') /\ OnlyOne(toClient', "SUBACK", k - 1) /\ p.type # "SUBACK"
      BY <2>2, <2>5
    <3>2. toClient'[k - 1] = toClient[k]
      BY <1>2, <3>1
    <3>3. \A i \in 1 .. k - 1 : toClient'[i].type # "PUBLISH"
      <4>1. \A i \in 1 .. k - 1 : i \in 1 .. Len(toClient') /\ i + 1 \in 1 .. k
        BY <3>1
      <4> QED
        BY <1>2, <2>1, <4>1
    <3>4. toClient'[k - 1].arg = Refused => Unheard'
      BY <1>6, <2>1, <3>2
    <3>5. \E j \in 1 .. Len(toClient') :
            /\ OnlyOne(toClient', "SUBACK", j)
            /\ \A i \in 1 .. j : toClient'[i].type # "PUBLISH"
            /\ toClient'[j].arg = Refused => Unheard'
      BY <3>1, <3>3, <3>4
    <3> QED
      BY <2>3, <3>1, <3>5 DEF Told, OnlyOne, NoneOf
  <2> QED
    BY <2>4, <2>5
<1> QED
  BY <1>5, <1>9, <1>10, <1>11

\* The session after a turn, from what the turn does to the stages.
LEMMA ConcludeDelivers ==
  ASSUME DeliveredInv, isconnected \in BOOLEAN, handler \in BOOLEAN, call = "connect" => ~isconnected,
         QoS \in [Messages -> 0 .. 2], call # "work",
         NEW p, NEW sent, NEW received, NEW outstanding, NEW answers,
         Conclude(p, sent, received, outstanding, answers),
         isconnected /\ handler => Heard',
         Opening => Clean',
         Opening /\ call # "subscribe" => Quiet',
         Opening /\ call = "subscribe" /\ p.type # "SUBACK" => Asked' \/ Told',
         Opening /\ call = "subscribe" /\ p.type = "SUBACK" /\ p.arg = Refused => Quiet'
  PROVE  DeliveredInv'
<1>1. isconnected \in BOOLEAN /\ (call = "connect" => ~isconnected /\ ~handler)
  BY DEF DeliveredInv
<1>2. Clean' => Heard'
  <2>1. QoS' = QoS
    OBVIOUS
  <2>2. (Clean /\ QoS \in [Messages -> 0 .. 2] => Heard)'
    BY CleanMeansHeard, PTL
  <2> QED
    BY <2>2
<1>3. \/ UNCHANGED <<isconnected, handler, call>> /\ (call = "subscribe" => p.type # "SUBACK")
      \/ call' = "work" /\ isconnected' = FALSE
      \/ call' = "work" /\ call = "connect" /\ handler' = handler
      \/ /\ call' = "work" /\ call # "connect" /\ UNCHANGED <<isconnected, handler>>
         /\ call = "subscribe" => p.type = "SUBACK" /\ p.arg = Refused
      \/ /\ call' = "work" /\ call = "subscribe" /\ p.type = "SUBACK" /\ p.arg # Refused
         /\ isconnected' = isconnected /\ handler' = TRUE
  BY <1>1, ConcludeSession
<1>4. CASE UNCHANGED <<isconnected, handler, call>> /\ (call = "subscribe" => p.type # "SUBACK")
  BY <1>1, <1>4 DEF DeliveredInv, Opening
<1>5. CASE call' = "work" /\ isconnected' = FALSE
  BY <1>5 DEF DeliveredInv, Opening
<1>6. CASE call' = "work" /\ call = "connect" /\ handler' = handler
  BY <1>1, <1>6 DEF DeliveredInv, Opening
<1>7. CASE /\ call' = "work" /\ call # "connect" /\ UNCHANGED <<isconnected, handler>>
           /\ call = "subscribe" => p.type = "SUBACK" /\ p.arg = Refused
  BY <1>1, <1>7 DEF DeliveredInv, Opening
<1>8. CASE /\ call' = "work" /\ call = "subscribe" /\ p.type = "SUBACK" /\ p.arg # Refused
           /\ isconnected' = isconnected /\ handler' = TRUE
  BY <1>1, <1>2, <1>8 DEF DeliveredInv, Opening
<1> QED
  BY <1>3, <1>4, <1>5, <1>6, <1>7, <1>8

\* The first call comes before the session.
ConnectFirst == call = "connect" => ~isconnected

DeliveryInv == TypeInv /\ OpenMeansRegistered /\ ConnectFirst /\ DeliveredInv

LEMMA AliveMeansConnectFirst == AliveInv => ConnectFirst
BY DEF AliveInv, ConnectFirst

LEMMA HandlePacketDelivers ==
  ASSUME DeliveryInv, HandlePacket
  PROVE  DeliveredInv'
<1> DEFINE p == Head(toClient)
           outstanding == ping_outstanding /\ p.type # "PINGRESP"
<1>1. TypeInv /\ OpenMeansRegistered /\ ConnectFirst /\ DeliveredInv /\ Handled
  BY HandlePacketHandled DEF DeliveryInv
<1>2. isconnected \in BOOLEAN /\ handler \in BOOLEAN /\ QoS \in [Messages -> 0 .. 2]
  BY <1>1, MqttAssumption DEF TypeInv, Booleans
<1>3. call # "work" /\ Conclude(p, SentAfter(Answer(p)), KeepAlive - busy, outstanding, Answer(p))
  BY DEF HandlePacket, Waiting
<1>4. isconnected /\ handler => Heard'
  BY <1>1, HandledHeard DEF OpenMeansRegistered, DeliveredInv
<1>5. Opening => Clean /\ (Quiet \/ Asked \/ Told)
  BY <1>1 DEF DeliveredInv
<1>6. Opening => /\ Clean'
                 /\ Quiet => Quiet' /\ p.type # "SUBACK"
                 /\ Asked => Asked' /\ p.type # "SUBACK"
                 /\ Told /\ p.type # "SUBACK" => Told'
                 /\ Told /\ p.type = "SUBACK" /\ p.arg = Refused => Quiet'
  BY <1>1, <1>5, HandledStages
<1>7. Opening /\ call # "subscribe" => Quiet
  BY <1>1 DEF DeliveredInv
<1>8. Opening /\ call = "subscribe" => Asked \/ Told
  BY <1>1 DEF DeliveredInv
<1> HIDE DEF p, outstanding
<1> QED
  BY <1>1, <1>2, <1>3, <1>4, <1>6, <1>7, <1>8, ConcludeDelivers DEF ConnectFirst

LEMMA TimeOutDelivers ==
  ASSUME DeliveryInv, TimeOut
  PROVE  DeliveredInv'
<1> DEFINE p == Packet("none", 0, 0)
           none == <<>>
<1>1. TypeInv /\ OpenMeansRegistered /\ ConnectFirst /\ DeliveredInv /\ Silent
  BY TimeOutSilent DEF DeliveryInv
<1>2. isconnected \in BOOLEAN /\ handler \in BOOLEAN /\ QoS \in [Messages -> 0 .. 2]
  BY <1>1, MqttAssumption DEF TypeInv, Booleans
<1>3. call # "work" /\ Conclude(p, last_sent, last_received, ping_outstanding, none)
  BY DEF TimeOut, Waiting
<1>4. p.type # "SUBACK"
  BY DEF Packet
<1>5. isconnected /\ handler => Heard'
  BY <1>1, SilentStages DEF DeliveredInv
<1>6. Opening => Clean'
  BY <1>1, SilentStages DEF DeliveredInv
<1>7. Opening /\ call # "subscribe" => Quiet'
  BY <1>1, SilentStages DEF DeliveredInv
<1>8. Opening /\ call = "subscribe" => Asked' \/ Told'
  BY <1>1, SilentStages DEF DeliveredInv
<1> HIDE DEF p, none
<1> QED
  BY <1>1, <1>2, <1>3, <1>4, <1>5, <1>6, <1>7, <1>8, ConcludeDelivers DEF ConnectFirst

\* Steps that leave queues and knowledge alone keep the stages.
Same == UNCHANGED <<toBroker, toClient, subscribed, status, delivered>>

LEMMA SameStages ==
  ASSUME Same
  PROVE  /\ Heard' = Heard /\ Clean' = Clean /\ Quiet' = Quiet /\ Asked' = Asked /\ Told' = Told
BY DEF Same, Heard, Clean, Quiet, Unheard, Asked, Told, NoneOf, OnlyOne, Confirming

\* A command grows the queue to the broker; only a subscription changes the stage.
LEMMA CommandDelivers ==
  ASSUME DeliveryInv, Idle, NEW name \in {"subscribe", "publish"}, NEW packet \in BrokerPackets, NEW id,
         Command(name, packet, id), UNCHANGED <<busy, last_received, toClient, broker, delivered>>,
         packet.type = IF name = "subscribe" THEN "SUBSCRIBE" ELSE "PUBLISH"
  PROVE  DeliveredInv'
<1>1. /\ TypeInv /\ DeliveredInv /\ call = "work" /\ call' = name
      /\ isconnected /\ UNCHANGED <<isconnected, handler, toClient, subscribed, status, delivered>>
  BY DEF DeliveryInv, Command, Idle, broker
<1>2. toBroker' = Append(toBroker, packet) /\ toBroker \in Seq(BrokerPackets)
  BY <1>1 DEF Command, TypeInv, Queues
<1>3. /\ Begins(toBroker, toBroker') /\ Len(toBroker) \in Nat /\ Len(toBroker') = Len(toBroker) + 1
      /\ \A i \in Len(toBroker) + 1 .. Len(toBroker') : i = Len(toBroker) + 1 /\ toBroker'[i] = packet
  BY <1>2, AppendBegins
<1>4. ~Confirming(packet)
  BY DEF Confirming
<1>5. \A i \in 1 .. Len(toBroker') :
        \/ (i \in 1 .. Len(toBroker) /\ toBroker'[i] = toBroker[i])
        \/ (i = Len(toBroker) + 1 /\ toBroker'[i] = packet)
  <2> SUFFICES ASSUME NEW i \in 1 .. Len(toBroker')
               PROVE  \/ (i \in 1 .. Len(toBroker) /\ toBroker'[i] = toBroker[i])
                      \/ (i = Len(toBroker) + 1 /\ toBroker'[i] = packet)
    OBVIOUS
  <2>1. i \in 1 .. Len(toBroker) \/ i \in Len(toBroker) + 1 .. Len(toBroker')
    BY <1>3
  <2>2. i \in 1 .. Len(toBroker) => toBroker'[i] = toBroker[i]
    BY <1>3 DEF Begins
  <2>3. i \in Len(toBroker) + 1 .. Len(toBroker') => i = Len(toBroker) + 1 /\ toBroker'[i] = packet
    BY <1>3
  <2> QED
    BY <2>1, <2>2, <2>3
<1>6. Heard => Heard'
  BY <1>1, <1>4, <1>5 DEF Heard, Confirming
<1>7. Clean => Clean'
  BY <1>1, <1>4, <1>5 DEF Clean, Confirming, NoneOf
<1>8. Unheard => Unheard'
  BY <1>1 DEF Unheard, NoneOf
<1>9. CASE name = "publish"
  <2>1. NoneOf(toBroker, "SUBSCRIBE") => NoneOf(toBroker', "SUBSCRIBE")
    BY <1>3, <1>9, NoneGrown
  <2>2. Quiet => Quiet'
    BY <1>1, <1>8, <2>1 DEF Quiet, NoneOf
  <2> QED
    BY <1>1, <1>6, <1>7, <1>9, <2>2 DEF DeliveredInv, Opening
<1>10. CASE name = "subscribe"
  <2>1. NoneOf(toBroker, "SUBSCRIBE") => OnlyOne(toBroker', "SUBSCRIBE", Len(toBroker) + 1)
    <3> SUFFICES ASSUME NoneOf(toBroker, "SUBSCRIBE"), NEW i \in 1 .. Len(toBroker')
                 PROVE  toBroker'[i].type = "SUBSCRIBE" <=> i = Len(toBroker) + 1
      BY DEF OnlyOne
    <3>1. CASE i \in 1 .. Len(toBroker) /\ toBroker'[i] = toBroker[i]
      <4>1. i # Len(toBroker) + 1
        BY <1>3, <3>1
      <4> QED
        BY <3>1, <4>1 DEF NoneOf
    <3>2. CASE i = Len(toBroker) + 1 /\ toBroker'[i] = packet
      BY <1>10, <3>2
    <3> QED
      BY <1>5, <3>1, <3>2
  <2>2. Len(toBroker) + 1 \in 1 .. Len(toBroker')
    BY <1>3
  <2>3. Quiet => Asked'
    BY <1>1, <1>8, <2>1, <2>2 DEF Quiet, Asked, NoneOf, OnlyOne
  <2> QED
    BY <1>1, <1>6, <1>7, <1>10, <2>3 DEF DeliveredInv, Opening
<1> QED
  BY <1>9, <1>10

LEMMA ClientDelivers ==
  ASSUME DeliveryInv, Client
  PROVE  DeliveredInv'
<1> DEFINE id == GetNextPacketId(next_packetid)
<1>1. TypeInv /\ DeliveredInv /\ id \in 1 .. MaxPacketId
  BY PacketIdTyped DEF DeliveryInv, TypeInv
<1>2. ASSUME NEW type \in {"SUBSCRIBE", "PUBLISH"}, NEW arg \in Nat
      PROVE  Packet(type, id, arg) \in BrokerPackets /\ Packet(type, id, arg).type = type
  <2>1. id \in Nat /\ type \in ToBrokerTypes
    BY <1>1, ConstantTypes DEF ToBrokerTypes
  <2> HIDE DEF id
  <2> QED
    BY <2>1, PacketTyped DEF BrokerPackets, Packet
<1>3. CASE Tick \/ Block
  <2>1. Same /\ UNCHANGED <<call, isconnected, handler>>
    BY <1>3 DEF Tick, Block, Elapse, Same, session, broker
  <2> QED
    BY <1>1, <2>1, SameStages DEF DeliveredInv, Opening
<1>4. CASE Subscribe
  <2>1. CASE Command("subscribe", Packet("SUBSCRIBE", id, 2), id)
    <3>1. Packet("SUBSCRIBE", id, 2) \in BrokerPackets /\ Packet("SUBSCRIBE", id, 2).type = "SUBSCRIBE"
      BY <1>2
    <3> HIDE DEF id
    <3> QED
      BY <1>4, <2>1, <3>1, CommandDelivers DEF Subscribe
  <2>2. CASE CloseSession /\ Skip
    BY <2>2 DEF CloseSession, Skip, Return, DeliveredInv, Opening
  <2> QED
    BY <1>4, <2>1, <2>2 DEF Subscribe
<1>5. CASE Publish
  <2>1. CASE Command("publish", Packet("PUBLISH", id, 1), id)
    <3>1. Packet("PUBLISH", id, 1) \in BrokerPackets /\ Packet("PUBLISH", id, 1).type = "PUBLISH"
      BY <1>2
    <3> HIDE DEF id
    <3> QED
      BY <1>5, <2>1, <3>1, CommandDelivers DEF Publish
  <2>2. CASE CloseSession /\ Skip
    BY <2>2 DEF CloseSession, Skip, Return, DeliveredInv, Opening
  <2> QED
    BY <1>5, <2>1, <2>2 DEF Publish
<1>6. CASE Poll
  <2>1. call = "work" /\ call' \in {"work", "poll"} /\ UNCHANGED <<isconnected, handler>>
    BY <1>6 DEF Poll, Idle, Skip, Return
  <2>2. Same
    BY <1>6 DEF Poll, Skip, Same, broker
  <2> QED
    BY <1>1, <2>1, <2>2, SameStages DEF DeliveredInv, Opening
<1> QED
  BY <1>3, <1>4, <1>5, <1>6, HandlePacketDelivers, TimeOutDelivers DEF Client

\* What the broker reads, and what it sends back.
Received(p) ==
  \/ /\ p.type \in {"PUBACK", "PUBCOMP"} /\ UNCHANGED <<toClient, subscribed>>
     /\ status' = [status EXCEPT ![p.id] = "complete"]
  \/ \E x \in ClientPackets :
       /\ toClient' = Append(toClient, x)
       /\ \/ /\ p.type = "SUBSCRIBE" /\ x.type = "SUBACK" /\ subscribed' = (x.arg # Refused)
             /\ UNCHANGED status
          \/ /\ p.type = "PUBREC" /\ x.type = "PUBREL" /\ x.id = p.id /\ UNCHANGED subscribed
             /\ status' = [status EXCEPT ![p.id] = IF @ = "sent" THEN "received" ELSE @]
          \/ /\ p.type # "SUBSCRIBE" /\ ~Confirming(p) /\ x.type \in {"CONNACK", "PUBACK", "PINGRESP"}
             /\ x.type = "PUBACK" <=> p.type = "PUBLISH"
             /\ p.type = "PUBLISH" => x.id = p.id
             /\ UNCHANGED <<subscribed, status>>

LEMMA BrokerReceiveReceived ==
  ASSUME TypeInv, BrokerReceive
  PROVE  /\ Received(Head(toBroker)) /\ toBroker \in Seq(BrokerPackets) /\ toBroker # <<>>
         /\ toBroker' = Tail(toBroker) /\ UNCHANGED <<call, isconnected, handler, delivered, next_packetid>>
<1> DEFINE p == Head(toBroker)
<1>1. toBroker \in Seq(BrokerPackets) /\ toBroker # <<>> /\ toBroker' = Tail(toBroker) /\ UNCHANGED client
  BY DEF BrokerReceive, TypeInv, Queues
<1>2. p \in BrokerPackets
  BY <1>1, QueueTaken
<1>3. p.id \in Nat
  BY <1>2 DEF BrokerPackets, Packets
<1>4. \A type \in ToClientTypes \ {"PUBLISH"}, id \in Nat, arg \in Nat :
        /\ Packet(type, id, arg) \in ClientPackets /\ Packet(type, id, arg).type = type
        /\ Packet(type, id, arg).id = id /\ Packet(type, id, arg).arg = arg
  BY PacketTyped DEF ClientPackets, Packet
<1>5. {"CONNACK", "SUBACK", "PUBACK", "PUBREL", "PINGRESP"} \subseteq ToClientTypes \ {"PUBLISH"}
  BY DEF ToClientTypes
<1> HIDE DEF p
<1>6. Received(p)
  <2>1. CASE p.type = "CONNECT" /\ (\E rc \in {0, 5} : Tell(Packet("CONNACK", 0, rc))) /\ UNCHANGED <<subscribed, status>>
    <3>1. PICK rc \in {0, 5} : Tell(Packet("CONNACK", 0, rc))
      BY <2>1
    <3>2. Packet("CONNACK", 0, rc) \in ClientPackets /\ Packet("CONNACK", 0, rc).type = "CONNACK"
      BY <1>4, <1>5
    <3> QED
      BY <2>1, <3>1, <3>2 DEF Received, Tell, Confirming
  <2>2. CASE /\ p.type = "SUBSCRIBE" /\ UNCHANGED status
             /\ \E granted \in {2, Refused} :
                  Tell(Packet("SUBACK", p.id, granted)) /\ subscribed' = (granted # Refused)
    <3>1. PICK granted \in {2, Refused} :
            Tell(Packet("SUBACK", p.id, granted)) /\ subscribed' = (granted # Refused)
      BY <2>2
    <3>2. granted \in Nat
      BY DEF Refused
    <3>3. /\ Packet("SUBACK", p.id, granted) \in ClientPackets
          /\ Packet("SUBACK", p.id, granted).type = "SUBACK" /\ Packet("SUBACK", p.id, granted).arg = granted
      BY <1>3, <1>4, <1>5, <3>2
    <3> QED
      BY <2>2, <3>1, <3>3 DEF Received, Tell
  <2>3. CASE p.type = "PUBLISH" /\ Tell(Packet("PUBACK", p.id, 0)) /\ UNCHANGED <<subscribed, status>>
    <3>1. /\ Packet("PUBACK", p.id, 0) \in ClientPackets
          /\ Packet("PUBACK", p.id, 0).type = "PUBACK" /\ Packet("PUBACK", p.id, 0).id = p.id
      BY <1>3, <1>4, <1>5
    <3> QED
      BY <2>3, <3>1 DEF Received, Tell, Confirming
  <2>4. CASE p.type = "PINGREQ" /\ Tell(Packet("PINGRESP", 0, 0)) /\ UNCHANGED <<subscribed, status>>
    <3>1. Packet("PINGRESP", 0, 0) \in ClientPackets /\ Packet("PINGRESP", 0, 0).type = "PINGRESP"
      BY <1>4, <1>5
    <3> QED
      BY <2>4, <3>1 DEF Received, Tell, Confirming
  <2>5. CASE /\ p.type = "PUBREC" /\ Tell(Packet("PUBREL", p.id, 0)) /\ UNCHANGED subscribed
              /\ status' = [status EXCEPT ![p.id] = IF @ = "sent" THEN "received" ELSE @]
    <3>1. /\ Packet("PUBREL", p.id, 0) \in ClientPackets
          /\ Packet("PUBREL", p.id, 0).type = "PUBREL" /\ Packet("PUBREL", p.id, 0).id = p.id
      BY <1>3, <1>4, <1>5
    <3> QED
      BY <2>5, <3>1 DEF Received, Tell
  <2>6. CASE /\ p.type \in {"PUBACK", "PUBCOMP"} /\ status' = [status EXCEPT ![p.id] = "complete"]
              /\ UNCHANGED <<toClient, subscribed>>
    BY <2>6 DEF Received
  <2> QED
    BY <2>1, <2>2, <2>3, <2>4, <2>5, <2>6 DEF BrokerReceive, p
<1> QED
  BY <1>1, <1>6 DEF client, session, p

\* What the broker has not confirmed by itself, the client has confirmed.
LEMMA ReceivedHeard ==
  ASSUME TypeInv, Heard, toBroker # <<>>, Received(Head(toBroker)), toBroker' = Tail(toBroker), UNCHANGED delivered
  PROVE  Heard'
<1> DEFINE p == Head(toBroker)
<1>1. toBroker \in Seq(BrokerPackets) /\ toClient \in Seq(ClientPackets) /\ status \in [Messages -> Statuses]
  BY DEF TypeInv, Queues, Knowledge
<1>2. /\ Len(toBroker) \in Nat /\ Len(toBroker) > 0 /\ p = toBroker[1]
      /\ Len(toBroker') = Len(toBroker) - 1
      /\ \A i \in 1 .. Len(toBroker') : toBroker'[i] = toBroker[i + 1]
  BY <1>1, QueueTaken
<1>3. \A i \in 1 .. Len(toBroker') : i + 1 \in 1 .. Len(toBroker)
  BY <1>2
<1>4. \A i \in 1 .. Len(toBroker') : Confirming(toBroker'[i]) => toBroker'[i].id \in delivered
  BY <1>2, <1>3 DEF Heard
<1>5. Confirming(p) => p.id \in delivered
  BY <1>2 DEF Heard
<1> HIDE DEF p
<1>6. Received(p)
  BY DEF p
<1>7. \A m \in Messages : status'[m] = "received" \/ (status'[m] = "complete" /\ QoS[m] > 0) => m \in delivered
  <2> SUFFICES ASSUME NEW m \in Messages,
                      status'[m] = "received" \/ (status'[m] = "complete" /\ QoS[m] > 0)
               PROVE  m \in delivered
    OBVIOUS
  <2>1. \/ status' = status
        \/ Confirming(p) /\ status' = [status EXCEPT ![p.id] = "complete"]
        \/ Confirming(p) /\ status' = [status EXCEPT ![p.id] = IF @ = "sent" THEN "received" ELSE @]
    BY <1>6 DEF Received, Confirming
  <2>2. status'[m] = status[m] \/ (Confirming(p) /\ m = p.id)
    BY <1>1, <2>1
  <2> QED
    BY <1>5, <2>2 DEF Heard
<1>8. \A i \in 1 .. Len(toClient') : toClient'[i].type = "PUBREL" => toClient'[i].id \in delivered
  <2>1. CASE toClient' = toClient
    BY <2>1 DEF Heard
  <2>2. ASSUME NEW x \in ClientPackets, toClient' = Append(toClient, x),
               x.type = "PUBREL" => x.id \in delivered
        PROVE  \A i \in 1 .. Len(toClient') : toClient'[i].type = "PUBREL" => toClient'[i].id \in delivered
    BY <1>1, <2>2, QueueAdded DEF Heard
  <2>3. \/ toClient' = toClient
        \/ \E x \in ClientPackets : /\ toClient' = Append(toClient, x)
                                    /\ x.type = "PUBREL" => x.id = p.id /\ Confirming(p)
    BY <1>6 DEF Received, Confirming
  <2> QED
    BY <1>5, <2>1, <2>2, <2>3
<1> QED
  BY <1>4, <1>7, <1>8 DEF Heard, Confirming

\* A queue with one more packet of another type.
LEMMA NoneAdded ==
  ASSUME NEW S, NEW s \in Seq(S), NEW x \in S, NEW type, NoneOf(s, type), x.type # type
  PROVE  NoneOf(Append(s, x), type)
BY QueueAdded DEF NoneOf

\* Before a subscription has been granted, the broker answers, but confirms nothing.
LEMMA ReceivedStages ==
  ASSUME TypeInv, Clean, toBroker # <<>>, Received(Head(toBroker)), toBroker' = Tail(toBroker)
  PROVE  /\ Clean'
         /\ Quiet => Quiet'
         /\ Asked => Asked' \/ Told'
         /\ Told => Told'
<1> DEFINE p == Head(toBroker)
<1>1. toBroker \in Seq(BrokerPackets) /\ toClient \in Seq(ClientPackets)
  BY DEF TypeInv, Queues
<1>2. /\ Len(toBroker) \in Nat /\ Len(toBroker) > 0 /\ p = toBroker[1]
      /\ Len(toBroker') = Len(toBroker) - 1
      /\ \A i \in 1 .. Len(toBroker') : toBroker'[i] = toBroker[i + 1]
  BY <1>1, QueueTaken
<1>3. \A i \in 1 .. Len(toBroker') : i + 1 \in 1 .. Len(toBroker)
  BY <1>2
<1>4. ~Confirming(p) /\ \A i \in 1 .. Len(toBroker') : ~Confirming(toBroker'[i])
  BY <1>2, <1>3 DEF Clean
<1>5. Received(p)
  OBVIOUS
<1>6. NoneOf(toBroker, "SUBSCRIBE") => NoneOf(toBroker', "SUBSCRIBE") /\ p.type # "SUBSCRIBE"
  BY <1>1, NoneTaken
<1>7. ASSUME NEW k \in 1 .. Len(toBroker), OnlyOne(toBroker, "SUBSCRIBE", k)
      PROVE  /\ p.type = "SUBSCRIBE" => NoneOf(toBroker', "SUBSCRIBE")
             /\ p.type # "SUBSCRIBE" => /\ k - 1 \in 1 .. Len(toBroker')
                                        /\ OnlyOne(toBroker', "SUBSCRIBE", k - 1)
  BY <1>1, <1>7, OnlyTaken
<1> HIDE DEF p
<1>8. PICK x \in ClientPackets :
        /\ toClient' = Append(toClient, x) /\ UNCHANGED status
        /\ \/ p.type = "SUBSCRIBE" /\ x.type = "SUBACK" /\ subscribed' = (x.arg # Refused)
           \/ /\ p.type # "SUBSCRIBE" /\ x.type \in {"CONNACK", "PUBACK", "PINGRESP"}
              /\ UNCHANGED subscribed
  BY <1>4, <1>5 DEF Received, Confirming
<1>9. /\ Begins(toClient, toClient') /\ Len(toClient') = Len(toClient) + 1 /\ Len(toClient) \in Nat
      /\ \A i \in Len(toClient) + 1 .. Len(toClient') : i = Len(toClient) + 1 /\ toClient'[i] = x
  BY <1>1, <1>8, AppendBegins
<1>10. x.type # "PUBLISH" /\ x.type # "PUBREL"
  BY <1>8
<1>11. \A type : NoneOf(toClient, type) /\ x.type # type => NoneOf(toClient', type)
  BY <1>1, <1>8, NoneAdded
<1>12. Clean'
  BY <1>4, <1>8, <1>10, <1>11 DEF Clean, NoneOf, Confirming
<1>13. Unheard /\ subscribed' = FALSE => Unheard'
  BY <1>8, <1>10, <1>11 DEF Unheard, NoneOf
<1>14. p.type # "SUBSCRIBE" => UNCHANGED subscribed /\ x.type # "SUBACK"
  BY <1>8
<1>15. Unheard /\ p.type # "SUBSCRIBE" => Unheard'
  BY <1>8, <1>10, <1>11, <1>14 DEF Unheard, NoneOf
<1>16. Quiet => Quiet'
  BY <1>6, <1>11, <1>14, <1>15 DEF Quiet, NoneOf
<1>17. ASSUME Asked PROVE Asked' \/ Told'
  <2>1. PICK k \in 1 .. Len(toBroker) : OnlyOne(toBroker, "SUBSCRIBE", k)
    BY <1>17 DEF Asked
  <2>2. CASE p.type # "SUBSCRIBE"
    <3>1. k - 1 \in 1 .. Len(toBroker') /\ OnlyOne(toBroker', "SUBSCRIBE", k - 1)
      BY <1>7, <2>1, <2>2
    <3>2. \E j \in 1 .. Len(toBroker') : OnlyOne(toBroker, "SUBSCRIBE", j)'
      BY <3>1 DEF OnlyOne
    <3>3. NoneOf(toClient', "SUBACK")
      BY <1>11, <1>14, <1>17, <2>2 DEF Asked
    <3> QED
      BY <1>15, <1>17, <2>2, <3>2, <3>3 DEF Asked, NoneOf
  <2>3. CASE p.type = "SUBSCRIBE"
    <3> DEFINE j == Len(toClient) + 1
    <3>1. NoneOf(toBroker', "SUBSCRIBE")
      BY <1>7, <2>1, <2>3
    <3>2. x.type = "SUBACK" /\ subscribed' = (x.arg # Refused)
      BY <1>8, <2>3
    <3>3. j \in 1 .. Len(toClient') /\ toClient'[j] = x
      BY <1>9
    <3>4. \A i \in 1 .. Len(toClient') : i # j => i \in 1 .. Len(toClient) /\ toClient'[i] = toClient[i]
      BY <1>9 DEF Begins
    <3>5. NoneOf(toClient, "SUBACK") /\ NoneOf(toClient, "PUBLISH")
      BY <1>17 DEF Asked, Unheard
    <3>6. OnlyOne(toClient', "SUBACK", j)
      BY <3>2, <3>3, <3>4, <3>5 DEF OnlyOne, NoneOf
    <3>7. \A i \in 1 .. j : toClient'[i].type # "PUBLISH"
      <4>1. NoneOf(toClient', "PUBLISH")
        BY <1>10, <1>11, <3>5
      <4> QED
        BY <1>9, <4>1 DEF NoneOf
    <3>8. toClient'[j].arg = Refused => Unheard'
      BY <1>13, <1>17, <3>2, <3>3 DEF Asked
    <3> HIDE DEF j
    <3>9. \E l \in 1 .. Len(toClient') :
            /\ OnlyOne(toClient', "SUBACK", l)
            /\ \A i \in 1 .. l : toClient'[i].type # "PUBLISH"
            /\ toClient'[l].arg = Refused => Unheard'
      BY <3>3, <3>6, <3>7, <3>8
    <3> QED
      BY <3>1, <3>9 DEF Told, NoneOf, OnlyOne
  <2> QED
    BY <2>2, <2>3
<1>18. ASSUME Told PROVE Told'
  <2>1. PICK k \in 1 .. Len(toClient) :
          /\ OnlyOne(toClient, "SUBACK", k)
          /\ \A i \in 1 .. k : toClient[i].type # "PUBLISH"
          /\ toClient[k].arg = Refused => Unheard
    BY <1>18 DEF Told
  <2>2. NoneOf(toBroker', "SUBSCRIBE") /\ p.type # "SUBSCRIBE"
    BY <1>6, <1>18 DEF Told
  <2>3. k \in 1 .. Len(toClient') /\ OnlyOne(toClient', "SUBACK", k)
    <3>1. \A i \in Len(toClient) + 1 .. Len(toClient') : toClient'[i].type # "SUBACK"
      BY <1>9, <1>14, <2>2
    <3> QED
      BY <1>9, <2>1, <3>1, OnlyGrown
  <2>4. \A i \in 1 .. k : toClient'[i] = toClient[i]
    <3>1. \A i \in 1 .. k : i \in 1 .. Len(toClient)
      BY <1>9
    <3> QED
      BY <1>9, <3>1 DEF Begins
  <2>5. k \in 1 .. k
    BY <1>9
  <2>6. toClient'[k].arg = Refused => Unheard'
    BY <1>15, <2>1, <2>2, <2>4, <2>5
  <2>7. \E l \in 1 .. Len(toClient') :
          /\ OnlyOne(toClient', "SUBACK", l)
          /\ \A i \in 1 .. l : toClient'[i].type # "PUBLISH"
          /\ toClient'[l].arg = Refused => Unheard'
    BY <2>1, <2>3, <2>4, <2>6
  <2> QED
    BY <2>2, <2>7 DEF Told, NoneOf, OnlyOne
<1> QED
  BY <1>12, <1>16, <1>17, <1>18

LEMMA BrokerReceiveDelivers ==
  ASSUME DeliveryInv, BrokerReceive
  PROVE  DeliveredInv'
<1>1. TypeInv /\ DeliveredInv
  BY DEF DeliveryInv
<1>2. /\ Received(Head(toBroker)) /\ toBroker # <<>> /\ toBroker' = Tail(toBroker)
      /\ UNCHANGED <<call, isconnected, handler, delivered>>
  BY <1>1, BrokerReceiveReceived
<1>3. Heard => Heard'
  BY <1>1, <1>2, ReceivedHeard
<1>4. Clean => Clean' /\ (Quiet => Quiet') /\ (Asked => Asked' \/ Told') /\ (Told => Told')
  BY <1>1, <1>2, ReceivedStages
<1> QED
  BY <1>1, <1>2, <1>3, <1>4 DEF DeliveredInv, Opening

\* A message only comes after the subscription has been granted.
LEMMA ToldGrown ==
  ASSUME TypeInv, Told, ~Unheard, NEW x \in ClientPackets, x.type # "SUBACK",
         toClient' = Append(toClient, x), UNCHANGED toBroker
  PROVE  Told'
<1>1. toClient \in Seq(ClientPackets)
  BY DEF TypeInv, Queues
<1>2. /\ Begins(toClient, toClient') /\ Len(toClient') = Len(toClient) + 1 /\ Len(toClient) \in Nat
      /\ \A i \in Len(toClient) + 1 .. Len(toClient') : i = Len(toClient) + 1 /\ toClient'[i] = x
  BY <1>1, AppendBegins
<1>3. PICK k \in 1 .. Len(toClient) :
        /\ OnlyOne(toClient, "SUBACK", k)
        /\ \A i \in 1 .. k : toClient[i].type # "PUBLISH"
        /\ toClient[k].arg # Refused
  BY DEF Told
<1>4. k \in 1 .. Len(toClient') /\ OnlyOne(toClient', "SUBACK", k)
  BY <1>2, <1>3, OnlyGrown
<1>5. \A i \in 1 .. k : toClient'[i] = toClient[i]
  <2>1. \A i \in 1 .. k : i \in 1 .. Len(toClient)
    BY <1>2
  <2> QED
    BY <1>2, <2>1 DEF Begins
<1>6. k \in 1 .. k
  BY <1>2
<1>7. \E l \in 1 .. Len(toClient') :
        /\ OnlyOne(toClient', "SUBACK", l)
        /\ \A i \in 1 .. l : toClient'[i].type # "PUBLISH"
        /\ toClient'[l].arg = Refused => Unheard'
  BY <1>3, <1>4, <1>5, <1>6
<1>8. NoneOf(toBroker', "SUBSCRIBE")
  BY DEF Told
<1> QED
  BY <1>7, <1>8 DEF Told, NoneOf, OnlyOne

\* The packet that the broker adds, and what it says of the message.
LEMMA MessageDelivers ==
  ASSUME DeliveryInv, NEW m \in Messages, NEW x \in ClientPackets, toClient' = Append(toClient, x),
         UNCHANGED <<call, isconnected, handler, delivered, toBroker, subscribed>>,
         ~Unheard, x.type # "SUBACK",
         x.type = "PUBREL" => status[m] = "received" /\ x.id = m,
         \A n \in Messages : status'[n] = status[n]
                             \/ status'[n] = "sent" \/ (status'[n] = "complete" /\ QoS[n] = 0)
  PROVE  DeliveredInv'
<1>1. TypeInv /\ DeliveredInv /\ toClient \in Seq(ClientPackets)
  BY DEF DeliveryInv, TypeInv, Queues
<1>2. /\ Len(toClient) \in Nat /\ Len(toClient') = Len(toClient) + 1
      /\ \A i \in 1 .. Len(toClient) : toClient'[i] = toClient[i]
      /\ toClient'[Len(toClient) + 1] = x
  BY <1>1, QueueAdded
<1>3. \A i \in 1 .. Len(toClient') :
        \/ (i \in 1 .. Len(toClient) /\ toClient'[i] = toClient[i])
        \/ toClient'[i] = x
  BY <1>2
<1>4. Heard => Heard'
  <2> SUFFICES ASSUME Heard PROVE Heard'
    OBVIOUS
  <2>1. \A n \in Messages : status'[n] = "received" \/ (status'[n] = "complete" /\ QoS[n] > 0) => n \in delivered
    BY DEF Heard
  <2>2. x.type = "PUBREL" => x.id \in delivered
    BY DEF Heard
  <2>3. \A i \in 1 .. Len(toClient') : toClient'[i].type = "PUBREL" => toClient'[i].id \in delivered
    BY <1>3, <2>2 DEF Heard
  <2> QED
    BY <2>1, <2>3 DEF Heard, Confirming
<1>5. Clean => Clean'
  <2> SUFFICES ASSUME Clean PROVE Clean'
    OBVIOUS
  <2>1. \A n \in Messages : status'[n] # "received" /\ (status'[n] = "complete" => QoS[n] = 0)
    BY DEF Clean
  <2>2. x.type # "PUBREL"
    BY DEF Clean
  <2>3. NoneOf(toClient', "PUBREL")
    BY <1>1, <2>2, NoneAdded DEF Clean
  <2> QED
    BY <2>1, <2>3 DEF Clean, NoneOf, Confirming
<1>6. ~Quiet /\ ~Asked
  BY DEF Quiet, Asked
<1>7. Told => Told'
  BY <1>1, ToldGrown
<1> QED
  BY <1>1, <1>4, <1>5, <1>6, <1>7 DEF DeliveredInv, Opening

LEMMA BrokerPublishDelivers ==
  ASSUME DeliveryInv, NEW m \in Messages, BrokerPublish(m)
  PROVE  DeliveredInv'
<1> DEFINE x == Packet("PUBLISH", m, QoS[m])
<1>1. m \in Nat /\ QoS[m] \in 0 .. 2 /\ QoS[m] \in Nat /\ status \in [Messages -> Statuses]
  BY MqttAssumption, MessagesAreNumbers DEF DeliveryInv, TypeInv, Knowledge
<1>2. x \in ClientPackets /\ x.type = "PUBLISH"
  BY <1>1, PacketTyped DEF ClientPackets, Packet, ToClientTypes
<1>3. /\ toClient' = Append(toClient, x)
      /\ UNCHANGED <<call, isconnected, handler, delivered, toBroker, subscribed>>
  BY DEF BrokerPublish, Tell, client, session
<1>4. ~Unheard
  BY DEF BrokerPublish, Unheard
<1>5. \A n \in Messages : status'[n] = status[n]
                          \/ status'[n] = "sent" \/ (status'[n] = "complete" /\ QoS[n] = 0)
  BY <1>1 DEF BrokerPublish
<1> HIDE DEF x
<1> QED
  BY <1>2, <1>3, <1>4, <1>5, MessageDelivers

LEMMA BrokerRetryDelivers ==
  ASSUME DeliveryInv, NEW m \in Messages, BrokerRetry(m)
  PROVE  DeliveredInv'
<1>1. m \in Nat /\ QoS[m] \in Nat /\ TypeInv /\ DeliveredInv
  BY MqttAssumption, MessagesAreNumbers DEF DeliveryInv
<1>2. UNCHANGED <<call, isconnected, handler, delivered, toBroker, subscribed, status>>
  BY DEF BrokerRetry, client, session
<1>3. CASE status[m] = "sent"
  <2> DEFINE x == Packet("PUBLISH", m, QoS[m])
  <2>1. x \in ClientPackets /\ x.type = "PUBLISH"
    BY <1>1, PacketTyped DEF ClientPackets, Packet, ToClientTypes
  <2>2. toClient' = Append(toClient, x)
    BY <1>3 DEF BrokerRetry, Tell
  <2>3. ~Unheard
    BY <1>3 DEF Unheard
  <2> HIDE DEF x
  <2> QED
    BY <1>2, <2>1, <2>2, <2>3, MessageDelivers
<1>4. CASE status[m] = "received"
  <2> DEFINE x == Packet("PUBREL", m, 0)
  <2>1. x \in ClientPackets /\ x.type = "PUBREL" /\ x.id = m
    BY <1>1, PacketTyped DEF ClientPackets, Packet, ToClientTypes
  <2>2. toClient' = Append(toClient, x)
    BY <1>4 DEF BrokerRetry, Tell
  <2> HIDE DEF x
  <2>3. ~Clean
    BY <1>4 DEF Clean
  <2>4. ~Opening
    BY <1>1, <2>3 DEF DeliveredInv
  <2>5. Heard => Heard'
    <3> SUFFICES ASSUME Heard PROVE Heard'
      OBVIOUS
    <3>1. toClient \in Seq(ClientPackets) /\ m \in delivered
      BY <1>1, <1>4 DEF TypeInv, Queues, Heard
    <3>2. \A i \in 1 .. Len(toClient') : toClient'[i].type = "PUBREL" => toClient'[i].id \in delivered
      BY <2>1, <2>2, <3>1, QueueAdded DEF Heard
    <3> QED
      BY <1>2, <3>2 DEF Heard, Confirming
  <2> QED
    BY <1>1, <1>2, <2>4, <2>5 DEF DeliveredInv, Opening
<1> QED
  BY <1>3, <1>4 DEF BrokerRetry

LEMMA NextDelivers ==
  ASSUME DeliveryInv, [Next]_vars
  PROVE  DeliveredInv'
<1>1. CASE UNCHANGED vars
  <2>1. Same /\ UNCHANGED <<call, isconnected, handler>>
    BY <1>1 DEF vars, session, broker, Same
  <2> QED
    BY <2>1, SameStages DEF DeliveryInv, DeliveredInv, Opening
<1> QED
  BY <1>1, ClientDelivers, BrokerReceiveDelivers, BrokerPublishDelivers, BrokerRetryDelivers DEF Next

LEMMA InitDelivers ==
  ASSUME Init
  PROVE  DeliveredInv
<1>1. /\ toBroker = <<Packet("CONNECT", 0, 0)>> /\ toClient = <<>> /\ call = "connect"
      /\ ~handler /\ ~isconnected /\ ~subscribed /\ status = [m \in Messages |-> "unsent"]
  BY DEF Init
<1>2. \A i \in 1 .. Len(toBroker) : toBroker[i].type = "CONNECT"
  BY <1>1 DEF Packet
<1>3. \A type : NoneOf(toClient, type)
  BY <1>1 DEF NoneOf
<1>4. Clean
  BY <1>1, <1>2, <1>3 DEF Clean, Confirming
<1>5. Quiet
  BY <1>1, <1>2, <1>3 DEF Quiet, Unheard, NoneOf
<1> QED
  BY <1>1, <1>4, <1>5 DEF DeliveredInv, Opening

LEMMA HeardMeansDelivered ==
  ASSUME DeliveredInv
  PROVE  CompleteMeansDelivered
BY DEF DeliveredInv, Heard, CompleteMeansDelivered

\* In an open session with a handler, a settings message that the broker holds for
\* delivered has been handed to the program: an acknowledgement is only sent after
\* the callback, and no message comes before the handler is set.
THEOREM CompleteAlwaysMeansDelivered == Spec => []CompleteMeansDelivered
<1>1. Init => AliveInv /\ OpenMeansRegistered /\ TypeInv /\ DeliveredInv
  BY InitAlive, InitTyped, InitDelivers DEF Init, OpenMeansRegistered
<1>2. AliveInv /\ OpenMeansRegistered /\ TypeInv /\ DeliveredInv /\ [Next]_vars
      => AliveInv' /\ OpenMeansRegistered' /\ TypeInv' /\ DeliveredInv'
  BY NextAlive, NextRegistered, NextTyped, NextDelivers, AliveMeansConnectFirst DEF DeliveryInv
<1>3. DeliveredInv => CompleteMeansDelivered
  BY HeardMeansDelivered
<1> QED
  BY <1>1, <1>2, <1>3, PTL DEF Spec

-----------------------------------------------------------------------------
(* Acknowledgements match *)

\* Also before the session is opened nothing is published.
MatchInv ==
  call = "connect" \/ isconnected =>
    IF call = "publish" THEN Published \/ Acknowledged ELSE NonePublished

\* How a turn of cycle() leaves the publication: its acknowledgement ends the
\* call, and any other end closes the session.
LEMMA ConcludePublication ==
  ASSUME call # "work", call = "connect" => ~isconnected,
         NEW p, NEW sent, NEW received, NEW outstanding, NEW answers,
         Conclude(p, sent, received, outstanding, answers)
  PROVE  /\ next_packetid' = next_packetid
         /\ \/ UNCHANGED <<isconnected, call>> /\ (call = "publish" => p.type # "PUBACK")
            \/ call' = "work" /\ isconnected' = FALSE
            \/ /\ call' = "work" /\ (call = "publish" => p.type = "PUBACK")
               /\ isconnected' => call = "connect" \/ isconnected
<1> DEFINE failed == Due(sent, received) /\ outstanding
<1>1. Outcome(p.type, failed) \in {"success", "failure", "more"}
  BY OutcomeCases
<1>2. \/ Outcome(p.type, failed) = "success" /\ (\E o : Succeed(p, o)) /\ Return
      \/ (\E o : Fail(o)) /\ Return
      \/ Outcome(p.type, failed) = "more" /\ UNCHANGED <<isconnected, call>>
  BY <1>1 DEF Conclude
<1>3. next_packetid' = next_packetid
  BY DEF Conclude
<1>4. CASE Outcome(p.type, failed) = "success" /\ (\E o : Succeed(p, o)) /\ Return
  <2>1. call' = "work"
    BY <1>4 DEF Return
  <2>2. isconnected' = (isconnected \/ Accepted(p))
    BY <1>4 DEF Succeed
  <2>3. call = "publish" => p.type = "PUBACK"
    BY <1>4 DEF Outcome, Awaited
  <2> QED
    BY <1>3, <2>1, <2>2, <2>3 DEF Accepted
<1>5. CASE (\E o : Fail(o)) /\ Return
  <2>1. call' = "work"
    BY <1>5 DEF Return
  <2>2. \/ isconnected' = FALSE
        \/ call \in {"poll", "connect"} /\ ~isconnected /\ isconnected' = isconnected
    BY <1>5 DEF Fail, CloseSession
  <2> QED
    BY <1>3, <2>1, <2>2
<1>6. CASE Outcome(p.type, failed) = "more" /\ UNCHANGED <<isconnected, call>>
  <2>1. call = "publish" => p.type # "PUBACK"
    BY <1>6 DEF Outcome, Awaited
  <2> QED
    BY <1>3, <1>6, <2>1
<1> QED
  BY <1>2, <1>4, <1>5, <1>6

\* What the client sends in cycle() is never a publication.
LEMMA SentNoPublication ==
  ASSUME Silent \/ Handled
  PROVE  /\ Begins(toBroker, toBroker')
         /\ \A i \in Len(toBroker) + 1 .. Len(toBroker') : toBroker'[i].type # "PUBLISH"
<1>1. Ping.type # "PUBLISH"
  BY PingTyped
<1> QED
  BY <1>1 DEF Silent, Handled

\* A queue that begins with another, as far as publications go.
LEMMA PublicationGrown ==
  ASSUME Begins(toBroker, toBroker'), next_packetid' = next_packetid,
         \A i \in Len(toBroker) + 1 .. Len(toBroker') : toBroker'[i].type # "PUBLISH"
  PROVE  /\ NoneOf(toBroker, "PUBLISH") => NoneOf(toBroker', "PUBLISH")
         /\ (\E k \in 1 .. Len(toBroker) : OnlyOne(toBroker, "PUBLISH", k) /\ toBroker[k].id = next_packetid)
            => \E k \in 1 .. Len(toBroker') :
                 OnlyOne(toBroker', "PUBLISH", k) /\ toBroker'[k].id = next_packetid'
<1>1. NoneOf(toBroker, "PUBLISH") => NoneOf(toBroker', "PUBLISH")
  BY NoneGrown
<1>2. ASSUME NEW k \in 1 .. Len(toBroker), OnlyOne(toBroker, "PUBLISH", k), toBroker[k].id = next_packetid
      PROVE  k \in 1 .. Len(toBroker') /\ OnlyOne(toBroker', "PUBLISH", k) /\ toBroker'[k].id = next_packetid'
  <2>1. k \in 1 .. Len(toBroker') /\ OnlyOne(toBroker', "PUBLISH", k)
    BY <1>2, OnlyGrown
  <2>2. toBroker'[k] = toBroker[k]
    BY DEF Begins
  <2> QED
    BY <1>2, <2>1, <2>2
<1> QED
  BY <1>1, <1>2

LEMMA SilentPublication ==
  ASSUME TypeInv, Silent, next_packetid' = next_packetid
  PROVE  /\ NonePublished => NonePublished'
         /\ Published => Published'
         /\ Acknowledged => Acknowledged'
<1>1. toClient' = toClient
  BY DEF Silent
<1>2. /\ NoneOf(toBroker, "PUBLISH") => NoneOf(toBroker', "PUBLISH")
      /\ (\E k \in 1 .. Len(toBroker) : OnlyOne(toBroker, "PUBLISH", k) /\ toBroker[k].id = next_packetid)
         => \E k \in 1 .. Len(toBroker') :
              OnlyOne(toBroker', "PUBLISH", k) /\ toBroker'[k].id = next_packetid'
  BY SentNoPublication, PublicationGrown
<1> QED
  BY <1>1, <1>2 DEF NonePublished, Published, Acknowledged, NoneOf, OnlyOne

LEMMA HandledPublication ==
  ASSUME TypeInv, Handled, next_packetid' = next_packetid
  PROVE  /\ NonePublished => NonePublished'
         /\ Published => Published' /\ Head(toClient).type # "PUBACK"
         /\ Acknowledged /\ Head(toClient).type # "PUBACK" => Acknowledged'
         /\ Acknowledged /\ Head(toClient).type = "PUBACK" => NonePublished'
<1> DEFINE p == Head(toClient)
<1>1. toClient \in Seq(ClientPackets) /\ toClient # <<>> /\ toClient' = Tail(toClient)
  BY DEF Handled, TypeInv, Queues
<1>2. /\ NoneOf(toBroker, "PUBLISH") => NoneOf(toBroker', "PUBLISH")
      /\ (\E k \in 1 .. Len(toBroker) : OnlyOne(toBroker, "PUBLISH", k) /\ toBroker[k].id = next_packetid)
         => \E k \in 1 .. Len(toBroker') :
              OnlyOne(toBroker', "PUBLISH", k) /\ toBroker'[k].id = next_packetid'
  BY SentNoPublication, PublicationGrown
<1>3. NoneOf(toClient, "PUBACK") => NoneOf(toClient', "PUBACK") /\ p.type # "PUBACK"
  BY <1>1, NoneTaken
<1>4. ASSUME NEW k \in 1 .. Len(toClient), OnlyOne(toClient, "PUBACK", k), toClient[k].id = next_packetid
      PROVE  /\ p.type = "PUBACK" => NoneOf(toClient', "PUBACK")
             /\ p.type # "PUBACK" =>
                  \E j \in 1 .. Len(toClient') :
                    OnlyOne(toClient', "PUBACK", j) /\ toClient'[j].id = next_packetid'
  <2>1. /\ k = 1 => p.type = "PUBACK" /\ NoneOf(toClient', "PUBACK")
        /\ k # 1 => /\ p.type # "PUBACK" /\ k - 1 \in 1 .. Len(toClient')
                    /\ OnlyOne(toClient', "PUBACK", k - 1)
    BY <1>1, <1>4, OnlyTaken
  <2>2. k # 1 => toClient'[k - 1] = toClient[k]
    <3>1. Len(toClient') = Len(toClient) - 1 /\ \A i \in 1 .. Len(toClient') : toClient'[i] = toClient[i + 1]
      BY <1>1, QueueTaken
    <3>2. k # 1 => k - 1 + 1 = k
      OBVIOUS
    <3> QED
      BY <2>1, <3>1, <3>2
  <2> QED
    BY <1>4, <2>1, <2>2
<1> HIDE DEF p
<1>5. NonePublished => NonePublished'
  BY <1>2, <1>3 DEF NonePublished, NoneOf
<1>6. Published => Published' /\ p.type # "PUBACK"
  BY <1>2, <1>3 DEF Published, NoneOf, OnlyOne
<1>7. Acknowledged /\ p.type # "PUBACK" => Acknowledged'
  <2> SUFFICES ASSUME Acknowledged, p.type # "PUBACK" PROVE Acknowledged'
    OBVIOUS
  <2>1. NoneOf(toBroker', "PUBLISH")
    BY <1>2 DEF Acknowledged
  <2>2. \E j \in 1 .. Len(toClient') : OnlyOne(toClient', "PUBACK", j) /\ toClient'[j].id = next_packetid'
    BY <1>4 DEF Acknowledged
  <2> QED
    BY <2>1, <2>2 DEF Acknowledged, NoneOf, OnlyOne
<1>8. Acknowledged /\ p.type = "PUBACK" => NonePublished'
  <2> SUFFICES ASSUME Acknowledged, p.type = "PUBACK" PROVE NonePublished'
    OBVIOUS
  <2>1. NoneOf(toBroker', "PUBLISH")
    BY <1>2 DEF Acknowledged
  <2>2. NoneOf(toClient', "PUBACK")
    BY <1>4 DEF Acknowledged
  <2> QED
    BY <2>1, <2>2 DEF NonePublished, NoneOf
<1> QED
  BY <1>5, <1>6, <1>7, <1>8 DEF p

\* One more packet from the broker that acknowledges no publication.
LEMMA AddedNotAcknowledging ==
  ASSUME toClient \in Seq(ClientPackets), NEW x \in ClientPackets, x.type # "PUBACK",
         toClient' = Append(toClient, x), next_packetid' = next_packetid
  PROVE  /\ NoneOf(toClient, "PUBACK") => NoneOf(toClient', "PUBACK")
         /\ (\E k \in 1 .. Len(toClient) : OnlyOne(toClient, "PUBACK", k) /\ toClient[k].id = next_packetid)
            => \E k \in 1 .. Len(toClient') :
                 OnlyOne(toClient', "PUBACK", k) /\ toClient'[k].id = next_packetid'
<1>1. /\ Begins(toClient, toClient')
      /\ \A i \in Len(toClient) + 1 .. Len(toClient') : toClient'[i].type # "PUBACK"
  BY AppendBegins
<1>2. NoneOf(toClient, "PUBACK") => NoneOf(toClient', "PUBACK")
  BY <1>1, NoneGrown
<1>3. ASSUME NEW k \in 1 .. Len(toClient), OnlyOne(toClient, "PUBACK", k), toClient[k].id = next_packetid
      PROVE  k \in 1 .. Len(toClient') /\ OnlyOne(toClient', "PUBACK", k) /\ toClient'[k].id = next_packetid'
  <2>1. k \in 1 .. Len(toClient') /\ OnlyOne(toClient', "PUBACK", k)
    BY <1>1, <1>3, OnlyGrown
  <2>2. toClient'[k] = toClient[k]
    BY <1>1 DEF Begins
  <2> QED
    BY <1>3, <2>1, <2>2
<1> QED
  BY <1>2, <1>3

LEMMA HandlePacketMatches ==
  ASSUME TypeInv, ConnectFirst, MatchInv, HandlePacket
  PROVE  MatchInv'
<1> DEFINE p == Head(toClient)
           outstanding == ping_outstanding /\ p.type # "PINGRESP"
<1>1. Handled
  BY HandlePacketHandled
<1>2. call # "work" /\ Conclude(p, SentAfter(Answer(p)), KeepAlive - busy, outstanding, Answer(p))
  BY DEF HandlePacket, Waiting
<1> HIDE DEF p, outstanding
<1>3. /\ next_packetid' = next_packetid
      /\ \/ UNCHANGED <<isconnected, call>> /\ (call = "publish" => p.type # "PUBACK")
         \/ call' = "work" /\ isconnected' = FALSE
         \/ /\ call' = "work" /\ (call = "publish" => p.type = "PUBACK")
            /\ isconnected' => call = "connect" \/ isconnected
  BY <1>2, ConcludePublication DEF ConnectFirst
<1>4. /\ NonePublished => NonePublished'
      /\ Published => Published' /\ p.type # "PUBACK"
      /\ Acknowledged /\ p.type # "PUBACK" => Acknowledged'
      /\ Acknowledged /\ p.type = "PUBACK" => NonePublished'
  BY <1>1, <1>3, HandledPublication DEF p
<1> QED
  BY <1>3, <1>4 DEF MatchInv

LEMMA TimeOutMatches ==
  ASSUME TypeInv, ConnectFirst, MatchInv, TimeOut
  PROVE  MatchInv'
<1> DEFINE p == Packet("none", 0, 0)
           none == <<>>
<1>1. Silent
  BY TimeOutSilent
<1>2. call # "work" /\ Conclude(p, last_sent, last_received, ping_outstanding, none)
  BY DEF TimeOut, Waiting
<1>3. p.type # "PUBACK"
  BY DEF Packet
<1> HIDE DEF p, none
<1>4. /\ next_packetid' = next_packetid
      /\ \/ UNCHANGED <<isconnected, call>>
         \/ call' = "work" /\ isconnected' = FALSE
         \/ /\ call' = "work" /\ call # "publish"
            /\ isconnected' => call = "connect" \/ isconnected
  BY <1>2, <1>3, ConcludePublication DEF ConnectFirst
<1>5. /\ NonePublished => NonePublished'
      /\ Published => Published'
      /\ Acknowledged => Acknowledged'
  BY <1>1, <1>4, SilentPublication
<1> QED
  BY <1>4, <1>5 DEF MatchInv

\* A command is only given when nothing is under way.
LEMMA CommandMatches ==
  ASSUME TypeInv, MatchInv, Idle, NEW name \in {"subscribe", "publish"}, NEW packet \in BrokerPackets, NEW id,
         Command(name, packet, id), UNCHANGED toClient, packet.id = id,
         packet.type = IF name = "subscribe" THEN "SUBSCRIBE" ELSE "PUBLISH"
  PROVE  MatchInv'
<1>1. /\ NonePublished /\ toBroker \in Seq(BrokerPackets) /\ toBroker' = Append(toBroker, packet)
      /\ next_packetid' = id /\ call' = name /\ UNCHANGED toClient
  BY DEF MatchInv, Idle, Command, TypeInv, Queues
<1>2. /\ Len(toBroker) \in Nat /\ Len(toBroker') = Len(toBroker) + 1
      /\ \A i \in 1 .. Len(toBroker) : toBroker'[i] = toBroker[i]
      /\ toBroker'[Len(toBroker) + 1] = packet
  BY <1>1, QueueAdded
<1>3. \A i \in 1 .. Len(toBroker) : toBroker'[i].type # "PUBLISH"
  BY <1>1, <1>2 DEF NonePublished, NoneOf
<1>4. CASE name = "subscribe"
  <2>1. packet.type # "PUBLISH"
    BY <1>4
  <2>2. NoneOf(toBroker', "PUBLISH")
    BY <1>1, <2>1, NoneAdded DEF NonePublished
  <2>3. NonePublished'
    BY <1>1, <2>2 DEF NonePublished, NoneOf
  <2> QED
    BY <1>1, <1>4, <2>3 DEF MatchInv
<1>5. CASE name = "publish"
  <2> DEFINE k == Len(toBroker) + 1
  <2>1. /\ k \in 1 .. Len(toBroker') /\ toBroker'[k] = packet /\ k \notin 1 .. Len(toBroker)
        /\ \A i \in 1 .. Len(toBroker') : i = k \/ i \in 1 .. Len(toBroker)
    BY <1>2
  <2>2. packet.type = "PUBLISH" /\ packet.id = next_packetid'
    BY <1>1, <1>5
  <2> HIDE DEF k
  <2>3. OnlyOne(toBroker', "PUBLISH", k)
    BY <1>3, <2>1, <2>2 DEF OnlyOne
  <2>4. Published'
    BY <1>1, <2>1, <2>2, <2>3 DEF NonePublished, Published, NoneOf, OnlyOne
  <2> QED
    BY <1>1, <1>5, <2>4 DEF MatchInv
<1> QED
  BY <1>4, <1>5

\* Steps that leave the queues and the publication alone.
LEMMA SamePublication ==
  ASSUME UNCHANGED <<toBroker, toClient, next_packetid>>
  PROVE  Published' = Published /\ Acknowledged' = Acknowledged /\ NonePublished' = NonePublished
BY DEF Published, Acknowledged, NonePublished, NoneOf, OnlyOne

LEMMA ClientMatches ==
  ASSUME TypeInv, ConnectFirst, MatchInv, Client
  PROVE  MatchInv'
<1> DEFINE id == GetNextPacketId(next_packetid)
<1>1. id \in 1 .. MaxPacketId
  BY PacketIdTyped DEF TypeInv
<1>2. ASSUME NEW type \in {"SUBSCRIBE", "PUBLISH"}, NEW arg \in Nat
      PROVE  /\ Packet(type, id, arg) \in BrokerPackets
             /\ Packet(type, id, arg).type = type /\ Packet(type, id, arg).id = id
  <2>1. id \in Nat /\ type \in ToBrokerTypes
    BY <1>1, ConstantTypes DEF ToBrokerTypes
  <2> HIDE DEF id
  <2> QED
    BY <2>1, PacketTyped DEF BrokerPackets, Packet
<1>3. CASE Tick \/ Block
  <2>1. UNCHANGED <<toBroker, toClient, next_packetid, call, isconnected>>
    BY <1>3 DEF Tick, Block, Elapse, session
  <2> QED
    BY <2>1, SamePublication DEF MatchInv
<1>4. CASE Subscribe
  <2>1. CASE Command("subscribe", Packet("SUBSCRIBE", id, 2), id)
    <3>1. /\ Packet("SUBSCRIBE", id, 2) \in BrokerPackets
          /\ Packet("SUBSCRIBE", id, 2).type = "SUBSCRIBE" /\ Packet("SUBSCRIBE", id, 2).id = id
      BY <1>2
    <3> HIDE DEF id
    <3> QED
      BY <1>4, <2>1, <3>1, CommandMatches DEF Subscribe
  <2>2. CASE CloseSession /\ Skip
    BY <2>2 DEF CloseSession, Skip, Return, MatchInv
  <2> QED
    BY <1>4, <2>1, <2>2 DEF Subscribe
<1>5. CASE Publish
  <2>1. CASE Command("publish", Packet("PUBLISH", id, 1), id)
    <3>1. /\ Packet("PUBLISH", id, 1) \in BrokerPackets
          /\ Packet("PUBLISH", id, 1).type = "PUBLISH" /\ Packet("PUBLISH", id, 1).id = id
      BY <1>2
    <3> HIDE DEF id
    <3> QED
      BY <1>5, <2>1, <3>1, CommandMatches DEF Publish
  <2>2. CASE CloseSession /\ Skip
    BY <2>2 DEF CloseSession, Skip, Return, MatchInv
  <2> QED
    BY <1>5, <2>1, <2>2 DEF Publish
<1>6. CASE Poll
  <2>1. call = "work" /\ call' \in {"work", "poll"} /\ isconnected' = isconnected
    BY <1>6 DEF Poll, Idle, Skip, Return
  <2>2. UNCHANGED <<toBroker, toClient, next_packetid>>
    BY <1>6 DEF Poll, Skip
  <2> QED
    BY <2>1, <2>2, SamePublication DEF MatchInv
<1> QED
  BY <1>3, <1>4, <1>5, <1>6, HandlePacketMatches, TimeOutMatches DEF Client

\* The broker answers the publication with its number, and sends no other
\* acknowledgement of a publication.
LEMMA BrokerReceiveMatches ==
  ASSUME TypeInv, MatchInv, BrokerReceive
  PROVE  MatchInv'
<1> DEFINE p == Head(toBroker)
<1>1. /\ Received(p) /\ toBroker \in Seq(BrokerPackets) /\ toBroker # <<>> /\ toBroker' = Tail(toBroker)
      /\ UNCHANGED <<call, isconnected, next_packetid>> /\ toClient \in Seq(ClientPackets)
  BY BrokerReceiveReceived DEF TypeInv, Queues
<1>2. NoneOf(toBroker, "PUBLISH") => NoneOf(toBroker', "PUBLISH") /\ p.type # "PUBLISH"
  BY <1>1, NoneTaken
<1>3. ASSUME NEW k \in 1 .. Len(toBroker), OnlyOne(toBroker, "PUBLISH", k), toBroker[k].id = next_packetid
      PROVE  /\ p.type = "PUBLISH" => NoneOf(toBroker', "PUBLISH") /\ p.id = next_packetid
             /\ p.type # "PUBLISH" =>
                  \E j \in 1 .. Len(toBroker') :
                    OnlyOne(toBroker', "PUBLISH", j) /\ toBroker'[j].id = next_packetid'
  <2>1. /\ k = 1 => p.type = "PUBLISH" /\ NoneOf(toBroker', "PUBLISH")
        /\ k # 1 => /\ p.type # "PUBLISH" /\ k - 1 \in 1 .. Len(toBroker')
                    /\ OnlyOne(toBroker', "PUBLISH", k - 1)
    BY <1>1, <1>3, OnlyTaken
  <2>2. /\ p = toBroker[1] /\ Len(toBroker') = Len(toBroker) - 1
        /\ \A i \in 1 .. Len(toBroker') : toBroker'[i] = toBroker[i + 1]
    BY <1>1, QueueTaken
  <2>3. k # 1 => toBroker'[k - 1] = toBroker[k]
    <3>1. k # 1 => k - 1 + 1 = k
      OBVIOUS
    <3> QED
      BY <2>1, <2>2, <3>1
  <2> HIDE DEF p
  <2> QED
    BY <1>1, <1>3, <2>1, <2>2, <2>3
<1> HIDE DEF p
<1>4. \/ p.type # "PUBLISH" /\ toClient' = toClient
      \/ \E x \in ClientPackets : /\ toClient' = Append(toClient, x)
                                  /\ x.type = "PUBACK" <=> p.type = "PUBLISH"
                                  /\ p.type = "PUBLISH" => x.id = p.id
  BY <1>1 DEF Received
<1>5. p.type # "PUBLISH" => /\ NoneOf(toClient, "PUBACK") => NoneOf(toClient', "PUBACK")
                            /\ (\E k \in 1 .. Len(toClient) :
                                  OnlyOne(toClient, "PUBACK", k) /\ toClient[k].id = next_packetid)
                               => \E k \in 1 .. Len(toClient') :
                                    OnlyOne(toClient', "PUBACK", k) /\ toClient'[k].id = next_packetid'
  <2> SUFFICES ASSUME p.type # "PUBLISH"
               PROVE  /\ NoneOf(toClient, "PUBACK") => NoneOf(toClient', "PUBACK")
                      /\ (\E k \in 1 .. Len(toClient) :
                            OnlyOne(toClient, "PUBACK", k) /\ toClient[k].id = next_packetid)
                         => \E k \in 1 .. Len(toClient') :
                              OnlyOne(toClient', "PUBACK", k) /\ toClient'[k].id = next_packetid'
    OBVIOUS
  <2>1. CASE toClient' = toClient
    BY <1>1, <2>1
  <2>2. ASSUME NEW x \in ClientPackets, toClient' = Append(toClient, x), x.type # "PUBACK"
        PROVE  /\ NoneOf(toClient, "PUBACK") => NoneOf(toClient', "PUBACK")
               /\ (\E k \in 1 .. Len(toClient) :
                     OnlyOne(toClient, "PUBACK", k) /\ toClient[k].id = next_packetid)
                  => \E k \in 1 .. Len(toClient') :
                       OnlyOne(toClient', "PUBACK", k) /\ toClient'[k].id = next_packetid'
    BY <1>1, <2>2, AddedNotAcknowledging
  <2> QED
    BY <1>4, <2>1, <2>2
<1>6. CASE p.type # "PUBLISH"
  <2>1. NonePublished => NonePublished'
    BY <1>2, <1>5 DEF NonePublished, NoneOf
  <2>2. Published => Published'
    <3> SUFFICES ASSUME Published PROVE Published'
      OBVIOUS
    <3>1. \E j \in 1 .. Len(toBroker') : OnlyOne(toBroker', "PUBLISH", j) /\ toBroker'[j].id = next_packetid'
      BY <1>3, <1>6 DEF Published
    <3>2. NoneOf(toClient', "PUBACK")
      BY <1>5, <1>6 DEF Published
    <3> QED
      BY <3>1, <3>2 DEF Published, NoneOf, OnlyOne
  <2>3. Acknowledged => Acknowledged'
    <3> SUFFICES ASSUME Acknowledged PROVE Acknowledged'
      OBVIOUS
    <3>1. NoneOf(toBroker', "PUBLISH")
      BY <1>2 DEF Acknowledged
    <3>2. \E k \in 1 .. Len(toClient') : OnlyOne(toClient', "PUBACK", k) /\ toClient'[k].id = next_packetid'
      BY <1>5, <1>6 DEF Acknowledged
    <3> QED
      BY <3>1, <3>2 DEF Acknowledged, NoneOf, OnlyOne
  <2> QED
    BY <1>1, <2>1, <2>2, <2>3 DEF MatchInv
<1>7. CASE p.type = "PUBLISH"
  <2>1. ~NonePublished /\ ~Acknowledged
    BY <1>2, <1>7 DEF NonePublished, Acknowledged
  <2>2. Published => Acknowledged'
    <3> SUFFICES ASSUME Published PROVE Acknowledged'
      OBVIOUS
    <3>1. NoneOf(toBroker', "PUBLISH") /\ p.id = next_packetid /\ NoneOf(toClient, "PUBACK")
      BY <1>3, <1>7 DEF Published
    <3>2. PICK x \in ClientPackets : toClient' = Append(toClient, x) /\ x.type = "PUBACK" /\ x.id = p.id
      BY <1>4, <1>7
    <3>3. /\ Len(toClient) \in Nat /\ Len(toClient') = Len(toClient) + 1
          /\ \A i \in 1 .. Len(toClient) : toClient'[i] = toClient[i]
          /\ toClient'[Len(toClient) + 1] = x
      BY <1>1, <3>2, QueueAdded
    <3> DEFINE k == Len(toClient) + 1
    <3>4. /\ k \in 1 .. Len(toClient') /\ toClient'[k] = x /\ k \notin 1 .. Len(toClient)
          /\ \A i \in 1 .. Len(toClient') : i = k \/ i \in 1 .. Len(toClient)
      BY <3>3
    <3> HIDE DEF k
    <3>5. OnlyOne(toClient', "PUBACK", k)
      BY <3>1, <3>2, <3>3, <3>4 DEF OnlyOne, NoneOf
    <3>6. toClient'[k].id = next_packetid'
      BY <1>1, <3>1, <3>2, <3>4
    <3> QED
      BY <3>1, <3>4, <3>5, <3>6 DEF Acknowledged, NoneOf, OnlyOne
  <2> QED
    BY <1>1, <2>1, <2>2 DEF MatchInv
<1> QED
  BY <1>6, <1>7

\* Messages and releases are no acknowledgements of a publication.
LEMMA MessageMatches ==
  ASSUME TypeInv, MatchInv, NEW x \in ClientPackets, x.type # "PUBACK", toClient' = Append(toClient, x),
         UNCHANGED <<call, isconnected, next_packetid, toBroker>>
  PROVE  MatchInv'
<1>1. /\ NoneOf(toClient, "PUBACK") => NoneOf(toClient', "PUBACK")
      /\ (\E k \in 1 .. Len(toClient) : OnlyOne(toClient, "PUBACK", k) /\ toClient[k].id = next_packetid)
         => \E k \in 1 .. Len(toClient') :
              OnlyOne(toClient', "PUBACK", k) /\ toClient'[k].id = next_packetid'
  <2>1. toClient \in Seq(ClientPackets)
    BY DEF TypeInv, Queues
  <2> QED
    BY <2>1, AddedNotAcknowledging
<1>2. NonePublished => NonePublished'
  BY <1>1 DEF NonePublished, NoneOf
<1>3. Published => Published'
  BY <1>1 DEF Published, NoneOf, OnlyOne
<1>4. Acknowledged => Acknowledged'
  BY <1>1 DEF Acknowledged, NoneOf, OnlyOne
<1> QED
  BY <1>2, <1>3, <1>4 DEF MatchInv

LEMMA BrokerSendsMatches ==
  ASSUME TypeInv, MatchInv, NEW m \in Messages, BrokerPublish(m) \/ BrokerRetry(m)
  PROVE  MatchInv'
<1>1. m \in Nat /\ QoS[m] \in Nat
  BY MqttAssumption, MessagesAreNumbers
<1>2. /\ Packet("PUBLISH", m, QoS[m]) \in ClientPackets /\ Packet("PUBLISH", m, QoS[m]).type = "PUBLISH"
      /\ Packet("PUBREL", m, 0) \in ClientPackets /\ Packet("PUBREL", m, 0).type = "PUBREL"
  BY <1>1, PacketTyped DEF ClientPackets, Packet, ToClientTypes
<1>3. UNCHANGED <<call, isconnected, next_packetid, toBroker>>
  BY DEF BrokerPublish, BrokerRetry, client, session
<1>4. PICK x \in ClientPackets : toClient' = Append(toClient, x) /\ x.type # "PUBACK"
  BY <1>2 DEF BrokerPublish, BrokerRetry, Tell
<1> QED
  BY <1>3, <1>4, MessageMatches

LEMMA NextMatches ==
  ASSUME TypeInv, ConnectFirst, MatchInv, [Next]_vars
  PROVE  MatchInv'
<1>1. CASE UNCHANGED vars
  <2>1. UNCHANGED <<toBroker, toClient, next_packetid, call, isconnected>>
    BY <1>1 DEF vars, session
  <2> QED
    BY <2>1, SamePublication DEF MatchInv
<1> QED
  BY <1>1, ClientMatches, BrokerReceiveMatches, BrokerSendsMatches DEF Next

LEMMA InitMatches ==
  ASSUME Init
  PROVE  MatchInv
<1>1. toBroker = <<Packet("CONNECT", 0, 0)>> /\ toClient = <<>> /\ call = "connect"
  BY DEF Init
<1>2. NonePublished
  BY <1>1 DEF NonePublished, NoneOf, Packet
<1> QED
  BY <1>1, <1>2 DEF MatchInv

\* While the client waits for the acknowledgement of a publication in an open
\* session, exactly one packet can be it, and it has the number of that
\* publication; otherwise there is none.  So it is enough that waitfor looks at
\* the type of a packet only.
THEOREM AcknowledgementsAlwaysMatch == Spec => []AcknowledgementsMatch
<1>1. Init => AliveInv /\ OpenMeansRegistered /\ TypeInv /\ MatchInv
  BY InitAlive, InitTyped, InitMatches DEF Init, OpenMeansRegistered
<1>2. AliveInv /\ OpenMeansRegistered /\ TypeInv /\ MatchInv /\ [Next]_vars
      => AliveInv' /\ OpenMeansRegistered' /\ TypeInv' /\ MatchInv'
  BY NextAlive, NextRegistered, NextTyped, NextMatches, AliveMeansConnectFirst
<1>3. MatchInv => AcknowledgementsMatch
  BY DEF MatchInv, AcknowledgementsMatch
<1> QED
  BY <1>1, <1>2, <1>3, PTL DEF Spec

-----------------------------------------------------------------------------
(* What is written is read: lengths *)

\* A sequence with one more in front.
LEMMA InFront ==
  ASSUME NEW S, NEW a \in S, NEW s \in Seq(S)
  PROVE  /\ <<a>> \o s \in Seq(S) /\ Len(s) \in Nat /\ Len(<<a>> \o s) = Len(s) + 1
         /\ (<<a>> \o s)[1] = a
         /\ \A i \in 1 .. Len(s) : (<<a>> \o s)[i + 1] = s[i]
<1> DEFINE h == <<a>>
<1>1. h \in Seq(S) /\ Len(h) = 1 /\ h[1] = a
  OBVIOUS
<1> HIDE DEF h
<1>2. /\ h \o s \in Seq(S) /\ Len(s) \in Nat /\ Len(h \o s) = Len(h) + Len(s)
      /\ \A i \in 1 .. Len(h) + Len(s) : (h \o s)[i] = IF i <= Len(h) THEN h[i] ELSE s[i - Len(h)]
  <2>1. h \in Seq(S) /\ s \in Seq(S)
    BY <1>1
  <2> QED
    BY <2>1, ConcatProperties, LenProperties
<1>3. (h \o s)[1] = a
  <2>1. 1 \in 1 .. Len(h) + Len(s) /\ 1 <= Len(h)
    BY <1>1, <1>2
  <2> QED
    BY <1>1, <1>2, <2>1
<1>4. ASSUME NEW i \in 1 .. Len(s) PROVE (h \o s)[i + 1] = s[i]
  <2>1. i + 1 \in 1 .. Len(h) + Len(s) /\ ~(i + 1 <= Len(h)) /\ i + 1 - Len(h) = i
    BY <1>1, <1>2
  <2> QED
    BY <1>2, <2>1
<1>5. Len(h \o s) = Len(s) + 1
  BY <1>1, <1>2
<1> QED
  BY <1>2, <1>3, <1>4, <1>5 DEF h

LEMMA InFrontIs ==
  ASSUME NEW a \in Nat, NEW s \in Seq(Nat), NEW t \in Seq(Nat),
         Len(t) = Len(s) + 1, t[1] = a, \A i \in 1 .. Len(s) : t[i + 1] = s[i]
  PROVE  <<a>> \o s = t
<1> DEFINE u == <<a>> \o s
<1>1. /\ u \in Seq(Nat) /\ Len(s) \in Nat /\ Len(u) = Len(s) + 1 /\ u[1] = a
      /\ \A i \in 1 .. Len(s) : u[i + 1] = s[i]
  BY InFront
<1> HIDE DEF u
<1>2. \A i \in 1 .. Len(u) : i = 1 \/ (i - 1 \in 1 .. Len(s) /\ i - 1 + 1 = i)
  BY <1>1
<1>3. \A i \in 1 .. Len(u) : u[i] = t[i]
  BY <1>1, <1>2
<1>4. u = t
  BY <1>1, <1>3, SeqEqual
<1> QED
  BY <1>4 DEF u

LEMMA Two == ASSUME NEW a \in Nat, NEW b \in Nat PROVE <<a>> \o <<b>> = <<a, b>>
<1> DEFINE s == <<b>>
           t == <<a, b>>
<1>1. s \in Seq(Nat) /\ Len(s) = 1 /\ s[1] = b /\ t \in Seq(Nat) /\ Len(t) = 2 /\ t[1] = a /\ t[2] = b
  OBVIOUS
<1> HIDE DEF s, t
<1>2. \A i \in 1 .. Len(s) : i = 1
  BY <1>1
<1>3. \A i \in 1 .. Len(s) : t[i + 1] = s[i]
  BY <1>1, <1>2
<1>4. s \in Seq(Nat) /\ t \in Seq(Nat) /\ Len(t) = Len(s) + 1 /\ t[1] = a
  BY <1>1
<1>5. <<a>> \o s = t
  BY <1>3, <1>4, InFrontIs
<1> QED
  BY <1>5 DEF s, t

LEMMA Three ==
  ASSUME NEW a \in Nat, NEW b \in Nat, NEW c \in Nat PROVE <<a>> \o <<b, c>> = <<a, b, c>>
<1> DEFINE s == <<b, c>>
           t == <<a, b, c>>
<1>1. /\ s \in Seq(Nat) /\ Len(s) = 2 /\ s[1] = b /\ s[2] = c
      /\ t \in Seq(Nat) /\ Len(t) = 3 /\ t[1] = a /\ t[2] = b /\ t[3] = c
  OBVIOUS
<1> HIDE DEF s, t
<1>2. \A i \in 1 .. Len(s) : i = 1 \/ i = 2
  BY <1>1
<1>3. \A i \in 1 .. Len(s) : t[i + 1] = s[i]
  BY <1>1, <1>2
<1>4. s \in Seq(Nat) /\ t \in Seq(Nat) /\ Len(t) = Len(s) + 1 /\ t[1] = a
  BY <1>1
<1>5. <<a>> \o s = t
  BY <1>3, <1>4, InFrontIs
<1> QED
  BY <1>5 DEF s, t

LEMMA Four ==
  ASSUME NEW a \in Nat, NEW b \in Nat, NEW c \in Nat, NEW d \in Nat PROVE <<a>> \o <<b, c, d>> = <<a, b, c, d>>
<1> DEFINE s == <<b, c, d>>
           t == <<a, b, c, d>>
<1>1. /\ s \in Seq(Nat) /\ Len(s) = 3 /\ s[1] = b /\ s[2] = c /\ s[3] = d
      /\ t \in Seq(Nat) /\ Len(t) = 4 /\ t[1] = a /\ t[2] = b /\ t[3] = c /\ t[4] = d
  OBVIOUS
<1> HIDE DEF s, t
<1>2. \A i \in 1 .. Len(s) : i = 1 \/ i = 2 \/ i = 3
  BY <1>1
<1>3. \A i \in 1 .. Len(s) : t[i + 1] = s[i]
  BY <1>1, <1>2
<1>4. s \in Seq(Nat) /\ t \in Seq(Nat) /\ Len(t) = Len(s) + 1 /\ t[1] = a
  BY <1>1
<1>5. <<a>> \o s = t
  BY <1>3, <1>4, InFrontIs
<1> QED
  BY <1>5 DEF s, t

\* What is left of a length after each byte.
Rest1(n) == n \div 128
Rest2(n) == Rest1(n) \div 128
Rest3(n) == Rest2(n) \div 128
Low(n) == n % 128

LEMMA MaxLengthNat == MaxLength \in Nat
BY SMT DEF MaxLength

LEMMA MaxLengthIs == MaxLength <= 268435455 /\ MaxLength >= 268435455
BY SMT DEF MaxLength

LEMMA Remainders ==
  ASSUME NEW n \in 0 .. MaxLength
  PROVE  /\ n \in Nat /\ Low(n) \in 0 .. 127 /\ n = 128 * Rest1(n) + Low(n)
         /\ Rest1(n) \in 0 .. MaxLength /\ Rest2(n) \in 0 .. MaxLength /\ Rest3(n) \in 0 .. 127
         /\ (n < 128 <=> Rest1(n) = 0)
<1> DEFINE q == n \div 128
           l == n % 128
<1>a. n \in Nat /\ n <= 268435455
  BY SMT, MaxLengthIs, MaxLengthNat
<1>b. l \in 0 .. 127 /\ n = 128 * q + l /\ q \in Nat
  BY <1>a, SMT
<1>c. q <= 2097151 /\ (n < 128 <=> q = 0)
  <2> HIDE DEF q, l
  <2> QED
    BY <1>a, <1>b, SMT
<1>1. n \in Nat /\ Low(n) \in 0 .. 127 /\ n = 128 * Rest1(n) + Low(n) /\ (n < 128 <=> Rest1(n) = 0)
      /\ Rest1(n) \in Nat /\ Rest1(n) <= 2097151
  BY <1>a, <1>b, <1>c, SMT DEF Rest1, Low
<1>2. Rest2(n) \in Nat /\ Rest2(n) <= 16383
  BY <1>1, SMT DEF Rest2
<1>3. Rest3(n) \in Nat /\ Rest3(n) <= 127
  BY <1>2, SMT DEF Rest3
<1>4. Rest1(n) \in 0 .. MaxLength /\ Rest2(n) \in 0 .. MaxLength
  BY <1>1, <1>2, MaxLengthIs, MaxLengthNat, SMT
<1>5. Rest3(n) \in 0 .. 127
  BY <1>3, SMT
<1> QED
  BY <1>1, <1>4, <1>5

\* The bytes of a length.
Digits(n) ==
  IF Rest1(n) = 0 THEN <<n>>
  ELSE IF Rest2(n) = 0 THEN <<128 + Low(n), Rest1(n)>>
  ELSE IF Rest3(n) = 0 THEN <<128 + Low(n), 128 + Low(Rest1(n)), Rest2(n)>>
  ELSE <<128 + Low(n), 128 + Low(Rest1(n)), 128 + Low(Rest2(n)), Rest3(n)>>

LEMMA DigitsFirst ==
  ASSUME NEW n \in 0 .. MaxLength
  PROVE  Digits(n) = IF Rest1(n) = 0 THEN <<n>> ELSE <<128 + Low(n)>> \o Digits(Rest1(n))
<1>1. /\ Rest1(Rest1(n)) = Rest2(n) /\ Rest2(Rest1(n)) = Rest3(n)
      /\ Rest3(Rest1(n)) = Rest1(Rest3(n))
  BY DEF Rest1, Rest2, Rest3
<1>2. Rest1(Rest3(n)) = 0
  <2>1. Rest3(n) \in 0 .. 127
    BY Remainders
  <2> QED
    BY <2>1, SMT DEF Rest1
<1> DEFINE a == 128 + Low(n)
           b == 128 + Low(Rest1(n))
           c == 128 + Low(Rest2(n))
<1>3. a \in Nat
  <2>1. Low(n) \in 0 .. 127
    BY Remainders
  <2> QED
    BY <2>1
<1>4. b \in Nat /\ Rest1(n) \in Nat
  <2>1. Rest1(n) \in 0 .. MaxLength
    BY Remainders
  <2>2. Low(Rest1(n)) \in 0 .. 127
    BY <2>1, Remainders
  <2> QED
    BY <2>1, <2>2, MaxLengthNat
<1>5. c \in Nat /\ Rest2(n) \in Nat /\ Rest3(n) \in Nat
  <2>1. Rest2(n) \in 0 .. MaxLength /\ Rest3(n) \in 0 .. 127
    BY Remainders
  <2>2. Low(Rest2(n)) \in 0 .. 127
    BY <2>1, Remainders
  <2> QED
    BY <2>1, <2>2, MaxLengthNat
<1>6. Digits(n) = IF Rest1(n) = 0 THEN <<n>>
                  ELSE IF Rest2(n) = 0 THEN <<a, Rest1(n)>>
                  ELSE IF Rest3(n) = 0 THEN <<a, b, Rest2(n)>>
                  ELSE <<a, b, c, Rest3(n)>>
  BY DEF Digits
<1>7. Digits(Rest1(n)) = IF Rest2(n) = 0 THEN <<Rest1(n)>>
                         ELSE IF Rest3(n) = 0 THEN <<b, Rest2(n)>>
                         ELSE <<b, c, Rest3(n)>>
  BY <1>1, <1>2 DEF Digits
<1> HIDE DEF a, b, c
<1>8. /\ <<a>> \o <<Rest1(n)>> = <<a, Rest1(n)>>
      /\ <<a>> \o <<b, Rest2(n)>> = <<a, b, Rest2(n)>>
      /\ <<a>> \o <<b, c, Rest3(n)>> = <<a, b, c, Rest3(n)>>
  BY <1>3, <1>4, <1>5, Two, Three, Four
<1>9. Digits(n) = IF Rest1(n) = 0 THEN <<n>> ELSE <<a>> \o Digits(Rest1(n))
  BY <1>6, <1>7, <1>8, Zenon
<1> QED
  BY <1>9 DEF a

\* The recursive function is well defined: Digits is a solution, and the only one.
LEMMA EncodeIsDigits == \A n \in 0 .. MaxLength : Encode[n] = Digits(n)
<1> DEFINE D == 0 .. MaxLength
           Step(f) == [n \in D |-> IF n < 128 THEN <<n>> ELSE <<128 + (n % 128)>> \o f[n \div 128]]
           g == [n \in D |-> Digits(n)]
<1>1. \A n \in D : /\ n \div 128 = Rest1(n) /\ n % 128 = Low(n) /\ Rest1(n) \in D
                   /\ n < 128 <=> Rest1(n) = 0
  BY Remainders DEF Rest1, Low
<1>2. \A n \in D : Digits(n) = IF Rest1(n) = 0 THEN <<n>> ELSE <<128 + Low(n)>> \o Digits(Rest1(n))
  BY DigitsFirst
<1> HIDE DEF D
<1>3. g = Step(g)
  <2> SUFFICES ASSUME NEW n \in D
               PROVE  Digits(n) = IF n < 128 THEN <<n>> ELSE <<128 + (n % 128)>> \o g[n \div 128]
    BY Zenon
  <2>1. g[n \div 128] = Digits(Rest1(n))
    BY <1>1, Zenon
  <2> QED
    BY <1>1, <1>2, <2>1, ZenonT(60)
<1>4. Encode = CHOOSE f : f = Step(f)
  BY DEF Encode, D
<1>5. Encode = Step(Encode)
  <2> HIDE DEF Step
  <2> QED
    BY <1>3, <1>4
<1>6. \A n \in D : Encode[n] = IF n < 128 THEN <<n>> ELSE <<128 + (n % 128)>> \o Encode[n \div 128]
  BY <1>5, Zenon
<1>7. \A n \in D : Encode[n] = IF Rest1(n) = 0 THEN <<n>> ELSE <<128 + Low(n)>> \o Encode[Rest1(n)]
  BY <1>1, <1>6, ZenonT(60)
<1>8. \A n \in D : Rest1(n) = 0 => Encode[n] = Digits(n)
  BY <1>2, <1>7, Zenon
<1>9. \A n \in D : Rest2(n) = 0 => Encode[n] = Digits(n)
  <2> SUFFICES ASSUME NEW n \in D, Rest2(n) = 0 PROVE Encode[n] = Digits(n)
    BY Zenon
  <2>1. Rest1(n) \in D /\ Rest1(Rest1(n)) = 0
    BY <1>1, Zenon DEF Rest2
  <2>2. Encode[Rest1(n)] = Digits(Rest1(n))
    BY <1>8, <2>1, Zenon
  <2> QED
    BY <1>2, <1>7, <2>2, Zenon
<1>10. \A n \in D : Rest3(n) = 0 => Encode[n] = Digits(n)
  <2>1. \A n \in D : Rest2(Rest1(n)) = Rest3(n)
    BY DEF Rest1, Rest2, Rest3
  <2> SUFFICES ASSUME NEW n \in D, Rest3(n) = 0 PROVE Encode[n] = Digits(n)
    BY Zenon
  <2>2. Rest1(n) \in D /\ Rest2(Rest1(n)) = 0
    BY <1>1, <2>1, Zenon
  <2>3. Encode[Rest1(n)] = Digits(Rest1(n))
    BY <1>9, <2>2, Zenon
  <2> QED
    BY <1>2, <1>7, <2>3, Zenon
<1>11. \A n \in D : Rest3(Rest1(n)) = 0
  <2> SUFFICES ASSUME NEW n \in D PROVE Rest3(Rest1(n)) = 0
    OBVIOUS
  <2>1. Rest3(Rest1(n)) = Rest3(n) \div 128
    BY DEF Rest1, Rest2, Rest3
  <2>2. Rest3(n) \in 0 .. 127
    BY Remainders DEF D
  <2> QED
    BY <2>1, <2>2, SMT
<1>12. \A n \in D : Encode[n] = Digits(n)
  <2> SUFFICES ASSUME NEW n \in D PROVE Encode[n] = Digits(n)
    BY Zenon
  <2>1. Rest1(n) \in D /\ Rest3(Rest1(n)) = 0
    BY <1>1, <1>11, Zenon
  <2>2. Encode[Rest1(n)] = Digits(Rest1(n))
    BY <1>10, <2>1, Zenon
  <2> QED
    BY <1>2, <1>7, <2>2, Zenon
<1> QED
  BY <1>12 DEF D

\* Seven bits.
Septets == 0 .. 127

\* A length in bytes: all but the last have the highest bit set, and the lower
\* bits add up.
LEMMA DigitsAddUp ==
  ASSUME NEW n \in 0 .. MaxLength
  PROVE  \E a \in Septets, b \in Septets, c \in Septets, d \in Septets :
           \/ Digits(n) = <<a>> /\ n = a
           \/ Digits(n) = <<128 + a, b>> /\ n = a + 128 * b
           \/ Digits(n) = <<128 + a, 128 + b, c>> /\ n = a + 128 * (b + 128 * c)
           \/ Digits(n) = <<128 + a, 128 + b, 128 + c, d>> /\ n = a + 128 * (b + 128 * (c + 128 * d))
<1> DEFINE a == Low(n)
           b == Low(Rest1(n))
           c == Low(Rest2(n))
           d == Rest3(n)
<1>1. /\ n \in Nat /\ a \in 0 .. 127 /\ n = 128 * Rest1(n) + a /\ Rest1(n) \in 0 .. MaxLength
      /\ Rest2(n) \in 0 .. MaxLength /\ d \in 0 .. 127
      /\ n < 128 <=> Rest1(n) = 0
  BY Remainders
<1>2. /\ b \in 0 .. 127 /\ Rest1(n) = 128 * Rest2(n) + b /\ (Rest1(n) < 128 <=> Rest2(n) = 0)
  <2>1. /\ Low(Rest1(n)) \in 0 .. 127 /\ Rest1(n) = 128 * Rest1(Rest1(n)) + Low(Rest1(n))
        /\ Rest1(n) < 128 <=> Rest1(Rest1(n)) = 0
    BY <1>1, Remainders
  <2> QED
    BY <2>1 DEF Rest2, Rest1
<1>3. /\ c \in 0 .. 127 /\ Rest2(n) = 128 * Rest3(n) + c /\ (Rest2(n) < 128 <=> Rest3(n) = 0)
  <2>1. /\ Low(Rest2(n)) \in 0 .. 127 /\ Rest2(n) = 128 * Rest1(Rest2(n)) + Low(Rest2(n))
        /\ Rest2(n) < 128 <=> Rest1(Rest2(n)) = 0
    BY <1>1, Remainders
  <2> QED
    BY <2>1 DEF Rest2, Rest3, Rest1
<1>4. Digits(n) = IF Rest1(n) = 0 THEN <<n>>
                  ELSE IF Rest2(n) = 0 THEN <<128 + a, Rest1(n)>>
                  ELSE IF Rest3(n) = 0 THEN <<128 + a, 128 + b, Rest2(n)>>
                  ELSE <<128 + a, 128 + b, 128 + c, d>>
  BY DEF Digits
<1>5. Rest1(n) \in Nat /\ Rest2(n) \in Nat
  BY <1>1, MaxLengthNat
<1>10. a \in Septets /\ b \in Septets /\ c \in Septets /\ d \in Septets
  BY <1>1, <1>2, <1>3 DEF Septets
<1> HIDE DEF a, b, c, d
<1>6. CASE Rest1(n) = 0
  <2>1. Digits(n) = <<a>> /\ n = a
    BY <1>1, <1>4, <1>6
  <2> QED
    BY <1>10, <2>1, Zenon
<1>7. CASE Rest1(n) # 0 /\ Rest2(n) = 0
  <2>1. Rest1(n) \in Septets
    BY <1>2, <1>5, <1>7 DEF Septets
  <2>2. Digits(n) = <<128 + a, Rest1(n)>> /\ n = a + 128 * Rest1(n)
    BY <1>1, <1>4, <1>5, <1>7
  <2> QED
    BY <1>10, <2>1, <2>2, ZenonT(60)
<1>8. CASE Rest1(n) # 0 /\ Rest2(n) # 0 /\ Rest3(n) = 0
  <2>1. Rest2(n) \in Septets
    BY <1>3, <1>5, <1>8 DEF Septets
  <2>2. Digits(n) = <<128 + a, 128 + b, Rest2(n)>>
    BY <1>4, <1>8, Zenon
  <2>3. n = a + 128 * (b + 128 * Rest2(n))
    BY <1>1, <1>2, <1>5, SMT
  <2> USE <1>10, <2>1
  <2> WITNESS a \in Septets, b \in Septets, Rest2(n) \in Septets, d \in Septets
  <2> QED
    BY <2>2, <2>3
<1>9. CASE Rest1(n) # 0 /\ Rest2(n) # 0 /\ Rest3(n) # 0
  <2>1. Digits(n) = <<128 + a, 128 + b, 128 + c, d>>
    BY <1>4, <1>9, Zenon
  <2>2. n = a + 128 * (b + 128 * (c + 128 * d))
    BY <1>1, <1>2, <1>3, <1>5, SMT DEF d
  <2> USE <1>10
  <2> WITNESS a \in Septets, b \in Septets, c \in Septets, d \in Septets
  <2> QED
    BY <2>1, <2>2
<1> QED
  BY <1>6, <1>7, <1>8, <1>9

LEMMA SeptetFacts ==
  ASSUME NEW a \in Septets
  PROVE  a \in Nat /\ a < 128 /\ 128 + a \in Nat /\ 128 + a >= 128 /\ a % 128 = a /\ (128 + a) % 128 = a
<1>1. a \in Nat /\ a < 128
  BY DEF Septets
<1> QED
  BY <1>1, SMT

LEMMA Multipliers ==
  /\ Multiplier[1] = 1 /\ Multiplier[2] = 128
  /\ Multiplier[3] = 128 * 128 /\ Multiplier[4] = 128 * 128 * 128
BY SMT DEF Multiplier

\* What the k-th byte of a length counts.
Share(e, k) == IF k <= Len(e) THEN (e[k] % 128) * Multiplier[k] ELSE 0

\* The encoded length as its reader sees it.
EncodedAs(e, n) ==
  /\ e \in Seq(Nat) /\ Len(e) \in 1 .. 4 /\ n \in Nat
  /\ e[Len(e)] < 128 /\ \A j \in 1 .. Len(e) : j < Len(e) => e[j] >= 128
  /\ n = Share(e, 1) + Share(e, 2) + Share(e, 3) + Share(e, 4)

\* The weights of the bytes of a length.
LEMMA Weights ==
  ASSUME NEW a \in Nat, NEW b \in Nat, NEW c \in Nat, NEW d \in Nat
  PROVE  /\ a + 128 * b = a + b * 128 + 0 + 0
         /\ a + 128 * (b + 128 * (c + 128 * d)) = a + b * 128 + c * (128 * 128) + d * (128 * 128 * 128)
BY SMT

LEMMA EncodeEncodes ==
  ASSUME NEW n \in 0 .. MaxLength
  PROVE  EncodedAs(Encode[n], n)
<1>1. Encode[n] = Digits(n) /\ n \in Nat
  BY EncodeIsDigits, MaxLengthNat
<1>2. PICK a \in Septets, b \in Septets, c \in Septets, d \in Septets :
        \/ Digits(n) = <<a>> /\ n = a
        \/ Digits(n) = <<128 + a, b>> /\ n = a + 128 * b
        \/ Digits(n) = <<128 + a, 128 + b, c>> /\ n = a + 128 * (b + 128 * c)
        \/ Digits(n) = <<128 + a, 128 + b, 128 + c, d>> /\ n = a + 128 * (b + 128 * (c + 128 * d))
  BY DigitsAddUp
<1>3. /\ a \in Nat /\ a < 128 /\ 128 + a \in Nat /\ 128 + a >= 128 /\ a % 128 = a /\ (128 + a) % 128 = a
      /\ b \in Nat /\ b < 128 /\ 128 + b \in Nat /\ 128 + b >= 128 /\ b % 128 = b /\ (128 + b) % 128 = b
      /\ c \in Nat /\ c < 128 /\ 128 + c \in Nat /\ 128 + c >= 128 /\ c % 128 = c /\ (128 + c) % 128 = c
      /\ d \in Nat /\ d < 128 /\ d % 128 = d
  BY SeptetFacts
<1> DEFINE e == Encode[n]
<1>4. CASE Digits(n) = <<a>> /\ n = a
  <2>1. e = <<a>>
    BY <1>1, <1>4
  <2>2. e \in Seq(Nat) /\ Len(e) = 1 /\ e[1] = a
    <3> HIDE DEF e
    <3> QED
      BY <1>3, <2>1
  <2> HIDE DEF e
  <2>3. Share(e, 1) = a /\ Share(e, 2) = 0 /\ Share(e, 3) = 0 /\ Share(e, 4) = 0
    BY <1>3, <2>2, Multipliers DEF Share
  <2>4. n = Share(e, 1) + Share(e, 2) + Share(e, 3) + Share(e, 4)
    BY <1>3, <1>4, <2>3, SMT
  <2>5. \A j \in 1 .. Len(e) : j < Len(e) => e[j] >= 128
    BY <1>3, <2>2
  <2>6. Len(e) \in 1 .. 4 /\ e[Len(e)] < 128
    BY <1>3, <2>2
  <2>7. EncodedAs(e, n)
    BY <1>1, <2>2, <2>4, <2>5, <2>6 DEF EncodedAs
  <2> QED
    BY <2>7 DEF e
<1>5. CASE Digits(n) = <<128 + a, b>> /\ n = a + 128 * b
  <2>1. e = <<128 + a, b>>
    BY <1>1, <1>5
  <2>2. e \in Seq(Nat) /\ Len(e) = 2 /\ e[1] = 128 + a /\ e[2] = b
    <3> HIDE DEF e
    <3> QED
      BY <1>3, <2>1
  <2> HIDE DEF e
  <2>3. Share(e, 1) = a /\ Share(e, 2) = b * 128 /\ Share(e, 3) = 0 /\ Share(e, 4) = 0
    BY <1>3, <2>2, Multipliers DEF Share
  <2>4. n = Share(e, 1) + Share(e, 2) + Share(e, 3) + Share(e, 4)
    <3>1. n = a + b * 128 + 0 + 0
      BY <1>3, <1>5, Weights
    <3> QED
      BY <2>3, <3>1
  <2>5. \A j \in 1 .. Len(e) : j < Len(e) => e[j] >= 128
    BY <1>3, <2>2
  <2>6. Len(e) \in 1 .. 4 /\ e[Len(e)] < 128
    BY <1>3, <2>2
  <2>7. EncodedAs(e, n)
    BY <1>1, <2>2, <2>4, <2>5, <2>6 DEF EncodedAs
  <2> QED
    BY <2>7 DEF e
<1>6. CASE Digits(n) = <<128 + a, 128 + b, c>> /\ n = a + 128 * (b + 128 * c)
  <2>1. e = <<128 + a, 128 + b, c>>
    BY <1>1, <1>6
  <2>2. e \in Seq(Nat) /\ Len(e) = 3 /\ e[1] = 128 + a /\ e[2] = 128 + b /\ e[3] = c
    <3> HIDE DEF e
    <3> QED
      BY <1>3, <2>1
  <2> HIDE DEF e
  <2>3. Share(e, 1) = a /\ Share(e, 2) = b * 128 /\ Share(e, 3) = c * (128 * 128) /\ Share(e, 4) = 0
    BY <1>3, <2>2, Multipliers DEF Share
  <2>4. n = Share(e, 1) + Share(e, 2) + Share(e, 3) + Share(e, 4)
    BY <1>3, <1>6, <2>3, SMT
  <2>5. \A j \in 1 .. Len(e) : j < Len(e) => e[j] >= 128
    BY <1>3, <2>2
  <2>6. Len(e) \in 1 .. 4 /\ e[Len(e)] < 128
    BY <1>3, <2>2
  <2>7. EncodedAs(e, n)
    BY <1>1, <2>2, <2>4, <2>5, <2>6 DEF EncodedAs
  <2> QED
    BY <2>7 DEF e
<1>7. CASE Digits(n) = <<128 + a, 128 + b, 128 + c, d>> /\ n = a + 128 * (b + 128 * (c + 128 * d))
  <2>1. e = <<128 + a, 128 + b, 128 + c, d>>
    BY <1>1, <1>7
  <2>2. e \in Seq(Nat) /\ Len(e) = 4 /\ e[1] = 128 + a /\ e[2] = 128 + b /\ e[3] = 128 + c /\ e[4] = d
    <3> HIDE DEF e
    <3> QED
      BY <1>3, <2>1
  <2> HIDE DEF e
  <2>3. Share(e, 1) = a /\ Share(e, 2) = b * 128 /\ Share(e, 3) = c * (128 * 128) /\ Share(e, 4) = d * (128 * 128 * 128)
    BY <1>3, <2>2, Multipliers DEF Share
  <2>4. n = Share(e, 1) + Share(e, 2) + Share(e, 3) + Share(e, 4)
    <3>1. n = a + b * 128 + c * (128 * 128) + d * (128 * 128 * 128)
      BY <1>3, <1>7, Weights
    <3> QED
      BY <2>3, <3>1
  <2>5. \A j \in 1 .. Len(e) : j < Len(e) => e[j] >= 128
    BY <1>3, <2>2
  <2>6. Len(e) \in 1 .. 4 /\ e[Len(e)] < 128
    BY <1>3, <2>2
  <2>7. EncodedAs(e, n)
    BY <1>1, <2>2, <2>4, <2>5, <2>6 DEF EncodedAs
  <2> QED
    BY <2>7 DEF e
<1> QED
  BY <1>2, <1>4, <1>5, <1>6, <1>7

\* The place of each part of a packet.
Parts(buf, h, e, rest, S) ==
  /\ buf \in Seq(S) /\ Len(e) \in Nat /\ Len(rest) \in Nat /\ Len(buf) = 1 + Len(e) + Len(rest)
  /\ buf[1] = h
  /\ \A i \in 1 .. Len(e) : buf[i + 1] = e[i]
  /\ \A i \in 1 .. Len(rest) : buf[1 + Len(e) + i] = rest[i]

LEMMA FrameParts ==
  ASSUME NEW S, Nat \subseteq S, NEW h \in Nat, NEW e \in Seq(Nat), NEW rest \in Seq(S)
  PROVE  Parts(<<h>> \o e \o rest, h, e, rest, S)
<1> DEFINE s == <<h>> \o e
<1>1. /\ s \in Seq(Nat) /\ Len(e) \in Nat /\ Len(s) = Len(e) + 1 /\ s[1] = h
      /\ \A i \in 1 .. Len(e) : s[i + 1] = e[i]
  BY InFront
<1> DEFINE buf == s \o rest
<1>2. buf = s \o rest
  OBVIOUS
<1> HIDE DEF s
<1>3. s \in Seq(S)
  BY <1>1
<1>4. /\ s \o rest \in Seq(S) /\ Len(rest) \in Nat /\ Len(s \o rest) = Len(s) + Len(rest)
      /\ \A i \in 1 .. Len(s) + Len(rest) :
           (s \o rest)[i] = IF i <= Len(s) THEN s[i] ELSE rest[i - Len(s)]
  BY <1>3, ConcatProperties, LenProperties
<1>5. \A i \in 1 .. Len(s) : i \in 1 .. Len(s) + Len(rest) /\ i <= Len(s)
  BY <1>1, <1>4
<1>6. \A i \in 1 .. Len(s) : buf[i] = s[i]
  BY <1>2, <1>4, <1>5
<1>7. \A i \in 1 .. Len(e) : i + 1 \in 1 .. Len(s)
  BY <1>1
<1>8. 1 \in 1 .. Len(s)
  BY <1>1
<1>9. ASSUME NEW i \in 1 .. Len(rest) PROVE buf[1 + Len(e) + i] = rest[i]
  <2>1. /\ 1 + Len(e) + i \in 1 .. Len(s) + Len(rest) /\ ~(1 + Len(e) + i <= Len(s))
        /\ 1 + Len(e) + i - Len(s) = i
    BY <1>1, <1>4
  <2> DEFINE j == 1 + Len(e) + i
  <2> HIDE DEF j
  <2>2. j \in 1 .. Len(s) + Len(rest) /\ ~(j <= Len(s)) /\ j - Len(s) = i
    BY <2>1 DEF j
  <2>3. (s \o rest)[j] = rest[i]
    BY <1>4, <2>2
  <2> QED
    BY <2>3 DEF j
<1>10. Len(buf) = 1 + Len(e) + Len(rest)
  BY <1>1, <1>2, <1>4
<1>11. buf \in Seq(S) /\ Len(rest) \in Nat
  BY <1>4
<1> HIDE DEF buf
<1>12. Parts(buf, h, e, rest, S)
  BY <1>1, <1>6, <1>7, <1>8, <1>9, <1>10, <1>11 DEF Parts
<1> QED
  BY <1>12 DEF buf, s

\* The length is read as it was written.
LEMMA DecodeReads ==
  ASSUME NEW e, NEW n, EncodedAs(e, n), NEW buf, \A i \in 1 .. Len(e) : buf[i + 1] = e[i]
  PROVE  Decode(buf) = [length |-> n, start |-> Len(e) + 2]
<1> DEFINE IsLast(k) == buf[k + 1] < 128 /\ \A j \in 1 .. k - 1 : buf[j + 1] >= 128
           digits == CHOOSE k \in 1 .. 4 : IsLast(k)
           Value(k) == IF k <= digits THEN (buf[k + 1] % 128) * Multiplier[k] ELSE 0
<1>1. Len(e) \in 1 .. 4 /\ Len(e) \in Nat /\ e[Len(e)] < 128 /\ \A j \in 1 .. Len(e) : e[j] \in Nat
  BY DEF EncodedAs
<1>2. \A j \in 1 .. Len(e) - 1 : j \in 1 .. Len(e) /\ j < Len(e)
  BY <1>1
<1>3. IsLast(Len(e))
  <2>1. Len(e) \in 1 .. Len(e)
    BY <1>1
  <2> QED
    BY <1>1, <1>2, <2>1 DEF EncodedAs
<1>4. ASSUME NEW k \in 1 .. 4, IsLast(k) PROVE k = Len(e)
  <2>1. CASE k < Len(e)
    <3>1. k \in 1 .. Len(e) - 1 /\ e[k] \in Nat
      BY <1>1, <2>1
    <3>2. buf[k + 1] >= 128 /\ buf[k + 1] = e[k]
      BY <1>3, <3>1, <1>2
    <3> QED
      BY <1>4, <3>1, <3>2
  <2>2. CASE k > Len(e)
    <3>1. Len(e) \in 1 .. k - 1 /\ Len(e) \in 1 .. Len(e)
      BY <1>1, <2>2
    <3>2. buf[Len(e) + 1] >= 128 /\ buf[Len(e) + 1] < 128 /\ buf[Len(e) + 1] = e[Len(e)]
      BY <1>3, <1>4, <3>1
    <3> QED
      BY <1>1, <3>1, <3>2
  <2> QED
    BY <1>1, <2>1, <2>2
<1>5. digits = Len(e)
  <2> HIDE DEF IsLast
  <2> QED
    BY <1>1, <1>3, <1>4, Zenon
<1> HIDE DEF IsLast, digits
<1>6. \A k \in 1 .. 4 : Value(k) = Share(e, k)
  <2> SUFFICES ASSUME NEW k \in 1 .. 4 PROVE Value(k) = Share(e, k)
    OBVIOUS
  <2>1. CASE k <= Len(e)
    <3>1. buf[k + 1] = e[k]
      BY <1>1, <2>1
    <3> QED
      BY <1>5, <3>1 DEF Share
  <2>2. CASE ~(k <= Len(e))
    BY <1>5, <2>2 DEF Share
  <2> QED
    BY <2>1, <2>2
<1>7. 1 \in 1 .. 4 /\ 2 \in 1 .. 4 /\ 3 \in 1 .. 4 /\ 4 \in 1 .. 4
  OBVIOUS
<1>8. Value(1) + Value(2) + Value(3) + Value(4) = n
  <2> HIDE DEF Value
  <2> QED
    BY <1>6, <1>7 DEF EncodedAs
<1>9. Decode(buf) = [length |-> Value(1) + Value(2) + Value(3) + Value(4), start |-> digits + 2]
  BY DEF Decode, digits, IsLast
<1> QED
  BY <1>5, <1>8, <1>9

\* How many bytes a length takes.
LEMMA EncodeLength ==
  ASSUME NEW n \in 0 .. MaxLength
  PROVE  /\ Len(Encode[n]) \in Nat /\ PacketLen(n) \in Nat /\ n \in Nat
         /\ 1 + Len(Encode[n]) + n <= PacketLen(n)
<1>1. /\ n \in Nat /\ Low(n) \in 0 .. 127 /\ n = 128 * Rest1(n) + Low(n) /\ Rest1(n) \in 0 .. MaxLength
      /\ Rest2(n) \in 0 .. MaxLength /\ Rest3(n) \in 0 .. 127
      /\ n < 128 <=> Rest1(n) = 0
  BY Remainders
<1>2. /\ Low(Rest1(n)) \in 0 .. 127 /\ Rest1(n) = 128 * Rest2(n) + Low(Rest1(n))
  <2>1. Low(Rest1(n)) \in 0 .. 127 /\ Rest1(n) = 128 * Rest1(Rest1(n)) + Low(Rest1(n))
    BY <1>1, Remainders
  <2> QED
    BY <2>1 DEF Rest2, Rest1
<1>3. Low(Rest2(n)) \in 0 .. 127 /\ Rest2(n) = 128 * Rest3(n) + Low(Rest2(n))
  <2>1. Low(Rest2(n)) \in 0 .. 127 /\ Rest2(n) = 128 * Rest1(Rest2(n)) + Low(Rest2(n))
    BY <1>1, Remainders
  <2> QED
    BY <2>1 DEF Rest2, Rest3, Rest1
<1>4. Rest1(n) \in Nat /\ Rest2(n) \in Nat /\ Rest3(n) \in Nat
  BY <1>1, MaxLengthNat
<1>5. /\ Rest1(n) # 0 => n >= 128
      /\ Rest2(n) # 0 => Rest1(n) >= 128
      /\ Rest3(n) # 0 => Rest2(n) >= 128
  BY <1>1, <1>2, <1>3, <1>4
<1>6. /\ Rest2(n) # 0 => n >= 16384
      /\ Rest3(n) # 0 => n >= 2097152
  BY <1>1, <1>2, <1>3, <1>4, <1>5, SMT
<1>7. \/ Rest1(n) = 0 /\ Len(Digits(n)) = 1
      \/ Rest1(n) # 0 /\ Rest2(n) = 0 /\ Len(Digits(n)) = 2
      \/ Rest2(n) # 0 /\ Rest3(n) = 0 /\ Len(Digits(n)) = 3
      \/ Rest3(n) # 0 /\ Len(Digits(n)) = 4
  <2>1. CASE Rest1(n) = 0
    BY <2>1 DEF Digits
  <2>2. CASE Rest1(n) # 0 /\ Rest2(n) = 0
    BY <2>2 DEF Digits
  <2>3. CASE Rest1(n) # 0 /\ Rest2(n) # 0 /\ Rest3(n) = 0
    BY <2>3 DEF Digits
  <2>4. CASE Rest1(n) # 0 /\ Rest2(n) # 0 /\ Rest3(n) # 0
    BY <2>4 DEF Digits
  <2> QED
    BY <2>1, <2>2, <2>3, <2>4
<1>8. Encode[n] = Digits(n)
  BY EncodeIsDigits
<1> HIDE DEF Digits
<1>9. PacketLen(n) \in Nat
  BY <1>1, SMT DEF PacketLen
<1>10. /\ PacketLen(n) >= n + 2
       /\ n >= 128 => PacketLen(n) >= n + 3
       /\ n >= 16384 => PacketLen(n) >= n + 4
       /\ n >= 2097152 => PacketLen(n) >= n + 5
  BY <1>1, SMT DEF PacketLen
<1>11. /\ PacketLen(n) >= n + 2
       /\ Rest1(n) # 0 => PacketLen(n) >= n + 3
       /\ Rest2(n) # 0 => PacketLen(n) >= n + 4
       /\ Rest3(n) # 0 => PacketLen(n) >= n + 5
  BY <1>5, <1>6, <1>10, SMT
<1>12. Len(Digits(n)) \in Nat /\ 1 + Len(Digits(n)) + n <= PacketLen(n)
  <2> DEFINE k == Len(Digits(n))
             l == PacketLen(n)
  <2>1. k = 1 \/ (k = 2 /\ l >= n + 3) \/ (k = 3 /\ l >= n + 4) \/ (k = 4 /\ l >= n + 5)
    BY <1>7, <1>11
  <2>2. n \in Nat /\ l \in Nat /\ l >= n + 2
    BY <1>1, <1>9, <1>11
  <2> HIDE DEF k, l
  <2>3. k \in Nat /\ 1 + k + n <= l
    BY <2>1, <2>2
  <2> QED
    BY <2>3 DEF k, l
<1> QED
  BY <1>1, <1>8, <1>9, <1>12

LEMMA PacketLenGrows ==
  ASSUME NEW m \in Nat, NEW n \in Nat, m <= n
  PROVE  PacketLen(m) \in Nat /\ PacketLen(n) \in Nat /\ PacketLen(m) <= PacketLen(n) /\ n + 2 <= PacketLen(n)
BY SMT DEF PacketLen

-----------------------------------------------------------------------------
(* What is written is read: sequences, numbers and headers *)

\* The sequence t stands in s after the k-th place.
Stands(t, s, k) == \A i \in 1 .. Len(t) : s[k + i] = t[i]

\* Each part of a longer sequence stands in its place.
LEMMA PartsStand ==
  ASSUME NEW S, NEW s \in Seq(S), NEW t \in Seq(S)
  PROVE  /\ s \o t \in Seq(S) /\ Len(s) \in Nat /\ Len(t) \in Nat /\ Len(s \o t) = Len(s) + Len(t)
         /\ Stands(s, s \o t, 0) /\ Stands(t, s \o t, Len(s))
<1>1. /\ s \o t \in Seq(S) /\ Len(s) \in Nat /\ Len(t) \in Nat /\ Len(s \o t) = Len(s) + Len(t)
      /\ \A i \in 1 .. Len(s) + Len(t) : (s \o t)[i] = IF i <= Len(s) THEN s[i] ELSE t[i - Len(s)]
  BY ConcatProperties, LenProperties
<1>2. ASSUME NEW i \in 1 .. Len(s) PROVE (s \o t)[0 + i] = s[i]
  <2>1. i \in 1 .. Len(s) + Len(t) /\ i <= Len(s) /\ 0 + i = i
    BY <1>1
  <2> QED
    BY <1>1, <2>1
<1>3. ASSUME NEW i \in 1 .. Len(t) PROVE (s \o t)[Len(s) + i] = t[i]
  <2>1. Len(s) + i \in 1 .. Len(s) + Len(t) /\ ~(Len(s) + i <= Len(s)) /\ Len(s) + i - Len(s) = i
    BY <1>1
  <2> QED
    BY <1>1, <2>1
<1> QED
  BY <1>1, <1>2, <1>3 DEF Stands

\* Sequences that are joined add up.
ThreeJoin(S, a, b, c) == a \o b \o c \in Seq(S) /\ Len(a \o b \o c) = Len(a) + Len(b) + Len(c)

LEMMA ThreeJoined ==
  ASSUME NEW S, NEW a \in Seq(S), NEW b \in Seq(S), NEW c \in Seq(S)
  PROVE  ThreeJoin(S, a, b, c)
<1> DEFINE f == a \o b
<1>1. f \in Seq(S) /\ Len(f) = Len(a) + Len(b)
  BY PartsStand
<1> HIDE DEF f
<1>2. f \o c \in Seq(S) /\ Len(f \o c) = Len(f) + Len(c)
  BY <1>1, PartsStand
<1> QED
  BY <1>1, <1>2 DEF f, ThreeJoin

FiveJoin(S, a, b, c, d, e) ==
  /\ a \o b \o c \o d \o e \in Seq(S)
  /\ Len(a \o b \o c \o d \o e) = Len(a) + Len(b) + Len(c) + Len(d) + Len(e)

LEMMA FiveJoined ==
  ASSUME NEW S, NEW a \in Seq(S), NEW b \in Seq(S), NEW c \in Seq(S), NEW d \in Seq(S), NEW e \in Seq(S)
  PROVE  FiveJoin(S, a, b, c, d, e)
<1> DEFINE f == a \o b \o c
<1>1. f \in Seq(S) /\ Len(f) = Len(a) + Len(b) + Len(c)
  BY ThreeJoined DEF ThreeJoin
<1> HIDE DEF f
<1>2. ThreeJoin(S, f, d, e)
  BY <1>1, ThreeJoined
<1>3. f \o d \o e \in Seq(S) /\ Len(f \o d \o e) = Len(f) + Len(d) + Len(e)
  BY <1>2 DEF ThreeJoin
<1> QED
  BY <1>1, <1>3 DEF f, FiveJoin

\* A part of a part.
LEMMA PartOfPart ==
  ASSUME NEW t, NEW s, NEW r, NEW j \in Nat, NEW k \in Nat, Len(t) \in Nat, Len(s) \in Nat,
         Stands(t, s, j), Stands(s, r, k), j + Len(t) <= Len(s)
  PROVE  Stands(t, r, k + j)
<1> SUFFICES ASSUME NEW i \in 1 .. Len(t) PROVE r[k + j + i] = t[i]
  BY DEF Stands
<1>1. j + i \in 1 .. Len(s) /\ k + (j + i) = k + j + i
  OBVIOUS
<1>2. r[k + (j + i)] = s[j + i] /\ s[j + i] = t[i]
  BY <1>1 DEF Stands
<1> QED
  BY <1>1, <1>2

\* It is read as a whole.
LEMMA PartIsSubSeq ==
  ASSUME NEW S, NEW s \in Seq(S), NEW t \in Seq(S), NEW k \in Nat, Stands(t, s, k), k + Len(t) <= Len(s)
  PROVE  SubSeq(s, k + 1, k + Len(t)) = t
<1> DEFINE u == SubSeq(s, k + 1, k + Len(t))
<1>1. Len(s) \in Nat /\ Len(t) \in Nat
  OBVIOUS
<1>2. k + 1 \in 1 .. Len(s) + 1 /\ k + Len(t) \in k + 1 - 1 .. Len(s)
  BY <1>1
<1>3. u \in Seq(S) /\ Len(u) = Len(t)
  BY <1>1, <1>2
<1>4. \A i \in 1 .. Len(t) : u[i] = s[k + i]
  BY <1>1, <1>2
<1> HIDE DEF u
<1>5. \A i \in 1 .. Len(u) : u[i] = t[i]
  BY <1>3, <1>4 DEF Stands
<1>6. u = t
  BY <1>3, <1>5, SeqEqual
<1> QED
  BY <1>6 DEF u

\* The parts of a packet as its reader finds them.
WholePacket(buf, header, length, rest) ==
  /\ buf # <<>> /\ Len(buf) \in Nat /\ Len(buf) <= PacketLen(length)
  /\ buf[1] = header
  /\ Decode(buf).length = length
  /\ Decode(buf).start \in Nat \ {0}
  /\ Decode(buf).start + length = Len(buf) + 1
  /\ Stands(rest, buf, Decode(buf).start - 1)

LEMMA PacketWhole ==
  ASSUME NEW S, Nat \subseteq S, NEW header \in Nat, NEW length \in 0 .. MaxLength,
         NEW rest \in Seq(S), Len(rest) = length
  PROVE  LET buf == <<header>> \o Encode[length] \o rest
         IN  buf \in Seq(S) /\ WholePacket(buf, header, length, rest)
<1> DEFINE e == Encode[length]
           buf == <<header>> \o e \o rest
<1>1. EncodedAs(e, length)
  BY EncodeEncodes
<1>2. Len(e) \in Nat /\ PacketLen(length) \in Nat /\ length \in Nat /\ 1 + Len(e) + length <= PacketLen(length)
  BY EncodeLength
<1> HIDE DEF e
<1>3. e \in Seq(Nat)
  BY <1>1 DEF EncodedAs
<1>4. /\ buf \in Seq(S) /\ Len(buf) = 1 + Len(e) + Len(rest) /\ buf[1] = header
      /\ \A i \in 1 .. Len(e) : buf[i + 1] = e[i]
      /\ \A i \in 1 .. Len(rest) : buf[1 + Len(e) + i] = rest[i]
  <2>1. Parts(buf, header, e, rest, S)
    BY <1>3, FrameParts
  <2> HIDE DEF buf
  <2> QED
    BY <2>1 DEF Parts
<1> HIDE DEF buf
<1>5. Decode(buf) = [length |-> length, start |-> Len(e) + 2]
  BY <1>1, <1>4, DecodeReads
<1>6. Decode(buf).length = length /\ Decode(buf).start = Len(e) + 2
  BY <1>5
<1>7. Decode(buf).start - 1 = 1 + Len(e)
  BY <1>2, <1>6
<1>8. Stands(rest, buf, Decode(buf).start - 1)
  BY <1>4, <1>7 DEF Stands
<1>9. Len(buf) \in Nat /\ Len(buf) <= PacketLen(length) /\ Decode(buf).start + length = Len(buf) + 1
      /\ Decode(buf).start \in Nat \ {0} /\ Len(buf) # 0
  BY <1>2, <1>4, <1>6
<1>10. buf # <<>>
  BY <1>9
<1>11. WholePacket(buf, header, length, rest)
  BY <1>4, <1>6, <1>8, <1>9, <1>10 DEF WholePacket
<1> QED
  BY <1>4, <1>11 DEF buf, e

\* What two bytes can say.
Words == {n \in Nat : n < 65536}

LEMMA WordFacts == \A n \in Nat : n < 65536 <=> n \in Words
BY SMT DEF Words

LEMMA WordsAreNumbers == Words \subseteq Nat
BY SMT DEF Words

\* Two bytes are read as they were written.
LEMMA IntWritten ==
  ASSUME NEW n \in Nat
  PROVE  /\ WriteInt(n) \in Seq(Nat) /\ Len(WriteInt(n)) = 2
         /\ n \in Words => 256 * WriteInt(n)[1] + WriteInt(n)[2] = n
<1> DEFINE a == (n \div 256) % 256
           b == n % 256
<1>1. a \in Nat /\ b \in Nat
  OBVIOUS
<1>2. ASSUME n \in Words PROVE 256 * a + b = n
  <2> DEFINE q == n \div 256
  <2>1. q \in Nat /\ b \in 0 .. 255 /\ n = 256 * q + b
    BY SMT
  <2>2. q < 256
    <3>1. n < 65536
      BY <1>2, WordFacts, SMT
    <3> HIDE DEF q, b
    <3> QED
      BY <2>1, <3>1, SMT
  <2>3. a = q
    BY <2>1, <2>2, SMT
  <2> QED
    BY <2>1, <2>3
<1> HIDE DEF a, b
<1>3. <<a, b>> \in Seq(Nat) /\ Len(<<a, b>>) = 2 /\ <<a, b>>[1] = a /\ <<a, b>>[2] = b
  BY <1>1
<1>4. WriteInt(n) = <<a, b>>
  BY DEF WriteInt, a, b
<1> QED
  BY <1>2, <1>3, <1>4

\* In any sequence that numbers may stand in.
LEMMA IntTyped ==
  ASSUME NEW S, Nat \subseteq S, NEW n \in Nat
  PROVE  WriteInt(n) \in Seq(S) /\ Len(WriteInt(n)) = 2
<1> DEFINE w == WriteInt(n)
<1>1. w \in Seq(Nat) /\ Len(w) = 2
  BY IntWritten
<1> HIDE DEF w
<1>2. w \in Seq(S)
  BY <1>1
<1> QED
  BY <1>1, <1>2 DEF w

LEMMA IntRead ==
  ASSUME NEW n \in Words, NEW buf, NEW k \in Nat, Stands(WriteInt(n), buf, k)
  PROVE  ReadInt(buf, k + 1) = n
<1>a. n \in Nat
  BY WordsAreNumbers
<1>1. 1 \in 1 .. Len(WriteInt(n)) /\ 2 \in 1 .. Len(WriteInt(n))
  <2>1. Len(WriteInt(n)) = 2
    BY <1>a, IntWritten
  <2> QED
    BY <2>1
<1>2. buf[k + 1] = WriteInt(n)[1] /\ buf[k + 2] = WriteInt(n)[2]
  BY <1>1 DEF Stands
<1>3. k + 1 + 1 = k + 2
  OBVIOUS
<1> QED
  BY <1>a, <1>2, <1>3, IntWritten DEF ReadInt

\* What the first byte says.
LEMMA HeaderNat ==
  ASSUME NEW type \in DOMAIN TypeCode, NEW qos \in Nat
  PROVE  TypeCode[type] \in 0 .. 15 /\ Header(type, qos) \in Nat
<1>1. TypeCode[type] \in 0 .. 15
  BY DEF TypeCode
<1> QED
  BY <1>1 DEF Header

LEMMA HeaderRead ==
  ASSUME NEW type \in DOMAIN TypeCode, NEW qos \in 0 .. 3, NEW buf, buf[1] = Header(type, qos)
  PROVE  TypeOf(buf) = type /\ (buf[1] \div 2) % 4 = qos
<1>1. TypeCode[type] \in 0 .. 15
  BY HeaderNat
<1>2. buf[1] = 16 * TypeCode[type] + 2 * qos
  BY DEF Header
<1> DEFINE c == TypeCode[type]
<1> HIDE DEF c
<1>3. c \in 0 .. 15 /\ buf[1] = 16 * c + 2 * qos
  BY <1>1, <1>2 DEF c
<1>4. buf[1] \div 16 = c
  BY <1>3, SMT
<1>5. buf[1] \div 2 = 8 * c + qos
  BY <1>3, SMT
<1>6. (8 * c + qos) % 4 = qos
  BY <1>3, SMT
<1>7. \A t \in DOMAIN TypeCode : TypeCode[t] = TypeCode[type] => t = type
  BY DEF TypeCode
<1>8. TypeOf(buf) = CHOOSE t \in DOMAIN TypeCode : TypeCode[t] = buf[1] \div 16
  BY DEF TypeOf
<1>9. \A t \in DOMAIN TypeCode : TypeCode[t] = buf[1] \div 16 <=> t = type
  BY <1>4, <1>7 DEF c
<1>10. TypeOf(buf) = type
  BY <1>8, <1>9, Zenon
<1> QED
  BY <1>5, <1>6, <1>10

-----------------------------------------------------------------------------
(* What is written is read: packets *)

\* A packet as FramesWhole wants it.
FrameWhole(buf, buflen) ==
  buf # <<>> /\ Len(buf) <= buflen /\ Decode(buf).start + Decode(buf).length = Len(buf) + 1

LEMMA LengthFits ==
  ASSUME NEW length \in Nat, NEW buflen \in 0 .. MaxLength, PacketLen(length) <= buflen
  PROVE  length \in 0 .. MaxLength /\ PacketLen(length) \in Nat /\ buflen \in Nat
<1>1. PacketLen(length) \in Nat /\ length + 2 <= PacketLen(length)
  BY PacketLenGrows
<1> QED
  BY <1>1, MaxLengthNat

LEMMA WholeMeansFrame ==
  ASSUME NEW buf, NEW header, NEW length \in Nat, NEW rest, NEW buflen \in 0 .. MaxLength,
         PacketLen(length) <= buflen, WholePacket(buf, header, length, rest)
  PROVE  FrameWhole(buf, buflen)
<1>1. PacketLen(length) \in Nat /\ buflen \in Nat
  BY LengthFits
<1>2. Len(buf) <= buflen
  BY <1>1 DEF WholePacket
<1> QED
  BY <1>2 DEF WholePacket, FrameWhole

LEMMA FramedWhole ==
  ASSUME NEW S, Nat \subseteq S, NEW header \in Nat, NEW length \in Nat, NEW rest \in Seq(S),
         Len(rest) = length, NEW buflen \in 0 .. MaxLength, PacketLen(length) <= buflen
  PROVE  LET buf == Framed(header, length, rest, buflen)
         IN  buf \in Seq(S) /\ WholePacket(buf, header, length, rest) /\ FrameWhole(buf, buflen)
<1>1. length \in 0 .. MaxLength /\ PacketLen(length) \in Nat /\ buflen \in Nat
  BY LengthFits
<1> DEFINE buf == Framed(header, length, rest, buflen)
<1>2. buf = <<header>> \o Encode[length] \o rest
  BY <1>1 DEF Framed
<1>3. buf \in Seq(S) /\ WholePacket(buf, header, length, rest)
  <2>1. LET packet == <<header>> \o Encode[length] \o rest
        IN  packet \in Seq(S) /\ WholePacket(packet, header, length, rest)
    BY <1>1, PacketWhole
  <2> HIDE DEF buf
  <2> QED
    BY <1>2, <2>1, Zenon
<1> HIDE DEF buf
<1>4. FrameWhole(buf, buflen)
  BY <1>3, WholeMeansFrame
<1> QED
  BY <1>3, <1>4 DEF buf

\* A string has its length in front.
LEMMA StringWritten ==
  ASSUME NEW S, Nat \subseteq S, NEW s \in Seq(S)
  PROVE  /\ WriteString(s) \in Seq(S) /\ Len(s) \in Nat /\ Len(WriteString(s)) = 2 + Len(s)
         /\ Stands(WriteInt(Len(s)), WriteString(s), 0) /\ Stands(s, WriteString(s), 2)
<1>1. Len(s) \in Nat
  OBVIOUS
<1>2. WriteInt(Len(s)) \in Seq(Nat) /\ Len(WriteInt(Len(s))) = 2
  BY <1>1, IntWritten
<1>3. WriteInt(Len(s)) \in Seq(S)
  BY <1>2
<1> DEFINE w == WriteInt(Len(s))
<1> HIDE DEF w
<1>4. w \in Seq(S) /\ Len(w) = 2
  BY <1>2, <1>3 DEF w
<1>5. /\ w \o s \in Seq(S) /\ Len(w \o s) = Len(w) + Len(s)
      /\ Stands(w, w \o s, 0) /\ Stands(s, w \o s, Len(w))
  BY <1>4, PartsStand
<1>6. WriteString(s) = w \o s
  BY DEF WriteString, w
<1> QED
  BY <1>1, <1>4, <1>5, <1>6 DEF w

\* What is connected and subscribed is as long as it was computed to be.
LEMMA ConnectWhole ==
  ASSUME NEW T, NEW clientID \in Seq(T), NEW keepAlive \in Nat,
         NEW buflen \in 0 .. MaxLength, PacketLen(ConnectLength(clientID)) <= buflen
  PROVE  FrameWhole(SerializeConnect(clientID, keepAlive, buflen), buflen)
<1> DEFINE S == Nat \cup {"M", "Q", "I", "s", "d", "p"} \cup T
           letters == <<"M", "Q", "I", "s", "d", "p">>
           flags == <<3, 2>>
           six == WriteInt(6)
           alive == WriteInt(keepAlive)
           name == WriteString(clientID)
           d == six \o letters \o flags \o alive \o name
           length == ConnectLength(clientID)
<1>1. Nat \subseteq S /\ clientID \in Seq(S)
  <2>1. T \subseteq S
    OBVIOUS
  <2> HIDE DEF S
  <2>2. clientID \in Seq(S)
    BY <2>1
  <2> QED
    BY <2>2 DEF S
<1>2. letters \in Seq(S) /\ Len(letters) = 6 /\ flags \in Seq(S) /\ Len(flags) = 2
  <2>1. \A x \in {"M", "Q", "I", "s", "d", "p", 3, 2} : x \in S
    OBVIOUS
  <2> HIDE DEF S
  <2> QED
    BY <2>1
<1> HIDE DEF S, letters, flags
<1>3. six \in Seq(S) /\ Len(six) = 2 /\ alive \in Seq(S) /\ Len(alive) = 2
  BY <1>1, IntTyped
<1>4. name \in Seq(S) /\ Len(clientID) \in Nat /\ Len(name) = 2 + Len(clientID)
  BY <1>1, StringWritten
<1> HIDE DEF six, alive, name
<1>5. d \in Seq(S) /\ Len(d) = Len(six) + Len(letters) + Len(flags) + Len(alive) + Len(name)
  <2>1. FiveJoin(S, six, letters, flags, alive, name)
    BY <1>2, <1>3, <1>4, FiveJoined
  <2> QED
    BY <2>1 DEF FiveJoin
<1> HIDE DEF d
<1>6. length \in Nat /\ Len(d) = length
  BY <1>2, <1>3, <1>4, <1>5 DEF ConnectLength
<1>7. Header("CONNECT", 0) \in Nat
  <2>1. "CONNECT" \in DOMAIN TypeCode /\ 0 \in Nat
    BY DEF TypeCode
  <2> QED
    BY <2>1, HeaderNat
<1>8. SerializeConnect(clientID, keepAlive, buflen) = Framed(Header("CONNECT", 0), length, d, buflen)
  BY DEF SerializeConnect, d, six, letters, flags, alive, name
<1>9. PacketLen(length) <= buflen
  OBVIOUS
<1> HIDE DEF length
<1>10. FrameWhole(Framed(Header("CONNECT", 0), length, d, buflen), buflen)
  BY <1>1, <1>5, <1>6, <1>7, <1>9, FramedWhole
<1> QED
  BY <1>8, <1>10

LEMMA SubscribeWhole ==
  ASSUME NEW T, NEW topic \in Seq(T), NEW id \in Nat, NEW qos \in Nat,
         NEW buflen \in 0 .. MaxLength, PacketLen(SubscribeLength(topic)) <= buflen
  PROVE  FrameWhole(SerializeSubscribe(id, topic, qos, buflen), buflen)
<1> DEFINE S == Nat \cup T
           number == WriteInt(id)
           name == WriteString(topic)
           last == <<qos>>
           d == number \o name \o last
           length == SubscribeLength(topic)
<1>1. Nat \subseteq S /\ topic \in Seq(S)
  <2>1. T \subseteq S
    OBVIOUS
  <2> HIDE DEF S
  <2>2. topic \in Seq(S)
    BY <2>1
  <2> QED
    BY <2>2 DEF S
<1> HIDE DEF S
<1>2. last \in Seq(S) /\ Len(last) = 1
  <2>1. qos \in S
    BY <1>1
  <2> QED
    BY <2>1
<1>3. number \in Seq(S) /\ Len(number) = 2
  BY <1>1, IntTyped
<1>4. name \in Seq(S) /\ Len(topic) \in Nat /\ Len(name) = 2 + Len(topic)
  BY <1>1, StringWritten
<1> HIDE DEF number, name, last
<1>5. d \in Seq(S) /\ Len(d) = Len(number) + Len(name) + Len(last)
  <2>1. ThreeJoin(S, number, name, last)
    BY <1>2, <1>3, <1>4, ThreeJoined
  <2> QED
    BY <2>1 DEF ThreeJoin
<1> HIDE DEF d
<1>6. length \in Nat /\ Len(d) = length
  BY <1>2, <1>3, <1>4, <1>5 DEF SubscribeLength
<1>7. Header("SUBSCRIBE", 1) \in Nat
  <2>1. "SUBSCRIBE" \in DOMAIN TypeCode /\ 1 \in Nat
    BY DEF TypeCode
  <2> QED
    BY <2>1, HeaderNat
<1>8. SerializeSubscribe(id, topic, qos, buflen) = Framed(Header("SUBSCRIBE", 1), length, d, buflen)
  BY DEF SerializeSubscribe, d, number, name, last
<1>9. PacketLen(length) <= buflen
  OBVIOUS
<1> HIDE DEF length
<1>10. FrameWhole(Framed(Header("SUBSCRIBE", 1), length, d, buflen), buflen)
  BY <1>1, <1>5, <1>6, <1>7, <1>9, FramedWhole
<1> QED
  BY <1>8, <1>10

\* The rest of a PUBLISH packet.
NumberOf(qos, id) == IF qos > 0 THEN WriteInt(id) ELSE <<>>
PublishRest(qos, id, topic, payload) == WriteString(topic) \o NumberOf(qos, id) \o payload

\* ... and where its parts stand in it.
PublishParts(rest, qos, id, topic, payload) ==
  /\ Stands(WriteInt(Len(topic)), rest, 0) /\ Stands(topic, rest, 2)
  /\ Stands(NumberOf(qos, id), rest, 2 + Len(topic))
  /\ Stands(payload, rest, 2 + Len(topic) + Len(NumberOf(qos, id)))
  /\ Len(rest) = 2 + Len(topic) + Len(NumberOf(qos, id)) + Len(payload)

LEMMA NumberTyped ==
  ASSUME NEW S, Nat \subseteq S, NEW qos \in Nat, NEW id \in Nat
  PROVE  /\ NumberOf(qos, id) \in Seq(S) /\ Len(NumberOf(qos, id)) \in Nat
         /\ Len(NumberOf(qos, id)) = IF qos > 0 THEN 2 ELSE 0
<1>1. WriteInt(id) \in Seq(S) /\ Len(WriteInt(id)) = 2
  BY IntTyped
<1>2. <<>> \in Seq(S) /\ Len(<<>>) = 0
  OBVIOUS
<1>3. CASE qos > 0
  BY <1>1, <1>3 DEF NumberOf
<1>4. CASE ~(qos > 0)
  BY <1>2, <1>4 DEF NumberOf
<1> QED
  BY <1>3, <1>4

LEMMA PublishWritten ==
  ASSUME NEW S, Nat \subseteq S, NEW topic \in Seq(S), NEW payload \in Seq(S), NEW qos \in Nat, NEW id \in Nat
  PROVE  LET rest == PublishRest(qos, id, topic, payload)
         IN  /\ rest \in Seq(S) /\ PublishParts(rest, qos, id, topic, payload)
             /\ PublishLength(qos, topic, payload) \in Nat /\ Len(rest) = PublishLength(qos, topic, payload)
<1> DEFINE number == NumberOf(qos, id)
           length == WriteInt(Len(topic))
           name == WriteString(topic)
           front == name \o number
           rest == front \o payload
<1>1. Len(topic) \in Nat /\ Len(payload) \in Nat
  OBVIOUS
<1>2. length \in Seq(S) /\ Len(length) = 2
  BY <1>1, IntTyped
<1>3. name \in Seq(S) /\ Len(name) = 2 + Len(topic) /\ Stands(length, name, 0) /\ Stands(topic, name, 2)
  BY StringWritten
<1>4. number \in Seq(S) /\ Len(number) \in Nat /\ Len(number) = IF qos > 0 THEN 2 ELSE 0
  BY NumberTyped
<1> HIDE DEF number, length, name
<1>5. /\ front \in Seq(S) /\ Len(front) = Len(name) + Len(number)
      /\ Stands(name, front, 0) /\ Stands(number, front, Len(name))
  BY <1>3, <1>4, PartsStand
<1> HIDE DEF front
<1>6. /\ rest \in Seq(S) /\ Len(rest) = Len(front) + Len(payload)
      /\ Stands(front, rest, 0) /\ Stands(payload, rest, Len(front))
  BY <1>5, PartsStand
<1> HIDE DEF rest
<1>7. Len(front) \in Nat /\ Len(name) \in Nat
  BY <1>1, <1>3, <1>4, <1>5
<1>8. ASSUME NEW t, NEW j \in Nat, Len(t) \in Nat, Stands(t, front, j), j + Len(t) <= Len(front)
      PROVE  Stands(t, rest, j)
  <2>1. Stands(t, rest, 0 + j)
    BY <1>6, <1>7, <1>8, PartOfPart
  <2> QED
    BY <2>1
<1>9. ASSUME NEW t, NEW j \in Nat, Len(t) \in Nat, Stands(t, name, j), j + Len(t) <= Len(name)
      PROVE  Stands(t, rest, j)
  <2>1. Stands(t, front, 0 + j)
    BY <1>5, <1>7, <1>9, PartOfPart
  <2>2. 0 + j = j /\ j + Len(t) <= Len(front)
    BY <1>4, <1>5, <1>7, <1>9
  <2> QED
    BY <1>8, <1>9, <2>1, <2>2
<1>10. Stands(length, rest, 0)
  BY <1>1, <1>2, <1>3, <1>9
<1>11. Stands(topic, rest, 2)
  BY <1>1, <1>3, <1>9
<1>12. Stands(number, rest, 2 + Len(topic))
  <2>1. Stands(number, front, Len(name)) /\ Len(name) + Len(number) <= Len(front)
    BY <1>4, <1>5, <1>7
  <2> QED
    BY <1>3, <1>4, <1>7, <1>8, <2>1
<1>13. Stands(payload, rest, 2 + Len(topic) + Len(number))
  BY <1>3, <1>5, <1>6
<1>14. Len(rest) = 2 + Len(topic) + Len(number) + Len(payload)
  BY <1>3, <1>5, <1>6
<1>15. PublishParts(rest, qos, id, topic, payload)
  BY <1>10, <1>11, <1>12, <1>13, <1>14 DEF PublishParts, number, length
<1>16. PublishLength(qos, topic, payload) \in Nat /\ Len(rest) = PublishLength(qos, topic, payload)
  BY <1>1, <1>4, <1>14 DEF PublishLength
<1>17. PublishRest(qos, id, topic, payload) = rest
  BY DEF PublishRest, rest, front, name, number
<1> QED
  BY <1>6, <1>15, <1>16, <1>17

\* A publication in its buffer.
LEMMA PublishFramed ==
  ASSUME NEW S, Nat \subseteq S, NEW topic \in Seq(S), NEW payload \in Seq(S), NEW qos \in Nat, NEW id \in Nat,
         NEW buflen \in 0 .. MaxLength, PacketLen(PublishLength(qos, topic, payload)) <= buflen
  PROVE  LET buf  == SerializePublish(qos, id, topic, payload, buflen)
             rest == PublishRest(qos, id, topic, payload)
         IN  /\ buf \in Seq(S) /\ FrameWhole(buf, buflen)
             /\ WholePacket(buf, Header("PUBLISH", qos), PublishLength(qos, topic, payload), rest)
<1> DEFINE rest == PublishRest(qos, id, topic, payload)
           length == PublishLength(qos, topic, payload)
<1>1. rest \in Seq(S) /\ length \in Nat /\ Len(rest) = length
  BY PublishWritten, ZenonT(60)
<1>2. Header("PUBLISH", qos) \in Nat
  <2>1. "PUBLISH" \in DOMAIN TypeCode
    BY DEF TypeCode
  <2> QED
    BY <2>1, HeaderNat
<1>3. SerializePublish(qos, id, topic, payload, buflen) = Framed(Header("PUBLISH", qos), length, rest, buflen)
  BY DEF SerializePublish, PublishRest, NumberOf
<1>4. PacketLen(length) <= buflen
  OBVIOUS
<1> DEFINE header == Header("PUBLISH", qos)
           buf == Framed(header, length, rest, buflen)
<1> HIDE DEF rest, length, header
<1>5. buf \in Seq(S) /\ WholePacket(buf, header, length, rest) /\ FrameWhole(buf, buflen)
  <2>1. header \in Nat
    BY <1>2 DEF header
  <2> QED
    BY <1>1, <1>4, <2>1, FramedWhole
<1> QED
  BY <1>3, <1>5 DEF rest, length, header

LEMMA PublishWhole ==
  ASSUME NEW T, NEW U, NEW topic \in Seq(T), NEW payload \in Seq(U), NEW qos \in Nat, NEW id \in Nat,
         NEW buflen \in 0 .. MaxLength, PacketLen(PublishLength(qos, topic, payload)) <= buflen
  PROVE  FrameWhole(SerializePublish(qos, id, topic, payload, buflen), buflen)
<1> DEFINE S == Nat \cup T \cup U
<1>1. Nat \subseteq S /\ T \subseteq S /\ U \subseteq S
  OBVIOUS
<1> HIDE DEF S
<1>2. topic \in Seq(S) /\ payload \in Seq(S)
  BY <1>1
<1> QED
  BY <1>1, <1>2, PublishFramed

\* Where the parts of a publication stand in its buffer: k is in front of the rest.
Places(buf, k, qos, id, topic, payload) ==
  /\ k \in Nat /\ Decode(buf).start = k + 1
  /\ Decode(buf).length = 2 + Len(topic) + Len(NumberOf(qos, id)) + Len(payload)
  /\ Len(buf) = k + Decode(buf).length
  /\ Stands(WriteInt(Len(topic)), buf, k) /\ Stands(topic, buf, k + 2)
  /\ Stands(NumberOf(qos, id), buf, k + (2 + Len(topic)))
  /\ Stands(payload, buf, k + (2 + Len(topic) + Len(NumberOf(qos, id))))

LEMMA PublishPlaces ==
  ASSUME NEW S, Nat \subseteq S, NEW topic \in Seq(S), NEW payload \in Seq(S), NEW qos \in Nat, NEW id \in Nat,
         NEW buf, NEW header,
         WholePacket(buf, header, PublishLength(qos, topic, payload), PublishRest(qos, id, topic, payload))
  PROVE  Places(buf, Decode(buf).start - 1, qos, id, topic, payload)
<1> DEFINE rest == PublishRest(qos, id, topic, payload)
           length == PublishLength(qos, topic, payload)
           number == NumberOf(qos, id)
           k == Decode(buf).start - 1
<1>1. rest \in Seq(S) /\ PublishParts(rest, qos, id, topic, payload) /\ length \in Nat /\ Len(rest) = length
  BY PublishWritten
<1>2. number \in Seq(S) /\ Len(number) \in Nat /\ Len(number) = IF qos > 0 THEN 2 ELSE 0
  BY NumberTyped
<1>3. Len(topic) \in Nat /\ Len(payload) \in Nat /\ Len(WriteInt(Len(topic))) = 2
  <2>1. Len(topic) \in Nat /\ Len(payload) \in Nat
    OBVIOUS
  <2> QED
    BY <2>1, IntTyped
<1>4. WholePacket(buf, header, length, rest)
  OBVIOUS
<1> HIDE DEF rest, length, number
<1>6. /\ k \in Nat /\ Decode(buf).start = k + 1 /\ Decode(buf).length = length
      /\ Len(buf) = k + length /\ Len(buf) \in Nat /\ Stands(rest, buf, k)
  <2> DEFINE start == Decode(buf).start
  <2>1. /\ start \in Nat \ {0} /\ start + length = Len(buf) + 1 /\ Len(buf) \in Nat
        /\ Decode(buf).length = length /\ Stands(rest, buf, start - 1)
    BY <1>4 DEF WholePacket
  <2> HIDE DEF start
  <2>2. start - 1 \in Nat /\ start = start - 1 + 1 /\ Len(buf) = start - 1 + length
    BY <1>1, <2>1
  <2> QED
    BY <2>1, <2>2 DEF start
<1> HIDE DEF k
<1>7. /\ Stands(WriteInt(Len(topic)), rest, 0) /\ Stands(topic, rest, 2)
      /\ Stands(number, rest, 2 + Len(topic)) /\ Stands(payload, rest, 2 + Len(topic) + Len(number))
      /\ length = 2 + Len(topic) + Len(number) + Len(payload)
  BY <1>1 DEF PublishParts, number
<1>8. ASSUME NEW t, NEW j \in Nat, Len(t) \in Nat, Stands(t, rest, j), j + Len(t) <= length
      PROVE  Stands(t, buf, k + j)
  BY <1>1, <1>6, <1>8, PartOfPart
<1> DEFINE w == WriteInt(Len(topic))
<1>9. Stands(w, buf, k)
  <2>1. 0 + Len(w) <= length /\ Len(w) \in Nat
    BY <1>2, <1>3, <1>7
  <2>2. Stands(w, rest, 0)
    BY <1>7
  <2> HIDE DEF w
  <2>3. Stands(w, buf, k + 0)
    BY <1>8, <2>1, <2>2
  <2>4. k + 0 = k
    BY <1>6
  <2> QED
    BY <2>3, <2>4
<1> HIDE DEF w
<1>10. Stands(topic, buf, k + 2)
  <2>1. 2 + Len(topic) <= length
    BY <1>2, <1>3, <1>7
  <2> QED
    BY <1>3, <1>7, <1>8, <2>1
<1>11. Stands(number, buf, k + (2 + Len(topic)))
  <2> DEFINE j == 2 + Len(topic)
  <2>1. j + Len(number) <= length /\ j \in Nat
    BY <1>2, <1>3, <1>7
  <2>2. Stands(number, rest, j)
    BY <1>7
  <2> HIDE DEF j
  <2>3. Stands(number, buf, k + j)
    BY <1>2, <1>8, <2>1, <2>2
  <2> QED
    BY <2>3 DEF j
<1>12. Stands(payload, buf, k + (2 + Len(topic) + Len(number)))
  <2>1. 2 + Len(topic) + Len(number) + Len(payload) <= length /\ 2 + Len(topic) + Len(number) \in Nat
    BY <1>2, <1>3, <1>7
  <2> QED
    BY <1>3, <1>7, <1>8, <2>1
<1> QED
  BY <1>6, <1>7, <1>9, <1>10, <1>11, <1>12 DEF Places, number, w, k

\* What a publication says.
Message(qos, id, topic, payload) ==
  [type |-> "PUBLISH", arg |-> qos, id |-> IF qos > 0 THEN id ELSE 0, topic |-> topic, payload |-> payload]

\* Its parts are found where they stand.
LEMMA PlacesRead ==
  ASSUME NEW S, NEW topic \in Seq(S), NEW payload \in Seq(S), NEW qos \in Nat, NEW id \in Words,
         NEW buf \in Seq(S), NEW k, Places(buf, k, qos, id, topic, payload), Len(topic) \in Words,
         (buf[1] \div 2) % 4 = qos
  PROVE  DeserializePublish(buf) = Message(qos, id, topic, payload)
<1> DEFINE number == NumberOf(qos, id)
           start == Decode(buf).start
           end == start + Decode(buf).length
           idAt == start + 2 + ReadInt(buf, start)
           place == idAt + (IF qos > 0 THEN 2 ELSE 0)
<1>1. Len(topic) \in Nat /\ Len(payload) \in Nat
  OBVIOUS
<1>2. Len(number) = IF qos > 0 THEN 2 ELSE 0
  BY WordsAreNumbers, NumberTyped
<1> HIDE DEF number
<1>3. /\ k \in Nat /\ start = k + 1 /\ Decode(buf).length = 2 + Len(topic) + Len(number) + Len(payload)
      /\ Len(buf) = k + (2 + Len(topic) + Len(number) + Len(payload))
      /\ Stands(WriteInt(Len(topic)), buf, k) /\ Stands(topic, buf, k + 2)
      /\ Stands(number, buf, k + (2 + Len(topic)))
      /\ Stands(payload, buf, k + (2 + Len(topic) + Len(number)))
  BY DEF Places, number
<1>4. ReadInt(buf, start) = Len(topic)
  <2>1. ReadInt(buf, k + 1) = Len(topic)
    BY <1>3, IntRead
  <2> QED
    BY <1>3, <2>1
<1> HIDE DEF start
<1>a. idAt = k + 3 + Len(topic)
  <2>1. idAt = k + 1 + 2 + Len(topic)
    BY <1>3, <1>4, Zenon
  <2> QED
    BY <1>1, <1>3, <2>1
<1>b. start = k + 1 /\ k \in Nat /\ Len(buf) = k + (2 + Len(topic) + Len(number) + Len(payload))
  BY <1>3
<1>c. Len(number) \in Nat
  BY <1>2
<1>5. SubSeq(buf, start + 2, idAt - 1) = topic
  <2> DEFINE j == k + 2
  <2>1. j \in Nat /\ j + Len(topic) <= Len(buf) /\ j + 1 = start + 2 /\ j + Len(topic) = idAt - 1
    <3> HIDE DEF idAt
    <3> QED
      BY <1>1, <1>a, <1>b, <1>c
  <2>2. Stands(topic, buf, j)
    BY <1>3
  <2> HIDE DEF j, idAt
  <2>3. SubSeq(buf, j + 1, j + Len(topic)) = topic
    BY <2>1, <2>2, PartIsSubSeq
  <2> QED
    BY <2>1, <2>3
<1>6. SubSeq(buf, place, end - 1) = payload
  <2> DEFINE j == k + (2 + Len(topic) + Len(number))
  <2>1. j \in Nat /\ j + Len(payload) <= Len(buf) /\ j + 1 = place /\ j + Len(payload) = end - 1
    BY <1>1, <1>2, <1>3, <1>4, SMTT(60)
  <2>2. Stands(payload, buf, j)
    BY <1>3
  <2> HIDE DEF j, place, end
  <2>3. SubSeq(buf, j + 1, j + Len(payload)) = payload
    BY <2>1, <2>2, PartIsSubSeq
  <2> QED
    BY <2>1, <2>3
<1>7. ASSUME qos > 0 PROVE ReadInt(buf, idAt) = id
  <2> DEFINE j == k + (2 + Len(topic))
  <2>1. j \in Nat /\ j + 1 = idAt
    <3> HIDE DEF idAt
    <3> QED
      BY <1>1, <1>a, <1>b
  <2>2. number = WriteInt(id)
    BY <1>7 DEF number, NumberOf
  <2>3. Stands(WriteInt(id), buf, j)
    BY <1>3, <2>2
  <2> HIDE DEF j, idAt
  <2>4. ReadInt(buf, j + 1) = id
    BY <2>1, <2>3, IntRead
  <2> QED
    BY <2>1, <2>4
<1>8. StringFits(buf, start, end)
  <2>1. end - start > 1 /\ start + 2 + Len(topic) <= end
    BY <1>1, <1>2, <1>3
  <2> QED
    BY <1>4, <2>1 DEF StringFits
<1>9. DeserializePublish(buf) =
        IF ~StringFits(buf, start, end) THEN Error
        ELSE [type |-> "PUBLISH", arg |-> (buf[1] \div 2) % 4,
              id |-> IF (buf[1] \div 2) % 4 > 0 THEN ReadInt(buf, idAt) ELSE 0,
              topic |-> SubSeq(buf, start + 2, idAt - 1),
              payload |-> SubSeq(buf, idAt + (IF (buf[1] \div 2) % 4 > 0 THEN 2 ELSE 0), end - 1)]
  BY DEF DeserializePublish, start
<1> DEFINE q == (buf[1] \div 2) % 4
<1>10. q = qos
  OBVIOUS
<1> HIDE DEF end, idAt, q
<1>11. DeserializePublish(buf) =
         IF ~StringFits(buf, start, end) THEN Error
         ELSE [type |-> "PUBLISH", arg |-> q, id |-> IF q > 0 THEN ReadInt(buf, idAt) ELSE 0,
               topic |-> SubSeq(buf, start + 2, idAt - 1),
               payload |-> SubSeq(buf, idAt + (IF q > 0 THEN 2 ELSE 0), end - 1)]
  BY <1>9, Zenon DEF q
<1>12. DeserializePublish(buf) =
         [type |-> "PUBLISH", arg |-> qos, id |-> IF qos > 0 THEN ReadInt(buf, idAt) ELSE 0,
          topic |-> SubSeq(buf, start + 2, idAt - 1), payload |-> SubSeq(buf, place, end - 1)]
  BY <1>8, <1>10, <1>11, Zenon
<1> HIDE DEF place
<1>13. (IF qos > 0 THEN ReadInt(buf, idAt) ELSE 0) = IF qos > 0 THEN id ELSE 0
  BY <1>7, Zenon
<1> QED
  BY <1>5, <1>6, <1>12, <1>13, Zenon DEF Message

\* A publication is read as it was written.
LEMMA PublishRead ==
  ASSUME NEW T, NEW U, NEW topic \in Seq(T), NEW payload \in Seq(U), NEW qos \in 0 .. 2, NEW id \in Words,
         Len(topic) \in Words,
         NEW buflen \in 0 .. MaxLength, PacketLen(PublishLength(qos, topic, payload)) <= buflen
  PROVE  LET buf == SerializePublish(qos, id, topic, payload, buflen)
         IN  TypeOf(buf) = "PUBLISH" /\ DeserializePublish(buf) = Message(qos, id, topic, payload)
<1> DEFINE S == Nat \cup T \cup U
           buf == SerializePublish(qos, id, topic, payload, buflen)
           header == Header("PUBLISH", qos)
           k == Decode(buf).start - 1
<1>1. Nat \subseteq S /\ T \subseteq S /\ U \subseteq S
  OBVIOUS
<1> HIDE DEF S
<1>2. topic \in Seq(S) /\ payload \in Seq(S)
  BY <1>1
<1>3. qos \in Nat /\ qos \in 0 .. 3 /\ id \in Nat
  BY WordsAreNumbers
<1>4. /\ buf \in Seq(S)
      /\ WholePacket(buf, header, PublishLength(qos, topic, payload), PublishRest(qos, id, topic, payload))
  BY <1>1, <1>2, <1>3, PublishFramed
<1> HIDE DEF buf
<1>5. buf[1] = header
  BY <1>4 DEF WholePacket
<1>6. Places(buf, k, qos, id, topic, payload)
  <2> HIDE DEF header
  <2> QED
    BY <1>1, <1>2, <1>3, <1>4, PublishPlaces
<1>7. TypeOf(buf) = "PUBLISH" /\ (buf[1] \div 2) % 4 = qos
  <2>1. "PUBLISH" \in DOMAIN TypeCode
    BY DEF TypeCode
  <2> QED
    BY <1>3, <1>5, <2>1, HeaderRead
<1> HIDE DEF k
<1>8. DeserializePublish(buf) = Message(qos, id, topic, payload)
  BY <1>2, <1>3, <1>4, <1>6, <1>7, PlacesRead
<1> QED
  BY <1>7, <1>8 DEF buf

LEMMA ShortLengths ==
  /\ 0 \in 0 .. MaxLength /\ 2 \in 0 .. MaxLength /\ 3 \in 0 .. MaxLength
  /\ PacketLen(0) = 2 /\ PacketLen(2) = 4
<1>1. 0 \in 0 .. MaxLength /\ 2 \in 0 .. MaxLength /\ 3 \in 0 .. MaxLength
  BY MaxLengthNat, MaxLengthIs, SMT
<1>2. PacketLen(0) = 2 /\ PacketLen(2) = 4
  BY SMT DEF PacketLen
<1> QED
  BY <1>1, <1>2

\* The packets that have a number only.
LEMMA AckWritten ==
  ASSUME NEW type \in DOMAIN TypeCode, NEW id \in Nat
  PROVE  WholePacket(SerializeAck(type, id), Header(type, IF type = "PUBREL" THEN 1 ELSE 0), 2, WriteInt(id))
<1> DEFINE header == Header(type, IF type = "PUBREL" THEN 1 ELSE 0)
           rest == WriteInt(id)
<1>1. header \in Nat
  <2>1. (IF type = "PUBREL" THEN 1 ELSE 0) \in Nat
    OBVIOUS
  <2> QED
    BY <2>1, HeaderNat
<1>2. rest \in Seq(Nat) /\ Len(rest) = 2 /\ Nat \subseteq Nat
  BY IntTyped
<1>3. SerializeAck(type, id) = <<header>> \o Encode[2] \o rest
  BY DEF SerializeAck
<1> HIDE DEF header, rest
<1>4. WholePacket(<<header>> \o Encode[2] \o rest, header, 2, rest)
  BY <1>1, <1>2, ShortLengths, PacketWhole
<1> QED
  BY <1>3, <1>4 DEF header, rest

LEMMA AckWhole ==
  ASSUME NEW type \in DOMAIN TypeCode, NEW id \in Nat, NEW buflen \in 0 .. MaxLength, 4 <= buflen
  PROVE  FrameWhole(SerializeAck(type, id), buflen)
<1>1. PacketLen(2) <= buflen /\ 2 \in Nat
  BY ShortLengths
<1> QED
  BY <1>1, AckWritten, WholeMeansFrame

LEMMA AckRead ==
  ASSUME NEW type \in DOMAIN TypeCode, NEW id \in Words
  PROVE  LET buf == SerializeAck(type, id)
         IN  TypeOf(buf) = type /\ DeserializeAck(buf) = [type |-> type, id |-> id, arg |-> 0]
<1> DEFINE buf == SerializeAck(type, id)
           qos == IF type = "PUBREL" THEN 1 ELSE 0
           k == Decode(buf).start - 1
<1>1. id \in Nat /\ qos \in 0 .. 3
  BY WordsAreNumbers
<1>2. WholePacket(buf, Header(type, qos), 2, WriteInt(id))
  BY <1>1, AckWritten
<1> HIDE DEF buf, qos
<1>3. TypeOf(buf) = type
  BY <1>1, <1>2, HeaderRead DEF WholePacket
<1>4. Decode(buf).length = 2 /\ k \in Nat /\ k + 1 = Decode(buf).start /\ Stands(WriteInt(id), buf, k)
  BY <1>2 DEF WholePacket
<1> HIDE DEF k
<1>5. ReadInt(buf, k + 1) = id
  BY <1>4, IntRead
<1>6. DeserializeAck(buf) = [type |-> type, id |-> id, arg |-> 0]
  BY <1>3, <1>4, <1>5 DEF DeserializeAck
<1> QED
  BY <1>3, <1>6 DEF buf

\* The packets that have nothing but a type.
LEMMA ZeroWritten ==
  ASSUME NEW type \in DOMAIN TypeCode
  PROVE  WholePacket(SerializeZero(type), Header(type, 0), 0, <<>>)
<1> DEFINE header == Header(type, 0)
           none == <<>>
<1>1. header \in Nat
  BY HeaderNat
<1>2. none \in Seq(Nat) /\ Len(none) = 0 /\ Nat \subseteq Nat
  OBVIOUS
<1>3. SerializeZero(type) = <<header>> \o Encode[0]
  BY DEF SerializeZero
<1> HIDE DEF header, none
<1>4. LET buf == <<header>> \o Encode[0] \o none IN buf \in Seq(Nat) /\ WholePacket(buf, header, 0, none)
  BY <1>1, <1>2, ShortLengths, PacketWhole
<1>5. <<header>> \in Seq(Nat) /\ Encode[0] \in Seq(Nat)
  BY <1>1, ShortLengths, EncodeEncodes DEF EncodedAs
<1>6. <<header>> \o Encode[0] \in Seq(Nat)
  BY <1>5, PartsStand
<1>7. <<header>> \o Encode[0] \o none = <<header>> \o Encode[0]
  BY <1>6, ConcatEmptySeq DEF none
<1> QED
  BY <1>3, <1>4, <1>7 DEF header, none

LEMMA ZeroWhole ==
  ASSUME NEW type \in DOMAIN TypeCode, NEW buflen \in 0 .. MaxLength, 4 <= buflen
  PROVE  FrameWhole(SerializeZero(type), buflen)
<1>1. PacketLen(0) <= buflen /\ 0 \in Nat
  BY ShortLengths, MaxLengthNat
<1> QED
  BY <1>1, ZeroWritten, WholeMeansFrame

LEMMA ZeroRead ==
  ASSUME NEW type \in DOMAIN TypeCode
  PROVE  TypeOf(SerializeZero(type)) = type
<1>1. SerializeZero(type)[1] = Header(type, 0) /\ 0 \in 0 .. 3
  BY ZeroWritten DEF WholePacket
<1> QED
  BY <1>1, HeaderRead

\* What the broker answers to a connection and to a subscription.
LEMMA ConnackRead ==
  ASSUME NEW rc \in Nat
  PROVE  LET buf == <<Header("CONNACK", 0)>> \o Encode[2] \o <<0, rc>>
         IN  TypeOf(buf) = "CONNACK" /\ DeserializeConnack(buf) = [type |-> "CONNACK", id |-> 0, arg |-> rc]
<1> DEFINE header == Header("CONNACK", 0)
           rest == <<0, rc>>
           buf == <<header>> \o Encode[2] \o rest
<1>1. "CONNACK" \in DOMAIN TypeCode
  BY DEF TypeCode
<1>2. header \in Nat
  BY <1>1, HeaderNat
<1>3. rest \in Seq(Nat) /\ Len(rest) = 2 /\ rest[2] = rc /\ Nat \subseteq Nat
  OBVIOUS
<1> HIDE DEF header, rest
<1>4. WholePacket(buf, header, 2, rest)
  BY <1>2, <1>3, ShortLengths, PacketWhole
<1> HIDE DEF buf
<1>5. TypeOf(buf) = "CONNACK"
  <2>1. buf[1] = Header("CONNACK", 0) /\ 0 \in 0 .. 3
    BY <1>4 DEF WholePacket, header
  <2> QED
    BY <1>1, <2>1, HeaderRead
<1>6. Decode(buf).length = 2 /\ buf[Decode(buf).start + 1] = rc
  <2> DEFINE start == Decode(buf).start
  <2>1. Decode(buf).length = 2 /\ start \in Nat \ {0} /\ Stands(rest, buf, start - 1)
    BY <1>4 DEF WholePacket
  <2> HIDE DEF start
  <2>2. 2 \in 1 .. Len(rest)
    BY <1>3
  <2>3. buf[start - 1 + 2] = rest[2]
    BY <2>1, <2>2 DEF Stands
  <2>4. start - 1 + 2 = start + 1
    BY <2>1
  <2> QED
    BY <1>3, <2>1, <2>3, <2>4 DEF start
<1>7. DeserializeConnack(buf) = [type |-> "CONNACK", id |-> 0, arg |-> rc]
  BY <1>6 DEF DeserializeConnack
<1> QED
  BY <1>5, <1>7 DEF buf, header, rest

LEMMA SubackRead ==
  ASSUME NEW id \in Words, NEW granted \in Nat
  PROVE  LET buf == <<Header("SUBACK", 0)>> \o Encode[3] \o WriteInt(id) \o <<granted>>
         IN  TypeOf(buf) = "SUBACK" /\ DeserializeSuback(buf) = [type |-> "SUBACK", id |-> id, arg |-> granted]
<1> DEFINE header == Header("SUBACK", 0)
           number == WriteInt(id)
           last == <<granted>>
           rest == number \o last
           buf == <<header>> \o Encode[3] \o rest
<1>1. "SUBACK" \in DOMAIN TypeCode /\ id \in Nat
  BY WordsAreNumbers DEF TypeCode
<1>2. header \in Nat
  BY <1>1, HeaderNat
<1>3. number \in Seq(Nat) /\ Len(number) = 2 /\ Nat \subseteq Nat
  BY <1>1, IntTyped
<1>4. last \in Seq(Nat) /\ Len(last) = 1 /\ last[1] = granted
  OBVIOUS
<1>5. <<header>> \in Seq(Nat) /\ Encode[3] \in Seq(Nat)
  <2>1. Encode[3] \in Seq(Nat)
    BY ShortLengths, EncodeEncodes DEF EncodedAs
  <2> HIDE DEF header
  <2> QED
    BY <1>2, <2>1
<1> HIDE DEF header, number, last
<1>6. rest \in Seq(Nat) /\ Len(rest) = 3 /\ Stands(number, rest, 0) /\ Stands(last, rest, 2)
  <2>1. /\ rest \in Seq(Nat) /\ Len(rest) = Len(number) + Len(last)
        /\ Stands(number, rest, 0) /\ Stands(last, rest, Len(number))
    BY <1>3, <1>4, PartsStand
  <2> HIDE DEF rest
  <2> QED
    BY <1>3, <1>4, <2>1
<1>7. <<header>> \o Encode[3] \o number \o last = buf
  <2> DEFINE front == <<header>> \o Encode[3]
  <2>1. front \in Seq(Nat)
    BY <1>5, PartsStand
  <2> HIDE DEF front
  <2>2. (front \o number) \o last = front \o (number \o last)
    <3>1. \A s, t, u \in Seq(Nat) : (s \o t) \o u = s \o (t \o u)
      BY ConcatAssociative, SMTT(60)
    <3> QED
      BY <1>3, <1>4, <2>1, <3>1
  <2> QED
    BY <2>2 DEF front
<1> HIDE DEF rest
<1>8. WholePacket(buf, header, 3, rest)
  BY <1>2, <1>3, <1>6, ShortLengths, PacketWhole
<1> HIDE DEF buf
<1>9. TypeOf(buf) = "SUBACK"
  <2>1. buf[1] = Header("SUBACK", 0) /\ 0 \in 0 .. 3
    BY <1>8 DEF WholePacket, header
  <2> QED
    BY <1>1, <2>1, HeaderRead
<1>10. Decode(buf).length = 3 /\ ReadInt(buf, Decode(buf).start) = id /\ buf[Decode(buf).start + 2] = granted
  <2> DEFINE k == Decode(buf).start - 1
  <2>1. Decode(buf).length = 3 /\ k \in Nat /\ k + 1 = Decode(buf).start /\ Stands(rest, buf, k)
    BY <1>8 DEF WholePacket
  <2> HIDE DEF k
  <2>2. Stands(number, buf, k)
    <3>1. 0 + Len(number) <= Len(rest) /\ Len(number) \in Nat /\ Len(rest) \in Nat /\ 0 \in Nat
      BY <1>3, <1>6
    <3>2. Stands(number, buf, k + 0)
      BY <1>6, <2>1, <3>1, PartOfPart
    <3> QED
      BY <2>1, <3>2
  <2>3. Stands(last, buf, k + 2)
    <3>1. 2 + Len(last) <= Len(rest) /\ Len(last) \in Nat /\ Len(rest) \in Nat /\ 2 \in Nat
      BY <1>4, <1>6
    <3> QED
      BY <1>6, <2>1, <3>1, PartOfPart
  <2>4. ReadInt(buf, k + 1) = id
    BY <2>1, <2>2, IntRead DEF number
  <2>5. buf[k + 2 + 1] = granted
    <3>1. 1 \in 1 .. Len(last)
      BY <1>4
    <3> QED
      BY <1>4, <2>3, <3>1 DEF Stands
  <2>6. k + 2 + 1 = Decode(buf).start + 2
    BY <2>1
  <2> QED
    BY <2>1, <2>4, <2>5, <2>6
<1>11. DeserializeSuback(buf) = [type |-> "SUBACK", id |-> id, arg |-> granted]
  BY <1>10 DEF DeserializeSuback
<1> QED
  BY <1>7, <1>9, <1>11 DEF header, number, last

-----------------------------------------------------------------------------
(* What is written is read: the fields of a text *)

\* How quotes, colons, commas and braces cut a text into fields, whatever stands
\* in between: behind index a quoted key, a colon and, behind blanks, a value that
\* ends with a comma or a brace.
IsCut(data, index, keyStart, keyEnd, colon, valueStart, valueEnd) ==
  /\ index < keyStart /\ keyStart < keyEnd /\ keyEnd < colon
  /\ colon < valueStart /\ valueStart <= valueEnd /\ valueEnd <= Len(data)
  /\ data[keyStart] = Quote /\ \A i \in index + 1 .. keyStart - 1 : data[i] # Quote
  /\ data[keyEnd] = Quote /\ \A i \in keyStart + 1 .. keyEnd - 1 : data[i] # Quote
  /\ data[colon] = Colon /\ \A i \in keyEnd .. colon - 1 : data[i] # Colon
  /\ data[valueStart] # Blank /\ \A i \in colon + 1 .. valueStart - 1 : data[i] = Blank
  /\ data[valueEnd] \in Ends
  /\ \A i \in valueStart .. valueEnd - 1 : data[i] \notin Ends

\* A field that ends at end.
CutAt(data, index, field, end) ==
  \E keyStart, keyEnd \in Positions(data, {Quote}), colon \in Positions(data, {Colon}),
     valueStart \in 1 .. Len(data) :
    /\ IsCut(data, index, keyStart, keyEnd, colon, valueStart, end)
    /\ field = [key   |-> SubSeq(data, keyStart + 1, keyEnd - 1),
                value |-> SubSeq(data, valueStart, end - 1)]

\* Behind the brace come the fields, each where the last one ended, and then no
\* more quotes.
Cuts(data, fields) ==
  \E at \in [1 .. Len(fields) + 1 -> {0} \cup Positions(data, {Begin} \cup Ends)] :
    /\ at[1] = Find(data, Begin, 1)
    /\ \A i \in 1 .. Len(fields) : CutAt(data, at[i], fields[i], at[i + 1])
    /\ \A i \in at[Len(fields) + 1] + 1 .. Len(data) : data[i] # Quote

LEMMA TokensDiffer ==
  /\ Quote # Colon /\ Blank \notin Ends /\ End # Quote
  /\ Blank # Quote /\ Blank # Colon /\ Blank # Begin
BY Zenon DEF Quote, Colon, Blank, Ends, Comma, End, Begin

\* The least number of a set is the one below which there is none.
LEMMA MinIsFirst ==
  ASSUME NEW S \in SUBSET Nat, NEW x \in S, \A y \in S : x <= y
  PROVE  Min(S) = x
<1>1. \A z \in S : (\A y \in S : z <= y) => z = x
  OBVIOUS
<1> QED
  BY <1>1, Zenon DEF Min

LEMMA FindAnyIs ==
  ASSUME NEW T, NEW data \in Seq(T), NEW tokens, NEW i \in Nat, NEW k \in i .. Len(data),
         i > 0, data[k] \in tokens, \A j \in i .. k - 1 : data[j] \notin tokens
  PROVE  FindAny(data, tokens, i) = k
<1> DEFINE found == {j \in i .. Len(data) : data[j] \in tokens}
<1>1. found \in SUBSET Nat /\ k \in found
  OBVIOUS
<1>2. \A y \in found : k <= y
  OBVIOUS
<1> HIDE DEF found
<1>3. Min(found) = k /\ found # {}
  BY <1>1, <1>2, MinIsFirst
<1> QED
  BY <1>3 DEF found, FindAny

LEMMA SkipBlanksIs ==
  ASSUME NEW T, NEW data \in Seq(T), NEW i \in Nat, NEW k \in i .. Len(data),
         i > 0, data[k] # Blank, \A j \in i .. k - 1 : data[j] = Blank
  PROVE  SkipBlanks(data, i) = k
<1> DEFINE found == {j \in i .. Len(data) : data[j] # Blank}
<1>1. found \in SUBSET Nat /\ k \in found
  OBVIOUS
<1>2. \A y \in found : k <= y
  OBVIOUS
<1> HIDE DEF found
<1>3. Min(found) = k
  BY <1>1, <1>2, MinIsFirst
<1> QED
  BY <1>3 DEF found, SkipBlanks

FieldIsRead(data, index, keyStart, keyEnd, valueStart, valueEnd) ==
  /\ HasNext(data, index)
  /\ NextField(data, index) =
       [key   |-> SubSeq(data, keyStart + 1, keyEnd - 1),
        value |-> SubSeq(data, valueStart, valueEnd - 1),
        index |-> valueEnd]

LEMMA NextFieldIs ==
  ASSUME NEW T, NEW data \in Seq(T), NEW index \in Nat, NEW keyStart \in Nat, NEW keyEnd \in Nat,
         NEW colon \in Nat, NEW valueStart \in Nat, NEW valueEnd \in Nat,
         IsCut(data, index, keyStart, keyEnd, colon, valueStart, valueEnd)
  PROVE  FieldIsRead(data, index, keyStart, keyEnd, valueStart, valueEnd)
<1>0. /\ index < keyStart /\ keyStart < keyEnd /\ keyEnd < colon
      /\ colon < valueStart /\ valueStart <= valueEnd /\ valueEnd <= Len(data)
  BY Zenon DEF IsCut
<1>1. FindAny(data, {Quote}, index + 1) = keyStart
  <2>1. data[keyStart] \in {Quote} /\ \A i \in index + 1 .. keyStart - 1 : data[i] \notin {Quote}
    BY Zenon DEF IsCut
  <2>2. index + 1 \in Nat /\ index + 1 > 0 /\ keyStart \in index + 1 .. Len(data)
    BY <1>0, SMT
  <2> QED
    BY <2>1, <2>2, FindAnyIs
<1>2. FindAny(data, {Quote}, keyStart + 1) = keyEnd
  <2>1. data[keyEnd] \in {Quote} /\ \A i \in keyStart + 1 .. keyEnd - 1 : data[i] \notin {Quote}
    BY Zenon DEF IsCut
  <2>2. keyStart + 1 \in Nat /\ keyStart + 1 > 0 /\ keyEnd \in keyStart + 1 .. Len(data)
    BY <1>0, SMT
  <2> QED
    BY <2>1, <2>2, FindAnyIs
<1>3. FindAny(data, {Colon}, keyEnd) = colon
  <2>1. data[colon] \in {Colon} /\ \A i \in keyEnd .. colon - 1 : data[i] \notin {Colon}
    BY Zenon DEF IsCut
  <2>2. keyEnd \in Nat /\ keyEnd > 0 /\ colon \in keyEnd .. Len(data)
    BY <1>0, SMT
  <2> QED
    BY <2>1, <2>2, FindAnyIs
<1>4. SkipBlanks(data, colon + 1) = valueStart
  <2>1. data[valueStart] # Blank /\ \A i \in colon + 1 .. valueStart - 1 : data[i] = Blank
    BY Zenon DEF IsCut
  <2>2. colon + 1 \in Nat /\ colon + 1 > 0 /\ valueStart \in colon + 1 .. Len(data)
    BY <1>0, SMT
  <2> QED
    BY <2>1, <2>2, SkipBlanksIs
<1>5. FindAny(data, Ends, valueStart) = valueEnd
  <2>1. data[valueEnd] \in Ends /\ \A i \in valueStart .. valueEnd - 1 : data[i] \notin Ends
    BY Zenon DEF IsCut
  <2>2. valueStart \in Nat /\ valueStart > 0 /\ valueEnd \in valueStart .. Len(data)
    BY <1>0, SMT
  <2> QED
    BY <2>1, <2>2, FindAnyIs
<1>6. keyStart # 0
  BY <1>0, SMT
<1>7. HasNext(data, index)
  BY <1>1, <1>6 DEF HasNext, Find
<1>8. /\ Find(data, Quote, index + 1) = keyStart
      /\ Find(data, Quote, keyStart + 1) = keyEnd
      /\ SkipBlanks(data, Find(data, Colon, keyEnd) + 1) = valueStart
  BY <1>1, <1>2, <1>3, <1>4 DEF Find
<1> QED
  BY <1>5, <1>7, <1>8, Zenon DEF NextField, FieldIsRead

\* Where the reader stands when a field follows: at the brace or at the comma.
Index(data) == IF Len(data) > 1 THEN Len(data) + 1 ELSE 1

\* The key ends at the next quote, the value at the next comma or brace.
IsKey(key) == \A i \in 1 .. Len(key) : key[i] # Quote

IsValue(value) ==
  /\ \A i \in 1 .. Len(value) : value[i] \notin Ends
  /\ value # <<>> => value[1] # Blank

\* The text of a field that has been added, and what comes after it.
Added(T, data, head, key, value, rest) ==
  LET text == AddLiteral(data, key, value) \o rest
      n    == Len(head)
      k    == Len(key)
      v    == Len(value)
  IN  /\ text \in Seq(T) /\ Len(text) = n + k + v + 3 + Len(rest)
      /\ Len(AddLiteral(data, key, value)) = n + k + v + 3
      /\ Stands(head, text, 0) /\ Stands(<<Quote>>, text, n) /\ Stands(key, text, n + 1)
      /\ Stands(<<Quote, Colon>>, text, n + k + 1) /\ Stands(value, text, n + k + 3)
      /\ Stands(rest, text, n + k + 3 + v)

Opened(data) == IF Len(data) > 1 THEN Append(data, Comma) ELSE data

LEMMA AddedStands ==
  ASSUME NEW T, Quote \in T, Colon \in T, Comma \in T, NEW data \in Seq(T), NEW key \in Seq(T),
         NEW value \in Seq(T), NEW rest \in Seq(T)
  PROVE  Added(T, data, Opened(data), key, value, rest)
<1> DEFINE head == Opened(data)
           q == <<Quote>>
           c == <<Quote, Colon>>
           n == Len(head)
           k == Len(key)
           v == Len(value)
           f1 == head \o q
           f2 == f1 \o key
           f3 == f2 \o c
           f4 == f3 \o value
           text == f4 \o rest
<1>1. /\ head \in Seq(T) /\ q \in Seq(T) /\ Len(q) = 1 /\ c \in Seq(T) /\ Len(c) = 2
      /\ n \in Nat /\ k \in Nat /\ v \in Nat
  BY DEF Opened
<1>2. AddLiteral(data, key, value) = f4
  BY DEF AddLiteral, Opened
<1> HIDE DEF head, q, c
<1>3. f1 \in Seq(T) /\ Len(f1) = n + 1 /\ Stands(head, f1, 0) /\ Stands(q, f1, n)
  BY <1>1, PartsStand
<1> HIDE DEF f1
<1>4. f2 \in Seq(T) /\ Len(f2) = n + 1 + k /\ Stands(f1, f2, 0) /\ Stands(key, f2, n + 1)
  <2>1. f2 \in Seq(T) /\ Len(f2) = Len(f1) + k /\ Stands(f1, f2, 0) /\ Stands(key, f2, Len(f1))
    BY <1>3, PartsStand
  <2> QED
    BY <1>3, <2>1
<1> HIDE DEF f2
<1>5. f3 \in Seq(T) /\ Len(f3) = n + k + 3 /\ Stands(f2, f3, 0) /\ Stands(c, f3, n + k + 1)
  <2>1. f3 \in Seq(T) /\ Len(f3) = Len(f2) + Len(c) /\ Stands(f2, f3, 0) /\ Stands(c, f3, Len(f2))
    BY <1>1, <1>4, PartsStand
  <2>2. Len(f2) = n + k + 1 /\ Len(f2) + Len(c) = n + k + 3
    BY <1>1, <1>4
  <2> QED
    BY <2>1, <2>2
<1> HIDE DEF f3
<1>6. f4 \in Seq(T) /\ Len(f4) = n + k + v + 3 /\ Stands(f3, f4, 0) /\ Stands(value, f4, n + k + 3)
  <2>1. f4 \in Seq(T) /\ Len(f4) = Len(f3) + v /\ Stands(f3, f4, 0) /\ Stands(value, f4, Len(f3))
    BY <1>5, PartsStand
  <2>2. Len(f3) + v = n + k + v + 3
    BY <1>1, <1>5
  <2> QED
    BY <1>5, <2>1, <2>2
<1> HIDE DEF f4
<1>7. /\ text \in Seq(T) /\ Len(text) = n + k + v + 3 + Len(rest)
      /\ Stands(f4, text, 0) /\ Stands(rest, text, n + k + 3 + v)
  <2>1. text \in Seq(T) /\ Len(text) = Len(f4) + Len(rest) /\ Stands(f4, text, 0) /\ Stands(rest, text, Len(f4))
    BY <1>6, PartsStand
  <2>2. Len(f4) = n + k + 3 + v
    BY <1>1, <1>6
  <2> QED
    BY <1>6, <2>1, <2>2
<1> HIDE DEF text, n, k, v
<1>8. Stands(f3, text, 0) /\ Stands(value, text, n + k + 3)
  <2>1. Stands(f3, text, 0 + 0) /\ Stands(value, text, 0 + (n + k + 3))
    <3>1. /\ Len(f3) \in Nat /\ Len(f4) \in Nat /\ Len(value) \in Nat /\ n + k + 3 \in Nat
          /\ 0 + Len(f3) <= Len(f4) /\ n + k + 3 + Len(value) <= Len(f4)
      BY <1>1, <1>5, <1>6 DEF v
    <3> QED
      BY <1>6, <1>7, <3>1, PartOfPart
  <2>2. 0 + (n + k + 3) = n + k + 3
    BY <1>1
  <2> QED
    BY <2>1, <2>2
<1>9. Stands(f2, text, 0) /\ Stands(c, text, n + k + 1)
  <2>1. Stands(f2, text, 0 + 0) /\ Stands(c, text, 0 + (n + k + 1))
    <3>1. /\ Len(f2) \in Nat /\ Len(f3) \in Nat /\ Len(c) \in Nat /\ n + k + 1 \in Nat
          /\ 0 + Len(f2) <= Len(f3) /\ n + k + 1 + Len(c) <= Len(f3)
      BY <1>1, <1>4, <1>5
    <3> QED
      BY <1>5, <1>8, <3>1, PartOfPart
  <2>2. 0 + (n + k + 1) = n + k + 1
    BY <1>1
  <2> QED
    BY <2>1, <2>2
<1>10. Stands(f1, text, 0) /\ Stands(key, text, n + 1)
  <2>1. Stands(f1, text, 0 + 0) /\ Stands(key, text, 0 + (n + 1))
    <3>1. /\ Len(f1) \in Nat /\ Len(f2) \in Nat /\ Len(key) \in Nat /\ n + 1 \in Nat
          /\ 0 + Len(f1) <= Len(f2) /\ n + 1 + Len(key) <= Len(f2)
      BY <1>1, <1>3, <1>4 DEF k
    <3> QED
      BY <1>4, <1>9, <3>1, PartOfPart
  <2>2. 0 + (n + 1) = n + 1
    BY <1>1
  <2> QED
    BY <2>1, <2>2
<1>11. Stands(head, text, 0) /\ Stands(q, text, n)
  <2>1. Stands(head, text, 0 + 0) /\ Stands(q, text, 0 + n)
    <3>1. /\ Len(head) \in Nat /\ Len(f1) \in Nat /\ Len(q) \in Nat
          /\ 0 + Len(head) <= Len(f1) /\ n + Len(q) <= Len(f1)
      BY <1>1, <1>3 DEF n
    <3> QED
      BY <1>1, <1>3, <1>10, <3>1, PartOfPart
  <2>2. 0 + n = n
    BY <1>1
  <2> QED
    BY <2>1, <2>2
<1>12. text = AddLiteral(data, key, value) \o rest
  BY <1>2 DEF text
<1>13. Len(AddLiteral(data, key, value)) = n + k + v + 3
  BY <1>2, <1>6
<1>14. /\ n = Len(Opened(data)) /\ k = Len(key) /\ v = Len(value)
       /\ head = Opened(data) /\ q = <<Quote>> /\ c = <<Quote, Colon>>
  BY DEF n, k, v, head, q, c
<1> QED
  BY <1>7, <1>8, <1>9, <1>10, <1>11, <1>12, <1>13, <1>14, Zenon DEF Added

\* A field is what the next turn of the loop reads.
TurnReads(data, index, field, end) ==
  \A last : last.index = index =>
    Turn(data, last) = [fields |-> Append(last.fields, field), index |-> end]

LEMMA FieldIsNext ==
  ASSUME NEW T, NEW data \in Seq(T), NEW index \in Nat, NEW end \in Nat, NEW field,
         CutAt(data, index, field, end)
  PROVE  /\ HasNext(data, index)
         /\ NextField(data, index) = [key |-> field.key, value |-> field.value, index |-> end]
         /\ TurnReads(data, index, field, end)
         /\ \E q \in index + 1 .. end : q \in 1 .. Len(data) /\ data[q] = Quote
<1>1. PICK keyStart \in Nat, keyEnd \in Nat, colon \in Nat, valueStart \in Nat :
        /\ IsCut(data, index, keyStart, keyEnd, colon, valueStart, end)
        /\ field = [key   |-> SubSeq(data, keyStart + 1, keyEnd - 1),
                    value |-> SubSeq(data, valueStart, end - 1)]
  <2>1. Positions(data, {Quote}) \subseteq Nat /\ Positions(data, {Colon}) \subseteq Nat /\ 1 .. Len(data) \subseteq Nat
    BY DEF Positions
  <2> QED
    BY <2>1, Zenon DEF CutAt
<1> DEFINE key == SubSeq(data, keyStart + 1, keyEnd - 1)
           value == SubSeq(data, valueStart, end - 1)
<1>2. FieldIsRead(data, index, keyStart, keyEnd, valueStart, end)
  BY <1>1, NextFieldIs
<1>3. HasNext(data, index) /\ NextField(data, index) = [key |-> key, value |-> value, index |-> end]
  BY <1>2, Zenon DEF FieldIsRead
<1>4. field = [key |-> key, value |-> value]
  BY <1>1
<1> HIDE DEF key, value
<1>5. field.key = key /\ field.value = value
  BY <1>4
<1>6. NextField(data, index) = [key |-> field.key, value |-> field.value, index |-> end]
  BY <1>3, <1>5
<1>7. TurnReads(data, index, field, end)
  <2> SUFFICES ASSUME NEW last, last.index = index
               PROVE  Turn(data, last) = [fields |-> Append(last.fields, field), index |-> end]
    BY DEF TurnReads
  <2>1. /\ NextField(data, index).key = key /\ NextField(data, index).value = value
        /\ NextField(data, index).index = end
    BY <1>3
  <2> QED
    BY <1>3, <1>4, <2>1, Zenon DEF Turn
<1>8. /\ index < keyStart /\ keyStart < keyEnd /\ keyEnd < colon /\ colon < valueStart
      /\ valueStart <= end /\ end <= Len(data) /\ data[keyStart] = Quote
  BY <1>1, Zenon DEF IsCut
<1>9. keyStart \in index + 1 .. end /\ keyStart \in 1 .. Len(data)
  BY <1>8
<1> QED
  BY <1>3, <1>6, <1>7, <1>8, <1>9

\* A field that has been added is one.
LEMMA AddedIsCut ==
  ASSUME NEW T, Quote \in T, Colon \in T, Comma \in T, NEW data \in Seq(T), data # <<>>,
         NEW key \in Seq(T), IsKey(key), NEW value \in Seq(T), IsValue(value),
         NEW rest \in Seq(T), rest # <<>>, rest[1] \in Ends
  PROVE  LET text == AddLiteral(data, key, value) \o rest
         IN  CutAt(text, Index(data), [key |-> key, value |-> value], Index(AddLiteral(data, key, value)))
<1> DEFINE head == Opened(data)
           text == AddLiteral(data, key, value) \o rest
           n == Len(head)
           k == Len(key)
           v == Len(value)
           keyStart == n + 1
           keyEnd == n + k + 2
           colon == n + k + 3
           valueStart == n + k + 4
           valueEnd == n + k + 4 + v
<1>1. /\ n \in Nat /\ k \in Nat /\ v \in Nat /\ Len(rest) \in Nat /\ Len(rest) >= 1
      /\ Index(data) = n
  BY DEF Opened, Index
<1>2. Added(T, data, head, key, value, rest)
  BY AddedStands
<1>3. /\ text \in Seq(T) /\ Len(text) = n + k + v + 3 + Len(rest)
      /\ Len(AddLiteral(data, key, value)) = n + k + v + 3
      /\ Stands(<<Quote>>, text, n) /\ Stands(key, text, n + 1)
      /\ Stands(<<Quote, Colon>>, text, n + k + 1) /\ Stands(value, text, n + k + 3)
      /\ Stands(rest, text, n + k + 3 + v)
  BY <1>2, Zenon DEF Added
<1> HIDE DEF head, text, n, k, v
<1>4. /\ text[keyStart] = Quote /\ text[keyEnd] = Quote /\ text[colon] = Colon
      /\ text[valueEnd] \in Ends
  <2>1. text[n + 1] = Quote
    BY <1>3 DEF Stands
  <2>2. text[n + k + 1 + 1] = Quote /\ text[n + k + 1 + 2] = Colon
    BY <1>3 DEF Stands
  <2>3. text[n + k + 3 + v + 1] = rest[1]
    BY <1>1, <1>3 DEF Stands
  <2>4. /\ n + k + 1 + 1 = keyEnd /\ n + k + 1 + 2 = colon /\ n + k + 3 + v + 1 = valueEnd
    BY <1>1
  <2> QED
    BY <2>1, <2>2, <2>3, <2>4
<1>5. ASSUME NEW i \in keyStart + 1 .. keyEnd - 1 PROVE text[i] # Quote
  <2>1. i - n - 1 \in 1 .. k /\ n + 1 + (i - n - 1) = i
    BY <1>1
  <2>2. text[n + 1 + (i - n - 1)] = key[i - n - 1]
    BY <1>3, <2>1 DEF Stands, k
  <2> QED
    BY <2>1, <2>2 DEF IsKey, k
<1>6. \A i \in keyEnd .. colon - 1 : text[i] # Colon
  BY <1>1, <1>4, TokensDiffer
<1>7. ASSUME NEW i \in valueStart .. valueEnd - 1 PROVE text[i] = value[i - n - k - 3] /\ i - n - k - 3 \in 1 .. v
  <2>1. i - n - k - 3 \in 1 .. v /\ n + k + 3 + (i - n - k - 3) = i
    BY <1>1
  <2>2. text[n + k + 3 + (i - n - k - 3)] = value[i - n - k - 3]
    BY <1>3, <2>1 DEF Stands, v
  <2> QED
    BY <2>1, <2>2
<1>8. \A i \in valueStart .. valueEnd - 1 : text[i] \notin Ends
  BY <1>7 DEF IsValue, v
<1>9. text[valueStart] # Blank
  <2>1. CASE v = 0
    <3>1. valueStart = valueEnd
      BY <1>1, <2>1
    <3> QED
      BY <1>4, <3>1, TokensDiffer
  <2>2. CASE v # 0
    <3>1. valueStart \in valueStart .. valueEnd - 1 /\ valueStart - n - k - 3 = 1
      BY <1>1, <2>2
    <3>2. value # <<>>
      BY <2>2 DEF v
    <3>3. text[valueStart] = value[1]
      BY <1>7, <3>1
    <3> QED
      BY <3>2, <3>3 DEF IsValue
  <2> QED
    BY <2>1, <2>2
<1>10. IsCut(text, n, keyStart, keyEnd, colon, valueStart, valueEnd)
  <2>1. /\ n < keyStart /\ keyStart < keyEnd /\ keyEnd < colon
        /\ colon < valueStart /\ valueStart <= valueEnd /\ valueEnd <= Len(text)
    BY <1>1, <1>3
  <2>2. \A i \in n + 1 .. keyStart - 1 : text[i] # Quote
    BY <1>1
  <2>3. \A i \in colon + 1 .. valueStart - 1 : text[i] = Blank
    BY <1>1
  <2> HIDE DEF keyStart, keyEnd, colon, valueStart, valueEnd
  <2> QED
    BY <1>4, <1>5, <1>6, <1>8, <1>9, <2>1, <2>2, <2>3, Zenon DEF IsCut
<1>11. /\ keyStart \in Nat /\ keyEnd \in Nat /\ colon \in Nat /\ valueStart \in Nat /\ valueEnd \in Nat
       /\ keyStart + 1 = n + 1 + 1 /\ keyEnd - 1 = n + 1 + k
       /\ valueStart = n + k + 3 + 1 /\ valueEnd - 1 = n + k + 3 + v
  BY <1>1
<1>12. SubSeq(text, n + 1 + 1, n + 1 + k) = key
  <2>1. n + 1 \in Nat /\ n + 1 + k <= Len(text) /\ k = Len(key)
    BY <1>1, <1>3 DEF k
  <2> QED
    BY <1>3, <2>1, PartIsSubSeq
<1>13. SubSeq(text, n + k + 3 + 1, n + k + 3 + v) = value
  <2>1. n + k + 3 \in Nat /\ n + k + 3 + v <= Len(text) /\ v = Len(value)
    BY <1>1, <1>3 DEF v
  <2> QED
    BY <1>3, <2>1, PartIsSubSeq
<1>14. valueEnd = Index(AddLiteral(data, key, value))
  BY <1>1, <1>3 DEF Index
<1> HIDE DEF keyStart, keyEnd, colon, valueStart, valueEnd
<1>15. key = SubSeq(text, keyStart + 1, keyEnd - 1) /\ value = SubSeq(text, valueStart, valueEnd - 1)
  BY <1>11, <1>12, <1>13, Zenon
<1>16. CutAt(text, n, [key |-> key, value |-> value], valueEnd)
  <2>1. /\ n < keyStart /\ keyStart < keyEnd /\ keyEnd < colon
        /\ colon < valueStart /\ valueStart <= valueEnd /\ valueEnd <= Len(text)
    BY <1>10, Zenon DEF IsCut
  <2>2. {keyStart, keyEnd, colon, valueStart} \subseteq 1 .. Len(text)
    BY <1>1, <1>3, <1>11, <2>1
  <2>3. keyStart \in Positions(text, {Quote}) /\ keyEnd \in Positions(text, {Quote}) /\ colon \in Positions(text, {Colon})
    BY <1>4, <2>2, Zenon DEF Positions
  <2> QED
    BY <1>10, <1>15, <2>2, <2>3, Zenon DEF CutAt
<1> QED
  BY <1>1, <1>14, <1>16, Zenon DEF text

\* Every set of numbers that has members has a least one.
LEMMA Least ==
  ASSUME NEW T, T \subseteq Nat, T # {}
  PROVE  \E x \in T : \A y \in T : x <= y
<1>1. PICK x \in T : \A y \in T : ~(<<y, x>> \in OpToRel(<, Nat))
  BY WFMin, NatLessThanWellFounded
<1>2. \A y \in T : ~(y < x)
  BY <1>1 DEF OpToRel
<1>3. \A y \in T : x <= y
  BY <1>2
<1> QED
  BY <1>3

\* The loop has a first, a second, ... turn: without the first number of turns
\* that it cannot have there is none.
LoopOf(data, N, f) ==
  f = [n \in 0 .. N |-> IF n = 0 THEN [fields |-> <<>>, index |-> Find(data, Begin, 1)]
                        ELSE Turn(data, f[n - 1])]

LEMMA LoopExists ==
  ASSUME NEW data, NEW N \in Nat
  PROVE  \E f : LoopOf(data, N, f)
<1> DEFINE Bad == {n \in Nat : ~\E f : LoopOf(data, n, f)}
           start == [fields |-> <<>>, index |-> Find(data, Begin, 1)]
<1>1. SUFFICES ASSUME Bad # {} PROVE FALSE
  OBVIOUS
<1>2. PICK x \in Bad : \A y \in Bad : x <= y
  BY <1>1, Least
<1>3. x # 0
  <2> DEFINE f == [n \in 0 .. 0 |-> start]
  <2>1. LoopOf(data, 0, f)
    BY DEF LoopOf
  <2> QED
    BY <2>1
<1>4. x - 1 \in Nat /\ x - 1 \notin Bad
  BY <1>2, <1>3
<1>5. PICK f : LoopOf(data, x - 1, f)
  BY <1>4
<1> HIDE DEF Bad
<1> DEFINE g == [n \in 0 .. x |-> IF n = x THEN Turn(data, f[x - 1]) ELSE f[n]]
<1>6. x \in Nat
  BY <1>2 DEF Bad
<1>7. ASSUME NEW n \in 0 .. x PROVE g[n] = IF n = 0 THEN start ELSE Turn(data, g[n - 1])
  <2>1. CASE n = x
    <3>1. n - 1 \in 0 .. x /\ n - 1 # x
      BY <1>4, <1>6, <2>1
    <3>2. g[n - 1] = f[x - 1]
      BY <2>1, <3>1
    <3> QED
      BY <1>3, <2>1, <3>2
  <2>2. CASE n # x
    <3>1. n \in 0 .. x - 1 /\ (n # 0 => n - 1 \in 0 .. x /\ n - 1 # x)
      BY <1>6, <2>2
    <3>2. f[n] = IF n = 0 THEN start ELSE Turn(data, f[n - 1])
      BY <1>5, <3>1 DEF LoopOf
    <3>3. g[n] = f[n] /\ (n # 0 => g[n - 1] = f[n - 1])
      BY <2>2, <3>1
    <3> QED
      BY <3>2, <3>3
  <2> QED
    BY <2>1, <2>2
<1>8. LoopOf(data, x, g)
  <2>1. g = [n \in 0 .. x |-> g[n]]
    OBVIOUS
  <2> HIDE DEF g
  <2> QED
    BY <1>7, <2>1 DEF LoopOf
<1> QED
  BY <1>2, <1>8 DEF Bad

\* What holds of the turns of the loop.
LEMMA LoopTurns ==
  ASSUME NEW data, Quotes(data) \in Nat
  PROVE  /\ Loop(data)[0] = [fields |-> <<>>, index |-> Find(data, Begin, 1)]
         /\ \A n \in 1 .. Quotes(data) : Loop(data)[n] = Turn(data, Loop(data)[n - 1])
<1>1. \E f : LoopOf(data, Quotes(data), f)
  BY LoopExists
<1>2. LoopOf(data, Quotes(data), Loop(data))
  BY <1>1, Zenon DEF Loop, LoopOf
<1> DEFINE f == Loop(data)
<1> HIDE DEF f
<1>3. LoopOf(data, Quotes(data), f)
  BY <1>2 DEF f
<1>4. /\ f[0] = [fields |-> <<>>, index |-> Find(data, Begin, 1)]
      /\ \A n \in 1 .. Quotes(data) : f[n] = Turn(data, f[n - 1])
  BY <1>3 DEF LoopOf
<1> QED
  BY <1>4 DEF f

\* The writer likewise.
WriterOf(fields, N, f) ==
  f = [n \in 0 .. N |-> IF n = 0 THEN <<Begin>>
                        ELSE AddLiteral(f[n - 1], fields[n].key, fields[n].value)]

LEMMA WriterExists ==
  ASSUME NEW fields, NEW N \in Nat
  PROVE  \E f : WriterOf(fields, N, f)
<1> DEFINE Bad == {n \in Nat : ~\E f : WriterOf(fields, n, f)}
           Add(data, n) == AddLiteral(data, fields[n].key, fields[n].value)
<1>1. SUFFICES ASSUME Bad # {} PROVE FALSE
  OBVIOUS
<1>2. PICK x \in Bad : \A y \in Bad : x <= y
  BY <1>1, Least
<1>3. x # 0
  <2> DEFINE f == [n \in 0 .. 0 |-> <<Begin>>]
  <2>1. WriterOf(fields, 0, f)
    BY DEF WriterOf
  <2> QED
    BY <2>1
<1>4. x - 1 \in Nat /\ x - 1 \notin Bad
  BY <1>2, <1>3
<1>5. PICK f : WriterOf(fields, x - 1, f)
  BY <1>4
<1> HIDE DEF Bad
<1> DEFINE g == [n \in 0 .. x |-> IF n = x THEN Add(f[x - 1], x) ELSE f[n]]
<1>6. x \in Nat
  BY <1>2 DEF Bad
<1>7. ASSUME NEW n \in 0 .. x PROVE g[n] = IF n = 0 THEN <<Begin>> ELSE Add(g[n - 1], n)
  <2>1. CASE n = x
    <3>1. n - 1 \in 0 .. x /\ n - 1 # x
      BY <1>4, <1>6, <2>1
    <3>2. g[n - 1] = f[x - 1]
      BY <2>1, <3>1
    <3> QED
      BY <1>3, <2>1, <3>2
  <2>2. CASE n # x
    <3>1. n \in 0 .. x - 1 /\ (n # 0 => n - 1 \in 0 .. x /\ n - 1 # x)
      BY <1>6, <2>2
    <3>2. f[n] = IF n = 0 THEN <<Begin>> ELSE Add(f[n - 1], n)
      BY <1>5, <3>1 DEF WriterOf
    <3>3. g[n] = f[n] /\ (n # 0 => g[n - 1] = f[n - 1])
      BY <2>2, <3>1
    <3> QED
      BY <3>2, <3>3
  <2> QED
    BY <2>1, <2>2
<1>8. WriterOf(fields, x, g)
  <2>1. g = [n \in 0 .. x |-> g[n]]
    OBVIOUS
  <2> HIDE DEF g
  <2> QED
    BY <1>7, <2>1 DEF WriterOf
<1> QED
  BY <1>2, <1>8 DEF Bad

LEMMA WriterTurns ==
  ASSUME NEW fields, Len(fields) \in Nat
  PROVE  /\ Writer(fields)[0] = <<Begin>>
         /\ \A n \in 1 .. Len(fields) :
              Writer(fields)[n] = AddLiteral(Writer(fields)[n - 1], fields[n].key, fields[n].value)
<1>1. \E f : WriterOf(fields, Len(fields), f)
  BY WriterExists
<1>2. WriterOf(fields, Len(fields), Writer(fields))
  BY <1>1, Zenon DEF Writer, WriterOf
<1> DEFINE f == Writer(fields)
<1> HIDE DEF f
<1>3. WriterOf(fields, Len(fields), f)
  BY <1>2 DEF f
<1>4. /\ f[0] = <<Begin>>
      /\ \A n \in 1 .. Len(fields) : f[n] = AddLiteral(f[n - 1], fields[n].key, fields[n].value)
  BY <1>3 DEF WriterOf
<1> QED
  BY <1>4 DEF f

\* The prefixes of a sequence.
LEMMA Prefixes ==
  ASSUME NEW S, NEW s \in Seq(S)
  PROVE  /\ SubSeq(s, 1, 0) = <<>>
         /\ SubSeq(s, 1, Len(s)) = s
         /\ \A n \in 1 .. Len(s) : Append(SubSeq(s, 1, n - 1), s[n]) = SubSeq(s, 1, n)
<1>1. SubSeq(s, 1, 0) = <<>>
  OBVIOUS
<1>2. SubSeq(s, 1, Len(s)) = s
  OBVIOUS
<1>3. ASSUME NEW n \in 1 .. Len(s) PROVE Append(SubSeq(s, 1, n - 1), s[n]) = SubSeq(s, 1, n)
  <2> DEFINE p == SubSeq(s, 1, n - 1)
             q == SubSeq(s, 1, n)
             a == Append(p, s[n])
  <2>1. n \in Nat /\ Len(s) \in Nat /\ n - 1 \in 0 .. Len(s) /\ n \in 0 .. Len(s) /\ s[n] \in S
    OBVIOUS
  <2>2. p \in Seq(S) /\ Len(p) = n - 1 /\ \A i \in 1 .. n - 1 : p[i] = s[i]
    BY <2>1
  <2>3. q \in Seq(S) /\ Len(q) = n /\ \A i \in 1 .. n : q[i] = s[i]
    BY <2>1
  <2> HIDE DEF p, q
  <2>4. a \in Seq(S) /\ Len(a) = n /\ a[n] = s[n] /\ \A i \in 1 .. n - 1 : a[i] = s[i]
    BY <2>1, <2>2
  <2> HIDE DEF a
  <2>5. \A i \in 1 .. Len(a) : a[i] = q[i]
    BY <2>1, <2>3, <2>4
  <2>6. a = q
    BY <2>3, <2>4, <2>5, SeqEqual
  <2> QED
    BY <2>6 DEF a, p, q
<1> QED
  BY <1>1, <1>2, <1>3

\* Behind the last quote the loop stands still.
LEMMA NoneIsNext ==
  ASSUME NEW data, NEW index, \A i \in index + 1 .. Len(data) : data[i] # Quote
  PROVE  ~HasNext(data, index)
BY DEF HasNext, Find, FindAny

LEMMA Apart ==
  ASSUME NEW a \in Nat, NEW b \in Nat, NEW c \in Nat, NEW d \in Nat, b <= c,
         NEW x \in a + 1 .. b, NEW y \in c + 1 .. d
  PROVE  x < y
OBVIOUS

\* No text has more fields than quotes: each begins behind the one before.
LEMMA EnoughTurns ==
  ASSUME NEW T, NEW data \in Seq(T), NEW fields, NEW k \in Nat, NEW at \in [1 .. k + 1 -> Nat],
         \A i \in 1 .. k : CutAt(data, at[i], fields[i], at[i + 1])
  PROVE  Quotes(data) \in Nat /\ k <= Quotes(data)
<1> DEFINE Q == Positions(data, {Quote})
           first(i) == CHOOSE q \in at[i] + 1 .. at[i + 1] : q \in 1 .. Len(data) /\ data[q] = Quote
           f == [i \in 1 .. k |-> first(i)]
<1>1. IsFiniteSet(Q)
  <2>1. IsFiniteSet(1 .. Len(data))
    BY FS_Interval
  <2> QED
    BY <2>1, FS_Subset DEF Positions
<1>2. Quotes(data) \in Nat
  BY <1>1, FS_CardinalityType DEF Quotes
<1>3. ASSUME NEW i \in 1 .. k PROVE f[i] \in at[i] + 1 .. at[i + 1] /\ f[i] \in Q
  <2>1. at[i] \in Nat /\ at[i + 1] \in Nat
    OBVIOUS
  <2>2. \E q \in at[i] + 1 .. at[i + 1] : q \in 1 .. Len(data) /\ data[q] = Quote
    <3>1. CutAt(data, at[i], fields[i], at[i + 1])
      OBVIOUS
    <3> QED
      BY <2>1, <3>1, FieldIsNext
  <2> QED
    BY <2>2 DEF Positions
<1> HIDE DEF f
<1>4. ASSUME NEW i \in 1 .. k PROVE at[i] <= at[i + 1]
  <2>1. at[i] \in Nat /\ at[i + 1] \in Nat /\ f[i] \in at[i] + 1 .. at[i + 1]
    BY <1>3
  <2> QED
    BY <2>1
<1>5. \A i \in 1 .. k + 1 : \A j \in i .. k + 1 : at[i] <= at[j]
  <2> SUFFICES ASSUME NEW i \in 1 .. k + 1 PROVE \A j \in i .. k + 1 : at[i] <= at[j]
    OBVIOUS
  <2> DEFINE Bad == {j \in i .. k + 1 : ~(at[i] <= at[j])}
  <2>1. SUFFICES ASSUME Bad # {} PROVE FALSE
    OBVIOUS
  <2>2. PICK x \in Bad : \A y \in Bad : x <= y
    <3>1. Bad \subseteq Nat
      OBVIOUS
    <3> QED
      BY <2>1, <3>1, Least
  <2>3. x # i
    BY <2>2
  <2>4. x - 1 \in i .. k + 1 /\ x - 1 \in 1 .. k /\ x - 1 + 1 = x /\ x - 1 \notin Bad
    BY <2>2, <2>3
  <2>5. at[i] \in Nat /\ at[x - 1] \in Nat /\ at[x] \in Nat
    BY <2>2, <2>4
  <2>6. at[i] <= at[x - 1] /\ at[x - 1] <= at[x]
    BY <1>4, <2>4
  <2>7. at[i] <= at[x]
    BY <2>5, <2>6
  <2> QED
    BY <2>2, <2>7
<1>6. f \in Injection(1 .. k, Q)
  <2>1. f \in [1 .. k -> Q]
    BY <1>3 DEF f
  <2>2. ASSUME NEW i \in 1 .. k, NEW j \in 1 .. k, i < j PROVE f[i] < f[j]
    <3>1. at[i + 1] \in Nat /\ at[j] \in Nat /\ i + 1 \in 1 .. k + 1 /\ j \in i + 1 .. k + 1
      BY <2>2
    <3>2. at[i + 1] <= at[j]
      BY <1>5, <3>1
    <3>3. f[i] \in at[i] + 1 .. at[i + 1] /\ f[j] \in at[j] + 1 .. at[j + 1]
      BY <1>3
    <3>4. at[i] \in Nat /\ at[j + 1] \in Nat
      BY <2>2
    <3> HIDE DEF f
    <3> QED
      BY <3>1, <3>2, <3>3, <3>4, Apart
  <2>3. ASSUME NEW i \in 1 .. k, NEW j \in 1 .. k, f[i] = f[j] PROVE i = j
    <3>1. f[i] \in at[i] + 1 .. at[i + 1] /\ at[i] \in Nat /\ at[i + 1] \in Nat
      BY <1>3
    <3>2. f[i] \in Int
      BY <3>1
    <3>3. ~(f[i] < f[j]) /\ ~(f[j] < f[i])
      BY <2>3, <3>2
    <3>4. ~(i < j) /\ ~(j < i)
      BY <2>2, <3>3, Zenon
    <3> QED
      BY <3>4
  <2> QED
    BY <2>1, <2>3 DEF Injection, IsInjective
<1>7. Cardinality(1 .. k) = k
  BY FS_Interval
<1> HIDE DEF Q
<1>8. Cardinality(1 .. k) <= Cardinality(Q)
  BY <1>1, <1>6, FS_Injection
<1> QED
  BY <1>2, <1>7, <1>8 DEF Quotes, Q

\* After n turns the loop has read n fields and stands where the next begins.
LEMMA LoopReads ==
  ASSUME NEW T, NEW data \in Seq(T), NEW F, NEW fields \in Seq(F), NEW at \in [1 .. Len(fields) + 1 -> Nat],
         at[1] = Find(data, Begin, 1),
         \A i \in 1 .. Len(fields) : CutAt(data, at[i], fields[i], at[i + 1]),
         NEW n \in 0 .. Len(fields)
  PROVE  Loop(data)[n] = [fields |-> SubSeq(fields, 1, n), index |-> at[n + 1]]
<1> DEFINE k == Len(fields)
           HasRead(m) == Loop(data)[m] = [fields |-> SubSeq(fields, 1, m), index |-> at[m + 1]]
           Bad == {m \in 0 .. k : ~HasRead(m)}
<1>1. SUFFICES ASSUME Bad # {} PROVE FALSE
  OBVIOUS
<1>2. PICK x \in Bad : \A y \in Bad : x <= y
  <2>1. Bad \subseteq Nat
    OBVIOUS
  <2> QED
    BY <1>1, <2>1, Least
<1>3. k \in Nat /\ Quotes(data) \in Nat /\ k <= Quotes(data)
  <2>1. k \in Nat
    OBVIOUS
  <2> QED
    BY <2>1, EnoughTurns
<1>4. /\ Loop(data)[0] = [fields |-> <<>>, index |-> Find(data, Begin, 1)]
      /\ \A m \in 1 .. Quotes(data) : Loop(data)[m] = Turn(data, Loop(data)[m - 1])
  BY <1>3, LoopTurns
<1>5. SubSeq(fields, 1, 0) = <<>> /\ \A m \in 1 .. k : Append(SubSeq(fields, 1, m - 1), fields[m]) = SubSeq(fields, 1, m)
  BY Prefixes
<1>6. HasRead(0)
  BY <1>4, <1>5
<1>7. x # 0
  BY <1>2, <1>6
<1>8. x \in 1 .. k /\ x - 1 \in 0 .. k /\ x - 1 \notin Bad /\ x - 1 + 1 = x
  <2>1. x \in 0 .. k /\ \A y \in Bad : x <= y
    BY <1>2
  <2>2. x \in 1 .. k /\ x - 1 \in 0 .. k /\ x - 1 + 1 = x /\ ~(x <= x - 1)
    BY <1>3, <1>7, <2>1
  <2> QED
    BY <2>1, <2>2, Zenon
<1>9. Loop(data)[x - 1] = [fields |-> SubSeq(fields, 1, x - 1), index |-> at[x]]
  BY <1>8
<1>10. TurnReads(data, at[x], fields[x], at[x + 1])
  <2>1. CutAt(data, at[x], fields[x], at[x + 1]) /\ at[x] \in Nat /\ at[x + 1] \in Nat
    BY <1>8
  <2> QED
    BY <2>1, FieldIsNext
<1>11. Loop(data)[x] = Turn(data, Loop(data)[x - 1])
  BY <1>3, <1>4, <1>8
<1> DEFINE last == Loop(data)[x - 1]
<1>12. last.index = at[x] /\ last.fields = SubSeq(fields, 1, x - 1)
  BY <1>9
<1> HIDE DEF Bad, last
<1>13. Turn(data, last) = [fields |-> Append(last.fields, fields[x]), index |-> at[x + 1]]
  BY <1>10, <1>12, Zenon DEF TurnReads
<1>14. Append(last.fields, fields[x]) = SubSeq(fields, 1, x)
  BY <1>5, <1>8, <1>12
<1>15. Loop(data)[x] = [fields |-> SubSeq(fields, 1, x), index |-> at[x + 1]]
  BY <1>11, <1>13, <1>14, Zenon DEF last
<1> QED
  BY <1>2, <1>15 DEF Bad

\* JSON::next in a loop reads the fields into which a text is cut: all of them, in
\* their order, and nothing else.
LEMMA CutIsRead ==
  ASSUME NEW T, NEW data \in Seq(T), NEW F, NEW fields \in Seq(F), Cuts(data, fields)
  PROVE  Fields(data) = fields
<1> DEFINE k == Len(fields)
<1>0. {0} \cup Positions(data, {Begin} \cup Ends) \subseteq Nat
  BY DEF Positions
<1>1. PICK at \in [1 .. k + 1 -> Nat] :
        /\ at[1] = Find(data, Begin, 1)
        /\ \A i \in 1 .. k : CutAt(data, at[i], fields[i], at[i + 1])
        /\ \A i \in at[k + 1] + 1 .. Len(data) : data[i] # Quote
  BY <1>0, Zenon DEF Cuts
<1>2. k \in Nat /\ Quotes(data) \in Nat /\ k <= Quotes(data)
  <2>1. k \in Nat
    OBVIOUS
  <2> QED
    BY <1>1, <2>1, EnoughTurns
<1>3. Loop(data)[k] = [fields |-> fields, index |-> at[k + 1]]
  <2>1. k \in 0 .. k
    BY <1>2
  <2>2. Loop(data)[k] = [fields |-> SubSeq(fields, 1, k), index |-> at[k + 1]]
    BY <1>1, <2>1, LoopReads
  <2> QED
    BY <2>2, Prefixes
<1>4. ~HasNext(data, at[k + 1])
  BY <1>1, NoneIsNext
<1> DEFINE Bad == {n \in k .. Quotes(data) : Loop(data)[n] # Loop(data)[k]}
<1>5. Bad = {}
  <2>1. SUFFICES ASSUME Bad # {} PROVE FALSE
    OBVIOUS
  <2>2. PICK x \in Bad : \A y \in Bad : x <= y
    <3>1. Bad \subseteq Nat
      BY <1>2
    <3> QED
      BY <2>1, <3>1, Least
  <2>3. x # k
    BY <2>2
  <2>4. x \in 1 .. Quotes(data) /\ x - 1 \in k .. Quotes(data) /\ x - 1 \notin Bad
    BY <1>2, <2>2, <2>3
  <2>5. Loop(data)[x - 1] = Loop(data)[k]
    BY <2>4
  <2>6. Loop(data)[x] = Turn(data, Loop(data)[k])
    BY <1>2, <2>4, <2>5, LoopTurns
  <2>7. Loop(data)[k].index = at[k + 1]
    BY <1>3
  <2>8. Loop(data)[x] = Loop(data)[k]
    BY <1>4, <2>6, <2>7, Zenon DEF Turn
  <2> QED
    BY <2>2, <2>8
<1>6. Loop(data)[Quotes(data)] = Loop(data)[k]
  BY <1>2, <1>5
<1>7. Loop(data)[Quotes(data)].fields = fields
  BY <1>3, <1>6
<1> QED
  BY <1>7, Zenon DEF Fields

\* A part of a text may be joined to what is before it or to what is behind it.
Regroups(s, t, u) == s \o t \o u = s \o (t \o u)

LEMMA Regroup ==
  ASSUME NEW S, NEW s \in Seq(S), NEW t \in Seq(S), NEW u \in Seq(S)
  PROVE  Regroups(s, t, u)
BY ConcatAssociative DEF Regroups

\* The fields that the writer is made for.
Writable(T, fields) ==
  /\ {Quote, Colon, Comma, Begin, End} \subseteq T
  /\ fields \in Seq([key : Seq(T), value : Seq(T)])
  /\ \A i \in 1 .. Len(fields) : IsKey(fields[i].key) /\ IsValue(fields[i].value)

LEMMA WritableField ==
  ASSUME NEW T, NEW fields, Writable(T, fields), NEW i \in 1 .. Len(fields)
  PROVE  /\ fields[i].key \in Seq(T) /\ IsKey(fields[i].key)
         /\ fields[i].value \in Seq(T) /\ IsValue(fields[i].value)
         /\ fields[i] = [key |-> fields[i].key, value |-> fields[i].value]
<1> DEFINE R == [key : Seq(T), value : Seq(T)]
<1>1. fields \in Seq(R)
  BY DEF Writable
<1> HIDE DEF R
<1>2. fields[i] \in R
  BY <1>1
<1>3. fields[i] \in [key : Seq(T), value : Seq(T)]
  BY <1>2 DEF R
<1> QED
  BY <1>3 DEF Writable

\* A text grows with every field: it begins with what was written before, and
\* then comes a comma, if this is not the first.
Grows(T, data, new) ==
  \E more \in Seq(T) : new = data \o more /\ more # <<>> /\ (Len(data) > 1 => more[1] = Comma)

LEMMA AddLiteralGrows ==
  ASSUME NEW T, Quote \in T, Colon \in T, Comma \in T, NEW data \in Seq(T),
         NEW key \in Seq(T), NEW value \in Seq(T)
  PROVE  /\ AddLiteral(data, key, value) \in Seq(T)
         /\ Len(AddLiteral(data, key, value)) > 1
         /\ Grows(T, data, AddLiteral(data, key, value))
<1> DEFINE head == Opened(data)
           q == <<Quote>>
           c == <<Quote, Colon>>
           first == IF Len(data) > 1 THEN <<Comma>> ELSE <<>>
           kc == key \o c
           kcv == kc \o value
           rest == q \o kcv
           more == first \o rest
           new == AddLiteral(data, key, value)
<1>1. q \in Seq(T) /\ Len(q) = 1 /\ c \in Seq(T) /\ Len(c) = 2 /\ first \in Seq(T) /\ head \in Seq(T)
  BY DEF Opened
<1>2. Len(key) \in Nat /\ Len(value) \in Nat /\ Len(data) \in Nat /\ Len(first) \in Nat
  BY <1>1
<1>3. head = data \o first
  <2>1. CASE Len(data) > 1
    BY <2>1, AppendIsConcat DEF Opened
  <2>2. CASE ~(Len(data) > 1)
    BY <2>2, ConcatEmptySeq DEF Opened
  <2> QED
    BY <2>1, <2>2
<1>4. new = head \o q \o key \o c \o value
  BY DEF AddLiteral, Opened
<1>5. (Len(data) > 1 => Len(first) = 1 /\ first[1] = Comma)
  OBVIOUS
<1> HIDE DEF head, q, c, first, new
<1>6. kc \in Seq(T) /\ Len(kc) = Len(key) + 2
  BY <1>1, PartsStand
<1>7. q \o key \in Seq(T) /\ head \o q \in Seq(T) /\ head \o q \o key \in Seq(T) /\ head \o q \o key \o c \in Seq(T)
  <2>1. q \o key \in Seq(T) /\ head \o q \in Seq(T)
    BY <1>1, ConcatProperties
  <2>2. head \o q \o key \in Seq(T)
    BY <1>1, <2>1, ConcatProperties
  <2> QED
    BY <1>1, <2>1, <2>2, ConcatProperties
<1>8. head \o q \o key \o c \o value = head \o rest
  <2>1. head \o q \o key \o c = head \o q \o kc
    <3> DEFINE a == head \o q
    <3> HIDE DEF a
    <3>1. Regroups(a, key, c)
      BY <1>1, <1>7, Regroup DEF a
    <3> QED
      BY <3>1 DEF Regroups, a, kc
  <2> HIDE DEF kc
  <2>2. head \o q \o kc \o value = head \o q \o kcv
    <3> DEFINE a == head \o q
    <3> HIDE DEF a
    <3>1. Regroups(a, kc, value)
      BY <1>1, <1>6, <1>7, Regroup DEF a
    <3> QED
      BY <3>1 DEF Regroups, a
  <2>3. kcv \in Seq(T)
    BY <1>6, ConcatProperties
  <2> HIDE DEF kcv
  <2>4. head \o q \o kcv = head \o rest
    <3>1. Regroups(head, q, kcv)
      BY <1>1, <2>3, Regroup
    <3> QED
      BY <3>1 DEF Regroups
  <2> QED
    BY <2>1, <2>2, <2>4
<1> HIDE DEF kc
<1>9. kcv \in Seq(T) /\ Len(kcv) = Len(key) + 2 + Len(value)
  BY <1>6, PartsStand
<1> HIDE DEF kcv
<1>10. rest \in Seq(T) /\ Len(rest) = Len(key) + 3 + Len(value)
  <2>1. rest \in Seq(T) /\ Len(rest) = Len(q) + Len(kcv)
    BY <1>1, <1>9, PartsStand
  <2> QED
    BY <1>1, <1>2, <1>9, <2>1
<1> HIDE DEF rest
<1>11. more \in Seq(T) /\ Len(more) = Len(first) + Len(rest) /\ Stands(first, more, 0)
  BY <1>1, <1>10, PartsStand
<1> HIDE DEF more
<1>12. more # <<>>
  BY <1>2, <1>10, <1>11
<1>13. Len(data) > 1 => more[1] = Comma
  <2>1. Stands(first, more, 0)
    BY <1>11
  <2> SUFFICES ASSUME Len(data) > 1 PROVE more[1] = Comma
    OBVIOUS
  <2>2. Len(first) = 1 /\ first[1] = Comma
    BY <1>5
  <2>3. more[0 + 1] = first[1]
    BY <2>1, <2>2 DEF Stands
  <2> QED
    BY <2>2, <2>3
<1>14. new = data \o more
  <2>1. data \o first \o rest = data \o (first \o rest)
    <3>1. Regroups(data, first, rest)
      BY <1>1, <1>10, Regroup
    <3> QED
      BY <3>1 DEF Regroups
  <2> QED
    BY <1>3, <1>4, <1>8, <2>1, Zenon DEF more
<1>15. new \in Seq(T) /\ Len(new) > 1
  <2>1. data \o more \in Seq(T) /\ Len(data \o more) = Len(data) + Len(more)
    BY <1>11, PartsStand
  <2> QED
    BY <1>2, <1>10, <1>11, <1>14, <2>1
<1>16. Grows(T, data, new)
  BY <1>11, <1>12, <1>13, <1>14, Zenon DEF Grows
<1> QED
  BY <1>15, <1>16 DEF new

\* JSON::next reads what JSON::add has written: behind the fields that are
\* already there it finds the key and the value that were added, and stops where
\* the next field is added.
THEOREM NextReadsWhatWasAdded ==
  ASSUME NEW T, Quote \in T, Colon \in T, Comma \in T, NEW data \in Seq(T), data # <<>>,
         NEW key \in Seq(T), IsKey(key), NEW value \in Seq(T), IsValue(value),
         NEW rest \in Seq(T), rest # <<>>, rest[1] \in Ends
  PROVE  /\ HasNext(AddLiteral(data, key, value) \o rest, Index(data))
         /\ NextField(AddLiteral(data, key, value) \o rest, Index(data)) =
              [key |-> key, value |-> value, index |-> Index(AddLiteral(data, key, value))]
<1> DEFINE new == AddLiteral(data, key, value)
           text == new \o rest
           field == [key |-> key, value |-> value]
<1>1. CutAt(text, Index(data), field, Index(new))
  BY AddedIsCut
<1>2. text \in Seq(T)
  BY AddedStands, Zenon DEF Added
<1>3. new \in Seq(T)
  BY AddLiteralGrows
<1>4. field.key = key /\ field.value = value
  OBVIOUS
<1> HIDE DEF new, field
<1>5. Index(data) \in Nat /\ Index(new) \in Nat
  BY <1>3 DEF Index
<1> HIDE DEF text
<1>6. /\ HasNext(text, Index(data))
      /\ NextField(text, Index(data)) = [key |-> field.key, value |-> field.value, index |-> Index(new)]
  BY <1>1, <1>2, <1>5, FieldIsNext
<1> QED
  BY <1>4, <1>6 DEF text, new

\* What the writer has written after n fields.
LEMMA WriterIs ==
  ASSUME NEW T, NEW fields, Writable(T, fields), NEW n \in 0 .. Len(fields)
  PROVE  /\ Writer(fields)[n] \in Seq(T) /\ Len(Writer(fields)[n]) > 0
         /\ n > 0 => Len(Writer(fields)[n]) > 1
<1> DEFINE w == Writer(fields)
           Is(m) == w[m] \in Seq(T) /\ Len(w[m]) > 0 /\ (m > 0 => Len(w[m]) > 1)
           Bad == {m \in 0 .. Len(fields) : ~Is(m)}
<1>1. SUFFICES ASSUME Bad # {} PROVE FALSE
  OBVIOUS
<1>2. Len(fields) \in Nat
  BY DEF Writable
<1>3. PICK x \in Bad : \A y \in Bad : x <= y
  <2>1. Bad \subseteq Nat
    BY <1>2
  <2> QED
    BY <1>1, <2>1, Least
<1>4. w[0] = <<Begin>> /\ \A m \in 1 .. Len(fields) : w[m] = AddLiteral(w[m - 1], fields[m].key, fields[m].value)
  BY <1>2, WriterTurns
<1>5. Quote \in T /\ Colon \in T /\ Comma \in T /\ Begin \in T
  BY DEF Writable
<1> HIDE DEF w
<1>6. Is(0)
  BY <1>4, <1>5
<1>7. x # 0
  BY <1>3, <1>6
<1>8. x \in 1 .. Len(fields) /\ x - 1 \in 0 .. Len(fields) /\ x - 1 \notin Bad
  BY <1>2, <1>3, <1>7
<1>9. w[x - 1] \in Seq(T)
  BY <1>8
<1>10. fields[x].key \in Seq(T) /\ fields[x].value \in Seq(T)
  BY <1>8, WritableField
<1>11. w[x] \in Seq(T) /\ Len(w[x]) > 1
  <2> DEFINE new == AddLiteral(w[x - 1], fields[x].key, fields[x].value)
  <2>1. w[x] = new
    BY <1>4, <1>8
  <2>2. new \in Seq(T) /\ Len(new) > 1
    BY <1>5, <1>9, <1>10, AddLiteralGrows
  <2> QED
    BY <2>1, <2>2
<1> QED
  BY <1>3, <1>11

\* Each of its texts stands at the beginning of the last one, and what follows
\* it there ends its last value.
BeginsWith(T, data, text, closed) ==
  \E rest \in Seq(T) : text = data \o rest /\ rest # <<>> /\ (closed => rest[1] \in Ends)

LEMMA WriterBegins ==
  ASSUME NEW T, NEW fields, Writable(T, fields), NEW tail \in Seq(T), NEW n \in 0 .. Len(fields)
  PROVE  BeginsWith(T, Writer(fields)[n], Written(fields) \o tail, n > 0)
<1> DEFINE k == Len(fields)
           w == Writer(fields)
           text == Written(fields) \o tail
           Is(m) == BeginsWith(T, w[m], text, m > 0)
           Bad == {m \in 0 .. k : ~Is(k - m)}
<1>1. k \in Nat /\ Quote \in T /\ Colon \in T /\ Comma \in T /\ End \in T /\ <<End>> \in Seq(T)
  BY DEF Writable
<1>2. \A m \in 0 .. k : w[m] \in Seq(T) /\ Len(w[m]) > 0 /\ (m > 0 => Len(w[m]) > 1)
  BY WriterIs
<1>3. \A m \in 1 .. k : w[m] = AddLiteral(w[m - 1], fields[m].key, fields[m].value)
  BY <1>1, WriterTurns
<1>4. Is(k)
  <2>1. w[k] \in Seq(T)
    BY <1>1, <1>2
  <2> DEFINE rest == <<End>> \o tail
  <2>2. Written(fields) = w[k] \o <<End>>
    BY <1>1, <2>1, AppendIsConcat DEF Written
  <2> HIDE DEF w
  <2>3. text = w[k] \o rest
    <3>1. Regroups(w[k], <<End>>, tail)
      BY <1>1, <2>1, Regroup
    <3> QED
      BY <2>2, <3>1 DEF Regroups
  <2>4. rest \in Seq(T) /\ Len(rest) = 1 + Len(tail) /\ rest[1] = End
    <3>1. rest \in Seq(T) /\ Len(rest) = Len(<<End>>) + Len(tail) /\ Stands(<<End>>, rest, 0)
      BY <1>1, PartsStand
    <3> QED
      BY <3>1 DEF Stands
  <2>5. rest # <<>> /\ rest[1] \in Ends
    BY <2>4 DEF Ends
  <2> HIDE DEF rest, text
  <2> QED
    BY <2>3, <2>4, <2>5, Zenon DEF BeginsWith
<1> HIDE DEF w, text
<1>5. Bad = {}
  <2>1. SUFFICES ASSUME Bad # {} PROVE FALSE
    OBVIOUS
  <2>2. PICK x \in Bad : \A y \in Bad : x <= y
    <3>1. Bad \subseteq Nat
      BY <1>1
    <3> QED
      BY <2>1, <3>1, Least
  <2>3. x # 0
    BY <1>1, <1>4, <2>2
  <2>4. x - 1 \in 0 .. k /\ x - 1 \notin Bad
    BY <1>1, <2>2, <2>3
  <2> DEFINE m == k - (x - 1)
  <2>5. Is(m)
    BY <2>4
  <2>6. m \in 1 .. k /\ m - 1 \in 0 .. k /\ m - 1 = k - x
    BY <1>1, <2>2, <2>3, <2>4
  <2> HIDE DEF m, Bad
  <2>7. fields[m].key \in Seq(T) /\ fields[m].value \in Seq(T)
    BY <2>6, WritableField DEF k
  <2> DEFINE old == w[m - 1]
             new == w[m]
  <2>8. old \in Seq(T) /\ new \in Seq(T) /\ (m - 1 > 0 => Len(old) > 1)
    BY <1>2, <2>6
  <2>9. new = AddLiteral(old, fields[m].key, fields[m].value)
    BY <1>3, <2>6
  <2> HIDE DEF old, new
  <2>10. Grows(T, old, new)
    BY <1>1, <2>7, <2>8, <2>9, AddLiteralGrows
  <2>11. PICK more \in Seq(T) : new = old \o more /\ more # <<>> /\ (Len(old) > 1 => more[1] = Comma)
    BY <2>10, Zenon DEF Grows
  <2>12. PICK rest \in Seq(T) : text = new \o rest
    BY <2>5, Zenon DEF BeginsWith, new
  <2> DEFINE all == more \o rest
  <2>13. text = old \o all
    <3>1. Regroups(old, more, rest)
      BY <2>8, Regroup
    <3> QED
      BY <2>11, <2>12, <3>1 DEF Regroups
  <2>14. all \in Seq(T) /\ Len(all) = Len(more) + Len(rest) /\ Stands(more, all, 0)
    BY PartsStand
  <2>15. Len(more) \in Nat /\ Len(rest) \in Nat /\ Len(more) > 0
    BY <2>11
  <2> HIDE DEF all
  <2>16. all # <<>> /\ all[1] = more[1]
    BY <2>14, <2>15 DEF Stands
  <2>17. m - 1 > 0 => all[1] \in Ends
    BY <2>8, <2>11, <2>16 DEF Ends
  <2>18. BeginsWith(T, old, text, m - 1 > 0)
    BY <2>13, <2>14, <2>16, <2>17, Zenon DEF BeginsWith
  <2>19. Is(k - x)
    BY <2>6, <2>18 DEF old
  <2> QED
    BY <2>2, <2>19 DEF Bad
<1>6. k - n \in 0 .. k /\ k - (k - n) = n
  BY <1>1
<1>7. Is(n)
  BY <1>5, <1>6
<1> QED
  BY <1>7 DEF w, text

\* What the writer writes is cut into its fields, ...
LEMMA WrittenCuts ==
  ASSUME NEW T, NEW fields, Writable(T, fields), NEW tail \in Seq(T),
         \A i \in 1 .. Len(tail) : tail[i] # Quote
  PROVE  Cuts(Written(fields) \o tail, fields)
<1> DEFINE k == Len(fields)
           w == Writer(fields)
           text == Written(fields) \o tail
           at == [i \in 1 .. k + 1 |-> Index(w[i - 1])]
<1>1. k \in Nat /\ Quote \in T /\ Colon \in T /\ Comma \in T /\ End \in T /\ <<End>> \in Seq(T)
  BY DEF Writable
<1>2. \A m \in 0 .. k : w[m] \in Seq(T) /\ Len(w[m]) > 0 /\ (m > 0 => Len(w[m]) > 1)
  BY WriterIs
<1>3. w[0] = <<Begin>> /\ \A m \in 1 .. k : w[m] = AddLiteral(w[m - 1], fields[m].key, fields[m].value)
  BY <1>1, WriterTurns
<1>4. \A m \in 0 .. k : BeginsWith(T, w[m], text, m > 0)
  BY WriterBegins
<1>5. Written(fields) = w[k] \o <<End>>
  <2>1. w[k] \in Seq(T)
    BY <1>1, <1>2
  <2> QED
    BY <1>1, <2>1, AppendIsConcat DEF Written
<1>6. text \in Seq(T) /\ Len(text) = Len(w[k]) + 1 + Len(tail) /\ text[1] = Begin
      /\ text[Len(w[k]) + 1] = End /\ Stands(tail, text, Len(w[k]) + 1)
  <2>1. w[k] \in Seq(T) /\ w[0] \in Seq(T) /\ Len(w[k]) \in Nat
    BY <1>1, <1>2
  <2>2. ThreeJoin(T, w[k], <<End>>, tail)
    BY <1>1, <2>1, ThreeJoined
  <2> DEFINE closed == w[k] \o <<End>>
  <2>3. closed \in Seq(T) /\ Len(closed) = Len(w[k]) + 1 /\ Stands(<<End>>, closed, Len(w[k]))
    <3>1. closed \in Seq(T) /\ Len(closed) = Len(w[k]) + Len(<<End>>) /\ Stands(<<End>>, closed, Len(w[k]))
      BY <1>1, <2>1, PartsStand
    <3> QED
      BY <3>1
  <2> HIDE DEF closed
  <2>4. closed \o tail \in Seq(T) /\ Len(closed \o tail) = Len(closed) + Len(tail)
        /\ Stands(closed, closed \o tail, 0) /\ Stands(tail, closed \o tail, Len(closed))
    BY <2>3, PartsStand
  <2>5. text = closed \o tail
    BY <1>5 DEF closed
  <2> HIDE DEF text
  <2>6. text[Len(w[k]) + 1] = End
    <3>1. closed[Len(w[k]) + 1] = End
      BY <2>3 DEF Stands
    <3>2. Len(w[k]) + 1 \in 1 .. Len(closed) /\ 0 + (Len(w[k]) + 1) = Len(w[k]) + 1
      BY <2>1, <2>3
    <3> QED
      BY <2>4, <2>5, <3>1, <3>2 DEF Stands
  <2>7. text[1] = Begin
    <3>0. 0 \in 0 .. k
      BY <1>1
    <3>1. PICK rest \in Seq(T) : text = w[0] \o rest
      BY <1>4, <3>0, Zenon DEF BeginsWith
    <3> QED
      BY <1>3, <2>1, <3>1
  <2> QED
    BY <2>3, <2>4, <2>5, <2>6, <2>7
<1> HIDE DEF w, text
<1>7. ASSUME NEW i \in 1 .. k PROVE CutAt(text, at[i], fields[i], at[i + 1])
  <2> DEFINE old == w[i - 1]
             key == fields[i].key
             value == fields[i].value
  <2>1. i - 1 \in 0 .. k /\ i \in 0 .. k /\ i > 0 /\ i + 1 \in 1 .. k + 1 /\ i \in 1 .. k + 1 /\ i + 1 - 1 = i
    BY <1>1
  <2>2. /\ key \in Seq(T) /\ IsKey(key) /\ value \in Seq(T) /\ IsValue(value)
        /\ fields[i] = [key |-> key, value |-> value]
    BY WritableField DEF k
  <2>3. w[i] = AddLiteral(old, key, value) /\ old \in Seq(T) /\ old # <<>>
    BY <1>2, <1>3, <2>1
  <2>4. PICK rest \in Seq(T) : text = w[i] \o rest /\ rest # <<>> /\ rest[1] \in Ends
    BY <1>4, <2>1, Zenon DEF BeginsWith
  <2>5. at[i] = Index(old) /\ at[i + 1] = Index(w[i])
    BY <2>1
  <2> HIDE DEF old, key, value, at
  <2>6. CutAt(AddLiteral(old, key, value) \o rest, Index(old), [key |-> key, value |-> value], Index(AddLiteral(old, key, value)))
    BY <1>1, <2>2, <2>3, <2>4, AddedIsCut
  <2> QED
    BY <2>2, <2>3, <2>4, <2>5, <2>6, Zenon
<1>8. at[1] = 1 /\ Find(text, Begin, 1) = 1
  <2>1. at[1] = 1
    <3>1. 1 \in 1 .. k + 1 /\ 1 - 1 = 0
      BY <1>1
    <3>2. at[1] = Index(w[0])
      BY <3>1
    <3> QED
      BY <1>3, <3>2 DEF Index
  <2>2. 1 \in 1 .. Len(text) /\ text[1] \in {Begin}
    BY <1>1, <1>2, <1>6
  <2>3. \A j \in 1 .. 1 - 1 : text[j] \notin {Begin}
    OBVIOUS
  <2>4. FindAny(text, {Begin}, 1) = 1
    BY <1>6, <2>2, <2>3, FindAnyIs
  <2> QED
    BY <2>1, <2>4 DEF Find
<1>9. ASSUME NEW i \in 1 .. k + 1 PROVE at[i] \in Positions(text, {Begin} \cup Ends)
  <2>1. CASE i = 1
    BY <1>1, <1>2, <1>6, <1>8, <2>1 DEF Positions
  <2>2. CASE i # 1
    <3>1. i - 1 \in 1 .. k /\ i - 1 + 1 = i
      BY <1>1, <2>2
    <3>2. CutAt(text, at[i - 1], fields[i - 1], at[i])
      BY <1>7, <3>1
    <3>3. PICK keyStart, keyEnd, colon, valueStart : 
             IsCut(text, at[i - 1], keyStart, keyEnd, colon, valueStart, at[i])
      BY <3>2, Zenon DEF CutAt
    <3>4. at[i] <= Len(text) /\ text[at[i]] \in Ends
      BY <3>3, Zenon DEF IsCut
    <3>5. at[i] \in Nat /\ at[i] > 0
      BY <1>2, <3>1 DEF Index
    <3> QED
      BY <3>4, <3>5 DEF Positions
  <2> QED
    BY <2>1, <2>2
<1>10. ASSUME NEW i \in at[k + 1] + 1 .. Len(text) PROVE text[i] # Quote
  <2> DEFINE n == Len(w[k])
  <2>1. w[k] \in Seq(T) /\ n \in Nat /\ n > 0 /\ Len(tail) \in Nat
    BY <1>1, <1>2
  <2>2. at[k + 1] = IF n > 1 THEN n + 1 ELSE 1
    BY <1>1 DEF Index
  <2>3. i = n + 1 \/ i - (n + 1) \in 1 .. Len(tail)
    BY <1>6, <2>1, <2>2
  <2>4. CASE i = n + 1
    <3>1. text[i] = End /\ End # Quote
      BY <1>6, <2>4, TokensDiffer
    <3> QED
      BY <3>1
  <2>6. i \in Int
    OBVIOUS
  <2> HIDE DEF n
  <2>5. CASE i - (n + 1) \in 1 .. Len(tail)
    <3>1. text[n + 1 + (i - (n + 1))] = tail[i - (n + 1)]
      BY <1>6, <2>5 DEF Stands, n
    <3>2. n + 1 + (i - (n + 1)) = i
      BY <2>1, <2>6
    <3> QED
      BY <2>5, <3>1, <3>2
  <2> QED
    BY <2>3, <2>4, <2>5
<1>11. at \in [1 .. k + 1 -> {0} \cup Positions(text, {Begin} \cup Ends)]
  BY <1>9
<1> HIDE DEF at
<1>12. Cuts(text, fields)
  BY <1>7, <1>8, <1>10, <1>11, Zenon DEF Cuts, k
<1> QED
  BY <1>12 DEF text

\* ... and is read back as it was written, whatever follows it but a quote.
THEOREM WrittenIsRead ==
  ASSUME NEW T, NEW fields, Writable(T, fields), NEW tail \in Seq(T),
         \A i \in 1 .. Len(tail) : tail[i] # Quote
  PROVE  Fields(Written(fields) \o tail) = fields
<1>1. Cuts(Written(fields) \o tail, fields)
  BY WrittenCuts
<1>2. fields \in Seq([key : Seq(T), value : Seq(T)]) /\ Len(fields) \in 0 .. Len(fields)
  BY DEF Writable
<1>3. Written(fields) \o tail \in Seq(T)
  <2>1. Writer(fields)[Len(fields)] \in Seq(T)
    BY <1>2, WriterIs
  <2>2. End \in T
    BY DEF Writable
  <2>3. Written(fields) \in Seq(T)
    BY <2>1, <2>2 DEF Written
  <2> QED
    BY <2>3, ConcatProperties
<1> QED
  BY <1>1, <1>2, <1>3, CutIsRead

-----------------------------------------------------------------------------
(* What is meant is read *)

\* A read value is the one that was meant and blanks behind it; if there are any,
\* the text has one behind the value.
ReadAs(T, data, read, meant) ==
  /\ read.key = meant.key /\ read.value \in Seq(T) /\ meant.value \in Seq(T)
  /\ meant.value # <<>> /\ meant.value[1] # Blank
  /\ Len(meant.value) <= Len(read.value)
  /\ \A i \in 1 .. Len(meant.value) : read.value[i] = meant.value[i]
  /\ \A i \in Len(meant.value) + 1 .. Len(read.value) : read.value[i] = Blank
  /\ Len(meant.value) < Len(read.value) =>
       \E p \in 1 .. Len(data) - 1 : data[p] = meant.value[Len(meant.value)] /\ data[p + 1] = Blank

\* A field in the sense of JSON is a cut.
LEMMA MeantIsCut ==
  ASSUME NEW data, NEW index \in Nat, NEW keyStart \in Nat, NEW keyEnd \in Nat, NEW colon \in Nat,
         NEW valueStart \in Nat, NEW valueEnd \in Nat, NEW end \in Nat, data[end] \in Ends,
         IsField(data, index, keyStart, keyEnd, colon, valueStart, valueEnd, end)
  PROVE  IsCut(data, index, keyStart, keyEnd, colon, valueStart, end)
<1>1. /\ index < keyStart /\ keyStart < keyEnd /\ keyEnd < colon /\ colon < valueStart
      /\ valueStart <= valueEnd /\ valueEnd < end /\ end <= Len(data)
  BY Zenon DEF IsField
<1>2. valueStart <= end
  BY <1>1
<1>3. \A i \in index + 1 .. keyStart - 1 : data[i] # Quote
  BY TokensDiffer, Zenon DEF IsField, Gap
<1>4. ASSUME NEW i \in keyEnd .. colon - 1 PROVE data[i] # Colon
  <2>1. i = keyEnd \/ i \in keyEnd + 1 .. colon - 1
    BY <1>1
  <2> QED
    BY <2>1, TokensDiffer, Zenon DEF IsField, Gap
<1>5. ASSUME NEW i \in valueStart .. end - 1 PROVE data[i] \notin Ends
  <2>1. i \in valueStart .. valueEnd \/ i \in valueEnd + 1 .. end - 1
    BY <1>1
  <2> QED
    BY <2>1, TokensDiffer, Zenon DEF IsField, Gap
<1>6. \A i \in colon + 1 .. valueStart - 1 : data[i] = Blank
  BY Zenon DEF IsField, Gap
<1>7. /\ data[keyStart] = Quote /\ data[keyEnd] = Quote /\ data[colon] = Colon /\ data[valueStart] # Blank
      /\ \A i \in keyStart + 1 .. keyEnd - 1 : data[i] # Quote
  BY Zenon DEF IsField
<1> QED
  BY <1>1, <1>2, <1>3, <1>4, <1>5, <1>6, <1>7, Zenon DEF IsCut

\* The value that is read goes on to the end of the field.
LEMMA ValueIsRead ==
  ASSUME NEW T, NEW data \in Seq(T), NEW first \in Nat, NEW last \in Nat, NEW end \in Nat,
         0 < first, first <= last, last < end, end <= Len(data),
         data[first] # Blank, Gap(data, last, end), NEW key
  PROVE  ReadAs(T, data, [key |-> key, value |-> SubSeq(data, first, end - 1)],
                [key |-> key, value |-> SubSeq(data, first, last)])
<1> DEFINE read  == SubSeq(data, first, end - 1)
           meant == SubSeq(data, first, last)
           n     == last - first + 1
<1>1. Len(meant) = n /\ Len(read) = end - first /\ n \in Nat /\ n > 0 /\ n <= end - first
  OBVIOUS
<1>2. \A i \in 1 .. end - first : read[i] = data[first + i - 1]
  OBVIOUS
<1>3. \A i \in 1 .. n : meant[i] = data[first + i - 1]
  OBVIOUS
<1>4. meant # <<>> /\ read \in Seq(T) /\ meant \in Seq(T)
  <2>1. read \in Seq(T) /\ meant \in Seq(T)
    OBVIOUS
  <2> QED
    BY <1>1, <2>1
<1> HIDE DEF read, meant
<1>5. 1 \in 1 .. n /\ first + 1 - 1 = first /\ n \in 1 .. n /\ first + n - 1 = last
  BY <1>1
<1>6. meant[1] # Blank /\ meant[n] = data[last]
  <2>1. meant[1] = data[first + 1 - 1] /\ meant[n] = data[first + n - 1]
    BY <1>3, <1>5
  <2> QED
    BY <1>5, <2>1
<1>7. ASSUME NEW i \in 1 .. n PROVE read[i] = meant[i]
  <2>1. i \in 1 .. end - first
    BY <1>1
  <2> QED
    BY <1>2, <1>3, <2>1
<1>8. ASSUME NEW i \in n + 1 .. end - first PROVE read[i] = Blank
  <2>1. i \in 1 .. end - first /\ first + i - 1 \in last + 1 .. end - 1
    BY <1>1
  <2>2. data[first + i - 1] = Blank
    BY <2>1 DEF Gap
  <2> QED
    BY <1>2, <2>1, <2>2
<1>9. n < end - first => last \in 1 .. Len(data) - 1 /\ data[last + 1] = Blank
  <2> SUFFICES ASSUME n < end - first PROVE last \in 1 .. Len(data) - 1 /\ data[last + 1] = Blank
    OBVIOUS
  <2>1. last + 1 \in last + 1 .. end - 1 /\ last \in 1 .. Len(data) - 1
    OBVIOUS
  <2> QED
    BY <2>1 DEF Gap
<1> HIDE DEF n
<1>10. /\ meant # <<>> /\ meant[1] # Blank /\ Len(meant) <= Len(read)
       /\ \A i \in 1 .. Len(meant) : read[i] = meant[i]
       /\ \A i \in Len(meant) + 1 .. Len(read) : read[i] = Blank
       /\ Len(meant) < Len(read) =>
            \E p \in 1 .. Len(data) - 1 : data[p] = meant[Len(meant)] /\ data[p + 1] = Blank
  <2>1. Len(meant) = n /\ Len(read) = end - first /\ n <= end - first
    BY <1>1
  <2>2. n < end - first => \E p \in 1 .. Len(data) - 1 : data[p] = meant[n] /\ data[p + 1] = Blank
    BY <1>6, <1>9
  <2> QED
    BY <1>4, <1>6, <1>7, <1>8, <2>1, <2>2
<1> DEFINE r == [key |-> key, value |-> read]
           m == [key |-> key, value |-> meant]
<1>11. r.key = m.key /\ r.value = read /\ m.value = meant
  OBVIOUS
<1> HIDE DEF r, m
<1>12. ReadAs(T, data, r, m)
  BY <1>4, <1>10, <1>11 DEF ReadAs
<1> QED
  BY <1>12 DEF r, m, read, meant

LEMMA FieldIsCut ==
  ASSUME NEW T, NEW data \in Seq(T), NEW index \in Nat, NEW end \in Nat, data[end] \in Ends, NEW field,
         FieldAt(data, index, field, end)
  PROVE  \E read : CutAt(data, index, read, end) /\ ReadAs(T, data, read, field)
<1>1. PICK keyStart \in Positions(data, {Quote}), keyEnd \in Positions(data, {Quote}),
           colon \in Positions(data, {Colon}),
           valueStart \in {i \in 1 .. Len(data) : data[i] # Blank},
           valueEnd \in {i \in 1 .. Len(data) : data[i] # Blank} :
        /\ IsField(data, index, keyStart, keyEnd, colon, valueStart, valueEnd, end)
        /\ field = [key   |-> SubSeq(data, keyStart + 1, keyEnd - 1),
                    value |-> SubSeq(data, valueStart, valueEnd)]
  BY Zenon DEF FieldAt
<1>2. /\ keyStart \in Nat /\ keyEnd \in Nat /\ colon \in Nat
      /\ valueStart \in 1 .. Len(data) /\ valueStart \in Nat /\ 0 < valueStart /\ valueEnd \in Nat
  BY DEF Positions
<1> DEFINE key  == SubSeq(data, keyStart + 1, keyEnd - 1)
           read == [key |-> key, value |-> SubSeq(data, valueStart, end - 1)]
<1>3. IsCut(data, index, keyStart, keyEnd, colon, valueStart, end)
  BY <1>1, <1>2, MeantIsCut
<1>4. CutAt(data, index, read, end)
  BY <1>2, <1>3, Zenon DEF CutAt
<1>5. /\ valueStart <= valueEnd /\ valueEnd < end /\ end <= Len(data)
      /\ data[valueStart] # Blank /\ Gap(data, valueEnd, end)
  BY <1>1, Zenon DEF IsField
<1> HIDE DEF key
<1>6. ReadAs(T, data, read, [key |-> key, value |-> SubSeq(data, valueStart, valueEnd)])
  BY <1>2, <1>5, ValueIsRead
<1> QED
  BY <1>1, <1>4, <1>6, Zenon DEF key

\* JSON::next in a loop reads a text in JSON as it was meant: all its fields, in
\* their order and nothing else, each with its key and its value, but for blanks
\* behind the value, which it takes for a part of it.
THEOREM SaidIsRead ==
  ASSUME NEW T, NEW data \in Seq(T), NEW F, NEW fields \in Seq(F), Says(data, fields)
  PROVE  /\ Len(Fields(data)) = Len(fields)
         /\ \A i \in 1 .. Len(fields) : ReadAs(T, data, Fields(data)[i], fields[i])
<1> DEFINE k == Len(fields)
           places == Positions(data, {Begin} \cup Ends)
<1>0. places \subseteq 1 .. Len(data) /\ places \subseteq Nat /\ k \in Nat /\ Len(data) \in Nat
  BY DEF Positions
<1>1. PICK at \in [1 .. k + 1 -> places] :
        /\ data[at[1]] = Begin /\ Gap(data, 0, at[1])
        /\ \A i \in 1 .. k :
             /\ data[at[i + 1]] = IF i = k THEN End ELSE Comma
             /\ FieldAt(data, at[i], fields[i], at[i + 1])
        /\ Gap(data, at[k + 1], Len(data) + 1)
  BY Zenon DEF Says
<1> HIDE DEF places
<1>2. at \in [1 .. k + 1 -> Nat] /\ at \in [1 .. k + 1 -> {0} \cup places]
  BY <1>0, <1>1
<1> DEFINE Fit(i, read) == CutAt(data, at[i], read, at[i + 1]) /\ ReadAs(T, data, read, fields[i])
           reads == [i \in 1 .. k |-> CHOOSE read : Fit(i, read)]
           all == {reads[i] : i \in 1 .. k}
<1>3. ASSUME NEW i \in 1 .. k PROVE Fit(i, reads[i])
  <2>1. i \in 1 .. k + 1 /\ i + 1 \in 1 .. k + 1
    BY <1>0
  <2>2. at[i] \in Nat /\ at[i + 1] \in Nat
    BY <1>2, <2>1
  <2>3. data[at[i + 1]] \in Ends /\ FieldAt(data, at[i], fields[i], at[i + 1])
    BY <1>1, Zenon DEF Ends
  <2>4. \E read : Fit(i, read)
    BY <2>2, <2>3, FieldIsCut
  <2> HIDE DEF Fit
  <2> QED
    BY <2>4, Zenon
<1>4. reads \in Seq(all) /\ Len(reads) = k
  <2>1. reads \in [1 .. k -> all]
    BY Zenon
  <2> HIDE DEF reads, all
  <2> QED
    BY <1>0, <2>1
<1> HIDE DEF reads, all
<1>5. at[1] = Find(data, Begin, 1)
  <2>1. at[1] \in 1 .. Len(data) /\ at[1] \in Nat
    <3>1. 1 \in 1 .. k + 1
      BY <1>0
    <3>2. at[1] \in places
      BY <1>1, <3>1
    <3> QED
      BY <1>0, <3>2
  <2>2. data[at[1]] \in {Begin} /\ \A j \in 1 .. at[1] - 1 : data[j] \notin {Begin}
    BY <1>1, TokensDiffer DEF Gap
  <2> QED
    BY <2>1, <2>2, FindAnyIs DEF Find
<1>6. \A i \in at[k + 1] + 1 .. Len(data) : data[i] # Quote
  <2>1. Gap(data, at[k + 1], Len(data) + 1) /\ Len(data) + 1 - 1 = Len(data)
    BY <1>0, <1>1
  <2>2. \A i \in at[k + 1] + 1 .. Len(data) : data[i] = Blank
    BY <2>1 DEF Gap
  <2> QED
    BY <2>2, TokensDiffer
<1>7. Cuts(data, reads)
  <2>1. at \in [1 .. Len(reads) + 1 -> {0} \cup places]
    BY <1>2, <1>4
  <2>2. \A i \in 1 .. Len(reads) : CutAt(data, at[i], reads[i], at[i + 1])
    BY <1>3, <1>4
  <2>3. \A i \in at[Len(reads) + 1] + 1 .. Len(data) : data[i] # Quote
    BY <1>4, <1>6
  <2> QED
    BY <1>5, <2>1, <2>2, <2>3, Zenon DEF Cuts, places
<1>8. Fields(data) = reads
  BY <1>4, <1>7, CutIsRead
<1> QED
  BY <1>3, <1>4, <1>8, Zenon

\* The callback takes from a field what was meant, unless the value is true and a
\* blank follows.
LEMMA SettingIsMeant ==
  ASSUME NEW T, NEW data, TrueEnds(data), NEW read, NEW meant, ReadAs(T, data, read, meant)
  PROVE  Setting(read) = Setting(meant)
<1> DEFINE r == read.value
           m == meant.value
<1>1. /\ read.key = meant.key /\ r \in Seq(T) /\ m \in Seq(T) /\ m # <<>> /\ m[1] # Blank
      /\ Len(m) <= Len(r) /\ \A i \in 1 .. Len(m) : r[i] = m[i]
  BY DEF ReadAs
<1>2. Len(m) < Len(r) => \E p \in 1 .. Len(data) - 1 : data[p] = m[Len(m)] /\ data[p + 1] = Blank
  BY DEF ReadAs
<1> HIDE DEF r, m
<1>3. Len(m) \in Nat /\ Len(r) \in Nat /\ Len(m) > 0 /\ 1 \in 1 .. Len(m) /\ 1 \in 1 .. Len(r) /\ r[1] = m[1]
  BY <1>1
<1>4. r = <<"true">> => m = <<"true">>
  <2> SUFFICES ASSUME r = <<"true">> PROVE m = <<"true">>
    OBVIOUS
  <2>1. Len(r) = 1 /\ r[1] = "true"
    OBVIOUS
  <2>2. Len(m) = 1 /\ m[1] = "true"
    BY <1>1, <1>3, <2>1
  <2> QED
    BY <1>1, <2>2
<1>5. m = <<"true">> => r = <<"true">>
  <2> SUFFICES ASSUME m = <<"true">> PROVE r = <<"true">>
    OBVIOUS
  <2>1. Len(m) = 1 /\ m[1] = "true"
    OBVIOUS
  <2>2. ~(Len(m) < Len(r))
    <3> SUFFICES ASSUME Len(m) < Len(r) PROVE FALSE
      OBVIOUS
    <3>1. PICK p \in 1 .. Len(data) - 1 : data[p] = m[Len(m)] /\ data[p + 1] = Blank
      BY <1>2
    <3>2. data[p] = "true"
      BY <2>1, <3>1
    <3> QED
      BY <3>1, <3>2, Zenon DEF TrueEnds
  <2>3. Len(r) = 1 /\ r[1] = "true"
    BY <1>1, <1>3, <2>1, <2>2
  <2> QED
    BY <1>1, <2>3
<1>6. Number(r) = r[1] /\ Number(m) = m[1]
  <2>1. ASSUME NEW v \in Seq(T), Len(v) > 0, v[1] # Blank PROVE Number(v) = v[1]
    <3> DEFINE words == {i \in 1 .. Len(v) : v[i] # Blank}
    <3>1. words \in SUBSET Nat /\ 1 \in words /\ \A y \in words : 1 <= y
      BY <2>1
    <3> HIDE DEF words
    <3>2. Min(words) = 1 /\ words # {}
      BY <3>1, MinIsFirst
    <3> QED
      BY <3>2, Zenon DEF Number, words
  <2> QED
    BY <1>1, <1>3, <2>1
<1>7. (r = <<"true">>) = (m = <<"true">>) /\ Number(r) = Number(m)
  BY <1>3, <1>4, <1>5, <1>6
<1>8. (read.value = <<"true">>) = (meant.value = <<"true">>) /\ Number(read.value) = Number(meant.value)
  BY <1>7 DEF r, m
<1> QED
  BY <1>1, <1>8, Zenon DEF Setting

-----------------------------------------------------------------------------
(* What is on its way *)

\* What is on its way has a number that two bytes can say, ...
Numbered == {p \in BrokerPackets : p.id \in Words}

\* ... and, from the broker, says nothing but what its bytes say.
Meant ==
  {p \in ClientPackets :
     /\ p.id \in Words
     /\ p.type = "CONNACK" => p.id = 0
     /\ p.type = "PINGRESP" => p.id = 0 /\ p.arg = 0
     /\ p.type \in {"PUBACK", "PUBREL"} => p.arg = 0
     /\ p.type = "PUBLISH" => p.arg = QoS[p.id]}

OnTheWire == toBroker \in Seq(Numbered) /\ toClient \in Seq(Meant)

WireInv == TypeInv /\ OnTheWire

LEMMA WireConstants ==
  /\ \A id \in 1 .. MaxPacketId : id \in Words
  /\ Messages \subseteq Words /\ 0 \in Words
<1>1. MaxPacketId \in Nat /\ MaxPacketId < 65536
  BY SMT, WireAssumption, MqttAssumption
<1>2. \A id \in 1 .. MaxPacketId : id \in Nat /\ id < 65536
  BY <1>1, SMT
<1>3. \A m \in Messages : m \in Nat /\ m < 65536
  BY SMT, WireAssumption, MessagesAreNumbers
<1>4. 0 \in Words
  BY SMT DEF Words
<1>5. \A n \in Nat : n < 65536 => n \in Words
  BY WordFacts, SMT
<1>6. \A id \in 1 .. MaxPacketId : id \in Words
  BY <1>2, <1>5, SMT
<1>7. \A m \in Messages : m \in Words
  BY <1>3, <1>5, SMT
<1> QED
  BY <1>4, <1>6, <1>7, Zenon

LEMMA PingNumbered == Ping \in Numbered
BY PingTyped, WireConstants DEF Numbered, Ping, Packet

\* A queue that grows by packets of a kind remains one of that kind.
LEMMA GrownKind ==
  ASSUME NEW S, NEW T, NEW s \in Seq(T), NEW t \in Seq(S), Begins(s, t),
         \A i \in Len(s) + 1 .. Len(t) : t[i] \in T
  PROVE  t \in Seq(T)
<1>1. Len(s) \in Nat /\ Len(t) \in Nat /\ \A i \in 1 .. Len(s) : t[i] = s[i] /\ s[i] \in T
  BY DEF Begins
<1>2. \A i \in 1 .. Len(t) : i \in 1 .. Len(s) \/ i \in Len(s) + 1 .. Len(t)
  BY <1>1
<1>3. \A i \in 1 .. Len(t) : t[i] \in T
  BY <1>1, <1>2
<1>4. t = [i \in 1 .. Len(t) |-> t[i]]
  BY LenProperties
<1> QED
  BY <1>1, <1>3, <1>4, IsASeq

LEMMA HandlePacketWired ==
  ASSUME WireInv, HandlePacket, TypeInv'
  PROVE  OnTheWire'
<1> DEFINE p == Head(toClient)
<1>1. Handled
  BY HandlePacketHandled DEF WireInv
<1>2. toClient # <<>> /\ toClient' = Tail(toClient)
  BY <1>1 DEF Handled
<1>3. toBroker \in Seq(Numbered) /\ toClient \in Seq(Meant)
  BY DEF WireInv, OnTheWire
<1>4. p \in Meant /\ toClient' \in Seq(Meant)
  BY <1>2, <1>3, QueueTaken
<1>5. toBroker' \in Seq(BrokerPackets) /\ Len(toBroker') \in Nat /\ Len(toBroker) \in Nat
  BY <1>3 DEF TypeInv, Queues
<1>6. /\ Begins(toBroker, toBroker')
      /\ \A i \in Len(toBroker) + 1 .. Len(toBroker') : toBroker'[i] = Ping \/ toBroker'[i].id = p.id
  BY <1>1 DEF Handled
<1>7. p.id \in Words
  BY <1>4 DEF Meant
<1> HIDE DEF p
<1>8. \A i \in Len(toBroker) + 1 .. Len(toBroker') : toBroker'[i] \in Numbered
  <2>1. \A i \in Len(toBroker) + 1 .. Len(toBroker') : i \in 1 .. Len(toBroker')
    BY <1>5
  <2>2. \A i \in Len(toBroker) + 1 .. Len(toBroker') : toBroker'[i] \in BrokerPackets
    BY <1>5, <2>1
  <2> QED
    BY <1>6, <1>7, <2>2, PingNumbered DEF Numbered
<1>9. toBroker' \in Seq(Numbered)
  BY <1>3, <1>5, <1>6, <1>8, GrownKind
<1> QED
  BY <1>4, <1>9 DEF OnTheWire

LEMMA TimeOutWired ==
  ASSUME WireInv, TimeOut, TypeInv'
  PROVE  OnTheWire'
<1>1. Silent
  BY TimeOutSilent DEF WireInv
<1>2. toClient' = toClient /\ Begins(toBroker, toBroker')
  BY <1>1 DEF Silent
<1>3. toBroker \in Seq(Numbered) /\ toBroker' \in Seq(BrokerPackets)
  BY DEF WireInv, OnTheWire, TypeInv, Queues
<1>4. \A i \in Len(toBroker) + 1 .. Len(toBroker') : toBroker'[i] \in Numbered
  BY <1>1, PingNumbered DEF Silent
<1>5. toBroker' \in Seq(Numbered)
  BY <1>2, <1>3, <1>4, GrownKind
<1> QED
  BY <1>2, <1>5 DEF OnTheWire, WireInv

LEMMA CommandWired ==
  ASSUME WireInv, NEW name, NEW type \in ToBrokerTypes, NEW arg \in Nat,
         Command(name, Packet(type, GetNextPacketId(next_packetid), arg), GetNextPacketId(next_packetid)),
         UNCHANGED toClient
  PROVE  OnTheWire'
<1> DEFINE id == GetNextPacketId(next_packetid)
           packet == Packet(type, id, arg)
<1>1. id \in 1 .. MaxPacketId /\ id \in Nat
  BY PacketIdTyped DEF WireInv, TypeInv, Numbers
<1>2. toBroker' = Append(toBroker, packet)
  BY DEF Command
<1> HIDE DEF id
<1>3. packet \in BrokerPackets /\ packet.id = id
  BY <1>1, PacketTyped DEF BrokerPackets, Packet
<1> HIDE DEF packet
<1>4. packet \in Numbered
  BY <1>1, <1>3, WireConstants DEF Numbered
<1>5. toBroker' \in Seq(Numbered)
  BY <1>2, <1>4, QueueAdded DEF WireInv, OnTheWire
<1> QED
  BY <1>5 DEF WireInv, OnTheWire

LEMMA ClientWired ==
  ASSUME WireInv, Client, TypeInv'
  PROVE  OnTheWire'
<1>1. CASE HandlePacket
  BY <1>1, HandlePacketWired
<1>2. CASE TimeOut
  BY <1>2, TimeOutWired
<1>3. CASE UNCHANGED <<toBroker, toClient>>
  BY <1>3 DEF WireInv, OnTheWire
<1>4. CASE Subscribe
  <2> DEFINE id == GetNextPacketId(next_packetid)
  <2>1. CASE Command("subscribe", Packet("SUBSCRIBE", id, 2), id)
    <3>1. "SUBSCRIBE" \in ToBrokerTypes /\ 2 \in Nat /\ UNCHANGED toClient
      BY <1>4 DEF Subscribe, ToBrokerTypes
    <3> QED
      BY <2>1, <3>1, CommandWired
  <2>2. CASE Skip
    BY <1>3, <1>4, <2>2 DEF Subscribe, Skip
  <2> QED
    BY <1>4, <2>1, <2>2 DEF Subscribe
<1>5. CASE Publish
  <2> DEFINE id == GetNextPacketId(next_packetid)
  <2>1. CASE Command("publish", Packet("PUBLISH", id, 1), id)
    <3>1. "PUBLISH" \in ToBrokerTypes /\ 1 \in Nat /\ UNCHANGED toClient
      BY <1>5 DEF Publish, ToBrokerTypes
    <3> QED
      BY <2>1, <3>1, CommandWired
  <2>2. CASE Skip
    BY <1>3, <1>5, <2>2 DEF Publish, Skip
  <2> QED
    BY <1>5, <2>1, <2>2 DEF Publish
<1>6. CASE Poll
  BY <1>3, <1>6 DEF Poll, Skip
<1>7. CASE Tick \/ Block
  BY <1>3, <1>7 DEF Tick, Block, Elapse
<1> QED
  BY <1>1, <1>2, <1>4, <1>5, <1>6, <1>7 DEF Client

\* What the broker tells.
LEMMA TellWired ==
  ASSUME WireInv, NEW type \in ToClientTypes, NEW id \in Words, NEW arg \in Nat, Tell(Packet(type, id, arg)),
         type \in {"CONNACK", "PINGRESP"} => id = 0,
         type \in {"PINGRESP", "PUBACK", "PUBREL"} => arg = 0,
         type = "PUBLISH" => id \in Messages /\ arg = QoS[id]
  PROVE  toClient' \in Seq(Meant)
<1> DEFINE packet == Packet(type, id, arg)
<1>1. packet \in Packets(ToClientTypes) /\ packet.type = type /\ packet.id = id /\ packet.arg = arg
  BY PacketTyped, WordsAreNumbers DEF Packet
<1>2. toClient' = Append(toClient, packet)
  BY DEF Tell
<1> HIDE DEF packet
<1>3. packet \in Meant
  BY <1>1 DEF Meant, ClientPackets
<1> QED
  BY <1>2, <1>3, QueueAdded DEF WireInv, OnTheWire

LEMMA BrokerReceiveWired ==
  ASSUME WireInv, BrokerReceive
  PROVE  OnTheWire'
<1> DEFINE p == Head(toBroker)
<1>1. p \in Numbered /\ toBroker' \in Seq(Numbered)
  BY QueueTaken DEF BrokerReceive, WireInv, OnTheWire
<1>2. p.id \in Words
  BY <1>1 DEF Numbered
<1>3. \/ UNCHANGED toClient
      \/ \E rc \in {0, 5} : Tell(Packet("CONNACK", 0, rc))
      \/ \E granted \in {2, Refused} : Tell(Packet("SUBACK", p.id, granted))
      \/ Tell(Packet("PUBACK", p.id, 0)) \/ Tell(Packet("PINGRESP", 0, 0)) \/ Tell(Packet("PUBREL", p.id, 0))
  BY DEF BrokerReceive
<1>4. {"CONNACK", "SUBACK", "PUBACK", "PUBREL", "PINGRESP"} \subseteq ToClientTypes
  BY DEF ToClientTypes
<1> HIDE DEF p
<1>5. 0 \in Words /\ 0 \in Nat
  BY WireConstants
<1>6. CASE \E rc \in {0, 5} : Tell(Packet("CONNACK", 0, rc))
  <2>1. PICK rc \in {0, 5} : Tell(Packet("CONNACK", 0, rc))
    BY <1>6
  <2>2. rc \in Nat
    OBVIOUS
  <2>3. toClient' \in Seq(Meant)
    BY <1>4, <1>5, <2>1, <2>2, TellWired
  <2> QED
    BY <1>1, <2>3 DEF OnTheWire
<1>7. CASE \E granted \in {2, Refused} : Tell(Packet("SUBACK", p.id, granted))
  <2>1. PICK granted \in {2, Refused} : Tell(Packet("SUBACK", p.id, granted))
    BY <1>7
  <2>2. granted \in Nat
    BY DEF Refused
  <2>3. toClient' \in Seq(Meant)
    BY <1>2, <1>4, <2>1, <2>2, TellWired
  <2> QED
    BY <1>1, <2>3 DEF OnTheWire
<1>8. CASE Tell(Packet("PUBACK", p.id, 0))
  BY <1>1, <1>2, <1>4, <1>5, <1>8, TellWired DEF OnTheWire
<1>9. CASE Tell(Packet("PINGRESP", 0, 0))
  BY <1>1, <1>4, <1>5, <1>9, TellWired DEF OnTheWire
<1>10. CASE Tell(Packet("PUBREL", p.id, 0))
  BY <1>1, <1>2, <1>4, <1>5, <1>10, TellWired DEF OnTheWire
<1>11. CASE UNCHANGED toClient
  BY <1>1, <1>11 DEF WireInv, OnTheWire
<1> QED
  BY <1>3, <1>6, <1>7, <1>8, <1>9, <1>10, <1>11

\* A message or a release that the broker sends, or sends again.
LEMMA BrokerSendsWired ==
  ASSUME WireInv, NEW m \in Messages, BrokerPublish(m) \/ BrokerRetry(m)
  PROVE  OnTheWire'
<1>1. /\ UNCHANGED toBroker
      /\ Tell(Packet("PUBLISH", m, QoS[m])) \/ Tell(Packet("PUBREL", m, 0))
  BY DEF BrokerPublish, BrokerRetry
<1>2. m \in Words /\ QoS[m] \in Nat /\ 0 \in Nat
  BY WireConstants, MqttAssumption
<1>3. "PUBLISH" \in ToClientTypes /\ "PUBREL" \in ToClientTypes
  BY DEF ToClientTypes
<1>4. CASE Tell(Packet("PUBLISH", m, QoS[m]))
  BY <1>1, <1>2, <1>3, <1>4, TellWired DEF WireInv, OnTheWire
<1>5. CASE Tell(Packet("PUBREL", m, 0))
  BY <1>1, <1>2, <1>3, <1>5, TellWired DEF WireInv, OnTheWire
<1> QED
  BY <1>1, <1>4, <1>5

LEMMA NextWired ==
  ASSUME WireInv, [Next]_vars
  PROVE  WireInv'
<1>1. TypeInv'
  BY NextTyped DEF WireInv
<1>2. CASE Client
  BY <1>1, <1>2, ClientWired DEF WireInv
<1>3. CASE BrokerReceive
  BY <1>1, <1>3, BrokerReceiveWired DEF WireInv
<1>4. CASE \E m \in Messages : BrokerPublish(m) \/ BrokerRetry(m)
  BY <1>1, <1>4, BrokerSendsWired DEF WireInv
<1>5. CASE UNCHANGED vars
  BY <1>1, <1>5 DEF vars, WireInv, OnTheWire
<1> QED
  BY <1>2, <1>3, <1>4, <1>5 DEF Next

LEMMA InitWired ==
  ASSUME Init
  PROVE  WireInv
<1>1. Packet("CONNECT", 0, 0) \in Numbered
  BY PacketTyped, WireConstants DEF ToBrokerTypes, BrokerPackets, Numbered, Packet
<1>2. TypeInv
  BY InitTyped
<1> QED
  BY <1>1, <1>2 DEF Init, WireInv, OnTheWire

\* What is sent consists of something.
LEMMA StringsAreSequences == \A s \in AllStrings : \E T : s \in Seq(T)
<1>1. \A s \in AllStrings : s \in Sequences(s)
  BY SMT, WireAssumption
<1>2. \A s : Sequences(s) = Seq({s[i] : i \in DOMAIN s})
  BY DEF Sequences
<1> QED
  BY <1>1, <1>2, Zenon

LEMMA BufferHolds == BufSize \in 0 .. MaxLength /\ 4 <= BufSize
<1>1. BufSize \in 0 .. MaxLength /\ PacketLen(ConnectLength(Strings.client)) <= BufSize
  BY WireAssumption
<1>2. Strings.client \in AllStrings
  BY DEF AllStrings
<1>3. PICK T : Strings.client \in Seq(T)
  BY <1>2, StringsAreSequences, Zenon
<1>4. ConnectLength(Strings.client) \in Nat /\ 4 <= ConnectLength(Strings.client)
  BY <1>3 DEF ConnectLength
<1>5. PacketLen(ConnectLength(Strings.client)) \in Nat
      /\ ConnectLength(Strings.client) + 2 <= PacketLen(ConnectLength(Strings.client))
  BY <1>4, PacketLenGrows
<1>6. BufSize \in Nat
  BY <1>1, MaxLengthNat
<1> QED
  BY <1>1, <1>4, <1>5, <1>6

\* What the client sends is framed.
LEMMA ClientFrames ==
  ASSUME NEW p \in BrokerPackets
  PROVE  FrameWhole(Sent(p), BufSize)
<1>1. p.type \in ToBrokerTypes /\ p.id \in Nat /\ p.arg \in Nat
  BY DEF BrokerPackets, Packets
<1>2. \A type \in {"PINGREQ", "PUBACK", "PUBREC", "PUBREL", "PUBCOMP"} : type \in DOMAIN TypeCode
  BY DEF TypeCode
<1>3. CASE p.type = "CONNECT"
  <2>1. PICK T : Strings.client \in Seq(T)
    <3>1. Strings.client \in AllStrings
      BY DEF AllStrings
    <3> QED
      BY <3>1, StringsAreSequences, Zenon
  <2>2. PacketLen(ConnectLength(Strings.client)) <= BufSize /\ KeepAlive \in Nat
    BY WireAssumption, MqttAssumption
  <2>3. Sent(p) = SerializeConnect(Strings.client, KeepAlive, BufSize)
    BY <1>3 DEF Sent
  <2> QED
    BY <2>1, <2>2, <2>3, BufferHolds, ConnectWhole
<1>4. CASE p.type = "SUBSCRIBE"
  <2>1. PICK T : Strings.settings \in Seq(T)
    <3>1. Strings.settings \in AllStrings
      BY DEF AllStrings
    <3> QED
      BY <3>1, StringsAreSequences, Zenon
  <2>2. PacketLen(SubscribeLength(Strings.settings)) <= BufSize
    BY WireAssumption
  <2>3. Sent(p) = SerializeSubscribe(p.id, Strings.settings, p.arg, BufSize)
    BY <1>4 DEF Sent
  <2> QED
    BY <1>1, <2>1, <2>2, <2>3, BufferHolds, SubscribeWhole
<1>5. CASE p.type = "PUBLISH"
  <2> DEFINE topic == Strings.status
             text == Strings.text
             length == PublishLength(p.arg, topic, text)
             longest == PublishLength(1, topic, text)
  <2>1. PICK T : topic \in Seq(T)
    <3>1. topic \in AllStrings
      BY DEF AllStrings
    <3> HIDE DEF topic
    <3> QED
      BY <3>1, StringsAreSequences, Zenon
  <2>2. PICK U : text \in Seq(U)
    <3>1. text \in AllStrings
      BY DEF AllStrings
    <3> HIDE DEF text
    <3> QED
      BY <3>1, StringsAreSequences, Zenon
  <2>3. PacketLen(longest) <= BufSize
    BY WireAssumption
  <2>4. Sent(p) = SerializePublish(p.arg, p.id, topic, text, BufSize)
    BY <1>5 DEF Sent
  <2> HIDE DEF topic, text
  <2>5. length \in Nat /\ longest \in Nat /\ length <= longest
    BY <1>1, <2>1, <2>2 DEF PublishLength
  <2> HIDE DEF length, longest
  <2>6. PacketLen(length) <= BufSize
    <3>1. PacketLen(length) <= PacketLen(longest) /\ PacketLen(length) \in Nat /\ PacketLen(longest) \in Nat
      BY <2>5, PacketLenGrows
    <3>2. BufSize \in Nat
      BY BufferHolds, MaxLengthNat
    <3> QED
      BY <2>3, <3>1, <3>2
  <2>7. FrameWhole(SerializePublish(p.arg, p.id, topic, text, BufSize), BufSize)
    BY <1>1, <2>1, <2>2, <2>6, BufferHolds, PublishWhole DEF length
  <2> QED
    BY <2>4, <2>7
<1>6. CASE p.type = "PINGREQ"
  <2>1. Sent(p) = SerializeZero(p.type)
    BY <1>6 DEF Sent
  <2> QED
    BY <1>2, <1>6, <2>1, BufferHolds, ZeroWhole
<1>7. CASE p.type \in {"PUBACK", "PUBREC", "PUBREL", "PUBCOMP"}
  <2>1. Sent(p) = SerializeAck(p.type, p.id)
    BY <1>7 DEF Sent
  <2> QED
    BY <1>1, <1>2, <1>7, <2>1, BufferHolds, AckWhole
<1> QED
  BY <1>1, <1>3, <1>4, <1>5, <1>6, <1>7 DEF ToBrokerTypes

\* What the broker sends is read.
ReadBack(p) ==
  IF p.type = "PUBLISH"
  THEN Read(SentByBroker(p)) = Message(p.arg, p.id, Strings.settings, Texts[p.id])
  ELSE Read(SentByBroker(p)) = p

LEMMA BrokerIsRead ==
  ASSUME NEW p \in Meant
  PROVE  ReadBack(p)
<1>1. /\ p.type \in ToClientTypes /\ p.id \in Words /\ p.arg \in Nat
      /\ p = [type |-> p.type, id |-> p.id, arg |-> p.arg]
      /\ p.type = "PUBLISH" => p.id \in Messages /\ p.arg = QoS[p.id]
      /\ p.type = "CONNACK" => p.id = 0
      /\ p.type = "PINGRESP" => p.id = 0 /\ p.arg = 0
      /\ p.type \in {"PUBACK", "PUBREL"} => p.arg = 0
  BY DEF Meant, ClientPackets, Packets
<1> DEFINE buf == SentByBroker(p)
<1>2. CASE p.type = "CONNACK"
  <2>1. buf = <<Header("CONNACK", 0)>> \o Encode[2] \o <<0, p.arg>>
    BY <1>2 DEF SentByBroker
  <2> HIDE DEF buf
  <2>2. TypeOf(buf) = "CONNACK" /\ DeserializeConnack(buf) = [type |-> "CONNACK", id |-> 0, arg |-> p.arg]
    BY <1>1, <2>1, ConnackRead
  <2>3. Read(buf) = [type |-> "CONNACK", id |-> 0, arg |-> p.arg]
    BY <2>2 DEF Read
  <2>4. Read(buf) = p
    BY <1>1, <1>2, <2>3
  <2> QED
    BY <1>2, <2>4 DEF ReadBack, buf
<1>3. CASE p.type = "SUBACK"
  <2>1. buf = <<Header("SUBACK", 0)>> \o Encode[3] \o WriteInt(p.id) \o <<p.arg>>
    BY <1>3 DEF SentByBroker
  <2> HIDE DEF buf
  <2>2. TypeOf(buf) = "SUBACK" /\ DeserializeSuback(buf) = [type |-> "SUBACK", id |-> p.id, arg |-> p.arg]
    BY <1>1, <2>1, SubackRead
  <2>3. Read(buf) = [type |-> "SUBACK", id |-> p.id, arg |-> p.arg]
    BY <2>2 DEF Read
  <2>4. Read(buf) = p
    BY <1>1, <1>3, <2>3
  <2> QED
    BY <1>3, <2>4 DEF ReadBack, buf
<1>4. CASE p.type = "PUBLISH"
  <2> DEFINE topic == Strings.settings
             text == Texts[p.id]
  <2>1. PICK T : topic \in Seq(T)
    <3>1. topic \in AllStrings
      BY DEF AllStrings
    <3> HIDE DEF topic
    <3> QED
      BY <3>1, StringsAreSequences, Zenon
  <2>2. PICK U : text \in Seq(U)
    <3>1. text \in AllStrings
      BY <1>1, <1>4 DEF AllStrings
    <3> HIDE DEF text
    <3> QED
      BY <3>1, StringsAreSequences, Zenon
  <2>3. p.id \in Messages /\ p.arg = QoS[p.id] /\ p.arg \in 0 .. 2
    BY <1>1, <1>4, MqttAssumption
  <2>4. PacketLen(PublishLength(p.arg, topic, text)) <= BufSize
    BY <2>3, WireAssumption
  <2>5. buf = SerializePublish(p.arg, p.id, topic, text, BufSize)
    BY <1>4 DEF SentByBroker
  <2>6. Len(topic) \in Words
    <3>1. Len(topic) < 65536
      BY SMT, WireAssumption
    <3> HIDE DEF topic
    <3>2. Len(topic) \in Nat
      BY <2>1
    <3> QED
      BY <3>1, <3>2, WordFacts, SMT
  <2> HIDE DEF topic, text, buf
  <2>7. TypeOf(buf) = "PUBLISH" /\ DeserializePublish(buf) = Message(p.arg, p.id, topic, text)
    BY <1>1, <2>1, <2>2, <2>3, <2>4, <2>5, <2>6, BufferHolds, PublishRead
  <2>8. Read(buf) = Message(p.arg, p.id, topic, text)
    BY <2>7 DEF Read
  <2> QED
    BY <1>4, <2>8 DEF ReadBack, buf, topic, text
<1>5. CASE p.type = "PINGRESP"
  <2>1. buf = SerializeZero("PINGRESP") /\ "PINGRESP" \in DOMAIN TypeCode
    BY <1>5 DEF SentByBroker, TypeCode
  <2> HIDE DEF buf
  <2>2. TypeOf(buf) = "PINGRESP"
    BY <2>1, ZeroRead
  <2>3. Read(buf) = [type |-> "PINGRESP", id |-> 0, arg |-> 0]
    BY <2>2 DEF Read, Packet
  <2>4. Read(buf) = p
    BY <1>1, <1>5, <2>3
  <2> QED
    BY <1>5, <2>4 DEF ReadBack, buf
<1>6. CASE p.type \in {"PUBACK", "PUBREL"}
  <2>1. buf = SerializeAck(p.type, p.id) /\ p.type \in DOMAIN TypeCode
    BY <1>6 DEF SentByBroker, TypeCode
  <2> HIDE DEF buf
  <2>2. TypeOf(buf) = p.type /\ DeserializeAck(buf) = [type |-> p.type, id |-> p.id, arg |-> 0]
    BY <1>1, <2>1, AckRead
  <2>3. Read(buf) = [type |-> p.type, id |-> p.id, arg |-> 0]
    BY <1>6, <2>2 DEF Read
  <2>4. Read(buf) = p
    BY <1>1, <1>6, <2>3
  <2> QED
    BY <1>6, <2>4 DEF ReadBack, buf
<1> QED
  BY <1>1, <1>2, <1>3, <1>4, <1>5, <1>6 DEF ToClientTypes

LEMMA WiredMeansAgreed ==
  ASSUME WireInv
  PROVE  PacketsAgree
<1>1. FramesWhole
  <2> SUFFICES ASSUME toBroker # <<>> PROVE FrameWhole(Sent(Head(toBroker)), BufSize)
    BY DEF FramesWhole, FrameWhole
  <2>1. Head(toBroker) \in BrokerPackets
    BY QueueTaken DEF WireInv, TypeInv, Queues
  <2> QED
    BY <2>1, ClientFrames
<1>2. ReadAsWritten
  <2> SUFFICES ASSUME toClient # <<>> PROVE ReadBack(Head(toClient))
    BY DEF ReadAsWritten, ReadBack, Message
  <2>1. Head(toClient) \in Meant
    BY QueueTaken DEF WireInv, OnTheWire
  <2> QED
    BY <2>1, BrokerIsRead
<1> QED
  BY <1>1, <1>2 DEF PacketsAgree

\* Whatever the strings and the messages are, if they fit the buffer: the length that
\* a packet announces is the length that follows, and the client reads the packet
\* that the broker has written.
THEOREM PacketsAlwaysAgree == Spec => []PacketsAgree
<1>1. Init => WireInv
  BY InitWired
<1>2. WireInv /\ [Next]_vars => WireInv'
  BY NextWired
<1>3. WireInv => PacketsAgree
  BY WiredMeansAgreed
<1> QED
  BY <1>1, <1>2, <1>3, PTL DEF Spec

\* Whatever has been handed to the program, the settings that its callback takes
\* are those that the sender meant, for all messages in JSON, wherever their
\* blanks are, if none follows the word true.
THEOREM SettingsAlwaysAsMeant == Spec => []SettingsAsMeant
<1>1. Init => TypeInv
  BY InitTyped
<1>2. TypeInv /\ [Next]_vars => TypeInv'
  BY NextTyped
<1>3. TypeInv => SettingsAsMeant
  <2> SUFFICES ASSUME TypeInv, NEW m \in delivered, TrueEnds(Texts[m])
               PROVE  Settings(Fields(Texts[m])) = Settings(Meanings[m])
    BY DEF SettingsAsMeant
  <2>1. m \in Messages
    BY DEF TypeInv, Knowledge
  <2>2. PICK T : Texts[m] \in Seq(T)
    <3>1. Texts[m] \in AllStrings
      BY <2>1 DEF AllStrings
    <3>2. Texts[m] \in Sequences(Texts[m])
      BY <3>1, WireAssumption
    <3> QED
      BY <3>2 DEF Sequences
  <2>3. PICK F : Meanings[m] \in Seq(F)
    <3>1. Meanings[m] \in Sequences(Meanings[m])
      BY <2>1, MeaningAssumption
    <3> QED
      BY <3>1 DEF Sequences
  <2>4. Says(Texts[m], Meanings[m])
    BY <2>1, MeaningAssumption
  <2> DEFINE k == Len(Meanings[m])
             read == Fields(Texts[m])
  <2>5. Len(read) = k /\ \A i \in 1 .. k : ReadAs(T, Texts[m], read[i], Meanings[m][i])
    BY <2>2, <2>3, <2>4, SaidIsRead
  <2> HIDE DEF k, read
  <2>6. \A i \in 1 .. k : Setting(read[i]) = Setting(Meanings[m][i])
    BY <2>5, SettingIsMeant
  <2> QED
    BY <2>5, <2>6, Zenon DEF Settings, k, read
<1> QED
  BY <1>1, <1>2, <1>3, PTL DEF Spec
=============================================================================
