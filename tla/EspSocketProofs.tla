--------------------------- MODULE EspSocketProofs ---------------------------
(***************************************************************************)
(* Proofs about EspSocket, for all sizes of the buffers, all timeouts and  *)
(* all numbers of failures: when the socket is ready the module has joined *)
(* the network, when it is connected the module passes everything on, and  *)
(* no command is sent to the broker.                                       *)
(***************************************************************************)
EXTENDS EspSocket, SequenceTheorems, WellFoundedInduction, TLAPS

-----------------------------------------------------------------------------
(* The invariant *)

OnlyLast(q, p) == \A i \in 1 .. Len(q) - 1 : q[i] # p

AtMostOnce(q, p) == \A i, j \in 1 .. Len(q) : q[i] = p /\ q[j] = p => i = j

Only(q, p) == \A i \in 1 .. Len(q) : q[i] = p

Commands ==
  {"AT", "ATE0", "CWMODE?", "CWMODE=1", "CWJAP", "CIPSTART", "CIPMODE=1", "CIPMODE=0",
   "CIPSEND", "CIPCLOSE", "+++", "data"}

CallTypes ==
  /\ caller \in DOMAIN Goal \cup {"idle"} /\ running \in BOOLEAN
  /\ events \in Seq(Events) /\ Len(events) <= EventQueueSize

MachineTypes ==
  /\ state \in States /\ timer \in Nat /\ count \in Nat /\ count < 5
  /\ buffer \in Seq(Pieces) /\ Len(buffer) <= BufferSize
  /\ input \in Seq(Pieces) /\ Len(input) <= InputSize
  /\ commands \in Seq(Commands)

ModuleType ==
  [mode : {"command", "data"}, garbled : BOOLEAN, station : BOOLEAN, joined : BOOLEAN,
   linked : BOOLEAN, transparent : BOOLEAN]

Types == CallTypes /\ MachineTypes /\ module \in ModuleType

\* The events of a run: at most one tick, which comes before the received text.
Requests == {"connect", "disconnect"}

EventOrder ==
  /\ running => events # <<>> /\ caller # "idle"
  /\ ~running => \A i \in 1 .. Len(events) : events[i] \in Requests
  /\ \A i \in 1 .. Len(events) : events[i] = "tick" => \A j \in 1 .. i - 1 : events[j] \in Requests

\* When a tick has been seen nothing is on its way, until it is dispatched.
TickPending ==
  Contains(events, "tick") =>
    /\ state # "ConnectTCP" => commands = <<>>
    /\ state = "EchoOff" => input = <<>>
    /\ state = "Init" => ~Contains(input, "OK")
    /\ state = "ConnectAP" => input = <<>> \/ Len(buffer) >= BufferSize

Plain == module.mode = "command" /\ ~module.garbled

Joined == module.station /\ module.joined

\* In each state: the commands that the module has not taken yet, the answers
\* that the driver has not read yet, and what the module is known to be.
InitTalk ==
  /\ commands \in {<<>>, <<"AT">>} /\ buffer = <<>>
  /\ Contains(input, "OK") => commands = <<>> /\ Plain

ATTalk == commands \in {<<>>, <<"+++">>} /\ buffer = <<>>

EchoOffTalk ==
  /\ Plain /\ commands \in {<<>>, <<"ATE0">>} /\ buffer = <<>>
  /\ input \in {<<>>, <<"OK">>} /\ (input # <<>> => commands = <<>>)

StationModeCheckTalk ==
  /\ Plain /\ commands \in {<<>>, <<"CWMODE?">>}
  /\ ~Contains(buffer, "OK") /\ OnlyLast(input, "OK")
  /\ commands # <<>> => input = <<>> /\ buffer = <<>>
  /\ Contains(buffer, "MODE1") \/ Contains(input, "MODE1") => module.station

StationModeSetTalk ==
  /\ Plain /\ commands \in {<<>>, <<"CWMODE=1">>} /\ buffer = <<>>
  /\ input \in {<<>>, <<"OK">>} /\ (input # <<>> => commands = <<>> /\ module.station)

ConnectAPTalk ==
  /\ Plain /\ module.station /\ commands \in {<<>>, <<"CWJAP">>}
  /\ ~Contains(buffer, "OK")
  /\ Len(buffer) < BufferSize =>
       /\ OnlyLast(input, "OK")
       /\ Contains(input, "OK") => commands = <<>> /\ module.joined

ReadyTalk == Plain /\ Joined /\ commands = <<>> /\ input = <<>> /\ buffer = <<>>

ConnectTCPTalk ==
  /\ Plain /\ Joined /\ Only(commands, "CIPSTART")
  /\ Contains(buffer, "OK") \/ Contains(input, "OK") => module.linked
  /\ AtMostOnce(input, "OK") /\ (Contains(buffer, "OK") => ~Contains(input, "OK"))

PassthroughTalk ==
  /\ Plain /\ Joined /\ module.linked
  /\ \A i \in 1 .. Len(commands) : commands[i] \in {"CIPSTART", "CIPMODE=1"}
  /\ OnlyLast(commands, "CIPMODE=1")
  /\ ~Contains(buffer, "OK") /\ OnlyLast(input, "OK")
  /\ Contains(input, "OK") => commands = <<>> /\ module.transparent

PassthroughOKTalk ==
  /\ ~module.garbled /\ Joined /\ module.linked /\ module.transparent /\ buffer = <<>>
  /\ module.mode = "command" => commands = <<"CIPSEND">> /\ input = <<>>
  /\ module.mode = "data" => commands = <<>>
  /\ \A i, j \in 1 .. Len(input) : input[i] = ">" /\ i < j => input[j] = "data"

ConnectedTalk ==
  /\ module.mode = "data" /\ ~module.garbled /\ Joined /\ module.linked /\ buffer = <<>>
  /\ Only(input, "data") /\ Only(commands, "data")

CommandModeTalk ==
  /\ ~module.garbled /\ Joined /\ buffer = <<>> /\ Only(input, "data")
  /\ timer < GuardTicks => module.mode = "data" /\ Only(commands, "data")
  /\ timer >= GuardTicks /\ module.mode = "data" => commands = <<"+++">>
  /\ timer >= GuardTicks /\ module.mode = "command" => commands = <<>>

CloseTCPTalk ==
  /\ Plain /\ Joined /\ commands \in {<<>>, <<"CIPMODE=0">>, <<"CIPCLOSE">>}
  /\ ~Contains(buffer, "OK") /\ OnlyLast(input, "OK")
  /\ Contains(input, "OK") => commands = <<>>

Talk ==
  /\ state = "Init"             => InitTalk
  /\ state = "AT"               => ATTalk
  /\ state = "EchoOff"          => EchoOffTalk
  /\ state = "StationModeCheck" => StationModeCheckTalk
  /\ state = "StationModeSet"   => StationModeSetTalk
  /\ state = "ConnectAP"        => ConnectAPTalk
  /\ state = "Ready"            => ReadyTalk
  /\ state = "ConnectTCP"       => ConnectTCPTalk
  /\ state = "Passthrough"      => PassthroughTalk
  /\ state = "PassthroughOK"    => PassthroughOKTalk
  /\ state = "Connected"        => ConnectedTalk
  /\ state = "CommandMode"      => CommandModeTalk
  /\ state = "CloseTCP"         => CloseTCPTalk

Inv == Types /\ EventOrder /\ TickPending /\ Talk

THEOREM InvImpliesProperties ==
  ASSUME Inv
  PROVE  TypeOK /\ ReadyMeansJoined /\ ConnectedMeansTransparent
<1>1. count \in 0 .. 4
  BY DEF Inv, Types, MachineTypes
<1>2. TypeOK
  BY <1>1 DEF Inv, Types, CallTypes, MachineTypes, TypeOK
<1>3. ReadyMeansJoined
  BY DEF Inv, Talk, ReadyTalk, Plain, Joined, ReadyMeansJoined
<1>4. ASSUME NEW q \in Seq(Commands) \cup Seq(Pieces), Only(q, "data")
      PROVE  ToSet(q) \subseteq {"data"}
  BY <1>4 DEF Only, ToSet
<1>5. ConnectedMeansTransparent
  BY <1>4 DEF Inv, Types, MachineTypes, Talk, ConnectedTalk, ConnectedMeansTransparent
<1> QED
  BY <1>2, <1>3, <1>5

-----------------------------------------------------------------------------
(* Sequences *)

LEMMA HeadAndTail ==
  ASSUME NEW S, NEW q \in Seq(S), q # <<>>
  PROVE  /\ Head(q) = q[1] /\ Head(q) \in S /\ Len(q) \in Nat /\ Len(q) > 0
         /\ Tail(q) \in Seq(S) /\ Len(Tail(q)) = Len(q) - 1
         /\ \A i \in 1 .. Len(Tail(q)) : Tail(q)[i] = q[i + 1]
BY HeadTailProperties

LEMMA One ==
  ASSUME NEW x
  PROVE  /\ Head(<<x>>) = x /\ Tail(<<x>>) = <<>> /\ <<x>> # <<>>
         /\ Len(<<x>>) = 1 /\ <<x>>[1] = x
OBVIOUS

LEMMA OneOf ==
  ASSUME NEW S, NEW x \in S
  PROVE  <<x>> \in Seq(S)
OBVIOUS

LEMMA Joint ==
  ASSUME NEW S, NEW q \in Seq(S), NEW r \in Seq(S)
  PROVE  /\ q \o r \in Seq(S) /\ Len(q) \in Nat /\ Len(r) \in Nat
         /\ Len(q \o r) = Len(q) + Len(r)
         /\ \A i \in 1 .. Len(q) : (q \o r)[i] = q[i]
         /\ \A i \in 1 .. Len(r) : (q \o r)[Len(q) + i] = r[i]
BY ConcatProperties

LEMMA JointEmpty ==
  ASSUME NEW S, NEW q \in Seq(S)
  PROVE  q \o <<>> = q /\ <<>> \o q = q
BY ConcatEmptySeq

\* Members of a sequence.
LEMMA Member ==
  ASSUME NEW S, NEW q \in Seq(S), NEW p
  PROVE  (p \in ToSet(q)) <=> Contains(q, p)
BY DEF ToSet, Contains

LEMMA EmptyText ==
  /\ <<>> \in Seq(Pieces) /\ <<>> \in Seq(Commands) /\ Len(<<>>) = 0
  /\ \A p : ~Contains(<<>>, p) /\ OnlyLast(<<>>, p) /\ AtMostOnce(<<>>, p) /\ Only(<<>>, p)
BY DEF Contains, OnlyLast, AtMostOnce, Only

\* Every set of numbers that has members has a least one.
LEMMA Least ==
  ASSUME NEW T, T \subseteq Nat, T # {}
  PROVE  \E x \in T : \A y \in T : x <= y
<1>1. PICK x \in T : \A y \in T : ~(<<y, x>> \in OpToRel(<, Nat))
  BY WFMin, NatLessThanWellFounded
<1>2. \A y \in T : ~(y < x)
  BY <1>1 DEF OpToRel
<1>3. \A y \in T : x <= y
  BY <1>2
<1> QED
  BY <1>3

\* Where SelectInSeq finds a piece.
LEMMA Found ==
  ASSUME NEW S, NEW q \in Seq(S), NEW p, Contains(q, p)
  PROVE  LET k == SelectInSeq(q, LAMBDA x : x = p) IN k \in 1 .. Len(q) /\ q[k] = p
<1> DEFINE I == {i \in 1 .. Len(q) : q[i] = p}
<1>1. I # {} /\ I \subseteq Nat
  BY DEF Contains
<1>2. \E x \in I : \A y \in I : x <= y
  BY <1>1, Least
<1>3. Min(I) \in I
  BY <1>2 DEF Min
<1>4. SelectInSeq(q, LAMBDA x : x = p) = Min(I)
  BY <1>1 DEF SelectInSeq
<1> QED
  BY <1>3, <1>4

\* The pieces of <<x, y>> and of <<x>>.
LEMMA TwoPieces ==
  ASSUME NEW S, NEW x \in S, NEW y \in S
  PROVE  /\ <<x, y>> \in Seq(S) /\ Len(<<x, y>>) = 2
         /\ <<x, y>>[1] = x /\ <<x, y>>[2] = y
OBVIOUS

\* What is left of a sequence after its first n elements.
LEMMA Suffix ==
  ASSUME NEW q \in Seq(Pieces), NEW n \in Nat, n <= Len(q), NEW r \in Seq(Pieces),
         Len(r) = Len(q) - n, \A i \in 1 .. Len(r) : r[i] = q[n + i], NEW p
  PROVE  /\ Contains(r, p) => Contains(q, p)
         /\ Only(q, p) => Only(r, p)
         /\ OnlyLast(q, p) => OnlyLast(r, p)
         /\ AtMostOnce(q, p) => AtMostOnce(r, p)
         /\ (\E i \in 1 .. n : q[i] = p) =>
              /\ OnlyLast(q, p) => r = <<>>
              /\ AtMostOnce(q, p) => ~Contains(r, p)
<1>1. Len(q) \in Nat /\ Len(r) \in Nat
  OBVIOUS
<1>2. \A i \in 1 .. Len(r) : n + i \in 1 .. Len(q) /\ r[i] = q[n + i]
  BY <1>1
<1>3. Contains(r, p) => Contains(q, p)
  BY <1>2 DEF Contains
<1>4. Only(q, p) => Only(r, p)
  BY <1>2 DEF Only
<1>5. OnlyLast(q, p) => OnlyLast(r, p)
  <2> SUFFICES ASSUME OnlyLast(q, p), NEW i \in 1 .. Len(r) - 1 PROVE r[i] # p
    BY DEF OnlyLast
  <2>1. n + i \in 1 .. Len(q) - 1 /\ r[i] = q[n + i]
    BY <1>1, <1>2
  <2> QED
    BY <2>1 DEF OnlyLast
<1>6. AtMostOnce(q, p) => AtMostOnce(r, p)
  <2> SUFFICES ASSUME AtMostOnce(q, p), NEW i \in 1 .. Len(r), NEW j \in 1 .. Len(r),
                      r[i] = p, r[j] = p
               PROVE  i = j
    BY DEF AtMostOnce
  <2>1. n + i = n + j
    BY <1>2 DEF AtMostOnce
  <2> QED
    BY <1>1, <2>1
<1>7. ASSUME NEW i \in 1 .. n, q[i] = p
      PROVE  /\ OnlyLast(q, p) => r = <<>>
             /\ AtMostOnce(q, p) => ~Contains(r, p)
  <2>1. i \in 1 .. Len(q)
    BY <1>1
  <2>2. OnlyLast(q, p) => Len(r) = 0
    BY <1>1, <1>7, <2>1 DEF OnlyLast
  <2>3. ASSUME AtMostOnce(q, p), NEW j \in 1 .. Len(r), r[j] = p PROVE FALSE
    <3>1. n + j = i
      BY <1>2, <1>7, <2>1, <2>3 DEF AtMostOnce
    <3> QED
      BY <1>1, <3>1
  <2> QED
    BY <2>2, <2>3, EmptySeq DEF Contains
<1> QED
  BY <1>3, <1>4, <1>5, <1>6, <1>7

-----------------------------------------------------------------------------
(* What arrives, and what is read *)

\* Arrive leaves what was there, and adds a part of the new pieces.
LEMMA Arrived ==
  ASSUME Types, NEW pieces \in Seq(Pieces), Arrive(pieces)
  PROVE  /\ input' \in Seq(Pieces) /\ Len(input') \in Nat /\ Len(input') <= InputSize
         /\ Len(input) \in Nat /\ Len(pieces) \in Nat
         /\ Len(input) <= Len(input') /\ Len(input') <= Len(input) + Len(pieces)
         /\ \A i \in 1 .. Len(input) : input'[i] = input[i]
         /\ \A i \in 1 .. Len(input') - Len(input) : input'[Len(input) + i] = pieces[i]
<1> DEFINE all == input \o pieces
<1>1. input \in Seq(Pieces) /\ Len(input) \in Nat /\ Len(input) <= InputSize /\ InputSize \in Nat
  BY EspAssumption DEF Types, MachineTypes
<1>2. /\ all \in Seq(Pieces) /\ Len(pieces) \in Nat
      /\ Len(all) = Len(input) + Len(pieces)
      /\ \A i \in 1 .. Len(input) : all[i] = input[i]
      /\ \A i \in 1 .. Len(pieces) : all[Len(input) + i] = pieces[i]
  BY <1>1, Joint
<1>3. input' = IF Len(all) <= InputSize THEN all ELSE SubSeq(all, 1, InputSize)
  BY DEF Arrive
<1> HIDE DEF all
<1>4. CASE Len(all) <= InputSize
  BY <1>1, <1>2, <1>3, <1>4
<1>5. CASE Len(all) > InputSize
  <2>1. /\ SubSeq(all, 1, InputSize) \in Seq(Pieces)
        /\ Len(SubSeq(all, 1, InputSize)) = InputSize
        /\ \A i \in 1 .. InputSize : SubSeq(all, 1, InputSize)[i] = all[i]
    BY <1>1, <1>2, <1>5, SubSeqProperties
  <2> QED
    BY <1>1, <1>2, <1>3, <1>5, <2>1
<1> QED
  BY <1>1, <1>2, <1>4, <1>5

LEMMA ArrivedNothing ==
  ASSUME Types, Arrive(<<>>)
  PROVE  input' = input
<1>1. input \o <<>> = input
  BY JointEmpty DEF Types, MachineTypes
<1> QED
  BY <1>1 DEF Arrive, Types, MachineTypes

\* One piece for an empty buffer.
LEMMA ArrivedOne ==
  ASSUME Types, input = <<>>, NEW x \in Pieces, Arrive(<<x>>)
  PROVE  input' = <<x>>
<1>1. <<>> \o <<x>> = <<x>> /\ Len(<<x>>) = 1
  BY OneOf, JointEmpty
<1>2. InputSize >= 1
  BY EspAssumption
<1> QED
  BY <1>1, <1>2 DEF Arrive

\* Reading stops somewhere in what has arrived, and within the buffer.
LEMMA TakenRange ==
  ASSUME Types
  PROVE  /\ Taken \in Nat /\ Taken <= Len(input) /\ Len(buffer) + Taken <= BufferSize
         /\ Taken < MayRead => HasResult(Taken)
<1>1. /\ Len(input) \in Nat /\ Len(buffer) \in Nat /\ BufferSize \in Nat
      /\ Len(buffer) <= BufferSize
  BY EspAssumption, SMTT(60) DEF Types, MachineTypes
<1>2. MayRead \in Nat /\ MayRead <= Len(input) /\ Len(buffer) + MayRead <= BufferSize
  BY <1>1 DEF MayRead
<1> DEFINE Good(n) == /\ \A k \in 1 .. n - 1 : ~HasResult(k)
                      /\ n < MayRead => n > 0 /\ HasResult(n)
           T == {n \in 1 .. MayRead : HasResult(n)}
<1>3. \E n \in 0 .. MayRead : Good(n)
  <2>1. CASE T = {}
    <3>1. MayRead \in 0 .. MayRead /\ Good(MayRead)
      BY <1>2, <2>1
    <3> QED
      BY <3>1
  <2>2. CASE T # {}
    <3> T \subseteq Nat
      BY <1>2
    <3>1. PICK n \in T : \A m \in T : n <= m
      BY <2>2, Least
    <3>2. n \in 1 .. MayRead /\ HasResult(n)
      BY <3>1
    <3>3. ASSUME NEW k \in 1 .. n - 1 PROVE ~HasResult(k)
      BY <1>2, <3>1, <3>2, <3>3
    <3>4. n \in 0 .. MayRead /\ Good(n)
      BY <1>2, <3>2, <3>3
    <3> QED
      BY <3>4
  <2> QED
    BY <2>1, <2>2
<1>4. Taken = CHOOSE n \in 0 .. MayRead : Good(n)
  BY DEF Taken
<1>5. Taken \in 0 .. MayRead /\ Good(Taken)
  BY <1>3, <1>4
<1> QED
  BY <1>1, <1>2, <1>5

\* The pieces of Text(n) and of Left(n).
LEMMA Reading ==
  ASSUME Types, NEW n \in Nat, n <= Len(input)
  PROVE  /\ Text(n) \in Seq(Pieces) /\ Len(Text(n)) = Len(buffer) + n
         /\ \A p : p \in ToSet(Text(n)) <=>
                     (Contains(buffer, p) \/ \E i \in 1 .. n : input[i] = p)
         /\ Left(n) \in Seq(Pieces) /\ Len(Left(n)) = Len(input) - n
         /\ \A i \in 1 .. Len(Left(n)) : Left(n)[i] = input[n + i]
<1> DEFINE read == SubSeq(input, 1, n)
<1>1. input \in Seq(Pieces) /\ buffer \in Seq(Pieces) /\ Len(input) \in Nat /\ Len(buffer) \in Nat
  BY DEF Types, MachineTypes
<1>2. read \in Seq(Pieces) /\ Len(read) = n /\ \A i \in 1 .. n : read[i] = input[i]
  BY <1>1, SubSeqProperties
<1>3. /\ Left(n) \in Seq(Pieces) /\ Len(Left(n)) = Len(input) - n
      /\ \A i \in 1 .. Len(Left(n)) : Left(n)[i] = input[n + i]
  <2>1. /\ SubSeq(input, n + 1, Len(input)) \in Seq(Pieces)
        /\ Len(SubSeq(input, n + 1, Len(input))) = Len(input) - n
    BY <1>1, SubSeqProperties
  <2>2. \A i \in 1 .. Len(input) - n : SubSeq(input, n + 1, Len(input))[i] = input[n + i]
    BY <1>1, SubSeqProperties
  <2> QED
    BY <2>1, <2>2 DEF Left
<1>4. Text(n) = buffer \o read
  BY DEF Text
<1> HIDE DEF read
<1>5. /\ Text(n) \in Seq(Pieces) /\ Len(Text(n)) = Len(buffer) + n
      /\ \A i \in 1 .. Len(buffer) : Text(n)[i] = buffer[i]
      /\ \A i \in 1 .. n : Text(n)[Len(buffer) + i] = input[i]
  BY <1>1, <1>2, <1>4, Joint
<1>6. ASSUME NEW p
      PROVE  Contains(Text(n), p) <=> (Contains(buffer, p) \/ \E i \in 1 .. n : input[i] = p)
  <2>1. ASSUME NEW i \in 1 .. Len(Text(n)), Text(n)[i] = p
        PROVE  Contains(buffer, p) \/ \E j \in 1 .. n : input[j] = p
    <3>1. CASE i <= Len(buffer)
      BY <1>1, <1>5, <2>1, <3>1 DEF Contains
    <3>2. CASE i > Len(buffer)
      <4>1. i - Len(buffer) \in 1 .. n /\ i = Len(buffer) + (i - Len(buffer))
        BY <1>1, <1>5, <3>2
      <4>2. input[i - Len(buffer)] = p
        BY <1>5, <2>1, <4>1
      <4> QED
        BY <4>1, <4>2
    <3> QED
      BY <1>1, <3>1, <3>2
  <2>2. ASSUME NEW i \in 1 .. Len(buffer), buffer[i] = p
        PROVE  Contains(Text(n), p)
    BY <1>1, <1>5, <2>2 DEF Contains
  <2>3. ASSUME NEW i \in 1 .. n, input[i] = p
        PROVE  Contains(Text(n), p)
    <3>1. Len(buffer) + i \in 1 .. Len(Text(n)) /\ Text(n)[Len(buffer) + i] = p
      BY <1>1, <1>5, <2>3
    <3> QED
      BY <3>1 DEF Contains
  <2> QED
    BY <2>1, <2>2, <2>3 DEF Contains
<1>7. ASSUME NEW p
      PROVE  p \in ToSet(Text(n)) <=> (Contains(buffer, p) \/ \E i \in 1 .. n : input[i] = p)
  BY <1>5, <1>6, Member
<1> QED
  BY <1>3, <1>5, <1>7

LEMMA LeftOver ==
  ASSUME Types, NEW n \in Nat, n <= Len(input), NEW p
  PROVE  /\ Left(n) \in Seq(Pieces) /\ Len(Left(n)) <= InputSize
         /\ Contains(Left(n), p) => Contains(input, p)
         /\ OnlyLast(input, p) => OnlyLast(Left(n), p)
         /\ AtMostOnce(input, p) => AtMostOnce(Left(n), p)
         /\ (\E i \in 1 .. n : input[i] = p) =>
              /\ OnlyLast(input, p) => Left(n) = <<>>
              /\ AtMostOnce(input, p) => ~Contains(Left(n), p)
<1>1. input \in Seq(Pieces) /\ Len(input) \in Nat /\ Len(input) <= InputSize /\ InputSize \in Nat
  BY EspAssumption DEF Types, MachineTypes
<1>2. /\ Left(n) \in Seq(Pieces) /\ Len(Left(n)) = Len(input) - n
      /\ \A i \in 1 .. Len(Left(n)) : Left(n)[i] = input[n + i]
  BY Reading
<1> DEFINE r == Left(n)
<1>3. r \in Seq(Pieces) /\ Len(r) = Len(input) - n /\ \A i \in 1 .. Len(r) : r[i] = input[n + i]
  BY <1>2
<1> HIDE DEF r
<1>4. /\ Contains(r, p) => Contains(input, p)
      /\ OnlyLast(input, p) => OnlyLast(r, p)
      /\ AtMostOnce(input, p) => AtMostOnce(r, p)
      /\ (\E i \in 1 .. n : input[i] = p) =>
           /\ OnlyLast(input, p) => r = <<>>
           /\ AtMostOnce(input, p) => ~Contains(r, p)
  <2>1. ASSUME NEW q \in Seq(Pieces), n <= Len(q), Len(r) = Len(q) - n,
               \A i \in 1 .. Len(r) : r[i] = q[n + i]
        PROVE  /\ Contains(r, p) => Contains(q, p)
               /\ OnlyLast(q, p) => OnlyLast(r, p)
               /\ AtMostOnce(q, p) => AtMostOnce(r, p)
               /\ (\E i \in 1 .. n : q[i] = p) =>
                    /\ OnlyLast(q, p) => r = <<>>
                    /\ AtMostOnce(q, p) => ~Contains(r, p)
    BY <1>3, <2>1, Suffix
  <2> QED
    BY <1>1, <1>3, <2>1
<1>5. Len(r) <= InputSize
  BY <1>1, <1>3
<1> QED
  BY <1>3, <1>4, <1>5 DEF r

\* An answer that ends with OK is read to its end.
LEMMA ReadSucceeds ==
  ASSUME Types, ~Contains(buffer, "OK"), Succeeded(Taken)
  PROVE  /\ Contains(input, "OK") /\ Left(Taken) \in Seq(Pieces) /\ Len(Left(Taken)) <= InputSize
         /\ OnlyLast(input, "OK") => Left(Taken) = <<>>
<1>1. Taken \in Nat /\ Taken <= Len(input) /\ Len(input) \in Nat
  BY TakenRange DEF Types, MachineTypes
<1>2. \E i \in 1 .. Taken : input[i] = "OK"
  BY <1>1, Reading DEF Succeeded
<1>3. Contains(input, "OK")
  BY <1>1, <1>2 DEF Contains
<1> QED
  BY <1>1, <1>2, <1>3, LeftOver

\* While the answer is not complete it is kept.
LEMMA ReadOn ==
  ASSUME Types, ~Contains(buffer, "OK"), ~Succeeded(Taken), Keep(Taken)
  PROVE  /\ buffer' \in Seq(Pieces) /\ Len(buffer') <= BufferSize /\ Len(buffer) <= Len(buffer')
         /\ input' \in Seq(Pieces) /\ Len(input') <= InputSize
         /\ ~Contains(buffer', "OK")
         /\ \A p : Contains(buffer', p) => Contains(buffer, p) \/ Contains(input, p)
         /\ \A p : Contains(input', p) => Contains(input, p)
         /\ OnlyLast(input, "OK") => OnlyLast(input', "OK")
<1>1. /\ Taken \in Nat /\ Taken <= Len(input) /\ Len(input) \in Nat
      /\ Len(buffer) \in Nat /\ Len(buffer) + Taken <= BufferSize
  BY TakenRange DEF Types, MachineTypes
<1>2. buffer' = Text(Taken) /\ input' = Left(Taken)
  BY DEF Keep
<1>3. /\ Text(Taken) \in Seq(Pieces) /\ Len(Text(Taken)) = Len(buffer) + Taken
      /\ \A p : p \in ToSet(Text(Taken)) <=>
                  (Contains(buffer, p) \/ \E i \in 1 .. Taken : input[i] = p)
  BY <1>1, Reading
<1>4. \A p : Contains(buffer', p) <=> (Contains(buffer, p) \/ \E i \in 1 .. Taken : input[i] = p)
  BY <1>2, <1>3, Member
<1>5. ~Contains(buffer', "OK")
  BY <1>1, <1>3, <1>4 DEF Succeeded
<1>6. ASSUME NEW p PROVE Contains(buffer', p) => Contains(buffer, p) \/ Contains(input, p)
  <2>1. (\E i \in 1 .. Taken : input[i] = p) => Contains(input, p)
    BY <1>1 DEF Contains
  <2> QED
    BY <1>4, <2>1
<1>7. ASSUME NEW p PROVE Contains(input', p) => Contains(input, p)
  BY <1>1, <1>2, LeftOver
<1> QED
  BY <1>1, <1>2, <1>3, <1>5, <1>6, <1>7, LeftOver

-----------------------------------------------------------------------------
(* Entering a state, and sending *)

LEMMA OnEntryIs ==
  /\ OnEntry("Init") = <<"AT">> /\ OnEntry("AT") = <<>> /\ OnEntry("EchoOff") = <<"ATE0">>
  /\ OnEntry("StationModeCheck") = <<"CWMODE?">> /\ OnEntry("StationModeSet") = <<"CWMODE=1">>
  /\ OnEntry("ConnectAP") = <<>> /\ OnEntry("Ready") = <<>>
  /\ OnEntry("ConnectTCP") = <<"CIPSTART">> /\ OnEntry("Passthrough") = <<"CIPMODE=1">>
  /\ OnEntry("PassthroughOK") = <<"CIPSEND">> /\ OnEntry("Connected") = <<>>
  /\ OnEntry("CommandMode") = <<>> /\ OnEntry("CloseTCP") = <<"CIPMODE=0">>
BY DEF OnEntry

LEMMA CommandLines ==
  /\ <<>> \in Seq(Commands)
  /\ \A c \in Commands : <<c>> \in Seq(Commands)
  /\ {"AT", "ATE0", "CWMODE?", "CWMODE=1", "CWJAP", "CIPSTART", "CIPMODE=1", "CIPMODE=0",
      "CIPSEND", "CIPCLOSE", "+++", "data"} \subseteq Commands
<1>1. ASSUME NEW c \in Commands PROVE <<c>> \in Seq(Commands)
  BY <1>1, OneOf
<1> QED
  BY <1>1, EmptyText DEF Commands

LEMMA OnEntryType ==
  ASSUME NEW s \in States
  PROVE  OnEntry(s) \in Seq(Commands)
BY OnEntryIs, CommandLines DEF States

LEMMA Sent ==
  ASSUME Types, NEW pieces \in Seq(Commands), Send(pieces)
  PROVE  /\ commands' \in Seq(Commands)
         /\ commands = <<>> => commands' = pieces
         /\ pieces = <<>> => commands' = commands
<1>1. commands \in Seq(Commands)
  BY DEF Types, MachineTypes
<1> QED
  BY <1>1, Joint, JointEmpty DEF Send

LEMMA Entered ==
  ASSUME Types, NEW s \in States, NEW left \in Seq(Pieces), Len(left) <= InputSize, Enter(s, left)
  PROVE  /\ MachineTypes' /\ state' = s /\ timer' = 0 /\ buffer' = <<>>
         /\ input' = IF s \in {"Init", "EchoOff"} THEN <<>> ELSE left
         /\ commands' = commands \o OnEntry(s)
         /\ commands = <<>> => commands' = OnEntry(s)
<1>1. OnEntry(s) \in Seq(Commands) /\ Send(OnEntry(s))
  BY OnEntryType DEF Enter
<1>2. commands' \in Seq(Commands) /\ (commands = <<>> => commands' = OnEntry(s))
  BY <1>1, Sent
<1>3. 0 <= BufferSize /\ 0 <= InputSize /\ 0 \in Nat /\ 0 < 5
  BY EspAssumption
<1> QED
  BY <1>2, <1>3, EmptyText DEF Enter, Send, MachineTypes

-----------------------------------------------------------------------------
(* Ticks *)

LEMMA TickInAT ==
  ASSUME Types, Talk, Contains(events, "tick"), TickPending, state = "AT", Tick, UNCHANGED module
  PROVE  MachineTypes' /\ Talk'
<1>1. commands = <<>> /\ ATTalk /\ MachineTypes /\ TickEscape("Init") /\ input \in Seq(Pieces)
      /\ Len(input) <= InputSize
  BY DEF TickPending, Talk, Types, MachineTypes, Tick
<1>2. CASE timer + 1 = CommandTicks
  <2>1. Enter("Init", input) /\ "Init" \in States
    BY <1>1, <1>2 DEF TickEscape, States
  <2>2. /\ MachineTypes' /\ state' = "Init" /\ buffer' = <<>> /\ input' = <<>>
        /\ commands' = <<"AT">>
    BY <1>1, <2>1, Entered, OnEntryIs
  <2>3. InitTalk'
    BY <2>2, EmptyText DEF InitTalk
  <2> QED
    BY <2>2, <2>3 DEF Talk
<1>3. CASE timer + 1 # CommandTicks
  <2> DEFINE sent == IF timer + 1 = GuardTicks THEN <<"+++">> ELSE <<>>
  <2>1. /\ timer' = timer + 1 /\ UNCHANGED <<state, count, buffer, input>> /\ Send(sent)
    BY <1>1, <1>3 DEF TickEscape
  <2>2. sent \in Seq(Commands) /\ sent \in {<<>>, <<"+++">>}
    BY CommandLines
  <2> HIDE DEF sent
  <2>3. commands' \in Seq(Commands) /\ commands' = sent
    BY <1>1, <2>1, <2>2, Sent
  <2>4. MachineTypes'
    BY <1>1, <2>1, <2>3 DEF MachineTypes
  <2>5. ATTalk'
    BY <1>1, <2>1, <2>2, <2>3 DEF ATTalk
  <2> QED
    BY <2>1, <2>4, <2>5 DEF Talk
<1> QED
  BY <1>2, <1>3

LEMMA TickInInit ==
  ASSUME Types, Talk, Contains(events, "tick"), TickPending, state = "Init", Tick, UNCHANGED module
  PROVE  MachineTypes' /\ Talk'
<1>1. /\ commands = <<>> /\ InitTalk /\ ~Contains(input, "OK") /\ MachineTypes /\ TickInit
      /\ input \in Seq(Pieces) /\ Len(input) <= InputSize
  BY DEF TickPending, Talk, Types, MachineTypes, Tick
<1>2. CASE timer + 1 < AnswerTicks
  <2>1. timer' = timer + 1 /\ UNCHANGED <<state, count, buffer, input, commands>>
    BY <1>1, <1>2 DEF TickInit
  <2>2. MachineTypes' /\ InitTalk'
    BY <1>1, <2>1 DEF MachineTypes, InitTalk
  <2> QED
    BY <2>1, <2>2 DEF Talk
<1>3. CASE ~(timer + 1 < AnswerTicks) /\ count + 1 < 5
  <2>1. /\ timer' = 0 /\ count' = count + 1 /\ Send(<<"AT">>) /\ UNCHANGED <<state, buffer, input>>
    BY <1>1, <1>3 DEF TickInit
  <2>2. commands' \in Seq(Commands) /\ commands' = <<"AT">>
    BY <1>1, <2>1, CommandLines, Sent
  <2>3. MachineTypes' /\ InitTalk'
    BY <1>1, <1>3, <2>1, <2>2 DEF MachineTypes, InitTalk
  <2> QED
    BY <2>1, <2>3 DEF Talk
<1>4. CASE ~(timer + 1 < AnswerTicks) /\ ~(count + 1 < 5)
  <2>1. Enter("AT", input) /\ "AT" \in States
    BY <1>1, <1>4 DEF TickInit, States
  <2>2. MachineTypes' /\ state' = "AT" /\ buffer' = <<>> /\ commands' = <<>>
    BY <1>1, <2>1, Entered, OnEntryIs
  <2> QED
    BY <2>2 DEF Talk, ATTalk
<1> QED
  BY <1>2, <1>3, <1>4

LEMMA TickInEchoOff ==
  ASSUME Types, Talk, Contains(events, "tick"), TickPending, state = "EchoOff", Tick,
         UNCHANGED module
  PROVE  MachineTypes' /\ Talk'
<1>1. /\ commands = <<>> /\ EchoOffTalk /\ input = <<>> /\ MachineTypes /\ TickEchoOff
      /\ input \in Seq(Pieces) /\ Len(input) <= InputSize
  BY DEF TickPending, Talk, Types, MachineTypes, Tick
<1>2. CASE timer + 1 < AnswerTicks
  <2>1. timer' = timer + 1 /\ UNCHANGED <<state, count, buffer, input, commands>>
    BY <1>1, <1>2 DEF TickEchoOff
  <2>2. MachineTypes' /\ EchoOffTalk'
    BY <1>1, <2>1 DEF MachineTypes, EchoOffTalk, Plain
  <2> QED
    BY <2>1, <2>2 DEF Talk
<1>3. CASE ~(timer + 1 < AnswerTicks) /\ count + 1 < 3
  <2>1. /\ timer' = timer + 1 /\ count' = count + 1 /\ Send(<<"ATE0">>)
        /\ UNCHANGED <<state, buffer, input>>
    BY <1>1, <1>3 DEF TickEchoOff
  <2>2. commands' \in Seq(Commands) /\ commands' = <<"ATE0">>
    BY <1>1, <2>1, CommandLines, Sent
  <2>3. MachineTypes' /\ EchoOffTalk'
    BY <1>1, <1>3, <2>1, <2>2 DEF MachineTypes, EchoOffTalk, Plain
  <2> QED
    BY <2>1, <2>3 DEF Talk
<1>4. CASE ~(timer + 1 < AnswerTicks) /\ ~(count + 1 < 3)
  <2>1. Enter("Init", input) /\ "Init" \in States
    BY <1>1, <1>4 DEF TickEchoOff, States
  <2>2. /\ MachineTypes' /\ state' = "Init" /\ buffer' = <<>> /\ input' = <<>>
        /\ commands' = <<"AT">>
    BY <1>1, <2>1, Entered, OnEntryIs
  <2>3. InitTalk'
    BY <2>2, EmptyText DEF InitTalk
  <2> QED
    BY <2>2, <2>3 DEF Talk
<1> QED
  BY <1>2, <1>3, <1>4

\* The escape sequence comes after the silence, and has been taken before the
\* next command is sent.
LEMMA TickInCommandMode ==
  ASSUME Types, Talk, Contains(events, "tick"), TickPending, state = "CommandMode", Tick,
         UNCHANGED module
  PROVE  MachineTypes' /\ Talk'
<1>1. /\ commands = <<>> /\ CommandModeTalk /\ MachineTypes /\ TickEscape("CloseTCP")
      /\ input \in Seq(Pieces) /\ Len(input) <= InputSize /\ Len(input) \in Nat
  BY DEF TickPending, Talk, Types, MachineTypes, Tick
<1>2. /\ timer \in Nat /\ GuardTicks \in Nat /\ CommandTicks \in Nat
      /\ CommandTicks > GuardTicks /\ GuardTicks > 0
  BY <1>1, EspAssumption DEF MachineTypes
<1>3. module.mode \in {"command", "data"}
  BY DEF Types, ModuleType
<1>4. CASE timer + 1 = CommandTicks
  <2>1. Enter("CloseTCP", input) /\ "CloseTCP" \in States
    BY <1>1, <1>4 DEF TickEscape, States
  <2>2. /\ MachineTypes' /\ state' = "CloseTCP" /\ buffer' = <<>> /\ input' = input
        /\ commands' = <<"CIPMODE=0">>
    BY <1>1, <2>1, Entered, OnEntryIs
  <2>3. timer >= GuardTicks
    BY <1>2, <1>4
  <2>4. Plain /\ Joined
    BY <1>1, <1>3, <2>3, One DEF CommandModeTalk, Plain
  <2>5. ~Contains(input, "OK") /\ OnlyLast(input, "OK")
    BY <1>1 DEF CommandModeTalk, Only, OnlyLast, Contains
  <2>6. CloseTCPTalk'
    BY <2>2, <2>4, <2>5, EmptyText DEF CloseTCPTalk, Plain, Joined
  <2> QED
    BY <2>2, <2>6 DEF Talk
<1>5. CASE timer + 1 # CommandTicks
  <2> DEFINE sent == IF timer + 1 = GuardTicks THEN <<"+++">> ELSE <<>>
  <2>1. /\ timer' = timer + 1 /\ UNCHANGED <<state, count, buffer, input>> /\ Send(sent)
    BY <1>1, <1>5 DEF TickEscape
  <2>2. /\ sent \in Seq(Commands)
        /\ timer + 1 = GuardTicks => sent = <<"+++">>
        /\ timer + 1 # GuardTicks => sent = <<>>
    BY CommandLines
  <2> HIDE DEF sent
  <2>3. commands' \in Seq(Commands) /\ commands' = sent
    BY <1>1, <2>1, <2>2, Sent
  <2>4. MachineTypes'
    BY <1>1, <2>1, <2>3 DEF MachineTypes
  <2>5. ~module.garbled /\ Joined /\ buffer = <<>> /\ Only(input, "data")
    BY <1>1 DEF CommandModeTalk
  <2>6. CASE timer + 1 < GuardTicks
    <3>1. module.mode = "data" /\ commands' = <<>>
      BY <1>1, <1>2, <2>2, <2>3, <2>6 DEF CommandModeTalk
    <3>2. CommandModeTalk'
      BY <1>2, <2>1, <2>5, <2>6, <3>1, EmptyText DEF CommandModeTalk, Joined
    <3> QED
      BY <2>1, <2>4, <3>2 DEF Talk
  <2>7. CASE timer + 1 = GuardTicks
    <3>1. module.mode = "data" /\ commands' = <<"+++">>
      BY <1>1, <1>2, <2>2, <2>3, <2>7 DEF CommandModeTalk
    <3>2. CommandModeTalk'
      BY <1>2, <2>1, <2>5, <2>7, <3>1 DEF CommandModeTalk, Joined
    <3> QED
      BY <2>1, <2>4, <3>2 DEF Talk
  <2>8. CASE timer + 1 > GuardTicks
    <3>1. module.mode = "command" /\ commands' = <<>>
      BY <1>1, <1>2, <1>3, <2>2, <2>3, <2>8, One DEF CommandModeTalk
    <3>2. CommandModeTalk'
      BY <1>2, <2>1, <2>5, <2>8, <3>1 DEF CommandModeTalk, Joined
    <3> QED
      BY <2>1, <2>4, <3>2 DEF Talk
  <2> QED
    BY <1>2, <2>6, <2>7, <2>8
<1> QED
  BY <1>4, <1>5

LEMMA TickInConnectAP ==
  ASSUME Types, Talk, Contains(events, "tick"), TickPending, state = "ConnectAP", Tick,
         UNCHANGED module
  PROVE  MachineTypes' /\ Talk'
<1>1. /\ commands = <<>> /\ ConnectAPTalk /\ MachineTypes /\ TickConnectAP
      /\ input = <<>> \/ Len(buffer) >= BufferSize
  BY DEF TickPending, Talk, Types, MachineTypes, Tick
<1> DEFINE sent == IF timer = 0 THEN <<"CWJAP">> ELSE <<>>
<1>2. Send(sent) /\ UNCHANGED <<state, count, buffer, input>> /\ timer' \in Nat
  BY <1>1 DEF TickConnectAP, MachineTypes
<1>3. sent \in Seq(Commands) /\ sent \in {<<>>, <<"CWJAP">>}
  BY CommandLines
<1> HIDE DEF sent
<1>4. commands' \in Seq(Commands) /\ commands' \in {<<>>, <<"CWJAP">>}
  BY <1>1, <1>2, <1>3, Sent
<1>5. MachineTypes'
  BY <1>1, <1>2, <1>4 DEF MachineTypes
<1>6. Len(buffer) < BufferSize => ~Contains(input, "OK")
  <2>1. Len(buffer) \in Nat /\ BufferSize \in Nat
    BY <1>1, EspAssumption DEF MachineTypes
  <2> QED
    BY <1>1, <2>1, EmptyText
<1>7. ConnectAPTalk'
  BY <1>1, <1>2, <1>4, <1>6 DEF ConnectAPTalk, Plain
<1> QED
  BY <1>2, <1>5, <1>7 DEF Talk

LEMMA Ignoring ==
  ASSUME Types, Talk, Ignore, UNCHANGED module
  PROVE  MachineTypes' /\ Talk'
<1>1. UNCHANGED <<state, timer, count, buffer, input, commands, module>>
  BY DEF Ignore, machine
<1>2. MachineTypes'
  BY <1>1 DEF Types, MachineTypes
<1>3. Talk'
  BY <1>1 DEF Talk, Plain, Joined, InitTalk, ATTalk, EchoOffTalk, StationModeCheckTalk,
     StationModeSetTalk, ConnectAPTalk, ReadyTalk, ConnectTCPTalk, PassthroughTalk,
     PassthroughOKTalk, ConnectedTalk, CommandModeTalk, CloseTCPTalk
<1> QED
  BY <1>2, <1>3

LEMMA TickTalk ==
  ASSUME Types, Talk, Contains(events, "tick"), TickPending, Tick, UNCHANGED module
  PROVE  MachineTypes' /\ Talk'
<1>1. CASE state \notin {"Init", "EchoOff", "AT", "CommandMode", "ConnectAP"}
  BY <1>1, Ignoring DEF Tick
<1> QED
  BY <1>1, TickInInit, TickInEchoOff, TickInAT, TickInCommandMode, TickInConnectAP

-----------------------------------------------------------------------------
(* Answers *)

\* The outcomes of WaitFor.
LEMMA WaitedFor ==
  ASSUME Types, NEW p, NEW s \in States, WaitFor(p, s)
  PROVE  \/ /\ Contains(input, p)
            /\ \E k \in Nat : \E left \in Seq(Pieces) :
                 /\ k <= Len(input) /\ Len(left) = Len(input) - k
                 /\ \E i \in 1 .. k : input[i] = p
                 /\ \A i \in 1 .. Len(left) : left[i] = input[k + i]
                 /\ OnlyLast(input, p) => left = <<>>
                 /\ Len(left) <= InputSize /\ Enter(s, left)
         \/ /\ ~Contains(input, p) /\ MachineTypes'
            /\ input' = <<>> /\ UNCHANGED <<state, timer, count, buffer, commands>>
<1>0. MachineTypes /\ input \in Seq(Pieces) /\ Len(input) \in Nat /\ Len(input) <= InputSize
      /\ InputSize \in Nat
  BY EspAssumption DEF Types, MachineTypes
<1>1. CASE p \in ToSet(input)
  <2> DEFINE k == SelectInSeq(input, LAMBDA x : x = p)
             left == SubSeq(input, k + 1, Len(input))
  <2>1. Enter(s, left)
    BY <1>1 DEF WaitFor
  <2>2. Contains(input, p)
    BY <1>0, <1>1, Member
  <2>3. k \in 1 .. Len(input) /\ input[k] = p
    BY <1>0, <2>2, Found
  <2> HIDE DEF k
  <2>4. k \in Nat /\ k <= Len(input) /\ k \in 1 .. k
    BY <1>0, <2>3
  <2>5. left \in Seq(Pieces) /\ Len(left) = Len(input) - k /\ Len(left) <= InputSize
    BY <1>0, <2>4, SubSeqProperties
  <2>6. \A i \in 1 .. Len(input) - k : left[i] = input[k + i]
    BY <1>0, <2>4, SubSeqProperties
  <2> HIDE DEF left
  <2>7. \A i \in 1 .. Len(left) : left[i] = input[k + i]
    BY <2>5, <2>6
  <2>8. \E i \in 1 .. k : input[i] = p
    BY <2>3, <2>4
  <2>9. OnlyLast(input, p) => left = <<>>
    BY <1>0, <2>4, <2>5, <2>7, <2>8, Suffix
  <2> QED
    BY <2>1, <2>2, <2>4, <2>5, <2>7, <2>8, <2>9
<1>2. CASE p \notin ToSet(input)
  <2>1. ~Contains(input, p)
    BY <1>0, <1>2, Member
  <2>2. input' = <<>> /\ UNCHANGED <<state, timer, count, buffer, commands>>
    BY <1>2 DEF WaitFor, machine
  <2>3. MachineTypes'
    BY <1>0, <2>2, EmptyText DEF MachineTypes
  <2> QED
    BY <2>1, <2>2, <2>3
<1> QED
  BY <1>1, <1>2

LEMMA ReceiveInInit ==
  ASSUME Types, Talk, state = "Init", Receive, UNCHANGED module
  PROVE  MachineTypes' /\ Talk'
<1>1. InitTalk /\ WaitFor("OK", "EchoOff") /\ "EchoOff" \in States
  BY DEF Talk, Receive, States
<1>2. CASE Contains(input, "OK")
  <2>1. PICK left \in Seq(Pieces) : Len(left) <= InputSize /\ Enter("EchoOff", left)
    BY <1>1, <1>2, WaitedFor
  <2>2. /\ MachineTypes' /\ state' = "EchoOff" /\ buffer' = <<>> /\ input' = <<>>
        /\ commands' = <<"ATE0">> /\ Plain
    BY <1>1, <1>2, <2>1, Entered, OnEntryIs DEF InitTalk
  <2>3. EchoOffTalk'
    BY <2>2 DEF EchoOffTalk, Plain
  <2> QED
    BY <2>2, <2>3 DEF Talk
<1>3. CASE ~Contains(input, "OK")
  <2>1. /\ MachineTypes' /\ input' = <<>>
        /\ UNCHANGED <<state, timer, count, buffer, commands>>
    BY <1>1, <1>3, WaitedFor
  <2>2. InitTalk'
    BY <1>1, <2>1, EmptyText DEF InitTalk
  <2> QED
    BY <2>1, <2>2 DEF Talk
<1> QED
  BY <1>2, <1>3

LEMMA OKOnlyLast == OnlyLast(<<"OK">>, "OK") /\ OnlyLast(<<>>, "OK")
BY One, EmptyText DEF OnlyLast

\* To the question for the mode of the module.
LEMMA AskForMode ==
  ASSUME Types, Plain, commands = <<>>, UNCHANGED module, NEW left \in Seq(Pieces), left = <<>>,
         Len(left) <= InputSize, Enter("StationModeCheck", left)
  PROVE  MachineTypes' /\ Talk'
<1>1. "StationModeCheck" \in States
  BY DEF States
<1>2. /\ MachineTypes' /\ state' = "StationModeCheck" /\ buffer' = <<>> /\ input' = <<>>
      /\ commands' = <<"CWMODE?">>
  BY <1>1, Entered, OnEntryIs
<1>3. StationModeCheckTalk'
  BY <1>2, EmptyText DEF StationModeCheckTalk, Plain
<1> QED
  BY <1>2, <1>3 DEF Talk

LEMMA ReceiveInEchoOff ==
  ASSUME Types, Talk, state = "EchoOff", Receive, UNCHANGED module
  PROVE  MachineTypes' /\ Talk'
<1>1. EchoOffTalk /\ WaitFor("OK", "StationModeCheck") /\ "StationModeCheck" \in States
  BY DEF Talk, Receive, States
<1>2. CASE Contains(input, "OK")
  <2>1. input # <<>> /\ commands = <<>> /\ Plain /\ OnlyLast(input, "OK")
    BY <1>1, <1>2, EmptyText, OKOnlyLast DEF EchoOffTalk
  <2>2. PICK left \in Seq(Pieces) :
          Len(left) <= InputSize /\ Enter("StationModeCheck", left) /\ left = <<>>
    BY <1>1, <1>2, <2>1, WaitedFor
  <2> QED
    BY <2>1, <2>2, AskForMode
<1>3. CASE ~Contains(input, "OK")
  <2>1. /\ MachineTypes' /\ input' = <<>>
        /\ UNCHANGED <<state, timer, count, buffer, commands>>
    BY <1>1, <1>3, WaitedFor
  <2>2. EchoOffTalk'
    BY <1>1, <2>1 DEF EchoOffTalk, Plain
  <2> QED
    BY <2>1, <2>2 DEF Talk
<1> QED
  BY <1>2, <1>3

LEMMA ReceiveInStationModeSet ==
  ASSUME Types, Talk, state = "StationModeSet", Receive, UNCHANGED module
  PROVE  MachineTypes' /\ Talk'
<1>1. StationModeSetTalk /\ WaitFor("OK", "StationModeCheck") /\ "StationModeCheck" \in States
  BY DEF Talk, Receive, States
<1>2. CASE Contains(input, "OK")
  <2>1. input # <<>> /\ commands = <<>> /\ Plain /\ OnlyLast(input, "OK")
    BY <1>1, <1>2, EmptyText, OKOnlyLast DEF StationModeSetTalk
  <2>2. PICK left \in Seq(Pieces) :
          Len(left) <= InputSize /\ Enter("StationModeCheck", left) /\ left = <<>>
    BY <1>1, <1>2, <2>1, WaitedFor
  <2> QED
    BY <2>1, <2>2, AskForMode
<1>3. CASE ~Contains(input, "OK")
  <2>1. /\ MachineTypes' /\ input' = <<>>
        /\ UNCHANGED <<state, timer, count, buffer, commands>>
    BY <1>1, <1>3, WaitedFor
  <2>2. StationModeSetTalk'
    BY <1>1, <2>1 DEF StationModeSetTalk, Plain
  <2> QED
    BY <2>1, <2>2 DEF Talk
<1> QED
  BY <1>2, <1>3

\* After the prompt there is nothing but data.
LEMMA ReceiveInPassthroughOK ==
  ASSUME Types, Talk, state = "PassthroughOK", Receive, UNCHANGED module
  PROVE  MachineTypes' /\ Talk'
<1>1. PassthroughOKTalk /\ WaitFor(">", "Connected") /\ "Connected" \in States
  BY DEF Talk, Receive, States
<1>2. module.mode \in {"command", "data"} /\ Len(input) \in Nat
  BY DEF Types, ModuleType, MachineTypes
<1>3. CASE Contains(input, ">")
  <2>1. PICK k \in Nat : \E left \in Seq(Pieces) :
          /\ k <= Len(input) /\ Len(left) = Len(input) - k
          /\ \E i \in 1 .. k : input[i] = ">"
          /\ \A i \in 1 .. Len(left) : left[i] = input[k + i]
          /\ Len(left) <= InputSize /\ Enter("Connected", left)
    BY <1>1, <1>3, WaitedFor
  <2>2. PICK left \in Seq(Pieces) :
          /\ k <= Len(input) /\ Len(left) = Len(input) - k
          /\ \E i \in 1 .. k : input[i] = ">"
          /\ \A i \in 1 .. Len(left) : left[i] = input[k + i]
          /\ Len(left) <= InputSize /\ Enter("Connected", left)
    BY <2>1
  <2>3. PICK i \in 1 .. k : input[i] = ">"
    BY <2>2
  <2>4. input # <<>> /\ module.mode = "data" /\ commands = <<>>
    BY <1>1, <1>2, <1>3, EmptyText DEF PassthroughOKTalk
  <2>5. /\ MachineTypes' /\ state' = "Connected" /\ buffer' = <<>> /\ input' = left
        /\ commands' = <<>>
    BY <1>1, <2>2, <2>4, Entered, OnEntryIs
  <2>6. ASSUME NEW j \in 1 .. Len(left) PROVE left[j] = "data"
    <3>1. left[j] = input[k + j] /\ k + j \in 1 .. Len(input) /\ i \in 1 .. Len(input) /\ i < k + j
      BY <1>2, <2>2
    <3> QED
      BY <1>1, <2>3, <3>1 DEF PassthroughOKTalk
  <2>7. ConnectedTalk'
    BY <1>1, <2>4, <2>5, <2>6, EmptyText DEF ConnectedTalk, PassthroughOKTalk, Joined, Only
  <2> QED
    BY <2>5, <2>7 DEF Talk
<1>4. CASE ~Contains(input, ">")
  <2>1. /\ MachineTypes' /\ input' = <<>>
        /\ UNCHANGED <<state, timer, count, buffer, commands>>
    BY <1>1, <1>4, WaitedFor
  <2>2. \A i \in 1 .. Len(input') : FALSE
    BY <2>1, EmptyText
  <2>3. PassthroughOKTalk'
    BY <1>1, <2>1, <2>2 DEF PassthroughOKTalk, Joined
  <2> QED
    BY <2>1, <2>3 DEF Talk
<1> QED
  BY <1>3, <1>4

\* Keep leaves the machine well typed.
LEMMA Keeping ==
  ASSUME Types, Keep(Taken)
  PROVE  /\ state' = state /\ timer' = timer /\ buffer' = Text(Taken) /\ input' = Left(Taken)
         /\ commands' \in Seq(Commands) => MachineTypes'
<1>1. MachineTypes /\ input \in Seq(Pieces) /\ Len(input) \in Nat /\ Len(input) <= InputSize
  BY DEF Types, MachineTypes
<1>2. /\ Taken \in Nat /\ Taken <= Len(input) /\ Len(buffer) + Taken <= BufferSize
  BY TakenRange
<1>3. Text(Taken) \in Seq(Pieces) /\ Len(Text(Taken)) <= BufferSize
  BY <1>2, Reading
<1>4. Left(Taken) \in Seq(Pieces) /\ Len(Left(Taken)) <= InputSize
  BY <1>2, LeftOver
<1> QED
  BY <1>1, <1>3, <1>4 DEF Keep, MachineTypes

LEMMA ReceiveInStationModeCheck ==
  ASSUME Types, Talk, state = "StationModeCheck", Receive, UNCHANGED module
  PROVE  MachineTypes' /\ Talk'
<1>1. StationModeCheckTalk /\ ReceiveStationModeCheck(Taken) /\ MachineTypes
  BY DEF Talk, Receive, Types
<1>2. ~Contains(buffer, "OK") /\ OnlyLast(input, "OK") /\ Plain
  BY <1>1 DEF StationModeCheckTalk
<1>3. CASE Succeeded(Taken)
  <2> DEFINE next == IF "MODE1" \in ToSet(Text(Taken)) THEN "ConnectAP" ELSE "StationModeSet"
  <2>1. /\ Contains(input, "OK") /\ Left(Taken) = <<>> /\ Left(Taken) \in Seq(Pieces)
        /\ Len(Left(Taken)) <= InputSize
    BY <1>2, <1>3, ReadSucceeds
  <2>2. commands = <<>>
    BY <1>1, <2>1, EmptyText DEF StationModeCheckTalk
  <2>3. next \in States /\ next \in {"ConnectAP", "StationModeSet"} /\ Enter(next, Left(Taken))
    BY <1>1, <1>3 DEF ReceiveStationModeCheck, States
  <2>4. next = "ConnectAP" => module.station
    <3>1. /\ Taken \in Nat /\ Taken <= Len(input) /\ Len(input) \in Nat
      BY <1>1, TakenRange DEF MachineTypes
    <3>2. ("MODE1" \in ToSet(Text(Taken))) <=>
             (Contains(buffer, "MODE1") \/ \E i \in 1 .. Taken : input[i] = "MODE1")
      BY <3>1, Reading
    <3>3. (\E i \in 1 .. Taken : input[i] = "MODE1") => Contains(input, "MODE1")
      BY <3>1 DEF Contains
    <3> QED
      BY <1>1, <3>2, <3>3 DEF StationModeCheckTalk
  <2> HIDE DEF next
  <2>5. /\ MachineTypes' /\ state' = next /\ buffer' = <<>> /\ input' = <<>>
        /\ commands' = OnEntry(next)
    BY <2>1, <2>2, <2>3, Entered
  <2>6. CASE next = "ConnectAP"
    <3>1. ConnectAPTalk'
      BY <1>2, <2>4, <2>5, <2>6, OnEntryIs, EmptyText DEF ConnectAPTalk, Plain
    <3> QED
      BY <2>5, <2>6, <3>1 DEF Talk
  <2>7. CASE next = "StationModeSet"
    <3>1. StationModeSetTalk'
      BY <1>2, <2>5, <2>7, OnEntryIs DEF StationModeSetTalk, Plain
    <3> QED
      BY <2>5, <2>7, <3>1 DEF Talk
  <2> QED
    BY <2>3, <2>6, <2>7
<1>4. CASE ~Succeeded(Taken)
  <2>1. Keep(Taken) /\ commands' = commands
    BY <1>1, <1>4 DEF ReceiveStationModeCheck
  <2>2. state' = state /\ MachineTypes'
    BY <1>1, <2>1, Keeping DEF MachineTypes
  <2>3. /\ ~Contains(buffer', "OK") /\ OnlyLast(input', "OK")
        /\ \A p : Contains(buffer', p) => Contains(buffer, p) \/ Contains(input, p)
        /\ \A p : Contains(input', p) => Contains(input, p)
    BY <1>2, <1>4, <2>1, ReadOn
  <2>4. commands # <<>> => input' = <<>> /\ buffer' = <<>>
    <3> SUFFICES ASSUME commands # <<>> PROVE input' = <<>> /\ buffer' = <<>>
      OBVIOUS
    <3>1. input = <<>> /\ buffer = <<>>
      BY <1>1 DEF StationModeCheckTalk
    <3>2. Taken = 0
      BY <3>1, TakenRange, EmptyText
    <3>3. /\ Text(0) \in Seq(Pieces) /\ Len(Text(0)) = 0
          /\ Left(0) \in Seq(Pieces) /\ Len(Left(0)) = 0
      BY <3>1, EmptyText, Reading
    <3> QED
      BY <2>1, <3>2, <3>3, EmptySeq DEF Keep
  <2>5. Contains(buffer', "MODE1") \/ Contains(input', "MODE1") => module.station
    BY <1>1, <2>3 DEF StationModeCheckTalk
  <2>6. StationModeCheckTalk'
    BY <1>1, <1>2, <2>1, <2>3, <2>4, <2>5 DEF StationModeCheckTalk, Plain
  <2> QED
    BY <2>2, <2>6 DEF Talk
<1> QED
  BY <1>3, <1>4

\* With a result that says OK the module has joined the network.
LEMMA ReceiveInConnectAP ==
  ASSUME Types, Talk, state = "ConnectAP", Receive, UNCHANGED module
  PROVE  MachineTypes' /\ Talk'
<1>1. ConnectAPTalk /\ ReceiveConnectAP(Taken) /\ MachineTypes
  BY DEF Talk, Receive, Types
<1>2. ~Contains(buffer, "OK") /\ Plain /\ module.station
  BY <1>1 DEF ConnectAPTalk
<1>3. /\ Taken \in Nat /\ Len(buffer) \in Nat /\ BufferSize \in Nat
      /\ Len(buffer) + Taken <= BufferSize
  BY <1>1, TakenRange, EspAssumption DEF MachineTypes
<1>4. CASE Succeeded(Taken)
  <2>1. Len(buffer) < BufferSize
    BY <1>3, <1>4 DEF Succeeded
  <2>2. OnlyLast(input, "OK") /\ (Contains(input, "OK") => commands = <<>> /\ module.joined)
    BY <1>1, <2>1 DEF ConnectAPTalk
  <2>3. /\ Contains(input, "OK") /\ Left(Taken) = <<>> /\ Left(Taken) \in Seq(Pieces)
        /\ Len(Left(Taken)) <= InputSize
    BY <1>2, <1>4, <2>2, ReadSucceeds
  <2>4. Enter("Ready", Left(Taken)) /\ "Ready" \in States
    BY <1>1, <1>4 DEF ReceiveConnectAP, States
  <2>5. /\ MachineTypes' /\ state' = "Ready" /\ buffer' = <<>> /\ input' = <<>>
        /\ commands' = <<>>
    BY <2>2, <2>3, <2>4, Entered, OnEntryIs
  <2>6. ReadyTalk'
    BY <1>2, <2>2, <2>3, <2>5 DEF ReadyTalk, Plain, Joined
  <2> QED
    BY <2>5, <2>6 DEF Talk
<1>5. CASE ~Succeeded(Taken)
  <2>1. Keep(Taken) /\ commands' = commands
    BY <1>1, <1>5 DEF ReceiveConnectAP
  <2>2. state' = state /\ MachineTypes'
    BY <1>1, <2>1, Keeping DEF MachineTypes
  <2>3. /\ ~Contains(buffer', "OK") /\ Len(buffer) <= Len(buffer')
        /\ \A p : Contains(input', p) => Contains(input, p)
        /\ OnlyLast(input, "OK") => OnlyLast(input', "OK")
        /\ buffer' \in Seq(Pieces)
    BY <1>2, <1>5, <2>1, ReadOn
  <2>4. Len(buffer') < BufferSize => Len(buffer) < BufferSize
    BY <1>3, <2>3
  <2>5. ConnectAPTalk'
    BY <1>1, <2>1, <2>3, <2>4 DEF ConnectAPTalk, Plain
  <2> QED
    BY <2>2, <2>5 DEF Talk
<1> QED
  BY <1>4, <1>5

\* There is one OK at most: after it the module has its connection, and refuses
\* a second one.
LEMMA ReceiveInConnectTCP ==
  ASSUME Types, Talk, state = "ConnectTCP", Receive, UNCHANGED module
  PROVE  MachineTypes' /\ Talk'
<1>1. ConnectTCPTalk /\ ReceiveConnectTCP(Taken) /\ MachineTypes /\ commands \in Seq(Commands)
  BY DEF Talk, Receive, Types, MachineTypes
<1>2. /\ Taken \in Nat /\ Taken <= Len(input) /\ Len(input) \in Nat
  BY <1>1, TakenRange DEF MachineTypes
<1>3. /\ Left(Taken) \in Seq(Pieces) /\ Len(Left(Taken)) <= InputSize
      /\ Contains(Left(Taken), "OK") => Contains(input, "OK")
      /\ AtMostOnce(Left(Taken), "OK")
      /\ (\E i \in 1 .. Taken : input[i] = "OK") => ~Contains(Left(Taken), "OK")
  <2>1. AtMostOnce(input, "OK")
    BY <1>1 DEF ConnectTCPTalk
  <2> QED
    BY <1>2, <2>1, LeftOver
<1>4. Text(Taken) \in Seq(Pieces) /\ ("OK" \in ToSet(Text(Taken)) <=>
           (Contains(buffer, "OK") \/ \E i \in 1 .. Taken : input[i] = "OK"))
  BY <1>2, Reading
<1>5. (\E i \in 1 .. Taken : input[i] = "OK") => Contains(input, "OK")
  BY <1>2 DEF Contains
<1>6. "OK" \in ToSet(Text(Taken)) => module.linked /\ ~Contains(Left(Taken), "OK")
  BY <1>1, <1>3, <1>4, <1>5 DEF ConnectTCPTalk
<1>7. Contains(Left(Taken), "OK") => module.linked
  BY <1>1, <1>3 DEF ConnectTCPTalk
<1>8. Plain /\ Joined /\ Only(commands, "CIPSTART")
  BY <1>1 DEF ConnectTCPTalk
<1>9. CASE Succeeded(Taken) /\ "CONNECT" \in ToSet(Text(Taken))
  <2>1. Enter("Passthrough", Left(Taken)) /\ "Passthrough" \in States
    BY <1>1, <1>9 DEF ReceiveConnectTCP, States
  <2>2. /\ MachineTypes' /\ state' = "Passthrough" /\ buffer' = <<>> /\ input' = Left(Taken)
        /\ commands' = commands \o <<"CIPMODE=1">>
    BY <1>3, <2>1, Entered, OnEntryIs
  <2>3. module.linked /\ ~Contains(input', "OK")
    BY <1>6, <1>9, <2>2 DEF Succeeded
  <2>4. OnlyLast(input', "OK")
    <3>1. input' \in Seq(Pieces) /\ Len(input') \in Nat
      BY <1>3, <2>2
    <3> QED
      BY <2>3, <3>1 DEF OnlyLast, Contains
  <2>5. /\ \A i \in 1 .. Len(commands') : commands'[i] \in {"CIPSTART", "CIPMODE=1"}
        /\ OnlyLast(commands', "CIPMODE=1")
    <3> DEFINE q == commands'
    <3>1. /\ Len(commands) \in Nat /\ Len(q) = Len(commands) + 1
          /\ \A i \in 1 .. Len(commands) : q[i] = commands[i]
          /\ q[Len(commands) + 1] = "CIPMODE=1"
      <4>1. <<"CIPMODE=1">> \in Seq(Commands) /\ Len(<<"CIPMODE=1">>) = 1
            /\ <<"CIPMODE=1">>[1] = "CIPMODE=1" /\ 1 \in 1 .. 1
        BY CommandLines, One
      <4>2. /\ Len(q) = Len(commands) + Len(<<"CIPMODE=1">>)
            /\ \A i \in 1 .. Len(commands) : q[i] = commands[i]
            /\ \A i \in 1 .. Len(<<"CIPMODE=1">>) : q[Len(commands) + i] = <<"CIPMODE=1">>[i]
        BY <1>1, <2>2, <4>1, Joint
      <4> QED
        BY <1>1, <4>1, <4>2
    <3> HIDE DEF q
    <3>2. \A i \in 1 .. Len(commands) : q[i] = "CIPSTART"
      BY <1>8, <3>1 DEF Only
    <3>3. \A i \in 1 .. Len(q) : i \in 1 .. Len(commands) \/ i = Len(commands) + 1
      BY <3>1
    <3>4. \A i \in 1 .. Len(q) - 1 : i \in 1 .. Len(commands)
      BY <3>1
    <3>5. /\ \A i \in 1 .. Len(q) : q[i] \in {"CIPSTART", "CIPMODE=1"}
          /\ \A i \in 1 .. Len(q) - 1 : q[i] # "CIPMODE=1"
      BY <3>1, <3>2, <3>3, <3>4
    <3> QED
      BY <3>5 DEF q, OnlyLast
  <2>6. PassthroughTalk'
    BY <1>8, <2>2, <2>3, <2>4, <2>5, EmptyText DEF PassthroughTalk, Plain, Joined
  <2> QED
    BY <2>2, <2>6 DEF Talk
<1>10. CASE ~(Succeeded(Taken) /\ "CONNECT" \in ToSet(Text(Taken)))
  <2> DEFINE sent == IF Failed(Taken) THEN <<"CIPSTART">> ELSE <<>>
  <2>1. Keep(Taken) /\ Send(sent)
    BY <1>1, <1>10 DEF ReceiveConnectTCP
  <2>2. sent \in Seq(Commands) /\ Len(sent) \in Nat /\ \A i \in 1 .. Len(sent) : sent[i] = "CIPSTART"
    BY CommandLines, One, EmptyText
  <2>3. commands' \in Seq(Commands) /\ commands' = commands \o sent
    BY <2>1, <2>2, Sent DEF Send
  <2> HIDE DEF sent
  <2>4. Only(commands', "CIPSTART")
    <3> DEFINE q == commands'
    <3>1. /\ Len(commands) \in Nat /\ Len(q) = Len(commands) + Len(sent)
          /\ \A i \in 1 .. Len(commands) : q[i] = commands[i]
          /\ \A i \in 1 .. Len(sent) : q[Len(commands) + i] = sent[i]
      BY <1>1, <2>2, <2>3, Joint
    <3> HIDE DEF q
    <3>2. \A i \in 1 .. Len(q) :
            i \in 1 .. Len(commands) \/ (i - Len(commands) \in 1 .. Len(sent)
                                         /\ i = Len(commands) + (i - Len(commands)))
      BY <2>2, <3>1
    <3>3. \A i \in 1 .. Len(q) : q[i] = "CIPSTART"
      BY <1>8, <2>2, <3>1, <3>2 DEF Only
    <3> QED
      BY <3>3 DEF q, Only
  <2>5. state' = state /\ MachineTypes' /\ buffer' = Text(Taken) /\ input' = Left(Taken)
    BY <2>1, <2>3, Keeping
  <2>6. Contains(buffer', "OK") <=> "OK" \in ToSet(Text(Taken))
    BY <1>4, <2>5, Member
  <2>7. ConnectTCPTalk'
    BY <1>3, <1>6, <1>7, <1>8, <2>4, <2>5, <2>6 DEF ConnectTCPTalk, Plain, Joined
  <2> QED
    BY <2>5, <2>7 DEF Talk
<1> QED
  BY <1>9, <1>10

LEMMA ReceiveInPassthrough ==
  ASSUME Types, Talk, state = "Passthrough", Receive, UNCHANGED module
  PROVE  MachineTypes' /\ Talk'
<1>1. PassthroughTalk /\ ReceivePassthrough(Taken) /\ MachineTypes
  BY DEF Talk, Receive, Types
<1>2. ~Contains(buffer, "OK") /\ OnlyLast(input, "OK")
  BY <1>1 DEF PassthroughTalk
<1>3. CASE Succeeded(Taken)
  <2>1. /\ Contains(input, "OK") /\ Left(Taken) = <<>> /\ Left(Taken) \in Seq(Pieces)
        /\ Len(Left(Taken)) <= InputSize
    BY <1>2, <1>3, ReadSucceeds
  <2>2. commands = <<>> /\ module.transparent
    BY <1>1, <2>1 DEF PassthroughTalk
  <2>3. Enter("PassthroughOK", Left(Taken)) /\ "PassthroughOK" \in States
    BY <1>1, <1>3 DEF ReceivePassthrough, States
  <2>4. /\ MachineTypes' /\ state' = "PassthroughOK" /\ buffer' = <<>> /\ input' = <<>>
        /\ commands' = <<"CIPSEND">>
    BY <2>1, <2>2, <2>3, Entered, OnEntryIs
  <2>5. \A i \in 1 .. Len(input') : FALSE
    BY <2>4, EmptyText
  <2>6. PassthroughOKTalk'
    BY <1>1, <2>2, <2>4, <2>5 DEF PassthroughOKTalk, PassthroughTalk, Plain, Joined
  <2> QED
    BY <2>4, <2>6 DEF Talk
<1>4. CASE ~Succeeded(Taken)
  <2>1. Keep(Taken) /\ commands' = commands
    BY <1>1, <1>4 DEF ReceivePassthrough
  <2>2. state' = state /\ MachineTypes'
    BY <1>1, <2>1, Keeping DEF MachineTypes
  <2>3. /\ ~Contains(buffer', "OK") /\ OnlyLast(input', "OK")
        /\ \A p : Contains(input', p) => Contains(input, p)
    BY <1>2, <1>4, <2>1, ReadOn
  <2>4. PassthroughTalk'
    BY <1>1, <2>1, <2>3 DEF PassthroughTalk, Plain, Joined
  <2> QED
    BY <2>2, <2>4 DEF Talk
<1> QED
  BY <1>3, <1>4

LEMMA ReceiveInCloseTCP ==
  ASSUME Types, Talk, state = "CloseTCP", Receive, UNCHANGED module
  PROVE  MachineTypes' /\ Talk'
<1>1. CloseTCPTalk /\ ReceiveCloseTCP(Taken) /\ MachineTypes
  BY DEF Talk, Receive, Types
<1>2. ~Contains(buffer, "OK") /\ OnlyLast(input, "OK") /\ Plain /\ Joined
  BY <1>1 DEF CloseTCPTalk
<1>3. CASE Succeeded(Taken)
  <2>1. /\ Contains(input, "OK") /\ Left(Taken) = <<>> /\ Left(Taken) \in Seq(Pieces)
        /\ Len(Left(Taken)) <= InputSize
    BY <1>2, <1>3, ReadSucceeds
  <2>2. commands = <<>>
    BY <1>1, <2>1 DEF CloseTCPTalk
  <2>3. CASE "CLOSED" \in ToSet(Text(Taken))
    <3>1. Enter("Ready", Left(Taken)) /\ "Ready" \in States
      BY <1>1, <1>3, <2>3 DEF ReceiveCloseTCP, States
    <3>2. /\ MachineTypes' /\ state' = "Ready" /\ buffer' = <<>> /\ input' = <<>>
          /\ commands' = <<>>
      BY <2>1, <2>2, <3>1, Entered, OnEntryIs
    <3>3. ReadyTalk'
      BY <1>2, <3>2 DEF ReadyTalk, Plain, Joined
    <3> QED
      BY <3>2, <3>3 DEF Talk
  <2>4. CASE "CLOSED" \notin ToSet(Text(Taken))
    <3>1. /\ timer' = 0 /\ count' = 0 /\ buffer' = <<>> /\ input' = <<>>
          /\ Send(<<"CIPCLOSE">>) /\ state' = state
      BY <1>1, <1>3, <2>1, <2>4 DEF ReceiveCloseTCP
    <3>2. commands' \in Seq(Commands) /\ commands' = <<"CIPCLOSE">>
      BY <2>2, <3>1, CommandLines, Sent
    <3>3. 0 <= BufferSize /\ 0 <= InputSize
      BY EspAssumption
    <3>4. MachineTypes'
      BY <1>1, <3>1, <3>2, <3>3, EmptyText DEF MachineTypes
    <3>5. CloseTCPTalk'
      BY <1>2, <3>1, <3>2, EmptyText DEF CloseTCPTalk, Plain, Joined
    <3> QED
      BY <3>1, <3>4, <3>5 DEF Talk
  <2> QED
    BY <2>3, <2>4
<1>4. CASE ~Succeeded(Taken)
  <2>1. Keep(Taken) /\ commands' = commands
    BY <1>1, <1>4 DEF ReceiveCloseTCP
  <2>2. state' = state /\ MachineTypes'
    BY <1>1, <2>1, Keeping DEF MachineTypes
  <2>3. /\ ~Contains(buffer', "OK") /\ OnlyLast(input', "OK")
        /\ \A p : Contains(input', p) => Contains(input, p)
    BY <1>2, <1>4, <2>1, ReadOn
  <2>4. CloseTCPTalk'
    BY <1>1, <2>1, <2>3 DEF CloseTCPTalk, Plain, Joined
  <2> QED
    BY <2>2, <2>4 DEF Talk
<1> QED
  BY <1>3, <1>4

LEMMA ReceiveTalk ==
  ASSUME Types, Talk, Receive, UNCHANGED module
  PROVE  MachineTypes' /\ Talk'
<1>1. CASE state \notin {"Init", "EchoOff", "StationModeSet", "PassthroughOK",
                         "StationModeCheck", "ConnectAP", "ConnectTCP", "Passthrough", "CloseTCP"}
  BY <1>1, Ignoring DEF Receive
<1> QED
  BY <1>1, ReceiveInInit, ReceiveInEchoOff, ReceiveInStationModeSet, ReceiveInPassthroughOK,
     ReceiveInStationModeCheck, ReceiveInConnectAP, ReceiveInConnectTCP, ReceiveInPassthrough,
     ReceiveInCloseTCP

-----------------------------------------------------------------------------
(* Events *)

LEMMA ConnectTalk ==
  ASSUME Types, Talk, Connect, UNCHANGED module
  PROVE  /\ MachineTypes' /\ Talk'
         /\ \/ state' = "ConnectTCP"
            \/ UNCHANGED <<state, timer, count, buffer, input, commands>>
<1>1. CASE state = "Ready"
  <2>1. /\ ReadyTalk /\ Enter("ConnectTCP", input) /\ "ConnectTCP" \in States
        /\ input \in Seq(Pieces) /\ Len(input) <= InputSize
    BY <1>1 DEF Talk, Connect, States, Types, MachineTypes
  <2>2. commands = <<>> /\ input = <<>> /\ Plain /\ Joined
    BY <2>1 DEF ReadyTalk
  <2>3. /\ MachineTypes' /\ state' = "ConnectTCP" /\ buffer' = <<>> /\ input' = <<>>
        /\ commands' = <<"CIPSTART">>
    BY <2>1, <2>2, Entered, OnEntryIs
  <2>4. Only(commands', "CIPSTART")
    BY <2>3, One DEF Only
  <2>5. ConnectTCPTalk'
    BY <2>2, <2>3, <2>4, EmptyText DEF ConnectTCPTalk, Plain, Joined
  <2> QED
    BY <2>3, <2>5 DEF Talk
<1>2. CASE state # "Ready"
  BY <1>2, Ignoring DEF Connect, Ignore, machine
<1> QED
  BY <1>1, <1>2

LEMMA DisconnectTalk ==
  ASSUME Types, Talk, Disconnect, UNCHANGED module
  PROVE  /\ MachineTypes' /\ Talk'
         /\ \/ state' = "CommandMode" /\ commands' = commands
            \/ UNCHANGED <<state, timer, count, buffer, input, commands>>
<1>1. CASE state = "Connected"
  <2>1. /\ ConnectedTalk /\ Enter("CommandMode", input) /\ "CommandMode" \in States
        /\ input \in Seq(Pieces) /\ Len(input) <= InputSize /\ commands \in Seq(Commands)
    BY <1>1 DEF Talk, Disconnect, States, Types, MachineTypes
  <2>2. /\ MachineTypes' /\ state' = "CommandMode" /\ buffer' = <<>> /\ input' = input
        /\ commands' = commands /\ timer' = 0
    BY <2>1, Entered, OnEntryIs, JointEmpty
  <2>3. GuardTicks > 0 /\ GuardTicks \in Nat
    BY EspAssumption
  <2>4. CommandModeTalk'
    BY <2>1, <2>2, <2>3 DEF CommandModeTalk, ConnectedTalk, Joined
  <2> QED
    BY <2>2, <2>4 DEF Talk
<1>2. CASE state # "Connected"
  BY <1>2, Ignoring DEF Disconnect, Ignore, machine
<1> QED
  BY <1>1, <1>2

\* The queue without its head.
LEMMA TailOrder ==
  ASSUME Types, EventOrder, running
  PROVE  /\ events \in Seq(Events) /\ Head(events) \in Events /\ Len(events) \in Nat
         /\ Tail(events) \in Seq(Events) /\ Len(Tail(events)) = Len(events) - 1
         /\ Len(events) > 1 => Tail(events) # <<>>
         /\ Len(Tail(events)) <= EventQueueSize
         /\ Head(events) = "tick" => Contains(events, "tick")
         /\ Head(events) \notin Requests => ~Contains(Tail(events), "tick")
         /\ Contains(Tail(events), "tick") => Contains(events, "tick")
         /\ \A i \in 1 .. Len(Tail(events)) : Tail(events)[i] = "tick" =>
              \A j \in 1 .. i - 1 : Tail(events)[j] \in Requests
<1> DEFINE t == Tail(events)
<1>1. /\ events \in Seq(Events) /\ events # <<>> /\ Len(events) <= EventQueueSize
      /\ EventQueueSize \in Nat
  BY EspAssumption DEF Types, CallTypes, EventOrder
<1>2. /\ Head(events) = events[1] /\ Head(events) \in Events /\ Len(events) \in Nat /\ Len(events) > 0
      /\ t \in Seq(Events) /\ Len(t) = Len(events) - 1
      /\ \A i \in 1 .. Len(t) : t[i] = events[i + 1]
  BY <1>1, HeadAndTail
<1> HIDE DEF t
<1>3. Len(events) > 1 => t # <<>>
  BY <1>2, EmptyText
<1>4. \A i \in 1 .. Len(t) : i + 1 \in 1 .. Len(events) /\ 1 \in 1 .. (i + 1) - 1
  BY <1>2
<1>5. Contains(t, "tick") => Contains(events, "tick")
  BY <1>2, <1>4 DEF Contains
<1>6. Head(events) \notin Requests => ~Contains(t, "tick")
  BY <1>2, <1>4 DEF Contains, EventOrder
<1>7. ASSUME NEW i \in 1 .. Len(t), t[i] = "tick", NEW j \in 1 .. i - 1
      PROVE  t[j] \in Requests
  <2>1. /\ j \in 1 .. Len(t) /\ j + 1 \in 1 .. (i + 1) - 1 /\ i + 1 \in 1 .. Len(events)
    BY <1>2
  <2>2. events[i + 1] = "tick" /\ t[j] = events[j + 1]
    BY <1>2, <1>7, <2>1
  <2> QED
    BY <2>1, <2>2 DEF EventOrder
<1>8. Head(events) = "tick" => Contains(events, "tick")
  <2>1. 1 \in 1 .. Len(events)
    BY <1>2
  <2> QED
    BY <1>2, <2>1 DEF Contains
<1>9. Len(t) <= EventQueueSize
  BY <1>1, <1>2
<1> QED
  BY <1>1, <1>2, <1>3, <1>5, <1>6, <1>7, <1>8, <1>9 DEF t

LEMMA DispatchStep ==
  ASSUME Inv, Dispatch
  PROVE  Inv'
<1> DEFINE t == Tail(events)
<1>1. /\ Types /\ EventOrder /\ TickPending /\ Talk /\ running
      /\ UNCHANGED <<caller, module>> /\ events' = t /\ running' = (Len(events) > 1)
  BY DEF Inv, Dispatch
<1>2. /\ events \in Seq(Events) /\ Head(events) \in Events /\ Len(events) \in Nat
      /\ t \in Seq(Events) /\ Len(t) = Len(events) - 1
      /\ Len(events) > 1 => t # <<>>
      /\ Len(t) <= EventQueueSize
      /\ Head(events) = "tick" => Contains(events, "tick")
      /\ Head(events) \notin Requests => ~Contains(t, "tick")
      /\ Contains(t, "tick") => Contains(events, "tick")
      /\ \A i \in 1 .. Len(t) : t[i] = "tick" => \A j \in 1 .. i - 1 : t[j] \in Requests
  BY <1>1, TailOrder
<1> HIDE DEF t
<1>3. /\ Head(events) = "tick" => Tick
      /\ Head(events) = "receive" => Receive
      /\ Head(events) = "connect" => Connect
      /\ Head(events) = "disconnect" => Disconnect
      /\ Head(events) \in {"tick", "receive", "connect", "disconnect"}
  BY <1>2 DEF Dispatch, Events
<1>4. CallTypes' /\ module' \in ModuleType
  <2>1. running' \in BOOLEAN
    BY <1>1
  <2> QED
    BY <1>1, <1>2, <2>1 DEF Types, CallTypes
<1>5. EventOrder'
  <2>1. ~running' => \A i \in 1 .. Len(events') : FALSE
    <3>1. ~running' => ~(Len(events) > 1)
      BY <1>1
    <3>2. ~(Len(events) > 1) => \A i \in 1 .. Len(t) : FALSE
      BY <1>2
    <3> QED
      BY <1>1, <3>1, <3>2
  <2>2. running' => events' # <<>> /\ caller' # "idle"
    BY <1>1, <1>2 DEF EventOrder
  <2>3. \A i \in 1 .. Len(events') : events'[i] = "tick" =>
          \A j \in 1 .. i - 1 : events'[j] \in Requests
    BY <1>1, <1>2
  <2> QED
    BY <2>1, <2>2, <2>3 DEF EventOrder
<1>6. MachineTypes' /\ Talk' /\ TickPending'
  <2>1. CASE Head(events) = "tick"
    <3>1. ~Contains(events', "tick")
      BY <1>1, <1>2, <2>1 DEF Requests
    <3> QED
      BY <1>1, <1>2, <1>3, <2>1, <3>1, TickTalk DEF TickPending
  <2>2. CASE Head(events) = "receive"
    <3>1. ~Contains(events', "tick")
      BY <1>1, <1>2, <2>2 DEF Requests
    <3> QED
      BY <1>1, <1>3, <2>2, <3>1, ReceiveTalk DEF TickPending
  <2>3. CASE Head(events) = "connect"
    <3>1. /\ MachineTypes' /\ Talk'
          /\ \/ state' = "ConnectTCP"
             \/ UNCHANGED <<state, timer, count, buffer, input, commands>>
      BY <1>1, <1>3, <2>3, ConnectTalk
    <3> QED
      BY <1>1, <1>2, <3>1 DEF TickPending
  <2>4. CASE Head(events) = "disconnect"
    <3>1. /\ MachineTypes' /\ Talk'
          /\ \/ state' = "CommandMode" /\ commands' = commands
             \/ UNCHANGED <<state, timer, count, buffer, input, commands>>
      BY <1>1, <1>3, <2>4, DisconnectTalk
    <3>2. state' = "CommandMode" => state = "Connected" \/ UNCHANGED state
      BY <1>3, <2>4 DEF Disconnect, Ignore, machine
    <3> QED
      BY <1>1, <1>2, <3>1, <3>2 DEF TickPending
  <2> QED
    BY <1>3, <2>1, <2>2, <2>3, <2>4
<1> QED
  BY <1>4, <1>5, <1>6 DEF Inv, Types

-----------------------------------------------------------------------------
(* The calls *)

LEMMA Inserted ==
  ASSUME NEW queue \in Seq(Events), Len(queue) <= EventQueueSize, NEW e \in Events
  PROVE  LET q == Insert(queue, e)
         IN  /\ q \in Seq(Events) /\ Len(q) <= EventQueueSize /\ Len(queue) <= Len(q)
             /\ Len(q) <= Len(queue) + 1 /\ Len(queue) \in Nat
             /\ \A i \in 1 .. Len(queue) : q[i] = queue[i]
             /\ \A i \in 1 .. Len(q) : i > Len(queue) => q[i] = e
<1>1. Len(queue) \in Nat /\ EventQueueSize \in Nat
  BY EspAssumption
<1>2. CASE Len(queue) < EventQueueSize
  <2>1. /\ Append(queue, e) \in Seq(Events) /\ Len(Append(queue, e)) = Len(queue) + 1
        /\ \A i \in 1 .. Len(queue) : Append(queue, e)[i] = queue[i]
        /\ Append(queue, e)[Len(queue) + 1] = e
    BY AppendProperties
  <2> DEFINE q == Append(queue, e)
  <2>2. /\ q \in Seq(Events) /\ Len(q) = Len(queue) + 1
        /\ \A i \in 1 .. Len(queue) : q[i] = queue[i]
        /\ q[Len(queue) + 1] = e
    BY <2>1
  <2> HIDE DEF q
  <2>3. Len(q) <= EventQueueSize /\ \A i \in 1 .. Len(q) : i > Len(queue) => i = Len(queue) + 1
    BY <1>1, <1>2, <2>2
  <2>4. Insert(queue, e) = q
    BY <1>2 DEF Insert, q
  <2> QED
    BY <1>1, <2>2, <2>3, <2>4
<1>3. CASE ~(Len(queue) < EventQueueSize)
  <2>1. Insert(queue, e) = queue
    BY <1>3 DEF Insert
  <2> QED
    BY <1>1, <2>1
<1> QED
  BY <1>2, <1>3

\* What the machine and the module have to say, if neither changes.
LEMMA TalkUnchanged ==
  ASSUME Types, Talk, UNCHANGED <<state, timer, count, buffer, input, commands, module>>
  PROVE  MachineTypes' /\ module' \in ModuleType /\ Talk'
<1>1. MachineTypes' /\ module' \in ModuleType
  BY DEF Types, MachineTypes
<1>2. Talk'
  BY DEF Talk, Plain, Joined, InitTalk, ATTalk, EchoOffTalk, StationModeCheckTalk,
     StationModeSetTalk, ConnectAPTalk, ReadyTalk, ConnectTCPTalk, PassthroughTalk,
     PassthroughOKTalk, ConnectedTalk, CommandModeTalk, CloseTCPTalk
<1> QED
  BY <1>1, <1>2

\* With only requests in the queue no tick is pending.
LEMMA NoTickPending ==
  ASSUME \A i \in 1 .. Len(events) : events[i] \in Requests
  PROVE  /\ ~Contains(events, "tick") /\ TickPending
         /\ \A i \in 1 .. Len(events) : events[i] = "tick" =>
              \A j \in 1 .. i - 1 : events[j] \in Requests
BY DEF Contains, Requests, TickPending

\* Appending an event that is not a tick.
LEMMA CallStep ==
  ASSUME Inv, NEW call \in {"connect", "shutdown"}, NEW event \in Requests, Call(call, event)
  PROVE  Inv'
<1>1. /\ Types /\ EventOrder /\ TickPending /\ Talk /\ caller = "idle" /\ caller' = call
      /\ UNCHANGED <<running, state, timer, count, buffer, input, commands, module>>
      /\ events' = Insert(events, event)
  BY DEF Inv, Call, machine
<1>2. ~running /\ \A i \in 1 .. Len(events) : events[i] \in Requests
  BY <1>1 DEF EventOrder
<1>3. events \in Seq(Events) /\ Len(events) <= EventQueueSize /\ event \in Events
  BY <1>1 DEF Types, CallTypes, Requests, Events
<1>4. /\ events' \in Seq(Events) /\ Len(events') <= EventQueueSize /\ Len(events) <= Len(events')
      /\ Len(events) \in Nat
      /\ \A i \in 1 .. Len(events) : events'[i] = events[i]
      /\ \A i \in 1 .. Len(events') : i > Len(events) => events'[i] = event
  BY <1>1, <1>3, Inserted
<1>5. \A i \in 1 .. Len(events') : events'[i] \in Requests
  <2> SUFFICES ASSUME NEW i \in 1 .. Len(events') PROVE events'[i] \in Requests
    OBVIOUS
  <2>1. CASE i > Len(events)
    BY <1>4, <2>1
  <2>2. CASE ~(i > Len(events))
    <3>1. i \in 1 .. Len(events)
      BY <1>4, <2>2
    <3> QED
      BY <1>2, <1>4, <3>1
  <2> QED
    BY <2>1, <2>2
<1>6. EventOrder' /\ TickPending'
  <2>1. \A i \in 1 .. Len(events') : events'[i] # "tick"
    BY <1>5 DEF Requests
  <2>2. ~Contains(events', "tick")
    BY <2>1 DEF Contains
  <2> QED
    BY <1>1, <1>2, <1>5, <2>1, <2>2 DEF EventOrder, TickPending
<1>7. CallTypes'
  BY <1>1, <1>4 DEF Types, CallTypes, Goal
<1> QED
  BY <1>1, <1>6, <1>7, TalkUnchanged DEF Inv, Types

LEMMA ReturnStep ==
  ASSUME Inv, Return
  PROVE  Inv'
<1>1. /\ Types /\ EventOrder /\ TickPending /\ Talk /\ ~running /\ caller' = "idle"
      /\ UNCHANGED <<running, events, state, timer, count, buffer, input, commands, module>>
  BY DEF Inv, Return, machine
<1>2. CallTypes'
  BY <1>1 DEF Types, CallTypes
<1>3. EventOrder' /\ TickPending'
  BY <1>1 DEF EventOrder, TickPending
<1> QED
  BY <1>1, <1>2, <1>3, TalkUnchanged DEF Inv, Types

\* In the states where the module is listened to, a tick comes only when
\* nothing has been received, or when no more fits in the buffer.
LEMMA BeginRunStep ==
  ASSUME Inv, NEW tick \in BOOLEAN, BeginRun(tick)
  PROVE  Inv'
<1> DEFINE ticked == IF tick THEN Insert(events, "tick") ELSE events
           queue == IF input # <<>> THEN Insert(ticked, "receive") ELSE ticked
<1>1. /\ Types /\ EventOrder /\ TickPending /\ Talk /\ ~running /\ running' = TRUE
      /\ caller # "idle" /\ caller' = caller /\ (tick => TickMayCome)
      /\ UNCHANGED <<state, timer, count, buffer, input, commands, module>>
      /\ queue # <<>> /\ events' = queue
  BY DEF Inv, BeginRun, machine
<1>2. \A i \in 1 .. Len(events) : events[i] \in Requests
  BY <1>1 DEF EventOrder
<1>3. events \in Seq(Events) /\ Len(events) <= EventQueueSize /\ {"tick", "receive"} \subseteq Events
  BY <1>1 DEF Types, CallTypes, Events
<1>4. /\ ticked \in Seq(Events) /\ Len(ticked) <= EventQueueSize /\ Len(events) <= Len(ticked)
      /\ Len(events) \in Nat /\ Len(ticked) <= Len(events) + 1
      /\ \A i \in 1 .. Len(events) : ticked[i] = events[i]
      /\ \A i \in 1 .. Len(ticked) : i > Len(events) => tick /\ ticked[i] = "tick"
  <2>1. CASE tick
    <3>1. ticked = Insert(events, "tick")
      BY <2>1
    <3> QED
      BY <1>3, <2>1, <3>1, Inserted
  <2>2. CASE ~tick
    BY <1>3, <2>2
  <2> QED
    BY <2>1, <2>2
<1> HIDE DEF ticked
<1>5. /\ queue \in Seq(Events) /\ Len(queue) <= EventQueueSize /\ Len(ticked) <= Len(queue)
      /\ Len(ticked) \in Nat
      /\ \A i \in 1 .. Len(ticked) : queue[i] = ticked[i]
      /\ \A i \in 1 .. Len(queue) : i > Len(ticked) => queue[i] = "receive"
  <2>1. CASE input # <<>>
    <3>1. queue = Insert(ticked, "receive")
      BY <2>1
    <3>2. ticked \in Seq(Events) /\ Len(ticked) <= EventQueueSize /\ "receive" \in Events
      BY <1>3, <1>4
    <3> HIDE DEF queue
    <3>3. /\ queue \in Seq(Events) /\ Len(queue) <= EventQueueSize /\ Len(ticked) <= Len(queue)
          /\ Len(ticked) \in Nat
          /\ \A i \in 1 .. Len(ticked) : queue[i] = ticked[i]
          /\ \A i \in 1 .. Len(queue) : i > Len(ticked) => queue[i] = "receive"
      BY <3>1, <3>2, Inserted
    <3> QED
      BY <3>3
  <2>2. CASE input = <<>>
    <3>1. queue = ticked
      BY <2>2
    <3> QED
      BY <1>4, <3>1
  <2> QED
    BY <2>1, <2>2
<1> HIDE DEF queue
<1>6. ASSUME NEW i \in 1 .. Len(queue), queue[i] = "tick"
      PROVE  tick /\ i = Len(events) + 1
  <2>1. i \in 1 .. Len(ticked) /\ ticked[i] = "tick"
    <3>1. ~(i > Len(ticked))
      BY <1>5, <1>6
    <3>2. i \in 1 .. Len(ticked)
      BY <1>5, <3>1
    <3> QED
      BY <1>5, <1>6, <3>2
  <2>2. i > Len(events)
    <3>1. i \notin 1 .. Len(events)
      BY <1>2, <1>4, <2>1 DEF Requests
    <3> QED
      BY <1>4, <1>5, <3>1
  <2>3. tick
    BY <1>4, <2>1, <2>2
  <2> QED
    BY <1>4, <1>5, <2>1, <2>2, <2>3
<1>7. EventOrder'
  <2>1. ASSUME NEW i \in 1 .. Len(queue), queue[i] = "tick", NEW j \in 1 .. i - 1
        PROVE  queue[j] \in Requests
    <3>1. i = Len(events) + 1
      BY <1>6, <2>1
    <3>2. j \in 1 .. Len(events) /\ j \in 1 .. Len(ticked)
      BY <1>4, <1>5, <3>1
    <3> QED
      BY <1>2, <1>4, <1>5, <3>2
  <2> QED
    BY <1>1, <2>1 DEF EventOrder
<1>8. Contains(events', "tick") => TickMayCome
  BY <1>1, <1>6 DEF Contains
<1>9. TickPending'
  <2> SUFFICES ASSUME TickMayCome
               PROVE  /\ commands = <<>>
                      /\ state = "EchoOff" => input = <<>>
                      /\ state = "Init" => ~Contains(input, "OK")
                      /\ state = "ConnectAP" => input = <<>> \/ Len(buffer) >= BufferSize
    BY <1>1, <1>8 DEF TickPending
  <2>1. commands = <<>> /\ (input = <<>> \/ state \in Deaf \/ Len(buffer) >= BufferSize)
    BY DEF TickMayCome
  <2>2. state \in {"EchoOff", "Init"} => input = <<>>
    <3> SUFFICES ASSUME state \in {"EchoOff", "Init"} PROVE input = <<>>
      OBVIOUS
    <3>1. buffer = <<>>
      BY <1>1 DEF Talk, InitTalk, EchoOffTalk
    <3>2. ~(Len(buffer) >= BufferSize)
      BY <3>1, EspAssumption, EmptyText
    <3> QED
      BY <2>1, <3>2 DEF Deaf
  <2> QED
    BY <2>1, <2>2, EmptyText DEF Deaf
<1>10. CallTypes'
  BY <1>1, <1>5 DEF Types, CallTypes
<1> QED
  BY <1>1, <1>7, <1>9, <1>10, TalkUnchanged DEF Inv, Types

-----------------------------------------------------------------------------
(* Reading, writing and restarting *)

LEMMA TailOnly ==
  ASSUME NEW S, NEW q \in Seq(S), q # <<>>, NEW p, Only(q, p)
  PROVE  Head(q) = p /\ Only(Tail(q), p)
<1>1. /\ Head(q) = q[1] /\ Len(q) \in Nat /\ Len(q) > 0 /\ Len(Tail(q)) = Len(q) - 1
      /\ \A i \in 1 .. Len(Tail(q)) : Tail(q)[i] = q[i + 1]
  BY HeadAndTail
<1>2. 1 \in 1 .. Len(q) /\ \A i \in 1 .. Len(Tail(q)) : i + 1 \in 1 .. Len(q)
  BY <1>1
<1> QED
  BY <1>1, <1>2 DEF Only

LEMMA ReadStep ==
  ASSUME Inv, Read
  PROVE  Inv'
<1>1. /\ Types /\ EventOrder /\ Talk /\ caller = "idle" /\ state = "Connected" /\ input # <<>>
      /\ UNCHANGED <<caller, running, events, state, timer, count, buffer, commands, module>>
      /\ input' = Tail(input) /\ ConnectedTalk /\ MachineTypes /\ input \in Seq(Pieces)
  BY DEF Inv, Read, Talk, Types, MachineTypes, machine
<1>2. /\ input' \in Seq(Pieces) /\ Len(input) \in Nat /\ Len(input') = Len(input) - 1
  BY <1>1, HeadAndTail
<1>3. Only(input', "data")
  BY <1>1, TailOnly DEF ConnectedTalk
<1>4. Len(input') <= InputSize
  BY <1>1, <1>2, EspAssumption, SMTT(60) DEF MachineTypes
<1>5. MachineTypes'
  BY <1>1, <1>2, <1>4 DEF MachineTypes
<1>6. ConnectedTalk'
  BY <1>1, <1>3 DEF ConnectedTalk, Joined
<1>7. EventOrder' /\ CallTypes' /\ module' \in ModuleType
  BY <1>1 DEF EventOrder, CallTypes, Types
<1>8. ~Contains(events, "tick")
  BY <1>1, NoTickPending DEF EventOrder
<1> QED
  BY <1>1, <1>5, <1>6, <1>7, <1>8 DEF Inv, Types, Talk, TickPending

LEMMA WriteStep ==
  ASSUME Inv, Write
  PROVE  Inv'
<1>1. /\ Types /\ EventOrder /\ Talk /\ caller = "idle" /\ state = "Connected"
      /\ UNCHANGED <<caller, running, events, state, timer, count, buffer, input, module>>
      /\ Send(<<"data">>) /\ ConnectedTalk /\ MachineTypes /\ commands \in Seq(Commands)
  BY DEF Inv, Write, Talk, Types, MachineTypes, machine
<1> DEFINE q == commands'
           d == <<"data">>
<1>2. q = commands \o d /\ d \in Seq(Commands) /\ Len(d) = 1 /\ d[1] = "data"
  BY <1>1, CommandLines, One DEF Send
<1> HIDE DEF d
<1>3. /\ q \in Seq(Commands) /\ Len(commands) \in Nat /\ Len(q) = Len(commands) + 1
      /\ \A i \in 1 .. Len(commands) : q[i] = commands[i]
      /\ \A i \in 1 .. Len(d) : q[Len(commands) + i] = d[i]
  <2> DEFINE r == commands \o d
  <2>1. /\ r \in Seq(Commands) /\ Len(commands) \in Nat /\ Len(r) = Len(commands) + Len(d)
        /\ \A i \in 1 .. Len(commands) : r[i] = commands[i]
        /\ \A i \in 1 .. Len(d) : r[Len(commands) + i] = d[i]
    <3>1. commands \in Seq(Commands) /\ d \in Seq(Commands)
      BY <1>1, <1>2
    <3> QED
      BY <3>1, Joint
  <2> HIDE DEF q, r
  <2>2. q = r
    BY <1>2 DEF r
  <2> QED
    BY <1>2, <2>1, <2>2
<1> HIDE DEF q
<1>4. \A i \in 1 .. Len(q) : i \in 1 .. Len(commands) \/ i = Len(commands) + 1
  BY <1>3
<1>5. q[Len(commands) + 1] = "data"
  <2>1. 1 \in 1 .. Len(d)
    BY <1>2
  <2> QED
    BY <1>2, <1>3, <2>1
<1>6. Only(q, "data")
  BY <1>1, <1>3, <1>4, <1>5 DEF Only, ConnectedTalk
<1>7. MachineTypes'
  BY <1>1, <1>3 DEF MachineTypes, q
<1>8. ConnectedTalk'
  BY <1>1, <1>6 DEF ConnectedTalk, Joined, q
<1>9. EventOrder' /\ CallTypes' /\ module' \in ModuleType
  BY <1>1 DEF EventOrder, CallTypes, Types
<1>10. ~Contains(events, "tick")
  BY <1>1, NoTickPending DEF EventOrder
<1> QED
  BY <1>1, <1>7, <1>8, <1>9, <1>10 DEF Inv, Types, Talk, TickPending

\* The controller starts, whatever the module may be.
LEMMA StartIs ==
  ASSUME caller = "socket", running = FALSE, events = <<>>, state = "Init", timer = 0, count = 0,
         buffer = <<>>, input = <<>>, commands = <<"AT">>, module \in ModuleType
  PROVE  Inv
<1>1. 0 <= BufferSize /\ 0 <= InputSize /\ 0 <= EventQueueSize
  BY EspAssumption
<1>2. events \in Seq(Events)
  OBVIOUS
<1>3. CallTypes
  BY <1>1, <1>2, EmptyText DEF CallTypes, Goal
<1>4. MachineTypes
  BY <1>1, EmptyText, CommandLines DEF MachineTypes, States
<1>5. \A i \in 1 .. Len(events) : FALSE
  BY EmptyText
<1>6. EventOrder /\ TickPending
  BY <1>5 DEF EventOrder, TickPending, Contains
<1>7. InitTalk
  BY EmptyText DEF InitTalk
<1> QED
  BY <1>3, <1>4, <1>6, <1>7 DEF Inv, Types, Talk

LEMMA InitInv ==
  ASSUME Init
  PROVE  Inv
<1>1. module \in ModuleType
  BY DEF Init, ModuleType
<1> QED
  BY <1>1, StartIs, OnEntryIs DEF Init

LEMMA RestartStep ==
  ASSUME Inv, Restart
  PROVE  Inv'
<1>1. module' \in ModuleType
  BY DEF Inv, Types, Restart
<1>2. /\ caller' = "socket" /\ running' = FALSE /\ events' = <<>> /\ state' = "Init"
      /\ timer' = 0 /\ count' = 0 /\ buffer' = <<>> /\ input' = <<>> /\ commands' = <<"AT">>
  BY OnEntryIs DEF Restart, Start
<1>3. 0 <= BufferSize /\ 0 <= InputSize /\ 0 <= EventQueueSize
  BY EspAssumption
<1>4. events' \in Seq(Events)
  BY <1>2
<1>5. CallTypes'
  BY <1>2, <1>3, <1>4, EmptyText DEF CallTypes, Goal
<1>6. MachineTypes'
  BY <1>2, <1>3, EmptyText, CommandLines DEF MachineTypes, States
<1>7. \A i \in 1 .. Len(events') : FALSE
  BY <1>2, EmptyText
<1>8. EventOrder' /\ TickPending'
  BY <1>2, <1>7 DEF EventOrder, TickPending, Contains
<1>9. InitTalk'
  BY <1>2, EmptyText DEF InitTalk
<1> QED
  BY <1>1, <1>2, <1>5, <1>6, <1>8, <1>9 DEF Inv, Types, Talk

-----------------------------------------------------------------------------
(* The module *)

\* What one or two new pieces add to what was there.
LEMMA ArrivedOneMore ==
  ASSUME Types, NEW x \in Pieces, Arrive(<<x>>)
  PROVE  /\ input' \in Seq(Pieces) /\ Len(input') <= InputSize
         /\ Len(input') \in Nat /\ Len(input) \in Nat /\ Len(input') <= Len(input) + 1
         /\ \A i \in 1 .. Len(input') :
              \/ i \in 1 .. Len(input) /\ input'[i] = input[i]
              \/ i = Len(input) + 1 /\ input'[i] = x
<1>1. <<x>> \in Seq(Pieces) /\ Len(<<x>>) = 1 /\ <<x>>[1] = x
  BY OneOf, One
<1> DEFINE new == <<x>>
           after == input'
<1>2. /\ after \in Seq(Pieces) /\ Len(after) \in Nat /\ Len(after) <= InputSize
      /\ Len(input) \in Nat
      /\ Len(input) <= Len(after) /\ Len(after) <= Len(input) + Len(new)
      /\ \A i \in 1 .. Len(input) : after[i] = input[i]
      /\ \A i \in 1 .. Len(after) - Len(input) : after[Len(input) + i] = new[i]
  BY <1>1, Arrived
<1>3. Len(new) = 1 /\ new[1] = x
  BY <1>1
<1> HIDE DEF new, after
<1>4. ASSUME NEW i \in 1 .. Len(after)
      PROVE  \/ i \in 1 .. Len(input) /\ after[i] = input[i]
             \/ i = Len(input) + 1 /\ after[i] = x
  <2>1. CASE i <= Len(input)
    BY <1>2, <2>1
  <2>2. CASE i > Len(input)
    <3>1. i = Len(input) + 1 /\ 1 \in 1 .. Len(after) - Len(input)
      BY <1>2, <1>3, <2>2
    <3> QED
      BY <1>2, <1>3, <3>1
  <2> QED
    BY <1>2, <2>1, <2>2
<1> QED
  BY <1>2, <1>3, <1>4 DEF after

LEMMA ArrivedTwoMore ==
  ASSUME Types, NEW x \in Pieces, NEW y \in Pieces, Arrive(<<x, y>>)
  PROVE  /\ input' \in Seq(Pieces) /\ Len(input') <= InputSize
         /\ Len(input') \in Nat /\ Len(input) \in Nat /\ Len(input') <= Len(input) + 2
         /\ \A i \in 1 .. Len(input') :
              \/ i \in 1 .. Len(input) /\ input'[i] = input[i]
              \/ i = Len(input) + 1 /\ input'[i] = x
              \/ i = Len(input) + 2 /\ input'[i] = y
<1>1. <<x, y>> \in Seq(Pieces) /\ Len(<<x, y>>) = 2 /\ <<x, y>>[1] = x /\ <<x, y>>[2] = y
  BY TwoPieces
<1> DEFINE new == <<x, y>>
           after == input'
<1>2. /\ after \in Seq(Pieces) /\ Len(after) \in Nat /\ Len(after) <= InputSize
      /\ Len(input) \in Nat
      /\ Len(input) <= Len(after) /\ Len(after) <= Len(input) + Len(new)
      /\ \A i \in 1 .. Len(input) : after[i] = input[i]
      /\ \A i \in 1 .. Len(after) - Len(input) : after[Len(input) + i] = new[i]
  BY <1>1, Arrived
<1>3. Len(new) = 2 /\ new[1] = x /\ new[2] = y
  BY <1>1
<1> HIDE DEF new, after
<1>4. ASSUME NEW i \in 1 .. Len(after)
      PROVE  \/ i \in 1 .. Len(input) /\ after[i] = input[i]
             \/ i = Len(input) + 1 /\ after[i] = x
             \/ i = Len(input) + 2 /\ after[i] = y
  <2>1. CASE i <= Len(input)
    BY <1>2, <2>1
  <2>2. CASE i = Len(input) + 1
    <3>1. 1 \in 1 .. Len(after) - Len(input)
      BY <1>2, <2>2
    <3> QED
      BY <1>2, <1>3, <2>2, <3>1
  <2>3. CASE i = Len(input) + 2
    <3>1. 2 \in 1 .. Len(after) - Len(input)
      BY <1>2, <2>3
    <3> QED
      BY <1>2, <1>3, <2>3, <3>1
  <2> QED
    BY <1>2, <1>3, <2>1, <2>2, <2>3
<1> QED
  BY <1>2, <1>3, <1>4 DEF after

\* Pieces other than p do not bring p.
LEMMA NotBrought ==
  ASSUME Types, NEW x \in Pieces, NEW y \in Pieces, NEW p, p # x, p # y,
         Arrive(<<x>>) \/ Arrive(<<x, y>>)
  PROVE  /\ Contains(input', p) => Contains(input, p)
         /\ AtMostOnce(input, p) => AtMostOnce(input', p)
<1> DEFINE after == input'
<1>1. \A i \in 1 .. Len(after) : after[i] = p => i \in 1 .. Len(input) /\ input[i] = p
  <2>1. CASE Arrive(<<x>>)
    BY <2>1, ArrivedOneMore
  <2>2. CASE Arrive(<<x, y>>)
    BY <2>2, ArrivedTwoMore
  <2> QED
    BY <2>1, <2>2
<1> HIDE DEF after
<1>2. Contains(after, p) => Contains(input, p)
  BY <1>1 DEF Contains
<1>3. AtMostOnce(input, p) => AtMostOnce(after, p)
  BY <1>1 DEF AtMostOnce
<1> QED
  BY <1>2, <1>3 DEF after

\* An answer that ends with p brings it once, at the end.
LEMMA BroughtLast ==
  ASSUME Types, NEW x \in Pieces, NEW p \in Pieces, p # x, ~Contains(input, p),
         Arrive(<<p>>) \/ Arrive(<<x, p>>)
  PROVE  OnlyLast(input', p) /\ AtMostOnce(input', p)
<1> DEFINE after == input'
<1>1. Len(after) \in Nat /\ \A i \in 1 .. Len(after) : after[i] = p => i = Len(after)
  <2>1. \A i \in 1 .. Len(input) : input[i] # p
    BY DEF Contains
  <2>2. CASE Arrive(<<p>>)
    BY <2>1, <2>2, ArrivedOneMore
  <2>3. CASE Arrive(<<x, p>>)
    BY <2>1, <2>3, ArrivedTwoMore
  <2> QED
    BY <2>2, <2>3
<1> HIDE DEF after
<1>2. OnlyLast(after, p)
  <2>1. \A i \in 1 .. Len(after) - 1 : i \in 1 .. Len(after) /\ i # Len(after)
    BY <1>1
  <2> QED
    BY <1>1, <2>1 DEF OnlyLast
<1>3. AtMostOnce(after, p)
  BY <1>1 DEF AtMostOnce
<1> QED
  BY <1>2, <1>3 DEF after

\* Without a p, it can only be the last.
LEMMA NoneIsLast ==
  ASSUME NEW q \in Seq(Pieces), NEW p, ~Contains(q, p)
  PROVE  OnlyLast(q, p) /\ AtMostOnce(q, p)
BY DEF OnlyLast, AtMostOnce, Contains

InputType == input \in Seq(Pieces) /\ Len(input) <= InputSize

LEMMA ModuleFrame ==
  ASSUME Types, Talk, ModuleStep
  PROVE  /\ UNCHANGED <<caller, running, events, state, timer, count, buffer>>
         /\ InputType /\ module.mode \in {"command", "data"} /\ module \in ModuleType
         /\ commands # <<>> /\ commands' = Tail(commands) /\ commands' \in Seq(Commands)
         /\ module.mode = "command" => Obey(Head(commands)) \/ Ignored(Head(commands))
         /\ module.mode = "data" => Forward(Head(commands))
<1>1. commands \in Seq(Commands) /\ commands # <<>> /\ module \in ModuleType /\ InputType
  BY DEF Types, MachineTypes, InputType, ModuleStep
<1>2. Tail(commands) \in Seq(Commands)
  BY <1>1, HeadAndTail
<1> QED
  BY <1>1, <1>2 DEF ModuleStep, machine, ModuleType

\* What the module does with a command that is not spoiled.
LEMMA ObeyPlain ==
  ASSUME NEW c, Obey(c), ~module.garbled
  PROVE  /\ c = "+++" => Reply(<<>>, [module EXCEPT !.garbled = TRUE])
         /\ c \in {"AT", "ATE0"} => Reply(<<"OK">>, module)
         /\ c = "CWMODE?" => Reply(<<IF module.station THEN "MODE1" ELSE "text", "OK">>, module)
         /\ c = "CWMODE=1" => Reply(<<"OK">>, [module EXCEPT !.station = TRUE])
         /\ c = "CWJAP" => Join
         /\ c = "CIPSTART" => Link
         /\ c = "CIPMODE=1" => Reply(<<"OK">>, [module EXCEPT !.transparent = TRUE])
         /\ c = "CIPMODE=0" => Reply(<<"OK">>, [module EXCEPT !.transparent = FALSE])
         /\ c = "CIPSEND" =>
              IF module.linked /\ module.transparent
              THEN Reply(<<"OK", ">">>, [module EXCEPT !.mode = "data"])
              ELSE Reply(<<"ERROR">>, module)
         /\ c = "CIPCLOSE" =>
              IF module.linked THEN Reply(<<"CLOSED", "OK">>, [module EXCEPT !.linked = FALSE])
              ELSE Reply(<<"ERROR">>, module)
BY DEF Obey

LEMMA ObeyGarbled ==
  ASSUME NEW c, Obey(c), module.garbled
  PROVE  /\ c = "+++" => Reply(<<>>, [module EXCEPT !.garbled = TRUE])
         /\ c # "+++" => Reply(<<"ERROR">>, [module EXCEPT !.garbled = FALSE])
BY DEF Obey

LEMMA PieceNames ==
  {"OK", "ERROR", "MODE1", "CONNECT", "CLOSED", ">", "text", "data"} \subseteq Pieces
BY DEF Pieces

LEMMA NewInput ==
  ASSUME Types, NEW x \in Pieces, NEW y \in Pieces, Arrive(<<x>>) \/ Arrive(<<x, y>>)
  PROVE  InputType'
<1>1. CASE Arrive(<<x>>)
  BY <1>1, ArrivedOneMore DEF InputType
<1>2. CASE Arrive(<<x, y>>)
  BY <1>2, ArrivedTwoMore DEF InputType
<1> QED
  BY <1>1, <1>2

LEMMA ModuleInInit ==
  ASSUME Types, Talk, state = "Init", ModuleStep
  PROVE  InputType' /\ module' \in ModuleType /\ Talk'
<1>1. /\ UNCHANGED <<state, timer, count, buffer>> /\ InitTalk
      /\ InputType /\ module.mode \in {"command", "data"} /\ module \in ModuleType
      /\ commands # <<>> /\ commands' = Tail(commands)
      /\ module.mode = "command" => Obey(Head(commands)) \/ Ignored(Head(commands))
      /\ module.mode = "data" => Forward(Head(commands))
  BY ModuleFrame DEF Talk
<1>2. /\ commands = <<"AT">> /\ Head(commands) = "AT" /\ commands' = <<>> /\ buffer = <<>>
      /\ ~Contains(input, "OK")
  BY <1>1, One DEF InitTalk
<1>3. CASE UNCHANGED <<input, module>>
  BY <1>1, <1>2, <1>3 DEF InputType, InitTalk, Talk
<1>4. CASE Reply(<<"ERROR">>, [module EXCEPT !.garbled = FALSE])
  <2>1. Arrive(<<"ERROR">>) /\ module' = [module EXCEPT !.garbled = FALSE]
    BY <1>4 DEF Reply
  <2>2. InputType' /\ ~Contains(input', "OK")
    BY <1>2, <2>1, NewInput, NotBrought, PieceNames
  <2>3. module' \in ModuleType
    BY <1>1, <2>1 DEF ModuleType
  <2> QED
    BY <1>1, <1>2, <2>2, <2>3 DEF InitTalk, Talk
<1>5. CASE Reply(<<"OK">>, module) /\ module.mode = "command" /\ ~module.garbled
  <2>1. Arrive(<<"OK">>) /\ module' = module
    BY <1>5 DEF Reply
  <2>2. InputType'
    BY <2>1, NewInput, PieceNames
  <2> QED
    BY <1>1, <1>2, <1>5, <2>1, <2>2 DEF InitTalk, Talk, Plain
<1>6. CASE module.mode = "data"
  BY <1>1, <1>2, <1>3, <1>6 DEF Forward
<1>7. CASE module.mode = "command" /\ Obey("AT")
  <2>1. CASE module.garbled
    <3>0. "AT" # "+++" /\ Obey("AT")
      BY <1>7
    <3>1. Reply(<<"ERROR">>, [module EXCEPT !.garbled = FALSE])
      BY <2>1, <3>0, ObeyGarbled
    <3> QED
      BY <1>4, <3>1
  <2>2. CASE ~module.garbled
    <3>1. Reply(<<"OK">>, module)
      BY <1>7, <2>2, ObeyPlain
    <3> QED
      BY <1>5, <1>7, <2>2, <3>1
  <2> QED
    BY <2>1, <2>2
<1>8. CASE module.mode = "command" /\ Ignored("AT")
  BY <1>3, <1>8 DEF Ignored
<1> QED
  BY <1>1, <1>2, <1>6, <1>7, <1>8

LEMMA ModuleInAT ==
  ASSUME Types, Talk, state = "AT", ModuleStep
  PROVE  InputType' /\ module' \in ModuleType /\ Talk'
<1>1. /\ UNCHANGED <<state, timer, count, buffer>> /\ ATTalk
      /\ InputType /\ module.mode \in {"command", "data"} /\ module \in ModuleType
      /\ commands # <<>> /\ commands' = Tail(commands)
      /\ module.mode = "command" => Obey(Head(commands)) \/ Ignored(Head(commands))
      /\ module.mode = "data" => Forward(Head(commands))
  BY ModuleFrame DEF Talk
<1>2. /\ commands = <<"+++">> /\ Head(commands) = "+++" /\ commands' = <<>> /\ Len(commands) = 1
  BY <1>1, One DEF ATTalk
<1>3. ATTalk'
  BY <1>1, <1>2 DEF ATTalk
<1>4. CASE module.mode = "data"
  <2>1. module' = [module EXCEPT !.mode = "command"] /\ input' = input
    BY <1>1, <1>2, <1>4 DEF Forward
  <2> QED
    BY <1>1, <1>3, <2>1 DEF ModuleType, InputType, Talk
<1>5. CASE module.mode = "command"
  <2>1. Reply(<<>>, [module EXCEPT !.garbled = TRUE])
    BY <1>1, <1>2, <1>5, ObeyPlain, ObeyGarbled DEF Ignored
  <2>2. input' = input /\ module' = [module EXCEPT !.garbled = TRUE]
    BY <2>1, ArrivedNothing DEF Reply
  <2> QED
    BY <1>1, <1>3, <2>2 DEF ModuleType, InputType, Talk
<1> QED
  BY <1>1, <1>4, <1>5

LEMMA ModuleInEchoOff ==
  ASSUME Types, Talk, state = "EchoOff", ModuleStep
  PROVE  InputType' /\ module' \in ModuleType /\ Talk'
<1>1. /\ UNCHANGED <<state, timer, count, buffer>> /\ EchoOffTalk
      /\ InputType /\ module \in ModuleType
      /\ commands # <<>> /\ commands' = Tail(commands)
      /\ module.mode = "command" => Obey(Head(commands)) \/ Ignored(Head(commands))
  BY ModuleFrame DEF Talk
<1>2. /\ commands = <<"ATE0">> /\ Head(commands) = "ATE0" /\ commands' = <<>> /\ input = <<>>
      /\ Plain /\ buffer = <<>>
  BY <1>1, One DEF EchoOffTalk
<1>3. CASE Obey("ATE0")
  <2>1. Arrive(<<"OK">>) /\ module' = module
    BY <1>2, <1>3, ObeyPlain DEF Reply, Plain
  <2>2. input' = <<"OK">> /\ InputType'
    BY <1>2, <2>1, ArrivedOne, NewInput, PieceNames
  <2> QED
    BY <1>1, <1>2, <2>1, <2>2 DEF EchoOffTalk, Plain, Talk
<1>4. CASE Ignored("ATE0")
  BY <1>1, <1>2, <1>4 DEF Ignored, InputType, EchoOffTalk, Plain, Talk
<1> QED
  BY <1>1, <1>2, <1>3, <1>4 DEF Plain

LEMMA ModuleInStationModeCheck ==
  ASSUME Types, Talk, state = "StationModeCheck", ModuleStep
  PROVE  InputType' /\ module' \in ModuleType /\ Talk'
<1>1. /\ UNCHANGED <<state, timer, count, buffer>> /\ StationModeCheckTalk
      /\ InputType /\ module \in ModuleType
      /\ commands # <<>> /\ commands' = Tail(commands)
      /\ module.mode = "command" => Obey(Head(commands)) \/ Ignored(Head(commands))
  BY ModuleFrame DEF Talk
<1>2. /\ Head(commands) = "CWMODE?" /\ commands' = <<>> /\ input = <<>> /\ buffer = <<>> /\ Plain
  BY <1>1, One DEF StationModeCheckTalk
<1> DEFINE mode == IF module.station THEN "MODE1" ELSE "text"
<1>3. Arrive(<<mode, "OK">>) /\ module' = module
  BY <1>1, <1>2, ObeyPlain DEF Reply, Plain, Ignored
<1>4. mode \in Pieces /\ mode # "OK" /\ (mode = "MODE1" => module.station)
  BY PieceNames
<1> HIDE DEF mode
<1>5. ~Contains(input, "OK") /\ ~Contains(input, "MODE1")
  BY <1>2, EmptyText
<1>6. InputType' /\ OnlyLast(input', "OK")
  BY <1>3, <1>4, <1>5, NewInput, BroughtLast, PieceNames
<1>7. Contains(input', "MODE1") => module.station
  <2>1. mode # "MODE1" => ~Contains(input', "MODE1")
    BY <1>3, <1>4, <1>5, NotBrought, PieceNames
  <2> QED
    BY <1>4, <2>1
<1>8. StationModeCheckTalk'
  BY <1>1, <1>2, <1>3, <1>6, <1>7, EmptyText DEF StationModeCheckTalk, Plain
<1> QED
  BY <1>1, <1>3, <1>6, <1>8 DEF Talk

LEMMA ModuleInStationModeSet ==
  ASSUME Types, Talk, state = "StationModeSet", ModuleStep
  PROVE  InputType' /\ module' \in ModuleType /\ Talk'
<1>1. /\ UNCHANGED <<state, timer, count, buffer>> /\ StationModeSetTalk
      /\ InputType /\ module \in ModuleType
      /\ commands # <<>> /\ commands' = Tail(commands)
      /\ module.mode = "command" => Obey(Head(commands)) \/ Ignored(Head(commands))
  BY ModuleFrame DEF Talk
<1>2. /\ Head(commands) = "CWMODE=1" /\ commands' = <<>> /\ input = <<>> /\ buffer = <<>> /\ Plain
  BY <1>1, One DEF StationModeSetTalk
<1>3. Arrive(<<"OK">>) /\ module' = [module EXCEPT !.station = TRUE]
  BY <1>1, <1>2, ObeyPlain DEF Reply, Plain, Ignored
<1>4. input' = <<"OK">> /\ InputType'
  BY <1>2, <1>3, ArrivedOne, NewInput, PieceNames
<1>5. /\ module' \in ModuleType /\ module'.station /\ module'.mode = module.mode
      /\ module'.garbled = module.garbled
  BY <1>1, <1>3 DEF ModuleType
<1>6. Plain'
  BY <1>2, <1>5 DEF Plain
<1>7. StationModeSetTalk'
  BY <1>1, <1>2, <1>4, <1>5, <1>6 DEF StationModeSetTalk
<1> QED
  BY <1>1, <1>4, <1>5, <1>7 DEF Talk

\* The answer OK says that the module has joined, until the next attempt.
LEMMA ModuleInConnectAP ==
  ASSUME Types, Talk, state = "ConnectAP", ModuleStep
  PROVE  InputType' /\ module' \in ModuleType /\ Talk'
<1>1. /\ UNCHANGED <<state, timer, count, buffer>> /\ ConnectAPTalk
      /\ InputType /\ module \in ModuleType
      /\ commands # <<>> /\ commands' = Tail(commands)
      /\ module.mode = "command" => Obey(Head(commands)) \/ Ignored(Head(commands))
  BY ModuleFrame DEF Talk
<1>2. /\ Head(commands) = "CWJAP" /\ commands' = <<>> /\ Plain /\ module.station
      /\ ~Contains(buffer, "OK")
      /\ Len(buffer) < BufferSize => ~Contains(input, "OK")
  <2>1. commands = <<"CWJAP">> /\ Plain /\ module.station /\ ~Contains(buffer, "OK")
    BY <1>1 DEF ConnectAPTalk
  <2>2. Len(buffer) < BufferSize => ~Contains(input, "OK")
    BY <1>1 DEF ConnectAPTalk
  <2> QED
    BY <1>1, <2>1, <2>2, One
<1>3. Join
  BY <1>1, <1>2, ObeyPlain DEF Plain, Ignored
<1>4. CASE Reply(<<"text", "OK">>, [module EXCEPT !.joined = TRUE, !.linked = FALSE])
  <2>1. /\ Arrive(<<"text", "OK">>) /\ module' \in ModuleType /\ module'.joined
        /\ module'.mode = module.mode /\ module'.garbled = module.garbled
        /\ module'.station = module.station
    BY <1>1, <1>4 DEF Reply, ModuleType
  <2>2. InputType' /\ (Len(buffer) < BufferSize => OnlyLast(input', "OK"))
    BY <1>2, <2>1, NewInput, BroughtLast, PieceNames
  <2>3. Plain' /\ module'.station
    BY <1>2, <2>1 DEF Plain
  <2>4. ConnectAPTalk'
    BY <1>1, <1>2, <2>1, <2>2, <2>3 DEF ConnectAPTalk
  <2> QED
    BY <1>1, <2>1, <2>2, <2>4 DEF Talk
<1>5. CASE \E failure \in {"text", "ERROR"} :
             Reply(<<failure>>, [module EXCEPT !.joined = FALSE, !.linked = FALSE])
  <2>1. PICK failure \in {"text", "ERROR"} :
          Reply(<<failure>>, [module EXCEPT !.joined = FALSE, !.linked = FALSE])
    BY <1>5
  <2>2. /\ Arrive(<<failure>>) /\ module' \in ModuleType
        /\ module'.mode = module.mode /\ module'.garbled = module.garbled
        /\ module'.station = module.station
    BY <1>1, <2>1 DEF Reply, ModuleType
  <2>3. failure \in Pieces /\ failure # "OK"
    BY <2>1, PieceNames
  <2>4. InputType' /\ (Len(buffer) < BufferSize => ~Contains(input', "OK"))
    BY <1>2, <2>2, <2>3, NewInput, NotBrought
  <2>5. Plain' /\ module'.station
    BY <1>2, <2>2 DEF Plain
  <2>6. ConnectAPTalk'
    BY <1>1, <1>2, <2>4, <2>5, NoneIsLast DEF ConnectAPTalk, InputType
  <2> QED
    BY <1>1, <2>2, <2>4, <2>6 DEF Talk
<1> QED
  BY <1>3, <1>4, <1>5 DEF Join

LEMMA ModuleInConnectTCP ==
  ASSUME Types, Talk, state = "ConnectTCP", ModuleStep
  PROVE  InputType' /\ module' \in ModuleType /\ Talk'
<1>1. /\ UNCHANGED <<state, timer, count, buffer>> /\ ConnectTCPTalk
      /\ InputType /\ module \in ModuleType /\ commands \in Seq(Commands)
      /\ commands # <<>> /\ commands' = Tail(commands)
      /\ module.mode = "command" => Obey(Head(commands)) \/ Ignored(Head(commands))
  BY ModuleFrame DEF Talk, Types, MachineTypes
<1>2. /\ Plain /\ Joined /\ AtMostOnce(input, "OK")
      /\ Contains(buffer, "OK") \/ Contains(input, "OK") => module.linked
      /\ Contains(buffer, "OK") => ~Contains(input, "OK")
  BY <1>1 DEF ConnectTCPTalk
<1>3. Head(commands) = "CIPSTART" /\ Only(commands', "CIPSTART")
  BY <1>1, TailOnly DEF ConnectTCPTalk
<1>4. Link
  BY <1>1, <1>2, <1>3, ObeyPlain DEF Plain, Ignored
<1>5. ASSUME NEW x \in Pieces \ {"OK"}, NEW y \in Pieces \ {"OK"},
             Arrive(<<x>>) \/ Arrive(<<x, y>>), module' = module
      PROVE  InputType' /\ module' \in ModuleType /\ Talk'
  <2>1. /\ InputType' /\ AtMostOnce(input', "OK")
        /\ Contains(input', "OK") => Contains(input, "OK")
    BY <1>2, <1>5, NewInput, NotBrought, PieceNames
  <2>2. ConnectTCPTalk'
    BY <1>1, <1>2, <1>3, <1>5, <2>1 DEF ConnectTCPTalk, Plain, Joined
  <2> QED
    BY <1>1, <1>5, <2>1, <2>2 DEF Talk
<1>6. CASE Reply(<<"CONNECT", "OK">>, [module EXCEPT !.linked = TRUE]) /\ ~module.linked
  <2>1. /\ Arrive(<<"CONNECT", "OK">>) /\ module' \in ModuleType /\ module'.linked
        /\ module'.mode = module.mode /\ module'.garbled = module.garbled
        /\ module'.station = module.station /\ module'.joined = module.joined
    BY <1>1, <1>6 DEF Reply, ModuleType
  <2>2. ~Contains(buffer, "OK") /\ ~Contains(input, "OK")
    BY <1>2, <1>6
  <2>3. InputType' /\ AtMostOnce(input', "OK")
    BY <2>1, <2>2, NewInput, BroughtLast, PieceNames
  <2>4. Plain' /\ Joined'
    BY <1>2, <2>1 DEF Plain, Joined
  <2>5. ConnectTCPTalk'
    BY <1>1, <1>3, <2>1, <2>2, <2>3, <2>4 DEF ConnectTCPTalk
  <2> QED
    BY <1>1, <2>1, <2>3, <2>5 DEF Talk
<1>7. "ERROR" \in Pieces \ {"OK"} /\ "CLOSED" \in Pieces \ {"OK"}
  BY PieceNames
<1>8. CASE Reply(<<"ERROR">>, module)
  <2>1. Arrive(<<"ERROR">>) /\ module' = module
    BY <1>8 DEF Reply
  <2> QED
    BY <1>5, <1>7, <2>1
<1>9. CASE Reply(<<"ERROR", "CLOSED">>, module)
  <2>1. Arrive(<<"ERROR", "CLOSED">>) /\ module' = module
    BY <1>9 DEF Reply
  <2> QED
    BY <1>5, <1>7, <2>1
<1> QED
  BY <1>4, <1>6, <1>8, <1>9 DEF Link

\* The attempts that are still on their way are refused; the answer OK is the
\* one to the last command.
LEMMA ModuleInPassthrough ==
  ASSUME Types, Talk, state = "Passthrough", ModuleStep
  PROVE  InputType' /\ module' \in ModuleType /\ Talk'
<1>1. /\ UNCHANGED <<state, timer, count, buffer>> /\ PassthroughTalk
      /\ InputType /\ module \in ModuleType /\ commands \in Seq(Commands)
      /\ commands # <<>> /\ commands' = Tail(commands)
      /\ module.mode = "command" => Obey(Head(commands)) \/ Ignored(Head(commands))
  BY ModuleFrame DEF Talk, Types, MachineTypes
<1>2. /\ Plain /\ Joined /\ module.linked /\ ~Contains(buffer, "OK") /\ ~Contains(input, "OK")
  BY <1>1 DEF PassthroughTalk
<1> DEFINE rest == Tail(commands)
<1>3. /\ Head(commands) = commands[1] /\ Len(commands) \in Nat /\ Len(commands) > 0
      /\ rest \in Seq(Commands) /\ Len(rest) = Len(commands) - 1
      /\ \A i \in 1 .. Len(rest) : rest[i] = commands[i + 1]
  BY <1>1, HeadAndTail
<1> HIDE DEF rest
<1>4. 1 \in 1 .. Len(commands) /\ \A i \in 1 .. Len(rest) : i + 1 \in 1 .. Len(commands)
  BY <1>3
<1>5. \A i \in 1 .. Len(rest) - 1 : i + 1 \in 1 .. Len(commands) - 1 /\ i \in 1 .. Len(rest)
  BY <1>3
<1>6. /\ Head(commands) \in {"CIPSTART", "CIPMODE=1"}
      /\ \A i \in 1 .. Len(rest) : rest[i] \in {"CIPSTART", "CIPMODE=1"}
      /\ OnlyLast(rest, "CIPMODE=1")
  BY <1>1, <1>3, <1>4, <1>5 DEF PassthroughTalk, OnlyLast
<1>7. CASE Head(commands) = "CIPSTART"
  <2>1. Link
    BY <1>1, <1>2, <1>7, ObeyPlain DEF Plain, Ignored
  <2>2. Arrive(<<"ERROR">>) /\ module' = module
    BY <1>2, <2>1 DEF Link, Reply
  <2>3. InputType' /\ ~Contains(input', "OK")
    BY <1>2, <2>2, NewInput, NotBrought, PieceNames
  <2>4. PassthroughTalk'
    BY <1>1, <1>2, <1>6, <2>2, <2>3, NoneIsLast
       DEF PassthroughTalk, Plain, Joined, InputType, rest
  <2> QED
    BY <1>1, <2>2, <2>3, <2>4 DEF Talk
<1>8. CASE Head(commands) = "CIPMODE=1"
  <2>1. Reply(<<"OK">>, [module EXCEPT !.transparent = TRUE])
    BY <1>1, <1>2, <1>8, ObeyPlain DEF Plain, Ignored
  <2>2. /\ Arrive(<<"OK">>) /\ module' \in ModuleType /\ module'.transparent
        /\ module'.mode = module.mode /\ module'.garbled = module.garbled
        /\ module'.station = module.station /\ module'.joined = module.joined
        /\ module'.linked = module.linked
    BY <1>1, <2>1 DEF Reply, ModuleType
  <2>3. rest = <<>>
    <3>1. ~(1 \in 1 .. Len(commands) - 1)
      BY <1>1, <1>3, <1>8 DEF PassthroughTalk, OnlyLast
    <3>2. Len(rest) = 0
      BY <1>3, <3>1
    <3> QED
      BY <1>3, <3>2, EmptySeq
  <2>4. InputType' /\ OnlyLast(input', "OK")
    BY <1>2, <2>2, NewInput, BroughtLast, PieceNames
  <2>5. Plain' /\ Joined' /\ module'.linked
    BY <1>2, <2>2 DEF Plain, Joined
  <2>6. PassthroughTalk'
    BY <1>1, <1>2, <1>6, <2>2, <2>3, <2>4, <2>5 DEF PassthroughTalk, rest
  <2> QED
    BY <1>1, <2>2, <2>4, <2>6 DEF Talk
<1> QED
  BY <1>6, <1>7, <1>8

LEMMA ModuleInPassthroughOK ==
  ASSUME Types, Talk, state = "PassthroughOK", ModuleStep
  PROVE  InputType' /\ module' \in ModuleType /\ Talk'
<1>1. /\ UNCHANGED <<state, timer, count, buffer>> /\ PassthroughOKTalk
      /\ InputType /\ module \in ModuleType /\ module.mode \in {"command", "data"}
      /\ commands # <<>> /\ commands' = Tail(commands)
      /\ module.mode = "command" => Obey(Head(commands)) \/ Ignored(Head(commands))
  BY ModuleFrame DEF Talk
<1>2. /\ module.mode = "command" /\ Head(commands) = "CIPSEND" /\ commands' = <<>> /\ input = <<>>
      /\ ~module.garbled /\ Joined /\ module.linked /\ module.transparent /\ buffer = <<>>
  BY <1>1, One DEF PassthroughOKTalk
<1>3. Reply(<<"OK", ">">>, [module EXCEPT !.mode = "data"])
  BY <1>1, <1>2, ObeyPlain DEF Ignored
<1>4. /\ Arrive(<<"OK", ">">>) /\ module' \in ModuleType /\ module'.mode = "data"
      /\ module'.garbled = module.garbled
      /\ module'.station = module.station /\ module'.joined = module.joined
      /\ module'.linked = module.linked /\ module'.transparent = module.transparent
  BY <1>1, <1>3 DEF Reply, ModuleType
<1>5. InputType' /\ OnlyLast(input', ">")
  <2>1. ~Contains(input, ">")
    BY <1>2, EmptyText
  <2> QED
    BY <1>4, <2>1, NewInput, BroughtLast, PieceNames
<1>6. \A i, j \in 1 .. Len(input') : input'[i] = ">" /\ i < j => input'[j] = "data"
  <2> DEFINE after == input'
  <2>1. Len(after) \in Nat /\ \A i \in 1 .. Len(after) - 1 : after[i] # ">"
    BY <1>5 DEF OnlyLast, InputType
  <2> HIDE DEF after
  <2>2. ASSUME NEW i \in 1 .. Len(after), NEW j \in 1 .. Len(after), i < j PROVE after[i] # ">"
    <3>1. i \in 1 .. Len(after) - 1
      BY <2>1, <2>2
    <3> QED
      BY <2>1, <3>1
  <2> QED
    BY <2>2 DEF after
<1>7. ~module'.garbled /\ Joined' /\ module'.linked /\ module'.transparent
  BY <1>2, <1>4 DEF Joined
<1>8. PassthroughOKTalk'
  BY <1>1, <1>2, <1>4, <1>6, <1>7 DEF PassthroughOKTalk
<1> QED
  BY <1>1, <1>4, <1>5, <1>8 DEF Talk

LEMMA ModuleInConnected ==
  ASSUME Types, Talk, state = "Connected", ModuleStep
  PROVE  InputType' /\ module' \in ModuleType /\ Talk'
<1>1. /\ UNCHANGED <<state, timer, count, buffer>> /\ ConnectedTalk
      /\ InputType /\ module \in ModuleType /\ commands \in Seq(Commands)
      /\ commands # <<>> /\ commands' = Tail(commands)
      /\ module.mode = "data" => Forward(Head(commands))
  BY ModuleFrame DEF Talk, Types, MachineTypes
<1>2. module.mode = "data" /\ Head(commands) = "data" /\ Only(commands', "data")
  BY <1>1, TailOnly DEF ConnectedTalk
<1>3. module' = module /\ input' = input
  BY <1>1, <1>2 DEF Forward
<1>4. ConnectedTalk'
  BY <1>1, <1>2, <1>3 DEF ConnectedTalk, Joined
<1> QED
  BY <1>1, <1>3, <1>4 DEF Talk, InputType

\* The escape sequence comes alone, and takes the module to the command mode.
LEMMA ModuleInCommandMode ==
  ASSUME Types, Talk, state = "CommandMode", ModuleStep
  PROVE  InputType' /\ module' \in ModuleType /\ Talk'
<1>1. /\ UNCHANGED <<state, timer, count, buffer>> /\ CommandModeTalk
      /\ InputType /\ module \in ModuleType /\ commands \in Seq(Commands)
      /\ module.mode \in {"command", "data"}
      /\ commands # <<>> /\ commands' = Tail(commands)
      /\ module.mode = "data" => Forward(Head(commands))
  BY ModuleFrame DEF Talk, Types, MachineTypes
<1>2. timer \in Nat /\ GuardTicks \in Nat
  BY EspAssumption DEF Types, MachineTypes
<1>3. CASE timer < GuardTicks
  <2>1. module.mode = "data" /\ Head(commands) = "data" /\ Only(commands', "data")
    BY <1>1, <1>3, TailOnly DEF CommandModeTalk
  <2>2. module' = module /\ input' = input
    BY <1>1, <2>1 DEF Forward
  <2>3. ~(timer >= GuardTicks)
    BY <1>2, <1>3
  <2>4. CommandModeTalk'
    BY <1>1, <2>1, <2>2, <2>3 DEF CommandModeTalk, Joined
  <2> QED
    BY <1>1, <2>2, <2>4 DEF Talk, InputType
<1>4. CASE ~(timer < GuardTicks)
  <2>1. timer >= GuardTicks
    BY <1>2, <1>4
  <2>2. module.mode = "data" /\ commands = <<"+++">>
    BY <1>1, <2>1 DEF CommandModeTalk
  <2>3. Head(commands) = "+++" /\ Len(commands) = 1 /\ commands' = <<>>
    BY <1>1, <2>2, One
  <2>4. module' = [module EXCEPT !.mode = "command"] /\ input' = input
    BY <1>1, <2>2, <2>3 DEF Forward
  <2>5. /\ module' \in ModuleType /\ module'.mode = "command"
        /\ module'.garbled = module.garbled
        /\ module'.station = module.station /\ module'.joined = module.joined
    BY <1>1, <2>4 DEF ModuleType
  <2>6. ~module'.garbled /\ Joined' /\ buffer' = <<>> /\ Only(input', "data")
    BY <1>1, <2>4, <2>5 DEF CommandModeTalk, Joined
  <2>7. CommandModeTalk'
    BY <1>1, <1>4, <2>3, <2>5, <2>6 DEF CommandModeTalk
  <2> QED
    BY <1>1, <2>4, <2>5, <2>7 DEF Talk, InputType
<1> QED
  BY <1>3, <1>4

LEMMA ModuleInCloseTCP ==
  ASSUME Types, Talk, state = "CloseTCP", ModuleStep
  PROVE  InputType' /\ module' \in ModuleType /\ Talk'
<1>1. /\ UNCHANGED <<state, timer, count, buffer>> /\ CloseTCPTalk
      /\ InputType /\ module \in ModuleType
      /\ commands # <<>> /\ commands' = Tail(commands)
      /\ module.mode = "command" => Obey(Head(commands)) \/ Ignored(Head(commands))
  BY ModuleFrame DEF Talk
<1>2. /\ Plain /\ Joined /\ commands \in {<<"CIPMODE=0">>, <<"CIPCLOSE">>}
      /\ ~Contains(buffer, "OK") /\ ~Contains(input, "OK")
  BY <1>1 DEF CloseTCPTalk
<1>3. commands' = <<>> /\ Head(commands) \in {"CIPMODE=0", "CIPCLOSE"}
  BY <1>1, <1>2, One
<1>4. Obey(Head(commands)) /\ ~module.garbled
  BY <1>1, <1>2, <1>3 DEF Plain, Ignored
<1>5. ASSUME InputType', OnlyLast(input', "OK"), module' \in ModuleType,
             module'.mode = module.mode, module'.garbled = module.garbled,
             module'.station = module.station, module'.joined = module.joined
      PROVE  InputType' /\ module' \in ModuleType /\ Talk'
  <2>1. Plain' /\ Joined'
    BY <1>2, <1>5 DEF Plain, Joined
  <2>2. CloseTCPTalk'
    BY <1>1, <1>2, <1>3, <1>5, <2>1 DEF CloseTCPTalk
  <2> QED
    BY <1>1, <1>5, <2>2 DEF Talk
<1>6. CASE Head(commands) = "CIPMODE=0"
  <2>1. Reply(<<"OK">>, [module EXCEPT !.transparent = FALSE])
    BY <1>4, <1>6, ObeyPlain
  <2>2. /\ Arrive(<<"OK">>) /\ module' \in ModuleType
        /\ module'.mode = module.mode /\ module'.garbled = module.garbled
        /\ module'.station = module.station /\ module'.joined = module.joined
    BY <1>1, <2>1 DEF Reply, ModuleType
  <2>3. InputType' /\ OnlyLast(input', "OK")
    BY <1>2, <2>2, NewInput, BroughtLast, PieceNames
  <2> QED
    BY <1>5, <2>2, <2>3
<1>7. CASE Head(commands) = "CIPCLOSE" /\ module.linked
  <2>1. Reply(<<"CLOSED", "OK">>, [module EXCEPT !.linked = FALSE])
    BY <1>4, <1>7, ObeyPlain
  <2>2. /\ Arrive(<<"CLOSED", "OK">>) /\ module' \in ModuleType
        /\ module'.mode = module.mode /\ module'.garbled = module.garbled
        /\ module'.station = module.station /\ module'.joined = module.joined
    BY <1>1, <2>1 DEF Reply, ModuleType
  <2>3. InputType' /\ OnlyLast(input', "OK")
    BY <1>2, <2>2, NewInput, BroughtLast, PieceNames
  <2> QED
    BY <1>5, <2>2, <2>3
<1>8. CASE Head(commands) = "CIPCLOSE" /\ ~module.linked
  <2>1. Reply(<<"ERROR">>, module)
    BY <1>4, <1>8, ObeyPlain
  <2>2. Arrive(<<"ERROR">>) /\ module' = module
    BY <2>1 DEF Reply
  <2>3. InputType' /\ ~Contains(input', "OK")
    BY <1>2, <2>2, NewInput, NotBrought, PieceNames
  <2>4. OnlyLast(input', "OK")
    BY <2>3, NoneIsLast DEF InputType
  <2> QED
    BY <1>1, <1>5, <2>2, <2>3, <2>4
<1> QED
  BY <1>3, <1>6, <1>7, <1>8

\* When the module listens a tick can be pending only where it is ignored.
LEMMA ModuleStepStep ==
  ASSUME Inv, ModuleStep
  PROVE  Inv'
<1>1. /\ Types /\ EventOrder /\ TickPending /\ Talk /\ state \in States
      /\ UNCHANGED <<caller, running, events, state, timer, count, buffer>>
      /\ commands # <<>> /\ commands' \in Seq(Commands)
  BY ModuleFrame DEF Inv, Types, MachineTypes
<1>2. state # "Ready"
  BY <1>1 DEF Talk, ReadyTalk
<1>3. InputType' /\ module' \in ModuleType /\ Talk'
  BY <1>1, <1>2, ModuleInInit, ModuleInAT, ModuleInEchoOff, ModuleInStationModeCheck,
     ModuleInStationModeSet, ModuleInConnectAP, ModuleInConnectTCP, ModuleInPassthrough,
     ModuleInPassthroughOK, ModuleInConnected, ModuleInCommandMode, ModuleInCloseTCP DEF States
<1>4. CallTypes' /\ EventOrder'
  BY <1>1 DEF Types, CallTypes, EventOrder
<1>5. MachineTypes'
  BY <1>1, <1>3 DEF Types, MachineTypes, InputType
<1>6. TickPending'
  BY <1>1 DEF TickPending
<1> QED
  BY <1>3, <1>4, <1>5, <1>6 DEF Inv, Types

\* Data comes only in the states in which the module may be in the data mode.
LEMMA DataStep ==
  ASSUME Inv, Data
  PROVE  Inv'
<1>1. /\ Types /\ EventOrder /\ TickPending /\ Talk /\ state \in States
      /\ UNCHANGED <<caller, running, events, state, timer, count, buffer, commands, module>>
      /\ module.mode = "data" /\ Arrive(<<"data">>)
  BY DEF Inv, Types, MachineTypes, Data, machine
<1> DEFINE after == input'
<1>2. /\ after \in Seq(Pieces) /\ Len(after) <= InputSize
      /\ Len(after) \in Nat /\ Len(input) \in Nat /\ Len(after) <= Len(input) + 1
      /\ \A i \in 1 .. Len(after) :
           \/ i \in 1 .. Len(input) /\ after[i] = input[i]
           \/ i = Len(input) + 1 /\ after[i] = "data"
  BY <1>1, ArrivedOneMore, PieceNames
<1> HIDE DEF after
<1>3. \A p : p # "data" => (Contains(after, p) => Contains(input, p))
  BY <1>2 DEF Contains
<1>4. Only(input, "data") => Only(after, "data")
  BY <1>2 DEF Only
<1>5. state \in {"Init", "AT", "PassthroughOK", "Connected", "CommandMode"}
  BY <1>1 DEF Talk, EchoOffTalk, StationModeCheckTalk, StationModeSetTalk, ConnectAPTalk,
     ReadyTalk, ConnectTCPTalk, PassthroughTalk, CloseTCPTalk, Plain, States
<1>6. state = "Init" => ~Contains(after, "OK")
  BY <1>1, <1>3 DEF Talk, InitTalk, Plain
<1>7. Talk'
  <2>1. state = "Init" => InitTalk'
    BY <1>1, <1>6 DEF Talk, InitTalk, after
  <2>2. state = "AT" => ATTalk'
    BY <1>1 DEF Talk, ATTalk
  <2>3. state = "PassthroughOK" => PassthroughOKTalk'
    <3> SUFFICES ASSUME state = "PassthroughOK" PROVE PassthroughOKTalk'
      OBVIOUS
    <3>1. PassthroughOKTalk
      BY <1>1 DEF Talk
    <3>2. ASSUME NEW i \in 1 .. Len(after), NEW j \in 1 .. Len(after), after[i] = ">", i < j
          PROVE  after[j] = "data"
      <4>1. i \in 1 .. Len(input) /\ input[i] = ">"
        BY <1>2, <3>2
      <4>2. CASE j \in 1 .. Len(input) /\ after[j] = input[j]
        BY <3>1, <3>2, <4>1, <4>2 DEF PassthroughOKTalk
      <4> QED
        BY <1>2, <4>2
    <3> QED
      BY <1>1, <3>1, <3>2 DEF PassthroughOKTalk, Joined, after
  <2>4. state = "Connected" => ConnectedTalk'
    BY <1>1, <1>4 DEF Talk, ConnectedTalk, Joined, after
  <2>5. state = "CommandMode" => CommandModeTalk'
    BY <1>1, <1>4 DEF Talk, CommandModeTalk, Joined, after
  <2> QED
    BY <1>1, <1>5, <2>1, <2>2, <2>3, <2>4, <2>5 DEF Talk
<1>8. CallTypes' /\ EventOrder' /\ module' \in ModuleType
  BY <1>1 DEF Types, CallTypes, EventOrder
<1>9. MachineTypes'
  BY <1>1, <1>2 DEF Types, MachineTypes, after
<1>10. TickPending'
  BY <1>1, <1>5, <1>6 DEF TickPending, after
<1> QED
  BY <1>7, <1>8, <1>9, <1>10 DEF Inv, Types

-----------------------------------------------------------------------------
(* Theorems *)

LEMMA StutterStep ==
  ASSUME Inv, UNCHANGED vars
  PROVE  Inv'
<1>1. /\ Types /\ EventOrder /\ TickPending /\ Talk
      /\ UNCHANGED <<caller, running, events, state, timer, count, buffer, input, commands, module>>
  BY DEF Inv, vars, machine
<1>2. CallTypes' /\ EventOrder' /\ TickPending'
  BY <1>1 DEF Types, CallTypes, EventOrder, TickPending
<1> QED
  BY <1>1, <1>2, TalkUnchanged DEF Inv, Types

LEMMA NextStep ==
  ASSUME Inv, [Next]_vars
  PROVE  Inv'
<1>1. CASE Call("connect", "connect") \/ Call("shutdown", "disconnect")
  BY <1>1, CallStep DEF Requests
<1>2. CASE Run
  BY <1>2, BeginRunStep DEF Run
<1> QED
  BY <1>1, <1>2, ReturnStep, DispatchStep, ReadStep, WriteStep, RestartStep, ModuleStepStep,
     DataStep, StutterStep DEF Next

THEOREM SocketInvariant == Spec => []Inv
<1> QED
  BY InitInv, NextStep, PTL DEF Spec

\* The sizes of the buffers are kept and the states are the ones of the driver
\* (esp8266_socket.c), with any module, broker and number of restarts.
THEOREM SocketTypeCorrect == Spec => []TypeOK
<1> QED
  BY SocketInvariant, InvImpliesProperties, PTL

\* A socket that is ready has joined the network: no answer to another command
\* was taken for the one to CWJAP.
THEOREM SocketReadyMeansJoined == Spec => []ReadyMeansJoined
<1> QED
  BY SocketInvariant, InvImpliesProperties, PTL

\* What goes through a connected socket is the broker's data, and nothing else.
THEOREM SocketConnectedMeansTransparent == Spec => []ConnectedMeansTransparent
<1> QED
  BY SocketInvariant, InvImpliesProperties, PTL

\* In the data mode there is nothing on its way but data, the escape sequence,
\* and the AT of a restarted controller.
LEMMA DataModeCommands ==
  ASSUME Inv, module.mode = "data", commands # <<>>, Head(commands) \notin {"data", "+++"}
  PROVE  Head(commands) = "AT" /\ state \in {"Init", "AT"}
<1>1. Types /\ Talk /\ state \in States /\ commands \in Seq(Commands)
  BY DEF Inv, Types, MachineTypes
<1>2. state \in {"Init", "AT", "PassthroughOK", "Connected", "CommandMode"}
  BY <1>1 DEF Talk, EchoOffTalk, StationModeCheckTalk, StationModeSetTalk, ConnectAPTalk,
     ReadyTalk, ConnectTCPTalk, PassthroughTalk, CloseTCPTalk, Plain, States
<1>3. CASE state = "Init"
  BY <1>1, <1>3, One DEF Talk, InitTalk
<1>4. CASE state = "AT"
  BY <1>1, <1>4, One DEF Talk, ATTalk
<1>5. state # "PassthroughOK"
  BY <1>1 DEF Talk, PassthroughOKTalk
<1>6. CASE state = "Connected"
  BY <1>1, <1>6, TailOnly DEF Talk, ConnectedTalk
<1>7. CASE state = "CommandMode"
  <2>1. timer \in Nat /\ GuardTicks \in Nat /\ CommandModeTalk
    BY <1>1, <1>7, EspAssumption DEF Types, MachineTypes, Talk
  <2>2. Only(commands, "data") \/ commands = <<"+++">>
    BY <2>1 DEF CommandModeTalk
  <2> QED
    BY <1>1, <2>2, TailOnly, One
<1> QED
  BY <1>2, <1>3, <1>4, <1>5, <1>6, <1>7

\* The broker gets no commands as data, except that AT: the pauses around the
\* escape sequence and the wait for the prompt are enough.
THEOREM SocketCommandsStayLocal == Spec => CommandsStayLocal
<1> DEFINE Local ==
      module.mode = "data" /\ ModuleStep /\ Head(commands) \notin {"data", "+++"} =>
        Head(commands) = "AT" /\ state \in {"Init", "AT"}
<1>1. Inv => [Local]_vars
  BY DataModeCommands DEF ModuleStep
<1> QED
  BY <1>1, SocketInvariant, PTL DEF CommandsStayLocal
=============================================================================
