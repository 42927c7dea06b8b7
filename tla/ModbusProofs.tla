---------------------------- MODULE ModbusProofs ----------------------------
(***************************************************************************)
(* Proofs about Modbus, for every number of answers the line damages and   *)
(* of requests and parts that may be under way.                            *)
(***************************************************************************)
EXTENDS Modbus, SequenceTheorems, TLAPS

-----------------------------------------------------------------------------
(* Types *)

\* A transaction that has not ended has collected one part at most.
AtMostOne == phase = "wait" => Len(adu) <= 1

Typed == TypeOK /\ AtMostOne

\* What is left after the first of a sequence of parts is taken, and what
\* there is after one is added.
LEMMA PartTaken ==
  ASSUME NEW S, NEW s \in Seq(S), s # <<>>
  PROVE  Head(s) \in S /\ Tail(s) \in Seq(S) /\ Head(s) = s[1]
OBVIOUS

LEMMA PartAdded ==
  ASSUME NEW S, NEW s \in Seq(S), NEW x \in S
  PROVE  Append(s, x) \in Seq(S) /\ Len(Append(s, x)) = Len(s) + 1
OBVIOUS

\* The registers, their values and the functions.
LEMMA RegisterFacts ==
  /\ Registers = {"fan", "co2Status", "co2Data", "hmpStatus", "temperature", "humidity"}
  /\ \A r \in Registers : Values(r) \subseteq {"zero", "nonzero"} \cup Registers
BY DEF Registers, Slave, Values

\* Every value leads to a register.
LEMMA NextStepTyped ==
  ASSUME step \in Registers, NEW value
  PROVE  NextStep(value) \subseteq Registers
BY RegisterFacts DEF NextStep

\* The end of a transaction keeps the types of what it sets.
LEMMA ReturnTyped ==
  ASSUME Typed, NEW value, NEW cause \in Causes, NEW answered \in Registers \cup {"nobody"},
         NEW current \in BOOLEAN, Return(value, cause, answered, current)
  PROVE  /\ step' \in Registers /\ phase' = "pause" /\ requests' = requests
         /\ late' = late /\ damaged' = damaged
         /\ result' = [cause |-> cause, asked |-> step, answered |-> answered, current |-> current]
         /\ result' \in [cause : Causes, asked : Registers,
                         answered : Registers \cup {"nobody"}, current : BOOLEAN]
<1>1. step \in Registers
  BY DEF Typed, TypeOK
<1>2. step' \in NextStep(value)
  BY DEF Return
<1>3. step' \in Registers
  BY <1>1, <1>2, NextStepTyped
<1> QED
  BY <1>1, <1>3 DEF Return

\* A failure is a return without an answer.
LEMMA FailTyped ==
  ASSUME Typed, NEW cause \in Causes, Fail(cause)
  PROVE  /\ step' \in Registers /\ phase' = "pause" /\ requests' = requests
         /\ late' = late /\ damaged' = damaged
         /\ result' = [cause |-> cause, asked |-> step, answered |-> "nobody", current |-> FALSE]
         /\ result' \in [cause : Causes, asked : Registers,
                         answered : Registers \cup {"nobody"}, current : BOOLEAN]
<1>1. Return(Failed, cause, "nobody", FALSE)
  BY DEF Fail
<1> QED
  BY <1>1, ReturnTyped

\* Inspecting the first part: either the transaction fails, or it goes on with
\* a part that is damaged, the second of a frame, or fits.
LEMMA FirstPartCases ==
  ASSUME NEW p, FirstPart(p)
  PROVE  \/ (p.damaged \/ ~Fits(p)) /\ Fail("invalid")
         \/ Fail("exception")
         \/ /\ p.damaged \/ p.part = 2 \/ Fits(p)
            /\ UNCHANGED <<step, phase, requests, result, late, damaged>>
BY DEF FirstPart

\* The types hold in the first state.
LEMMA InitTyped ==
  ASSUME Init
  PROVE  Typed
<1>1. /\ adu \in Seq(Parts) /\ Len(adu) <= 1 /\ Len(adu) <= 2
      /\ rx \in Seq(Parts) /\ line \in Seq(Parts)
  BY EmptySeq DEF Init
<1>2. {} \subseteq [register : Registers, fresh : BOOLEAN]
  OBVIOUS
<1>3. 0 \in 0 .. MaxDamaged
  BY ModbusAssumption
<1>4. step \in Registers /\ result \in [cause : Causes, asked : Registers,
        answered : Registers \cup {"nobody"}, current : BOOLEAN]
  BY RegisterFacts DEF Init, Causes
<1> QED
  BY <1>1, <1>2, <1>3, <1>4 DEF Init, Typed, TypeOK, AtMostOne

\* A part that grows old keeps its type.
LEMMA OldPart ==
  ASSUME NEW p \in Parts
  PROVE  Old(p) \in Parts
BY DEF Old, Parts

LEMMA RequestTyped ==
  ASSUME Typed, Request
  PROVE  Typed'
<1>1. line' \in Seq(Parts)
  <2>1. Len(line) \in Nat /\ \A i \in 1 .. Len(line) : line[i] \in Parts
    BY DEF Typed, TypeOK
  <2>2. \A i \in 1 .. Len(line) : Old(line[i]) \in Parts
    BY <2>1, OldPart
  <2>3. line' = [i \in 1 .. Len(line) |-> Old(line[i])]
    BY DEF Request
  <2> QED
    BY <2>1, <2>2, <2>3
<1>2. rx' = <<>> /\ adu' = <<>> /\ rx' \in Seq(Parts) /\ adu' \in Seq(Parts) /\ Len(adu') = 0
  BY DEF Request, Flushed, Emptied
<1>3. requests' \subseteq [register : Registers, fresh : BOOLEAN]
  <2>1. \A r \in requests : Old(r) \in [register : Registers, fresh : BOOLEAN]
    BY DEF Typed, TypeOK, Old
  <2>2. [register |-> step, fresh |-> TRUE] \in [register : Registers, fresh : BOOLEAN]
    BY DEF Typed, TypeOK
  <2>3. requests' \subseteq {Old(r) : r \in requests} \cup {[register |-> step, fresh |-> TRUE]}
    BY DEF Request
  <2> QED
    BY <2>1, <2>2, <2>3
<1>4. late' \in BOOLEAN
  BY DEF Request, Underway
<1>5. phase' = "wait" /\ step' = step /\ result' = result /\ damaged' = damaged
  BY DEF Request
<1> QED
  BY <1>1, <1>2, <1>3, <1>4, <1>5 DEF Typed, TypeOK, AtMostOne

\* What inspecting a part leaves of the variables that are not sequences.
LEMMA ReceiveControl ==
  ASSUME Typed, Receive
  PROVE  /\ step' \in Registers /\ requests' = requests /\ late' = late /\ damaged' = damaged
         /\ result' \in [cause : Causes, asked : Registers,
                         answered : Registers \cup {"nobody"}, current : BOOLEAN]
         /\ phase' = "pause" \/ (adu = <<>> /\ phase' = "wait")
<1>1. Head(rx) \in Parts
  BY PartTaken DEF Receive, Typed, TypeOK
<1>2. CASE adu = <<>>
  <2>1. FirstPart(Head(rx))
    BY <1>2 DEF Receive
  <2>2. CASE Fail("invalid")
    BY <2>2, FailTyped DEF Causes
  <2>3. CASE Fail("exception")
    BY <2>3, FailTyped DEF Causes
  <2>4. CASE UNCHANGED <<step, phase, requests, result, late, damaged>>
    BY <1>2, <2>4 DEF Receive, Typed, TypeOK
  <2> QED
    BY <2>1, <2>2, <2>3, <2>4, FirstPartCases
<1>3. CASE adu # <<>>
  <2>1. SecondPart(Head(adu), Head(rx))
    BY <1>3 DEF Receive
  <2>2. Head(adu) \in Parts
    BY <1>3, PartTaken DEF Typed, TypeOK
  <2>3. CASE ChecksumOK(Head(adu), Head(rx))
    <3>1. Return(Head(adu).value, "none", Head(adu).register, Head(adu).fresh)
      BY <2>1, <2>3 DEF SecondPart
    <3>2. Head(adu).register \in Registers /\ Head(adu).fresh \in BOOLEAN
      BY <2>2 DEF Parts
    <3> QED
      BY <3>1, <3>2, ReturnTyped DEF Causes
  <2>4. CASE ~ChecksumOK(Head(adu), Head(rx))
    <3>1. Fail("checksum")
      BY <2>1, <2>4 DEF SecondPart
    <3> QED
      BY <3>1, FailTyped DEF Causes
  <2> QED
    BY <2>3, <2>4
<1> QED
  BY <1>2, <1>3

LEMMA ReceiveTyped ==
  ASSUME Typed, Receive
  PROVE  Typed'
<1>1. Head(rx) \in Parts /\ Tail(rx) \in Seq(Parts)
  BY PartTaken DEF Receive, Typed, TypeOK
<1>2. adu \in Seq(Parts) /\ Len(adu) <= 1
  BY DEF Receive, Typed, TypeOK, AtMostOne
<1>3. adu' \in Seq(Parts) /\ Len(adu') = Len(adu) + 1
  BY <1>1, <1>2, PartAdded DEF Receive
<1>4. rx' \in Seq(Parts) /\ line' = line
  BY <1>1 DEF Receive
<1>5. phase' = "wait" => Len(adu') <= 1
  BY <1>3, ReceiveControl
<1>6. Len(adu) \in Nat
  BY <1>2
<1> QED
  BY <1>2, <1>3, <1>4, <1>5, <1>6, ReceiveControl DEF Typed, TypeOK, AtMostOne

LEMMA TimeOutTyped ==
  ASSUME Typed, TimeOut
  PROVE  Typed'
<1>1. Fail("timeout") /\ "timeout" \in Causes /\ UNCHANGED <<adu, rx, line>>
  BY DEF TimeOut, Causes
<1> QED
  BY <1>1, FailTyped DEF Typed, TypeOK, AtMostOne

\* Every part of an answer to a request has its type.
LEMMA AnswerParts ==
  ASSUME NEW request \in [register : Registers, fresh : BOOLEAN],
         NEW value \in Values(request.register)
  PROVE  Intact(request, value) \cup Damaged(request, value) \subseteq Seq(Parts)
<1>1. value \in {"zero", "nonzero"} \cup Registers
  BY RegisterFacts
<1>2. \A n \in {1, 2}, kind \in {"answer", "exception"}, spoilt \in BOOLEAN :
        Part(request, n, value, kind, spoilt) \in Parts
  BY <1>1 DEF Part, Parts
<1>3. \A x, y \in Parts : <<x>> \in Seq(Parts) /\ <<x, y>> \in Seq(Parts)
  OBVIOUS
<1>4. /\ <<Part(request, 1, value, "answer", FALSE), Part(request, 2, value, "answer", FALSE)>> \in Seq(Parts)
      /\ <<Part(request, 1, value, "exception", FALSE)>> \in Seq(Parts)
  BY <1>2, <1>3
<1>5. /\ <<Part(request, 1, value, "answer", TRUE), Part(request, 2, value, "answer", FALSE)>> \in Seq(Parts)
      /\ <<Part(request, 1, value, "answer", FALSE), Part(request, 2, value, "answer", TRUE)>> \in Seq(Parts)
      /\ <<Part(request, 1, value, "answer", FALSE)>> \in Seq(Parts)
      /\ <<Part(request, 2, value, "answer", FALSE)>> \in Seq(Parts)
  BY <1>2, <1>3
<1> QED
  BY <1>4, <1>5 DEF Intact, Damaged

LEMMA AnswerTyped ==
  ASSUME Typed, NEW request \in requests, Answer(request)
  PROVE  Typed'
<1>1. request \in [register : Registers, fresh : BOOLEAN]
  BY DEF Typed, TypeOK
<1>2. PICK value \in Values(request.register) :
        \/ \E parts \in Intact(request, value) : line' = line \o parts /\ UNCHANGED damaged
        \/ /\ damaged < MaxDamaged /\ damaged' = damaged + 1
           /\ \E parts \in Damaged(request, value) : line' = line \o parts
  BY DEF Answer
<1>3. \E parts \in Intact(request, value) \cup Damaged(request, value) : line' = line \o parts
  BY <1>2
<1>4. line' \in Seq(Parts)
  BY <1>1, <1>3, AnswerParts, ConcatProperties DEF Typed, TypeOK
<1>5. damaged' \in 0 .. MaxDamaged
  BY <1>2, ModbusAssumption DEF Typed, TypeOK
<1>6. /\ requests' \subseteq requests
      /\ UNCHANGED <<step, phase, adu, rx, result, late>>
  BY DEF Answer
<1> QED
  BY <1>4, <1>5, <1>6 DEF Typed, TypeOK, AtMostOne

LEMMA ArriveTyped ==
  ASSUME Typed, Arrive
  PROVE  Typed'
<1>1. Head(line) \in Parts /\ Tail(line) \in Seq(Parts)
  BY PartTaken DEF Arrive, Typed, TypeOK
<1>2. Append(rx, Head(line)) \in Seq(Parts)
  BY <1>1, PartAdded DEF Typed, TypeOK
<1> QED
  BY <1>1, <1>2 DEF Arrive, Typed, TypeOK, AtMostOne

LEMMA NextTyped ==
  ASSUME Typed, [Next]_vars
  PROVE  Typed'
<1>1. CASE Request
  BY <1>1, RequestTyped
<1>2. CASE Receive
  BY <1>2, ReceiveTyped
<1>3. CASE TimeOut
  BY <1>3, TimeOutTyped
<1>4. CASE Arrive
  BY <1>4, ArriveTyped
<1>5. CASE \E request \in requests : Answer(request)
  BY <1>5, AnswerTyped
<1>6. CASE UNCHANGED vars
  BY <1>6 DEF vars, Typed, TypeOK, AtMostOne
<1> QED
  BY <1>1, <1>2, <1>3, <1>4, <1>5, <1>6 DEF Next, Master

\* The types hold in every reachable state; in particular the frame buffer
\* never holds more than the two parts of a frame.
THEOREM TypeCorrect == Spec => []TypeOK
<1>1. Init => Typed
  BY InitTyped
<1>2. Typed /\ [Next]_vars => Typed'
  BY NextTyped
<1>3. Typed => TypeOK
  BY DEF Typed
<1> QED
  BY <1>1, <1>2, <1>3, PTL DEF Spec

-----------------------------------------------------------------------------
(* Answers fit *)

\* A part kept from an undamaged answer, if it is the first one, is of the slave
\* and the function of the transaction that waits.
KeptFits ==
  phase = "wait" /\ adu # <<>> =>
    LET p == Head(adu) IN p.damaged \/ p.part = 2 \/ Fits(p)

FitsInv == Typed /\ KeptFits /\ AnswersFit

\* An accepted first part is the one kept, and it fits.
LEMMA FitsReceive ==
  ASSUME FitsInv, Receive
  PROVE  KeptFits' /\ AnswersFit'
<1> USE DEF FitsInv
<1>1. CASE adu = <<>>
  <2>1. FirstPart(Head(rx)) /\ adu' = Append(adu, Head(rx))
    BY <1>1 DEF Receive
  <2>2. adu' # <<>> /\ Head(adu') = Head(rx)
    BY <1>1, <2>1
  <2>3. CASE Fail("invalid")
    BY <2>3, FailTyped DEF Causes, KeptFits, AnswersFit, Successful
  <2>4. CASE Fail("exception")
    BY <2>4, FailTyped DEF Causes, KeptFits, AnswersFit, Successful
  <2>5. CASE /\ Head(rx).damaged \/ Head(rx).part = 2 \/ Fits(Head(rx))
             /\ UNCHANGED <<step, phase, requests, result, late, damaged>>
    <3>1. phase' = "wait" /\ step' = step
      BY <2>5 DEF Receive
    <3> QED
      BY <2>2, <2>5, <3>1 DEF KeptFits, AnswersFit, Successful, Fits
  <2> QED
    BY <2>1, <2>3, <2>4, <2>5, FirstPartCases
<1>2. CASE adu # <<>>
  <2>1. SecondPart(Head(adu), Head(rx)) /\ phase = "wait"
    BY <1>2 DEF Receive
  <2>2. Head(adu) \in Parts
    BY <1>2, PartTaken DEF Typed, TypeOK
  <2>3. CASE ChecksumOK(Head(adu), Head(rx))
    <3>1. Return(Head(adu).value, "none", Head(adu).register, Head(adu).fresh)
      BY <2>1, <2>3 DEF SecondPart
    <3>2. Head(adu).register \in Registers /\ Head(adu).fresh \in BOOLEAN
      BY <2>2 DEF Parts
    <3>3. Fits(Head(adu))
      BY <1>2, <2>1, <2>3 DEF KeptFits, ChecksumOK
    <3>4. phase' = "pause" /\ result'.asked = step /\ result'.answered = Head(adu).register
      BY <3>1, <3>2, ReturnTyped DEF Causes
    <3> QED
      BY <3>3, <3>4 DEF KeptFits, AnswersFit, Fits
  <2>4. CASE ~ChecksumOK(Head(adu), Head(rx))
    <3>1. Fail("checksum")
      BY <2>1, <2>4 DEF SecondPart
    <3> QED
      BY <3>1, FailTyped DEF Causes, KeptFits, AnswersFit, Successful
  <2> QED
    BY <2>3, <2>4
<1> QED
  BY <1>1, <1>2

LEMMA FitsNext ==
  ASSUME FitsInv, [Next]_vars
  PROVE  FitsInv'
<1>1. Typed'
  BY NextTyped DEF FitsInv
<1>2. CASE Request
  BY <1>1, <1>2 DEF Request, Emptied, FitsInv, KeptFits, AnswersFit, Successful
<1>3. CASE Receive
  BY <1>1, <1>3, FitsReceive DEF FitsInv
<1>4. CASE TimeOut
  BY <1>1, <1>4, FailTyped DEF TimeOut, Causes, FitsInv, KeptFits, AnswersFit, Successful
<1>5. CASE Arrive
  BY <1>1, <1>5 DEF Arrive, FitsInv, KeptFits, AnswersFit, Successful, Fits
<1>6. CASE \E request \in requests : Answer(request)
  BY <1>1, <1>6 DEF Answer, FitsInv, KeptFits, AnswersFit, Successful, Fits
<1>7. CASE UNCHANGED vars
  BY <1>1, <1>7 DEF vars, FitsInv, KeptFits, AnswersFit, Successful, Fits
<1> QED
  BY <1>2, <1>3, <1>4, <1>5, <1>6, <1>7 DEF Next, Master

\* However late, spoilt or cut off the answers are, a value that is accepted was
\* sent by the slave that was asked, for the same function.
THEOREM AnswersAlwaysFit == Spec => []AnswersFit
<1>1. Init => FitsInv
  <2> SUFFICES ASSUME Init PROVE FitsInv
    OBVIOUS
  <2>1. phase = "pause" /\ result.answered = "nobody"
    BY DEF Init
  <2> QED
    BY <2>1, InitTyped DEF FitsInv, KeptFits, AnswersFit, Successful
<1>2. FitsInv /\ [Next]_vars => FitsInv'
  BY FitsNext
<1>3. FitsInv => AnswersFit
  BY DEF FitsInv
<1> QED
  BY <1>1, <1>2, <1>3, PTL DEF Spec

-----------------------------------------------------------------------------
(* Values are current *)

\* Of this transaction: sent for the register asked for, after it was asked.
Own(x) == x.fresh /\ x.register = step

AllOwn(s) == \A i \in 1 .. Len(s) : Own(s[i])

\* When nothing was under way at the request, everything in the system is of it.
OwnOnly ==
  phase = "wait" /\ ~late =>
    /\ \A r \in requests : Own(r)
    /\ AllOwn(line) /\ AllOwn(rx) /\ AllOwn(adu)

CurrentInv == Typed /\ OwnOnly /\ ReadsAreCurrent

\* Taking from a sequence, adding to it and joining two keep that all is own.
LEMMA OwnTaken ==
  ASSUME NEW s \in Seq(Parts), s # <<>>, AllOwn(s)
  PROVE  Own(Head(s)) /\ AllOwn(Tail(s))
<1>1. Own(s[1]) /\ Head(s) = s[1]
  BY DEF AllOwn
<1>2. \A i \in 1 .. Len(Tail(s)) : Tail(s)[i] = s[i + 1] /\ i + 1 \in 1 .. Len(s)
  OBVIOUS
<1> QED
  BY <1>1, <1>2 DEF AllOwn

LEMMA OwnAdded ==
  ASSUME NEW s \in Seq(Parts), NEW x \in Parts, AllOwn(s), Own(x)
  PROVE  AllOwn(Append(s, x))
<1>1. \A i \in 1 .. Len(Append(s, x)) :
        (i \in 1 .. Len(s) /\ Append(s, x)[i] = s[i]) \/ Append(s, x)[i] = x
  OBVIOUS
<1> QED
  BY <1>1 DEF AllOwn

LEMMA OwnJoined ==
  ASSUME NEW s \in Seq(Parts), NEW t \in Seq(Parts), AllOwn(s), AllOwn(t)
  PROVE  AllOwn(s \o t)
<1>1. \A i \in 1 .. Len(s \o t) :
        \/ i \in 1 .. Len(s) /\ (s \o t)[i] = s[i]
        \/ i - Len(s) \in 1 .. Len(t) /\ (s \o t)[i] = t[i - Len(s)]
  OBVIOUS
<1> QED
  BY <1>1 DEF AllOwn

\* The parts of an answer carry the register and the age of the request.
LEMMA OwnAnswer ==
  ASSUME NEW request \in [register : Registers, fresh : BOOLEAN], Own(request),
         NEW value \in Values(request.register),
         NEW parts \in Intact(request, value) \cup Damaged(request, value)
  PROVE  AllOwn(parts)
<1>1. \A n, kind, spoilt : Own(Part(request, n, value, kind, spoilt))
  BY DEF Part, Own
<1>2. \A x, y : Own(x) /\ Own(y) => AllOwn(<<x>>) /\ AllOwn(<<x, y>>)
  BY DEF AllOwn
<1>3. \E n1, n2, k1, k2, s1, s2 :
        \/ parts = <<Part(request, n1, value, k1, s1)>>
        \/ parts = <<Part(request, n1, value, k1, s1), Part(request, n2, value, k2, s2)>>
  BY DEF Intact, Damaged
<1> QED
  BY <1>1, <1>2, <1>3

LEMMA CurrentRequest ==
  ASSUME CurrentInv, Request
  PROVE  OwnOnly' /\ ReadsAreCurrent'
<1>1. phase' = "wait" /\ step' = step /\ late' = Underway /\ rx' = <<>> /\ adu' = <<>>
  BY DEF Request, Flushed, Emptied
<1>2. ReadsAreCurrent'
  BY <1>1 DEF ReadsAreCurrent, Successful
<1>3. CASE late'
  BY <1>2, <1>3 DEF OwnOnly
<1>4. CASE ~late'
  <2>1. line = <<>> /\ requests = {}
    BY <1>1, <1>4 DEF Underway
  <2>2. Len(line') = 0
    BY <2>1 DEF Request
  <2>3. requests' \subseteq {[register |-> step, fresh |-> TRUE]}
    BY <2>1 DEF Request
  <2>4. \A r \in requests' : Own(r)'
    BY <1>1, <2>3 DEF Own
  <2>5. AllOwn(line)' /\ AllOwn(rx)' /\ AllOwn(adu)'
    BY <1>1, <2>2 DEF AllOwn
  <2> QED
    BY <1>2, <2>4, <2>5 DEF OwnOnly
<1> QED
  BY <1>3, <1>4

LEMMA CurrentReceive ==
  ASSUME CurrentInv, Receive
  PROVE  OwnOnly' /\ ReadsAreCurrent'
<1> USE DEF CurrentInv
<1>1. Head(rx) \in Parts /\ Tail(rx) \in Seq(Parts) /\ adu \in Seq(Parts)
  BY PartTaken DEF Receive, Typed, TypeOK
<1>2. phase = "wait" /\ rx' = Tail(rx) /\ line' = line /\ adu' = Append(adu, Head(rx))
  BY DEF Receive
<1>3. CASE late
  BY <1>3, ReceiveControl DEF OwnOnly, ReadsAreCurrent
<1>4. CASE ~late
  <2>1. (\A r \in requests : Own(r)) /\ AllOwn(line) /\ AllOwn(rx) /\ AllOwn(adu)
    BY <1>2, <1>4 DEF OwnOnly
  <2>2. AllOwn(Tail(rx)) /\ AllOwn(Append(adu, Head(rx)))
    BY <1>1, <2>1, OwnTaken, OwnAdded DEF Receive, Typed, TypeOK
  <2>3. CASE adu = <<>>
    <3>1. FirstPart(Head(rx))
      BY <2>3 DEF Receive
    <3>2. CASE Fail("invalid")
      BY <3>2, FailTyped DEF Causes, OwnOnly, ReadsAreCurrent, Successful
    <3>3. CASE Fail("exception")
      BY <3>3, FailTyped DEF Causes, OwnOnly, ReadsAreCurrent, Successful
    <3>4. CASE UNCHANGED <<step, phase, requests, result, late, damaged>>
      <4>1. ReadsAreCurrent'
        BY <1>2, <3>4 DEF ReadsAreCurrent, Successful
      <4>2. AllOwn(line)' /\ AllOwn(rx)' /\ AllOwn(adu)' /\ \A r \in requests' : Own(r)'
        BY <1>2, <2>1, <2>2, <3>4 DEF AllOwn, Own
      <4> QED
        BY <4>1, <4>2 DEF OwnOnly
    <3> QED
      BY <3>1, <3>2, <3>3, <3>4, FirstPartCases
  <2>4. CASE adu # <<>>
    <3>1. SecondPart(Head(adu), Head(rx))
      BY <2>4 DEF Receive
    <3>2. Head(adu) \in Parts /\ Own(Head(adu))
      BY <1>1, <2>1, <2>4, PartTaken, OwnTaken
    <3>3. CASE ChecksumOK(Head(adu), Head(rx))
      <4>1. Return(Head(adu).value, "none", Head(adu).register, Head(adu).fresh)
        BY <3>1, <3>3 DEF SecondPart
      <4>2. Head(adu).register \in Registers /\ Head(adu).fresh \in BOOLEAN
        BY <3>2 DEF Parts
      <4>3. phase' = "pause" /\ result' = [cause |-> "none", asked |-> step,
              answered |-> Head(adu).register, current |-> Head(adu).fresh]
        BY <4>1, <4>2, ReturnTyped DEF Causes
      <4> QED
        BY <3>2, <4>3 DEF OwnOnly, ReadsAreCurrent, Own
    <3>4. CASE ~ChecksumOK(Head(adu), Head(rx))
      <4>1. Fail("checksum")
        BY <3>1, <3>4 DEF SecondPart
      <4> QED
        BY <4>1, FailTyped DEF Causes, OwnOnly, ReadsAreCurrent, Successful
    <3> QED
      BY <3>3, <3>4
  <2> QED
    BY <2>3, <2>4
<1> QED
  BY <1>3, <1>4, <1>1 DEF Typed, TypeOK

LEMMA CurrentAnswer ==
  ASSUME CurrentInv, NEW request \in requests, Answer(request)
  PROVE  OwnOnly' /\ ReadsAreCurrent'
<1> USE DEF CurrentInv
<1>1. requests' \subseteq requests /\ UNCHANGED <<step, phase, adu, rx, result, late>>
  BY DEF Answer
<1>2. ReadsAreCurrent'
  BY <1>1 DEF ReadsAreCurrent, Successful
<1>3. CASE phase = "wait" /\ ~late
  <2>1. request \in [register : Registers, fresh : BOOLEAN] /\ line \in Seq(Parts)
    BY DEF Typed, TypeOK
  <2>2. Own(request) /\ AllOwn(line) /\ AllOwn(rx) /\ AllOwn(adu) /\ \A r \in requests : Own(r)
    BY <1>3 DEF OwnOnly
  <2>3. PICK value \in Values(request.register) :
          \E parts \in Intact(request, value) \cup Damaged(request, value) : line' = line \o parts
    BY DEF Answer
  <2>4. PICK parts \in Intact(request, value) \cup Damaged(request, value) : line' = line \o parts
    BY <2>3
  <2>5. parts \in Seq(Parts) /\ AllOwn(parts)
    BY <2>1, <2>2, AnswerParts, OwnAnswer
  <2>6. AllOwn(line \o parts)
    BY <2>1, <2>2, <2>5, OwnJoined
  <2>7. AllOwn(line)'
    BY <1>1, <2>4, <2>6 DEF AllOwn, Own
  <2>8. AllOwn(rx)' /\ AllOwn(adu)' /\ \A r \in requests' : Own(r)'
    BY <1>1, <2>2 DEF AllOwn, Own
  <2> QED
    BY <1>2, <2>7, <2>8 DEF OwnOnly
<1>4. CASE ~(phase = "wait" /\ ~late)
  BY <1>1, <1>2, <1>4 DEF OwnOnly
<1> QED
  BY <1>3, <1>4

LEMMA CurrentArrive ==
  ASSUME CurrentInv, Arrive
  PROVE  OwnOnly' /\ ReadsAreCurrent'
<1> USE DEF CurrentInv
<1>1. /\ line # <<>> /\ line' = Tail(line) /\ rx' = Append(rx, Head(line))
      /\ UNCHANGED <<step, phase, adu, requests, result, late, damaged>>
  BY DEF Arrive
<1>2. ReadsAreCurrent'
  BY <1>1 DEF ReadsAreCurrent, Successful
<1>3. CASE phase = "wait" /\ ~late
  <2>1. line \in Seq(Parts) /\ rx \in Seq(Parts) /\ Head(line) \in Parts
    BY <1>1, PartTaken DEF Typed, TypeOK
  <2>2. AllOwn(line) /\ AllOwn(rx) /\ AllOwn(adu) /\ \A r \in requests : Own(r)
    BY <1>3 DEF OwnOnly
  <2>3. AllOwn(Tail(line)) /\ AllOwn(Append(rx, Head(line)))
    BY <1>1, <2>1, <2>2, OwnTaken, OwnAdded
  <2>4. AllOwn(line)' /\ AllOwn(rx)' /\ AllOwn(adu)' /\ \A r \in requests' : Own(r)'
    BY <1>1, <2>2, <2>3 DEF AllOwn, Own
  <2> QED
    BY <1>2, <2>4 DEF OwnOnly
<1>4. CASE ~(phase = "wait" /\ ~late)
  BY <1>1, <1>2, <1>4 DEF OwnOnly
<1> QED
  BY <1>3, <1>4

LEMMA CurrentNext ==
  ASSUME CurrentInv, [Next]_vars
  PROVE  CurrentInv'
<1>1. Typed'
  BY NextTyped DEF CurrentInv
<1>2. CASE Request
  BY <1>1, <1>2, CurrentRequest DEF CurrentInv
<1>3. CASE Receive
  BY <1>1, <1>3, CurrentReceive DEF CurrentInv
<1>4. CASE TimeOut
  BY <1>1, <1>4, FailTyped DEF TimeOut, Causes, CurrentInv, OwnOnly, ReadsAreCurrent, Successful
<1>5. CASE Arrive
  BY <1>1, <1>5, CurrentArrive DEF CurrentInv
<1>6. CASE \E request \in requests : Answer(request)
  BY <1>1, <1>6, CurrentAnswer DEF CurrentInv
<1>7. CASE UNCHANGED vars
  BY <1>1, <1>7 DEF vars, CurrentInv, OwnOnly, ReadsAreCurrent, Successful, AllOwn, Own
<1> QED
  BY <1>2, <1>3, <1>4, <1>5, <1>6, <1>7 DEF Next, Master

\* Unless an answer to an earlier request was still to come when a transaction
\* began, the value it accepts is that of its register, read in it.
THEOREM ReadsAlwaysCurrent == Spec => []ReadsAreCurrent
<1>1. Init => CurrentInv
  <2> SUFFICES ASSUME Init PROVE CurrentInv
    OBVIOUS
  <2>1. phase = "pause" /\ result.answered = "nobody"
    BY DEF Init
  <2> QED
    BY <2>1, InitTyped DEF CurrentInv, OwnOnly, ReadsAreCurrent, Successful
<1>2. CurrentInv /\ [Next]_vars => CurrentInv'
  BY CurrentNext
<1>3. CurrentInv => ReadsAreCurrent
  BY DEF CurrentInv
<1> QED
  BY <1>1, <1>2, <1>3, PTL DEF Spec

-----------------------------------------------------------------------------
(* Failures have causes *)

\* What is on its way to the end of the frame, in order.
Stream == (adu \o rx) \o line

\* An undamaged answer to the request that waits, or none yet.
GoodFirst(x, kind) == ~x.damaged /\ x.register = step /\ x.part = 1 /\ x.kind = kind

GoodAnswer(s) ==
  \/ s = <<>>
  \/ Len(s) = 1 /\ GoodFirst(s[1], "exception")
  \/ /\ Len(s) = 2 /\ GoodFirst(s[1], "answer")
     /\ ~s[2].damaged /\ s[2].register = step /\ s[2].part = 2 /\ s[2].value = s[1].value

Undisturbed == phase = "wait" /\ ~late /\ damaged = 0

Orderly ==
  Undisturbed =>
    /\ GoodAnswer(Stream)
    /\ requests # {} => Stream = <<>>
    /\ \A r \in requests : r = [register |-> step, fresh |-> TRUE]

CauseInv == Typed /\ Orderly /\ FailuresHaveCauses

\* Moving the first of one sequence to the end of the one before it leaves what
\* they are together.
LEMMA JoinMoved ==
  ASSUME NEW S, NEW a \in Seq(S), NEW r \in Seq(S), r # <<>>
  PROVE  Append(a, Head(r)) \o Tail(r) = a \o r
<1>1. Head(r) = r[1] /\ Tail(r) \in Seq(S) /\ Len(Tail(r)) = Len(r) - 1
      /\ \A i \in 1 .. Len(r) - 1 : Tail(r)[i] = r[i + 1]
  OBVIOUS
<1> DEFINE x == Append(a, Head(r)) \o Tail(r)
           y == a \o r
<1>2. Head(r) \in S /\ Append(a, Head(r)) \in Seq(S) /\ Len(Append(a, Head(r))) = Len(a) + 1
  OBVIOUS
<1>3. x \in Seq(S) /\ y \in Seq(S) /\ Len(x) = Len(y) /\ Len(y) = Len(a) + Len(r)
  BY <1>1, <1>2
<1>4. \A i \in 1 .. Len(y) : x[i] = y[i]
  BY <1>1, <1>2
<1> HIDE DEF x, y
<1>5. x = y
  BY <1>3, <1>4, SeqEqual
<1> QED
  BY <1>5 DEF x, y

LEMMA JoinAdded ==
  ASSUME NEW S, NEW a \in Seq(S), NEW r \in Seq(S), NEW e \in S
  PROVE  a \o Append(r, e) = Append(a \o r, e)
<1> DEFINE x == a \o Append(r, e)
           y == Append(a \o r, e)
<1>1. x \in Seq(S) /\ y \in Seq(S) /\ Len(x) = Len(y)
  OBVIOUS
<1>2. \A i \in 1 .. Len(y) : x[i] = y[i]
  OBVIOUS
<1> HIDE DEF x, y
<1>3. x = y
  BY <1>1, <1>2, SeqEqual
<1> QED
  BY <1>3 DEF x, y

\* A request that is sent when nothing is under way starts with an empty stream.
LEMMA OrderlyRequest ==
  ASSUME CauseInv, Request
  PROVE  Orderly' /\ FailuresHaveCauses'
<1>1. phase' = "wait" /\ step' = step /\ late' = Underway /\ rx' = <<>> /\ adu' = <<>>
  BY DEF Request, Flushed, Emptied
<1>2. FailuresHaveCauses'
  BY <1>1 DEF FailuresHaveCauses
<1>3. CASE Undisturbed'
  <2>1. line = <<>> /\ requests = {}
    BY <1>1, <1>3 DEF Underway, Undisturbed
  <2>2. line' = <<>>
    BY <2>1 DEF Request
  <2>3. Stream' = <<>>
    BY <1>1, <2>2 DEF Stream
  <2>4. requests' \subseteq {[register |-> step, fresh |-> TRUE]}
    BY <2>1 DEF Request
  <2> QED
    BY <1>1, <1>2, <2>3, <2>4 DEF Orderly, GoodAnswer
<1> QED
  BY <1>2, <1>3 DEF Orderly

\* The stream begins with what was collected; the next part to be received follows.
LEMMA StreamTypes ==
  ASSUME Typed
  PROVE  /\ adu \in Seq(Parts) /\ rx \in Seq(Parts) /\ line \in Seq(Parts)
         /\ Stream \in Seq(Parts) /\ Len(Stream) = Len(adu) + Len(rx) + Len(line)
         /\ \A i \in 1 .. Len(adu) : Stream[i] = adu[i]
         /\ rx # <<>> => Stream[Len(adu) + 1] = Head(rx)
<1>1. adu \in Seq(Parts) /\ rx \in Seq(Parts) /\ line \in Seq(Parts)
  BY DEF Typed, TypeOK
<1>2. /\ adu \o rx \in Seq(Parts) /\ Len(adu \o rx) = Len(adu) + Len(rx)
      /\ \A i \in 1 .. Len(adu) : (adu \o rx)[i] = adu[i]
      /\ rx # <<>> => (adu \o rx)[Len(adu) + 1] = Head(rx)
  BY <1>1
<1> QED
  BY <1>1, <1>2 DEF Stream

LEMMA OrderlyReceive ==
  ASSUME CauseInv, Receive
  PROVE  Orderly' /\ FailuresHaveCauses'
<1> USE DEF CauseInv
<1>1. phase = "wait" /\ rx # <<>> /\ rx' = Tail(rx) /\ line' = line /\ adu' = Append(adu, Head(rx))
  BY DEF Receive
<1>2. requests' = requests /\ late' = late /\ damaged' = damaged
  BY ReceiveControl
<1>3. CASE ~Undisturbed
  BY <1>1, <1>2, <1>3 DEF Orderly, FailuresHaveCauses, Undisturbed
<1>4. CASE Undisturbed
  <2>1. /\ GoodAnswer(Stream)
        /\ requests # {} => Stream = <<>>
        /\ \A r \in requests : r = [register |-> step, fresh |-> TRUE]
    BY <1>4 DEF Orderly
  <2>2. Stream' = Stream
    <3>1. Append(adu, Head(rx)) \o Tail(rx) = adu \o rx
      BY <1>1, StreamTypes, JoinMoved
    <3> QED
      BY <1>1, <3>1 DEF Stream
  <2>3. CASE adu = <<>>
    <3>1. FirstPart(Head(rx)) /\ Len(adu) = 0
      BY <2>3 DEF Receive
    <3>2. Stream # <<>> /\ Stream[1] = Head(rx)
      BY <1>1, <3>1, StreamTypes
    <3>3. ~Head(rx).damaged /\ Head(rx).register = step /\ Head(rx).part = 1
      BY <2>1, <3>2 DEF GoodAnswer, GoodFirst
    <3>4. Fits(Head(rx))
      BY <3>3 DEF Fits
    <3>5. CASE Fail("exception")
      BY <3>5, FailTyped DEF Causes, Orderly, FailuresHaveCauses, Undisturbed
    <3>6. CASE UNCHANGED <<step, phase, requests, result, late, damaged>>
      <4>1. Orderly'
        BY <2>1, <2>2, <3>6 DEF Orderly, GoodAnswer, GoodFirst
      <4> QED
        BY <1>1, <3>6, <4>1 DEF FailuresHaveCauses
    <3> QED
      BY <3>1, <3>3, <3>4, <3>5, <3>6, FirstPartCases
  <2>4. CASE adu # <<>>
    <3>1. SecondPart(Head(adu), Head(rx))
      BY <2>4 DEF Receive
    <3>2. Len(adu) = 1 /\ Head(adu) = adu[1]
      <4>1. adu \in Seq(Parts) /\ Len(adu) <= 1
        BY <1>1, StreamTypes DEF Typed, AtMostOne
      <4>2. Len(adu) \in Nat /\ Len(adu) # 0
        BY <2>4, <4>1, EmptySeq
      <4> QED
        BY <4>1, <4>2
    <3>3. Len(Stream) >= 2 /\ Stream[1] = Head(adu) /\ Stream[2] = Head(rx)
      BY <1>1, <3>2, StreamTypes
    <3>4. ChecksumOK(Head(adu), Head(rx))
      BY <2>1, <3>3 DEF GoodAnswer, GoodFirst, ChecksumOK
    <3>5. Return(Head(adu).value, "none", Head(adu).register, Head(adu).fresh)
      BY <3>1, <3>4 DEF SecondPart
    <3>6. phase' = "pause" /\ result'.cause = "none"
      BY <3>5 DEF Return
    <3> QED
      BY <3>6 DEF Orderly, FailuresHaveCauses, Undisturbed
  <2> QED
    BY <2>3, <2>4
<1> QED
  BY <1>3, <1>4

LEMMA OrderlyAnswer ==
  ASSUME CauseInv, NEW request \in requests, Answer(request)
  PROVE  Orderly' /\ FailuresHaveCauses'
<1> USE DEF CauseInv
<1>1. requests' = requests \ {request} /\ UNCHANGED <<step, phase, adu, rx, result, late>>
  BY DEF Answer
<1>2. PICK value \in Values(request.register) :
        \/ \E parts \in Intact(request, value) : line' = line \o parts /\ UNCHANGED damaged
        \/ damaged' = damaged + 1
  BY DEF Answer
<1>3. damaged \in Nat /\ (damaged' = 0 => damaged = 0 /\ UNCHANGED damaged)
  BY <1>2, ModbusAssumption DEF Typed, TypeOK
<1>4. FailuresHaveCauses'
  BY <1>1, <1>3 DEF FailuresHaveCauses
<1>5. CASE Undisturbed'
  <2>1. Undisturbed
    BY <1>1, <1>3, <1>5 DEF Undisturbed
  <2>2. PICK parts \in Intact(request, value) : line' = line \o parts
    BY <1>2, <1>3, <1>5 DEF Undisturbed
  <2>3. Stream = <<>> /\ requests' = {} /\ request = [register |-> step, fresh |-> TRUE]
    BY <1>1, <2>1 DEF Orderly
  <2>4. adu = <<>> /\ rx = <<>> /\ line = <<>>
    BY <2>3, StreamTypes
  <2>5. request \in [register : Registers, fresh : BOOLEAN]
    BY DEF Typed, TypeOK
  <2>6. parts \in Seq(Parts)
    BY <2>5, AnswerParts
  <2>7. Stream' = parts
    BY <1>1, <2>2, <2>4, <2>6 DEF Stream
  <2>8. GoodAnswer(parts)
    <3>1. CASE parts = <<Part(request, 1, value, "answer", FALSE), Part(request, 2, value, "answer", FALSE)>>
      BY <2>3, <3>1 DEF GoodAnswer, GoodFirst, Part
    <3>2. CASE parts = <<Part(request, 1, value, "exception", FALSE)>>
      BY <2>3, <3>2 DEF GoodAnswer, GoodFirst, Part
    <3> QED
      BY <3>1, <3>2 DEF Intact
  <2>9. GoodAnswer(Stream)'
    BY <1>1, <2>7, <2>8 DEF GoodAnswer, GoodFirst
  <2> QED
    BY <1>4, <2>3, <2>9 DEF Orderly
<1> QED
  BY <1>4, <1>5 DEF Orderly

LEMMA OrderlyArrive ==
  ASSUME CauseInv, Arrive
  PROVE  Orderly' /\ FailuresHaveCauses'
<1> USE DEF CauseInv
<1>1. /\ line # <<>> /\ line' = Tail(line) /\ rx' = Append(rx, Head(line))
      /\ UNCHANGED <<step, phase, adu, requests, result, late, damaged>>
  BY DEF Arrive
<1>2. adu \in Seq(Parts) /\ rx \in Seq(Parts) /\ line \in Seq(Parts) /\ adu \o rx \in Seq(Parts)
      /\ Head(line) \in Parts
  BY <1>1, StreamTypes, PartTaken
<1>3. adu \o Append(rx, Head(line)) = Append(adu \o rx, Head(line))
  BY <1>2, JoinAdded
<1>4. Append(adu \o rx, Head(line)) \o Tail(line) = (adu \o rx) \o line
  BY <1>1, <1>2, JoinMoved
<1>5. Stream' = Stream
  BY <1>1, <1>3, <1>4 DEF Stream
<1>6. Orderly'
  BY <1>1, <1>5 DEF Orderly, Undisturbed, GoodAnswer, GoodFirst
<1> QED
  BY <1>1, <1>6 DEF FailuresHaveCauses

LEMMA OrderlyNext ==
  ASSUME CauseInv, [Next]_vars
  PROVE  CauseInv'
<1>1. Typed'
  BY NextTyped DEF CauseInv
<1>2. CASE Request
  BY <1>1, <1>2, OrderlyRequest DEF CauseInv
<1>3. CASE Receive
  BY <1>1, <1>3, OrderlyReceive DEF CauseInv
<1>4. CASE TimeOut
  BY <1>1, <1>4, FailTyped DEF TimeOut, Causes, CauseInv, Orderly, Undisturbed, FailuresHaveCauses
<1>5. CASE Arrive
  BY <1>1, <1>5, OrderlyArrive DEF CauseInv
<1>6. CASE \E request \in requests : Answer(request)
  BY <1>1, <1>6, OrderlyAnswer DEF CauseInv
<1>7. CASE UNCHANGED vars
  BY <1>1, <1>7 DEF vars, CauseInv, Orderly, Undisturbed, FailuresHaveCauses, Stream, GoodAnswer, GoodFirst
<1> QED
  BY <1>2, <1>3, <1>4, <1>5, <1>6, <1>7 DEF Next, Master

\* Before the line has damaged anything, a transaction that began with nothing
\* under way does not fail as invalid or for its checksum.
THEOREM FailuresAlwaysHaveCauses == Spec => []FailuresHaveCauses
<1>1. Init => CauseInv
  <2> SUFFICES ASSUME Init PROVE CauseInv
    OBVIOUS
  <2>1. phase = "pause" /\ result.cause = "none"
    BY DEF Init
  <2> QED
    BY <2>1, InitTyped DEF CauseInv, Orderly, Undisturbed, FailuresHaveCauses
<1>2. CauseInv /\ [Next]_vars => CauseInv'
  BY OrderlyNext
<1>3. CauseInv => FailuresHaveCauses
  BY DEF CauseInv
<1> QED
  BY <1>1, <1>2, <1>3, PTL DEF Spec
=============================================================================
