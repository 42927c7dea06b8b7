------------------------------- MODULE Modbus -------------------------------
(***************************************************************************)
(* The Modbus master (ModbusMaster.cpp, ModbusRegister.cpp) and the main   *)
(* loop's use of it: one serial line with three slaves, the fan, the CO2   *)
(* sensor and the humidity sensor.  A transaction drops what has been      *)
(* received so far, sends the request and collects the answer until it is  *)
(* complete, wrong, or late.  The slaves are not part of the repository.   *)
(*                                                                         *)
(* An answer comes in two parts: the first five bytes, which the master    *)
(* inspects on their own, and the rest.  The checksum tells an undamaged   *)
(* answer from everything else.                                            *)
(***************************************************************************)
EXTENDS Naturals, Sequences, FiniteSets

CONSTANTS
  MaxDamaged,   \* bound: answers spoilt or cut off on the line
  MaxUnderway   \* bound: requests without an answer and parts under way when one is sent

ASSUME ModbusAssumption == {MaxDamaged, MaxUnderway} \subseteq Nat

VARIABLES
  step,       \* the register the program deals with, or is about to
  phase,      \* "pause" between transactions, "wait" in one
  adu,        \* parts of the answer received
  rx,         \* parts in the receive buffer of the serial port
  line,       \* parts on their way to it
  requests,   \* requests that a slave has received and not answered
  result,     \* of the last transaction
  late,       \* when the request was sent, an answer to an earlier one could still come
  damaged     \* answers damaged so far

vars == <<step, phase, adu, rx, line, requests, result, late, damaged>>

Slave == [fan |-> 1, co2Status |-> 240, co2Data |-> 240,
          hmpStatus |-> 241, temperature |-> 241, humidity |-> 241]

Registers == DOMAIN Slave

\* readHoldingRegisters and writeSingleRegister
Function(r) == IF r = "fan" THEN "write" ELSE "read"

\* What a register may hold: a status, or something of its own.
Values(r) == IF r \in {"co2Status", "hmpStatus"} THEN {"zero", "nonzero"} ELSE {r}

Failed == "failed"   \* -1

Init ==
  /\ step = "fan" /\ phase = "pause"
  /\ adu = <<>> /\ rx = <<>> /\ line = <<>> /\ requests = {}
  /\ result = [cause |-> "none", asked |-> "fan", answered |-> "nobody", current |-> FALSE]
  /\ late = FALSE /\ damaged = 0

-----------------------------------------------------------------------------
(* The master *)

\* Mutant of Flushed: the buffer is not emptied before a request.
FlushedNever == rx
Flushed == <<>>

\* Mutant of Emptied: what is received goes behind what the frame holds.
EmptiedNever == adu
Emptied == <<>>

Underway == line # <<>> \/ requests # {}

Old(x) == [x EXCEPT !.fresh = FALSE]

\* The request goes out, or is not understood by its slave.  The program has
\* no way to tell what is under way from an answer to this request.
Request ==
  /\ phase = "pause" /\ Cardinality(requests) + Len(line) < MaxUnderway
  /\ phase' = "wait" /\ rx' = Flushed /\ adu' = Emptied
  /\ late' = Underway
  /\ line' = [i \in 1 .. Len(line) |-> Old(line[i])]
  /\ LET unanswered == {Old(r) : r \in requests}
     IN  \/ requests' = unanswered \cup {[register |-> step, fresh |-> TRUE]}
         \/ requests' = unanswered
  /\ UNCHANGED <<step, result, damaged>>

\* main(): the register dealt with next, depending on the value read.  A
\* humidity sensor that did not answer is taken for one that is present.
NextStep(value) ==
  CASE step = "fan"         -> {"fan", "hmpStatus"}
    [] step = "hmpStatus"   -> IF value # "zero" THEN {"temperature"} ELSE {"co2Status"}
    [] step = "temperature" -> {"humidity"}
    [] step = "humidity"    -> {"co2Status"}
    [] step = "co2Status"   -> IF value = "zero" THEN {"co2Data"} ELSE {"fan"}
    [] step = "co2Data"     -> {"fan"}

Return(value, cause, answered, current) ==
  /\ phase' = "pause"
  /\ result' = [cause |-> cause, asked |-> step, answered |-> answered, current |-> current]
  /\ step' \in NextStep(value)
  /\ UNCHANGED <<requests, late, damaged>>

Fail(cause) == Return(Failed, cause, "nobody", FALSE)

\* The first five bytes name the slave, the function and whether it worked.
\* Mutant of Fits: whose answer it is is not looked at.
FitsAnySlave(p) == p.part = 1 /\ Function(p.register) = Function(step)

Fits(p) ==
  p.part = 1 /\ Slave[p.register] = Slave[step] /\ Function(p.register) = Function(step)

\* Spoilt bytes, and those that are no beginning, may be refused or pass.
FirstPart(p) ==
  \/ (p.damaged \/ ~Fits(p)) /\ Fail("invalid")
  \/ ~p.damaged /\ Fits(p) /\ p.kind = "exception" /\ Fail("exception")
  \/ /\ p.damaged \/ p.part = 2 \/ (Fits(p) /\ p.kind = "answer")
     /\ UNCHANGED <<step, phase, requests, result, late, damaged>>

\* A read answer does not name its register.
ChecksumOK(first, second) ==
  /\ first.part = 1 /\ second.part = 2 /\ ~first.damaged /\ ~second.damaged
  /\ Slave[first.register] = Slave[second.register] /\ first.value = second.value

SecondPart(first, p) ==
  IF ChecksumOK(first, p)
  THEN Return(first.value, "none", first.register, first.fresh)
  ELSE Fail("checksum")

Receive ==
  /\ phase = "wait" /\ rx # <<>>
  /\ IF adu = <<>> THEN FirstPart(Head(rx)) ELSE SecondPart(Head(adu), Head(rx))
  /\ rx' = Tail(rx) /\ adu' = Append(adu, Head(rx))
  /\ UNCHANGED line

\* Mutant of TimeOut: the wait begins anew.
TimeOutWaiting ==
  /\ phase = "wait"
  /\ adu' = <<>>
  /\ UNCHANGED <<step, phase, rx, line, requests, result, late, damaged>>

\* The response timeout may pass at any time.
TimeOut ==
  /\ phase = "wait"
  /\ Fail("timeout")
  /\ UNCHANGED <<adu, rx, line>>

-----------------------------------------------------------------------------
(* The slaves and the line *)

Part(request, n, value, kind, spoilt) ==
  [register |-> request.register, fresh |-> request.fresh, part |-> n,
   value |-> value, kind |-> kind, damaged |-> spoilt]

\* An answer and what the line may make of it.
Intact(request, value) ==
  {<<Part(request, 1, value, "answer", FALSE), Part(request, 2, value, "answer", FALSE)>>,
   <<Part(request, 1, value, "exception", FALSE)>>}

Damaged(request, value) ==
  {<<Part(request, 1, value, "answer", TRUE), Part(request, 2, value, "answer", FALSE)>>,
   <<Part(request, 1, value, "answer", FALSE), Part(request, 2, value, "answer", TRUE)>>,
   <<Part(request, 1, value, "answer", FALSE)>>, <<Part(request, 2, value, "answer", FALSE)>>}

Answer(request) ==
  /\ requests' = requests \ {request}
  /\ \E value \in Values(request.register) :
       \/ \E parts \in Intact(request, value) : line' = line \o parts /\ UNCHANGED damaged
       \/ /\ damaged < MaxDamaged /\ damaged' = damaged + 1
          /\ \E parts \in Damaged(request, value) : line' = line \o parts
  /\ UNCHANGED <<step, phase, adu, rx, result, late>>

Arrive ==
  /\ line # <<>>
  /\ line' = Tail(line) /\ rx' = Append(rx, Head(line))
  /\ UNCHANGED <<step, phase, adu, requests, result, late, damaged>>

-----------------------------------------------------------------------------

Master == Request \/ Receive \/ TimeOut

Next == Master \/ Arrive \/ \E request \in requests : Answer(request)

Spec == Init /\ [][Next]_vars

\* The program is one thread; the slaves owe it nothing.
FairSpec == Spec /\ WF_vars(Master)

-----------------------------------------------------------------------------
(* Properties *)

Causes == {"none", "invalid", "exception", "checksum", "timeout"}

Parts ==
  [register : Registers, fresh : BOOLEAN, part : {1, 2}, value : {"zero", "nonzero"} \cup Registers,
   kind : {"answer", "exception"}, damaged : BOOLEAN]

\* The types; the frame buffer never holds more than the two parts of a frame.
TypeOK ==
  /\ step \in Registers /\ phase \in {"pause", "wait"}
  /\ adu \in Seq(Parts) /\ Len(adu) <= 2 /\ rx \in Seq(Parts) /\ line \in Seq(Parts)
  /\ requests \subseteq [register : Registers, fresh : BOOLEAN]
  /\ result \in [cause : Causes, asked : Registers, answered : Registers \cup {"nobody"}, current : BOOLEAN]
  /\ late \in BOOLEAN /\ damaged \in 0 .. MaxDamaged

Successful == phase = "pause" /\ result.answered # "nobody"

\* However late, spoilt or cut off the answers are: a value that is accepted
\* was sent by the slave that was asked, for the same function.
AnswersFit ==
  Successful =>
    Slave[result.answered] = Slave[result.asked] /\ Function(result.answered) = Function(result.asked)

\* A value is that of the register asked for, read in this transaction, unless
\* an answer to an earlier request was still to come when it began: that one
\* may be taken for the answer.
ReadsAreCurrent ==
  Successful /\ ~late => result.answered = result.asked /\ result.current

\* Nothing that happened in earlier transactions makes one fail, apart from an
\* answer that is still to come: what has arrived before does no harm.
FailuresHaveCauses ==
  phase = "pause" /\ ~late /\ damaged = 0 => result.cause \notin {"invalid", "checksum"}

\* Every transaction ends.
TransactionsEnd == phase = "wait" ~> phase = "pause"
=============================================================================
