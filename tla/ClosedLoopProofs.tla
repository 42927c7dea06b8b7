--------------------------- MODULE ClosedLoopProofs ---------------------------
(***************************************************************************)
(* Proofs about ClosedLoop, for all ducts, message sequences and numbers   *)
(* of failures: the loop with its bus and its duct implements the loop     *)
(* that is given its readings, and regulates on the pressure of the duct.  *)
(***************************************************************************)
EXTENDS ClosedLoop, VentilationProofs

-----------------------------------------------------------------------------
(* The buffers *)

Phases == {"idle", "address", "sending", "second address", "receiving"}

Results == Failures \cup {"none", "BUSY", "OK"}

I2cType ==
  [txSz : Nat, rxBuff : [1 .. ReadCount -> 0 .. 255], tx : Nat, rx : 0 .. ReadCount,
   master : Phases, status : Results]

I2cTyped == i2c \in I2cType

LEMMA ReadCountType == ReadCount \in Nat /\ ReadCount \in 0 .. ReadCount
BY DEF ReadCount

LEMMA I2cFields ==
  ASSUME I2cTyped
  PROVE  /\ i2c.txSz \in Nat /\ i2c.rxBuff \in [1 .. ReadCount -> 0 .. 255] /\ i2c.tx \in Nat
         /\ i2c.rx \in 0 .. ReadCount /\ i2c.rx \in Nat /\ i2c.status \in Results
BY ReadCountType DEF I2cTyped, I2cType

LEMMA FailureNames ==
  /\ "none" \notin Failures /\ "BUSY" \notin Failures /\ "OK" \notin Failures
  /\ {"none", "BUSY", "OK"} \subseteq Results /\ Failures \subseteq Results
BY DEF Failures, Results

LEMMA PhaseNames == {"idle", "address", "sending", "second address", "receiving"} \subseteq Phases
BY DEF Phases

\* The fields of i2c after each operation.
LEMMA BeginFields ==
  ASSUME I2cTyped, BeginTransfer
  PROVE  /\ i2c.status = "none" /\ i2c'.status = "BUSY" /\ i2c'.txSz = i2c.txSz + 1
         /\ i2c'.rx = ReadCount /\ I2cTyped'
<1>1. i2c.txSz + 1 \in Nat
  BY I2cFields
<1>2. Overwritten \in [1 .. ReadCount -> 0 .. 255]
  <2>1. Command \in 0 .. 255
    BY DEF Command
  <2>2. \A n \in 1 .. ReadCount : i2c.rxBuff[n] \in 0 .. 255
    BY I2cFields
  <2> QED
    BY <2>1, <2>2 DEF Overwritten
<1> QED
  BY <1>1, <1>2, ReadCountType, PhaseNames, FailureNames DEF I2cTyped, I2cType, BeginTransfer

LEMMA TransmitFields ==
  ASSUME I2cTyped, Transmit
  PROVE  /\ i2c.status = "BUSY" /\ i2c'.status = "BUSY" /\ i2c'.txSz = i2c.txSz
         /\ i2c'.rx = i2c.rx /\ i2c'.rxBuff = i2c.rxBuff /\ I2cTyped'
<1>1. i2c.status = "BUSY"
  BY DEF Transmit
<1>2. CASE i2c.tx > 0 /\ i2c' = [i2c EXCEPT !.tx = @ - 1, !.master = "sending"]
  <2>1. i2c.tx - 1 \in Nat /\ "sending" \in Phases
    <3>1. i2c.tx > 0 /\ i2c.tx \in Nat
      BY <1>2, I2cFields
    <3>2. i2c.tx - 1 \in Nat
      BY <3>1
    <3> QED
      BY <3>2, PhaseNames, Zenon
  <2> QED
    BY <1>1, <1>2, <2>1 DEF I2cTyped, I2cType
<1>3. CASE i2c' = [i2c EXCEPT !.master = "second address"]
  BY <1>1, <1>3, PhaseNames DEF I2cTyped, I2cType
<1> QED
  BY <1>2, <1>3 DEF Transmit

LEMMA ReceiveFields ==
  ASSUME I2cTyped, NEW byte \in 0 .. 255, i2c.rx > 0, ReceiveByte(byte)
  PROVE  /\ i2c.status = "BUSY" /\ i2c'.txSz = i2c.txSz /\ i2c'.rx = i2c.rx - 1
         /\ i2c'.rxBuff = [i2c.rxBuff EXCEPT ![ReadCount - i2c.rx + 1] = byte]
         /\ i2c'.status = IF i2c.rx > 1 THEN "BUSY" ELSE "OK"
         /\ I2cTyped'
<1> DEFINE next   == IF i2c.rx > 1 THEN "receiving" ELSE "idle"
           result == IF i2c.rx > 1 THEN "BUSY" ELSE "OK"
           left   == i2c.rx - 1
           buffer == [i2c.rxBuff EXCEPT ![ReadCount - i2c.rx + 1] = byte]
<1>1. /\ i2c' = [i2c EXCEPT !.rxBuff = buffer, !.rx = left, !.master = next, !.status = result]
      /\ i2c.status = "BUSY"
  BY DEF ReceiveByte, I2cTyped, I2cType
<1>2. next \in Phases /\ result \in Results /\ left \in 0 .. ReadCount
  <2>1. next \in Phases
    BY PhaseNames
  <2>2. result \in Results
    BY FailureNames
  <2>3. left \in 0 .. ReadCount
    BY I2cFields, ReadCountType
  <2> QED
    BY <2>1, <2>2, <2>3
<1>3. buffer \in [1 .. ReadCount -> 0 .. 255]
  BY I2cFields
<1> HIDE DEF next, result, left, buffer
<1>4. /\ i2c'.rxBuff = buffer /\ i2c'.rx = left /\ i2c'.status = result /\ i2c'.txSz = i2c.txSz
      /\ I2cTyped'
  BY <1>1, <1>2, <1>3 DEF I2cTyped, I2cType
<1> QED
  BY <1>1, <1>4 DEF left, buffer, result

LEMMA DisturbFields ==
  ASSUME I2cTyped, NEW failure \in Failures, Disturb(failure)
  PROVE  i2c.status = "BUSY" /\ i2c'.status = failure /\ I2cTyped'
BY PhaseNames, FailureNames DEF I2cTyped, I2cType, Disturb

\* getResponse() returns with the buffer emptied, or as it was.
LEMMA ReturnedFields ==
  ASSUME I2cTyped, i2c' = Returned
  PROVE  i2c'.status = "none" /\ I2cTyped'
<1>1. 0 \in Nat /\ "none" \in Results
  BY FailureNames
<1>2. CASE i2c.status = "OK" /\ i2c' = [i2c EXCEPT !.txSz = 0, !.status = "none"]
  <2>1. i2c'.status = "none"
    BY <1>2 DEF I2cTyped, I2cType
  <2>2. I2cTyped'
    BY <1>1, <1>2 DEF I2cTyped, I2cType
  <2> QED
    BY <1>2, <2>1, <2>2
<1>3. CASE i2c.status # "OK" /\ i2c' = [i2c EXCEPT !.status = "none"]
  BY <1>1, <1>3 DEF I2cTyped, I2cType
<1> QED
  BY <1>2, <1>3 DEF Returned

-----------------------------------------------------------------------------
(* What the sensor has answered *)

ReadingInv == ao1 \in 0 .. MaxWord /\ gain \in Nat

LEMMA ReadingType ==
  ASSUME ReadingInv
  PROVE  Reading \in 0 .. Max16
<1> DEFINE product == ao1 * gain
<1>1. product \in Nat
  BY Limits16 DEF ReadingInv
<1>2. Reading = IF product > Max16 THEN Max16 ELSE product
  BY DEF Reading
<1> HIDE DEF product
<1> QED
  BY <1>1, <1>2 DEF Max16

HighByte(r) == r \div 256
LowByte(r)  == r % 256

LEMMA BytesOfWord ==
  ASSUME NEW r \in Nat, r <= Max16
  PROVE  HighByte(r) \in 0 .. 255 /\ LowByte(r) \in 0 .. 255 /\ 256 * HighByte(r) + LowByte(r) = r
<1>1. 256 * (r \div 256) + (r % 256) = r /\ (r % 256) \in 0 .. 255 /\ r \div 256 \in Int
  OBVIOUS
<1>2. r \div 256 >= 0
  OBVIOUS
<1>3. r \div 256 <= 255
  BY DEF Max16
<1> QED
  BY <1>1, <1>2, <1>3 DEF HighByte, LowByte

\* A byte is a byte, and two of them make the reading again.
LEMMA BytesOfReading ==
  ASSUME ReadingInv
  PROVE  /\ \A n \in 1 .. ReadCount : SensorByte(n) \in 0 .. 255
         /\ 256 * SensorByte(1) + SensorByte(2) = Reading
<1>1. Reading \in Nat /\ Reading <= Max16
  BY ReadingType, Limits16
<1>2. /\ HighByte(Reading) \in 0 .. 255 /\ LowByte(Reading) \in 0 .. 255
      /\ 256 * HighByte(Reading) + LowByte(Reading) = Reading
  BY <1>1, BytesOfWord
<1>3. SensorByte(1) = HighByte(Reading) /\ SensorByte(2) = LowByte(Reading) /\ SensorByte(3) = 0
  BY DEF SensorByte, HighByte, LowByte
<1>4. 1 .. ReadCount = {1, 2, 3}
  BY DEF ReadCount
<1> QED
  BY <1>2, <1>3, <1>4

\* A transfer goes on while the loop senses.  What it has received is what the
\* sensor says, and it is complete when the transfer has succeeded.
AnswerInv ==
  /\ i2c.status # "none" => At("sense")
  /\ i2c.status = "BUSY" => i2c.rx > 0
  /\ i2c.status = "OK" => i2c.rx = 0
  /\ i2c.status \in {"BUSY", "OK"} => \A n \in 1 .. ReadCount - i2c.rx : i2c.rxBuff[n] = SensorByte(n)

LEMMA ResponseIsReading ==
  ASSUME ReadingInv, I2cTyped, AnswerInv, Answered
  PROVE  Response = Reading
<1>1. i2c.rxBuff[1] = SensorByte(1) /\ i2c.rxBuff[2] = SensorByte(2)
  BY DEF Answered, AnswerInv, ReadCount
<1>2. 256 * i2c.rxBuff[1] + i2c.rxBuff[2] = Reading
  BY <1>1, BytesOfReading
<1>3. Reading \in Nat /\ Reading <= Max16
  BY ReadingType, Limits16
<1> DEFINE n == 256 * i2c.rxBuff[1] + i2c.rxBuff[2]
<1>4. Response = IF n > 32767 THEN n - 65536 ELSE n
  BY DEF Response
<1> HIDE DEF n
<1>5. n = Reading
  BY <1>2 DEF n
<1> QED
  BY <1>3, <1>4, <1>5 DEF Max16

-----------------------------------------------------------------------------
(* The steps *)

\* The steps of the loop proper are steps of Ventilation.
LEMMA SenseIsSense ==
  ASSUME ReadingInv, I2cTyped, AnswerInv, 0 .. Max16 \subseteq Readings, SenseDuct
  PROVE  Sense
<1>1. CASE Unanswered /\ NoResponse
  BY <1>1 DEF Sense
<1>2. CASE Answered /\ (SenseManual(Response) \/ SwitchOff(Response) \/ Regulate(Response))
  <2>1. Response \in Readings
    BY <1>2, ResponseIsReading, ReadingType
  <2> QED
    BY <1>2, <2>1 DEF Sense
<1> QED
  BY <1>1, <1>2 DEF SenseDuct

ScriptInv == script \in Seq(Messages)

LEMMA ScriptTaken ==
  ASSUME ScriptInv, script # <<>>
  PROVE  Head(script) \in Messages /\ Tail(script) \in Seq(Messages)
BY DEF ScriptInv

LEMMA StepIsStep ==
  ASSUME ReadingInv, I2cTyped, AnswerInv, ScriptInv, 0 .. Max16 \subseteq Readings, [CNext]_cvars
  PROVE  [Next]_vars
<1>1. CASE SendMessage
  BY <1>1, ScriptTaken DEF SendMessage, Next
<1>2. CASE ReadSensor
  BY <1>2 DEF ReadSensor
<1>3. CASE SenseDuct
  BY <1>3, SenseIsSense DEF Next
<1>4. CASE OtherStep
  <2>1. ReadButton(FALSE) => Scan
    BY DEF Scan
  <2> QED
    BY <1>4, <2>1 DEF OtherStep, Next
<1>5. CASE UNCHANGED cvars
  BY <1>5 DEF cvars
<1> QED
  BY <1>1, <1>2, <1>3, <1>4, <1>5 DEF CNext

\* No other step is taken while a transfer goes on.
LEMMA OtherPhases ==
  ASSUME At("sense")
  PROVE  ~OtherStep /\ ~SendMessage
BY DEF At, OtherStep, HandleField, SetMode, SetGoal, SetSpeed, SkipField, Field, PollDone, Report,
       FinishPublish, PublishDone, ReadButton, SendMessage

\* What an operation of the bus does to the answer, with the loop unchanged.
LEMMA SensorReads ==
  ASSUME ReadingInv, I2cTyped, AnswerInv, ReadSensor
  PROVE  I2cTyped' /\ AnswerInv'
<1>1. UNCHANGED <<vars, gain, script>> /\ At("sense")
  BY DEF ReadSensor
<1>2. UNCHANGED <<ao1, gain, phase, unhandled>>
  BY <1>1 DEF vars
<1>3. At("sense")' /\ \A n : SensorByte(n)' = SensorByte(n)
  BY <1>1, <1>2 DEF At, SensorByte, Reading
<1>5. CASE BeginTransfer
  <2>1. I2cTyped' /\ i2c.status = "none" /\ i2c'.status = "BUSY" /\ i2c'.rx = ReadCount
    BY <1>5, BeginFields
  <2>2. AnswerInv'
    BY <1>3, <2>1 DEF AnswerInv, ReadCount
  <2> QED
    BY <2>1, <2>2
<1>6. CASE Transmit
  <2>1. /\ I2cTyped' /\ i2c.status = "BUSY" /\ i2c'.status = "BUSY"
        /\ i2c'.rx = i2c.rx /\ i2c'.rxBuff = i2c.rxBuff
    BY <1>6, TransmitFields
  <2>2. AnswerInv'
    BY <1>3, <2>1 DEF AnswerInv
  <2> QED
    BY <2>1, <2>2
<1>7. CASE ReceiveByte(SensorByte(ReadCount - i2c.rx + 1))
  <2> DEFINE k == ReadCount - i2c.rx + 1
  <2>1. i2c.status = "BUSY" /\ i2c.rx > 0 /\ i2c.rx \in 0 .. ReadCount /\ ReadCount = 3
    BY <1>7, I2cFields DEF ReceiveByte, AnswerInv, ReadCount
  <2>2. k \in 1 .. ReadCount
    BY <2>1
  <2> HIDE DEF k
  <2>3. SensorByte(k) \in 0 .. 255 /\ ReceiveByte(SensorByte(k))
    BY <1>7, <2>2, BytesOfReading DEF k
  <2>4. /\ i2c'.rx = i2c.rx - 1
        /\ i2c'.rxBuff = [i2c.rxBuff EXCEPT ![k] = SensorByte(k)]
        /\ i2c'.status = IF i2c.rx > 1 THEN "BUSY" ELSE "OK"
        /\ I2cTyped'
    BY <2>1, <2>3, ReceiveFields DEF k
  <2>5. \A n \in 1 .. ReadCount - i2c'.rx : i2c'.rxBuff[n] = SensorByte(n)
    <3> SUFFICES ASSUME NEW n \in 1 .. ReadCount - i2c'.rx
                 PROVE  i2c'.rxBuff[n] = SensorByte(n)
      OBVIOUS
    <3>1. i2c.rxBuff \in [1 .. ReadCount -> 0 .. 255]
      BY I2cFields
    <3>2. n \in 1 .. ReadCount /\ (n = k \/ n \in 1 .. ReadCount - i2c.rx)
      BY <2>1, <2>4 DEF k
    <3>3. n \in 1 .. ReadCount - i2c.rx => i2c.rxBuff[n] = SensorByte(n)
      BY <2>1 DEF AnswerInv
    <3> QED
      BY <2>4, <3>1, <3>2, <3>3
  <2>6. AnswerInv'
    <3>1. i2c'.status = "BUSY" => i2c'.rx > 0
      BY <2>1, <2>4
    <3>2. i2c'.status = "OK" => i2c'.rx = 0
      BY <2>1, <2>4
    <3> QED
      BY <1>3, <2>5, <3>1, <3>2 DEF AnswerInv
  <2> QED
    BY <2>4, <2>6
<1>8. ASSUME NEW failure \in Failures, Disturb(failure)
      PROVE  I2cTyped' /\ AnswerInv'
  <2>1. i2c'.status = failure /\ I2cTyped'
    BY <1>8, DisturbFields
  <2>2. AnswerInv'
    BY <1>3, <2>1, FailureNames DEF AnswerInv
  <2> QED
    BY <2>1, <2>2
<1> QED
  BY <1>5, <1>6, <1>7, <1>8 DEF ReadSensor

\* The inductive invariant.
CInv == Typed /\ gain \in Nat /\ ScriptInv /\ I2cTyped /\ AnswerInv

LEMMA CInvReading == CInv => ReadingInv
BY DEF CInv, Typed, TypeOK, ReadingInv

LEMMA InitCInv == CInit => CInv
<1> SUFFICES ASSUME CInit PROVE CInv
  OBVIOUS
<1>1. Typed /\ gain \in Nat /\ ScriptInv
  <2>1. script \in Seq(Messages) /\ gain \in Nat
    BY ClosedLoopAssumption DEF CInit
  <2> QED
    BY <2>1, InitTyped DEF CInit, ScriptInv
<1>2. I2cTyped
  <2>1. [n \in 1 .. ReadCount |-> 0] \in [1 .. ReadCount -> 0 .. 255]
    OBVIOUS
  <2>2. 0 \in 0 .. ReadCount
    BY DEF ReadCount
  <2> QED
    BY <2>1, <2>2, PhaseNames, FailureNames DEF CInit, I2cInit, I2cTyped, I2cType
<1>3. AnswerInv
  BY DEF CInit, I2cInit, AnswerInv
<1> QED
  BY <1>1, <1>2, <1>3 DEF CInv

LEMMA CInvStep ==
  ASSUME 0 .. Max16 \subseteq Readings
  PROVE  CInv /\ [CNext]_cvars => CInv'
<1> SUFFICES ASSUME CInv, [CNext]_cvars PROVE CInv'
  OBVIOUS
<1>1. ReadingInv /\ Typed /\ gain \in Nat /\ ScriptInv /\ I2cTyped /\ AnswerInv
  BY CInvReading DEF CInv
<1>2. Typed'
  BY <1>1, StepIsStep, TypedStep
<1>3. gain' = gain
  BY DEF CNext, SendMessage, ReadSensor, SenseDuct, OtherStep, cvars
<1>4. ScriptInv'
  <2>1. CASE SendMessage
    BY <1>1, <2>1, ScriptTaken DEF SendMessage, ScriptInv
  <2>2. CASE UNCHANGED script
    BY <1>1, <2>2 DEF ScriptInv
  <2> QED
    BY <2>1, <2>2 DEF CNext, ReadSensor, SenseDuct, OtherStep, cvars
<1>5. I2cTyped' /\ AnswerInv'
  <2>1. CASE ReadSensor
    BY <1>1, <2>1, SensorReads
  <2>2. CASE SenseDuct
    <3>1. i2c' = Returned /\ i2c.status # "none"
      BY <2>2, FailureNames DEF SenseDuct, Answered, Unanswered
    <3>2. i2c'.status = "none" /\ I2cTyped'
      BY <1>1, <3>1, ReturnedFields
    <3> QED
      BY <3>2 DEF AnswerInv
  <2>3. CASE SendMessage \/ OtherStep
    <3>1. i2c' = i2c /\ i2c.status = "none"
      BY <1>1, <2>3, OtherPhases DEF SendMessage, OtherStep, AnswerInv
    <3> QED
      BY <1>1, <3>1 DEF I2cTyped, AnswerInv
  <2>4. CASE UNCHANGED cvars
    <3>1. UNCHANGED <<i2c, ao1, gain, phase, unhandled>>
      BY <2>4 DEF cvars, vars
    <3> QED
      BY <1>1, <3>1 DEF I2cTyped, AnswerInv, At, SensorByte, Reading
  <2> QED
    BY <2>1, <2>2, <2>3, <2>4 DEF CNext
<1> QED
  BY <1>1, <1>2, <1>3, <1>4, <1>5 DEF CInv

-----------------------------------------------------------------------------
(* The theorems *)

\* The closed loop, with its bus and its duct, implements the loop that is given
\* whatever readings there are: all that is proved of Ventilation holds of it.
THEOREM ClosedLoopImplementsLoop ==
  ASSUME 0 .. Max16 \subseteq Readings
  PROVE  CSpec => Spec
<1>1. CInit => Init
  BY DEF CInit
<1>2. CInv /\ [CNext]_cvars => [Next]_vars
  BY StepIsStep, CInvReading DEF CInv
<1> QED
  BY <1>1, <1>2, InitCInv, CInvStep, PTL DEF CSpec, Spec

\* So in the duct, too, the controller never regulates with a multiplier of 0,
\* counts no stalls beyond the limit, regulates to the setpoint in force, and
\* reports a consistent status.
THEOREM DuctKeepsInvariants ==
  ASSUME 0 .. Max16 \subseteq Readings, Messages \subseteq DocumentedMessages
  PROVE  CSpec => [](MultiplierArmed /\ StallsBounded /\ AutoGoalInForce /\ StatusConsistent)
<1>1. CSpec => Spec
  BY ClosedLoopImplementsLoop
<1>2. Spec => []MultiplierArmed /\ []StallsBounded
  BY MultiplierAlwaysArmed, StallsAlwaysBounded
<1>3. Spec => []AutoGoalInForce /\ []StatusConsistent
  BY AutoGoalAlwaysInForce, StatusAlwaysConsistent
<1> QED
  BY <1>1, <1>2, <1>3, PTL

\* Storing a measurement.
LEMMA MeasurementStored ==
  ASSUME menu \in MenuType, NEW reading \in Int,
         SenseManual(reading) \/ SwitchOff(reading) \/ Regulate(reading)
  PROVE  menu'.old["pressure"] = Truncate(Scaled(reading), Pa)
<1> DEFINE p == Truncate(Scaled(reading), Pa)
           m == SetValue(menu, "pressure", p)
<1>1. {"pressure", "speed"} \subseteq Properties
  BY DEF Properties
<1>2. p \in Int
  BY TruncateType DEF Scaled, Pa
<1> HIDE DEF p
<1>3. m \in MenuType /\ m.old = [menu.old EXCEPT !["pressure"] = p]
  BY <1>1, <1>2, SetValueType
<1>4. m.old["pressure"] = p
  BY <1>1, <1>3 DEF MenuType
<1> HIDE DEF m
<1>5. CASE menu' = m
  BY <1>4, <1>5 DEF p
<1>6. CASE menu' = SetValue(m, "speed", speed' \div 10)
  <2>1. menu'.old["pressure"] = m.old["pressure"]
    BY <1>1, <1>3, <1>6 DEF SetValue, MenuType
  <2> QED
    BY <1>4, <2>1 DEF p
<1> QED
  BY <1>5, <1>6 DEF SenseManual, SwitchOff, Regulate, Measured, m, p

\* What is stored and regulated on is what the duct's pressure makes of the
\* sensor's bytes, however many transfers have failed before and whatever their
\* commands have overwritten.
THEOREM AlwaysRegulatesOnPresent ==
  ASSUME 0 .. Max16 \subseteq Readings
  PROVE  CSpec => RegulatesOnPresent
<1>1. ASSUME CInv, [CNext]_cvars
      PROVE  [At("sense") /\ Stored => menu'.old["pressure"] = Truncate(Scaled(Reading), Pa)]_cvars
  <2> SUFFICES ASSUME At("sense"), Stored
               PROVE  menu'.old["pressure"] = Truncate(Scaled(Reading), Pa)
    OBVIOUS
  <2>1. ReadingInv /\ I2cTyped /\ AnswerInv /\ menu \in MenuType
    BY <1>1, CInvReading DEF CInv, Typed, TypeOK
  <2>2. ~UNCHANGED <<menu, ao1>>
    BY DEF Stored
  <2>3. SenseDuct
    <3>1. ~UNCHANGED cvars /\ ~ReadSensor
      BY <2>2 DEF cvars, vars, ReadSensor
    <3> QED
      BY <1>1, <3>1, OtherPhases DEF CNext
  <2>4. Answered /\ (SenseManual(Response) \/ SwitchOff(Response) \/ Regulate(Response))
    BY <2>2, <2>3 DEF SenseDuct, NoResponse
  <2>5. Response = Reading /\ Reading \in Int
    BY <2>1, <2>4, ResponseIsReading, ReadingType, Limits16
  <2> QED
    BY <2>1, <2>4, <2>5, MeasurementStored
<1> QED
  BY <1>1, InitCInv, CInvStep, PTL DEF CSpec, RegulatesOnPresent
=============================================================================
