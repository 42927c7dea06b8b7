--------------------------- MODULE VentilationProofs ---------------------------
(***************************************************************************)
(* Proofs of the safety properties of Ventilation, for all values of its   *)
(* constants.                                                              *)
(***************************************************************************)
EXTENDS Ventilation, MenuProofs, SequenceTheorems

-----------------------------------------------------------------------------
(* Arithmetic *)

\* The limits of 16-bit registers are numbers; from here on their size does not matter.
LEMMA Limits16 == MaxWord \in Nat /\ Min16 \in Int /\ Max16 \in Int
BY DEF MaxWord, Min16, Max16

\* A register holds 16 bits.
LEMMA WordType == ASSUME NEW v \in Int PROVE Word(v) \in 0 .. MaxWord
BY Limits16 DEF Word

\* A value that fits is stored as it is.
LEMMA WordFits == ASSUME NEW v \in 0 .. MaxWord PROVE Word(v) = v
BY Limits16 DEF Word

\* Converting a rational to int gives an integer.
LEMMA TruncateType ==
  ASSUME NEW n \in Int, NEW d \in Nat \ {0}
  PROVE  Truncate(n, d) \in Int
BY DEF Truncate

\* round() of a rational gives an integer.
LEMMA RoundType ==
  ASSUME NEW n \in Int, NEW d \in Nat \ {0}
  PROVE  Round(n, d) \in Int
BY DEF Round

\* A reading's pressure, in the units of Scaled, is an integer.
LEMMA ScaledType ==
  ASSUME NEW reading \in Readings
  PROVE  Scaled(reading) \in Int /\ Truncate(Scaled(reading), Pa) \in Int
<1>1. reading \in Int
  BY VentilationAssumption, Limits16
<1> QED
  BY <1>1, TruncateType DEF Scaled, Pa

\* The correction is an integer for any reading and any positive goal.
LEMMA ChangeInteger ==
  ASSUME NEW reading \in Readings, NEW k \in Int, NEW g \in Int, g > 0
  PROVE  Change(k, reading, g) \in Int
<1>1. g * Pa \in Nat \ {0}
  BY DEF Pa
<1>2. k * (g * Pa - Scaled(reading)) \in Int
  BY <1>1, ScaledType
<1> QED
  BY <1>1, <1>2, RoundType DEF Change

\* The clamp of the regulation keeps the speed on the scale.
LEMMA ClampRPMType == ASSUME NEW v \in Int PROVE ClampRPM(v) \in 0 .. MaxRPM
BY VentilationAssumption DEF ClampRPM

\* Halving never goes below two.
LEMMA HalveType ==
  ASSUME NEW k \in Nat
  PROVE  /\ Halve(k) \in Nat
         /\ k \in {2, 3, 5, 10} => Halve(k) \in {2, 3, 5}
BY DEF Halve

\* The three things counting a stall can do.
LEMMA CountStallCases ==
  ASSUME NEW off, CountStall(off)
  PROVE  \/ multiplier' = Halve(multiplier) /\ stalls' = 0
         \/ multiplier' = multiplier /\ stalls' = stalls + 1 /\ ~(stalls + 1 > StallLimit)
         \/ multiplier' = multiplier /\ stalls' = stalls
BY Zenon DEF CountStall

-----------------------------------------------------------------------------
(* Type correctness *)

\* The first unhandled field has a known key and a number.
LEMMA FieldIsTyped ==
  ASSUME unhandled \in Seq(FieldType), unhandled # <<>>
  PROVE  /\ Head(unhandled) \in FieldType
         /\ Head(unhandled).value \in Int
         /\ Tail(unhandled) \in Seq(FieldType)
<1>1. Head(unhandled) \in FieldType /\ Tail(unhandled) \in Seq(FieldType)
  OBVIOUS
<1> QED
  BY <1>1 DEF FieldType

\* A write leaves a 16-bit value in the register.
LEMMA WriteType ==
  ASSUME NEW v \in Int, ao1 \in 0 .. MaxWord, WriteAO1(v)
  PROVE  ao1' \in 0 .. MaxWord
<1>1. ao1' = Word(v) \/ ao1' = ao1
  BY VentilationAssumption DEF WriteAO1
<1> QED
  BY <1>1, WordType, Limits16

\* The state the proofs work with: typed, and no edit of a constant property.
Typed == TypeOK /\ WellFormed(menu)

\* The typing invariant holds at start-up.
LEMMA InitTyped == Init => Typed
<1> SUFFICES ASSUME Init PROVE Typed
  OBVIOUS
<1>1. menu \in MenuType /\ WellFormed(menu)
  BY InitialMenuType DEF Init, WellFormed
<1>2. ao1 \in 0 .. MaxWord
  BY VentilationAssumption, Limits16 DEF Init
<1>3. /\ unhandled \in Seq(FieldType) /\ held \in SUBSET Buttons
      /\ status \in [setpoint : Int, speed : Int, auto : BOOLEAN]
  BY DEF Init, NoStatus
<1> QED
  BY <1>1, <1>2, <1>3 DEF Init, Typed, TypeOK

\* A stored value leaves the selection and the edit alone.
LEMMA SetValueWellFormed ==
  ASSUME NEW m, WellFormed(m), NEW p \in Properties, NEW v \in Int
  PROVE  WellFormed(SetValue(m, p, v))
<1> DEFINE n == SetValue(m, p, v)
<1>1. n \in MenuType /\ n.selected = m.selected /\ n.editing = m.editing
  BY SetValueType DEF WellFormed
<1> HIDE DEF n
<1>2. WellFormed(n)
  BY <1>1 DEF WellFormed, Selected
<1> QED
  BY <1>2 DEF n

\* Properties with a menu pointer are properties of the menu.
LEMMA BoundAreProperties == \A p \in Bound : p \in Properties
BY DEF Bound, Properties

\* What onValueChange does to the menu m keeps it well-formed.
LEMMA ValueChangedTyped ==
  ASSUME Typed, NEW m, WellFormed(m), ValueChanged(m)
  PROVE  /\ WellFormed(menu')
         /\ goal' \in Int /\ speed' \in Int /\ multiplier' \in Nat /\ stalls' \in Nat
         /\ ao1' \in 0 .. MaxWord
<1>1. m.old["setpoint"] \in Int /\ m.old["setpoint"] * 10 \in Int
  BY DEF WellFormed, MenuType, Properties
<1>2. WellFormed(SetValue(m, "speed", m.old["setpoint"]))
  BY <1>1, SetValueWellFormed DEF Properties
<1>3. WellFormed(menu')
  BY <1>2 DEF ValueChanged
<1>4. ao1' \in 0 .. MaxWord
  <2>1. ao1' = ao1 \/ WriteAO1(m.old["setpoint"] * 10)
    BY DEF ValueChanged
  <2> QED
    BY <1>1, <2>1, WriteType DEF Typed, TypeOK
<1>5. goal' \in Int /\ speed' \in Int
  BY <1>1 DEF ValueChanged, Typed, TypeOK, control
<1>6. multiplier' \in Nat /\ stalls' \in Nat
  BY DEF ValueChanged, Typed, TypeOK, DefaultMultiplier, control
<1> QED
  BY <1>3, <1>4, <1>5, <1>6

\* Each step of the program keeps the types.
LEMMA TypedStep == Typed /\ [Next]_vars => Typed'
<1> SUFFICES ASSUME Typed, [Next]_vars PROVE Typed'
  OBVIOUS
<1> USE DEF Typed, TypeOK
<1>0. menu \in MenuType
  OBVIOUS
<1>1. ASSUME NEW msg \in Messages, Deliver(msg) PROVE Typed'
  BY <1>1, MessagesAssumption DEF Deliver, buttons, control
<1>2. CASE SetMode
  <2>1. /\ unhandled # <<>>
        /\ unhandled' = Tail(unhandled)
        /\ menu' = SetValue(menu, "mode", Head(unhandled).value)
        /\ UNCHANGED <<phase, buttons, elapsed, status, control, ao1>>
    BY <1>2 DEF SetMode, Field
  <2>2. WellFormed(menu')
    BY <2>1, FieldIsTyped, SetValueWellFormed DEF Properties
  <2> QED
    BY <2>1, <2>2, FieldIsTyped DEF WellFormed, buttons, control
<1>3. CASE SetGoal
  <2>1. /\ unhandled # <<>>
        /\ unhandled' = Tail(unhandled)
        /\ menu' = SetValue(menu, "setpoint", Head(unhandled).value)
        /\ goal' = Head(unhandled).value /\ multiplier' = 10 /\ stalls' = 0
        /\ UNCHANGED <<phase, buttons, elapsed, status, speed, ao1>>
    BY <1>3 DEF SetGoal, Field, DefaultMultiplier
  <2>2. WellFormed(menu')
    BY <2>1, FieldIsTyped, SetValueWellFormed DEF Properties
  <2> QED
    BY <2>1, <2>2, FieldIsTyped DEF WellFormed, buttons
<1>4. CASE SetSpeed
  <2> DEFINE v == Head(unhandled).value
  <2>1. /\ unhandled # <<>>
        /\ unhandled' = Tail(unhandled)
        /\ menu' = SetValue(SetValue(menu, "speed", v), "setpoint", v)
        /\ speed' = v /\ WriteAO1(v * 10)
        /\ UNCHANGED <<phase, buttons, elapsed, status, goal, multiplier, stalls>>
    BY <1>4 DEF SetSpeed, Field
  <2>2. v \in Int /\ v * 10 \in Int
    BY <2>1, FieldIsTyped
  <2> HIDE DEF v
  <2>3. WellFormed(SetValue(menu, "speed", v))
    BY <2>2, SetValueWellFormed DEF Properties
  <2>4. WellFormed(menu')
    BY <2>1, <2>2, <2>3, SetValueWellFormed DEF Properties
  <2> QED
    BY <2>1, <2>2, <2>4, FieldIsTyped, WriteType DEF WellFormed, buttons
<1>5. CASE SkipField
  BY <1>5, FieldIsTyped DEF SkipField, Field, buttons, control
<1>6. CASE PollDone
  BY <1>6 DEF PollDone, At, buttons, control
<1>7. CASE NoResponse
  BY <1>7 DEF NoResponse, Sensed, At, buttons, control
<1>8. ASSUME NEW reading \in Readings, Sensed, Measured(reading),
             goal' \in Int, speed' \in Int, multiplier' \in Nat, stalls' \in Nat,
             ao1' \in 0 .. MaxWord
      PROVE  Typed'
  <2>1. WellFormed(menu')
    BY <1>8, ScaledType, SetValueWellFormed DEF Measured, Properties
  <2> QED
    BY <1>8, <2>1 DEF Sensed, At, buttons, WellFormed
<1>9. ASSUME NEW reading \in Readings, SenseManual(reading) PROVE Typed'
  BY <1>8, <1>9 DEF SenseManual, control
<1>10. ASSUME NEW reading \in Readings, SwitchOff(reading) PROVE Typed'
  <2>1. ao1' \in 0 .. MaxWord
    BY <1>10, WriteType DEF SwitchOff
  <2> QED
    BY <1>8, <1>10, <2>1 DEF SwitchOff, control
<1>11. ASSUME NEW reading \in Readings, Regulate(reading) PROVE Typed'
  <2>1. Scaled(reading) \in Int /\ Truncate(Scaled(reading), Pa) \in Int
    BY ScaledType
  <2>2. speed' \in 0 .. MaxRPM /\ speed' \in Int /\ speed' \div 10 \in Int
    <3>1. Change(multiplier, reading, goal) \in Int
      BY <1>11, ChangeInteger DEF Regulate
    <3>2. speed + Change(multiplier, reading, goal) \in Int
      BY <3>1
    <3>3. speed' \in 0 .. MaxRPM
      BY <1>11, <3>2, ClampRPMType DEF Regulate
    <3> QED
      BY <3>3, VentilationAssumption, Limits16
  <2>3. ao1' \in 0 .. MaxWord
    BY <1>11, <2>2, WriteType DEF Regulate
  <2>4. multiplier' \in Nat /\ stalls' \in Nat
    <3>1. PICK off \in OffTarget(reading, goal) : CountStall(off)
      BY <1>11 DEF Regulate
    <3>2. Halve(multiplier) \in Nat
      BY HalveType
    <3> QED
      BY <3>1, <3>2, CountStallCases
  <2>5. WellFormed(SetValue(menu, "pressure", Truncate(Scaled(reading), Pa)))
    BY <2>1, SetValueWellFormed DEF Properties
  <2>6. WellFormed(menu')
    BY <1>11, <2>2, <2>5, SetValueWellFormed DEF Regulate, Properties
  <2> QED
    BY <1>11, <2>2, <2>3, <2>4, <2>6 DEF Regulate, Sensed, At, buttons, WellFormed
<1>12. CASE Report
  <2>1. StatusOf(menu) \in [setpoint : Int, speed : Int, auto : BOOLEAN]
    BY <1>0 DEF StatusOf, MenuType, Properties
  <2> QED
    BY <1>12, <2>1 DEF Report, At, buttons, control
<1>13. ASSUME NEW r \in SensorReadings, PublishDone(r[1], r[2], r[3]) PROVE Typed'
  <2>1. r[1] \in Int /\ r[2] \in Int /\ r[3] \in Int
    BY VentilationAssumption
  <2>2. WellFormed(menu')
    BY <1>13, <2>1, UpdateType DEF PublishDone, WellFormed, Selected
  <2>3. NoStatus \in [setpoint : Int, speed : Int, auto : BOOLEAN]
    BY DEF NoStatus
  <2> QED
    BY <1>13, <2>2, <2>3 DEF PublishDone, At, buttons, control, WellFormed
<1>14. ASSUME NEW down \in BOOLEAN, ReadButton(down) PROVE Typed'
  <2> DEFINE b == ButtonOrder[scan]
  <2>1. b \in Buttons
    BY DEF ButtonOrder, Buttons
  <2>2. WellFormed(Send(menu, b))
    BY <2>1, SendWellFormed
  <2>3. /\ WellFormed(menu')
        /\ goal' \in Int /\ speed' \in Int /\ multiplier' \in Nat /\ stalls' \in Nat
        /\ ao1' \in 0 .. MaxWord
    <3>1. \/ ValueChanged(Send(menu, b))
          \/ menu' \in {menu, Send(menu, b)} /\ UNCHANGED <<control, ao1>>
      BY <1>14 DEF ReadButton
    <3>2. CASE ValueChanged(Send(menu, b))
      BY <2>2, <3>2, ValueChangedTyped
    <3>3. CASE menu' \in {menu, Send(menu, b)} /\ UNCHANGED <<control, ao1>>
      BY <2>2, <3>3 DEF control
    <3> QED BY <3>1, <3>2, <3>3
  <2>4. held' \in SUBSET Buttons /\ scan' \in 1 .. 4
    BY <1>14, <2>1 DEF ReadButton, Hold
  <2>5. /\ phase' \in {"poll", "buttons"}
        /\ unhandled' = unhandled /\ elapsed' = elapsed /\ status' = status
    BY <1>14 DEF ReadButton
  <2> QED
    BY <2>3, <2>4, <2>5 DEF WellFormed
<1>15. CASE UNCHANGED vars
  BY <1>15 DEF vars, WellFormed
<1> QED
  BY <1>1, <1>2, <1>3, <1>4, <1>5, <1>6, <1>7, <1>9, <1>10, <1>11, <1>12, <1>13, <1>14, <1>15
  DEF Next, HandleField, Sense, FinishPublish, Scan

\* Every variable keeps its type, whatever settings arrive: in particular the
\* menu never edits a constant property and never selects outside the list.
THEOREM TypeCorrect == Spec => []TypeOK
<1>1. Typed => TypeOK
  BY DEF Typed
<1> QED
  BY <1>1, InitTyped, TypedStep, PTL DEF Spec

\* What TypeCorrect keeps in every reachable state.
LEMMA TypedAlways == Spec => []Typed
BY InitTyped, TypedStep, PTL DEF Spec

-----------------------------------------------------------------------------
(* The multiplier and the stall count *)

\* goal, multiplier and stalls change in three ways only.
LEMMA ControlChanges ==
  ASSUME Typed, [Next]_vars
  PROVE  \/ UNCHANGED <<goal, multiplier, stalls>>
         \/ multiplier' = 10 /\ stalls' = 0
         \/ /\ goal > 0 /\ goal' = goal
            /\ \E off : CountStall(off)
<1>1. ASSUME NEW reading \in Readings, Regulate(reading)
      PROVE  goal > 0 /\ goal' = goal /\ \E off : CountStall(off)
  BY <1>1 DEF Regulate
<1>2. ASSUME NEW m, ValueChanged(m)
      PROVE  UNCHANGED <<goal, multiplier, stalls>> \/ (multiplier' = 10 /\ stalls' = 0)
  BY <1>2 DEF ValueChanged, control, DefaultMultiplier
<1>3. ASSUME NEW down, ReadButton(down)
      PROVE  UNCHANGED <<goal, multiplier, stalls>> \/ (multiplier' = 10 /\ stalls' = 0)
  BY <1>2, <1>3 DEF ReadButton, control
<1>4. ASSUME NEW msg, Deliver(msg) PROVE UNCHANGED <<goal, multiplier, stalls>>
  BY <1>4 DEF Deliver, control
<1>5. CASE SetGoal
  BY <1>5 DEF SetGoal, DefaultMultiplier
<1>6. CASE SetMode \/ SetSpeed \/ SkipField \/ PollDone \/ NoResponse \/ Report
  BY <1>6 DEF SetMode, SetSpeed, SkipField, PollDone, NoResponse, Report, control
<1>7. ASSUME NEW reading, SenseManual(reading) \/ SwitchOff(reading)
      PROVE  UNCHANGED <<goal, multiplier, stalls>>
  BY <1>7 DEF SenseManual, SwitchOff, control
<1>8. ASSUME NEW t, NEW c, NEW r, PublishDone(t, c, r) PROVE UNCHANGED <<goal, multiplier, stalls>>
  BY <1>8 DEF PublishDone, control
<1>9. CASE UNCHANGED vars
  BY <1>9 DEF vars
<1> QED
  BY <1>1, <1>3, <1>4, <1>5, <1>6, <1>7, <1>8, <1>9
  DEF Next, HandleField, Sense, FinishPublish, Scan

\* No step leaves a positive goal with a multiplier below 2.
LEMMA ArmedStep == Typed /\ MultiplierArmed /\ [Next]_vars => MultiplierArmed'
<1> SUFFICES ASSUME Typed, MultiplierArmed, [Next]_vars PROVE MultiplierArmed'
  OBVIOUS
<1>1. CASE UNCHANGED <<goal, multiplier, stalls>>
  BY <1>1 DEF MultiplierArmed
<1>2. CASE multiplier' = 10 /\ stalls' = 0
  BY <1>2 DEF MultiplierArmed
<1>3. CASE /\ goal > 0 /\ goal' = goal
           /\ \E off : CountStall(off)
  <2>1. multiplier' = multiplier \/ multiplier' = Halve(multiplier)
    BY <1>3, CountStallCases
  <2>2. multiplier \in {2, 3, 5, 10} /\ Halve(multiplier) \in {2, 3, 5}
    BY <1>3, HalveType DEF MultiplierArmed, Typed, TypeOK
  <2> QED
    BY <2>1, <2>2 DEF MultiplierArmed
<1> QED
  BY <1>1, <1>2, <1>3, ControlChanges

\* For all message sequences, also incomplete and out-of-range ones: whenever
\* there is a positive goal the multiplier of the regulation is 10, 5, 3 or 2.
THEOREM MultiplierAlwaysArmed == Spec => []MultiplierArmed
<1>1. Init => MultiplierArmed
  BY DEF Init, MultiplierArmed
<1> QED
  BY <1>1, ArmedStep, TypedAlways, PTL DEF Spec

\* No step counts stalls beyond the limit.
LEMMA StallsStep == Typed /\ StallsBounded /\ [Next]_vars => StallsBounded'
<1> SUFFICES ASSUME Typed, StallsBounded, [Next]_vars PROVE StallsBounded'
  OBVIOUS
<1>1. CASE stalls' = stalls
  BY <1>1 DEF StallsBounded
<1>2. CASE stalls' = 0
  BY <1>2, VentilationAssumption DEF StallsBounded
<1>3. CASE stalls' = stalls + 1 /\ ~(stalls + 1 > StallLimit)
  BY <1>3, VentilationAssumption DEF StallsBounded, Typed, TypeOK
<1> QED
  BY <1>1, <1>2, <1>3, ControlChanges, CountStallCases

\* The stall counter never passes its limit, so it cannot overflow.
THEOREM StallsAlwaysBounded == Spec => []StallsBounded
<1>1. Init => StallsBounded
  BY VentilationAssumption DEF Init, StallsBounded
<1> QED
  BY <1>1, StallsStep, TypedAlways, PTL DEF Spec

-----------------------------------------------------------------------------
(* The setpoint is in force *)

\* Between two callbacks: AutoGoalInForce and ManualOutputInForce without their
\* first condition; a fan that may lose a write keeps the output out.
Settled ==
  IF Automatic
  THEN goal = Value("setpoint")
  ELSE /\ Value("speed") = Value("setpoint")
       /\ LostWrites \/ ao1 = Word(Value("setpoint") * 10)

\* In the middle of a message, the fields still to come must bring back what
\* the field already handled has disturbed.
Midway ==
  \/ \E v : unhandled = <<PressureField(v)>> /\ Automatic
  \/ unhandled = <<AutoField(1)>> /\ goal = Value("setpoint")
  \/ \E v : unhandled = <<SpeedField(v)>> /\ ~Automatic
  \/ /\ unhandled = <<AutoField(0)>>
     /\ Value("speed") = Value("setpoint")
     /\ LostWrites \/ ao1 = Word(Value("setpoint") * 10)

InForce == (unhandled \in DocumentedMessages \cup {<<>>} /\ Settled) \/ Midway

\* A write that cannot be lost is in the register.
LEMMA WriteExact ==
  ASSUME NEW v, WriteAO1(v)
  PROVE  LostWrites \/ ao1' = Word(v)
BY VentilationAssumption DEF WriteAO1

\* A documented message has two fields, one for the mode and one for the value.
LEMMA DocumentedShape ==
  ASSUME unhandled \in DocumentedMessages
  PROVE  \E v \in 0 .. SetpointMax :
           \/ unhandled = <<AutoField(1), PressureField(v)>>
           \/ unhandled = <<PressureField(v), AutoField(1)>>
           \/ unhandled = <<AutoField(0), SpeedField(v)>>
           \/ unhandled = <<SpeedField(v), AutoField(0)>>
BY DEF DocumentedMessages

\* The first field and the rest of what is being handled.
LEMMA NextField ==
  ASSUME InForce, unhandled # <<>>
  PROVE  \/ /\ Head(unhandled).key = "auto"
            /\ \/ Head(unhandled).value = 1 /\ \E v : Tail(unhandled) = <<PressureField(v)>>
               \/ Head(unhandled).value = 0 /\ \E v : Tail(unhandled) = <<SpeedField(v)>>
               \/ /\ Head(unhandled).value = 1 /\ Tail(unhandled) = <<>>
                  /\ goal = Value("setpoint")
               \/ /\ Head(unhandled).value = 0 /\ Tail(unhandled) = <<>>
                  /\ Value("speed") = Value("setpoint")
                  /\ LostWrites \/ ao1 = Word(Value("setpoint") * 10)
         \/ /\ Head(unhandled).key = "pressure"
            /\ \/ Tail(unhandled) = <<AutoField(1)>>
               \/ Tail(unhandled) = <<>> /\ Automatic
         \/ /\ Head(unhandled).key = "speed"
            /\ \/ Tail(unhandled) = <<AutoField(0)>>
               \/ Tail(unhandled) = <<>> /\ ~Automatic
<1>1. CASE unhandled \in DocumentedMessages
  <2>1. PICK v \in 0 .. SetpointMax :
           \/ unhandled = <<AutoField(1), PressureField(v)>>
           \/ unhandled = <<PressureField(v), AutoField(1)>>
           \/ unhandled = <<AutoField(0), SpeedField(v)>>
           \/ unhandled = <<SpeedField(v), AutoField(0)>>
    BY <1>1, DocumentedShape
  <2>2. CASE unhandled = <<AutoField(1), PressureField(v)>>
    <3>1. Head(unhandled) = AutoField(1) /\ Tail(unhandled) = <<PressureField(v)>>
      BY <2>2
    <3> QED BY <3>1 DEF AutoField
  <2>3. CASE unhandled = <<PressureField(v), AutoField(1)>>
    <3>1. Head(unhandled) = PressureField(v) /\ Tail(unhandled) = <<AutoField(1)>>
      BY <2>3
    <3> QED BY <3>1 DEF PressureField
  <2>4. CASE unhandled = <<AutoField(0), SpeedField(v)>>
    <3>1. Head(unhandled) = AutoField(0) /\ Tail(unhandled) = <<SpeedField(v)>>
      BY <2>4
    <3> QED BY <3>1 DEF AutoField
  <2>5. CASE unhandled = <<SpeedField(v), AutoField(0)>>
    <3>1. Head(unhandled) = SpeedField(v) /\ Tail(unhandled) = <<AutoField(0)>>
      BY <2>5
    <3> QED BY <3>1 DEF SpeedField
  <2> QED BY <2>1, <2>2, <2>3, <2>4, <2>5
<1>2. CASE Midway
  <2>1. CASE \E v : unhandled = <<PressureField(v)>> /\ Automatic
    <3>1. PICK v : unhandled = <<PressureField(v)>> /\ Automatic
      BY <2>1
    <3>2. Head(unhandled) = PressureField(v) /\ Tail(unhandled) = <<>>
      BY <3>1
    <3> QED BY <3>1, <3>2 DEF PressureField
  <2>2. CASE unhandled = <<AutoField(1)>> /\ goal = Value("setpoint")
    <3>1. Head(unhandled) = AutoField(1) /\ Tail(unhandled) = <<>>
      BY <2>2
    <3> QED BY <2>2, <3>1 DEF AutoField
  <2>3. CASE \E v : unhandled = <<SpeedField(v)>> /\ ~Automatic
    <3>1. PICK v : unhandled = <<SpeedField(v)>> /\ ~Automatic
      BY <2>3
    <3>2. Head(unhandled) = SpeedField(v) /\ Tail(unhandled) = <<>>
      BY <3>1
    <3> QED BY <3>1, <3>2 DEF SpeedField
  <2>4. CASE /\ unhandled = <<AutoField(0)>>
             /\ Value("speed") = Value("setpoint")
             /\ LostWrites \/ ao1 = Word(Value("setpoint") * 10)
    <3>1. Head(unhandled) = AutoField(0) /\ Tail(unhandled) = <<>>
      BY <2>4
    <3> QED BY <2>4, <3>1 DEF AutoField
  <2> QED BY <1>2, <2>1, <2>2, <2>3, <2>4 DEF Midway
<1> QED
  BY <1>1, <1>2 DEF InForce

\* What setValue puts in force, property by property.
LEMMA StoredValue ==
  ASSUME NEW m \in MenuType, NEW p \in {"mode", "setpoint", "speed"}, NEW v \in Int
  PROVE  /\ SetValue(m, p, v) \in MenuType
         /\ \A q \in {"mode", "setpoint", "speed"} :
              SetValue(m, p, v).old[q] = IF q = p THEN v ELSE m.old[q]
<1>1. p \in Properties
  BY DEF Properties
<1>2. SetValue(m, p, v) \in MenuType /\ SetValue(m, p, v).old = [m.old EXCEPT ![p] = v]
  BY <1>1, SetValueType
<1> QED
  BY <1>2 DEF MenuType, Properties

\* The three values that Settled is about, and the rest of it.
LEMMA SettledKept ==
  ASSUME Settled, unhandled = <<>>, unhandled' = <<>>,
         UNCHANGED <<goal, ao1>>,
         menu'.old["mode"] = menu.old["mode"],
         menu'.old["setpoint"] = menu.old["setpoint"],
         menu'.old["speed"] = menu.old["speed"]
  PROVE  InForce'
BY DEF Settled, Automatic, Value, InForce

\* One field of a documented message, handled.
LEMMA FieldInForce ==
  ASSUME Typed, InForce, HandleField
  PROVE  InForce'
<1> DEFINE f == Head(unhandled)
           v == f.value
<1>1. unhandled # <<>> /\ unhandled' = Tail(unhandled)
  BY DEF HandleField, SetMode, SetGoal, SetSpeed, SkipField, Field
<1>2. v \in Int /\ v * 10 \in Int /\ menu \in MenuType
  BY <1>1, FieldIsTyped DEF Typed, TypeOK
<1>next.
      \/ /\ f.key = "auto"
         /\ \/ v = 1 /\ \E w : Tail(unhandled) = <<PressureField(w)>>
            \/ v = 0 /\ \E w : Tail(unhandled) = <<SpeedField(w)>>
            \/ v = 1 /\ Tail(unhandled) = <<>> /\ goal = Value("setpoint")
            \/ /\ v = 0 /\ Tail(unhandled) = <<>>
               /\ Value("speed") = Value("setpoint")
               /\ LostWrites \/ ao1 = Word(Value("setpoint") * 10)
      \/ /\ f.key = "pressure"
         /\ Tail(unhandled) = <<AutoField(1)>> \/ (Tail(unhandled) = <<>> /\ Automatic)
      \/ /\ f.key = "speed"
         /\ Tail(unhandled) = <<AutoField(0)>> \/ (Tail(unhandled) = <<>> /\ ~Automatic)
  BY <1>1, NextField
<1> HIDE DEF f, v
<1>4. CASE SetMode
  <2>1. /\ f.key = "auto" /\ menu' = SetValue(menu, "mode", v)
        /\ UNCHANGED <<goal, ao1>>
    BY <1>4 DEF SetMode, Field, control, f, v
  <2>2. /\ Value("mode")' = v
        /\ Value("setpoint")' = Value("setpoint") /\ Value("speed")' = Value("speed")
    BY <1>2, <2>1, StoredValue DEF Value
  <2>3. CASE v = 1 /\ \E w : Tail(unhandled) = <<PressureField(w)>>
    BY <1>1, <2>2, <2>3 DEF InForce, Midway, Automatic
  <2>4. CASE v = 0 /\ \E w : Tail(unhandled) = <<SpeedField(w)>>
    BY <1>1, <2>2, <2>4 DEF InForce, Midway, Automatic
  <2>5. CASE v = 1 /\ Tail(unhandled) = <<>> /\ goal = Value("setpoint")
    BY <1>1, <2>1, <2>2, <2>5 DEF InForce, Settled, Automatic
  <2>6. CASE /\ v = 0 /\ Tail(unhandled) = <<>>
             /\ Value("speed") = Value("setpoint")
             /\ LostWrites \/ ao1 = Word(Value("setpoint") * 10)
    BY <1>1, <2>1, <2>2, <2>6 DEF InForce, Settled, Automatic
  <2> QED
    BY <1>1, <2>1, <2>3, <2>4, <2>5, <2>6, <1>next
<1>5. CASE SetGoal
  <2>1. /\ f.key = "pressure" /\ menu' = SetValue(menu, "setpoint", v)
        /\ goal' = v
    BY <1>5 DEF SetGoal, Field, f, v
  <2>2. /\ Value("setpoint")' = v /\ Value("mode")' = Value("mode")
    BY <1>2, <2>1, StoredValue DEF Value
  <2>3. CASE Tail(unhandled) = <<AutoField(1)>>
    BY <1>1, <2>1, <2>2, <2>3 DEF InForce, Midway
  <2>4. CASE Tail(unhandled) = <<>> /\ Automatic
    BY <1>1, <2>1, <2>2, <2>4 DEF InForce, Settled, Automatic
  <2> QED
    BY <1>1, <2>1, <2>3, <2>4, <1>next
<1>6. CASE SetSpeed
  <2> DEFINE m1 == SetValue(menu, "speed", v)
  <2>1. /\ f.key = "speed" /\ menu' = SetValue(m1, "setpoint", v)
        /\ WriteAO1(v * 10)
    BY <1>6 DEF SetSpeed, Field, f, v
  <2>2. m1 \in MenuType /\ m1.old["speed"] = v /\ m1.old["mode"] = menu.old["mode"]
    BY <1>2, StoredValue
  <2> HIDE DEF m1
  <2>3. /\ Value("setpoint")' = v /\ Value("speed")' = v
        /\ Value("mode")' = Value("mode")
    BY <1>2, <2>1, <2>2, StoredValue DEF Value
  <2>4. LostWrites \/ ao1' = Word(v * 10)
    BY <2>1, WriteExact
  <2>5. CASE Tail(unhandled) = <<AutoField(0)>>
    BY <1>1, <2>3, <2>4, <2>5 DEF InForce, Midway
  <2>6. CASE Tail(unhandled) = <<>> /\ ~Automatic
    BY <1>1, <2>3, <2>4, <2>6 DEF InForce, Settled, Automatic
  <2> QED
    BY <1>1, <2>1, <2>5, <2>6, <1>next
<1>7. CASE SkipField
  <2>1. f.key = "other"
    BY <1>7 DEF SkipField, Field, f
  <2> QED
    BY <1>1, <2>1, <1>next
<1> QED
  BY <1>4, <1>5, <1>6, <1>7 DEF HandleField

\* A change made on the LCD, m being the menu after the Confirm: if it can
\* concern the setpoint, onValueChange runs and establishes it.
LEMMA ValueChangedInForce ==
  ASSUME NEW m \in MenuType, ValueChanged(m), Settled, unhandled = <<>>, unhandled' = <<>>,
         \/ Selected(m) \in Editable
         \/ m.old = menu.old
  PROVE  InForce'
<1>1. CASE Selected(m) \notin Editable
  <2>1. menu' = m /\ UNCHANGED <<goal, ao1>> /\ m.old = menu.old
    BY <1>1 DEF ValueChanged, Editable, control
  <2> QED
    BY <2>1, SettledKept
<1>2. CASE Selected(m) \in Editable /\ m.old["mode"] # 0
  <2>1. menu' = m /\ goal' = m.old["setpoint"]
    BY <1>2 DEF ValueChanged, Editable
  <2> QED
    BY <1>2, <2>1 DEF InForce, Settled, Automatic, Value
<1>3. CASE Selected(m) \in Editable /\ ~(m.old["mode"] # 0)
  <2> DEFINE v == m.old["setpoint"]
             n == SetValue(m, "speed", v)
  <2>1. menu' = n /\ WriteAO1(v * 10)
    BY <1>3 DEF ValueChanged, Editable
  <2>2. v \in Int
    BY DEF MenuType, Properties
  <2>3. n.old["speed"] = v /\ n.old["setpoint"] = v /\ n.old["mode"] = m.old["mode"]
    BY <2>2, StoredValue
  <2>4. LostWrites \/ ao1' = Word(v * 10)
    BY <2>1, WriteExact
  <2> HIDE DEF v, n
  <2> QED
    BY <1>3, <2>1, <2>3, <2>4 DEF InForce, Settled, Automatic, Value
<1> QED
  BY <1>1, <1>2, <1>3

\* A button either leaves every value in force alone or confirms an edit of the
\* selected property.
LEMMA SendKeepsOrConfirms ==
  ASSUME NEW m, WellFormed(m), NEW event \in Buttons, NEW n, n = Send(m, event)
  PROVE  \/ n.old = m.old
         \/ Notifies(n, event) /\ Selected(n) \in Editable
<1>1. CASE ~m.editing
  BY <1>1, SendBrowsingType DEF WellFormed
<1>2. CASE m.editing /\ event \in {"Up", "Down"}
  BY <1>2, TurnType
<1>3. CASE m.editing /\ event = "Back"
  BY <1>3, BackType
<1>4. CASE m.editing /\ event = "Confirm"
  <2>1. n.selected = m.selected /\ ~n.editing
    BY <1>4, ConfirmType
  <2> QED
    BY <1>4, <2>1 DEF Notifies, Selected, WellFormed
<1> QED
  BY <1>1, <1>2, <1>3, <1>4 DEF Buttons

\* A turn of the regulation keeps settings and output in agreement.
LEMMA SensedInForce ==
  ASSUME Typed, InForce, NEW reading \in Readings,
         SenseManual(reading) \/ SwitchOff(reading) \/ Regulate(reading)
  PROVE  InForce'
<1> DEFINE p == Truncate(Scaled(reading), Pa)
           m1 == SetValue(menu, "pressure", p)
           w == speed' \div 10
<1>1. unhandled = <<>> /\ unhandled' = <<>> /\ Settled
  BY DEF SenseManual, SwitchOff, Regulate, Sensed, At, InForce, Midway
<1>2. p \in Int /\ menu \in MenuType
  BY ScaledType DEF Typed, TypeOK
<1>3. m1 \in MenuType /\ \A q \in {"mode", "setpoint", "speed"} : m1.old[q] = menu.old[q]
  <2>1. m1 \in MenuType /\ m1.old = [menu.old EXCEPT !["pressure"] = p]
    BY <1>2, SetValueType DEF Properties
  <2> QED
    BY <1>2, <2>1 DEF MenuType, Properties
<1> HIDE DEF p, m1
<1>4. CASE SenseManual(reading)
  <2>1. menu' = m1 /\ UNCHANGED <<goal, ao1>>
    BY <1>4 DEF SenseManual, Measured, control, m1, p
  <2> QED
    BY <1>1, <1>3, <2>1, SettledKept
<1>5. CASE SwitchOff(reading)
  <2>1. Automatic /\ menu' = m1 /\ goal' = goal
    BY <1>5 DEF SwitchOff, Measured, control, m1, p
  <2> QED
    BY <1>1, <1>3, <2>1 DEF InForce, Settled, Automatic, Value
<1>6. CASE Regulate(reading)
  <2>1. Automatic /\ menu' = SetValue(m1, "speed", w) /\ goal' = goal /\ goal > 0
    BY <1>6 DEF Regulate, m1, p
  <2>2. speed' \in Int /\ w \in Int
    <3>1. Change(multiplier, reading, goal) \in Int
      BY <2>1, ChangeInteger DEF Typed, TypeOK
    <3>2. speed' \in 0 .. MaxRPM
      BY <1>6, <3>1, ClampRPMType DEF Regulate, Typed, TypeOK
    <3> QED
      BY <3>2, VentilationAssumption, Limits16
  <2> HIDE DEF w
  <2>3. menu'.old["mode"] = m1.old["mode"] /\ menu'.old["setpoint"] = m1.old["setpoint"]
    BY <1>3, <2>1, <2>2, StoredValue
  <2> QED
    BY <1>1, <1>3, <2>1, <2>3 DEF InForce, Settled, Automatic, Value
<1> QED
  BY <1>4, <1>5, <1>6

\* Every step keeps settings and output in agreement.
LEMMA InForceStep ==
  ASSUME Messages \subseteq DocumentedMessages
  PROVE  Typed /\ InForce /\ [Next]_vars => InForce'
<1> SUFFICES ASSUME Typed, InForce, [Next]_vars PROVE InForce'
  OBVIOUS
<1>1. unhandled = <<>> => Settled
  BY DEF InForce, Midway
<1>2. ASSUME NEW msg \in Messages, Deliver(msg) PROVE InForce'
  BY <1>1, <1>2 DEF Deliver, InForce, Settled, Automatic, Value, control
<1>3. CASE HandleField
  BY <1>3, FieldInForce
<1>4. CASE PollDone \/ NoResponse \/ Report
  <2>1. unhandled = <<>> /\ unhandled' = <<>> /\ UNCHANGED <<menu, goal, ao1>>
    BY <1>4 DEF PollDone, NoResponse, Report, Sensed, At, control
  <2> QED
    BY <1>1, <2>1, SettledKept
<1>5. ASSUME NEW reading \in Readings,
             SenseManual(reading) \/ SwitchOff(reading) \/ Regulate(reading)
      PROVE  InForce'
  BY <1>5, SensedInForce
<1>6. ASSUME NEW r \in SensorReadings, PublishDone(r[1], r[2], r[3]) PROVE InForce'
  <2>1. /\ unhandled = <<>> /\ unhandled' = <<>> /\ UNCHANGED <<goal, ao1>>
        /\ menu' = Update(menu, r[1], r[2], r[3])
    BY <1>6 DEF PublishDone, At, control
  <2>2. \A q \in Bound : menu'.old[q] = menu.old[q]
    <3>1. r[1] \in Int /\ r[2] \in Int /\ r[3] \in Int
      BY VentilationAssumption
    <3>2. menu \in MenuType
      BY DEF Typed, TypeOK
    <3> DEFINE t == r[1]
               c == r[2]
               h == r[3]
    <3>3. menu' = Update(menu, t, c, h) /\ t \in Int /\ c \in Int /\ h \in Int
      BY <2>1, <3>1
    <3> HIDE DEF t, c, h
    <3> QED
      BY <3>2, <3>3, UpdateKeepsBound
  <2> QED
    BY <1>1, <2>1, <2>2, SettledKept DEF Bound
<1>7. ASSUME NEW down \in BOOLEAN, ReadButton(down) PROVE InForce'
  <2> DEFINE b == ButtonOrder[scan]
             n == Send(menu, b)
  <2>1. unhandled = <<>> /\ unhandled' = <<>> /\ b \in Buttons /\ WellFormed(menu)
    BY <1>7 DEF ReadButton, At, Typed, TypeOK, ButtonOrder, Buttons
  <2>2. WellFormed(n) /\ (n.old = menu.old \/ (Notifies(n, b) /\ Selected(n) \in Editable))
    BY <2>1, SendWellFormed, SendKeepsOrConfirms
  <2>3. \/ UNCHANGED <<menu, goal, ao1>>
        \/ ~Notifies(n, b) /\ menu' = n /\ UNCHANGED <<goal, ao1>>
        \/ ValueChanged(n)
    BY <1>7 DEF ReadButton, control
  <2> HIDE DEF n, b
  <2>4. CASE UNCHANGED <<menu, goal, ao1>>
    BY <1>1, <2>1, <2>4, SettledKept
  <2>5. CASE ~Notifies(n, b) /\ menu' = n /\ UNCHANGED <<goal, ao1>>
    BY <1>1, <2>1, <2>2, <2>5, SettledKept
  <2>6. CASE ValueChanged(n)
    BY <1>1, <2>1, <2>2, <2>6, ValueChangedInForce DEF WellFormed
  <2> QED
    BY <2>3, <2>4, <2>5, <2>6
<1>8. CASE UNCHANGED vars
  BY <1>8 DEF vars, InForce, Settled, Midway, Automatic, Value
<1> QED
  BY <1>2, <1>3, <1>4, <1>5, <1>6, <1>7, <1>8 DEF Next, Sense, FinishPublish, Scan

\* Settings and output agree throughout, or a message is half handled.
LEMMA InForceAlways ==
  ASSUME Messages \subseteq DocumentedMessages
  PROVE  Spec => []InForce
<1>1. Init => InForce
  <2> SUFFICES ASSUME Init PROVE InForce
    OBVIOUS
  <2>1. \A p \in Properties \ {"temp"} : menu.old[p] = 0
    BY InitialMenuType DEF Init
  <2>2. unhandled = <<>> /\ Value("mode") = 0 /\ Value("speed") = 0 /\ Value("setpoint") = 0
    BY <2>1 DEF Init, Value, Properties
  <2>3. LostWrites \/ ao1 = 0
    BY VentilationAssumption DEF Init
  <2>4. Word(Value("setpoint") * 10) = 0
    BY <2>2, WordFits, Limits16
  <2> QED
    BY <2>2, <2>3, <2>4 DEF InForce, Settled, Automatic
<1> QED
  BY <1>1, InForceStep, TypedAlways, PTL DEF Spec

\* With the documented messages, automatic mode always regulates towards the
\* setpoint in force, whether the LCD or a message set mode and setpoint last.
THEOREM AutoGoalAlwaysInForce ==
  ASSUME Messages \subseteq DocumentedMessages
  PROVE  Spec => []AutoGoalInForce
<1>1. InForce => AutoGoalInForce
  BY DEF InForce, Midway, Settled, AutoGoalInForce
<1> QED
  BY <1>1, InForceAlways, PTL

\* In addition, when no write is lost, the fan in manual mode runs at the
\* setpoint in force and the reported speed says so.
THEOREM ManualOutputAlwaysInForce ==
  ASSUME Messages \subseteq DocumentedMessages, LostWrites = FALSE
  PROVE  Spec => []ManualOutputInForce
<1>1. InForce /\ Typed => ManualOutputInForce
  <2> SUFFICES ASSUME InForce, Typed, unhandled = <<>>, ~Automatic
               PROVE  ao1 = Word(10 * Value("setpoint")) /\ Value("speed") = Value("setpoint")
    BY DEF ManualOutputInForce
  <2>1. Value("speed") = Value("setpoint") /\ ao1 = Word(Value("setpoint") * 10)
    BY DEF InForce, Midway, Settled
  <2>2. Value("setpoint") \in Int
    BY DEF Value, Typed, TypeOK, MenuType, Properties
  <2>3. Value("setpoint") * 10 = 10 * Value("setpoint")
    BY <2>2
  <2> QED
    BY <2>1, <2>3
<1> QED
  BY <1>1, InForceAlways, TypedAlways, PTL

\* The status is a snapshot of one moment, taken between two messages, so it
\* stays consistent whatever is delivered while it is being published.
THEOREM StatusAlwaysConsistent ==
  ASSUME Messages \subseteq DocumentedMessages
  PROVE  Spec => []StatusConsistent
<1>1. Init => StatusConsistent
  BY DEF Init, StatusConsistent
<1>2. InForce /\ StatusConsistent /\ [Next]_vars => StatusConsistent'
  <2> SUFFICES ASSUME InForce, StatusConsistent, [Next]_vars PROVE StatusConsistent'
    OBVIOUS
  <2>1. CASE Report
    <3>1. unhandled = <<>> /\ status' = StatusOf(menu)
      BY <2>1 DEF Report, At
    <3>2. Automatic \/ Value("speed") = Value("setpoint")
      BY <3>1 DEF InForce, Midway, Settled
    <3>3. status'.auto = Automatic
          /\ status'.speed = Value("speed") /\ status'.setpoint = Value("setpoint")
      BY Zenon, <3>1 DEF StatusOf, Automatic, Value
    <3> QED
      BY <3>2, <3>3 DEF StatusConsistent
  <2>2. CASE phase' # "publish"
    BY <2>2 DEF StatusConsistent
  <2>3. CASE UNCHANGED <<phase, status>>
    BY <2>3 DEF StatusConsistent
  <2> QED
    BY <2>1, <2>2, <2>3
    DEF Next, Deliver, HandleField, SetMode, SetGoal, SetSpeed, SkipField, Field, PollDone,
        Sense, NoResponse, SenseManual, SwitchOff, Regulate, Sensed, FinishPublish, PublishDone,
        Scan, ReadButton, vars
<1> QED
  BY <1>1, <1>2, InForceAlways, PTL DEF Spec

-----------------------------------------------------------------------------
(* The output is in scale *)

\* A field that asks for nothing outside the ranges of mode and setpoint.
FieldInRange ==
  [key : {"auto"}, value : {0, 1}] \cup
  [key : {"pressure", "speed", "other"}, value : 0 .. SetpointMax]

\* Every value that can become the output is in its range.
InScale ==
  /\ InRange(menu)
  /\ unhandled \in Seq(FieldInRange)
  /\ speed \in 0 .. MaxRPM
  /\ ao1 \in 0 .. MaxRPM \/ ao1 \in 0 .. 10 * SetpointMax

\* A setpoint within its range is written as ten times itself.
LEMMA WriteSetpoint ==
  ASSUME NEW v \in 0 .. SetpointMax, 10 * SetpointMax <= MaxWord, WriteAO1(v * 10)
  PROVE  ao1' = ao1 \/ ao1' \in 0 .. 10 * SetpointMax
<1>1. v * 10 \in 0 .. MaxWord /\ v * 10 \in 0 .. 10 * SetpointMax
  BY SetpointAssumption, Limits16
<1>2. ao1' = ao1 \/ ao1' = Word(v * 10)
  BY VentilationAssumption DEF WriteAO1
<1> QED
  BY <1>1, <1>2, WordFits

\* A regulated speed is written as it is.
LEMMA WriteSpeed ==
  ASSUME NEW v \in 0 .. MaxRPM, WriteAO1(v)
  PROVE  ao1' = ao1 \/ ao1' = v
<1>1. v \in 0 .. MaxWord
  BY VentilationAssumption, Limits16
<1>2. ao1' = ao1 \/ ao1' = Word(v)
  BY VentilationAssumption DEF WriteAO1
<1> QED
  BY <1>1, <1>2, WordFits

\* A value in range can be stored in either setting, any value in the others.
LEMMA StoreInRange ==
  ASSUME NEW m \in MenuType, InRange(m), NEW p \in Properties, NEW v \in Int,
         p \in Editable => v \in Low(p) .. High(p)
  PROVE  SetValue(m, p, v) \in MenuType /\ InRange(SetValue(m, p, v))
<1> DEFINE n == SetValue(m, p, v)
<1>1. /\ n \in MenuType
      /\ n.old = [m.old EXCEPT ![p] = v]
      /\ n.value = m.value \/ n.value = [m.value EXCEPT ![p] = v]
  BY DEF SetValue, MenuType
<1> HIDE DEF n
<1>2. \A q \in Editable : q \in Properties
  BY LimitsType
<1>3. InRange(n)
  BY <1>1, <1>2 DEF InRange, MenuType
<1> QED
  BY <1>1, <1>3 DEF n

\* The setpoint's range in the menu is the range of documented goals.
LEMMA SetpointRange == Low("setpoint") .. High("setpoint") = 0 .. SetpointMax
                       /\ Low("mode") .. High("mode") = 0 .. 1
BY DEF Low, High

\* The field handled next carries a value within the setpoint's range.
LEMMA NextInRange ==
  ASSUME unhandled \in Seq(FieldInRange), unhandled # <<>>
  PROVE  /\ Tail(unhandled) \in Seq(FieldInRange)
         /\ Head(unhandled).value \in Int
         /\ Head(unhandled).key = "auto" => Head(unhandled).value \in 0 .. 1
         /\ Head(unhandled).key \in {"pressure", "speed"} => Head(unhandled).value \in 0 .. SetpointMax
<1>1. Head(unhandled) \in FieldInRange /\ Tail(unhandled) \in Seq(FieldInRange)
  OBVIOUS
<1> QED
  BY <1>1, SetpointAssumption DEF FieldInRange

\* A change made on the LCD leaves everything in its range.
LEMMA ValueChangedInScale ==
  ASSUME InScale, SetpointMax <= MaxRPM, 10 * SetpointMax <= MaxWord,
         NEW m \in MenuType, InRange(m), ValueChanged(m), unhandled' = unhandled
  PROVE  InScale'
<1> DEFINE v == m.old["setpoint"]
           n == SetValue(m, "speed", v)
<1>1. v \in 0 .. SetpointMax
  BY SetpointRange DEF InRange, Editable
<1>2. v \in Int /\ v \in 0 .. MaxRPM
  BY <1>1, SetpointAssumption, VentilationAssumption, Limits16
<1>3. InRange(n)
  BY <1>2, StoreInRange DEF Properties, Editable
<1>4. CASE menu' = m /\ speed' = speed /\ ao1' = ao1
  BY <1>4 DEF InScale
<1>5. CASE menu' = n /\ speed' = v /\ WriteAO1(v * 10)
  <2> HIDE DEF v, n
  <2>1. ao1' = ao1 \/ ao1' \in 0 .. 10 * SetpointMax
    BY <1>1, <1>5, WriteSetpoint
  <2> QED
    BY <1>2, <1>3, <1>5, <2>1 DEF InScale
<1> QED
  BY <1>4, <1>5 DEF ValueChanged, control

\* Every step keeps speed, setpoint and output within the scale.
LEMMA InScaleStep ==
  ASSUME Messages \subseteq Seq(FieldInRange), SetpointMax <= MaxRPM, 10 * SetpointMax <= MaxWord
  PROVE  Typed /\ InScale /\ [Next]_vars => InScale'
<1> SUFFICES ASSUME Typed, InScale, [Next]_vars PROVE InScale'
  OBVIOUS
<1>0. menu \in MenuType /\ InRange(menu) /\ WellFormed(menu)
  BY DEF Typed, TypeOK, InScale
<1>1. ASSUME NEW msg \in Messages, Deliver(msg) PROVE InScale'
  BY <1>1 DEF Deliver, InScale, control
<1>2. CASE HandleField
  <2> DEFINE v == Head(unhandled).value
             k == Head(unhandled).key
             m1 == SetValue(menu, "speed", v)
  <2>1. unhandled # <<>> /\ unhandled' = Tail(unhandled)
    BY <1>2 DEF HandleField, SetMode, SetGoal, SetSpeed, SkipField, Field
  <2>2. /\ unhandled' \in Seq(FieldInRange)
        /\ v \in Int
        /\ k = "auto" => v \in 0 .. 1
        /\ k \in {"pressure", "speed"} => v \in 0 .. SetpointMax
    BY <2>1, NextInRange DEF InScale
  <2> HIDE DEF v, k
  <2>3. CASE SetMode
    <3>1. k = "auto" /\ menu' = SetValue(menu, "mode", v) /\ UNCHANGED <<speed, ao1>>
      BY <2>3 DEF SetMode, Field, control, v, k
    <3>2. InRange(menu')
      BY <1>0, <2>2, <3>1, SetpointRange, StoreInRange DEF Properties
    <3> QED
      BY <2>2, <3>1, <3>2 DEF InScale
  <2>4. CASE SetGoal
    <3>1. k = "pressure" /\ menu' = SetValue(menu, "setpoint", v) /\ UNCHANGED <<speed, ao1>>
      BY <2>4 DEF SetGoal, Field, v, k
    <3>2. InRange(menu')
      BY <1>0, <2>2, <3>1, SetpointRange, StoreInRange DEF Properties
    <3> QED
      BY <2>2, <3>1, <3>2 DEF InScale
  <2>5. CASE SetSpeed
    <3>1. /\ k = "speed" /\ menu' = SetValue(m1, "setpoint", v)
          /\ speed' = v /\ WriteAO1(v * 10)
      BY <2>5 DEF SetSpeed, Field, v, k
    <3>2. v \in 0 .. SetpointMax
      BY <2>2, <3>1
    <3>3. speed' \in 0 .. MaxRPM
      BY <3>1, <3>2, SetpointAssumption, VentilationAssumption, Limits16
    <3>4. ao1' = ao1 \/ ao1' \in 0 .. 10 * SetpointMax
      BY <3>1, <3>2, WriteSetpoint
    <3>5. m1 \in MenuType /\ InRange(m1)
      BY <1>0, <2>2, StoreInRange DEF Properties, Editable
    <3> HIDE DEF m1
    <3>6. InRange(menu')
      BY <2>2, <3>1, <3>2, <3>5, SetpointRange, StoreInRange DEF Properties
    <3> QED
      BY <2>2, <3>3, <3>4, <3>6 DEF InScale
  <2>6. CASE SkipField
    BY <2>2, <2>6 DEF SkipField, InScale, control
  <2> QED
    BY <1>2, <2>3, <2>4, <2>5, <2>6 DEF HandleField
<1>3. CASE PollDone \/ NoResponse \/ Report
  BY <1>3 DEF PollDone, NoResponse, Report, Sensed, At, InScale, control
<1>4. ASSUME NEW reading \in Readings,
             SenseManual(reading) \/ SwitchOff(reading) \/ Regulate(reading)
      PROVE  InScale'
  <2> DEFINE p == Truncate(Scaled(reading), Pa)
             m1 == SetValue(menu, "pressure", p)
             w == speed' \div 10
  <2>1. m1 \in MenuType /\ InRange(m1)
    BY <1>0, ScaledType, StoreInRange DEF Properties, Editable
  <2>2. unhandled' = unhandled
    BY <1>4 DEF SenseManual, SwitchOff, Regulate, Sensed, At
  <2> HIDE DEF p, m1
  <2>3. CASE SenseManual(reading)
    BY <2>1, <2>2, <2>3 DEF SenseManual, Measured, control, InScale, m1, p
  <2>4. CASE SwitchOff(reading)
    <3>1. 0 \in 0 .. MaxRPM
      BY VentilationAssumption, Limits16
    <3>2. ao1' = ao1 \/ ao1' = 0
      BY <2>4, <3>1, WriteSpeed DEF SwitchOff
    <3> QED
      BY <2>1, <2>2, <2>4, <3>1, <3>2 DEF SwitchOff, Measured, control, InScale, m1, p
  <2>5. CASE Regulate(reading)
    <3>1. menu' = SetValue(m1, "speed", w) /\ goal > 0 /\ WriteAO1(speed')
      BY <2>5 DEF Regulate, m1, p
    <3>2. Change(multiplier, reading, goal) \in Int
      BY <3>1, ChangeInteger DEF Typed, TypeOK
    <3>3. speed' \in 0 .. MaxRPM
      BY <2>5, <3>2, ClampRPMType DEF Regulate, Typed, TypeOK
    <3>4. w \in Int
      BY <3>3, VentilationAssumption, Limits16
    <3>5. ao1' = ao1 \/ ao1' = speed'
      BY <3>1, <3>3, WriteSpeed
    <3> HIDE DEF w
    <3>6. InRange(menu')
      BY <2>1, <3>1, <3>4, StoreInRange DEF Properties, Editable
    <3> QED
      BY <2>2, <3>3, <3>5, <3>6 DEF InScale
  <2> QED
    BY <1>4, <2>3, <2>4, <2>5
<1>5. ASSUME NEW r \in SensorReadings, PublishDone(r[1], r[2], r[3]) PROVE InScale'
  <2>1. r[1] \in Int /\ r[2] \in Int /\ r[3] \in Int
    BY VentilationAssumption
  <2>2. menu' = Update(menu, r[1], r[2], r[3])
    BY <1>5 DEF PublishDone
  <2>3. \A q \in Bound : menu'.old[q] = menu.old[q] /\ menu'.value[q] = menu.value[q]
    BY <1>0, <2>1, <2>2, UpdateType
  <2>4. InRange(menu')
    BY <1>0, <2>3 DEF InRange, Editable, Bound
  <2> QED
    BY <1>5, <2>4 DEF PublishDone, At, control, InScale
<1>6. ASSUME NEW down \in BOOLEAN, ReadButton(down) PROVE InScale'
  <2> DEFINE b == ButtonOrder[scan]
             n == Send(menu, b)
  <2>1. unhandled' = unhandled /\ b \in Buttons
    BY <1>6 DEF ReadButton, Typed, TypeOK, ButtonOrder, Buttons
  <2>2. WellFormed(n) /\ InRange(n)
    BY <1>0, <2>1, SendInRange
  <2>3. \/ menu' = menu /\ UNCHANGED <<speed, ao1>>
        \/ menu' = n /\ UNCHANGED <<speed, ao1>>
        \/ ValueChanged(n)
    BY <1>6 DEF ReadButton, control
  <2> HIDE DEF n, b
  <2> QED
    BY <2>1, <2>2, <2>3, ValueChangedInScale DEF InScale, WellFormed
<1>7. CASE UNCHANGED vars
  BY <1>7 DEF vars, InScale
<1> QED
  BY <1>1, <1>2, <1>3, <1>4, <1>5, <1>6, <1>7 DEF Next, Sense, FinishPublish, Scan

\* Speed, setpoint and output stay within the scale throughout.
LEMMA InScaleAlways ==
  ASSUME Messages \subseteq Seq(FieldInRange), SetpointMax <= MaxRPM, 10 * SetpointMax <= MaxWord
  PROVE  Spec => []InScale
<1>1. Init => InScale
  <2> SUFFICES ASSUME Init PROVE InScale
    OBVIOUS
  <2>1. InitialMenu.old = InitialMenu.value /\ \A p \in Editable : InitialMenu.old[p] = 0
    BY InitialMenuType DEF Editable, Properties
  <2>2. \A p \in Editable : 0 \in Low(p) .. High(p)
    BY LimitsType
  <2>3. InRange(menu)
    BY <2>1, <2>2 DEF Init, InRange
  <2>4. ao1 \in 0 .. MaxRPM /\ speed \in 0 .. MaxRPM
    BY VentilationAssumption, Limits16 DEF Init
  <2> QED
    BY <2>3, <2>4 DEF Init, InScale
<1> QED
  BY <1>1, InScaleStep, TypedAlways, PTL DEF Spec

\* The regulation clamps its output and the menu its setpoint: with messages in
\* range, the output leaves the scale only because a setpoint is worth ten times
\* itself as a fan speed.  Where that fits the scale, everything does.
THEOREM OutputAlwaysInScale ==
  ASSUME Messages \subseteq Seq(FieldInRange), 10 * SetpointMax <= MaxRPM
  PROVE  Spec => []OutputInScale
<1>1. SetpointMax <= MaxRPM /\ 10 * SetpointMax <= MaxWord
  BY SetpointAssumption, VentilationAssumption, Limits16
<1>2. InScale => OutputInScale
  BY SetpointAssumption, VentilationAssumption, Limits16 DEF InScale, OutputInScale
<1> QED
  BY <1>1, <1>2, InScaleAlways, PTL

-----------------------------------------------------------------------------
(* Corrections go towards the goal *)

\* Rounding keeps the sign.
LEMMA RoundSign ==
  ASSUME NEW n \in Int, NEW d \in Nat \ {0}
  PROVE  /\ n >= 0 => Round(n, d) >= 0
         /\ n <= 0 => Round(n, d) <= 0
BY DEF Round

\* A product with a non-negative factor has the sign of the other factor.
LEMMA ProductSign ==
  ASSUME NEW k \in Nat, NEW x \in Int
  PROVE  /\ k * x \in Int
         /\ x >= 0 => k * x >= 0
         /\ x <= 0 => k * x <= 0
<1>1. k * x \in Int
  OBVIOUS
<1>2. x >= 0 => k * x >= 0
  BY SMT
<1>3. x <= 0 => k * x <= 0
  BY SMT
<1> QED
  BY <1>1, <1>2, <1>3

\* The sign of a correction is that of the deviation.
LEMMA ChangeSign ==
  ASSUME NEW k \in Nat, NEW reading \in Readings, NEW g \in Int, g > 0
  PROVE  /\ Change(k, reading, g) \in Int
         /\ Scaled(reading) <= g * Pa => Change(k, reading, g) >= 0
         /\ Scaled(reading) >= g * Pa => Change(k, reading, g) <= 0
<1> DEFINE x == g * Pa - Scaled(reading)
           n == k * x
<1>1. x \in Int /\ g * Pa \in Nat \ {0} /\ Scaled(reading) \in Int
  BY ScaledType DEF Pa
<1>2. /\ Scaled(reading) <= g * Pa => x >= 0
      /\ Scaled(reading) >= g * Pa => x <= 0
  BY <1>1
<1>3. Change(k, reading, g) = Round(n, g * Pa)
  BY DEF Change
<1> HIDE DEF x
<1>4. n \in Int /\ (x >= 0 => n >= 0) /\ (x <= 0 => n <= 0)
  BY <1>1, ProductSign
<1> HIDE DEF n
<1> QED
  BY <1>1, <1>2, <1>3, <1>4, RoundSign, RoundType

\* Clamping a sum moves it no further than the correction says.
LEMMA ClampMonotone ==
  ASSUME NEW s \in 0 .. MaxRPM, NEW c \in Int
  PROVE  /\ ClampRPM(s + c) \in 0 .. MaxRPM
         /\ c >= 0 => ClampRPM(s + c) >= s
         /\ c <= 0 => ClampRPM(s + c) <= s
BY VentilationAssumption, Limits16 DEF ClampRPM

\* Once the register follows the regulation, a turn of the loop never slows the
\* fan down while the pressure is too low, nor speeds it up while it is too
\* high, whatever the multiplier has become and also if writes are lost.
THEOREM CorrectionsGoTowardsGoal ==
  ASSUME Messages \subseteq Seq(FieldInRange), SetpointMax <= MaxRPM, 10 * SetpointMax <= MaxWord
  PROVE  Spec => CorrectionTowardsGoal
<1>1. ASSUME Typed, InScale, [Next]_vars
      PROVE  [\A reading \in Readings :
                Regulate(reading) /\ ao1 = speed =>
                  /\ Scaled(reading) <= goal * Pa => ao1' >= ao1
                  /\ Scaled(reading) >= goal * Pa => ao1' <= ao1]_vars
  <2> SUFFICES ASSUME NEW reading \in Readings, Regulate(reading), ao1 = speed
               PROVE  /\ Scaled(reading) <= goal * Pa => ao1' >= ao1
                      /\ Scaled(reading) >= goal * Pa => ao1' <= ao1
    OBVIOUS
  <2> DEFINE c == Change(multiplier, reading, goal)
  <2>1. speed' = ClampRPM(speed + c) /\ WriteAO1(speed') /\ goal > 0
    BY DEF Regulate
  <2>2. /\ c \in Int
        /\ Scaled(reading) <= goal * Pa => c >= 0
        /\ Scaled(reading) >= goal * Pa => c <= 0
    BY <2>1, ChangeSign, <1>1 DEF Typed, TypeOK
  <2> HIDE DEF c
  <2>3. speed \in 0 .. MaxRPM
    BY <1>1 DEF InScale
  <2>4. /\ speed' \in 0 .. MaxRPM
        /\ c >= 0 => speed' >= speed
        /\ c <= 0 => speed' <= speed
    BY <2>1, <2>2, <2>3, ClampMonotone
  <2>5. ao1' = ao1 \/ ao1' = speed'
    BY <2>1, <2>4, WriteSpeed
  <2>6. speed \in Int
    BY <1>1 DEF Typed, TypeOK
  <2> QED
    BY <2>2, <2>4, <2>5, <2>6
<1> QED
  BY <1>1, InScaleAlways, TypedAlways, PTL DEF Spec, CorrectionTowardsGoal
=============================================================================
