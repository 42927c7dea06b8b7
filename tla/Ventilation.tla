----------------------------- MODULE Ventilation -----------------------------
(***************************************************************************)
(* The controller's main loop (main() of ventilation.cpp) with its two     *)
(* callbacks: settings received over MQTT and changes made on the LCD.     *)
(*                                                                         *)
(* One turn of the loop goes through the phases                            *)
(*   poll      Networking::poll(50): settings messages are delivered       *)
(*   sense     read the pressure sensor, regulate the fan                  *)
(*   report    every ReportPeriod: build the status and start publishing   *)
(*   publish   net.publish waits for the broker's acknowledgement; messages *)
(*             that arrive meanwhile are delivered here too                *)
(*   buttons   scan the four LCD buttons                                   *)
(* A settings message is a sequence of fields; the callback handles them   *)
(* one by one, and nothing else runs until it returns (unhandled = <<>>).  *)
(*                                                                         *)
(* A pressure reading is the sensor's int16; the pressure in pascal is     *)
(* reading/240*0.95 = reading*19/4800, here an exact rational.             *)
(***************************************************************************)
EXTENDS Menu, FiniteSets

CONSTANTS
  MaxHeld,         \* bound: how many buttons the user holds down at once
  MaxRPM,          \* full scale of the fan output AO1: 1000 is 10 V
  StallLimit,      \* off-target turns before the multiplier is halved: 60
  StallGoal,       \* goals from here on never count stalls: 50
  ReportPeriod,    \* milliseconds between status reports: 500
  Readings,        \* the pressure readings the sensor may give
  SensorReadings,  \* the <<temp, co2, rh>> the other sensors may give
  Messages,        \* the settings messages that may arrive
  LostWrites       \* TRUE if a Modbus write to the fan may fail

\* A register is 16 bits wide; the sensor's are signed.
MaxWord == 65535
Min16 == -32768
Max16 == 32767

FieldType ==
  [key : {"auto"}, value : {0, 1}] \cup [key : {"pressure", "speed", "other"}, value : Int]

AutoField(a)     == [key |-> "auto", value |-> a]
PressureField(v) == [key |-> "pressure", value |-> v]
SpeedField(v)    == [key |-> "speed", value |-> v]

\* The two kinds of message that the publishers of settings send, their fields
\* in either order: automatic mode with its goal, manual mode with its speed.
DocumentedMessages ==
  UNION {{<<AutoField(1), PressureField(v)>>, <<PressureField(v), AutoField(1)>>,
          <<AutoField(0), SpeedField(v)>>,    <<SpeedField(v), AutoField(0)>>} :
         v \in 0 .. SetpointMax}

ASSUME VentilationAssumption ==
  /\ MaxRPM \in 0 .. MaxWord /\ StallLimit \in Nat /\ StallGoal \in Nat /\ ReportPeriod \in Nat
  /\ Readings \subseteq Min16 .. Max16
  /\ SensorReadings \subseteq Int \X Int \X Int
  /\ LostWrites \in BOOLEAN
  /\ MaxHeld \in Nat

ASSUME MessagesAssumption == Messages \subseteq Seq(FieldType)

VARIABLES
  phase,        \* where in the loop the program is
  unhandled,    \* fields of the message being handled by the settings callback
  menu,         \* the LCD menu with the values of all properties, see Menu
  held, scan,   \* the buttons seen down, and the one to read next
  goal, speed, multiplier, stalls, elapsed,   \* main()'s variables
  ao1,          \* the fan's output register
  status        \* the status being published, NoStatus outside the publish

control == <<goal, speed, multiplier, stalls>>
buttons == <<held, scan>>
vars == <<phase, unhandled, menu, held, scan, goal, speed, multiplier, stalls,
          elapsed, ao1, status>>

-----------------------------------------------------------------------------
(* Arithmetic *)

Word(v) == v % (MaxWord + 1)

\* 1 Pa in units of a reading's pressure: pressure = Scaled(reading) / Pa.
Pa == 4800
Scaled(reading) == reading * 19

\* Conversion of the rational n/d (d > 0) to int: towards zero.
Truncate(n, d) == IF n >= 0 THEN n \div d ELSE -((-n) \div d)

\* Mutant of Round: a plain conversion to int.
RoundTruncating(n, d) == Truncate(n, d)

\* round(): to the nearest integer, halves away from zero.
Round(n, d) ==
  IF n >= 0 THEN (2 * n + d) \div (2 * d) ELSE -((2 * (-n) + d) \div (2 * d))

DefaultMultiplier == 10

\* max(2, ceil(k / 2))
Halve(k) == IF (k + 1) \div 2 > 2 THEN (k + 1) \div 2 ELSE 2

ChangeInverted(k, reading, g) == Round(k * (Scaled(reading) - g * Pa), g * Pa)

\* round(multiplier * (1 - result / goal)), for goal > 0.
Change(k, reading, g) == Round(k * (g * Pa - Scaled(reading)), g * Pa)

ClampRPM(v) == IF v > MaxRPM THEN MaxRPM ELSE IF v < 0 THEN 0 ELSE v

Distance(a, b) == IF a < b THEN b - a ELSE a - b

\* |goal - result| > 3.  Which abs() the call resolves to depends on the
\* headers of the toolchain; abs(int) drops the fraction first, so a deviation
\* between 3 and 4 may count or not.
OffTarget(reading, g) ==
  LET d == Distance(g * Pa, Scaled(reading)) IN {d > 3 * Pa, d >= 4 * Pa}

-----------------------------------------------------------------------------

Value(p) == menu.old[p]

Automatic == Value("mode") # 0

\* AO1.write(v): nobody looks at the result, so a failed write goes unnoticed.
WriteAO1(v) == ao1' \in (IF LostWrites THEN {Word(v), ao1} ELSE {Word(v)})

StatusOfDisplayed(m) == [setpoint |-> m.value["setpoint"], speed |-> m.value["speed"],
                         auto     |-> m.value["mode"] # 0]

\* The fields of the status that report the control state.
StatusOf(m) == [setpoint |-> m.old["setpoint"], speed |-> m.old["speed"],
                auto     |-> m.old["mode"] # 0]

NoStatus == [setpoint |-> 0, speed |-> 0, auto |-> FALSE]

Init ==
  /\ phase = "poll" /\ unhandled = <<>>
  /\ menu = InitialMenu /\ held = {} /\ scan = 1
  /\ goal = 0 /\ speed = 0 /\ multiplier = 0 /\ stalls = 0 /\ elapsed = 0
  /\ ao1 \in (IF LostWrites THEN {0, MaxRPM} ELSE {0})
  /\ status = NoStatus

-----------------------------------------------------------------------------
(* The settings callback *)

\* A message on controller/settings is delivered while polling, or while a
\* publish waits for its acknowledgement.
Deliver(msg) ==
  /\ phase \in {"poll", "publish"} /\ unhandled = <<>>
  /\ unhandled' = msg
  /\ UNCHANGED <<phase, menu, buttons, control, elapsed, ao1, status>>

Field(key) ==
  /\ unhandled # <<>>
  /\ Head(unhandled).key = key
  /\ unhandled' = Tail(unhandled)
  /\ UNCHANGED <<phase, buttons, elapsed, status>>

SetMode ==
  /\ Field("auto")
  /\ menu' = SetValue(menu, "mode", Head(unhandled).value)
  /\ UNCHANGED <<control, ao1>>

SetGoalKeepingMultiplier ==
  /\ Field("pressure")
  /\ goal' = Head(unhandled).value
  /\ menu' = SetValue(menu, "setpoint", Head(unhandled).value)
  /\ UNCHANGED <<speed, multiplier, stalls, ao1>>

SetGoal ==
  /\ Field("pressure")
  /\ goal' = Head(unhandled).value
  /\ menu' = SetValue(menu, "setpoint", Head(unhandled).value)
  /\ multiplier' = DefaultMultiplier
  /\ stalls' = 0
  /\ UNCHANGED <<speed, ao1>>

SetSpeedKeepingSetpoint ==
  /\ Field("speed")
  /\ speed' = Head(unhandled).value
  /\ menu' = SetValue(menu, "speed", Head(unhandled).value)
  /\ WriteAO1(Head(unhandled).value * 10)
  /\ UNCHANGED <<goal, multiplier, stalls>>

SetSpeedUnreported ==
  /\ Field("speed")
  /\ speed' = Head(unhandled).value
  /\ menu' = SetValue(menu, "setpoint", Head(unhandled).value)
  /\ WriteAO1(Head(unhandled).value * 10)
  /\ UNCHANGED <<goal, multiplier, stalls>>

SetSpeed ==
  /\ Field("speed")
  /\ speed' = Head(unhandled).value
  /\ menu' = SetValue(SetValue(menu, "speed", Head(unhandled).value),
                      "setpoint", Head(unhandled).value)
  /\ WriteAO1(Head(unhandled).value * 10)
  /\ UNCHANGED <<goal, multiplier, stalls>>

SkipField ==
  /\ Field("other")
  /\ UNCHANGED <<menu, control, ao1>>

HandleField == SetMode \/ SetGoal \/ SetSpeed \/ SkipField

-----------------------------------------------------------------------------
(* The loop *)

At(p) == phase = p /\ unhandled = <<>>

PollDone ==
  /\ At("poll")
  /\ elapsed' = elapsed + 50
  /\ phase' = "sense"
  /\ UNCHANGED <<unhandled, menu, buttons, control, ao1, status>>

\* End of the sensing phase.  The report is due every ReportPeriod.
Sensed ==
  /\ At("sense")
  /\ phase' = IF elapsed >= ReportPeriod THEN "report" ELSE "buttons"
  /\ UNCHANGED <<unhandled, buttons, elapsed, status>>

Measured(reading) ==
  menu' = SetValue(menu, "pressure", Truncate(Scaled(reading), Pa))

NoResponse ==
  /\ Sensed
  /\ UNCHANGED <<menu, control, ao1>>

SenseManual(reading) ==
  /\ Sensed
  /\ ~Automatic
  /\ Measured(reading)
  /\ UNCHANGED <<control, ao1>>

\* Automatic mode with nothing to reach: the fan is switched off.
SwitchOff(reading) ==
  /\ Sensed
  /\ Automatic /\ goal <= 0
  /\ Measured(reading)
  /\ WriteAO1(0)
  /\ UNCHANGED control

CountStall(off) ==
  IF goal < StallGoal /\ off
  THEN IF stalls + 1 > StallLimit
       THEN multiplier' = Halve(multiplier) /\ stalls' = 0
       ELSE stalls' = stalls + 1 /\ UNCHANGED multiplier
  ELSE UNCHANGED <<multiplier, stalls>>

RegulateWritingChanges(reading) ==
  /\ Sensed
  /\ Automatic /\ goal > 0
  /\ speed' = ClampRPM(speed + Change(multiplier, reading, goal))
  /\ menu' = SetValue(SetValue(menu, "pressure", Truncate(Scaled(reading), Pa)),
                      "speed", speed' \div 10)
  /\ IF speed' # speed THEN WriteAO1(speed') ELSE UNCHANGED ao1
  /\ \E off \in OffTarget(reading, goal) : CountStall(off)
  /\ UNCHANGED goal

\* Automatic mode: one correction of the fan towards the goal.
Regulate(reading) ==
  /\ Sensed
  /\ Automatic /\ goal > 0
  /\ speed' = ClampRPM(speed + Change(multiplier, reading, goal))
  /\ menu' = SetValue(SetValue(menu, "pressure", Truncate(Scaled(reading), Pa)),
                      "speed", speed' \div 10)
  /\ WriteAO1(speed')
  /\ \E off \in OffTarget(reading, goal) : CountStall(off)
  /\ UNCHANGED goal

Sense ==
  \/ NoResponse
  \/ \E reading \in Readings :
       SenseManual(reading) \/ SwitchOff(reading) \/ Regulate(reading)

\* The status is a snapshot taken before the publish.
Report ==
  /\ At("report")
  /\ status' = StatusOf(menu)
  /\ phase' = "publish"
  /\ UNCHANGED <<unhandled, menu, buttons, control, elapsed, ao1>>

\* net.publish has returned, acknowledged or timed out.
PublishDone(temp, co2, rh) ==
  /\ At("publish")
  /\ elapsed' = 25
  /\ menu' = Update(menu, temp, co2, rh)
  /\ status' = NoStatus
  /\ phase' = "buttons"
  /\ UNCHANGED <<unhandled, buttons, control, ao1>>

ValueChangedSetpointOnly(m) ==
  IF Selected(m) # "setpoint"
  THEN menu' = m /\ UNCHANGED <<control, ao1>>
  ELSE IF m.old["mode"] # 0
  THEN /\ menu' = m
       /\ goal' = m.old["setpoint"]
       /\ multiplier' = DefaultMultiplier
       /\ stalls' = 0
       /\ UNCHANGED <<speed, ao1>>
  ELSE /\ speed' = m.old["setpoint"]
       /\ menu' = SetValue(m, "speed", m.old["setpoint"])
       /\ WriteAO1(m.old["setpoint"] * 10)
       /\ UNCHANGED <<goal, multiplier, stalls>>

\* onValueChange(selected), m being the menu after the Confirm.
ValueChanged(m) ==
  IF Selected(m) \notin {"mode", "setpoint"}
  THEN menu' = m /\ UNCHANGED <<control, ao1>>
  ELSE IF m.old["mode"] # 0
  THEN /\ menu' = m
       /\ goal' = m.old["setpoint"]
       /\ multiplier' = DefaultMultiplier
       /\ stalls' = 0
       /\ UNCHANGED <<speed, ao1>>
  ELSE /\ speed' = m.old["setpoint"]
       /\ menu' = SetValue(m, "speed", m.old["setpoint"])
       /\ WriteAO1(m.old["setpoint"] * 10)
       /\ UNCHANGED <<goal, multiplier, stalls>>

\* One turn of the loop in btnStatusUpdate; the last one ends the main loop's
\* turn.
ReadButton(down) ==
  LET b == ButtonOrder[scan] IN
  /\ At("buttons")
  /\ held' = Hold(held, b, down)
  /\ Cardinality(held') <= MaxHeld
  /\ IF ~Fires(held, b, down)
     THEN UNCHANGED <<menu, control, ao1>>
     ELSE IF Notifies(Send(menu, b), b)
     THEN ValueChanged(Send(menu, b))
     ELSE menu' = Send(menu, b) /\ UNCHANGED <<control, ao1>>
  /\ scan' = IF scan = 4 THEN 1 ELSE scan + 1
  /\ phase' = IF scan = 4 THEN "poll" ELSE "buttons"
  /\ UNCHANGED <<unhandled, elapsed, status>>

FinishPublish == \E r \in SensorReadings : PublishDone(r[1], r[2], r[3])

Scan == \E down \in BOOLEAN : ReadButton(down)

Next ==
  \/ \E msg \in Messages : Deliver(msg)
  \/ HandleField
  \/ PollDone
  \/ Sense
  \/ Report
  \/ FinishPublish
  \/ Scan

Spec == Init /\ [][Next]_vars

\* What the program's own control flow guarantees.  Every call in the loop
\* returns: a poll ends when its 50 ms timer expires and a publish at the
\* latest when its command timer does, however many messages come in before.
Fairness ==
  /\ SF_vars(PollDone) /\ SF_vars(FinishPublish)
  /\ WF_vars(HandleField) /\ WF_vars(Sense) /\ WF_vars(Report) /\ WF_vars(Scan)

FairSpec == Spec /\ Fairness

\* In addition, the sensor answers now and then, and so does the fan: the
\* register takes over the speed in infinitely many of infinitely many tries.
RegulateWritten(reading) == Regulate(reading) /\ ao1' = Word(speed')

RecoverySpec == FairSpec /\ \E reading \in Readings : SF_vars(RegulateWritten(reading))

-----------------------------------------------------------------------------
(* Properties *)

TypeOK ==
  /\ phase \in {"poll", "sense", "report", "publish", "buttons"}
  /\ unhandled \in Seq(FieldType)
  /\ menu \in MenuType
  /\ held \in SUBSET Buttons
  /\ scan \in 1 .. 4
  /\ goal \in Int /\ speed \in Int
  /\ multiplier \in Nat /\ stalls \in Nat /\ elapsed \in Nat
  /\ ao1 \in 0 .. MaxWord
  /\ status \in [setpoint : Int, speed : Int, auto : BOOLEAN]

\* Between two callbacks, automatic mode regulates towards the setpoint in force,
\* which is the one the status reports, whichever side set it last.  During an
\* edit the LCD may show another one.
AutoGoalInForce ==
  unhandled = <<>> /\ Automatic => goal = Value("setpoint")

\* Between two callbacks, the fan in manual mode runs at the setpoint in force,
\* and the speed in force, which the status reports, is that setpoint.
ManualOutputInForce ==
  unhandled = <<>> /\ ~Automatic =>
    /\ ao1 = Word(10 * Value("setpoint"))
    /\ Value("speed") = Value("setpoint")

\* Whatever messages arrive, a positive goal comes with a usable multiplier:
\* the 0 it starts with never reaches the regulation, and halving stops at 2.
MultiplierArmed ==
  goal > 0 => multiplier \in {2, 3, 5, 10}

\* A stall count that reaches the limit halves the multiplier; the count itself
\* never exceeds the limit.
StallsBounded == stalls <= StallLimit

\* The output register stays on its scale, 0 to MaxRPM (0 to 10 V), also when
\* the setpoint is dialled in or a target pressure becomes a fan speed because
\* the mode changes.
OutputInScale == ao1 \in 0 .. MaxRPM

\* Once the output follows the regulation, a correction never moves the fan
\* away from the goal: too little pressure never slows it down, too much never
\* speeds it up.
CorrectionTowardsGoal ==
  [][\A reading \in Readings :
       Regulate(reading) /\ ao1 = speed =>
         /\ Scaled(reading) <= goal * Pa => ao1' >= ao1
         /\ Scaled(reading) >= goal * Pa => ao1' <= ao1]_vars

\* The same without the condition that the output already follows the
\* regulation: the first correction after manual mode included.
GrowthBelowGoal ==
  [][\A reading \in Readings :
       Regulate(reading) /\ Scaled(reading) < goal * Pa => ao1' >= ao1]_vars

\* A published status is consistent: in manual mode, the speed it reports is
\* the setpoint it reports, also if messages arrive during the publish.
StatusConsistent ==
  phase = "publish" /\ ~status.auto => status.speed = status.setpoint

\* A setting that stays in force is reported from some point on, and reports
\* never stop.
SettingsGetReported ==
  /\ []<>(phase = "publish")
  /\ \A v \in 0 .. SetpointMax :
       <>[](Value("setpoint") = v) => <>[](phase = "publish" => status.setpoint = v)
  /\ \A a \in BOOLEAN :
       <>[](Automatic = a) => <>[](phase = "publish" => status.auto = a)

\* Lost writes do no lasting harm in automatic mode: the output register takes
\* over the regulated speed again and again.
AutoRecoversFromLostWrites ==
  <>[](Automatic /\ goal > 0) => []<>(ao1 = Word(speed))
=============================================================================
