----------------------------- MODULE ClosedLoop -----------------------------
(***************************************************************************)
(* The main loop regulating a real duct: the pressure that the sensor      *)
(* reads is a function of the fan's output register.  The duct is external *)
(* to the program and modelled as quasi-static and linear: gain units of   *)
(* the sensor's reading per unit of the output.  The user sends one or two *)
(* settings messages and leaves the controller alone.  The pressure is      *)
(* read over I2C, and readings keep failing, up to MaxLost in a row, which *)
(* may be more than the transmit buffer holds.                             *)
(***************************************************************************)
EXTENDS Ventilation, I2c

CONSTANTS
  Gains,        \* the ducts: reading per unit of fan output
  Scenarios     \* the sequences of settings messages sent

VARIABLES
  gain,         \* the duct at hand
  script        \* the messages that are still to be sent

cvars == <<vars, gain, script, i2c>>

ASSUME ClosedLoopAssumption ==
  /\ Gains \subseteq Nat \ {0}
  /\ Scenarios \subseteq Seq(Messages)

\* What the pressure sensor reads in the duct: an int16.
Reading == IF ao1 * gain > Max16 THEN Max16 ELSE ao1 * gain

CInit == Init /\ I2cInit /\ gain \in Gains /\ script \in Scenarios

SendMessage ==
  /\ script # <<>> /\ phase = "poll"
  /\ Deliver(Head(script))
  /\ script' = Tail(script)
  /\ UNCHANGED <<gain, i2c>>

\* The bytes that the sensor answers with; the third one, a checksum, is not used.
SensorByte(n) == IF n = 1 THEN Reading \div 256 ELSE IF n = 2 THEN Reading % 256 ELSE 0

ReadSensor ==
  /\ At("sense")
  /\ \/ BeginTransfer
     \/ Transmit
     \/ ReceiveByte(SensorByte(ReadCount - i2c.rx + 1))
     \/ \E failure \in Failures : Disturb(failure)
  /\ UNCHANGED <<vars, gain, script>>

SenseDuct ==
  /\ \/ Answered /\ (SenseManual(Response) \/ SwitchOff(Response) \/ Regulate(Response))
     \/ Unanswered /\ NoResponse
  /\ i2c' = Returned
  /\ UNCHANGED <<gain, script>>

\* Messages are delivered before the first turns of the loop.
OtherStep ==
  /\ HandleField \/ (script = <<>> /\ PollDone) \/ Report \/ FinishPublish \/ ReadButton(FALSE)
  /\ UNCHANGED <<gain, script, i2c>>

CNext == SendMessage \/ ReadSensor \/ SenseDuct \/ OtherStep

CSpec == CInit /\ [][CNext]_cvars /\ WF_cvars(CNext)

-----------------------------------------------------------------------------
(* Properties *)

\* The program shows and regulates on the pressure that is in the duct now,
\* never on what a transfer that failed has left in the receive buffer, nor on the
\* commands that too many failures in a row have written there.
Stored == menu'.old["pressure"] # menu.old["pressure"] \/ ao1' # ao1
RegulatesOnPresent ==
  [][At("sense") /\ Stored => menu'.old["pressure"] = Truncate(Scaled(Reading), Pa)]_cvars

\* The deviation from the goal, in the units of Scaled.
Deviation == Distance(goal * Pa, Scaled(Reading))

\* A goal is set and within the fan's reach.
Regulating ==
  Automatic /\ goal > 0 /\ Scaled(MaxRPM * gain) >= goal * Pa

\* The controller settles: from some point on every step starts with the pressure within a
\* twentieth of the goal, which is where a multiplier of ten rounds the
\* correction to zero, or one step of the duct from there.
WithinTwentieth == 20 * Deviation <= goal * Pa + 20 * Scaled(gain)
Settles == <>[][Regulating => WithinTwentieth]_cvars
=============================================================================
