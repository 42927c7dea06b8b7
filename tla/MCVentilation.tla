--------------------------- MODULE MCVentilation ---------------------------
(* Ventilation on small instances. *)
EXTENDS Ventilation

OtherField == [key |-> "other", value |-> 0]

\* The documented kinds of settings message, with fields in either order.
MCMessages ==
  {<<AutoField(1), PressureField(2)>>, <<PressureField(0), AutoField(1)>>, <<SpeedField(1), AutoField(0)>>}

\* Anything goes: single fields, unknown keys, values out of range.
MCAnyMessages ==
  {<<AutoField(1)>>, <<AutoField(0)>>, <<PressureField(3)>>, <<SpeedField(4)>>,
   <<OtherField, PressureField(-5)>>}

\* A fast fan in manual mode, then a goal that is not reached yet.
MCFastMessages == {<<AutoField(1), PressureField(3)>>, <<AutoField(0), SpeedField(3)>>}

\* Readings of 0, 3 and 7 pascal.
MCReadings == {0, 758, 1769}
MCNoReadings == {}
MCHighReading == {1769}

MCSensorReadings == {<<21, 0, 0>>}
=============================================================================
