------------------------------ MODULE MCLcdUi ------------------------------
(* LcdUi on a small instance. *)
EXTENDS LcdUi

MCStored == [p \in Bound |-> CASE p = "mode"     -> {0, 1}
                               [] p = "setpoint" -> {5}
                               [] p = "speed"    -> {5}
                               [] p = "pressure" -> {3}]

MCSensorReadings == {<<21, 0, 0>>}
=============================================================================
