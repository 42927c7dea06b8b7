------------------------------ MODULE MCModbus ------------------------------
(* Modbus on a small instance; the numbers are in Modbus.cfg. *)
EXTENDS Modbus
=============================================================================
