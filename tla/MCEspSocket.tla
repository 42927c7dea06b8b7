---------------------------- MODULE MCEspSocket ----------------------------
(* EspSocket on a small instance; the numbers are in EspSocket.cfg. *)
EXTENDS EspSocket
=============================================================================
