------------------------------- MODULE MCUart -------------------------------
(* Uart on a small instance. *)
EXTENDS Uart

MCBytes == {"a", "b"}

\* One of them is longer than the buffer.
MCWrites == {<<"a">>, <<"b", "a", "b">>}
=============================================================================
