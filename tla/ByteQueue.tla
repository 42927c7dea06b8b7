------------------------------ MODULE ByteQueue ------------------------------
(***************************************************************************)
(* What a ring buffer between a producer and a consumer promises: a queue  *)
(* of at most Capacity bytes.  Bytes go in at one end and come out at the  *)
(* other, in order, none twice, none skipped.  A byte that came out is in  *)
(* delivered until its consumer is done with it.                           *)
(***************************************************************************)
EXTENDS Naturals, Sequences

CONSTANTS Bytes, Capacity

VARIABLES queue, delivered

vars == <<queue, delivered>>

Init == queue = <<>> /\ delivered = <<>>

Put(bytes) ==
  /\ queue' = queue \o bytes
  /\ Len(queue') <= Capacity
  /\ UNCHANGED delivered

Take(n) ==
  /\ queue' = SubSeq(queue, n + 1, Len(queue))
  /\ delivered' = delivered \o SubSeq(queue, 1, n)

Consume(n) ==
  /\ delivered' = SubSeq(delivered, n + 1, Len(delivered))
  /\ UNCHANGED queue

Next ==
  \/ \E n \in 1 .. Capacity : \E bytes \in [1 .. n -> Bytes] : Put(bytes)
  \/ \E n \in 1 .. Len(queue) : Take(n)
  \/ \E n \in 1 .. Len(delivered) : Consume(n)

Spec == Init /\ [][Next]_vars
=============================================================================
