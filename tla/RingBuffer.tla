----------------------------- MODULE RingBuffer -----------------------------
(***************************************************************************)
(* The ring buffer of the chip library (ring_buffer.c and ring_buffer.h),  *)
(* as operators on a record of the cells and two free-running counters.    *)
(* The counters are uint32_t; Modulus stands for 2^32.                     *)
(***************************************************************************)
EXTENDS Naturals, Integers, Sequences

CONSTANTS
  Bytes,
  Size,       \* RingBuff->count: 256 in LpcUart
  Modulus     \* the counters wrap around here

\* The library asks for a size that is a power of two; what it needs is a size
\* that divides the range of the counters.
ASSUME RingAssumption ==
  /\ Size \in Nat \ {0} /\ Modulus \in Nat
  /\ Modulus > 2 * Size /\ Modulus % Size = 0

NoByte == "none"

RingType ==
  [data : [0 .. Size - 1 -> Bytes \cup {NoByte}], head : 0 .. Modulus - 1, tail : 0 .. Modulus - 1]

RingInit == [data |-> [i \in 0 .. Size - 1 |-> NoByte], head |-> 0, tail |-> 0]

\* RB_INDH and RB_INDT.
Index(counter) == counter % Size

Advance(counter, n) == (counter + n) % Modulus

\* How many times a byte can be popped until head and tail meet.
Distance(r) == (r.head - r.tail) % Modulus

\* RingBuffer_GetCount returns the unsigned difference as a signed int.
GetCount(r) ==
  IF 2 * Distance(r) >= Modulus THEN Distance(r) - Modulus ELSE Distance(r)

GetFree(r) == Size - GetCount(r)

\* Mutant of IsFull: one cell too many.
IsFullLate(r) == GetCount(r) > Size

IsFull(r) == GetCount(r) >= Size

IsEmpty(r) == r.head = r.tail

\* The next n bytes to be popped, and all the bytes in the buffer.
Oldest(r, n) == [i \in 1 .. n |-> r.data[Index(r.tail + i - 1)]]

Contents(r) == Oldest(r, GetCount(r))

\* RingBuffer_Insert: a byte that does not fit is dropped.
Insert(r, b) ==
  IF IsFull(r) THEN r
  ELSE [r EXCEPT !.data[Index(r.head)] = b, !.head = Advance(r.head, 1)]

Lesser(a, b) == IF a < b THEN a ELSE b

\* InsertMult and PopMult go through the cells in two segments: up to the last
\* cell, and on from the first.  Their lengths, for num bytes wanted.
Segments(counter, available, num) ==
  LET whole  == IF Index(counter) + available >= Size THEN Size - Index(counter) ELSE available
      first  == Lesser(whole, num)
      second == Lesser(available - whole, num - first)
  IN <<first, second>>

\* The memcpy of one segment of n bytes, out of the cells and into them.
CopyOut(r, n) == [i \in 1 .. n |-> r.data[Index(r.tail) + i - 1]]

CopyIn(r, bytes) ==
  [r EXCEPT !.data = [i \in DOMAIN r.data |->
     IF i \in Index(r.head) .. Index(r.head) + Len(bytes) - 1
     THEN bytes[i - Index(r.head) + 1] ELSE r.data[i]]]
=============================================================================
