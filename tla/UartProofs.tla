----------------------------- MODULE UartProofs -----------------------------
(***************************************************************************)
(* Proofs about Uart, for all sizes of the buffers and all values of the   *)
(* other constants, with and without full duplex.                          *)
(***************************************************************************)
EXTENDS Uart, SequenceTheorems, TLAPS

-----------------------------------------------------------------------------
(* Arithmetic of the counters *)

\* Below the modulus, the remainder is the number itself.
LEMMA ModBelow ==
  ASSUME NEW m \in Nat, m > 0, NEW x \in 0 .. m - 1
  PROVE  x % m = x
OBVIOUS

\* One modulus further up, and one further down.
LEMMA ModAbove ==
  ASSUME NEW m \in Nat, m > 0, NEW x \in m .. 2 * m - 1
  PROVE  x % m = x - m
OBVIOUS

LEMMA ModNegative ==
  ASSUME NEW m \in Nat, m > 0, NEW x \in -m .. -1
  PROVE  x % m = x + m
OBVIOUS

\* A remainder is below the modulus, and the rest is a multiple.
LEMMA ModRange ==
  ASSUME NEW m \in Nat, m > 0, NEW x \in Int
  PROVE  /\ x % m \in 0 .. m - 1 /\ x \div m \in Int
         /\ x = m * (x \div m) + (x % m)
OBVIOUS

\* A multiple strictly between -m and m is zero.
LEMMA SmallMultiple ==
  ASSUME NEW m \in Nat, m > 0, NEW k \in Int, -m < m * k, m * k < m
  PROVE  k = 0
<1>1. k >= 1 => m * k >= m
  <2> SUFFICES ASSUME k >= 1 PROVE m * k >= m
    OBVIOUS
  <2>1. k - 1 \in Nat
    OBVIOUS
  <2>2. m * (k - 1) >= 0
    BY <2>1
  <2>3. m * (k - 1) = m * k - m
    OBVIOUS
  <2> QED
    BY <2>2, <2>3
<1>2. k <= -1 => m * k <= -m
  <2> SUFFICES ASSUME k <= -1 PROVE m * k <= -m
    OBVIOUS
  <2>1. -k - 1 \in Nat
    OBVIOUS
  <2>2. m * (-k - 1) >= 0
    BY <2>1
  <2>3. m * (-k - 1) = -(m * k) - m
    OBVIOUS
  <2> QED
    BY <2>2, <2>3
<1> QED
  BY <1>1, <1>2

\* The remainder is determined by the two facts of ModRange.
LEMMA ModUnique ==
  ASSUME NEW m \in Nat, m > 0, NEW q \in Int, NEW r \in 0 .. m - 1
  PROVE  (m * q + r) % m = r
<1> DEFINE x == m * q + r
           q1 == x \div m
           r1 == x % m
<1>1. x \in Int
  OBVIOUS
<1>2. r1 \in 0 .. m - 1 /\ q1 \in Int /\ x = m * q1 + r1
  BY <1>1, ModRange
<1>3. m * q + r = m * q1 + r1
  BY <1>2
<1> HIDE DEF x, q1, r1
<1>4. m * (q - q1) = m * q - m * q1 /\ m * q \in Int /\ m * q1 \in Int /\ q - q1 \in Int
  BY <1>2
<1>5. m * (q - q1) = r1 - r
  BY <1>2, <1>3, <1>4
<1>6. -m < m * (q - q1) /\ m * (q - q1) < m
  BY <1>2, <1>5
<1>7. q - q1 = 0
  BY <1>4, <1>6, SmallMultiple
<1>8. r1 = r
  BY <1>2, <1>5, <1>7
<1> QED
  BY <1>8 DEF r1, x

\* Remainders may be taken in between.
LEMMA ModSum ==
  ASSUME NEW m \in Nat, m > 0, NEW x \in Int, NEW y \in Int
  PROVE  ((x % m) + y) % m = (x + y) % m
<1> DEFINE q == x \div m
           s == (x % m) + y
<1>1. q \in Int /\ x % m \in Int /\ x = m * q + (x % m)
  BY ModRange
<1>2. s \in Int /\ x + y = m * q + s
  BY <1>1
<1>3. s % m \in 0 .. m - 1 /\ s \div m \in Int /\ s = m * (s \div m) + (s % m)
  BY <1>2, ModRange
<1> HIDE DEF q, s
<1>4. x + y = m * (q + (s \div m)) + (s % m)
  <2>1. m * (q + (s \div m)) = m * q + m * (s \div m)
    BY <1>1, <1>3
  <2>2. m * q \in Int /\ m * (s \div m) \in Int
    BY <1>1, <1>3
  <2> QED
    BY <1>1, <1>2, <1>3, <2>1, <2>2
<1>5. (m * (q + (s \div m)) + (s % m)) % m = s % m
  <2>1. q + (s \div m) \in Int
    BY <1>1, <1>3
  <2> QED
    BY <1>3, <2>1, ModUnique
<1> QED
  BY <1>4, <1>5 DEF s

-----------------------------------------------------------------------------
(* Sequences whose elements do not matter *)

IsSeq(s) == \E S : s \in Seq(S)

\* Such a sequence has a length.
LEMMA SeqLen ==
  ASSUME NEW s, IsSeq(s)
  PROVE  Len(s) \in Nat
BY DEF IsSeq

\* The operations on the bytes in the transmitter keep them a sequence.
LEMMA SeqAppend ==
  ASSUME NEW s, IsSeq(s), NEW b
  PROVE  IsSeq(Append(s, b))
<1> PICK S : s \in Seq(S)
  BY DEF IsSeq
<1>1. s \in Seq(S \cup {b})
  OBVIOUS
<1>2. Append(s, b) \in Seq(S \cup {b})
  BY <1>1
<1> QED
  BY <1>2 DEF IsSeq

LEMMA SeqTail ==
  ASSUME NEW s, IsSeq(s), s # <<>>
  PROVE  IsSeq(Tail(s))
<1> PICK S : s \in Seq(S)
  BY DEF IsSeq
<1>1. Tail(s) \in Seq(S)
  OBVIOUS
<1> QED
  BY <1>1 DEF IsSeq

LEMMA SeqExceptLast ==
  ASSUME NEW s, IsSeq(s), NEW b
  PROVE  IsSeq([s EXCEPT ![Len(s)] = b])
<1> PICK S : s \in Seq(S)
  BY DEF IsSeq
<1>1. s \in Seq(S \cup {b})
  OBVIOUS
<1>2. CASE s = <<>>
  <2>1. [s EXCEPT ![Len(s)] = b] = s
    BY <1>2
  <2> QED
    BY <2>1
<1>3. CASE s # <<>>
  <2>1. [s EXCEPT ![Len(s)] = b] \in Seq(S \cup {b})
    BY <1>1, <1>3
  <2> QED
    BY <2>1 DEF IsSeq
<1> QED
  BY <1>2, <1>3

LEMMA SeqConcat ==
  ASSUME NEW s, IsSeq(s), NEW t, IsSeq(t)
  PROVE  IsSeq(s \o t)
<1> PICK S : s \in Seq(S)
  BY DEF IsSeq
<1> PICK T : t \in Seq(T)
  BY DEF IsSeq
<1>1. s \in Seq(S \cup T) /\ t \in Seq(S \cup T)
  OBVIOUS
<1>2. s \o t \in Seq(S \cup T)
  BY <1>1
<1> QED
  BY <1>2 DEF IsSeq

\* So does cutting the copied bytes off what is left to write.
LEMMA SeqSubSeq ==
  ASSUME NEW s, IsSeq(s), NEW a \in Int, NEW b \in Int
  PROVE  IsSeq(SubSeq(s, a, b))
<1> PICK S : s \in Seq(S)
  BY DEF IsSeq
<1> DEFINE n == b - a + 1
           f == [i \in 1 .. n |-> s[i + a - 1]]
<1>1. CASE b < a
  <2>1. SubSeq(s, a, b) = <<>>
    BY <1>1
  <2>2. SubSeq(s, a, b) \in Seq(S)
    BY <2>1
  <2> QED
    BY <2>2 DEF IsSeq
<1>2. CASE b >= a
  <2>1. SubSeq(s, a, b) = f
    BY <1>2
  <2>2. n \in Nat
    BY <1>2
  <2> HIDE DEF n
  <2> DEFINE T == {s[i + a - 1] : i \in 1 .. n}
  <2>3. \A i \in 1 .. n : s[i + a - 1] \in T
    OBVIOUS
  <2> HIDE DEF T
  <2>4. f \in Seq(T)
    BY <2>2, <2>3
  <2> HIDE DEF f
  <2> QED
    BY <2>1, <2>4 DEF IsSeq
<1> QED
  BY <1>1, <1>2

\* The bytes that the handler takes out of a buffer are a sequence.
LEMMA SeqOldest ==
  ASSUME NEW r, NEW n \in Nat
  PROVE  IsSeq(Oldest(r, n))
<1> DEFINE T == {r.data[Index(r.tail + i - 1)] : i \in 1 .. n}
<1>1. \A i \in 1 .. n : r.data[Index(r.tail + i - 1)] \in T
  OBVIOUS
<1> HIDE DEF T
<1>2. Oldest(r, n) \in Seq(T)
  BY <1>1 DEF Oldest
<1> QED
  BY <1>2 DEF IsSeq

-----------------------------------------------------------------------------
(* The shape of the state: what the armed interrupt needs of the types *)

Counters == 0 .. Modulus - 1

IsRing(r) ==
  /\ DOMAIN r = {"data", "head", "tail"}
  /\ r.head \in Counters /\ r.tail \in Counters

ShapeOK ==
  /\ IsRing(rx) /\ IsRing(tx)
  /\ IsSeq(wire) /\ IsSeq(rest)
  /\ segments \in Seq(Int)
  /\ pc \in {"copyOut", "advanceTo", "copyIn", "advanceHead"} => segments # <<>>
  /\ popped.tail \in Int

\* A counter advanced by any number is a counter again; advanced by none, it
\* stays where it is.
LEMMA AdvanceInRange ==
  ASSUME NEW c \in Int, NEW n \in Int
  PROVE  Advance(c, n) \in Counters
<1>1. c + n \in Int /\ Modulus \in Nat /\ Modulus > 0
  BY RingAssumption
<1> QED
  BY <1>1, ModRange DEF Advance, Counters

LEMMA AdvanceByNone ==
  ASSUME NEW c \in Counters
  PROVE  Advance(c, 0) = c
<1>1. c + 0 = c /\ Modulus \in Nat /\ Modulus > 0
  BY RingAssumption DEF Counters
<1>2. c % Modulus = c
  BY <1>1, ModBelow DEF Counters
<1> QED
  BY <1>1, <1>2 DEF Advance

\* The distance of the counters is a counter, 0 in an empty buffer, and the
\* lengths of segments are numbers.
LEMMA DistanceInRange ==
  ASSUME NEW r, IsRing(r)
  PROVE  Distance(r) \in Counters /\ (IsEmpty(r) => Distance(r) = 0)
<1>1. /\ r.head - r.tail \in Int /\ Modulus \in Nat /\ Modulus > 0
      /\ (IsEmpty(r) => r.head - r.tail = 0)
  BY RingAssumption DEF IsRing, Counters, IsEmpty
<1>2. 0 % Modulus = 0
  <2>1. 0 \in 0 .. Modulus - 1
    BY <1>1
  <2> QED
    BY <1>1, <2>1, ModBelow
<1>3. (r.head - r.tail) % Modulus \in 0 .. Modulus - 1
  BY <1>1, ModRange
<1> QED
  BY <1>1, <1>2, <1>3 DEF Distance, Counters

LEMMA SegmentsAreInts ==
  ASSUME NEW c \in Int, NEW k \in Int, NEW n \in Int
  PROVE  Segments(c, k, n) \in Seq(Int) /\ Segments(c, k, n) # <<>>
<1>1. Index(c) \in Int /\ Size \in Int
  BY RingAssumption, ModRange DEF Index
<1> DEFINE whole  == IF Index(c) + k >= Size THEN Size - Index(c) ELSE k
           first  == Lesser(whole, n)
           second == Lesser(k - whole, n - first)
<1>2. whole \in Int
  BY <1>1
<1> HIDE DEF whole
<1>3. first \in Int
  BY <1>2 DEF Lesser
<1> HIDE DEF first
<1>4. second \in Int
  BY <1>2, <1>3 DEF Lesser
<1>5. Segments(c, k, n) = <<first, second>>
  BY DEF Segments, whole, first, second
<1> HIDE DEF second
<1> QED
  BY <1>3, <1>4, <1>5

\* Of the segments still to be copied, the first has a length, and the others
\* remain.
LEMMA NextSegments ==
  ASSUME NEW s \in Seq(Int), s # <<>>
  PROVE  /\ Head(s) \in Int /\ Tail(s) \in Seq(Int)
         /\ (Len(s) # 1 => Tail(s) # <<>>)
<1>1. Head(s) \in Int /\ Tail(s) \in Seq(Int) /\ Len(s) \in Nat \ {0}
  OBVIOUS
<1>2. Len(Tail(s)) = Len(s) - 1
  OBVIOUS
<1>3. Tail(s) = <<>> <=> Len(Tail(s)) = 0
  BY <1>1, EmptySeq
<1>4. Len(s) # 1 => Len(Tail(s)) # 0
  BY <1>1, <1>2
<1> QED
  BY <1>1, <1>3, <1>4

\* The counters are integers.
LEMMA CountersAreInts ==
  ASSUME NEW r, IsRing(r)
  PROVE  r.head \in Int /\ r.tail \in Int
BY RingAssumption DEF IsRing, Counters

\* The number of bytes in a buffer is an integer, and so is the free space.
LEMMA CountIsInt ==
  ASSUME NEW r, IsRing(r)
  PROVE  GetCount(r) \in Int /\ GetFree(r) \in Int
<1>1. Distance(r) \in Int /\ Modulus \in Int /\ Size \in Int
  BY DistanceInRange, RingAssumption DEF Counters
<1> QED
  BY <1>1 DEF GetCount, GetFree

\* The counters may be set, and the cells written, without a change of shape.
LEMMA RingTail ==
  ASSUME NEW r, IsRing(r), NEW v \in Counters
  PROVE  /\ IsRing([r EXCEPT !.tail = v])
         /\ [r EXCEPT !.tail = v].head = r.head /\ [r EXCEPT !.tail = v].tail = v
BY DEF IsRing

LEMMA RingHead ==
  ASSUME NEW r, IsRing(r), NEW v \in Counters
  PROVE  IsRing([r EXCEPT !.head = v])
BY DEF IsRing

LEMMA RingCopyIn ==
  ASSUME NEW r, IsRing(r), NEW bytes
  PROVE  IsRing(CopyIn(r, bytes))
BY DEF IsRing, CopyIn

LEMMA RingInsert ==
  ASSUME NEW r, IsRing(r), NEW b
  PROVE  IsRing(Insert(r, b))
<1>1. Advance(r.head, 1) \in Counters
  BY AdvanceInRange DEF IsRing, Counters
<1> QED
  BY <1>1 DEF IsRing, Insert

\* A new ring buffer is a ring buffer.
LEMMA RingInitial == IsRing(RingInit)
BY RingAssumption DEF IsRing, RingInit, Counters

\* Whatever the interrupt, the handler leaves the shape alone; it switches the
\* transmit interrupt off only in front of an empty buffer, and takes nothing
\* out of an empty buffer.
LEMMA FeedKeepsArmed ==
  ASSUME ShapeOK, FeedTransmitter
  PROVE  /\ IsRing(tx') /\ IsSeq(wire')
         /\ (~IsEmpty(tx)) \/ IsEmpty(tx')
         /\ txint' = txint \/ IsEmpty(tx')
<1>1. CASE ~TxReady
  BY <1>1 DEF FeedTransmitter, ShapeOK
<1>2. CASE TxReady
  <2> DEFINE n == Lesser(Distance(tx), WireSize - Len(wire))
  <2>1. /\ tx' = [tx EXCEPT !.tail = Advance(tx.tail, n)]
        /\ wire' = wire \o Oldest(tx, n)
        /\ txint' = IF IsEmpty(tx') THEN FALSE ELSE txint
    BY <1>2 DEF FeedTransmitter
  <2>2. IsRing(tx) /\ IsSeq(wire)
    BY DEF ShapeOK
  <2>3. Distance(tx) \in Nat /\ (IsEmpty(tx) => Distance(tx) = 0)
    BY <2>2, DistanceInRange, RingAssumption DEF Counters
  <2>4. Len(wire) \in Nat /\ WireSize \in Nat /\ Len(wire) < WireSize
    BY <1>2, <2>2, SeqLen, UartAssumption DEF TxReady
  <2>5. n \in Nat /\ (IsEmpty(tx) => n = 0)
    BY <2>3, <2>4 DEF Lesser
  <2> HIDE DEF n
  <2>6. tx.tail \in Counters /\ tx.tail \in Int
    BY <2>2, RingAssumption DEF IsRing, Counters
  <2>7. IsRing(tx') /\ tx'.head = tx.head /\ tx'.tail = Advance(tx.tail, n)
    BY <2>1, <2>2, <2>5, <2>6, AdvanceInRange, RingTail
  <2>8. IsSeq(wire')
    BY <2>1, <2>2, <2>5, SeqOldest, SeqConcat
  <2>9. IsEmpty(tx) => IsEmpty(tx')
    BY <2>5, <2>6, <2>7, AdvanceByNone DEF IsEmpty
  <2> QED
    BY <2>1, <2>7, <2>8, <2>9
<1> QED
  BY <1>1, <1>2

-----------------------------------------------------------------------------
(* The transmit interrupt is armed *)

ArmedInv == ShapeOK /\ TransmitterArmed

\* The invariant holds at the start.
LEMMA ArmedInit == Init => ArmedInv
<1> SUFFICES ASSUME Init PROVE ArmedInv
  OBVIOUS
<1>1. IsSeq(<<>>)
  <2>1. <<>> \in Seq({})
    OBVIOUS
  <2> QED
    BY <2>1 DEF IsSeq
<1>2. ShapeOK
  BY <1>1, RingInitial DEF Init, ShapeOK, NotPopping
<1>3. TransmitterArmed
  BY DEF Init, TransmitterArmed, RingInit, IsEmpty
<1> QED
  BY <1>2, <1>3 DEF ArmedInv

\* What is left after a call of InsertMult leads on to the attempt to send, or
\* ends the write with the interrupt enabled.
LEMMA AfterInsertArms ==
  ASSUME NEW remaining, IsSeq(remaining), AfterInsert(remaining)
  PROVE  IsSeq(rest') /\ (pc' = "ready" \/ (pc' = "idle" /\ txint'))
<1>1. CASE pass = 1
  BY <1>1 DEF AfterInsert
<1>2. CASE pass # 1
  <2>1. pc' = "idle" /\ rest' = <<>> /\ txint' = TRUE
    BY <1>2 DEF AfterInsert
  <2>2. <<>> \in Seq({})
    OBVIOUS
  <2> QED
    BY <2>1, <2>2 DEF IsSeq
<1> QED
  BY <1>1, <1>2

\* Every step keeps the invariant.
LEMMA ArmedStep == ArmedInv /\ [Next]_vars => ArmedInv'
<1> SUFFICES ASSUME ArmedInv, [Next]_vars
             PROVE  ArmedInv'
  OBVIOUS
<1> USE DEF ArmedInv
<1>0. MaxRead \in Int
  BY UartAssumption
<1>1. ASSUME NEW n \in 1 .. MaxRead, BeginRead(n)
      PROVE  ArmedInv'
  <2>1. segments' \in Seq(Int) /\ (pc' # "idle" => segments' # <<>>) /\ pc' \in {"idle", "copyOut"}
    <3>1. CASE IsEmpty(rx)
      BY <1>1, <3>1 DEF BeginRead, ShapeOK
    <3>2. CASE ~IsEmpty(rx)
      <4>1. rx.tail \in Int /\ n \in Int
        BY <1>0, CountersAreInts DEF ShapeOK
      <4>2. GetCount(rx) \in Int
        BY CountIsInt DEF ShapeOK
      <4>3. pc' = "copyOut" /\ segments' = Segments(rx.tail, GetCount(rx), n)
        BY <1>1, <3>2 DEF BeginRead
      <4> QED
        BY <4>1, <4>2, <4>3, SegmentsAreInts
    <3> QED
      BY <3>1, <3>2
  <2> QED
    BY <1>1, <2>1 DEF BeginRead, writing, ShapeOK, TransmitterArmed, InWrite
<1>2. CASE CopySegmentOut
  BY <1>2 DEF CopySegmentOut, writing, ShapeOK, TransmitterArmed, InWrite
<1>3. CASE AdvanceRxTail
  <2>1. IsRing(rx) /\ segments \in Seq(Int) /\ segments # <<>>
    BY <1>3 DEF AdvanceRxTail, ShapeOK
  <2>2. Head(segments) \in Int /\ Tail(segments) \in Seq(Int)
        /\ (Len(segments) # 1 => Tail(segments) # <<>>)
    BY <2>1, NextSegments
  <2>3. Advance(rx.tail, Head(segments)) \in Counters
    BY <2>1, <2>2, CountersAreInts, AdvanceInRange
  <2>4. IsRing(rx')
    BY <1>3, <2>1, <2>3, RingTail DEF AdvanceRxTail
  <2>5. segments' \in Seq(Int) /\ pc' \in {"idle", "copyOut"} /\ (pc' = "copyOut" => segments' # <<>>)
    BY <1>3, <2>2 DEF AdvanceRxTail
  <2> QED
    BY <1>3, <2>4, <2>5 DEF AdvanceRxTail, writing, ShapeOK, TransmitterArmed, InWrite
<1>4. ASSUME NEW bytes \in Writes, BeginWrite(bytes)
      PROVE  ArmedInv'
  <2>1. IsSeq(bytes)
    <3>1. bytes \in Seq(Bytes)
      BY UartAssumption
    <3> QED
      BY <3>1 DEF IsSeq
  <2> QED
    BY <1>4, <2>1 DEF BeginWrite, ForgetRead, ShapeOK, TransmitterArmed, InWrite
<1>5. CASE InsertMult
  <2>1. CASE IsFull(tx)
    <3>1. AfterInsert(rest) /\ UNCHANGED segments
      BY <1>5, <2>1 DEF InsertMult
    <3>2. IsSeq(rest') /\ (pc' = "ready" \/ (pc' = "idle" /\ txint'))
      BY <3>1, AfterInsertArms DEF ShapeOK
    <3> QED
      BY <1>5, <3>1, <3>2 DEF InsertMult, ShapeOK, TransmitterArmed, InWrite
  <2>2. CASE ~IsFull(tx)
    <3>1. segments' = Segments(tx.head, GetFree(tx), Len(rest)) /\ pc' = "copyIn" /\ rest' = rest
      BY <1>5, <2>2 DEF InsertMult
    <3>2. tx.head \in Int
      BY CountersAreInts DEF ShapeOK
    <3>3. GetFree(tx) \in Int /\ Len(rest) \in Int
      BY CountIsInt, SeqLen DEF ShapeOK
    <3>4. segments' \in Seq(Int) /\ segments' # <<>>
      BY <3>1, <3>2, <3>3, SegmentsAreInts
    <3> QED
      BY <1>5, <3>1, <3>4 DEF InsertMult, ShapeOK, TransmitterArmed, InWrite
  <2> QED
    BY <2>1, <2>2
<1>6. CASE CopySegmentIn
  <2>1. IsRing(tx')
    BY <1>6, RingCopyIn DEF CopySegmentIn, ShapeOK
  <2> QED
    BY <1>6, <2>1 DEF CopySegmentIn, writing, ShapeOK, TransmitterArmed, InWrite
<1>7. CASE AdvanceTxHead
  <2> DEFINE remaining == SubSeq(rest, Head(segments) + 1, Len(rest))
  <2>1. IsRing(tx) /\ segments \in Seq(Int) /\ segments # <<>>
    BY <1>7 DEF AdvanceTxHead, ShapeOK
  <2>2. Head(segments) \in Int /\ Tail(segments) \in Seq(Int)
        /\ (Len(segments) # 1 => Tail(segments) # <<>>)
    BY <2>1, NextSegments
  <2>3. Advance(tx.head, Head(segments)) \in Counters
    BY <2>1, <2>2, CountersAreInts, AdvanceInRange
  <2>4. IsRing(tx')
    BY <1>7, <2>1, <2>3, RingHead DEF AdvanceTxHead
  <2>5. IsSeq(remaining)
    <3>1. IsSeq(rest) /\ Len(rest) \in Int /\ Head(segments) + 1 \in Int
      BY <2>2, SeqLen DEF ShapeOK
    <3> QED
      BY <3>1, SeqSubSeq
  <2> HIDE DEF remaining
  <2>6. segments' = Tail(segments)
        /\ IF Len(segments) = 1 THEN AfterInsert(remaining)
           ELSE pc' = "copyIn" /\ rest' = remaining /\ UNCHANGED txint
    BY <1>7 DEF AdvanceTxHead, remaining
  <2>7. CASE Len(segments) = 1
    <3>1. IsSeq(rest') /\ (pc' = "ready" \/ (pc' = "idle" /\ txint'))
      BY <2>5, <2>6, <2>7, AfterInsertArms
    <3> QED
      BY <1>7, <2>2, <2>4, <2>6, <3>1 DEF AdvanceTxHead, ShapeOK, TransmitterArmed, InWrite
  <2>8. CASE Len(segments) # 1
    BY <1>7, <2>2, <2>4, <2>5, <2>6, <2>8 DEF AdvanceTxHead, ShapeOK, TransmitterArmed, InWrite
  <2> QED
    BY <2>7, <2>8
<1>8. CASE CheckReady
  BY <1>8 DEF CheckReady, ShapeOK, TransmitterArmed, InWrite
<1>9. CASE Pop
  <2>1. popped'.tail \in Int
    <3>1. tx.tail \in Int /\ popped.tail \in Int
      BY CountersAreInts DEF ShapeOK
    <3>2. \/ popped' = popped
          \/ popped' = [byte |-> tx.data[Index(tx.tail)], tail |-> tx.tail]
      BY <1>9 DEF Pop
    <3> QED
      BY <3>1, <3>2
  <2> QED
    BY <1>9, <2>1 DEF Pop, ShapeOK, TransmitterArmed, InWrite
<1>10. CASE AdvanceTxTail
  <2>1. PICK tail \in {popped.tail, tx.tail} : tx' = [tx EXCEPT !.tail = Advance(tail, 1)]
    BY <1>10 DEF AdvanceTxTail
  <2>2. tail \in Int
    BY <2>1, CountersAreInts DEF ShapeOK
  <2>3. IsRing(tx')
    BY <2>1, <2>2, AdvanceInRange, RingTail DEF ShapeOK
  <2> QED
    BY <1>10, <2>3 DEF AdvanceTxTail, writing, ShapeOK, TransmitterArmed, InWrite
<1>11. CASE SendByte
  <2>1. IsSeq(wire')
    <3>1. CASE TxReady
      BY <1>11, <3>1, SeqAppend DEF SendByte, ShapeOK
    <3>2. CASE ~TxReady
      BY <1>11, <3>2, SeqExceptLast DEF SendByte, ShapeOK
    <3> QED
      BY <3>1, <3>2
  <2>2. popped'.tail \in Int
    <3>1. popped' = NotPopping
      BY <1>11 DEF SendByte
    <3> QED
      BY <3>1 DEF NotPopping
  <2> QED
    BY <1>11, <2>1, <2>2 DEF SendByte, ShapeOK, TransmitterArmed, InWrite
<1>12. CASE BeginFlush
  BY <1>12 DEF BeginFlush, writing, ShapeOK, TransmitterArmed, InWrite
<1>13. CASE EndFlush
  BY <1>13 DEF EndFlush, writing, ShapeOK, TransmitterArmed, InWrite
<1>14. ASSUME NEW b \in Bytes, ReceiveInterrupt(b)
       PROVE  ArmedInv'
  <2>1. IsRing(rx')
    BY <1>14, RingInsert DEF ReceiveInterrupt, ShapeOK
  <2>2. /\ IsRing(tx') /\ IsSeq(wire')
        /\ (~IsEmpty(tx)) \/ IsEmpty(tx')
        /\ txint' = txint \/ IsEmpty(tx')
    BY <1>14, FeedKeepsArmed DEF ReceiveInterrupt
  <2>3. UNCHANGED <<pc, segments, rest, popped>>
    BY <1>14 DEF ReceiveInterrupt, writing
  <2>4. ShapeOK'
    BY <2>1, <2>2, <2>3 DEF ShapeOK
  <2>5. TransmitterArmed'
    <3> SUFFICES ASSUME ~InWrite', ~IsEmpty(tx') PROVE txint'
      BY DEF TransmitterArmed, IsEmpty
    <3>1. ~InWrite
      BY <2>3 DEF InWrite
    <3>2. ~IsEmpty(tx) /\ txint' = txint
      BY <2>2
    <3>3. txint
      BY <3>1, <3>2 DEF TransmitterArmed
    <3> QED
      BY <3>2, <3>3, Zenon
  <2> QED
    BY <2>4, <2>5
<1>15. CASE TransmitInterrupt
  <2>1. /\ IsRing(tx') /\ IsSeq(wire')
        /\ (~IsEmpty(tx)) \/ IsEmpty(tx')
        /\ txint' = txint \/ IsEmpty(tx')
    BY <1>15, FeedKeepsArmed DEF TransmitInterrupt
  <2>2. UNCHANGED <<rx, pc, segments, rest, popped>>
    BY <1>15 DEF TransmitInterrupt, writing
  <2>3. ShapeOK'
    BY <2>1, <2>2 DEF ShapeOK
  <2>4. TransmitterArmed'
    <3> SUFFICES ASSUME ~InWrite', ~IsEmpty(tx') PROVE txint'
      BY DEF TransmitterArmed, IsEmpty
    <3>1. ~InWrite
      BY <2>2 DEF InWrite
    <3>2. ~IsEmpty(tx) /\ txint' = txint
      BY <2>1
    <3>3. txint
      BY <3>1, <3>2 DEF TransmitterArmed
    <3> QED
      BY <3>2, <3>3, Zenon
  <2> QED
    BY <2>3, <2>4
<1>16. CASE Shift
  <2>1. IsSeq(wire')
    BY <1>16, SeqTail DEF Shift, ShapeOK
  <2> QED
    BY <1>16, <2>1 DEF Shift, writing, ShapeOK, TransmitterArmed, InWrite
<1>17. CASE UNCHANGED vars
  BY <1>17 DEF vars, writing, ShapeOK, TransmitterArmed, InWrite, IsEmpty, IsRing
<1> QED
  BY <1>1, <1>2, <1>3, <1>4, <1>5, <1>6, <1>7, <1>8, <1>9, <1>10, <1>11, <1>12, <1>13, <1>14,
     <1>15, <1>16, <1>17
  DEF Next, Read, Write, WriteStep

\* Bytes wait in the transmit buffer outside a write only while the transmit
\* interrupt is enabled: the handler never switches it off in front of a byte,
\* and no way out of Chip_UART_SendRB leaves it off.
THEOREM TransmitterAlwaysArmed == Spec => []TransmitterArmed
<1>1. ArmedInv => TransmitterArmed
  BY DEF ArmedInv
<1> QED
  BY <1>1, ArmedInit, ArmedStep, PTL DEF Spec

-----------------------------------------------------------------------------
(* Ring buffers as queues *)

\* A multiple more or less does not change the remainder.
LEMMA ModShift ==
  ASSUME NEW m \in Nat, m > 0, NEW x \in Int, NEW k \in Int
  PROVE  (x + m * k) % m = x % m
<1>1. x % m \in 0 .. m - 1 /\ x \div m \in Int /\ x = m * (x \div m) + (x % m)
  BY ModRange
<1>2. m * ((x \div m) + k) = m * (x \div m) + m * k /\ m * k \in Int /\ m * (x \div m) \in Int
  BY <1>1
<1>3. x + m * k = m * ((x \div m) + k) + (x % m)
  BY <1>1, <1>2
<1>4. (m * ((x \div m) + k) + (x % m)) % m = x % m
  <2>1. (x \div m) + k \in Int
    BY <1>1
  <2> QED
    BY <1>1, <2>1, ModUnique
<1> QED
  BY <1>3, <1>4

\* The cell of a counter that has wrapped around is the cell it had before.
LEMMA IndexWraps ==
  ASSUME NEW x \in Int, NEW k \in Int
  PROVE  Index(x + Modulus * k) = Index(x)
<1>1. Size \in Nat /\ Size > 0 /\ Modulus \in Nat /\ Modulus % Size = 0
  BY RingAssumption
<1> DEFINE f == Modulus \div Size
<1>2. f \in Int /\ Modulus = Size * f
  <2>1. f \in Int /\ Modulus = Size * f + (Modulus % Size)
    BY <1>1, ModRange
  <2>2. Size * f \in Int
    BY <1>1, <2>1
  <2> QED
    BY <1>1, <2>1, <2>2
<1> HIDE DEF f
<1>3. Modulus * k = Size * (f * k)
  BY <1>1, <1>2
<1>4. f * k \in Int
  BY <1>2
<1>5. (x + Size * (f * k)) % Size = x % Size
  BY <1>1, <1>4, ModShift
<1> QED
  BY <1>3, <1>5 DEF Index

LEMMA IndexAdvance ==
  ASSUME NEW c \in Int, NEW n \in Int, NEW k \in Int
  PROVE  Index(Advance(c, n) + k) = Index(c + n + k)
<1> DEFINE q == (c + n) \div Modulus
<1>1. Modulus \in Nat /\ Modulus > 0 /\ c + n \in Int
  BY RingAssumption
<1>2. q \in Int /\ Advance(c, n) \in Int /\ c + n = Modulus * q + Advance(c, n)
  BY <1>1, ModRange DEF Advance
<1> HIDE DEF q
<1>3. Modulus * q \in Int
  BY <1>1, <1>2
<1>4. c + n + k = (Advance(c, n) + k) + Modulus * q
  BY <1>2, <1>3
<1> QED
  BY <1>2, <1>4, IndexWraps

\* An index is a cell.  Up to the last cell, the indices of successive counters
\* are successive.
LEMMA IndexIsCell ==
  ASSUME NEW c \in Int
  PROVE  Index(c) \in 0 .. Size - 1
BY RingAssumption, ModRange DEF Index

LEMMA IndexStraight ==
  ASSUME NEW c \in Int, NEW k \in Nat, Index(c) + k < Size
  PROVE  Index(c + k) = Index(c) + k
<1>1. Size \in Nat /\ Size > 0
  BY RingAssumption
<1>2. Index(c) \in 0 .. Size - 1 /\ c \div Size \in Int /\ c = Size * (c \div Size) + Index(c)
  BY <1>1, ModRange DEF Index
<1> DEFINE q == c \div Size
<1> HIDE DEF q
<1>3. Size * q \in Int /\ c + k = Size * q + (Index(c) + k) /\ q \in Int /\ Index(c) + k \in 0 .. Size - 1
  BY <1>1, <1>2 DEF q
<1>4. (Size * q + (Index(c) + k)) % Size = Index(c) + k
  BY <1>1, <1>3, ModUnique
<1> QED
  BY <1>3, <1>4 DEF Index

\* Counters that are less than Size apart have different cells.
LEMMA IndexInjective ==
  ASSUME NEW x \in Int, NEW y \in Int, Index(x) = Index(y), x - y < Size, y - x < Size
  PROVE  x = y
<1>1. Size \in Nat /\ Size > 0
  BY RingAssumption
<1> DEFINE p == x \div Size
           q == y \div Size
<1>2. p \in Int /\ Index(x) \in Int /\ x = Size * p + Index(x)
  BY <1>1, ModRange DEF Index
<1>3. q \in Int /\ Index(y) \in Int /\ y = Size * q + Index(y)
  BY <1>1, ModRange DEF Index
<1> HIDE DEF p, q
<1>4. Size * (p - q) = Size * p - Size * q /\ Size * p \in Int /\ Size * q \in Int
  BY <1>1, <1>2, <1>3
<1>5. Size * (p - q) = x - y
  BY <1>2, <1>3, <1>4
<1>6. p - q \in Int /\ -Size < Size * (p - q) /\ Size * (p - q) < Size
  BY <1>1, <1>2, <1>3, <1>5
<1>7. p - q = 0
  BY <1>1, <1>6, SmallMultiple
<1>8. p = q
  BY <1>2, <1>3, <1>7
<1> QED
  BY <1>2, <1>3, <1>8

\* A ring buffer whose counters are at most Size apart, and the bytes it may
\* hold in its cells.
Cells == Bytes \cup {NoByte}

Ring(r) == r \in RingType /\ Distance(r) <= Size

LEMMA RingFields ==
  ASSUME NEW r, Ring(r)
  PROVE  /\ r = [data |-> r.data, head |-> r.head, tail |-> r.tail]
         /\ r.data \in [0 .. Size - 1 -> Cells]
         /\ r.head \in Counters /\ r.tail \in Counters
         /\ r.head \in Int /\ r.tail \in Int
         /\ IsRing(r)
<1>1. r \in [data : [0 .. Size - 1 -> Cells], head : Counters, tail : Counters]
  BY DEF Ring, RingType, Cells, Counters
<1>2. \A c \in Counters : c \in Int
  BY RingAssumption DEF Counters
<1> QED
  BY <1>1, <1>2 DEF IsRing

LEMMA RingMake ==
  ASSUME NEW d \in [0 .. Size - 1 -> Cells], NEW h \in Counters, NEW t \in Counters,
         Distance([data |-> d, head |-> h, tail |-> t]) <= Size
  PROVE  Ring([data |-> d, head |-> h, tail |-> t])
BY DEF Ring, RingType, Cells, Counters

\* Such a buffer is counted right, and its contents are a sequence.
LEMMA RingCount ==
  ASSUME NEW r, Ring(r)
  PROVE  /\ Distance(r) \in 0 .. Size /\ GetCount(r) = Distance(r)
         /\ GetFree(r) = Size - Distance(r)
         /\ IsEmpty(r) <=> Distance(r) = 0
         /\ IsFull(r) <=> Distance(r) = Size
<1>1. Size \in Nat /\ Size > 0 /\ Modulus \in Nat /\ Modulus > 2 * Size
  BY RingAssumption
<1>2. Distance(r) \in 0 .. Size
  BY <1>1, RingFields, DistanceInRange DEF Ring, Counters
<1>3. GetCount(r) = Distance(r)
  BY <1>1, <1>2 DEF GetCount
<1>4. Distance(r) = 0 => IsEmpty(r)
  <2> SUFFICES ASSUME Distance(r) = 0 PROVE r.head = r.tail
    BY DEF IsEmpty
  <2> DEFINE q == (r.head - r.tail) \div Modulus
  <2>1. r.head - r.tail \in Int /\ r.head \in 0 .. Modulus - 1 /\ r.tail \in 0 .. Modulus - 1
    BY RingFields DEF Counters
  <2>2. q \in Int /\ r.head - r.tail = Modulus * q + Distance(r)
    BY <1>1, <2>1, ModRange DEF Distance
  <2> HIDE DEF q
  <2>3. Modulus * q \in Int
    BY <1>1, <2>2
  <2>4. Modulus * q = r.head - r.tail
    BY <2>2, <2>3
  <2>5. -Modulus < Modulus * q /\ Modulus * q < Modulus
    BY <1>1, <2>1, <2>4
  <2>6. q = 0
    BY <1>1, <2>2, <2>5, SmallMultiple
  <2>7. Modulus * q = 0
    BY <1>1, <2>6
  <2> QED
    BY <2>1, <2>4, <2>7
<1>5. IsEmpty(r) => Distance(r) = 0
  BY RingFields, DistanceInRange
<1> QED
  BY <1>1, <1>2, <1>3, <1>4, <1>5 DEF GetFree, IsFull

LEMMA RingContents ==
  ASSUME NEW r, Ring(r)
  PROVE  /\ Contents(r) \in Seq(Cells) /\ Len(Contents(r)) = Distance(r)
         /\ \A i \in 1 .. Distance(r) : Contents(r)[i] = r.data[Index(r.tail + i - 1)]
<1>1. Distance(r) \in Nat /\ Contents(r) = [i \in 1 .. Distance(r) |-> r.data[Index(r.tail + i - 1)]]
  BY RingCount, RingAssumption DEF Contents, Oldest
<1>2. \A i \in 1 .. Distance(r) : r.data[Index(r.tail + i - 1)] \in Cells
  <2> TAKE i \in 1 .. Distance(r)
  <2>1. r.tail + i - 1 \in Int
    BY <1>1, RingFields
  <2>2. Index(r.tail + i - 1) \in 0 .. Size - 1
    BY <2>1, IndexIsCell
  <2> QED
    BY <2>2, RingFields
<1> QED
  BY <1>1, <1>2

\* The cells from the head on follow those of the contents.
LEMMA HeadIndex ==
  ASSUME NEW r, Ring(r), NEW k \in Int
  PROVE  Index(r.head + k) = Index(r.tail + Distance(r) + k)
<1> DEFINE q == (r.head - r.tail) \div Modulus
<1>1. Modulus \in Nat /\ Modulus > 0 /\ r.head \in Int /\ r.tail \in Int /\ r.head - r.tail \in Int
  BY RingAssumption, RingFields
<1>2. q \in Int /\ Distance(r) \in Int /\ r.head - r.tail = Modulus * q + Distance(r)
  <2>1. Distance(r) = (r.head - r.tail) % Modulus
    BY DEF Distance
  <2>2. /\ (r.head - r.tail) % Modulus \in 0 .. Modulus - 1 /\ q \in Int
        /\ r.head - r.tail = Modulus * q + ((r.head - r.tail) % Modulus)
    BY <1>1, ModRange
  <2> HIDE DEF q
  <2> QED
    BY <1>1, <2>1, <2>2
<1> HIDE DEF q
<1>3. Modulus * q \in Int
  BY <1>1, <1>2
<1>4. r.head + k = (r.tail + Distance(r) + k) + Modulus * q
  BY <1>1, <1>2, <1>3
<1>5. r.tail + Distance(r) + k \in Int
  BY <1>1, <1>2
<1> QED
  BY <1>2, <1>4, <1>5, IndexWraps

\* The distance after one of the counters has advanced.
LEMMA DistanceTail ==
  ASSUME NEW r, Ring(r), NEW n \in 0 .. Distance(r), NEW d
  PROVE  Distance([data |-> d, head |-> r.head, tail |-> Advance(r.tail, n)]) = Distance(r) - n
<1>1. Modulus \in Nat /\ Modulus > 0 /\ Size \in Nat /\ Modulus > 2 * Size
  BY RingAssumption
<1>2. r.head \in Int /\ r.tail \in Int /\ Distance(r) \in 0 .. Size /\ n \in Int
  BY <1>1, RingFields, RingCount
<1> DEFINE q == (r.tail + n) \div Modulus
           p == (r.head - r.tail) \div Modulus
<1>3. q \in Int /\ Advance(r.tail, n) \in Int /\ r.tail + n = Modulus * q + Advance(r.tail, n)
  <2>1. r.tail + n \in Int
    BY <1>2
  <2>2. /\ (r.tail + n) % Modulus \in 0 .. Modulus - 1 /\ q \in Int
        /\ r.tail + n = Modulus * q + ((r.tail + n) % Modulus)
    BY <1>1, <2>1, ModRange
  <2> HIDE DEF q
  <2>3. Advance(r.tail, n) = (r.tail + n) % Modulus
    BY DEF Advance
  <2> QED
    BY <1>1, <2>2, <2>3
<1>4. p \in Int /\ r.head - r.tail = Modulus * p + Distance(r)
  <2>1. r.head - r.tail \in Int
    BY <1>2
  <2> QED
    BY <1>1, <2>1, ModRange DEF Distance
<1> HIDE DEF q, p
<1>5. Modulus * (p + q) = Modulus * p + Modulus * q /\ Modulus * p \in Int /\ Modulus * q \in Int /\ p + q \in Int
  BY <1>1, <1>3, <1>4
<1>6. r.head - Advance(r.tail, n) = Modulus * (p + q) + (Distance(r) - n)
  <2> DEFINE a == Modulus * p
             b == Modulus * q
  <2>1. /\ a \in Int /\ b \in Int /\ Modulus * (p + q) = a + b
        /\ r.tail + n = b + Advance(r.tail, n) /\ r.head - r.tail = a + Distance(r)
    BY <1>3, <1>4, <1>5
  <2> HIDE DEF a, b
  <2> QED
    BY <1>2, <1>3, <2>1
<1>7. Distance(r) - n \in 0 .. Modulus - 1
  BY <1>1, <1>2
<1>8. (Modulus * (p + q) + (Distance(r) - n)) % Modulus = Distance(r) - n
  BY <1>1, <1>5, <1>7, ModUnique
<1> QED
  BY <1>6, <1>8 DEF Distance

LEMMA DistanceHead ==
  ASSUME NEW r, Ring(r), NEW n \in 0 .. Size - Distance(r), NEW d
  PROVE  Distance([data |-> d, head |-> Advance(r.head, n), tail |-> r.tail]) = Distance(r) + n
<1>1. Modulus \in Nat /\ Modulus > 0 /\ Size \in Nat /\ Modulus > 2 * Size
  BY RingAssumption
<1>2. r.head \in Int /\ r.tail \in Int /\ Distance(r) \in 0 .. Size /\ n \in Int
  BY <1>1, RingFields, RingCount
<1> DEFINE q == (r.head + n) \div Modulus
           p == (r.head - r.tail) \div Modulus
<1>3. q \in Int /\ Advance(r.head, n) \in Int /\ r.head + n = Modulus * q + Advance(r.head, n)
  <2>1. r.head + n \in Int
    BY <1>2
  <2>2. /\ (r.head + n) % Modulus \in 0 .. Modulus - 1 /\ q \in Int
        /\ r.head + n = Modulus * q + ((r.head + n) % Modulus)
    BY <1>1, <2>1, ModRange
  <2> HIDE DEF q
  <2>3. Advance(r.head, n) = (r.head + n) % Modulus
    BY DEF Advance
  <2> QED
    BY <1>1, <2>2, <2>3
<1>4. p \in Int /\ r.head - r.tail = Modulus * p + Distance(r)
  <2>1. r.head - r.tail \in Int
    BY <1>2
  <2> QED
    BY <1>1, <2>1, ModRange DEF Distance
<1> HIDE DEF q, p
<1>5. Modulus * (p - q) = Modulus * p - Modulus * q /\ Modulus * p \in Int /\ Modulus * q \in Int /\ p - q \in Int
  BY <1>1, <1>3, <1>4
<1>6. Advance(r.head, n) - r.tail = Modulus * (p - q) + (Distance(r) + n)
  BY <1>2, <1>3, <1>4, <1>5
<1>7. Distance(r) + n \in 0 .. Modulus - 1
  BY <1>1, <1>2
<1>8. (Modulus * (p - q) + (Distance(r) + n)) % Modulus = Distance(r) + n
  BY <1>1, <1>5, <1>7, ModUnique
<1> QED
  BY <1>6, <1>8 DEF Distance

\* A new buffer is empty.
LEMMA EmptyRing == Ring(RingInit) /\ Distance(RingInit) = 0
<1>1. Size \in Nat /\ Size > 0 /\ Modulus \in Nat /\ Modulus > 2 * Size
  BY RingAssumption
<1>2. /\ RingInit.head = 0 /\ RingInit.tail = 0 /\ 0 \in Counters
      /\ RingInit.data \in [0 .. Size - 1 -> Cells]
  BY <1>1 DEF RingInit, Counters, Cells
<1>3. Distance(RingInit) = 0
  BY RingInitial, DistanceInRange, <1>2 DEF IsEmpty
<1>4. RingInit \in RingType
  BY <1>1, <1>2 DEF RingInit, RingType, Counters, Cells
<1> QED
  BY <1>1, <1>3, <1>4 DEF Ring

\* Moving the tail takes the oldest bytes out.
LEMMA RingTake ==
  ASSUME NEW r, Ring(r), NEW n \in 0 .. Distance(r),
         NEW s, s = [r EXCEPT !.tail = Advance(r.tail, n)]
  PROVE  /\ Ring(s) /\ Distance(s) = Distance(r) - n
         /\ s.data = r.data /\ s.head = r.head /\ s.tail = Advance(r.tail, n)
         /\ Contents(s) = SubSeq(Contents(r), n + 1, Len(Contents(r)))
         /\ Oldest(r, n) = SubSeq(Contents(r), 1, n)
<1>1. /\ Distance(r) \in 0 .. Size /\ Size \in Nat /\ n \in Nat
      /\ r.tail \in Int /\ r.head \in Counters
  BY RingCount, RingFields, RingAssumption
<1>2. s = [data |-> r.data, head |-> r.head, tail |-> Advance(r.tail, n)]
  BY RingFields
<1>3. Distance(s) = Distance(r) - n
  BY <1>2, DistanceTail
<1>4. Advance(r.tail, n) \in Counters
  BY <1>1, AdvanceInRange
<1>5. Ring(s)
  <2>1. Distance(s) <= Size
    BY <1>1, <1>3
  <2> QED
    BY <1>1, <1>2, <1>4, <2>1, RingFields, RingMake
<1>6. s.data = r.data /\ s.head = r.head /\ s.tail = Advance(r.tail, n)
  BY <1>2
<1> DEFINE c == Contents(r)
           u == SubSeq(c, n + 1, Len(c))
<1>7. /\ c \in Seq(Cells) /\ Len(c) = Distance(r)
      /\ \A i \in 1 .. Distance(r) : c[i] = r.data[Index(r.tail + i - 1)]
  BY RingContents
<1> HIDE DEF c
<1>8. /\ u \in Seq(Cells) /\ Len(u) = Distance(r) - n
      /\ \A i \in 1 .. Distance(r) - n : u[i] = c[n + i]
  BY <1>1, <1>7, SMTT(60)
<1>9. /\ Contents(s) \in Seq(Cells) /\ Len(Contents(s)) = Distance(r) - n
      /\ \A i \in 1 .. Distance(r) - n : Contents(s)[i] = r.data[Index(s.tail + i - 1)]
  BY <1>3, <1>5, <1>6, RingContents
<1> HIDE DEF u
<1>10. Contents(s) = u
  <2>1. ASSUME NEW i \in 1 .. Distance(r) - n
        PROVE  Contents(s)[i] = u[i]
    <3>1. Index(Advance(r.tail, n) + (i - 1)) = Index(r.tail + n + (i - 1))
      BY <1>1, IndexAdvance
    <3>2. /\ Advance(r.tail, n) + (i - 1) = s.tail + i - 1
          /\ r.tail + n + (i - 1) = r.tail + (n + i) - 1
      BY <1>1, <1>4, <1>6, RingAssumption DEF Counters
    <3>3. n + i \in 1 .. Distance(r)
      BY <1>1
    <3>4. Contents(s)[i] = r.data[Index(r.tail + (n + i) - 1)]
      BY <1>9, <3>1, <3>2
    <3> QED
      BY <1>7, <1>8, <3>3, <3>4
  <2> QED
    BY <1>8, <1>9, <2>1, SeqEqual
<1>11. Oldest(r, n) = SubSeq(c, 1, n)
  <2>1. Oldest(r, n) = [i \in 1 .. n |-> c[i]]
    BY <1>1, <1>7 DEF Oldest
  <2>2. SubSeq(c, 1, n) = [i \in 1 .. n |-> c[i]]
    BY <1>1, <1>7
  <2> QED
    BY <2>1, <2>2
<1> QED
  BY <1>3, <1>5, <1>6, <1>10, <1>11 DEF c, u

\* Moving the head adds the bytes in the cells that it passes.
LEMMA RingPut ==
  ASSUME NEW r, Ring(r), NEW bytes \in Seq(Cells), Len(bytes) <= Size - Distance(r),
         \A i \in 1 .. Len(bytes) : r.data[Index(r.head + i - 1)] = bytes[i],
         NEW s, s = [r EXCEPT !.head = Advance(r.head, Len(bytes))]
  PROVE  /\ Ring(s) /\ Distance(s) = Distance(r) + Len(bytes)
         /\ s.data = r.data /\ s.tail = r.tail /\ s.head = Advance(r.head, Len(bytes))
         /\ Contents(s) = Contents(r) \o bytes
<1> DEFINE n == Len(bytes)
<1>1. /\ Distance(r) \in 0 .. Size /\ Size \in Nat /\ n \in 0 .. Size - Distance(r)
      /\ r.head \in Int /\ r.tail \in Counters /\ r.tail \in Int
  BY RingCount, RingFields, RingAssumption
<1>2. s = [data |-> r.data, head |-> Advance(r.head, n), tail |-> r.tail]
  BY RingFields
<1> HIDE DEF n
<1>3. Distance(s) = Distance(r) + n
  BY <1>1, <1>2, DistanceHead
<1>4. Advance(r.head, n) \in Counters
  BY <1>1, AdvanceInRange
<1>5. Ring(s)
  <2>1. Distance(s) <= Size
    BY <1>1, <1>3
  <2>2. r.data \in [0 .. Size - 1 -> Cells]
    BY RingFields
  <2> QED
    BY <1>1, <1>2, <1>4, <2>1, <2>2, RingMake
<1>6. s.data = r.data /\ s.tail = r.tail /\ s.head = Advance(r.head, n)
  BY <1>2
<1> DEFINE c == Contents(r)
           u == c \o bytes
<1>7. /\ c \in Seq(Cells) /\ Len(c) = Distance(r)
      /\ \A i \in 1 .. Distance(r) : c[i] = r.data[Index(r.tail + i - 1)]
  BY RingContents
<1> HIDE DEF c
<1>8. /\ u \in Seq(Cells) /\ Len(u) = Distance(r) + n
      /\ \A i \in 1 .. Distance(r) + n : u[i] = IF i <= Distance(r) THEN c[i] ELSE bytes[i - Distance(r)]
  <2>1. /\ u \in Seq(Cells) /\ Len(u) = Len(c) + Len(bytes)
        /\ \A i \in 1 .. Len(c) + Len(bytes) :
              u[i] = IF i <= Len(c) THEN c[i] ELSE bytes[i - Len(c)]
    BY <1>7, ConcatProperties
  <2> QED
    BY <1>7, <2>1 DEF n
<1>9. /\ Contents(s) \in Seq(Cells) /\ Len(Contents(s)) = Distance(r) + n
      /\ \A i \in 1 .. Distance(r) + n : Contents(s)[i] = r.data[Index(r.tail + i - 1)]
  <2>1. /\ Contents(s) \in Seq(Cells) /\ Len(Contents(s)) = Distance(s)
        /\ \A i \in 1 .. Distance(s) : Contents(s)[i] = s.data[Index(s.tail + i - 1)]
    BY <1>5, RingContents
  <2> QED
    BY <1>3, <1>6, <2>1
<1> HIDE DEF u
<1>10. ASSUME NEW i \in 1 .. Distance(r) + n
       PROVE  Contents(s)[i] = u[i]
  <2>1. CASE i <= Distance(r)
    <3>1. i \in 1 .. Distance(r)
      BY <1>1, <2>1
    <3> QED
      BY <1>7, <1>8, <1>9, <2>1, <3>1
  <2>2. CASE i > Distance(r)
    <3> DEFINE j == i - Distance(r)
    <3>1. j \in 1 .. n /\ i = Distance(r) + j
      BY <1>1, <2>2
    <3> HIDE DEF j
    <3>2. Index(r.head + (j - 1)) = Index(r.tail + Distance(r) + (j - 1))
      <4>1. j - 1 \in Int
        BY <1>1, <3>1
      <4> QED
        BY <4>1, HeadIndex
    <3>3. r.head + (j - 1) = r.head + j - 1 /\ r.tail + Distance(r) + (j - 1) = r.tail + i - 1
      BY <1>1, <3>1
    <3>4. Contents(s)[i] = bytes[j]
      BY <1>9, <3>1, <3>2, <3>3 DEF n
    <3>5. u[i] = bytes[i - Distance(r)]
      BY <1>1, <1>8, <2>2
    <3> QED
      BY <3>4, <3>5 DEF j
  <2> QED
    BY <1>1, <2>1, <2>2
<1>11. Contents(s) = u
  BY <1>8, <1>9, <1>10, SeqEqual
<1> QED
  BY <1>3, <1>5, <1>6, <1>11 DEF c, u, n

\* Writing cells that are not in use leaves the contents alone.
LEMMA RingWrite ==
  ASSUME NEW r, Ring(r), NEW d \in [0 .. Size - 1 -> Cells],
         \A i \in 1 .. Distance(r) : d[Index(r.tail + i - 1)] = r.data[Index(r.tail + i - 1)],
         NEW s, s = [r EXCEPT !.data = d]
  PROVE  /\ Ring(s) /\ Distance(s) = Distance(r)
         /\ s.data = d /\ s.head = r.head /\ s.tail = r.tail
         /\ Contents(s) = Contents(r)
<1>1. s = [data |-> d, head |-> r.head, tail |-> r.tail]
  BY RingFields
<1>2. s.data = d /\ s.head = r.head /\ s.tail = r.tail
  BY <1>1
<1>3. Distance(s) = Distance(r)
  BY <1>2 DEF Distance
<1>4. Ring(s)
  <2>1. Distance(s) <= Size
    BY <1>3 DEF Ring
  <2> QED
    BY <1>1, <2>1, RingFields, RingMake
<1>5. /\ Contents(r) \in Seq(Cells) /\ Len(Contents(r)) = Distance(r)
      /\ \A i \in 1 .. Distance(r) : Contents(r)[i] = r.data[Index(r.tail + i - 1)]
  BY RingContents
<1>6. /\ Contents(s) \in Seq(Cells) /\ Len(Contents(s)) = Distance(r)
      /\ \A i \in 1 .. Distance(r) : Contents(s)[i] = d[Index(r.tail + i - 1)]
  <2>1. /\ Contents(s) \in Seq(Cells) /\ Len(Contents(s)) = Distance(s)
        /\ \A i \in 1 .. Distance(s) : Contents(s)[i] = s.data[Index(s.tail + i - 1)]
    BY <1>4, RingContents
  <2> QED
    BY <1>2, <1>3, <2>1
<1>7. \A i \in 1 .. Distance(r) : Contents(s)[i] = Contents(r)[i]
  BY <1>5, <1>6
<1>8. Contents(s) = Contents(r)
  BY <1>5, <1>6, <1>7, SeqEqual
<1> QED
  BY <1>2, <1>3, <1>4, <1>8

\* The memcpy of a segment that fits into the free cells up to the last one.
LEMMA RingCopy ==
  ASSUME NEW r, Ring(r), NEW bytes \in Seq(Cells), Len(bytes) <= Size - Distance(r),
         Index(r.head) + Len(bytes) <= Size,
         NEW s, s = CopyIn(r, bytes)
  PROVE  /\ Ring(s) /\ Distance(s) = Distance(r) /\ s.head = r.head /\ s.tail = r.tail
         /\ Contents(s) = Contents(r)
         /\ \A i \in 1 .. Len(bytes) : s.data[Index(s.head + i - 1)] = bytes[i]
<1> DEFINE n == Len(bytes)
           x == Index(r.head)
           d == [i \in DOMAIN r.data |->
                   IF i \in x .. x + n - 1 THEN bytes[i - x + 1] ELSE r.data[i]]
<1>1. /\ Distance(r) \in 0 .. Size /\ Size \in Nat /\ n \in 0 .. Size - Distance(r)
      /\ r.head \in Int /\ r.tail \in Int /\ x \in 0 .. Size - 1 /\ x + n <= Size
      /\ r.data \in [0 .. Size - 1 -> Cells]
  BY RingCount, RingFields, RingAssumption, IndexIsCell
<1>2. s = [r EXCEPT !.data = d]
  BY DEF CopyIn
<1>3. \A i \in 1 .. n : bytes[i] \in Cells
  OBVIOUS
<1> HIDE DEF n, x
<1>4. d \in [0 .. Size - 1 -> Cells]
  <2>1. ASSUME NEW i \in 0 .. Size - 1
        PROVE  d[i] \in Cells
    <3>1. CASE i \in x .. x + n - 1
      <4>1. i - x + 1 \in 1 .. n
        BY <1>1, <3>1, SMTT(60)
      <4> QED
        BY <1>1, <1>3, <3>1, <4>1
    <3>2. CASE i \notin x .. x + n - 1
      BY <1>1, <3>2
    <3> QED
      BY <3>1, <3>2
  <2> QED
    BY <1>1, <2>1
<1>5. ASSUME NEW i \in 1 .. n
      PROVE  Index(r.head + (i - 1)) = x + (i - 1)
  <2>1. i - 1 \in Nat /\ x + (i - 1) < Size
    BY <1>1
  <2> QED
    BY <1>1, <2>1, IndexStraight DEF x
<1>6. ASSUME NEW i \in 1 .. Distance(r)
      PROVE  d[Index(r.tail + i - 1)] = r.data[Index(r.tail + i - 1)]
  <2> DEFINE y == Index(r.tail + (i - 1))
  <2>1. i - 1 \in Int /\ r.tail + (i - 1) \in Int /\ r.tail + (i - 1) = r.tail + i - 1
    BY <1>1
  <2>2. y \in 0 .. Size - 1
    BY <2>1, IndexIsCell
  <2>3. y \notin x .. x + n - 1
    <3> SUFFICES ASSUME y \in x .. x + n - 1 PROVE FALSE
      OBVIOUS
    <3> DEFINE j == y - x
    <3>1. j \in 0 .. n - 1 /\ y = x + j
      <4> HIDE DEF y, x, n, d
      <4>1. y \in Int /\ x \in Int /\ n \in Int
        BY <1>1, <2>2 DEF x, n
      <4> QED
        BY <4>1
    <3> HIDE DEF j
    <3>2. j + 1 \in 1 .. n /\ (j + 1) - 1 = j
      BY <1>1, <3>1
    <3>3. Index(r.head + j) = x + j
      BY <1>5, <3>2
    <3>4. Index(r.head + j) = Index(r.tail + Distance(r) + j)
      BY <1>1, <3>1, HeadIndex
    <3>5. /\ r.tail + Distance(r) + j \in Int
          /\ (r.tail + Distance(r) + j) - (r.tail + (i - 1)) < Size
          /\ (r.tail + (i - 1)) - (r.tail + Distance(r) + j) < Size
          /\ r.tail + Distance(r) + j # r.tail + (i - 1)
      <4> DEFINE t == r.tail
                 e == Distance(r)
      <4>1. t \in Int /\ e \in 0 .. Size /\ Size \in Nat /\ n \in 0 .. Size - e /\ i \in 1 .. e
        BY <1>1
      <4> HIDE DEF t, e
      <4>2. j \in Nat /\ e + j < Size /\ i \in Int /\ 1 <= i /\ i <= e
        BY <3>1, <4>1
      <4>3. /\ t + e + j \in Int
            /\ (t + e + j) - (t + (i - 1)) < Size
            /\ (t + (i - 1)) - (t + e + j) < Size
            /\ t + e + j # t + (i - 1)
        BY <4>1, <4>2
      <4> QED
        BY <4>3 DEF t, e
    <3>6. Index(r.tail + Distance(r) + j) = Index(r.tail + (i - 1))
      BY <3>1, <3>3, <3>4
    <3> QED
      BY <2>1, <3>5, <3>6, IndexInjective
  <2> HIDE DEF y
  <2>4. d[y] = r.data[y]
    BY <1>1, <2>2, <2>3
  <2> QED
    BY <2>1, <2>4 DEF y
<1>7. /\ Ring(s) /\ Distance(s) = Distance(r) /\ s.data = d /\ s.head = r.head /\ s.tail = r.tail
      /\ Contents(s) = Contents(r)
  <2>1. \A i \in 1 .. Distance(r) : d[Index(r.tail + i - 1)] = r.data[Index(r.tail + i - 1)]
    BY <1>6
  <2> HIDE DEF d
  <2>2. \A e \in [0 .. Size - 1 -> Cells] :
           (\A i \in 1 .. Distance(r) : e[Index(r.tail + i - 1)] = r.data[Index(r.tail + i - 1)])
           => \A q : q = [r EXCEPT !.data = e] =>
                /\ Ring(q) /\ Distance(q) = Distance(r)
                /\ q.data = e /\ q.head = r.head /\ q.tail = r.tail
                /\ Contents(q) = Contents(r)
    BY RingWrite
  <2> QED
    BY <1>2, <1>4, <2>1, <2>2
<1>8. ASSUME NEW i \in 1 .. n
      PROVE  s.data[Index(s.head + i - 1)] = bytes[i]
  <2>1. /\ s.head + i - 1 = r.head + (i - 1) /\ x + (i - 1) \in 0 .. Size - 1
        /\ x + (i - 1) \in x .. x + n - 1 /\ (x + (i - 1)) - x + 1 = i
    BY <1>1, <1>7
  <2>2. Index(s.head + i - 1) = x + (i - 1)
    BY <1>5, <2>1
  <2>3. d[x + (i - 1)] = bytes[i]
    BY <1>1, <2>1
  <2> QED
    BY <1>7, <2>2, <2>3
<1> QED
  BY <1>7, <1>8 DEF n

-----------------------------------------------------------------------------
(* The inductive invariants of the two directions *)

\* Segments still to be copied, from counter c on, for at most k bytes: each
\* ends before the last cell, and the second starts at the first cell.
Fits(s, c, k) ==
  /\ s \in Seq(0 .. Size) /\ Len(s) \in {1, 2}
  /\ Index(c) + s[1] <= Size /\ s[1] <= k
  /\ Len(s) = 2 => /\ s[1] + s[2] <= k
                   /\ s[2] > 0 => Index(c) + s[1] = Size

Places ==
  {"idle", "copyOut", "advanceTo", "insert", "copyIn", "advanceHead", "ready", "pop",
   "advanceTail", "send", "flush"}

\* Reading: what has been copied and not yet taken out is still in the cells,
\* whatever the handler adds.
RxInv ==
  /\ Ring(rx) /\ pc \in Places
  /\ buffer \in Seq(Cells) /\ done \in 0 .. Len(buffer)
  /\ pc \in {"copyOut", "advanceTo"} => Fits(segments, rx.tail, Distance(rx))
  /\ pc # "advanceTo" => done = Len(buffer)
  /\ pc = "advanceTo" =>
       /\ Len(buffer) = done + segments[1]
       /\ \A i \in 1 .. segments[1] : buffer[done + i] = rx.data[Index(rx.tail) + i - 1]

\* Writing: the transmit buffer holds bytes, and the variables have their types.
TxTypes ==
  /\ Ring(tx) /\ Contents(tx) \in Seq(Bytes)
  /\ pc \in Places
  /\ wire \in Seq(Bytes) /\ Len(wire) <= WireSize
  /\ segments \in Seq(0 .. Size)
  /\ rest \in Seq(Bytes) /\ pass \in {1, 2}
  /\ popped \in [byte : Cells, tail : Counters]

\* The handler stays away during a write.
TxQuiet == txint \in BOOLEAN /\ (InWrite => ~txint)

\* What a write knows when it copies: the segments fit into the free cells, and
\* what is not yet announced by the head is what the caller wants to send.
TxCopying ==
  /\ pc \in {"copyIn", "advanceHead"} =>
       /\ Fits(segments, tx.head, Size - Distance(tx))
       /\ Fits(segments, tx.head, Len(rest))
  /\ pc = "advanceHead" =>
       \A i \in 1 .. segments[1] : tx.data[Index(tx.head + i - 1)] = rest[i]

\* What it knows when it pops: the transmitter stays ready, and the tail it saw
\* is still the tail.
TxPopping ==
  /\ pc \in {"pop", "advanceTail", "send"} => TxReady
  /\ pc = "advanceTail" =>
       ~IsEmpty(tx) /\ popped.tail = tx.tail /\ popped.byte = tx.data[Index(tx.tail)]
  /\ pc = "send" => popped.byte \in Bytes

TxInv == TxTypes /\ TxQuiet /\ TxCopying /\ TxPopping

\* After the last cell comes the first one.
LEMMA IndexFirst ==
  ASSUME NEW c \in Int, NEW n \in Int, Index(c) + n = Size
  PROVE  Index(c + n) = 0
<1>1. Size \in Nat /\ Size > 0
  BY RingAssumption
<1> DEFINE q == c \div Size
<1>2. q \in Int /\ Index(c) \in Int /\ c = Size * q + Index(c)
  BY <1>1, ModRange DEF Index
<1> HIDE DEF q
<1>3. Size * (q + 1) = Size * q + Size /\ Size * q \in Int
  BY <1>1, <1>2
<1>4. c + n = Size * (q + 1) + 0
  BY <1>1, <1>2, <1>3
<1>5. (Size * (q + 1) + 0) % Size = 0
  <2>1. q + 1 \in Int /\ 0 \in 0 .. Size - 1
    BY <1>1, <1>2
  <2> QED
    BY <1>1, <2>1, ModUnique
<1> QED
  BY <1>4, <1>5 DEF Index

\* The elements of a sequence of one or two.
LEMMA OneOrTwo ==
  ASSUME NEW S, NEW s \in Seq(S), Len(s) \in {1, 2}
  PROVE  s # <<>> /\ s[1] \in S /\ (Len(s) = 2 => s[2] \in S)
<1>1. CASE Len(s) = 1
  <2>1. 1 \in 1 .. Len(s)
    BY <1>1
  <2> QED
    BY <1>1, <2>1, ElementOfSeq
<1>2. CASE Len(s) = 2
  <2>1. 1 \in 1 .. Len(s) /\ 2 \in 1 .. Len(s)
    BY <1>2
  <2> QED
    BY <1>2, <2>1, ElementOfSeq
<1> QED
  BY <1>1, <1>2

\* The two segments that InsertMult and PopMult compute fit, for the bytes that
\* are available and for those that are wanted.
LEMMA SegmentsFit ==
  ASSUME NEW c \in Int, NEW k \in 0 .. Size, NEW n \in Nat
  PROVE  /\ Segments(c, k, n) \in Seq(0 .. Size)
         /\ Fits(Segments(c, k, n), c, k) /\ Fits(Segments(c, k, n), c, n)
<1>1. Size \in Nat /\ Size > 0 /\ Index(c) \in 0 .. Size - 1 /\ k \in Nat
  BY RingAssumption, IndexIsCell
<1> DEFINE whole  == IF Index(c) + k >= Size THEN Size - Index(c) ELSE k
           first  == Lesser(whole, n)
           second == Lesser(k - whole, n - first)
<1>2. /\ whole \in Nat /\ whole <= k /\ Index(c) + whole <= Size
      /\ k - whole > 0 => Index(c) + whole = Size
  BY <1>1
<1> HIDE DEF whole
<1>3. first \in Nat /\ first <= whole /\ first <= n /\ (first # whole => first = n)
  BY <1>2 DEF Lesser
<1> HIDE DEF first
<1>4. /\ second \in Nat /\ second <= k - whole /\ second <= n - first
  BY <1>1, <1>2, <1>3 DEF Lesser
<1>5. Segments(c, k, n) = <<first, second>>
  BY DEF Segments, whole, first, second
<1> HIDE DEF second
<1>6. first \in 0 .. Size /\ second \in 0 .. Size /\ first <= k /\ first + second <= k /\ first + second <= n
  BY <1>1, <1>2, <1>3, <1>4
<1>7. Index(c) + first <= Size /\ (second > 0 => Index(c) + first = Size)
  BY <1>1, <1>2, <1>3, <1>4
<1> DEFINE s == <<first, second>>
<1>8. s \in Seq(0 .. Size) /\ Len(s) = 2 /\ s[1] = first /\ s[2] = second
  BY <1>6
<1> HIDE DEF s
<1>9. Fits(s, c, k) /\ Fits(s, c, n)
  BY <1>3, <1>6, <1>7, <1>8 DEF Fits
<1> QED
  BY <1>5, <1>8, <1>9 DEF s

\* The first segment has a length, and the second fits when the first is done.
LEMMA FitsNext ==
  ASSUME NEW s, NEW c \in Int, NEW k \in Int, Fits(s, c, k)
  PROVE  /\ Head(s) = s[1] /\ s[1] \in 0 .. Size /\ s[1] <= k /\ Index(c) + s[1] <= Size
         /\ Tail(s) \in Seq(0 .. Size)
         /\ Len(s) # 1 => Fits(Tail(s), Advance(c, s[1]), k - s[1])
<1>1. s \in Seq(0 .. Size) /\ Len(s) \in {1, 2}
  BY DEF Fits
<1>2. /\ Head(s) = s[1] /\ s[1] \in 0 .. Size /\ s[1] <= k /\ Index(c) + s[1] <= Size
      /\ Tail(s) \in Seq(0 .. Size) /\ Len(Tail(s)) = Len(s) - 1
      /\ \A i \in 1 .. Len(Tail(s)) : Tail(s)[i] = s[i + 1]
  <2>1. s # <<>> /\ Head(s) = s[1] /\ 1 \in 1 .. Len(s)
    BY <1>1
  <2>2. s[1] \in 0 .. Size
    BY <1>1, <2>1, ElementOfSeq
  <2> QED
    BY <1>1, <2>1, <2>2, HeadTailProperties DEF Fits
<1>3. ASSUME Len(s) # 1
      PROVE  Fits(Tail(s), Advance(c, s[1]), k - s[1])
  <2> DEFINE t == Tail(s)
             d == Advance(c, s[1])
  <2>1. Len(s) = 2
    BY <1>1, <1>3
  <2>2. t \in Seq(0 .. Size) /\ Len(t) = 1 /\ t[1] = s[2] /\ s[2] \in 0 .. Size
    <3>1. t \in Seq(0 .. Size) /\ Len(t) = 1 /\ t[1] = s[2]
      <4>1. t \in Seq(0 .. Size) /\ Len(t) = 1 /\ \A i \in 1 .. Len(t) : t[i] = s[i + 1]
        BY <1>2, <2>1
      <4> HIDE DEF t
      <4>2. t[1] = s[1 + 1]
        BY <4>1
      <4> QED
        BY <4>1, <4>2
    <3>2. s[2] \in 0 .. Size
      BY <1>1, <2>1, OneOrTwo
    <3> QED
      BY <3>1, <3>2
  <2>3. s[1] + s[2] <= k /\ (s[2] > 0 => Index(c) + s[1] = Size)
    BY <2>1 DEF Fits
  <2>4. Index(d) = Index(c + s[1]) /\ Index(d) \in 0 .. Size - 1
    <3>1. s[1] \in Int /\ 0 \in Int
      BY <1>2
    <3>2. d \in Int /\ c + s[1] \in Int
      <4>1. d \in Counters
        BY <3>1, AdvanceInRange
      <4>2. \A x \in Counters : x \in Int
        BY RingAssumption DEF Counters
      <4> HIDE DEF d
      <4> QED
        BY <3>1, <4>1, <4>2
    <3>3. Index(d + 0) = Index(c + s[1] + 0) /\ Index(d) \in 0 .. Size - 1
      BY <3>1, <3>2, IndexAdvance, IndexIsCell
    <3>4. d + 0 = d /\ c + s[1] + 0 = c + s[1]
      BY <3>2
    <3> QED
      BY <3>3, <3>4
  <2> HIDE DEF t, d
  <2>5. Index(d) + t[1] <= Size
    <3>1. CASE s[2] = 0
      BY <2>2, <2>4, <3>1, RingAssumption
    <3>2. CASE s[2] # 0
      <4>1. s[1] \in Int /\ Index(c) + s[1] = Size
        BY <1>2, <2>2, <2>3, <3>2
      <4>2. Index(d) = 0
        BY <2>4, <4>1, IndexFirst
      <4> QED
        BY <2>2, <4>2, RingAssumption
    <3> QED
      BY <3>1, <3>2
  <2>6. t[1] <= k - s[1]
    BY <1>2, <2>2, <2>3, RingAssumption
  <2>7. Fits(t, d, k - s[1])
    BY <2>2, <2>5, <2>6 DEF Fits
  <2> QED
    BY <2>7 DEF t, d
<1> QED
  BY <1>2, <1>3

-----------------------------------------------------------------------------
(* Receiving *)

\* The bytes that have been taken out.
LEMMA Delivered ==
  ASSUME NEW b \in Seq(Cells), NEW n \in 0 .. Len(b)
  PROVE  /\ SubSeq(b, 1, n) \in Seq(Cells) /\ Len(SubSeq(b, 1, n)) = n
         /\ \A i \in 1 .. n : SubSeq(b, 1, n)[i] = b[i]
         /\ n = Len(b) => SubSeq(b, 1, n) = b
<1>1. n \in Nat /\ n <= Len(b)
  OBVIOUS
<1>2. /\ SubSeq(b, 1, n) \in Seq(Cells) /\ Len(SubSeq(b, 1, n)) = n
      /\ \A i \in 1 .. n : SubSeq(b, 1, n)[i] = b[i]
  BY <1>1
<1>3. n = Len(b) => SubSeq(b, 1, n) = b
  BY SubSeqFull
<1> QED
  BY <1>2, <1>3

\* Steps that leave the receive buffer and what was read alone.
LEMMA RxElsewhere ==
  ASSUME RxInv, UNCHANGED <<rx, reading>>,
         \/ UNCHANGED <<pc, segments>>
         \/ pc # "advanceTo" /\ pc' \in Places \ {"copyOut", "advanceTo"}
  PROVE  RxInv' /\ UNCHANGED RxQueue!vars
BY DEF RxInv, reading, RxQueue!vars

\* When the caller forgets what it has read, it has consumed it.
LEMMA ForgetIsConsume ==
  ASSUME RxInv, UNCHANGED rx, ForgetRead, pc # "advanceTo"
  PROVE  [RxQueue!Next]_RxQueue!vars
<1>1. buffer' = <<>> /\ done' = 0 /\ buffer \in Seq(Cells) /\ done = Len(buffer)
  BY DEF ForgetRead, RxInv
<1>2. SubSeq(buffer, 1, done) = buffer /\ SubSeq(buffer, 1, done)' = <<>> /\ Len(buffer) \in Nat
  <2>1. done \in 0 .. Len(buffer) /\ Len(buffer) \in Nat
    BY <1>1
  <2>2. SubSeq(buffer, 1, done) = buffer
    BY <1>1, <2>1, Delivered
  <2>3. SubSeq(<<>>, 1, 0) = <<>>
    BY SubSeqEmpty
  <2> QED
    BY <1>1, <2>1, <2>2, <2>3
<1>3. Contents(rx') = Contents(rx)
  OBVIOUS
<1>4. CASE buffer = <<>>
  BY <1>2, <1>3, <1>4 DEF RxQueue!vars
<1>5. CASE buffer # <<>>
  <2>1. Len(buffer) \in 1 .. Len(buffer)
    BY <1>1, <1>2, <1>5, EmptySeq
  <2>2. SubSeq(buffer, Len(buffer) + 1, Len(buffer)) = <<>>
    BY <1>2, SubSeqEmpty
  <2>3. RxQueue!Consume(Len(buffer))
    BY <1>2, <1>3, <2>2 DEF RxQueue!Consume
  <2> QED
    BY <1>2, <2>1, <2>3 DEF RxQueue!Next
<1> QED
  BY <1>4, <1>5

LEMMA RxForgotten ==
  ASSUME RxInv, UNCHANGED rx, ForgetRead, pc # "advanceTo", pc' \in Places \ {"copyOut", "advanceTo"}
  PROVE  RxInv' /\ [RxQueue!Next]_RxQueue!vars
<1>1. buffer' = <<>> /\ done' = 0
  BY DEF ForgetRead
<1>2. RxInv'
  BY <1>1 DEF RxInv
<1> QED
  BY <1>2, ForgetIsConsume

\* The read begins: what was read before is forgotten.
LEMMA RxBegin ==
  ASSUME NEW n \in Nat, RxInv, BeginRead(n)
  PROVE  RxInv' /\ [RxQueue!Next]_RxQueue!vars
<1>1. /\ pc = "idle" /\ buffer' = <<>> /\ done' = 0 /\ rx' = rx
      /\ IF IsEmpty(rx) THEN UNCHANGED <<pc, segments>>
         ELSE pc' = "copyOut" /\ segments' = Segments(rx.tail, GetCount(rx), n)
  BY DEF BeginRead
<1>2. Ring(rx) /\ rx.tail \in Int /\ GetCount(rx) = Distance(rx) /\ Distance(rx) \in 0 .. Size
  BY RingFields, RingCount DEF RxInv
<1>3. Fits(Segments(rx.tail, Distance(rx), n), rx.tail, Distance(rx))
  BY <1>2, SegmentsFit
<1>4. pc' \in {"idle", "copyOut"} /\ (pc' = "copyOut" => Fits(segments', rx.tail, Distance(rx)))
  BY <1>1, <1>2, <1>3
<1>5. RxInv'
  <2>1. buffer' \in Seq(Cells) /\ done' \in 0 .. Len(buffer') /\ done' = Len(buffer')
    BY <1>1
  <2> QED
    BY <1>1, <1>2, <1>4, <2>1 DEF RxInv, Places
<1>6. [RxQueue!Next]_RxQueue!vars
  BY <1>1, ForgetIsConsume DEF ForgetRead
<1> QED
  BY <1>5, <1>6

\* A segment is copied: nothing is taken out yet.
LEMMA RxCopy ==
  ASSUME RxInv, CopySegmentOut
  PROVE  RxInv' /\ UNCHANGED RxQueue!vars
<1> DEFINE n == segments[1]
           x == Index(rx.tail)
           u == [i \in 1 .. n |-> rx.data[x + i - 1]]
<1>1. /\ pc = "copyOut" /\ pc' = "advanceTo" /\ UNCHANGED <<rx, segments, done>>
      /\ buffer' = buffer \o CopyOut(rx, Head(segments))
  BY DEF CopySegmentOut
<1>2. /\ Ring(rx) /\ rx.tail \in Int /\ Distance(rx) \in 0 .. Size /\ Size \in Nat
      /\ x \in 0 .. Size - 1 /\ rx.data \in [0 .. Size - 1 -> Cells]
  BY RingFields, RingCount, IndexIsCell, RingAssumption DEF RxInv
<1>3. Fits(segments, rx.tail, Distance(rx)) /\ buffer \in Seq(Cells) /\ done = Len(buffer)
  BY <1>1 DEF RxInv
<1>4. Head(segments) = n /\ n \in 0 .. Size /\ x + n <= Size
  <2>1. Distance(rx) \in Int
    BY <1>2
  <2>2. /\ Head(segments) = segments[1] /\ segments[1] \in 0 .. Size
        /\ Index(rx.tail) + segments[1] <= Size
    BY <1>2, <1>3, <2>1, FitsNext
  <2> QED
    BY <2>2
<1> HIDE DEF n, x
<1>5. CopyOut(rx, n) = u
  BY DEF CopyOut, x
<1>6. u \in Seq(Cells) /\ Len(u) = n /\ \A i \in 1 .. n : u[i] = rx.data[x + i - 1]
  <2>1. \A i \in 1 .. n : rx.data[x + i - 1] \in Cells
    BY <1>2, <1>4
  <2> QED
    BY <1>2, <1>4, <2>1
<1> HIDE DEF u
<1>7. buffer' = buffer \o u
  BY <1>1, <1>4, <1>5
<1>8. /\ buffer' \in Seq(Cells) /\ Len(buffer') = done + n
      /\ \A i \in 1 .. done + n : buffer'[i] = IF i <= done THEN buffer[i] ELSE u[i - done]
  BY <1>3, <1>6, <1>7, ConcatProperties
<1>9. done \in Nat
  BY <1>3
<1>10. \A i \in 1 .. n : buffer'[done + i] = rx.data[x + i - 1]
  <2> TAKE i \in 1 .. n
  <2>1. done + i \in 1 .. done + n /\ ~(done + i <= done) /\ (done + i) - done = i
    BY <1>2, <1>4, <1>9
  <2> QED
    BY <1>6, <1>8, <2>1
<1>11. RxInv'
  <2>1. done' \in 0 .. Len(buffer')
    BY <1>1, <1>2, <1>4, <1>8, <1>9
  <2>2. n' = n /\ x' = x
    BY <1>1 DEF n, x
  <2>3. /\ Len(buffer') = done' + segments'[1]
        /\ \A i \in 1 .. segments'[1] : buffer'[done' + i] = rx'.data[Index(rx'.tail) + i - 1]
    BY <1>1, <1>8, <1>10 DEF n, x
  <2> QED
    BY <1>1, <1>2, <1>3, <1>8, <2>1, <2>3 DEF RxInv, Places
<1>12. SubSeq(buffer', 1, done') = SubSeq(buffer, 1, done)
  <2>1. /\ SubSeq(buffer, 1, done) \in Seq(Cells) /\ Len(SubSeq(buffer, 1, done)) = done
        /\ \A i \in 1 .. done : SubSeq(buffer, 1, done)[i] = buffer[i]
    BY <1>3, <1>9, Delivered
  <2>2. /\ SubSeq(buffer', 1, done) \in Seq(Cells) /\ Len(SubSeq(buffer', 1, done)) = done
        /\ \A i \in 1 .. done : SubSeq(buffer', 1, done)[i] = buffer'[i]
    <3>1. done \in 0 .. Len(buffer')
      BY <1>2, <1>4, <1>8, <1>9
    <3> QED
      BY <1>8, <3>1, Delivered
  <2>3. \A i \in 1 .. done : buffer'[i] = buffer[i]
    <3> TAKE i \in 1 .. done
    <3>1. i \in 1 .. done + n /\ i <= done
      BY <1>2, <1>4, <1>9
    <3> QED
      BY <1>8, <3>1
  <2>4. \A i \in 1 .. done : SubSeq(buffer', 1, done)[i] = SubSeq(buffer, 1, done)[i]
    BY <2>1, <2>2, <2>3
  <2>5. SubSeq(buffer', 1, done) = SubSeq(buffer, 1, done)
    BY <2>1, <2>2, <2>4, SeqEqual
  <2> QED
    BY <1>1, <2>5
<1> QED
  BY <1>1, <1>11, <1>12 DEF RxQueue!vars

\* A segment is taken out: these are the bytes that were copied.
LEMMA RxAdvance ==
  ASSUME RxInv, AdvanceRxTail
  PROVE  RxInv' /\ [RxQueue!Next]_RxQueue!vars
<1> DEFINE n == segments[1]
           c == Contents(rx)
<1>1. /\ pc = "advanceTo" /\ rx' = [rx EXCEPT !.tail = Advance(rx.tail, Head(segments))]
      /\ done' = done + Head(segments) /\ segments' = Tail(segments) /\ UNCHANGED buffer
      /\ pc' = IF Len(segments) = 1 THEN "idle" ELSE "copyOut"
  BY DEF AdvanceRxTail
<1>2. /\ Ring(rx) /\ rx.tail \in Int /\ Distance(rx) \in 0 .. Size /\ Size \in Nat
      /\ Index(rx.tail) \in 0 .. Size - 1
  BY RingFields, RingCount, IndexIsCell, RingAssumption DEF RxInv
<1>3. /\ Fits(segments, rx.tail, Distance(rx)) /\ buffer \in Seq(Cells) /\ done \in 0 .. Len(buffer)
      /\ Len(buffer) = done + n
      /\ \A i \in 1 .. n : buffer[done + i] = rx.data[Index(rx.tail) + i - 1]
  BY <1>1 DEF RxInv
<1>4. /\ Head(segments) = n /\ n \in 0 .. Distance(rx) /\ Index(rx.tail) + n <= Size
      /\ Len(segments) # 1 => Fits(Tail(segments), Advance(rx.tail, n), Distance(rx) - n)
  <2>1. Distance(rx) \in Int
    BY <1>2
  <2>2. /\ Head(segments) = n /\ n \in 0 .. Size /\ n <= Distance(rx)
        /\ Index(rx.tail) + n <= Size
        /\ Len(segments) # 1 => Fits(Tail(segments), Advance(rx.tail, n), Distance(rx) - n)
    BY <1>2, <1>3, <2>1, FitsNext
  <2> HIDE DEF n
  <2> QED
    BY <1>2, <2>1, <2>2
<1> HIDE DEF n
<1>5. rx' = [rx EXCEPT !.tail = Advance(rx.tail, n)]
  BY <1>1, <1>4
<1>6. /\ Ring(rx') /\ Distance(rx') = Distance(rx) - n /\ rx'.tail = Advance(rx.tail, n)
      /\ Contents(rx') = SubSeq(c, n + 1, Len(c))
  BY <1>2, <1>4, <1>5, RingTake
<1>7. done' = Len(buffer') /\ done' = done + n /\ Len(buffer) \in Nat /\ done \in Nat
  BY <1>1, <1>3, <1>4
<1>8. RxInv'
  <2>1. done' \in 0 .. Len(buffer')
    BY <1>1, <1>7
  <2>2. pc' = "copyOut" => Fits(segments', rx'.tail, Distance(rx'))
    BY <1>1, <1>4, <1>6
  <2>3. pc' \in {"idle", "copyOut"}
    BY <1>1
  <2> QED
    BY <1>1, <1>3, <1>6, <1>7, <2>1, <2>2, <2>3 DEF RxInv, Places
<1>9. /\ c \in Seq(Cells) /\ Len(c) = Distance(rx)
      /\ \A i \in 1 .. Distance(rx) : c[i] = rx.data[Index(rx.tail + i - 1)]
  BY <1>2, RingContents
<1> HIDE DEF c
<1>10. SubSeq(buffer', 1, done') = SubSeq(buffer, 1, done) \o SubSeq(c, 1, n)
  <2> DEFINE d == SubSeq(buffer, 1, done)
             t == SubSeq(c, 1, n)
  <2>1. d \in Seq(Cells) /\ Len(d) = done /\ \A i \in 1 .. done : d[i] = buffer[i]
    BY <1>3, Delivered
  <2>2. t \in Seq(Cells) /\ Len(t) = n /\ \A i \in 1 .. n : t[i] = c[i]
    BY <1>2, <1>4, <1>9
  <2> HIDE DEF d, t
  <2>3. /\ d \o t \in Seq(Cells) /\ Len(d \o t) = done + n
        /\ \A i \in 1 .. done + n : (d \o t)[i] = IF i <= done THEN d[i] ELSE t[i - done]
    BY <2>1, <2>2, ConcatProperties
  <2>4. SubSeq(buffer', 1, done') = buffer
    <3>1. done' \in 0 .. Len(buffer') /\ buffer' \in Seq(Cells)
      BY <1>1, <1>3, <1>7
    <3> QED
      BY <1>1, <1>7, <3>1, Delivered
  <2>5. ASSUME NEW i \in 1 .. done + n
        PROVE  buffer[i] = (d \o t)[i]
    <3>1. CASE i <= done
      <4>1. i \in 1 .. done
        BY <1>7, <3>1
      <4> QED
        BY <2>1, <2>3, <3>1, <4>1
    <3>2. CASE i > done
      <4> DEFINE j == i - done
      <4>1. j \in 1 .. n /\ i = done + j /\ ~(i <= done)
        BY <1>4, <1>7, <3>2
      <4>2. (d \o t)[i] = t[j]
        BY <2>3, <4>1
      <4> HIDE DEF j
      <4>3. j \in 1 .. Distance(rx) /\ j - 1 \in Nat /\ Index(rx.tail) + (j - 1) < Size
        BY <1>2, <1>4, <4>1
      <4>4. Index(rx.tail + (j - 1)) = Index(rx.tail) + (j - 1)
        BY <1>2, <4>3, IndexStraight
      <4>5. rx.tail + (j - 1) = rx.tail + j - 1 /\ Index(rx.tail) + (j - 1) = Index(rx.tail) + j - 1
        BY <1>2, <4>3
      <4>6. t[j] = rx.data[Index(rx.tail) + j - 1]
        BY <1>9, <2>2, <4>1, <4>3, <4>4, <4>5
      <4>7. buffer[i] = rx.data[Index(rx.tail) + j - 1]
        BY <1>3, <4>1 DEF n
      <4> QED
        BY <4>2, <4>6, <4>7
    <3>3. done + n \in Int /\ i \in Int
      BY <1>2, <1>4, <1>7
    <3>4. i <= done \/ i > done
      BY <1>7, <3>3
    <3> QED
      BY <3>1, <3>2, <3>4
  <2>6. buffer = d \o t
    BY <1>3, <2>3, <2>5, SeqEqual DEF n
  <2> QED
    BY <2>4, <2>6 DEF d, t
<1>11. CASE n = 0
  <2>1. Contents(rx') = Contents(rx)
    <3>1. n + 1 = 1
      BY <1>11
    <3>2. SubSeq(c, n + 1, Len(c)) = c
      BY <1>9, <3>1, SubSeqFull
    <3> QED
      BY <1>6, <3>2 DEF c
  <2>2. SubSeq(buffer', 1, done') = SubSeq(buffer, 1, done)
    BY <1>1, <1>7, <1>11
  <2> QED
    BY <1>8, <2>1, <2>2 DEF RxQueue!vars
<1>12. CASE n # 0
  <2>1. n \in 1 .. Len(c)
    BY <1>2, <1>4, <1>9, <1>12
  <2>2. RxQueue!Take(n)
    BY <1>6, <1>10 DEF RxQueue!Take, c
  <2> QED
    BY <1>8, <2>1, <2>2 DEF RxQueue!Next, c
<1> QED
  BY <1>11, <1>12

\* A byte that is inserted comes behind the others, if there is room for it.
LEMMA InsertOne ==
  ASSUME NEW r, Ring(r), NEW b \in Bytes, ~IsFull(r),
         NEW s, s = Insert(r, b)
  PROVE  /\ Ring(s) /\ Distance(s) = Distance(r) + 1 /\ s.tail = r.tail
         /\ Contents(s) = Contents(r) \o <<b>>
         /\ \A i \in 1 .. Distance(r) :
              s.data[Index(r.tail + i - 1)] = r.data[Index(r.tail + i - 1)]
<1> DEFINE d == [r.data EXCEPT ![Index(r.head)] = b]
           m == [r EXCEPT !.data = d]
<1>1. /\ Distance(r) \in 0 .. Size /\ Distance(r) # Size /\ Size \in Nat
      /\ r.head \in Int /\ r.tail \in Int /\ Index(r.head) \in 0 .. Size - 1
      /\ r.data \in [0 .. Size - 1 -> Cells] /\ b \in Cells
  BY RingCount, RingFields, RingAssumption, IndexIsCell DEF Cells
<1>2. s = [r EXCEPT !.data = d, !.head = Advance(r.head, 1)]
  BY DEF Insert
<1>3. d \in [0 .. Size - 1 -> Cells] /\ d[Index(r.head)] = b
      /\ \A y \in 0 .. Size - 1 : y # Index(r.head) => d[y] = r.data[y]
  BY <1>1
<1> HIDE DEF d
<1>4. \A i \in 1 .. Distance(r) : d[Index(r.tail + i - 1)] = r.data[Index(r.tail + i - 1)]
  <2> TAKE i \in 1 .. Distance(r)
  <2>1. /\ r.tail + i - 1 \in Int /\ r.tail + Distance(r) + 0 \in Int /\ 0 \in Int
        /\ r.tail + i - 1 # r.tail + Distance(r) + 0
        /\ (r.tail + i - 1) - (r.tail + Distance(r) + 0) < Size
        /\ (r.tail + Distance(r) + 0) - (r.tail + i - 1) < Size
        /\ r.head + 0 = r.head
    <3> DEFINE t == r.tail
               e == Distance(r)
    <3>1. t \in Int /\ e \in 0 .. Size /\ i \in 1 .. e /\ e # Size
      BY <1>1
    <3> HIDE DEF t, e
    <3>2. /\ t + i - 1 \in Int /\ t + e + 0 \in Int /\ t + i - 1 # t + e + 0
          /\ (t + i - 1) - (t + e + 0) < Size /\ (t + e + 0) - (t + i - 1) < Size
      BY <1>1, <3>1
    <3> QED
      BY <1>1, <3>2, SMTT(60) DEF t, e
  <2>2. Index(r.head) = Index(r.tail + Distance(r) + 0)
    BY <2>1, HeadIndex
  <2>3. Index(r.tail + i - 1) # Index(r.head)
    BY <2>1, <2>2, IndexInjective
  <2>4. Index(r.tail + i - 1) \in 0 .. Size - 1
    BY <2>1, IndexIsCell
  <2> QED
    BY <1>3, <2>3, <2>4
<1>5. /\ Ring(m) /\ Distance(m) = Distance(r)
      /\ m.data = d /\ m.head = r.head /\ m.tail = r.tail
      /\ Contents(m) = Contents(r)
  <2>1. \A e \in [0 .. Size - 1 -> Cells] :
           (\A i \in 1 .. Distance(r) : e[Index(r.tail + i - 1)] = r.data[Index(r.tail + i - 1)])
           => \A q : q = [r EXCEPT !.data = e] =>
                /\ Ring(q) /\ Distance(q) = Distance(r)
                /\ q.data = e /\ q.head = r.head /\ q.tail = r.tail
                /\ Contents(q) = Contents(r)
    BY RingWrite
  <2> QED
    BY <1>3, <1>4, <2>1
<1>6. s = [m EXCEPT !.head = Advance(m.head, Len(<<b>>))]
  <2>1. r = [data |-> r.data, head |-> r.head, tail |-> r.tail]
    BY RingFields
  <2>2. Len(<<b>>) = 1 /\ m.head = r.head
    BY <1>5
  <2>3. [m EXCEPT !.head = Advance(r.head, 1)] = [r EXCEPT !.data = d, !.head = Advance(r.head, 1)]
    BY <2>1
  <2> QED
    BY <1>2, <2>2, <2>3
<1> HIDE DEF m
<1>7. /\ Ring(s) /\ Distance(s) = Distance(m) + Len(<<b>>)
      /\ s.data = m.data /\ s.tail = m.tail
      /\ Contents(s) = Contents(m) \o <<b>>
  <2>1. <<b>> \in Seq(Cells) /\ Len(<<b>>) = 1 /\ Len(<<b>>) <= Size - Distance(m)
    BY <1>1, <1>5
  <2>2. \A i \in 1 .. Len(<<b>>) : m.data[Index(m.head + i - 1)] = <<b>>[i]
    <3> TAKE i \in 1 .. Len(<<b>>)
    <3>1. i = 1 /\ m.head + i - 1 = r.head
      BY <1>1, <1>5
    <3> QED
      BY <1>3, <1>5, <3>1
  <2> DEFINE w == <<b>>
  <2> HIDE DEF w
  <2>3. w \in Seq(Cells) /\ Len(w) <= Size - Distance(m)
    BY <2>1 DEF w
  <2>4. \A i \in 1 .. Len(w) : m.data[Index(m.head + i - 1)] = w[i]
    BY <2>2 DEF w
  <2>5. s = [m EXCEPT !.head = Advance(m.head, Len(w))]
    BY <1>6 DEF w
  <2>6. /\ Ring(s) /\ Distance(s) = Distance(m) + Len(w)
        /\ s.data = m.data /\ s.tail = m.tail
        /\ Contents(s) = Contents(m) \o w
    BY <1>5, <2>3, <2>4, <2>5, RingPut
  <2> QED
    BY <2>6 DEF w
<1> QED
  BY <1>4, <1>5, <1>7

\* A byte arrives in the middle of a read: the cells that are being read keep
\* their bytes.
LEMMA RxReceive ==
  ASSUME NEW b \in Bytes, RxInv, ReceiveInterrupt(b)
  PROVE  RxInv' /\ [RxQueue!Next]_RxQueue!vars
<1>1. rx' = Insert(rx, b) /\ UNCHANGED <<pc, segments, buffer, done>>
  BY DEF ReceiveInterrupt, reading
<1>2. CASE IsFull(rx)
  <2>1. rx' = rx
    BY <1>1, <1>2 DEF Insert
  <2> QED
    BY <1>1, <2>1, RxElsewhere DEF reading
<1>3. CASE ~IsFull(rx)
  <2>1. /\ Ring(rx) /\ rx.tail \in Int /\ Distance(rx) \in 0 .. Size /\ Size \in Nat
        /\ Index(rx.tail) \in 0 .. Size - 1 /\ Distance(rx) # Size
    BY <1>3, RingFields, RingCount, IndexIsCell, RingAssumption DEF RxInv
  <2>2. /\ Ring(rx') /\ Distance(rx') = Distance(rx) + 1 /\ rx'.tail = rx.tail
        /\ Contents(rx') = Contents(rx) \o <<b>>
        /\ \A i \in 1 .. Distance(rx) :
             rx'.data[Index(rx.tail + i - 1)] = rx.data[Index(rx.tail + i - 1)]
    BY <1>1, <1>3, <2>1, InsertOne
  <2>3. ASSUME pc \in {"copyOut", "advanceTo"}
        PROVE  Fits(segments, rx'.tail, Distance(rx'))
    <3>1. Fits(segments, rx.tail, Distance(rx))
      BY <2>3 DEF RxInv
    <3>2. /\ segments \in Seq(0 .. Size) /\ Len(segments) \in {1, 2}
          /\ segments[1] \in Int /\ (Len(segments) = 2 => segments[2] \in Int)
      <4>1. segments \in Seq(0 .. Size) /\ Len(segments) \in {1, 2}
        BY <3>1 DEF Fits
      <4>2. segments[1] \in 0 .. Size /\ (Len(segments) = 2 => segments[2] \in 0 .. Size)
        BY <4>1, OneOrTwo
      <4> QED
        BY <4>1, <4>2
    <3>3. segments[1] <= Distance(rx) + 1 /\ (Len(segments) = 2 => segments[1] + segments[2] <= Distance(rx) + 1)
      BY <2>1, <3>1, <3>2, SMTT(60) DEF Fits
    <3> QED
      BY <2>2, <3>1, <3>3 DEF Fits
  <2>4. ASSUME pc = "advanceTo", NEW i \in 1 .. segments[1]
        PROVE  buffer[done + i] = rx'.data[Index(rx'.tail) + i - 1]
    <3>1. Fits(segments, rx.tail, Distance(rx)) /\ buffer[done + i] = rx.data[Index(rx.tail) + i - 1]
      BY <2>4 DEF RxInv
    <3>2. /\ segments[1] \in 0 .. Size /\ segments[1] <= Distance(rx)
          /\ Index(rx.tail) + segments[1] <= Size
      <4>1. Distance(rx) \in Int
        BY <2>1
      <4> QED
        BY <2>1, <3>1, <4>1, FitsNext
    <3>3. i \in 1 .. Distance(rx) /\ i - 1 \in Nat /\ Index(rx.tail) + (i - 1) < Size
      BY <2>1, <3>2
    <3>4. Index(rx.tail + (i - 1)) = Index(rx.tail) + (i - 1)
      BY <2>1, <3>3, IndexStraight
    <3>5. rx.tail + (i - 1) = rx.tail + i - 1 /\ Index(rx.tail) + (i - 1) = Index(rx.tail) + i - 1
      BY <2>1, <3>3
    <3> QED
      BY <2>2, <3>1, <3>3, <3>4, <3>5
  <2>5. RxInv'
    BY <1>1, <2>2, <2>3, <2>4 DEF RxInv
  <2>6. RxQueue!Put(<<b>>)
    <3>1. Len(Contents(rx')) = Distance(rx') /\ Distance(rx') <= Size
      BY <2>2, RingContents DEF Ring
    <3>2. SubSeq(buffer', 1, done') = SubSeq(buffer, 1, done)
      BY <1>1
    <3> QED
      BY <2>2, <3>1, <3>2 DEF RxQueue!Put
  <2>7. 1 \in 1 .. Size /\ <<b>> \in [1 .. 1 -> Bytes]
    BY RingAssumption
  <2> QED
    BY <2>5, <2>6, <2>7 DEF RxQueue!Next
<1> QED
  BY <1>2, <1>3

LEMMA RxInitial == Init => RxInv /\ RxQueue!Init
<1> SUFFICES ASSUME Init PROVE RxInv /\ RxQueue!Init
  OBVIOUS
<1>1. rx = RingInit /\ buffer = <<>> /\ done = 0 /\ pc = "idle"
  BY DEF Init
<1>2. Ring(RingInit) /\ Distance(RingInit) = 0
  BY EmptyRing
<1>3. RxInv
  BY <1>1, <1>2 DEF RxInv, Places
<1>4. Contents(rx) = <<>>
  <2>1. Len(Contents(rx)) = 0 /\ Contents(rx) \in Seq(Cells)
    BY <1>1, <1>2, RingContents
  <2> QED
    BY <2>1, EmptySeq
<1>5. SubSeq(buffer, 1, done) = <<>>
  BY <1>1, SubSeqEmpty
<1> QED
  BY <1>3, <1>4, <1>5 DEF RxQueue!Init

\* Every step keeps the invariant, and is a step of the queue or none.
LEMMA RxStep == RxInv /\ [Next]_vars => RxInv' /\ [RxQueue!Next]_RxQueue!vars
<1> SUFFICES ASSUME RxInv, [Next]_vars
             PROVE  RxInv' /\ [RxQueue!Next]_RxQueue!vars
  OBVIOUS
<1>1. ASSUME NEW n \in 1 .. MaxRead, BeginRead(n)
      PROVE  RxInv' /\ [RxQueue!Next]_RxQueue!vars
  <2>1. n \in Nat
    BY UartAssumption
  <2> QED
    BY <1>1, <2>1, RxBegin
<1>2. CASE CopySegmentOut
  BY <1>2, RxCopy
<1>3. CASE AdvanceRxTail
  BY <1>3, RxAdvance
<1>4. ASSUME NEW bytes \in Writes, BeginWrite(bytes)
      PROVE  RxInv' /\ [RxQueue!Next]_RxQueue!vars
  BY <1>4, RxForgotten DEF BeginWrite, Places
<1>5. CASE WriteStep
  <2>1. UNCHANGED <<rx, reading>>
    BY <1>5 DEF WriteStep, InsertMult, CopySegmentIn, AdvanceTxHead, CheckReady, Pop,
                AdvanceTxTail, SendByte
  <2>2. pc # "advanceTo" /\ pc' \in Places \ {"copyOut", "advanceTo"}
    BY <1>5 DEF WriteStep, InsertMult, CopySegmentIn, AdvanceTxHead, CheckReady, Pop,
                AdvanceTxTail, SendByte, AfterInsert, Places
  <2> QED
    BY <2>1, <2>2, RxElsewhere
<1>6. CASE BeginFlush
  BY <1>6, RxForgotten DEF BeginFlush, Places
<1>7. CASE EndFlush
  BY <1>7, RxElsewhere DEF EndFlush, Places
<1>8. ASSUME NEW b \in Bytes, ReceiveInterrupt(b)
      PROVE  RxInv' /\ [RxQueue!Next]_RxQueue!vars
  BY <1>8, RxReceive
<1>9. CASE TransmitInterrupt
  BY <1>9, RxElsewhere DEF TransmitInterrupt
<1>10. CASE Shift
  BY <1>10, RxElsewhere DEF Shift
<1>11. CASE UNCHANGED vars
  BY <1>11, RxElsewhere DEF vars
<1> QED
  BY <1>1, <1>2, <1>3, <1>4, <1>5, <1>6, <1>7, <1>8, <1>9, <1>10, <1>11 DEF Next, Read, Write

\* The program reads the bytes that were received, in order and each once: with
\* the handler adding bytes in the middle of a read, the counters wrapping
\* around, and bytes dropped only where the buffer is full.
THEOREM ReceiveImplementsQueue == Spec => ReceiveIsQueue
<1>1. Init => RxInv /\ RxQueue!Init
  BY RxInitial
<1>2. RxInv /\ [Next]_vars => RxInv' /\ [RxQueue!Next]_RxQueue!vars
  BY RxStep
<1> QED
  BY <1>1, <1>2, PTL DEF Spec, ReceiveIsQueue, RxQueue!Spec

-----------------------------------------------------------------------------
(* Transmitting, when no bytes arrive during a write *)

\* Steps that leave the transmit buffer and the transmitter alone, outside a
\* write.
LEMMA TxElsewhere ==
  ASSUME TxInv, UNCHANGED <<tx, txint, wire, writing>>, segments' \in Seq(0 .. Size),
         pc \in {"idle", "copyOut", "advanceTo", "flush"},
         pc' \in {"idle", "copyOut", "advanceTo", "flush"}
  PROVE  TxInv' /\ UNCHANGED TxQueue!vars
<1>1. /\ tx' = tx /\ txint' = txint /\ wire' = wire /\ rest' = rest /\ pass' = pass
      /\ popped' = popped
  BY DEF writing
<1>2. TxTypes'
  BY <1>1 DEF TxInv, TxTypes, Places
<1>3. TxQuiet'
  <2>1. ~InWrite'
    BY DEF InWrite
  <2>2. txint \in BOOLEAN
    BY DEF TxInv, TxQuiet
  <2> QED
    BY <1>1, <2>1, <2>2, Zenon DEF TxQuiet
<1>4. TxCopying' /\ TxPopping'
  BY DEF TxCopying, TxPopping
<1>5. UNCHANGED TxQueue!vars
  BY <1>1 DEF TxQueue!vars
<1> QED
  BY <1>2, <1>3, <1>4, <1>5 DEF TxInv

\* The write begins, with the transmit interrupt switched off.
LEMMA TxBegin ==
  ASSUME NEW bytes \in Writes, TxInv, BeginWrite(bytes)
  PROVE  TxInv' /\ UNCHANGED TxQueue!vars
<1>1. /\ tx' = tx /\ txint' = FALSE /\ wire' = wire /\ rest' = bytes /\ pass' = 1
      /\ popped' = popped /\ segments' = segments /\ pc = "idle" /\ pc' = "insert"
  BY DEF BeginWrite
<1>2. bytes \in Seq(Bytes)
  BY UartAssumption
<1>3. TxTypes'
  BY <1>1, <1>2 DEF TxInv, TxTypes, Places
<1>4. TxQuiet'
  BY <1>1, Zenon DEF TxQuiet
<1>5. TxCopying' /\ TxPopping'
  BY <1>1 DEF TxCopying, TxPopping
<1>6. UNCHANGED TxQueue!vars
  BY <1>1 DEF TxQueue!vars
<1> QED
  BY <1>3, <1>4, <1>5, <1>6 DEF TxInv

\* After a call of InsertMult.
LEMMA TxAfterInsert ==
  ASSUME NEW remaining \in Seq(Bytes), TxInv, InWrite, AfterInsert(remaining)
  PROVE  /\ pc' \in {"idle", "ready"} /\ rest' \in Seq(Bytes) /\ TxQuiet'
<1>1. CASE pass = 1
  <2>1. pc' = "ready" /\ rest' = remaining /\ txint' = txint
    BY <1>1 DEF AfterInsert
  <2>2. txint \in BOOLEAN /\ ~txint
    BY Zenon DEF TxInv, TxQuiet
  <2>3. TxQuiet'
    BY <2>1, <2>2, Zenon DEF TxQuiet
  <2> QED
    BY <2>1, <2>3
<1>2. CASE pass # 1
  <2>1. pc' = "idle" /\ rest' = <<>> /\ txint' = TRUE
    BY <1>2 DEF AfterInsert
  <2>2. ~InWrite'
    BY <2>1 DEF InWrite
  <2>3. TxQuiet'
    BY <2>1, <2>2, Zenon DEF TxQuiet
  <2>4. rest' \in Seq(Bytes)
    BY <2>1
  <2> QED
    BY <2>1, <2>3, <2>4
<1> QED
  BY <1>1, <1>2

LEMMA TxInsertMult ==
  ASSUME TxInv, InsertMult
  PROVE  TxInv' /\ UNCHANGED TxQueue!vars
<1>1. pc = "insert" /\ tx' = tx /\ wire' = wire /\ pass' = pass /\ popped' = popped
  BY DEF InsertMult
<1>2. InWrite
  BY <1>1 DEF InWrite
<1>3. /\ Ring(tx) /\ tx.head \in Int /\ Distance(tx) \in 0 .. Size /\ Size \in Nat
      /\ GetFree(tx) = Size - Distance(tx) /\ rest \in Seq(Bytes) /\ segments \in Seq(0 .. Size)
  BY RingFields, RingCount, RingAssumption DEF TxInv, TxTypes
<1>4. CASE IsFull(tx)
  <2>1. AfterInsert(rest) /\ segments' = segments
    BY <1>4 DEF InsertMult
  <2>2. pc' \in {"idle", "ready"} /\ rest' \in Seq(Bytes) /\ TxQuiet'
    BY <1>2, <1>3, <2>1, TxAfterInsert
  <2>3. TxTypes'
    BY <1>1, <2>1, <2>2 DEF TxInv, TxTypes, Places
  <2>4. TxCopying' /\ TxPopping'
    BY <2>2 DEF TxCopying, TxPopping
  <2>5. UNCHANGED TxQueue!vars
    BY <1>1, <2>2 DEF TxQueue!vars
  <2> QED
    BY <2>2, <2>3, <2>4, <2>5 DEF TxInv
<1>5. CASE ~IsFull(tx)
  <2>1. /\ segments' = Segments(tx.head, Size - Distance(tx), Len(rest)) /\ pc' = "copyIn"
        /\ txint' = txint /\ rest' = rest
    BY <1>3, <1>5 DEF InsertMult
  <2>2. /\ segments' \in Seq(0 .. Size)
        /\ Fits(segments', tx.head, Size - Distance(tx)) /\ Fits(segments', tx.head, Len(rest))
    <3>1. Size - Distance(tx) \in 0 .. Size /\ Len(rest) \in Nat
      BY <1>3
    <3> QED
      BY <1>3, <2>1, <3>1, SegmentsFit
  <2>3. TxTypes'
    BY <1>1, <2>1, <2>2 DEF TxInv, TxTypes, Places
  <2>4. TxQuiet'
    BY <1>2, <2>1, Zenon DEF TxInv, TxQuiet
  <2>5. TxCopying' /\ TxPopping'
    BY <1>1, <2>1, <2>2 DEF TxCopying, TxPopping
  <2>6. UNCHANGED TxQueue!vars
    BY <1>1, <2>1 DEF TxQueue!vars
  <2> QED
    BY <2>3, <2>4, <2>5, <2>6 DEF TxInv
<1> QED
  BY <1>4, <1>5

\* A segment is copied into cells that are free.
LEMMA TxCopy ==
  ASSUME TxInv, CopySegmentIn
  PROVE  TxInv' /\ UNCHANGED TxQueue!vars
<1> DEFINE n == segments[1]
           w == SubSeq(rest, 1, n)
<1>1. /\ pc = "copyIn" /\ pc' = "advanceHead" /\ tx' = CopyIn(tx, SubSeq(rest, 1, Head(segments)))
      /\ txint' = txint /\ wire' = wire /\ segments' = segments /\ rest' = rest /\ pass' = pass
      /\ popped' = popped
  BY DEF CopySegmentIn, writing
<1>2. /\ Ring(tx) /\ tx.head \in Int /\ Distance(tx) \in 0 .. Size /\ Size \in Nat
      /\ Size - Distance(tx) \in Int /\ rest \in Seq(Bytes) /\ Len(rest) \in Nat
  BY RingFields, RingCount, RingAssumption DEF TxInv, TxTypes
<1>3. Fits(segments, tx.head, Size - Distance(tx)) /\ Fits(segments, tx.head, Len(rest))
  BY <1>1 DEF TxInv, TxCopying
<1>4. /\ Head(segments) = n /\ n \in 0 .. Size /\ n <= Size - Distance(tx) /\ n <= Len(rest)
      /\ Index(tx.head) + n <= Size
  BY <1>2, <1>3, FitsNext
<1> HIDE DEF n
<1>5. w \in Seq(Cells) /\ Len(w) = n /\ \A i \in 1 .. n : w[i] = rest[i]
  <2>1. rest \in Seq(Cells)
    BY <1>2, SeqMonotonic DEF Cells
  <2>2. n \in 0 .. Len(rest)
    BY <1>2, <1>4
  <2> QED
    BY <2>1, <2>2, Delivered
<1> HIDE DEF w
<1>6. tx' = CopyIn(tx, w)
  BY <1>1, <1>4 DEF w
<1>7. /\ Ring(tx') /\ Distance(tx') = Distance(tx) /\ tx'.head = tx.head /\ tx'.tail = tx.tail
      /\ Contents(tx') = Contents(tx)
      /\ \A i \in 1 .. Len(w) : tx'.data[Index(tx'.head + i - 1)] = w[i]
  <2>1. Len(w) <= Size - Distance(tx) /\ Index(tx.head) + Len(w) <= Size
    BY <1>4, <1>5
  <2>2. \A b \in Seq(Cells) :
          Len(b) <= Size - Distance(tx) /\ Index(tx.head) + Len(b) <= Size =>
            \A q : q = CopyIn(tx, b) =>
              /\ Ring(q) /\ Distance(q) = Distance(tx) /\ q.head = tx.head /\ q.tail = tx.tail
              /\ Contents(q) = Contents(tx)
              /\ \A i \in 1 .. Len(b) : q.data[Index(q.head + i - 1)] = b[i]
    BY <1>2, RingCopy
  <2> QED
    BY <1>5, <1>6, <2>1, <2>2
<1>8. TxTypes'
  BY <1>1, <1>7 DEF TxInv, TxTypes, Places
<1>9. TxQuiet'
  <2>1. InWrite
    BY <1>1 DEF InWrite
  <2> QED
    BY <1>1, <2>1, Zenon DEF TxInv, TxQuiet
<1>10. TxCopying' /\ TxPopping'
  <2>1. \A i \in 1 .. segments[1] : tx'.data[Index(tx'.head + i - 1)] = rest[i]
    BY <1>5, <1>7 DEF n
  <2> QED
    BY <1>1, <1>3, <1>7, <2>1 DEF TxCopying, TxPopping
<1>11. UNCHANGED TxQueue!vars
  BY <1>1, <1>7 DEF TxQueue!vars
<1> QED
  BY <1>8, <1>9, <1>10, <1>11 DEF TxInv

\* The head moves: the copied bytes are in the queue.
LEMMA TxAdvance ==
  ASSUME TxInv, AdvanceTxHead
  PROVE  TxInv' /\ [TxQueue!Next]_TxQueue!vars
<1> DEFINE n == segments[1]
           w == SubSeq(rest, 1, n)
           remaining == SubSeq(rest, n + 1, Len(rest))
<1>1. /\ pc = "advanceHead" /\ tx' = [tx EXCEPT !.head = Advance(tx.head, Head(segments))]
      /\ segments' = Tail(segments) /\ wire' = wire /\ pass' = pass /\ popped' = popped
      /\ IF Len(segments) = 1 THEN AfterInsert(SubSeq(rest, Head(segments) + 1, Len(rest)))
         ELSE /\ pc' = "copyIn" /\ rest' = SubSeq(rest, Head(segments) + 1, Len(rest))
              /\ txint' = txint
  BY DEF AdvanceTxHead
<1>2. /\ Ring(tx) /\ tx.head \in Int /\ Distance(tx) \in 0 .. Size /\ Size \in Nat
      /\ Size - Distance(tx) \in Int /\ rest \in Seq(Bytes) /\ Len(rest) \in Nat
      /\ Contents(tx) \in Seq(Bytes) /\ wire \in Seq(Bytes) /\ InWrite
  BY <1>1, RingFields, RingCount, RingAssumption DEF TxInv, TxTypes, InWrite
<1>3. /\ Fits(segments, tx.head, Size - Distance(tx)) /\ Fits(segments, tx.head, Len(rest))
      /\ \A i \in 1 .. n : tx.data[Index(tx.head + i - 1)] = rest[i]
  BY <1>1 DEF TxInv, TxCopying
<1>4. /\ Head(segments) = n /\ n \in 0 .. Size /\ n <= Size - Distance(tx) /\ n <= Len(rest)
      /\ Tail(segments) \in Seq(0 .. Size)
      /\ Len(segments) # 1 =>
           /\ Fits(Tail(segments), Advance(tx.head, n), (Size - Distance(tx)) - n)
           /\ Fits(Tail(segments), Advance(tx.head, n), Len(rest) - n)
  <2>1. /\ Head(segments) = n /\ n \in 0 .. Size /\ n <= Size - Distance(tx)
        /\ Tail(segments) \in Seq(0 .. Size)
        /\ Len(segments) # 1 =>
             Fits(Tail(segments), Advance(tx.head, n), (Size - Distance(tx)) - n)
    BY <1>2, <1>3, FitsNext
  <2>2. /\ n <= Len(rest)
        /\ Len(segments) # 1 => Fits(Tail(segments), Advance(tx.head, n), Len(rest) - n)
    <3>1. Len(rest) \in Int
      BY <1>2
    <3> QED
      BY <1>2, <1>3, <3>1, FitsNext
  <2> QED
    BY <2>1, <2>2
<1> HIDE DEF n
<1>5. /\ w \in Seq(Bytes) /\ w \in Seq(Cells) /\ Len(w) = n
      /\ \A i \in 1 .. n : w[i] = rest[i]
  <2>1. rest \in Seq(Cells)
    BY <1>2, SeqMonotonic DEF Cells
  <2>2. n \in 0 .. Len(rest)
    BY <1>2, <1>4
  <2>3. w \in Seq(Bytes)
    BY <1>2, <2>2
  <2> QED
    BY <2>1, <2>2, <2>3, Delivered
<1>6. remaining \in Seq(Bytes) /\ Len(remaining) = Len(rest) - n
  BY <1>2, <1>4
<1> HIDE DEF w, remaining
<1>7. /\ Ring(tx') /\ Distance(tx') = Distance(tx) + n /\ tx'.tail = tx.tail
      /\ tx'.head = Advance(tx.head, n) /\ Contents(tx') = Contents(tx) \o w
  <2>1. tx' = [tx EXCEPT !.head = Advance(tx.head, Len(w))]
    BY <1>1, <1>4, <1>5
  <2>2. Len(w) <= Size - Distance(tx) /\ \A i \in 1 .. Len(w) : tx.data[Index(tx.head + i - 1)] = w[i]
    BY <1>3, <1>4, <1>5 DEF n
  <2>3. \A q : q = [tx EXCEPT !.head = Advance(tx.head, Len(w))] =>
          /\ Ring(q) /\ Distance(q) = Distance(tx) + Len(w) /\ q.tail = tx.tail
          /\ q.head = Advance(tx.head, Len(w)) /\ Contents(q) = Contents(tx) \o w
    BY <1>2, <1>5, <2>2, RingPut
  <2> QED
    BY <1>5, <2>1, <2>3
<1>8. Contents(tx') \in Seq(Bytes)
  BY <1>2, <1>5, <1>7, ConcatProperties
<1>9. IF Len(segments) = 1 THEN AfterInsert(remaining)
      ELSE pc' = "copyIn" /\ rest' = remaining /\ txint' = txint
  BY <1>1, <1>4 DEF remaining
<1>10. pc' \in {"idle", "ready", "copyIn"} /\ rest' \in Seq(Bytes) /\ TxQuiet'
  <2>1. CASE Len(segments) = 1
    BY <1>2, <1>6, <1>9, <2>1, TxAfterInsert
  <2>2. CASE Len(segments) # 1
    <3>1. pc' = "copyIn" /\ rest' = remaining /\ txint' = txint
      BY <1>9, <2>2
    <3>2. TxQuiet'
      BY <1>2, <3>1, Zenon DEF TxInv, TxQuiet
    <3> QED
      BY <1>6, <3>1, <3>2
  <2> QED
    BY <2>1, <2>2
<1>11. TxTypes'
  BY <1>1, <1>4, <1>7, <1>8, <1>10 DEF TxInv, TxTypes, Places
<1>12. TxCopying' /\ TxPopping'
  <2>1. pc' = "copyIn" => Len(segments) # 1
    <3>1. CASE Len(segments) = 1
      BY <1>9, <3>1 DEF AfterInsert
    <3> QED
      BY <3>1
  <2>2. pc' = "copyIn" =>
          /\ Fits(segments', tx'.head, Size - Distance(tx'))
          /\ Fits(segments', tx'.head, Len(rest'))
    <3> SUFFICES ASSUME pc' = "copyIn"
                 PROVE  /\ Fits(segments', tx'.head, Size - Distance(tx'))
                        /\ Fits(segments', tx'.head, Len(rest'))
      OBVIOUS
    <3>1. Len(segments) # 1 /\ rest' = remaining
      BY <1>9, <2>1
    <3>2. Size - Distance(tx') = (Size - Distance(tx)) - n /\ Len(rest') = Len(rest) - n
      BY <1>2, <1>4, <1>6, <1>7, <3>1
    <3> QED
      BY <1>1, <1>4, <1>7, <3>1, <3>2
  <2> QED
    BY <1>10, <2>2 DEF TxCopying, TxPopping
<1>13. CASE n = 0
  <2>1. Contents(tx') = Contents(tx)
    <3>1. w = <<>>
      BY <1>5, <1>13, EmptySeq
    <3> QED
      BY <1>2, <1>7, <3>1, ConcatEmptySeq
  <2>2. UNCHANGED TxQueue!vars
    BY <1>1, <1>10, <2>1 DEF TxQueue!vars
  <2> QED
    BY <1>10, <1>11, <1>12, <2>2 DEF TxInv
<1>14. CASE n # 0
  <2>1. n \in 1 .. Size /\ w \in [1 .. n -> Bytes]
    BY <1>2, <1>4, <1>5, <1>14, LenProperties
  <2>2. Len(Contents(tx')) <= Size
    BY <1>7, RingContents DEF Ring
  <2>3. TxQueue!Put(w)
    BY <1>1, <1>7, <1>10, <2>2 DEF TxQueue!Put
  <2>4. TxQueue!Next
    BY <2>1, <2>3 DEF TxQueue!Next
  <2> QED
    BY <1>10, <1>11, <1>12, <2>4 DEF TxInv
<1> QED
  BY <1>13, <1>14

LEMMA TxCheck ==
  ASSUME TxInv, CheckReady
  PROVE  TxInv' /\ UNCHANGED TxQueue!vars
<1>1. /\ pc = "ready" /\ tx' = tx /\ txint' = txint /\ wire' = wire /\ segments' = segments
      /\ rest' = rest /\ popped' = popped
      /\ pass' \in {1, 2} /\ ((pc' = "pop" /\ TxReady) \/ pc' = "insert")
  BY DEF CheckReady, TxInv, TxTypes
<1>2. TxTypes'
  BY <1>1 DEF TxInv, TxTypes, Places
<1>3. TxQuiet'
  <2>1. InWrite
    BY <1>1 DEF InWrite
  <2> QED
    BY <1>1, <2>1, Zenon DEF TxInv, TxQuiet
<1>4. TxCopying' /\ TxPopping'
  BY <1>1 DEF TxCopying, TxPopping, TxReady
<1>5. UNCHANGED TxQueue!vars
  BY <1>1 DEF TxQueue!vars
<1> QED
  BY <1>2, <1>3, <1>4, <1>5 DEF TxInv

\* The byte is read; the tail has not moved.
LEMMA TxPop ==
  ASSUME TxInv, Pop
  PROVE  TxInv' /\ UNCHANGED TxQueue!vars
<1>1. /\ pc = "pop" /\ tx' = tx /\ txint' = txint /\ wire' = wire /\ segments' = segments
      /\ rest' = rest /\ TxReady
      /\ IF IsEmpty(tx) THEN pc' = "insert" /\ pass' = 2 /\ popped' = popped
         ELSE /\ popped' = [byte |-> tx.data[Index(tx.tail)], tail |-> tx.tail]
              /\ pc' = "advanceTail" /\ pass' = pass
  BY DEF Pop, TxInv, TxPopping
<1>2. /\ tx.data[Index(tx.tail)] \in Cells /\ tx.tail \in Counters
  BY RingFields, IndexIsCell DEF TxInv, TxTypes
<1>3. TxTypes'
  <2>1. popped' \in [byte : Cells, tail : Counters] /\ pass' \in {1, 2}
    BY <1>1, <1>2 DEF TxInv, TxTypes
  <2> QED
    BY <1>1, <2>1 DEF TxInv, TxTypes, Places
<1>4. TxQuiet'
  <2>1. InWrite
    BY <1>1 DEF InWrite
  <2> QED
    BY <1>1, <2>1, Zenon DEF TxInv, TxQuiet
<1>5. TxCopying' /\ TxPopping'
  <2>1. CASE IsEmpty(tx)
    BY <1>1, <2>1 DEF TxCopying, TxPopping
  <2>2. CASE ~IsEmpty(tx)
    BY <1>1, <2>2 DEF TxCopying, TxPopping, TxReady, IsEmpty
  <2> QED
    BY <2>1, <2>2
<1>6. UNCHANGED TxQueue!vars
  BY <1>1 DEF TxQueue!vars
<1> QED
  BY <1>3, <1>4, <1>5, <1>6 DEF TxInv

\* The tail moves on: the byte that was read is the oldest one.
LEMMA TxAdvanceTail ==
  ASSUME TxInv, AdvanceTxTail
  PROVE  TxInv' /\ [TxQueue!Next]_TxQueue!vars
<1>1. /\ pc = "advanceTail" /\ pc' = "send" /\ txint' = txint /\ wire' = wire
      /\ segments' = segments /\ rest' = rest /\ pass' = pass /\ popped' = popped
      /\ \E tail \in {popped.tail, tx.tail} : tx' = [tx EXCEPT !.tail = Advance(tail, 1)]
  BY DEF AdvanceTxTail, writing
<1>2. /\ Ring(tx) /\ Contents(tx) \in Seq(Bytes) /\ wire \in Seq(Bytes) /\ TxReady
      /\ ~IsEmpty(tx) /\ popped.tail = tx.tail /\ popped.byte = tx.data[Index(tx.tail)]
  BY <1>1 DEF TxInv, TxTypes, TxPopping
<1>3. tx' = [tx EXCEPT !.tail = Advance(tx.tail, 1)]
  BY <1>1, <1>2
<1>4. /\ Distance(tx) \in 0 .. Size /\ Distance(tx) # 0 /\ Size \in Nat /\ tx.tail \in Int
      /\ 1 \in 1 .. Distance(tx) /\ 1 \in 0 .. Distance(tx)
  BY <1>2, RingCount, RingFields, RingAssumption
<1> DEFINE c == Contents(tx)
<1>5. /\ Ring(tx') /\ Distance(tx') = Distance(tx) - 1
      /\ Contents(tx') = SubSeq(c, 1 + 1, Len(c))
  <2>1. \A q : q = [tx EXCEPT !.tail = Advance(tx.tail, 1)] =>
          /\ Ring(q) /\ Distance(q) = Distance(tx) - 1
          /\ Contents(q) = SubSeq(c, 1 + 1, Len(c))
    BY <1>2, <1>4, RingTake, ZenonT(60)
  <2> QED
    BY <1>3, <2>1
<1>6. c \in Seq(Bytes) /\ Len(c) = Distance(tx) /\ c[1] = popped.byte
  <2>1. Len(c) = Distance(tx) /\ c[1] = tx.data[Index(tx.tail + 1 - 1)]
    BY <1>2, <1>4, RingContents
  <2>2. tx.tail + 1 - 1 = tx.tail
    BY <1>4
  <2> QED
    BY <1>2, <2>1, <2>2
<1> HIDE DEF c
<1>7. /\ popped.byte \in Bytes /\ Contents(tx') \in Seq(Bytes)
      /\ SubSeq(c, 1, 1) = <<popped.byte>>
  <2>1. 1 \in 1 .. Len(c) /\ Len(c) \in Nat
    BY <1>4, <1>6
  <2>2. popped.byte \in Bytes
    BY <1>6, <2>1, ElementOfSeq
  <2>3. SubSeq(c, 1 + 1, Len(c)) \in Seq(Bytes)
    BY <1>6, <2>1
  <2>4. /\ SubSeq(c, 1, 1) \in Seq(Bytes) /\ Len(SubSeq(c, 1, 1)) = 1
        /\ SubSeq(c, 1, 1)[1] = c[1]
    BY <1>6, <2>1
  <2>5. SubSeq(c, 1, 1) = <<popped.byte>>
    <3>1. /\ <<popped.byte>> \in Seq(Bytes) /\ Len(<<popped.byte>>) = 1
          /\ <<popped.byte>>[1] = popped.byte
      BY <2>2
    <3>2. \A i \in 1 .. Len(SubSeq(c, 1, 1)) : SubSeq(c, 1, 1)[i] = <<popped.byte>>[i]
      BY <1>6, <2>4, <3>1
    <3> QED
      BY <2>4, <3>1, <3>2, SeqEqual
  <2> QED
    BY <1>5, <2>2, <2>3, <2>5
<1>8. TxTypes'
  BY <1>1, <1>5, <1>7 DEF TxInv, TxTypes, Places
<1>9. TxQuiet'
  <2>1. InWrite
    BY <1>1 DEF InWrite
  <2> QED
    BY <1>1, <2>1, Zenon DEF TxInv, TxQuiet
<1>10. TxCopying' /\ TxPopping'
  BY <1>1, <1>2, <1>7 DEF TxCopying, TxPopping, TxReady
<1>11. TxQueue!Take(1)
  <2>1. Append(wire, popped.byte) = wire \o <<popped.byte>>
    BY <1>2, <1>7, AppendIsConcat
  <2> QED
    BY <1>1, <1>5, <1>7, <2>1 DEF TxQueue!Take, c
<1>12. TxQueue!Next
  <2>1. 1 \in 1 .. Len(Contents(tx))
    BY <1>4, <1>6 DEF c
  <2> QED
    BY <1>11, <2>1 DEF TxQueue!Next
<1> QED
  BY <1>8, <1>9, <1>10, <1>12 DEF TxInv

\* The byte is sent: the transmitter still has room for it.
LEMMA TxSend ==
  ASSUME TxInv, SendByte
  PROVE  TxInv' /\ UNCHANGED TxQueue!vars
<1>1. /\ pc = "send" /\ pc' = "ready" /\ tx' = tx /\ txint' = txint
      /\ segments' = segments /\ rest' = rest /\ pass' = pass /\ popped' = NotPopping
      /\ TxReady /\ popped.byte \in Bytes /\ wire' = Append(wire, popped.byte)
  BY DEF SendByte, TxInv, TxPopping
<1>2. wire' \in Seq(Bytes) /\ Len(wire') <= WireSize
  <2>1. wire \in Seq(Bytes) /\ Len(wire) \in Nat /\ Len(wire) < WireSize /\ WireSize \in Nat
    BY <1>1, UartAssumption DEF TxInv, TxTypes, TxReady
  <2>2. wire' \in Seq(Bytes) /\ Len(wire') = Len(wire) + 1
    BY <1>1, <2>1, AppendProperties
  <2> QED
    BY <2>1, <2>2
<1>3. TxTypes'
  <2>1. NotPopping \in [byte : Cells, tail : Counters]
    BY RingAssumption DEF NotPopping, Cells, Counters
  <2> QED
    BY <1>1, <1>2, <2>1 DEF TxInv, TxTypes, Places
<1>4. TxQuiet'
  <2>1. InWrite
    BY <1>1 DEF InWrite
  <2> QED
    BY <1>1, <2>1, Zenon DEF TxInv, TxQuiet
<1>5. TxCopying' /\ TxPopping'
  BY <1>1 DEF TxCopying, TxPopping
<1>6. UNCHANGED TxQueue!vars
  BY <1>1 DEF TxQueue!vars
<1> QED
  BY <1>3, <1>4, <1>5, <1>6 DEF TxInv

\* The handler moves the oldest bytes to the transmitter, outside a write.
LEMMA TxFeed ==
  ASSUME TxInv, ~InWrite, FeedTransmitter, UNCHANGED <<pc, segments, writing>>
  PROVE  TxInv' /\ [TxQueue!Next]_TxQueue!vars
<1>1. /\ pc' = pc /\ segments' = segments /\ rest' = rest /\ pass' = pass /\ popped' = popped
      /\ pc \in {"idle", "copyOut", "advanceTo", "flush"}
  BY DEF writing, TxInv, TxTypes, Places, InWrite
<1>2. CASE ~TxReady
  <2>1. tx' = tx /\ txint' = txint /\ wire' = wire
    BY <1>2 DEF FeedTransmitter
  <2>2. segments' \in Seq(0 .. Size)
    BY <1>1 DEF TxInv, TxTypes
  <2> QED
    BY <1>1, <2>1, <2>2, TxElsewhere DEF writing
<1>3. CASE TxReady
  <2> DEFINE n == Lesser(Distance(tx), WireSize - Len(wire))
             c == Contents(tx)
  <2>1. /\ tx' = [tx EXCEPT !.tail = Advance(tx.tail, n)]
        /\ wire' = wire \o Oldest(tx, n)
        /\ txint' = IF IsEmpty(tx') THEN FALSE ELSE txint
    BY <1>3 DEF FeedTransmitter
  <2>2. /\ Ring(tx) /\ Distance(tx) \in 0 .. Size /\ Size \in Nat /\ c \in Seq(Bytes)
        /\ Len(c) = Distance(tx)
        /\ wire \in Seq(Bytes) /\ Len(wire) \in Nat /\ WireSize \in Nat /\ Len(wire) < WireSize
    BY <1>3, RingCount, RingContents, RingAssumption, UartAssumption
    DEF TxInv, TxTypes, TxReady
  <2>3. n \in 0 .. Distance(tx) /\ n <= WireSize - Len(wire)
    BY <2>2 DEF Lesser
  <2> HIDE DEF n, c
  <2>4. /\ Ring(tx') /\ Contents(tx') = SubSeq(c, n + 1, Len(c))
        /\ Oldest(tx, n) = SubSeq(c, 1, n)
    <3>1. \A q : q = [tx EXCEPT !.tail = Advance(tx.tail, n)] =>
            /\ Ring(q) /\ Contents(q) = SubSeq(c, n + 1, Len(c))
            /\ Oldest(tx, n) = SubSeq(c, 1, n)
      BY <2>2, <2>3, RingTake DEF c
    <3> QED
      BY <2>1, <3>1
  <2>5. /\ SubSeq(c, n + 1, Len(c)) \in Seq(Bytes)
        /\ SubSeq(c, 1, n) \in Seq(Bytes) /\ Len(SubSeq(c, 1, n)) = n
    BY <2>2, <2>3
  <2>6. wire' \in Seq(Bytes) /\ Len(wire') <= WireSize
    <3>1. wire' \in Seq(Bytes) /\ Len(wire') = Len(wire) + n
      BY <2>1, <2>2, <2>4, <2>5, ConcatProperties
    <3> QED
      BY <2>2, <2>3, <3>1
  <2>7. TxTypes'
    BY <1>1, <2>4, <2>5, <2>6 DEF TxInv, TxTypes, Places
  <2>8. TxQuiet'
    <3>1. txint \in BOOLEAN
      BY DEF TxInv, TxQuiet
    <3>2. txint' \in BOOLEAN
      BY <2>1, <3>1
    <3>3. ~InWrite'
      BY <1>1 DEF InWrite
    <3> QED
      BY <3>2, <3>3, Zenon DEF TxQuiet
  <2>9. TxCopying' /\ TxPopping'
    BY <1>1 DEF TxCopying, TxPopping
  <2>10. CASE n = 0
    <3>1. SubSeq(c, n + 1, Len(c)) = c
      <4>1. n + 1 = 1
        BY <2>10
      <4> QED
        BY <2>2, <4>1, SubSeqFull
    <3>2. wire' = wire
      <4>1. SubSeq(c, 1, n) = <<>>
        BY <2>5, <2>10, EmptySeq
      <4> QED
        BY <2>1, <2>2, <2>4, <4>1, ConcatEmptySeq
    <3>3. UNCHANGED TxQueue!vars
      BY <1>1, <2>4, <3>1, <3>2 DEF TxQueue!vars, c
    <3> QED
      BY <2>7, <2>8, <2>9, <3>3 DEF TxInv
  <2>11. CASE n # 0
    <3>1. n \in 1 .. Len(Contents(tx))
      BY <2>2, <2>3, <2>11 DEF c
    <3>2. TxQueue!Take(n)
      BY <1>1, <2>1, <2>4 DEF TxQueue!Take, c
    <3>3. TxQueue!Next
      BY <3>1, <3>2 DEF TxQueue!Next
    <3> QED
      BY <2>7, <2>8, <2>9, <3>3 DEF TxInv
  <2> QED
    BY <2>10, <2>11
<1> QED
  BY <1>2, <1>3

\* A byte leaves on the line.
LEMMA TxShift ==
  ASSUME TxInv, Shift
  PROVE  TxInv' /\ [TxQueue!Next]_TxQueue!vars
<1>1. /\ wire # <<>> /\ wire' = Tail(wire) /\ tx' = tx /\ txint' = txint /\ pc' = pc
      /\ segments' = segments /\ rest' = rest /\ pass' = pass /\ popped' = popped
  BY DEF Shift, writing
<1>2. /\ wire \in Seq(Bytes) /\ Len(wire) \in Nat /\ Len(wire) <= WireSize /\ WireSize \in Nat
      /\ wire' \in Seq(Bytes) /\ Len(wire') = Len(wire) - 1 /\ Len(wire) # 0
  BY <1>1, HeadTailProperties, EmptySeq, UartAssumption DEF TxInv, TxTypes
<1>3. Len(wire') <= WireSize /\ (TxReady => TxReady')
  BY <1>2 DEF TxReady
<1>4. TxTypes'
  BY <1>1, <1>2, <1>3 DEF TxInv, TxTypes
<1>5. TxQuiet'
  <2>1. InWrite' = InWrite
    BY <1>1 DEF InWrite
  <2> QED
    BY <1>1, <2>1, Zenon DEF TxInv, TxQuiet
<1>6. TxCopying' /\ TxPopping'
  BY <1>1, <1>3 DEF TxInv, TxCopying, TxPopping, IsEmpty
<1>7. CASE pc = "send"
  <2> DEFINE b == popped.byte
             d == Append(wire, b)
  <2>1. b \in Bytes
    BY <1>7 DEF TxInv, TxPopping
  <2>2. d \in Seq(Bytes) /\ d # <<>> /\ Len(d) = Len(wire) + 1 /\ Tail(d) = Append(Tail(wire), b)
    BY <1>1, <1>2, <2>1, AppendProperties, HeadTailAppend
  <2>3. Tail(d) = SubSeq(d, 2, Len(d))
    BY <2>2, TailIsSubSeq
  <2>4. 1 \in 1 .. Len(d)
    BY <1>2, <2>2
  <2>5. Append(wire', popped'.byte) = SubSeq(d, 1 + 1, Len(d))
    BY <1>1, <2>2, <2>3
  <2> HIDE DEF b
  <2>6. TxQueue!Consume(1)
    BY <1>1, <1>7, <2>5 DEF TxQueue!Consume, b
  <2>7. TxQueue!Next
    BY <1>7, <2>4, <2>6 DEF TxQueue!Next, b
  <2> QED
    BY <1>4, <1>5, <1>6, <2>7 DEF TxInv
<1>8. CASE pc # "send"
  <2>1. wire' = SubSeq(wire, 1 + 1, Len(wire)) /\ 1 \in 1 .. Len(wire)
    BY <1>1, <1>2, TailIsSubSeq
  <2>2. TxQueue!Consume(1)
    BY <1>1, <1>8, <2>1 DEF TxQueue!Consume
  <2>3. TxQueue!Next
    BY <1>8, <2>1, <2>2 DEF TxQueue!Next
  <2> QED
    BY <1>4, <1>5, <1>6, <2>3 DEF TxInv
<1> QED
  BY <1>7, <1>8

LEMMA TxInitial == Init => TxInv /\ TxQueue!Init
<1> SUFFICES ASSUME Init PROVE TxInv /\ TxQueue!Init
  OBVIOUS
<1>1. /\ tx = RingInit /\ txint = FALSE /\ wire = <<>> /\ pc = "idle" /\ segments = <<>>
      /\ rest = <<>> /\ pass = 1 /\ popped = NotPopping
  BY DEF Init
<1>2. Ring(RingInit) /\ Distance(RingInit) = 0
  BY EmptyRing
<1>3. Contents(tx) = <<>>
  <2>1. Len(Contents(tx)) = 0 /\ Contents(tx) \in Seq(Cells)
    BY <1>1, <1>2, RingContents
  <2> QED
    BY <2>1, EmptySeq
<1>4. NotPopping \in [byte : Cells, tail : Counters]
  BY RingAssumption DEF NotPopping, Cells, Counters
<1>5. Len(<<>>) = 0 /\ 0 <= WireSize
  BY UartAssumption
<1>6. TxTypes
  BY <1>1, <1>2, <1>3, <1>4, <1>5 DEF TxTypes, Places
<1>7. TxQuiet
  BY <1>1, Zenon DEF TxQuiet
<1>8. TxCopying /\ TxPopping
  BY <1>1 DEF TxCopying, TxPopping
<1>9. TxQueue!Init
  BY <1>1, <1>3 DEF TxQueue!Init
<1> QED
  BY <1>6, <1>7, <1>8, <1>9 DEF TxInv

\* The lengths of the segments, on the way of a read.
LEMMA ReadSegments ==
  ASSUME RxInv, TxInv
  PROVE  /\ \A n \in 1 .. MaxRead : BeginRead(n) => segments' \in Seq(0 .. Size)
         /\ AdvanceRxTail => segments' \in Seq(0 .. Size)
<1>1. segments \in Seq(0 .. Size)
  BY DEF TxInv, TxTypes
<1>2. ASSUME NEW n \in 1 .. MaxRead, BeginRead(n)
      PROVE  segments' \in Seq(0 .. Size)
  <2>1. CASE IsEmpty(rx)
    BY <1>1, <1>2, <2>1 DEF BeginRead
  <2>2. CASE ~IsEmpty(rx)
    <3>1. segments' = Segments(rx.tail, GetCount(rx), n)
      BY <1>2, <2>2 DEF BeginRead
    <3>2. rx.tail \in Int /\ GetCount(rx) \in 0 .. Size /\ n \in Nat
      BY RingFields, RingCount, UartAssumption DEF RxInv
    <3> QED
      BY <3>1, <3>2, SegmentsFit
  <2> QED
    BY <2>1, <2>2
<1>3. ASSUME AdvanceRxTail
      PROVE  segments' \in Seq(0 .. Size)
  <2>1. segments' = Tail(segments) /\ Fits(segments, rx.tail, Distance(rx))
    BY <1>3 DEF AdvanceRxTail, RxInv
  <2>2. rx.tail \in Int /\ Distance(rx) \in Int
    BY RingFields, RingCount, RingAssumption DEF RxInv
  <2> QED
    BY <2>1, <2>2, FitsNext
<1> QED
  BY <1>2, <1>3

\* Every step keeps the invariant, and is a step of the queue or none.
LEMMA TxStep ==
  ASSUME ~FullDuplex
  PROVE  RxInv /\ TxInv /\ [Next]_vars => TxInv' /\ [TxQueue!Next]_TxQueue!vars
<1> SUFFICES ASSUME RxInv, TxInv, [Next]_vars
             PROVE  TxInv' /\ [TxQueue!Next]_TxQueue!vars
  OBVIOUS
<1>0. segments \in Seq(0 .. Size)
  BY DEF TxInv, TxTypes
<1>1. ASSUME NEW n \in 1 .. MaxRead, BeginRead(n)
      PROVE  TxInv' /\ [TxQueue!Next]_TxQueue!vars
  <2>1. /\ UNCHANGED <<tx, txint, wire, writing>>
        /\ pc = "idle" /\ pc' \in {"idle", "copyOut"}
    BY <1>1 DEF BeginRead
  <2>2. segments' \in Seq(0 .. Size)
    BY <1>1, ReadSegments
  <2> QED
    BY <2>1, <2>2, TxElsewhere
<1>2. CASE CopySegmentOut
  BY <1>0, <1>2, TxElsewhere DEF CopySegmentOut
<1>3. CASE AdvanceRxTail
  <2>1. /\ UNCHANGED <<tx, txint, wire, writing>>
        /\ pc = "advanceTo" /\ pc' \in {"idle", "copyOut"}
    BY <1>3 DEF AdvanceRxTail
  <2>2. segments' \in Seq(0 .. Size)
    BY <1>3, ReadSegments
  <2> QED
    BY <2>1, <2>2, TxElsewhere
<1>4. ASSUME NEW bytes \in Writes, BeginWrite(bytes)
      PROVE  TxInv' /\ [TxQueue!Next]_TxQueue!vars
  BY <1>4, TxBegin
<1>5. CASE InsertMult
  BY <1>5, TxInsertMult
<1>6. CASE CopySegmentIn
  BY <1>6, TxCopy
<1>7. CASE AdvanceTxHead
  BY <1>7, TxAdvance
<1>8. CASE CheckReady
  BY <1>8, TxCheck
<1>9. CASE Pop
  BY <1>9, TxPop
<1>10. CASE AdvanceTxTail
  BY <1>10, TxAdvanceTail
<1>11. CASE SendByte
  BY <1>11, TxSend
<1>12. CASE BeginFlush
  BY <1>0, <1>12, TxElsewhere DEF BeginFlush
<1>13. CASE EndFlush
  BY <1>0, <1>13, TxElsewhere DEF EndFlush
<1>14. ASSUME NEW b \in Bytes, ReceiveInterrupt(b)
       PROVE  TxInv' /\ [TxQueue!Next]_TxQueue!vars
  <2>1. ~InWrite /\ FeedTransmitter /\ UNCHANGED <<pc, segments, writing>>
    BY <1>14, Zenon DEF ReceiveInterrupt
  <2> QED
    BY <2>1, TxFeed
<1>15. CASE TransmitInterrupt
  <2>1. txint /\ FeedTransmitter /\ UNCHANGED <<pc, segments, writing>>
    BY <1>15, Zenon DEF TransmitInterrupt
  <2>2. ~InWrite
    BY <2>1, Zenon DEF TxInv, TxQuiet
  <2> QED
    BY <2>1, <2>2, TxFeed
<1>16. CASE Shift
  BY <1>16, TxShift
<1>17. CASE UNCHANGED vars
  <2>1. /\ tx' = tx /\ txint' = txint /\ wire' = wire /\ pc' = pc /\ segments' = segments
        /\ rest' = rest /\ pass' = pass /\ popped' = popped
    BY <1>17 DEF vars, writing
  <2>2. TxTypes'
    BY <2>1 DEF TxInv, TxTypes
  <2>3. InWrite' = InWrite
    BY <2>1 DEF InWrite
  <2>4. TxQuiet'
    BY <2>1, <2>3, Zenon DEF TxInv, TxQuiet
  <2>5. TxCopying' /\ TxPopping'
    BY <2>1 DEF TxInv, TxCopying, TxPopping, TxReady, IsEmpty
  <2>6. UNCHANGED TxQueue!vars
    BY <2>1 DEF TxQueue!vars
  <2> QED
    BY <2>2, <2>4, <2>5, <2>6 DEF TxInv
<1> QED
  BY <1>1, <1>2, <1>3, <1>4, <1>5, <1>6, <1>7, <1>8, <1>9, <1>10, <1>11, <1>12, <1>13, <1>14,
     <1>15, <1>16, <1>17
  DEF Next, Read, Write, WriteStep

\* What write() accepted goes out in order and each byte once, whether the main
\* program or the handler hands it to the transmitter, as long as no byte
\* arrives in the middle of a write: the handler would feed the transmitter then,
\* too.
THEOREM TransmitImplementsQueue ==
  ASSUME ~FullDuplex
  PROVE  Spec => TransmitIsQueue
<1>1. Init => RxInv /\ TxInv /\ TxQueue!Init
  BY RxInitial, TxInitial
<1>2. RxInv /\ TxInv /\ [Next]_vars => RxInv' /\ TxInv' /\ [TxQueue!Next]_TxQueue!vars
  BY RxStep, TxStep
<1> QED
  BY <1>1, <1>2, PTL DEF Spec, TransmitIsQueue, TxQueue!Spec

\* Under the same condition every variable keeps its type: no count exceeds the
\* ring buffers, and no cell is sent that was never written.
THEOREM UartTypeCorrect ==
  ASSUME ~FullDuplex
  PROVE  Spec => []TypeOK
<1>1. Init => RxInv /\ TxInv
  BY RxInitial, TxInitial
<1>2. RxInv /\ TxInv /\ [Next]_vars => RxInv' /\ TxInv'
  BY RxStep, TxStep
<1>3. RxInv /\ TxInv => TypeOK
  <2> SUFFICES ASSUME RxInv, TxInv PROVE TypeOK
    OBVIOUS
  <2>1. rx \in RingType /\ buffer \in Seq(Bytes \cup {NoByte}) /\ done \in 0 .. Len(buffer)
    BY DEF RxInv, Ring, Cells
  <2>2. /\ tx \in RingType /\ wire \in Seq(Bytes) /\ Len(wire) <= WireSize
        /\ segments \in Seq(0 .. Size) /\ rest \in Seq(Bytes) /\ pass \in {1, 2}
        /\ popped \in [byte : Bytes \cup {NoByte}, tail : 0 .. Modulus - 1]
    BY DEF TxInv, TxTypes, Ring, Cells, Counters
  <2>3. txint \in BOOLEAN
    BY DEF TxInv, TxQuiet
  <2>4. pc \in {"idle", "copyOut", "advanceTo", "insert", "copyIn", "advanceHead", "ready", "pop",
                "advanceTail", "send", "flush"}
    BY DEF TxInv, TxTypes, Places
  <2> QED
    BY <2>1, <2>2, <2>3, <2>4, Zenon DEF TypeOK
<1> QED
  BY <1>1, <1>2, <1>3, PTL DEF Spec
=============================================================================
