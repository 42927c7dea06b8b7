-------------------------------- MODULE Uart --------------------------------
(***************************************************************************)
(* A serial port (LpcUart): two ring buffers between the main program and  *)
(* the interrupt handler.  The handler runs to completion between any two  *)
(* steps of the main program; the main program's reads and writes of the   *)
(* counters and the cells are steps of their own.                          *)
(***************************************************************************)
EXTENDS RingBuffer

CONSTANTS
  Writes,       \* the writes the program makes: sequences of bytes
  MaxRead,      \* bound: the longest read
  WireSize,     \* bytes the transmitter holds: a holding and a shift register
  FullDuplex    \* TRUE if bytes may arrive while the program is in a write

ASSUME UartAssumption ==
  /\ Writes \subseteq Seq(Bytes) /\ MaxRead \in Nat /\ WireSize \in Nat \ {0}
  /\ FullDuplex \in BOOLEAN

VARIABLES
  rx, tx,       \* rxring and txring
  txint,        \* the interrupt enable bit TXRDY; RXRDY is always enabled
  wire,         \* the bytes in the transmitter
  pc,           \* where the main program is
  segments,     \* the lengths of the segments still to be copied
  buffer,       \* read: the bytes copied to the caller
  done,         \* read: how many of them have been taken out of rx
  rest,         \* write: the bytes not yet copied
  pass,         \* write: which of the two calls of InsertMult
  popped        \* write: the byte the main program pops, and the tail it saw

reading == <<buffer, done>>
writing == <<rest, pass, popped>>
vars == <<rx, tx, txint, wire, pc, segments, reading, writing>>

TxReady == Len(wire) < WireSize

NotPopping == [byte |-> NoByte, tail |-> 0]

InWrite == pc \in {"insert", "copyIn", "advanceHead", "ready", "pop", "advanceTail", "send"}

Init ==
  /\ rx = RingInit /\ tx = RingInit /\ txint = FALSE /\ wire = <<>>
  /\ pc = "idle" /\ segments = <<>>
  /\ buffer = <<>> /\ done = 0
  /\ rest = <<>> /\ pass = 1 /\ popped = NotPopping

-----------------------------------------------------------------------------
(* LpcUart::read: RingBuffer_PopMult on the receive buffer *)

\* The test for emptiness and the count are two reads of the counters; between
\* them the count can only grow, so that they are one step here.
BeginRead(n) ==
  /\ pc = "idle"
  /\ buffer' = <<>> /\ done' = 0
  /\ IF IsEmpty(rx) THEN UNCHANGED <<pc, segments>>
     ELSE pc' = "copyOut" /\ segments' = Segments(rx.tail, GetCount(rx), n)
  /\ UNCHANGED <<rx, tx, txint, wire, writing>>

CopySegmentOut ==
  /\ pc = "copyOut"
  /\ buffer' = buffer \o CopyOut(rx, Head(segments))
  /\ pc' = "advanceTo"
  /\ UNCHANGED <<rx, tx, txint, wire, segments, done, writing>>

AdvanceRxTail ==
  /\ pc = "advanceTo"
  /\ rx' = [rx EXCEPT !.tail = Advance(rx.tail, Head(segments))]
  /\ done' = done + Head(segments)
  /\ segments' = Tail(segments)
  /\ pc' = IF Len(segments) = 1 THEN "idle" ELSE "copyOut"
  /\ UNCHANGED <<tx, txint, wire, buffer, writing>>

-----------------------------------------------------------------------------
(* LpcUart::write: Chip_UART_SendRB on the transmit buffer *)

\* The caller is done with what it has read.
ForgetRead == buffer' = <<>> /\ done' = 0

\* Mutant of BeginWrite: the transmit interrupt stays as it is.
BeginWriteUnlocked(bytes) ==
  /\ pc = "idle"
  /\ rest' = bytes /\ pass' = 1
  /\ ForgetRead
  /\ pc' = "insert"
  /\ UNCHANGED <<rx, tx, txint, wire, segments, popped>>

BeginWrite(bytes) ==
  /\ pc = "idle"
  /\ txint' = FALSE
  /\ rest' = bytes /\ pass' = 1
  /\ ForgetRead
  /\ pc' = "insert"
  /\ UNCHANGED <<rx, tx, wire, segments, popped>>

\* Mutant of AfterInsert: no interrupt is asked for if the transmitter is ready.
AfterInsertDisarmed(remaining) ==
  IF pass = 1 THEN pc' = "ready" /\ rest' = remaining /\ UNCHANGED txint
  ELSE pc' = "idle" /\ rest' = <<>> /\ txint' = ~TxReady

\* What follows a call of InsertMult: the attempt to feed the transmitter
\* right away, or the end of the write.
AfterInsert(remaining) ==
  IF pass = 1 THEN pc' = "ready" /\ rest' = remaining /\ UNCHANGED txint
  ELSE pc' = "idle" /\ rest' = <<>> /\ txint' = TRUE

\* The head of InsertMult.  As in BeginRead, two reads in one step: between
\* them the free space can only grow.
InsertMult ==
  /\ pc = "insert"
  /\ IF IsFull(tx) THEN AfterInsert(rest) /\ UNCHANGED segments
     ELSE /\ segments' = Segments(tx.head, GetFree(tx), Len(rest))
          /\ pc' = "copyIn"
          /\ UNCHANGED <<txint, rest>>
  /\ UNCHANGED <<rx, tx, wire, reading, pass, popped>>

CopySegmentIn ==
  /\ pc = "copyIn"
  /\ tx' = CopyIn(tx, SubSeq(rest, 1, Head(segments)))
  /\ pc' = "advanceHead"
  /\ UNCHANGED <<rx, txint, wire, segments, reading, writing>>

AdvanceTxHead ==
  /\ pc = "advanceHead"
  /\ tx' = [tx EXCEPT !.head = Advance(tx.head, Head(segments))]
  /\ segments' = Tail(segments)
  /\ LET remaining == SubSeq(rest, Head(segments) + 1, Len(rest)) IN
     IF Len(segments) = 1 THEN AfterInsert(remaining)
     ELSE pc' = "copyIn" /\ rest' = remaining /\ UNCHANGED txint
  /\ UNCHANGED <<rx, wire, reading, pass, popped>>

\* Chip_UART_TXIntHandlerRB, called by the main program: while the transmitter
\* is ready and the buffer is not empty, pop a byte and send it.
CheckReady ==
  /\ pc = "ready"
  /\ IF TxReady THEN pc' = "pop" /\ UNCHANGED pass ELSE pc' = "insert" /\ pass' = 2
  /\ UNCHANGED <<rx, tx, txint, wire, segments, reading, rest, popped>>

Pop ==
  /\ pc = "pop"
  /\ IF IsEmpty(tx) THEN pc' = "insert" /\ pass' = 2 /\ UNCHANGED popped
     ELSE /\ popped' = [byte |-> tx.data[Index(tx.tail)], tail |-> tx.tail]
          /\ pc' = "advanceTail"
          /\ UNCHANGED pass
  /\ UNCHANGED <<rx, tx, txint, wire, segments, reading, rest>>

\* tail++ is neither volatile nor atomic: it may add to the tail of a moment
\* ago or to the present one.
AdvanceTxTail ==
  /\ pc = "advanceTail"
  /\ \E tail \in {popped.tail, tx.tail} : tx' = [tx EXCEPT !.tail = Advance(tail, 1)]
  /\ pc' = "send"
  /\ UNCHANGED <<rx, txint, wire, segments, reading, writing>>

\* A byte sent to a transmitter that is not ready overwrites the last one.
SendByte ==
  /\ pc = "send"
  /\ wire' = IF TxReady THEN Append(wire, popped.byte)
             ELSE [wire EXCEPT ![Len(wire)] = popped.byte]
  /\ popped' = NotPopping
  /\ pc' = "ready"
  /\ UNCHANGED <<rx, tx, txint, segments, reading, rest, pass>>

\* SerialPort::flush: wait until the transmit buffer is empty.
BeginFlush ==
  /\ pc = "idle" /\ pc' = "flush"
  /\ ForgetRead
  /\ UNCHANGED <<rx, tx, txint, wire, segments, writing>>

EndFlush ==
  /\ pc = "flush" /\ IsEmpty(tx)
  /\ pc' = "idle"
  /\ UNCHANGED <<rx, tx, txint, wire, segments, reading, writing>>

-----------------------------------------------------------------------------
(* The interrupt handler and the line *)

\* Mutants of FeedTransmitter: without the look at the transmitter's status,
\* and switching the interrupt off each time.
FeedTransmitterUnchecked ==
  /\ tx' = [tx EXCEPT !.tail = tx.head]
  /\ wire' = wire \o Contents(tx)
  /\ txint' = FALSE

FeedTransmitterOnce ==
  IF ~TxReady THEN UNCHANGED <<tx, wire, txint>>
  ELSE LET n == Lesser(Distance(tx), WireSize - Len(wire)) IN
       /\ tx' = [tx EXCEPT !.tail = Advance(tx.tail, n)]
       /\ wire' = wire \o Oldest(tx, n)
       /\ txint' = FALSE

\* The handler feeds the transmitter if that is ready, whatever the cause of
\* the interrupt, and switches the transmit interrupt off when it runs dry.
FeedTransmitter ==
  IF ~TxReady THEN UNCHANGED <<tx, wire, txint>>
  ELSE LET n == Lesser(Distance(tx), WireSize - Len(wire)) IN
       /\ tx' = [tx EXCEPT !.tail = Advance(tx.tail, n)]
       /\ wire' = wire \o Oldest(tx, n)
       /\ txint' = IF IsEmpty(tx') THEN FALSE ELSE txint

\* A byte has arrived.  Nothing in the program masks this interrupt, so that
\* the byte is handled before the next one.
ReceiveInterrupt(b) ==
  /\ FullDuplex \/ ~InWrite
  /\ FeedTransmitter
  /\ rx' = Insert(rx, b)
  /\ UNCHANGED <<pc, segments, reading, writing>>

TransmitInterrupt ==
  /\ txint /\ TxReady
  /\ FeedTransmitter
  /\ UNCHANGED <<rx, pc, segments, reading, writing>>

\* A byte leaves on the line.
Shift ==
  /\ wire # <<>>
  /\ wire' = Tail(wire)
  /\ UNCHANGED <<rx, tx, txint, pc, segments, reading, writing>>

Read  == (\E n \in 1 .. MaxRead : BeginRead(n)) \/ CopySegmentOut \/ AdvanceRxTail

WriteStep ==
  InsertMult \/ CopySegmentIn \/ AdvanceTxHead \/ CheckReady \/ Pop \/ AdvanceTxTail \/ SendByte

Write == (\E bytes \in Writes : BeginWrite(bytes)) \/ WriteStep

Next ==
  \/ Read \/ Write \/ BeginFlush \/ EndFlush
  \/ \E b \in Bytes : ReceiveInterrupt(b)
  \/ TransmitInterrupt
  \/ Shift

Spec == Init /\ [][Next]_vars

\* The line takes the bytes, an enabled interrupt is served, and a waiting
\* program looks again.
Fairness == WF_vars(TransmitInterrupt) /\ WF_vars(Shift) /\ WF_vars(EndFlush) /\ WF_vars(WriteStep)

FairSpec == Spec /\ Fairness

-----------------------------------------------------------------------------
(* Properties *)

TypeOK ==
  /\ rx \in RingType /\ tx \in RingType
  /\ txint \in BOOLEAN
  /\ wire \in Seq(Bytes) /\ Len(wire) <= WireSize
  /\ pc \in {"idle", "copyOut", "advanceTo", "insert", "copyIn", "advanceHead", "ready", "pop",
             "advanceTail", "send", "flush"}
  /\ segments \in Seq(0 .. Size)
  /\ buffer \in Seq(Bytes \cup {NoByte}) /\ done \in 0 .. Len(buffer)
  /\ rest \in Seq(Bytes) /\ pass \in {1, 2}
  /\ popped \in [byte : Bytes \cup {NoByte}, tail : 0 .. Modulus - 1]

\* Bytes wait in the transmit buffer only while somebody will come for them:
\* outside a write, the transmit interrupt is enabled.
TransmitterArmed == ~InWrite /\ ~IsEmpty(tx) => txint

\* The program reads the bytes that were received, in order and each once,
\* although the handler adds to the buffer in the middle of a read.
RxQueue == INSTANCE ByteQueue WITH
  Capacity <- Size, queue <- Contents(rx), delivered <- SubSeq(buffer, 1, done)
ReceiveIsQueue == RxQueue!Spec

\* The bytes that a write accepted go out in order and each once, whether the
\* main program or the handler hands them to the transmitter.
TxQueue == INSTANCE ByteQueue WITH
  Capacity <- Size, queue <- Contents(tx),
  delivered <- IF pc = "send" THEN Append(wire, popped.byte) ELSE wire
TransmitIsQueue == TxQueue!Spec

\* Waiting for the transmit buffer to run empty ends.
FlushEnds == pc = "flush" ~> pc = "idle"

\* During a write, the interrupt handler leaves the transmit buffer alone
\* (uart_15xx.c:202).
WriteUndisturbed == [][InWrite /\ InWrite' /\ ~Write => tx' = tx]_vars
=============================================================================
