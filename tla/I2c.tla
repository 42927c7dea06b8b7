--------------------------------- MODULE I2c ---------------------------------
(***************************************************************************)
(* The I2C master (I2C.cpp, i2cm_15xx.c) as the main loop uses it: a        *)
(* command byte is put into the transmit buffer, then a blocking transfer  *)
(* sends the buffer and reads ReadCount bytes.  The bus hardware and the    *)
(* sensor are external: they report one event after the other, and each    *)
(* is handled by Chip_I2CM_XferHandler until the transfer has a result.    *)
(* Nothing empties the transmit buffer after a failure and nothing limits  *)
(* the failures in a row: the command then goes past the end of the        *)
(* buffer, into the receive buffer, which is the next member of the class. *)
(***************************************************************************)
EXTENDS Naturals

CONSTANTS
  BufferMax,   \* bytes that each of the two buffers holds: 64
  MaxLost      \* bound: transfers that fail one after the other

\* More failures in a row than the two buffers have bytes would overwrite txSz itself.
ASSUME I2cAssumption == BufferMax \in Nat /\ MaxLost \in Nat /\ MaxLost < 2 * BufferMax

ReadCount == 3

\* The sensor's command to answer with a measurement: 0xF1.
Command == 241

VARIABLE
  i2c   \* [txSz, rxBuff: the object's; tx, rx: bytes the transfer has left to
        \*  send and to read; master: what the hardware does; status]

I2cInit ==
  i2c = [txSz |-> 0, rxBuff |-> [n \in 1 .. ReadCount |-> 0], tx |-> 0, rx |-> 0,
         master |-> "idle", status |-> "none"]

Failures == {"ARBLOST", "BUS_ERROR", "NAK_ADR", "NAK_DAT"}

\* write() puts the command behind those that are left; there is no check for
\* the end of the buffer.
Overwritten ==
  [n \in 1 .. ReadCount |-> IF n + BufferMax = i2c.txSz + 1 THEN Command ELSE i2c.rxBuff[n]]

\* write() of the command and the start of getResponse().
BeginTransfer ==
  /\ i2c.status = "none"
  /\ i2c' = [i2c EXCEPT !.txSz = @ + 1, !.rxBuff = Overwritten, !.tx = i2c.txSz + 1,
                        !.rx = ReadCount, !.master = "address", !.status = "BUSY"]

\* Ready for the next byte to send, or for the second address.
Transmit ==
  /\ i2c.status = "BUSY" /\ i2c.master \in {"address", "sending"}
  /\ i2c' = IF i2c.tx > 0
            THEN [i2c EXCEPT !.tx = @ - 1, !.master = "sending"]
            ELSE [i2c EXCEPT !.master = "second address"]

\* A byte of the answer has come.
ReceiveByte(byte) ==
  /\ i2c.status = "BUSY" /\ i2c.master \in {"second address", "receiving"}
  /\ i2c' = [i2c EXCEPT !.rxBuff[ReadCount - i2c.rx + 1] = byte, !.rx = @ - 1,
                        !.master = IF i2c.rx > 1 THEN "receiving" ELSE "idle",
                        !.status = IF i2c.rx > 1 THEN "BUSY" ELSE "OK"]

\* The sensor does not acknowledge, or the bus is disturbed.  The commands that
\* are left count the failures in a row, of which MaxLost are explored.
Disturb(failure) ==
  /\ i2c.status = "BUSY" /\ i2c.txSz <= MaxLost
  /\ failure = "NAK_ADR" => i2c.master \in {"address", "second address"}
  /\ failure = "NAK_DAT" => i2c.master = "sending"
  /\ i2c' = [i2c EXCEPT !.master = "idle", !.status = failure]

\* getResponse() returns: the buffer is emptied after a successful transfer.
Returned ==
  IF i2c.status = "OK" THEN [i2c EXCEPT !.txSz = 0, !.status = "none"] ELSE [i2c EXCEPT !.status = "none"]

\* Mutant of Answered: the result of the transfer is not looked at.
AnsweredAnyhow == i2c.status \in Failures \cup {"OK"}

Answered == i2c.status = "OK"
Unanswered == i2c.status \in Failures

\* int16: the first two bytes of the answer.
Response ==
  LET n == 256 * i2c.rxBuff[1] + i2c.rxBuff[2] IN IF n > 32767 THEN n - 65536 ELSE n
=============================================================================
