# Verification of the ventilation controller

TLA+ models, TLC runs and TLAPS proofs for the controller in `src/ventilation`
(an LPC1549 that keeps the air pressure of a duct at a setpoint, or a fan at a
manual speed, with an LCD menu and MQTT as its two users). The reference is the
source. Where a comment or the README of the repository says something else
than the code does, the model follows the code and the difference is listed
under *Findings*.

## The system

The firmware is one program without an operating system: a main loop
(`ventilation.cpp`), interrupt handlers for the UARTs and the millisecond tick,
and two callbacks that run inside the loop. All waiting is done by polling.

| component | state | operations | talks to |
|---|---|---|---|
| LCD menu (`Menu`, `NumericProperty`, `Property`, `LcdUi`) | selected property, editing, per property the value shown and the value in force, dirty flag, button state | `send` an event, `setValue` from outside, `update` (refresh), `btnStatusUpdate` | calls `onValueChange` of the main program |
| main loop and fan control (`ventilation.cpp`) | goal, speed, multiplier, stall count, elapsed time, the fan's register AO1 | poll, sense and regulate, report, scan the buttons; the settings callback; `onValueChange` | everything below |
| pressure sensor (`I2C`) | transmit buffer and its fill, status | `write`, `getResponse` | I2C bus |
| settings and status text (`JSON`) | text, read position | `next`, `add` | main program |
| MQTT front end (`Networking`) | the instances, topics and callbacks | connect, `publish`, `subscribe`, `poll`, dispatch | MQTT client |
| MQTT packet codec (`MQTTPacket.c` and others) | none of its own | serialize and deserialize each packet | MQTT client |
| MQTT client (Paho, `MQTTClient.c`) | connected, ping outstanding, packet id, two timers, handlers | connect, subscribe, publish, `cycle`, `waitfor`, keep-alive | transport |
| transport (`MQTT_lpc1549.c`, `esp8266_socket.c`) | AT command state machine, its timer, reply buffer, event queue | `esp_socket`, `esp_connect`, `esp_read`, `esp_write` | UART 2 |
| Modbus master (`ModbusMaster`, `ModbusRegister`) | transmit and response buffer | read and write a register, timeout | UART 1 |
| serial ports (`LpcUart`, `SerialPort`, `serial_port`, the library's `ring_buffer.c`, `uart_15xx.c`) | two ring buffers, interrupt enable bits | read, write, flush; interrupt handler | the line |
| LCD and pin drivers, debug output, start-up code | none a property depends on | | |

What makes it hard:

* **Two users of one setting.** The LCD and MQTT both set mode, goal and speed,
  through different callbacks, at different points of the loop; a message may
  come in the middle of an edit, and in the middle of a publish.
* **Units.** `speed` is a percentage in manual mode and tenths of a percent in
  automatic mode; one dial is a pressure in pascal and a speed in percent.
* **An interrupt handler** shares ring buffers with the main program.
* **Failures nobody looks at**: a Modbus write, a sensor transfer, a publish,
  an AT command, each may fail, and most callers ignore it.
* **Waiting**: loops without a limit in the ESP driver, time-outs with late
  answers in the MQTT client and the Modbus master.

What makes each component correct:

* *Menu*: an edit changes one setting, within its range, and only when it is
  confirmed, to the number on display; the LCD is never wrong for good.
* *Main loop*: between two callbacks the goal (automatic) or the output
  (manual) agrees with the setpoint in force, the one that is reported; the
  regulation moves the fan towards the goal, settles, and stays on its scale;
  the status that is published is consistent and catches up with the settings.
* *Serial port*: each buffer is a queue; bytes do not wait for ever.
* *I2C*: nothing that a failed transfer has left behind is used, neither a part
  of an answer nor a command that went past the end of the transmit buffer.
* *JSON, packet codec*: the program takes from a message the settings its
  sender meant; the length announced is the length that follows, and what one
  side writes is what the other reads.
* *Networking*: what the broker believes delivered has reached the program.
* *ESP driver*: ready means joined, connected means transparent, commands do
  not go to the broker; the waits end if the module and the network answer
  eventually.
* *MQTT client*: an acknowledgement that counts is that of the packet that
  waits for it; a lost answer ends in a time-out, not in a wait for ever; the
  broker of an open session hears of the client in time, although the client
  looks at its timers late; a handshake that the broker began is brought to its
  end.
* *Modbus*: the answer that is used belongs to the request; what has arrived
  earlier does no harm; a transaction ends.

## Modules

| module | what it is |
|---|---|
| `Menu` | operators on the state of the menu: `SetValue`, `Input`, `StopEdit`, `Send`, `Update`. Used by both state machines that hold a menu |
| `LcdUi` | the LCD by itself: a user on four buttons against a program that stores values at any time; what is on the display |
| `PropertyEditor` | abstract: an editor of settings with a private draft. `LcdUi` implements it |
| `Ventilation` | the main loop with both callbacks and its own menu |
| `I2c` | the I2C master: the transmit buffer, a transfer and its handler, event by event |
| `ClosedLoop` | `Ventilation` and `I2c` regulating a duct: the reading is a function of the fan's output and is read byte by byte, from a sensor that fails. It implements `Ventilation` |
| `RingBuffer` | operators on a ring buffer with wrapping counters |
| `Uart` | one serial port: main program and interrupt handler on two ring buffers |
| `ByteQueue` | abstract: a bounded queue. Each direction of `Uart` implements it |
| `EspSocket` | the driver's state machine and its calls against a WiFi module and a network that fail |
| `Json` | the reader and the writer of JSON, as operators on sequences of tokens |
| `MqttPacket` | the packets as bytes: operators that write and read them |
| `MqttClient` | `Networking` on the MQTT client on its timers, against a broker. Uses `Json` and `MqttPacket` |
| `Modbus` | the Modbus master and the program's sequence of registers, on one line with three slaves |
| `MenuProofs`, `LcdUiProofs`, `VentilationProofs`, `ClosedLoopProofs`, `UartProofs`, `EspSocketProofs`, `MqttClientProofs`, `ModbusProofs` | theorems and lemmas; those about `Json` and `MqttPacket` are in `MqttClientProofs` |
| `MCLcdUi`, `MCVentilation`, `MCClosedLoop`, `MCUart`, `MCEspSocket`, `MCMqttClient`, `MCModbus` | constants for TLC |

Definitions described as mutants, just before the definition they vary, are
wrong variants used to check that a property notices the mistake; no
specification uses them.

### How state and actions correspond to the code

**Menu and LcdUi.** A menu is a record: `selected` and `editing` are the
members of `Menu`; `value` and `old` are the members `value` and `oldValue` of
each `NumericProperty`. `Send(m, e)` is the whole of `Menu::send`, with the
calls it makes into the property. `ReadButton` is one turn of the loop in
`btnStatusUpdate`: it acts when a button is released and calls the listener
when `Menu::send` has just ended an edit by Confirm. `Store` is `setValue`,
`Refresh` is `LcdUi::update`. The text on the display is abstracted to the
triple property, edit marker, value (`Screen`).

**Ventilation.** One turn of the loop passes the phases poll, sense, report,
publish, buttons. A settings message is a sequence of fields; `Deliver` starts
the callback and `SetMode`, `SetGoal`, `SetSpeed`, `SkipField` handle one field
each, with nothing in between but fields of the same message. Messages are
delivered in the phases poll and publish, where the program is inside
`MQTTYield` or `waitfor`. A pressure reading is the sensor's `int16`; the
pressure is the exact rational reading × 19/4800, and rounding to `int` and
`round()` are modelled as such. `abs(goal - result) > 3` may resolve to the
integer or to the floating-point function depending on the headers, so a
deviation between 3 and 4 may count or not (`OffTarget`). A Modbus write stores
16 bits and may be lost without notice (`LostWrites`).

**Uart.** The main program's accesses to the counters and cells are steps; the
handler runs to completion between two of them. `tail++` in the main program
may use the tail of its last read or the present one, as the compiler pleases.
The 32-bit counters wrap at `Modulus`; `RingBuffer_GetCount` converts the
difference to a signed integer, and so does the model.

**EspSocket.** `state` is `ctx->state`; `Tick`, `Receive`, `Connect` and
`Disconnect` handle one event in each of the states, and `Enter` is the change
of state in `dispatch_event` with the entry of the new one. `BeginRun` is one
call of `EspSocketRun` up to its event loop, `Dispatch` one event of that loop.
`Call` and `Return` are `esp_connect` and `esp_shutdown`, whose loops are the
steps between them; `Restart` is a reset of the controller, which calls
`esp_socket` again and leaves the module as it is. Text is a sequence of
pieces, one for each string the driver looks for and `"text"` for others; a
piece arrives as a whole. `sm_wait_for` is `WaitFor`, `sm_read_result` takes
pieces until the buffer contains a result (`Taken`): an `ERROR` stays in the
buffer, so after a failed connection every further piece is another result and
sends `CIPSTART` again, as in the code. The WiFi module is what the driver
takes it to be: it obeys each command, may ignore `AT` and `ATE0`, may fail to
join and to connect, passes everything on in the data mode, and leaves that
mode for `+++` sent alone.

**I2c and ClosedLoop.** `BeginTransfer` is `write` of the command byte and
`getResponse` up to the blocking transfer; `Transmit`, `ReceiveByte` and
`Disturb` are the cases of `Chip_I2CM_XferHandler`, one event of the bus each;
`Returned` is what `getResponse` does with the result, and `Answered` and
`Unanswered` are the `ok` that the main loop branches on. The cases that the
handler's comments say should not occur are left out. A failure leaves the
command in the transmit buffer (`txSz` is reset after a success only) and
nothing limits the failures, so a command may be written past its end: there
`rxBuff` follows in the class, and `Overwritten` is what becomes of it.
`MaxLost` bounds the failures in a row that are explored; it must stay below
twice the buffer, because further ones overwrite `txSz` itself. `ClosedLoop`
replaces the reading that `Ventilation` may choose freely by the two bytes of
the receive buffer.

**MqttClient.** `call` is the call that goes on: the program connects,
subscribes, then polls `Polls` times and publishes, by turns. `HandlePacket` is
a turn of `cycle` that has read a packet, `TimeOut` one that has read nothing
in time; both end with `keepalive` and with what the caller, `MQTTYield` or
`waitfor`, makes of the result (`Conclude`, `Outcome`). In `MQTTYield` the
`cycle` itself closes an open session on failure, the commands close any
session (`Fail`). A refused subscription counts as a success, without a handler
(`Granted`), as in the code. `Tick` is time that passes while the client waits
for a packet, or between two calls (`WorkTime`: sensors, fan and LCD); `Block`
is time that passes inside the settings callback (`HandlingTime`), which writes
to the fan over Modbus and waits for its answer while the timers of the client
run on (`Elapse`). The timers of the keep-alive are looked at only when a turn
of `cycle` ends (`Due`), so `last_sent` counts on below 0. Packets are records;
what they look like as bytes (`MqttPacket`) enters through the property
`PacketsAgree`, which serializes and deserializes every packet that is sent.
`WireAssumption` says what these need: numbers that fit two bytes and packets
that fit the buffer of `BufSize` bytes. Remaining lengths are those of four
bytes at most (`MaxLength`): the buffer of 256 allows two. The broker may
refuse the connection and the subscription, send messages in any QoS, send them
and their releases again, and be silent. It sends messages only after it has
granted the subscription, although MQTT would let it send them before the
acknowledgement.

**Json.** A text is a sequence of tokens: quotes, colons, commas, braces,
blanks and words. `Fields` is the loop of the settings callback over
`JSON::next`, turn by turn (`Turn`); it has ended after as many turns as the
text has quotes, because each turn passes one. `npos` is 0 and positions count
from 1, so that the search begins where it does in the code. The scan for the
end of a value has no bound but a comma or a brace; the operators are for texts
that have one. `Says` states what a text says as JSON, without any reader: an
object between braces, fields with commas between them, each a quoted key, a
colon and a value that neither begins nor ends with a blank, and blanks
anywhere between them. `MeaningAssumption` asks that of the senders of
settings. `Settings` is what the callback takes from the fields: the mode by
comparing the value with `true`, the numbers with `atoi`. The reader takes the
blanks behind a value for a part of it, which `atoi` does not mind and the
comparison does: hence the exception `TrueEnds` in `SettingsAsMeant`.

**Modbus.** `Request` is `ModbusMasterTransaction` up to its loop: the serial
buffer is flushed and the request sent. The loop takes what arrives in two
parts, the five bytes that are inspected on their own (`FirstPart`) and the
rest with the checksum (`SecondPart`). `NextStep` is the order in which the
main loop visits the registers, which depends on what it reads: a humidity
sensor that does not answer reads as -1, is taken for one that is present and
is asked for its values. Answers may come in time, late, in part, damaged, as
an exception, or never.

## Runs

| run | question | result |
|---|---|---|
| `lcd` | the menu under any user and any stores | edits in range, commits are what was shown although values are stored meanwhile, the LCD catches up |
| `lcd_editor` | is the menu an editor? | yes, if no setting is stored while another one is edited (`StoresDuringEdits = FALSE`) |
| `lcd_stale` | and if one is? | no: finding 1 |
| `settings` | LCD and MQTT interleaved in the loop | goal and output agree with the setpoint in force; settings get reported |
| `regulation` | incomplete, unknown and out-of-range messages, changing readings, lost writes | multiplier usable, corrections towards the goal, lost writes made good |
| `closed_loop` | the program's own constants against 14 scripts and two ducts, readings that fail, more often in a row than the transmit buffer has bytes | the pressure settles, nothing of a failed transfer is used |
| `growth` | the first correction after manual mode | finding 2 |
| `uart` | one port, nothing arriving during a write | both directions are queues; flush ends |
| `uart_duplex` | bytes arriving during a write | finding 3 |
| `esp` | ignored commands, failures to join and connect, a reset of the controller in any state | ready, connected and the calls mean what they say; a call returns unless the reply buffer is full |
| `mqtt` | a broker that refuses, repeats, and answers late or never; status packets that fill the buffer | acknowledgements match, what is acknowledged was delivered, settings are taken as they were meant, the broker hears of an open session in time, calls end, handshakes are completed |
| `modbus` | slaves that answer late, in part, spoilt or never | an accepted answer is from the slave asked, and current unless an earlier one was still to come; failures have causes; transactions end |

Bounds, and why they are enough:

* Menu: two editable settings and five others, as in the program; a setpoint
  range of 0 to 5 in steps of 5, so that an edit hits both ends and stored
  values lie at both ends. Two buttons at once cover every overlap of a press
  and a release; the loop handles buttons one at a time.
* Ventilation: setpoints 0 to 2 or 3 with a full scale of 12 to 60, so that the
  clamp is reached; readings below, near and above the goal; a stall limit of
  one or two; one button at a time in `settings` (overlaps are covered by
  `lcd`), none in `regulation`. Messages carry one or two fields in either
  order. `ReportPeriod` of one turn makes a report due in each turn, the most
  frequent interleaving with messages.
* ClosedLoop uses the program's values: scale 1000, setpoints to 120, stall
  limit 60, threshold 50; only the report is due each turn, to keep the
  behaviour short. The duct is linear and without delay: an assumption about
  the environment, named in the module. The two I2C buffers have 3 bytes
  instead of 64 and up to 5 readings in a row fail, so that commands are
  written over the whole of the receive buffer.
* Uart: two cells with counters that wrap at six, so that every position of
  head and tail, a full and an empty buffer, a split into two segments and the
  wrap of the counters occur; writes of one byte and of more than fit.
* EspSocket: the timeouts are one to three ticks; they belong to different
  states, so that only the order of guard and command time matters; the reply
  buffer takes four pieces, so that two failed connections or three failed
  attempts to join fill it; five ignored commands make the driver give up on
  `AT` and on `ATE0`; one reset of the controller at any point, two pieces of
  data at any point of a connection. `InputSize` pieces wait in the serial port
  and further ones are lost. The driver repeats commands by the clock and does
  not tell the answers apart, so the model assumes answers that come before the
  next repetition or never (`TickMayCome`); with slower ones the driver can be
  ready without having joined, which no property here covers. Only commands
  that are repeated may be ignored.
* MqttClient: work, a poll and a callback take at most one tick each, and the
  interval of 6 ticks is the least that `MqttAssumption` allows (2 × (1 + 1 +
  1) ≤ 6); the command timeout of 5 ticks and two polls are enough for a ping
  to be due at each point of a turn, by either timer. The program meets the
  assumption with its interval of 60 s: its longest pause between two calls is
  the turn that reports, with five Modbus time-outs of 2 s if all slaves are
  silent, a poll takes 50 ms and the callback of a message with one speed one
  more time-out, 2 × (10 + 0.05 + 2) ≤ 60; a command takes 30 s, 2 × (30 + 2) ≤
  3 × 60. Packet numbers wrap after two. One settings message of QoS 2 and one
  of QoS 1, and one repetition, cover every overlap of a handshake with a
  publication and with the end of the session. The texts are padded so that the
  two messages have a remaining length of 127 and 128, where the second byte of
  length begins, and the status fills the buffer of 256 bytes. `MaxUnread`
  bounds what a silent broker has not read when a poll begins.
* Modbus: three slaves with the program's addresses; one answer damaged or cut
  short, and a new request only with fewer than two requests or parts under
  way, which is enough for an answer to come one transaction late, in its first
  part, its second or both.

Fairness. The loop never blocks for ever: a poll ends when its 50 ms are over
and a publish at the latest when its command timer expires, however many
messages come before, hence strong fairness of `PollDone` and `FinishPublish`;
every other phase is straight-line code, hence weak fairness. Nothing is
assumed of users, publishers and sensors, except in `RecoverySpec`, where one
of the readings recurs and the write made with it succeeds again and again.
`LcdUi` refreshes between any two scans of the buttons often enough (strong
fairness of `SomeRefresh`). In `Uart` an enabled interrupt is served, the line
takes bytes, and the program goes on. In `EspSocket` the loop of a call goes
round, the clock ticks whenever it may, and the module works on its commands;
how often it fails is bounded. In `MqttClient` and `Modbus` the program is one
thread that goes on (weak fairness of `Client` and `Master`; in the former it
includes the passing of time). Brokers and slaves owe nothing: `CallsEnd` and
`TransactionsEnd` hold with silent ones. Only `SettingsAnswered` supposes a
broker that reads what it is sent, as an antecedent of the property.

## Proofs

TLAPS checks the theorems below for all values of the constants that meet the
named assumptions (`SetpointAssumption`, `LcdUiAssumption`,
`VentilationAssumption`, `MessagesAssumption`, `RingAssumption`,
`UartAssumption`, `I2cAssumption`, `ClosedLoopAssumption`, `EspAssumption`,
`MqttAssumption`, `WireAssumption`, `MeaningAssumption`, `ModbusAssumption`);
the runs show the same properties on an instance.

* `LcdUiProofs`. The inductive invariant `IInv` adds to the types that the
  position is within the menu, that only the user's settings are under edit,
  and that both the value shown and the one in force of a setting are in range:
  without the last part a dropped edit could bring back a value out of range.
  `ScreenAlwaysRepairable` needs it and nothing more.
  `ButtonsAlwaysCommitWhatIsShown` is an action property proved from both.
  `MenuImplementsEditor` assumes `StoresDuringEdits = FALSE`; its invariant
  `Synced` says that outside an edit the value shown is the one in force, which
  is what the open stores break.
* `VentilationProofs`. `Typed` is inductive and gives `TypeCorrect`; from it
  follow `MultiplierAlwaysArmed` and `StallsAlwaysBounded`, whatever messages
  arrive. `InForce` strengthens `AutoGoalInForce` and `ManualOutputInForce` to
  the middle of a message: `Settled` holds between callbacks, `Midway` says
  which field is still to come and what it will repair. It holds for the
  documented kinds of message, either order of fields (`DocumentedMessages`); a
  message with one field alone breaks it, which is why the assumption is there.
  The output in manual mode needs writes that are not lost.
  `StatusAlwaysConsistent` follows from `InForce`. `OutputAlwaysInScale`
  assumes ten times the largest setpoint fits the scale, which the program's
  own constants violate (setpoints to 120, a scale of 1000);
  `CorrectionsGoTowardsGoal` follows from the same invariant `InScale` and the
  sign of the rounded correction.
* `UartProofs`. The lemmas about `RingBuffer` come first: what the buffer
  contains is a sequence (`Contents`) that an insertion makes longer at its end
  and a pop shorter at its front, wherever the counters stand and wrap.
  `ReceiveImplementsQueue` and `TransmitImplementsQueue` are the refinements of
  `ByteQueue`, step by step. Reading rests on `RxInv`: what a read has copied
  and not yet taken out is still in its cells, because the handler writes to
  free cells only and moves the head only. It holds with and without full
  duplex. Writing rests on `TxInv`: the handler stays away during a write
  (`TxQuiet`), the segments of a copy fit the free cells (`TxCopying`), and the
  tail that a pop has seen is the tail it advances (`TxPopping`). The last two
  need the first, and the first needs `~FullDuplex`: with a byte that arrives
  in the middle of a write the statement is false, as run `uart_duplex` shows.
  `UartTypeCorrect` is a consequence and has the same hypothesis for the same
  reason: with full duplex the tail can pass the head. `TransmitterAlwaysArmed`
  (bytes never wait in the transmit buffer with the interrupt off) does not
  need it.
* `ClosedLoopProofs`. `ClosedLoopImplementsLoop`: every step of the loop with
  its bus and duct is a step of `Ventilation` or a stutter, so that every
  safety theorem of `VentilationProofs` holds in the duct. This and
  `AlwaysRegulatesOnPresent` rest on the invariant `CInv`: the bytes received
  so far in a transfer are those of the present pressure, and a transfer with
  status OK has received all of them; put together they are the reading,
  because it is below 2^15. The commands that too many failures write over the
  receive buffer do no harm to that, because a transfer that succeeds writes
  each of the three bytes before they are read. Both assume that a reading may
  be any int16 that is not negative. `DuctKeepsInvariants` draws the conclusion
  for the invariants of the main loop's variables.
* `EspSocketProofs`. `ReadyMeansJoined`, `ConnectedMeansTransparent` and
  `CommandsStayLocal` are each a matter of what the driver and the module have
  said to each other so far. The invariant `Inv` therefore has one conjunct for
  each of the thirteen states (`Talk`): which commands the module has not taken
  yet, which answers the driver has not read yet, and what is known of the
  module. A driver that repeats a command by the clock must find nothing on its
  way when it does: that is the assumption on the module (`TickMayCome`) when
  the tick is noticed, and `TickPending` carries it to the moment when the tick
  is acted on. In between other events may be dispatched, hence `EventOrder`: a
  tick stands before the text that was received in the same round. Of the
  time-outs only their order matters: `EspAssumption` has the guard time end
  before the command time, so that `+++` is sent in silence. A restart of the
  controller leads from every state of the module to the first state of the
  driver; that is why `InitTalk` and `ATTalk` say so little.
* `MqttClientProofs`. `SessionAlwaysHeard` rests on `AliveInv`: whenever a call
  ends and the session stays open, less than an interval has passed since a
  packet was sent, because otherwise a ping was sent just then; so at each
  point `last_sent` is at least what the call, the pause and the callback that
  followed can have taken away (`LeastSent`). Pings may well be due, and late;
  `MqttAssumption` keeps the delay below half an interval.
  `CompleteAlwaysMeansDelivered` needs the whole conversation (`DeliveredInv`):
  the subscription in order, that no message comes before the handler is set,
  and that every answer on its way follows the delivery of what it answers.
  `TypeCorrect` includes that every message handed over is one that the broker
  has. `AcknowledgementsAlwaysMatch` says that in an open session the two
  queues hold nothing of an earlier publication: `MatchInv` extends this to the
  time in which a session is being opened, where nothing of the old one is
  left. `PacketsAlwaysAgree` is the codec: for every text, name and number
  within `WireAssumption`, whatever is on its way has the announced length, and
  the client reads from the bytes of the broker what the broker meant.
  `WireInv` says which packets are on their way. The length of one to four
  bytes is written by recursion: `EncodeIsDigits` unrolls it into its at most
  four digits, and `DigitsAddUp` adds them up again. The rest is where each
  part stands in the bytes (`Stands`). `SettingsAlwaysAsMeant` is the same for
  the settings: what the callback takes from a message that is handed to the
  program is what its sender meant. It rests on `SaidIsRead`: the loop over
  `JSON::next` reads an object (`Says`) field by field, all of them, in order
  and nothing else, but that blanks behind a value become a part of it; and on
  `SettingIsMeant`, that `atoi` and, with `TrueEnds`, the comparison do not
  mind. The reading itself is proved for texts as the reader cuts them
  (`Cuts`): `FieldIsNext` is one turn of the loop, `LoopReads` any number of
  turns, `EnoughTurns` says that the text has a quote for each field, and
  behind the last field the loop stands still (`CutIsRead`). `WrittenCuts`
  shows that what `JSON::add` writes is such a text, for any number of fields,
  all keys without quotes and all values that begin with no blank and contain
  neither comma nor closing brace (`Writable`: numbers and the two Booleans).
  `NextReadsWhatWasAdded` is a single field of it, and `WrittenIsRead` puts the
  two halves together. Each of these inductions is over a number, and is made
  without the induction theorems: the set of numbers that are a counterexample
  has a least one (`Least`, from the well-foundedness of <), which is not 0 and
  whose predecessor gives a contradiction. `LoopExists` and `WriterExists` show
  in the same way that the recursive functions of the model exist.
* `ModbusProofs`. Each theorem has its invariant on the three places where
  parts of answers are (the line, the serial port, the frame buffer): accepted
  first parts fit the request (`FitsInv`); without earlier requests under way
  all parts are of this request (`CurrentInv`); before any damage the parts
  form whole answers in order (`CauseInv`).

Only model-checked: liveness (`ScreenCatchesUp`, `SettingsGetReported`,
`AutoRecoversFromLostWrites`, `Settles`, `FlushEnds`, `CallsReturn`,
`CallsEnd`, `SettingsAnswered`, `TransactionsEnd`), because the prover has no
rules for fairness and `ENABLED`. Every invariant and every action property
that a run shows to hold has a theorem. What a theorem assumes of the
environment (the module's answers, the duct, the kinds of message, well-formed
settings) a run assumes as well. No module with theorems reaches a recursive
operator.

## Findings

1. A value stored while any property is being edited is not shown, not even
   after the edit; the next edit of that setting opens on the old value, and
   confirming it undoes the stored one (`lcd_stale`).
2. The first correction after manual mode starts from the percentage, a tenth
   of the output, and slows a fast fan down (`growth`).
3. A byte received during a write makes the interrupt handler pop from the
   transmit buffer that the write is popping from: a byte can be sent twice, or
   the tail pass the head (`uart_duplex`). `TransmitIsQueue` fails under the
   same constants.

Facts that contradict no document, and that the models show without a property
about them: the setpoint goes to 120 because it is a pressure, and as a speed
in percent it writes 1200 to an output whose scale ends at 1000; with goal 0
the fan is switched off, but the reported speed stays; a refused subscription
is reported as a success; a CO2 sensor that fails between its status and its
value is reported as -1; the 65th reading in a row that fails writes its
command past the end of the 64 bytes of `txBuff`; and `{"auto": true }`, with a
blank behind the value, sets the manual mode.

## Not modelled

Data that is copied and not decided on: the sequence number and the error flag
of the status. Rounding errors of 32-bit floats. Drawing on the LCD, the pin
and clock set-up, debug output. The operations of the UART that nothing calls
(break, speed) and `peek`, one read of a count. Whether the regulation reaches
goals that take most of the fan's power: halving the multiplier on the way can
stop it short.

Code of the components above that the controller never calls: the unsubscribe
and disconnect of the MQTT client, wills, user names and passwords, the packet
readers for a server; the Modbus functions other than reading a holding
register and writing one; `I2C::send`; `sm_read_int` and the state template of
the ESP driver; `Networking::close`, and what is reached through it alone:
`NetworkDisconnect` and `esp_shutdown`. They have no caller that would say
which inputs they get. `EspSocket` has the call of `esp_shutdown` all the same,
since the driver's states for it are there; it lists no hazard of it.

Packets cut short. The write to the ESP module drops the count of characters
that fitted into the ring buffer, and a read of a packet that does not arrive
whole in time is given up, after which the next byte is taken for a header.
What happens then depends on what the broker makes of half a packet and on the
value of any byte of the text: a model would have to allow every packet, and no
property of the ones above would be left, since nothing in the code notices or
repairs the loss. The models send and receive packets whole.

The largest part of `src` by lines is the chip library of the manufacturer
(`lpc_chip_15xx`, `lpc_board_nxp_lpcxpresso_1549`): register definitions and
one-line access functions for peripherals that the controller mostly does not
use. Of it, the ring buffer, the UART handler and the I2C handler carry state
of the program and are modelled. `socket_mqtt` is an earlier program with
copies of the drivers and a Paho library in C and in C++; nothing in the
controller is built from it.
