------------------------------ MODULE EspSocket ------------------------------
(***************************************************************************)
(* The socket on the ESP8266 WiFi module (esp8266_socket.c): a state       *)
(* machine that sends AT commands over a serial port and looks for the     *)
(* answers in the text that comes back.  The text is a sequence of pieces: *)
(* the strings the driver looks for, and "text" and "data" for the rest.   *)
(* The module is not part of the repository; it is modelled from what the  *)
(* driver expects of it, with attempts to join and to connect that fail.   *)
(*                                                                         *)
(* Assumption: the module answers a command before the driver's timeouts   *)
(* repeat it, or never.  A tick therefore comes only when there is nothing *)
(* to read.  Only commands that the driver repeats may go unanswered.      *)
(***************************************************************************)
EXTENDS Naturals, Sequences, SequencesExt

CONSTANTS
  BufferSize,      \* pieces that fit in ctx->buffer
  InputSize,       \* pieces that fit in the receive buffer of the serial port
  EventQueueSize,  \* EVQ_SIZE
  AnswerTicks,     \* 10 ticks before a command is repeated
  GuardTicks,      \* 10 ticks of silence before "+++" ...
  CommandTicks,    \* ... and 25 until the next command
  JoinTicks,       \* 70 ticks before an attempt to join is repeated
  MaxStale,        \* bound: events left behind by calls that had nothing to do
  MaxIgnored, MaxJoinFailures, MaxConnectFailures, MaxRestarts, MaxData   \* bounds

ASSUME EspAssumption ==
  /\ {BufferSize, InputSize, AnswerTicks, GuardTicks, JoinTicks} \subseteq Nat \ {0}
  /\ EventQueueSize \in Nat /\ MaxStale + 3 <= EventQueueSize
  /\ CommandTicks \in Nat /\ CommandTicks > GuardTicks
  /\ {MaxStale, MaxIgnored, MaxJoinFailures, MaxConnectFailures, MaxRestarts, MaxData} \subseteq Nat

VARIABLES
  caller,     \* the call that is going on: "socket", "connect", "shutdown", or "idle"
  running,    \* inside EspSocketRun, while the event queue is worked off
  state,      \* ctx->state, without the "st"
  events,     \* ctx->EspEventQ
  timer, count,
  buffer,     \* ctx->buffer up to ctx->pos
  input,      \* the receive buffer of the serial port
  commands,   \* what is on its way to the module
  module,     \* the WiFi module
  budget      \* what may still go wrong, and the data the broker may still send

machine == <<state, timer, count, buffer>>
vars == <<caller, running, events, machine, input, commands, module, budget>>

States ==
  {"Init", "AT", "EchoOff", "StationModeCheck", "StationModeSet", "ConnectAP", "Ready",
   "ConnectTCP", "Passthrough", "PassthroughOK", "Connected", "CommandMode", "CloseTCP"}

Events == {"tick", "receive", "connect", "disconnect"}

Insert(queue, e) == IF Len(queue) < EventQueueSize THEN Append(queue, e) ELSE queue

\* The command that a state sends on entry.
OnEntry(s) ==
  CASE s = "Init"             -> <<"AT">>
    [] s = "EchoOff"          -> <<"ATE0">>
    [] s = "StationModeCheck" -> <<"CWMODE?">>
    [] s = "StationModeSet"   -> <<"CWMODE=1">>
    [] s = "ConnectTCP"       -> <<"CIPSTART">>
    [] s = "Passthrough"      -> <<"CIPMODE=1">>
    [] s = "PassthroughOK"    -> <<"CIPSEND">>
    [] s = "CloseTCP"         -> <<"CIPMODE=0">>
    [] OTHER                  -> <<>>

\* smi_init
Start ==
  /\ caller' = "socket" /\ running' = FALSE /\ events' = <<>>
  /\ state' = "Init" /\ timer' = 0 /\ count' = 0 /\ buffer' = <<>>
  /\ input' = <<>> /\ commands' = OnEntry("Init")

Init ==
  /\ caller = "socket" /\ running = FALSE /\ events = <<>>
  /\ state = "Init" /\ timer = 0 /\ count = 0 /\ buffer = <<>>
  /\ input = <<>> /\ commands = OnEntry("Init")
  /\ module = [mode |-> "command", garbled |-> FALSE, station |-> FALSE, joined |-> FALSE,
               linked |-> FALSE, transparent |-> FALSE]
  /\ budget = [ignored |-> MaxIgnored, joins |-> MaxJoinFailures, connects |-> MaxConnectFailures,
               restarts |-> MaxRestarts, data |-> MaxData]

-----------------------------------------------------------------------------
(* Steps of the state machine.  TRAN: the new state is entered after the    *)
(* handler; two states discard what has been received.                      *)

Send(pieces) == commands' = commands \o pieces

Enter(s, left) ==
  /\ state' = s /\ timer' = 0 /\ count' = 0 /\ buffer' = <<>>
  /\ input' = IF s \in {"Init", "EchoOff"} THEN <<>> ELSE left
  /\ Send(OnEntry(s))

Ignore == UNCHANGED <<machine, input, commands>>

TickInit ==
  IF timer + 1 < AnswerTicks
  THEN timer' = timer + 1 /\ UNCHANGED <<state, count, buffer, input, commands>>
  ELSE IF count + 1 < 5
  THEN timer' = 0 /\ count' = count + 1 /\ Send(<<"AT">>) /\ UNCHANGED <<state, buffer, input>>
  ELSE Enter("AT", input)

\* The timer runs on: after the first repetition one comes with every tick.
TickEchoOff ==
  IF timer + 1 < AnswerTicks
  THEN timer' = timer + 1 /\ UNCHANGED <<state, count, buffer, input, commands>>
  ELSE IF count + 1 < 3
  THEN timer' = timer + 1 /\ count' = count + 1 /\ Send(<<"ATE0">>) /\ UNCHANGED <<state, buffer, input>>
  ELSE Enter("Init", input)

\* Mutant of TickEscape: no pause after the escape sequence.
TickEscapeHasty(next) ==
  IF timer + 1 = GuardTicks
  THEN /\ state' = next /\ timer' = 0 /\ count' = 0 /\ buffer' = <<>>
       /\ input' = IF next = "Init" THEN <<>> ELSE input
       /\ Send(<<"+++">> \o OnEntry(next))
  ELSE timer' = timer + 1 /\ UNCHANGED <<state, count, buffer, input, commands>>

\* Out of the data mode: silence, the escape sequence, silence.
TickEscape(next) ==
  IF timer + 1 = CommandTicks THEN Enter(next, input)
  ELSE /\ timer' = timer + 1
       /\ Send(IF timer + 1 = GuardTicks THEN <<"+++">> ELSE <<>>)
       /\ UNCHANGED <<state, count, buffer, input>>

TickConnectAP ==
  /\ timer' = IF timer + 1 >= JoinTicks THEN 0 ELSE timer + 1
  /\ Send(IF timer = 0 THEN <<"CWJAP">> ELSE <<>>)
  /\ UNCHANGED <<state, count, buffer, input>>

Tick ==
  CASE state = "Init"        -> TickInit
    [] state = "EchoOff"     -> TickEchoOff
    [] state = "AT"          -> TickEscape("Init")
    [] state = "CommandMode" -> TickEscape("CloseTCP")
    [] state = "ConnectAP"   -> TickConnectAP
    [] OTHER                 -> Ignore

\* sm_wait_for: skip everything up to the string.
WaitFor(string, next) ==
  IF string \in ToSet(input)
  THEN Enter(next, SubSeq(input, SelectInSeq(input, LAMBDA p : p = string) + 1, Len(input)))
  ELSE input' = <<>> /\ UNCHANGED <<machine, commands>>

\* Mutant of MayRead: the end of the buffer is not looked at.
MayReadPastEnd == Len(input)

\* sm_read_result: pieces go to the buffer until it contains a result, also
\* one of an earlier call, or is full.
Results == {"OK", "ERROR"}

MayRead == IF Len(input) <= BufferSize - Len(buffer) THEN Len(input) ELSE BufferSize - Len(buffer)

Text(n) == buffer \o SubSeq(input, 1, n)

HasResult(n) == ToSet(Text(n)) \cap Results # {}

Taken ==
  CHOOSE n \in 0 .. MayRead :
    /\ \A k \in 1 .. n - 1 : ~HasResult(k)
    /\ n < MayRead => n > 0 /\ HasResult(n)

Left(n) == SubSeq(input, n + 1, Len(input))

\* Mutant of Succeeded: any result will do.
SucceededAnyhow(n) == n > 0 /\ HasResult(n)

Succeeded(n) == n > 0 /\ "OK" \in ToSet(Text(n))

Failed(n) == n > 0 /\ ~Succeeded(n) /\ HasResult(n)

Keep(n) == buffer' = Text(n) /\ input' = Left(n) /\ UNCHANGED <<state, timer, count>>

ReceiveStationModeCheck(n) ==
  IF Succeeded(n)
  THEN Enter(IF "MODE1" \in ToSet(Text(n)) THEN "ConnectAP" ELSE "StationModeSet", Left(n))
  ELSE Keep(n) /\ UNCHANGED commands

ReceiveConnectAP(n) ==
  IF Succeeded(n) THEN Enter("Ready", Left(n)) ELSE Keep(n) /\ UNCHANGED commands

ReceiveConnectTCP(n) ==
  IF Succeeded(n) /\ "CONNECT" \in ToSet(Text(n)) THEN Enter("Passthrough", Left(n))
  ELSE Keep(n) /\ Send(IF Failed(n) THEN <<"CIPSTART">> ELSE <<>>)

ReceivePassthrough(n) ==
  IF Succeeded(n) THEN Enter("PassthroughOK", Left(n)) ELSE Keep(n) /\ UNCHANGED commands

ReceiveCloseTCP(n) ==
  IF ~Succeeded(n) THEN Keep(n) /\ UNCHANGED commands
  ELSE IF "CLOSED" \in ToSet(Text(n)) THEN Enter("Ready", Left(n))
  ELSE /\ timer' = 0 /\ count' = 0 /\ buffer' = <<>> /\ input' = Left(n)
       /\ Send(<<"CIPCLOSE">>)
       /\ UNCHANGED state

\* Mutant of Receive: the prompt is not waited for.
ReceiveWithoutPrompt ==
  CASE state = "Init"             -> WaitFor("OK", "EchoOff")
    [] state = "EchoOff"          -> WaitFor("OK", "StationModeCheck")
    [] state = "StationModeSet"   -> WaitFor("OK", "StationModeCheck")
    [] state = "PassthroughOK"    -> WaitFor("OK", "Connected")
    [] state = "StationModeCheck" -> ReceiveStationModeCheck(Taken)
    [] state = "ConnectAP"        -> ReceiveConnectAP(Taken)
    [] state = "ConnectTCP"       -> ReceiveConnectTCP(Taken)
    [] state = "Passthrough"      -> ReceivePassthrough(Taken)
    [] state = "CloseTCP"         -> ReceiveCloseTCP(Taken)
    [] OTHER                      -> Ignore

Receive ==
  CASE state = "Init"             -> WaitFor("OK", "EchoOff")
    [] state = "EchoOff"          -> WaitFor("OK", "StationModeCheck")
    [] state = "StationModeSet"   -> WaitFor("OK", "StationModeCheck")
    [] state = "PassthroughOK"    -> WaitFor(">", "Connected")
    [] state = "StationModeCheck" -> ReceiveStationModeCheck(Taken)
    [] state = "ConnectAP"        -> ReceiveConnectAP(Taken)
    [] state = "ConnectTCP"       -> ReceiveConnectTCP(Taken)
    [] state = "Passthrough"      -> ReceivePassthrough(Taken)
    [] state = "CloseTCP"         -> ReceiveCloseTCP(Taken)
    [] OTHER                      -> Ignore

Connect == IF state = "Ready" THEN Enter("ConnectTCP", input) ELSE Ignore

Disconnect == IF state = "Connected" THEN Enter("CommandMode", input) ELSE Ignore

-----------------------------------------------------------------------------
(* The calls.  They run the machine until it has reached the state wanted.  *)

Goal == [socket |-> "Ready", connect |-> "Connected", shutdown |-> "Ready"]

\* esp_connect and esp_shutdown leave an event in the queue.
Call(call, event) ==
  /\ caller = "idle" /\ (state = Goal[call] => Len(events) < MaxStale)
  /\ caller' = call
  /\ events' = Insert(events, event)
  /\ UNCHANGED <<running, machine, input, commands, module, budget>>

Return ==
  /\ caller # "idle" /\ ~running /\ state = Goal[caller]
  /\ caller' = "idle"
  /\ UNCHANGED <<running, events, machine, input, commands, module, budget>>

\* The assumption on the module.
Deaf == {"AT", "Ready", "Connected", "CommandMode"}

TickMayCome == commands = <<>> /\ (input = <<>> \/ state \in Deaf \/ Len(buffer) >= BufferSize)

\* EspSocketRun: look at the clock and at the serial port ...
BeginRun(tick) ==
  /\ caller # "idle" /\ ~running /\ state # Goal[caller]
  /\ tick => TickMayCome
  /\ LET ticked == IF tick THEN Insert(events, "tick") ELSE events
         queue  == IF input # <<>> THEN Insert(ticked, "receive") ELSE ticked
     IN  queue # <<>> /\ events' = queue
  /\ running' = TRUE
  /\ UNCHANGED <<caller, machine, input, commands, module, budget>>

\* ... and dispatch all events.
Dispatch ==
  /\ running
  /\ CASE Head(events) = "tick"       -> Tick
       [] Head(events) = "receive"    -> Receive
       [] Head(events) = "connect"    -> Connect
       [] Head(events) = "disconnect" -> Disconnect
  /\ events' = Tail(events)
  /\ running' = (Len(events) > 1)
  /\ UNCHANGED <<caller, module, budget>>

Read ==
  /\ caller = "idle" /\ state = "Connected" /\ input # <<>>
  /\ input' = Tail(input)
  /\ UNCHANGED <<caller, running, events, machine, commands, module, budget>>

Write ==
  /\ caller = "idle" /\ state = "Connected" /\ Len(commands) < 2
  /\ Send(<<"data">>)
  /\ UNCHANGED <<caller, running, events, machine, input, module, budget>>

\* The controller is reset, the module is not.
Restart ==
  /\ budget.restarts > 0
  /\ Start
  /\ budget' = [budget EXCEPT !.restarts = @ - 1]
  /\ UNCHANGED module

-----------------------------------------------------------------------------
(* The WiFi module *)

\* What no longer fits in the receive buffer is lost.
Arrive(pieces) ==
  LET all == input \o pieces
  IN  input' = IF Len(all) <= InputSize THEN all ELSE SubSeq(all, 1, InputSize)

Reply(pieces, m) == Arrive(pieces) /\ module' = m

Join ==
  \/ Reply(<<"text", "OK">>, [module EXCEPT !.joined = TRUE, !.linked = FALSE]) /\ UNCHANGED budget
  \/ /\ budget.joins > 0
     /\ \E failure \in {"text", "ERROR"} :
          Reply(<<failure>>, [module EXCEPT !.joined = FALSE, !.linked = FALSE])
     /\ budget' = [budget EXCEPT !.joins = @ - 1]

Link ==
  IF module.linked \/ ~module.joined THEN Reply(<<"ERROR">>, module) /\ UNCHANGED budget
  ELSE \/ Reply(<<"CONNECT", "OK">>, [module EXCEPT !.linked = TRUE]) /\ UNCHANGED budget
       \/ /\ budget.connects > 0
          /\ Reply(<<"ERROR", "CLOSED">>, module)
          /\ budget' = [budget EXCEPT !.connects = @ - 1]

\* While it starts up, the module may ignore a command, one that is repeated.
Ignored(c) ==
  /\ c \in {"AT", "ATE0"} /\ budget.ignored > 0
  /\ budget' = [budget EXCEPT !.ignored = @ - 1]
  /\ UNCHANGED <<input, module>>

\* An escape sequence in the command mode spoils the command that follows.
Obey(c) ==
  /\ (c \notin {"CWJAP", "CIPSTART"} \/ module.garbled) => UNCHANGED budget
  /\ CASE c = "+++" -> Reply(<<>>, [module EXCEPT !.garbled = TRUE])
       [] module.garbled /\ c # "+++" -> Reply(<<"ERROR">>, [module EXCEPT !.garbled = FALSE])
       [] ~module.garbled /\ c \in {"AT", "ATE0"} -> Reply(<<"OK">>, module)
       [] ~module.garbled /\ c = "CWMODE?" ->
            Reply(<<IF module.station THEN "MODE1" ELSE "text", "OK">>, module)
       [] ~module.garbled /\ c = "CWMODE=1" -> Reply(<<"OK">>, [module EXCEPT !.station = TRUE])
       [] ~module.garbled /\ c = "CWJAP" -> Join
       [] ~module.garbled /\ c = "CIPSTART" -> Link
       [] ~module.garbled /\ c = "CIPMODE=1" -> Reply(<<"OK">>, [module EXCEPT !.transparent = TRUE])
       [] ~module.garbled /\ c = "CIPMODE=0" -> Reply(<<"OK">>, [module EXCEPT !.transparent = FALSE])
       [] ~module.garbled /\ c = "CIPSEND" ->
            IF module.linked /\ module.transparent
            THEN Reply(<<"OK", ">">>, [module EXCEPT !.mode = "data"])
            ELSE Reply(<<"ERROR">>, module)
       [] ~module.garbled /\ c = "CIPCLOSE" ->
            IF module.linked THEN Reply(<<"CLOSED", "OK">>, [module EXCEPT !.linked = FALSE])
            ELSE Reply(<<"ERROR">>, module)

\* In the data mode everything goes to the broker, except the escape sequence
\* when it comes alone.
Forward(c) ==
  /\ module' = IF c = "+++" /\ Len(commands) = 1 THEN [module EXCEPT !.mode = "command"] ELSE module
  /\ UNCHANGED <<input, budget>>

ModuleStep ==
  /\ commands # <<>>
  /\ \/ module.mode = "command" /\ (Obey(Head(commands)) \/ Ignored(Head(commands)))
     \/ module.mode = "data" /\ Forward(Head(commands))
  /\ commands' = Tail(commands)
  /\ UNCHANGED <<caller, running, events, machine>>

\* The broker sends something.
Data ==
  /\ module.mode = "data" /\ budget.data > 0
  /\ Arrive(<<"data">>)
  /\ budget' = [budget EXCEPT !.data = @ - 1]
  /\ UNCHANGED <<caller, running, events, machine, commands, module>>

-----------------------------------------------------------------------------

Run == \E tick \in BOOLEAN : BeginRun(tick)

Next ==
  \/ Call("connect", "connect") \/ Call("shutdown", "disconnect") \/ Return
  \/ Run \/ Dispatch
  \/ Read \/ Write
  \/ Restart
  \/ ModuleStep \/ Data

Spec == Init /\ [][Next]_vars

\* The loops of the calls go round, time passes, and the module works.
Fairness ==
  /\ WF_vars(Run) /\ SF_vars(BeginRun(TRUE)) /\ WF_vars(Dispatch) /\ WF_vars(Return)
  /\ WF_vars(ModuleStep)

FairSpec == Spec /\ Fairness

-----------------------------------------------------------------------------
(* Properties *)

Pieces == {"OK", "ERROR", "MODE1", "CONNECT", "CLOSED", ">", "text", "data"}

TypeOK ==
  /\ caller \in DOMAIN Goal \cup {"idle"} /\ running \in BOOLEAN
  /\ events \in Seq(Events) /\ Len(events) <= EventQueueSize
  /\ state \in States /\ timer \in Nat /\ count \in 0 .. 4
  /\ buffer \in Seq(Pieces) /\ Len(buffer) <= BufferSize
  /\ input \in Seq(Pieces) /\ Len(input) <= InputSize

\* A socket that is ready has joined the network and is in the command mode.
ReadyMeansJoined ==
  state = "Ready" => module.joined /\ module.station /\ module.mode = "command"

\* What is read from and written to a connected socket is the broker's data:
\* the module passes everything on, and no answer to a command is left over.
ConnectedMeansTransparent ==
  state = "Connected" =>
    /\ module.mode = "data" /\ module.linked
    /\ ToSet(input) \subseteq {"data"} /\ ToSet(commands) \subseteq {"data"}

\* The broker gets no commands as data, except the AT of a restarted
\* controller that does not know of the connection.
CommandsStayLocal ==
  [][module.mode = "data" /\ ModuleStep /\ Head(commands) \notin {"data", "+++"} =>
       Head(commands) = "AT" /\ state \in {"Init", "AT"}]_vars

\* Every call returns, unless reports of failures have filled the reply buffer:
\* it is not emptied before a result is found, and a full one takes no more.
CallsReturn == caller # "idle" ~> caller = "idle" \/ Len(buffer) = BufferSize
=============================================================================
