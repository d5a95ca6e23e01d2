# TLA+ specifications of libreXC

libreXC reads vehicle data with an Arduino Yun.  A sketch on the Arduino side
(`src/arduino/librexc/librexc.ino`) talks to the car through the ELM library; a
Python 2.7 daemon on the Linux side (`src/linuino`) writes what the sketch sends
to a log file, relays it to WebSocket clients, and passes the clients' commands
to the sketch.  Both sides are joined by one serial line (the tty).

This directory holds TLA+ modules of that system, TLC configurations that check
them on small instances, and proofs checked by TLAPS.

## 1. The system

| component | source | state | operations | talks to |
|---|---|---|---|---|
| main thread | `linuino/main.py` | – | starts Data and Websocket threads, *then* creates the Logger and registers the two observers; Ctrl-C | Data, Websocket, Logger |
| Data thread | `linuino/data.py` | `queue` (maxsize 100), `observers` | `run`: read a line; `add_data`: put into queue, `notify` every observer; on an exception print and sleep | tty, Logger, Websocket |
| Logger | `linuino/logger.py` | `log_file` (buffered), the log directory | open on start, `update`/`write_line`; static: list, read, remove logs by id | file system |
| WebSocket server | `linuino/websocket.py`, `security.py` | `subscribers`, state of each connection, the reactor's `threadCallQueue` | `onConnect` (authentication), `onMessage`, `onClose`, `broadcast`; `update` hands a line to the reactor with `callFromThread` | clients, Commands |
| commands | `linuino/commands.py` | – | `validate_cmd`, `execute_cmd` (logs, help), `request_cmd` (frame a command and write it to the tty) | Logger, tty |
| sketch, parser | `librexc.ino` 28–106 | `buff`, place in `sync` | `loop`, `receiveData`, `sync`, `checkPacket`, `handleData` | tty |
| sketch, handlers | `librexc.ino` 108–242 | – | one handler per command: call the ELM library, answer with a line of JSON | ELM, tty |
| configuration | `linuino/config.py`, `config.ini` | values read at import | getters | all |
| event loop (vendored) | `twisted/internet/base.py`, `posixbase.py`, `epollreactor.py` | `threadCallQueue`, heap of timed calls, the pipe that wakes it | `callFromThread`, `callLater`, `runUntilCurrent`, `timeout`, `doPoll` | all threads, connections |
| connection (vendored) | `autobahn/websocket/protocol.py`, `autobahn/twisted/websocket.py`, `twisted/internet/abstract.py`, `tcp.py` | state, handshake timer, transport buffer | handshake, frames, close, loss | event loop, WebSocket server |
| tty (vendored) | `serial/serialposix.py` | input and output of the port | `open`, `read`, `write` | Data thread, commands, sketch |
| other vendored | the rest of `twisted`, `autobahn`, `serial`; `arduino` (YunBridge), `six`, `zope`, `txaio` | | | |

Threads: the Data thread, the reactor thread (Websocket) and the main thread
share the list of observers and the `threadCallQueue`; nothing else is shared.
The Data thread reads from the tty while the reactor thread opens it again for
every command and writes to it.

### What is hard, and what makes each part correct

- **Data and main**: the thread runs before its observers exist, and the list
  grows while `notify` iterates over it; an observer's exception ends the round;
  the queue is never emptied.  Correct means: lines are logged in order and at
  most once, what is relayed is exactly the end of the log, no registered
  observer is passed over, and the thread gets back to reading.
- **WebSocket server**: lines arrive from another thread while clients log in,
  close, vanish, or send commands whose answer cannot be encoded.  Correct
  means: the subscribers are the authenticated connections; everybody sees one
  feed from joining to leaving; nothing is sent outside the open state; every
  call handed over is run.
- **Command link**: bytes get lost, the Arduino restarts within a packet, and
  the payload may look like the framing.  Correct means: in order, at most once,
  nothing invented, and the parser recovers.
- **Logs**: ids are positions in a directory that changes; names are time
  stamps; the file is buffered; the process can be killed.  Correct means: a
  file is a prefix of what its run wrote, a proper stop loses nothing, and a
  fresh id takes the log it was listed with.
- **Answers**: opening the tty flushes its input, so a command can cut or merge
  the answers to earlier ones; `tty.write` may block the reactor; answers carry
  no request id.  Correct means: what arrives is in order, damage stays with
  the answers under way and the next, everything else arrives whole, and the
  reactor gets out of the write.
- **Handlers of the sketch**: each call of the ELM may fail, within loops.
  Correct means: one truthful, well-formed answer per command, and an end.
- **Commands**: any words may come, from any client.  Correct means: what is no
  command does nothing but be answered, and only its sender can suffer from a
  command.
- **Event loop**: other threads hand over calls while it empties the queue, the
  pipe and the heap, or goes to sleep.  Correct means: it never sleeps over a
  call or a timer, and runs each once, in order, or not before its time.
- **Connection**: handshake, timer, frames, exceptions of the daemon, close and
  loss may come together.  Correct means: a client is a member from its only
  acceptance to its loss, frames are sent only in between, closing happens once.

`PROJECT.json` lists each of these hazards at its line with the properties that
look after it.

## 2. Modules

| module | what it is |
|---|---|
| `Data` | Data thread, main thread, Logger as observer; the reactor is the environment |
| `Websocket` | reactor thread with its connections; the Data thread is the environment |
| `Linuino` | both, interleaved, sharing `handed`/`ran` (the `threadCallQueue`) |
| `Relay` | abstract specification of the daemon; `Linuino` implements it |
| `CommandLink` | `request_cmd`, the serial line, the parser of the sketch |
| `CommandChannel` | abstract specification of the link; `CommandLink` implements it |
| `LogStore` | log files over several runs of the daemon, and the log commands |
| `Commands` | `onMessage`, `validate_cmd`, `execute_cmd`: what a client's message sets off |
| `Sketch` | the command handlers of the sketch over an external ELM |
| `SerialPort` | the way of an answer: request, sketch, shared tty, Data thread |
| `Reactor` | the event loop of the Websocket thread |
| `ThreadCalls` | abstract specification of `callFromThread`; `Reactor` implements it, `Websocket` uses it |
| `Connection` | one WebSocket connection from accept to loss |
| `ConnectionLife` | abstract life of a connection; `Connection` implements it, and so does each client of `Websocket` |
| `MCCommandLink`, `MCLogStore`, `MCCommands` | values for TLC |
| `LinuinoProofs` | theorems and proofs about `Data`, `Websocket` and `Linuino` |
| `CommandLinkProofs`, `ReactorProofs`, `CommandsProofs`, `ConnectionProofs`, `LogStoreProofs`, `SketchProofs`, `SerialPortProofs` | those about the module of that name |

Operators named `...` with the comment "Mutant:" are faulty variants of the
definition that follows them.  They are used by no specification; each one
stands for a plausible bug and violates the property that guards against it.

### Data

A line is its number: the n-th line read is n.  `thread` is where `Data.run`
stands: `open` (serial.Serial), `read` (readline), `put` (queue.put, blocks
when full), `notify` (with `next`, the index of the list iterator), `sleep`
(after an exception), `dead` (serial.Serial raised; it stands outside the try).
`main` is where `main()` stands.  `logFile = "failed"` is the Logger whose
`open` raised `IOError`: every `update` then raises `AttributeError`.  Any write
to the log may fail as well.  `notify` reads the list at each step, as Python's
list iterator does, so observers added during a round are seen in it.

`queued` only counts: items never leave the queue.

### Websocket

The reactor alternates between `runUntilCurrent` (`RunCalls`: how many calls
are in the queue now; `RunCall`: run one) and its connections.  A connection is
`new` (handshake pending), `open`, `dropped` (closed, after a close frame, a
protocol error or a handshake refused after `add_client`; `connectionLost` is
still to come), `denied` (401), or `lost`.
`add_client` and what `succeedHandshake` makes of the handshake happen in one
reactor call and are one action: the connection is open, or, when the client
offers a compression extension whose parameters do not parse (`offer`), it is
closed with an HTTP error and stays a subscriber until it is lost (`dropped`).  `subscribers` is a set: `add_client` never adds twice, and the
order is not observable.  `sent[c]` is what `sendMessage` wrote to the
transport.  A message is a line or `Reply`; `NonAscii` are lines on which
`json.encode("utf-8")` raises (a Python 2 `str` is decoded as ASCII first).

`feed` and `joined` are history variables.

### Linuino and Relay

`Linuino` instantiates both modules over shared variables.  The reactor starts
after the main thread started it.  `DataSpec` and `WebsocketSpec` say that the
environment each module assumes is what the other one really does.  `Relay` has
a log, a pointer up to which it was published, and members; the refinement
mapping counts a line as published when the reactor has run its call, or when
its round ended before the Websocket had been registered (`PassOver`, possible
only until the daemon is `live`).

### CommandLink and CommandChannel

Bytes are 0..255.  `wire` are the bytes written and not yet read; `synced` is
`i` in `sync()`; `buff` holds the bytes of the packet.  `Request` covers every
outcome of `request_cmd`: written, or an exception (value not a byte, port
gone) after which nothing has been written.  `LoseBytes` removes one run of
bytes of any length from the wire.  `Restart` is the moment at which `setup()`
returns: it resets the parser and drops any first part of the bytes not read,
that is the receive buffer and what was written while the Arduino started.
`toll` is a history: what the bytes lost so far make in packets.
The sketch runs its handler between two packets; it neither reads nor changes
the parser's state meanwhile, so the handler is just an entry in `executed`; a
receive buffer that overruns while a handler runs is a `LoseBytes`.

### LogStore

`files` is what `os.listdir` returns (any order, as a directory has none),
`content` the disk, `buffer` the stdio buffer of `log_file`, at the granularity
of lines.  `interrupt` is Ctrl-C: `sys.exit` closes the file and thereby
flushes it.  `Crash` is a kill or a power failure, which may also cut the end of
the file being written; older files are assumed to be safely on the disk.
The histories are kept per run and never reset: `stamp[r]` is the file run `r`
opened, `written[r]` what it wrote to it, `clean` the runs stopped by Ctrl-C.  So
a log emptied by a later start under the same time stamp does show:
`CleanStopKeepsEverything` has to name it as an exception.
`last` records the last command, the id it was given and the file it took;
`listing` the last answer to `available_logs`, which every client receives.

### Commands

A message is the sequence of its words; the first two matter.  `validate_cmd`
returns what the code returns or raises, including the exception that building
an error text raises (a missing word, or one that is not ASCII).  `packets` is
what reaches the tty, `removed` the ids `remove_log` is called with, `feed` what
is broadcast.  Whether an answer can be encoded is a choice, except where the
code decides it: `help` is ASCII, `delete_log` returns `None`.

### Sketch

`cmd` is the command being handled and `at` where its loop stands.  One call of
the ELM is one step and may fail.  An answer is a sequence of tokens, since
braces, brackets and commas are what can go wrong.  `late` says that the ELM was called
again after it had failed, for the same command.

### SerialPort

Byte `i` of the answer to command `k` is `<<k, i>>`.  `tty` is the input of the
port that nobody has read.  The Data thread reads a byte at a time (`Select`,
`Read`, as `readline` does); `Flush` of the reactor thread may fall between the
two, and the read then raises (`ReadNothing`), as it does when `select` or
`os.read` fails (`ReadFails`).  The beginning of the line is lost then, and the
thread sleeps.  A complete line goes through `add_data` before the next is read:
`Put` blocks for ever when the queue is full (`Full`), and `notify` may end in an
observer's exception and a sleep.  `Write` waits while the buffers to the sketch
are full.  `hit` records the commands of whose answers bytes were thrown away,
by a flush or with a line that readline gave up.

### Reactor and ThreadCalls

`pc` is where the loop stands; one step is what is atomic against the other
threads.  `callFromThread` is two steps, append and wake.  `pipe` counts bytes.
A timed call has the list it is in, its flag, its time and its delay; the heap
is a set of which the earliest is taken.  `UserCode` is whatever a call or a
servant of a descriptor may do with timed calls: nothing, make one, cancel one,
move one.  The daemon's own code never moves one, autobahn cancels and makes
them.  `_cancellations` can drift from the number of cancelled calls (a call
cancelled before it came into the heap); it only decides when the heap is
purged.  Signals are `PollInterrupted`.

### Connection and ConnectionLife

What arrives are units (halves of a request, frames), what is sent are
responses and frames.  `pc` is where `dataReceived` stands: `handshake` means
that frames which came with the request are consumed within `succeedHandshake`,
and thus within the callback of `onConnect`, whose errback catches what they
raise.  `STATE_CLOSING` is passed through within one step, as the daemon never
starts a closing handshake itself.  `RefuseOffer` is the part of
`succeedHandshake` that refuses a client which `onConnect` has already added.  In
`ConnectionLife` this is `AcceptInVain`: a member from its acceptance to its loss
like any other, but never open.  `transport` is `up`, `losing` (draining),
`aborting` or `lost`.

## 3. Runs

| run | instance | shows |
|---|---|---|
| `data` | queue of 3, 4 lines | the Data thread returns to reading |
| `websocket` | 2 clients, 4 lines (one not ASCII), 2 replies | every call handed over runs |
| `linuino` | queue of 4, 5 lines (one not ASCII), 2 clients, 1 reply | the components fit together; the log is what was handed on, in order; no observer is skipped; one feed for all clients; who a broadcast reaches; each connection's life; refinement of `Relay`; lines reach clients |
| `command_link` | 3 requests out of 4 commands, one loss of any run of bytes or one restart with any part of what had arrived gone | refinement of `CommandChannel`, recovery with no more commands lost than `toll` |
| `log_store` | 2 names, 3 starts, 3 lines, ids -1..3 | files are prefixes, what ends a cleanly stopped log, fresh ids, other logs left alone |
| `reactor` | 2 threads, 2 timed calls, pipe of 2 bytes, reads of 1, 2 calls, clock 0..2 | no sleep over a call or a timer, timers run in time or not at all, refinement of `ThreadCalls` with its fairness |
| `serial_port` | 4 commands, answers of 3 bytes, room for 1 command on the way, queue of 2, 2 failing reads | order, extent of the damage, arrival of the rest, return of the write |
| `connection` | 4 units from the client (a request may carry a broken offer), 2 broadcasts | closed once, frames only while open, refinement of `ConnectionLife`, slow and gone clients |
| `sketch` | pids 0..3, 2 commands | one truthful answer per command, JSON, end of the loops |
| `commands` | 2 clients, 2 messages over 11 words | bad messages are harmless, only the sender leaves, requests are what the link carries |
| `data_backlog`, `serial_port_lines` | as `data`, `serial_port` | see "Disagreements" |

The type invariants of `Commands`, `Connection`, `LogStore`, `SerialPort` and
`Sketch` are conjuncts of `RequestsFitTheLink`, `ClosedOnce`, `DiskIsPrefix`,
`AnswersInOrder` and `OneAnswerEach`, which are checked and proved; that of
`CommandLink` is checked and proved; those of `Data`, `Websocket` and `Reactor`
are proved.

Bounds and why they suffice.  In `data` there is one line more than the queue
holds, so the blocked thread is reached; five places of registration against
four lines, and in `linuino` against five, cover every way the two threads can interleave around a round of
`notify`.  In `websocket` and `linuino` two clients tell "both see the same"
from "one sees it".  The queue of 4 lets four lines through, of which three can
be encoded, so that a line can be missing between two that arrive and a line
follows the one that raises; the fifth blocks the Data thread.  In
`command_link` the run that is lost may be anything from one byte to all three
packets, so that a loss within one packet, across a border, and of a packet and
its neighbours all occur, with a packet left to recover with; the parameters 17 and 34 are the
framing bytes themselves and 300 is no byte.  `log_store` needs two names and
three starts to use a name again after another one was in use.  In `reactor`
the daemon has one thread that hands over calls; two are checked because a
shortcut that wakes the reactor only for the first call in the queue would go
unnoticed with one.  A pipe of two bytes of which one read takes one covers the
full pipe and the byte left over; two timed calls overtake each other; with
`MaxCancelled = 0` the heap is purged as soon as it may be.  In `serial_port`
an answer of three bytes can be hit before, within and at its end, and four
commands give one that is hit, one it is joined to and one that must be intact
while another waits to be written.  A queue of 2 blocks the reader on the third
line, two failing reads can hit two different lines, or one line and what is left
of it.  The queue plays no part in `serial_port_lines`.  In `connection` four units are a split
request and two frames, or a request and three.  In `sketch` the loop of
`read_all` sees pids absent, present and failing in every order of four.

`CHECK_DEADLOCK FALSE` is set where the system does stop: the Data thread
blocks on its full queue, a lost connection is over, and the bounds on lines,
requests, replies and starts end the rest.  `reactor` is checked for deadlock,
since its loop never ends.

### Fairness

- `Data`: the main thread and the Data thread are scheduled by the interpreter,
  so their non-blocking steps are weakly fair.  `ReadLine` and `ReadError` are
  not: nothing obliges the Arduino to send, or the port to fail.
- `Websocket`: the reactor thread is scheduled, so `RunCalls` and `RunCall` are
  weakly fair.  Clients owe nothing: connecting, sending, closing and vanishing
  are not fair.
- `Linuino`: the fair parts of both.
- `CommandLink`: the sketch never stops reading (weak fairness of `Receive`);
  this assumes that the calls into the ELM library return.
- `Reactor`: the loop is scheduled and a poll returns when it has reason to; a
  thread within `callFromThread` gets to its end; time passes.  No descriptor is
  obliged to become ready, and no call to come.
- `SerialPort`: both threads and the sketch are scheduled.  No client has to
  send commands, and no read has to fail: `ReadFails` is not among the fair steps
  (`ReaderGoesOn`).
- `Connection`: the reactor processes what it has received, its timers fire, and
  a connection that is to be dropped is dropped.  The client owes nothing; that
  it goes on reading is a premise of `ClosedIsLost` where it is needed.
- `Sketch`: the processor runs nothing else, and calls of the ELM return.

### Disagreements between the code and what it says

Two runs check one statement of the repository each and end in a
counterexample.

| run | statement | what the code does |
|---|---|---|
| `data_backlog` | `linuino/README.md:6`: updates log files "accordingly to data sent by the Arduino" | the queue is never emptied; on line 101 `put` blocks for ever |
| `serial_port_lines` | the same line | `request_cmd` opens, and thereby flushes, the tty while the Data thread has the beginning of an answer: the next answer is joined to it and both are logged as one line (`OneAnswerPerLine`).  Only `request_cmd` can do that: `Data.run` opens the port before it has read anything, and a read that fails throws the beginning away |

Others are part of the models, and the passing properties say what holds
instead:

| statement | what the code does | see |
|---|---|---|
| `librexc.ino:175`: `make_json("read_all", ...)` | the successful answer of `read_all` lacks its closing brace, and only that | `Sketch!AnswersAreJson` |
| `commands.py:106`: "is not a valid parameter" | a missing parameter is answered "list index out of range" | `Commands!parameterError`, `RejectedIsHarmless` |
| `commands.py:84`: `None` if no parameter is needed | it is -1, so `read_pid -1` goes out as without a parameter | `Commands!RequestsFitTheLink` |
| `commands.py:138`: "Logfile was removed successfully." | not returned; `broadcast(None)` raises and the sender is disconnected | `Commands!Encodable`, `OnlyItsSenderLeaves` |
| `logger.py:53`: "a unique id" | ids are positions; after a delete an id means another log | `LogStore!FreshIdsAreRight` |
| `logger.py:101`: "Log with id {} does not exist!" | id 0 and negative ids count from the end | `LogStore!FileOf` |
| `logger.py:11`: "Generates a new file-name" | the same time stamp empties the earlier log | `LogStore!OthersUntouched` |
| `logger.py:35`: "Writes a given string as a new line to the Logger's log" | lines stay in a buffer that is not flushed while the daemon runs | `LogStore!DiskIsPrefix` |
| `autobahn/websocket/protocol.py:3325`: the error response is sent "During opening handshake" | it is also sent into the open stream, when a frame that came with the request makes the daemon raise | `Connection!FramesOnlyWhileOpen` |

## 4. Proofs

`tlapm` proves every obligation of the eight `...Proofs` modules.  The theorems
hold for all values of the constants that satisfy the named assumptions
(`DataAssumption`, `CommandLinkAssumption`, `XorAssumption`,
`WebsocketAssumption`, `ReactorAssumption`, `CommandsAssumption`,
`ConnectionAssumption`, `LogStoreAssumption`, `SketchAssumption`,
`SerialPortAssumption`, `LinuinoAssumption`; the last is that of `Data` and of
`Websocket`, which is shown).

**Data.** `DataTypeOK`, `HandedIsEndOfLogOfData`, `QueueCapsEverythingHolds`,
`NoObserverSkippedOfData` all rest on the inductive invariant `DataInv`.  The
properties themselves are not inductive: that what is handed on is the end of
the log needs to know that the logger is registered before the socket and where
in the round the iterator stands (`Registration`, `RoundOfNotify`), and that the
line in hand is newer than anything logged (`FreshLine`).

**CommandLink.** `CommandLinkTypeOK` and `InOrderWhenIntactHolds`.  The
strengthening says, for an undamaged line, that the bytes on the wire are
exactly the rest of the packets written and not executed (`WireIsRest`), that
what the parser holds is the beginning of the next one (`BuffIsPacket`), and
that only commands of the table have been written (`OnlyCommands`).  So sync
bytes inside the payload can never shift the parser: it reads by length.
`XorByte` is an arbitrary function from bytes to bytes here.

`ResynchronisesHolds` is about the damaged line, for any number of losses and
restarts, of runs of any length, with no assumption but those about the
constants: no more commands are missing than the bytes that vanished make
packets, complete or begun, and one more for each loss and restart (`toll`).
`Recovering` gives every byte on the line its place in the stream of all packets
written, with gaps no longer than the toll between two bytes covers (`Route`,
`Covers`), and says what the parser may
still get wrong where it stands (`Standing`): nothing (`InStep`), the packet it
is in (`WithinPacket`), or that one and the next (`Astray`).  A loss or a restart
moves it from one to the other, and its toll pays for the packets it skips and
for the one it was in (`JumpStanding`, `RestartStanding`); reading a packet to its end moves it back,
because the command byte and the end bytes are never sync bytes, so that a parser
that looks for them has none counted when the packet ends (`ReadWithin`), and
one that reads data then is done with its six bytes within the next packet
(`ReadAstray`).  Neither the checksum nor the values of
parameters matter for this: a packet misread may execute a command nobody sent,
which only lowers the count of those missing; that this does not happen after
one loss is `ChannelSpec`.

**Websocket.** `WebsocketTypeOK`, `BatchInQueueHolds`,
`SubscribersAreConnectionsHolds`, `EveryClientSeesTheFeedOfWebsocket` and
`BroadcastReachesTheOpenOfWebsocket`, for any set of connections.  The invariant
`WebsocketInv` is built in layers: the types hold only together with
`BatchInQueue`, because `RunCall` takes `handed[ran + 1]`; one feed for all needs
`SubscribersAreConnections`, because `broadcast` goes through the subscribers
and would otherwise pass over an open connection; and the last one is an action
property that needs both.

`EachLivesOfWebsocket` and `LinesAreCallsHolds` show that the server keeps to
`ConnectionLife` and uses the reactor as `ThreadCalls` promises.

**Reactor.** `NoLostWakeupHolds` for any number of threads and any pipe.  What
makes it inductive is `WakeInv`: not only at the poll, but from `Rewake` on,
there is a byte in the pipe or a thread about to write one as long as a call is
in the queue, and nothing on that way reads the pipe.  `CallsRunOnceInOrder` is the refinement of
`ThreadCalls` (safety part) from `CallInv`: the queue is the end of what was
handed over.  `TimelyOrNotAtAllHolds` needs that the clock a round goes by is
not ahead of the real one, and that a call in the heap is not called
(`TimerInv`).  `NoOversleepHolds` goes from there: what `timeout` computes is
the earliest time of the heap, into which every new call has been put, and no
step touches the timed calls while the loop sleeps.  `ReactorTypeOK` needs all of them, since the pending calls have
to be a non-empty set of times where `timeout` takes the earliest.

**Commands.** `RequestsFitTheLinkHolds`, `RejectedIsHarmlessHolds` and
`OnlyItsSenderLeavesHolds`, for any clients and any messages over the words.
A message is one action, so `RequestsFitTheLink` is inductive as it stands; the
proof goes through the reactions of the handlers one by one.

**Connection.** `ClosedOnceHolds`, `FramesOnlyWhileOpenHolds` and
`LifeSpecHolds` rest on `CloseInv` and two layers on it.  None of them is
inductive: that a close frame is written once needs that a connection whose
transport is gone is in state closed (`UpOrClosed`), and that no data frame
follows it needs what the written frames say of the state (`FrameInv`).  The
handshake needs that the end of the request, once found, lies in the data
received (`RequestInData`).  That a refused offer leaves a member that is never
open is one of the cases of `LifeSpecHolds`.

**LogStore.** `DiskIsPrefixHolds`, `CleanStopKeepsEverythingHolds`,
`FreshIdsAreRightHolds` and `OthersUntouchedHolds`, for any names, any number
of starts and any crash.  `StoreInv` keeps track of the file of the run in
hand (`Running`): whether a directory entry leads to it, that it is not among those
closed by a clean stop, and that while it is linked what is on disk and what is
in the buffer are together all that was written (`Whole`).  Every text on disk
begins what the last run under its name wrote (`AllBegin`), also where
`remove_log` has taken the entry away and the id has been handed out again; for
the runs stopped by Ctrl-C it is all of it (`Kept`).  Neither is inductive without
`Runs`: runs to come have opened and written nothing, so that a start can only
take the place of an earlier run under the same name (`StartedRuns`).

**Linuino.** `ComponentsSpecHolds` and `RelaySpecHolds`: the theorem about the
whole daemon.  `LinuinoProofs` holds the proofs about `Data` and `Websocket` as
well (as `D!` and `W!`, the instances `Linuino` is made of), each about its
component within its own specification, and `LinuinoInv` is the two inductive
invariants together.  They have to be taken together, because each side's step
is a step of its module only by the other side's invariant: the reactor takes a
call that is there (`BatchInQueue`), and the line handed over is newer than the
one before (`HandedIsEndOfLog`).  What was proved of the two components
within their own specifications follows for the daemon (`HandedIsEndOfLogHolds`,
`NoObserverSkippedHolds`, `EveryClientSeesTheFeedHolds`,
`BroadcastReachesTheOpenHolds`, `EachLivesHolds`).  That the daemon implements `Relay` then goes
action by action; `CallHasItsTurn` is the heart of it: the line the reactor
broadcasts is the first of the log that has not had its turn.

**Sketch.** `OneAnswerEachHolds`, `AnswerTellsTheTruthHolds` and
`AnswersAreJsonHolds`, for any number of pids and commands.  What an answer
holds together is said of pieces of text: how many braces and brackets more a
piece opens than it closes, which token it begins and which it ends with.
Pieces whose ends fit make a piece, and the excesses add up (`Join`, from
`ExcessOfConcat`, which counts tokens), and the pids told of by two texts are
those told of by the two together (`TellsOfConcat`).  `SketchInv` then says which
piece `data` is at every turn of the two loops (`Partial`), and that while a
command is in hand no call of the ELM has failed unless the loop has seen it
(`Loops`).  For the answer of `read_all` it comes out that one closing brace is
missing, not more.

**SerialPort.** `AnswersInOrderHolds` and `DamageIsLocalHolds`, for answers of
any length, any number of commands and any size of the buffers.  Both need to know
the byte the sketch prints next, which the commands still on the way determine
(`Queue`), and reason about what is to come: the input of the port with that
byte at its end (`Coming`).  Every step is one of five kinds (`KindsOfStep`):
nothing moves, all the input is thrown away, one byte is read, the beginning of a
line is given up, one byte is printed.
`Order` adds to `AnswersInOrder` that the next byte comes after everything that
arrived; without it a line could be repeated.  `DamageIsLocal` looks at complete
lines only, so the invariant has to say of the incomplete one that it is the
beginning of the answer whose next byte is next (`Clean`), or holds bytes of an
answer that was hit and none from far away (`Damaged`); it stays so because a
flush leaves no gap but the one it makes (`NoGap`), and because the rest of a
line that a failing read gave up belongs to an answer readline had bytes of, or
to one that was hit before (`Accounted`).

**Only model-checked**: liveness (`BackToReading`, `EveryCallRuns`,
`LinesReachClients`, `SentIsExecuted`, `EveryTimedCallEnds`, the fair part of
`ThreadCallsRun`, `EveryAnswerArrives`, `ReactorReturns`, `HandshakeEnds`,
`ClosedIsLost`, `HandlerEnds`), which is out of this prover's reach; the
refinement `ChannelSpec`.  It holds for one loss or restart and the real
exclusive or, and where a command stands among those sent (`Position`) is
defined by recursion over the commands executed, so its proof would be an
induction over data.

## 5. What the models leave out

- Text: lines, JSON and error messages are numbers or `Reply`.
- `ChannelSpec` promises something for one damage only.  Two runs lost in the
  right places can join the halves of two packets into a command that was never
  sent (`<<4, 34>>` without its parameter byte, followed by a packet without its
  first bytes, is the packet of `<<4, 38>>`), so `MaxDamage = 1` is part of the
  promise, and not only a bound.
- How fast time passes on the Arduino: the run that is lost, and what a restart
  loses, may have any length, so neither the size of the receive buffer nor the
  time `setup()` takes matters.
- Which of the hazards of the vendored event loop the daemon can meet.  `Reactor`
  lets the pipe of the waker run full; with the queue that nobody empties the
  Data thread hands over about a hundred lines in all, so that here neither the
  pipe nor the `threadCallQueue` can grow large.
- Corrupted (as opposed to lost) bytes: an XOR byte and three end bytes detect
  single-bit errors by construction.
- I/O errors of `os.remove`; entries of the log directory that
  are not files.
- In `Websocket` a connection's handshake is one step; its parts, its timer and
  input that comes with the request are in `Connection`.
- In `SerialPort` the commands reach the sketch undamaged; damage is in
  `CommandLink`.
- `Connection` has no automatic pings and `failByDrop`, the defaults that
  `LibreSocketFactory` leaves; no fragmented messages (a message is one unit), no
  compression, no flash policy.  Nothing bounds the transport's buffer for a
  client that does not read, so there is nothing to state about it.
- `Reactor` has neither the shutdown events nor the thread pool; the daemon
  stops by `sys.exit` in the signal handler of the main thread (`LogStore`
  `interrupt`), without stopping the reactor.

### Not modelled

`src/` is about two hundred thousand lines, of which the program itself is less
than one thousand: `linuino/*.py` and the sketch.  All of these that change state are
modelled.  The rest is vendored: complete copies of Twisted (mail, news, IRC,
FTP, DNS, SSH, AMP, web, ...), Autobahn (WAMP, the client side) and pySerial,
most of which the daemon never imports.  Modelled of them is what the daemon
runs through: the event loop, a server connection, and the tty.  So the modelled
share of all lines is small and cannot become large without modelling code that
has no part in this system.  Left out as well: configuration (values read at
import, here CONSTANTS), `reset_serial.py`, the CMake build, and the YunBridge
client, which only a commented-out `run` used.

## 6. Plan

1. *(done)* `Data`, `Websocket`, `Linuino`/`Relay`, `CommandLink`/`CommandChannel`, `LogStore`; proofs of `Data`, `CommandLink`, `Websocket`.
2. *(done)* `Commands`, `Sketch`, `SerialPort`, `Reactor`/`ThreadCalls`, `Connection`/`ConnectionLife`; proofs of `Reactor`, and of `Websocket` against the abstract specifications.
3. *(done)* Proofs of `LogStore`, `Connection` (with `LifeSpec`) and `Commands`.
4. *(done)* Proofs of `NoOversleep` and of `Linuino` (`ComponentsSpec`, `RelaySpec`).
5. *(done)* Proofs of `Sketch` and of `SerialPort`; the proofs of the daemon and its two components in one module.
6. Proofs left: `ChannelSpec` of `CommandLink`, which needs the exclusive or of the packets and another definition of `Position`.
