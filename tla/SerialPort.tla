------------------------------ MODULE SerialPort ------------------------------
(***************************************************************************)
(* The way of an answer: request_cmd writes a command to the tty, the      *)
(* sketch answers it with a line, Data reads the line                      *)
(* (linuino/commands.py, linuino/data.py, serial/serialposix.py,           *)
(* librexc.ino).                                                           *)
(*                                                                         *)
(* The Data thread keeps the port open and reads it byte by byte.  The     *)
(* reactor thread opens the same port again for each command, which throws *)
(* away the input that nobody has read yet, whoever it was meant for.  A   *)
(* line goes through add_data before the next one is read: the thread may  *)
(* wait in Queue.put for ever, or an observer may raise (module Data).     *)
(*                                                                         *)
(* Command k is the k-th one written, and <<k, i>> is byte i of its        *)
(* answer; the last byte is the newline.  The line from the daemon to the  *)
(* sketch loses nothing here; module CommandLink is about that.            *)
(***************************************************************************)
EXTENDS Naturals, Sequences, SequencesExt, FiniteSets

CONSTANTS AnswerLen,   (* bytes of an answer, newline included               *)
          WireSize,    (* commands that fit into the buffers to the sketch   *)
          QueueSize,   (* Queue.Queue(maxsize=...): 100 in the code          *)
          MaxCommands, (* bound: commands of the clients                     *)
          MaxFailures  (* bound: reads that fail                             *)

ASSUME SerialPortAssumption ==
  /\ AnswerLen \in Nat \ {0} /\ WireSize \in Nat \ {0}
  /\ QueueSize \in Nat \ {0}
  /\ MaxCommands \in Nat /\ MaxFailures \in Nat

VARIABLES
  reader,    (* where Data.run stands, see Place                             *)
  partial,   (* bytes of the line readline has got so far                    *)
  lines,     (* lines handed to add_data; nothing takes them from the queue  *)
  failures,  (* reads that failed so far                                     *)
  tty,       (* input of the port nobody has read                            *)
  requester, (* where request_cmd stands: "idle", "open", "flush" or "write" *)
  written,   (* commands written so far                                      *)
  wire,      (* commands written that the sketch has not read                *)
  answering, (* the command the sketch works on, 0 if none                   *)
  printed,   (* bytes of its answer the sketch has printed                   *)
  hit        (* history: commands of whose answers bytes were thrown away    *)

readerVars    == <<reader, partial, lines, failures>>
requesterVars == <<requester, written>>
sketchVars    == <<answering, printed>>
vars == <<readerVars, tty, requesterVars, wire, sketchVars, hit>>

Place   == {"open", "select", "read", "put", "notify", "sleep", "dead"}
Command == 1..MaxCommands
Byte    == Command \X (1..AnswerLen)

Answer(k)     == [i \in 1..AnswerLen |-> <<k, i>>]
IsNewline(b)  == b[2] = AnswerLen
CommandsOf(s) == {b[1] : b \in ToSet(s)}

TypeOK ==
  /\ reader \in Place
  /\ partial \in Seq(Byte) /\ tty \in Seq(Byte)
  /\ \A i \in 1..Len(partial) : ~IsNewline(partial[i])
  /\ lines \in Seq(Seq(Byte)) /\ failures \in 0..MaxFailures
  /\ requester \in {"idle", "open", "flush", "write"}
  /\ written \in 0..MaxCommands
  /\ wire \in Seq(Command) /\ Len(wire) <= WireSize
  /\ answering \in 0..MaxCommands /\ printed \in 0..AnswerLen - 1
  /\ hit \subseteq Command

Init ==
  /\ reader = "open" /\ partial = <<>> /\ lines = <<>> /\ failures = 0
  /\ tty = <<>> /\ hit = {}
  /\ requester = "idle" /\ written = 0 /\ wire = <<>>
  /\ answering = 0 /\ printed = 0

-----------------------------------------------------------------------------
(* Opening a port that is open already shares its input, and empties it.     *)
reset_input_buffer == tty' = <<>> /\ hit' = hit \union CommandsOf(tty)

-----------------------------------------------------------------------------
(* Data.run *)

(* serial.Serial stands outside the try: when it raises, the thread ends.    *)
OpenPort ==
  /\ reader = "open"
  /\ \/ reader' = "select" /\ reset_input_buffer
     \/ reader' = "dead" /\ UNCHANGED <<tty, hit>>
  /\ UNCHANGED <<partial, lines, failures, requesterVars, wire, sketchVars>>

(* Mutant: the port is opened with a timeout. *)
SelectTimesOut ==
  /\ reader = "select"
  /\ IF tty # <<>>
     THEN reader' = "read" /\ UNCHANGED <<partial, lines>>
     ELSE /\ partial # <<>>
          /\ partial' = <<>>
          /\ lines' = Append(lines, partial)
          /\ UNCHANGED reader
  /\ UNCHANGED <<tty, failures, requesterVars, wire, sketchVars, hit>>

Select ==
  /\ reader = "select"
  /\ tty # <<>>
  /\ reader' = "read"
  /\ UNCHANGED <<partial, lines, failures, tty, requesterVars, wire, sketchVars,
                 hit>>

(* read raises, readline loses the beginning of the line, and Data.run prints *)
(* the exception and sleeps.                                                 *)
GiveUp ==
  /\ reader' = "sleep"
  /\ partial' = <<>>
  /\ hit' = hit \union CommandsOf(partial)
  /\ UNCHANGED <<lines, tty, requesterVars, wire, sketchVars>>

(* The input may be gone by now: os.read returns nothing. *)
ReadNothing ==
  /\ reader = "read"
  /\ tty = <<>>
  /\ GiveUp
  /\ UNCHANGED failures

(* select or os.read fails, with anything but EAGAIN. *)
ReadFails ==
  /\ reader \in {"select", "read"}
  /\ failures < MaxFailures
  /\ failures' = failures + 1
  /\ GiveUp

Read ==
  /\ reader = "read"
  /\ tty # <<>>
  /\ tty' = Tail(tty)
  /\ IF IsNewline(Head(tty))
     THEN /\ lines' = Append(lines, Append(partial, Head(tty)))
          /\ partial' = <<>>
          /\ reader' = "put"
     ELSE /\ partial' = Append(partial, Head(tty))
          /\ reader' = "select"
          /\ UNCHANGED lines
  /\ UNCHANGED <<failures, requesterVars, wire, sketchVars, hit>>

(* Queue.put waits while the queue is full, and every line before this one   *)
(* is still in it.                                                           *)
Full == reader = "put" /\ Len(lines) > QueueSize

Put ==
  /\ reader = "put"
  /\ ~Full
  /\ reader' = "notify"
  /\ UNCHANGED <<partial, lines, failures, tty, requesterVars, wire, sketchVars,
                 hit>>

(* An observer may raise: run prints the exception and sleeps. *)
notify ==
  /\ reader = "notify"
  /\ reader' \in {"select", "sleep"}
  /\ UNCHANGED <<partial, lines, failures, tty, requesterVars, wire, sketchVars,
                 hit>>

Sleep ==
  /\ reader = "sleep"
  /\ reader' = "select"
  /\ UNCHANGED <<partial, lines, failures, tty, requesterVars, wire, sketchVars,
                 hit>>

-----------------------------------------------------------------------------
(* Commands.request_cmd, in the reactor thread *)

(* A client sent a command for the Arduino. *)
request_cmd ==
  /\ requester = "idle"
  /\ written < MaxCommands
  /\ requester' = "open"
  /\ UNCHANGED <<readerVars, tty, written, wire, sketchVars, hit>>

(* The port cannot be opened: the exception is printed. *)
Open ==
  /\ requester = "open"
  /\ requester' \in {"flush", "idle"}
  /\ UNCHANGED <<readerVars, tty, written, wire, sketchVars, hit>>

Flush ==
  /\ requester = "flush"
  /\ requester' = "write"
  /\ reset_input_buffer
  /\ UNCHANGED <<readerVars, written, wire, sketchVars>>

(* Mutant: write returns while the buffers are full. *)
WriteDrops ==
  /\ requester = "write"
  /\ requester' = "idle"
  /\ written' = written + 1
  /\ wire' = IF Len(wire) < WireSize THEN Append(wire, written + 1) ELSE wire
  /\ UNCHANGED <<readerVars, tty, sketchVars, hit>>

(* There is no timeout: write waits until the sketch has made room. *)
Write ==
  /\ requester = "write"
  /\ Len(wire) < WireSize
  /\ requester' = "idle"
  /\ written' = written + 1
  /\ wire' = Append(wire, written + 1)
  /\ UNCHANGED <<readerVars, tty, sketchVars, hit>>

-----------------------------------------------------------------------------
(* The sketch reads a command only when it has answered the one before. *)

(* Mutant: the sketch waits until its last answer has been read. *)
ReceiveDataWaits ==
  /\ answering = 0
  /\ wire # <<>>
  /\ tty = <<>>
  /\ answering' = Head(wire)
  /\ wire' = Tail(wire)
  /\ UNCHANGED <<readerVars, tty, requesterVars, printed, hit>>

ReceiveData ==
  /\ answering = 0
  /\ wire # <<>>
  /\ answering' = Head(wire)
  /\ wire' = Tail(wire)
  /\ UNCHANGED <<readerVars, tty, requesterVars, printed, hit>>

(* Mutant: an answer that is complete is printed once more. *)
respondTwice ==
  /\ answering # 0
  /\ IF printed + 1 = AnswerLen
     THEN /\ tty' = Append(tty, <<answering, printed + 1>>)
                    \o Answer(answering)
          /\ answering' = 0 /\ printed' = 0
     ELSE /\ tty' = Append(tty, <<answering, printed + 1>>)
          /\ printed' = printed + 1
          /\ UNCHANGED answering
  /\ UNCHANGED <<readerVars, requesterVars, wire, hit>>

respond ==
  /\ answering # 0
  /\ tty' = Append(tty, <<answering, printed + 1>>)
  /\ IF printed + 1 = AnswerLen
     THEN answering' = 0 /\ printed' = 0
     ELSE printed' = printed + 1 /\ UNCHANGED answering
  /\ UNCHANGED <<readerVars, requesterVars, wire, hit>>

ReaderGoesOn  ==
  OpenPort \/ Select \/ ReadNothing \/ Read \/ Put \/ notify \/ Sleep
ReaderNext    == ReaderGoesOn \/ ReadFails
RequesterNext == Open \/ Flush \/ Write
SketchNext    == ReceiveData \/ respond

Next == ReaderNext \/ request_cmd \/ RequesterNext \/ SketchNext

Spec == Init /\ [][Next]_vars

(* The two threads are scheduled, and the sketch gets on with its work: the  *)
(* calls of the ELM library return.  Nobody is obliged to send commands, and *)
(* no read has to fail.                                                      *)
FairSpec ==
  Spec /\ WF_vars(ReaderGoesOn) /\ WF_vars(RequesterNext) /\ WF_vars(SketchNext)

-----------------------------------------------------------------------------
Before(b, c) == b[1] < c[1] \/ (b[1] = c[1] /\ b[2] < c[2])

InOrder(s)     == \A i, j \in 1..Len(s) : i < j => Before(s[i], s[j])
Precedes(s, t) == \A i \in 1..Len(s), j \in 1..Len(t) : Before(s[i], t[j])

(* Whatever is cut out of it, what arrives is in the order in which the      *)
(* commands were written, each byte at most once (commands.py 176-184,       *)
(* data.py 23-37, serialposix.py 468-512); and readline never goes past the  *)
(* end of a line, nor write past what the buffers hold.  It does not say     *)
(* that each command has a line: where an answer was thrown away whole, or a *)
(* command never written, a client that counts lines is off by one.          *)
AnswersInOrder ==
  /\ TypeOK
  /\ LET all == lines \o <<partial, tty>>
     IN  \A i \in 1..Len(all) :
           /\ InOrder(all[i])
           /\ \A j \in i + 1..Len(all) : Precedes(all[i], all[j])

(* Opening the port and a read that fails spoil the answers under way and    *)
(* the one after, no more: a line that is not an answer just as the sketch   *)
(* printed it has bytes of an answer in it of which others were thrown away, *)
(* and is the answer to no other command than that or the next               *)
(* (serialposix.py 314, 488-511, data.py 26-37).                             *)
DamageIsLocal ==
  \A i \in 1..Len(lines) :
    \/ \E k \in Command : lines[i] = Answer(k)
    \/ /\ CommandsOf(lines[i]) \intersect hit # {}
       /\ \A k \in CommandsOf(lines[i]) :
            k \in hit \/ k - 1 \in hit

(* A command gets its answer, whole, unless bytes of it or of the one before *)
(* were thrown away, the port was missing when the Data thread started, or   *)
(* the queue is full: in the last two cases nobody reads from then on.  An   *)
(* observer that raises and a read that failed cost time only (data.py 17,   *)
(* 24-37, commands.py 180).                                                  *)
EveryAnswerArrives ==
  \A k \in Command :
    written >= k ~> \/ \E i \in 1..Len(lines) : lines[i] = Answer(k)
                    \/ k \in hit \/ k - 1 \in hit
                    \/ reader = "dead" \/ Full

(* The reactor thread gets out of request_cmd, even when the sketch is busy  *)
(* and nobody reads its answers: the sketch never waits for the daemon, so   *)
(* there is no circle (commands.py 178-184, serialposix.py 524-541).         *)
ReactorReturns == requester # "idle" ~> requester = "idle"

(* Violated.  linuino/README.md:6 says that the log files are written        *)
(* "accordingly to data sent by the Arduino component": a line that comes     *)
(* out of readline would at least be part of one answer, not the beginning   *)
(* of one and the end of another (data.py 26-34).                            *)
OneAnswerPerLine ==
  \A i \in 1..Len(lines) : Cardinality(CommandsOf(lines[i])) = 1
=============================================================================
