-------------------------------- MODULE Data --------------------------------
(***************************************************************************)
(* The Data thread of the daemon (linuino/data.py) with the main thread    *)
(* that starts it and registers its observers (linuino/main.py) and the    *)
(* Logger observer (linuino/logger.py).                                    *)
(*                                                                         *)
(* The Data thread reads lines from the serial port; add_data puts each    *)
(* line into a bounded Queue.Queue and then calls every observer in turn:  *)
(* the Logger appends it to the log file, the Websocket hands it to the    *)
(* Twisted reactor with callFromThread.  The main thread appends to the    *)
(* list of observers while the Data thread already runs.                   *)
(*                                                                         *)
(* A line is named by its number: the n-th line read is n.  The reactor    *)
(* is the environment here (RunCall); module Websocket models it, module   *)
(* Linuino puts the two together.                                          *)
(***************************************************************************)
EXTENDS Naturals, Sequences

CONSTANTS QueueSize, (* Queue.Queue(maxsize=...): 100 in the code            *)
          MaxLines   (* bound: how many lines the serial port delivers       *)

ASSUME DataAssumption == QueueSize \in Nat \ {0} /\ MaxLines \in Nat

VARIABLES
  main,      (* where main() stands                                          *)
  logFile,   (* Logger.log_file: not created, open, or open() failed         *)
  observers, (* Data.observers, in registration order                        *)
  thread,    (* where Data.run stands                                        *)
  next,      (* index of the list iterator in notify                         *)
  lines,     (* number of lines read so far; also the name of the last one   *)
  queued,    (* number of items in Data.queue: nothing ever reads them       *)
  log,       (* lines written to the log file                                *)
  handed,    (* lines handed to reactor.callFromThread, in order             *)
  ran        (* how many of handed the reactor has run; the rest is          *)
             (* reactor.threadCallQueue                                      *)

dataVars == <<main, logFile, observers, thread, next, lines, queued, log>>
vars == <<main, logFile, observers, thread, next, lines, queued, log,
          handed, ran>>

Observer == {"logger", "socket"}
MainPc   == {"startData", "startSocket", "openLog", "addLogger",
             "addSocket", "idle"}
ThreadPc == {"off", "open", "read", "put", "notify", "sleep", "dead"}

TypeOK ==
  /\ main \in MainPc
  /\ logFile \in {"none", "open", "failed"}
  /\ observers \in Seq(Observer)
  /\ thread \in ThreadPc
  /\ next \in Nat
  /\ lines \in 0..MaxLines
  /\ queued \in 0..QueueSize
  /\ log \in Seq(1..MaxLines)
  /\ handed \in Seq(1..MaxLines)
  /\ ran \in 0..Len(handed)

Init ==
  /\ main = "startData"
  /\ logFile = "none"
  /\ observers = <<>>
  /\ thread = "off"
  /\ next = 1
  /\ lines = 0
  /\ queued = 0
  /\ log = <<>>
  /\ handed = <<>>
  /\ ran = 0

-----------------------------------------------------------------------------
(* The main thread. *)

StartData ==
  /\ main = "startData"
  /\ main' = "startSocket"
  /\ thread' = "open"
  /\ UNCHANGED <<logFile, observers, next, lines, queued, log, handed, ran>>

StartSocket ==
  /\ main = "startSocket"
  /\ main' = "openLog"
  /\ UNCHANGED <<logFile, observers, thread, next, lines, queued, log,
                 handed, ran>>

(* Logger("default"): an IOError is caught and leaves log_file unset. *)
OpenLog ==
  /\ main = "openLog"
  /\ main' = "addLogger"
  /\ logFile' \in {"open", "failed"}
  /\ UNCHANGED <<observers, thread, next, lines, queued, log, handed, ran>>

(* Mutant: the newest observer is registered first. *)
add_observer_first(o) == observers' = <<o>> \o observers

add_observer(o) == observers' = Append(observers, o)

AddLogger ==
  /\ main = "addLogger"
  /\ main' = "addSocket"
  /\ add_observer("logger")
  /\ UNCHANGED <<logFile, thread, next, lines, queued, log, handed, ran>>

AddSocket ==
  /\ main = "addSocket"
  /\ main' = "idle"
  /\ add_observer("socket")
  /\ UNCHANGED <<logFile, thread, next, lines, queued, log, handed, ran>>

MainNext == StartData \/ StartSocket \/ OpenLog \/ AddLogger \/ AddSocket

-----------------------------------------------------------------------------
(* The Data thread. *)

(* serial.Serial(...) stands before the try of run: if it raises, the       *)
(* thread ends and nothing restarts it.                                     *)
OpenPort ==
  /\ thread = "open"
  /\ thread' \in {"read", "dead"}
  /\ UNCHANGED <<main, logFile, observers, next, lines, queued, log,
                 handed, ran>>

ReadLine ==
  /\ thread = "read"
  /\ lines < MaxLines
  /\ lines' = lines + 1
  /\ thread' = "put"
  /\ UNCHANGED <<main, logFile, observers, next, queued, log, handed, ran>>

(* readline raises: run prints the exception and sleeps. *)
ReadError ==
  /\ thread = "read"
  /\ thread' = "sleep"
  /\ UNCHANGED <<main, logFile, observers, next, lines, queued, log,
                 handed, ran>>

Wake ==
  /\ thread = "sleep"
  /\ thread' = "read"
  /\ UNCHANGED <<main, logFile, observers, next, lines, queued, log,
                 handed, ran>>

(* Mutant: a capacity that cannot be used up. *)
PutKeepsOneFree ==
  /\ thread = "put"
  /\ queued + 1 < QueueSize
  /\ queued' = queued + 1
  /\ thread' = "notify"
  /\ next' = 1
  /\ UNCHANGED <<main, logFile, observers, lines, log, handed, ran>>

(* Queue.put blocks while the queue is full, then add_data enters notify. *)
Put ==
  /\ thread = "put"
  /\ queued < QueueSize
  /\ queued' = queued + 1
  /\ thread' = "notify"
  /\ next' = 1
  /\ UNCHANGED <<main, logFile, observers, lines, log, handed, ran>>

(* The list iterator of notify looks at the list as it is now. *)
Notifying(o) ==
  /\ thread = "notify"
  /\ next <= Len(observers)
  /\ observers[next] = o

write_line(n) == log' = Append(log, n)

NotifyLogger ==
  /\ Notifying("logger")
  /\ logFile = "open"
  /\ write_line(lines)
  /\ next' = next + 1
  /\ UNCHANGED <<main, logFile, observers, thread, lines, queued, handed, ran>>

(* Mutant: the Logger swallows its exception, and notify goes on. *)
LoggerSwallows ==
  /\ Notifying("logger")
  /\ next' = next + 1
  /\ UNCHANGED <<main, logFile, observers, thread, lines, queued, log,
                 handed, ran>>

(* There is no log_file to write to, or the write fails: the exception      *)
(* leaves notify, and run prints it and sleeps.                             *)
NotifyLoggerFails ==
  /\ Notifying("logger")
  /\ thread' = "sleep"
  /\ UNCHANGED <<main, logFile, observers, next, lines, queued, log,
                 handed, ran>>

(* Mutant: the newest call is run first. *)
callFromThreadLifo(n) == handed' = SubSeq(handed, 1, ran) \o <<n>>
                                   \o SubSeq(handed, ran + 1, Len(handed))

callFromThread(n) == handed' = Append(handed, n)

NotifySocket ==
  /\ Notifying("socket")
  /\ callFromThread(lines)
  /\ next' = next + 1
  /\ UNCHANGED <<main, logFile, observers, thread, lines, queued, log, ran>>

NotifyDone ==
  /\ thread = "notify"
  /\ next > Len(observers)
  /\ thread' = "read"
  /\ UNCHANGED <<main, logFile, observers, next, lines, queued, log,
                 handed, ran>>

notify == NotifyLogger \/ NotifyLoggerFails \/ NotifySocket \/ NotifyDone

ThreadNext == OpenPort \/ ReadLine \/ ReadError \/ Wake \/ Put \/ notify

-----------------------------------------------------------------------------
(* Environment: the reactor runs the oldest call of its threadCallQueue. *)
RunCall ==
  /\ ran < Len(handed)
  /\ ran' = ran + 1
  /\ UNCHANGED <<dataVars, handed>>

Next == MainNext \/ ThreadNext \/ RunCall

Spec == Init /\ [][Next]_vars

(* Both threads are scheduled by the interpreter.  Nothing obliges the      *)
(* serial port to deliver a line or to fail.                                *)
Fairness ==
  /\ WF_vars(MainNext)
  /\ WF_vars(OpenPort \/ Wake \/ Put \/ notify)

FairSpec == Spec /\ Fairness

-----------------------------------------------------------------------------
(* The line in hand is in the log but not yet with the reactor. *)
InBetween == thread = "notify" /\ next = 2

(* Lines are logged at most once and in the order read (data.py 55-58), and *)
(* what the reactor is handed is a gap-free end of the log: whatever the    *)
(* main thread's registrations interleave with, no line overtakes another,  *)
(* none is broadcast that was not logged, and from the first broadcast on   *)
(* none is logged that was not handed on.                                   *)
HandedIsEndOfLog ==
  LET done == Len(log) - (IF InBetween THEN 1 ELSE 0)
  IN  /\ \A i, j \in 1..Len(log) : i < j => log[i] < log[j]
      /\ Len(handed) <= done
      /\ \A i \in 1..Len(handed) : handed[i] = log[done - Len(handed) + i]

(* Nothing takes items out of Data.queue (data.py 12, 17), so its size is   *)
(* the number of lines ever accepted and its capacity caps what the log and *)
(* the clients can ever get.                                                *)
QueueCapsEverything ==
  /\ queued = lines - (IF thread = "put" THEN 1 ELSE 0)
  /\ Len(handed) <= Len(log)
  /\ Len(log) <= queued

(* A line whose round of notify ends normally has reached every observer    *)
(* registered by then, also one added while the loop ran (data.py 55-58,    *)
(* main.py 43-45).                                                          *)
NoObserverSkipped ==
  [][thread = "notify" /\ thread' = "read" =>
       /\ main \in {"addSocket", "idle"} => \E i \in 1..Len(log) : log[i] = lines
       /\ main = "idle" => \E i \in 1..Len(handed) : handed[i] = lines]_vars

(* As long as the queue has room the Data thread comes back to the serial   *)
(* port, through the observers or through the sleep after an exception      *)
(* (data.py 26-37).                                                         *)
BackToReading ==
  thread \in {"notify", "sleep"} \/ (thread = "put" /\ queued < QueueSize)
    ~> thread = "read"

(* README.md of linuino, line 6: the daemon updates the log according to    *)
(* the data the Arduino sends.  Once the observers are registered, a line   *)
(* read is eventually in the log, or an exception is on its way.            *)
EveryLineHandled ==
  \A n \in 1..MaxLines :
    thread = "put" /\ lines = n /\ main = "idle"
      ~> thread = "sleep" \/ \E i \in 1..Len(log) : log[i] = n
=============================================================================
