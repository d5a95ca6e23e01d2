------------------------------- MODULE Linuino -------------------------------
(***************************************************************************)
(* The daemon on the Linux side of the Yun (linuino/main.py): the Data     *)
(* thread and the main thread of module Data and the reactor thread of     *)
(* module Websocket, interleaved, sharing the reactor's threadCallQueue    *)
(* (handed, ran).                                                          *)
(***************************************************************************)
EXTENDS Naturals, Sequences

CONSTANTS QueueSize, MaxLines, Client, MaxReplies, NonAscii

ASSUME LinuinoAssumption ==
  /\ QueueSize \in Nat \ {0} /\ MaxLines \in Nat
  /\ MaxReplies \in Nat /\ NonAscii \subseteq Nat \ {0}

VARIABLES
  main, logFile, observers, thread, next, lines, queued, log,
  reactor, batch, conn, subscribers, sent, feed, joined, replies,
  handed, ran

D == INSTANCE Data
W == INSTANCE Websocket

dataVars   == <<main, logFile, observers, thread, next, lines, queued, log>>
socketVars == <<reactor, batch, conn, subscribers, sent, feed, joined, replies>>
vars == <<main, logFile, observers, thread, next, lines, queued, log,
          reactor, batch, conn, subscribers, sent, feed, joined, replies,
          handed, ran>>

Init == D!Init /\ W!Init

(* main() starts the Data thread, then the Websocket thread. *)
SocketStarted == main \notin {"startData", "startSocket"}

MainStep    == D!MainNext /\ UNCHANGED socketVars
DataStep    == D!ThreadNext /\ UNCHANGED socketVars
ReactorStep == SocketStarted /\ W!ReactorNext /\ UNCHANGED dataVars

Next == MainStep \/ DataStep \/ ReactorStep

Spec == Init /\ [][Next]_vars

Fairness ==
  /\ WF_vars(MainStep)
  /\ WF_vars((D!OpenPort \/ D!Wake \/ D!Put \/ D!notify)
             /\ UNCHANGED socketVars)
  /\ WF_vars(SocketStarted /\ (W!RunCalls \/ W!RunCall) /\ UNCHANGED dataVars)

FairSpec == Spec /\ Fairness

-----------------------------------------------------------------------------
(* Each component is used as its module assumes: the composed daemon is a    *)
(* Data thread for some reactor, and a reactor for some other thread         *)
(* (main.py 20-50), so what is shown of the components holds of it.          *)
ComponentsSpec == D!Spec /\ W!Spec

(* What the daemon hands to the reactor is a gap-free end of an ordered log, *)
(* whichever of the three threads is ahead of the others while they start    *)
(* (data.py 55-58, main.py 43-45, websocket.py 145-149).                     *)
HandedIsEndOfLog == D!HandedIsEndOfLog

(* A round of notify that ends normally has reached the logger and the       *)
(* Websocket, if the main thread had registered them by then, also while the *)
(* loop ran (data.py 55-58, main.py 43-45).                                  *)
NoObserverSkipped == D!NoObserverSkipped

(* All clients of the daemon see one feed, each from where it joined, while  *)
(* lines come in from the Data thread (websocket.py 107-112, 145-149).       *)
EveryClientSeesTheFeed == W!EveryClientSeesTheFeed

(* A line that the Data thread handed over, or an answer to a command,       *)
(* reaches exactly the clients that are connected when the reactor comes to  *)
(* it (websocket.py 30-32, 65-70, 107-112).                                  *)
BroadcastReachesTheOpen == W!BroadcastReachesTheOpen

(* Each connection to the daemon lives the life of module ConnectionLife,    *)
(* whatever the other threads do in the meantime (websocket.py 16-32, 65-70, *)
(* 88-105).                                                                  *)
EachLives == W!EachLives

(* The daemon keeps the promise of module Relay: no client is sent a line    *)
(* that is not in the log, and between two lines a client was sent it was    *)
(* sent every line of the log that can be encoded, from the thread that      *)
(* reads to the socket (main.py 43-45, data.py 55-58, websocket.py 107-149). *)
(* A line has had its turn when the reactor has run its call, or when it was *)
(* logged and its round of notify ended before the Websocket was an observer.*)
R == INSTANCE Relay WITH
       published <- Len(log) - (Len(handed) - ran)
                             - (IF D!InBetween THEN 1 ELSE 0),
       live      <- main = "idle",
       member    <- {c \in Client : conn[c] = "open"},
       view      <- sent
RelaySpec == R!Spec

(* A line whose round of notify runs while everything is up reaches every    *)
(* client that stays connected, unless the log could not be written.         *)
LinesReachClients ==
  \A c \in Client, n \in 1..MaxLines \ NonAscii :
    (/\ thread = "notify" /\ next <= 2 /\ lines = n /\ main = "idle"
     /\ reactor = "running" /\ conn[c] = "open")
      ~> (\/ \E i \in 1..Len(sent[c]) : sent[c][i] = n
          \/ conn[c] # "open"
          \/ thread = "sleep" /\ lines = n)
=============================================================================
