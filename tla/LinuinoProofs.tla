---------------------------- MODULE LinuinoProofs ----------------------------
(***************************************************************************)
(* Theorems about module Linuino and about its two components, the modules *)
(* Data (D) and Websocket (W), for any lines, clients and queue: first of  *)
(* each component alone, whatever the other does within its module; then   *)
(* of the daemon, whose threads are what the two modules take each other   *)
(* for, so that all of it holds of the daemon; and from that, that the     *)
(* daemon implements Relay.                                                *)
(*                                                                         *)
(* HandedIsEndOfLog is not inductive: that the socket's line is the last   *)
(* one logged rests on where the main thread stands in its registrations   *)
(* (Registration), on where the iterator of notify stands in the list      *)
(* (RoundOfNotify), and on the line in hand being newer than the log       *)
(* (FreshLine).                                                            *)
(*                                                                         *)
(* The types of Websocket need BatchInQueue (RunCall takes                 *)
(* handed[ran + 1]).  That all clients see one feed needs to know that     *)
(* every open connection is a subscriber (SubscribersAreConnections),      *)
(* because broadcast goes through the list of subscribers, and that        *)
(* sendMessage skips the others.                                           *)
(*                                                                         *)
(* Neither component can be shown to keep to its module on its own: that a *)
(* call is there when the reactor runs it is an invariant of Websocket     *)
(* that Data relies on, and that a line handed over is newer than the last *)
(* one is an invariant of Data that Websocket relies on.  LinuinoInv takes *)
(* both together.                                                          *)
(***************************************************************************)
EXTENDS Linuino, SequenceTheorems, TLAPS

-----------------------------------------------------------------------------
(* Module Data *)

(* The observers are those main() has come to, the logger first. *)
Registration ==
  /\ main \in {"startData", "startSocket", "openLog", "addLogger"}
       => observers = <<>>
  /\ main = "addSocket" => Len(observers) = 1 /\ observers[1] = "logger"
  /\ main = "idle" => /\ Len(observers) = 2
                      /\ observers[1] = "logger"
                      /\ observers[2] = "socket"
  /\ handed # <<>> => main = "idle"
  /\ main = "startData" => thread = "off"

(* The iterator is inside the list or just behind it, and the observers     *)
(* before it have had the line in hand.                                     *)
RoundOfNotify ==
  thread = "notify" =>
    /\ next <= Len(observers) + 1
    /\ next >= 2 => log # <<>> /\ log[Len(log)] = lines
    /\ next >= 3 => handed # <<>> /\ handed[Len(handed)] = lines

(* A line is in hand that the Logger has not had. *)
Unlogged == thread = "put" \/ (thread = "notify" /\ next = 1)

LineInHand ==
  /\ next >= 1
  /\ thread \in {"put", "notify"} => lines >= 1

FreshLine ==
  /\ \A i \in 1..Len(log) : log[i] <= lines
  /\ Unlogged => \A i \in 1..Len(log) : log[i] < lines
  /\ Len(log) <= queued - (IF thread = "notify" /\ next = 1 THEN 1 ELSE 0)

(* The types, inductive: only a line that was read is logged or handed on. *)
DataTypeInv == D!TypeOK /\ LineInHand

DataInv ==
  /\ DataTypeInv
  /\ Registration
  /\ RoundOfNotify
  /\ FreshLine
  /\ D!HandedIsEndOfLog
  /\ D!QueueCapsEverything

-----------------------------------------------------------------------------
LEMMA InitDataTypes == D!Init => DataTypeInv
BY LinuinoAssumption
DEF D!Init, DataTypeInv, D!TypeOK, LineInHand, D!MainPc, D!ThreadPc, D!Observer

LEMMA StepDataTypes == DataTypeInv /\ [D!Next]_D!vars => DataTypeInv'
<1> SUFFICES ASSUME DataTypeInv, [D!Next]_D!vars PROVE DataTypeInv'
  OBVIOUS
<1> USE LinuinoAssumption
    DEF DataTypeInv, D!TypeOK, LineInHand, D!MainPc, D!ThreadPc, D!Observer
<1>1. CASE D!MainNext
  <2>1. CASE D!StartData \/ D!StartSocket \/ D!OpenLog
    BY <2>1 DEF D!StartData, D!StartSocket, D!OpenLog
  <2>2. CASE D!AddLogger
    BY <2>2 DEF D!AddLogger, D!add_observer
  <2>3. CASE D!AddSocket
    BY <2>3 DEF D!AddSocket, D!add_observer
  <2> QED BY <1>1, <2>1, <2>2, <2>3 DEF D!MainNext
<1>2. CASE D!OpenPort \/ D!ReadLine \/ D!ReadError \/ D!Wake \/ D!Put
  BY <1>2 DEF D!OpenPort, D!ReadLine, D!ReadError, D!Wake, D!Put
<1>3. CASE D!NotifyLogger
  BY <1>3 DEF D!NotifyLogger, D!Notifying, D!write_line
<1>4. CASE D!NotifyLoggerFails \/ D!NotifyDone
  BY <1>4 DEF D!NotifyLoggerFails, D!NotifyDone, D!Notifying
<1>5. CASE D!NotifySocket
  BY <1>5 DEF D!NotifySocket, D!Notifying, D!callFromThread
<1>6. CASE D!RunCall
  BY <1>6 DEF D!RunCall, D!dataVars
<1>7. CASE UNCHANGED D!vars
  BY <1>7 DEF D!vars
<1> QED
  BY <1>1, <1>2, <1>3, <1>4, <1>5, <1>6, <1>7
  DEF D!Next, D!ThreadNext, D!notify

(* Every state of the Data thread, the main thread and the reactor's queue   *)
(* has its type; in particular the queue never exceeds its capacity.         *)
THEOREM DataTypeOK == D!Spec => []D!TypeOK
<1>1. DataTypeInv => D!TypeOK
  BY DEF DataTypeInv
<1> QED BY InitDataTypes, StepDataTypes, <1>1, PTL DEF D!Spec

-----------------------------------------------------------------------------
(* Which observer stands where: the logger is the first, the socket the      *)
(* second.                                                                   *)
LEMMA WhoIsNotified ==
  ASSUME DataTypeInv, Registration, RoundOfNotify
  PROVE  /\ D!Notifying("logger") => next = 1 /\ main \in {"addSocket", "idle"}
         /\ D!Notifying("socket") => next = 2 /\ main = "idle"
BY DEF DataTypeInv, D!TypeOK, LineInHand, Registration, RoundOfNotify,
       D!Notifying, D!MainPc, D!Observer

LEMMA AppendToOne ==
  ASSUME NEW S, NEW s \in Seq(S), NEW e \in S, Len(s) = 1
  PROVE  /\ Len(Append(s, e)) = 2
         /\ Append(s, e)[1] = s[1]
         /\ Append(s, e)[2] = e
<1>1. Append(s, e)[Len(s) + 1] = e
  BY AppendProperties
<1>2. \A i \in 1..Len(s) : Append(s, e)[i] = s[i]
  BY AppendProperties
<1>3. Len(Append(s, e)) = Len(s) + 1
  BY AppendProperties
<1> QED BY <1>1, <1>2, <1>3

LEMMA StepRegistration ==
  DataTypeInv /\ Registration /\ RoundOfNotify /\ [D!Next]_D!vars
    => Registration'
<1> SUFFICES ASSUME DataTypeInv, Registration, RoundOfNotify, [D!Next]_D!vars
             PROVE  Registration'
  OBVIOUS
<1> USE DEF Registration
<1>1. CASE D!MainNext
  <2>1. CASE D!StartData \/ D!StartSocket \/ D!OpenLog
    BY <2>1 DEF D!StartData, D!StartSocket, D!OpenLog
  <2>2. CASE D!AddLogger
    BY <2>2 DEF D!AddLogger, D!add_observer
  <2>3. CASE D!AddSocket
    <3>1. /\ Len(observers') = 2
          /\ observers'[1] = "logger"
          /\ observers'[2] = "socket"
      <4>1. /\ observers \in Seq(D!Observer)
            /\ observers' = Append(observers, "socket")
        BY <2>3 DEF D!AddSocket, D!add_observer, DataTypeInv, D!TypeOK
      <4>2. Len(observers) = 1 /\ observers[1] = "logger"
        BY <2>3 DEF D!AddSocket
      <4> HIDE DEF Registration
      <4> QED BY <4>1, <4>2, AppendToOne DEF D!Observer
    <3> QED BY <2>3, <3>1 DEF D!AddSocket
  <2> QED BY <1>1, <2>1, <2>2, <2>3 DEF D!MainNext
<1>2. CASE D!OpenPort \/ D!ReadLine \/ D!ReadError \/ D!Wake \/ D!Put
  BY <1>2 DEF D!OpenPort, D!ReadLine, D!ReadError, D!Wake, D!Put
<1>3. CASE D!NotifyLogger \/ D!NotifyLoggerFails \/ D!NotifyDone
  BY <1>3 DEF D!NotifyLogger, D!NotifyLoggerFails, D!NotifyDone, D!Notifying
<1>4. CASE D!NotifySocket
  BY <1>4, WhoIsNotified DEF D!NotifySocket, D!Notifying
<1>5. CASE D!RunCall \/ UNCHANGED D!vars
  BY <1>5 DEF D!RunCall, D!dataVars, D!vars
<1> QED
  BY <1>1, <1>2, <1>3, <1>4, <1>5 DEF D!Next, D!ThreadNext, D!notify

LEMMA StepRoundOfNotify ==
  DataTypeInv /\ Registration /\ RoundOfNotify /\ [D!Next]_D!vars
    => RoundOfNotify'
<1> SUFFICES ASSUME DataTypeInv, Registration, RoundOfNotify, [D!Next]_D!vars
             PROVE  RoundOfNotify'
  OBVIOUS
<1> USE DEF RoundOfNotify, DataTypeInv, D!TypeOK, LineInHand
<1>1. CASE D!MainNext
  BY <1>1 DEF D!MainNext, D!StartData, D!StartSocket, D!OpenLog, D!AddLogger,
              D!AddSocket, D!add_observer, Registration
<1>2. CASE D!OpenPort \/ D!ReadLine \/ D!ReadError \/ D!Wake \/ D!Put
  BY <1>2 DEF D!OpenPort, D!ReadLine, D!ReadError, D!Wake, D!Put
<1>3. CASE D!NotifyLogger
  <2>1. next = 1 /\ next' = 2 /\ 1 <= Len(observers)
    BY <1>3, WhoIsNotified DEF D!NotifyLogger, D!Notifying
  <2>2. log' # <<>> /\ log'[Len(log')] = lines
    BY <1>3 DEF D!NotifyLogger, D!write_line
  <2> QED BY <1>3, <2>1, <2>2 DEF D!NotifyLogger
<1>4. CASE D!NotifyLoggerFails \/ D!NotifyDone
  BY <1>4 DEF D!NotifyLoggerFails, D!NotifyDone
<1>5. CASE D!NotifySocket
  BY <1>5, WhoIsNotified DEF D!NotifySocket, D!Notifying, D!callFromThread
<1>6. CASE D!RunCall \/ UNCHANGED D!vars
  BY <1>6 DEF D!RunCall, D!dataVars, D!vars
<1> QED
  BY <1>1, <1>2, <1>3, <1>4, <1>5, <1>6 DEF D!Next, D!ThreadNext, D!notify

LEMMA StepFreshLine ==
  DataInv /\ [D!Next]_D!vars => FreshLine'
<1> SUFFICES ASSUME DataInv, [D!Next]_D!vars PROVE FreshLine'
  OBVIOUS
<1> USE DEF DataInv, FreshLine, Unlogged, DataTypeInv, D!TypeOK, LineInHand
<1>1. CASE D!MainNext
  BY <1>1 DEF D!MainNext, D!StartData, D!StartSocket, D!OpenLog, D!AddLogger,
              D!AddSocket
<1>2. CASE D!OpenPort \/ D!ReadError \/ D!Wake
  BY <1>2 DEF D!OpenPort, D!ReadError, D!Wake
<1>3. CASE D!ReadLine
  <2>1. log' = log /\ lines' = lines + 1 /\ queued' = queued
    BY <1>3 DEF D!ReadLine
  <2>2. /\ lines \in Nat /\ queued \in Nat
        /\ \A i \in 1..Len(log) : log[i] \in Nat
    BY LinuinoAssumption
  <2>3. \A i \in 1..Len(log') : log'[i] < lines'
    BY <2>1, <2>2
  <2> QED BY <1>3, <2>1, <2>2, <2>3 DEF D!ReadLine
<1>4. CASE D!Put
  <2>1. Unlogged /\ log' = log /\ lines' = lines /\ queued' = queued + 1
    BY <1>4 DEF D!Put
  <2>2. Len(log') <= queued' - 1 /\ queued' \in Nat /\ Len(log') \in Nat
    BY <1>4, <2>1, LinuinoAssumption DEF D!Put
  <2>3. \A i \in 1..Len(log') : log'[i] <= lines' /\ log'[i] < lines'
    BY <2>1
  <2> QED BY <2>2, <2>3
<1>5. CASE D!NotifyLogger
  BY <1>5, WhoIsNotified DEF D!NotifyLogger, D!Notifying, D!write_line
<1>6. CASE D!NotifyLoggerFails \/ D!NotifyDone
  BY <1>6 DEF D!NotifyLoggerFails, D!NotifyDone
<1>7. CASE D!NotifySocket
  BY <1>7, WhoIsNotified DEF D!NotifySocket, D!Notifying
<1>8. CASE D!RunCall \/ UNCHANGED D!vars
  BY <1>8 DEF D!RunCall, D!dataVars, D!vars
<1> QED
  BY <1>1, <1>2, <1>3, <1>4, <1>5, <1>6, <1>7, <1>8
  DEF D!Next, D!ThreadNext, D!notify

LEMMA StepHanded ==
  DataInv /\ [D!Next]_D!vars => D!HandedIsEndOfLog'
<1> SUFFICES ASSUME DataInv, [D!Next]_D!vars PROVE D!HandedIsEndOfLog'
  OBVIOUS
<1> USE DEF DataInv, D!HandedIsEndOfLog, D!InBetween, DataTypeInv,
            D!TypeOK, LineInHand
<1>1. CASE D!MainNext
  BY <1>1 DEF D!MainNext, D!StartData, D!StartSocket, D!OpenLog, D!AddLogger,
              D!AddSocket, Registration
<1>2. CASE D!OpenPort \/ D!ReadError \/ D!Wake
  BY <1>2 DEF D!OpenPort, D!ReadError, D!Wake
<1>3. CASE D!ReadLine \/ D!Put
  <2>1. ~D!InBetween /\ ~D!InBetween'
    BY <1>3 DEF D!ReadLine, D!Put
  <2>2. UNCHANGED <<log, handed>>
    BY <1>3 DEF D!ReadLine, D!Put
  <2> QED BY <2>1, <2>2
<1>4. CASE D!NotifyLogger
  BY <1>4, WhoIsNotified
  DEF D!NotifyLogger, D!Notifying, D!write_line, FreshLine, Unlogged
<1>5. CASE D!NotifyLoggerFails
  BY <1>5, WhoIsNotified DEF D!NotifyLoggerFails
<1>6. CASE D!NotifyDone
  <2>1. CASE handed = <<>>
    BY <1>6, <2>1 DEF D!NotifyDone
  <2>2. CASE handed # <<>>
    <3>1. ~D!InBetween
      <4>1. Len(observers) = 2
        BY <2>2 DEF Registration
      <4> QED BY <1>6, <4>1 DEF D!NotifyDone
    <3>2. ~D!InBetween'
      BY <1>6 DEF D!NotifyDone
    <3> QED BY <1>6, <3>1, <3>2 DEF D!NotifyDone
  <2> QED BY <2>1, <2>2
<1>7. CASE D!NotifySocket
  BY <1>7, WhoIsNotified
  DEF D!NotifySocket, D!Notifying, D!callFromThread, RoundOfNotify
<1>8. CASE D!RunCall \/ UNCHANGED D!vars
  BY <1>8 DEF D!RunCall, D!dataVars, D!vars
<1> QED
  BY <1>1, <1>2, <1>3, <1>4, <1>5, <1>6, <1>7, <1>8
  DEF D!Next, D!ThreadNext, D!notify

LEMMA StepQueueCaps ==
  DataInv /\ [D!Next]_D!vars => D!QueueCapsEverything'
<1> SUFFICES ASSUME DataInv, [D!Next]_D!vars PROVE D!QueueCapsEverything'
  OBVIOUS
<1> USE LinuinoAssumption
    DEF DataInv, D!QueueCapsEverything, DataTypeInv, D!TypeOK, LineInHand
<1>1. CASE D!MainNext
  BY <1>1 DEF D!MainNext, D!StartData, D!StartSocket, D!OpenLog, D!AddLogger,
              D!AddSocket, Registration
<1>2. CASE D!OpenPort \/ D!ReadError \/ D!Wake
  BY <1>2 DEF D!OpenPort, D!ReadError, D!Wake
<1>3. CASE D!ReadLine
  BY <1>3 DEF D!ReadLine
<1>4. CASE D!Put
  BY <1>4 DEF D!Put
<1>5. CASE D!NotifyLogger
  BY <1>5, WhoIsNotified
  DEF D!NotifyLogger, D!Notifying, D!write_line, FreshLine
<1>6. CASE D!NotifyLoggerFails \/ D!NotifyDone
  <2>1. thread # "put" /\ thread' # "put"
    BY <1>6 DEF D!NotifyLoggerFails, D!Notifying, D!NotifyDone
  <2> QED BY <1>6, <2>1 DEF D!NotifyLoggerFails, D!NotifyDone
<1>7. CASE D!NotifySocket
  <2>1. D!InBetween /\ Len(handed) <= Len(log) - 1
    BY <1>7, WhoIsNotified
    DEF D!NotifySocket, D!Notifying, D!InBetween, D!HandedIsEndOfLog
  <2>2. Len(handed') = Len(handed) + 1
    BY <1>7 DEF D!NotifySocket, D!callFromThread
  <2> QED BY <1>7, <2>1, <2>2 DEF D!NotifySocket
<1>8. CASE D!RunCall \/ UNCHANGED D!vars
  BY <1>8 DEF D!RunCall, D!dataVars, D!vars
<1> QED
  BY <1>1, <1>2, <1>3, <1>4, <1>5, <1>6, <1>7, <1>8
  DEF D!Next, D!ThreadNext, D!notify

-----------------------------------------------------------------------------
LEMMA InitData == D!Init => DataInv
BY LinuinoAssumption, InitDataTypes
DEF DataInv, D!Init, Registration, RoundOfNotify, FreshLine, Unlogged,
    D!HandedIsEndOfLog, D!InBetween, D!QueueCapsEverything

LEMMA StepData == DataInv /\ [D!Next]_D!vars => DataInv'
<1>1. DataInv => DataTypeInv /\ Registration /\ RoundOfNotify
  BY DEF DataInv
<1> QED
  BY <1>1, StepDataTypes, StepRegistration, StepRoundOfNotify, StepFreshLine,
     StepHanded, StepQueueCaps
  DEF DataInv

LEMMA DataInvHolds == D!Spec => []DataInv
BY InitData, StepData, PTL DEF D!Spec

(* Whatever the capacity of the queue and however the registrations of the   *)
(* main thread interleave with notify (data.py 55-58, main.py 43-45), what   *)
(* the reactor is handed is a gap-free end of an ordered log.                *)
THEOREM HandedIsEndOfLogOfData == D!Spec => []D!HandedIsEndOfLog
<1>1. DataInv => D!HandedIsEndOfLog
  BY DEF DataInv
<1> QED BY <1>1, DataInvHolds, PTL

(* The queue nobody reads bounds the log and all that clients ever get       *)
(* (data.py 12, 17).                                                         *)
THEOREM QueueCapsEverythingHolds == D!Spec => []D!QueueCapsEverything
<1>1. DataInv => D!QueueCapsEverything
  BY DEF DataInv
<1> QED BY <1>1, DataInvHolds, PTL

(* A round of notify that ends normally has served every observer            *)
(* registered by then (data.py 55-58).                                       *)
THEOREM NoObserverSkippedOfData == D!Spec => D!NoObserverSkipped
<1> DEFINE Served ==
      thread = "notify" /\ thread' = "read" =>
        /\ main \in {"addSocket", "idle"}
             => \E i \in 1..Len(log) : log[i] = lines
        /\ main = "idle" => \E i \in 1..Len(handed) : handed[i] = lines
<1>1. DataInv /\ [D!Next]_D!vars => [Served]_D!vars
  <2> SUFFICES ASSUME DataInv, D!Next, thread = "notify", thread' = "read"
               PROVE  Served
    OBVIOUS
  <2> USE DEF DataInv, DataTypeInv, D!TypeOK, LineInHand
  <2>1. next > Len(observers)
    BY DEF D!Next, D!MainNext, D!StartData, D!StartSocket, D!OpenLog,
           D!AddLogger, D!AddSocket, D!ThreadNext, D!OpenPort, D!ReadLine,
           D!ReadError, D!Wake, D!Put, D!notify, D!NotifyLogger,
           D!NotifyLoggerFails, D!NotifySocket, D!NotifyDone,
           D!RunCall, D!dataVars
  <2>2. ASSUME main \in {"addSocket", "idle"}
        PROVE  \E i \in 1..Len(log) : log[i] = lines
    <3>1. next >= 2
      BY <2>1, <2>2 DEF Registration
    <3>2. log # <<>> /\ log[Len(log)] = lines
      BY <3>1 DEF RoundOfNotify
    <3> QED BY <3>2
  <2>3. ASSUME main = "idle"
        PROVE  \E i \in 1..Len(handed) : handed[i] = lines
    <3>1. next >= 3
      <4>1. Len(observers) = 2
        BY <2>3 DEF Registration
      <4> QED BY <2>1, <4>1
    <3>2. handed # <<>> /\ handed[Len(handed)] = lines
      BY <3>1 DEF RoundOfNotify
    <3> QED BY <3>2
  <2> QED BY <2>2, <2>3
<1> QED BY <1>1, DataInvHolds, PTL DEF D!Spec, D!NoObserverSkipped

-----------------------------------------------------------------------------
(* Module Websocket *)

(* The phases of the reactor have their types. *)
PhaseInv == W!TypeOK /\ W!BatchInQueue

WebsocketInv ==
  PhaseInv /\ W!SubscribersAreConnections /\ W!EveryClientSeesTheFeed

-----------------------------------------------------------------------------
LEMMA InitPhase == W!Init => PhaseInv
BY LinuinoAssumption
DEF W!Init, PhaseInv, W!TypeOK, W!BatchInQueue, W!Conn, W!Message

LEMMA LineIsMessage ==
  ASSUME PhaseInv, batch > 0
  PROVE  ran + 1 \in 1..Len(handed) /\ handed[ran + 1] \in W!Message
<1>1. ran + 1 \in 1..Len(handed)
  BY DEF PhaseInv, W!TypeOK, W!BatchInQueue
<1>2. handed[ran + 1] \in 1..MaxLines
  BY <1>1, ElementOfSeq DEF PhaseInv, W!TypeOK
<1> QED BY <1>1, <1>2, LinuinoAssumption DEF W!Message

LEMMA ReplyIsMessage == W!Reply \in W!Message
BY LinuinoAssumption DEF W!Reply, W!Message

LEMMA BroadcastType ==
  ASSUME W!TypeOK, NEW m \in W!Message, W!broadcast(m)
  PROVE  sent' \in [Client -> Seq(W!Message)] /\ feed' \in Seq(W!Message)
<1>1. CASE m \in NonAscii
  BY <1>1 DEF W!broadcast, W!TypeOK
<1>2. CASE m \notin NonAscii
  <2>1. feed' = Append(feed, m) /\ W!sendMessage(m, subscribers)
    BY <1>2 DEF W!broadcast
  <2>2. \A c \in Client : sent[c] \in Seq(W!Message)
    BY DEF W!TypeOK
  <2>3. \A c \in Client : Append(sent[c], m) \in Seq(W!Message)
    BY <2>2, AppendProperties
  <2>4. feed' \in Seq(W!Message)
    BY <2>1, AppendProperties DEF W!TypeOK
  <2> QED BY <2>1, <2>2, <2>3, <2>4 DEF W!sendMessage
<1> QED BY <1>1, <1>2

LEMMA LastHandedIsNat ==
  ASSUME PhaseInv
  PROVE  W!LastHanded \in Nat
<1>1. CASE handed = <<>>
  BY <1>1 DEF W!LastHanded
<1>2. CASE handed # <<>>
  <2>1. handed \in Seq(1..MaxLines)
    BY DEF PhaseInv, W!TypeOK
  <2>2. Len(handed) \in 1..Len(handed)
    BY <1>2, <2>1, EmptySeq
  <2>3. handed[Len(handed)] \in 1..MaxLines
    BY <2>1, <2>2, ElementOfSeq
  <2> QED BY <1>2, <2>3 DEF W!LastHanded
<1> QED BY <1>1, <1>2

LEMMA HandOverType ==
  ASSUME PhaseInv, W!callFromThread
  PROVE  /\ handed' \in Seq(1..MaxLines)
         /\ Len(handed') = Len(handed) + 1
<1>1. W!LastHanded \in Nat
  BY LastHandedIsNat
<1>2. PICK n \in W!LastHanded + 1 .. MaxLines : handed' = Append(handed, n)
  BY DEF W!callFromThread
<1>3. n \in 1..MaxLines
  BY <1>1, <1>2, LinuinoAssumption
<1> QED BY <1>2, <1>3, AppendProperties DEF PhaseInv, W!TypeOK

LEMMA StepPhase == PhaseInv /\ [W!Next]_W!vars => PhaseInv'
<1> SUFFICES ASSUME PhaseInv, [W!Next]_W!vars PROVE PhaseInv'
  OBVIOUS
<1>t. W!TypeOK
  BY DEF PhaseInv
<1>1. CASE W!Run \/ W!RunCalls
  BY <1>1 DEF W!Run, W!RunCalls, PhaseInv, W!TypeOK, W!BatchInQueue
<1>2. CASE W!RunCall
  <2>1. handed[ran + 1] \in W!Message /\ ran + 1 \in 1..Len(handed)
    BY <1>2, LineIsMessage DEF W!RunCall
  <2>2. sent' \in [Client -> Seq(W!Message)] /\ feed' \in Seq(W!Message)
    BY <1>2, <1>t, <2>1, BroadcastType DEF W!RunCall
  <2> QED
    BY <1>2, <2>1, <2>2 DEF W!RunCall, PhaseInv, W!TypeOK, W!BatchInQueue
<1>3. CASE \E c \in Client : W!Serve(c)
  <2> PICK c \in Client : W!Serve(c)
    BY <1>3
  <2>1. CASE W!onMessage(c)
    <3>1. sent' \in [Client -> Seq(W!Message)] /\ feed' \in Seq(W!Message)
      BY <2>1, <1>t, ReplyIsMessage, BroadcastType DEF W!onMessage
    <3> QED
      BY <2>1, <3>1, LinuinoAssumption
      DEF W!onMessage, PhaseInv, W!TypeOK, W!BatchInQueue
  <2>2. CASE \E h \in W!Headers, offer \in W!Offers : W!onConnect(c, h, offer)
    <3> PICK h \in W!Headers, offer \in W!Offers : W!onConnect(c, h, offer)
      BY <2>2
    <3>1. Len(feed) \in Nat
      BY LenProperties DEF PhaseInv, W!TypeOK
    <3>2. CASE W!auth_status(h)
      BY <3>1, <3>2
      DEF W!onConnect, W!Accept, W!Accepted, W!add_client, PhaseInv, W!TypeOK,
          W!BatchInQueue, W!Conn
    <3>3. CASE ~W!auth_status(h)
      BY <3>3
      DEF W!onConnect, W!Deny, PhaseInv, W!TypeOK, W!BatchInQueue, W!Conn
    <3> QED BY <3>2, <3>3
  <2>3. CASE W!OnMessageRaises(c) \/ W!ConnectionLost(c)
    BY <2>3 DEF W!OnMessageRaises, W!ConnectionLost, W!Lose, W!remove_client,
                PhaseInv, W!TypeOK, W!BatchInQueue, W!Conn
  <2>4. CASE W!DropConnection(c) \/ W!FailHandshake(c)
    BY <2>4 DEF W!DropConnection, W!FailHandshake, W!Deny, PhaseInv, W!TypeOK,
                W!BatchInQueue, W!Conn
  <2> QED BY <2>1, <2>2, <2>3, <2>4 DEF W!Serve
<1>4. CASE W!callFromThread
  <2>1. handed' \in Seq(1..MaxLines) /\ Len(handed') = Len(handed) + 1
    BY <1>4, HandOverType
  <2>2. Len(handed) \in Nat
    BY LenProperties DEF PhaseInv, W!TypeOK
  <2>3. UNCHANGED <<W!socketVars, ran>>
    BY <1>4 DEF W!callFromThread
  <2> QED
    BY <2>1, <2>2, <2>3 DEF W!socketVars, PhaseInv, W!TypeOK, W!BatchInQueue
<1>5. CASE UNCHANGED W!vars
  BY <1>5 DEF W!vars, PhaseInv, W!TypeOK, W!BatchInQueue
<1> QED BY <1>1, <1>2, <1>3, <1>4, <1>5 DEF W!Next, W!ReactorNext

(* The state of the reactor thread has its type: in particular it never      *)
(* takes a call that is not in the queue (base.py 787-806).                  *)
THEOREM WebsocketTypeOK == W!Spec => []W!TypeOK
<1>1. PhaseInv => W!TypeOK
  BY DEF PhaseInv
<1> QED BY InitPhase, StepPhase, <1>1, PTL DEF W!Spec

(* The calls of a phase are in the queue, however many the Data thread adds. *)
THEOREM BatchInQueueHolds == W!Spec => []W!BatchInQueue
<1>1. PhaseInv => W!BatchInQueue
  BY DEF PhaseInv
<1> QED BY InitPhase, StepPhase, <1>1, PTL DEF W!Spec

-----------------------------------------------------------------------------
LEMMA StepSubscribers ==
  PhaseInv /\ W!SubscribersAreConnections /\ [W!Next]_W!vars
    => W!SubscribersAreConnections'
<1> SUFFICES ASSUME PhaseInv, W!SubscribersAreConnections, [W!Next]_W!vars
             PROVE  W!SubscribersAreConnections'
  OBVIOUS
<1>1. CASE UNCHANGED <<conn, subscribers>>
  BY <1>1 DEF W!SubscribersAreConnections
<1>2. CASE \/ W!Run \/ W!RunCalls \/ W!RunCall \/ W!callFromThread
           \/ UNCHANGED W!vars
  BY <1>1, <1>2
  DEF W!Run, W!RunCalls, W!RunCall, W!callFromThread, W!socketVars, W!vars
<1>3. CASE \E c \in Client : W!Serve(c)
  <2> PICK c \in Client : W!Serve(c)
    BY <1>3
  <2>1. CASE W!onMessage(c)
    BY <2>1, <1>1 DEF W!onMessage
  <2>2. CASE \E h \in W!Headers, offer \in W!Offers : W!onConnect(c, h, offer)
    BY <2>2 DEF W!onConnect, W!Accept, W!Accepted, W!Deny, W!add_client,
                PhaseInv, W!TypeOK,
                W!SubscribersAreConnections
  <2>3. CASE W!OnMessageRaises(c) \/ W!ConnectionLost(c)
    BY <2>3 DEF W!OnMessageRaises, W!ConnectionLost, W!Lose, W!remove_client,
                PhaseInv, W!TypeOK, W!SubscribersAreConnections
  <2>4. CASE W!DropConnection(c) \/ W!FailHandshake(c)
    BY <2>4 DEF W!DropConnection, W!FailHandshake, W!Deny, PhaseInv, W!TypeOK,
                W!SubscribersAreConnections
  <2> QED BY <2>1, <2>2, <2>3, <2>4 DEF W!Serve
<1> QED BY <1>2, <1>3 DEF W!Next, W!ReactorNext

-----------------------------------------------------------------------------
(* What EveryClientSeesTheFeed says of one client. *)
SeesTheFeed(c) ==
  /\ joined[c] + Len(sent[c]) <= Len(feed)
  /\ \A i \in 1..Len(sent[c]) : sent[c][i] = feed[joined[c] + i]
  /\ conn[c] = "open" => joined[c] + Len(sent[c]) = Len(feed)
  /\ conn[c] \in {"new", "denied"} => sent[c] = <<>>

LEMMA BroadcastKeepsFeed ==
  ASSUME PhaseInv, W!SubscribersAreConnections, W!EveryClientSeesTheFeed,
         NEW m \in W!Message, W!broadcast(m), UNCHANGED <<conn, joined>>
  PROVE  W!EveryClientSeesTheFeed'
<1> SUFFICES ASSUME NEW c \in Client PROVE SeesTheFeed(c)'
  BY DEF W!EveryClientSeesTheFeed, SeesTheFeed
<1>s. SeesTheFeed(c)
  BY DEF W!EveryClientSeesTheFeed, SeesTheFeed
<1>t. /\ sent[c] \in Seq(W!Message) /\ feed \in Seq(W!Message)
      /\ joined[c] \in Nat /\ Len(sent[c]) \in Nat /\ Len(feed) \in Nat
  BY LenProperties DEF PhaseInv, W!TypeOK
<1>1. CASE m \in NonAscii
  BY <1>1, <1>s DEF W!broadcast, SeesTheFeed
<1>2. CASE m \notin NonAscii
  <2>1. /\ feed' = Append(feed, m)
        /\ Len(feed') = Len(feed) + 1
        /\ feed'[Len(feed) + 1] = m
        /\ \A i \in 1..Len(feed) : feed'[i] = feed[i]
    BY <1>2, <1>t, AppendProperties DEF W!broadcast
  <2>2. CASE conn[c] = "open"
    <3>1. c \in subscribers
      BY <2>2 DEF W!SubscribersAreConnections
    <3>2. sent'[c] = Append(sent[c], m)
      BY <1>2, <2>2, <3>1 DEF W!broadcast, W!sendMessage
    <3>3. /\ Len(sent'[c]) = Len(sent[c]) + 1
          /\ sent'[c][Len(sent[c]) + 1] = m
          /\ \A i \in 1..Len(sent[c]) : sent'[c][i] = sent[c][i]
      BY <1>t, <3>2, AppendProperties
    <3>4. joined[c] + Len(sent[c]) = Len(feed)
      BY <1>s, <2>2 DEF SeesTheFeed
    <3>5. ASSUME NEW i \in 1..Len(sent'[c])
          PROVE  sent'[c][i] = feed'[joined[c] + i]
      <4>1. CASE i = Len(sent[c]) + 1
        <5>1. joined[c] + i = Len(feed) + 1
          BY <4>1, <3>4, <1>t
        <5> QED BY <4>1, <5>1, <3>3, <2>1
      <4>2. CASE i # Len(sent[c]) + 1
        <5>1. i \in 1..Len(sent[c])
          BY <4>2, <3>3, <1>t
        <5>2. joined[c] + i \in 1..Len(feed)
          BY <5>1, <3>4, <1>t
        <5> QED BY <5>1, <5>2, <3>3, <2>1, <1>s DEF SeesTheFeed
      <4> QED BY <4>1, <4>2
    <3>6. joined[c] + Len(sent'[c]) = Len(feed')
      BY <3>3, <3>4, <2>1, <1>t
    <3> QED BY <3>3, <3>5, <3>6, <2>1, <2>2, <1>t DEF SeesTheFeed
  <2>3. CASE conn[c] # "open"
    <3>1. sent'[c] = sent[c]
      BY <1>2, <2>3 DEF W!broadcast, W!sendMessage
    <3>2. joined[c] + Len(sent[c]) <= Len(feed)
      BY <1>s DEF SeesTheFeed
    <3>3. ASSUME NEW i \in 1..Len(sent[c])
          PROVE  sent[c][i] = feed'[joined[c] + i]
      <4>1. joined[c] + i \in 1..Len(feed)
        BY <3>2, <1>t
      <4> QED BY <4>1, <2>1, <1>s DEF SeesTheFeed
    <3>4. joined[c] + Len(sent[c]) <= Len(feed')
      BY <3>2, <2>1, <1>t
    <3> QED BY <3>1, <3>3, <3>4, <2>3, <1>s DEF SeesTheFeed
  <2> QED BY <2>2, <2>3
<1> QED BY <1>1, <1>2

(* Nothing is sent, and connections that were not open do not become open. *)
LEMMA LeavingKeepsFeed ==
  ASSUME W!EveryClientSeesTheFeed, UNCHANGED <<sent, feed, joined>>,
         \A c \in Client : conn'[c] \in {conn[c], "dropped", "lost"}
                           \/ (conn[c] = "new" /\ conn'[c] = "denied")
  PROVE  W!EveryClientSeesTheFeed'
BY DEF W!EveryClientSeesTheFeed

LEMMA StepFeed ==
  PhaseInv /\ W!SubscribersAreConnections /\ W!EveryClientSeesTheFeed
    /\ [W!Next]_W!vars
    => W!EveryClientSeesTheFeed'
<1> SUFFICES ASSUME PhaseInv, W!SubscribersAreConnections,
                    W!EveryClientSeesTheFeed, [W!Next]_W!vars
             PROVE  W!EveryClientSeesTheFeed'
  OBVIOUS
<1>1. CASE W!Run \/ W!RunCalls \/ W!callFromThread \/ UNCHANGED W!vars
  BY <1>1 DEF W!Run, W!RunCalls, W!callFromThread, W!socketVars, W!vars,
              W!EveryClientSeesTheFeed
<1>2. CASE W!RunCall
  <2>1. handed[ran + 1] \in W!Message
    BY <1>2, LineIsMessage DEF W!RunCall
  <2> QED BY <1>2, <2>1, BroadcastKeepsFeed DEF W!RunCall
<1>3. CASE \E c \in Client : W!Serve(c)
  <2> PICK d \in Client : W!Serve(d)
    BY <1>3
  <2>1. CASE W!onMessage(d)
    BY <2>1, ReplyIsMessage, BroadcastKeepsFeed DEF W!onMessage
  <2>2. CASE \E h \in W!Headers, offer \in W!Offers : W!onConnect(d, h, offer)
    <3> PICK h \in W!Headers, offer \in W!Offers : W!onConnect(d, h, offer)
      BY <2>2
    <3>1. CASE ~W!auth_status(h)
      <4>1. \A c \in Client : conn'[c] = conn[c]
                              \/ (conn[c] = "new" /\ conn'[c] = "denied")
        BY <3>1 DEF W!onConnect, W!Deny, PhaseInv, W!TypeOK
      <4> QED BY <3>1, <4>1, LeavingKeepsFeed DEF W!onConnect, W!Deny
    <3>2. CASE W!auth_status(h)
      <4> SUFFICES ASSUME NEW c \in Client PROVE SeesTheFeed(c)'
        BY DEF W!EveryClientSeesTheFeed, SeesTheFeed
      <4>s. SeesTheFeed(c)
        BY DEF W!EveryClientSeesTheFeed, SeesTheFeed
      <4>u. UNCHANGED <<sent, feed>> /\ conn[d] = "new"
        BY DEF W!onConnect
      <4>1. CASE c = d
        <5>1. sent[c] = <<>>
          BY <4>1, <4>s, <4>u DEF SeesTheFeed
        <5>2. conn'[c] \in {"open", "dropped"} /\ joined'[c] = Len(feed)
          BY <3>2, <4>1 DEF W!onConnect, W!Accept, W!Accepted, PhaseInv, W!TypeOK
        <5>3. Len(sent[c]) = 0 /\ Len(feed) \in Nat
          BY <5>1, LenProperties DEF PhaseInv, W!TypeOK
        <5> QED BY <5>1, <5>2, <5>3, <4>u DEF SeesTheFeed
      <4>2. CASE c # d
        <5>1. conn'[c] = conn[c] /\ joined'[c] = joined[c]
          BY <3>2, <4>2 DEF W!onConnect, W!Accept, PhaseInv, W!TypeOK
        <5> QED BY <5>1, <4>s, <4>u DEF SeesTheFeed
      <4> QED BY <4>1, <4>2
    <3> QED BY <3>1, <3>2
  <2>3. CASE W!OnMessageRaises(d) \/ W!ConnectionLost(d) \/ W!DropConnection(d)
    <3>1. \A c \in Client : conn'[c] \in {conn[c], "dropped", "lost"}
      BY <2>3 DEF W!OnMessageRaises, W!ConnectionLost, W!DropConnection,
                  W!Lose,
                  PhaseInv, W!TypeOK
    <3>2. UNCHANGED <<sent, feed, joined>>
      BY <2>3 DEF W!OnMessageRaises, W!ConnectionLost, W!DropConnection
    <3> QED BY <3>1, <3>2, LeavingKeepsFeed
  <2>4. CASE W!FailHandshake(d)
    <3>1. \A c \in Client : conn'[c] = conn[c]
                            \/ (conn[c] = "new" /\ conn'[c] = "denied")
      BY <2>4 DEF W!FailHandshake, W!Deny, PhaseInv, W!TypeOK
    <3> QED BY <2>4, <3>1, LeavingKeepsFeed DEF W!FailHandshake, W!Deny
  <2> QED BY <2>1, <2>2, <2>3, <2>4 DEF W!Serve
<1> QED BY <1>1, <1>2, <1>3 DEF W!Next, W!ReactorNext

-----------------------------------------------------------------------------
LEMMA InitWebsocket == W!Init => WebsocketInv
<1> SUFFICES ASSUME W!Init PROVE WebsocketInv
  OBVIOUS
<1>1. W!SubscribersAreConnections
  BY DEF W!Init, W!SubscribersAreConnections
<1>2. W!EveryClientSeesTheFeed
  <2> SUFFICES ASSUME NEW c \in Client PROVE SeesTheFeed(c)
    BY DEF W!EveryClientSeesTheFeed, SeesTheFeed
  <2>1. sent[c] = <<>> /\ feed = <<>> /\ joined[c] = 0
    BY DEF W!Init
  <2>2. Len(sent[c]) = 0 /\ Len(feed) = 0
    BY <2>1
  <2> QED BY <2>1, <2>2 DEF SeesTheFeed
<1> QED BY <1>1, <1>2, InitPhase DEF WebsocketInv

LEMMA StepWebsocket == WebsocketInv /\ [W!Next]_W!vars => WebsocketInv'
BY StepPhase, StepSubscribers, StepFeed DEF WebsocketInv

LEMMA WebsocketInvHolds == W!Spec => []WebsocketInv
BY InitWebsocket, StepWebsocket, PTL DEF W!Spec

(* The subscribers are the authenticated connections that are not lost,      *)
(* whichever way they end (websocket.py 16-32, 65-70, 88-105).               *)
THEOREM SubscribersAreConnectionsHolds ==
  W!Spec => []W!SubscribersAreConnections
<1>1. WebsocketInv => W!SubscribersAreConnections
  BY DEF WebsocketInv
<1> QED BY WebsocketInvHolds, <1>1, PTL

(* Every client sees one and the same feed from where it joined              *)
(* (websocket.py 107-112).                                                   *)
THEOREM EveryClientSeesTheFeedOfWebsocket ==
  W!Spec => []W!EveryClientSeesTheFeed
<1>1. WebsocketInv => W!EveryClientSeesTheFeed
  BY DEF WebsocketInv
<1> QED BY WebsocketInvHolds, <1>1, PTL

LEMMA BroadcastToTheOpen ==
  ASSUME WebsocketInv, NEW m \in W!Message, W!broadcast(m), NEW c \in Client
  PROVE  sent'[c] # sent[c] <=> feed' # feed /\ conn[c] = "open"
<1>1. \A s \in Seq(W!Message) : Append(s, m) # s
  BY AppendProperties
<1>2. feed \in Seq(W!Message) /\ sent[c] \in Seq(W!Message)
  BY DEF WebsocketInv, PhaseInv, W!TypeOK
<1>3. conn[c] = "open" => c \in subscribers
  BY DEF WebsocketInv, W!SubscribersAreConnections
<1>4. CASE m \in NonAscii
  BY <1>4 DEF W!broadcast
<1>5. CASE m \notin NonAscii
  <2>1. feed' # feed
    BY <1>1, <1>2, <1>5 DEF W!broadcast
  <2> QED BY <1>1, <1>2, <1>3, <1>5, <2>1 DEF W!broadcast, W!sendMessage
<1> QED BY <1>4, <1>5

(* A broadcast reaches exactly the connections that are open at that moment  *)
(* (websocket.py 107-112).                                                   *)
THEOREM BroadcastReachesTheOpenOfWebsocket ==
  W!Spec => W!BroadcastReachesTheOpen
<1> DEFINE ReachesTheOpen ==
      \A c \in Client : sent'[c] # sent[c] <=> feed' # feed /\ conn[c] = "open"
<1>1. WebsocketInv /\ [W!Next]_W!vars => [ReachesTheOpen]_W!vars
  <2> SUFFICES ASSUME WebsocketInv, [W!Next]_W!vars PROVE ReachesTheOpen
    OBVIOUS
  <2>1. CASE UNCHANGED <<sent, feed>>
    BY <2>1
  <2>2. CASE W!RunCall
    <3>1. handed[ran + 1] \in W!Message
      BY <2>2, LineIsMessage DEF W!RunCall, WebsocketInv
    <3> QED BY <2>2, <3>1, BroadcastToTheOpen DEF W!RunCall
  <2>3. CASE \E c \in Client : W!onMessage(c)
    BY <2>3, ReplyIsMessage, BroadcastToTheOpen DEF W!onMessage
  <2>4. CASE W!Run \/ W!RunCalls \/ W!callFromThread \/ UNCHANGED W!vars
    BY <2>4, <2>1 DEF W!Run, W!RunCalls, W!callFromThread, W!socketVars, W!vars
  <2>5. CASE \E c \in Client : \/ \E h \in W!Headers, offer \in W!Offers :
                                    W!onConnect(c, h, offer)
                               \/ W!OnMessageRaises(c)
                               \/ W!FailHandshake(c)
                               \/ W!DropConnection(c)
                               \/ W!ConnectionLost(c)
    BY <2>5, <2>1
    DEF W!onConnect, W!FailHandshake, W!OnMessageRaises, W!DropConnection,
        W!ConnectionLost
  <2> QED BY <2>2, <2>3, <2>4, <2>5 DEF W!Next, W!ReactorNext, W!Serve
<1> QED BY WebsocketInvHolds, <1>1, PTL DEF W!Spec, W!BroadcastReachesTheOpen

-----------------------------------------------------------------------------
(* What connection c can do in a step, with the subscribers going along. *)
LEMMA StepLife ==
  ASSUME WebsocketInv, [W!Next]_W!vars, NEW c \in Client
  PROVE  W!Life(c)!Next \/ UNCHANGED W!Life(c)!vars
<1> USE DEF W!Life!vars, W!Life!Next, W!Life!Accept, W!Life!Refuse,
            W!Life!AcceptInVain, W!Life!Drop, W!Life!Lose
<1>t. conn \in [Client -> W!Conn] /\ subscribers \subseteq Client
  BY DEF WebsocketInv, PhaseInv, W!TypeOK
<1>m. (c \in subscribers) <=> conn[c] \in {"open", "dropped"}
  BY DEF WebsocketInv, W!SubscribersAreConnections
<1>1. CASE UNCHANGED <<conn, subscribers>>
  BY <1>1
<1>2. CASE \/ W!Run \/ W!RunCalls \/ W!RunCall \/ W!callFromThread
           \/ UNCHANGED W!vars
  BY <1>1, <1>2
  DEF W!Run, W!RunCalls, W!RunCall, W!callFromThread, W!socketVars, W!vars
<1>3. CASE \E d \in Client : W!Serve(d)
  <2> PICK d \in Client : W!Serve(d)
    BY <1>3
  <2>1. CASE W!onMessage(d)
    BY <2>1, <1>1 DEF W!onMessage
  <2>2. CASE \E h \in W!Headers, offer \in W!Offers : W!onConnect(d, h, offer)
    BY <2>2, <1>t, <1>m
    DEF W!onConnect, W!Accept, W!Accepted, W!Deny, W!add_client
  <2>3. CASE W!FailHandshake(d)
    BY <2>3, <1>t, <1>m DEF W!FailHandshake, W!Deny
  <2>4. CASE W!OnMessageRaises(d) \/ W!ConnectionLost(d)
    BY <2>4, <1>t, <1>m
    DEF W!OnMessageRaises, W!ConnectionLost, W!Lose, W!remove_client
  <2>5. CASE W!DropConnection(d)
    BY <2>5, <1>t, <1>m DEF W!DropConnection
  <2> QED BY <2>1, <2>2, <2>3, <2>4, <2>5 DEF W!Serve
<1> QED BY <1>2, <1>3 DEF W!Next, W!ReactorNext

(* However the connections interleave, each lives the life of module         *)
(* ConnectionLife: one acceptance, be it in vain, one loss, and a member      *)
(* exactly in between (websocket.py 16-32, 65-70, 88-105, protocol.py         *)
(* 3157-3165).                                                               *)
THEOREM EachLivesOfWebsocket == W!Spec => W!EachLives
<1> DEFINE Lives ==
      \A c \in Client : W!Life(c)!Next \/ UNCHANGED W!Life(c)!vars
<1>1. W!Init => \A c \in Client : W!Life(c)!Init
  BY DEF W!Init, W!Life!Init
<1>2. WebsocketInv /\ [W!Next]_W!vars => [Lives]_W!vars
  BY StepLife
<1> QED BY WebsocketInvHolds, <1>1, <1>2, PTL DEF W!Spec, W!EachLives

(* The reactor of this module runs the calls as module ThreadCalls says      *)
(* (websocket.py 145-149, base.py 787-806).                                  *)
THEOREM LinesAreCallsHolds == W!Spec => W!LinesAreCalls
<1> USE DEF W!Calls!vars, W!Calls!Next, W!Calls!Hand, W!Calls!RunCalls,
            W!Calls!RunCall
<1>1. W!Init => W!Calls!Init
  BY DEF W!Init, W!Calls!Init
<1>2. WebsocketInv /\ [W!Next]_W!vars => [W!Calls!Next]_(W!Calls!vars)
  <2> SUFFICES ASSUME WebsocketInv, [W!Next]_W!vars
               PROVE  W!Calls!Next \/ UNCHANGED W!Calls!vars
    OBVIOUS
  <2>1. CASE W!callFromThread
    <3>1. W!LastHanded \in Nat
      BY LastHandedIsNat DEF WebsocketInv
    <3>2. \E n \in 1..MaxLines : handed' = Append(handed, n)
      BY <2>1, <3>1, LinuinoAssumption DEF W!callFromThread
    <3> QED BY <2>1, <3>2 DEF W!callFromThread, W!socketVars
  <2>2. CASE W!Run \/ W!RunCalls \/ W!RunCall \/ UNCHANGED W!vars
    BY <2>2 DEF W!Run, W!RunCalls, W!RunCall, W!vars
  <2>3. CASE \E c \in Client : W!Serve(c)
    BY <2>3 DEF W!Serve, W!onConnect, W!FailHandshake, W!onMessage,
                W!OnMessageRaises, W!DropConnection, W!ConnectionLost
  <2> QED BY <2>1, <2>2, <2>3 DEF W!Next, W!ReactorNext
<1> QED BY WebsocketInvHolds, <1>1, <1>2, PTL
        DEF W!Spec, W!LinesAreCalls, W!Calls!Spec

-----------------------------------------------------------------------------
(* The daemon *)

(* Both components at once. *)
LinuinoInv == DataInv /\ WebsocketInv

-----------------------------------------------------------------------------
(* The reactor runs a call only when there is one. *)
LEMMA CallIsThere ==
  ASSUME LinuinoInv, batch > 0
  PROVE  /\ handed \in Seq(1..MaxLines)
         /\ ran \in Nat /\ ran < Len(handed)
<1>1. W!TypeOK /\ W!BatchInQueue
  BY DEF LinuinoInv, WebsocketInv, PhaseInv
<1> QED BY <1>1 DEF W!TypeOK, W!BatchInQueue

(* The socket's turn comes after the logger's, with a line that is newer     *)
(* than what was handed over before.                                         *)
LEMMA SocketTurn ==
  ASSUME LinuinoInv, D!Notifying("socket")
  PROVE  /\ next = 2 /\ main = "idle" /\ lines \in 1..MaxLines
         /\ handed \in Seq(1..MaxLines)
         /\ handed # <<>> => handed[Len(handed)] < lines
<1>1. /\ DataTypeInv /\ Registration /\ RoundOfNotify
      /\ D!HandedIsEndOfLog
  BY DEF LinuinoInv, DataInv
<1>2. thread = "notify" /\ next \in 1..Len(observers)
      /\ observers[next] = "socket"
  BY <1>1 DEF D!Notifying, DataTypeInv, D!TypeOK, LineInHand
<1>3. next = 2 /\ main = "idle"
  BY <1>1, <1>2 DEF Registration, DataTypeInv, D!TypeOK, D!MainPc
<1>4. thread = "notify"
  BY <1>2
<1>5. /\ lines \in 1..MaxLines
      /\ handed \in Seq(1..MaxLines) /\ log \in Seq(1..MaxLines)
  BY <1>1, <1>4, LinuinoAssumption DEF DataTypeInv, D!TypeOK, LineInHand
<1>6. log # <<>> /\ log[Len(log)] = lines
  BY <1>1, <1>3, <1>4 DEF RoundOfNotify
<1>7. ASSUME handed # <<>> PROVE handed[Len(handed)] < lines
  <2>1. /\ Len(handed) \in 1..Len(handed)
        /\ Len(handed) <= Len(log) - 1
        /\ handed[Len(handed)] = log[Len(log) - 1 - Len(handed) + Len(handed)]
    BY <1>1, <1>3, <1>4, <1>5, <1>7 DEF D!HandedIsEndOfLog, D!InBetween
  <2>2. /\ Len(log) - 1 \in 1..Len(log) /\ Len(log) \in 1..Len(log)
        /\ handed[Len(handed)] = log[Len(log) - 1]
    BY <1>5, <2>1
  <2>3. log[Len(log) - 1] < log[Len(log)]
    <3>1. \A i, j \in 1..Len(log) : i < j => log[i] < log[j]
      BY <1>1 DEF D!HandedIsEndOfLog
    <3>2. Len(log) - 1 < Len(log)
      BY <1>5
    <3> QED BY ONLY <2>2, <3>1, <3>2
  <2> QED BY <1>6, <2>2, <2>3
<1> QED BY <1>3, <1>5, <1>7

(* What the Data thread hands over is what the reactor expects. *)
LEMMA HandOver ==
  ASSUME LinuinoInv, D!NotifySocket, UNCHANGED socketVars
  PROVE  W!callFromThread
<1>1. /\ lines \in 1..MaxLines /\ handed \in Seq(1..MaxLines)
      /\ handed # <<>> => handed[Len(handed)] < lines
  BY SocketTurn DEF D!NotifySocket
<1>2. W!LastHanded < lines /\ W!LastHanded \in Nat
  BY <1>1, LinuinoAssumption DEF W!LastHanded
<1>3. lines \in W!LastHanded + 1 .. MaxLines
  BY <1>1, <1>2, LinuinoAssumption
<1>4. handed' = Append(handed, lines) /\ UNCHANGED ran
  BY DEF D!NotifySocket, D!callFromThread
<1> QED BY <1>3, <1>4 DEF W!callFromThread, W!socketVars, socketVars

-----------------------------------------------------------------------------
(* A step of the daemon is one of module Data, or none. *)
LEMMA StepOfData == LinuinoInv /\ [Next]_vars => [D!Next]_D!vars
<1> SUFFICES ASSUME LinuinoInv, [Next]_vars PROVE [D!Next]_D!vars
  OBVIOUS
<1>1. CASE MainStep \/ DataStep
  BY <1>1 DEF MainStep, DataStep, D!Next
<1>2. CASE ReactorStep
  <2>1. CASE W!RunCall
    <3>1. ran < Len(handed)
      BY <2>1, CallIsThere DEF W!RunCall
    <3>2. ran' = ran + 1 /\ UNCHANGED handed
      BY <2>1 DEF W!RunCall
    <3>3. UNCHANGED D!dataVars
      BY <1>2 DEF ReactorStep, dataVars, D!dataVars
    <3> QED BY <3>1, <3>2, <3>3 DEF D!RunCall, D!Next
  <2>2. CASE W!Run \/ W!RunCalls \/ \E c \in Client : W!Serve(c)
    <3>1. UNCHANGED <<handed, ran>>
      BY <2>2 DEF W!Run, W!RunCalls, W!Serve, W!onConnect, W!FailHandshake,
                  W!onMessage, W!OnMessageRaises, W!DropConnection,
                  W!ConnectionLost
    <3> QED BY <1>2, <3>1 DEF ReactorStep, dataVars, D!vars
  <2> QED BY <1>2, <2>1, <2>2 DEF ReactorStep, W!ReactorNext
<1>3. CASE UNCHANGED vars
  BY <1>3 DEF vars, D!vars
<1> QED BY <1>1, <1>2, <1>3 DEF Next

(* It is also one of module Websocket, or none. *)
LEMMA StepOfWebsocket == LinuinoInv /\ [Next]_vars => [W!Next]_W!vars
<1> SUFFICES ASSUME LinuinoInv, [Next]_vars PROVE [W!Next]_W!vars
  OBVIOUS
<1>1. CASE ReactorStep
  BY <1>1 DEF ReactorStep, W!Next
<1>2. CASE MainStep
  <2>1. UNCHANGED <<handed, ran>>
    BY <1>2 DEF MainStep, D!MainNext, D!StartData, D!StartSocket, D!OpenLog,
                D!AddLogger, D!AddSocket
  <2> QED BY <1>2, <2>1 DEF MainStep, socketVars, W!vars
<1>3. CASE DataStep
  <2>1. CASE D!NotifySocket
    BY <1>3, <2>1, HandOver DEF DataStep, W!Next
  <2>2. CASE ~D!NotifySocket
    <3>1. UNCHANGED <<handed, ran>>
      BY <1>3, <2>2 DEF DataStep, D!ThreadNext, D!OpenPort, D!ReadLine,
                        D!ReadError, D!Wake, D!Put, D!notify, D!NotifyLogger,
                        D!NotifyLoggerFails, D!NotifyDone
    <3> QED BY <1>3, <3>1 DEF DataStep, socketVars, W!vars
  <2> QED BY <2>1, <2>2
<1>4. CASE UNCHANGED vars
  BY <1>4 DEF vars, W!vars
<1> QED BY <1>1, <1>2, <1>3, <1>4 DEF Next

-----------------------------------------------------------------------------
LEMMA InitBoth == Init => D!Init /\ W!Init
BY DEF Init

(* The invariants of the components hold of the daemon. *)
LEMMA LinuinoInvHolds == Spec => []LinuinoInv
<1>1. Init => LinuinoInv
  BY InitBoth, InitData, InitWebsocket DEF LinuinoInv
<1>2. LinuinoInv /\ [Next]_vars => LinuinoInv'
  <2> SUFFICES ASSUME LinuinoInv, [Next]_vars PROVE LinuinoInv'
    OBVIOUS
  <2>1. [D!Next]_D!vars
    BY StepOfData
  <2>2. [W!Next]_W!vars
    BY StepOfWebsocket
  <2> QED BY <2>1, <2>2, StepData, StepWebsocket DEF LinuinoInv
<1> QED BY <1>1, <1>2, PTL DEF Spec

(* The main thread, the Data thread and the reactor, put together, keep to   *)
(* what each module assumes of the other side of threadCallQueue (main.py    *)
(* 20-50): what is shown of Data and of Websocket holds of the daemon.       *)
THEOREM ComponentsSpecHolds == Spec => ComponentsSpec
<1>1. Init => D!Init /\ W!Init
  BY DEF Init
<1> QED BY <1>1, LinuinoInvHolds, StepOfData, StepOfWebsocket, PTL
        DEF Spec, ComponentsSpec, D!Spec, W!Spec

(* So the reactor of the daemon is handed a gap-free end of an ordered log,  *)
(* whichever thread is ahead (data.py 55-58, main.py 43-45).                 *)
THEOREM HandedIsEndOfLogHolds == Spec => []HandedIsEndOfLog
BY ComponentsSpecHolds, HandedIsEndOfLogOfData, PTL
   DEF ComponentsSpec, HandedIsEndOfLog

(* A round of notify that ends normally has reached the observers that main  *)
(* had registered by then (data.py 55-58, main.py 43-45).                    *)
THEOREM NoObserverSkippedHolds == Spec => NoObserverSkipped
BY ComponentsSpecHolds, NoObserverSkippedOfData, PTL
   DEF ComponentsSpec, NoObserverSkipped

(* All clients of the daemon see one feed from where they joined             *)
(* (websocket.py 107-112, 145-149).                                          *)
THEOREM EveryClientSeesTheFeedHolds == Spec => []EveryClientSeesTheFeed
BY ComponentsSpecHolds, EveryClientSeesTheFeedOfWebsocket, PTL
   DEF ComponentsSpec, EveryClientSeesTheFeed

(* Lines and answers reach exactly the clients that are connected when they  *)
(* are sent (websocket.py 30-32, 65-70, 107-112).                            *)
THEOREM BroadcastReachesTheOpenHolds == Spec => BroadcastReachesTheOpen
BY ComponentsSpecHolds, BroadcastReachesTheOpenOfWebsocket, PTL
   DEF ComponentsSpec, BroadcastReachesTheOpen

(* Every connection to the daemon lives the life of ConnectionLife           *)
(* (websocket.py 16-32, 65-70, 88-105).                                      *)
THEOREM EachLivesHolds == Spec => EachLives
BY ComponentsSpecHolds, EachLivesOfWebsocket, PTL DEF ComponentsSpec, EachLives

-----------------------------------------------------------------------------
(* How many lines of the log have had their turn, and who sees the feed. *)
Turn    == Len(log) - (Len(handed) - ran) - (IF D!InBetween THEN 1 ELSE 0)
Members == {c \in Client : conn[c] = "open"}

RelayState == <<log, Turn, main = "idle", Members, sent>>

(* The logs and the queue are sequences of lines. *)
LEMMA Types ==
  ASSUME LinuinoInv
  PROVE  /\ log \in Seq(1..MaxLines) /\ handed \in Seq(1..MaxLines)
         /\ ran \in Nat /\ ran <= Len(handed)
         /\ Len(log) \in Nat /\ Len(handed) \in Nat
         /\ next \in Nat /\ lines \in 0..MaxLines
BY DEF LinuinoInv, DataInv, DataTypeInv, D!TypeOK

(* The logger has its turn first, with a line newer than the log. *)
LEMMA LoggerTurn ==
  ASSUME LinuinoInv, D!Notifying("logger")
  PROVE  /\ next = 1 /\ lines \in 1..MaxLines
         /\ \A i \in 1..Len(log) : log[i] < lines
<1>1. /\ DataTypeInv /\ Registration /\ FreshLine
  BY DEF LinuinoInv, DataInv
<1>2. thread = "notify" /\ next \in 1..Len(observers)
      /\ observers[next] = "logger"
  BY <1>1 DEF D!Notifying, DataTypeInv, D!TypeOK, LineInHand
<1>3. next = 1
  BY <1>1, <1>2 DEF Registration, DataTypeInv, D!TypeOK, D!MainPc
<1>4. lines \in 1..MaxLines
  BY <1>1, <1>2, LinuinoAssumption DEF DataTypeInv, D!TypeOK, LineInHand
<1>5. \A i \in 1..Len(log) : log[i] < lines
  BY <1>1, <1>2, <1>3 DEF FreshLine, Unlogged
<1> QED BY <1>3, <1>4, <1>5

(* The line the reactor broadcasts is the one of the log whose turn it is. *)
LEMMA CallHasItsTurn ==
  ASSUME LinuinoInv, batch > 0
  PROVE  /\ main = "idle"
         /\ Turn \in Nat /\ Turn < Len(log)
         /\ handed[ran + 1] = log[Turn + 1]
<1>1. Registration /\ D!HandedIsEndOfLog
  BY DEF LinuinoInv, DataInv
<1>2. ran < Len(handed) /\ ran + 1 \in 1..Len(handed)
  BY CallIsThere, Types
<1>3. main = "idle"
  BY <1>1, <1>2, Types DEF Registration
<1> DEFINE done == Len(log) - (IF D!InBetween THEN 1 ELSE 0)
<1>4. done \in Int /\ done <= Len(log) /\ Turn = done - (Len(handed) - ran)
  BY Types DEF Turn
<1>5. /\ Len(handed) <= done
      /\ \A i \in 1..Len(handed) : handed[i] = log[done - Len(handed) + i]
  BY <1>1 DEF D!HandedIsEndOfLog, D!InBetween, D!InBetween
<1> HIDE DEF done
<1>6. Turn \in Nat /\ Turn < Len(log)
  BY <1>2, <1>4, <1>5, Types
<1>7. done - Len(handed) + (ran + 1) = Turn + 1
  BY <1>4, Types
<1>8. handed[ran + 1] = log[Turn + 1]
  BY <1>2, <1>5, <1>7
<1> QED BY <1>3, <1>6, <1>8

(* broadcast reaches the members. *)
LEMMA BroadcastIsToMembers ==
  ASSUME LinuinoInv, NEW m, m \notin NonAscii, W!broadcast(m)
  PROVE  R!SendToMembers(m)
<1>1. subscribers = {c \in Client : conn[c] \in {"open", "dropped"}}
  BY DEF LinuinoInv, WebsocketInv, W!SubscribersAreConnections
<1>2. sent' = [c \in Client |-> IF c \in subscribers /\ conn[c] = "open"
                                THEN Append(sent[c], m) ELSE sent[c]]
  BY DEF W!broadcast, W!sendMessage
<1>3. \A c \in Client : (c \in subscribers /\ conn[c] = "open")
                          <=> c \in Members
  BY <1>1 DEF Members
<1>4. sent' = [c \in Client |-> IF c \in Members THEN Append(sent[c], m)
                                                 ELSE sent[c]]
  BY <1>2, <1>3
<1> QED BY <1>4 DEF R!SendToMembers, Members

-----------------------------------------------------------------------------
(* The main thread only makes the daemon live. *)
LEMMA MainRelays ==
  ASSUME LinuinoInv, MainStep
  PROVE  R!Next \/ UNCHANGED RelayState
<1>1. /\ UNCHANGED <<log, handed, ran, conn, sent>>
      /\ main = "idle" => main' = "idle"
  BY DEF MainStep, socketVars, D!MainNext, D!StartData, D!StartSocket,
         D!OpenLog, D!AddLogger, D!AddSocket
<1>2. D!InBetween' <=> D!InBetween
  BY DEF LinuinoInv, DataInv, Registration, MainStep, D!MainNext,
         D!StartData, D!StartSocket, D!OpenLog, D!AddLogger, D!AddSocket,
         D!InBetween
<1>3. UNCHANGED <<log, Turn, Members, sent>>
  BY <1>1, <1>2 DEF Turn, Members
<1>4. CASE main' = "idle"
  BY <1>3, <1>4 DEF R!Next, R!GoLive, Turn, Members
<1>5. CASE main' # "idle"
  BY <1>1, <1>3, <1>5 DEF RelayState
<1> QED BY <1>4, <1>5

(* The Data thread records lines, and passes over those whose round ends     *)
(* before there is a socket to hand them to.                                 *)
LEMMA DataRelays ==
  ASSUME LinuinoInv, DataStep
  PROVE  R!Next \/ UNCHANGED RelayState
<1>1. UNCHANGED <<main, ran, conn, sent, Members>>
  BY DEF DataStep, socketVars, D!ThreadNext, D!OpenPort, D!ReadLine,
         D!ReadError, D!Wake, D!Put, D!notify, D!NotifyLogger,
         D!NotifyLoggerFails, D!NotifySocket, D!NotifyDone, Members
<1>2. CASE D!OpenPort \/ D!ReadLine \/ D!ReadError \/ D!Wake \/ D!Put
  <2>1. UNCHANGED <<log, handed>> /\ ~D!InBetween /\ ~D!InBetween'
    BY <1>2 DEF D!OpenPort, D!ReadLine, D!ReadError, D!Wake, D!Put,
                D!InBetween
  <2> QED BY <1>1, <2>1 DEF RelayState, Turn
<1>3. CASE D!NotifyLogger
  <2>1. /\ next = 1 /\ lines \in 1..MaxLines
        /\ \A i \in 1..Len(log) : log[i] < lines
    BY <1>3, LoggerTurn DEF D!NotifyLogger
  <2>2. log' = Append(log, lines) /\ UNCHANGED handed
    BY <1>3 DEF D!NotifyLogger, D!write_line
  <2>3. ~D!InBetween /\ D!InBetween'
    BY <1>3, <2>1 DEF D!NotifyLogger, D!Notifying, D!InBetween
  <2>4. Len(log') = Len(log) + 1
    BY <2>2, Types
  <2>5. Turn' = Turn
    BY <1>1, <2>2, <2>3, <2>4, Types DEF Turn
  <2>6. R!LastRecorded < lines /\ R!LastRecorded \in Nat
    BY <2>1, Types, LinuinoAssumption DEF R!LastRecorded
  <2>7. lines \in R!LastRecorded + 1 .. MaxLines
    BY <2>1, <2>6, LinuinoAssumption
  <2>8. R!Record
    BY <1>1, <2>2, <2>5, <2>7 DEF R!Record, Turn, Members
  <2> QED BY <2>8 DEF R!Next
<1>4. CASE D!NotifyLoggerFails
  <2>1. ~D!InBetween
    BY <1>4, LoggerTurn DEF D!NotifyLoggerFails, D!InBetween
  <2>2. UNCHANGED <<log, handed>> /\ ~D!InBetween'
    BY <1>4 DEF D!NotifyLoggerFails, D!InBetween
  <2> QED BY <1>1, <2>1, <2>2 DEF RelayState, Turn
<1>5. CASE D!NotifySocket
  <2>1. next = 2
    BY <1>5, SocketTurn DEF D!NotifySocket
  <2>2. UNCHANGED log /\ handed' = Append(handed, lines)
    BY <1>5 DEF D!NotifySocket, D!callFromThread
  <2>3. D!InBetween /\ ~D!InBetween'
    BY <1>5, <2>1 DEF D!NotifySocket, D!Notifying, D!InBetween
  <2>4. Len(handed') = Len(handed) + 1
    BY <2>2, Types
  <2>5. Turn' = Turn
    BY <1>1, <2>2, <2>3, <2>4, Types DEF Turn
  <2> QED BY <1>1, <2>2, <2>5 DEF RelayState
<1>6. CASE D!NotifyDone
  <2>1. UNCHANGED <<log, handed>> /\ ~D!InBetween'
    BY <1>6 DEF D!NotifyDone, D!InBetween
  <2>2. CASE ~D!InBetween
    BY <1>1, <2>1, <2>2 DEF RelayState, Turn
  <2>3. CASE D!InBetween
    <3>1. main # "idle"
      BY <1>6, <2>3 DEF D!NotifyDone, D!InBetween, LinuinoInv, DataInv,
                        Registration
    <3>2. Turn' = Turn + 1 /\ Turn < Len(log)
      BY <1>1, <2>1, <2>3, Types DEF Turn
    <3>3. R!PassOver
      BY <1>1, <2>1, <3>1, <3>2 DEF R!PassOver, Turn, Members
    <3> QED BY <3>3 DEF R!Next
  <2> QED BY <2>2, <2>3
<1> QED BY <1>2, <1>3, <1>4, <1>5, <1>6 DEF DataStep, D!ThreadNext, D!notify

(* The reactor publishes, answers, and lets clients come and go. *)
LEMMA ReactorRelays ==
  ASSUME LinuinoInv, ReactorStep
  PROVE  R!Next \/ UNCHANGED RelayState
<1>1. /\ UNCHANGED <<main, log, handed>>
      /\ D!InBetween' <=> D!InBetween
  BY DEF ReactorStep, dataVars, D!InBetween, W!ReactorNext, W!Run, W!RunCalls,
         W!RunCall, W!Serve, W!onConnect, W!FailHandshake, W!onMessage,
         W!OnMessageRaises, W!DropConnection, W!ConnectionLost
<1>2. CASE W!Run \/ W!RunCalls
  BY <1>1, <1>2 DEF W!Run, W!RunCalls, RelayState, Turn, Members
<1>3. CASE W!RunCall
  <2>1. /\ main = "idle" /\ Turn \in Nat /\ Turn < Len(log)
        /\ handed[ran + 1] = log[Turn + 1]
    BY <1>3, CallHasItsTurn DEF W!RunCall
  <2>2. ran' = ran + 1 /\ UNCHANGED conn /\ W!broadcast(handed[ran + 1])
    BY <1>3 DEF W!RunCall
  <2>3. Turn' = Turn + 1
    BY <1>1, <2>2, Types DEF Turn
  <2>4. IF log[Turn + 1] \in NonAscii THEN UNCHANGED sent
                                      ELSE R!SendToMembers(log[Turn + 1])
    <3>1. CASE log[Turn + 1] \in NonAscii
      BY <2>1, <2>2, <3>1 DEF W!broadcast
    <3>2. CASE log[Turn + 1] \notin NonAscii
      BY <2>1, <2>2, <3>2, BroadcastIsToMembers
    <3> QED BY <3>1, <3>2
  <2>5. R!Publish
    BY <1>1, <2>1, <2>2, <2>3, <2>4 DEF R!Publish, Turn, Members
  <2> QED BY <2>5 DEF R!Next
<1>4. ASSUME NEW c \in Client, W!Serve(c)
      PROVE  R!Next \/ UNCHANGED RelayState
  <2>1. /\ conn \in [Client -> W!Conn]
        /\ conn[c] = "new" => sent[c] = <<>>
    BY DEF LinuinoInv, WebsocketInv, PhaseInv, W!TypeOK, W!Conn,
           W!Conn, W!EveryClientSeesTheFeed
  <2>2. UNCHANGED Turn
    BY <1>1, <1>4 DEF Turn, W!Serve, W!onConnect, W!FailHandshake,
                      W!onMessage, W!OnMessageRaises, W!DropConnection,
                      W!ConnectionLost
  <2>3. ASSUME UNCHANGED sent,
               \E s \in W!Conn \ {"open"} : conn' = [conn EXCEPT ![c] = s]
        PROVE  R!Next
    <3>1. Members' = Members \ {c}
      BY <2>1, <2>3 DEF Members
    <3>2. R!Leave(c)
      BY <1>1, <2>2, <2>3, <3>1 DEF R!Leave, Turn, Members
    <3> QED BY <3>2 DEF R!Next
  <2>4. ASSUME NEW h \in W!Headers, NEW offer \in W!Offers,
               W!onConnect(c, h, offer)
        PROVE  R!Next
    <3>1. conn[c] = "new" /\ UNCHANGED sent
      BY <2>4 DEF W!onConnect
    <3>2. CASE W!auth_status(h) /\ offer # "broken"
      <4>1. conn' = [conn EXCEPT ![c] = "open"]
        BY <2>4, <3>2 DEF W!onConnect, W!Accept, W!Accepted
      <4>2. c \notin Members /\ Members' = Members \union {c}
        BY <2>1, <3>1, <4>1 DEF Members
      <4>3. R!Join(c)
        BY <1>1, <2>1, <2>2, <3>1, <4>2 DEF R!Join, Turn, Members
      <4> QED BY <4>3 DEF R!Next
    <3>3. CASE ~W!auth_status(h)
      <4>1. conn' = [conn EXCEPT ![c] = "denied"]
        BY <2>4, <3>3 DEF W!onConnect, W!Deny
      <4> QED BY <2>3, <3>1, <4>1 DEF W!Conn
    <3>4. CASE W!auth_status(h) /\ offer = "broken"
      <4>1. conn' = [conn EXCEPT ![c] = "dropped"]
        BY <2>4, <3>4 DEF W!onConnect, W!Accept, W!Accepted
      <4> QED BY <2>3, <3>1, <4>1 DEF W!Conn
    <3> QED BY <3>2, <3>3, <3>4
  <2>5. CASE W!onMessage(c)
    <3>1. 0 \notin NonAscii
      BY LinuinoAssumption
    <3>2. R!SendToMembers(0) /\ UNCHANGED conn
      BY <2>5, <3>1, BroadcastIsToMembers DEF W!onMessage, W!Reply
    <3>3. R!Answer
      BY <1>1, <2>2, <3>2 DEF R!Answer, R!Reply, Turn, Members
    <3> QED BY <3>3 DEF R!Next
  <2>6. CASE W!FailHandshake(c)
    BY <2>3, <2>6 DEF W!FailHandshake, W!Deny, W!Conn
  <2>7. CASE W!OnMessageRaises(c) \/ W!ConnectionLost(c)
    BY <2>3, <2>7 DEF W!OnMessageRaises, W!ConnectionLost, W!Lose, W!Conn
  <2>8. CASE W!DropConnection(c)
    BY <2>3, <2>8 DEF W!DropConnection, W!Conn
  <2> QED BY <1>4, <2>4, <2>5, <2>6, <2>7, <2>8 DEF W!Serve
<1> QED BY <1>2, <1>3, <1>4 DEF ReactorStep, W!ReactorNext

(* From the serial port to the sockets the daemon keeps the promise of Relay *)
(* (main.py 43-45, data.py 55-58, websocket.py 107-149): one log, of which   *)
(* every client is sent a stretch, in order and without gaps but for what    *)
(* cannot be encoded, for any number of lines and clients.                   *)
THEOREM RelaySpecHolds == Spec => RelaySpec
<1>1. Init => R!Init
  <2> SUFFICES ASSUME Init PROVE R!Init
    OBVIOUS
  <2>1. Turn = 0 /\ Members = {} /\ log = <<>>
    BY DEF Init, D!Init, W!Init, D!InBetween, Turn, Members
  <2>2. (main = "idle") = FALSE /\ sent = [c \in Client |-> <<>>]
    BY DEF Init, D!Init, W!Init
  <2> QED BY <2>1, <2>2 DEF R!Init, Turn, Members
<1>2. LinuinoInv /\ [Next]_vars => [R!Next]_R!vars
  <2> SUFFICES ASSUME LinuinoInv, [Next]_vars
               PROVE  R!Next \/ UNCHANGED RelayState
    BY DEF R!vars, RelayState, Turn, Members
  <2>1. CASE Next
    BY <2>1, MainRelays, DataRelays, ReactorRelays DEF Next
  <2>2. CASE UNCHANGED vars
    BY <2>2 DEF vars, RelayState, Turn, Members, D!InBetween
  <2> QED BY <2>1, <2>2
<1> QED BY <1>1, <1>2, LinuinoInvHolds, PTL DEF Spec, RelaySpec, R!Spec
=============================================================================
