-------------------------------- MODULE Reactor --------------------------------
(***************************************************************************)
(* The event loop of the Websocket thread (the vendored                    *)
(* twisted/internet: base.py, posixbase.py, epollreactor.py).              *)
(*                                                                         *)
(* mainLoop goes round: run the calls of other threads, run the timed      *)
(* calls that are due, sleep in epoll until a descriptor is ready or the   *)
(* next timed call is due, serve the descriptors.  Another thread that     *)
(* hands over a call writes a byte to a pipe the loop polls.               *)
(*                                                                         *)
(* A call of another thread is a number.  Whether a call raises makes no   *)
(* difference: runUntilCurrent logs it and goes on.  What the calls and    *)
(* the servants of the descriptors do to the timed calls is UserCode.      *)
(* The heap of timed calls is a set of which the earliest is taken.        *)
(***************************************************************************)
EXTENDS Integers, Sequences, FiniteSets

CONSTANTS Thread,       (* the threads that use callFromThread               *)
          Timer,        (* the DelayedCalls that callLater returns           *)
          PipeSize,     (* bytes the pipe of the waker holds                 *)
          ReadSize,     (* bytes one read of the waker takes (8192)          *)
          Longest,      (* the longest sleep timeout() asks for (2147483 s)  *)
          MaxCancelled, (* cancelled calls that are left in the heap (50)    *)
          MaxCalls,     (* bound: calls handed over                          *)
          MaxEvents,    (* bound: socket events of one poll                  *)
          MaxTime       (* bound: the clock, and the times calls are set for *)

ASSUME ReactorAssumption ==
  /\ IsFiniteSet(Timer)
  /\ PipeSize \in Nat \ {0} /\ ReadSize \in Nat \ {0}
  /\ Longest \in Nat \ {0} /\ MaxCancelled \in Nat
  /\ MaxCalls \in Nat /\ MaxEvents \in Nat /\ MaxTime \in Nat

VARIABLES
  pc,            (* where the loop stands, see Place                         *)
  queue,         (* threadCallQueue                                          *)
  total, count,  (* of the calls found in the queue, how many have been run  *)
  caller,        (* per thread: "idle", or "wake" between append and wakeUp  *)
  pipe,          (* bytes in the pipe of the waker                           *)
  timers,        (* per DelayedCall: a record, see TimedCall                 *)
  cancellations, (* _cancellations                                           *)
  now,           (* the clock                                                *)
  current,       (* the clock as runUntilCurrent read it                     *)
  deadline,      (* when the poll times out; -1: never                       *)
  waker,         (* the poll reported the pipe, which is still to be read    *)
  events,        (* socket events of this poll still to be served            *)
  handed         (* history: the calls handed over                           *)

callVars  == <<queue, total, count, caller, pipe, handed>>
timerVars == <<timers, cancellations>>
vars == <<pc, queue, total, count, caller, pipe, timers, cancellations, now,
          current, deadline, waker, events, handed>>
pollVars  == <<deadline, waker, events>>

Never == -1
Place == {"current", "calls", "delete", "rewake", "insert", "timed", "timeout",
          "poll", "dispatch"}

(* list: "none" (not created), "new" (_newTimedCalls), "pending" (the heap)  *)
(* or "gone"; delay is delayed_time.                                         *)
TimedCall == [list : {"none", "new", "pending", "gone"},
              flag : {"active", "cancelled", "called"},
              time : 0..MaxTime, delay : 0..MaxTime]

TypeOK ==
  /\ pc \in Place
  /\ queue \in Seq(1..MaxCalls)
  /\ total \in Nat /\ count \in 0..total
  /\ caller \in [Thread -> {"idle", "wake"}]
  /\ pipe \in 0..PipeSize
  /\ timers \in [Timer -> TimedCall]
  /\ cancellations \in Int
  /\ now \in 0..MaxTime /\ current \in 0..MaxTime
  /\ deadline \in Int
  /\ waker \in BOOLEAN
  /\ events \in 0..MaxEvents
  /\ handed \in Seq(1..MaxCalls)

Init ==
  /\ pc = "current"
  /\ queue = <<>> /\ total = 0 /\ count = 0
  /\ caller = [t \in Thread |-> "idle"]
  /\ pipe = 0
  /\ timers = [t \in Timer |-> [list |-> "none", flag |-> "active",
                                time |-> 0, delay |-> 0]]
  /\ cancellations = 0
  /\ now = 0 /\ current = 0
  /\ deadline = Never
  /\ waker = FALSE /\ events = 0
  /\ handed = <<>>

-----------------------------------------------------------------------------
(* The other threads. *)

(* EAGAIN, the pipe is full, is ignored: what is in it wakes the reactor. *)
wakeUp == pipe' = IF pipe < PipeSize THEN pipe + 1 ELSE pipe

(* callFromThread is two steps: append to the queue, then wake the reactor. *)
callFromThread(t) ==
  /\ Len(handed) < MaxCalls
  /\ caller[t] = "idle"
  /\ caller' = [caller EXCEPT ![t] = "wake"]
  /\ queue' = Append(queue, Len(handed) + 1)
  /\ handed' = Append(handed, Len(handed) + 1)
  /\ UNCHANGED <<pc, total, count, pipe, timerVars, now, current, pollVars>>

(* Mutant: only the thread that finds the queue empty wakes the reactor. *)
CallerWakesIfFirst(t) ==
  /\ caller[t] = "wake"
  /\ caller' = [caller EXCEPT ![t] = "idle"]
  /\ IF Len(queue) = 1 THEN wakeUp ELSE UNCHANGED pipe
  /\ UNCHANGED <<pc, queue, total, count, handed, timerVars, now, current,
                 pollVars>>

CallerWakes(t) ==
  /\ caller[t] = "wake"
  /\ caller' = [caller EXCEPT ![t] = "idle"]
  /\ wakeUp
  /\ UNCHANGED <<pc, queue, total, count, handed, timerVars, now, current,
                 pollVars>>

-----------------------------------------------------------------------------
(* What a call or a servant may do to the timed calls, as the pairs of       *)
(* <<timers, cancellations>> it may leave.                                   *)

callLater(ts, n, c, seconds) ==
  <<[ts EXCEPT ![c] = [list |-> "new", flag |-> "active",
                       time |-> now + seconds, delay |-> 0]], n>>

cancel(ts, n, c) == <<[ts EXCEPT ![c].flag = "cancelled"], n + 1>>

(* The call with its two times set. *)
SetFor(call, time, delay) ==
  [list |-> call.list, flag |-> call.flag, time |-> time, delay |-> delay]

(* Sooner: the call is moved.  Later: only delayed_time is set, and the call *)
(* stays where it is in the heap until it comes up.                          *)
reset(ts, n, c, seconds) ==
  <<IF now + seconds < ts[c].time
    THEN [ts EXCEPT ![c] = SetFor(@, now + seconds, 0)]
    ELSE [ts EXCEPT ![c] = SetFor(@, @.time, now + seconds - @.time)],
    n>>

(* cancel and reset raise AlreadyCancelled or AlreadyCalled for a call that  *)
(* is not active any more.                                                   *)
UserCode(ts, n) ==
  LET active  == {c \in Timer : ts[c].list \in {"new", "pending"}
                                /\ ts[c].flag = "active"}
      seconds == 0..(MaxTime - now)
  IN  {<<ts, n>>}
        \union {callLater(ts, n, c, s) :
                  c \in {d \in Timer : ts[d].list = "none"}, s \in seconds}
        \union {cancel(ts, n, c) : c \in active}
        \union {reset(ts, n, c, s) : c \in active, s \in seconds}

Pending(ts) == {c \in Timer : ts[c].list = "pending"}

activate_delay(call) == SetFor(call, call.time + call.delay, 0)

(* Calls that were cancelled before they came into the heap are dropped.     *)
_insertNewDelayedCalls(ts) ==
  [c \in Timer |->
     IF ts[c].list # "new" THEN ts[c]
     ELSE IF ts[c].flag = "cancelled" THEN [ts[c] EXCEPT !.list = "gone"]
     ELSE [activate_delay(ts[c]) EXCEPT !.list = "pending"]]

NewCancelled(ts) ==
  Cardinality({c \in Timer : ts[c].list = "new" /\ ts[c].flag = "cancelled"})

InsertNew ==
  /\ timers' = _insertNewDelayedCalls(timers)
  /\ cancellations' = cancellations - NewCancelled(timers)

-----------------------------------------------------------------------------
(* runUntilCurrent: the calls of other threads. *)

RunCalls ==
  /\ pc = "current"
  /\ IF queue = <<>>
     THEN pc' = "insert" /\ UNCHANGED <<total, count>>
     ELSE pc' = "calls" /\ total' = Len(queue) /\ count' = 0
  /\ UNCHANGED <<queue, caller, pipe, handed, timerVars, now, current,
                 pollVars>>

RunCall ==
  /\ pc = "calls"
  /\ count' = count + 1
  /\ pc' = IF count + 1 = total THEN "delete" ELSE pc
  /\ \E r \in UserCode(timers, cancellations) :
       timers' = r[1] /\ cancellations' = r[2]
  /\ UNCHANGED <<queue, total, caller, pipe, handed, now, current, pollVars>>

(* Mutant: the whole queue is emptied. *)
DeleteAllCalls ==
  /\ pc = "delete"
  /\ pc' = "rewake"
  /\ queue' = <<>>
  /\ total' = 0 /\ count' = 0
  /\ UNCHANGED <<caller, pipe, handed, timerVars, now, current, pollVars>>

DeleteCalls ==
  /\ pc = "delete"
  /\ pc' = "rewake"
  /\ queue' = SubSeq(queue, count + 1, Len(queue))
  /\ total' = 0 /\ count' = 0
  /\ UNCHANGED <<caller, pipe, handed, timerVars, now, current, pollVars>>

(* Calls that came in meanwhile wait for the next round: it has to come. *)
Rewake ==
  /\ pc = "rewake"
  /\ pc' = "insert"
  /\ IF queue # <<>> THEN wakeUp ELSE UNCHANGED pipe
  /\ UNCHANGED <<queue, total, count, caller, handed, timerVars, now, current,
                 pollVars>>

-----------------------------------------------------------------------------
(* runUntilCurrent: the timed calls. *)

Insert ==
  /\ pc = "insert"
  /\ pc' = "timed"
  /\ current' = now
  /\ InsertNew
  /\ UNCHANGED <<callVars, now, pollVars>>

Due(c) == /\ c \in Pending(timers)
          /\ timers[c].time <= current
          /\ \A d \in Pending(timers) : timers[c].time <= timers[d].time

Pop(c) == [timers EXCEPT ![c].list = "gone"]

(* Mutant: a call is run although it has been delayed meanwhile. *)
RunTimedEarly(c) ==
  /\ pc = "timed"
  /\ Due(c)
  /\ IF timers[c].flag = "cancelled"
     THEN /\ timers' = Pop(c)
          /\ cancellations' = cancellations - 1
     ELSE \E r \in UserCode([Pop(c) EXCEPT ![c].flag = "called"],
                            cancellations) :
            timers' = r[1] /\ cancellations' = r[2]
  /\ UNCHANGED <<pc, callVars, now, current, pollVars>>

(* Mutant: a call that was delayed is not put back into the heap. *)
RunTimedDropsDelayed(c) ==
  /\ pc = "timed"
  /\ Due(c)
  /\ IF timers[c].flag = "cancelled"
     THEN /\ timers' = Pop(c)
          /\ cancellations' = cancellations - 1
     ELSE IF timers[c].delay > 0
     THEN timers' = Pop(c) /\ UNCHANGED cancellations
     ELSE \E r \in UserCode([Pop(c) EXCEPT ![c].flag = "called"],
                            cancellations) :
            timers' = r[1] /\ cancellations' = r[2]
  /\ UNCHANGED <<pc, callVars, now, current, pollVars>>

RunTimed(c) ==
  /\ pc = "timed"
  /\ Due(c)
  /\ IF timers[c].flag = "cancelled"
     THEN /\ timers' = Pop(c)
          /\ cancellations' = cancellations - 1
     ELSE IF timers[c].delay > 0
     THEN /\ timers' = [timers EXCEPT ![c] = activate_delay(timers[c])]
          /\ UNCHANGED cancellations
     ELSE \E r \in UserCode([Pop(c) EXCEPT ![c].flag = "called"],
                            cancellations) :
            timers' = r[1] /\ cancellations' = r[2]
  /\ UNCHANGED <<pc, callVars, now, current, pollVars>>

Purge ==
  IF /\ cancellations > MaxCancelled
     /\ cancellations > Cardinality(Pending(timers)) \div 2
  THEN /\ cancellations' = 0
       /\ timers' = [c \in Timer |->
                       IF timers[c].list = "pending"
                          /\ timers[c].flag = "cancelled"
                       THEN [timers[c] EXCEPT !.list = "gone"]
                       ELSE timers[c]]
  ELSE UNCHANGED timerVars

TimedDone ==
  /\ pc = "timed"
  /\ ~ \E c \in Timer : Due(c)
  /\ pc' = "timeout"
  /\ Purge
  /\ UNCHANGED <<callVars, now, current, pollVars>>

-----------------------------------------------------------------------------
(* timeout, doPoll *)

Earliest(ts) ==
  CHOOSE t \in 0..MaxTime :
    /\ \E c \in Pending(ts) : ts[c].time = t
    /\ \A c \in Pending(ts) : t <= ts[c].time

Clamp(s) == IF s < 0 THEN 0 ELSE IF s < Longest THEN s ELSE Longest

(* Mutant: timeout does not insert the new calls first. *)
TimeoutForgetsNew ==
  /\ pc = "timeout"
  /\ pc' = "poll"
  /\ UNCHANGED timerVars
  /\ deadline' = IF Pending(timers) = {} THEN Never
                 ELSE now + Clamp(Earliest(timers) - now)
  /\ UNCHANGED <<callVars, now, current, waker, events>>

Timeout ==
  /\ pc = "timeout"
  /\ pc' = "poll"
  /\ InsertNew
  /\ deadline' = IF Pending(timers') = {} THEN Never
                 ELSE now + Clamp(Earliest(timers') - now)
  /\ UNCHANGED <<callVars, now, current, waker, events>>

(* The poll returns because the waker is readable or the time is over; there *)
(* may be socket events as well.                                             *)
PollReady ==
  /\ pc = "poll"
  /\ pipe > 0 \/ (deadline # Never /\ now >= deadline)
  /\ pc' = "dispatch"
  /\ waker' = (pipe > 0)
  /\ events' \in 0..MaxEvents
  /\ UNCHANGED <<callVars, timerVars, now, current, deadline>>

PollSocket ==
  /\ pc = "poll"
  /\ pipe = 0
  /\ pc' = "dispatch"
  /\ events' \in 1..MaxEvents
  /\ UNCHANGED <<callVars, timerVars, now, current, deadline, waker>>

(* EINTR *)
PollInterrupted ==
  /\ pc = "poll"
  /\ pc' = "current"
  /\ UNCHANGED <<callVars, timerVars, now, current, pollVars>>

(* The waker reads what there is, which may be more than the poll reported,  *)
(* or less than the pipe holds.                                              *)
WakerDoRead ==
  /\ pc = "dispatch"
  /\ waker
  /\ waker' = FALSE
  /\ pipe' = IF pipe > ReadSize THEN pipe - ReadSize ELSE 0
  /\ UNCHANGED <<pc, queue, total, count, caller, handed, timerVars, now,
                 current, deadline, events>>

SocketEvent ==
  /\ pc = "dispatch"
  /\ events > 0
  /\ events' = events - 1
  /\ \E r \in UserCode(timers, cancellations) :
       timers' = r[1] /\ cancellations' = r[2]
  /\ UNCHANGED <<pc, callVars, now, current, deadline, waker>>

DispatchDone ==
  /\ pc = "dispatch"
  /\ ~waker /\ events = 0
  /\ pc' = "current"
  /\ UNCHANGED <<callVars, timerVars, now, current, pollVars>>

Tick ==
  /\ now < MaxTime
  /\ now' = now + 1
  /\ UNCHANGED <<pc, callVars, timerVars, current, pollVars>>

LoopStep ==
  \/ RunCalls \/ RunCall \/ DeleteCalls \/ Rewake
  \/ Insert \/ (\E c \in Timer : RunTimed(c)) \/ TimedDone \/ Timeout
  \/ PollReady \/ WakerDoRead \/ SocketEvent \/ DispatchDone

Next ==
  \/ LoopStep \/ PollSocket \/ PollInterrupted
  \/ \E t \in Thread : callFromThread(t) \/ CallerWakes(t)
  \/ Tick

Spec == Init /\ [][Next]_vars

(* The reactor thread is scheduled, and sleeps no longer than it asked for;  *)
(* a thread within callFromThread gets to its end; time passes.  Nothing     *)
(* obliges a socket to become ready.                                         *)
FairSpec ==
  /\ Spec
  /\ WF_vars(LoopStep)
  /\ \A t \in Thread : WF_vars(CallerWakes(t))
  /\ WF_vars(Tick)

-----------------------------------------------------------------------------
(* The reactor never goes to sleep over a call: while one waits in the       *)
(* queue, there is a byte in the pipe, or the thread that appended the call  *)
(* is about to write one, however appending, waking, emptying the pipe and   *)
(* emptying the queue interleave (base.py 794-806, 949-950, posixbase.py     *)
(* 141-145, 169-181).                                                        *)
NoLostWakeup ==
  pc = "poll" /\ queue # <<>> =>
    pipe > 0 \/ \E t \in Thread : caller[t] = "wake"

(* The reactor never asks for a sleep that lasts longer than the first timed *)
(* call can wait, whenever the call was made, moved or delayed (base.py      *)
(* 747-784).                                                                 *)
NoOversleep ==
  pc = "poll" =>
    \A c \in Timer :
      timers[c].list \in {"new", "pending"} /\ timers[c].flag = "active" =>
        deadline # Never /\ deadline <= now + Longest
        /\ (deadline <= timers[c].time + timers[c].delay \/ deadline <= now)

(* A timed call is not run before the time last asked for, and never after   *)
(* it was cancelled (base.py 78-142, 813-829).                               *)
TimelyOrNotAtAll ==
  [][\A c \in Timer :
       timers'[c].flag = "called" /\ timers[c].flag # "called" =>
         /\ timers[c].flag = "active"
         /\ timers[c].time + timers[c].delay <= now]_vars

(* The reactor gets round to every timed call that is not cancelled, though  *)
(* calls keep coming, descriptors keep it busy and the call is moved about   *)
(* (base.py 787-836).                                                        *)
EveryTimedCallEnds ==
  \A c \in Timer :
    timers[c].list = "new" /\ timers[c].flag = "active" ~>
      timers[c].flag # "active"

(* Calls of other threads run once each, in order, and all of them do run:   *)
(* what module Websocket takes for granted (base.py 787-806, 941-950).       *)
Calls == INSTANCE ThreadCalls WITH
           Call <- 1..MaxCalls,
           ran <- Len(handed) - Len(queue) + count,
           batch <- total - count

ThreadCallsRun == Calls!FairSpec
=============================================================================
