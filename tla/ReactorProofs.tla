----------------------------- MODULE ReactorProofs -----------------------------
(***************************************************************************)
(* Theorems about module Reactor, for any number of threads and timed      *)
(* calls, any size of the pipe and of a read of it.                        *)
(*                                                                         *)
(* Three invariants, each inductive: CallInv says where the calls of other *)
(* threads are at each point of the loop, WakeInv that the loop is on its  *)
(* way to the poll only if something will wake it, TimerInv what a timed   *)
(* call may look like.                                                     *)
(***************************************************************************)
EXTENDS Reactor, SequenceTheorems, FiniteSetTheorems, WellFoundedInduction,
        TLAPS

LoopVars == <<timerVars, now, current, pollVars>>

CallInv ==
  /\ pc \in Place
  /\ queue \in Seq(1..MaxCalls) /\ handed \in Seq(1..MaxCalls)
  /\ total \in Nat /\ count \in Nat
  /\ Len(queue) <= Len(handed)
  /\ pc = "calls" => count < total /\ total <= Len(queue)
  /\ pc = "delete" => count = total /\ total <= Len(queue)
  /\ pc \notin {"calls", "delete"} => count = 0 /\ total = 0

(* From where the queue was last looked at to the poll. *)
OnTheWay == {"insert", "timed", "timeout", "poll"}

WakeInv ==
  /\ pipe \in 0..PipeSize
  /\ caller \in [Thread -> {"idle", "wake"}]
  /\ pc \in OnTheWay /\ queue # <<>> =>
       pipe > 0 \/ \E t \in Thread : caller[t] = "wake"

TimerOK(call) ==
  /\ call \in TimedCall
  /\ call.time + call.delay <= MaxTime
  /\ call.list \in {"new", "pending"} => call.flag # "called"

TimersOK(ts) ==
  /\ ts = [c \in Timer |-> ts[c]]
  /\ \A c \in Timer : TimerOK(ts[c])

TimerInv ==
  /\ TimersOK(timers)
  /\ cancellations \in Int
  /\ now \in 0..MaxTime /\ current \in 0..MaxTime /\ current <= now

PollInv == deadline \in Int /\ waker \in BOOLEAN /\ events \in 0..MaxEvents

-----------------------------------------------------------------------------
LEMMA RestLength ==
  ASSUME NEW S, NEW s \in Seq(S), NEW k \in 0..Len(s)
  PROVE  /\ SubSeq(s, k + 1, Len(s)) \in Seq(S)
         /\ Len(SubSeq(s, k + 1, Len(s))) = Len(s) - k
<1>1. Len(s) \in Nat
  BY LenProperties
<1>2. \A i \in k + 1 .. Len(s) : i \in 1..Len(s)
  BY <1>1
<1>3. SubSeq(s, k + 1, Len(s)) \in Seq(S)
  BY <1>1, <1>2, SubSeqProperties
<1>4. Len(SubSeq(s, k + 1, Len(s)))
        = IF k + 1 <= Len(s) THEN Len(s) - (k + 1) + 1 ELSE 0
  BY <1>1, <1>2, SubSeqProperties
<1> QED BY <1>1, <1>3, <1>4

LEMMA StepCall == CallInv /\ [Next]_vars => CallInv'
<1> SUFFICES ASSUME CallInv, [Next]_vars PROVE CallInv'
  OBVIOUS
<1>t. Len(queue) \in Nat /\ Len(handed) \in Nat
  BY LenProperties DEF CallInv
<1>1. ASSUME NEW t \in Thread, callFromThread(t) PROVE CallInv'
  <2>1. Len(handed) + 1 \in 1..MaxCalls
    BY <1>1, <1>t, ReactorAssumption DEF callFromThread
  <2>2. /\ queue' \in Seq(1..MaxCalls) /\ handed' \in Seq(1..MaxCalls)
        /\ Len(queue') = Len(queue) + 1 /\ Len(handed') = Len(handed) + 1
    BY <1>1, <2>1, AppendProperties DEF callFromThread, CallInv
  <2> QED BY <1>1, <1>t, <2>2 DEF callFromThread, CallInv
<1>2. CASE RunCalls
  <2>1. queue # <<>> => Len(queue) > 0
    BY <1>t, EmptySeq DEF CallInv
  <2> QED BY <1>2, <1>t, <2>1 DEF RunCalls, CallInv, Place
<1>3. CASE RunCall
  BY <1>3, <1>t DEF RunCall, CallInv, Place
<1>4. CASE DeleteCalls
  <2>1. count \in 0..Len(queue)
    BY <1>4, <1>t DEF DeleteCalls, CallInv
  <2>2. /\ SubSeq(queue, count + 1, Len(queue)) \in Seq(1..MaxCalls)
        /\ Len(SubSeq(queue, count + 1, Len(queue))) = Len(queue) - count
    BY <2>1, RestLength DEF CallInv
  <2> QED BY <1>4, <1>t, <2>1, <2>2 DEF DeleteCalls, CallInv, Place
<1>5. ASSUME pc' \in Place \ {"calls", "delete"},
             pc \notin {"calls", "delete"},
             UNCHANGED <<queue, handed, total, count>>
      PROVE  CallInv'
  BY <1>5 DEF CallInv
<1>6. CASE Rewake \/ Insert \/ (\E c \in Timer : RunTimed(c)) \/ TimedDone
            \/ Timeout \/ PollReady \/ PollSocket \/ PollInterrupted
            \/ WakerDoRead \/ SocketEvent \/ DispatchDone
  BY <1>5, <1>6
  DEF Rewake, Insert, RunTimed, TimedDone, Timeout, PollReady, PollSocket,
      PollInterrupted, WakerDoRead, SocketEvent, DispatchDone, callVars, Place
<1>7. CASE Tick \/ (\E t \in Thread : CallerWakes(t)) \/ UNCHANGED vars
  BY <1>7 DEF Tick, CallerWakes, vars, callVars, CallInv
<1> QED BY <1>1, <1>2, <1>3, <1>4, <1>6, <1>7 DEF Next, LoopStep

LEMMA InitCall == Init => CallInv
<1> SUFFICES ASSUME Init PROVE CallInv
  OBVIOUS
<1>1. Len(<<>>) = 0
  OBVIOUS
<1> QED BY <1>1 DEF Init, CallInv, Place

-----------------------------------------------------------------------------
LEMMA WakeUpFills ==
  ASSUME pipe \in 0..PipeSize, wakeUp
  PROVE  pipe' \in 1..PipeSize
BY ReactorAssumption DEF wakeUp

LEMMA StepWake == CallInv /\ WakeInv /\ [Next]_vars => WakeInv'
<1> SUFFICES ASSUME CallInv, WakeInv, [Next]_vars PROVE WakeInv'
  OBVIOUS
<1>1. ASSUME NEW t \in Thread, callFromThread(t) PROVE WakeInv'
  BY <1>1 DEF callFromThread, WakeInv
<1>2. ASSUME NEW t \in Thread, CallerWakes(t) PROVE WakeInv'
  BY <1>2, WakeUpFills DEF CallerWakes, WakeInv
<1>3. CASE RunCalls
  BY <1>3 DEF RunCalls, WakeInv, OnTheWay
<1>4. CASE RunCall \/ DeleteCalls
  BY <1>4 DEF RunCall, DeleteCalls, WakeInv, OnTheWay
<1>5. CASE Rewake
  <2>1. CASE queue # <<>>
    BY <1>5, <2>1, WakeUpFills DEF Rewake, WakeInv
  <2>2. CASE queue = <<>>
    BY <1>5, <2>2 DEF Rewake, WakeInv
  <2> QED BY <2>1, <2>2
<1>6. CASE WakerDoRead
  BY <1>6, ReactorAssumption DEF WakerDoRead, WakeInv, OnTheWay
<1>7. CASE Insert \/ (\E c \in Timer : RunTimed(c)) \/ TimedDone \/ Timeout
  BY <1>7 DEF Insert, RunTimed, TimedDone, Timeout, callVars, WakeInv, OnTheWay
<1>8. CASE PollReady \/ PollSocket \/ PollInterrupted \/ SocketEvent
            \/ DispatchDone
  BY <1>8 DEF PollReady, PollSocket, PollInterrupted, SocketEvent,
              DispatchDone, callVars, WakeInv, OnTheWay
<1>9. CASE Tick \/ UNCHANGED vars
  BY <1>9 DEF Tick, vars, callVars, WakeInv
<1> QED BY <1>1, <1>2, <1>3, <1>4, <1>5, <1>6, <1>7, <1>8, <1>9
        DEF Next, LoopStep

LEMMA InitWake == Init => WakeInv
BY ReactorAssumption DEF Init, WakeInv, OnTheWay

(* The reactor never goes to sleep over a call, however many threads hand    *)
(* over calls, whatever the pipe holds (base.py 794-806, 949-950).           *)
THEOREM NoLostWakeupHolds == Spec => []NoLostWakeup
<1>1. WakeInv => NoLostWakeup
  BY DEF WakeInv, NoLostWakeup, OnTheWay
<1> QED BY InitCall, StepCall, InitWake, StepWake, <1>1, PTL DEF Spec

(* The reactor implements the safety part of ThreadCalls: calls run once     *)
(* each, in order, a phase those that were there when it began (base.py      *)
(* 787-806, 941-950).                                                        *)
THEOREM CallsRunOnceInOrder == Spec => Calls!Spec
<1> USE DEF Calls!vars, Calls!Next, Calls!Hand, Calls!RunCalls, Calls!RunCall
<1>1. Init => Calls!Init
  <2>1. Len(<<>>) = 0
    OBVIOUS
  <2> QED BY <2>1 DEF Init, Calls!Init
<1>2. CallInv /\ [Next]_vars => [Calls!Next]_(Calls!vars)
  <2> SUFFICES ASSUME CallInv, [Next]_vars
               PROVE  Calls!Next \/ UNCHANGED Calls!vars
    OBVIOUS
  <2>t. /\ Len(queue) \in Nat /\ Len(handed) \in Nat
        /\ total \in Nat /\ count \in Nat /\ Len(queue) <= Len(handed)
    BY LenProperties DEF CallInv
  <2>1. ASSUME NEW t \in Thread, callFromThread(t) PROVE Calls!Hand
    <3>1. Len(handed) + 1 \in 1..MaxCalls
      BY <2>1, <2>t, ReactorAssumption DEF callFromThread
    <3>2. Len(queue') = Len(queue) + 1 /\ Len(handed') = Len(handed) + 1
      BY <2>1, <3>1, AppendProperties DEF callFromThread, CallInv
    <3>3. UNCHANGED <<total, count>> /\ handed' = Append(handed, Len(handed) + 1)
      BY <2>1 DEF callFromThread
    <3> QED BY <2>t, <3>1, <3>2, <3>3
  <2>2. CASE RunCalls
    <3>1. CASE queue = <<>>
      BY <2>2, <3>1 DEF RunCalls
    <3>2. CASE queue # <<>>
      <4>1. Len(queue) > 0 /\ count = 0 /\ total = 0
        BY <2>2, <3>2, <2>t, EmptySeq DEF CallInv, RunCalls
      <4>2. /\ total' = Len(queue) /\ count' = 0
            /\ UNCHANGED <<queue, handed>>
        BY <2>2, <3>2 DEF RunCalls
      <4> QED BY <2>t, <4>1, <4>2
    <3> QED BY <3>1, <3>2
  <2>3. CASE RunCall
    <3>1. count < total /\ count' = count + 1 /\ UNCHANGED <<queue, handed, total>>
      BY <2>3 DEF RunCall, CallInv
    <3> QED BY <2>t, <3>1
  <2>4. CASE DeleteCalls
    <3>1. count = total /\ total <= Len(queue)
      BY <2>4 DEF DeleteCalls, CallInv
    <3>2. Len(SubSeq(queue, count + 1, Len(queue))) = Len(queue) - count
      BY <3>1, <2>t, RestLength DEF CallInv
    <3>3. /\ queue' = SubSeq(queue, count + 1, Len(queue))
          /\ total' = 0 /\ count' = 0 /\ handed' = handed
      BY <2>4 DEF DeleteCalls
    <3>4. Len(queue') = Len(queue) - count
      BY <3>2, <3>3
    <3>5. total' - count' = total - count
      BY <2>t, <3>1, <3>3
    <3>6. Len(handed') - Len(queue') + count' = Len(handed) - Len(queue) + count
      <4>1. \A a, b, c \in Nat : a - (b - c) + 0 = a - b + c
        OBVIOUS
      <4>2. Len(handed) - (Len(queue) - count) + 0 = Len(handed) - Len(queue) + count
        BY <4>1, <2>t
      <4> QED BY <3>3, <3>4, <4>2
    <3> QED BY <3>3, <3>5, <3>6
  <2>5. CASE Rewake \/ Insert \/ (\E c \in Timer : RunTimed(c)) \/ TimedDone
              \/ Timeout \/ PollReady \/ PollSocket \/ PollInterrupted
              \/ WakerDoRead \/ SocketEvent \/ DispatchDone \/ Tick
              \/ (\E t \in Thread : CallerWakes(t)) \/ UNCHANGED vars
    <3>1. UNCHANGED <<queue, handed, total, count>>
      BY <2>5
      DEF Rewake, Insert, RunTimed, TimedDone, Timeout, PollReady, PollSocket,
          PollInterrupted, WakerDoRead, SocketEvent, DispatchDone, Tick,
          CallerWakes, vars, callVars
    <3> QED BY <3>1
  <2> QED BY <2>1, <2>2, <2>3, <2>4, <2>5 DEF Next, LoopStep
<1> QED BY InitCall, StepCall, <1>1, <1>2, PTL DEF Spec, Calls!Spec

-----------------------------------------------------------------------------
LEMMA Retimed ==
  ASSUME NEW call, TimerOK(call), NEW time \in 0..MaxTime, NEW delay \in 0..MaxTime,
         time + delay <= MaxTime
  PROVE  /\ TimerOK(SetFor(call, time, delay))
         /\ SetFor(call, time, delay).flag = call.flag
         /\ SetFor(call, time, delay).list = call.list
BY DEF TimerOK, TimedCall, SetFor

(* User code leaves timed calls as they should be, and marks none as called. *)
LEMMA UserCodeTimers ==
  ASSUME NEW ts, TimersOK(ts), NEW n \in Int, now \in 0..MaxTime,
         NEW r \in UserCode(ts, n)
  PROVE  /\ TimersOK(r[1]) /\ r[2] \in Int
         /\ \A c \in Timer : r[1][c].flag = "called" => ts[c].flag = "called"
<1> DEFINE active == {c \in Timer : ts[c].list \in {"new", "pending"}
                                    /\ ts[c].flag = "active"}
           Good(q) ==
             /\ TimersOK(q[1]) /\ q[2] \in Int
             /\ \A c \in Timer : q[1][c].flag = "called" => ts[c].flag = "called"
<1>m. MaxTime \in Nat
  BY ReactorAssumption
<1>t. /\ ts = [c \in Timer |-> ts[c]]
      /\ \A c \in Timer : TimerOK(ts[c])
  BY DEF TimersOK
<1>1. Good(<<ts, n>>)
  OBVIOUS
<1>2. ASSUME NEW c \in Timer, NEW s \in 0..(MaxTime - now)
      PROVE  Good(callLater(ts, n, c, s))
  <2> DEFINE call == [list |-> "new", flag |-> "active",
                      time |-> now + s, delay |-> 0]
             us   == [ts EXCEPT ![c] = call]
  <2>1. now + s \in 0..MaxTime
    BY <1>m
  <2>2. TimerOK(call)
    BY <1>m, <2>1 DEF TimerOK, TimedCall
  <2>3. \A d \in Timer : us[d] = IF d = c THEN call ELSE ts[d]
    BY <1>t
  <2>4. us = [d \in Timer |-> us[d]]
    BY <1>t
  <2> HIDE DEF call, us
  <2>5. TimersOK(us)
    BY <1>t, <2>2, <2>3, <2>4 DEF TimersOK
  <2>6. \A d \in Timer : us[d].flag = "called" => ts[d].flag = "called"
    BY <2>3 DEF call
  <2> QED BY <2>5, <2>6 DEF callLater, us, call
<1>3. ASSUME NEW c \in active PROVE Good(cancel(ts, n, c))
  <2> DEFINE us == [ts EXCEPT ![c].flag = "cancelled"]
  <2>1. \A d \in Timer : us[d] = IF d = c THEN [ts[d] EXCEPT !.flag = "cancelled"]
                                          ELSE ts[d]
    BY <1>t
  <2>2. us = [d \in Timer |-> us[d]]
    BY <1>t
  <2> HIDE DEF us
  <2>3. \A d \in Timer : TimerOK([ts[d] EXCEPT !.flag = "cancelled"])
    BY <1>t DEF TimerOK, TimedCall
  <2>4. TimersOK(us)
    BY <1>t, <2>1, <2>2, <2>3 DEF TimersOK
  <2>5. \A d \in Timer : us[d].flag = "called" => ts[d].flag = "called"
    BY <2>1, <1>t DEF TimerOK, TimedCall
  <2> QED BY <2>4, <2>5 DEF cancel, us
<1>4. ASSUME NEW c \in active, NEW s \in 0..(MaxTime - now)
      PROVE  Good(reset(ts, n, c, s))
  <2>1. TimerOK(ts[c]) /\ ts[c].time \in 0..MaxTime /\ now + s \in 0..MaxTime
    BY <1>m, <1>t DEF TimerOK, TimedCall
  <2> DEFINE call == IF now + s < ts[c].time
                     THEN SetFor(ts[c], now + s, 0)
                     ELSE SetFor(ts[c], ts[c].time, now + s - ts[c].time)
             us   == [ts EXCEPT ![c] = call]
  <2>2. \A d \in Timer : us[d] = IF d = c THEN call ELSE ts[d]
    BY <1>t
  <2>3. us = [d \in Timer |-> us[d]]
    BY <1>t
  <2>4. TimerOK(call) /\ call.flag = ts[c].flag
    <3>1. CASE now + s < ts[c].time
      BY <1>m, <2>1, <3>1, Retimed
    <3>2. CASE ~(now + s < ts[c].time)
      <4>1. /\ now + s - ts[c].time \in 0..MaxTime
            /\ ts[c].time + (now + s - ts[c].time) <= MaxTime
        BY <1>m, <2>1, <3>2
      <4> QED BY <2>1, <3>2, <4>1, Retimed
    <3> QED BY <3>1, <3>2
  <2>5. reset(ts, n, c, s) = <<us, n>>
    BY DEF reset
  <2> HIDE DEF us, call
  <2> QED BY <1>t, <2>2, <2>3, <2>4, <2>5 DEF TimersOK
<1> HIDE DEF Good
<1>5. Good(r)
  BY <1>1, <1>2, <1>3, <1>4 DEF UserCode
<1> QED BY <1>5 DEF Good

LEMMA Activated ==
  ASSUME NEW call, TimerOK(call)
  PROVE  /\ TimerOK(activate_delay(call))
         /\ activate_delay(call).flag = call.flag
         /\ activate_delay(call).list = call.list
<1>1. /\ call.time + call.delay \in 0..MaxTime /\ 0 \in 0..MaxTime
      /\ call.time + call.delay + 0 <= MaxTime
  BY ReactorAssumption DEF TimerOK, TimedCall
<1> QED BY <1>1, Retimed DEF activate_delay

(* A call that is moved to another list is as it should be. *)
LEMMA Moved ==
  ASSUME NEW call, TimerOK(call), NEW list \in {"pending", "gone"},
         call.flag = "called" => list = "gone"
  PROVE  /\ TimerOK([call EXCEPT !.list = list])
         /\ [call EXCEPT !.list = list].flag = call.flag
BY DEF TimerOK, TimedCall

LEMMA InsertNewTimers ==
  ASSUME TimerInv, InsertNew
  PROVE  /\ TimersOK(timers') /\ cancellations' \in Int
         /\ \A c \in Timer : timers'[c].flag = timers[c].flag
<1> DEFINE us == _insertNewDelayedCalls(timers)
<1>t. \A c \in Timer : TimerOK(timers[c])
  BY DEF TimerInv, TimersOK
<1>1. ASSUME NEW c \in Timer
      PROVE  TimerOK(us[c]) /\ us[c].flag = timers[c].flag
  <2>1. CASE timers[c].list # "new"
    BY <2>1, <1>t DEF _insertNewDelayedCalls
  <2>2. CASE timers[c].list = "new" /\ timers[c].flag = "cancelled"
    <3>1. us[c] = [timers[c] EXCEPT !.list = "gone"]
      BY <2>2 DEF _insertNewDelayedCalls
    <3> QED BY <3>1, <1>t, Moved
  <2>3. CASE timers[c].list = "new" /\ timers[c].flag # "cancelled"
    <3>1. us[c] = [activate_delay(timers[c]) EXCEPT !.list = "pending"]
      BY <2>3 DEF _insertNewDelayedCalls
    <3>2. timers[c].flag # "called"
      BY <2>3, <1>t DEF TimerOK
    <3>3. /\ TimerOK(activate_delay(timers[c]))
          /\ activate_delay(timers[c]).flag = timers[c].flag
      BY <1>t, Activated
    <3> HIDE DEF us
    <3> QED BY <3>1, <3>2, <3>3, Moved
  <2> QED BY <2>1, <2>2, <2>3
<1>2. us = [c \in Timer |-> us[c]]
  BY DEF _insertNewDelayedCalls
<1>3. NewCancelled(timers) \in Int
  <2>1. IsFiniteSet({c \in Timer : timers[c].list = "new"
                                   /\ timers[c].flag = "cancelled"})
    BY ReactorAssumption, FS_Subset
  <2> QED BY <2>1, FS_CardinalityType DEF NewCancelled
<1>4. timers' = us /\ cancellations' = cancellations - NewCancelled(timers)
  BY DEF InsertNew
<1> HIDE DEF us
<1> QED BY <1>1, <1>2, <1>3, <1>4 DEF TimersOK, TimerInv

(* RunTimed keeps the timed calls as they should be.  When the call at the   *)
(* head of the heap does run, it is active, and due.                         *)
LEMMA RunTimedTimers ==
  ASSUME TimerInv, NEW c \in Timer, RunTimed(c)
  PROVE  /\ TimersOK(timers') /\ cancellations' \in Int
         /\ \A d \in Timer :
              timers'[d].flag = "called" /\ timers[d].flag # "called" =>
                /\ timers[d].flag = "active"
                /\ timers[d].time + timers[d].delay <= now
<1>t. /\ timers = [d \in Timer |-> timers[d]]
      /\ \A d \in Timer : TimerOK(timers[d])
      /\ cancellations \in Int /\ now \in 0..MaxTime
  BY DEF TimerInv, TimersOK
<1>d. timers[c].list = "pending" /\ timers[c].time <= now
  <2>1. timers[c].list = "pending" /\ timers[c].time <= current
    BY DEF RunTimed, Due, Pending
  <2>2. timers[c].time \in 0..MaxTime
    BY <1>t DEF TimerOK, TimedCall
  <2> QED BY <2>1, <2>2, ReactorAssumption DEF TimerInv
<1>p. /\ Pop(c) = [d \in Timer |-> Pop(c)[d]]
      /\ \A d \in Timer : Pop(c)[d] = IF d = c THEN [timers[c] EXCEPT !.list = "gone"]
                                                ELSE timers[d]
  BY <1>t DEF Pop
<1>g. /\ TimerOK([timers[c] EXCEPT !.list = "gone"])
      /\ [timers[c] EXCEPT !.list = "gone"].flag = timers[c].flag
  BY <1>t, Moved
<1>1. CASE timers[c].flag = "cancelled"
  <2>1. timers' = Pop(c) /\ cancellations' = cancellations - 1
    BY <1>1 DEF RunTimed
  <2> DEFINE popped == [timers[c] EXCEPT !.list = "gone"]
  <2>2. \A d \in Timer : Pop(c)[d] = IF d = c THEN popped ELSE timers[d]
    BY <1>p
  <2>3. TimerOK(popped) /\ popped.flag = timers[c].flag
    BY <1>g
  <2> HIDE DEF popped
  <2>4. TimersOK(Pop(c))
    BY <1>t, <1>p, <2>2, <2>3 DEF TimersOK
  <2>5. \A d \in Timer : Pop(c)[d].flag = timers[d].flag
    BY <2>2, <2>3
  <2> QED BY <1>t, <2>1, <2>4, <2>5
<1>2. CASE timers[c].flag # "cancelled" /\ timers[c].delay > 0
  <2>1. /\ timers' = [timers EXCEPT ![c] = activate_delay(timers[c])]
        /\ UNCHANGED cancellations
    BY <1>2 DEF RunTimed
  <2>2. /\ timers' = [d \in Timer |-> timers'[d]]
        /\ \A d \in Timer : timers'[d] = IF d = c THEN activate_delay(timers[c])
                                                  ELSE timers[d]
    BY <1>t, <2>1
  <2>3. /\ TimerOK(activate_delay(timers[c]))
        /\ activate_delay(timers[c]).flag = timers[c].flag
    BY <1>t, Activated
  <2> QED BY <1>t, <2>1, <2>2, <2>3 DEF TimersOK
<1>3. CASE timers[c].flag # "cancelled" /\ ~(timers[c].delay > 0)
  <2> DEFINE ts == [Pop(c) EXCEPT ![c].flag = "called"]
             called == [[timers[c] EXCEPT !.list = "gone"] EXCEPT !.flag = "called"]
  <2>1. PICK r \in UserCode(ts, cancellations) :
          timers' = r[1] /\ cancellations' = r[2]
    BY <1>3 DEF RunTimed
  <2>2. \A d \in Timer : ts[d] = IF d = c THEN called ELSE timers[d]
    BY <1>p
  <2>3. ts = [d \in Timer |-> ts[d]]
    BY <1>p
  <2>4. TimerOK(called)
    BY <1>t DEF TimerOK, TimedCall
  <2>5. TimersOK(ts)
    <3> HIDE DEF ts, called
    <3> QED BY <1>t, <2>2, <2>3, <2>4 DEF TimersOK
  <2>6. /\ TimersOK(r[1]) /\ r[2] \in Int
        /\ \A d \in Timer : r[1][d].flag = "called" => ts[d].flag = "called"
    <3> HIDE DEF ts
    <3> QED BY <1>t, <2>1, <2>5, UserCodeTimers
  <2>7. timers[c].flag \in {"active", "called"} /\ timers[c].delay = 0
        /\ timers[c].time \in 0..MaxTime
    BY <1>t, <1>3 DEF TimerOK, TimedCall
  <2>8. timers[c].time + timers[c].delay <= now
    BY <1>t, <1>d, <2>7, ReactorAssumption
  <2>9. ASSUME NEW d \in Timer,
               timers'[d].flag = "called", timers[d].flag # "called"
        PROVE  d = c
    <3>1. ts[d].flag = "called"
      BY <2>1, <2>6, <2>9
    <3> HIDE DEF ts
    <3> QED BY <2>2, <2>9, <3>1
  <2> HIDE DEF ts, called
  <2> QED BY <2>1, <2>6, <2>7, <2>8, <2>9
<1> QED BY <1>1, <1>2, <1>3

-----------------------------------------------------------------------------
(* Every step keeps the timed calls in order, and marks a call as called     *)
(* only when it is active and due.                                           *)
LEMMA StepTimer ==
  TimerInv /\ [Next]_vars =>
    /\ TimerInv'
    /\ \A c \in Timer :
         timers'[c].flag = "called" /\ timers[c].flag # "called" =>
           /\ timers[c].flag = "active"
           /\ timers[c].time + timers[c].delay <= now
<1> DEFINE Timely ==
      \A c \in Timer :
        timers'[c].flag = "called" /\ timers[c].flag # "called" =>
          /\ timers[c].flag = "active"
          /\ timers[c].time + timers[c].delay <= now
<1> SUFFICES ASSUME TimerInv, [Next]_vars PROVE TimerInv' /\ Timely
  OBVIOUS
<1>1. ASSUME UNCHANGED <<timers, cancellations>>,
             now' = now \/ (now < MaxTime /\ now' = now + 1),
             UNCHANGED current
      PROVE  TimerInv' /\ Timely
  BY <1>1, ReactorAssumption DEF TimerInv, TimersOK
<1>2. CASE RunCalls \/ DeleteCalls \/ Rewake \/ PollReady \/ PollSocket
            \/ PollInterrupted \/ WakerDoRead \/ DispatchDone \/ Tick
            \/ UNCHANGED vars
            \/ (\E t \in Thread : callFromThread(t) \/ CallerWakes(t))
  BY <1>1, <1>2
  DEF RunCalls, DeleteCalls, Rewake, PollReady, PollSocket, PollInterrupted,
      WakerDoRead, DispatchDone, Tick, callFromThread, CallerWakes, vars,
      timerVars
<1>3. CASE RunCall \/ SocketEvent
  <2>1. PICK r \in UserCode(timers, cancellations) :
          timers' = r[1] /\ cancellations' = r[2]
    BY <1>3 DEF RunCall, SocketEvent
  <2>2. UNCHANGED <<now, current>>
    BY <1>3 DEF RunCall, SocketEvent
  <2>3. /\ TimersOK(r[1]) /\ r[2] \in Int
        /\ \A c \in Timer :
             r[1][c].flag = "called" => timers[c].flag = "called"
    BY UserCodeTimers DEF TimerInv
  <2> QED BY <2>1, <2>2, <2>3 DEF TimerInv
<1>4. CASE Insert \/ Timeout
  <2>1. /\ TimersOK(timers') /\ cancellations' \in Int
        /\ \A c \in Timer : timers'[c].flag = timers[c].flag
    BY <1>4, InsertNewTimers DEF Insert, Timeout
  <2>2. now' = now /\ current' \in {now, current}
    BY <1>4 DEF Insert, Timeout
  <2> QED BY <2>1, <2>2 DEF TimerInv
<1>5. ASSUME NEW c \in Timer, RunTimed(c) PROVE TimerInv' /\ Timely
  <2>1. UNCHANGED <<now, current>>
    BY <1>5 DEF RunTimed
  <2> QED BY <1>5, <2>1, RunTimedTimers DEF TimerInv
<1>6. CASE TimedDone
  <2>1. UNCHANGED <<now, current>> /\ Purge
    BY <1>6 DEF TimedDone
  <2>2. CASE UNCHANGED timerVars
    BY <1>1, <2>1, <2>2 DEF timerVars
  <2>3. CASE ~UNCHANGED timerVars
    <3>1. /\ cancellations' = 0
          /\ timers' = [c \in Timer |->
                          IF timers[c].list = "pending"
                             /\ timers[c].flag = "cancelled"
                          THEN [timers[c] EXCEPT !.list = "gone"]
                          ELSE timers[c]]
      BY <2>1, <2>3 DEF Purge
    <3>2. \A c \in Timer : TimerOK(timers[c])
      BY DEF TimerInv, TimersOK
    <3>3. \A c \in Timer : TimerOK(timers'[c]) /\ timers'[c].flag = timers[c].flag
      BY <3>1, <3>2, Moved
    <3>4. timers' = [c \in Timer |-> timers'[c]]
      BY <3>1
    <3> QED BY <2>1, <3>1, <3>3, <3>4 DEF TimerInv, TimersOK
  <2> QED BY <2>2, <2>3
<1> QED BY <1>2, <1>3, <1>4, <1>5, <1>6 DEF Next, LoopStep

LEMMA InitTimer == Init => TimerInv
BY ReactorAssumption DEF Init, TimerInv, TimersOK, TimerOK, TimedCall

(* A timed call runs when it is due and not before, at the time last asked   *)
(* for, and never once it was cancelled, whatever calls and servants do to   *)
(* the timed calls in between (base.py 78-142, 813-829).                     *)
THEOREM TimelyOrNotAtAllHolds == Spec => TimelyOrNotAtAll
<1> DEFINE Timely ==
      \A c \in Timer :
        timers'[c].flag = "called" /\ timers[c].flag # "called" =>
          /\ timers[c].flag = "active"
          /\ timers[c].time + timers[c].delay <= now
<1>1. TimerInv /\ [Next]_vars => TimerInv' /\ [Timely]_vars
  BY StepTimer
<1> QED BY InitTimer, <1>1, PTL DEF Spec, TimelyOrNotAtAll

-----------------------------------------------------------------------------
(* There is an earliest call among those in the heap. *)
LEMMA EarliestExists ==
  ASSUME NEW ts, TimersOK(ts), Pending(ts) # {}
  PROVE  \E s \in 0..MaxTime : /\ \E c \in Pending(ts) : ts[c].time = s
                               /\ \A c \in Pending(ts) : s <= ts[c].time
<1> DEFINE Times == {t \in 0..MaxTime : \E c \in Pending(ts) : ts[c].time = t}
<1>1. \A c \in Pending(ts) : ts[c].time \in 0..MaxTime
  BY DEF Pending, TimersOK, TimerOK, TimedCall
<1>2. Times # {} /\ Times \subseteq Nat
  BY <1>1, ReactorAssumption
<1>3. PICK t \in Times : \A u \in Times : <<u, t>> \notin OpToRel(<, Nat)
  <2> HIDE DEF Times
  <2> QED BY <1>2, NatLessThanWellFounded, WFMin
<1>4. \A u \in Times : ~(u < t)
  BY <1>2, <1>3 DEF OpToRel
<1>5. \A c \in Pending(ts) : t <= ts[c].time
  BY <1>1, <1>2, <1>4
<1> QED BY <1>3, <1>5

(* It is a time. *)
LEMMA EarliestTime ==
  ASSUME NEW ts, TimersOK(ts), Pending(ts) # {}
  PROVE  Earliest(ts) \in 0..MaxTime
BY EarliestExists DEF Earliest

LEMMA StepPoll == PollInv /\ TimerInv /\ [Next]_vars => PollInv'
<1> SUFFICES ASSUME PollInv, TimerInv, [Next]_vars PROVE PollInv'
  OBVIOUS
<1>1. CASE Timeout
  <2>1. TimersOK(timers') /\ now \in 0..MaxTime
    BY <1>1, InsertNewTimers DEF Timeout, TimerInv
  <2>2. CASE Pending(timers') = {}
    BY <1>1, <2>2 DEF Timeout, PollInv, Never
  <2>3. CASE Pending(timers') # {}
    <3>1. Earliest(timers') \in 0..MaxTime
      BY <2>1, <2>3, EarliestTime
    <3>2. Clamp(Earliest(timers') - now) \in Int
      BY <2>1, <3>1, ReactorAssumption DEF Clamp
    <3>3. deadline' = now + Clamp(Earliest(timers') - now)
      BY <1>1, <2>3 DEF Timeout
    <3> QED BY <1>1, <2>1, <3>2, <3>3 DEF Timeout, PollInv
  <2> QED BY <2>2, <2>3
<1>2. CASE PollReady \/ PollSocket
  <2>1. waker' \in BOOLEAN
    <3>1. CASE PollSocket
      BY <3>1, Zenon DEF PollSocket, PollInv
    <3>2. CASE PollReady
      <4> DEFINE readable == pipe > 0
      <4>1. waker' = readable
        BY <3>2 DEF PollReady
      <4>2. readable \in BOOLEAN
        BY SMT
      <4> HIDE DEF readable
      <4> QED BY <4>1, <4>2
    <3> QED BY <1>2, <3>1, <3>2
  <2>2. deadline' \in Int /\ events' \in 0..MaxEvents
    BY <1>2, ReactorAssumption DEF PollReady, PollSocket, PollInv
  <2> QED BY <2>1, <2>2 DEF PollInv
<1>3. CASE WakerDoRead \/ SocketEvent
  <2>1. waker' \in BOOLEAN
    BY <1>3, Zenon DEF WakerDoRead, SocketEvent, PollInv
  <2>2. deadline' \in Int /\ events' \in 0..MaxEvents
    BY <1>3, ReactorAssumption DEF WakerDoRead, SocketEvent, PollInv
  <2> QED BY <2>1, <2>2 DEF PollInv
<1>4. CASE UNCHANGED pollVars
  BY <1>4 DEF pollVars, PollInv
<1>5. CASE RunCalls \/ RunCall \/ DeleteCalls \/ Rewake \/ Insert
            \/ (\E c \in Timer : RunTimed(c)) \/ TimedDone \/ DispatchDone
            \/ PollInterrupted \/ Tick \/ UNCHANGED vars
            \/ (\E t \in Thread : callFromThread(t) \/ CallerWakes(t))
  BY <1>4, <1>5
  DEF RunCalls, RunCall, DeleteCalls, Rewake, Insert, RunTimed, TimedDone,
      DispatchDone, PollInterrupted, Tick, callFromThread, CallerWakes, vars,
      pollVars
<1> QED BY <1>1, <1>2, <1>3, <1>5 DEF Next, LoopStep

LEMMA InitPoll == Init => PollInv
<1> SUFFICES ASSUME Init PROVE PollInv
  OBVIOUS
<1>1. waker \in BOOLEAN
  BY Zenon DEF Init
<1>2. deadline \in Int /\ events \in 0..MaxEvents
  BY ReactorAssumption DEF Init, Never
<1> QED BY <1>1, <1>2 DEF PollInv

(* The state of the reactor has its type: the calls it counts are there, the *)
(* pipe holds no more than it can, and a timeout is a time (base.py 757-846, *)
(* posixbase.py 129-181).                                                    *)
THEOREM ReactorTypeOK == Spec => []TypeOK
<1>1. CallInv /\ WakeInv /\ TimerInv /\ PollInv => TypeOK
  <2> SUFFICES ASSUME CallInv, WakeInv, TimerInv, PollInv PROVE TypeOK
    OBVIOUS
  <2>1. timers \in [Timer -> TimedCall]
    BY DEF TimerInv, TimersOK, TimerOK
  <2>2. count \in 0..total
    BY DEF CallInv
  <2> QED BY <2>1, <2>2 DEF CallInv, WakeInv, TimerInv, PollInv, TypeOK
<1>2. TimerInv /\ [Next]_vars => TimerInv'
  BY StepTimer
<1> QED BY InitCall, StepCall, InitWake, StepWake, InitTimer, <1>2, InitPoll,
           StepPoll, <1>1, PTL DEF Spec
-----------------------------------------------------------------------------
(* The earliest time is that of a call in the heap, and no other is earlier. *)
LEMMA EarliestIsFirst ==
  ASSUME NEW ts, TimersOK(ts), NEW c \in Pending(ts)
  PROVE  Earliest(ts) \in 0..MaxTime /\ Earliest(ts) <= ts[c].time
<1>1. ts[c].time \in 0..MaxTime
  BY DEF Pending, TimersOK, TimerOK, TimedCall
<1>2. \E t \in 0..MaxTime : /\ \E d \in Pending(ts) : ts[d].time = t
                            /\ \A d \in Pending(ts) : t <= ts[d].time
  BY EarliestExists
<1> QED BY <1>1, <1>2 DEF Earliest

(* After the new calls were put into the heap, none is new. *)
LEMMA NoneIsNew ==
  ASSUME TimerInv, InsertNew, NEW c \in Timer
  PROVE  timers'[c].list # "new"
<1>1. TimerOK(timers[c])
  BY DEF TimerInv, TimersOK
<1>2. timers'[c] = _insertNewDelayedCalls(timers)[c]
  BY DEF InsertNew
<1>3. CASE timers[c].list # "new"
  BY <1>2, <1>3 DEF _insertNewDelayedCalls
<1>4. CASE timers[c].list = "new" /\ timers[c].flag = "cancelled"
  <2>1. timers'[c] = [timers[c] EXCEPT !.list = "gone"]
    BY <1>2, <1>4 DEF _insertNewDelayedCalls
  <2> QED BY <1>1, <2>1 DEF TimerOK, TimedCall
<1>5. CASE timers[c].list = "new" /\ timers[c].flag # "cancelled"
  <2>1. timers'[c] = [activate_delay(timers[c]) EXCEPT !.list = "pending"]
    BY <1>2, <1>5 DEF _insertNewDelayedCalls
  <2>2. timers'[c].list = "pending"
    BY <2>1 DEF activate_delay, SetFor
  <2> QED BY <2>2
<1> QED BY <1>3, <1>4, <1>5

(* What timeout returns is no later than any call in the heap, and not so    *)
(* long that epoll would refuse it.                                          *)
LEMMA TimeoutIsSoon ==
  ASSUME TimerInv, Timeout
  PROVE  NoOversleep'
<1>1. TimersOK(timers') /\ now \in 0..MaxTime /\ now' = now
  BY InsertNewTimers DEF Timeout, TimerInv
<1> SUFFICES ASSUME NEW c \in Timer,
                    timers'[c].list \in {"new", "pending"}
             PROVE  /\ deadline' # Never /\ deadline' <= now' + Longest
                    /\ \/ deadline' <= timers'[c].time + timers'[c].delay
                       \/ deadline' <= now'
  BY DEF NoOversleep
<1>2. c \in Pending(timers')
  BY NoneIsNew DEF Timeout, Pending
<1>3. /\ Earliest(timers') \in 0..MaxTime
      /\ Earliest(timers') <= timers'[c].time
  BY <1>1, <1>2, EarliestIsFirst
<1>4. deadline' = now + Clamp(Earliest(timers') - now)
  BY <1>2 DEF Timeout
<1>5. timers'[c].time \in 0..MaxTime /\ timers'[c].delay \in 0..MaxTime
  BY <1>1 DEF TimersOK, TimerOK, TimedCall
<1> DEFINE e == Earliest(timers')
<1> HIDE DEF e
<1>6. /\ Clamp(e - now) \in 0..Longest
      /\ now + Clamp(e - now) <= e \/ Clamp(e - now) = 0
  BY <1>1, <1>3, ReactorAssumption DEF Clamp, e
<1> QED BY <1>1, <1>3, <1>4, <1>5, <1>6, ReactorAssumption DEF Never, e

(* While the reactor sleeps nobody touches the timed calls, and time passes. *)
LEMMA StepSleep ==
  TimerInv /\ PollInv /\ NoOversleep /\ [Next]_vars => NoOversleep'
<1> SUFFICES ASSUME TimerInv, PollInv, NoOversleep, [Next]_vars
             PROVE  NoOversleep'
  OBVIOUS
<1>1. CASE Timeout
  BY <1>1, TimeoutIsSoon
<1>2. CASE /\ UNCHANGED <<pc, timers, deadline>>
           /\ now' \in {now, now + 1}
  <2> SUFFICES ASSUME pc = "poll", NEW c \in Timer,
                      timers[c].list \in {"new", "pending"},
                      timers[c].flag = "active"
               PROVE  /\ deadline # Never /\ deadline <= now' + Longest
                      /\ \/ deadline <= timers[c].time + timers[c].delay
                         \/ deadline <= now'
    BY <1>2 DEF NoOversleep
  <2>1. /\ deadline # Never /\ deadline <= now + Longest
        /\ \/ deadline <= timers[c].time + timers[c].delay
           \/ deadline <= now
    BY DEF NoOversleep
  <2>2. now \in Int /\ deadline \in Int /\ Longest \in Int
    BY ReactorAssumption DEF TimerInv, PollInv
  <2> QED BY <1>2, <2>1, <2>2
<1>3. CASE pc' # "poll"
  BY <1>3 DEF NoOversleep
<1>4. CASE RunCalls \/ RunCall \/ DeleteCalls \/ Rewake \/ Insert
           \/ (\E c \in Timer : RunTimed(c)) \/ TimedDone \/ DispatchDone
           \/ WakerDoRead \/ SocketEvent \/ PollReady \/ PollSocket
           \/ PollInterrupted
  <2>1. pc' # "poll"
    BY <1>4 DEF RunCalls, RunCall, DeleteCalls, Rewake, Insert, RunTimed,
                TimedDone, DispatchDone, WakerDoRead, SocketEvent, PollReady,
                PollSocket, PollInterrupted
  <2> QED BY <2>1, <1>3
<1>5. CASE Tick \/ UNCHANGED vars
           \/ (\E t \in Thread : callFromThread(t) \/ CallerWakes(t))
  <2>1. UNCHANGED <<pc, timers, deadline>> /\ now' \in {now, now + 1}
    BY <1>5 DEF Tick, vars, callFromThread, CallerWakes, pollVars, timerVars,
                callVars
  <2> QED BY <2>1, <1>2
<1> QED BY <1>1, <1>4, <1>5 DEF Next, LoopStep

(* The reactor never sleeps past a timed call, whenever and by whom it was   *)
(* made, moved or delayed, nor for longer than Longest (base.py 747-784).    *)
THEOREM NoOversleepHolds == Spec => []NoOversleep
<1>1. Init => NoOversleep
  BY DEF Init, NoOversleep
<1>2. TimerInv /\ [Next]_vars => TimerInv'
  BY StepTimer
<1> QED BY InitTimer, <1>2, InitPoll, StepPoll, <1>1, StepSleep, PTL DEF Spec
=============================================================================
