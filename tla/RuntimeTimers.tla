--------------------------- MODULE RuntimeTimers ---------------------------
(***************************************************************************)
(* The timers of the middleware's agents: PoRuntimeSWTimersM multiplexes   *)
(* them onto one timer of PoSWTimerM, which is one scheduled task of the   *)
(* Java TimerService.  The task offers an event to the middleware's queue; *)
(* the event thread dispatches it into the middleware and then runs the    *)
(* tasks that were posted.                                                 *)
(*                                                                         *)
(* Three parties interleave: the event thread (client calls, dispatches,   *)
(* tasks), the executor of the TimerService, and the clock.  The clock     *)
(* counts milliseconds since the process started; the middleware sees its  *)
(* value modulo Word (2^32 in the code).                                   *)
(***************************************************************************)
EXTENDS Integers

CONSTANTS
  NUM_TIMERS,   \* timers there are
  Word,         \* number of values of a uint32_t
  OneShots,     \* timeouts clients ask for, once
  Periods,      \* timeouts clients ask for, periodically
  MaxLag,       \* bound: how late a timer may be fired; less than half a Word
  MaxNow,       \* bound: the clock stops here
  MaxOps        \* bound: calls clients make

ASSUME TimersAssumption ==
  /\ NUM_TIMERS \in Nat \ {0}
  /\ Word \in Nat \ {0}
  /\ OneShots \subseteq 0 .. Word - 1
  /\ Periods \subseteq 1 .. Word - 1
  /\ MaxLag \in 0 .. Word \div 2 - 1
  /\ MaxNow \in Nat
  /\ MaxOps \in Nat

VARIABLES
  now,        \* System.currentTimeMillis() - Init_Time
  timers,     \* PoRuntimeSWTimersM.timers
  deadline,   \* history: when each running timer is due
  posted,     \* the task updateFromTimer is in the scheduler's queue
  hw,         \* the TimerService's pending task
  events,     \* PoTimerFired events in the event queue
  thread,     \* what the event thread does
  ops         \* calls clients have made

vars == <<now, timers, deadline, posted, hw, events, thread, ops>>

-----------------------------------------------------------------------------
Id == 0 .. NUM_TIMERS - 1
MAXINT == Word \div 2 - 1                \* max int32_t

\* The int32_t with the bits of x.
Signed(x) == LET u == x % Word IN IF u <= MAXINT THEN u ELSE u - Word

GetNow == now % Word

RTimer == [t0 : 0 .. Word - 1, dt : 0 .. Word - 1,
           iscreated : BOOLEAN, isoneshot : BOOLEAN, isrunning : BOOLEAN]

\* No task is pending, or one is due at a time.
Stopped == [armed |-> FALSE, due |-> 0]
Armed(t) == [armed |-> TRUE, due |-> t]

Elapsed(i) == (GetNow - timers[i].t0) % Word
Remaining(i) == Signed(timers[i].dt - Elapsed(i))

Least(S) == CHOOSE x \in S : \A y \in S : x <= y

-----------------------------------------------------------------------------
\* Calls of the middleware's runtime, made while it handles an event or a task.
\* Whatever they do, the event thread then runs the tasks they posted.
Calls ==
  /\ ops < MaxOps
  /\ ops' = ops + 1
  /\ thread' = "tasks"

CreateTimer ==
  LET free == {i \in Id : ~timers[i].iscreated}
  IN  /\ free # {}
      /\ timers' = [timers EXCEPT ![Least(free)].iscreated = TRUE]
      /\ Calls
      /\ UNCHANGED <<now, deadline, posted, hw, events>>

\* The pending task is left to fire.
DestroyTimer(i) ==
  /\ timers[i].iscreated
  /\ timers' = [timers EXCEPT ![i].iscreated = FALSE, ![i].isrunning = FALSE]
  /\ Calls
  /\ UNCHANGED <<now, deadline, posted, hw, events>>

StartTimer(i, timeout, isoneshot) ==
  /\ timers[i].iscreated
  /\ timers' = [timers EXCEPT ![i] = [@ EXCEPT !.isrunning = TRUE, !.t0 = GetNow,
                                               !.dt = timeout, !.isoneshot = isoneshot]]
  /\ deadline' = [deadline EXCEPT ![i] = now + timeout]
  /\ posted' = TRUE
  /\ Calls
  /\ UNCHANGED <<now, hw, events>>

StartOneShot(i) == \E dt \in OneShots : StartTimer(i, dt, TRUE)
StartPeriodic(i) == \E dt \in Periods : StartTimer(i, dt, FALSE)

Client == CreateTimer \/ \E i \in Id : DestroyTimer(i) \/ StartOneShot(i) \/ StartPeriodic(i)

-----------------------------------------------------------------------------

\* Mutant of Expired: the event is trusted, whatever has happened since.
Running == {i \in Id : timers[i].isrunning}

Expired == {i \in Id : timers[i].isrunning /\ Elapsed(i) >= timers[i].dt}

\* Mutants of FireTimers: the task is not posted; the new t0 is not a word.
FireOnce ==
  \E i \in Expired :
    /\ i = Least(Expired)
    /\ timers' = [timers EXCEPT ![i].isrunning = FALSE]
    /\ UNCHANGED <<deadline, posted>>

FireUnwrapped ==
  \E i \in Expired :
    /\ timers' = [timers EXCEPT ![i].t0 = @ + timers[i].dt]
    /\ posted' = TRUE
    /\ UNCHANGED deadline

\* fireTimers(now): the first timer that has expired is fired, and the task posted
\* that looks for the next.
FireTimers ==
  /\ IF Expired = {} THEN UNCHANGED <<timers, deadline>>
     ELSE LET i == Least(Expired)
          IN  IF timers[i].isoneshot
              THEN /\ timers' = [timers EXCEPT ![i].isrunning = FALSE]
                   /\ UNCHANGED deadline
              ELSE /\ timers' = [timers EXCEPT ![i].t0 = (@ + timers[i].dt) % Word]
                   /\ deadline' = [deadline EXCEPT ![i] = @ + timers[i].dt]
  /\ posted' = TRUE

\* TimerService.startTimer(now, dt), a one-shot: t1 is the sum of two unsigned
\* words, compared with the clock itself.
StartOneShotAt(dt) ==
  LET t1 == GetNow + dt
  IN  hw' = Armed(IF now <= t1 THEN t1 ELSE now)

\* Mutant of Lefts: periodic timers are forgotten.
OneShotLefts == {Remaining(i) : i \in {j \in Id : timers[j].isrunning /\ timers[j].isoneshot}} \ {MAXINT}

\* What is left of the running timers that the code's minimum takes notice of.
Lefts == {Remaining(i) : i \in {j \in Id : timers[j].isrunning}} \ {MAXINT}

\* The task updateFromTimer.
UpdateFromTimer ==
  /\ thread = "tasks"
  /\ posted
  /\ \/ Lefts = {} /\ posted' = FALSE /\ hw' = Stopped /\ UNCHANGED <<timers, deadline>>
     \/ Lefts # {} /\ Least(Lefts) <= 0 /\ hw' = Stopped /\ FireTimers
     \/ /\ Lefts # {} /\ Least(Lefts) > 0
        /\ StartOneShotAt(Least(Lefts))
        /\ posted' = FALSE
        /\ UNCHANGED <<timers, deadline>>
  /\ UNCHANGED <<now, events, thread, ops>>

\* No task is left: the event thread waits for the next event.
TasksComplete ==
  /\ thread = "tasks"
  /\ ~posted
  /\ thread' = "wait"
  /\ UNCHANGED <<now, timers, deadline, posted, hw, events, ops>>

\* The event thread dispatches PoTimerFired: TimerMilli.fired().  Nothing tells
\* whether the task that offered it has been cancelled since.
DispatchTimerFired ==
  /\ thread = "wait"
  /\ events > 0
  /\ events' = events - 1
  /\ thread' = "tasks"
  /\ FireTimers
  /\ UNCHANGED <<now, hw, ops>>

EventThread == UpdateFromTimer \/ TasksComplete \/ DispatchTimerFired

-----------------------------------------------------------------------------
\* The executor runs the pending task.
TimerTaskRuns ==
  /\ hw.armed
  /\ hw.due <= now
  /\ hw' = Stopped
  /\ events' = events + 1
  /\ UNCHANGED <<now, timers, deadline, posted, thread, ops>>

\* Threads are not kept from the processor for 2^31 milliseconds.
Tick ==
  /\ now < MaxNow
  /\ \A i \in Id : timers[i].isrunning => now < deadline[i] + MaxLag
  /\ now' = now + 1
  /\ UNCHANGED <<timers, deadline, posted, hw, events, thread, ops>>

Init ==
  /\ now = 0
  /\ timers = [i \in Id |-> [t0 |-> 0, dt |-> 0, iscreated |-> FALSE, isoneshot |-> FALSE,
                             isrunning |-> FALSE]]
  /\ deadline = [i \in Id |-> 0]
  /\ posted = FALSE
  /\ hw = Stopped
  /\ events = 0
  /\ thread = "wait"
  /\ ops = 0

Next == Client \/ EventThread \/ TimerTaskRuns \/ Tick

Spec == Init /\ [][Next]_vars

-----------------------------------------------------------------------------
\* Every variable has its type.
TypeOK ==
  /\ now \in 0 .. MaxNow
  /\ timers \in [Id -> RTimer]
  /\ deadline \in [Id -> Nat]
  /\ posted \in BOOLEAN
  /\ hw \in [armed : BOOLEAN, due : Nat]
  /\ events \in Nat
  /\ thread \in {"wait", "tasks"}
  /\ ops \in 0 .. MaxOps

\* Timer i is fired by a step.
Fires(i) ==
  \/ timers[i].isrunning /\ ~timers'[i].isrunning /\ timers'[i].iscreated
  \/ timers'[i].isrunning /\ timers'[i].t0 # timers[i].t0 /\ ops' = ops

\* No timer is fired before it is due, whatever stale event the TimerService sent
\* and wherever the 32-bit clock stands.
NeverEarly == [][\A i \in Id : Fires(i) => now >= deadline[i]]_vars

Latest(x, y) == IF x >= y THEN x ELSE y

\* While the event thread rests, each running timer is looked after: an event is
\* on its way, or the TimerService will send one in time.
LookedAfter ==
  thread = "wait" /\ ~posted =>
    \A i \in Id : timers[i].isrunning =>
      events > 0 \/ (hw.armed /\ hw.due <= Latest(deadline[i], now))

\* A timer that is due is fired, stopped or started again; a period that was
\* missed is made up for.
EventuallyFires ==
  \A i \in Id :
    (timers[i].isrunning /\ deadline[i] <= now) ~> ~(timers[i].isrunning /\ deadline[i] <= now)

\* The event thread, the executor and the clock go on.
Fairness == WF_vars(EventThread) /\ WF_vars(TimerTaskRuns) /\ WF_vars(Tick)

FairSpec == Spec /\ Fairness

=============================================================================
