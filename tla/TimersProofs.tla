------------------------------ MODULE TimersProofs ------------------------------
(***************************************************************************)
(* Proofs about RuntimeTimers, for any number of timers, any width of the  *)
(* clock's word and any bounds.                                            *)
(***************************************************************************)
EXTENDS RuntimeTimers, RecursionProofs

-----------------------------------------------------------------------------
\* Arithmetic modulo a word.

\* Division with remainder.
LEMMA DivMod ==
  ASSUME NEW W \in Nat \ {0}, NEW x \in Int
  PROVE  x % W \in 0 .. W - 1 /\ x \div W \in Int /\ x = W * (x \div W) + (x % W)
<1>1. x \div W \in Int  OBVIOUS
<1>2. x % W \in 0 .. W - 1  BY Z3
<1>3. x = W * (x \div W) + (x % W)  BY Z3
<1> QED BY <1>1, <1>2, <1>3

\* The remainder is unique.
LEMMA Unique ==
  ASSUME NEW W \in Nat \ {0}, NEW q \in Int, NEW p \in Int, NEW r \in 0 .. W - 1, NEW s \in 0 .. W - 1,
         W * q + r = W * p + s
  PROVE  r = s
<1>1. CASE q >= p + 1
  <2>1. W * q >= W * (p + 1)  BY <1>1, Z3
  <2>2. W * (p + 1) = W * p + W  OBVIOUS
  <2> QED  BY <2>1, <2>2
<1>2. CASE p >= q + 1
  <2>1. W * p >= W * (q + 1)  BY <1>2, Z3
  <2>2. W * (q + 1) = W * q + W  OBVIOUS
  <2> QED  BY <2>1, <2>2
<1>3. CASE p = q  BY <1>3
<1> QED  BY <1>1, <1>2, <1>3

\* A remainder is recognised by any quotient.
LEMMA ModEq ==
  ASSUME NEW W \in Nat \ {0}, NEW x \in Int, NEW q \in Int, NEW r \in 0 .. W - 1, x = W * q + r
  PROVE  x % W = r
<1>1. x % W \in 0 .. W - 1 /\ x \div W \in Int /\ x = W * (x \div W) + (x % W)  BY DivMod
<1> DEFINE p == x \div W
           s == x % W
<1>2. W * q + r = W * p + s /\ p \in Int /\ s \in 0 .. W - 1  BY <1>1
<1> HIDE DEF p, s
<1>3. r = s BY <1>2, Unique
<1> QED  BY <1>3 DEF s

\* A number below the word is its own remainder.
LEMMA Small == ASSUME NEW W \in Nat \ {0}, NEW x \in 0 .. W - 1 PROVE x % W = x
<1>1. x = W * 0 + x OBVIOUS
<1> QED BY <1>1, ModEq

\* The difference of two words is the word of the difference.
LEMMA ModSub ==
  ASSUME NEW W \in Nat \ {0}, NEW x \in Int, NEW y \in Int
  PROVE  ((x % W) - (y % W)) % W = (x - y) % W
<1> DEFINE p == x \div W
           s == x % W
           q == y \div W
           t == y % W
           u == (x - y) \div W
           v == (x - y) % W
<1>1. p \in Int /\ s \in 0 .. W - 1 /\ x = W * p + s  BY DivMod
<1>2. q \in Int /\ t \in 0 .. W - 1 /\ y = W * q + t  BY DivMod
<1>3. u \in Int /\ v \in 0 .. W - 1 /\ x - y = W * u + v  BY DivMod, x - y \in Int
<1> HIDE DEF p, s, q, t, u, v
<1>4. W * (u + q - p) = W * u + W * q - W * p  BY <1>1, <1>2, <1>3, Z3
<1>5. s - t = W * (u + q - p) + v  BY <1>1, <1>2, <1>3, <1>4, Z3
<1>6. (s - t) % W = v
   BY <1>5, <1>1, <1>2, <1>3, ModEq, s - t \in Int, u + q - p \in Int
<1> QED  BY <1>6 DEF s, t, v

\* Adding to a word gives the word of the sum.
LEMMA ModAdd ==
  ASSUME NEW W \in Nat \ {0}, NEW x \in Int, NEW d \in Int
  PROVE  ((x % W) + d) % W = (x + d) % W
<1> DEFINE p == x \div W
           s == x % W
           u == (x + d) \div W
           v == (x + d) % W
<1>1. p \in Int /\ s \in 0 .. W - 1 /\ x = W * p + s  BY DivMod
<1>3. u \in Int /\ v \in 0 .. W - 1 /\ x + d = W * u + v  BY DivMod, x + d \in Int
<1> HIDE DEF p, s, u, v
<1>4. W * (u - p) = W * u - W * p  BY <1>1, <1>3, Z3
<1>5. s + d = W * (u - p) + v  BY <1>1, <1>3, <1>4, Z3
<1>6. (s + d) % W = v
   BY <1>5, <1>1, <1>3, ModEq, s + d \in Int, u - p \in Int
<1> QED  BY <1>6 DEF s, v

-----------------------------------------------------------------------------
\* What the code chooses.

\* A set of integers with a lower bound has a least element.
LEMMA LeastProperty ==
  ASSUME NEW S \in SUBSET Int, S # {}, NEW b \in Int, \A x \in S : x >= b
  PROVE  Least(S) \in S /\ \A y \in S : Least(S) <= y
<1> DEFINE T == {n \in Nat : n + b \in S}
<1>1. PICK x \in S : TRUE  OBVIOUS
<1>2. x - b \in Nat /\ (x - b) + b = x  BY <1>1
<1>3. T \in SUBSET Nat /\ T # {}  BY <1>1, <1>2
<1>4. PICK n \in T : \A m \in T : n <= m  BY <1>3, LeastOf
<1>5. ASSUME NEW y \in S PROVE n + b <= y
  <2>1. y \in Int /\ y >= b  OBVIOUS
  <2>2. y - b \in Nat /\ (y - b) + b = y  BY <2>1
  <2>3. n <= y - b  BY <1>4, <2>2
  <2> QED  BY <2>1, <2>3
<1> QED  BY <1>4, <1>5 DEF Least

\* The constants, and Word is more than twice MAXINT.
LEMMA Constants ==
  /\ NUM_TIMERS \in Nat /\ Word \in Nat \ {0} /\ MAXINT \in Int /\ 2 * MAXINT + 2 <= Word
  /\ MaxLag \in Nat /\ MaxLag <= MAXINT /\ MaxNow \in Nat /\ MaxOps \in Nat
  /\ OneShots \subseteq 0 .. Word - 1 /\ Periods \subseteq 0 .. Word - 1
<1>1. Word \in Nat \ {0} /\ Word \div 2 \in Int /\ 2 * (Word \div 2) <= Word  BY TimersAssumption
<1> QED  BY <1>1, TimersAssumption DEF MAXINT

-----------------------------------------------------------------------------
\* The invariant.

\* A running timer was started, or fired last, at the time t0 stands for: a period
\* before it is due.
Started(i) == deadline[i] - timers[i].dt
DueInv ==
  \A i \in Id : timers[i].isrunning =>
    /\ Started(i) \in 0 .. now
    /\ timers[i].t0 = Started(i) % Word

IInv == TypeOK /\ DueInv

\* How long ago a running timer was started, as far as a word can tell.
LEMMA ElapsedSinceStart ==
  ASSUME IInv, NEW i \in Id, timers[i].isrunning
  PROVE  Elapsed(i) = (now - Started(i)) % Word
<1>1. now \in Int /\ Started(i) \in Int /\ timers[i].t0 = Started(i) % Word
  BY DEF IInv, TypeOK, DueInv
<1>2. ((now % Word) - (Started(i) % Word)) % Word = (now - Started(i)) % Word
  BY <1>1, Constants, ModSub
<1> QED  BY <1>1, <1>2 DEF Elapsed, GetNow

\* fireTimers finds no timer that is not due, however often the clock has wrapped.
LEMMA ExpiredIsDue ==
  ASSUME IInv, NEW i \in Expired
  PROVE  now >= deadline[i]
<1> DEFINE s == Started(i)
<1>1. i \in Id /\ timers[i].isrunning /\ Elapsed(i) >= timers[i].dt  BY DEF Expired
<1>2. timers[i] \in RTimer /\ deadline[i] \in Int /\ s \in 0 .. now /\ now \in Int
  BY <1>1 DEF IInv, TypeOK, DueInv
<1>3. timers[i].dt \in 0 .. Word - 1  BY <1>2 DEF RTimer
<1>4. CASE now - s < timers[i].dt
  <2>1. now - s \in 0 .. Word - 1  BY <1>2, <1>3, <1>4, Constants
  <2>2. (now - s) % Word = now - s  BY <2>1, Constants, Small
  <2>3. Elapsed(i) = now - s  BY <1>1, <2>2, ElapsedSinceStart
  <2> QED  BY <1>1, <1>2, <1>3, <1>4, <2>3
<1>5. CASE ~(now - s < timers[i].dt)
  BY <1>2, <1>3, <1>5 DEF Started
<1> QED  BY <1>4, <1>5

\* The first timer that has expired is one.
LEMMA FirstExpired ==
  ASSUME Expired # {}
  PROVE  Least(Expired) \in Expired /\ Least(Expired) \in Id
<1>1. Expired \in SUBSET Int /\ \A x \in Expired : x >= 0
  BY Constants DEF Expired, Id
<1>2. Least(Expired) \in Expired  BY <1>1, LeastProperty
<1> QED  BY <1>2 DEF Expired

\* What fireTimers does to the timers.
LEMMA FireTimersEffect ==
  ASSUME IInv, FireTimers
  PROVE  /\ timers' \in [Id -> RTimer] /\ deadline' \in [Id -> Nat] /\ posted' = TRUE
         /\ \A i \in Id : timers'[i].isrunning => timers[i].isrunning /\ timers'[i].dt = timers[i].dt
         /\ \A i \in Id : \/ timers'[i] = timers[i] /\ deadline'[i] = deadline[i]
                          \/ ~timers'[i].isrunning /\ i \in Expired /\ deadline'[i] = deadline[i]
                          \/ /\ i \in Expired
                             /\ timers'[i].t0 = (timers[i].t0 + timers[i].dt) % Word
                             /\ deadline'[i] = deadline[i] + timers[i].dt
<1>1. timers \in [Id -> RTimer] /\ deadline \in [Id -> Nat]  BY DEF IInv, TypeOK
<1>2. CASE Expired = {}
  BY <1>1, <1>2 DEF FireTimers
<1>3. CASE Expired # {}
  <2> DEFINE j == Least(Expired)
             u == (timers[j].t0 + timers[j].dt) % Word
  <2>1. j \in Id /\ j \in Expired  BY <1>3, FirstExpired
  <2>2. timers[j] \in RTimer /\ timers[j].t0 \in Int /\ timers[j].dt \in Nat /\ deadline[j] \in Nat
    BY <1>1, <2>1, Constants DEF RTimer
  <2>3. u \in 0 .. Word - 1  BY <2>2, Constants, DivMod, timers[j].t0 + timers[j].dt \in Int
  <2>4. /\ posted' = TRUE
        /\ IF timers[j].isoneshot
           THEN timers' = [timers EXCEPT ![j].isrunning = FALSE] /\ deadline' = deadline
           ELSE /\ timers' = [timers EXCEPT ![j].t0 = u]
                /\ deadline' = [deadline EXCEPT ![j] = @ + timers[j].dt]
    BY <1>3, Zenon DEF FireTimers
  <2> HIDE DEF j, u
  <2>5. CASE timers[j].isoneshot
    <3>1. timers' = [timers EXCEPT ![j].isrunning = FALSE] /\ deadline' = deadline  BY <2>4, <2>5
    <3>2. timers' \in [Id -> RTimer]  BY <1>1, <2>1, <3>1 DEF RTimer
    <3> QED  BY <1>1, <2>1, <2>4, <3>1, <3>2 DEF RTimer
  <2>6. CASE ~timers[j].isoneshot
    <3>1. /\ timers' = [timers EXCEPT ![j].t0 = u]
          /\ deadline' = [deadline EXCEPT ![j] = @ + timers[j].dt]
      BY <2>4, <2>6
    <3>2. timers' \in [Id -> RTimer]  BY <1>1, <2>1, <2>3, <3>1 DEF RTimer
    <3>3. deadline' \in [Id -> Nat]  BY <1>1, <2>1, <2>2, <3>1
    <3>4. timers'[j].t0 = u /\ deadline'[j] = deadline[j] + timers[j].dt
      BY <1>1, <2>1, <3>1 DEF RTimer
    <3>5. \A i \in Id \ {j} : timers'[i] = timers[i] /\ deadline'[i] = deadline[i]
      BY <1>1, <2>1, <3>1
    <3>6. timers'[j].isrunning = timers[j].isrunning /\ timers'[j].dt = timers[j].dt
      BY <1>1, <2>1, <3>1 DEF RTimer
    <3>7. ASSUME NEW i \in Id
          PROVE  /\ timers'[i].isrunning => timers[i].isrunning /\ timers'[i].dt = timers[i].dt
                 /\ \/ timers'[i] = timers[i] /\ deadline'[i] = deadline[i]
                    \/ /\ i \in Expired
                       /\ timers'[i].t0 = (timers[i].t0 + timers[i].dt) % Word
                       /\ deadline'[i] = deadline[i] + timers[i].dt
      <4>1. CASE i = j  BY <4>1, <2>1, <3>4, <3>6 DEF u
      <4>2. CASE i # j  BY <4>2, <3>5
      <4> QED  BY <4>1, <4>2
    <3> QED  BY <2>4, <3>2, <3>3, <3>7
  <2> QED  BY <2>5, <2>6
<1> QED  BY <1>2, <1>3

\* fireTimers leaves each running timer due a period after what its t0 stands for.
LEMMA FireTimersDue ==
  ASSUME IInv, FireTimers, now' = now
  PROVE  DueInv'
<1> SUFFICES ASSUME NEW i \in Id, timers'[i].isrunning
             PROVE  Started(i)' \in 0 .. now /\ timers'[i].t0 = Started(i)' % Word
  BY DEF DueInv
<1>1. timers[i].isrunning /\ timers'[i].dt = timers[i].dt  BY FireTimersEffect
<1>2. /\ timers[i] \in RTimer /\ deadline[i] \in Nat /\ now \in Nat
      /\ Started(i) \in 0 .. now /\ timers[i].t0 = Started(i) % Word
  BY <1>1 DEF IInv, TypeOK, DueInv
<1>3. timers[i].dt \in Nat /\ Word \in Nat \ {0}  BY <1>2, Constants DEF RTimer
<1>4. CASE timers'[i] = timers[i] /\ deadline'[i] = deadline[i]
  BY <1>4, <1>2 DEF Started
<1>5. CASE /\ i \in Expired
           /\ timers'[i].t0 = (timers[i].t0 + timers[i].dt) % Word
           /\ deadline'[i] = deadline[i] + timers[i].dt
  <2>1. Started(i)' = deadline[i]  BY <1>1, <1>2, <1>3, <1>5 DEF Started
  <2>2. deadline[i] \in 0 .. now  BY <1>2, <1>5, ExpiredIsDue
  <2>3. ((Started(i) % Word) + timers[i].dt) % Word = (Started(i) + timers[i].dt) % Word
    BY <1>2, <1>3, ModAdd, Started(i) \in Int, timers[i].dt \in Int
  <2>4. Started(i) + timers[i].dt = deadline[i]  BY <1>2, <1>3 DEF Started
  <2> QED  BY <1>2, <1>5, <2>1, <2>2, <2>3, <2>4
<1> QED  BY <1>4, <1>5, FireTimersEffect

-----------------------------------------------------------------------------
\* The calls of the runtime.

\* A timer that is started is due a timeout from now.
LEMMA StartStep ==
  ASSUME IInv, NEW i \in Id, NEW dt \in 0 .. Word - 1, NEW b \in BOOLEAN, StartTimer(i, dt, b)
  PROVE  IInv'
<1>1. /\ timers \in [Id -> RTimer] /\ deadline \in [Id -> Nat] /\ now \in 0 .. MaxNow /\ ops \in 0 .. MaxOps
      /\ Word \in Nat \ {0} /\ MaxOps \in Nat /\ now % Word \in 0 .. Word - 1
  BY Constants, DivMod DEF IInv, TypeOK
<1>2. /\ timers' = [timers EXCEPT ![i] = [@ EXCEPT !.isrunning = TRUE, !.t0 = GetNow, !.dt = dt, !.isoneshot = b]]
      /\ deadline' = [deadline EXCEPT ![i] = now + dt]
      /\ posted' = TRUE /\ thread' = "tasks" /\ ops < MaxOps /\ ops' = ops + 1
      /\ UNCHANGED <<now, hw, events>>
  BY DEF StartTimer, Calls
<1>3. /\ timers'[i].isrunning /\ timers'[i].dt = dt /\ timers'[i].t0 = GetNow /\ deadline'[i] = now + dt
      /\ \A j \in Id \ {i} : timers'[j] = timers[j] /\ deadline'[j] = deadline[j]
  BY <1>1, <1>2 DEF RTimer
<1>4. timers' \in [Id -> RTimer] /\ deadline' \in [Id -> Nat]
  <2> DEFINE t == [timers[i] EXCEPT !.isrunning = TRUE, !.t0 = GetNow, !.dt = dt, !.isoneshot = b]
  <2>1. t \in RTimer  BY <1>1 DEF RTimer, GetNow
  <2>2. timers' = [timers EXCEPT ![i] = t]  BY <1>2
  <2> HIDE DEF t
  <2> QED  BY <1>1, <1>2, <2>1, <2>2
<1>5. TypeOK'  BY <1>1, <1>2, <1>4 DEF IInv, TypeOK
<1>6. Started(i)' = now  BY <1>1, <1>3 DEF Started
<1>7. DueInv'
  <2> SUFFICES ASSUME NEW j \in Id, timers'[j].isrunning
               PROVE  Started(j)' \in 0 .. now /\ timers'[j].t0 = Started(j)' % Word
    BY <1>2 DEF DueInv
  <2>1. CASE j = i  BY <2>1, <1>1, <1>3, <1>6 DEF GetNow
  <2>2. CASE j # i  BY <2>2, <1>3 DEF IInv, DueInv, Started
  <2> QED  BY <2>1, <2>2
<1> QED  BY <1>5, <1>7 DEF IInv

\* A timer that is made or destroyed does not run.
LEMMA MakeStep ==
  ASSUME IInv, CreateTimer \/ \E i \in Id : DestroyTimer(i)
  PROVE  /\ IInv' /\ UNCHANGED <<now, deadline, posted, hw, events>>
         /\ \A i \in Id : timers'[i].isrunning => timers'[i].dt = timers[i].dt /\ timers[i].isrunning
<1>1. timers \in [Id -> RTimer] /\ ops \in 0 .. MaxOps /\ MaxOps \in Nat
  BY Constants DEF IInv, TypeOK
<1>2. /\ UNCHANGED <<now, deadline, posted, hw, events>>
      /\ thread' = "tasks" /\ ops < MaxOps /\ ops' = ops + 1
  BY DEF CreateTimer, DestroyTimer, Calls
<1>3. /\ timers' \in [Id -> RTimer]
      /\ \A i \in Id : timers'[i].isrunning =>
           timers[i].isrunning /\ timers'[i].t0 = timers[i].t0 /\ timers'[i].dt = timers[i].dt
  <2>1. CASE CreateTimer
    <3> DEFINE k == Least({i \in Id : ~timers[i].iscreated})
    <3>1. timers' = [timers EXCEPT ![k].iscreated = TRUE]  BY <2>1 DEF CreateTimer
    <3> HIDE DEF k
    <3> QED  BY <1>1, <3>1 DEF RTimer
  <2>2. CASE \E i \in Id : DestroyTimer(i)
    <3>1. PICK i \in Id : timers' = [timers EXCEPT ![i].iscreated = FALSE, ![i].isrunning = FALSE]
      BY <2>2 DEF DestroyTimer
    <3> QED  BY <1>1, <3>1 DEF RTimer
  <2> QED  BY <2>1, <2>2
<1>4. TypeOK'  BY <1>1, <1>2, <1>3 DEF IInv, TypeOK
<1>5. DueInv'  BY <1>2, <1>3 DEF IInv, DueInv, Started
<1> QED  BY <1>2, <1>3, <1>4, <1>5 DEF IInv

-----------------------------------------------------------------------------
\* The task updateFromTimer.

\* What is left of a timer is an int32_t.
LEMMA RemainingType ==
  ASSUME IInv, NEW i \in Id
  PROVE  Remaining(i) \in Int /\ Remaining(i) >= -Word
<1> DEFINE e == Elapsed(i)
           x == timers[i].dt - e
           u == x % Word
<1>1. timers[i] \in RTimer /\ Word \in Nat \ {0} /\ now \in Int /\ MAXINT \in Int /\ MAXINT <= Word
  BY Constants DEF IInv, TypeOK
<1>2. timers[i].t0 \in Int /\ timers[i].dt \in Int  BY <1>1 DEF RTimer
<1>3. now % Word \in Int  BY <1>1, DivMod
<1>4. e \in Int  BY <1>1, <1>2, <1>3, DivMod DEF Elapsed, GetNow
<1>5. x \in Int  BY <1>2, <1>4
<1>6. u \in 0 .. Word - 1  BY <1>1, <1>5, DivMod
<1>7. Remaining(i) = IF u <= MAXINT THEN u ELSE u - Word  BY DEF Remaining, Signed
<1> HIDE DEF u
<1> QED  BY <1>1, <1>6, <1>7

\* The least of what is left is one of them.
LEMMA LeastLeft ==
  ASSUME IInv, Lefts # {}
  PROVE  Least(Lefts) \in Lefts /\ Least(Lefts) \in Int /\ \A y \in Lefts : Least(Lefts) <= y
<1>1. Lefts \in SUBSET Int /\ \A x \in Lefts : x >= -Word  BY RemainingType DEF Lefts
<1>2. -Word \in Int  BY Constants
<1> QED  BY <1>1, <1>2, LeastProperty

\* When the TimerService is armed, and for which delay.
LEMMA ArmedFor ==
  ASSUME IInv, NEW d \in Nat, StartOneShotAt(d)
  PROVE  /\ hw' \in [armed : BOOLEAN, due : Nat] /\ hw'.armed
         /\ hw'.due <= now \/ hw'.due <= now + d
<1> DEFINE w == now % Word
<1>1. now \in Nat /\ Word \in Nat \ {0}  BY Constants DEF IInv, TypeOK
<1>2. w \in Nat /\ w <= now
  <2>1. w \in 0 .. Word - 1 /\ now \div Word \in Int /\ now = Word * (now \div Word) + w  BY <1>1, DivMod
  <2>2. now \div Word >= 0  BY <1>1, Z3
  <2> DEFINE q == now \div Word
  <2>3. q \in Nat /\ now = Word * q + w  BY <2>1, <2>2
  <2> HIDE DEF q
  <2>4. Word * q >= 0  BY <1>1, <2>3, Z3
  <2> QED  BY <1>1, <2>1, <2>3, <2>4
<1>3. hw' = Armed(IF now <= w + d THEN w + d ELSE now)  BY DEF StartOneShotAt, GetNow
<1> HIDE DEF w
<1> QED  BY <1>1, <1>2, <1>3 DEF Armed

\* The task keeps the invariant, and either fires or arms.
LEMMA UpdateStep ==
  ASSUME IInv, UpdateFromTimer
  PROVE  IInv'
<1>1. /\ timers \in [Id -> RTimer] /\ deadline \in [Id -> Nat] /\ now \in 0 .. MaxNow
      /\ UNCHANGED <<now, events, thread, ops>>
  BY DEF IInv, TypeOK, UpdateFromTimer
<1>2. CASE Lefts = {} /\ posted' = FALSE /\ hw' = Stopped /\ UNCHANGED <<timers, deadline>>
  BY <1>1, <1>2 DEF IInv, TypeOK, DueInv, Started, Stopped
<1>3. CASE hw' = Stopped /\ FireTimers
  <2>1. TypeOK'  BY <1>1, <1>3, FireTimersEffect DEF IInv, TypeOK, Stopped
  <2> QED  BY <1>1, <1>3, <2>1, FireTimersDue DEF IInv
<1>4. CASE /\ Lefts # {} /\ Least(Lefts) > 0
           /\ StartOneShotAt(Least(Lefts))
           /\ posted' = FALSE
           /\ UNCHANGED <<timers, deadline>>
  <2>1. Least(Lefts) \in Nat  BY <1>4, LeastLeft
  <2>2. hw' \in [armed : BOOLEAN, due : Nat]  BY <1>4, <2>1, ArmedFor
  <2> QED  BY <1>1, <1>4, <2>2 DEF IInv, TypeOK, DueInv, Started
<1> QED  BY <1>2, <1>3, <1>4 DEF UpdateFromTimer

-----------------------------------------------------------------------------
\* The steps of everybody.

\* No timer runs at the start.
LEMMA InitInv == Init => IInv
<1> SUFFICES ASSUME Init PROVE IInv  OBVIOUS
<1>1. timers \in [Id -> RTimer]  BY Constants DEF Init, RTimer
<1>2. TypeOK
  <2>1. now \in 0 .. MaxNow /\ ops \in 0 .. MaxOps  BY Constants DEF Init
  <2>2. hw \in [armed : BOOLEAN, due : Nat]  BY DEF Init, Stopped
  <2> QED  BY <1>1, <2>1, <2>2 DEF Init, TypeOK
<1>3. DueInv  BY DEF Init, DueInv
<1> QED  BY <1>2, <1>3 DEF IInv

\* Every step keeps the invariant.
LEMMA NextInv == IInv /\ [Next]_vars => IInv'
<1> SUFFICES ASSUME IInv, [Next]_vars PROVE IInv'  OBVIOUS
<1>1. CASE Client
  <2>1. ASSUME NEW i \in Id, StartOneShot(i) \/ StartPeriodic(i) PROVE IInv'
    <3>1. PICK dt \in OneShots \cup Periods : \E b \in BOOLEAN : StartTimer(i, dt, b)
      BY <2>1 DEF StartOneShot, StartPeriodic
    <3> QED  BY <3>1, Constants, StartStep
  <2> QED  BY <1>1, <2>1, MakeStep DEF Client
<1>2. CASE UpdateFromTimer  BY <1>2, UpdateStep
<1>3. CASE TasksComplete
  BY <1>3 DEF TasksComplete, IInv, TypeOK, DueInv, Started
<1>4. CASE DispatchTimerFired
  <2>1. /\ FireTimers /\ thread' = "tasks" /\ events > 0 /\ events' = events - 1
        /\ UNCHANGED <<now, hw, ops>>
    BY <1>4 DEF DispatchTimerFired
  <2>2. timers' \in [Id -> RTimer] /\ deadline' \in [Id -> Nat] /\ posted' = TRUE
    BY <2>1, FireTimersEffect
  <2>3. events' \in Nat  BY <2>1 DEF IInv, TypeOK
  <2>4. TypeOK'  BY <2>1, <2>2, <2>3 DEF IInv, TypeOK
  <2> QED  BY <2>1, <2>4, FireTimersDue DEF IInv
<1>5. CASE TimerTaskRuns
  BY <1>5 DEF TimerTaskRuns, IInv, TypeOK, DueInv, Started, Stopped
<1>6. CASE Tick
  BY <1>6, Constants DEF Tick, IInv, TypeOK, DueInv, Started
<1>7. CASE UNCHANGED vars
  BY <1>7 DEF vars, IInv, TypeOK, DueInv, Started
<1> QED  BY <1>1, <1>2, <1>3, <1>4, <1>5, <1>6, <1>7 DEF Next, EventThread

\* The invariant holds in every state.
LEMMA IInvHolds == Spec => []IInv
  BY InitInv, NextInv, PTL DEF Spec

-----------------------------------------------------------------------------
\* The theorems.

\* TypeOK: every field of the timers of PoRuntimeSWTimersM keeps its width, the
\* count of events and the time of the pending task of TimerService are natural.
THEOREM TimersTypeCorrect == Spec => []TypeOK
<1>1. IInv => TypeOK  BY DEF IInv
<1> QED  BY <1>1, IInvHolds, PTL

\* NeverEarly: fireTimers fires no timer before it is due, whatever stale event
\* TimerService sent and however often the 32-bit clock has wrapped.
THEOREM NeverEarlyHolds == Spec => NeverEarly
<1>1. ASSUME IInv, [Next]_vars, NEW i \in Id, Fires(i) PROVE now >= deadline[i]
  <2>1. timers \in [Id -> RTimer] /\ ops \in Nat  BY <1>1, Constants DEF IInv, TypeOK
  <2>2. CASE FireTimers
    <3>1. i \in Expired \/ timers'[i] = timers[i]  BY <1>1, <2>2, FireTimersEffect
    <3> QED  BY <1>1, <3>1, ExpiredIsDue DEF Fires
  <2>3. CASE timers' = timers
    BY <1>1, <2>3 DEF Fires
  <2>4. CASE CreateTimer
    <3> DEFINE k == Least({j \in Id : ~timers[j].iscreated})
    <3>1. timers' = [timers EXCEPT ![k].iscreated = TRUE] /\ ops' = ops + 1
      BY <2>4 DEF CreateTimer, Calls
    <3> HIDE DEF k
    <3> QED  BY <1>1, <2>1, <3>1 DEF Fires, RTimer
  <2>5. ASSUME NEW j \in Id, DestroyTimer(j) PROVE now >= deadline[i]
    <3>1. timers' = [timers EXCEPT ![j].iscreated = FALSE, ![j].isrunning = FALSE] /\ ops' = ops + 1
      BY <2>5 DEF DestroyTimer, Calls
    <3> QED  BY <1>1, <2>1, <3>1 DEF Fires, RTimer
  <2>6. ASSUME NEW j \in Id, NEW dt, NEW b, StartTimer(j, dt, b) PROVE now >= deadline[i]
    <3>1. timers' = [timers EXCEPT ![j] = [@ EXCEPT !.isrunning = TRUE, !.t0 = GetNow, !.dt = dt, !.isoneshot = b]]
          /\ ops' = ops + 1
      BY <2>6 DEF StartTimer, Calls
    <3> QED  BY <1>1, <2>1, <3>1 DEF Fires, RTimer
  <2> QED
    BY <1>1, <2>2, <2>3, <2>4, <2>5, <2>6
    DEF Next, Client, StartOneShot, StartPeriodic, EventThread, UpdateFromTimer, TasksComplete,
        DispatchTimerFired, TimerTaskRuns, Tick, vars
<1>2. IInv /\ [Next]_vars => [\A i \in Id : Fires(i) => now >= deadline[i]]_vars
  BY <1>1
<1> QED  BY <1>2, IInvHolds, PTL DEF Spec, NeverEarly
-----------------------------------------------------------------------------
\* Running timers are looked after, when nobody asks for a timeout that an int32_t
\* takes for the past, or for MAXINT itself.
ShortTimeouts == OneShots \cup Periods \subseteq 0 .. MAXINT - 1

\* What a running timer has left is seen as it is.
SoonInv ==
  \A i \in Id : timers[i].isrunning => timers[i].dt < MAXINT /\ now <= deadline[i] + MaxLag

\* LookedAfter holds whenever the task is not posted, whatever the thread does.
Cared ==
  ~posted =>
    \A i \in Id : timers[i].isrunning =>
      events > 0 \/ (hw.armed /\ hw.due <= Latest(deadline[i], now))

CareInv == IInv /\ SoonInv /\ Cared

\* What is left of a running timer is the time until it is due, and never the
\* value the code's minimum does not notice.
LEMMA RemainingIsTimeLeft ==
  ASSUME IInv, SoonInv, NEW i \in Id, timers[i].isrunning
  PROVE  Remaining(i) = deadline[i] - now /\ Remaining(i) # MAXINT
<1> DEFINE s == Started(i)
           x == deadline[i] - now
<1>1. timers[i] \in RTimer /\ deadline[i] \in Nat /\ now \in Nat /\ s \in 0 .. now
  BY Constants DEF IInv, TypeOK, DueInv
<1>2. timers[i].dt \in Nat /\ timers[i].dt < MAXINT /\ now <= deadline[i] + MaxLag
  BY <1>1, Constants DEF SoonInv, RTimer
<1>3. now - s \in 0 .. Word - 1 /\ x = timers[i].dt - (now - s) /\ x < MAXINT /\ x >= -MAXINT
  BY <1>1, <1>2, Constants DEF Started
<1>4. Elapsed(i) = now - s  BY <1>3, Constants, Small, ElapsedSinceStart
<1>5. Remaining(i) = Signed(x)  BY <1>3, <1>4 DEF Remaining
<1> HIDE DEF s, x
<1>6. CASE x \in 0 .. Word - 1
  <2>1. x % Word = x  BY <1>6, Constants, Small
  <2>2. Signed(x) = x  BY <1>3, <1>6, <2>1, Constants DEF Signed
  <2>3. x \in Int /\ x < MAXINT  BY <1>3, <1>6, Constants
  <2> QED  BY <1>5, <2>2, <2>3, Constants DEF x
<1>7. CASE ~(x \in 0 .. Word - 1)
  <2>1. x \in Int /\ x < 0  BY <1>1, <1>3, <1>7, Constants DEF x
  <2>2. x + Word \in 0 .. Word - 1 /\ x + Word > MAXINT  BY <1>3, <2>1, Constants
  <2>3. x = Word * (-1) + (x + Word)  BY <2>1, Constants
  <2>4. x % Word = x + Word  BY <2>1, <2>2, <2>3, Constants, ModEq
  <2>5. Signed(x) = x  BY <2>1, <2>2, <2>4, Constants DEF Signed
  <2> QED  BY <1>3, <1>5, <2>1, <2>5, Constants DEF x
<1> QED  BY <1>6, <1>7

\* The task leaves a pending event of TimerService that is in time for all.
LEMMA UpdateCares ==
  ASSUME CareInv, UpdateFromTimer
  PROVE  SoonInv' /\ Cared'
<1>0. IInv /\ SoonInv /\ UNCHANGED <<now, events>> /\ now \in Nat /\ MaxLag \in Nat /\ deadline \in [Id -> Nat]
  BY Constants DEF CareInv, IInv, TypeOK, UpdateFromTimer
<1>1. CASE Lefts = {} /\ posted' = FALSE /\ hw' = Stopped /\ UNCHANGED <<timers, deadline>>
  <2>1. \A i \in Id : ~timers[i].isrunning  BY <1>0, <1>1, RemainingIsTimeLeft DEF Lefts
  <2> QED  BY <1>0, <1>1, <2>1 DEF SoonInv, Cared
<1>2. CASE FireTimers
  <2>1. \A i \in Id : timers'[i].isrunning =>
          /\ timers[i].isrunning /\ timers'[i].dt = timers[i].dt
          /\ deadline'[i] = deadline[i] \/ deadline'[i] = deadline[i] + timers[i].dt
    BY <1>0, <1>2, FireTimersEffect
  <2>2. \A i \in Id : timers[i].dt \in Nat
    BY <1>0, Constants DEF IInv, TypeOK, RTimer
  <2>3. SoonInv'  BY <1>0, <2>1, <2>2 DEF SoonInv
  <2> QED  BY <1>0, <1>2, <2>3, FireTimersEffect DEF Cared
<1>3. CASE /\ Lefts # {} /\ Least(Lefts) > 0
           /\ StartOneShotAt(Least(Lefts))
           /\ posted' = FALSE
           /\ UNCHANGED <<timers, deadline>>
  <2> DEFINE d == Least(Lefts)
  <2>1. d \in Nat /\ \A y \in Lefts : d <= y  BY <1>0, <1>3, LeastLeft
  <2>2. hw'.armed /\ (hw'.due <= now \/ hw'.due <= now + d) /\ hw'.due \in Nat
    BY <1>0, <1>3, <2>1, ArmedFor
  <2> HIDE DEF d
  <2>3. ASSUME NEW i \in Id, timers[i].isrunning PROVE hw'.due <= Latest(deadline[i], now)
    <3>1. Remaining(i) = deadline[i] - now /\ Remaining(i) \in Lefts
      BY <1>0, <2>3, RemainingIsTimeLeft DEF Lefts
    <3>2. d <= deadline[i] - now  BY <2>1, <3>1
    <3> QED  BY <1>0, <2>1, <2>2, <3>2 DEF Latest
  <2>4. Cared'  BY <1>0, <1>3, <2>2, <2>3 DEF Cared, Latest
  <2> QED  BY <1>0, <1>3, <2>4 DEF SoonInv
<1> QED  BY <1>1, <1>2, <1>3 DEF UpdateFromTimer

\* Every step keeps the running timers looked after.
LEMMA CareStep ==
  ASSUME ShortTimeouts, CareInv, [Next]_vars
  PROVE  CareInv'
<1>0. IInv /\ IInv' /\ SoonInv /\ Cared /\ now \in Nat /\ MaxLag \in Nat /\ deadline \in [Id -> Nat] /\ hw.due \in Int
  BY NextInv, Constants DEF CareInv, IInv, TypeOK
<1>1. CASE CreateTimer \/ \E i \in Id : DestroyTimer(i)
  <2>1. /\ UNCHANGED <<now, deadline, posted, hw, events>>
        /\ \A i \in Id : timers'[i].isrunning => timers'[i].dt = timers[i].dt /\ timers[i].isrunning
    BY <1>0, <1>1, MakeStep
  <2> QED  BY <1>0, <2>1 DEF CareInv, SoonInv, Cared, Latest
<1>2. ASSUME NEW i \in Id, StartOneShot(i) \/ StartPeriodic(i) PROVE CareInv'
  <2>1. PICK dt \in OneShots \cup Periods : \E b \in BOOLEAN : StartTimer(i, dt, b)
    BY <1>2 DEF StartOneShot, StartPeriodic
  <2>2. dt \in 0 .. MAXINT - 1  BY ShortTimeouts DEF ShortTimeouts
  <2>3. /\ posted' = TRUE /\ now' = now /\ timers \in [Id -> RTimer]
        /\ deadline' = [deadline EXCEPT ![i] = now + dt]
        /\ timers'[i].dt = dt
        /\ \A j \in Id \ {i} : timers'[j] = timers[j]
    BY <1>0, <2>1 DEF StartTimer, IInv, TypeOK, RTimer
  <2>4. ASSUME NEW j \in Id, timers'[j].isrunning
        PROVE  timers'[j].dt < MAXINT /\ now <= deadline'[j] + MaxLag
    <3>1. CASE j = i  BY <3>1, <1>0, <2>2, <2>3, Constants
    <3>2. CASE j # i  BY <3>2, <1>0, <2>3, <2>4 DEF SoonInv
    <3> QED  BY <3>1, <3>2
  <2>5. SoonInv' /\ Cared'  BY <2>3, <2>4 DEF SoonInv, Cared
  <2> QED  BY <1>0, <2>5 DEF CareInv
<1>3. CASE UpdateFromTimer
  BY <1>0, <1>3, UpdateCares DEF CareInv
<1>4. CASE TasksComplete
  BY <1>0, <1>4 DEF TasksComplete, CareInv, SoonInv, Cared
<1>5. CASE DispatchTimerFired
  <2>1. FireTimers /\ now' = now  BY <1>5 DEF DispatchTimerFired
  <2>2. \A i \in Id : timers'[i].isrunning =>
          /\ timers[i].isrunning /\ timers'[i].dt = timers[i].dt
          /\ deadline'[i] = deadline[i] \/ deadline'[i] = deadline[i] + timers[i].dt
    BY <1>0, <2>1, FireTimersEffect
  <2>3. \A i \in Id : timers[i].dt \in Nat
    BY <1>0, Constants DEF IInv, TypeOK, RTimer
  <2>4. SoonInv'  BY <1>0, <2>1, <2>2, <2>3 DEF SoonInv
  <2>5. posted' = TRUE  BY <1>0, <2>1, FireTimersEffect
  <2> QED  BY <1>0, <2>4, <2>5 DEF CareInv, Cared
<1>6. CASE TimerTaskRuns
  <2>1. events' > 0  BY <1>0, <1>6 DEF TimerTaskRuns, IInv, TypeOK
  <2> QED  BY <1>0, <1>6, <2>1 DEF TimerTaskRuns, CareInv, SoonInv, Cared
<1>7. CASE Tick
  <2>1. /\ \A i \in Id : timers[i].isrunning => now < deadline[i] + MaxLag
        /\ now' = now + 1 /\ UNCHANGED <<timers, deadline, posted, hw, events>>
    BY <1>7 DEF Tick
  <2>2. SoonInv'  BY <1>0, <2>1 DEF SoonInv
  <2>3. \A i \in Id : hw.due <= Latest(deadline[i], now) => hw.due <= Latest(deadline[i], now + 1)
    BY <1>0 DEF Latest
  <2>4. Cared'  BY <1>0, <2>1, <2>3 DEF Cared, Latest
  <2> QED  BY <1>0, <2>2, <2>4 DEF CareInv
<1>8. CASE UNCHANGED vars
  BY <1>0, <1>8 DEF vars, CareInv, SoonInv, Cared
<1> QED  BY <1>1, <1>2, <1>3, <1>4, <1>5, <1>6, <1>7, <1>8 DEF Next, Client, EventThread

\* LookedAfter: while the event thread rests, each running timer has an event of
\* TimerService on its way or a pending task that is in time for it, if no client
\* asks for MAXINT or more.
THEOREM LookedAfterHolds ==
  ASSUME ShortTimeouts
  PROVE  Spec => []LookedAfter
<1>1. Init => CareInv
  <2>1. ASSUME Init PROVE SoonInv /\ Cared  BY <2>1 DEF Init, SoonInv, Cared
  <2> QED  BY <2>1, InitInv DEF CareInv
<1>2. CareInv /\ [Next]_vars => CareInv'  BY ShortTimeouts, CareStep
<1>3. CareInv => LookedAfter  BY DEF CareInv, Cared, LookedAfter
<1> QED  BY <1>1, <1>2, <1>3, PTL DEF Spec
================================================================================
