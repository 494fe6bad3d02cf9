------------------------- MODULE TimerServiceProofs -------------------------
(***************************************************************************)
(* The timers are right for any number of them, any periods, any number of *)
(* pending ticks and any width of an int.  The inductive invariant is      *)
(* Countdown: it relates what a timer has left to the ticks counted since  *)
(* its start, of which "elapsed" have not been handed out yet.             *)
(***************************************************************************)
EXTENDS TimerService, TLAPS

\* A period cast to int is an int, and is not zero once it is raised: a timer
\* that was started is never mistaken for a stopped one.
LEMMA TicksNonZero ==
    ASSUME NEW n \in Nat
    PROVE  Ticks(n) \in Int /\ Ticks(n) # 0
BY IntMaxAssumption DEF Ticks, ToInt

\* What handing out ticks does to one timer.
LEMMA AdvanceType ==
    ASSUME NEW tm \in Timer, NEW delta \in Nat
    PROVE  Advance(tm, delta) \in Timer
BY DEF Advance, Timer

\* Acknowledging touches only the latch of the timer asked for.
LEMMA AcknowledgeOf ==
    ASSUME NEW it \in [TimerIds -> Timer], NEW delta \in Nat,
           NEW t \in TimerIds, NEW u \in TimerIds
    PROVE  /\ Acknowledge(it, delta, t) \in [TimerIds -> Timer]
           /\ Acknowledge(it, delta, t)[u].interval = Advance(it[u], delta).interval
           /\ Acknowledge(it, delta, t)[u].left = Advance(it[u], delta).left
           /\ Acknowledge(it, delta, t)[u].expire =
                IF u = t THEN FALSE ELSE Advance(it[u], delta).expire
<1>1. \A v \in TimerIds : Advance(it[v], delta) \in Timer
  BY AdvanceType
<1>2. timerUpdate(it, delta) = [v \in TimerIds |-> Advance(it[v], delta)]
  BY DEF timerUpdate
<1> QED BY <1>1, <1>2 DEF Acknowledge, Timer

-----------------------------------------------------------------------------
(* Type correctness *)

LEMMA InitTypeOK == Init => TypeOK
BY DEF Init, TypeOK, StoppedTimer, Timer

LEMMA NextTypeOK == TypeOK /\ [Next]_vars => TypeOK'
<1> SUFFICES ASSUME TypeOK, [Next]_vars PROVE TypeOK'
  OBVIOUS
<1> USE DEF TypeOK
<1>1. CASE Tick
  BY <1>1 DEF Tick
<1>2. ASSUME NEW t \in TimerIds, NEW n \in Periods, Start(t, n) PROVE TypeOK'
  <2>1. Ticks(n) \in Int
    BY TicksNonZero, ServiceAssumption
  <2> QED BY <1>2, <2>1 DEF Start, timerStart, Timer
<1>3. ASSUME NEW t \in TimerIds, Stop(t) PROVE TypeOK'
  BY <1>3 DEF Stop, timerStop, Timer
<1>4. ASSUME NEW t \in TimerIds, Ask(t) PROVE TypeOK'
  <2>1. itimer' \in [TimerIds -> Timer]
    BY <1>4, AcknowledgeOf DEF Ask
  <2>2. elapsed' \in Nat
    BY <1>4 DEF Ask
  <2>3. age' \in [TimerIds -> Nat] /\ fresh' \in [TimerIds -> BOOLEAN]
    <3>1. CASE timerExpired(itimer, elapsed, t)
      <4>1. fresh' = [fresh EXCEPT ![t] = FALSE] /\ age' = [age EXCEPT ![t] = 0]
        BY <1>4, <3>1 DEF Ask
      <4>2. [fresh EXCEPT ![t] = FALSE] \in [TimerIds -> BOOLEAN]
        BY Zenon
      <4>3. [age EXCEPT ![t] = 0] \in [TimerIds -> Nat]
        OBVIOUS
      <4> QED BY <4>1, <4>2, <4>3
    <3>2. CASE ~timerExpired(itimer, elapsed, t)
      BY <1>4, <3>2 DEF Ask
    <3> QED BY <3>1, <3>2
  <2> QED BY <2>1, <2>2, <2>3
<1>5. CASE UNCHANGED vars
  BY <1>5 DEF vars
<1> QED BY <1>1, <1>2, <1>3, <1>4, <1>5 DEF Next

\* Every variable keeps its type, whatever the order of calls and ticks.
THEOREM TypeCorrect == Spec => []TypeOK
BY InitTypeOK, NextTypeOK, PTL DEF Spec

-----------------------------------------------------------------------------
(* The countdown *)

LEMMA InitCountdown == Init => Countdown
BY DEF Init, Countdown, Running

LEMMA NextCountdown == TypeOK /\ Countdown /\ [Next]_vars => Countdown'
<1> SUFFICES ASSUME TypeOK, Countdown, [Next]_vars, NEW u \in TimerIds, Running(u)'
             PROVE  /\ elapsed' <= age'[u]
                    /\ ~itimer'[u].expire =>
                         /\ itimer'[u].left > 0
                         /\ itimer'[u].left + age'[u] = itimer'[u].interval + elapsed'
                    /\ itimer'[u].expire => age'[u] - elapsed' >= itimer'[u].interval
  BY DEF Countdown, Running
<1>t. /\ itimer[u] \in Timer
      /\ elapsed \in Nat
      /\ age[u] \in Nat
      /\ fresh[u] \in BOOLEAN
  BY DEF TypeOK
<1>1. CASE Tick
  <2>1. Running(u) /\ age'[u] = age[u] + 1
    BY <1>1 DEF Tick, Running, TypeOK
  <2> QED BY <1>1, <2>1, <1>t DEF Tick, Countdown, Timer, Running
<1>2. ASSUME NEW t \in TimerIds, NEW n \in Periods, Start(t, n)
      PROVE  /\ elapsed' <= age'[u]
             /\ ~itimer'[u].expire =>
                  /\ itimer'[u].left > 0
                  /\ itimer'[u].left + age'[u] = itimer'[u].interval + elapsed'
             /\ itimer'[u].expire => age'[u] - elapsed' >= itimer'[u].interval
  <2>1. CASE u = t
    <3>1. Ticks(n) \in Int
      BY TicksNonZero, ServiceAssumption
    <3>2. /\ itimer'[u] = [interval |-> Ticks(n), left |-> Ticks(n), expire |-> FALSE]
          /\ age'[u] = elapsed
          /\ elapsed' = elapsed
      BY <1>2, <2>1 DEF Start, timerStart, TypeOK
    <3> QED BY <3>1, <3>2, <1>t DEF Running
  <2>2. CASE u # t
    <3>1. itimer'[u] = itimer[u] /\ age'[u] = age[u] /\ elapsed' = elapsed /\ fresh'[u] = fresh[u]
      BY <1>2, <2>2 DEF Start, timerStart, TypeOK
    <3> QED BY <3>1, <1>t DEF Countdown, Running
  <2> QED BY <2>1, <2>2
<1>3. ASSUME NEW t \in TimerIds, Stop(t)
      PROVE  /\ elapsed' <= age'[u]
             /\ ~itimer'[u].expire =>
                  /\ itimer'[u].left > 0
                  /\ itimer'[u].left + age'[u] = itimer'[u].interval + elapsed'
             /\ itimer'[u].expire => age'[u] - elapsed' >= itimer'[u].interval
  <2>1. u # t
    BY <1>3 DEF Stop, Running, TypeOK
  <2>2. itimer'[u] = itimer[u] /\ age'[u] = age[u] /\ elapsed' = elapsed /\ fresh'[u] = fresh[u]
    BY <1>3, <2>1 DEF Stop, timerStop, TypeOK
  <2> QED BY <2>2, <1>t DEF Countdown, Running
<1>4. ASSUME NEW t \in TimerIds, Ask(t)
      PROVE  /\ elapsed' <= age'[u]
             /\ ~itimer'[u].expire =>
                  /\ itimer'[u].left > 0
                  /\ itimer'[u].left + age'[u] = itimer'[u].interval + elapsed'
             /\ itimer'[u].expire => age'[u] - elapsed' >= itimer'[u].interval
  <2>a. /\ itimer'[u].interval = Advance(itimer[u], elapsed).interval
        /\ itimer'[u].left = Advance(itimer[u], elapsed).left
        /\ itimer'[u].expire = IF u = t THEN FALSE ELSE Advance(itimer[u], elapsed).expire
        /\ elapsed' = 0
    BY <1>4, AcknowledgeOf, ZenonT(60) DEF Ask, TypeOK
  <2>b. timerExpired(itimer, elapsed, t) = Advance(itimer[t], elapsed).expire
    BY DEF timerExpired, timerUpdate, TypeOK
  <2>1. fresh[u] /\ fresh'[u] = fresh[u] /\ age'[u] = age[u]
    BY <1>4 DEF Ask, Running, TypeOK
  <2>2. u = t => ~Advance(itimer[u], elapsed).expire
    BY <1>4, <2>b DEF Ask, Running, TypeOK
  <2>3. itimer'[u].expire = Advance(itimer[u], elapsed).expire
    <3>1. Advance(itimer[u], elapsed).expire \in BOOLEAN
      BY <1>t, AdvanceType DEF Timer
    <3> QED BY <2>a, <2>2, <3>1
  <2>4. Running(u)
    BY <2>1, <2>a, <1>t DEF Running, Advance, Timer
  <2> QED BY <2>1, <2>3, <2>4, <2>a, <1>t DEF Countdown, Advance, Timer, Running
<1>5. CASE UNCHANGED vars
  BY <1>5, <1>t DEF vars, Countdown, Running
<1> QED BY <1>1, <1>2, <1>3, <1>4, <1>5 DEF Next

\* Whatever is pending, handing it out tells exactly whether the period is over.
LEMMA CountdownOnTime == TypeOK /\ Countdown => ExpiresOnTime
<1> SUFFICES ASSUME TypeOK, Countdown, NEW t \in TimerIds, Running(t)
             PROVE  timerExpired(itimer, elapsed, t) <=> age[t] >= itimer[t].interval
  BY DEF ExpiresOnTime
<1>1. timerExpired(itimer, elapsed, t) = Advance(itimer[t], elapsed).expire
  BY DEF timerExpired, timerUpdate, TypeOK
<1>2. itimer[t] \in Timer /\ elapsed \in Nat /\ age[t] \in Nat
  BY DEF TypeOK
<1> QED BY <1>1, <1>2 DEF Countdown, Running, Advance, Timer

\* A running timer, asked for the first time since its start, reports its
\* expiry if and only if its whole period has been counted (timerStart,
\* timerStop, timerUpdate, timerExpired and catch_alarm in any order).
THEOREM OnTime == Spec => []ExpiresOnTime
<1>1. Init => TypeOK /\ Countdown
  BY InitTypeOK, InitCountdown
<1>2. TypeOK /\ Countdown /\ [Next]_vars => TypeOK' /\ Countdown'
  BY NextTypeOK, NextCountdown
<1> QED BY <1>1, <1>2, CountdownOnTime, PTL DEF Spec
=============================================================================
