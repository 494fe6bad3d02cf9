------------------------------ MODULE PtpTimer ------------------------------
(***************************************************************************)
(* The interval timers of the daemon (src/esl/sw/dep/ptp_timer.cpp), as    *)
(* pure operators on the array itimer.  Every timer counts ticks of the    *)
(* 7.8125 ms hardware interrupt; nobody counts while the interrupt only    *)
(* increments "elapsed": the ticks are handed out by timerUpdate, which    *)
(* timerExpired calls first.                                               *)
(***************************************************************************)
EXTENDS Integers

\* The largest value of a C int: a period in ticks is cast to int.
CONSTANT IntMax

ASSUME IntMaxAssumption == IntMax \in Nat \ {0}

\* One entry of itimer.  interval = 0 marks a stopped timer; expire latches an
\* expiry until timerExpired reports it.  "left" means nothing while the timer
\* is stopped, and is then kept at 0 so that such states are not told apart.
Timer == [interval : Int, left : Int, expire : BOOLEAN]

StoppedTimer == [interval |-> 0, left |-> 0, expire |-> FALSE]

\* The cast (int)(interval * 1E6 / US_TIMER_INTERVAL): out of range, the x86
\* conversion yields the smallest int.
ToInt(n) == IF n <= IntMax THEN n ELSE -IntMax - 1

\* timerStop: the timer no longer counts.  What it has latched stays latched.
timerStop(it, t) ==
    [it EXCEPT ![t] = [interval |-> 0, left |-> 0, expire |-> @.expire]]

\* timerStart: a period that rounds to nothing is raised to one tick.
Ticks(n) == IF ToInt(n) = 0 THEN 1 ELSE ToInt(n)

timerStart(it, t, n) ==
    [it EXCEPT ![t] = [interval |-> Ticks(n), left |-> Ticks(n), expire |-> FALSE]]

\* Seeded fault: a timer that reaches exactly zero is not noticed.
AdvancePastZero(tm, delta) ==
    IF tm.interval > 0 /\ delta > 0
    THEN IF tm.left - delta < 0
         THEN [interval |-> tm.interval, left |-> tm.interval, expire |-> TRUE]
         ELSE [interval |-> tm.interval, left |-> tm.left - delta, expire |-> tm.expire]
    ELSE tm

\* timerUpdate, for one timer and delta ticks: a timer that reaches zero
\* latches its expiry and is re-armed for a whole period.
Advance(tm, delta) ==
    IF tm.interval > 0 /\ delta > 0
    THEN IF tm.left - delta <= 0
         THEN [interval |-> tm.interval, left |-> tm.interval, expire |-> TRUE]
         ELSE [interval |-> tm.interval, left |-> tm.left - delta, expire |-> tm.expire]
    ELSE tm

timerUpdate(it, delta) == [t \in DOMAIN it |-> Advance(it[t], delta)]

\* timerExpired: hand out the ticks, then test and clear the latch.
timerExpired(it, delta, t) == timerUpdate(it, delta)[t].expire

\* Seeded fault: the test clears the latch of every timer.
AcknowledgeAll(it, delta, t) ==
    [u \in DOMAIN it |-> [timerUpdate(it, delta)[u] EXCEPT !.expire = FALSE]]

Acknowledge(it, delta, t) ==
    [timerUpdate(it, delta) EXCEPT ![t] = [interval |-> @.interval, left |-> @.left, expire |-> FALSE]]
=============================================================================
