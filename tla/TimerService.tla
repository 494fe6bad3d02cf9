---------------------------- MODULE TimerService ----------------------------
(***************************************************************************)
(* The timers as their users see them: any timer may be started, stopped   *)
(* and asked at any time, while the interrupt counts ticks that nobody has *)
(* handed out yet.  age and fresh are history: they are not in the code,   *)
(* and say how long a timer has really been running.                       *)
(***************************************************************************)
EXTENDS PtpTimer

CONSTANTS
    TimerIds,       \* the timers of the array
    Periods,        \* the periods asked for, in ticks
    MaxElapsed,     \* bound: ticks pending between two timerUpdate calls
    MaxAge          \* bound: ticks a timer runs unasked

ASSUME ServiceAssumption ==
    /\ Periods \subseteq Nat
    /\ MaxElapsed \in Nat
    /\ MaxAge \in Nat

VARIABLES itimer, elapsed,
    age,        \* ticks since the timer was started, with those then pending
    fresh       \* has the timer been started, and not reported or stopped since?

vars == <<itimer, elapsed, age, fresh>>

Init ==
    /\ itimer = [t \in TimerIds |-> StoppedTimer]
    /\ elapsed = 0
    /\ age = [t \in TimerIds |-> 0]
    /\ fresh = [t \in TimerIds |-> FALSE]

\* catch_alarm: the interrupt knows nothing of the timers.
Tick ==
    /\ elapsed < MaxElapsed
    /\ \A t \in TimerIds : age[t] < MaxAge
    /\ elapsed' = elapsed + 1
    /\ age' = [t \in TimerIds |-> IF fresh[t] THEN age[t] + 1 ELSE 0]
    /\ UNCHANGED <<itimer, fresh>>

\* timerStart hands out nothing: the ticks pending are charged to the timer.
Start(t, n) ==
    /\ itimer' = timerStart(itimer, t, n)
    /\ age' = [age EXCEPT ![t] = elapsed]
    /\ fresh' = [fresh EXCEPT ![t] = TRUE]
    /\ UNCHANGED elapsed

Stop(t) ==
    /\ itimer' = timerStop(itimer, t)
    /\ age' = [age EXCEPT ![t] = 0]
    /\ fresh' = [fresh EXCEPT ![t] = FALSE]
    /\ UNCHANGED elapsed

\* timerExpired(t), which hands out the ticks to every timer.
Ask(t) ==
    /\ itimer' = Acknowledge(itimer, elapsed, t)
    /\ elapsed' = 0
    /\ IF timerExpired(itimer, elapsed, t)
       THEN /\ fresh' = [fresh EXCEPT ![t] = FALSE]
            /\ age' = [age EXCEPT ![t] = 0]
       ELSE UNCHANGED <<fresh, age>>

Next ==
    \/ Tick
    \/ \E t \in TimerIds : Stop(t) \/ Ask(t) \/ \E n \in Periods : Start(t, n)

Spec == Init /\ [][Next]_vars

-----------------------------------------------------------------------------
TypeOK ==
    /\ itimer \in [TimerIds -> Timer]
    /\ elapsed \in Nat
    /\ age \in [TimerIds -> Nat]
    /\ fresh \in [TimerIds -> BOOLEAN]

Running(t) == fresh[t] /\ itimer[t].interval > 0

\* Asked for the first time since its start, a running timer reports its expiry
\* if and only if as many ticks as its period have been counted: no expiry is
\* early and none is lost, though the ticks are handed out in lumps, on behalf
\* of other timers, and the timer re-arms itself before it is asked.
ExpiresOnTime ==
    \A t \in TimerIds :
        Running(t) => (timerExpired(itimer, elapsed, t) <=> age[t] >= itimer[t].interval)

\* The countdown: what is left of the period is what has not been handed out,
\* and what has latched was due when the ticks were handed out.
Countdown ==
    \A t \in TimerIds :
        Running(t) =>
            /\ elapsed <= age[t]
            /\ ~itimer[t].expire => /\ itimer[t].left > 0
                                    /\ itimer[t].left + age[t] = itimer[t].interval + elapsed
            /\ itimer[t].expire => age[t] - elapsed >= itimer[t].interval
=============================================================================
