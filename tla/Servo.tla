------------------------------- MODULE Servo -------------------------------
(***************************************************************************)
(* The clock servo (servo.cpp) in a loop with the clock it adjusts.  The   *)
(* environment is the truth: err is what the slave's clock is ahead of the *)
(* master's, every message takes one of the Delays.  From the timestamps   *)
(* that result, the servo computes delays and offsets, filters them, and   *)
(* steps the clock or changes its tick.  err also wanders a little: what   *)
(* the oscillators and the tick do to it between two messages.             *)
(***************************************************************************)
EXTENDS Arith

CONSTANTS
    IntBits,         \* an Integer32 is in -2^IntBits .. 2^IntBits - 1: 31
    Stiffest,        \* stiffness of the one-way delay filter: 6
    OfmDelayLen,     \* length of the line of past offsets: 30
    SyntonizedBelow, \* largest offset of a syntonised clock: six periods
    ap, ai,          \* attenuations of the PI controller
    PiUnit,          \* least attenuation
    AdjFreqMax,      \* largest change of the tick
    initial_tick,
    Now,             \* the master's time of all messages
    Delays,          \* what a message takes from one clock to the other
    Corrections,     \* correctionFields: time spent in transparent clocks
    InitialErrors,   \* how far off the clock is that is set to the system time
    Wanders,         \* how far err wanders in one step
    Scenarios        \* run-time options, and how many steps of each kind there may
                     \* be: bounds the model

VARIABLES
    err,        \* the clock, less the master's
    servo,      \* state of the servo
    rtOpts,     \* run-time options
    delayMechanism,
    request,    \* the request for the path delay: when sent, and may it be answered
    stepped,    \* the delay of the Sync that stepped the clock just now, or None
    steps,      \* steps since initClock by offsets that are not large
    left        \* what is left of the budget

vars == <<err, servo, rtOpts, delayMechanism, request, stepped, steps, left>>

\* A second fits into an Integer32 twice.
ASSUME WidthAssumption ==
    /\ IntBits \in Nat
    /\ Stiffest \in 0..IntBits
    /\ \A n \in 0..IntBits :
          2 ^ n \in Nat \ {0} /\ 2 ^ n * 2 ^ (IntBits - n) = 2 ^ IntBits
    /\ 2 * Second <= 2 ^ IntBits

ASSUME ControllerAssumption ==
    /\ OfmDelayLen \in Nat \ {0}
    /\ SyntonizedBelow \in Int
    /\ ap \in Int /\ ai \in Int
    /\ PiUnit \in Nat \ {0}
    /\ AdjFreqMax \in Nat
    /\ initial_tick \in Int

Options ==
    [noAdjust : BOOLEAN, noResetClock : BOOLEAN, maxReset : Nat, maxDelay : Nat,
     origMaxDelay : Nat, maxDelayAutoTune : BOOLEAN, discardedPacketThreshold : Nat]

\* The time of the messages fits into a Timestamp.
ASSUME EnvironmentAssumption ==
    /\ \A scenario \in Scenarios : scenario.options \in Options
    /\ Now \in Nat /\ (Now \div Second) \div Word < HalfWord
    /\ Delays \subseteq Nat
    /\ Corrections \subseteq Int
    /\ InitialErrors \subseteq Int
    /\ Wanders \subseteq Int

None == -1
Places == 0 .. OfmDelayLen - 1
Large == 2 ^ IntBits

TimeAt(n) == normalizeTime(Time(0, n))

\* A time as it arrives in a message.
Received(t) == toInternalTime(fromInternalTime(t, [msb |-> 0, lsb |-> 0, nanosecondsField |-> 0]))

-----------------------------------------------------------------------------
(* The one-way delay filter *)

NoFilter == [nsec_prev |-> 0, y |-> 0, s_exp |-> 0]

\* Seeded fault: the stiffness is the same for every y.
StiffnessAsSet(y) == Stiffest

\* The shift by 31 - s is counted down until nothing is left of y.
Stiffness(y) ==
    CHOOSE r \in 0..Stiffest :
        /\ Abs(y) \div 2 ^ (IntBits - r) = 0
        /\ \A q \in r + 1 .. Stiffest : Abs(y) \div 2 ^ (IntBits - q) # 0

Stiffened(filt) ==
    LET most == 2 ^ Stiffness(filt.y)
    IN  CASE filt.s_exp < 1    -> 1
          [] filt.s_exp >= 1 /\ filt.s_exp < most -> filt.s_exp + 1
          [] filt.s_exp >= 1 /\ filt.s_exp > most -> most
          [] OTHER             -> filt.s_exp

\* Seeded fault: the weights of old and new add up to more than one.
HeavyFilter(filt, k, nanoseconds) ==
    filt.y + Quot(Quot(nanoseconds, 2) + Quot(filt.nsec_prev, 2), k)

Filtered(filt, k, nanoseconds) ==
    Quot((k - 1) * filt.y, k) + Quot(Quot(nanoseconds, 2) + Quot(filt.nsec_prev, 2), k)

\* The filter after a path delay of so many nanoseconds.
FilterNext(filt, nanoseconds) ==
    LET k == Stiffened(filt)
    IN  [nsec_prev |-> nanoseconds, y |-> Filtered(filt, k, nanoseconds), s_exp |-> k]

\* The first path delay after the filter was cleared is taken as it is.
Estimate(filt, nanoseconds) ==
    IF filt.nsec_prev = 0 THEN nanoseconds ELSE FilterNext(filt, nanoseconds).y

-----------------------------------------------------------------------------
(* Path delays *)

Doubled(n) == LET twice == (2 * n) % (2 * Large)
              IN  IF twice >= Large THEN twice - 2 * Large ELSE twice

increaseMaxDelayThreshold(v) == [v EXCEPT !.maxDelay = Doubled(@)]

decreaseMaxDelayThreshold(v) ==
    IF v.maxDelay \div 2 < rtOpts.origMaxDelay THEN v ELSE [v EXCEPT !.maxDelay = @ \div 2]

\* The count of discarded packets is kept for this only.
AutoTuned(v) ==
    CASE rtOpts.maxDelayAutoTune /\ v.discarded >= rtOpts.discardedPacketThreshold ->
            increaseMaxDelayThreshold([v EXCEPT !.discarded = 0])
      [] rtOpts.maxDelayAutoTune /\ v.discarded < -rtOpts.discardedPacketThreshold ->
            decreaseMaxDelayThreshold([v EXCEPT !.discarded = 0])
      [] OTHER -> v

Counted(v, n) == IF rtOpts.maxDelayAutoTune THEN [v EXCEPT !.discarded = @ + n] ELSE v

\* Of a response that passes the checks: the path delay.
OneWay(v, send, recv, correction) ==
    div2Time(subTime(addTime(subTime(recv, send), v.delayMS), correction))

Implausible(v, delaySM) ==
    /\ v.maxDelay # 0 /\ v.offset_first_updated
    /\ \/ delaySM.nanoseconds < 0 /\ Abs(delaySM.nanoseconds) > v.maxDelay
       \/ delaySM.seconds # 0
       \/ delaySM.nanoseconds > v.maxDelay

updateDelay(v, send, recv, correction) ==
    LET path == OneWay(v, send, recv, correction)
        accepted == Counted(v, -1)
    IN  CASE Implausible(v, subTime(recv, send)) -> AutoTuned(Counted(v, 1))
          [] ~Implausible(v, subTime(recv, send)) /\ ~v.offset_first_updated -> AutoTuned(v)
          [] OTHER ->
                CASE path.seconds # 0 ->
                        [accepted EXCEPT !.owd_filt.s_exp = 0, !.owd_filt.nsec_prev = 0]
                  [] path.seconds = 0 /\ path.nanoseconds < 0 -> accepted
                  [] OTHER ->
                        AutoTuned([accepted EXCEPT
                            !.owd_filt = FilterNext(v.owd_filt, path.nanoseconds),
                            !.meanPathDelay = Time(0, Estimate(v.owd_filt, path.nanoseconds))])

\* The four times of an exchange with the peer; a one-step response has two.
PeerDelay(twoStep, t1, t2, t3, t4, correction) ==
    div2Time(subTime(IF twoStep THEN addTime(subTime(t4, t3), subTime(t2, t1))
                                ELSE subTime(t4, t1), correction))

updatePeerDelay(v, path) ==
    IF path.seconds # 0
    THEN [v EXCEPT !.peerMeanPathDelay = path,
                   !.owd_filt.s_exp = 0, !.owd_filt.nsec_prev = 0]
    ELSE [v EXCEPT !.peerMeanPathDelay = Time(0, Estimate(v.owd_filt, path.nanoseconds)),
                   !.owd_filt = FilterNext(v.owd_filt, path.nanoseconds)]

-----------------------------------------------------------------------------
(* Offsets *)

\* The path delay that is taken off an offset: none until the tick is right.
PathDelay(v) ==
    CASE ~v.syntonized -> ZeroTime
      [] v.syntonized /\ delayMechanism = "P2P" -> v.peerMeanPathDelay
      [] OTHER -> v.meanPathDelay

IsLarge(v, offset) == offset.seconds # 0 \/ Abs(offset.nanoseconds) > v.maxDelay

\* The place of the largest offset in the line, where the line says it is not
\* at an end; of several in the first half the last, then of others the first.
MaxPos(zline) ==
    LET sizes == { Abs(zline[i]) : i \in Places }
        most  == CHOOSE n \in sizes : \A m \in sizes : m <= n
        at    == { i \in Places : Abs(zline[i]) = most }
        early == { i \in at : i < OfmDelayLen \div 2 }
    IN  IF early # {} THEN CHOOSE i \in early : \A j \in early : j <= i
        ELSE CHOOSE i \in at : \A j \in at : i <= j

syntonizeFrequency(v) ==
    \/ v.syntonized
    \/ /\ v.updateOffset_count >= OfmDelayLen + 1
       /\ \A i \in Places : Abs(v.ofm_zline[i]) < SyntonizedBelow
       /\ MaxPos(v.ofm_zline) > 1 /\ MaxPos(v.ofm_zline) < OfmDelayLen - 2

\* Seeded fault: the first offset less the path delay is averaged with the last
\* one that was not.
FiltersAlways(v) == TRUE

\* The step at the time of syntonisation takes the offset as it was measured.
FiltersOffset(v) == v.syntonized_z1 \/ ~v.syntonized

\* Seeded fault: both flags are assigned the new value of the first.
FlagsInOrder(v) ==
    [v EXCEPT !.syntonized_z2 = v.syntonized, !.syntonized_z1 = v.syntonized,
              !.syntonized = syntonizeFrequency(v)]

Flags(v) ==
    [v EXCEPT !.syntonized_z2 = v.syntonized_z1, !.syntonized_z1 = v.syntonized,
              !.syntonized = syntonizeFrequency(v)]

\* The servo and the offset from the master after a Sync.
updateOffset(v, send, recv, correction) ==
    LET delayMS == subTime(subTime(recv, send), correction)
        offset  == subTime(delayMS, PathDelay(v))
        n       == IF FiltersOffset(v)
                   THEN Quot(offset.nanoseconds, 2) + Quot(v.ofm_prev, 2) ELSE offset.nanoseconds
        seen    == [v EXCEPT !.delayMS = delayMS, !.offset_first_updated = TRUE]
        taken   == [seen EXCEPT
                      !.ofm_prev = IF FiltersOffset(v) THEN offset.nanoseconds ELSE @,
                      !.ofm_zline = [i \in Places |-> IF i = 0 THEN n ELSE @[i - 1]]]
    IN  IF IsLarge(v, offset)
        THEN [servo |-> [seen EXCEPT !.ofm_prev = 0], offset |-> offset]
        ELSE [servo |-> [Flags(taken) EXCEPT
                            !.updateOffset_count = IF @ > OfmDelayLen THEN @ ELSE @ + 1],
              offset |-> Time(offset.seconds, n)]

-----------------------------------------------------------------------------
(* Adjustments *)

Clamp(n, bound) == IF n > bound THEN bound ELSE IF n < -bound THEN -bound ELSE n

\* adjTickRate keeps the tick within its limits.
adjTickRate(v, change) == [v EXCEPT !.tick = initial_tick + Clamp(change, AdjFreqMax)]

adjTickRate_wrapper(v, change) == IF rtOpts.noAdjust THEN v ELSE adjTickRate(v, change)

Attenuation(a) == IF a < PiUnit THEN PiUnit ELSE a

\* The edge on which the first offset less the path delay is known.
JustSyntonized(v) == v.syntonized_z1 /\ ~v.syntonized_z2

Aborts(offset) ==
    /\ rtOpts.maxReset # 0
    /\ offset.seconds # 0 \/ Abs(offset.nanoseconds) > rtOpts.maxReset

Steps(v, offset) ==
    /\ ~Aborts(offset)
    /\ IsLarge(v, offset) \/ JustSyntonized(v)
    /\ ~rtOpts.noAdjust /\ ~rtOpts.noResetClock

\* The servo after updateClock; a step leaves it as it is.
updateClock(v, offset) ==
    LET jumps == IsLarge(v, offset) \/ JustSyntonized(v)
        hard  == IF offset.nanoseconds > 0 THEN AdjFreqMax ELSE -AdjFreqMax
        drift == Clamp(v.observed_drift + Quot(offset.nanoseconds, Attenuation(ai)), AdjFreqMax)
        adj   == Quot(offset.nanoseconds, Attenuation(ap)) + drift
    IN  CASE Aborts(offset) \/ Steps(v, offset) -> v
          [] ~Aborts(offset) /\ jumps /\ ~rtOpts.noAdjust /\ rtOpts.noResetClock ->
                adjTickRate_wrapper([v EXCEPT !.observed_drift = hard], -hard)
          [] ~Aborts(offset) /\ ~jumps ->
                adjTickRate_wrapper([v EXCEPT !.observed_drift = drift], -adj)
          [] OTHER -> v

\* The tick is stopped, which is clamped, and started.  The filter forgets its
\* stiffness, and keeps y and the last delay.
initClock(v) ==
    [adjTickRate(adjTickRate(v, -initial_tick), 0) EXCEPT
        !.observed_drift       = 0,
        !.owd_filt.s_exp       = 0,
        !.meanPathDelay        = ZeroTime,
        !.peerMeanPathDelay    = ZeroTime,
        !.delayMS              = ZeroTime,
        !.ofm_prev             = 0,
        !.offset_first_updated = FALSE,
        !.updateOffset_count   = 0,
        !.ofm_zline            = [i \in Places |-> 0],
        !.syntonized           = FALSE,
        !.syntonized_z1        = FALSE,
        !.syntonized_z2        = FALSE]

-----------------------------------------------------------------------------
(* The loop *)

Spend(kind) == left[kind] > 0 /\ left' = [left EXCEPT ![kind] = @ - 1]

NoRequest == [sent |-> ZeroTime, open |-> FALSE]

Init ==
    /\ \E scenario \in Scenarios : rtOpts = scenario.options /\ left = scenario.budget
    /\ err \in InitialErrors
    /\ servo = [owd_filt |-> NoFilter, meanPathDelay |-> ZeroTime,
                peerMeanPathDelay |-> ZeroTime, delayMS |-> ZeroTime, ofm_prev |-> 0,
                ofm_zline |-> [i \in Places |-> 0], updateOffset_count |-> 0,
                offset_first_updated |-> FALSE, syntonized |-> FALSE,
                syntonized_z1 |-> FALSE, syntonized_z2 |-> FALSE,
                observed_drift |-> 0, tick |-> initial_tick,
                maxDelay |-> rtOpts.maxDelay, discarded |-> 0]
    /\ delayMechanism \in {"E2E", "P2P"}
    /\ request = NoRequest
    /\ stepped = None
    /\ steps = 0

Residence(bigint) == Value(integer64_to_internalTime(bigint))

\* A Sync, one-step or completed by its FollowUp: updateOffset and updateClock.
Sync(d, bigint) ==
    LET recv == TimeAt(Now + d + Residence(bigint) + err)
        got  == updateOffset(servo, Received(TimeAt(Now)), recv, integer64_to_internalTime(bigint))
        step == Steps(got.servo, got.offset)
    IN  /\ Spend("syncs")
        /\ servo' = updateClock(got.servo, got.offset)
        /\ err' = IF step THEN err - Value(got.offset) ELSE err
        /\ stepped' = IF step THEN d ELSE None
        /\ steps' = IF step /\ ~IsLarge(got.servo, got.offset) /\ steps < 2
                    THEN steps + 1 ELSE steps
        /\ UNCHANGED <<rtOpts, delayMechanism, request>>

\* A delay request is sent at this time, end to end or to the peer.
Request ==
    /\ request' = [sent |-> TimeAt(Now + err), open |-> TRUE]
    /\ stepped' = None
    /\ UNCHANGED <<err, servo, rtOpts, delayMechanism, steps, left>>

\* The master's response to the last request.
DelayResp(d, bigint) ==
    /\ Spend("responses")
    /\ delayMechanism = "E2E"
    /\ request.open
    /\ LET correction == integer64_to_internalTime(bigint)
           recv == Received(TimeAt(Now + d + Residence(bigint)))
       IN  servo' = updateDelay(servo, request.sent, recv, correction)
    /\ request' = [request EXCEPT !.open = FALSE]
    /\ stepped' = None
    /\ UNCHANGED <<err, rtOpts, delayMechanism, steps>>

\* The peer's response, which may be repeated.
PDelayResp(d, back, bigint, twoStep) ==
    /\ Spend("responses")
    /\ delayMechanism = "P2P"
    /\ request.open
    /\ LET t2 == Received(TimeAt(Now + d))
           t4 == TimeAt(Now + d + back + Residence(bigint) + err)
           path == PeerDelay(twoStep, request.sent, t2, t2, t4, integer64_to_internalTime(bigint))
       IN  servo' = updatePeerDelay(servo, path)
    /\ stepped' = None
    /\ UNCHANGED <<err, rtOpts, delayMechanism, request, steps>>

\* The port leaves SLAVE, or enters it again: the clock is set to the system time.
EnterOrLeaveSlave(e) ==
    /\ Spend("others")
    /\ err' = e
    /\ servo' = initClock(servo)
    /\ request' = [sent |-> ZeroTime, open |-> request.open /\ delayMechanism = "P2P"]
    /\ stepped' = None
    /\ steps' = 0
    /\ UNCHANGED <<rtOpts, delayMechanism>>

\* A management message changes the mechanism; open requests are not answered.
SetDelayMechanism ==
    /\ Spend("others")
    /\ delayMechanism' \in {"E2E", "P2P"} \ {delayMechanism}
    /\ request' = [request EXCEPT !.open = FALSE]
    /\ stepped' = None
    /\ UNCHANGED <<err, servo, rtOpts, steps>>

Wander(w) ==
    /\ Spend("others")
    /\ err' = err + w
    /\ stepped' = None
    /\ UNCHANGED <<servo, rtOpts, delayMechanism, request, steps>>

Next ==
    \/ \E d \in Delays, c \in Corrections : Sync(d, c) \/ DelayResp(d, c)
    \/ \E d, back \in Delays, c \in Corrections, twoStep \in BOOLEAN :
          PDelayResp(d, back, c, twoStep)
    \/ Request
    \/ \E e \in InitialErrors : EnterOrLeaveSlave(e)
    \/ SetDelayMechanism
    \/ \E w \in Wanders : Wander(w)

Spec == Init /\ [][Next]_vars

-----------------------------------------------------------------------------
(* Properties *)

\* No product in the filter leaves the range of an Integer32, whatever path delays
\* came before (servo.cpp:386): the larger y is, the less stiff the filter may be.
FilterFits ==
    LET filt == servo.owd_filt IN Abs((Stiffened(filt) - 1) * filt.y) < Large

\* A path delay between the new one, the last one and what the filter held.
Between(path, filt, last) ==
    LET known == {0, filt.y, filt.nsec_prev, last}
    IN  path.seconds = 0 => /\ \E n \in known : n <= path.nanoseconds
                            /\ \E n \in known : n >= path.nanoseconds

\* Whatever a response measured, one of a filter that survives initClock and serves
\* both mechanisms, the path delay in use is then between the new delay, the last
\* one and what the filter held: the integer divisions let it never overshoot.
EstimateBetween ==
    [][ /\ servo'.meanPathDelay # servo.meanPathDelay =>
              Between(servo'.meanPathDelay, servo.owd_filt, servo'.owd_filt.nsec_prev)
        /\ servo'.peerMeanPathDelay # servo.peerMeanPathDelay =>
              Between(servo'.peerMeanPathDelay, servo.owd_filt, servo'.owd_filt.nsec_prev) ]_vars

\* After a step the clock agrees with the master up to the path delay that is
\* known: the offset it was stepped by was measured by this very Sync, and is no
\* average with one that was measured before an earlier step.  (Where maxDelay is
\* tuned, an average of offsets up to the old maxDelay may be large for the new.)
StepLands ==
    stepped # None /\ ~rtOpts.maxDelayAutoTune => err + stepped = Value(PathDelay(servo))

\* When the tick is found right, the path delay is taken off for the first time,
\* and the clock is stepped by what that changes, once, however the Syncs and the
\* large offsets come: after that, small offsets are for the tick.
SteppedOnceWhenSyntonized ==
    ~rtOpts.noAdjust /\ ~rtOpts.noResetClock /\ rtOpts.maxReset = 0 =>
        steps = IF servo.syntonized_z1 THEN 1 ELSE 0
=============================================================================
