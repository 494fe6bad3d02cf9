-------------------------------- MODULE Rtc ---------------------------------
(***************************************************************************)
(* The real-time clock, one step per clock edge, and the software that     *)
(* corrects it and reads it.  An action is one rising edge: every register *)
(* takes the value its always block computes from the registers before the *)
(* edge.  bus2ip_clk and rtc_clk are one clock (testbench.cpp:31,41).  A   *)
(* second has Second ticks' worth of nanoseconds; fractions and the value  *)
(* of the tick, which software moves a little with every Sync, are left    *)
(* out.                                                                    *)
(***************************************************************************)
EXTENDS Integers, Sequences

CONSTANTS
    Second,         \* nanoseconds per second (SC2NS)
    SecondsMod,     \* the seconds counter wraps here (2^48)
    LowNs,          \* the low register of the nanoseconds wraps here (2^16)
    Tick,           \* nanoseconds per clock edge
    PulseWidth,     \* pps_width_ns
    Period,         \* intxms_period
    NsOffsets,      \* the corrections software asks for, in nanoseconds ...
    SecondsOffsets  \* ... and seconds

ASSUME RtcAssumption ==
    /\ Tick \in Nat \ {0} /\ Period \in Nat \ {0} /\ LowNs \in Nat \ {0}
    /\ Second \in Nat /\ Second > 6 * Tick /\ Second % Period = 0
    /\ 2 * Tick <= Period /\ Period < Second
    /\ SecondsMod \in Nat /\ SecondsMod > 2 /\ PulseWidth \in 1..(Second - 1)
    /\ NsOffsets \subseteq (1 - Second)..(Second - 1) /\ SecondsOffsets \subseteq Int

VARIABLES
    ns_counter, sc_counter,     \* the time
    wrap,                       \* ns_wrap_around_flag and its two delays
    adjust_retain, offset_adjust,
    ns_contrled_reg, tmp_ns_d1, sc_counter_sub1,
    ofst,                       \* ns_offset_o and sc_offset_o: [ns, sc]
    offset_valid, clear_rtc,    \* self-clearing bits: [q, d1, d2, o]
    sync,                       \* offset_valid_d1, _d2, _d3 of rtc_unit
    pulse,                      \* ns_adjusted_mod_d1, seconds_start, pps_o
    xms,                        \* counterxms, trigxms, seconds_d1
    bus,                        \* the register write on the bus, and the edges it still stands
    todo,                       \* the writes of the running function that follow
    rx,                         \* an event message on its way to getPreciseRxTime
    \* Ghosts: nothing in the clock reads them.
    ideal,                      \* the time if every correction were exact
    struck,                     \* a correction met the start of a second
    calm                        \* edges since the last correction, up to CalmLimit

counters == <<ns_counter, sc_counter, ns_contrled_reg, tmp_ns_d1, sc_counter_sub1>>
control == <<wrap, adjust_retain, offset_adjust, ofst, offset_valid, clear_rtc, sync>>
outputs == <<pulse, xms>>
software == <<bus, todo, rx>>
ghosts == <<ideal, struck, calm>>
vars == <<counters, control, outputs, software, ghosts>>

CalmLimit == Second + 4

\* The writes of the registers that matter here.
NoWrite == [reg |-> "none"]
OtherWrite == [reg |-> "TICK_INC"]
OffsetWrite(ns, sc) == [reg |-> "OFST", ns |-> ns, sc |-> sc]
ControlWrite(clear) == [reg |-> "RTC_CTL", clear |-> clear, valid |-> ~clear]
NoTransfer == [write |-> NoWrite, edges |-> 0]
NoMessage == [words |-> <<>>, age |-> 0, ns |-> 0]

Cleared == [q |-> FALSE, d1 |-> FALSE, d2 |-> FALSE, o |-> FALSE]

Init ==
    /\ ns_counter = 0 /\ sc_counter = 0
    /\ ns_contrled_reg = 0 /\ tmp_ns_d1 = 0 /\ sc_counter_sub1 = 0
    /\ wrap = <<FALSE, FALSE, FALSE>>
    /\ adjust_retain = FALSE /\ offset_adjust = FALSE
    /\ ofst = [ns |-> 0, sc |-> 0]
    /\ offset_valid = Cleared /\ clear_rtc = Cleared
    /\ sync = <<FALSE, FALSE, FALSE>>
    /\ pulse = [mod |-> 0, start |-> FALSE, pps |-> FALSE]
    /\ xms = [counter |-> 0, trig |-> FALSE, odd |-> FALSE]
    /\ bus = NoTransfer
    /\ todo = <<>>
    /\ rx = NoMessage
    /\ ideal = 0 /\ struck = FALSE /\ calm = 0

-----------------------------------------------------------------------------
(* ptp_rtc                                                                   *)

ns_contrled_rtc == ns_counter + Tick
ns_wrap_around_flag_p1 == ns_contrled_rtc > Second - 1
offset_valid_pul == sync[2] /\ ~sync[3]

\* Mutant of Turning: one delay of the flag less.
TurnedEarly == ns_wrap_around_flag_p1 \/ wrap[1] \/ wrap[2]

\* The second is turning over: no correction may start.
Turning == ns_wrap_around_flag_p1 \/ \E i \in 1..3 : wrap[i]

\* Mutant of tmp_ns1: the borrow from the seconds is forgotten.
Unborrowed == tmp_ns_d1

tmp_ns1 == IF tmp_ns_d1 < 0 THEN tmp_ns_d1 + Second ELSE tmp_ns_d1
ns_synced_rtc == tmp_ns1 + Tick
sc_synced_rtc == (sc_counter_sub1 + ofst.sc) % SecondsMod

WrapFlags ==
    wrap' = <<~wrap[1] /\ ~wrap[2] /\ ns_wrap_around_flag_p1, wrap[1], wrap[2]>>

Retain ==
    adjust_retain' = \/ Turning /\ offset_valid_pul
                     \/ adjust_retain /\ ~offset_adjust

Adjust ==
    offset_adjust' = (~Turning /\ ~offset_adjust /\ (adjust_retain \/ offset_valid_pul))

Pipeline ==
    /\ ns_contrled_reg' = ns_counter + 2 * Tick
    /\ tmp_ns_d1' = ns_contrled_reg + ofst.ns
    /\ sc_counter_sub1' = (sc_counter - (IF tmp_ns_d1 < 0 THEN 1 ELSE 0)) % SecondsMod

Nanoseconds ==
    ns_counter' = CASE clear_rtc.o   -> 0
                    [] ~clear_rtc.o /\ offset_adjust -> ns_synced_rtc
                    [] ~clear_rtc.o /\ ~offset_adjust /\ wrap[1] -> ns_contrled_reg - Second
                    [] OTHER         -> ns_contrled_rtc

Seconds ==
    sc_counter' = CASE clear_rtc.o   -> 0
                    [] ~clear_rtc.o /\ offset_adjust -> sc_synced_rtc
                    [] OTHER -> (sc_counter + (IF wrap[1] THEN 1 ELSE 0)) % SecondsMod

Counter == WrapFlags /\ Retain /\ Adjust /\ Pipeline /\ Nanoseconds /\ Seconds

-----------------------------------------------------------------------------
(* rtc_rgs and rtc_unit: the registers under the write that stands on the    *)
(* bus, and the pulse that starts a correction.                              *)

Standing == bus.write

\* A bit that clears itself two edges after it is written, unless another
\* write stands on the bus.
SelfClearing(bit, written) ==
    [q  |-> CASE Standing.reg = "RTC_CTL" -> written
              [] Standing.reg = "none"    -> bit.q /\ ~bit.d2
              [] OTHER                    -> bit.q,
     d1 |-> bit.q,
     d2 |-> bit.d1,
     o  |-> bit.q /\ ~bit.d2]

Registers ==
    LET control_write == Standing.reg = "RTC_CTL"
    IN  /\ offset_valid' = SelfClearing(offset_valid, control_write /\ Standing.valid)
        /\ clear_rtc' = SelfClearing(clear_rtc, control_write /\ Standing.clear)
        /\ ofst' = IF Standing.reg = "OFST" THEN [ns |-> Standing.ns, sc |-> Standing.sc]
                   ELSE ofst
        /\ sync' = <<offset_valid.o, sync[1], sync[2]>>

-----------------------------------------------------------------------------
(* sync_io                                                                   *)

\* Mutant of ns_phase_adjusted: the two register stages are not compensated.
NsPhase == ns_counter

ns_phase_adjusted == ns_counter + 2 * Tick
seconds_start_p1 == pulse.mod < Period
SecondStarts == seconds_start_p1 /\ ~pulse.start

PulsePerSecond ==
    pulse' = [mod   |-> IF ns_phase_adjusted < Second THEN ns_phase_adjusted
                        ELSE ns_phase_adjusted - Second,
              start |-> seconds_start_p1,
              pps   |-> SecondStarts \/ (pulse.pps /\ pulse.mod < PulseWidth)]

Interrupt ==
    LET odd == sc_counter % 2 = 1
        \* A correction of an odd number of seconds, or the turn of a second
        \* that seconds_start did not announce.
        Jumped == xms.odd # odd /\ ~pulse.start
        Over == xms.counter > Period - 1
    IN  xms' = [counter |-> CASE SecondStarts \/ Jumped -> 0
                              [] ~(SecondStarts \/ Jumped) /\ Over -> (xms.counter + Tick) - Period
                              [] OTHER -> xms.counter + Tick,
                trig    |-> SecondStarts \/ (~Jumped /\ Over),
                odd     |-> odd]

-----------------------------------------------------------------------------
(* The software.  A register write stands for two edges (MyTarget.cpp).      *)

Wrapped(t) == t % (SecondsMod * Second)
Time == Wrapped(sc_counter * Second + ns_counter)

\* No correction is between the register write and the counter.
Settled ==
    /\ ~offset_valid.q /\ ~offset_valid.o /\ ~clear_rtc.q /\ ~clear_rtc.o
    /\ \A i \in 1..3 : ~sync[i]
    /\ ~adjust_retain /\ ~offset_adjust /\ calm >= 2

Quiet == bus.edges = 0 /\ todo = <<>>

\* setRtcValue: the offset registers, then the control register.  The servo
\* asks for a correction once per Sync, long after the last one has settled.
setRtcValue(ns, sc) == <<OffsetWrite(ns, sc), ControlWrite(FALSE)>>
\* initClock: the clock is cleared first and the tick restored last.
initClock(ns, sc) ==
    <<ControlWrite(TRUE), OffsetWrite(ns, sc), ControlWrite(FALSE), OtherWrite>>

Call(writes) ==
    /\ Quiet /\ Settled /\ rx = NoMessage
    /\ todo' = writes
    /\ UNCHANGED bus

BusEdge ==
    \/ bus.edges > 1 /\ bus' = [bus EXCEPT !.edges = @ - 1] /\ UNCHANGED todo
    \/ bus.edges = 1 /\ bus' = NoTransfer /\ UNCHANGED todo
    \/ /\ bus.edges = 0 /\ todo # <<>>
       /\ bus' = [write |-> Head(todo), edges |-> 2]
       /\ todo' = Tail(todo)
    \/ Quiet /\ UNCHANGED <<bus, todo>>

\* The receive path embeds the nanoseconds of its arrival in an event message.
Arrival ==
    /\ Quiet /\ Settled /\ rx = NoMessage
    /\ rx' = [ns |-> ns_counter, age |-> Tick, words |-> <<>>]

\* There is time left for the reads that are to come.  The message is read less
\* than a second after it arrived, by as many ticks as a correction may have
\* left the nanoseconds of its arrival beyond the second.
Punctual == rx # NoMessage => rx.age + Tick * (3 - Len(rx.words)) < Second - 3 * Tick

Ageing == IF rx = NoMessage THEN rx ELSE [rx EXCEPT !.age = @ + Tick]

\* getRtcValue reads the three registers one after the other.
ReadRegister ==
    /\ rx # NoMessage /\ Len(rx.words) < 3
    /\ rx' = [Ageing EXCEPT !.words = Append(@, [sc |-> sc_counter, ns |-> ns_counter])]

Handled == rx # NoMessage /\ Len(rx.words) = 3 /\ rx' = NoMessage

\* The time the three reads make up.
getRtcValue(words) ==
    [seconds |-> 2 * (words[1].sc \div 2) + (words[2].sc % 2),
     nanoseconds |-> LowNs * (words[2].ns \div LowNs) + (words[3].ns % LowNs)]

\* Mutant of getPreciseRxTime: the turn of the second is not noticed.
EmbeddedAsIs(time, t_ns) == [seconds |-> time.seconds, nanoseconds |-> t_ns]

\* Embedded nanoseconds that are not before those of the later read belong to
\* the second before it.
getPreciseRxTime(time, t_ns) ==
    [seconds |-> IF t_ns < time.nanoseconds THEN time.seconds ELSE time.seconds - 1,
     nanoseconds |-> t_ns]

-----------------------------------------------------------------------------
(* The ghosts: a correction counts from the first edge of its write.         *)

Asked == IF Standing.reg = "RTC_CTL" /\ Standing.valid /\ bus.edges = 2
         THEN ofst.sc * Second + ofst.ns ELSE 0

\* The correction is applied in the very cycle that starts a second, in the
\* old time or in the corrected one.
AtStartOfSecond ==
    offset_adjust /\ \/ ofst.ns # 0 /\ ns_wrap_around_flag_p1
                     \/ ofst.ns < 0 /\ tmp_ns_d1 \in 0..(Tick - 1)

Ghosts ==
    /\ ideal' = IF clear_rtc.o THEN 0 ELSE Wrapped(ideal + Tick + Asked)
    /\ struck' = (~clear_rtc.o /\ (struck \/ AtStartOfSecond))
    /\ calm' = IF offset_adjust \/ clear_rtc.o THEN 0
               ELSE IF calm < CalmLimit THEN calm + 1 ELSE calm

Hardware == Counter /\ Registers /\ PulsePerSecond /\ Interrupt /\ Ghosts

-----------------------------------------------------------------------------

\* A bound: what a struck correction left wrong is not corrected further, only
\* cleared.
Correct(ns, sc) ==
    ~struck /\ Call(setRtcValue(ns, sc)) /\ UNCHANGED rx /\ Hardware
Restart(ns, sc) == Call(initClock(ns, sc)) /\ UNCHANGED rx /\ Hardware
Run == BusEdge /\ rx' = Ageing /\ Punctual /\ Hardware
Arrive == Arrival /\ UNCHANGED <<bus, todo>> /\ Hardware
Read == ReadRegister /\ UNCHANGED <<bus, todo>> /\ Hardware
Finish == Handled /\ UNCHANGED <<bus, todo>> /\ Hardware

Next ==
    \/ \E ns \in NsOffsets, sc \in SecondsOffsets : Correct(ns, sc)
    \/ \E ns \in NsOffsets \cap Nat, sc \in SecondsOffsets \cap Nat : Restart(ns, sc)
    \/ Run
    \/ Arrive
    \/ Read
    \/ Finish

Spec == Init /\ [][Next]_vars

-----------------------------------------------------------------------------
(* Properties                                                                *)

\* Once a correction has settled the time is exactly what software asked for:
\* every write corrects once, whatever the phase of the second, and no edge is
\* lost or counted twice at the turn of a second (ptp_rtc.v:63-181).  Excepted
\* are corrections that were struck.
CorrectionsKept == Settled /\ ~struck => Time = ideal

\* Whatever the corrections and whenever they come, the nanoseconds neither
\* run below zero nor past 2 * Second and a few ticks, and the corrected value
\* stays as far from the ends of its signed register: 32 and 33 bits are enough
\* for both, which is why their widths are not modelled (ptp_rtc.v:27-29, 98-144).
NanosecondsFit ==
    /\ ns_counter \in 0..(2 * Second + 3 * Tick - 2)
    /\ tmp_ns_d1 \in (1 - Second)..(3 * Second + 5 * Tick - 3)

\* In undisturbed time pps_o rises in the first tick of every second and at no
\* other time, and the periodic interrupt comes once in every period: in the
\* first tick of the second, and one tick after the start of each of its other
\* periods, which it counts in whole ticks from the first (sync_io.v:30-124).
FirstTickOf(period, t) == t % period < Tick
SinceSecond(t) == Tick * ((t % Second) \div Tick)
SecondsAnnounced ==
    [][calm = CalmLimit /\ calm' = CalmLimit =>
          /\ SecondStarts <=> FirstTickOf(Second, Time')
          /\ xms'.trig <=> \/ FirstTickOf(Second, Time')
                           \/ FirstTickOf(Period, SinceSecond(Time)) /\ ~FirstTickOf(Second, Time)]_vars

\* The time of an event message is completed to the time of its arrival, also
\* when the second turned between the arrival and the reads, unless a
\* register carried into the next between two of the three reads
\* (sys.cpp:550-567, 754-765).
Torn(words) ==
    \/ words[1].sc \div 2 # words[2].sc \div 2
    \/ words[2].sc # words[3].sc
    \/ words[2].ns \div LowNs # words[3].ns \div LowNs
ReceiptCompleted ==
    Len(rx.words) = 3 /\ ~Torn(rx.words) =>
        LET time == getPreciseRxTime(getRtcValue(rx.words), rx.ns)
        IN  Wrapped(time.seconds * Second + time.nanoseconds) = Wrapped(Time - rx.age)
=============================================================================
