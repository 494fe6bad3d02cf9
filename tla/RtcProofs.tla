----------------------------- MODULE RtcProofs -----------------------------
(***************************************************************************)
(* The four properties of the real-time clock, for a second of any length  *)
(* above six ticks, any tick, any period and any corrections smaller than  *)
(* a second.                                                               *)
(*                                                                         *)
(* IInv holds of every state.  It says which writes are on the bus, in the *)
(* software and in the control of a correction (ControlOK), that the flags *)
(* of a turning second are raised one at a time and how far the            *)
(* nanoseconds run under each (WrapOK, RangeOK), what the stages of an     *)
(* applied correction hold (PipelineOK, CarryOK), and that what the        *)
(* counters show is the time that has passed plus every correction in      *)
(* full, or that sum with the one whose writes are under way (ExactOK).    *)
(*                                                                         *)
(* CInv adds what undisturbed time brings about: after a few calm edges    *)
(* the counters run alone (RunsOK), after a turn of the second the counter *)
(* of the interrupt keeps step with them (PulseOK), and a message read     *)
(* meanwhile holds the registers of one passing time (ReadsOK).            *)
(***************************************************************************)
EXTENDS Rtc, SequenceTheorems, TLAPS

\* The writes software makes.
Writes ==
    {NoWrite, OtherWrite} \cup {ControlWrite(b) : b \in BOOLEAN}
        \cup {OffsetWrite(p[1], p[2]) : p \in ((1 - Second)..(Second - 1)) \X Int}

WritesOK ==
    /\ ofst.ns \in (1 - Second)..(Second - 1) /\ ofst.sc \in Int
    /\ bus.write \in Writes
    /\ todo \in Seq(Writes)

\* The flags of the turn of a second, at most one of which is raised.
Turned == wrap[1] \/ wrap[2] \/ wrap[3]

WrapOK ==
    /\ wrap \in [1..3 -> BOOLEAN]
    /\ ~(wrap[1] /\ wrap[2]) /\ ~(wrap[1] /\ wrap[3]) /\ ~(wrap[2] /\ wrap[3])

\* How far the nanoseconds have run, flag by flag.
RangeOK ==
    /\ ns_counter \in Nat
    /\ ns_contrled_reg \in 0..(2 * Second + 5 * Tick - 2)
    /\ tmp_ns_d1 \in (1 - Second)..(3 * Second + 5 * Tick - 3)
    /\ ~Turned => /\ ns_counter <= 2 * Second + 2 * Tick - 2
                  /\ ns_contrled_reg < Second + Tick
    /\ wrap[1] => /\ ns_counter <= 2 * Second + 3 * Tick - 2
                  /\ ns_contrled_reg \in (Second + Tick)..(2 * Second + 4 * Tick - 2)
    /\ wrap[2] => ns_counter <= Second + 4 * Tick - 2
    /\ wrap[3] => ns_counter <= Second + 5 * Tick - 2
    /\ offset_adjust => /\ ~Turned
                        /\ ns_counter < Second
                        /\ tmp_ns_d1 <= 2 * Second + Tick - 2

-----------------------------------------------------------------------------
(* Remainders *)

\* Division with remainder, and that it is unique.
LEMMA DividesWithRemainder ==
    ASSUME NEW m \in Nat \ {0}, NEW a \in Int
    PROVE  a % m \in 0..(m - 1) /\ a \div m \in Int /\ a = m * (a \div m) + (a % m)
  OBVIOUS

LEMMA RemainderUnique ==
    ASSUME NEW m \in Nat \ {0}, NEW a \in Int, NEW q \in Int, NEW r \in 0..(m - 1), a = m * q + r
    PROVE  a % m = r
<1>. DEFINE d == (a \div m) - q
<1>1. a % m \in 0..(m - 1) /\ a \div m \in Int /\ a = m * (a \div m) + (a % m)
  BY DividesWithRemainder
<1>2. d \in Int /\ m * d = r - (a % m)
  BY <1>1
<1>3. d = 0
  <2>. HIDE DEF d
  <2>1. (d >= 1 => m * d >= m) /\ (d <= -1 => m * d <= -m)
    BY <1>2
  <2>. QED
    BY <1>1, <1>2, <2>1
<1>. QED
  BY <1>1, <1>2, <1>3

\* Whole multiples do not change a remainder.
LEMMA RemainderShifts ==
    ASSUME NEW m \in Nat \ {0}, NEW a \in Int, NEW q \in Int
    PROVE  (a + m * q) % m = a % m
<1>. DEFINE d == a \div m
            r == a % m
<1>1. r \in 0..(m - 1) /\ d \in Int /\ a = m * d + r
  BY DividesWithRemainder
<1>. HIDE DEF d, r
<1>2. a + m * q = m * (d + q) + r /\ a + m * q \in Int /\ d + q \in Int
  BY <1>1
<1>3. (a + m * q) % m = r
  BY <1>1, <1>2, RemainderUnique
<1>. QED
  BY <1>3 DEF r

\* The remainder of a sum is that of the sum of a remainder.
LEMMA RemainderAdds ==
    ASSUME NEW m \in Nat \ {0}, NEW a \in Int, NEW b \in Int
    PROVE  ((a % m) + b) % m = (a + b) % m
<1>. DEFINE d == a \div m
            r == a % m
<1>1. r \in 0..(m - 1) /\ d \in Int /\ a = m * d + r
  BY DividesWithRemainder
<1>. HIDE DEF d, r
<1>2. a + b = (r + b) + m * d /\ r + b \in Int
  BY <1>1
<1>3. (a + b) % m = (r + b) % m
  <2>1. ((r + b) + m * d) % m = (r + b) % m
    BY <1>1, <1>2, RemainderShifts
  <2>. QED
    BY <1>2, <2>1
<1>. QED
  BY <1>3 DEF r

\* Seconds that wrap give a time that wraps.
LEMMA RemainderScales ==
    ASSUME NEW m \in Nat \ {0}, NEW s \in Nat \ {0}, NEW c \in Int, NEW x \in Int
    PROVE  ((c % m) * s + x) % (m * s) = (c * s + x) % (m * s)
<1>. DEFINE d == c \div m
            r == c % m
            y == r * s + x
            z == c * s + x
            k == m * s
<1>1. r \in Int /\ d \in Int /\ c = m * d + r
  BY DividesWithRemainder
<1>. HIDE DEF d, r
<1>2. c * s = m * s * d + r * s
  BY <1>1
<1>3. z = y + k * d /\ y \in Int /\ k \in Nat \ {0}
  BY <1>1, <1>2
<1>. HIDE DEF y, z, k
<1>4. z % k = y % k
  BY <1>1, <1>3, RemainderShifts
<1>. QED
  BY <1>4 DEF y, z, k, r

-----------------------------------------------------------------------------
(* The writes *)

LEMMA Lengths == RtcAssumption => Second \in Nat /\ Tick \in Nat /\ Tick >= 1 /\ Second > 4 * Tick
  BY DEF RtcAssumption

\* A correction of the nanoseconds is less than a second either way.
LEMMA OffsetSmall ==
    ASSUME NEW w \in Writes, w.reg = "OFST"
    PROVE  w.ns \in (1 - Second)..(Second - 1) /\ w.sc \in Int
<1>1. w \notin {NoWrite, OtherWrite}
  BY DEF NoWrite, OtherWrite
<1>2. w \notin {ControlWrite(b) : b \in BOOLEAN}
  BY DEF ControlWrite
<1>3. PICK p \in ((1 - Second)..(Second - 1)) \X Int : w = OffsetWrite(p[1], p[2])
  BY <1>1, <1>2 DEF Writes
<1>. QED
  BY <1>3 DEF OffsetWrite

\* What the functions of software write.
LEMMA SoftwareWrites ==
    ASSUME RtcAssumption, NEW ns \in NsOffsets, NEW sc \in SecondsOffsets
    PROVE  setRtcValue(ns, sc) \in Seq(Writes) /\ initClock(ns, sc) \in Seq(Writes)
<1>1. OffsetWrite(ns, sc) \in Writes
  <2>1. <<ns, sc>> \in ((1 - Second)..(Second - 1)) \X Int
    BY DEF RtcAssumption
  <2>. QED
    BY <2>1 DEF Writes
<1>2. ControlWrite(TRUE) \in Writes /\ ControlWrite(FALSE) \in Writes /\ OtherWrite \in Writes
  BY DEF Writes
<1>3. ASSUME NEW a \in Writes, NEW b \in Writes, NEW c \in Writes, NEW d \in Writes
      PROVE  <<a, b>> \in Seq(Writes) /\ <<a, b, c, d>> \in Seq(Writes)
  OBVIOUS
<1>. QED
  BY <1>1, <1>2, <1>3 DEF setRtcValue, initClock

\* The writes on the bus and in the software stay among those.
LEMMA WritesKept ==
    ASSUME RtcAssumption, WritesOK, Next
    PROVE  WritesOK'
<1>1. Hardware
  BY DEF Next, Correct, Restart, Run, Arrive, Read, Finish
<1>2. ofst'.ns \in (1 - Second)..(Second - 1) /\ ofst'.sc \in Int
  <2>1. CASE Standing.reg = "OFST"
    <3>1. ofst' = [ns |-> Standing.ns, sc |-> Standing.sc]
      BY <1>1, <2>1 DEF Hardware, Registers
    <3>. QED
      BY <2>1, <3>1, OffsetSmall DEF WritesOK, Standing
  <2>2. CASE Standing.reg # "OFST"
    BY <1>1, <2>2 DEF Hardware, Registers, WritesOK
  <2>. QED
    BY <2>1, <2>2
<1>3. bus'.write \in Writes /\ todo' \in Seq(Writes)
  <2>1. CASE BusEdge
    <3>1. CASE bus' = [bus EXCEPT !.edges = @ - 1] /\ todo' = todo
      BY <3>1 DEF WritesOK
    <3>2. CASE bus' = NoTransfer /\ todo' = todo
      BY <3>2 DEF WritesOK, NoTransfer, Writes
    <3>3. CASE todo # <<>> /\ bus' = [write |-> Head(todo), edges |-> 2] /\ todo' = Tail(todo)
      BY <3>3, HeadTailProperties DEF WritesOK
    <3>4. CASE bus' = bus /\ todo' = todo
      BY <3>4 DEF WritesOK
    <3>. QED
      BY <2>1, <3>1, <3>2, <3>3, <3>4 DEF BusEdge
  <2>2. CASE bus' = bus /\ todo' = todo
    BY <2>2 DEF WritesOK
  <2>3. ASSUME NEW ns \in NsOffsets, NEW sc \in SecondsOffsets,
               Call(setRtcValue(ns, sc)) \/ Call(initClock(ns, sc))
        PROVE  bus'.write \in Writes /\ todo' \in Seq(Writes)
    BY <2>3, SoftwareWrites DEF Call, WritesOK
  <2>. QED
    BY <2>1, <2>2, <2>3 DEF Next, Correct, Restart, Run, Arrive, Read, Finish
<1>. QED
  BY <1>2, <1>3 DEF WritesOK

-----------------------------------------------------------------------------
(* The control of a correction: the writes of a function, and the bits that  *)
(* clear themselves                                                          *)

K == ControlWrite(TRUE)
C == ControlWrite(FALSE)
X == OtherWrite
OffsetWrites == {w \in Writes : w.reg = "OFST"}

\* What is left of setRtcValue or initClock.
Resting(t) == t = <<>> \/ t = <<X>>
Correcting(t) == t = <<C>> \/ t = <<C, X>>
Offsetting(t) == \E w \in OffsetWrites : t = <<w, C>> \/ t = <<w, C, X>>
Clearing(t) == \E w \in OffsetWrites : t = <<K, w, C, X>>

\* Where a function is: what is on the bus, for how long, and what is left.
Free == bus = NoTransfer
On(w, n) == bus = [write |-> w, edges |-> n]
OnOffset(n) == \E w \in OffsetWrites : On(w, n)

Clear0 == Free /\ Clearing(todo)
Clear1 == On(K, 2) /\ Offsetting(todo)
Clear2 == On(K, 1) /\ Offsetting(todo)
Offset0 == Free /\ Offsetting(todo)
Offset1 == OnOffset(2) /\ Correcting(todo)
Offset2 == OnOffset(1) /\ Correcting(todo)
Control0 == Free /\ Correcting(todo)
Control1 == On(C, 2) /\ Resting(todo)
Control2 == On(C, 1) /\ Resting(todo)
Over == \/ Free /\ Resting(todo)
        \/ (On(X, 1) \/ On(X, 2)) /\ todo = <<>>

\* The life of a bit that clears itself.
Rested(bit) == ~bit.o /\ ~bit.q /\ ~bit.d1
Written(bit) == bit.q /\ ~bit.d1 /\ ~bit.d2 /\ ~bit.o
Rising(bit) == bit.q /\ bit.d1 /\ ~bit.d2 /\ bit.o
Up(bit) == bit.q /\ bit.d1 /\ bit.d2 /\ bit.o
Drained(bit) == ~bit.o /\ (bit.q => bit.d1 /\ bit.d2)

Waiting == ~adjust_retain /\ ~offset_adjust
Silent == ~sync[1] /\ ~sync[2] /\ ~sync[3]

\* The clearing of the clock: over when the offsets are written, and then the
\* clock has stood at zero for two edges.
Zeroed == ns_counter = 0 /\ sc_counter = 0 /\ ideal = 0 /\ ~struck
ClearOK ==
    \/ (Clear0 \/ Clear1) /\ Rested(clear_rtc)
    \/ Clear2 /\ Written(clear_rtc)
    \/ Offset0 /\ Rising(clear_rtc)
    \/ Offset1 /\ Up(clear_rtc) /\ Zeroed
    \/ /\ Offset0 \/ Offset1 \/ Offset2 \/ Control0 \/ Control1 \/ Control2 \/ Over
       /\ Drained(clear_rtc)

\* The correction: one pulse for each control write, and nothing else under
\* way until it has been applied.
Ahead ==
    \/ Clear0 \/ Clear1 \/ Clear2 \/ Offset0 \/ Offset1 \/ Offset2
    \/ Control0 \/ Control1
CorrectionOK ==
    /\ sync = <<sync[1], sync[2], sync[3]>>
    /\ \/ Ahead /\ Rested(offset_valid) /\ Silent /\ Waiting
       \/ Control2 /\ Written(offset_valid) /\ Silent /\ Waiting
       \/ Free /\ Resting(todo) /\ Rising(offset_valid) /\ Silent /\ Waiting
       \/ Over /\ Up(offset_valid) /\ sync[1] /\ ~sync[2] /\ ~sync[3] /\ Waiting
       \/ Over /\ Drained(offset_valid) /\ sync[1] /\ sync[2] /\ ~sync[3] /\ Waiting
       \/ Over /\ Drained(offset_valid) /\ ~sync[1] /\ (sync[2] => sync[3])

ControlOK == ClearOK /\ CorrectionOK

\* Between the first edge of the control write and the counter.
Asking == offset_valid.q /\ ~offset_valid.d1
Pending == Asking \/ offset_valid.o \/ offset_valid_pul \/ adjust_retain \/ offset_adjust

\* The writes go to registers that differ, the two to the control register set
\* different bits.
LEMMA Distinct ==
    /\ K.reg = "RTC_CTL" /\ K.clear /\ ~K.valid
    /\ C.reg = "RTC_CTL" /\ ~C.clear /\ C.valid
    /\ X.reg = "TICK_INC"
    /\ NoTransfer.write.reg = "none" /\ NoTransfer.edges = 0
    /\ \A w \in OffsetWrites : w.reg = "OFST"
  BY DEF K, C, X, ControlWrite, OtherWrite, NoTransfer, NoWrite, OffsetWrites

\* The bits under a write that does not set them, and under one that does.
LEMMA BitClears ==
    ASSUME NEW bit, NEW written, ~written
    PROVE  /\ Rested(bit) => Rested(SelfClearing(bit, written))
           /\ Drained(bit) => Drained(SelfClearing(bit, written))
           /\ ~bit.q /\ ~bit.o => Rested(SelfClearing(bit, written))
           /\ Rising(bit) /\ bus.write.reg = "none" => Up(SelfClearing(bit, written))
           /\ Up(bit) => Drained(SelfClearing(bit, written))
<1>. DEFINE b == SelfClearing(bit, written)
<1>1. /\ b.d1 = bit.q /\ b.d2 = bit.d1 /\ b.o = (bit.q /\ ~bit.d2)
      /\ b.q = CASE Standing.reg = "RTC_CTL" -> written
                 [] Standing.reg = "none"    -> bit.q /\ ~bit.d2
                 [] OTHER                    -> bit.q
  BY DEF SelfClearing
<1>2. /\ b.q => bit.q
      /\ bus.write.reg = "none" => (b.q <=> bit.q /\ ~bit.d2)
  BY <1>1 DEF Standing
<1>. HIDE DEF b
<1>3. /\ Rested(bit) => Rested(b)
      /\ Drained(bit) => Drained(b)
      /\ ~bit.q /\ ~bit.o => Rested(b)
      /\ Rising(bit) /\ bus.write.reg = "none" => Up(b)
      /\ Up(bit) => Drained(b)
  BY <1>1, <1>2 DEF Rested, Drained, Rising, Up
<1>. QED
  BY <1>3 DEF b

\* A bit that is set rises one edge after the write.
LEMMA BitWritten ==
    ASSUME NEW bit, bus.write.reg = "RTC_CTL"
    PROVE  /\ Rested(bit) => Written(SelfClearing(bit, TRUE))
           /\ Written(bit) => Rising(SelfClearing(bit, TRUE))
  BY DEF SelfClearing, Standing, Rested, Written, Rising

\* The next place of a function.
LEMMA FunctionRuns ==
    ASSUME BusEdge
    PROVE  /\ Clear0 => Clear1'
           /\ Clear1 => Clear2'
           /\ Clear2 => Offset0'
           /\ Offset0 => Offset1'
           /\ Offset1 => Offset2'
           /\ Offset2 => Control0'
           /\ Control0 => Control1'
           /\ Control1 => Control2'
           /\ Control2 => (Free /\ Resting(todo))'
           /\ Over => Over'
<1>1. /\ NoTransfer.edges = 0
      /\ \A w, n : [write |-> w, edges |-> n].edges = n /\ [write |-> w, edges |-> n].write = w
  BY DEF NoTransfer
<1>2. Free /\ todo # <<>> => bus' = [write |-> Head(todo), edges |-> 2] /\ todo' = Tail(todo)
  BY <1>1 DEF BusEdge, Free, Quiet
<1>3. Free /\ todo = <<>> => Free' /\ todo' = <<>>
  BY <1>1 DEF BusEdge, Free, Quiet
<1>4. ASSUME NEW w
      PROVE  /\ On(w, 2) => On(w, 1)' /\ todo' = todo
             /\ On(w, 1) => Free' /\ todo' = todo
  <2>1. [[write |-> w, edges |-> 2] EXCEPT !.edges = @ - 1] = [write |-> w, edges |-> 1]
    OBVIOUS
  <2>. QED
    BY <1>1, <2>1 DEF BusEdge, Free, On, Quiet
<1>5. Clear0 => Clear1'
  BY <1>2 DEF Clear0, Clear1, Clearing, Offsetting, On
<1>6. Offset0 => Offset1'
  <2>1. ASSUME NEW w \in OffsetWrites, Free, todo = <<w, C>> \/ todo = <<w, C, X>>
        PROVE  OnOffset(2)' /\ Correcting(todo)'
    <3>1. Head(todo) = w /\ todo # <<>> /\ (Tail(todo) = <<C>> \/ Tail(todo) = <<C, X>>)
      <4>1. CASE todo = <<w, C>>
        BY <4>1
      <4>2. CASE todo = <<w, C, X>>
        BY <4>2
      <4>. QED
        BY <2>1, <4>1, <4>2
    <3>. QED
      BY <1>2, <2>1, <3>1 DEF OnOffset, On, Correcting
  <2>. QED
    BY <2>1 DEF Offset0, Offset1, Offsetting
<1>7. Control0 => Control1'
  <2>1. ASSUME Free, todo = <<C>> \/ todo = <<C, X>>
        PROVE  On(C, 2)' /\ Resting(todo)'
    <3>1. Head(todo) = C /\ todo # <<>> /\ (Tail(todo) = <<>> \/ Tail(todo) = <<X>>)
      <4>1. CASE todo = <<C>>
        BY <4>1
      <4>2. CASE todo = <<C, X>>
        BY <4>2
      <4>. QED
        BY <2>1, <4>1, <4>2
    <3>. QED
      BY <1>2, <2>1, <3>1 DEF On, Resting
  <2>. QED
    BY <2>1 DEF Control0, Control1, Correcting
<1>8. Over => Over'
  <2>1. Free /\ todo = <<>> => Over'
    BY <1>3 DEF Over, Resting
  <2>2. Free /\ todo = <<X>> => Over'
    BY <1>2 DEF Over, Resting, On
  <2>3. (On(X, 1) \/ On(X, 2)) /\ todo = <<>> => Over'
    BY <1>3, <1>4 DEF Over, Resting
  <2>. QED
    BY <2>1, <2>2, <2>3 DEF Over, Resting
<1>9. (Clear1 => Clear2') /\ (Clear2 => Offset0')
  BY <1>4 DEF Clear1, Clear2, Offset0, Offsetting
<1>10. (Offset1 => Offset2') /\ (Offset2 => Control0')
  BY <1>4 DEF Offset1, Offset2, Control0, OnOffset, Correcting
<1>11. (Control1 => Control2') /\ (Control2 => (Free /\ Resting(todo))')
  BY <1>4 DEF Control1, Control2, Resting
<1>. QED
  BY <1>5, <1>6, <1>7, <1>8, <1>9, <1>10, <1>11

\* A function called by the software.
Called ==
    \E ns \in NsOffsets, sc \in SecondsOffsets :
        Call(setRtcValue(ns, sc)) \/ Call(initClock(ns, sc))

LEMMA CalledWrites ==
    ASSUME RtcAssumption, Called, Free
    PROVE  Settled /\ todo = <<>> /\ bus.write.reg = "none" /\ (Clear0' \/ Offset0')
<1>1. PICK ns \in NsOffsets, sc \in SecondsOffsets :
        Call(setRtcValue(ns, sc)) \/ Call(initClock(ns, sc))
  BY DEF Called
<1>2. Free' /\ Settled /\ todo = <<>> /\ bus.write.reg = "none"
  BY <1>1, Distinct DEF Call, Free, Quiet
<1>3. OffsetWrite(ns, sc) \in OffsetWrites
  <2>1. <<ns, sc>> \in ((1 - Second)..(Second - 1)) \X Int
    BY DEF RtcAssumption
  <2>2. OffsetWrite(ns, sc) \in Writes
    BY <2>1 DEF Writes
  <2>. QED
    BY <2>2 DEF OffsetWrites, OffsetWrite
<1>4. CASE Call(setRtcValue(ns, sc))
  <2>1. todo' = <<OffsetWrite(ns, sc), C>>
    BY <1>4 DEF Call, setRtcValue, C
  <2>. QED
    BY <1>2, <1>3, <2>1 DEF Offset0, Offsetting
<1>5. CASE Call(initClock(ns, sc))
  <2>1. todo' = <<K, OffsetWrite(ns, sc), C, X>>
    BY <1>5 DEF Call, initClock, C, K, X
  <2>. QED
    BY <1>2, <1>3, <2>1 DEF Clear0, Clearing
<1>. QED
  BY <1>1, <1>4, <1>5

\* What stands on the bus at each place.
LEMMA Standings ==
    /\ Clear0 \/ Offset0 \/ Control0 \/ (Free /\ Resting(todo)) => bus.write.reg = "none"
    /\ Clear1 \/ Clear2 => bus.write = K
    /\ Offset1 \/ Offset2 => bus.write.reg = "OFST"
    /\ Control1 \/ Control2 => bus.write = C
    /\ Over => bus.write.reg \in {"none", "TICK_INC"}
<1>1. \A w, n : On(w, n) => bus.write = w
  BY DEF On
<1>2. Free => bus.write.reg = "none"
  BY Distinct DEF Free
<1>. QED
  BY <1>1, <1>2, Distinct
     DEF Clear0, Clear1, Clear2, Offset0, Offset1, Offset2, Control0, Control1, Control2, Over, OnOffset

\* At rest the only place is the last.
LEMMA AtRest ==
    ASSUME Quiet
    PROVE  /\ ~Clear0 /\ ~Clear1 /\ ~Clear2 /\ ~Offset0 /\ ~Offset1 /\ ~Offset2
           /\ ~Control0 /\ ~Control1 /\ ~Control2
           /\ Over => Free
<1>1. \A w, n : On(w, n) => bus.edges = n
  BY DEF On
<1>2. ~Clearing(todo) /\ ~Offsetting(todo) /\ ~Correcting(todo)
  BY DEF Quiet, Clearing, Offsetting, Correcting
<1>. QED
  BY <1>1, <1>2
     DEF Clear0, Clear1, Clear2, Offset0, Offset1, Offset2, Control0, Control1, Control2, Over, OnOffset, Quiet

\* The places of a restart.
LEMMA ClearKept ==
    ASSUME RtcAssumption, ClearOK, Registers, Nanoseconds, Seconds, Ghosts, BusEdge \/ Called
    PROVE  ClearOK'
<1>. DEFINE clears == Standing.reg = "RTC_CTL" /\ Standing.clear
<1>1. clear_rtc' = SelfClearing(clear_rtc, clears)
  BY DEF Registers
<1>2. CASE Called
  <2>1. Quiet
    BY <1>2 DEF Called, Call
  <2>2. Free /\ Drained(clear_rtc)
    BY <2>1, AtRest DEF ClearOK
  <2>3. Settled /\ bus.write.reg = "none" /\ (Clear0' \/ Offset0')
    BY <1>2, <2>2, CalledWrites
  <2>4. ~clear_rtc.q /\ ~clear_rtc.o /\ ~clears
    BY <2>3 DEF Settled, Standing
  <2>5. Rested(clear_rtc') /\ Drained(clear_rtc')
    BY <1>1, <2>2, <2>4, BitClears
  <2>. QED
    BY <2>3, <2>5 DEF ClearOK
<1>3. CASE BusEdge
  <2>1. CASE (Clear0 \/ Clear1) /\ Rested(clear_rtc)
    <3>1. CASE Clear0
      <4>1. ~clears
        BY <3>1, Standings DEF Standing
      <4>. QED
        BY <1>1, <1>3, <2>1, <3>1, <4>1, BitClears, FunctionRuns DEF ClearOK
    <3>2. CASE Clear1
      <4>1. clears = TRUE /\ bus.write.reg = "RTC_CTL"
        BY <3>2, Standings, Distinct DEF Standing
      <4>. QED
        BY <1>1, <1>3, <2>1, <3>2, <4>1, BitWritten, FunctionRuns DEF ClearOK
    <3>. QED
      BY <2>1, <3>1, <3>2
  <2>2. CASE Clear2 /\ Written(clear_rtc)
    <3>1. clears = TRUE /\ bus.write.reg = "RTC_CTL"
      BY <2>2, Standings, Distinct DEF Standing
    <3>. QED
      BY <1>1, <1>3, <2>2, <3>1, BitWritten, FunctionRuns DEF ClearOK
  <2>3. CASE Offset0 /\ Rising(clear_rtc)
    <3>1. ~clears /\ bus.write.reg = "none"
      BY <2>3, Standings DEF Standing
    <3>2. Zeroed'
      BY <2>3 DEF Rising, Zeroed, Nanoseconds, Seconds, Ghosts
    <3>. QED
      BY <1>1, <1>3, <2>3, <3>1, <3>2, BitClears, FunctionRuns DEF ClearOK
  <2>4. CASE Offset1 /\ Up(clear_rtc)
    <3>1. ~clears
      BY <2>4, Standings DEF Standing
    <3>. QED
      BY <1>1, <1>3, <2>4, <3>1, BitClears, FunctionRuns DEF ClearOK
  <2>5. CASE /\ Offset0 \/ Offset1 \/ Offset2 \/ Control0 \/ Control1 \/ Control2 \/ Over
             /\ Drained(clear_rtc)
    <3>1. ~clears
      BY <2>5, Standings, Distinct DEF Standing
    <3>2. Drained(clear_rtc')
      BY <1>1, <2>5, <3>1, BitClears
    <3>3. (Free /\ Resting(todo))' => Over'
      BY DEF Over
    <3>. QED
      BY <1>3, <2>5, <3>2, <3>3, FunctionRuns DEF ClearOK
  <2>. QED
    BY <2>1, <2>2, <2>3, <2>4, <2>5 DEF ClearOK
<1>. QED
  BY <1>2, <1>3

\* The two flip-flops and the delay a correction crosses into the clock.
LEMMA SyncShifts ==
    ASSUME Registers
    PROVE  /\ sync' = <<sync'[1], sync'[2], sync'[3]>>
           /\ sync'[1] = offset_valid.o /\ sync'[2] = sync[1] /\ sync'[3] = sync[2]
  BY DEF Registers

\* The places of a correction.
LEMMA CorrectionKept ==
    ASSUME RtcAssumption, CorrectionOK, Registers, Retain, Adjust, BusEdge \/ Called
    PROVE  CorrectionOK'
<1>. DEFINE asks == Standing.reg = "RTC_CTL" /\ Standing.valid
<1>1. offset_valid' = SelfClearing(offset_valid, asks)
  BY DEF Registers
<1>2. /\ sync' = <<sync'[1], sync'[2], sync'[3]>>
      /\ sync'[1] = offset_valid.o /\ sync'[2] = sync[1] /\ sync'[3] = sync[2]
  BY SyncShifts
<1>3. Waiting /\ ~offset_valid_pul => Waiting'
  BY DEF Waiting, Retain, Adjust
<1>4. CASE Called
  <2>1. Quiet
    BY <1>4 DEF Called, Call
  <2>2. Free
    BY <2>1, AtRest DEF CorrectionOK, Ahead
  <2>3. Settled /\ bus.write.reg = "none" /\ (Clear0' \/ Offset0')
    BY <1>4, <2>2, CalledWrites
  <2>4. ~offset_valid.q /\ ~offset_valid.o /\ Silent /\ Waiting /\ ~asks
    BY <2>3 DEF Settled, Standing, Silent, Waiting
  <2>5. Rested(offset_valid') /\ Silent' /\ Waiting'
    BY <1>1, <1>2, <1>3, <2>4, BitClears DEF Silent, offset_valid_pul
  <2>. QED
    BY <1>2, <2>3, <2>5 DEF CorrectionOK, Ahead
<1>5. CASE BusEdge
  <2>1. CASE Ahead /\ Rested(offset_valid) /\ Silent /\ Waiting
    <3>1. Silent' /\ Waiting'
      BY <1>2, <1>3, <2>1 DEF Silent, Rested, offset_valid_pul
    <3>2. CASE Control1
      <4>1. asks = TRUE /\ bus.write.reg = "RTC_CTL"
        BY <3>2, Standings, Distinct DEF Standing
      <4>. QED
        BY <1>1, <1>2, <1>5, <2>1, <3>1, <3>2, <4>1, BitWritten, FunctionRuns DEF CorrectionOK
    <3>3. CASE Clear0 \/ Clear1 \/ Clear2 \/ Offset0 \/ Offset1 \/ Offset2 \/ Control0
      <4>1. ~asks
        BY <3>3, Standings, Distinct DEF Standing
      <4>2. Rested(offset_valid')
        BY <1>1, <2>1, <4>1, BitClears
      <4>3. Ahead'
        BY <1>5, <3>3, FunctionRuns DEF Ahead
      <4>. QED
        BY <1>2, <3>1, <4>2, <4>3 DEF CorrectionOK
    <3>. QED
      BY <2>1, <3>2, <3>3 DEF Ahead
  <2>2. CASE Control2 /\ Written(offset_valid) /\ Silent /\ Waiting
    <3>1. Silent' /\ Waiting'
      BY <1>2, <1>3, <2>2 DEF Silent, Written, offset_valid_pul
    <3>2. asks = TRUE /\ bus.write.reg = "RTC_CTL"
      BY <2>2, Standings, Distinct DEF Standing
    <3>3. Rising(offset_valid')
      BY <1>1, <2>2, <3>2, BitWritten
    <3>. QED
      BY <1>2, <1>5, <2>2, <3>1, <3>3, FunctionRuns DEF CorrectionOK
  <2>3. CASE Free /\ Resting(todo) /\ Rising(offset_valid) /\ Silent /\ Waiting
    <3>1. sync'[1] /\ ~sync'[2] /\ ~sync'[3] /\ Waiting'
      BY <1>2, <1>3, <2>3 DEF Silent, Rising, offset_valid_pul
    <3>2. ~asks /\ bus.write.reg = "none" /\ Over
      BY <2>3, Standings DEF Standing, Over
    <3>3. Up(offset_valid')
      BY <1>1, <2>3, <3>2, BitClears
    <3>. QED
      BY <1>2, <1>5, <3>1, <3>2, <3>3, FunctionRuns DEF CorrectionOK
  <2>4. CASE Over /\ Up(offset_valid) /\ sync[1] /\ ~sync[2] /\ ~sync[3] /\ Waiting
    <3>1. sync'[1] /\ sync'[2] /\ ~sync'[3] /\ Waiting'
      BY <1>2, <1>3, <2>4 DEF Up, offset_valid_pul
    <3>2. ~asks
      BY <2>4, Standings DEF Standing
    <3>3. Drained(offset_valid')
      BY <1>1, <2>4, <3>2, BitClears
    <3>. QED
      BY <1>2, <1>5, <2>4, <3>1, <3>3, FunctionRuns DEF CorrectionOK
  <2>5. CASE Over /\ Drained(offset_valid) /\ ((sync[1] /\ sync[2] /\ ~sync[3]) \/ (~sync[1] /\ (sync[2] => sync[3])))
    <3>1. ~sync'[1] /\ (sync'[2] => sync'[3])
      BY <1>2, <2>5 DEF Drained
    <3>2. ~asks
      BY <2>5, Standings DEF Standing
    <3>3. Drained(offset_valid')
      BY <1>1, <2>5, <3>2, BitClears
    <3>. QED
      BY <1>2, <1>5, <2>5, <3>1, <3>3, FunctionRuns DEF CorrectionOK
  <2>. QED
    BY <2>1, <2>2, <2>3, <2>4, <2>5 DEF CorrectionOK
<1>. QED
  BY <1>4, <1>5

\* While a correction is pending the offset registers stand still and the
\* clock is not cleared.
LEMMA PendingAlone ==
    ASSUME ControlOK, Pending \/ Control1
    PROVE  Drained(clear_rtc) /\ bus.write.reg # "OFST"
<1>1. Control2 \/ Control1 \/ Over
  BY DEF ControlOK, CorrectionOK, Pending, Asking, Rested, Drained, Silent, Waiting,
         offset_valid_pul, Over
<1>2. bus.write.reg # "OFST" /\ bus.write # K
  BY <1>1, Standings, Distinct
<1>3. ~Clear1 /\ ~Clear2 /\ ~Offset1
  BY <1>2, Standings
<1>4. ~Offsetting(todo) /\ ~Clearing(todo)
  BY <1>1 DEF Over, Control2, Control1, Resting, Offsetting, Clearing
<1>. QED
  BY <1>2, <1>3, <1>4 DEF ControlOK, ClearOK, Clear0, Offset0

\* What one place of a write excludes of the others.
LEMMA Places ==
    /\ Ahead => ~Control2
    /\ Control2 \/ Over => ~Control1
    /\ Over => ~Control2
<1>1. (Control1 => bus.edges = 2 /\ bus.write = C) /\ (Control2 => bus.edges = 1 /\ bus.write = C)
  BY DEF Control1, Control2, On
<1>2. (Ahead => Control1 \/ bus.write # C) /\ (Over => bus.write # C)
  BY Standings, Distinct DEF Ahead
<1>. QED
  BY <1>1, <1>2

\* A correction is pending from the first edge of the control write until it
\* has been applied, and it is applied when no second is turning.
LEMMA PendingRuns ==
    ASSUME ControlOK, Registers, Retain, Adjust
    PROVE  /\ Control1 => ~Pending /\ Pending' /\ Asking'
           /\ ~Control1 => (Pending' <=> Pending /\ ~offset_adjust) /\ ~Asking'
           /\ Pending \/ Control1 => ofst' = ofst /\ ~clear_rtc.o
           /\ offset_adjust => ~offset_adjust' /\ ~Asking
           /\ offset_adjust' => Pending /\ ~Asking /\ ~offset_adjust /\ ~Turning
<1>. DEFINE asks == Standing.reg = "RTC_CTL" /\ Standing.valid
<1>1. /\ offset_valid'.q <=> CASE Standing.reg = "RTC_CTL" -> asks
                               [] Standing.reg = "none"    -> offset_valid.q /\ ~offset_valid.d2
                               [] OTHER                    -> offset_valid.q
      /\ offset_valid'.d1 <=> offset_valid.q
      /\ offset_valid'.o <=> offset_valid.q /\ ~offset_valid.d2
  BY DEF Registers, SelfClearing
<1>2. /\ offset_valid_pul' <=> sync[1] /\ ~sync[2]
  BY SyncShifts DEF offset_valid_pul
<1>3. /\ ~offset_adjust => (adjust_retain' \/ offset_adjust' <=> adjust_retain \/ offset_valid_pul)
      /\ offset_adjust => ~offset_adjust' /\ (adjust_retain' => offset_valid_pul)
  BY DEF Retain, Adjust
<1>4. asks <=> Control1 \/ Control2
  <2>1. CASE Control1 \/ Control2
    BY <2>1, Standings, Distinct DEF Standing
  <2>2. CASE ~Control1 /\ ~Control2
    BY <2>2, Standings, Distinct DEF Standing, ControlOK, CorrectionOK, Ahead, Over
  <2>. QED
    BY <2>1, <2>2
<1>5. Pending \/ Control1 => ofst' = ofst /\ ~clear_rtc.o
  BY PendingAlone DEF Registers, Drained, Standing
<1>6. Asking' <=> offset_valid'.q /\ ~offset_valid.q
  BY <1>1 DEF Asking
<1>7. Asking' <=> asks /\ ~offset_valid.q
  BY <1>1, <1>6
<1>8. /\ offset_adjust \/ adjust_retain \/ offset_valid_pul => ~Asking
      /\ offset_adjust => ~offset_valid_pul
  BY DEF ControlOK, CorrectionOK, Waiting, Silent, Drained, Asking, offset_valid_pul
<1>9. offset_adjust' => (adjust_retain \/ offset_valid_pul) /\ ~offset_adjust /\ ~Turning
  BY DEF Adjust
<1>. HIDE DEF asks
<1>10. /\ Control1 => ~Pending /\ Pending' /\ Asking'
       /\ ~Control1 => (Pending' <=> Pending /\ ~offset_adjust) /\ ~Asking'
  <2>. USE DEF Pending
  <2>1. CASE Ahead /\ Rested(offset_valid) /\ Silent /\ Waiting
    <3>1. ~Pending /\ ~offset_valid'.o /\ ~offset_valid_pul' /\ ~(adjust_retain' \/ offset_adjust')
      BY <1>1, <1>2, <1>3, <2>1 DEF Rested, Silent, Waiting, Asking, offset_valid_pul
    <3>2. Asking' <=> Control1
      BY <1>4, <1>7, <2>1, Places DEF Rested
    <3>. QED
      BY <3>1, <3>2
  <2>2. CASE Control2 /\ Written(offset_valid) /\ Silent /\ Waiting
    <3>1. ~Control1 /\ Pending /\ ~offset_adjust /\ offset_valid'.o /\ ~Asking'
      BY <1>1, <1>7, <2>2, Places DEF Written, Asking, Waiting
    <3>. QED
      BY <3>1
  <2>3. CASE Free /\ Resting(todo) /\ Rising(offset_valid) /\ Silent /\ Waiting
    <3>1. ~Control1 /\ Pending /\ ~offset_adjust /\ offset_valid'.o /\ ~Asking'
      BY <1>1, <1>7, <2>3, Places DEF Rising, Waiting, Over
    <3>. QED
      BY <3>1
  <2>4. CASE Over /\ Up(offset_valid) /\ sync[1] /\ ~sync[2] /\ ~sync[3] /\ Waiting
    <3>1. ~Control1 /\ Pending /\ ~offset_adjust /\ offset_valid_pul' /\ ~Asking'
      BY <1>2, <1>7, <2>4, Places DEF Up, Waiting
    <3>. QED
      BY <3>1
  <2>5. CASE Over /\ Drained(offset_valid) /\ sync[1] /\ sync[2] /\ ~sync[3] /\ Waiting
    <3>1. ~Control1 /\ offset_valid_pul /\ ~offset_adjust
      BY <2>5, Places DEF Waiting, offset_valid_pul
    <3>2. (adjust_retain' \/ offset_adjust') /\ ~Asking'
      BY <1>3, <1>4, <1>7, <2>5, <3>1, Places
    <3>. QED
      BY <3>1, <3>2
  <2>6. CASE Over /\ Drained(offset_valid) /\ ~sync[1] /\ (sync[2] => sync[3])
    <3>1. /\ ~Control1 /\ ~Asking' /\ ~Asking /\ ~offset_valid'.o /\ ~offset_valid_pul'
          /\ ~offset_valid_pul /\ ~offset_valid.o
      BY <1>1, <1>2, <1>4, <1>7, <2>6, Places DEF Drained, Asking, offset_valid_pul
    <3>. QED
      BY <1>3, <3>1
  <2>. QED
    BY <2>1, <2>2, <2>3, <2>4, <2>5, <2>6 DEF ControlOK, CorrectionOK
<1>. QED
  BY <1>3, <1>5, <1>8, <1>9, <1>10 DEF Pending

\* The write that asks for a correction counts once, at its first edge.
LEMMA AskedOnce ==
    ASSUME ControlOK
    PROVE  Asked = IF Control1 THEN ofst.sc * Second + ofst.ns ELSE 0
<1>1. Control1 => Standing.reg = "RTC_CTL" /\ Standing.valid /\ bus.edges = 2
  BY Standings, Distinct DEF Standing, Control1, On
<1>2. ASSUME Standing.reg = "RTC_CTL", Standing.valid, bus.edges = 2
      PROVE  Control1
  <2>1. Control1 \/ Control2
    BY <1>2, Standings, Distinct DEF Standing, ControlOK, CorrectionOK, Ahead, Over
  <2>. QED
    BY <1>2, <2>1 DEF Control2, On
<1>. QED
  BY <1>1, <1>2 DEF Asked

-----------------------------------------------------------------------------
(* The counter *)

\* Three flags, one by one.
LEMMA Triple ==
    ASSUME NEW a \in BOOLEAN, NEW b \in BOOLEAN, NEW c \in BOOLEAN
    PROVE  /\ <<a, b, c>> \in [1..3 -> BOOLEAN]
           /\ <<a, b, c>>[1] = a /\ <<a, b, c>>[2] = b /\ <<a, b, c>>[3] = c
  OBVIOUS

\* The flags of a turn follow one another.
LEMMA FlagsTurn ==
    ASSUME WrapOK, WrapFlags
    PROVE  /\ WrapOK'
           /\ wrap'[1] <=> ~wrap[1] /\ ~wrap[2] /\ ns_wrap_around_flag_p1
           /\ wrap'[2] <=> wrap[1]
           /\ wrap'[3] <=> wrap[2]
<1>. DEFINE f == ~wrap[1] /\ ~wrap[2] /\ ns_wrap_around_flag_p1
<1>1. wrap' = <<f, wrap[1], wrap[2]>>
  BY DEF WrapFlags
<1>2. f \in BOOLEAN /\ wrap[1] \in BOOLEAN /\ wrap[2] \in BOOLEAN
  BY DEF WrapOK
<1>. HIDE DEF f
<1>3. wrap' \in [1..3 -> BOOLEAN] /\ wrap'[1] = f /\ wrap'[2] = wrap[1] /\ wrap'[3] = wrap[2]
  BY <1>1, <1>2, Triple
<1>. QED
  BY <1>3 DEF WrapOK, f

\* What an edge makes of the nanoseconds.
LEMMA NanosecondsRun ==
    ASSUME RtcAssumption, WritesOK, RangeOK, Nanoseconds, Pipeline
    PROVE  /\ ns_counter' \in Nat
           /\ \/ ns_counter' = 0
              \/ offset_adjust /\ ns_counter' <= 2 * Second + 2 * Tick - 2
              \/ ~offset_adjust /\ wrap[1] /\ ns_counter' <= Second + 4 * Tick - 2
              \/ ~offset_adjust /\ ~wrap[1] /\ ns_counter' = ns_counter + Tick
           /\ ns_contrled_reg' = ns_counter + 2 * Tick
           /\ tmp_ns_d1' = ns_contrled_reg + ofst.ns
<1>1. CASE clear_rtc.o
  BY <1>1, Lengths DEF Nanoseconds, Pipeline
<1>2. CASE ~clear_rtc.o /\ offset_adjust
  <2>1. ns_counter' = tmp_ns1 + Tick
    BY <1>2 DEF Nanoseconds, ns_synced_rtc
  <2>2. tmp_ns1 \in 0..(2 * Second + Tick - 2)
    BY <1>2, Lengths DEF tmp_ns1, RangeOK
  <2>. QED
    BY <1>2, <2>1, <2>2, Lengths DEF Pipeline
<1>3. CASE ~clear_rtc.o /\ ~offset_adjust /\ wrap[1]
  BY <1>3, Lengths DEF Nanoseconds, Pipeline, RangeOK
<1>4. CASE ~clear_rtc.o /\ ~offset_adjust /\ ~wrap[1]
  BY <1>4, Lengths DEF Nanoseconds, ns_contrled_rtc, Pipeline, RangeOK
<1>. QED
  BY <1>1, <1>2, <1>3, <1>4

\* The ranges hold from edge to edge.
LEMMA RangeKept ==
    ASSUME RtcAssumption, WritesOK, WrapOK, RangeOK, Counter
    PROVE  RangeOK'
<1>. DEFINE p1 == ns_counter + Tick >= Second
<1>1. /\ ns_wrap_around_flag_p1 <=> p1
      /\ Second \in Nat /\ Tick \in Nat /\ Tick >= 1 /\ Second > 4 * Tick
  BY Lengths DEF ns_wrap_around_flag_p1, ns_contrled_rtc, RangeOK
<1>2. /\ wrap'[1] <=> ~wrap[1] /\ ~wrap[2] /\ p1
      /\ wrap'[2] <=> wrap[1]
      /\ wrap'[3] <=> wrap[2]
  BY <1>1, FlagsTurn DEF Counter
<1>3. /\ ns_counter' \in Nat
      /\ \/ ns_counter' = 0
         \/ offset_adjust /\ ns_counter' <= 2 * Second + 2 * Tick - 2
         \/ ~offset_adjust /\ wrap[1] /\ ns_counter' <= Second + 4 * Tick - 2
         \/ ~offset_adjust /\ ~wrap[1] /\ ns_counter' = ns_counter + Tick
      /\ ns_contrled_reg' = ns_counter + 2 * Tick
      /\ tmp_ns_d1' = ns_contrled_reg + ofst.ns
  BY NanosecondsRun DEF Counter
<1>4. /\ ns_counter \in Nat /\ ns_counter <= 2 * Second + 3 * Tick - 2
      /\ ns_contrled_reg \in 0..(2 * Second + 5 * Tick - 2)
      /\ ofst.ns \in (1 - Second)..(Second - 1)
  BY <1>1 DEF RangeOK, Turned, WritesOK
<1>5. ns_contrled_reg' \in 0..(2 * Second + 5 * Tick - 2)
  BY <1>1, <1>3, <1>4
<1>6. tmp_ns_d1' \in (1 - Second)..(3 * Second + 5 * Tick - 3)
  BY <1>1, <1>3, <1>4
<1>7. ASSUME ~Turned'
      PROVE  ns_counter' <= 2 * Second + 2 * Tick - 2 /\ ns_contrled_reg' < Second + Tick
  <2>1. ~wrap[1] /\ ~wrap[2] /\ ~p1
    BY <1>2, <1>7 DEF Turned
  <2>. QED
    BY <1>1, <1>3, <1>4, <2>1
<1>8. ASSUME wrap'[1]
      PROVE  /\ ns_counter' <= 2 * Second + 3 * Tick - 2
             /\ ns_contrled_reg' \in (Second + Tick)..(2 * Second + 4 * Tick - 2)
  <2>1. ~wrap[1] /\ ~wrap[2] /\ p1
    BY <1>2, <1>8
  <2>2. ns_counter <= 2 * Second + 2 * Tick - 2
    BY <1>1, <1>4, <2>1 DEF RangeOK, Turned
  <2>. QED
    BY <1>1, <1>3, <1>4, <2>1, <2>2
<1>9. wrap'[2] => ns_counter' <= Second + 4 * Tick - 2
  BY <1>1, <1>2, <1>3, <1>4 DEF RangeOK, Turned
<1>10. wrap'[3] => ns_counter' <= Second + 5 * Tick - 2
  BY <1>1, <1>2, <1>3, <1>4 DEF RangeOK, Turned, WrapOK
<1>11. ASSUME offset_adjust'
       PROVE  ~Turned' /\ ns_counter' < Second /\ tmp_ns_d1' <= 2 * Second + Tick - 2
  <2>1. ~wrap[1] /\ ~wrap[2] /\ ~wrap[3] /\ ~p1 /\ ~offset_adjust
    <3>1. ~Turning /\ ~offset_adjust
      BY <1>11, Zenon DEF Counter, Adjust
    <3>. QED
      BY <1>1, <3>1 DEF Turning
  <2>2. ns_contrled_reg < Second + Tick
    BY <2>1 DEF RangeOK, Turned
  <2>3. ~Turned'
    BY <1>2, <2>1 DEF Turned
  <2>. QED
    BY <1>1, <1>3, <1>4, <2>1, <2>2, <2>3
<1>. QED
  BY <1>3, <1>5, <1>6, <1>7, <1>8, <1>9, <1>10, <1>11 DEF RangeOK

-----------------------------------------------------------------------------
(* Corrections count once                                                    *)

TypesOK ==
    /\ sc_counter \in 0..(SecondsMod - 1) /\ sc_counter_sub1 \in Int
    /\ ideal \in Int /\ calm \in 0..CalmLimit

\* The pipeline in front of the counter while a correction is pending: each
\* stage is right unless a second has just turned under it, and all are when
\* the correction is applied.
PipelineOK ==
    /\ Pending /\ ~wrap[2] => ns_contrled_reg = ns_counter + Tick
    /\ Pending /\ ~Asking /\ ~wrap[2] /\ ~wrap[3] => tmp_ns_d1 = ns_counter + ofst.ns
    /\ offset_adjust =>
          /\ ns_counter >= Tick
          /\ sc_counter_sub1 = (sc_counter - (IF tmp_ns_d1 < Tick THEN 1 ELSE 0)) % SecondsMod

\* The turn of a second takes a second off the nanoseconds, and nothing more.
CarryOK ==
    wrap[1] /\ ~clear_rtc.o /\ (~struck \/ calm >= 1) => ns_contrled_reg = ns_counter + Tick

\* The time lacks just the correction that is pending.
Due == IF Pending THEN ofst.sc * Second + ofst.ns ELSE 0
ExactOK == ~struck => ideal = Wrapped(sc_counter * Second + ns_counter + Due)

\* An edge with nothing to turn or to correct, one that carries into the
\* seconds, and one that corrects.
LEMMA EdgeRuns ==
    ASSUME RtcAssumption, WritesOK, TypesOK, RangeOK, Counter, ~clear_rtc.o
    PROVE  /\ ns_contrled_reg' = ns_counter + 2 * Tick
           /\ tmp_ns_d1' = ns_contrled_reg + ofst.ns
           /\ ~offset_adjust /\ ~wrap[1] =>
                 ns_counter' = ns_counter + Tick /\ sc_counter' = sc_counter
           /\ ~offset_adjust /\ wrap[1] =>
                 ns_counter' = ns_contrled_reg - Second /\ sc_counter' = (sc_counter + 1) % SecondsMod
           /\ offset_adjust =>
                 /\ ns_counter' = (IF tmp_ns_d1 < 0 THEN tmp_ns_d1 + Second ELSE tmp_ns_d1) + Tick
                 /\ sc_counter' = (sc_counter_sub1 + ofst.sc) % SecondsMod
<1>1. ns_contrled_reg' = ns_counter + 2 * Tick /\ tmp_ns_d1' = ns_contrled_reg + ofst.ns
  BY DEF Counter, Pipeline
<1>2. sc_counter % SecondsMod = sc_counter /\ sc_counter + 0 = sc_counter
  BY DEF RtcAssumption, TypesOK
<1>3. ASSUME ~offset_adjust, ~wrap[1]
      PROVE  ns_counter' = ns_counter + Tick /\ sc_counter' = sc_counter
  BY <1>2, <1>3 DEF Counter, Nanoseconds, Seconds, ns_contrled_rtc
<1>4. ASSUME ~offset_adjust, wrap[1]
      PROVE  ns_counter' = ns_contrled_reg - Second /\ sc_counter' = (sc_counter + 1) % SecondsMod
  BY <1>4 DEF Counter, Nanoseconds, Seconds
<1>5. ASSUME offset_adjust
      PROVE  /\ ns_counter' = (IF tmp_ns_d1 < 0 THEN tmp_ns_d1 + Second ELSE tmp_ns_d1) + Tick
             /\ sc_counter' = (sc_counter_sub1 + ofst.sc) % SecondsMod
  BY <1>5 DEF Counter, Nanoseconds, Seconds, ns_synced_rtc, sc_synced_rtc, tmp_ns1
<1>. QED
  BY <1>1, <1>3, <1>4, <1>5

\* The flags an edge later: a turn is noticed once.
LEMMA WrapsAfter ==
    ASSUME WrapOK, WrapFlags, RtcAssumption, RangeOK
    PROVE  /\ wrap'[1] <=> ~wrap[1] /\ ~wrap[2] /\ ns_counter + Tick >= Second
           /\ wrap'[2] <=> wrap[1]
           /\ wrap'[3] <=> wrap[2]
           /\ Turning <=> Turned \/ ns_counter + Tick >= Second
  BY FlagsTurn, Lengths DEF ns_wrap_around_flag_p1, ns_contrled_rtc, Turning, Turned, RangeOK

\* The stages keep step with the counter while a correction is pending.
LEMMA PipelineKept ==
    ASSUME RtcAssumption, WritesOK, TypesOK, WrapOK, RangeOK, ControlOK, PipelineOK,
           Counter, Registers
    PROVE  PipelineOK'
<1>1. /\ wrap'[2] <=> wrap[1]
      /\ wrap'[3] <=> wrap[2]
      /\ Turning <=> Turned \/ ns_counter + Tick >= Second
  BY WrapsAfter DEF Counter
<1>2. /\ Control1 => ~Pending /\ Pending' /\ Asking'
      /\ ~Control1 => (Pending' <=> Pending /\ ~offset_adjust) /\ ~Asking'
      /\ Pending \/ Control1 => ofst' = ofst /\ ~clear_rtc.o
      /\ offset_adjust' => Pending /\ ~Asking /\ ~offset_adjust /\ ~Turning
      /\ offset_adjust => Pending
  BY PendingRuns DEF Counter, Pending
<1>3. ASSUME Pending', ~wrap[1]
      PROVE  /\ ns_contrled_reg' = ns_counter + 2 * Tick /\ tmp_ns_d1' = ns_contrled_reg + ofst.ns
             /\ ns_counter' = ns_counter + Tick /\ sc_counter' = sc_counter
  <2>1. ~clear_rtc.o /\ ~offset_adjust
    BY <1>2, <1>3
  <2>. QED
    BY <1>3, <2>1, EdgeRuns
<1>4. /\ ns_counter \in Nat /\ Tick \in Nat /\ Second \in Nat /\ ofst.ns \in Int
      /\ ns_contrled_reg \in Int /\ tmp_ns_d1 \in Int
  BY Lengths DEF RangeOK, WritesOK
<1>5. Pending' /\ ~wrap'[2] => ns_contrled_reg' = ns_counter' + Tick
  BY <1>1, <1>3, <1>4
<1>6. ASSUME Pending', ~Asking', ~wrap'[2], ~wrap'[3]
      PROVE  tmp_ns_d1' = ns_counter' + ofst'.ns
  <2>1. Pending /\ ofst' = ofst
    BY <1>2, <1>6
  <2>2. ns_contrled_reg = ns_counter + Tick
    BY <1>1, <1>6, <2>1 DEF PipelineOK
  <2>. QED
    BY <1>1, <1>3, <1>4, <1>6, <2>1, <2>2
<1>7. ASSUME offset_adjust'
      PROVE  /\ ns_counter' >= Tick
             /\ sc_counter_sub1' = (sc_counter' - (IF tmp_ns_d1' < Tick THEN 1 ELSE 0)) % SecondsMod
  <2>1. Pending /\ ~Asking /\ ~offset_adjust /\ ~Turned
    BY <1>1, <1>2, <1>7
  <2>2. Pending'
    BY <1>7 DEF Pending
  <2>3. tmp_ns_d1 = ns_counter + ofst.ns /\ ns_contrled_reg = ns_counter + Tick
    BY <2>1 DEF PipelineOK, Turned
  <2>4. tmp_ns_d1' = tmp_ns_d1 + Tick /\ ns_counter' = ns_counter + Tick /\ sc_counter' = sc_counter
    BY <1>3, <1>4, <2>1, <2>2, <2>3 DEF Turned
  <2>5. sc_counter_sub1' = (sc_counter - (IF tmp_ns_d1 < 0 THEN 1 ELSE 0)) % SecondsMod
    BY DEF Counter, Pipeline
  <2>6. tmp_ns_d1 < 0 <=> tmp_ns_d1' < Tick
    BY <1>4, <2>4
  <2>. QED
    BY <1>4, <2>4, <2>5, <2>6
<1>. QED
  BY <1>5, <1>6, <1>7 DEF PipelineOK

\* What is true of the nanoseconds when a correction is applied.
LEMMA Applied ==
    ASSUME ControlOK, WrapOK, RangeOK, PipelineOK, offset_adjust
    PROVE  /\ ~clear_rtc.o /\ ~wrap[1] /\ ~wrap[2] /\ ~wrap[3]
           /\ tmp_ns_d1 = ns_counter + ofst.ns
           /\ ns_counter >= Tick /\ ns_counter < Second
           /\ sc_counter_sub1 = (sc_counter - (IF tmp_ns_d1 < Tick THEN 1 ELSE 0)) % SecondsMod
<1>1. Pending /\ ~Asking
  BY DEF Pending, Asking, ControlOK, CorrectionOK, Waiting, Drained
<1>2. ~clear_rtc.o
  BY <1>1, PendingAlone DEF Drained
<1>. QED
  BY <1>1, <1>2 DEF RangeOK, Turned, PipelineOK

\* A turn is carried by the nanoseconds it was noticed on.
LEMMA CarryKept ==
    ASSUME RtcAssumption, WritesOK, TypesOK, WrapOK, RangeOK, ControlOK, ControlOK', PipelineOK,
           Counter, Registers, Ghosts
    PROVE  CarryOK'
<1>. SUFFICES ASSUME wrap'[1], ~clear_rtc'.o, ~struck' \/ calm' >= 1
              PROVE  ns_contrled_reg' = ns_counter' + Tick
  BY DEF CarryOK
<1>1. ~wrap[1] /\ ~wrap[2] /\ ns_counter + Tick >= Second
  BY WrapsAfter DEF Counter
<1>2. /\ ns_counter \in Nat /\ Tick \in Nat /\ Second \in Nat /\ Second > Tick /\ ofst.ns \in Int
      /\ ns_contrled_reg \in Int /\ tmp_ns_d1 \in Int
  BY Lengths DEF RangeOK, WritesOK
<1>3. ~clear_rtc.o
  <2>1. clear_rtc'.o <=> clear_rtc.q /\ ~clear_rtc.d2
    BY DEF Registers, SelfClearing
  <2>2. CASE Rising(clear_rtc)
    BY <2>1, <2>2 DEF Rising
  <2>3. ~Zeroed
    BY <1>1, <1>2 DEF Zeroed
  <2>. QED
    BY <2>2, <2>3 DEF ControlOK, ClearOK, Rested, Written, Drained
<1>4. CASE offset_adjust
  <2>1. ~struck'
    BY <1>3, <1>4 DEF Ghosts
  <2>2. ~AtStartOfSecond
    BY <1>3, <2>1 DEF Ghosts
  <2>3. ofst.ns = 0
    BY <1>1, <1>2, <1>4, <2>2 DEF AtStartOfSecond, ns_wrap_around_flag_p1, ns_contrled_rtc
  <2>4. tmp_ns_d1 = ns_counter
    BY <1>2, <1>4, <2>3, Applied
  <2>. QED
    BY <1>2, <1>3, <1>4, <2>4, EdgeRuns
<1>5. CASE ~offset_adjust
  BY <1>1, <1>2, <1>3, <1>5, EdgeRuns
<1>. QED
  BY <1>4, <1>5

\* What an edge adds to the time: a tick, and the correction it applies.
LEMMA TimeRuns ==
    ASSUME RtcAssumption, WritesOK, TypesOK, WrapOK, RangeOK, ControlOK, PipelineOK, CarryOK,
           Counter, ~clear_rtc.o, ~struck \/ (calm >= 1 /\ ~offset_adjust),
           offset_adjust => ~AtStartOfSecond
    PROVE  \E c \in Int :
              /\ sc_counter' = c % SecondsMod
              /\ c * Second + ns_counter' = sc_counter * Second + ns_counter + Tick
                    + (IF offset_adjust THEN ofst.sc * Second + ofst.ns ELSE 0)
<1>1. /\ ns_counter \in Nat /\ Tick \in Nat /\ Second \in Nat /\ ofst.ns \in Int /\ ofst.sc \in Int
      /\ ns_contrled_reg \in Int /\ tmp_ns_d1 \in Int /\ sc_counter \in Int
      /\ SecondsMod \in Nat \ {0} /\ sc_counter % SecondsMod = sc_counter
  BY Lengths DEF RangeOK, WritesOK, TypesOK, RtcAssumption
<1>2. CASE offset_adjust
  <2>. DEFINE b == IF tmp_ns_d1 < Tick THEN 1 ELSE 0
              c == (sc_counter - b) + ofst.sc
  <2>1. /\ tmp_ns_d1 = ns_counter + ofst.ns /\ ns_counter >= Tick
        /\ sc_counter_sub1 = (sc_counter - b) % SecondsMod
    BY <1>2, Applied
  <2>2. /\ ns_counter' = (IF tmp_ns_d1 < 0 THEN tmp_ns_d1 + Second ELSE tmp_ns_d1) + Tick
        /\ sc_counter' = (sc_counter_sub1 + ofst.sc) % SecondsMod
    BY <1>2, EdgeRuns
  <2>3. b \in Int /\ sc_counter - b \in Int
    BY <1>1
  <2>4. tmp_ns_d1 >= Tick \/ tmp_ns_d1 < 0
    BY <1>1, <1>2, <2>1 DEF AtStartOfSecond
  <2>5. ns_counter' = tmp_ns_d1 + b * Second + Tick
    <3>1. CASE tmp_ns_d1 < 0
      BY <1>1, <2>2, <3>1
    <3>2. CASE tmp_ns_d1 >= Tick
      BY <1>1, <2>2, <3>2
    <3>. QED
      BY <2>4, <3>1, <3>2
  <2>. HIDE DEF b
  <2>6. sc_counter' = c % SecondsMod /\ c \in Int
    <3>. DEFINE d == sc_counter - b
    <3>1. d \in Int
      BY <2>3
    <3>2. sc_counter' = ((d % SecondsMod) + ofst.sc) % SecondsMod
      BY <1>2, <2>1, <2>2
    <3>. HIDE DEF d
    <3>3. ofst.sc \in Int /\ SecondsMod \in Nat \ {0}
      BY <1>1
    <3>4. ((d % SecondsMod) + ofst.sc) % SecondsMod = (d + ofst.sc) % SecondsMod
      BY <3>1, <3>3, RemainderAdds, Zenon
    <3>5. sc_counter' = (d + ofst.sc) % SecondsMod
      BY <3>2, <3>4, Zenon
    <3>6. d + ofst.sc \in Int
      BY <3>1, <3>3
    <3>. QED
      BY <3>5, <3>6 DEF d
  <2>7. c * Second = sc_counter * Second - b * Second + ofst.sc * Second
    BY <1>1, <2>3
  <2>8. c * Second + ns_counter' =
          sc_counter * Second + ns_counter + Tick + (ofst.sc * Second + ofst.ns)
    BY <1>1, <2>1, <2>3, <2>5, <2>7
  <2>. QED
    BY <1>2, <2>6, <2>8
<1>3. CASE ~offset_adjust /\ wrap[1]
  <2>1. ns_counter' = ns_counter + Tick - Second /\ sc_counter' = (sc_counter + 1) % SecondsMod
    BY <1>1, <1>3, EdgeRuns DEF CarryOK
  <2>2. (sc_counter + 1) * Second = sc_counter * Second + Second
    BY <1>1
  <2>. QED
    BY <1>1, <1>3, <2>1, <2>2
<1>4. CASE ~offset_adjust /\ ~wrap[1]
  <2>1. ns_counter' = ns_counter + Tick /\ sc_counter' = sc_counter
    BY <1>4, EdgeRuns
  <2>. QED
    BY <1>1, <1>4, <2>1
<1>. QED
  BY <1>2, <1>3, <1>4

\* Seconds that wrap, in the terms of the clock.
LEMMA SecondsWrap ==
    ASSUME NEW c \in Int, NEW x \in Int
    PROVE  ((c % SecondsMod) * Second + x) % (SecondsMod * Second)
              = (c * Second + x) % (SecondsMod * Second)
<1>1. SecondsMod \in Nat \ {0} /\ Second \in Nat \ {0}
  BY RtcAssumption DEF RtcAssumption
<1>. QED
  BY <1>1, RemainderScales, Zenon

\* An edge adds a tick, and a correction exactly once.
LEMMA ExactKept ==
    ASSUME RtcAssumption, WritesOK, TypesOK, TypesOK', WrapOK, RangeOK, RangeOK', ControlOK,
           PipelineOK, CarryOK, ExactOK, Counter, Registers, Ghosts
    PROVE  ExactOK'
<1>. DEFINE m == SecondsMod * Second
<1>1. /\ ns_counter \in Nat /\ ns_counter' \in Nat /\ sc_counter \in Int /\ sc_counter' \in Int
      /\ Second \in Nat \ {0} /\ SecondsMod \in Nat \ {0} /\ Tick \in Nat
      /\ ofst.ns \in Int /\ ofst.sc \in Int
  <2>1. /\ ns_counter \in Nat /\ ns_counter' \in Nat
        /\ sc_counter \in Int /\ sc_counter' \in Int
    BY DEF TypesOK, RangeOK
  <2>2. ofst.ns \in Int /\ ofst.sc \in Int
    BY Lengths DEF WritesOK
  <2>. QED
    BY <2>1, <2>2 DEF RtcAssumption
<1>2. m \in Nat \ {0}
  BY <1>1
<1>3. /\ Control1 => ~Pending /\ Pending'
      /\ ~Control1 => (Pending' <=> Pending /\ ~offset_adjust)
      /\ Pending \/ Control1 => ofst' = ofst /\ ~clear_rtc.o
      /\ offset_adjust => Pending
  BY PendingRuns DEF Counter, Pending
<1>4. Asked = IF Control1 THEN ofst.sc * Second + ofst.ns ELSE 0
  BY AskedOnce
<1>5. CASE clear_rtc.o
  <2>1. ~Pending' /\ ideal' = 0 /\ ns_counter' = 0 /\ sc_counter' = 0
    BY <1>3, <1>5 DEF Ghosts, Counter, Nanoseconds, Seconds
  <2>2. 0 % m = 0 /\ 0 * Second + 0 + 0 = 0
    <3>. HIDE DEF m
    <3>1. 0 = m * 0 + 0
      BY <1>2
    <3>. QED
      BY <1>1, <1>2, <3>1, RemainderUnique
  <2>. QED
    BY <2>1, <2>2 DEF ExactOK, Due, Wrapped
<1>6. ASSUME ~clear_rtc.o, ~struck'
      PROVE  ideal' = Wrapped(sc_counter' * Second + ns_counter' + Due')
  <2>. DEFINE now == sc_counter * Second + ns_counter
              given == ofst.sc * Second + ofst.ns
              applied == IF offset_adjust THEN given ELSE 0
  <2>1. ~struck /\ ~AtStartOfSecond
    BY <1>6 DEF Ghosts
  <2>2. PICK c \in Int : /\ sc_counter' = c % SecondsMod
                         /\ c * Second + ns_counter' = now + Tick + applied
    BY <1>6, <2>1, TimeRuns
  <2>3. now \in Int /\ given \in Int /\ applied \in Int /\ c * Second \in Int
    BY <1>1
  <2>4. /\ Due \in Int /\ Due' \in Int /\ Asked \in Int
        /\ Due + Asked = applied + Due'
    <3>1. Due = IF Pending THEN given ELSE 0
      BY DEF Due
    <3>2. Pending' => Due' = given
      BY <1>3 DEF Due
    <3>3. ~Pending' => Due' = 0
      BY DEF Due
    <3>4. Asked = IF Control1 THEN given ELSE 0
      BY <1>4
    <3>. HIDE DEF given
    <3>. QED
      BY <1>3, <2>3, <3>1, <3>2, <3>3, <3>4
  <2>. HIDE DEF now, applied
  <2>5. ideal = (now + Due) % m /\ ideal' = (ideal + Tick + Asked) % m
    BY <1>6, <2>1 DEF ExactOK, Ghosts, Wrapped, now
  <2>6. ideal' = ((now + Due) + (Tick + Asked)) % m
    <3>1. ideal \in Int /\ ideal + Tick + Asked = ideal + (Tick + Asked)
      BY <1>1, <2>4 DEF TypesOK
    <3>2. now + Due \in Int /\ Tick + Asked \in Int
      BY <1>1, <2>3, <2>4
    <3>. QED
      BY <1>2, <2>5, <3>1, <3>2, RemainderAdds
  <2>7. (now + Due) + (Tick + Asked) = c * Second + (ns_counter' + Due')
    <3>. DEFINE cs == c * Second
                ns1 == ns_counter'
                due1 == Due'
    <3>1. cs \in Int /\ ns1 \in Int /\ due1 \in Int
      BY <1>1, <2>3, <2>4
    <3>2. cs + ns1 = now + Tick + applied /\ Due + Asked = applied + due1
      BY <2>2, <2>4
    <3>3. now \in Int /\ applied \in Int /\ Tick \in Int /\ Due \in Int /\ Asked \in Int
      BY <1>1, <2>3, <2>4
    <3>. HIDE DEF cs, ns1, due1, given, m
    <3>4. (now + Due) + (Tick + Asked) = cs + (ns1 + due1)
      BY <3>1, <3>2, <3>3
    <3>. QED
      BY <3>4 DEF cs, ns1, due1
  <2>8. (sc_counter' * Second + (ns_counter' + Due')) % m = (c * Second + (ns_counter' + Due')) % m
    <3>. DEFINE x == ns_counter' + Due'
    <3>1. x \in Int
      BY <1>1, <2>4
    <3>. HIDE DEF x
    <3>2. ((c % SecondsMod) * Second + x) % (SecondsMod * Second)
            = (c * Second + x) % (SecondsMod * Second)
      BY <3>1, SecondsWrap
    <3>. QED
      BY <2>2, <3>2 DEF x, m
  <2>9. sc_counter' * Second + (ns_counter' + Due') = sc_counter' * Second + ns_counter' + Due'
    <3>1. sc_counter' * Second \in Int
      BY <1>1
    <3>. QED
      BY <1>1, <2>4, <3>1
  <2>. QED
    BY <2>6, <2>7, <2>8, <2>9 DEF Wrapped
<1>. QED
  BY <1>5, <1>6 DEF ExactOK

-----------------------------------------------------------------------------
(* The invariant *)

\* Nothing is written while a message is completed.
Unwritten == rx # NoMessage => Free /\ todo = <<>>

IInv ==
    /\ WritesOK /\ TypesOK /\ WrapOK /\ RangeOK
    /\ ControlOK /\ PipelineOK /\ CarryOK /\ ExactOK
    /\ Unwritten

\* Every action is an edge of the clock, and moves the bus or calls a function.
LEMMA Acts ==
    ASSUME Unwritten, Next
    PROVE  Hardware /\ (BusEdge \/ Called)
<1>1. Hardware
  BY DEF Next, Correct, Restart, Run, Arrive, Read, Finish
<1>2. CASE Run
  BY <1>1, <1>2 DEF Run
<1>3. CASE Arrive
  BY <1>1, <1>3 DEF Arrive, Arrival, BusEdge
<1>4. CASE Read \/ Finish
  <2>1. rx # NoMessage /\ UNCHANGED <<bus, todo>>
    BY <1>4 DEF Read, Finish, ReadRegister, Handled, NoMessage
  <2>2. Quiet
    BY <2>1, Distinct DEF Unwritten, Free, Quiet
  <2>. QED
    BY <1>1, <2>1, <2>2 DEF BusEdge
<1>5. ASSUME NEW ns \in NsOffsets, NEW sc \in SecondsOffsets, Correct(ns, sc) \/ Restart(ns, sc)
      PROVE  Called
  BY <1>5 DEF Correct, Restart, Called
<1>. QED
  BY <1>1, <1>2, <1>3, <1>4, <1>5 DEF Next

\* A message waits for the writes to end, and the writes for the message.
LEMMA UnwrittenKept ==
    ASSUME Unwritten, ControlOK, Next
    PROVE  Unwritten'
<1>1. ASSUME NEW ns \in NsOffsets, NEW sc \in SecondsOffsets, Correct(ns, sc) \/ Restart(ns, sc)
      PROVE  rx' = NoMessage
  BY <1>1 DEF Correct, Restart, Call
<1>2. CASE Run
  <2>1. rx = NoMessage => rx' = NoMessage
    BY <1>2 DEF Run, Ageing
  <2>2. rx # NoMessage => Quiet
    BY Distinct DEF Unwritten, Free, Quiet
  <2>3. BusEdge /\ Quiet => UNCHANGED <<bus, todo>>
    BY DEF BusEdge, Quiet
  <2>. QED
    BY <1>2, <2>1, <2>2, <2>3 DEF Run, Unwritten, Free
<1>3. CASE Arrive
  <2>1. Quiet /\ UNCHANGED <<bus, todo>>
    BY <1>3 DEF Arrive, Arrival
  <2>2. Free
    BY <2>1, AtRest DEF ControlOK, CorrectionOK, Ahead
  <2>. QED
    BY <2>1, <2>2 DEF Unwritten, Free, Quiet
<1>4. CASE Read
  BY <1>4 DEF Read, ReadRegister, Unwritten, Free
<1>5. CASE Finish
  BY <1>5 DEF Finish, Handled, Unwritten
<1>. QED
  BY <1>1, <1>2, <1>3, <1>4, <1>5 DEF Next, Unwritten

\* The types are kept.
LEMMA TypesKept ==
    ASSUME RtcAssumption, WritesOK, TypesOK, RangeOK, Counter, Ghosts
    PROVE  TypesOK'
<1>1. /\ SecondsMod \in Nat \ {0} /\ Second \in Nat \ {0} /\ Tick \in Nat
      /\ sc_counter \in Int /\ sc_counter_sub1 \in Int /\ ofst.sc \in Int /\ ofst.ns \in Int
  BY Lengths DEF RtcAssumption, TypesOK, WritesOK
<1>2. \A a \in Int : a % SecondsMod \in 0..(SecondsMod - 1)
  BY <1>1
<1>3. sc_counter' \in 0..(SecondsMod - 1)
  <2>1. 0 \in 0..(SecondsMod - 1)
    BY <1>1
  <2>2. sc_synced_rtc \in 0..(SecondsMod - 1)
    BY <1>1, <1>2 DEF sc_synced_rtc
  <2>3. (sc_counter + (IF wrap[1] THEN 1 ELSE 0)) % SecondsMod \in 0..(SecondsMod - 1)
    BY <1>1, <1>2
  <2>. QED
    BY <2>1, <2>2, <2>3 DEF Counter, Seconds
<1>4. sc_counter_sub1' \in Int
  BY <1>1, <1>2 DEF Counter, Pipeline
<1>5. ideal' \in Int
  <2>1. Asked \in Int
    BY <1>1 DEF Asked
  <2>2. ideal + Tick + Asked \in Int
    BY <1>1, <2>1 DEF TypesOK
  <2>3. SecondsMod * Second \in Nat \ {0}
    BY <1>1
  <2>4. \A t \in Int : Wrapped(t) \in Int
    BY <2>3, DividesWithRemainder DEF Wrapped
  <2>. QED
    BY <2>2, <2>4 DEF Ghosts
<1>6. calm' \in 0..CalmLimit
  BY <1>1 DEF Ghosts, TypesOK, CalmLimit
<1>. QED
  BY <1>3, <1>4, <1>5, <1>6 DEF TypesOK

\* The invariant holds at power-up,
LEMMA Initially == ASSUME RtcAssumption, Init PROVE IInv
<1>1. WritesOK /\ Unwritten /\ TypesOK
  BY Lengths DEF Init, WritesOK, Writes, NoTransfer, Unwritten, TypesOK, RtcAssumption, CalmLimit
<1>2. wrap \in [1..3 -> BOOLEAN] /\ ~wrap[1] /\ ~wrap[2] /\ ~wrap[3]
  BY Triple DEF Init
<1>3. WrapOK /\ RangeOK /\ CarryOK
  BY <1>2, Lengths DEF Init, WrapOK, RangeOK, Turned, CarryOK
<1>4. /\ ~clear_rtc.q /\ ~clear_rtc.o /\ ~offset_valid.q /\ ~offset_valid.o /\ Silent /\ Waiting
      /\ sync = <<sync[1], sync[2], sync[3]>>
  BY DEF Init, Cleared, Silent, Waiting
<1>5. ControlOK /\ ~Pending
  <2>1. Over /\ Drained(clear_rtc) /\ Drained(offset_valid)
    BY <1>4 DEF Init, Over, Free, Resting, Drained
  <2>. QED
    BY <1>4, <2>1 DEF ControlOK, ClearOK, CorrectionOK, Silent, Waiting, Pending, Asking,
                       offset_valid_pul
<1>6. PipelineOK
  BY <1>4, <1>5 DEF PipelineOK, Waiting
<1>7. ExactOK
  <2>. DEFINE m == SecondsMod * Second
  <2>1. m \in Nat \ {0} /\ Second \in Nat
    BY Lengths DEF RtcAssumption
  <2>2. 0 % m = 0
    <3>. HIDE DEF m
    <3>1. 0 = m * 0 + 0 /\ 0 \in 0..(m - 1)
      BY <2>1
    <3>. QED
      BY <2>1, <3>1, RemainderUnique
  <2>3. 0 * Second + 0 + 0 = 0
    BY <2>1
  <2>. QED
    BY <1>5, <2>2, <2>3 DEF Init, ExactOK, Due, Wrapped
<1>. QED
  BY <1>1, <1>3, <1>5, <1>6, <1>7 DEF IInv

\* is kept by every edge of the clock,
LEMMA Step == ASSUME RtcAssumption, IInv, Next PROVE IInv'
<1>1. Hardware /\ (BusEdge \/ Called)
  BY Acts DEF IInv
<1>2. Counter /\ Registers /\ Ghosts
  BY <1>1 DEF Hardware
<1>3. WritesOK' /\ Unwritten'
  BY WritesKept, UnwrittenKept DEF IInv
<1>4. TypesOK' /\ WrapOK' /\ RangeOK'
  BY <1>2, TypesKept, FlagsTurn, RangeKept DEF IInv, Counter
<1>5. ControlOK'
  BY <1>1, <1>2, ClearKept, CorrectionKept DEF IInv, ControlOK, Counter
<1>6. PipelineOK' /\ CarryOK' /\ ExactOK'
  BY <1>2, <1>4, <1>5, PipelineKept, CarryKept, ExactKept DEF IInv
<1>. QED
  BY <1>3, <1>4, <1>5, <1>6 DEF IInv

\* and by a step that changes nothing.
LEMMA Stuttering == ASSUME IInv, UNCHANGED vars PROVE IInv'
<1>. USE DEF vars, counters, control, software, ghosts, IInv
<1>1. WritesOK' /\ TypesOK' /\ WrapOK' /\ RangeOK' /\ Unwritten'
  BY DEF WritesOK, TypesOK, WrapOK, RangeOK, Turned, Unwritten, Free
<1>2. ClearOK'
  BY DEF ControlOK, ClearOK, Clear0, Clear1, Clear2, Offset0, Offset1, Offset2, Control0, Control1,
         Control2, Over, Free, On, OnOffset, Zeroed
<1>3. CorrectionOK'
  BY DEF ControlOK, CorrectionOK, Ahead, Clear0, Clear1, Clear2, Offset0, Offset1, Offset2,
         Control0, Control1, Control2, Over, Free, On, OnOffset, Silent, Waiting
<1>4. (Pending' <=> Pending) /\ (Asking' <=> Asking) /\ Due' = Due
  BY DEF Pending, Asking, offset_valid_pul, Due
<1>5. PipelineOK' /\ CarryOK' /\ ExactOK'
  BY <1>4 DEF PipelineOK, CarryOK, ExactOK
<1>. QED
  BY <1>1, <1>2, <1>3, <1>5 DEF ControlOK

\* IInv is an invariant of the clock: the types and ranges of its registers, the
\* place of every correction in the control and in the pipeline, and the time
\* that has passed.
THEOREM Invariant == Spec => []IInv
<1>1. Init => IInv
  BY RtcAssumption, Initially
<1>2. IInv /\ [Next]_vars => IInv'
  BY RtcAssumption, Step, Stuttering
<1>. QED
  BY <1>1, <1>2, PTL DEF Spec

\* The nanoseconds never leave their range, whatever the corrections are and
\* whatever the phase of the second in which they come.
THEOREM InRange == Spec => []NanosecondsFit
<1>1. IInv => NanosecondsFit
  BY RtcAssumption, Lengths DEF IInv, RangeOK, Turned, NanosecondsFit
<1>. QED
  BY <1>1, Invariant, PTL

\* Every correction is applied exactly once, in whatever phase of the second
\* it is written.
THEOREM Exact == Spec => []CorrectionsKept
<1>1. IInv => CorrectionsKept
  <2>. SUFFICES ASSUME IInv, Settled, ~struck
                PROVE  Time = ideal
    BY DEF CorrectionsKept
  <2>1. ~Pending
    BY DEF Settled, Pending, Asking, offset_valid_pul
  <2>2. Due = 0
    BY <2>1 DEF Due
  <2>3. /\ sc_counter * Second \in Int /\ ns_counter \in Int
        /\ ideal = Wrapped(sc_counter * Second + ns_counter + Due)
    BY RtcAssumption, Lengths DEF IInv, TypesOK, RangeOK, ExactOK
  <2>4. sc_counter * Second + ns_counter + Due = sc_counter * Second + ns_counter
    <3>. DEFINE cs == sc_counter * Second
    <3>1. cs \in Int /\ ns_counter \in Int
      BY <2>3
    <3>. HIDE DEF cs
    <3>2. cs + ns_counter + Due = cs + ns_counter
      BY <2>2, <3>1
    <3>. QED
      BY <3>2 DEF cs
  <2>. QED
    BY <2>3, <2>4 DEF Time
<1>. QED
  BY <1>1, Invariant, PTL

-----------------------------------------------------------------------------
(* Undisturbed time *)

\* How the nanoseconds settle after a correction, edge by edge: the correction
\* may leave them up to a second too far, the turns that follow bring them back.
RunsOK ==
    /\ calm = 0 =>
          /\ wrap[1] => clear_rtc.o \/ ns_contrled_reg \in (Second + Tick)..(Second + 2 * Tick - 1)
          /\ ~wrap[1] => ns_counter <= 2 * Second - 2
          /\ wrap[2] \/ wrap[3] => ns_counter = 0
    /\ calm = 1 =>
          /\ wrap[1] => ns_counter <= 2 * Second + Tick - 2
          /\ wrap[2] \/ wrap[3] => ns_counter < 2 * Tick
    /\ calm = 2 =>
          /\ wrap[2] => ns_counter <= Second + 2 * Tick - 2
          /\ wrap[3] => ns_counter < 3 * Tick
    /\ calm = 3 =>
          /\ wrap[2] => ns_counter < 2 * Tick
          /\ wrap[3] => ns_counter <= Second + 3 * Tick - 2
    /\ calm = 4 =>
          /\ wrap[1] => ns_counter <= Second + 4 * Tick - 2
          /\ wrap[2] => ns_counter < 2 * Tick
          /\ wrap[3] => ns_counter < 3 * Tick
    /\ calm = 5 =>
          /\ wrap[2] => ns_counter <= 5 * Tick - 2
          /\ wrap[3] => ns_counter < 3 * Tick
    /\ calm >= 6 =>
          /\ wrap[2] => ns_counter < 2 * Tick
          /\ wrap[3] => ns_counter <= 6 * Tick - 2
    /\ calm >= 1 =>
          /\ wrap[1] => ns_counter >= Second
          /\ ~wrap[1] /\ ~wrap[2] /\ ~wrap[3] => ns_counter < Second
    /\ calm >= 2 /\ calm # 4 => (wrap[1] => ns_counter < Second + Tick)

\* An edge that neither corrects nor clears.
LEMMA CalmEdge ==
    ASSUME IInv, Hardware, ~offset_adjust, ~clear_rtc.o
    PROVE  /\ calm' = IF calm < CalmLimit THEN calm + 1 ELSE calm
           /\ ~wrap[1] => ns_counter' = ns_counter + Tick /\ sc_counter' = sc_counter
           /\ wrap[1] => ns_counter' = ns_contrled_reg - Second
           /\ wrap[1] /\ calm >= 1 =>
                 /\ ns_counter' = ns_counter + Tick - Second
                 /\ sc_counter' = (sc_counter + 1) % SecondsMod
<1>1. calm' = IF calm < CalmLimit THEN calm + 1 ELSE calm
  BY DEF Hardware, Ghosts
<1>2. /\ ~wrap[1] => ns_counter' = ns_counter + Tick /\ sc_counter' = sc_counter
      /\ wrap[1] => /\ ns_counter' = ns_contrled_reg - Second
                    /\ sc_counter' = (sc_counter + 1) % SecondsMod
  BY RtcAssumption, EdgeRuns DEF IInv, Hardware
<1>3. wrap[1] /\ calm >= 1 => ns_contrled_reg = ns_counter + Tick
  BY DEF IInv, CarryOK
<1>4. ASSUME wrap[1], calm >= 1
      PROVE  ns_counter' = ns_counter + Tick - Second /\ sc_counter' = (sc_counter + 1) % SecondsMod
  <2>1. ns_contrled_reg = ns_counter + Tick
    BY <1>3, <1>4
  <2>2. ns_counter' = ns_contrled_reg - Second /\ sc_counter' = (sc_counter + 1) % SecondsMod
    BY <1>2, <1>4
  <2>3. ns_counter \in Int /\ ns_contrled_reg \in Int /\ Tick \in Int /\ Second \in Int
    BY RtcAssumption, Lengths DEF IInv, RangeOK
  <2>. QED
    BY <2>1, <2>2, <2>3
<1>. QED
  BY <1>1, <1>2, <1>4

\* Under a restart the counter stands at nought, or the restart goes on.
LEMMA ClearedTwice ==
    ASSUME IInv, Hardware, clear_rtc.o
    PROVE  clear_rtc'.o \/ ns_counter = 0
<1>1. clear_rtc'.o <=> clear_rtc.q /\ ~clear_rtc.d2
  BY DEF Hardware, Registers, SelfClearing
<1>. QED
  BY <1>1 DEF IInv, ControlOK, ClearOK, Rested, Written, Rising, Drained, Zeroed

\* The nanoseconds settle.
LEMMA RunsKept ==
    ASSUME IInv, RunsOK, Hardware
    PROVE  RunsOK'
<1>1. /\ Second \in Nat /\ Tick \in Nat /\ Tick >= 1 /\ Second > 6 * Tick
      /\ ns_counter \in Nat /\ calm \in Nat /\ calm <= CalmLimit /\ CalmLimit \in Nat /\ CalmLimit >= 11
      /\ ns_contrled_reg \in Int /\ tmp_ns_d1 \in Int /\ ofst.ns \in Int /\ ofst.ns < Second
  BY RtcAssumption DEF RtcAssumption, IInv, TypesOK, RangeOK, WritesOK, CalmLimit
<1>2. /\ wrap'[1] <=> ~wrap[1] /\ ~wrap[2] /\ ns_counter + Tick >= Second
      /\ wrap'[2] <=> wrap[1]
      /\ wrap'[3] <=> wrap[2]
  BY RtcAssumption, WrapsAfter DEF IInv, Hardware, Counter
<1>3. ~(wrap[1] /\ wrap[2]) /\ ~(wrap[1] /\ wrap[3]) /\ ~(wrap[2] /\ wrap[3])
  BY DEF IInv, WrapOK
<1>4. CASE clear_rtc.o
  <2>1. calm' = 0 /\ ns_counter' = 0
    BY <1>4 DEF Hardware, Ghosts, Counter, Nanoseconds
  <2>2. wrap'[1] => clear_rtc'.o
    BY <1>1, <1>2, <1>4, ClearedTwice
  <2>. QED
    BY <1>1, <2>1, <2>2 DEF RunsOK
<1>5. CASE ~clear_rtc.o /\ offset_adjust
  <2>1. /\ ~wrap[1] /\ ~wrap[2] /\ ~wrap[3] /\ ns_counter < Second
        /\ tmp_ns_d1 = ns_counter + ofst.ns
    BY <1>5, Applied DEF IInv
  <2>2. /\ calm' = 0
        /\ ns_contrled_reg' = ns_counter + 2 * Tick
        /\ ns_counter' = (IF tmp_ns_d1 < 0 THEN tmp_ns_d1 + Second ELSE tmp_ns_d1) + Tick
    <3>1. calm' = 0
      BY <1>5 DEF Hardware, Ghosts
    <3>. QED
      BY <1>5, <3>1, RtcAssumption, EdgeRuns DEF IInv, Hardware
  <2>3. wrap'[1] => ns_contrled_reg' \in (Second + Tick)..(Second + 2 * Tick - 1)
    BY <1>1, <1>2, <2>1, <2>2
  <2>4. ~wrap'[1] => ns_counter' <= 2 * Second - 2
    BY <1>1, <1>2, <2>1, <2>2
  <2>. QED
    BY <1>1, <1>2, <2>1, <2>2, <2>3, <2>4 DEF RunsOK
<1>6. CASE ~clear_rtc.o /\ ~offset_adjust
  <2>1. /\ calm' = IF calm < CalmLimit THEN calm + 1 ELSE calm
        /\ ~wrap[1] => ns_counter' = ns_counter + Tick
        /\ wrap[1] => ns_counter' = ns_contrled_reg - Second
        /\ wrap[1] /\ calm >= 1 => ns_counter' = ns_counter + Tick - Second
    BY <1>6, CalmEdge
  <2>2. CASE calm = 0
    BY <1>1, <1>2, <1>3, <1>6, <2>1, <2>2 DEF RunsOK
  <2>3. CASE calm = 1
    BY <1>1, <1>2, <1>3, <2>1, <2>3 DEF RunsOK
  <2>4. CASE calm = 2
    BY <1>1, <1>2, <1>3, <2>1, <2>4 DEF RunsOK
  <2>5. CASE calm = 3
    BY <1>1, <1>2, <1>3, <2>1, <2>5 DEF RunsOK
  <2>6. CASE calm = 4
    BY <1>1, <1>2, <1>3, <2>1, <2>6 DEF RunsOK
  <2>7. CASE calm = 5
    BY <1>1, <1>2, <1>3, <2>1, <2>7 DEF RunsOK
  <2>8. CASE calm >= 6
    <3>1. calm' >= 6
      BY <1>1, <2>1, <2>8
    <3>. QED
      BY <1>1, <1>2, <1>3, <2>1, <2>8, <3>1 DEF RunsOK
  <2>. QED
    BY <1>1, <2>2, <2>3, <2>4, <2>5, <2>6, <2>7, <2>8
<1>. QED
  BY <1>4, <1>5, <1>6

\* Two edges after the last correction the nanoseconds are less than two
\* seconds, and less than a second and four ticks.
LEMMA CalmRange ==
    ASSUME IInv, RunsOK, calm >= 2
    PROVE  /\ ns_counter \in 0..(Second + 4 * Tick - 2)
           /\ wrap[1] => ns_counter >= Second
<1>1. /\ Second \in Nat /\ Tick \in Nat /\ Tick >= 1 /\ Second > 6 * Tick
      /\ ns_counter \in Nat /\ calm \in Nat
  BY RtcAssumption DEF RtcAssumption, IInv, TypesOK, RangeOK, CalmLimit
<1>2. calm = 2 \/ calm = 3 \/ calm = 4 \/ calm = 5 \/ calm >= 6
  BY <1>1
<1>. QED
  BY <1>1, <1>2 DEF RunsOK

-----------------------------------------------------------------------------
(* Receipts *)

\* What one read returns.
Words == [sc : 0..(SecondsMod - 1), ns : Nat]

\* A reading taken e nanoseconds after the arrival of the message, at
\* nanosecond at of second sa: at most one second has turned between them.
Seen(sa, at, sc, ns, e) ==
    \/ sc = sa /\ ns = at + e
    \/ sc = (sa + 1) % SecondsMod /\ ns = at + e - Second

\* The last moment of the third read.
LastRead == Second - 3 * Tick

Undisturbed == ~Pending /\ ~clear_rtc.o /\ ~clear_rtc.q

Reading ==
    /\ Undisturbed /\ calm >= 2
    /\ rx.ns <= Second + 4 * Tick - 2 /\ rx.age >= Tick
    /\ Len(rx.words) <= 2 => rx.age + Tick * (2 - Len(rx.words)) < LastRead
    /\ \E sa \in 0..(SecondsMod - 1) :
          /\ Wrapped(Time - rx.age) = Wrapped(sa * Second + rx.ns)
          /\ Len(rx.words) <= 2 => Seen(sa, rx.ns, sc_counter, ns_counter, rx.age)
          /\ Len(rx.words) = 3 =>
                \E e \in Tick..(LastRead - 1) : Seen(sa, rx.ns, rx.words[3].sc, rx.words[3].ns, e)

ReadsOK ==
    /\ rx \in [ns : Nat, age : Nat, words : Seq(Words)] /\ Len(rx.words) <= 3
    /\ rx # NoMessage => Reading

\* Sums of times that wrap around.
LEMMA WrappedAdds ==
    ASSUME NEW a \in Int, NEW b \in Int
    PROVE  Wrapped(a) \in Int /\ Wrapped(Wrapped(a) + b) = Wrapped(a + b)
<1>. DEFINE m == SecondsMod * Second
<1>1. m \in Nat \ {0}
  BY RtcAssumption DEF RtcAssumption
<1>. HIDE DEF m
<1>2. a % m \in Int
  BY <1>1
<1>3. ((a % m) + b) % m = (a + b) % m
  BY <1>1, RemainderAdds, Zenon
<1>. QED
  BY <1>2, <1>3 DEF Wrapped, m

LEMMA WrappedTakes ==
    ASSUME NEW a \in Int, NEW b \in Int
    PROVE  Wrapped(a - b) = Wrapped(Wrapped(a) - b)
<1>1. -b \in Int /\ a + (-b) = a - b /\ Wrapped(a) \in Int /\ Wrapped(a) + (-b) = Wrapped(a) - b
  BY WrappedAdds
<1>2. Wrapped(Wrapped(a) + (-b)) = Wrapped(a + (-b))
  BY <1>1, WrappedAdds
<1>. QED
  BY <1>1, <1>2

\* In undisturbed time an edge is a tick.
LEMMA TimeTicks ==
    ASSUME IInv, Hardware, ~offset_adjust, ~clear_rtc.o, calm >= 1
    PROVE  Time \in Int /\ Time' = Wrapped(Time + Tick)
<1>1. PICK c \in Int :
        /\ sc_counter' = c % SecondsMod
        /\ c * Second + ns_counter' = sc_counter * Second + ns_counter + Tick
  <2>1. PICK c \in Int :
          /\ sc_counter' = c % SecondsMod
          /\ c * Second + ns_counter' = sc_counter * Second + ns_counter + Tick
                + (IF offset_adjust THEN ofst.sc * Second + ofst.ns ELSE 0)
    BY RtcAssumption, TimeRuns DEF IInv, Hardware
  <2>2. sc_counter * Second + ns_counter + Tick \in Int
    BY RtcAssumption, Lengths DEF IInv, TypesOK, RangeOK
  <2>. QED
    BY <2>1, <2>2
<1>2. /\ sc_counter * Second + ns_counter \in Int /\ Tick \in Int
      /\ ns_counter' \in Int
  <2>1. RangeOK'
    BY RtcAssumption, RangeKept DEF IInv, Hardware
  <2>. QED
    BY <2>1, RtcAssumption, Lengths DEF IInv, TypesOK, RangeOK
<1>3. Time' = Wrapped(c * Second + ns_counter')
  <2>1. ((c % SecondsMod) * Second + ns_counter') % (SecondsMod * Second)
          = (c * Second + ns_counter') % (SecondsMod * Second)
    BY <1>2, SecondsWrap
  <2>. QED
    BY <1>1, <2>1 DEF Time, Wrapped
<1>4. Wrapped(Time + Tick) = Wrapped(sc_counter * Second + ns_counter + Tick) /\ Time \in Int
  BY <1>2, WrappedAdds DEF Time
<1>. QED
  BY <1>1, <1>3, <1>4

\* Nothing disturbs the clock while a message is read.
LEMMA StaysUndisturbed ==
    ASSUME IInv, Hardware, Free, Undisturbed
    PROVE  Undisturbed' /\ ~offset_adjust
<1>1. ~Control1 /\ bus.write.reg = "none"
  BY Distinct DEF Free, Control1, On
<1>2. ~Pending' /\ ~offset_adjust
  BY <1>1, PendingRuns DEF IInv, Hardware, Counter, Undisturbed, Pending
<1>3. ~clear_rtc'.q /\ ~clear_rtc'.o
  BY <1>1 DEF Hardware, Registers, SelfClearing, Standing, Undisturbed
<1>. QED
  BY <1>2, <1>3 DEF Undisturbed

\* What an edge makes of a reading that is still to be taken.
LEMMA SeenRuns ==
    ASSUME IInv, RunsOK, Hardware, Free, Undisturbed, calm >= 2,
           NEW sa \in 0..(SecondsMod - 1), NEW e \in Nat, e + Tick < LastRead,
           rx.ns \in 0..(Second + 4 * Tick - 2),
           Seen(sa, rx.ns, sc_counter, ns_counter, e)
    PROVE  Seen(sa, rx.ns, sc_counter', ns_counter', e + Tick)
<1>1. /\ ~wrap[1] => ns_counter' = ns_counter + Tick /\ sc_counter' = sc_counter
      /\ wrap[1] => /\ ns_counter' = ns_counter + Tick - Second
                    /\ sc_counter' = (sc_counter + 1) % SecondsMod
  <2>1. ~offset_adjust /\ ~clear_rtc.o /\ calm >= 1
    <3>1. calm \in Int
      BY RtcAssumption DEF RtcAssumption, IInv, TypesOK, CalmLimit
    <3>. QED
      BY <3>1, StaysUndisturbed DEF Undisturbed
  <2>. QED
    BY <2>1, CalmEdge
<1>2. /\ Second \in Nat /\ Tick \in Nat /\ LastRead = Second - 3 * Tick /\ ns_counter \in Nat
      /\ rx.ns \in Nat /\ rx.ns <= Second + 4 * Tick - 2
  BY RtcAssumption, Lengths DEF LastRead, IInv, RangeOK
<1>3. wrap[1] => ns_counter >= Second
  BY CalmRange
<1>4. CASE ns_counter = rx.ns + e /\ sc_counter = sa
  <2>1. CASE wrap[1]
    BY <1>1, <1>2, <1>4, <2>1 DEF Seen
  <2>2. CASE ~wrap[1]
    BY <1>1, <1>2, <1>4, <2>2 DEF Seen
  <2>. QED
    BY <2>1, <2>2
<1>5. CASE ns_counter = rx.ns + e - Second /\ sc_counter = (sa + 1) % SecondsMod
  <2>1. ~wrap[1]
    BY <1>2, <1>3, <1>5
  <2>. QED
    BY <1>1, <1>2, <1>5, <2>1 DEF Seen
<1>. QED
  BY <1>4, <1>5 DEF Seen

Messages == [ns : Nat, age : Nat, words : Seq(Words)]

\* One more register read.
LEMMA OneMore ==
    ASSUME NEW words \in Seq(Words), NEW w \in Words
    PROVE  /\ Append(words, w) \in Seq(Words)
           /\ Len(Append(words, w)) = Len(words) + 1
           /\ Len(words) = 2 => Append(words, w)[3] = w
<1>1. /\ Append(words, w) \in Seq(Words)
      /\ Len(Append(words, w)) = Len(words) + 1
      /\ Append(words, w)[Len(words) + 1] = w
  BY AppendProperties
<1>2. Len(words) = 2 => Len(words) + 1 = 3
  OBVIOUS
<1>. QED
  BY <1>1, <1>2

\* One edge of a message that is being completed: it grows a tick older, and
\* at most one reading is taken.
LEMMA ReadingRuns ==
    ASSUME IInv, RunsOK, ReadsOK, Hardware, rx # NoMessage,
           rx' \in Messages, rx'.ns = rx.ns, rx'.age = rx.age + Tick,
           Len(rx'.words) <= 2 => rx'.age + Tick * (2 - Len(rx'.words)) < LastRead,
           \/ rx'.words = rx.words
           \/ /\ Len(rx.words) <= 2
              /\ rx'.words = Append(rx.words, [sc |-> sc_counter, ns |-> ns_counter])
    PROVE  Reading'
<1>1. /\ Second \in Nat /\ Tick \in Nat /\ Tick >= 1 /\ LastRead \in Int
      /\ rx.ns \in Nat /\ rx.age \in Nat /\ rx.words \in Seq(Words) /\ calm \in 0..CalmLimit
      /\ CalmLimit \in Nat /\ CalmLimit >= 2
  BY RtcAssumption, Lengths DEF ReadsOK, LastRead, IInv, TypesOK, CalmLimit
<1>2. Reading /\ Free
  BY DEF ReadsOK, IInv, Unwritten
<1>3. Undisturbed' /\ ~offset_adjust /\ ~clear_rtc.o
  BY <1>2, StaysUndisturbed DEF Reading, Undisturbed
<1>4. calm >= 2 /\ calm' >= 2
  BY <1>1, <1>2, <1>3, CalmEdge DEF Reading
<1>5. PICK sa \in 0..(SecondsMod - 1) :
          /\ Wrapped(Time - rx.age) = Wrapped(sa * Second + rx.ns)
          /\ Len(rx.words) <= 2 => Seen(sa, rx.ns, sc_counter, ns_counter, rx.age)
          /\ Len(rx.words) = 3 =>
                \E e \in Tick..(LastRead - 1) : Seen(sa, rx.ns, rx.words[3].sc, rx.words[3].ns, e)
  BY <1>2 DEF Reading
<1>6. Wrapped(Time' - rx'.age) = Wrapped(sa * Second + rx'.ns)
  <2>1. Time \in Int /\ Time' = Wrapped(Time + Tick)
    BY <1>1, <1>3, <1>4, TimeTicks
  <2>2. rx.age + Tick \in Int /\ Time + Tick \in Int
    BY <1>1, <2>1
  <2>3. Wrapped((Time + Tick) - (rx.age + Tick)) = Wrapped(Wrapped(Time + Tick) - (rx.age + Tick))
    BY <2>2, WrappedTakes
  <2>4. (Time + Tick) - (rx.age + Tick) = Time - rx.age
    BY <1>1, <2>1
  <2>. QED
    BY <1>5, <2>1, <2>3, <2>4
<1>7. Len(rx.words) \in Nat /\ (Len(rx.words) <= 2 <=> Len(rx.words) \in {0, 1, 2})
  <2>. DEFINE n == Len(rx.words)
  <2>1. n \in Nat
    BY <1>1, LenProperties
  <2>. HIDE DEF n
  <2>2. n <= 2 <=> n \in {0, 1, 2}
    BY <2>1
  <2>. QED
    BY <2>1, <2>2 DEF n
<1>8. CASE rx'.words = rx.words
  <2>1. ASSUME Len(rx.words) <= 2
        PROVE  Seen(sa, rx.ns, sc_counter', ns_counter', rx.age + Tick)
    <3>1. rx.age + Tick < LastRead
      BY <1>1, <1>7, <1>8, <2>1
    <3>. QED
      BY <1>1, <1>2, <1>4, <1>5, <2>1, <3>1, SeenRuns DEF Reading
  <2>2. Len(rx.words) = 3 =>
            \E e \in Tick..(LastRead - 1) : Seen(sa, rx'.ns, rx'.words[3].sc, rx'.words[3].ns, e)
    BY <1>5, <1>8
  <2>. QED
    BY <1>1, <1>2, <1>3, <1>4, <1>5, <1>6, <1>8, <2>1, <2>2, SMTT(40) DEF Reading
<1>9. CASE /\ Len(rx.words) <= 2
           /\ rx'.words = Append(rx.words, [sc |-> sc_counter, ns |-> ns_counter])
  <2>1. /\ Len(rx'.words) = Len(rx.words) + 1
        /\ Len(rx.words) = 2 => rx'.words[3] = [sc |-> sc_counter, ns |-> ns_counter]
    <3>1. [sc |-> sc_counter, ns |-> ns_counter] \in Words
      BY DEF IInv, TypesOK, RangeOK, Words
    <3>. QED
      BY <1>1, <1>9, <3>1, OneMore
  <2>2. Seen(sa, rx.ns, sc_counter, ns_counter, rx.age)
    BY <1>5, <1>9
  <2>3. ASSUME Len(rx'.words) <= 2
        PROVE  Seen(sa, rx.ns, sc_counter', ns_counter', rx.age + Tick)
    <3>1. rx.age + Tick < LastRead
      BY <1>1, <1>7, <1>9, <2>1, <2>3
    <3>. QED
      BY <1>1, <1>2, <1>4, <2>2, <3>1, SeenRuns DEF Reading
  <2>4. ASSUME Len(rx'.words) = 3
        PROVE  \E e \in Tick..(LastRead - 1) :
                  Seen(sa, rx.ns, rx'.words[3].sc, rx'.words[3].ns, e)
    <3>1. Len(rx.words) = 2
      BY <1>7, <1>9, <2>1, <2>4
    <3>2. rx.age \in Tick..(LastRead - 1)
      BY <1>1, <1>2, <3>1 DEF Reading
    <3>. QED
      BY <2>1, <2>2, <3>1, <3>2
  <2>. QED
    BY <1>1, <1>2, <1>3, <1>4, <1>6, <2>3, <2>4 DEF Reading
<1>. QED
  BY <1>8, <1>9

\* A message that arrives is read from the start.
LEMMA Arrives ==
    ASSUME IInv, RunsOK, Arrive
    PROVE  rx' \in Messages /\ Len(rx'.words) = 0 /\ Reading'
<1>1. /\ Second \in Nat /\ Tick \in Nat /\ Tick >= 1 /\ Second > 6 * Tick
      /\ ns_counter \in Nat /\ sc_counter \in 0..(SecondsMod - 1) /\ calm \in 0..CalmLimit
      /\ CalmLimit \in Nat /\ CalmLimit >= 2
  BY RtcAssumption DEF RtcAssumption, IInv, TypesOK, RangeOK, CalmLimit
<1>2. /\ Quiet /\ Settled /\ Hardware
      /\ rx' = [ns |-> ns_counter, age |-> Tick, words |-> <<>>]
  BY DEF Arrive, Arrival
<1>3. Free /\ Undisturbed /\ calm >= 2
  <2>1. Free
    BY <1>2, AtRest DEF IInv, ControlOK, CorrectionOK, Ahead
  <2>. QED
    BY <1>2, <2>1 DEF Settled, Undisturbed, Pending, Asking, offset_valid_pul
<1>4. Undisturbed' /\ ~offset_adjust /\ ~clear_rtc.o
  BY <1>2, <1>3, StaysUndisturbed DEF Undisturbed
<1>5. calm' >= 2
  BY <1>1, <1>2, <1>3, <1>4, CalmEdge
<1>6. rx' \in Messages /\ Len(rx'.words) = 0
  BY <1>1, <1>2 DEF Messages
<1>7. /\ ~wrap[1] => ns_counter' = ns_counter + Tick /\ sc_counter' = sc_counter
      /\ wrap[1] => /\ ns_counter' = ns_counter + Tick - Second
                    /\ sc_counter' = (sc_counter + 1) % SecondsMod
  <2>1. calm >= 1
    BY <1>1, <1>3
  <2>. QED
    BY <1>2, <1>4, <2>1, CalmEdge
<1>8. Seen(sc_counter, ns_counter, sc_counter', ns_counter', Tick)
  BY <1>7 DEF Seen
<1>9. Wrapped(Time' - Tick) = Wrapped(sc_counter * Second + ns_counter)
  <2>1. Time \in Int /\ Time' = Wrapped(Time + Tick)
    BY <1>1, <1>2, <1>3, <1>4, TimeTicks
  <2>2. Wrapped(Wrapped(Time + Tick) - Tick) = Wrapped((Time + Tick) - Tick)
    BY <1>1, <2>1, WrappedTakes
  <2>3. (Time + Tick) - Tick = Time + 0 /\ sc_counter * Second + ns_counter \in Int
    BY <1>1, <2>1
  <2>4. Wrapped(Time + 0) = Wrapped(sc_counter * Second + ns_counter + 0)
    BY <2>3, WrappedAdds DEF Time
  <2>. QED
    BY <2>1, <2>2, <2>3, <2>4
<1>10. ns_counter <= Second + 4 * Tick - 2
  BY <1>3, CalmRange
<1>. QED
  BY <1>1, <1>2, <1>4, <1>5, <1>6, <1>8, <1>9, <1>10 DEF Reading, LastRead

\* A message a tick later.
LEMMA GrowsOlder ==
    ASSUME NEW m \in Messages, Tick \in Nat
    PROVE  LET older == [m EXCEPT !.age = @ + Tick]
           IN  /\ older \in Messages /\ older.ns = m.ns /\ older.age = m.age + Tick
               /\ older.words = m.words
<1>. DEFINE W == Seq(Words)
<1>1. m \in [ns : Nat, age : Nat, words : W] /\ m.age + Tick \in Nat
  BY DEF Messages
<1>. HIDE DEF W
<1>2. LET older == [m EXCEPT !.age = @ + Tick]
      IN  /\ older \in [ns : Nat, age : Nat, words : W]
          /\ older.ns = m.ns /\ older.age = m.age + Tick /\ older.words = m.words
  BY <1>1
<1>. QED
  BY <1>2 DEF Messages, W

\* The readings of a message.
LEMMA ReadsKept ==
    ASSUME IInv, RunsOK, ReadsOK, Next
    PROVE  ReadsOK'
<1>1. /\ Hardware
      /\ rx \in Messages /\ Len(rx.words) <= 3 /\ rx.words \in Seq(Words) /\ Tick \in Nat
      /\ LastRead = Second - 3 * Tick /\ Second \in Nat /\ rx.age \in Nat
  BY RtcAssumption, Lengths
     DEF Next, Correct, Restart, Run, Arrive, Read, Finish, ReadsOK, Messages, LastRead
<1>2. NoMessage \in Messages /\ Len(NoMessage.words) = 0
  BY DEF NoMessage, Messages
<1>3. CASE rx' = NoMessage
  BY <1>2, <1>3 DEF ReadsOK, Messages
<1>4. CASE Run /\ rx # NoMessage
  <2>1. rx' = [rx EXCEPT !.age = @ + Tick] /\ rx.age + Tick * (3 - Len(rx.words)) < LastRead
    BY <1>1, <1>4 DEF Run, Ageing, Punctual
  <2>2. rx' \in Messages /\ rx'.ns = rx.ns /\ rx'.age = rx.age + Tick /\ rx'.words = rx.words
    BY <1>1, <2>1, GrowsOlder
  <2>3. ASSUME Len(rx.words) <= 2
        PROVE  rx.age + Tick + Tick * (2 - Len(rx.words)) < LastRead
    <3>. DEFINE n == Len(rx.words)
    <3>1. n \in Nat
      BY <1>1, LenProperties
    <3>2. n <= 2 /\ rx.age + Tick * (3 - n) < LastRead
      BY <2>1, <2>3
    <3>. HIDE DEF n
    <3>3. n = 0 \/ n = 1 \/ n = 2
      BY <3>1, <3>2
    <3>4. rx.age + Tick + Tick * (2 - n) < LastRead
      BY <1>1, <3>2, <3>3
    <3>. QED
      BY <3>4 DEF n
  <2>4. Reading'
    BY <1>1, <1>4, <2>2, <2>3, ReadingRuns
  <2>. QED
    BY <1>1, <2>2, <2>4 DEF ReadsOK, Messages
<1>5. CASE Arrive
  <2>1. rx' \in Messages /\ Len(rx'.words) = 0 /\ Reading'
    BY <1>5, Arrives
  <2>. QED
    BY <2>1 DEF ReadsOK, Messages
<1>6. CASE Read
  <2>. DEFINE w == [sc |-> sc_counter, ns |-> ns_counter]
  <2>1. /\ rx # NoMessage /\ Len(rx.words) < 3
        /\ rx' = [[rx EXCEPT !.age = @ + Tick] EXCEPT !.words = Append(@, w)]
    BY <1>6 DEF Read, ReadRegister, Ageing
  <2>2. w \in Words
    BY DEF IInv, TypesOK, RangeOK, Words
  <2>. HIDE DEF w
  <2>3. /\ Append(rx.words, w) \in Seq(Words)
        /\ Len(Append(rx.words, w)) = Len(rx.words) + 1
    BY <1>1, <2>2, OneMore
  <2>4. /\ rx' \in Messages /\ rx'.ns = rx.ns /\ rx'.age = rx.age + Tick
        /\ rx'.words = Append(rx.words, w)
    <3>. DEFINE older == [rx EXCEPT !.age = @ + Tick]
    <3>1. older \in Messages /\ older.ns = rx.ns /\ older.age = rx.age + Tick
          /\ older.words = rx.words
      BY <1>1, GrowsOlder
    <3>2. rx' = [older EXCEPT !.words = Append(older.words, w)]
      BY <2>1
    <3>. HIDE DEF older
    <3>. QED
      BY <2>3, <3>1, <3>2 DEF Messages
  <2>. DEFINE n == Len(rx.words)
  <2>5. n \in Nat /\ n < 3 /\ Len(rx'.words) = n + 1
    BY <1>1, <2>1, <2>3, <2>4, LenProperties
  <2>6. n <= 2 => rx.age + Tick * (2 - n) < LastRead
    BY <2>1 DEF ReadsOK, Reading
  <2>7. n <= 2 /\ Len(rx'.words) <= 3
        /\ (Len(rx'.words) <= 2 => rx'.age + Tick * (2 - Len(rx'.words)) < LastRead)
    <3>. HIDE DEF n
    <3>1. n = 0 \/ n = 1 \/ n = 2
      BY <2>5
    <3>. QED
      BY <1>1, <2>4, <2>5, <2>6, <3>1
  <2>8. Reading'
    BY <1>1, <2>1, <2>4, <2>7, ReadingRuns DEF w
  <2>. QED
    BY <1>1, <2>4, <2>7, <2>8 DEF ReadsOK, Messages
<1>7. ASSUME NEW ns, NEW sc, Correct(ns, sc) \/ Restart(ns, sc)
      PROVE  rx' = NoMessage
  BY <1>7 DEF Correct, Restart, Call
<1>8. Run /\ rx = NoMessage => rx' = NoMessage
  BY DEF Run, Ageing
<1>9. Finish => rx' = NoMessage
  BY DEF Finish, Handled
<1>. QED
  BY <1>3, <1>4, <1>5, <1>6, <1>7, <1>8, <1>9 DEF Next

\* Three readings that are not torn make up the time of the third.
LEMMA Untorn ==
    ASSUME NEW words \in Seq(Words), Len(words) = 3, ~Torn(words)
    PROVE  getRtcValue(words) = [seconds |-> words[3].sc, nanoseconds |-> words[3].ns]
<1>1. words[1] \in Words /\ words[2] \in Words /\ words[3] \in Words
  BY LenProperties
<1>2. LowNs \in Nat \ {0} /\ SecondsMod \in Nat
  BY RtcAssumption DEF RtcAssumption
<1>3. /\ words[1].sc \div 2 = words[2].sc \div 2
      /\ words[2].sc = words[3].sc
      /\ words[2].ns \div LowNs = words[3].ns \div LowNs
  BY DEF Torn
<1>4. words[3].sc \in Int /\ words[3].ns \in Int
  BY <1>1, <1>2 DEF Words
<1>5. 2 * (words[1].sc \div 2) + (words[2].sc % 2) = words[3].sc
  BY <1>3, <1>4
<1>6. LowNs * (words[2].ns \div LowNs) + (words[3].ns % LowNs) = words[3].ns
  BY <1>2, <1>3, <1>4, DividesWithRemainder
<1>. QED
  BY <1>5, <1>6 DEF getRtcValue

\* Three readings of one passing time complete the message to the time it
\* arrived.
LEMMA ReadsComplete ==
    ASSUME ReadsOK
    PROVE  ReceiptCompleted
<1>. SUFFICES ASSUME Len(rx.words) = 3, ~Torn(rx.words)
              PROVE  LET time == getPreciseRxTime(getRtcValue(rx.words), rx.ns)
                     IN  Wrapped(time.seconds * Second + time.nanoseconds) = Wrapped(Time - rx.age)
  BY DEF ReceiptCompleted
<1>. DEFINE w == rx.words[3]
            read == [seconds |-> w.sc, nanoseconds |-> w.ns]
            time == getPreciseRxTime(read, rx.ns)
<1>1. rx # NoMessage /\ rx.words \in Seq(Words) /\ rx.ns \in Nat
  <2>1. Len(NoMessage.words) = 0
    BY DEF NoMessage
  <2>. DEFINE M == Seq(Words)
  <2>2. rx \in [ns : Nat, age : Nat, words : M]
    BY DEF ReadsOK
  <2>. HIDE DEF M
  <2>3. rx.words \in M /\ rx.ns \in Nat
    BY <2>2
  <2>4. rx # NoMessage
    BY <2>1
  <2>. QED
    BY <2>3, <2>4 DEF M
<1>2. getRtcValue(rx.words) = read
  BY <1>1, Untorn
<1>3. PICK sa \in 0..(SecondsMod - 1) :
          /\ Wrapped(Time - rx.age) = Wrapped(sa * Second + rx.ns)
          /\ \E e \in Tick..(LastRead - 1) : Seen(sa, rx.ns, w.sc, w.ns, e)
  BY <1>1 DEF ReadsOK, Reading
<1>4. PICK e \in Tick..(LastRead - 1) : Seen(sa, rx.ns, w.sc, w.ns, e)
  BY <1>3
<1>5. /\ Second \in Nat /\ Tick \in Nat /\ Tick >= 1 /\ SecondsMod \in Nat \ {0}
      /\ LastRead = Second - 3 * Tick /\ sa \in Int
  BY RtcAssumption, Lengths DEF LastRead, RtcAssumption
<1>6. CASE w.sc = sa /\ w.ns = rx.ns + e
  <2>1. rx.ns < w.ns
    BY <1>1, <1>4, <1>5, <1>6
  <2>2. time.seconds = sa /\ time.nanoseconds = rx.ns
    BY <1>6, <2>1 DEF getPreciseRxTime
  <2>. QED
    BY <1>2, <1>3, <2>2
<1>7. CASE w.sc = (sa + 1) % SecondsMod /\ w.ns = rx.ns + e - Second
  <2>1. ~(rx.ns < w.ns)
    <3>1. e \in Int /\ e - Second < 0
      BY <1>4, <1>5
    <3>2. rx.ns + (e - Second) < rx.ns
      BY <1>1, <1>5, <3>1
    <3>. HIDE DEF w
    <3>. QED
      BY <1>1, <1>5, <1>7, <3>1, <3>2
  <2>. DEFINE r == (sa + 1) % SecondsMod
              x == rx.ns - Second
  <2>2. time.seconds = r - 1 /\ time.nanoseconds = rx.ns
    BY <1>7, <2>1 DEF getPreciseRxTime
  <2>3. r \in Int /\ x \in Int
    BY <1>1, <1>5
  <2>4. Wrapped(r * Second + x) = Wrapped((sa + 1) * Second + x)
    <3>. HIDE DEF x
    <3>1. sa + 1 \in Int
      BY <1>5
    <3>. QED
      BY <2>3, <3>1, SecondsWrap DEF Wrapped
  <2>5. (sa + 1) * Second + x = sa * Second + rx.ns
    BY <1>1, <1>5
  <2>6. (r - 1) * Second + rx.ns = r * Second + x
    <3>. HIDE DEF r
    <3>. QED
      BY <1>1, <1>5, <2>3
  <2>. QED
    BY <1>2, <1>3, <2>2, <2>4, <2>5, <2>6
<1>. QED
  BY <1>4, <1>6, <1>7 DEF Seen

-----------------------------------------------------------------------------
(* The pulse of the second and the periodic interrupt *)

\* How long ago a second started, of a time not two seconds long.
Phase(t) == IF t < Second THEN t ELSE t - Second

\* The same in whole ticks.
TickPhase(t) == Tick * (Phase(t) \div Tick)

\* The counter of the interrupt is right as soon as a second has started
\* undisturbed: it counts whole periods from there.
CounterOK ==
    calm >= 5 + (Phase(ns_counter) \div Tick) =>
        /\ xms.counter \in 0..(Period + Tick - 1)
        /\ \E j \in Int : TickPhase(ns_counter) - xms.counter = Period * j
        /\ IF TickPhase(ns_counter) = 0 THEN xms.counter = 0 ELSE xms.counter >= Tick

PulseOK ==
    /\ calm >= 2 /\ wrap[2] => pulse.mod = ns_counter + Tick
    /\ calm >= 2 /\ (~wrap[2] \/ calm >= 3) => pulse.mod = Phase(ns_counter + Tick)
    /\ calm >= 4 => (pulse.start <=> Phase(ns_counter) < Period)
    /\ calm >= 1 /\ ~wrap[2] => xms.odd = (sc_counter % 2 = 1)
    /\ CounterOK

LEMMA PhaseNat ==
    ASSUME NEW t \in Nat
    PROVE  Phase(t) \in Nat
  BY RtcAssumption, Lengths DEF Phase

\* The remainder of a time not two seconds long.
LEMMA SmallRemainder ==
    ASSUME NEW t \in Int, t >= 0, t < 2 * Second
    PROVE  t % Second = Phase(t) /\ Phase(t) \in 0..(Second - 1)
<1>1. Second \in Nat \ {0}
  BY RtcAssumption DEF RtcAssumption
<1>2. CASE t < Second
  <2>1. t = Second * 0 + t /\ t \in 0..(Second - 1)
    BY <1>1, <1>2
  <2>. QED
    BY <1>1, <1>2, <2>1, RemainderUnique DEF Phase
<1>3. CASE t >= Second
  <2>1. t = Second * 1 + (t - Second) /\ t - Second \in 0..(Second - 1)
    BY <1>1, <1>3
  <2>2. t % Second = t - Second
    BY <1>1, <2>1, RemainderUnique
  <2>. QED
    BY <1>1, <1>3, <2>1, <2>2 DEF Phase
<1>. QED
  BY <1>1, <1>2, <1>3

\* The remainder by a divisor of the divisor.
LEMMA RemainderNests ==
    ASSUME NEW m \in Nat \ {0}, NEW s \in Nat \ {0}, NEW a \in Int
    PROVE  (a % (m * s)) % s = a % s
<1>. DEFINE k == m * s
            d == a \div k
            r == a % k
<1>1. k \in Nat \ {0}
  OBVIOUS
<1>2. r \in Int /\ d \in Int /\ a = k * d + r
  <2>. HIDE DEF k
  <2>. QED
    BY <1>1, DividesWithRemainder
<1>. HIDE DEF d, r
<1>3. k * d = s * (m * d) /\ m * d \in Int
  BY <1>2
<1>. DEFINE e == m * d
<1>4. a = r + s * e /\ e \in Int
  BY <1>2, <1>3
<1>. HIDE DEF e, k
<1>5. (r + s * e) % s = r % s
  BY <1>2, <1>4, RemainderShifts
<1>. QED
  BY <1>4, <1>5 DEF r, k

\* The time since the start of the second does not depend on the seconds.
LEMMA TimeOfSecond ==
    ASSUME NEW sc \in Int, NEW ns \in Int, ns >= 0, ns < 2 * Second
    PROVE  Wrapped(sc * Second + ns) % Second = Phase(ns)
<1>1. Second \in Nat \ {0} /\ SecondsMod \in Nat \ {0}
  BY RtcAssumption DEF RtcAssumption
<1>. DEFINE t == sc * Second + ns
<1>2. t \in Int /\ t = ns + Second * sc
  BY <1>1
<1>3. (t % (SecondsMod * Second)) % Second = t % Second
  <2>. HIDE DEF t
  <2>. QED
    BY <1>1, <1>2, RemainderNests, Zenon
<1>4. (ns + Second * sc) % Second = ns % Second
  BY <1>1, RemainderShifts
<1>. QED
  BY <1>2, <1>3, <1>4, SmallRemainder DEF Wrapped

\* Whole ticks: one more for every tick that passes.
LEMMA WholeTicks ==
    ASSUME NEW p \in Nat
    PROVE  /\ p \div Tick \in Nat
           /\ Tick * (p \div Tick) \in Nat
           /\ p < Tick <=> p \div Tick = 0
           /\ p \div Tick = 0 <=> Tick * (p \div Tick) = 0
           /\ (p + Tick) \div Tick = (p \div Tick) + 1
           /\ Tick * ((p + Tick) \div Tick) = Tick * (p \div Tick) + Tick
<1>. DEFINE q == p \div Tick
            r == p % Tick
<1>1. Tick \in Nat \ {0}
  BY RtcAssumption DEF RtcAssumption
<1>2. r \in 0..(Tick - 1) /\ q \in Int /\ p = Tick * q + r
  BY <1>1, DividesWithRemainder
<1>3. (p + Tick) \div Tick = q + 1
  BY <1>1
<1>. HIDE DEF q, r
<1>4. q >= 0
  <2>1. q <= -1 => Tick * q <= -Tick
    BY <1>1, <1>2
  <2>. QED
    BY <1>1, <1>2, <2>1
<1>5. q >= 1 => Tick * q >= Tick
  BY <1>1, <1>2
<1>6. Tick * (q + 1) = Tick * q + Tick
  BY <1>1, <1>2
<1>7. q = 0 => Tick * q = 0
  BY <1>1
<1>8. p < Tick <=> q = 0
  BY <1>1, <1>2, <1>4, <1>5, <1>7
<1>. QED
  BY <1>1, <1>2, <1>3, <1>4, <1>5, <1>6, <1>7, <1>8 DEF q

\* Undisturbed, the phase of the second moves by a tick.
LEMMA PhaseRuns ==
    ASSUME IInv, RunsOK, Hardware, ~offset_adjust, ~clear_rtc.o, calm >= 2
    PROVE  /\ ns_counter \in Nat /\ ns_counter < 2 * Second
           /\ ns_counter' \in Nat /\ ns_counter' < 2 * Second
           /\ Phase(ns_counter) \in 0..(Second - 1)
           /\ Phase(ns_counter') = Phase(Phase(ns_counter) + Tick)
           /\ Phase(ns_counter') = Phase(ns_counter + Tick)
           /\ wrap[1] => ns_counter' + Tick < Second
<1>1. /\ Second \in Nat /\ Tick \in Nat /\ Tick >= 1 /\ Second > 6 * Tick
      /\ calm \in 0..CalmLimit /\ CalmLimit \in Nat
  BY RtcAssumption DEF RtcAssumption, IInv, TypesOK, CalmLimit
<1>2. ns_counter \in 0..(Second + 4 * Tick - 2) /\ (wrap[1] => ns_counter >= Second)
  BY CalmRange
<1>3. /\ ~wrap[1] => ns_counter' = ns_counter + Tick
      /\ wrap[1] => ns_counter' = ns_counter + Tick - Second
  BY <1>1, CalmEdge
<1>. QED
  BY <1>1, <1>2, <1>3 DEF Phase

\* A period that divides a second and is shorter is at most half of it.
LEMMA PeriodHalf == 2 * Period <= Second /\ Period <= Second - Tick
<1>1. /\ Second \in Nat /\ Tick \in Nat /\ Tick >= 1 /\ Period \in Nat \ {0}
      /\ 2 * Tick <= Period /\ Period < Second
  BY RtcAssumption DEF RtcAssumption
<1>. DEFINE q == Second \div Period
<1>2. q \in Int /\ Second = Period * q
  <2>1. Second % Period = 0
    BY RtcAssumption DEF RtcAssumption
  <2>2. q \in Int /\ Second = Period * q + (Second % Period)
    BY <1>1, DividesWithRemainder
  <2>3. Period * q \in Int
    BY <1>1, <2>2
  <2>. HIDE DEF q
  <2>. QED
    BY <2>1, <2>2, <2>3
<1>. HIDE DEF q
<1>3. q >= 2
  <2>1. (q = 1 => Period * q = Period) /\ (q <= 0 => Period * q <= 0)
    BY <1>1, <1>2
  <2>. QED
    BY <1>1, <1>2, <2>1
<1>4. Period * q >= 2 * Period
  BY <1>1, <1>2, <1>3
<1>. QED
  BY <1>1, <1>2, <1>4

\* A second starts, as the pulse sees it, when its phase turns.
LEMMA StartsWithPhase ==
    ASSUME IInv, RunsOK, PulseOK, Hardware, ~offset_adjust, ~clear_rtc.o, calm >= 4
    PROVE  /\ SecondStarts <=> Phase(ns_counter) + Tick >= Second
           /\ pulse.start <=> Phase(ns_counter) < Period
<1>1. /\ Second \in Nat /\ Tick \in Nat /\ Tick >= 1 /\ Second > 6 * Tick
      /\ Period \in Nat /\ 2 * Tick <= Period /\ Period <= Second - Tick
      /\ calm \in Nat
  BY RtcAssumption, PeriodHalf DEF RtcAssumption, IInv, TypesOK, CalmLimit
<1>2. calm >= 2 /\ calm >= 3
  BY <1>1
<1>3. /\ pulse.mod = Phase(ns_counter + Tick)
      /\ pulse.start <=> Phase(ns_counter) < Period
  BY <1>2 DEF PulseOK
<1>4. ns_counter \in 0..(Second + 4 * Tick - 2)
  BY <1>2, CalmRange
<1>5. SecondStarts <=> Phase(ns_counter + Tick) < Period /\ ~(Phase(ns_counter) < Period)
  BY <1>3 DEF SecondStarts, seconds_start_p1
<1>6. Phase(ns_counter + Tick) < Period /\ ~(Phase(ns_counter) < Period)
        <=> Phase(ns_counter) + Tick >= Second
  BY <1>1, <1>4 DEF Phase
<1>. QED
  BY <1>3, <1>5, <1>6

\* Undisturbed, no turn of a second comes unannounced.
LEMMA NoJump ==
    ASSUME IInv, RunsOK, PulseOK, Hardware, ~offset_adjust, ~clear_rtc.o,
           calm >= 5 + (Phase(ns_counter) \div Tick)
    PROVE  \/ xms.odd = (sc_counter % 2 = 1)
           \/ pulse.start
<1>1. /\ Second \in Nat /\ Tick \in Nat /\ Tick >= 1 /\ Second > 6 * Tick
      /\ Period \in Nat /\ 2 * Tick <= Period /\ calm \in Nat /\ ns_counter \in Nat
  BY RtcAssumption DEF RtcAssumption, IInv, TypesOK, RangeOK, CalmLimit
<1>2. Phase(ns_counter) \in Nat
  BY <1>1, PhaseNat
<1>. DEFINE q == Phase(ns_counter) \div Tick
<1>3. q \in Nat /\ (Phase(ns_counter) < Tick <=> q = 0) /\ calm >= 5 + q
  BY <1>2, WholeTicks
<1>. HIDE DEF q
<1>4. calm >= 4 /\ calm >= 1 /\ (calm >= 6 \/ Phase(ns_counter) < Tick)
  BY <1>1, <1>2, <1>3
<1>5. CASE ~wrap[2]
  BY <1>4, <1>5 DEF PulseOK
<1>6. CASE wrap[2]
  <2>1. Phase(ns_counter) < Period
    <3>1. CASE calm >= 6
      BY <1>1, <1>6, <3>1 DEF RunsOK, Phase
    <3>2. CASE Phase(ns_counter) < Tick
      BY <1>1, <1>2, <3>2
    <3>. QED
      BY <1>4, <3>1, <3>2
  <2>. QED
    BY <1>4, <2>1, StartsWithPhase
<1>. QED
  BY <1>5, <1>6

\* The counter of the interrupt keeps step with the nanoseconds.
LEMMA CounterKept ==
    ASSUME IInv, RunsOK, PulseOK, Hardware, ~offset_adjust, ~clear_rtc.o
    PROVE  CounterOK'
<1>. DEFINE p == Phase(ns_counter)
            r == Phase(ns_counter')
            odd == sc_counter % 2 = 1
            jumped == xms.odd # odd /\ ~pulse.start
            over == xms.counter > Period - 1
<1>. SUFFICES ASSUME calm' >= 5 + (r \div Tick)
              PROVE  /\ xms'.counter \in 0..(Period + Tick - 1)
                     /\ \E j \in Int : Tick * (r \div Tick) - xms'.counter = Period * j
                     /\ IF Tick * (r \div Tick) = 0 THEN xms'.counter = 0 ELSE xms'.counter >= Tick
  BY DEF CounterOK, TickPhase
<1>1. /\ Second \in Nat /\ Tick \in Nat /\ Tick >= 1 /\ Second > 6 * Tick
      /\ Period \in Nat /\ 2 * Tick <= Period
      /\ calm \in Nat /\ CalmLimit \in Nat
  BY RtcAssumption DEF RtcAssumption, IInv, TypesOK, RangeOK, CalmLimit
<1>2. calm' = IF calm < CalmLimit THEN calm + 1 ELSE calm
  BY CalmEdge
<1>3. r \in Nat /\ r \div Tick \in Nat
  <2>1. r \in Nat
    <3>1. ns_counter' \in Nat
      BY RtcAssumption, RangeKept DEF IInv, Hardware, RangeOK
    <3>. QED
      BY <3>1, PhaseNat
  <2>. QED
    BY <2>1, WholeTicks
<1>4. calm >= 4 /\ calm >= 2
  <2>. DEFINE q == r \div Tick
  <2>1. q \in Nat /\ calm' >= 5 + q
    BY <1>3
  <2>. HIDE DEF q
  <2>. QED
    BY <1>1, <1>2, <2>1
<1>5. /\ SecondStarts <=> p + Tick >= Second
      /\ pulse.start <=> p < Period
  BY <1>4, StartsWithPhase
<1>6. p \in 0..(Second - 1) /\ r = Phase(p + Tick)
  BY <1>4, PhaseRuns
<1>7. xms'.counter = CASE SecondStarts \/ jumped -> 0
                       [] ~(SecondStarts \/ jumped) /\ over -> (xms.counter + Tick) - Period
                       [] OTHER -> xms.counter + Tick
  BY DEF Hardware, Interrupt
<1>. HIDE DEF p, r, jumped
<1>8. CASE p + Tick >= Second
  <2>1. xms'.counter = 0
    BY <1>5, <1>7, <1>8
  <2>2. r < Tick
    BY <1>1, <1>6, <1>8 DEF Phase
  <2>3. r \div Tick = 0 /\ Tick * (r \div Tick) = 0
    BY <1>3, <2>2, WholeTicks
  <2>4. Tick * (r \div Tick) - xms'.counter = Period * 0
    BY <1>1, <2>1, <2>3
  <2>. QED
    BY <1>1, <2>1, <2>3, <2>4
<1>9. CASE p + Tick < Second
  <2>1. r = p + Tick /\ p \in Nat
    BY <1>1, <1>6, <1>9 DEF Phase
  <2>. DEFINE q == p \div Tick
              u == Tick * q
  <2>2. /\ q \in Nat /\ u \in Nat
        /\ r \div Tick = q + 1 /\ Tick * (r \div Tick) = u + Tick
    BY <2>1, WholeTicks
  <2>. HIDE DEF q, u
  <2>3. calm >= 5 + q
    BY <1>1, <1>2, <2>2
  <2>4. /\ xms.counter \in 0..(Period + Tick - 1)
        /\ \E j \in Int : u - xms.counter = Period * j
    BY <2>3 DEF PulseOK, CounterOK, TickPhase, p, q, u
  <2>5. ~SecondStarts /\ ~jumped
    <3>1. xms.odd = odd \/ pulse.start
      BY <2>3, NoJump DEF p, q
    <3>. QED
      BY <1>1, <1>5, <1>6, <1>9, <3>1 DEF jumped
  <2>6. xms'.counter = IF over THEN (xms.counter + Tick) - Period ELSE xms.counter + Tick
    BY <1>7, <2>5
  <2>7. PICK j \in Int : u - xms.counter = Period * j
    BY <2>4
  <2>. DEFINE c == xms.counter
              d == xms'.counter
              k == Period * j
  <2>8. /\ c \in 0..(Period + Tick - 1) /\ u - c = k /\ k \in Int
        /\ d = IF c > Period - 1 THEN (c + Tick) - Period ELSE c + Tick
    BY <1>1, <2>4, <2>6, <2>7
  <2>. HIDE DEF c, d, k
  <2>9. d \in 0..(Period + Tick - 1) /\ d >= Tick
    BY <1>1, <2>8
  <2>10. \/ (u + Tick) - d = k
         \/ (u + Tick) - d = k + Period
    BY <1>1, <2>2, <2>8
  <2>11. k = Period * j /\ k + Period = Period * (j + 1) /\ j + 1 \in Int
    BY <1>1, <2>7 DEF k
  <2>12. \E i \in Int : (u + Tick) - d = Period * i
    BY <2>10, <2>11
  <2>13. u + Tick # 0
    BY <1>1, <2>2
  <2>. QED
    BY <2>2, <2>9, <2>12, <2>13 DEF d
<1>. QED
  BY <1>1, <1>6, <1>8, <1>9

\* The pulse of the second keeps step with them.
LEMMA PulseKept ==
    ASSUME IInv, RunsOK, PulseOK, Hardware
    PROVE  PulseOK'
<1>1. /\ Second \in Nat /\ Tick \in Nat /\ Tick >= 1 /\ Second > 6 * Tick
      /\ Period \in Nat /\ 2 * Tick <= Period /\ Period < Second
      /\ ns_counter \in Nat /\ calm \in Nat /\ calm <= CalmLimit /\ CalmLimit \in Nat
      /\ CalmLimit >= 11
  BY RtcAssumption DEF RtcAssumption, IInv, TypesOK, RangeOK, CalmLimit
<1>2. ns_counter' \in Nat
  BY RtcAssumption, RangeKept DEF IInv, Hardware, RangeOK
<1>3. Phase(ns_counter') \in Nat /\ Phase(ns_counter') \div Tick \in Nat
  <2>1. Phase(ns_counter') \in Nat
    BY <1>2, PhaseNat
  <2>. QED
    BY <2>1, WholeTicks
<1>4. CASE offset_adjust \/ clear_rtc.o
  <2>1. calm' = 0
    BY <1>4 DEF Hardware, Ghosts
  <2>. QED
    BY <1>3, <2>1 DEF PulseOK, CounterOK
<1>5. CASE ~offset_adjust /\ ~clear_rtc.o
  <2>1. /\ calm' = IF calm < CalmLimit THEN calm + 1 ELSE calm
        /\ ~wrap[1] => ns_counter' = ns_counter + Tick /\ sc_counter' = sc_counter
        /\ wrap[1] /\ calm >= 1 => ns_counter' = ns_counter + Tick - Second
    BY <1>5, CalmEdge
  <2>2. wrap'[2] <=> wrap[1]
    BY RtcAssumption, WrapsAfter DEF IInv, Hardware, Counter
  <2>3. pulse'.mod = (IF ns_counter + 2 * Tick < Second THEN ns_counter + 2 * Tick
                      ELSE ns_counter + 2 * Tick - Second)
        /\ (pulse'.start <=> pulse.mod < Period)
    <3>1. pulse'.start = seconds_start_p1
      BY DEF Hardware, PulsePerSecond
    <3>2. pulse'.mod = IF ns_counter + 2 * Tick < Second THEN ns_counter + 2 * Tick
                      ELSE ns_counter + 2 * Tick - Second
      BY <1>1 DEF Hardware, PulsePerSecond, ns_phase_adjusted
    <3>3. pulse'.start <=> pulse.mod < Period
      BY <3>1, Zenon DEF seconds_start_p1
    <3>. QED
      BY <3>2, <3>3
  <2>. DEFINE n == ns_counter' + Tick
              m == pulse'.mod
  <2>4. /\ n \in Int
        /\ ~wrap[1] => n = ns_counter + 2 * Tick
        /\ wrap[1] /\ calm >= 1 => n = ns_counter + 2 * Tick - Second
    <3>1. n \in Int
      BY <1>1, <1>2
    <3>2. ASSUME ~wrap[1]
          PROVE  n = ns_counter + 2 * Tick
      <4>1. ns_counter' = ns_counter + Tick
        BY <2>1, <3>2
      <4>. QED
        BY <1>1, <4>1
    <3>3. ASSUME wrap[1], calm >= 1
          PROVE  n = ns_counter + 2 * Tick - Second
      <4>1. ns_counter' = ns_counter + Tick - Second
        BY <2>1, <3>3
      <4>. QED
        BY <1>1, <4>1
    <3>. QED
      BY <3>1, <3>2, <3>3
  <2>5. m = (IF ns_counter + 2 * Tick < Second THEN ns_counter + 2 * Tick
             ELSE ns_counter + 2 * Tick - Second)
    BY <2>3
  <2>. HIDE DEF n, m
  <2>6. ASSUME calm' >= 2, wrap'[2]
        PROVE  m = n
    <3>1. calm >= 1
      BY <1>1, <2>1, <2>6
    <3>2. ns_counter >= Second
      BY <2>2, <2>6, <3>1 DEF RunsOK
    <3>. QED
      BY <1>1, <2>2, <2>4, <2>5, <2>6, <3>1, <3>2
  <2>7. ASSUME ~wrap'[2]
        PROVE  m = Phase(n)
    BY <1>1, <2>2, <2>4, <2>5, <2>7 DEF Phase
  <2>8. ASSUME calm' >= 3, wrap'[2]
        PROVE  m = Phase(n)
    <3>1. calm >= 2 /\ calm' >= 2
      BY <1>1, <2>1, <2>8
    <3>2. n < Second
      BY <1>5, <2>2, <2>8, <3>1, PhaseRuns DEF n
    <3>. QED
      BY <2>4, <2>6, <2>8, <3>1, <3>2 DEF Phase
  <2>9. ASSUME calm' >= 4
        PROVE  pulse'.start <=> Phase(ns_counter') < Period
    <3>1. calm >= 3 /\ calm >= 2
      BY <1>1, <2>1, <2>9
    <3>2. pulse.mod = Phase(ns_counter + Tick)
      BY <3>1 DEF PulseOK
    <3>3. Phase(ns_counter') = Phase(ns_counter + Tick)
      BY <1>5, <3>1, PhaseRuns
    <3>. QED
      BY <2>3, <3>2, <3>3
  <2>10. ASSUME calm' >= 1, ~wrap'[2]
        PROVE  xms'.odd = (sc_counter' % 2 = 1)
    <3>1. sc_counter' = sc_counter
      BY <2>1, <2>2, <2>10
    <3>. QED
      BY <3>1 DEF Hardware, Interrupt
  <2>11. CounterOK'
    BY <1>5, CounterKept
  <2>. QED
    BY <2>6, <2>7, <2>8, <2>9, <2>10, <2>11 DEF PulseOK, m, n
<1>. QED
  BY <1>4, <1>5

\* Calm edges announce the second and its periods at their time.
LEMMA Announced ==
    ASSUME IInv, RunsOK, PulseOK, Hardware, calm = CalmLimit, calm' = CalmLimit
    PROVE  /\ SecondStarts <=> FirstTickOf(Second, Time')
           /\ xms'.trig <=> \/ FirstTickOf(Second, Time')
                            \/ FirstTickOf(Period, SinceSecond(Time)) /\ ~FirstTickOf(Second, Time)
<1>. DEFINE p == Phase(ns_counter)
            q == p \div Tick
            u == Tick * q
            odd == sc_counter % 2 = 1
            jumped == xms.odd # odd /\ ~pulse.start
<1>1. /\ Second \in Nat /\ Tick \in Nat /\ Tick >= 1 /\ Second > 6 * Tick
      /\ Period \in Nat /\ 2 * Tick <= Period
      /\ calm \in Nat /\ CalmLimit = Second + 4
      /\ sc_counter \in Int
  BY RtcAssumption DEF RtcAssumption, IInv, TypesOK, CalmLimit
<1>2. ~offset_adjust /\ ~clear_rtc.o
  BY <1>1 DEF Hardware, Ghosts
<1>3. calm >= 2 /\ calm >= 4
  BY <1>1
<1>4. /\ ns_counter \in Nat /\ ns_counter < 2 * Second
      /\ ns_counter' \in Nat /\ ns_counter' < 2 * Second
      /\ p \in 0..(Second - 1)
      /\ Phase(ns_counter') = Phase(p + Tick)
  BY <1>2, <1>3, PhaseRuns
<1>5. /\ SecondStarts <=> p + Tick >= Second
      /\ pulse.start <=> p < Period
  BY <1>2, <1>3, StartsWithPhase
<1>6. Time % Second = p
  <2>1. ns_counter \in Int /\ ns_counter >= 0 /\ ns_counter < 2 * Second
    BY <1>4
  <2>2. Wrapped(sc_counter * Second + ns_counter) % Second = Phase(ns_counter)
    BY <1>1, <2>1, TimeOfSecond
  <2>. QED
    BY <2>2 DEF Time
<1>7. Time' % Second = Phase(p + Tick)
  <2>1. sc_counter' \in Int
    <3>1. TypesOK'
      BY RtcAssumption, TypesKept DEF IInv, Hardware
    <3>. QED
      BY <3>1 DEF TypesOK
  <2>2. Wrapped(sc_counter' * Second + ns_counter') % Second = Phase(ns_counter')
    BY <1>4, <2>1, TimeOfSecond
  <2>. QED
    BY <1>4, <2>2 DEF Time
<1>8. /\ q \in Nat /\ u \in Nat /\ (p < Tick <=> q = 0) /\ (q = 0 <=> u = 0)
      /\ Tick * q <= p
  <2>1. p \in Nat
    BY <1>1, <1>4
  <2>. HIDE DEF p
  <2>. HIDE DEF u
  <2>2. p = Tick * (p \div Tick) + (p % Tick) /\ p % Tick \in 0..(Tick - 1)
    BY <1>1, <2>1
  <2>3. q \in Nat /\ (p < Tick <=> q = 0)
    BY <1>1, <2>1, WholeTicks
  <2>4. Tick * q <= p
    BY <1>1, <2>1, <2>2 
  <2>. HIDE DEF q
  <2>5. u = Tick * q
    BY DEF u
  <2>6. u \in Nat /\ (q = 0 <=> u = 0)
    BY <1>1, <2>3, <2>5
  <2>. QED
    BY <2>3, <2>4, <2>6
<1>9. SinceSecond(Time) = u
  BY <1>6 DEF SinceSecond
<1>10. calm >= 5 + q
  <2>. HIDE DEF p, q
  <2>1. q <= Tick * q
    BY <1>1, <1>8
  <2>. QED
    BY <1>1, <1>4, <1>8, <2>1
<1>11. /\ xms.counter \in 0..(Period + Tick - 1)
       /\ \E j \in Int : u - xms.counter = Period * j
       /\ IF u = 0 THEN xms.counter = 0 ELSE xms.counter >= Tick
  BY <1>10 DEF PulseOK, CounterOK, TickPhase
<1>12. ~jumped
  <2>1. xms.odd = odd \/ pulse.start
    BY <1>2, <1>10, NoJump
  <2>. QED
    BY <2>1
<1>13. xms'.trig <=> SecondStarts \/ (~jumped /\ xms.counter > Period - 1)
  BY DEF Hardware, Interrupt
<1>. HIDE DEF p, q, u, jumped
<1>14. SecondStarts <=> FirstTickOf(Second, Time')
  <2>1. p + Tick >= Second <=> Phase(p + Tick) < Tick
    BY <1>1, <1>4 DEF Phase
  <2>. QED
    BY <1>5, <1>7, <2>1 DEF FirstTickOf
<1>15. FirstTickOf(Second, Time) <=> u = 0
  BY <1>6, <1>8 DEF FirstTickOf
<1>16. xms.counter > Period - 1 <=> u % Period < Tick /\ u # 0
  <2>. DEFINE c == xms.counter
  <2>1. PICK j \in Int : u - c = Period * j
    BY <1>11
  <2>2. c \in 0..(Period + Tick - 1) /\ (IF u = 0 THEN c = 0 ELSE c >= Tick)
    BY <1>11
  <2>. HIDE DEF c
  <2>3. Period \in Nat \ {0} /\ u \in Int
    BY <1>1, <1>8
  <2>4. CASE c < Period
    <3>1. u = Period * j + c /\ c \in 0..(Period - 1)
      BY <1>1, <2>1, <2>2, <2>3, <2>4
    <3>2. u % Period = c
      BY <2>3, <3>1, RemainderUnique
    <3>. QED
      BY <1>1, <2>2, <2>4, <3>2 DEF c
  <2>5. CASE c >= Period
    <3>1. Period * (j + 1) = Period * j + Period /\ Period * j \in Int /\ j + 1 \in Int
      BY <2>3
    <3>. DEFINE i == j + 1
                r == c - Period
    <3>2. u = Period * i + r /\ r \in 0..(Period - 1) /\ r < Tick
      BY <1>1, <2>1, <2>2, <2>3, <2>5, <3>1
    <3>. HIDE DEF i, r
    <3>3. i \in Int
      BY <3>1 DEF i
    <3>4. u % Period = r
      BY <2>3, <3>2, <3>3, RemainderUnique
    <3>5. u # 0
      BY <1>1, <2>2, <2>5
    <3>. QED
      BY <1>1, <2>2, <2>5, <3>2, <3>4, <3>5 DEF c
  <2>. QED
    BY <1>1, <2>2, <2>4, <2>5
<1>. QED
  BY <1>9, <1>12, <1>13, <1>14, <1>15, <1>16 DEF FirstTickOf

-----------------------------------------------------------------------------
(* The theorems *)

CInv == RunsOK /\ PulseOK /\ ReadsOK

\* CInv is an invariant of the clock: how its counters, the pulse of the second,
\* the periodic interrupt and the registers being read stand to one another once
\* the clock has been left alone for a while.
THEOREM CalmInvariant == Spec => []CInv
<1>1. Init => CInv
  <2>. SUFFICES ASSUME Init
                PROVE  CInv
    OBVIOUS
  <2>1. /\ Second \in Nat /\ Second > 1
        /\ calm = 0 /\ ns_counter = 0 /\ ~wrap[1] /\ ~wrap[2] /\ ~wrap[3] /\ rx = NoMessage
    BY RtcAssumption DEF Init, RtcAssumption
  <2>2. RunsOK
    BY <2>1 DEF RunsOK
  <2>3. PulseOK
    <3>1. Phase(0) \in Nat
      BY PhaseNat
    <3>2. Phase(0) \div Tick \in Nat
      BY <3>1, WholeTicks
    <3>. QED
      BY <2>1, <3>2 DEF PulseOK, CounterOK
  <2>4. ReadsOK
    BY <2>1 DEF ReadsOK, NoMessage
  <2>. QED
    BY <2>2, <2>3, <2>4 DEF CInv
<1>2. IInv /\ CInv /\ [Next]_vars => CInv'
  <2>. SUFFICES ASSUME IInv, CInv, [Next]_vars
                PROVE  CInv'
    OBVIOUS
  <2>1. CASE Next
    <3>1. Hardware
      BY <2>1, Acts DEF IInv
    <3>. QED
      BY <2>1, <3>1, RunsKept, PulseKept, ReadsKept DEF CInv
  <2>2. CASE UNCHANGED vars
    <3>. USE <2>2 DEF vars, counters, control, outputs, software, ghosts
    <3>1. RunsOK'
      BY DEF CInv, RunsOK
    <3>2. PulseOK'
      BY DEF CInv, PulseOK, CounterOK, TickPhase, Phase
    <3>3. (Pending' <=> Pending) /\ Time' = Time
      BY DEF Pending, Asking, offset_valid_pul, Time
    <3>4. ReadsOK'
      BY <3>3 DEF CInv, ReadsOK, Reading, Undisturbed
    <3>. QED
      BY <3>1, <3>2, <3>4 DEF CInv
  <2>. QED
    BY <2>1, <2>2
<1>. QED
  BY <1>1, <1>2, Invariant, PTL DEF Spec

\* An event message that is read in good time (Punctual) is completed to the
\* time of its arrival, whether or not the second has turned since, unless a
\* register carried into the next between the reads.
THEOREM Completed == Spec => []ReceiptCompleted
<1>1. CInv => ReceiptCompleted
  BY ReadsComplete DEF CInv
<1>. QED
  BY <1>1, CalmInvariant, PTL

\* In undisturbed time the pulse rises with every second, and the interrupt
\* comes once in each of its periods.
THEOREM SecondsPulse == Spec => SecondsAnnounced
<1>1. ASSUME IInv, CInv, [Next]_vars
      PROVE  [calm = CalmLimit /\ calm' = CalmLimit =>
                 /\ SecondStarts <=> FirstTickOf(Second, Time')
                 /\ xms'.trig <=> \/ FirstTickOf(Second, Time')
                                  \/ FirstTickOf(Period, SinceSecond(Time))
                                     /\ ~FirstTickOf(Second, Time)]_vars
  <2>1. CASE Next
    <3>1. Hardware
      BY <1>1, <2>1, Acts DEF IInv
    <3>. QED
      BY <1>1, <3>1, Announced DEF CInv
  <2>2. CASE UNCHANGED vars
    BY <2>2
  <2>. QED
    BY <1>1, <2>1, <2>2
<1>. QED
  BY <1>1, Invariant, CalmInvariant, PTL DEF Spec, SecondsAnnounced
=============================================================================
