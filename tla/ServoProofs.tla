---------------------------- MODULE ServoProofs ----------------------------
(***************************************************************************)
(* The arithmetic on times and the properties of the servo, for every      *)
(* width of the integers and length of the second, every stiffness, every  *)
(* line of offsets and all delays.                                         *)
(*                                                                         *)
(* The inductive invariant is the shape of the servo's record with the     *)
(* bounds of the filter (what it holds is less than a second), the order   *)
(* of the three flags of syntonisation, with which the steps agree, and    *)
(* that what a step leaves of the error is the path delay in use.          *)
(***************************************************************************)
EXTENDS Servo, TLAPS, WellFoundedInduction

-----------------------------------------------------------------------------
(* The arithmetic on times is exact, for a second of any length *)

LEMMA QuotAndRest ==
    ASSUME NEW a \in Int, NEW b \in Nat \ {0}
    PROVE  /\ Quot(a, b) \in Int
           /\ a >= 0 => 0 <= a - Quot(a, b) * b /\ a - Quot(a, b) * b < b /\ Quot(a, b) >= 0
           /\ a <= 0 => -b < a - Quot(a, b) * b /\ a - Quot(a, b) * b <= 0 /\ Quot(a, b) <= 0
<1>1. CASE a >= 0
  <2>1. a \div b \in Nat /\ b * (a \div b) <= a /\ a < b * (a \div b) + b
    BY <1>1, SMT
  <2>2. Quot(a, b) = a \div b
    BY <1>1 DEF Quot
  <2>3. a = 0 => a \div b = 0
    BY <2>1, SMT
  <2> QED BY <1>1, <2>1, <2>2, <2>3, SMT
<1>2. CASE a < 0
  <2>1. (-a) \div b \in Nat /\ b * ((-a) \div b) <= -a /\ -a < b * ((-a) \div b) + b
    BY <1>2, SMT
  <2>2. Quot(a, b) = -((-a) \div b)
    BY <1>2 DEF Quot
  <2> QED BY <1>2, <2>1, <2>2, SMT
<1> QED BY <1>1, <1>2

\* normalizeTime keeps the value of every time and makes it normal.
THEOREM NormalizeTime ==
    ASSUME NEW t \in TimeInternal
    PROVE  /\ normalizeTime(t) \in TimeInternal
           /\ Value(normalizeTime(t)) = Value(t)
           /\ IsNormal(normalizeTime(t))
<1> DEFINE carry == Quot(t.nanoseconds, Second)
           sec == t.seconds + carry
           rest == t.nanoseconds - carry * Second
<1>1. Second \in Nat \ {0} /\ t.seconds \in Int /\ t.nanoseconds \in Int
  BY SecondAssumption DEF TimeInternal
<1>2. carry \in Int /\ -Second < rest /\ rest < Second
  <2> HIDE DEF carry
  <2>1. /\ carry \in Int
        /\ t.nanoseconds >= 0 => 0 <= t.nanoseconds - carry * Second
                                 /\ t.nanoseconds - carry * Second < Second
        /\ t.nanoseconds <= 0 => -Second < t.nanoseconds - carry * Second
                                 /\ t.nanoseconds - carry * Second <= 0
    BY <1>1, QuotAndRest DEF carry
  <2> QED BY <1>1, <2>1, SMT
<1>3. sec \in Int /\ rest \in Int
  BY <1>1, <1>2
<1>4. sec * Second + rest = Value(t)
  <2>1. (t.seconds + carry) * Second = t.seconds * Second + carry * Second
    BY <1>1, <1>2, SMT
  <2> QED BY <2>1, <1>1, <1>2, SMT DEF Value
<1>5. (sec - 1) * Second = sec * Second - Second /\ (sec + 1) * Second = sec * Second + Second
  BY <1>1, <1>3, SMT
<1> HIDE DEF carry, sec, rest
<1>6. normalizeTime(t) = CASE sec > 0 /\ rest < 0 -> Time(sec - 1, rest + Second)
                           [] sec < 0 /\ rest > 0 -> Time(sec + 1, rest - Second)
                           [] OTHER               -> Time(sec, rest)
  BY DEF normalizeTime, carry, sec, rest
<1>7. CASE sec > 0 /\ rest < 0
  <2>1. normalizeTime(t) = Time(sec - 1, rest + Second)
    BY <1>3, <1>6, <1>7, SMT
  <2> QED BY <2>1, <1>1, <1>2, <1>3, <1>4, <1>5, <1>7, SMT
             DEF Time, TimeInternal, Value, IsNormal
<1>8. CASE sec < 0 /\ rest > 0
  <2>1. normalizeTime(t) = Time(sec + 1, rest - Second)
    BY <1>3, <1>6, <1>8, SMT
  <2> QED BY <2>1, <1>1, <1>2, <1>3, <1>4, <1>5, <1>8, SMT
             DEF Time, TimeInternal, Value, IsNormal
<1>9. CASE ~(sec > 0 /\ rest < 0) /\ ~(sec < 0 /\ rest > 0)
  <2>1. normalizeTime(t) = Time(sec, rest)
    BY <1>6, <1>9
  <2> QED BY <2>1, <1>1, <1>2, <1>3, <1>4, <1>9, SMT
             DEF Time, TimeInternal, Value, IsNormal
<1> QED BY <1>7, <1>8, <1>9

\* A difference of times depends on the difference of their values only.
THEOREM NormalIsUnique ==
    ASSUME NEW x \in TimeInternal, NEW y \in TimeInternal,
           IsNormal(x), IsNormal(y), Value(x) = Value(y)
    PROVE  x = y
<1>1. /\ Second \in Nat \ {0}
      /\ x.seconds \in Int /\ x.nanoseconds \in Int
      /\ y.seconds \in Int /\ y.nanoseconds \in Int
  BY SecondAssumption DEF TimeInternal
<1> DEFINE d == x.seconds - y.seconds
<1>2. d \in Int /\ d * Second = y.nanoseconds - x.nanoseconds
  <2>1. d * Second = x.seconds * Second - y.seconds * Second
    BY <1>1, SMT
  <2> QED BY <2>1, <1>1, SMT DEF Value
<1>3. -2 * Second < d * Second /\ d * Second < 2 * Second
  BY <1>1, <1>2, SMT DEF IsNormal
<1>4. d \in -1..1
  BY <1>1, <1>2, <1>3, SMT
<1>5. d = 0
  BY <1>1, <1>2, <1>4, SMT DEF IsNormal
<1>6. x.seconds = y.seconds /\ x.nanoseconds = y.nanoseconds
  BY <1>1, <1>2, <1>5, SMT
<1> QED BY <1>6 DEF TimeInternal

LEMMA AddAndSub ==
    ASSUME NEW x \in TimeInternal, NEW y \in TimeInternal
    PROVE  /\ addTime(x, y) \in TimeInternal /\ IsNormal(addTime(x, y))
           /\ Value(addTime(x, y)) = Value(x) + Value(y)
           /\ subTime(x, y) \in TimeInternal /\ IsNormal(subTime(x, y))
           /\ Value(subTime(x, y)) = Value(x) - Value(y)
<1>1. /\ Second \in Nat \ {0}
      /\ x.seconds \in Int /\ x.nanoseconds \in Int
      /\ y.seconds \in Int /\ y.nanoseconds \in Int
  BY SecondAssumption DEF TimeInternal
<1> DEFINE sum  == Time(x.seconds + y.seconds, x.nanoseconds + y.nanoseconds)
           diff == Time(x.seconds - y.seconds, x.nanoseconds - y.nanoseconds)
<1>2. sum \in TimeInternal /\ diff \in TimeInternal
  BY <1>1 DEF Time, TimeInternal
<1>3. Value(sum) = Value(x) + Value(y) /\ Value(diff) = Value(x) - Value(y)
  <2>1. /\ (x.seconds + y.seconds) * Second = x.seconds * Second + y.seconds * Second
        /\ (x.seconds - y.seconds) * Second = x.seconds * Second - y.seconds * Second
    BY <1>1, SMT
  <2> QED BY <2>1, <1>1, SMT DEF Value, Time
<1> QED BY <1>2, <1>3, NormalizeTime DEF addTime, subTime

\* Half of a normal time is normal, and exact but for the half nanosecond.
THEOREM HalfOfTime ==
    ASSUME NEW t \in TimeInternal
    PROVE  /\ div2Time(t) \in TimeInternal
           /\ IsNormal(div2Time(t))
           /\ IsNormal(t) =>
                2 * Value(div2Time(t)) \in Value(t) - 1 .. Value(t) + 1
<1>1. Second \in Nat \ {0} /\ t.seconds \in Int /\ t.nanoseconds \in Int
  BY SecondAssumption DEF TimeInternal
<1> DEFINE q == Quot(t.seconds, 2)
           odd == t.seconds - 2 * q
           n == t.nanoseconds + odd * Second
           h == Quot(n, 2)
<1>2. q \in Int /\ odd \in -1..1
  <2>1. 2 \in Nat \ {0} /\ t.seconds \in Int
    BY <1>1, SMT
  <2>2. /\ q \in Int
        /\ t.seconds >= 0 => 0 <= t.seconds - q * 2 /\ t.seconds - q * 2 < 2 /\ q >= 0
        /\ t.seconds <= 0 => -2 < t.seconds - q * 2 /\ t.seconds - q * 2 <= 0 /\ q <= 0
    BY <2>1, QuotAndRest, Zenon
  <2> HIDE DEF q
  <2> QED BY <1>1, <2>2, SMT
<1>3. n \in Int
  BY <1>1, <1>2, SMT
<1>4. h \in Int /\ n - 2 * h \in -1..1
  <2> HIDE DEF n, h
  <2>1. /\ h \in Int
        /\ n >= 0 => 0 <= n - h * 2 /\ n - h * 2 < 2
        /\ n <= 0 => -2 < n - h * 2 /\ n - h * 2 <= 0
    BY <1>3, QuotAndRest DEF h
  <2> QED BY <1>3, <2>1, SMT
<1>5. Time(q, h) \in TimeInternal
  BY <1>2, <1>4 DEF Time, TimeInternal
<1>6. div2Time(t) = normalizeTime(Time(q, h))
  BY DEF div2Time
<1>7. Value(Time(q, h)) = q * Second + h
  BY DEF Value, Time
<1>8. 2 * (q * Second + h) \in Value(t) - 1 .. Value(t) + 1
  <2>1. t.seconds * Second = 2 * (q * Second) + odd * Second
    BY <1>1, <1>2, SMT
  <2>2. q * Second \in Int /\ odd * Second \in Int /\ t.seconds * Second \in Int
    BY <1>1, <1>2, SMT
  <2>3. Value(t) = 2 * (q * Second) + n
    BY <2>1, <2>2, <1>1, <1>2, SMT DEF Value
  <2> HIDE DEF n, h, q, odd
  <2> QED BY <2>2, <2>3, <1>3, <1>4, SMT
<1> QED BY <1>5, <1>6, <1>7, <1>8, NormalizeTime

\* A correctionField becomes a normal time.
LEMMA CorrectionNormal ==
    ASSUME NEW bigint \in Int
    PROVE  /\ integer64_to_internalTime(bigint) \in TimeInternal
           /\ IsNormal(integer64_to_internalTime(bigint))
<1>1. Second \in Nat \ {0} /\ Fraction \in Nat \ {0} /\ Abs(bigint) \in Nat
  BY SecondAssumption, FractionAssumption, SMT DEF Abs
<1> DEFINE whole == Abs(bigint) \div Fraction
<1>2. whole \in Nat
  BY <1>1, SMT
<1> HIDE DEF whole
<1>3. whole \div Second \in Nat /\ whole % Second \in 0 .. Second - 1
  BY <1>1, <1>2, SMT
<1>4. CASE bigint < 0
  <2>1. integer64_to_internalTime(bigint) = Time((-1) * (whole \div Second), (-1) * (whole % Second))
    BY <1>4, Zenon DEF integer64_to_internalTime, whole
  <2> QED BY <2>1, <1>1, <1>3, SMT DEF Time, TimeInternal, IsNormal
<1>5. CASE ~(bigint < 0)
  <2>1. integer64_to_internalTime(bigint) = Time(1 * (whole \div Second), 1 * (whole % Second))
    BY <1>5, SMT DEF integer64_to_internalTime, whole
  <2> QED BY <2>1, <1>1, <1>3, SMT DEF Time, TimeInternal, IsNormal
<1> QED BY <1>4, <1>5

\* A time that fits into a Timestamp arrives as it was sent.
THEOREM TimestampKeepsTime ==
    ASSUME NEW t \in TimeInternal, NEW old,
           t.seconds >= 0, t.nanoseconds >= 0, t.seconds \div Word < HalfWord
    PROVE  toInternalTime(fromInternalTime(t, old)) = t
<1>1. t.seconds \in Nat /\ t.nanoseconds \in Nat
  BY DEF TimeInternal
<1>2. Word \in Nat \ {0} /\ HalfWord \in Nat \ {0}
  BY WordAssumption
<1> DEFINE high == t.seconds \div Word
<1>3. high \in Nat /\ t.seconds = Word * high + (t.seconds % Word)
  BY <1>1, <1>2, SMT
<1>4. high % HalfWord = high
  BY <1>2, <1>3, SMT
<1>5. fromInternalTime(t, old) =
        [msb |-> high, lsb |-> t.seconds % Word, nanosecondsField |-> t.nanoseconds]
  BY <1>1, <1>4 DEF fromInternalTime
<1>6. high * Word + (t.seconds % Word) = t.seconds
  BY <1>1, <1>2, <1>3, SMT
<1>7. toInternalTime(fromInternalTime(t, old)) = Time(t.seconds, t.nanoseconds)
  BY <1>5, <1>6 DEF toInternalTime
<1> QED BY <1>7 DEF Time, TimeInternal

-----------------------------------------------------------------------------
(* The one-way delay filter *)

Nanoseconds == {n \in Int : -Second < n /\ n < Second}
Filter == [nsec_prev : Nanoseconds, y : Nanoseconds, s_exp : Nat]

\* A quotient times the divisor is between zero and the dividend.
LEMMA QuotTimes ==
    ASSUME NEW a \in Int, NEW b \in Nat \ {0}
    PROVE  /\ Quot(a, b) \in Int
           /\ a >= 0 => Quot(a, b) >= 0 /\ b * Quot(a, b) <= a
           /\ a <= 0 => Quot(a, b) <= 0 /\ b * Quot(a, b) >= a
<1> DEFINE q == Quot(a, b)
<1>1. /\ q \in Int
      /\ a >= 0 => 0 <= a - q * b /\ q >= 0
      /\ a <= 0 => a - q * b <= 0 /\ q <= 0
  BY QuotAndRest, Zenon
<1> HIDE DEF q
<1>2. q * b = b * q /\ b * q \in Int
  BY <1>1, SMT
<1>3. /\ a >= 0 => q >= 0 /\ b * q <= a
      /\ a <= 0 => q <= 0 /\ b * q >= a
  BY <1>1, <1>2, SMT
<1> QED BY <1>1, <1>3 DEF q

LEMMA QuotOfNegated ==
    ASSUME NEW a \in Int, NEW b \in Nat \ {0}
    PROVE  Quot(-a, b) = -Quot(a, b)
<1>1. CASE a > 0
  BY <1>1, SMT DEF Quot
<1>2. CASE a < 0
  BY <1>2, SMT DEF Quot
<1>3. CASE a = 0
  <2>1. 0 \div b = 0
    BY SMT
  <2> QED BY <1>3, <2>1, SMT DEF Quot
<1> QED BY <1>1, <1>2, <1>3

\* The sum of the two parts, of which the weights are k - 1 and 1 in k.
Mixed(k, y, p, n) == Quot((k - 1) * y, k) + Quot(Quot(n, 2) + Quot(p, 2), k)

LEMMA MixedAtMost ==
    ASSUME NEW k \in Nat \ {0}, NEW y \in Int, NEW p \in Int, NEW n \in Int, NEW u \in Nat,
           y <= u, p <= u, n <= u
    PROVE  Mixed(k, y, p, n) \in Int /\ Mixed(k, y, p, n) <= u
<1> DEFINE old == Quot((k - 1) * y, k)
           mean == Quot(n, 2) + Quot(p, 2)
           new == Quot(mean, k)
<1>1. (k - 1) * y \in Int /\ (k - 1) * y <= (k - 1) * u /\ (k - 1) * u \in Nat
  BY SMT
<1>2. 2 \in Nat \ {0} /\ k \in Nat \ {0}
  BY SMT
<1>3. old \in Int /\ k * old <= (k - 1) * u
  <2>1. /\ old \in Int
        /\ (k - 1) * y >= 0 => k * old <= (k - 1) * y
        /\ (k - 1) * y <= 0 => old <= 0
    BY <1>1, <1>2, QuotTimes, Zenon
  <2> HIDE DEF old
  <2>2. old <= 0 => k * old <= 0
    BY <2>1, SMT
  <2>3. k * old \in Int
    BY <2>1, SMT
  <2> QED BY <1>1, <2>1, <2>2, <2>3, SMT
<1>4. mean \in Int /\ mean <= u
  <2>1. Quot(n, 2) \in Int /\ (n >= 0 => 2 * Quot(n, 2) <= n) /\ (n <= 0 => Quot(n, 2) <= 0)
    BY <1>2, QuotTimes, Zenon
  <2>2. Quot(p, 2) \in Int /\ (p >= 0 => 2 * Quot(p, 2) <= p) /\ (p <= 0 => Quot(p, 2) <= 0)
    BY <1>2, QuotTimes, Zenon
  <2> QED BY <2>1, <2>2, SMT
<1>5. new \in Int /\ k * new <= u
  <2> HIDE DEF mean
  <2>1. /\ new \in Int
        /\ mean >= 0 => k * new <= mean
        /\ mean <= 0 => new <= 0
    BY <1>2, <1>4, QuotTimes, Zenon
  <2> HIDE DEF new
  <2>2. new <= 0 => k * new <= 0
    BY <2>1, SMT
  <2>3. k * new \in Int
    BY <2>1, SMT
  <2> QED BY <1>4, <2>1, <2>2, <2>3, SMT
<1> HIDE DEF old, new
<1>6. k * (old + new) <= k * u
  <2>1. k * (old + new) = k * old + k * new /\ (k - 1) * u = k * u - u
    BY <1>3, <1>5, SMT
  <2>2. k * old \in Int /\ k * new \in Int /\ k * u \in Int
    BY <1>3, <1>5, SMT
  <2> QED BY <1>3, <1>5, <2>1, <2>2, SMT
<1>7. old + new <= u
  <2> SUFFICES ASSUME old + new >= u + 1 PROVE FALSE
    BY <1>3, <1>5, SMT
  <2>1. k * (old + new) >= k * (u + 1)
    BY <1>3, <1>5, SMT
  <2>2. k * (u + 1) = k * u + k
    BY SMT
  <2> QED BY <1>3, <1>5, <1>6, <2>1, <2>2, SMT
<1> QED BY <1>3, <1>5, <1>7 DEF old, new, Mixed

LEMMA MixedAtLeast ==
    ASSUME NEW k \in Nat \ {0}, NEW y \in Int, NEW p \in Int, NEW n \in Int, NEW u \in Int,
           u <= 0, u <= y, u <= p, u <= n
    PROVE  Mixed(k, y, p, n) >= u
<1>1. Mixed(k, -y, -p, -n) <= -u
  <2>1. -u \in Nat /\ -y \in Int /\ -p \in Int /\ -n \in Int /\ -y <= -u /\ -p <= -u /\ -n <= -u
    BY SMT
  <2> QED BY <2>1, MixedAtMost
<1>2. Mixed(k, -y, -p, -n) = -Mixed(k, y, p, n)
  <2>1. Quot(-n, 2) = -Quot(n, 2) /\ Quot(-p, 2) = -Quot(p, 2)
    <3>1. 2 \in Nat \ {0}
      BY SMT
    <3> QED BY <3>1, QuotOfNegated
  <2>2. (k - 1) * (-y) = -((k - 1) * y) /\ (k - 1) * y \in Int
    BY SMT
  <2>3. Quot((k - 1) * (-y), k) = -Quot((k - 1) * y, k)
    BY <2>2, QuotOfNegated
  <2>4. Quot(n, 2) \in Int /\ Quot(p, 2) \in Int
    <3>1. 2 \in Nat \ {0}
      BY SMT
    <3> QED BY <3>1, QuotTimes
  <2> DEFINE mean == Quot(n, 2) + Quot(p, 2)
  <2>5. Quot(-n, 2) + Quot(-p, 2) = -mean /\ mean \in Int
    BY <2>1, <2>4, SMT
  <2>6. Quot(-mean, k) = -Quot(mean, k) /\ Quot(mean, k) \in Int
    BY <2>5, QuotOfNegated, QuotTimes
  <2>7. Quot((k - 1) * y, k) \in Int
    BY <2>2, QuotTimes
  <2> QED BY <2>3, <2>5, <2>6, <2>7, SMT DEF Mixed
<1>3. Mixed(k, y, p, n) \in Int
  <2>1. \E m \in Nat : y <= m /\ p <= m /\ n <= m
    <3>1. Abs(y) + Abs(p) + Abs(n) \in Nat /\ y <= Abs(y) + Abs(p) + Abs(n)
          /\ p <= Abs(y) + Abs(p) + Abs(n) /\ n <= Abs(y) + Abs(p) + Abs(n)
      BY SMT DEF Abs
    <3> QED BY <3>1
  <2> QED BY <2>1, MixedAtMost
<1> QED BY <1>1, <1>2, <1>3, SMT

\* The largest number of a set with an upper bound.
LEMMA GreatestNat ==
    ASSUME NEW u \in Nat, NEW T \in SUBSET (0..u), T # {}
    PROVE  \E x \in T : \A z \in x + 1 .. u : z \notin T
<1> DEFINE R == {ss \in Nat \X Nat : ss[1] < ss[2]}
           D == {x \in Nat : x <= u /\ u - x \in T}
<1>1. R = OpToRel(<, Nat)
  BY DEF OpToRel
<1>2. IsWellFoundedOn(R, Nat)
  BY <1>1, NatLessThanWellFounded
<1>3. D \in SUBSET Nat /\ D # {}
  <2>1. PICK x \in T : TRUE
    OBVIOUS
  <2>2. x \in Nat /\ x <= u
    BY SMT
  <2>3. u - x \in Nat /\ u - x <= u /\ u - (u - x) = x
    BY <2>2, SMT
  <2>4. u - x \in D
    BY <2>3
  <2> QED BY <2>4
<1>4. PICK d \in D : \A e \in D : ~(<<e, d>> \in R)
  BY <1>2, <1>3, WFMin
<1>5. d \in Nat /\ d <= u /\ u - d \in T
  OBVIOUS
<1>6. ASSUME NEW z \in (u - d) + 1 .. u, z \in T PROVE FALSE
  <2>1. z \in Int /\ z <= u /\ z > u - d
    BY <1>5, SMT
  <2>2. u - z \in Nat /\ u - z <= u /\ u - (u - z) = z /\ u - z < d
    BY <1>5, <2>1, SMT
  <2>3. u - z \in D
    BY <1>6, <2>2
  <2>4. <<u - z, d>> \in R
    BY <1>5, <2>2
  <2> QED BY <1>4, <2>3, <2>4
<1> QED BY <1>5, <1>6

\* What Stiffness returns shifts y out of the integer.
LEMMA StiffnessShifts ==
    ASSUME NEW y \in Nanoseconds
    PROVE  /\ Stiffness(y) \in 0..Stiffest
           /\ Abs(y) \div 2 ^ (IntBits - Stiffness(y)) = 0
<1> DEFINE out(r) == Abs(y) \div 2 ^ (IntBits - r) = 0
           T == {r \in 0..Stiffest : out(r)}
<1>1. IntBits \in Nat /\ Stiffest \in Nat /\ Stiffest <= IntBits
  BY WidthAssumption, SMT
<1>2. out(0)
  <2>1. Second \in Nat /\ y \in Int /\ -Second < y /\ y < Second
    BY SecondAssumption DEF Nanoseconds
  <2>2. 2 ^ IntBits \in Nat \ {0} /\ 2 * Second <= 2 ^ IntBits
    <3>1. IntBits \in 0..IntBits
      BY <1>1, SMT
    <3> QED BY <3>1, WidthAssumption
  <2>3. Abs(y) \in Nat /\ Abs(y) < 2 ^ IntBits
    BY <2>1, <2>2, SMT DEF Abs
  <2>4. ASSUME NEW a \in Nat, NEW b \in Nat \ {0}, a < b PROVE a \div b = 0
    BY <2>4, SMT
  <2>5. Abs(y) \div 2 ^ IntBits = 0
    BY <2>2, <2>3, <2>4
  <2>6. IntBits - 0 = IntBits
    BY <1>1, SMT
  <2> QED BY <2>5, <2>6
<1>3. T \in SUBSET (0..Stiffest) /\ T # {}
  <2>1. 0 \in 0..Stiffest
    BY <1>1, SMT
  <2> QED BY <1>2, <2>1
<1>4. \E x \in T : \A z \in x + 1 .. Stiffest : z \notin T
  <2> HIDE DEF T
  <2> QED BY <1>1, <1>3, GreatestNat
<1>5. PICK x \in T : \A z \in x + 1 .. Stiffest : z \notin T
  BY <1>4
<1>6. x \in 0..Stiffest /\ out(x) /\ \A q \in x + 1 .. Stiffest : ~out(q)
  <2>1. ASSUME NEW q \in x + 1 .. Stiffest PROVE q \in 0..Stiffest
    BY <1>1, <1>3, SMT
  <2> QED BY <1>5, <2>1
<1> QED BY <1>6 DEF Stiffness

\* The stiffness that is used keeps the product with y in the integer.
LEMMA StiffenedFits ==
    ASSUME NEW filt \in Filter
    PROVE  /\ Stiffened(filt) \in Nat \ {0}
           /\ Abs((Stiffened(filt) - 1) * filt.y) < Large
<1> DEFINE r == Stiffness(filt.y)
           most == 2 ^ r
           rest == 2 ^ (IntBits - r)
           a == Abs(filt.y)
           k == Stiffened(filt)
<1>1. filt.y \in Nanoseconds /\ filt.y \in Int /\ filt.s_exp \in Nat
  BY DEF Filter, Nanoseconds
<1>2. r \in 0..Stiffest /\ a \div rest = 0
  BY <1>1, StiffnessShifts
<1>3. IntBits \in Nat /\ r \in 0..IntBits /\ IntBits - r \in 0..IntBits
  <2> HIDE DEF r
  <2> QED BY <1>2, WidthAssumption, SMT
<1>4. most \in Nat \ {0} /\ rest \in Nat \ {0} /\ most * rest = Large
  BY <1>3, WidthAssumption DEF Large
<1>5. a \in Nat /\ (a = filt.y \/ a = -filt.y)
  BY <1>1, SMT DEF Abs
<1> HIDE DEF most, rest, a
<1>6. a < rest
  <2>1. ASSUME NEW b \in Nat \ {0}, a \div b = 0 PROVE a < b
    BY <1>5, <2>1, SMT
  <2> QED BY <1>2, <1>4, <2>1
<1>7. k \in Nat \ {0} /\ k <= most
  <2>1. \/ filt.s_exp < 1 /\ k = 1
        \/ filt.s_exp >= 1 /\ filt.s_exp < most /\ k = filt.s_exp + 1
        \/ filt.s_exp >= 1 /\ filt.s_exp > most /\ k = most
        \/ filt.s_exp >= 1 /\ filt.s_exp = most /\ k = filt.s_exp
    <3>1. CASE filt.s_exp < 1
      BY <3>1, <1>1, <1>4 DEF Stiffened, most
    <3>2. CASE filt.s_exp >= 1 /\ filt.s_exp < most
      BY <3>2, <1>1, <1>4 DEF Stiffened, most
    <3>3. CASE filt.s_exp >= 1 /\ filt.s_exp > most
      BY <3>3, <1>1, <1>4 DEF Stiffened, most
    <3>4. CASE filt.s_exp >= 1 /\ filt.s_exp = most
      BY <3>4, <1>1, <1>4 DEF Stiffened, most
    <3> QED BY <3>1, <3>2, <3>3, <3>4, <1>1, <1>4, SMT
  <2> HIDE DEF k
  <2> QED BY <2>1, <1>1, <1>4, SMT
<1> HIDE DEF k
<1>8. (k - 1) * a < Large
  <2>1. (k - 1) * a <= most * a
    BY <1>4, <1>5, <1>7, SMT
  <2>2. most * a < most * rest
    BY <1>4, <1>5, <1>6, SMT
  <2>3. (k - 1) * a \in Int /\ most * a \in Int /\ most * rest \in Int
    BY <1>4, <1>5, <1>7, SMT
  <2> QED BY <1>4, <2>1, <2>2, <2>3, SMT
<1>9. Abs((k - 1) * filt.y) = (k - 1) * a
  <2>1. (k - 1) * a \in Nat
    BY <1>5, <1>7, SMT
  <2>2. (k - 1) * filt.y = (k - 1) * a \/ (k - 1) * filt.y = -((k - 1) * a)
    BY <1>1, <1>5, <1>7, SMT
  <2>3. ASSUME NEW m \in Nat PROVE Abs(m) = m /\ Abs(-m) = m
    BY SMT DEF Abs
  <2> QED BY <2>1, <2>2, <2>3
<1> QED BY <1>7, <1>8, <1>9 DEF k

\* An estimate is between the delays it is made of, and so is what is kept.
LEMMA FilterOK ==
    ASSUME NEW filt \in Filter, NEW n \in Nanoseconds
    PROVE  /\ FilterNext(filt, n) \in Filter
           /\ FilterNext(filt, n).nsec_prev = n
           /\ Estimate(filt, n) \in Nanoseconds
           /\ LET known == {0, filt.y, filt.nsec_prev, n}
              IN  /\ \E m \in known : m <= Estimate(filt, n)
                  /\ \E m \in known : m >= Estimate(filt, n)
<1> DEFINE k == Stiffened(filt)
           z == Mixed(k, filt.y, filt.nsec_prev, n)
<1>1. /\ filt.y \in Int /\ filt.nsec_prev \in Int /\ n \in Int /\ Second \in Nat \ {0}
      /\ -Second < filt.y /\ filt.y < Second
      /\ -Second < filt.nsec_prev /\ filt.nsec_prev < Second
      /\ -Second < n /\ n < Second
  BY SecondAssumption DEF Filter, Nanoseconds
<1>2. k \in Nat \ {0}
  BY StiffenedFits
<1>3. FilterNext(filt, n) = [nsec_prev |-> n, y |-> z, s_exp |-> k]
  BY DEF FilterNext, Filtered, Mixed
<1> HIDE DEF k
<1>4. ASSUME NEW u \in Nat, filt.y <= u, filt.nsec_prev <= u, n <= u
      PROVE  z \in Int /\ z <= u
  BY <1>1, <1>2, <1>4, MixedAtMost
<1>5. ASSUME NEW u \in Int, u <= 0, u <= filt.y, u <= filt.nsec_prev, u <= n
      PROVE  z >= u
  BY <1>1, <1>2, <1>5, MixedAtLeast
<1> HIDE DEF z
<1>6. z \in Nanoseconds
  <2>1. z \in Int /\ z <= Second - 1
    <3>1. Second - 1 \in Nat /\ filt.y <= Second - 1 /\ filt.nsec_prev <= Second - 1 /\ n <= Second - 1
      BY <1>1, SMT
    <3> QED BY <3>1, <1>4
  <2>2. z >= 1 - Second
    <3>1. /\ 1 - Second \in Int /\ 1 - Second <= 0 /\ 1 - Second <= filt.y
          /\ 1 - Second <= filt.nsec_prev /\ 1 - Second <= n
      BY <1>1, SMT
    <3> QED BY <3>1, <1>5
  <2> QED BY <2>1, <2>2, <1>1, SMT DEF Nanoseconds
<1>7. FilterNext(filt, n) \in Filter /\ FilterNext(filt, n).nsec_prev = n
  BY <1>2, <1>3, <1>6 DEF Filter
<1>8. Estimate(filt, n) = n \/ Estimate(filt, n) = z
  BY <1>3 DEF Estimate
<1>9. Estimate(filt, n) \in Nanoseconds
  BY <1>6, <1>8
<1> DEFINE known == {0, filt.y, filt.nsec_prev, n}
<1>10. \E m \in known : m <= z
  <2>1. PICK u \in known : u <= 0 /\ u <= filt.y /\ u <= filt.nsec_prev /\ u <= n
    <3>1. \E u \in {0, filt.y, filt.nsec_prev, n} :
            u <= 0 /\ u <= filt.y /\ u <= filt.nsec_prev /\ u <= n
      BY <1>1, SMT
    <3> QED BY <3>1
  <2>2. u \in Int
    BY <1>1
  <2>3. z >= u
    BY <1>5, <2>1, <2>2
  <2>4. z \in Int
    BY <1>6 DEF Nanoseconds
  <2>5. u <= z
    BY <2>2, <2>3, <2>4, SMT
  <2> QED BY <2>5
<1>11. \E m \in known : m >= z
  <2>1. PICK u \in known : u >= 0 /\ filt.y <= u /\ filt.nsec_prev <= u /\ n <= u
    <3>1. \E u \in {0, filt.y, filt.nsec_prev, n} :
            u >= 0 /\ filt.y <= u /\ filt.nsec_prev <= u /\ n <= u
      BY <1>1, SMT
    <3> QED BY <3>1
  <2>2. u \in Nat
    BY <1>1, <2>1, SMT
  <2>3. z <= u /\ z \in Int
    BY <1>4, <2>1, <2>2
  <2>4. u >= z
    BY <2>2, <2>3, SMT
  <2> QED BY <2>4
<1>12. n <= n /\ n >= n
  BY <1>1, SMT
<1> QED BY <1>7, <1>8, <1>9, <1>10, <1>11, <1>12

-----------------------------------------------------------------------------
(* The record of the servo *)

ServoState ==
    [owd_filt : Filter, meanPathDelay : TimeInternal, peerMeanPathDelay : TimeInternal,
     delayMS : TimeInternal, ofm_prev : Int, ofm_zline : [Places -> Int],
     updateOffset_count : Int, offset_first_updated : BOOLEAN, syntonized : BOOLEAN,
     syntonized_z1 : BOOLEAN, syntonized_z2 : BOOLEAN, observed_drift : Int, tick : Int,
     maxDelay : Int, discarded : Int]

\* The offsets and the flags are left alone.
SameOffsets(v, w) ==
    /\ w.ofm_prev = v.ofm_prev
    /\ w.syntonized = v.syntonized
    /\ w.syntonized_z1 = v.syntonized_z1
    /\ w.syntonized_z2 = v.syntonized_z2

SameMaxDelay(v, w) == ~rtOpts.maxDelayAutoTune => w.maxDelay = v.maxDelay

SameDelays(v, w) ==
    /\ w.owd_filt = v.owd_filt
    /\ w.meanPathDelay = v.meanPathDelay
    /\ w.peerMeanPathDelay = v.peerMeanPathDelay

LEMMA ServoFields ==
    ASSUME NEW v \in ServoState
    PROVE  /\ v.owd_filt \in Filter /\ v.meanPathDelay \in TimeInternal
           /\ v.peerMeanPathDelay \in TimeInternal /\ v.delayMS \in TimeInternal
           /\ v.ofm_prev \in Int /\ v.ofm_zline \in [Places -> Int]
           /\ v.updateOffset_count \in Int /\ v.offset_first_updated \in BOOLEAN
           /\ v.syntonized \in BOOLEAN /\ v.syntonized_z1 \in BOOLEAN
           /\ v.syntonized_z2 \in BOOLEAN /\ v.observed_drift \in Int /\ v.tick \in Int
           /\ v.maxDelay \in Int /\ v.discarded \in Int
  BY DEF ServoState

LEMMA ReceivedOK ==
    ASSUME NEW t \in TimeInternal
    PROVE  Received(t) \in TimeInternal
<1> DEFINE old == [msb |-> 0, lsb |-> 0, nanosecondsField |-> 0]
<1>1. Word \in Nat \ {0} /\ HalfWord \in Nat \ {0}
  BY WordAssumption
<1>2. t.seconds \in Int /\ t.nanoseconds \in Int
  BY DEF TimeInternal
<1>3. CASE t.seconds < 0 \/ t.nanoseconds < 0
  <2>1. fromInternalTime(t, old) = old
    BY <1>3 DEF fromInternalTime
  <2>2. Received(t) = Time(0 * Word + 0, 0)
    BY <2>1 DEF Received, toInternalTime
  <2> QED BY <1>1, <2>2 DEF Time, TimeInternal
<1>4. CASE ~(t.seconds < 0 \/ t.nanoseconds < 0)
  <2> DEFINE high == (t.seconds \div Word) % HalfWord
             low  == t.seconds % Word
  <2>1. fromInternalTime(t, old) = [msb |-> high, lsb |-> low, nanosecondsField |-> t.nanoseconds]
    BY <1>4 DEF fromInternalTime
  <2>2. high \in Int /\ low \in Int
    BY <1>1, <1>2, <1>4, SMT
  <2> HIDE DEF high, low
  <2>3. Received(t) = Time(high * Word + low, t.nanoseconds)
    BY <2>1 DEF Received, toInternalTime
  <2> QED BY <1>1, <1>2, <2>2, <2>3 DEF Time, TimeInternal
<1> QED BY <1>3, <1>4

LEMMA TimeAtOK ==
    ASSUME NEW n \in Int
    PROVE  TimeAt(n) \in TimeInternal /\ IsNormal(TimeAt(n)) /\ Value(TimeAt(n)) = n
<1>1. Time(0, n) \in TimeInternal /\ Value(Time(0, n)) = n
  BY SecondAssumption DEF Time, TimeInternal, Value
<1> QED BY <1>1, NormalizeTime DEF TimeAt

LEMMA DoubledOK ==
    ASSUME NEW n \in Int
    PROVE  Doubled(n) \in Int
<1>1. Large \in Nat \ {0}
  <2>1. IntBits \in 0..IntBits
    BY WidthAssumption, SMT
  <2> QED BY <2>1, WidthAssumption DEF Large
<1>2. (2 * n) % (2 * Large) \in Int
  BY <1>1, SMT
<1> QED BY <1>1, <1>2 DEF Doubled

LEMMA AutoTunedOK ==
    ASSUME NEW v \in ServoState, rtOpts \in Options
    PROVE  /\ AutoTuned(v) \in ServoState
           /\ SameOffsets(v, AutoTuned(v)) /\ SameMaxDelay(v, AutoTuned(v))
           /\ SameDelays(v, AutoTuned(v))
<1> DEFINE reset == [v EXCEPT !.discarded = 0]
<1>1. v.maxDelay \in Int /\ rtOpts.maxDelayAutoTune \in BOOLEAN
      /\ rtOpts.origMaxDelay \in Nat /\ v.maxDelay \div 2 \in Int
  <2>1. ASSUME NEW n \in Int PROVE n \div 2 \in Int
    BY SMT
  <2> QED BY <2>1, ServoFields DEF Options
<1>2. reset \in ServoState /\ reset.maxDelay = v.maxDelay
  BY DEF ServoState
<1>3. CASE rtOpts.maxDelayAutoTune /\ v.discarded >= rtOpts.discardedPacketThreshold
  <2>1. Doubled(v.maxDelay) \in Int
    BY <1>1, DoubledOK
  <2>2. AutoTuned(v) = increaseMaxDelayThreshold(reset)
    <3>1. v.discarded \in Int /\ rtOpts.discardedPacketThreshold \in Nat
      BY ServoFields DEF Options
    <3>2. ~(v.discarded < -rtOpts.discardedPacketThreshold)
      BY <1>3, <3>1, SMT
    <3> QED BY <1>3, <3>2, Zenon DEF AutoTuned
  <2> DEFINE m == Doubled(v.maxDelay)
  <2> HIDE DEF reset, m
  <2>3. AutoTuned(v) = [reset EXCEPT !.maxDelay = m]
    BY <1>2, <2>2 DEF increaseMaxDelayThreshold, m
  <2>4. m \in Int
    BY <2>1 DEF m
  <2>5. AutoTuned(v) \in ServoState
    BY <1>2, <2>3, <2>4 DEF ServoState
  <2>6. SameOffsets(reset, AutoTuned(v)) /\ SameDelays(reset, AutoTuned(v))
    BY <1>2, <2>3 DEF ServoState, SameOffsets, SameDelays
  <2>7. SameOffsets(v, reset) /\ SameDelays(v, reset)
    BY DEF ServoState, SameOffsets, SameDelays, reset
  <2> QED BY <1>3, <2>5, <2>6, <2>7 DEF SameOffsets, SameMaxDelay, SameDelays
<1>4. CASE /\ ~(rtOpts.maxDelayAutoTune /\ v.discarded >= rtOpts.discardedPacketThreshold)
           /\ rtOpts.maxDelayAutoTune /\ v.discarded < -rtOpts.discardedPacketThreshold
  <2>1. AutoTuned(v) = decreaseMaxDelayThreshold(reset)
    BY <1>4, Zenon DEF AutoTuned
  <2>2. \/ AutoTuned(v) = reset
        \/ AutoTuned(v) = [reset EXCEPT !.maxDelay = v.maxDelay \div 2]
    BY <1>2, <2>1, SMTT(30) DEF decreaseMaxDelayThreshold
  <2> QED BY <1>1, <1>2, <1>4, <2>2, ZenonT(60) DEF ServoState, SameOffsets, SameMaxDelay, SameDelays
<1>5. CASE /\ ~(rtOpts.maxDelayAutoTune /\ v.discarded >= rtOpts.discardedPacketThreshold)
           /\ ~(rtOpts.maxDelayAutoTune /\ v.discarded < -rtOpts.discardedPacketThreshold)
  <2>1. AutoTuned(v) = v
    BY <1>5, Zenon DEF AutoTuned
  <2> QED BY <2>1 DEF SameOffsets, SameMaxDelay, SameDelays
<1> QED BY <1>3, <1>4, <1>5

LEMMA CountedOK ==
    ASSUME NEW v \in ServoState, NEW n \in Int, rtOpts \in Options
    PROVE  /\ Counted(v, n) \in ServoState
           /\ SameOffsets(v, Counted(v, n)) /\ SameMaxDelay(v, Counted(v, n))
           /\ SameDelays(v, Counted(v, n))
  BY DEF Counted, ServoState, SameOffsets, SameMaxDelay, SameDelays

\* The filter is cleared, but for y.
LEMMA ClearedOK ==
    ASSUME NEW v \in ServoState
    PROVE  LET w == [v EXCEPT !.owd_filt.s_exp = 0, !.owd_filt.nsec_prev = 0]
           IN  /\ w \in ServoState /\ SameOffsets(v, w) /\ SameMaxDelay(v, w)
               /\ w.meanPathDelay = v.meanPathDelay
               /\ w.peerMeanPathDelay = v.peerMeanPathDelay
               /\ w.owd_filt.nsec_prev = 0
<1> DEFINE filt == [v.owd_filt EXCEPT !.s_exp = 0, !.nsec_prev = 0]
           w == [v EXCEPT !.owd_filt = filt]
<1>1. 0 \in Nanoseconds
  BY SecondAssumption, SMT DEF Nanoseconds
<1>2. filt \in Filter /\ filt.nsec_prev = 0
  BY <1>1, ServoFields DEF Filter
<1>3. [v EXCEPT !.owd_filt.s_exp = 0, !.owd_filt.nsec_prev = 0] = w
  BY ServoFields DEF ServoState, Filter
<1> HIDE DEF filt
<1>4. w \in ServoState /\ w.owd_filt = filt
  BY <1>2 DEF ServoState
<1>5. /\ SameOffsets(v, w) /\ SameMaxDelay(v, w)
      /\ w.meanPathDelay = v.meanPathDelay
      /\ w.peerMeanPathDelay = v.peerMeanPathDelay
  BY DEF ServoState, SameOffsets, SameMaxDelay
<1> QED BY <1>2, <1>3, <1>4, <1>5

\* A new estimate of the path delay.
LEMMA EstimateOK ==
    ASSUME NEW filt \in Filter, NEW n \in Nanoseconds
    PROVE  /\ Time(0, Estimate(filt, n)) \in TimeInternal
           /\ Between(Time(0, Estimate(filt, n)), filt, FilterNext(filt, n).nsec_prev)
<1> DEFINE e == Estimate(filt, n)
<1>1. e \in Int
  BY FilterOK DEF Nanoseconds
<1>2. FilterNext(filt, n).nsec_prev = n
  BY FilterOK
<1>3. LET known == {0, filt.y, filt.nsec_prev, n}
      IN  (\E m \in known : m <= e) /\ (\E m \in known : m >= e)
  BY FilterOK
<1> HIDE DEF e
<1>4. Time(0, e).nanoseconds = e /\ Time(0, e) \in TimeInternal
  BY <1>1 DEF Time, TimeInternal
<1>5. Between(Time(0, e), filt, FilterNext(filt, n).nsec_prev)
  BY <1>2, <1>3, <1>4 DEF Between
<1> QED BY <1>4, <1>5 DEF e

LEMMA ZeroBetween ==
    ASSUME NEW filt, NEW last
    PROVE  ZeroTime \in TimeInternal /\ Between(ZeroTime, filt, last)
<1>1. ZeroTime = [seconds |-> 0, nanoseconds |-> 0]
  BY DEF ZeroTime, Time
<1>2. 0 \in {0, filt.y, filt.nsec_prev, last} /\ 0 <= 0 /\ 0 >= 0
  BY SMT
<1> QED BY <1>1, <1>2 DEF Between, TimeInternal

LEMMA OneWayOK ==
    ASSUME NEW v \in ServoState, NEW send \in TimeInternal, NEW recv \in TimeInternal,
           NEW correction \in TimeInternal
    PROVE  LET path == OneWay(v, send, recv, correction)
           IN  /\ path \in TimeInternal
               /\ path.nanoseconds \in Nanoseconds
<1> DEFINE path == OneWay(v, send, recv, correction)
<1>1. path \in TimeInternal /\ IsNormal(path)
  BY ServoFields, AddAndSub, HalfOfTime DEF OneWay
<1> HIDE DEF path
<1>2. path.nanoseconds \in Nanoseconds
  BY <1>1 DEF Nanoseconds, IsNormal, TimeInternal
<1> QED BY <1>1, <1>2 DEF path

\* A response of the master changes the filter and the path delay.
LEMMA UpdateDelayOK ==
    ASSUME NEW v \in ServoState, NEW send \in TimeInternal, NEW recv \in TimeInternal,
           NEW correction \in TimeInternal, rtOpts \in Options
    PROVE  LET w == updateDelay(v, send, recv, correction)
           IN  /\ w \in ServoState /\ SameOffsets(v, w) /\ SameMaxDelay(v, w)
               /\ w.peerMeanPathDelay = v.peerMeanPathDelay
               /\ \/ w.meanPathDelay = v.meanPathDelay
                  \/ Between(w.meanPathDelay, v.owd_filt, w.owd_filt.nsec_prev)
<1> DEFINE w == updateDelay(v, send, recv, correction)
           path == OneWay(v, send, recv, correction)
           accepted == Counted(v, -1)
           far == Implausible(v, subTime(recv, send))
           more == Counted(v, 1)
           goal == /\ w \in ServoState /\ SameOffsets(v, w) /\ SameMaxDelay(v, w)
                   /\ w.peerMeanPathDelay = v.peerMeanPathDelay
                   /\ \/ w.meanPathDelay = v.meanPathDelay
                      \/ Between(w.meanPathDelay, v.owd_filt, w.owd_filt.nsec_prev)
<1>1. path \in TimeInternal /\ path.nanoseconds \in Nanoseconds
  BY OneWayOK
<1>2. /\ accepted \in ServoState /\ SameOffsets(v, accepted) /\ SameMaxDelay(v, accepted)
      /\ SameDelays(v, accepted)
      /\ more \in ServoState /\ SameOffsets(v, more) /\ SameMaxDelay(v, more)
      /\ SameDelays(v, more)
  <2>1. -1 \in Int /\ 1 \in Int
    BY SMT
  <2> QED BY <2>1, CountedOK
<1>3. CASE far
  <2>1. w = AutoTuned(more)
    BY <1>3, Zenon DEF updateDelay
  <2> HIDE DEF w, more
  <2> QED BY <1>2, <2>1, AutoTunedOK DEF SameOffsets, SameMaxDelay, SameDelays, w
<1>4. CASE ~far /\ ~v.offset_first_updated
  <2>1. w = AutoTuned(v)
    BY <1>4, Zenon DEF updateDelay
  <2> HIDE DEF w
  <2> QED BY <2>1, AutoTunedOK DEF SameOffsets, SameMaxDelay, SameDelays, w
<1>5. CASE ~far /\ v.offset_first_updated /\ path.seconds # 0
  <2>1. w = [accepted EXCEPT !.owd_filt.s_exp = 0, !.owd_filt.nsec_prev = 0]
    BY <1>5, Zenon DEF updateDelay
  <2> HIDE DEF w, accepted
  <2>2. /\ w \in ServoState /\ SameOffsets(accepted, w) /\ SameMaxDelay(accepted, w)
        /\ w.meanPathDelay = accepted.meanPathDelay
        /\ w.peerMeanPathDelay = accepted.peerMeanPathDelay
    BY <1>2, <2>1, ClearedOK
  <2> QED BY <1>2, <2>2 DEF SameOffsets, SameMaxDelay, SameDelays, w
<1>6. CASE ~far /\ v.offset_first_updated /\ path.seconds = 0 /\ path.nanoseconds < 0
  <2>1. w = accepted
    BY <1>6, Zenon DEF updateDelay
  <2> HIDE DEF w, accepted
  <2> QED BY <1>2, <2>1 DEF SameOffsets, SameMaxDelay, SameDelays, w
<1>7. CASE ~far /\ v.offset_first_updated /\ path.seconds = 0 /\ ~(path.nanoseconds < 0)
  <2> DEFINE filt == FilterNext(v.owd_filt, path.nanoseconds)
             new == Time(0, Estimate(v.owd_filt, path.nanoseconds))
             u == [accepted EXCEPT !.owd_filt = filt, !.meanPathDelay = new]
  <2>1. w = AutoTuned(u)
    BY <1>7, Zenon DEF updateDelay
  <2>2. filt \in Filter /\ new \in TimeInternal /\ Between(new, v.owd_filt, filt.nsec_prev)
    BY <1>1, ServoFields, FilterOK, EstimateOK
  <2> HIDE DEF w, accepted, filt, new
  <2>3. /\ u \in ServoState /\ SameOffsets(accepted, u) /\ SameMaxDelay(accepted, u)
        /\ u.owd_filt = filt /\ u.meanPathDelay = new
        /\ u.peerMeanPathDelay = accepted.peerMeanPathDelay
    BY <1>2, <2>2 DEF ServoState, SameOffsets, SameMaxDelay
  <2> HIDE DEF u
  <2>4. /\ w \in ServoState /\ SameOffsets(u, w) /\ SameMaxDelay(u, w) /\ SameDelays(u, w)
    BY <2>1, <2>3, AutoTunedOK
  <2> QED BY <1>2, <2>2, <2>3, <2>4 DEF SameOffsets, SameMaxDelay, SameDelays, w
<1>8. v.offset_first_updated \in BOOLEAN
  BY ServoFields
<1> QED BY <1>3, <1>4, <1>5, <1>6, <1>7, <1>8

\* The path delay of an exchange with the peer is normal.
LEMMA PeerDelayOK ==
    ASSUME NEW twoStep \in BOOLEAN, NEW t1 \in TimeInternal, NEW t2 \in TimeInternal,
           NEW t3 \in TimeInternal, NEW t4 \in TimeInternal, NEW correction \in TimeInternal
    PROVE  LET path == PeerDelay(twoStep, t1, t2, t3, t4, correction)
           IN  path \in TimeInternal /\ path.nanoseconds \in Nanoseconds
<1> DEFINE path == PeerDelay(twoStep, t1, t2, t3, t4, correction)
<1>1. path \in TimeInternal /\ IsNormal(path)
  <2>1. CASE twoStep
    BY <2>1, AddAndSub, HalfOfTime DEF PeerDelay
  <2>2. CASE ~twoStep
    BY <2>2, AddAndSub, HalfOfTime DEF PeerDelay
  <2> QED BY <2>1, <2>2
<1> HIDE DEF path
<1>2. path.nanoseconds \in Nanoseconds
  BY <1>1 DEF Nanoseconds, IsNormal, TimeInternal
<1> QED BY <1>1, <1>2 DEF path

LEMMA UpdatePeerDelayOK ==
    ASSUME NEW v \in ServoState, NEW path \in TimeInternal, path.nanoseconds \in Nanoseconds
    PROVE  LET w == updatePeerDelay(v, path)
           IN  /\ w \in ServoState /\ SameOffsets(v, w) /\ SameMaxDelay(v, w)
               /\ w.meanPathDelay = v.meanPathDelay
               /\ Between(w.peerMeanPathDelay, v.owd_filt, w.owd_filt.nsec_prev)
<1> DEFINE w == updatePeerDelay(v, path)
<1>1. CASE path.seconds # 0
  <2> DEFINE u == [v EXCEPT !.peerMeanPathDelay = path]
  <2>1. /\ u \in ServoState /\ SameOffsets(v, u) /\ SameMaxDelay(v, u)
        /\ u.meanPathDelay = v.meanPathDelay /\ u.peerMeanPathDelay = path
    BY DEF ServoState, SameOffsets, SameMaxDelay
  <2>2. w = [u EXCEPT !.owd_filt.s_exp = 0, !.owd_filt.nsec_prev = 0]
    BY <1>1 DEF updatePeerDelay, ServoState
  <2> HIDE DEF u, w
  <2>3. /\ w \in ServoState /\ SameOffsets(u, w) /\ SameMaxDelay(u, w)
        /\ w.meanPathDelay = u.meanPathDelay /\ w.peerMeanPathDelay = u.peerMeanPathDelay
    BY <2>1, <2>2, ClearedOK
  <2>4. Between(w.peerMeanPathDelay, v.owd_filt, w.owd_filt.nsec_prev)
    BY <1>1, <2>1, <2>3 DEF Between
  <2> QED BY <2>1, <2>3, <2>4 DEF SameOffsets, SameMaxDelay, w
<1>2. CASE path.seconds = 0
  <2> DEFINE filt == FilterNext(v.owd_filt, path.nanoseconds)
             new == Time(0, Estimate(v.owd_filt, path.nanoseconds))
  <2>1. w = [v EXCEPT !.peerMeanPathDelay = new, !.owd_filt = filt]
    BY <1>2 DEF updatePeerDelay
  <2>2. filt \in Filter /\ new \in TimeInternal /\ Between(new, v.owd_filt, filt.nsec_prev)
    BY ServoFields, FilterOK, EstimateOK
  <2> HIDE DEF w, filt, new
  <2>3. /\ w \in ServoState /\ SameOffsets(v, w) /\ SameMaxDelay(v, w)
        /\ w.meanPathDelay = v.meanPathDelay /\ w.peerMeanPathDelay = new /\ w.owd_filt = filt
    BY <2>1, <2>2 DEF ServoState, SameOffsets, SameMaxDelay
  <2> QED BY <2>2, <2>3 DEF w
<1> QED BY <1>1, <1>2

LEMMA PathDelayOK ==
    ASSUME NEW v \in ServoState
    PROVE  PathDelay(v) \in TimeInternal
<1>1. ZeroTime \in TimeInternal
  BY ZeroBetween
<1>2. v.syntonized \in BOOLEAN /\ v.meanPathDelay \in TimeInternal
      /\ v.peerMeanPathDelay \in TimeInternal
  BY ServoFields
<1>3. \/ PathDelay(v) = ZeroTime \/ PathDelay(v) = v.peerMeanPathDelay
      \/ PathDelay(v) = v.meanPathDelay
  BY <1>2, Zenon DEF PathDelay
<1> QED BY <1>1, <1>2, <1>3

\* The average of an offset with the last one.
Averaged(n, last) == Quot(n, 2) + Quot(last, 2)

LEMMA AveragedBounded ==
    ASSUME NEW n \in Int, NEW last \in Int
    PROVE  /\ Averaged(n, last) \in Int
           /\ \A bound \in Nat : Abs(n) <= bound /\ Abs(last) <= bound
                                    => Abs(Averaged(n, last)) <= bound
<1>1. 2 \in Nat \ {0}
  BY SMT
<1>2. /\ Quot(n, 2) \in Int
      /\ n >= 0 => Quot(n, 2) >= 0 /\ 2 * Quot(n, 2) <= n
      /\ n <= 0 => Quot(n, 2) <= 0 /\ 2 * Quot(n, 2) >= n
  BY <1>1, QuotTimes, Zenon
<1>3. /\ Quot(last, 2) \in Int
      /\ last >= 0 => Quot(last, 2) >= 0 /\ 2 * Quot(last, 2) <= last
      /\ last <= 0 => Quot(last, 2) <= 0 /\ 2 * Quot(last, 2) >= last
  BY <1>1, QuotTimes, Zenon
<1> DEFINE a == Quot(n, 2)
           b == Quot(last, 2)
<1> HIDE DEF a, b
<1>4. /\ a + b \in Int
      /\ \A bound \in Nat : Abs(n) <= bound /\ Abs(last) <= bound => Abs(a + b) <= bound
  BY <1>2, <1>3, SMT DEF Abs, a, b
<1> QED BY <1>4 DEF Averaged, a, b

\* The offset of a Sync before it is averaged.
Measured(v, send, recv, correction) ==
    subTime(subTime(subTime(recv, send), correction), PathDelay(v))

LEMMA UpdateOffsetOK ==
    ASSUME NEW v \in ServoState, NEW send \in TimeInternal, NEW recv \in TimeInternal,
           NEW correction \in TimeInternal
    PROVE  LET got == updateOffset(v, send, recv, correction)
               w == got.servo
               raw == Measured(v, send, recv, correction)
           IN  /\ w \in ServoState /\ got.offset \in TimeInternal /\ raw \in TimeInternal
               /\ w.maxDelay = v.maxDelay /\ SameDelays(v, w)
               /\ IsLarge(v, raw) =>
                    /\ got.offset = raw /\ w.ofm_prev = 0
                    /\ w.syntonized = v.syntonized /\ w.syntonized_z1 = v.syntonized_z1
                    /\ w.syntonized_z2 = v.syntonized_z2
               /\ ~IsLarge(v, raw) =>
                    /\ w.syntonized_z1 = v.syntonized /\ w.syntonized_z2 = v.syntonized_z1
                    /\ v.syntonized => w.syntonized
                    /\ got.offset.seconds = raw.seconds
                    /\ FiltersOffset(v) =>
                          /\ got.offset.nanoseconds = Averaged(raw.nanoseconds, v.ofm_prev)
                          /\ w.ofm_prev = raw.nanoseconds
                    /\ ~FiltersOffset(v) => got.offset = raw /\ w.ofm_prev = v.ofm_prev
<1> DEFINE got == updateOffset(v, send, recv, correction)
           delayMS == subTime(subTime(recv, send), correction)
           raw == Measured(v, send, recv, correction)
           seen == [v EXCEPT !.delayMS = delayMS, !.offset_first_updated = TRUE]
           n == IF FiltersOffset(v) THEN Averaged(raw.nanoseconds, v.ofm_prev)
                                    ELSE raw.nanoseconds
           prev == IF FiltersOffset(v) THEN raw.nanoseconds ELSE v.ofm_prev
           line == [i \in Places |-> IF i = 0 THEN n ELSE v.ofm_zline[i - 1]]
           taken == [seen EXCEPT !.ofm_prev = prev, !.ofm_zline = line]
           flagged == Flags(taken)
<1>1. delayMS \in TimeInternal /\ raw \in TimeInternal
  <2>1. delayMS \in TimeInternal
    BY AddAndSub
  <2> QED BY <2>1, PathDelayOK, AddAndSub DEF Measured
<1>2. raw.seconds \in Int /\ raw.nanoseconds \in Int /\ Time(raw.seconds, raw.nanoseconds) = raw
  BY <1>1 DEF TimeInternal, Time
<1> HIDE DEF delayMS, raw
<1>3. /\ seen \in ServoState /\ SameOffsets(v, seen) /\ SameDelays(v, seen)
      /\ seen.maxDelay = v.maxDelay /\ seen.ofm_zline = v.ofm_zline
  BY <1>1 DEF ServoState, SameOffsets, SameDelays
<1>4. CASE IsLarge(v, raw)
  <2>1. got = [servo |-> [seen EXCEPT !.ofm_prev = 0], offset |-> raw]
    BY <1>4 DEF updateOffset, Measured, raw, delayMS
  <2> HIDE DEF seen, got
  <2>2. got.servo = [seen EXCEPT !.ofm_prev = 0] /\ got.offset = raw
    BY <2>1
  <2>3. /\ got.servo \in ServoState /\ got.servo.ofm_prev = 0
        /\ SameDelays(seen, got.servo) /\ got.servo.maxDelay = seen.maxDelay
        /\ got.servo.syntonized = seen.syntonized
        /\ got.servo.syntonized_z1 = seen.syntonized_z1
        /\ got.servo.syntonized_z2 = seen.syntonized_z2
    BY <1>3, <2>2 DEF ServoState, SameDelays
  <2> QED BY <1>1, <1>3, <1>4, <2>2, <2>3 DEF SameOffsets, SameDelays, raw, got
<1>5. CASE ~IsLarge(v, raw)
  <2>1. n \in Int /\ prev \in Int
    BY <1>2, ServoFields, AveragedBounded
  <2>2. line \in [Places -> Int]
    <3>1. ASSUME NEW i \in Places, i # 0 PROVE i - 1 \in Places
      BY <3>1, ControllerAssumption, SMT DEF Places
    <3>2. v.ofm_zline \in [Places -> Int]
      BY ServoFields
    <3> HIDE DEF n
    <3> QED BY <2>1, <3>1, <3>2
  <2>3. got = [servo |-> [flagged EXCEPT !.updateOffset_count = IF @ > OfmDelayLen THEN @ ELSE @ + 1],
               offset |-> Time(raw.seconds, n)]
    <3>1. taken = [seen EXCEPT
                      !.ofm_prev = IF FiltersOffset(v) THEN raw.nanoseconds ELSE @,
                      !.ofm_zline = [i \in Places |-> IF i = 0 THEN n ELSE @[i - 1]]]
      <4> HIDE DEF seen, n
      <4> QED BY <1>3 DEF SameOffsets, ServoState
    <3> HIDE DEF taken
    <3>2. n = IF FiltersOffset(v)
              THEN Quot(raw.nanoseconds, 2) + Quot(v.ofm_prev, 2) ELSE raw.nanoseconds
      BY DEF Averaged
    <3> HIDE DEF n
    <3> QED BY <1>5, <3>1, <3>2 DEF updateOffset, Measured, raw, delayMS
  <2> HIDE DEF got, seen, prev, line, n
  <2>4. /\ taken \in ServoState /\ taken.ofm_prev = prev
        /\ SameDelays(seen, taken) /\ taken.maxDelay = seen.maxDelay
        /\ taken.syntonized = seen.syntonized /\ taken.syntonized_z1 = seen.syntonized_z1
    BY <1>3, <2>1, <2>2 DEF ServoState, SameDelays
  <2> HIDE DEF taken
  <2>5. syntonizeFrequency(taken) \in BOOLEAN
    BY DEF syntonizeFrequency
  <2>6. taken.syntonized => syntonizeFrequency(taken)
    BY DEF syntonizeFrequency
  <2> DEFINE right == syntonizeFrequency(taken)
  <2> HIDE DEF right
  <2>7. flagged = [taken EXCEPT !.syntonized_z2 = taken.syntonized_z1,
                                !.syntonized_z1 = taken.syntonized, !.syntonized = right]
    BY DEF Flags, right
  <2> HIDE DEF flagged
  <2>8. /\ flagged \in ServoState /\ flagged.ofm_prev = prev
        /\ SameDelays(taken, flagged) /\ flagged.maxDelay = taken.maxDelay
        /\ flagged.syntonized_z2 = taken.syntonized_z1
        /\ flagged.syntonized_z1 = taken.syntonized /\ flagged.syntonized = right
    BY <2>4, <2>5, <2>7 DEF ServoState, SameDelays, right
  <2> DEFINE more == IF flagged.updateOffset_count > OfmDelayLen
                     THEN flagged.updateOffset_count ELSE flagged.updateOffset_count + 1
  <2>9. more \in Int
    BY <2>8 DEF ServoState
  <2>10. got.servo = [flagged EXCEPT !.updateOffset_count = more]
         /\ got.offset = Time(raw.seconds, n)
    BY <2>3
  <2> HIDE DEF more
  <2>11. /\ got.servo \in ServoState /\ got.servo.ofm_prev = prev
         /\ SameDelays(flagged, got.servo) /\ got.servo.maxDelay = flagged.maxDelay
         /\ got.servo.syntonized_z2 = flagged.syntonized_z2
         /\ got.servo.syntonized_z1 = flagged.syntonized_z1
         /\ got.servo.syntonized = flagged.syntonized
    BY <2>8, <2>9, <2>10 DEF ServoState, SameDelays
  <2>12. /\ got.offset.seconds = raw.seconds /\ got.offset.nanoseconds = n
         /\ got.offset \in TimeInternal
    BY <1>2, <2>1, <2>10 DEF Time, TimeInternal
  <2>13. v.syntonized => got.servo.syntonized
    BY <1>3, <2>4, <2>6, <2>8, <2>11 DEF SameOffsets, right
  <2>14. ~FiltersOffset(v) => got.offset = raw /\ got.servo.ofm_prev = v.ofm_prev
    BY <1>2, <2>10, <2>11 DEF n, prev
  <2>15. FiltersOffset(v) => /\ got.offset.nanoseconds = Averaged(raw.nanoseconds, v.ofm_prev)
                             /\ got.servo.ofm_prev = raw.nanoseconds
    BY <2>11, <2>12 DEF n, prev
  <2>16. /\ got.servo.syntonized_z1 = v.syntonized /\ got.servo.syntonized_z2 = v.syntonized_z1
         /\ got.servo.maxDelay = v.maxDelay /\ SameDelays(v, got.servo)
    BY <1>3, <2>4, <2>8, <2>11 DEF SameOffsets, SameDelays
  <2> QED BY <1>1, <1>5, <2>11, <2>12, <2>13, <2>14, <2>15, <2>16 DEF raw, got
<1> QED BY <1>4, <1>5

LEMMA ClampOK ==
    ASSUME NEW n \in Int
    PROVE  Clamp(n, AdjFreqMax) \in Int
  BY ControllerAssumption DEF Clamp

LEMMA AdjTickRateOK ==
    ASSUME NEW v \in ServoState, NEW change \in Int
    PROVE  LET w == adjTickRate(v, change)
           IN  w \in ServoState /\ SameOffsets(v, w) /\ SameDelays(v, w) /\ w.maxDelay = v.maxDelay
<1> DEFINE t == initial_tick + Clamp(change, AdjFreqMax)
<1>1. t \in Int
  BY ClampOK, ControllerAssumption
<1>2. adjTickRate(v, change) = [v EXCEPT !.tick = t]
  BY DEF adjTickRate
<1> HIDE DEF t
<1> QED BY <1>1, <1>2 DEF ServoState, SameOffsets, SameDelays

LEMMA WrapperOK ==
    ASSUME NEW v \in ServoState, NEW change \in Int, NEW drift \in Int
    PROVE  LET w == adjTickRate_wrapper([v EXCEPT !.observed_drift = drift], change)
           IN  w \in ServoState /\ SameOffsets(v, w) /\ SameDelays(v, w) /\ w.maxDelay = v.maxDelay
<1> DEFINE u == [v EXCEPT !.observed_drift = drift]
<1>1. u \in ServoState /\ SameOffsets(v, u) /\ SameDelays(v, u) /\ u.maxDelay = v.maxDelay
  BY DEF ServoState, SameOffsets, SameDelays
<1> HIDE DEF u
<1>2. adjTickRate_wrapper(u, change) = u \/ adjTickRate_wrapper(u, change) = adjTickRate(u, change)
  BY DEF adjTickRate_wrapper
<1> DEFINE w == adjTickRate_wrapper(u, change)
<1>3. CASE w = u
  <2> HIDE DEF w
  <2> QED BY <1>1, <1>3 DEF u, w
<1>4. CASE w = adjTickRate(u, change)
  <2>1. LET t == adjTickRate(u, change)
        IN  t \in ServoState /\ SameOffsets(u, t) /\ SameDelays(u, t) /\ t.maxDelay = u.maxDelay
    BY <1>1, AdjTickRateOK
  <2> HIDE DEF w
  <2>2. w \in ServoState /\ SameOffsets(u, w) /\ SameDelays(u, w) /\ w.maxDelay = u.maxDelay
    BY <1>4, <2>1
  <2>3. w \in ServoState /\ SameOffsets(v, w) /\ SameDelays(v, w) /\ w.maxDelay = v.maxDelay
    BY <1>1, <2>2 DEF SameOffsets, SameDelays
  <2> QED BY <2>3 DEF u, w
<1> QED BY <1>2, <1>3, <1>4

\* A clock adjustment leaves the flags and the delays, and a step leaves all.
LEMMA UpdateClockOK ==
    ASSUME NEW v \in ServoState, NEW offset \in TimeInternal
    PROVE  LET w == updateClock(v, offset)
           IN  /\ w \in ServoState /\ SameOffsets(v, w) /\ SameDelays(v, w)
               /\ w.maxDelay = v.maxDelay
               /\ Steps(v, offset) => w = v
<1> DEFINE w == updateClock(v, offset)
           jumps == IsLarge(v, offset) \/ JustSyntonized(v)
           hard  == IF offset.nanoseconds > 0 THEN AdjFreqMax ELSE -AdjFreqMax
           sum   == v.observed_drift + Quot(offset.nanoseconds, Attenuation(ai))
           drift == Clamp(sum, AdjFreqMax)
           adj   == Quot(offset.nanoseconds, Attenuation(ap)) + drift
<1>1. SameOffsets(v, v) /\ SameDelays(v, v)
  BY DEF SameOffsets, SameDelays
<1>2. hard \in Int /\ -hard \in Int
  BY ControllerAssumption, SMT
<1>3. drift \in Int /\ -adj \in Int
  <2>1. Attenuation(ai) \in Nat \ {0} /\ Attenuation(ap) \in Nat \ {0}
    BY ControllerAssumption, SMT DEF Attenuation
  <2>2. offset.nanoseconds \in Int /\ v.observed_drift \in Int
    BY ServoFields DEF TimeInternal
  <2>3. /\ Quot(offset.nanoseconds, Attenuation(ai)) \in Int
        /\ Quot(offset.nanoseconds, Attenuation(ap)) \in Int
    BY <2>1, <2>2, QuotTimes
  <2>4. sum \in Int
    BY <2>2, <2>3, SMT
  <2> HIDE DEF sum
  <2>5. drift \in Int
    BY <2>4, ClampOK
  <2> HIDE DEF drift
  <2> QED BY <2>3, <2>5, SMT
<1>4. CASE Aborts(offset) \/ Steps(v, offset)
  <2>1. w = v
    BY <1>4, Zenon DEF updateClock, Steps
  <2> QED BY <1>1, <2>1
<1>5. CASE ~Aborts(offset) /\ ~Steps(v, offset) /\ jumps /\ ~rtOpts.noAdjust /\ rtOpts.noResetClock
  <2>1. w = adjTickRate_wrapper([v EXCEPT !.observed_drift = hard], -hard)
    BY <1>5, Zenon DEF updateClock
  <2> HIDE DEF w, hard
  <2> QED BY <1>2, <1>5, <2>1, WrapperOK DEF w
<1>6. CASE ~Aborts(offset) /\ ~Steps(v, offset) /\ ~jumps
  <2>1. w = adjTickRate_wrapper([v EXCEPT !.observed_drift = drift], -adj)
    BY <1>6, Zenon DEF updateClock
  <2> HIDE DEF w, drift, adj
  <2> QED BY <1>3, <1>6, <2>1, WrapperOK DEF w
<1>7. CASE /\ ~Aborts(offset) /\ ~Steps(v, offset) /\ jumps
           /\ ~(~rtOpts.noAdjust /\ rtOpts.noResetClock)
  <2>1. w = v
    BY <1>7, Zenon DEF updateClock
  <2> QED BY <1>1, <2>1
<1> QED BY <1>4, <1>5, <1>6, <1>7

LEMMA InitClockOK ==
    ASSUME NEW v \in ServoState
    PROVE  LET w == initClock(v)
           IN  /\ w \in ServoState /\ w.maxDelay = v.maxDelay /\ w.ofm_prev = 0
               /\ w.syntonized = FALSE /\ w.syntonized_z1 = FALSE /\ w.syntonized_z2 = FALSE
               /\ w.meanPathDelay = ZeroTime /\ w.peerMeanPathDelay = ZeroTime
<1> DEFINE u == adjTickRate(adjTickRate(v, -initial_tick), 0)
           filt == [u.owd_filt EXCEPT !.s_exp = 0]
           line == [i \in Places |-> 0]
<1>1. u \in ServoState /\ u.maxDelay = v.maxDelay
  <2>1. -initial_tick \in Int /\ 0 \in Int
    BY ControllerAssumption, SMT
  <2> QED BY <2>1, AdjTickRateOK
<1> HIDE DEF u
<1>2. filt \in Filter
  BY <1>1, ServoFields DEF Filter
<1>3. line \in [Places -> Int]
  OBVIOUS
<1>4. ZeroTime \in TimeInternal
  BY ZeroBetween
<1>5. initClock(v) =
        [u EXCEPT !.observed_drift       = 0,
                  !.owd_filt             = filt,
                  !.meanPathDelay        = ZeroTime,
                  !.peerMeanPathDelay    = ZeroTime,
                  !.delayMS              = ZeroTime,
                  !.ofm_prev             = 0,
                  !.offset_first_updated = FALSE,
                  !.updateOffset_count   = 0,
                  !.ofm_zline            = line,
                  !.syntonized           = FALSE,
                  !.syntonized_z1        = FALSE,
                  !.syntonized_z2        = FALSE]
  BY <1>1 DEF initClock, u, ServoState, Filter
<1> DEFINE w == initClock(v)
<1> HIDE DEF filt, line, w
<1>6. w \in ServoState
  <2> DEFINE zero == 0
             a == [u EXCEPT !.observed_drift = zero, !.ofm_prev = zero,
                            !.updateOffset_count = zero]
             b == [a EXCEPT !.meanPathDelay = ZeroTime, !.peerMeanPathDelay = ZeroTime,
                            !.delayMS = ZeroTime]
             c == [b EXCEPT !.ofm_zline = line, !.owd_filt = filt]
             d == [c EXCEPT !.offset_first_updated = FALSE, !.syntonized = FALSE,
                            !.syntonized_z1 = FALSE, !.syntonized_z2 = FALSE]
  <2>1. a \in ServoState
    <3>1. zero \in Int
      OBVIOUS
    <3> HIDE DEF zero
    <3> QED BY <1>1, <3>1 DEF ServoState
  <2>2. w = d
    BY <1>5 DEF w
  <2> HIDE DEF a
  <2>3. b \in ServoState
    BY <1>4, <2>1 DEF ServoState
  <2> HIDE DEF b
  <2>4. c \in ServoState
    BY <1>2, <1>3, <2>3 DEF ServoState
  <2> HIDE DEF c
  <2>5. d \in ServoState
    BY <2>4 DEF ServoState
  <2> QED BY <2>2, <2>5
<1>7. w.maxDelay = v.maxDelay /\ w.ofm_prev = 0
  BY <1>1, <1>5, SMT DEF ServoState, w
<1>8. w.syntonized = FALSE /\ w.syntonized_z1 = FALSE /\ w.syntonized_z2 = FALSE
  BY <1>1, <1>5, SMT DEF ServoState, w
<1>9. w.meanPathDelay = ZeroTime /\ w.peerMeanPathDelay = ZeroTime
  BY <1>1, <1>5, SMT DEF ServoState, w
<1> QED BY <1>6, <1>7, <1>8, <1>9 DEF w

-----------------------------------------------------------------------------
(* The loop *)

\* The flags follow one another.
FlagsOrdered(v) == (v.syntonized_z2 => v.syntonized_z1) /\ (v.syntonized_z1 => v.syntonized)

\* The last offset of the average was no large one.
LastSmall == ~rtOpts.maxDelayAutoTune =>
    servo.maxDelay \in Nat /\ Abs(servo.ofm_prev) <= servo.maxDelay

TypeOK ==
    /\ rtOpts \in Options
    /\ servo \in ServoState
    /\ err \in Int
    /\ delayMechanism \in {"E2E", "P2P"}
    /\ request.sent \in TimeInternal
    /\ stepped \in {None} \cup Delays
    /\ steps \in 0..2

IInv ==
    /\ TypeOK
    /\ FlagsOrdered(servo)
    /\ LastSmall
    /\ SteppedOnceWhenSyntonized
    /\ StepLands

LEMMA DivOfSum ==
    ASSUME NEW q \in Nat, NEW b \in Nat \ {0}, NEW r \in Nat, r < b
    PROVE  (q * b + r) \div b = q
<1> DEFINE x == q * b + r
           z == x \div b
<1>1. x \in Nat /\ b * q \in Nat /\ x = b * q + r
  BY SMT
<1> HIDE DEF x
<1>2. z \in Nat /\ b * z <= x /\ x < b * z + b
  BY <1>1, SMT
<1> HIDE DEF z
<1>3. b * z \in Nat
  BY <1>2, SMT
<1>4. ~(z >= q + 1)
  <2> SUFFICES ASSUME z >= q + 1 PROVE FALSE
    OBVIOUS
  <2>1. b * z >= b * (q + 1) /\ b * (q + 1) = b * q + b
    BY <1>2, SMT
  <2> QED BY <1>1, <1>2, <1>3, <2>1, SMT
<1>5. ~(q >= z + 1)
  <2> SUFFICES ASSUME q >= z + 1 PROVE FALSE
    OBVIOUS
  <2>1. b * q >= b * (z + 1) /\ b * (z + 1) = b * z + b
    BY <1>2, SMT
  <2> QED BY <1>1, <1>2, <1>3, <2>1, SMT
<1>6. z = q
  BY <1>2, <1>4, <1>5, SMT
<1> QED BY <1>6 DEF x, z

\* The master's time arrives as it was sent.
LEMMA NowArrives ==
    Received(TimeAt(Now)) \in TimeInternal /\ Value(Received(TimeAt(Now))) = Now
<1> DEFINE t == TimeAt(Now)
<1>1. Now \in Nat /\ Now \in Int /\ (Now \div Second) \div Word < HalfWord
  BY EnvironmentAssumption
<1>2. t \in TimeInternal /\ IsNormal(t) /\ Value(t) = Now
  BY <1>1, TimeAtOK
<1> HIDE DEF t
<1>3. Second \in Nat \ {0} /\ t.seconds \in Int /\ t.nanoseconds \in Int
  BY <1>2, SecondAssumption DEF TimeInternal
<1>4. t.seconds * Second + t.nanoseconds = Now
  BY <1>2 DEF Value
<1>5. t.seconds >= 0
  <2> SUFFICES ASSUME t.seconds <= -1 PROVE FALSE
    BY <1>3, SMT
  <2> DEFINE p == t.seconds * Second
  <2>1. p \in Int /\ p <= -Second
    BY <1>3, SMT
  <2>2. t.nanoseconds <= 0
    BY <1>2, <1>3, SMT DEF IsNormal
  <2>3. p + t.nanoseconds = Now
    BY <1>4
  <2> HIDE DEF p
  <2> QED BY <1>1, <1>3, <2>1, <2>2, <2>3, SMT
<1>6. t.nanoseconds >= 0
  <2>1. CASE t.seconds > 0
    BY <1>2, <2>1 DEF IsNormal
  <2>2. CASE t.seconds = 0
    BY <1>1, <1>3, <1>4, <2>2, SMT
  <2> QED BY <1>3, <1>5, <2>1, <2>2, SMT
<1>7. Now \div Second = t.seconds
  <2>1. t.nanoseconds \in Nat /\ t.seconds \in Nat /\ t.nanoseconds < Second
    BY <1>2, <1>3, <1>5, <1>6, SMT DEF IsNormal
  <2> QED BY <1>3, <1>4, <2>1, DivOfSum
<1>8. t.seconds \div Word < HalfWord
  BY <1>1, <1>7
<1>9. Received(t) = t
  BY <1>2, <1>5, <1>6, <1>8, TimestampKeepsTime DEF Received
<1> QED BY <1>2, <1>9 DEF t

\* What a Sync measures is the error and its delay, less the known path delay.
LEMMA SyncMeasures ==
    ASSUME NEW v \in ServoState, NEW d \in Delays, NEW bigint \in Corrections, err \in Int
    PROVE  LET send == Received(TimeAt(Now))
               recv == TimeAt(Now + d + Residence(bigint) + err)
               correction == integer64_to_internalTime(bigint)
           IN  /\ send \in TimeInternal /\ recv \in TimeInternal /\ correction \in TimeInternal
               /\ Value(Measured(v, send, recv, correction)) = err + d - Value(PathDelay(v))
<1> DEFINE send == Received(TimeAt(Now))
           total == Now + d + Residence(bigint) + err
           recv == TimeAt(total)
           correction == integer64_to_internalTime(bigint)
           path == PathDelay(v)
<1>1. d \in Int /\ Now \in Int /\ bigint \in Int
  BY EnvironmentAssumption
<1>2. send \in TimeInternal /\ Value(send) = Now
  BY NowArrives
<1>3. correction \in TimeInternal
  BY <1>1, CorrectionNormal
<1>4. ASSUME NEW t \in TimeInternal PROVE Value(t) \in Int
  <2>1. t.seconds \in Int /\ t.nanoseconds \in Int /\ Second \in Int
    BY SecondAssumption DEF TimeInternal
  <2> QED BY <2>1 DEF Value
<1>5. Residence(bigint) = Value(correction) /\ Value(correction) \in Int
  BY <1>3, <1>4 DEF Residence
<1>6. total \in Int
  BY <1>1, <1>5, SMT
<1>7. recv \in TimeInternal /\ Value(recv) = total
  <2> HIDE DEF total
  <2> QED BY <1>6, TimeAtOK
<1>8. path \in TimeInternal /\ Value(path) \in Int
  BY <1>4, PathDelayOK
<1> HIDE DEF send, recv, correction, path
<1> DEFINE x == subTime(recv, send)
           y == subTime(x, correction)
           z == subTime(y, path)
<1>9. x \in TimeInternal /\ Value(x) = Value(recv) - Value(send)
  BY <1>2, <1>7, AddAndSub
<1>10. y \in TimeInternal /\ Value(y) = Value(x) - Value(correction)
  <2> HIDE DEF x
  <2> QED BY <1>3, <1>9, AddAndSub
<1>11. z \in TimeInternal /\ Value(z) = Value(y) - Value(path)
  <2> HIDE DEF y
  <2> QED BY <1>8, <1>10, AddAndSub
<1>12. Measured(v, send, recv, correction) = z
  BY DEF Measured, path
<1> HIDE DEF x, y, z
<1>13. Value(z) = err + d - Value(path)
  BY <1>1, <1>2, <1>5, <1>7, <1>8, <1>9, <1>10, <1>11, SMT
<1> QED BY <1>2, <1>3, <1>7, <1>12, <1>13 DEF send, recv, correction, path

LEMMA InitOK == Init => IInv
<1> SUFFICES ASSUME Init PROVE IInv
  OBVIOUS
<1>1. rtOpts \in Options
  BY EnvironmentAssumption DEF Init
<1>2. rtOpts.maxDelay \in Nat
  BY <1>1 DEF Options
<1>3. ZeroTime \in TimeInternal
  BY ZeroBetween
<1>4. NoFilter \in Filter
  <2>1. 0 \in Nanoseconds
    BY SecondAssumption, SMT DEF Nanoseconds
  <2> QED BY <2>1 DEF NoFilter, Filter
<1> DEFINE line == [i \in Places |-> 0]
           first == [owd_filt |-> NoFilter, meanPathDelay |-> ZeroTime,
                     peerMeanPathDelay |-> ZeroTime, delayMS |-> ZeroTime, ofm_prev |-> 0,
                     ofm_zline |-> line, updateOffset_count |-> 0,
                     offset_first_updated |-> FALSE, syntonized |-> FALSE,
                     syntonized_z1 |-> FALSE, syntonized_z2 |-> FALSE,
                     observed_drift |-> 0, tick |-> initial_tick,
                     maxDelay |-> rtOpts.maxDelay, discarded |-> 0]
<1>5. servo = first
  BY DEF Init
<1>6. line \in [Places -> Int]
  OBVIOUS
<1>7. initial_tick \in Int
  BY ControllerAssumption
<1> HIDE DEF line
<1>8. servo \in ServoState
  BY <1>2, <1>3, <1>4, <1>5, <1>6, <1>7 DEF ServoState
<1>9. TypeOK
  BY <1>1, <1>3, <1>8, EnvironmentAssumption DEF TypeOK, Init, NoRequest
<1>10. FlagsOrdered(servo)
  BY <1>5 DEF FlagsOrdered
<1>11. LastSmall
  <2>1. servo.maxDelay = rtOpts.maxDelay /\ servo.ofm_prev = 0
    BY <1>5
  <2>2. Abs(0) = 0
    BY DEF Abs
  <2> QED BY <1>2, <2>1, <2>2, SMT DEF LastSmall
<1>12. SteppedOnceWhenSyntonized
  <2>1. servo.syntonized_z1 = FALSE /\ steps = 0
    BY <1>5 DEF Init
  <2> QED BY <2>1 DEF SteppedOnceWhenSyntonized
<1>13. StepLands
  BY DEF Init, StepLands
<1> QED BY <1>9, <1>10, <1>11, <1>12, <1>13 DEF IInv

LEMMA SyncOK ==
    ASSUME IInv, NEW d \in Delays, NEW c \in Corrections, Sync(d, c)
    PROVE  /\ IInv'
           /\ servo'.meanPathDelay = servo.meanPathDelay
           /\ servo'.peerMeanPathDelay = servo.peerMeanPathDelay
<1> DEFINE send == Received(TimeAt(Now))
           recv == TimeAt(Now + d + Residence(c) + err)
           correction == integer64_to_internalTime(c)
           got == updateOffset(servo, send, recv, correction)
           w == got.servo
           o == got.offset
           raw == Measured(servo, send, recv, correction)
           step == Steps(w, o)
<1>1. /\ rtOpts \in Options /\ servo \in ServoState /\ err \in Int
      /\ delayMechanism \in {"E2E", "P2P"} /\ request.sent \in TimeInternal /\ steps \in 0..2
      /\ FlagsOrdered(servo) /\ LastSmall /\ SteppedOnceWhenSyntonized
  BY DEF IInv, TypeOK
<1>2. /\ send \in TimeInternal /\ recv \in TimeInternal /\ correction \in TimeInternal
      /\ Value(raw) = err + d - Value(PathDelay(servo))
  BY <1>1, SyncMeasures
<1>3. /\ servo' = updateClock(w, o)
      /\ err' = IF step THEN err - Value(o) ELSE err
      /\ stepped' = IF step THEN d ELSE None
      /\ steps' = IF step /\ ~IsLarge(w, o) /\ steps < 2 THEN steps + 1 ELSE steps
      /\ rtOpts' = rtOpts /\ delayMechanism' = delayMechanism /\ request' = request
  BY DEF Sync
<1> HIDE DEF send, recv, correction
<1>4. /\ w \in ServoState /\ o \in TimeInternal /\ raw \in TimeInternal
      /\ w.maxDelay = servo.maxDelay /\ SameDelays(servo, w)
      /\ IsLarge(servo, raw) =>
           /\ o = raw /\ w.ofm_prev = 0
           /\ w.syntonized = servo.syntonized /\ w.syntonized_z1 = servo.syntonized_z1
           /\ w.syntonized_z2 = servo.syntonized_z2
      /\ ~IsLarge(servo, raw) =>
           /\ w.syntonized_z1 = servo.syntonized /\ w.syntonized_z2 = servo.syntonized_z1
           /\ servo.syntonized => w.syntonized
           /\ o.seconds = raw.seconds
           /\ FiltersOffset(servo) =>
                 /\ o.nanoseconds = Averaged(raw.nanoseconds, servo.ofm_prev)
                 /\ w.ofm_prev = raw.nanoseconds
           /\ ~FiltersOffset(servo) => o = raw /\ w.ofm_prev = servo.ofm_prev
  BY <1>1, <1>2, UpdateOffsetOK
<1> HIDE DEF got, w, o, raw, step
<1>5. /\ servo' \in ServoState /\ SameOffsets(w, servo') /\ SameDelays(w, servo')
      /\ servo'.maxDelay = w.maxDelay
      /\ step => servo' = w
  BY <1>3, <1>4, UpdateClockOK DEF step
<1>6. /\ servo.syntonized \in BOOLEAN /\ servo.syntonized_z1 \in BOOLEAN
      /\ servo.syntonized_z2 \in BOOLEAN /\ servo.ofm_prev \in Int
      /\ w.syntonized \in BOOLEAN /\ w.syntonized_z1 \in BOOLEAN /\ w.syntonized_z2 \in BOOLEAN
      /\ raw.seconds \in Int /\ raw.nanoseconds \in Int
  BY <1>1, <1>4, ServoFields DEF TimeInternal
<1>7. \A t \in TimeInternal : Value(t) \in Int
  <2>1. ASSUME NEW t \in TimeInternal PROVE Value(t) \in Int
    <3>1. t.seconds \in Int /\ t.nanoseconds \in Int /\ Second \in Int
      BY SecondAssumption DEF TimeInternal
    <3> QED BY <3>1 DEF Value
  <2> QED BY <2>1
<1>8. /\ servo'.syntonized = w.syntonized /\ servo'.syntonized_z1 = w.syntonized_z1
      /\ servo'.syntonized_z2 = w.syntonized_z2 /\ servo'.ofm_prev = w.ofm_prev
      /\ servo'.maxDelay = servo.maxDelay
      /\ servo'.meanPathDelay = servo.meanPathDelay
      /\ servo'.peerMeanPathDelay = servo.peerMeanPathDelay
  BY <1>4, <1>5 DEF SameOffsets, SameDelays
<1>9. TypeOK'
  <2>1. err' \in Int
    BY <1>1, <1>3, <1>4, <1>7
  <2>2. stepped' \in {None} \cup Delays
    BY <1>3
  <2>3. steps' \in 0..2
    BY <1>1, <1>3, SMT
  <2> QED BY <1>1, <1>3, <1>5, <2>1, <2>2, <2>3 DEF TypeOK
<1>10. FlagsOrdered(servo')
  <2>1. CASE IsLarge(servo, raw)
    BY <1>1, <1>4, <1>8, <2>1 DEF FlagsOrdered
  <2>2. CASE ~IsLarge(servo, raw)
    BY <1>1, <1>4, <1>8, <2>2 DEF FlagsOrdered
  <2> QED BY <2>1, <2>2
<1>11. LastSmall'
  <2> SUFFICES ASSUME ~rtOpts.maxDelayAutoTune
               PROVE  servo'.maxDelay \in Nat /\ Abs(servo'.ofm_prev) <= servo'.maxDelay
    BY <1>3 DEF LastSmall
  <2>1. servo.maxDelay \in Nat /\ Abs(servo.ofm_prev) <= servo.maxDelay
    BY <1>1 DEF LastSmall
  <2>2. CASE IsLarge(servo, raw)
    <3>1. Abs(0) = 0
      BY DEF Abs
    <3>2. servo'.ofm_prev = 0
      BY <1>4, <1>8, <2>2
    <3> QED BY <1>8, <2>1, <3>1, <3>2, SMT
  <2>3. CASE ~IsLarge(servo, raw)
    <3>1. Abs(raw.nanoseconds) <= servo.maxDelay
      <4>1. ~(Abs(raw.nanoseconds) > servo.maxDelay)
        BY <2>3 DEF IsLarge
      <4>2. Abs(raw.nanoseconds) \in Int
        BY <1>6 DEF Abs
      <4> QED BY <2>1, <4>1, <4>2, SMT
    <3>2. servo'.ofm_prev = raw.nanoseconds \/ servo'.ofm_prev = servo.ofm_prev
      BY <1>4, <1>8, <2>3
    <3> QED BY <1>8, <2>1, <3>1, <3>2
  <2> QED BY <2>2, <2>3
<1>12. ASSUME ~IsLarge(servo, raw), FiltersOffset(servo)
       PROVE  ~JustSyntonized(w)
  BY <1>4, <1>6, <1>12 DEF JustSyntonized, FiltersOffset
<1>13. StepLands'
  <2> SUFFICES ASSUME step, ~rtOpts.maxDelayAutoTune
               PROVE  err' + d = Value(PathDelay(servo)')
    BY <1>3 DEF StepLands
  <2>1. o = raw /\ PathDelay(servo)' = PathDelay(servo)
    <3>1. CASE IsLarge(servo, raw)
      <4>1. servo'.syntonized = servo.syntonized
        BY <1>4, <1>8, <3>1
      <4>2. PathDelay(servo)' = PathDelay(servo)
        BY <1>3, <1>8, <4>1 DEF PathDelay
      <4> QED BY <1>4, <3>1, <4>2
    <3>2. CASE ~IsLarge(servo, raw) /\ ~FiltersOffset(servo)
      <4>1. servo.syntonized = TRUE /\ servo'.syntonized = TRUE
        BY <1>4, <1>6, <1>8, <3>2 DEF FiltersOffset
      <4>2. PathDelay(servo)' = PathDelay(servo)
        BY <1>3, <1>8, <4>1 DEF PathDelay
      <4> QED BY <1>4, <3>2, <4>2
    <3>3. CASE ~IsLarge(servo, raw) /\ FiltersOffset(servo)
      <4>1. IsLarge(w, o)
        BY <1>12, <3>3 DEF Steps, step
      <4>2. o.seconds = 0
        BY <1>4, <3>3 DEF IsLarge
      <4>3. servo.maxDelay \in Nat /\ Abs(servo.ofm_prev) <= servo.maxDelay
        BY <1>1 DEF LastSmall
      <4>4. Abs(raw.nanoseconds) <= servo.maxDelay
        <5>1. ~(Abs(raw.nanoseconds) > servo.maxDelay)
          BY <3>3 DEF IsLarge
        <5>2. Abs(raw.nanoseconds) \in Int
          BY <1>6 DEF Abs
        <5> QED BY <4>3, <5>1, <5>2, SMT
      <4>5. Abs(o.nanoseconds) <= servo.maxDelay
        <5>1. o.nanoseconds = Averaged(raw.nanoseconds, servo.ofm_prev)
          BY <1>4, <3>3
        <5> QED BY <1>6, <4>3, <4>4, <5>1, AveragedBounded
      <4>6. Abs(o.nanoseconds) > servo.maxDelay
        BY <1>4, <4>1, <4>2 DEF IsLarge
      <4>7. Abs(o.nanoseconds) \in Int
        BY <1>4 DEF Abs, TimeInternal
      <4> QED BY <4>3, <4>5, <4>6, <4>7, SMT
    <3> QED BY <3>1, <3>2, <3>3
  <2>2. err' = err - Value(raw)
    BY <1>3, <2>1
  <2>3. d \in Int /\ Value(PathDelay(servo)) \in Int
    BY <1>1, <1>7, PathDelayOK, EnvironmentAssumption
  <2> QED BY <1>1, <1>2, <2>1, <2>2, <2>3, SMT
<1>14. SteppedOnceWhenSyntonized'
  <2> SUFFICES ASSUME ~rtOpts.noAdjust, ~rtOpts.noResetClock, rtOpts.maxReset = 0
               PROVE  steps' = IF servo'.syntonized_z1 THEN 1 ELSE 0
    BY <1>3 DEF SteppedOnceWhenSyntonized
  <2>1. steps = IF servo.syntonized_z1 THEN 1 ELSE 0
    BY <1>1 DEF SteppedOnceWhenSyntonized
  <2>2. step <=> IsLarge(w, o) \/ JustSyntonized(w)
    BY DEF step, Steps, Aborts
  <2>3. CASE IsLarge(servo, raw)
    <3>1. IsLarge(w, o)
      BY <1>4, <2>3 DEF IsLarge
    <3> QED BY <1>3, <1>4, <1>8, <2>1, <2>3, <3>1
  <2>4. CASE ~IsLarge(servo, raw) /\ servo.syntonized /\ ~servo.syntonized_z1
    <3>1. ~IsLarge(w, o)
      BY <1>4, <2>4 DEF IsLarge, FiltersOffset
    <3>2. JustSyntonized(w) /\ servo'.syntonized_z1
      BY <1>4, <1>8, <2>4 DEF JustSyntonized
    <3> QED BY <1>3, <2>1, <2>2, <2>4, <3>1, <3>2
  <2>5. CASE ~IsLarge(servo, raw) /\ servo.syntonized_z1
    <3>1. ~JustSyntonized(w)
      BY <1>12, <2>5 DEF FiltersOffset
    <3>2. servo'.syntonized_z1
      BY <1>1, <1>4, <1>8, <2>5 DEF FlagsOrdered
    <3> QED BY <1>3, <2>1, <2>2, <2>5, <3>1, <3>2
  <2>6. CASE ~IsLarge(servo, raw) /\ ~servo.syntonized
    <3>1. ~JustSyntonized(w)
      BY <1>12, <2>6 DEF FiltersOffset
    <3>2. ~servo'.syntonized_z1 /\ ~servo.syntonized_z1
      BY <1>1, <1>4, <1>8, <2>6 DEF FlagsOrdered
    <3> QED BY <1>3, <2>1, <2>2, <2>6, <3>1, <3>2
  <2> QED BY <1>6, <2>3, <2>4, <2>5, <2>6
<1> QED BY <1>8, <1>9, <1>10, <1>11, <1>13, <1>14 DEF IInv, FlagsOrdered

\* An action that leaves the offsets alone and does not step keeps the invariant.
LEMMA NoOffsetOK ==
    ASSUME IInv, servo' \in ServoState, SameOffsets(servo, servo'), SameMaxDelay(servo, servo'),
           rtOpts' = rtOpts, err' \in Int, delayMechanism' \in {"E2E", "P2P"},
           request'.sent \in TimeInternal, stepped' = None, steps' = steps
    PROVE  IInv'
<1>1. TypeOK'
  BY DEF IInv, TypeOK
<1>2. FlagsOrdered(servo)'
  BY DEF IInv, FlagsOrdered, SameOffsets
<1>3. LastSmall'
  BY DEF IInv, LastSmall, SameOffsets, SameMaxDelay
<1>4. SteppedOnceWhenSyntonized'
  BY DEF IInv, SteppedOnceWhenSyntonized, SameOffsets
<1>5. StepLands'
  BY DEF StepLands
<1> QED BY <1>1, <1>2, <1>3, <1>4, <1>5 DEF IInv

LEMMA SameServo ==
    ASSUME servo' = servo
    PROVE  SameOffsets(servo, servo') /\ SameMaxDelay(servo, servo')
  BY DEF SameOffsets, SameMaxDelay

LEMMA RequestTimes ==
    ASSUME IInv, NEW n \in Int
    PROVE  TimeAt(Now + n) \in TimeInternal
<1>1. Now + n \in Int
  BY EnvironmentAssumption
<1> QED BY <1>1, TimeAtOK

LEMMA DelayRespOK ==
    ASSUME IInv, NEW d \in Delays, NEW c \in Corrections, DelayResp(d, c)
    PROVE  /\ IInv'
           /\ servo'.peerMeanPathDelay = servo.peerMeanPathDelay
           /\ \/ servo'.meanPathDelay = servo.meanPathDelay
              \/ Between(servo'.meanPathDelay, servo.owd_filt, servo'.owd_filt.nsec_prev)
<1> DEFINE correction == integer64_to_internalTime(c)
           there == TimeAt(Now + d + Residence(c))
           recv == Received(there)
<1>1. rtOpts \in Options /\ servo \in ServoState /\ request.sent \in TimeInternal
  BY DEF IInv, TypeOK
<1>2. correction \in TimeInternal /\ Residence(c) \in Int
  <2>1. correction \in TimeInternal
    BY EnvironmentAssumption, CorrectionNormal
  <2> HIDE DEF correction
  <2>2. correction.seconds \in Int /\ correction.nanoseconds \in Int /\ Second \in Int
    BY <2>1, SecondAssumption DEF TimeInternal
  <2>3. Residence(c) = correction.seconds * Second + correction.nanoseconds
    BY DEF Residence, Value, correction
  <2> QED BY <2>1, <2>2, <2>3
<1>3. recv \in TimeInternal
  <2>1. Now + d + Residence(c) \in Int
    BY <1>2, EnvironmentAssumption
  <2>2. there \in TimeInternal
    BY <2>1, TimeAtOK
  <2> QED BY <2>2, ReceivedOK
<1>4. servo' = updateDelay(servo, request.sent, recv, correction)
  BY DEF DelayResp
<1> HIDE DEF correction, recv
<1>5. /\ servo' \in ServoState /\ SameOffsets(servo, servo') /\ SameMaxDelay(servo, servo')
      /\ servo'.peerMeanPathDelay = servo.peerMeanPathDelay
      /\ \/ servo'.meanPathDelay = servo.meanPathDelay
         \/ Between(servo'.meanPathDelay, servo.owd_filt, servo'.owd_filt.nsec_prev)
  BY <1>1, <1>2, <1>3, <1>4, UpdateDelayOK
<1>6. /\ rtOpts' = rtOpts /\ err' = err /\ delayMechanism' = delayMechanism
      /\ stepped' = None /\ steps' = steps /\ request' = [request EXCEPT !.open = FALSE]
  BY DEF DelayResp
<1>7. request'.sent \in TimeInternal
  BY <1>1, <1>6
<1>8. err' \in Int /\ delayMechanism' \in {"E2E", "P2P"}
  BY <1>6 DEF IInv, TypeOK
<1> QED BY <1>5, <1>6, <1>7, <1>8, NoOffsetOK

LEMMA PDelayRespOK ==
    ASSUME IInv, NEW d \in Delays, NEW back \in Delays, NEW c \in Corrections,
           NEW twoStep \in BOOLEAN, PDelayResp(d, back, c, twoStep)
    PROVE  /\ IInv'
           /\ servo'.meanPathDelay = servo.meanPathDelay
           /\ Between(servo'.peerMeanPathDelay, servo.owd_filt, servo'.owd_filt.nsec_prev)
<1> DEFINE correction == integer64_to_internalTime(c)
           t2 == Received(TimeAt(Now + d))
           t4 == TimeAt(Now + d + back + Residence(c) + err)
           path == PeerDelay(twoStep, request.sent, t2, t2, t4, correction)
<1>1. rtOpts \in Options /\ servo \in ServoState /\ request.sent \in TimeInternal /\ err \in Int
  BY DEF IInv, TypeOK
<1>2. correction \in TimeInternal /\ Residence(c) \in Int
  <2>1. correction \in TimeInternal
    BY EnvironmentAssumption, CorrectionNormal
  <2> HIDE DEF correction
  <2>2. correction.seconds \in Int /\ correction.nanoseconds \in Int /\ Second \in Int
    BY <2>1, SecondAssumption DEF TimeInternal
  <2>3. Residence(c) = correction.seconds * Second + correction.nanoseconds
    BY DEF Residence, Value, correction
  <2> QED BY <2>1, <2>2, <2>3
<1>3. t2 \in TimeInternal /\ t4 \in TimeInternal
  <2>1. Now + d \in Int /\ Now + d + back + Residence(c) + err \in Int
    BY <1>1, <1>2, EnvironmentAssumption
  <2>2. TimeAt(Now + d) \in TimeInternal
    BY <2>1, TimeAtOK
  <2> QED BY <2>1, <2>2, TimeAtOK, ReceivedOK
<1>4. servo' = updatePeerDelay(servo, path)
  BY DEF PDelayResp
<1> HIDE DEF correction, t2, t4
<1>5. path \in TimeInternal /\ path.nanoseconds \in Nanoseconds
  BY <1>1, <1>2, <1>3, PeerDelayOK
<1> HIDE DEF path
<1>6. /\ servo' \in ServoState /\ SameOffsets(servo, servo') /\ SameMaxDelay(servo, servo')
      /\ servo'.meanPathDelay = servo.meanPathDelay
      /\ Between(servo'.peerMeanPathDelay, servo.owd_filt, servo'.owd_filt.nsec_prev)
  BY <1>1, <1>4, <1>5, UpdatePeerDelayOK
<1>7. /\ rtOpts' = rtOpts /\ err' = err /\ delayMechanism' = delayMechanism
      /\ stepped' = None /\ steps' = steps /\ request' = request
  BY DEF PDelayResp
<1>8. err' \in Int /\ delayMechanism' \in {"E2E", "P2P"} /\ request'.sent \in TimeInternal
  BY <1>7 DEF IInv, TypeOK
<1> QED BY <1>6, <1>7, <1>8, NoOffsetOK

LEMMA EnterOrLeaveSlaveOK ==
    ASSUME IInv, NEW e \in InitialErrors, EnterOrLeaveSlave(e)
    PROVE  /\ IInv'
           /\ servo'.meanPathDelay = ZeroTime
           /\ servo'.peerMeanPathDelay = ZeroTime
<1>1. servo \in ServoState /\ rtOpts \in Options
  BY DEF IInv, TypeOK
<1>2. /\ rtOpts' = rtOpts /\ err' = e /\ delayMechanism' = delayMechanism
      /\ stepped' = None /\ steps' = 0 /\ servo' = initClock(servo)
      /\ request' = [sent |-> ZeroTime, open |-> request.open /\ delayMechanism = "P2P"]
  BY DEF EnterOrLeaveSlave
<1>3. /\ servo' \in ServoState /\ servo'.maxDelay = servo.maxDelay /\ servo'.ofm_prev = 0
      /\ servo'.syntonized = FALSE /\ servo'.syntonized_z1 = FALSE
      /\ servo'.syntonized_z2 = FALSE
      /\ servo'.meanPathDelay = ZeroTime /\ servo'.peerMeanPathDelay = ZeroTime
  BY <1>1, <1>2, InitClockOK
<1>4. TypeOK'
  <2>1. err' \in Int
    BY <1>2, EnvironmentAssumption
  <2>2. request'.sent \in TimeInternal
    BY <1>2, ZeroBetween
  <2>3. delayMechanism' \in {"E2E", "P2P"}
    BY <1>2 DEF IInv, TypeOK
  <2> QED BY <1>1, <1>2, <1>3, <2>1, <2>2, <2>3 DEF TypeOK
<1>5. FlagsOrdered(servo)'
  BY <1>3 DEF FlagsOrdered
<1>6. LastSmall'
  <2> SUFFICES ASSUME ~rtOpts.maxDelayAutoTune
               PROVE  servo'.maxDelay \in Nat /\ Abs(servo'.ofm_prev) <= servo'.maxDelay
    BY <1>2 DEF LastSmall
  <2>1. servo.maxDelay \in Nat
    BY DEF IInv, LastSmall
  <2>2. Abs(0) = 0
    BY DEF Abs
  <2> QED BY <1>3, <2>1, <2>2, SMT
<1>7. SteppedOnceWhenSyntonized'
  BY <1>2, <1>3 DEF SteppedOnceWhenSyntonized
<1>8. StepLands'
  BY <1>2 DEF StepLands
<1> QED BY <1>3, <1>4, <1>5, <1>6, <1>7, <1>8 DEF IInv

LEMMA OthersOK ==
    ASSUME IInv, Request \/ SetDelayMechanism \/ (\E w \in Wanders : Wander(w))
    PROVE  IInv' /\ servo' = servo
<1>1. err \in Int /\ request.sent \in TimeInternal /\ delayMechanism \in {"E2E", "P2P"}
      /\ servo \in ServoState
  BY DEF IInv, TypeOK
<1>2. CASE Request
  <2>1. /\ rtOpts' = rtOpts /\ err' = err /\ delayMechanism' = delayMechanism
        /\ stepped' = None /\ steps' = steps /\ servo' = servo
        /\ request' = [sent |-> TimeAt(Now + err), open |-> TRUE]
    BY <1>2 DEF Request
  <2>2. request'.sent \in TimeInternal
    BY <1>1, <2>1, RequestTimes
  <2> QED BY <1>1, <2>1, <2>2, SameServo, NoOffsetOK
<1>3. CASE SetDelayMechanism
  <2>1. /\ rtOpts' = rtOpts /\ err' = err /\ delayMechanism' \in {"E2E", "P2P"}
        /\ stepped' = None /\ steps' = steps /\ servo' = servo
        /\ request' = [request EXCEPT !.open = FALSE]
    BY <1>3 DEF SetDelayMechanism
  <2>2. request'.sent \in TimeInternal
    BY <1>1, <2>1
  <2> QED BY <1>1, <2>1, <2>2, SameServo, NoOffsetOK
<1>4. CASE \E w \in Wanders : Wander(w)
  <2>1. PICK w \in Wanders : Wander(w)
    BY <1>4
  <2>2. /\ rtOpts' = rtOpts /\ err' = err + w /\ delayMechanism' = delayMechanism
        /\ stepped' = None /\ steps' = steps /\ servo' = servo /\ request' = request
    BY <2>1 DEF Wander
  <2>3. err' \in Int
    BY <1>1, <2>2, EnvironmentAssumption
  <2> QED BY <1>1, <2>2, <2>3, SameServo, NoOffsetOK
<1> QED BY <1>2, <1>3, <1>4

\* The two delays in use change by an estimate or not at all.
EstimateStep ==
    /\ servo'.meanPathDelay # servo.meanPathDelay =>
          Between(servo'.meanPathDelay, servo.owd_filt, servo'.owd_filt.nsec_prev)
    /\ servo'.peerMeanPathDelay # servo.peerMeanPathDelay =>
          Between(servo'.peerMeanPathDelay, servo.owd_filt, servo'.owd_filt.nsec_prev)

LEMMA StepOK ==
    ASSUME IInv, [Next]_vars
    PROVE  IInv' /\ EstimateStep
<1>1. CASE \E d \in Delays, c \in Corrections : Sync(d, c)
  BY <1>1, SyncOK DEF EstimateStep
<1>2. CASE \E d \in Delays, c \in Corrections : DelayResp(d, c)
  BY <1>2, DelayRespOK DEF EstimateStep
<1>3. CASE \E d, back \in Delays, c \in Corrections, twoStep \in BOOLEAN :
              PDelayResp(d, back, c, twoStep)
  BY <1>3, PDelayRespOK DEF EstimateStep
<1>4. CASE \E e \in InitialErrors : EnterOrLeaveSlave(e)
  BY <1>4, EnterOrLeaveSlaveOK, ZeroBetween DEF EstimateStep
<1>5. CASE Request \/ SetDelayMechanism \/ (\E w \in Wanders : Wander(w))
  BY <1>5, OthersOK DEF EstimateStep
<1>6. CASE UNCHANGED vars
  BY <1>6 DEF vars, EstimateStep, IInv, TypeOK, FlagsOrdered, LastSmall,
              SteppedOnceWhenSyntonized, StepLands, PathDelay
<1> QED BY <1>1, <1>2, <1>3, <1>4, <1>5, <1>6 DEF Next

LEMMA Invariant == Spec => []IInv
  BY InitOK, StepOK, PTL DEF Spec

\* However long the line of path delays, no product of the filter leaves its integer.
THEOREM FilterNeverOverflows == Spec => []FilterFits
<1>1. IInv => FilterFits
  <2> SUFFICES ASSUME IInv PROVE FilterFits
    OBVIOUS
  <2>1. servo.owd_filt \in Filter
    BY ServoFields DEF IInv, TypeOK
  <2> QED BY <2>1, StiffenedFits DEF FilterFits
<1> QED BY <1>1, Invariant, PTL

\* A path delay in use is between the delays it was estimated from.
THEOREM EstimatesStayBetween == Spec => EstimateBetween
<1>1. IInv /\ [Next]_vars => [EstimateStep]_vars
  BY StepOK
<1>2. Spec => [][EstimateStep]_vars
  BY <1>1, Invariant, PTL DEF Spec
<1> QED BY <1>2 DEF EstimateBetween, EstimateStep

\* Every step of the clock leaves it the known path delay from the master.
THEOREM StepsLand == Spec => []StepLands
<1>1. IInv => StepLands
  BY DEF IInv
<1> QED BY <1>1, Invariant, PTL

\* The step of syntonisation comes once, with the first offset less the path delay.
THEOREM OneStepWhenSyntonized == Spec => []SteppedOnceWhenSyntonized
<1>1. IInv => SteppedOnceWhenSyntonized
  BY DEF IInv
<1> QED BY <1>1, Invariant, PTL
=============================================================================
