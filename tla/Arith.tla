------------------------------- MODULE Arith -------------------------------
(***************************************************************************)
(* Arithmetic on times (arith.cpp).  A TimeInternal is a pair of seconds   *)
(* and nanoseconds, both signed; a Timestamp is what a message carries.    *)
(***************************************************************************)
EXTENDS Integers

CONSTANTS
    Second,     \* nanoseconds in a second: 1000000000
    Word,       \* 2^32: the seconds of a Timestamp are a half word and a word
    HalfWord,   \* 2^16
    Fraction    \* units of a correctionField in a nanosecond: 2^16

ASSUME SecondAssumption   == Second \in Nat \ {0}
ASSUME WordAssumption     == Word \in Nat \ {0} /\ HalfWord \in Nat \ {0}
ASSUME FractionAssumption == Fraction \in Nat \ {0}

TimeInternal == [seconds : Int, nanoseconds : Int]
Time(s, n) == [seconds |-> s, nanoseconds |-> n]
ZeroTime == Time(0, 0)

Abs(n) == IF n < 0 THEN -n ELSE n

\* The quotient of the language truncates towards zero.
Quot(a, b) == IF a >= 0 THEN a \div b ELSE -((-a) \div b)

\* What a time stands for.
Value(t) == t.seconds * Second + t.nanoseconds

\* Less than a second of nanoseconds, of the sign of the seconds.
IsNormal(t) ==
    /\ -Second < t.nanoseconds /\ t.nanoseconds < Second
    /\ t.seconds > 0 => t.nanoseconds >= 0
    /\ t.seconds < 0 => t.nanoseconds <= 0

normalizeTime(t) ==
    LET carry == Quot(t.nanoseconds, Second)
        s == t.seconds + carry
        n == t.nanoseconds - carry * Second
    IN  CASE s > 0 /\ n < 0 -> Time(s - 1, n + Second)
          [] s < 0 /\ n > 0 -> Time(s + 1, n - Second)
          [] OTHER          -> Time(s, n)

addTime(x, y) ==
    normalizeTime(Time(x.seconds + y.seconds, x.nanoseconds + y.nanoseconds))

subTime(x, y) ==
    normalizeTime(Time(x.seconds - y.seconds, x.nanoseconds - y.nanoseconds))

div2Time(t) ==
    LET odd == t.seconds - 2 * Quot(t.seconds, 2)
    IN  normalizeTime(Time(Quot(t.seconds, 2), Quot(t.nanoseconds + odd * Second, 2)))

\* A correctionField; the fraction of a nanosecond is cut off.
integer64_to_internalTime(bigint) ==
    LET sign == IF bigint < 0 THEN -1 ELSE 1
        whole == Abs(bigint) \div Fraction
    IN  Time(sign * (whole \div Second), sign * (whole % Second))

\* Negative times leave the Timestamp as it is.
fromInternalTime(t, external) ==
    IF t.seconds < 0 \/ t.nanoseconds < 0 THEN external
    ELSE [msb |-> (t.seconds \div Word) % HalfWord, lsb |-> t.seconds % Word,
          nanosecondsField |-> t.nanoseconds]

toInternalTime(external) ==
    Time(external.msb * Word + external.lsb, external.nanosecondsField)
=============================================================================
