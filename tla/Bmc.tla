-------------------------------- MODULE Bmc --------------------------------
(***************************************************************************)
(* The best master clock algorithm (src/esl/sw/bmc.cpp): the comparison of *)
(* two announced data sets, the scan of the foreign master table, and the  *)
(* updates m1 and s1 of the clock's data sets.                             *)
(*                                                                         *)
(* Clock identities are numbers, ordered as memcmp orders them; 0 is the   *)
(* zeroed memory of a record that was never written.  A data set carries   *)
(* its five quality attributes, in the order in which they are compared:   *)
(* priority1, clockClass, clockAccuracy, offsetScaledLogVariance and       *)
(* priority2.                                                              *)
(***************************************************************************)
EXTENDS Integers, Sequences

CONSTANTS
    Self,          \* identity of the local clock
    OwnQuality,    \* the attributes of the local clock
    MaxForeign     \* max_foreign_records

Clocks == Nat
PortIdentity == [clock : Clocks, port : Nat]
Quality == [1..5 -> Nat]
DataSet == [quality : Quality, gm : Clocks, stepsRemoved : Nat]
ForeignRecord == [id : PortIdentity, src : PortIdentity, ds : DataSet]

ASSUME BmcAssumption ==
    /\ Self \in Nat \ {0}
    /\ OwnQuality \in Quality
    /\ MaxForeign \in Nat \ {0}

SelfPort == [clock |-> Self, port |-> 1]
ZeroPort == [clock |-> 0, port |-> 0]
ZeroRecord == [id |-> ZeroPort, src |-> ZeroPort,
               ds |-> [quality |-> [i \in 1..5 |-> 0], gm |-> 0, stepsRemoved |-> 0]]

clockClass == OwnQuality[2]

\* The first attribute in which a and b differ is smaller in a.
LexLess(a, b) ==
    \E k \in DOMAIN a : a[k] < b[k] /\ \A j \in 1..(k - 1) : a[j] = b[j]

\* Seeded fault: the parent is recognised on one side of the comparison only.
CompareStepsOneSided(a, b, parent) ==
    LET sa == a.ds.stepsRemoved
        sb == b.ds.stepsRemoved
    IN  IF sa > sb THEN (IF sa = sb + 1 /\ a.src.clock = parent THEN 0 ELSE 1)
        ELSE IF sb > sa THEN -1
        ELSE IF a.src.clock = b.src.clock THEN 0
        ELSE IF a.src.clock < b.src.clock THEN -1 ELSE 1

\* Part 2, figure 28: both records name the same grandmaster.
CompareSteps(a, b, parent) ==
    LET sa == a.ds.stepsRemoved
        sb == b.ds.stepsRemoved
    IN  IF sa > sb + 1 THEN 1
        ELSE IF sb > sa + 1 THEN -1
        ELSE IF sa > sb THEN (IF a.src.clock = parent THEN 0 ELSE 1)
        ELSE IF sb > sa THEN (IF b.src.clock = parent THEN 0 ELSE -1)
        ELSE IF a.src.clock = b.src.clock THEN 0
        ELSE IF a.src.clock < b.src.clock THEN -1 ELSE 1

\* Part 1, figure 27: different grandmasters.
CompareQuality(a, b) ==
    IF LexLess(Append(a.ds.quality, a.ds.gm), Append(b.ds.quality, b.ds.gm))
    THEN -1 ELSE 1

bmcDataSetComparison(a, b, parent) ==
    IF a.ds.gm = b.ds.gm THEN CompareSteps(a, b, parent) ELSE CompareQuality(a, b)

\* copyD0: the local clock as a record of its own.
D0 == [id |-> SelfPort, src |-> SelfPort,
       ds |-> [quality |-> OwnQuality, gm |-> Self, stepsRemoved |-> 0]]

\* Seeded fault: the scan stops one record early.
BestScanSkipsLast(foreign, n, parent) ==
    LET best[i \in 0..(MaxForeign - 1)] ==
          IF i = 0 THEN 0
          ELSE IF i < n - 1 /\ bmcDataSetComparison(foreign[i], foreign[best[i-1]], parent) < 0
          THEN i ELSE best[i-1]
    IN  best

\* bmcExec's loop over the first n records: keep the first one that no later
\* one beats.  Slot 0 is taken as best even when the table is empty.
BestScan(foreign, n, parent) ==
    LET best[i \in 0..(MaxForeign - 1)] ==
          IF i = 0 THEN 0
          ELSE IF i < n /\ bmcDataSetComparison(foreign[i], foreign[best[i-1]], parent) < 0
          THEN i ELSE best[i-1]
    IN  best

Best(foreign, n, parent) == BestScan(foreign, n, parent)[MaxForeign - 1]

\* Seeded faults: a new master keeps announcing its old grandmaster, or its
\* old distance from it.
m1KeepsGrandmaster(c) == [c EXCEPT !.parentPortIdentity = [clock |-> Self, port |-> 0],
                                   !.stepsRemoved = 0]

m1KeepsSteps(c) == [c EXCEPT !.parentPortIdentity = [clock |-> Self, port |-> 0],
                             !.grandmaster = [quality |-> OwnQuality, gm |-> Self]]

\* m1: the local clock becomes its own grandmaster.
m1(c) == [c EXCEPT !.parentPortIdentity = [clock |-> Self, port |-> 0],
                   !.grandmaster = [quality |-> OwnQuality, gm |-> Self],
                   !.stepsRemoved = 0]

\* s1: the local clock follows the sender src of the data set ds.
s1(c, src, ds) == [c EXCEPT !.parentPortIdentity = src,
                            !.grandmaster = [quality |-> ds.quality, gm |-> ds.gm],
                            !.stepsRemoved = (ds.stepsRemoved + 1) % 65536]
=============================================================================
