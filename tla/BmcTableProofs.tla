--------------------------- MODULE BmcTableProofs ---------------------------
(***************************************************************************)
(* The comparison and the scan in every table that any set of senders can  *)
(* fill, refresh and elect a parent from, for every size of the table.     *)
(***************************************************************************)
EXTENDS BmcTable, BmcProofs

\* The senders that name the same grandmaster describe it in the same way: its
\* attributes travel unchanged.
SameDescriptions ==
    \A r, s \in Records : r.ds.gm = s.ds.gm => r.ds.quality = s.ds.quality

\* The records in use are the senders'.
InUseOK ==
    /\ number_foreign_records \in 0..MaxForeign
    /\ foreign \in [0..(MaxForeign - 1) -> ForeignRecord]
    /\ \A i \in Known : foreign[i] \in Records

LEMMA Initially == Init => InUseOK
<1>1. [i \in 1..5 |-> 0] \in Quality
  BY DEF Quality
<1>2. MaxForeign \in Nat \ {0} /\ ZeroRecord \in ForeignRecord
  BY <1>1, BmcAssumption
  DEF ZeroRecord, ForeignRecord, DataSet, PortIdentity, ZeroPort, Clocks
<1>. QED
  BY <1>2 DEF Init, InUseOK, Known

LEMMA StepOK == InUseOK /\ [Next]_vars => InUseOK'
<1>. SUFFICES ASSUME InUseOK, [Next]_vars PROVE InUseOK'
  OBVIOUS
<1>1. MaxForeign \in Nat \ {0} /\ Records \subseteq ForeignRecord
  BY BmcAssumption, RecordsAssumption
<1>2. CASE Decide
  BY <1>2 DEF Decide, InUseOK, Known
<1>3. ASSUME NEW r \in Records, Learn(r) PROVE InUseOK'
  BY <1>1, <1>3 DEF Learn, InUseOK, Known
<1>4. ASSUME NEW r \in Records, NEW i \in Known, Refresh(i, r) PROVE InUseOK'
  BY <1>1, <1>4 DEF Refresh, InUseOK, Known
<1>5. CASE UNCHANGED vars
  BY <1>5 DEF vars, InUseOK, Known
<1>. QED
  BY <1>2, <1>3, <1>4, <1>5 DEF Next

LEMMA InUse == Spec => []InUseOK
  BY Initially, StepOK, PTL DEF Spec

\* In a table of any size the comparison is fair, and prefers only what comes
\* first in the order of the figures.
THEOREM TableIsComparedFairly ==
    ASSUME SameDescriptions
    PROVE  Spec => []ComparisonAgrees
<1>1. InUseOK => ComparisonAgrees
  <2>. SUFFICES ASSUME InUseOK, NEW i \in Known, NEW j \in Known
                PROVE  LET c == bmcDataSetComparison(foreign[i], foreign[j], parent)
                       IN  /\ bmcDataSetComparison(foreign[j], foreign[i], parent) = -c
                           /\ c < 0 => Before(foreign[i], foreign[j])
    BY DEF ComparisonAgrees
  <2>1. /\ foreign[i] \in ForeignRecord /\ foreign[j] \in ForeignRecord
        /\ foreign[i] \in Records /\ foreign[j] \in Records
    BY RecordsAssumption DEF InUseOK
  <2>2. Before(foreign[i], foreign[j]) <=> LexLess(Key(foreign[i]), Key(foreign[j]))
    BY DEF Before, Rank, Key, Order
  <2>. QED
    BY <2>1, <2>2, ComparisonIsFair, PreferredIsFirst DEF SameDescriptions
<1>. QED
  BY <1>1, InUse, PTL

\* In a table of any size the scan finds the best grandmaster, by a path at most
\* one step longer than the shortest.
THEOREM TableNamesBest ==
    ASSUME SameDescriptions
    PROVE  Spec => []BestNamesBestGrandmaster
<1>. DEFINE n == number_foreign_records
            b == foreign[Best(foreign, n, parent)]
<1>1. InUseOK => BestNamesBestGrandmaster
  <2>. SUFFICES ASSUME InUseOK, n > 0, NEW i \in Known
                PROVE  /\ ~LexLess(Order(foreign[i].ds), Order(b.ds))
                       /\ foreign[i].ds.gm = b.ds.gm =>
                            b.ds.stepsRemoved <= foreign[i].ds.stepsRemoved + 1
    BY DEF BestNamesBestGrandmaster, Rank, Order
  <2>1. Consistent(foreign, n)
    BY DEF InUseOK, SameDescriptions, Consistent, Known
  <2>. QED
    BY <2>1, BestIsBest DEF InUseOK, Known
<1>. QED
  BY <1>1, InUse, PTL
=============================================================================
