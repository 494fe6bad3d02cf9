------------------------------ MODULE BmcTable ------------------------------
(***************************************************************************)
(* The comparison and the scan of bmcExec over every table of records that *)
(* a few senders can fill, with any of them as the current parent.         *)
(***************************************************************************)
EXTENDS Bmc

CONSTANT Records        \* what the senders announce

ASSUME RecordsAssumption == Records \subseteq ForeignRecord

VARIABLES foreign, number_foreign_records, parent

vars == <<foreign, number_foreign_records, parent>>

Known == {i \in 0..(MaxForeign - 1) : i < number_foreign_records}

Init ==
    /\ foreign = [i \in 0..(MaxForeign - 1) |-> ZeroRecord]
    /\ number_foreign_records = 0
    /\ parent = Self

\* A sender is recorded once, and refreshed in its place.
Learn(r) ==
    /\ number_foreign_records < MaxForeign
    /\ \A i \in Known : foreign[i].id # r.id
    /\ foreign' = [foreign EXCEPT ![number_foreign_records] = r]
    /\ number_foreign_records' = number_foreign_records + 1
    /\ UNCHANGED parent

Refresh(i, r) ==
    /\ foreign[i].id = r.id
    /\ foreign' = [foreign EXCEPT ![i] = r]
    /\ UNCHANGED <<number_foreign_records, parent>>

\* The sender of the best record becomes the parent.
Decide ==
    /\ number_foreign_records > 0
    /\ parent' = foreign[Best(foreign, number_foreign_records, parent)].src.clock
    /\ UNCHANGED <<foreign, number_foreign_records>>

Next ==
    \/ Decide
    \/ \E r \in Records : Learn(r) \/ \E i \in Known : Refresh(i, r)

Spec == Init /\ [][Next]_vars

-----------------------------------------------------------------------------
\* IEEE 1588 figures 27 and 28, as one order: the grandmaster's attributes and
\* identity, then the distance from it, then the sender.
Rank(r) == Append(r.ds.quality, r.ds.gm)
Before(a, b) ==
    LexLess(Rank(a) \o <<a.ds.stepsRemoved, a.src.clock>>,
            Rank(b) \o <<b.ds.stepsRemoved, b.src.clock>>)

\* The nested comparison is fair and agrees with that order: swapping its
\* arguments swaps its verdict, and whoever it prefers comes first.
ComparisonAgrees ==
    \A i, j \in Known :
        LET c == bmcDataSetComparison(foreign[i], foreign[j], parent)
        IN  /\ bmcDataSetComparison(foreign[j], foreign[i], parent) = -c
            /\ c < 0 => Before(foreign[i], foreign[j])

\* The comparison is not transitive: it is undecided about a parent one step
\* farther away than a rival.  Still the scan finds the best grandmaster, by a
\* path at most one step longer than the shortest.
BestNamesBestGrandmaster ==
    number_foreign_records > 0 =>
        LET b == foreign[Best(foreign, number_foreign_records, parent)]
        IN  \A i \in Known :
              /\ ~LexLess(Rank(foreign[i]), Rank(b))
              /\ foreign[i].ds.gm = b.ds.gm =>
                   b.ds.stepsRemoved <= foreign[i].ds.stepsRemoved + 1
=============================================================================
