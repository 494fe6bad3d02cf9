------------------------------ MODULE BmcProofs ------------------------------
(***************************************************************************)
(* Facts about the operators of Bmc, for every size of the table: the scan *)
(* stays inside the records in use, the comparison is fair and agrees with *)
(* the order of the standard, and the record that the scan finds names the *)
(* best grandmaster.                                                       *)
(*                                                                         *)
(* BestScan is defined by recursion along the table.  That such a function *)
(* exists is proved by induction; as the provers cannot instantiate an     *)
(* induction theorem with a formula, induction is stated here about sets   *)
(* of naturals.                                                            *)
(***************************************************************************)
EXTENDS Bmc, TLAPS, WellFoundedInduction, SequenceTheorems

LEMMA LeastNat ==
    ASSUME NEW T \in SUBSET Nat, T # {}
    PROVE  \E x \in T : \A y \in T : x <= y
<1> DEFINE R == {ss \in Nat \X Nat : ss[1] < ss[2]}
<1>1. R = OpToRel(<, Nat)
  BY DEF OpToRel
<1>2. IsWellFoundedOn(R, Nat)
  BY <1>1, NatLessThanWellFounded
<1>3. PICK x \in T : \A y \in T : ~(<<y, x>> \in R)
  BY <1>2, WFMin
<1>4. ASSUME NEW y \in T PROVE x <= y
  <2>1. <<y, x>> \in R <=> y < x
    OBVIOUS
  <2>2. ~(y < x)
    BY <1>3, <2>1
  <2> QED BY <2>2
<1> QED BY <1>4

LEMMA InductionOnSets ==
    ASSUME NEW S, 0 \in S, \A n \in Nat : n \in S => n + 1 \in S
    PROVE  Nat \subseteq S
<1> DEFINE T == Nat \ S
<1> SUFFICES ASSUME T # {} PROVE FALSE
  OBVIOUS
<1>1. PICK x \in T : \A y \in T : x <= y
  BY LeastNat
<1>2. x # 0 /\ x - 1 \in Nat
  OBVIOUS
<1>3. x - 1 \in S
  BY <1>1, <1>2
<1> QED BY <1>2, <1>3

-----------------------------------------------------------------------------
(* The scan of the foreign master table *)

\* One step of the loop, from the best record of the first i.
ScanStep(foreign, n, parent, f, i) ==
    IF i = 0 THEN 0
    ELSE IF i < n /\ bmcDataSetComparison(foreign[i], foreign[f[i-1]], parent) < 0
    THEN i ELSE f[i-1]

LEMMA ScanExists ==
    ASSUME NEW foreign, NEW n, NEW parent
    PROVE  \E f : f = [i \in 0..(MaxForeign - 1) |-> ScanStep(foreign, n, parent, f, i)]
<1> DEFINE D == 0..(MaxForeign - 1)
           Step(f, i) == ScanStep(foreign, n, parent, f, i)
           S == {m \in Nat : \E f \in [D -> D] : \A i \in D : i <= m => f[i] = Step(f, i)}
<1>1. MaxForeign \in Nat \ {0}
  BY BmcAssumption
<1>2. 0 \in S
  <2>1. [i \in D |-> 0] \in [D -> D]
    BY <1>1
  <2>2. \A i \in D : i <= 0 => [j \in D |-> 0][i] = Step([j \in D |-> 0], i)
    BY <1>1 DEF ScanStep
  <2> QED BY <2>1, <2>2
<1>3. ASSUME NEW m \in Nat, m \in S
      PROVE  m + 1 \in S
  <2>1. PICK f \in [D -> D] : \A i \in D : i <= m => f[i] = Step(f, i)
    BY <1>3
  <2> DEFINE g == [f EXCEPT ![m + 1] = Step(f, m + 1)]
  <2>2. ASSUME NEW i \in D, i # 0 PROVE i - 1 \in D
    BY <1>1, <2>2
  <2>3. ASSUME m + 1 \in D PROVE Step(f, m + 1) \in D
    <3>1. f[m] \in D
      BY <2>1, <2>2, <2>3
    <3> QED BY <3>1, <2>3 DEF ScanStep
  <2>4. g \in [D -> D]
    BY <2>1, <2>3
  <2>5. ASSUME NEW i \in D, i <= m + 1 PROVE g[i] = Step(g, i)
    <3>1. Step(g, i) = Step(f, i)
      <4>1. CASE i = 0
        BY <4>1 DEF ScanStep
      <4>2. CASE i # 0
        <5>1. i - 1 \in D /\ i - 1 # m + 1
          BY <1>1, <2>2, <2>5, <4>2
        <5>2. g[i - 1] = f[i - 1]
          BY <5>1, <2>1
        <5> QED BY <5>2 DEF ScanStep
      <4> QED BY <4>1, <4>2
    <3>2. g[i] = Step(f, i)
      <4>1. CASE i = m + 1
        BY <4>1, <2>1
      <4>2. CASE i # m + 1
        BY <4>2, <2>1, <2>5, <1>1
      <4> QED BY <4>1, <4>2
    <3> QED BY <3>1, <3>2
  <2>6. \E ff \in [D -> D] : \A i \in D : i <= m + 1 => ff[i] = Step(ff, i)
    <3> HIDE DEF g, Step
    <3> QED BY <2>4, <2>5
  <2>7. m + 1 \in Nat
    OBVIOUS
  <2> HIDE DEF g, Step
  <2> QED BY <2>6, <2>7
<1>4. MaxForeign - 1 \in S
  <2> HIDE DEF S
  <2> QED BY <1>1, <1>2, <1>3, InductionOnSets
<1>5. PICK f \in [D -> D] : \A i \in D : f[i] = Step(f, i)
  BY <1>1, <1>4, SMTT(30)
<1>6. f = [i \in D |-> Step(f, i)]
  BY <1>5
<1> QED BY <1>6

\* The recursive definition means what it says.
LEMMA ScanUnfolds ==
    ASSUME NEW foreign, NEW n, NEW parent
    PROVE  BestScan(foreign, n, parent) =
             [i \in 0..(MaxForeign - 1) |->
                ScanStep(foreign, n, parent, BestScan(foreign, n, parent), i)]
<1> DEFINE Scan(f) == [i \in 0..(MaxForeign - 1) |-> ScanStep(foreign, n, parent, f, i)]
<1>1. BestScan(foreign, n, parent) = CHOOSE f : f = Scan(f)
  BY DEF BestScan, ScanStep
<1>2. \E f : f = Scan(f)
  BY ScanExists
<1> HIDE DEF Scan
<1>3. BestScan(foreign, n, parent) = Scan(BestScan(foreign, n, parent))
  BY <1>1, <1>2
<1> QED BY <1>3 DEF Scan

\* The scan ends inside the table, on a record in use: the state decision never
\* follows a record that addForeign has not written since the table was emptied.
THEOREM BestInUse ==
    ASSUME NEW foreign, NEW n \in Nat, NEW parent
    PROVE  /\ Best(foreign, n, parent) \in 0..(MaxForeign - 1)
           /\ n > 0 => Best(foreign, n, parent) < n
<1> DEFINE D == 0..(MaxForeign - 1)
           h == BestScan(foreign, n, parent)
           S == {m \in Nat : m \in D => h[m] \in D /\ (n > 0 => h[m] < n)}
<1>1. MaxForeign \in Nat \ {0}
  BY BmcAssumption
<1>2. \A i \in D : h[i] = ScanStep(foreign, n, parent, h, i)
  <2>1. h = [i \in D |-> ScanStep(foreign, n, parent, h, i)]
    BY ScanUnfolds
  <2> HIDE DEF h
  <2> QED BY <2>1
<1> HIDE DEF h
<1>3. 0 \in S
  BY <1>1, <1>2 DEF ScanStep
<1>4. ASSUME NEW m \in Nat, m \in S
      PROVE  m + 1 \in S
  <2> SUFFICES ASSUME m + 1 \in D
               PROVE  h[m + 1] \in D /\ (n > 0 => h[m + 1] < n)
    OBVIOUS
  <2>1. h[m] \in D /\ (n > 0 => h[m] < n)
    BY <1>1, <1>4
  <2>2. h[m + 1] = IF m + 1 < n /\ bmcDataSetComparison(foreign[m + 1], foreign[h[m]], parent) < 0
                   THEN m + 1 ELSE h[m]
    BY <1>2 DEF ScanStep
  <2> QED BY <2>1, <2>2
<1>5. MaxForeign - 1 \in S
  <2> HIDE DEF S
  <2> QED BY <1>1, <1>3, <1>4, InductionOnSets
<1> QED BY <1>1, <1>5 DEF Best, h
-----------------------------------------------------------------------------
(* The order of figure 27 *)

Ranks == [1..6 -> Nat]

\* The attributes of a grandmaster with its identity, as they are compared.
Order(ds) == Append(ds.quality, ds.gm)

LEMMA OrderType ==
    ASSUME NEW ds \in DataSet
    PROVE  /\ Order(ds) \in Ranks
           /\ \A k \in 1..5 : Order(ds)[k] = ds.quality[k]
           /\ Order(ds)[6] = ds.gm
<1> DEFINE q == ds.quality
           g == ds.gm
           s == Append(q, g)
<1>1. q \in [1..5 -> Nat] /\ g \in Nat
  BY DEF DataSet, Quality, Clocks
<1> HIDE DEF q, g
<1>2. q \in Seq(Nat)
  BY <1>1, SeqDef
<1>3. Len(q) = 5
  <2>1. 1..Len(q) = 1..5 /\ Len(q) \in Nat
    BY <1>1, <1>2, LenProperties, Zenon
  <2>2. \A n \in Nat : 1..n = 1..5 => n = 5
    <3> SUFFICES ASSUME NEW n \in Nat, 1..n = 1..5 PROVE n = 5
      OBVIOUS
    <3>1. 5 \in 1..n /\ n + 1 \notin 1..n
      OBVIOUS
    <3> QED BY <3>1
  <2> QED BY <2>1, <2>2, Zenon
<1>4. /\ s \in Seq(Nat) /\ Len(s) = Len(q) + 1
      /\ \A k \in 1..Len(q) : s[k] = q[k]
      /\ s[Len(q) + 1] = g
  <2> HIDE DEF s
  <2>1. \A S : \A t \in Seq(S) : \A e \in S :
          /\ Append(t, e) \in Seq(S) /\ Len(Append(t, e)) = Len(t) + 1
          /\ \A k \in 1..Len(t) : Append(t, e)[k] = t[k]
          /\ Append(t, e)[Len(t) + 1] = e
    BY AppendProperties
  <2> QED BY <1>1, <1>2, <2>1, ZenonT(60) DEF s
<1> HIDE DEF s
<1>5. 5 + 1 = 6
  OBVIOUS
<1>6. s \in [1..6 -> Nat] /\ s[6] = g /\ \A k \in 1..5 : s[k] = q[k]
  BY <1>3, <1>4, <1>5, LenProperties, Zenon
<1> QED BY <1>6 DEF Order, Ranks, s, q, g

LEMMA LexIrreflexive ==
    ASSUME NEW a \in Ranks PROVE ~LexLess(a, a)
BY DEF LexLess, Ranks

LEMMA LexTransitive ==
    ASSUME NEW a \in Ranks, NEW b \in Ranks, NEW c \in Ranks, LexLess(a, b), LexLess(b, c)
    PROVE  LexLess(a, c)
<1>1. PICK k \in 1..6 : a[k] < b[k] /\ \A j \in 1..(k - 1) : a[j] = b[j]
  BY DEF LexLess, Ranks
<1>2. PICK l \in 1..6 : b[l] < c[l] /\ \A j \in 1..(l - 1) : b[j] = c[j]
  BY DEF LexLess, Ranks
<1> DEFINE m == IF k < l THEN k ELSE l
<1>3. m \in 1..6 /\ a[m] < c[m] /\ \A j \in 1..(m - 1) : a[j] = c[j]
  <2>1. CASE k < l
    BY <1>1, <1>2, <2>1 DEF Ranks
  <2>2. CASE l < k
    BY <1>1, <1>2, <2>2 DEF Ranks
  <2>3. CASE k = l
    BY <1>1, <1>2, <2>3 DEF Ranks
  <2> QED BY <2>1, <2>2, <2>3
<1> QED BY <1>3 DEF LexLess, Ranks

\* Of two different ranks one comes first: the one with less in the first place
\* where they differ.
LEMMA LexTotal ==
    ASSUME NEW a \in Ranks, NEW b \in Ranks, a # b
    PROVE  LexLess(a, b) \/ LexLess(b, a)
<1> DEFINE T == {k \in 1..6 : a[k] # b[k]}
<1>1. T \in SUBSET Nat /\ T # {}
  BY DEF Ranks
<1>2. PICK k \in T : \A l \in T : k <= l
  BY <1>1, LeastNat
<1>3. k \in 1..6 /\ \A j \in 1..(k - 1) : a[j] = b[j] /\ b[j] = a[j]
  BY <1>2
<1>4. a[k] < b[k] \/ b[k] < a[k]
  BY <1>2 DEF Ranks
<1> QED BY <1>3, <1>4 DEF LexLess, Ranks

\* Two different grandmasters never tie, and the better one is preferred.
LEMMA QualityDecides ==
    ASSUME NEW a \in ForeignRecord, NEW b \in ForeignRecord, a.ds.gm # b.ds.gm
    PROVE  \/ /\ CompareQuality(a, b) = -1 /\ CompareQuality(b, a) = 1
              /\ LexLess(Order(a.ds), Order(b.ds))
           \/ /\ CompareQuality(a, b) = 1 /\ CompareQuality(b, a) = -1
              /\ LexLess(Order(b.ds), Order(a.ds))
<1>1. a.ds \in DataSet /\ b.ds \in DataSet
  BY DEF ForeignRecord
<1>2. /\ Order(a.ds) \in Ranks /\ Order(b.ds) \in Ranks /\ Order(a.ds) # Order(b.ds)
  BY <1>1, OrderType
<1>3. LexLess(Order(a.ds), Order(b.ds)) \/ LexLess(Order(b.ds), Order(a.ds))
  BY <1>2, LexTotal
<1>4. ~(LexLess(Order(a.ds), Order(b.ds)) /\ LexLess(Order(b.ds), Order(a.ds)))
  BY <1>2, LexTransitive, LexIrreflexive
<1> QED BY <1>3, <1>4 DEF CompareQuality, Order

\* The comparison of two records in any role of the parent is fair: swapping its
\* arguments swaps its verdict, though figures 27 and 28 are coded as nested
\* conditions that treat the two sides apart (bmc.cpp).
THEOREM ComparisonIsFair ==
    ASSUME NEW a \in ForeignRecord, NEW b \in ForeignRecord, NEW parent
    PROVE  bmcDataSetComparison(b, a, parent) = -bmcDataSetComparison(a, b, parent)
<1>1. CASE a.ds.gm # b.ds.gm
  BY <1>1, QualityDecides DEF bmcDataSetComparison
<1>2. CASE a.ds.gm = b.ds.gm
  <2>1. /\ a.ds.stepsRemoved \in Nat /\ b.ds.stepsRemoved \in Nat
        /\ a.src.clock \in Nat /\ b.src.clock \in Nat
    BY DEF ForeignRecord, DataSet, PortIdentity, Clocks
  <2> QED BY <1>2, <2>1 DEF bmcDataSetComparison, CompareSteps
<1> QED BY <1>1, <1>2

\* A record that is preferred is no farther from the grandmaster, and one that is
\* not is no more than a step nearer.
LEMMA StepsDecide ==
    ASSUME NEW a \in ForeignRecord, NEW b \in ForeignRecord, NEW parent, a.ds.gm = b.ds.gm
    PROVE  IF bmcDataSetComparison(a, b, parent) < 0 THEN a.ds.stepsRemoved <= b.ds.stepsRemoved
           ELSE b.ds.stepsRemoved <= a.ds.stepsRemoved + 1
<1>1. /\ a.ds.stepsRemoved \in Nat /\ b.ds.stepsRemoved \in Nat
      /\ a.src.clock \in Nat /\ b.src.clock \in Nat
  BY DEF ForeignRecord, DataSet, PortIdentity, Clocks
<1> QED BY <1>1 DEF bmcDataSetComparison, CompareSteps

\* The first n records name no grandmaster in two ways.
Consistent(foreign, n) ==
    \A i, j \in 0..(MaxForeign - 1) :
        i < n /\ j < n /\ foreign[i].ds.gm = foreign[j].ds.gm =>
            foreign[i].ds.quality = foreign[j].ds.quality

\* bmcExec finds the best grandmaster in a table of any size, and a path to it at
\* most one step longer than the shortest, although the comparison of records is
\* not transitive (it is undecided about a parent one step farther away): if the
\* senders that name the same grandmaster describe it in the same way.
THEOREM BestIsBest ==
    ASSUME NEW foreign \in [0..(MaxForeign - 1) -> ForeignRecord],
           NEW n \in 0..MaxForeign, NEW parent, Consistent(foreign, n),
           NEW j \in 0..(MaxForeign - 1), j < n
    PROVE  LET b == foreign[Best(foreign, n, parent)]
           IN  /\ ~LexLess(Order(foreign[j].ds), Order(b.ds))
               /\ foreign[j].ds.gm = b.ds.gm =>
                    b.ds.stepsRemoved <= foreign[j].ds.stepsRemoved + 1
<1> DEFINE D == 0..(MaxForeign - 1)
           h == BestScan(foreign, n, parent)
           R(i) == Order(foreign[i].ds)
           st(i) == foreign[i].ds.stepsRemoved
           Good(m) == /\ h[m] \in D /\ h[m] < n
                      /\ \A i \in D : i <= m /\ i < n =>
                           /\ ~LexLess(R(i), R(h[m]))
                           /\ foreign[i].ds.gm = foreign[h[m]].ds.gm => st(h[m]) <= st(i) + 1
           S == {m \in Nat : m \in D => Good(m)}
<1>1. MaxForeign \in Nat \ {0} /\ n \in Nat /\ n > 0
  BY BmcAssumption
<1>2. \A i \in D : h[i] = ScanStep(foreign, n, parent, h, i)
  <2>1. h = [i \in D |-> ScanStep(foreign, n, parent, h, i)]
    BY ScanUnfolds
  <2> HIDE DEF h
  <2> QED BY <2>1
<1>3. \A i \in D : /\ foreign[i] \in ForeignRecord
                   /\ R(i) \in Ranks /\ st(i) \in Nat
  <2> SUFFICES ASSUME NEW i \in D
               PROVE  foreign[i] \in ForeignRecord /\ R(i) \in Ranks /\ st(i) \in Nat
    OBVIOUS
  <2>1. foreign[i] \in ForeignRecord /\ foreign[i].ds \in DataSet /\ st(i) \in Nat
    BY DEF ForeignRecord, DataSet
  <2> QED BY <2>1, OrderType
<1>4. ASSUME NEW x \in D, NEW y \in D, x < n, y < n, foreign[x].ds.gm = foreign[y].ds.gm
      PROVE  R(x) = R(y)
  BY <1>4 DEF Consistent, Order
<1> HIDE DEF h
<1>5. 0 \in S
  <2>1. h[0] = 0 /\ 0 \in D
    BY <1>1, <1>2 DEF ScanStep
  <2>2. ~LexLess(R(0), R(0)) /\ st(0) <= st(0) + 1
    BY <1>3, <2>1, LexIrreflexive
  <2>3. \A i \in D : i <= 0 => i = 0
    BY <1>1
  <2> HIDE DEF R, st
  <2> QED BY <1>1, <2>1, <2>2, <2>3
<1>6. ASSUME NEW m \in Nat, m \in S
      PROVE  m + 1 \in S
  <2> SUFFICES ASSUME m + 1 \in D PROVE Good(m + 1)
    OBVIOUS
  <2> DEFINE k == m + 1
             b == h[m]
             v == bmcDataSetComparison(foreign[k], foreign[b], parent)
  <2>1. Good(m) /\ m \in D /\ b \in D /\ b < n /\ k \in D /\ k - 1 = m /\ k # 0
    BY <1>1, <1>6
  <2>2. h[k] = IF k < n /\ v < 0 THEN k ELSE b
    BY <1>2, <2>1 DEF ScanStep
  <2>3. CASE ~(k < n)
    BY <2>1, <2>2, <2>3
  <2>4. CASE k < n /\ foreign[k].ds.gm = foreign[b].ds.gm
    <3>1. R(k) = R(b)
      BY <1>4, <2>1, <2>4
    <3>2. st(k) \in Nat /\ st(b) \in Nat /\ \A i \in D : st(i) \in Nat
      BY <1>3, <2>1
    <3>3. IF v < 0 THEN st(k) <= st(b) ELSE st(b) <= st(k) + 1
      BY <1>3, <2>1, <2>4, StepsDecide
    <3>4. ~LexLess(R(b), R(b)) /\ ~LexLess(R(k), R(k))
      BY <1>3, <2>1, LexIrreflexive
    <3>5. ASSUME NEW i \in D, i <= k, i < n
          PROVE  /\ ~LexLess(R(i), R(h[k]))
                 /\ foreign[i].ds.gm = foreign[h[k]].ds.gm => st(h[k]) <= st(i) + 1
      <4>1. i = k \/ i <= m
        BY <3>5
      <4> HIDE DEF v, R, st
      <4> QED BY <2>1, <2>2, <2>4, <3>1, <3>2, <3>3, <3>4, <3>5, <4>1
    <3> QED BY <2>1, <2>2, <2>4, <3>5
  <2>5. CASE k < n /\ foreign[k].ds.gm # foreign[b].ds.gm
    <3>1. IF v < 0 THEN LexLess(R(k), R(b)) ELSE ~LexLess(R(k), R(b))
      <4>1. v = CompareQuality(foreign[k], foreign[b])
        BY <2>5 DEF bmcDataSetComparison
      <4> HIDE DEF v
      <4> QED BY <4>1 DEF CompareQuality, Order
    <3>2. R(k) \in Ranks /\ R(b) \in Ranks /\ \A i \in D : R(i) \in Ranks
      BY <1>3, <2>1
    <3>3. st(k) \in Nat
      BY <1>3, <2>1
    <3>4. ASSUME NEW i \in D, i <= k, i < n
          PROVE  /\ ~LexLess(R(i), R(h[k]))
                 /\ foreign[i].ds.gm = foreign[h[k]].ds.gm => st(h[k]) <= st(i) + 1
      <4>1. i = k \/ i <= m
        BY <3>4
      <4>2. CASE i = k
        <5>1. ~LexLess(R(k), R(k))
          BY <3>2, LexIrreflexive
        <5> HIDE DEF v, R
        <5> QED BY <2>1, <2>2, <2>5, <3>1, <3>3, <4>2, <5>1
      <4>3. CASE i <= m /\ v < 0
        <5>1. ~LexLess(R(i), R(b)) /\ h[k] = k
          BY <2>1, <2>2, <2>5, <3>4, <4>3
        <5>2. ~LexLess(R(i), R(k))
          BY <3>1, <3>2, <4>3, <5>1, LexTransitive
        <5>3. foreign[i].ds.gm # foreign[k].ds.gm
          BY <1>4, <2>5, <3>1, <3>4, <4>3, <5>1
        <5> HIDE DEF R, st
        <5> QED BY <5>1, <5>2, <5>3
      <4>4. CASE i <= m /\ ~(v < 0)
        BY <2>1, <2>2, <3>4, <4>4
      <4> QED BY <4>1, <4>2, <4>3, <4>4
    <3> QED BY <2>1, <2>2, <2>5, <3>4
  <2> QED BY <2>3, <2>4, <2>5
<1>7. MaxForeign - 1 \in S
  <2> HIDE DEF S
  <2> QED BY <1>1, <1>5, <1>6, InductionOnSets
<1>8. Good(MaxForeign - 1) /\ j <= MaxForeign - 1
  BY <1>1, <1>7
<1> QED BY <1>8 DEF Best, h

-----------------------------------------------------------------------------
(* The order of figures 27 and 28 *)

\* The attributes of a record in the order in which they decide.
Key(r) == Order(r.ds) \o <<r.ds.stepsRemoved, r.src.clock>>

LEMMA KeyType ==
    ASSUME NEW r \in ForeignRecord
    PROVE  /\ DOMAIN Key(r) = 1..8
           /\ \A i \in 1..6 : Key(r)[i] = Order(r.ds)[i]
           /\ Key(r)[7] = r.ds.stepsRemoved
           /\ Key(r)[8] = r.src.clock
<1> DEFINE s == Order(r.ds)
           n == r.ds.stepsRemoved
           c == r.src.clock
           t == <<n, c>>
           u == s \o t
<1>1. s \in [1..6 -> Nat] /\ n \in Nat /\ c \in Nat
  BY OrderType DEF ForeignRecord, DataSet, PortIdentity, Clocks, Ranks
<1> HIDE DEF s, n, c
<1>2. s \in Seq(Nat) /\ Len(s) = 6
  <2>1. s \in Seq(Nat)
    BY <1>1, SeqDef
  <2>2. 1..Len(s) = 1..6 /\ Len(s) \in Nat
    BY <1>1, <2>1, LenProperties, Zenon
  <2>3. \A k \in Nat : 1..k = 1..6 => k = 6
    <3> SUFFICES ASSUME NEW k \in Nat, 1..k = 1..6 PROVE k = 6
      OBVIOUS
    <3>1. 6 \in 1..6 /\ k + 1 \notin 1..k /\ 7 \notin 1..6
      OBVIOUS
    <3>2. 6 \in 1..k /\ k + 1 \notin 1..6
      BY <3>1
    <3>. QED
      BY <3>2
  <2>. QED
    BY <2>1, <2>2, <2>3, Zenon
<1>3. t \in Seq(Nat) /\ Len(t) = 2 /\ t[1] = n /\ t[2] = c
  BY <1>1
<1> HIDE DEF t
<1>4. /\ u \in Seq(Nat)
      /\ Len(u) = Len(s) + Len(t)
      /\ \A i \in 1..(Len(s) + Len(t)) : u[i] = IF i <= Len(s) THEN s[i] ELSE t[i - Len(s)]
  BY <1>2, <1>3, ConcatProperties, Zenon
<1>5. Len(s) + Len(t) = 8
  BY <1>2, <1>3
<1>6. /\ DOMAIN u = 1..8
      /\ \A i \in 1..8 : u[i] = IF i <= 6 THEN s[i] ELSE t[i - 6]
  BY <1>2, <1>4, <1>5, LenProperties, Zenon
<1> HIDE DEF u
<1>7. (\A i \in 1..6 : u[i] = s[i]) /\ u[7] = t[1] /\ u[8] = t[2]
  BY <1>6
<1>. QED
  BY <1>3, <1>6, <1>7 DEF Key, s, t, u, n, c

\* What the comparison prefers comes first in the order of the figures.
LEMMA PreferredIsFirst ==
    ASSUME NEW a \in ForeignRecord, NEW b \in ForeignRecord, NEW parent,
           a.ds.gm = b.ds.gm => a.ds.quality = b.ds.quality,
           bmcDataSetComparison(a, b, parent) < 0
    PROVE  LexLess(Key(a), Key(b))
<1>1. CASE a.ds.gm # b.ds.gm
  <2>1. LexLess(Order(a.ds), Order(b.ds))
    BY <1>1, QualityDecides DEF bmcDataSetComparison
  <2>2. DOMAIN Order(a.ds) = 1..6
    BY OrderType DEF ForeignRecord, Ranks
  <2>3. PICK k \in 1..6 : /\ Order(a.ds)[k] < Order(b.ds)[k]
                          /\ \A j \in 1..(k - 1) : Order(a.ds)[j] = Order(b.ds)[j]
    BY <2>1, <2>2 DEF LexLess
  <2>4. /\ Key(a)[k] < Key(b)[k]
        /\ \A j \in 1..(k - 1) : Key(a)[j] = Key(b)[j]
    BY <2>3, KeyType
  <2>. QED
    BY <2>4, KeyType DEF LexLess
<1>2. CASE a.ds.gm = b.ds.gm
  <2>1. \A i \in 1..6 : Key(a)[i] = Key(b)[i]
    <3>1. Order(a.ds) = Order(b.ds)
      BY <1>2 DEF Order
    <3>. QED
      BY <3>1, KeyType
  <2>2. /\ a.ds.stepsRemoved \in Nat /\ b.ds.stepsRemoved \in Nat
        /\ a.src.clock \in Nat /\ b.src.clock \in Nat
    BY DEF ForeignRecord, DataSet, PortIdentity, Clocks
  <2>3. \/ a.ds.stepsRemoved < b.ds.stepsRemoved
        \/ a.ds.stepsRemoved = b.ds.stepsRemoved /\ a.src.clock < b.src.clock
    BY <1>2, <2>2 DEF bmcDataSetComparison, CompareSteps
  <2>4. CASE a.ds.stepsRemoved < b.ds.stepsRemoved
    <3>1. 7 \in 1..8 /\ Key(a)[7] < Key(b)[7] /\ \A j \in 1..(7 - 1) : Key(a)[j] = Key(b)[j]
      BY <2>1, <2>4, KeyType
    <3>. QED
      BY <3>1, KeyType DEF LexLess
  <2>5. CASE a.ds.stepsRemoved = b.ds.stepsRemoved /\ a.src.clock < b.src.clock
    <3>1. \A j \in 1..(8 - 1) : j \in 1..6 \/ j = 7
      OBVIOUS
    <3>2. 8 \in 1..8 /\ Key(a)[8] < Key(b)[8] /\ \A j \in 1..(8 - 1) : Key(a)[j] = Key(b)[j]
      BY <2>1, <2>5, <3>1, KeyType
    <3>. QED
      BY <3>2, KeyType DEF LexLess
  <2>. QED
    BY <2>3, <2>4, <2>5
<1>. QED
  BY <1>1, <1>2
=============================================================================
