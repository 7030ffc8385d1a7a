--------------------------- MODULE VlrVsetProofs ---------------------------
(***************************************************************************)
(* What is proved of VlrVset: for every ring, every size of the two sets   *)
(* and any messages, each safety property its runs check.                  *)
(*                                                                         *)
(* VsetInv is the inductive invariant.  PendOK, its main part, says of the *)
(* pendingVset what PendingOwned and FarthestFresh say; pendingVsetAdd     *)
(* keeps it (PendingAddOK), and Keeps nobody out who is not Beyond a full  *)
(* set.  Both rest on ranks: the rank of a vid in a set is the number of   *)
(* members met before it on the way clockwise, and every rank below the    *)
(* size of the set is taken by exactly one member (RankExists).            *)
(***************************************************************************)
EXTENDS VlrVset, TLAPS, FiniteSetTheorems

(***************************************************************************)
(* Natural numbers                                                         *)
(***************************************************************************)

\* < on the natural numbers is within a well-founded relation
LEMMA NatLess ==
  \E R : IsWellFoundedOn(R, Nat) /\ \A a, b \in Nat : a < b => <<a, b>> \in R
<1>2. \A a, b \in Nat : a < b => <<a, b>> \in OpToRel(<, Nat)
  BY DEF OpToRel
<1> QED BY <1>2, NatLessThanWellFounded, Zenon

\* a set of natural numbers has a least one
LEMMA NatMin ==
  ASSUME NEW S \in SUBSET Nat, S # {}
  PROVE  \E x \in S : \A y \in S : x <= y
<1>1. PICK R : IsWellFoundedOn(R, Nat) /\ \A a, b \in Nat : a < b => <<a, b>> \in R
  BY NatLess
<1>2. S \subseteq Nat
  OBVIOUS
<1>a. IsWellFoundedOn(R, Nat)
  BY <1>1
<1>b. \E x \in S : \A y \in S : ~(<<y, x>> \in R)
  BY <1>a, <1>2, WFMin, Zenon
<1>3. PICK x \in S : \A y \in S : ~(<<y, x>> \in R)
  BY <1>b
<1>4. \A y \in S : ~(y < x)
  BY <1>1, <1>3
<1> QED BY <1>4

\* and so there is induction over them, for the recursion over a srcVset
LEMMA NatInd ==
  ASSUME NEW S \in SUBSET Nat, 0 \in S, \A n \in S : n + 1 \in S
  PROVE  S = Nat
<1> SUFFICES ASSUME Nat \ S # {} PROVE FALSE
  OBVIOUS
<1>1. Nat \ S \in SUBSET Nat
  OBVIOUS
<1>2. PICK x \in Nat \ S : \A y \in Nat \ S : x <= y
  BY <1>1, NatMin
<1>3. x - 1 \in Nat /\ x - 1 \in S
  BY <1>2
<1> QED BY <1>2, <1>3

(***************************************************************************)
(* Counting around the ring                                                *)
(***************************************************************************)

\* the members of S met before v on the way clockwise from me
Before(S, me, v) == {w \in S : CWDistance(me, w) < CWDistance(me, v)}
Rank(S, me, v)   == Cardinality(Before(S, me, v))

\* Seen from me the ring is a line: the two distances run against each other,
\* no two vids are equally far, and a walk from v meets those behind v last.
LEMMA RingDistance ==
  ASSUME NEW me \in RingVids, NEW v \in RingVids \ {me}, NEW w \in RingVids \ {me}
  PROVE  /\ CWDistance(me, v) \in 1 .. VidMax
         /\ CCWDistance(me, v) = VidMax + 1 - CWDistance(me, v)
         /\ CWDistance(me, v) = CWDistance(me, w) => v = w
         /\ v # w => CWDistance(v, w) =
              IF CWDistance(me, v) < CWDistance(me, w)
              THEN CWDistance(me, w) - CWDistance(me, v)
              ELSE VidMax + 1 + CWDistance(me, w) - CWDistance(me, v)
         /\ v # w => CCWDistance(v, w) = VidMax + 1 - CWDistance(v, w)
  BY VidMaxAssumption DEF RingVids, CWDistance, CCWDistance

\* sets of vids are finite
LEMMA VidsFinite ==
  ASSUME NEW S \in SUBSET RingVids
  PROVE  IsFiniteSet(S) /\ Cardinality(S) \in Nat
<1>1. 0 \in Int /\ VidMax \in Int
  BY VidMaxAssumption
<1>2. IsFiniteSet(RingVids)
  BY <1>1, FS_Interval DEF RingVids
<1>3. IsFiniteSet(S)
  BY <1>2, FS_Subset
<1> QED
  BY <1>3, FS_CardinalityType

\* a rank is a number below the size of the set it is a rank in
LEMMA RankType ==
  ASSUME NEW me \in RingVids, NEW S \in SUBSET (RingVids \ {me}), NEW v \in RingVids \ {me}
  PROVE  /\ Rank(S, me, v) \in 0 .. Cardinality(S)
         /\ v \in S => Rank(S, me, v) < Cardinality(S)
<1>1. IsFiniteSet(S) /\ Cardinality(S) \in Nat
  BY VidsFinite
<1>2. Before(S, me, v) \in SUBSET S
  BY DEF Before
<1>3. Before(S, me, v) \in SUBSET RingVids
  BY <1>2
<1>4. Rank(S, me, v) \in Nat
  BY <1>3, VidsFinite DEF Rank
<1>5. Rank(S, me, v) <= Cardinality(S)
  BY <1>1, <1>2, FS_Subset DEF Rank
<1>6. ASSUME v \in S PROVE Rank(S, me, v) # Cardinality(S)
  <2>1. CWDistance(me, v) \in Int
    BY RingDistance
  <2>2. v \notin Before(S, me, v)
    BY <2>1 DEF Before
  <2>3. Before(S, me, v) # S
    BY <1>6, <2>2
  <2> QED
    BY <2>3, <1>1, <1>2, FS_Subset DEF Rank
<1> QED
  BY <1>1, <1>4, <1>5, <1>6

\* what one more member does to a rank
LEMMA RankAdd ==
  ASSUME NEW me \in RingVids, NEW S \in SUBSET (RingVids \ {me}),
         NEW x \in RingVids \ {me}, x \notin S, NEW v \in RingVids \ {me}
  PROVE  Rank(S \cup {x}, me, v)
           = Rank(S, me, v) + IF CWDistance(me, x) < CWDistance(me, v) THEN 1 ELSE 0
<1>1. Before(S, me, v) \in SUBSET RingVids
  BY DEF Before
<1>2. IsFiniteSet(Before(S, me, v)) /\ Cardinality(Before(S, me, v)) \in Nat
  BY <1>1, VidsFinite
<1>3. x \notin Before(S, me, v)
  BY DEF Before
<1>4. CASE CWDistance(me, x) < CWDistance(me, v)
  <2>1. Before(S \cup {x}, me, v) = Before(S, me, v) \cup {x}
    BY <1>4 DEF Before
  <2> QED
    BY <1>2, <1>3, <1>4, <2>1, FS_AddElement DEF Rank
<1>5. CASE ~ (CWDistance(me, x) < CWDistance(me, v))
  <2>1. Before(S \cup {x}, me, v) = Before(S, me, v)
    BY <1>5 DEF Before
  <2> QED
    BY <1>2, <1>5, <2>1 DEF Rank
<1> QED
  BY <1>4, <1>5

\* what one member less does to a rank
LEMMA RankRemove ==
  ASSUME NEW me \in RingVids, NEW S \in SUBSET (RingVids \ {me}),
         NEW x \in S, NEW v \in RingVids \ {me}
  PROVE  Rank(S \ {x}, me, v)
           = Rank(S, me, v) - IF CWDistance(me, x) < CWDistance(me, v) THEN 1 ELSE 0
<1>1. S \ {x} \in SUBSET (RingVids \ {me}) /\ x \in RingVids \ {me}
  OBVIOUS
<1>2. (S \ {x}) \cup {x} = S
  OBVIOUS
<1>3. Rank(S, me, v) = Rank(S \ {x}, me, v) + IF CWDistance(me, x) < CWDistance(me, v) THEN 1 ELSE 0
  BY <1>1, <1>2, RankAdd
<1>4. Rank(S \ {x}, me, v) \in Nat
  BY <1>1, RankType
<1> QED
  BY <1>3, <1>4

\* the order of two vids is the order of their ranks
LEMMA RankOrder ==
  ASSUME NEW me \in RingVids, NEW S \in SUBSET (RingVids \ {me}),
         NEW v \in S, NEW w \in RingVids \ {me}
  PROVE  /\ CWDistance(me, v) < CWDistance(me, w) => Rank(S, me, v) < Rank(S, me, w)
         /\ CWDistance(me, w) <= CWDistance(me, v) => Rank(S, me, w) <= Rank(S, me, v)
<1> v \in RingVids \ {me}
  OBVIOUS
<1>1. CWDistance(me, v) \in Int /\ CWDistance(me, w) \in Int
  BY RingDistance
<1>d. \A u \in S : CWDistance(me, u) \in Int
  BY RingDistance
<1>2. IsFiniteSet(Before(S, me, v)) /\ IsFiniteSet(Before(S, me, w))
  BY VidsFinite DEF Before
<1>3. Rank(S, me, v) \in Nat /\ Rank(S, me, w) \in Nat
  BY RankType
<1>4. ASSUME CWDistance(me, v) < CWDistance(me, w) PROVE Rank(S, me, v) < Rank(S, me, w)
  <2>1. Before(S, me, v) \in SUBSET Before(S, me, w)
    BY <1>1, <1>d, <1>4 DEF Before
  <2>2. v \in Before(S, me, w) /\ v \notin Before(S, me, v)
    BY <1>1, <1>4 DEF Before
  <2>3. Rank(S, me, v) <= Rank(S, me, w) /\ Rank(S, me, w) # Rank(S, me, v)
    BY <1>2, <2>1, <2>2, FS_Subset DEF Rank
  <2> QED
    BY <1>3, <2>3
<1>5. ASSUME CWDistance(me, w) <= CWDistance(me, v) PROVE Rank(S, me, w) <= Rank(S, me, v)
  <2>1. Before(S, me, w) \in SUBSET Before(S, me, v)
    BY <1>1, <1>d, <1>5 DEF Before
  <2> QED
    BY <1>2, <2>1, FS_Subset DEF Rank
<1> QED
  BY <1>4, <1>5

\* no two members have the same rank
LEMMA RankUnique ==
  ASSUME NEW me \in RingVids, NEW S \in SUBSET (RingVids \ {me}), NEW v \in S, NEW w \in S,
         Rank(S, me, v) = Rank(S, me, w)
  PROVE  v = w
<1>1. v \in RingVids \ {me} /\ w \in RingVids \ {me}
  OBVIOUS
<1>2. Rank(S, me, v) \in Nat
  BY <1>1, RankType
<1>4. CWDistance(me, v) \in Int /\ CWDistance(me, w) \in Int
  BY <1>1, RingDistance
<1>3. ~ (CWDistance(me, v) < CWDistance(me, w)) /\ ~ (CWDistance(me, w) < CWDistance(me, v))
  BY <1>1, <1>2, RankOrder
<1> QED
  BY <1>1, <1>3, <1>4, RingDistance

\* every rank below the size of the set is taken: ranks are an injection of the
\* set into as many numbers
LEMMA RankExists ==
  ASSUME NEW me \in RingVids, NEW S \in SUBSET (RingVids \ {me}),
         NEW i \in 0 .. Cardinality(S) - 1
  PROVE  \E v \in S : Rank(S, me, v) = i
<1> DEFINE N == 0 .. Cardinality(S) - 1
           f == [v \in S |-> Rank(S, me, v)]
<1>1. IsFiniteSet(S) /\ Cardinality(S) \in Nat
  BY VidsFinite
<1>2. IsFiniteSet(N) /\ Cardinality(N) = Cardinality(S)
  <2>1. 0 \in Int /\ Cardinality(S) - 1 \in Int
    BY <1>1
  <2> QED
    BY <1>1, <2>1, FS_Interval
<1>3. \A v \in S : Rank(S, me, v) \in N
  BY <1>1, RankType
<1>4. f \in [S -> N]
  BY <1>3
<1>5. \A v, w \in S : f[v] = f[w] => v = w
  BY RankUnique
<1>6. f \in Injection(S, N)
  BY <1>4, <1>5 DEF Injection, IsInjective
<1>7. f \in Surjection(S, N)
  BY <1>2, <1>6, FS_Injection, Zenon
<1>8. \E v \in S : f[v] = i
  BY <1>7 DEF Surjection
<1> QED
  BY <1>8
\* the i-th member is the one with i - 1 others before it
LEMMA NthCWRank ==
  ASSUME NEW me \in RingVids, NEW S \in SUBSET (RingVids \ {me}),
         NEW i \in 1 .. Cardinality(S)
  PROVE  /\ NthCW(S, me, i) \in S
         /\ Rank(S, me, NthCW(S, me, i)) = i - 1
<1> DEFINE UpTo(v) == {w \in S : CWDistance(me, w) <= CWDistance(me, v)}
<1>1. IsFiniteSet(S) /\ Cardinality(S) \in Nat
  BY VidsFinite
<1>2. ASSUME NEW v \in S PROVE Cardinality(UpTo(v)) = Rank(S, me, v) + 1 /\ Rank(S, me, v) \in Nat
  <2>1. v \in RingVids \ {me}
    OBVIOUS
  <2>2. \A w \in S : CWDistance(me, w) \in Int /\ (CWDistance(me, w) = CWDistance(me, v) => w = v)
    BY RingDistance
  <2>3. UpTo(v) = Before(S, me, v) \cup {v} /\ v \notin Before(S, me, v)
    BY <2>2 DEF Before
  <2>4. IsFiniteSet(Before(S, me, v)) /\ Rank(S, me, v) \in Nat
    BY VidsFinite DEF Before, Rank
  <2> QED
    BY <2>3, <2>4, FS_AddElement DEF Rank
<1>3. i - 1 \in 0 .. Cardinality(S) - 1
  BY <1>1
<1>4. PICK v \in S : Rank(S, me, v) = i - 1
  BY <1>3, RankExists
<1>5. Cardinality(UpTo(v)) = i
  BY <1>2, <1>4
<1>6. NthCW(S, me, i) \in S /\ Cardinality(UpTo(NthCW(S, me, i))) = i
  BY <1>5 DEF NthCW
<1> QED
  BY <1>2, <1>6

\* the only one
LEMMA NthCWUnique ==
  ASSUME NEW me \in RingVids, NEW S \in SUBSET (RingVids \ {me}),
         NEW i \in 1 .. Cardinality(S), NEW v \in S, Rank(S, me, v) = i - 1
  PROVE  v = NthCW(S, me, i)
<1>1. NthCW(S, me, i) \in S /\ Rank(S, me, NthCW(S, me, i)) = Rank(S, me, v)
  BY NthCWRank
<1> QED
  BY <1>1, RankUnique

\* what the assumptions on the constants say
LEMMA Constants ==
  /\ Me \in RingVids /\ Others \in SUBSET (RingVids \ {Me}) /\ Others = RingVids \ {Me}
  /\ Half \in Nat /\ Half >= 1 /\ RetryLimit \in Nat /\ RetryLimit >= 1
  /\ BackupHalf \in Nat /\ MaxOther \in Nat
  /\ PendingHalf \in Nat /\ PendingHalf >= 2 /\ PendingHalf >= Half + BackupHalf
  /\ IsRoot \in BOOLEAN /\ SetupNonEss \in BOOLEAN /\ NoTimer \notin Timer
<1>1. Half \in Nat \ {0} /\ RetryLimit \in Nat \ {0} /\ PendingHalf \in Nat
      /\ PendingHalf >= 2 * Half /\ PendingHalf >= Half + BackupHalf
  BY VsetAssumption
<1>2. PendingHalf >= 2 /\ Half >= 1 /\ RetryLimit >= 1
  BY <1>1
<1> QED
  BY <1>1, <1>2, VsetAssumption, NoTimerAssumption DEF Others

\* the next member clockwise of one that is not the last has the next rank
LEMMA NextCWRank ==
  ASSUME NEW S \in SUBSET Others, NEW v \in S, NEW x \in S, CWDistance(Me, v) < CWDistance(Me, x)
  PROVE  /\ NextCW(S, v) \in S
         /\ Rank(S, Me, NextCW(S, v)) = Rank(S, Me, v) + 1
<1>1. Me \in RingVids /\ S \in SUBSET (RingVids \ {Me})
  BY Constants
<1>2. v \in RingVids \ {Me} /\ x \in RingVids \ {Me}
  BY <1>1
<1>3. \A w \in S : /\ CWDistance(Me, w) \in 1 .. VidMax
                   /\ w # v => CWDistance(v, w) = IF CWDistance(Me, v) < CWDistance(Me, w)
                                                  THEN CWDistance(Me, w) - CWDistance(Me, v)
                                                  ELSE VidMax + 1 + CWDistance(Me, w) - CWDistance(Me, v)
                   /\ CWDistance(Me, w) = CWDistance(Me, v) => w = v
  BY <1>1, RingDistance
<1>4. Rank(S, Me, v) + 1 \in 0 .. Cardinality(S) - 1
  <2>1. Rank(S, Me, x) < Cardinality(S) /\ Rank(S, Me, x) \in Nat /\ Rank(S, Me, v) \in Nat
        /\ Cardinality(S) \in Nat
    BY <1>1, <1>2, RankType, VidsFinite
  <2>2. Rank(S, Me, v) < Rank(S, Me, x)
    BY <1>1, <1>2, RankOrder
  <2> QED
    BY <2>1, <2>2
<1>5. PICK u \in S : Rank(S, Me, u) = Rank(S, Me, v) + 1
  BY <1>1, <1>4, RankExists
<1>6. Rank(S, Me, v) \in Nat
  BY <1>4, <1>1, <1>2, RankType
<1>7. CWDistance(Me, v) < CWDistance(Me, u)
  BY <1>1, <1>2, <1>3, <1>5, <1>6, RankOrder
<1>8. ASSUME NEW w \in S \ {v}, CWDistance(Me, v) < CWDistance(Me, w)
      PROVE  CWDistance(Me, u) <= CWDistance(Me, w)
  <2>1. Rank(S, Me, v) < Rank(S, Me, w) /\ Rank(S, Me, w) \in Nat
    BY <1>1, <1>2, <1>8, RankOrder, RankType
  <2>2. CWDistance(Me, w) < CWDistance(Me, u) => Rank(S, Me, w) < Rank(S, Me, u)
    BY <1>1, RankOrder
  <2> QED
    BY <1>3, <1>5, <1>6, <2>1, <2>2
<1>9. VidMax \in Nat
  BY VidMaxAssumption
<1>10. u \in S \ {v}
  BY <1>3, <1>7
<1>11. \A w \in S \ {v} : CWDistance(v, u) <= CWDistance(v, w)
  BY <1>3, <1>7, <1>8, <1>9, <1>10
<1>12. \A w \in S \ {v} : (\A y \in S \ {v} : CWDistance(v, w) <= CWDistance(v, y)) => w = u
  <2>1. \A w \in S \ {v} : CWDistance(v, w) \in Int /\ (CWDistance(v, w) = CWDistance(v, u) => w = u)
    <3>1. \A w \in S : CWDistance(Me, w) = CWDistance(Me, u) => w = u
      BY <1>1, RingDistance
    <3> QED
      BY <1>3, <1>9, <1>10, <3>1
  <2> QED
    BY <2>1, <1>10, <1>11
<1>13. NextCW(S, v) = u
  BY <1>10, <1>11, <1>12 DEF NextCW
<1> QED
  BY <1>5, <1>13

\* and counter-clockwise of one that is not the first the one before
LEMMA NextCCWRank ==
  ASSUME NEW S \in SUBSET Others, NEW v \in S, NEW x \in S, CWDistance(Me, x) < CWDistance(Me, v)
  PROVE  /\ NextCCW(S, v) \in S
         /\ Rank(S, Me, NextCCW(S, v)) = Rank(S, Me, v) - 1
<1>1. Me \in RingVids /\ S \in SUBSET (RingVids \ {Me})
  BY Constants
<1>2. v \in RingVids \ {Me} /\ x \in RingVids \ {Me}
  BY <1>1
<1>3. \A w \in S : /\ CWDistance(Me, w) \in 1 .. VidMax
                   /\ w # v => CCWDistance(v, w) = IF CWDistance(Me, v) < CWDistance(Me, w)
                                                  THEN VidMax + 1 + CWDistance(Me, v) - CWDistance(Me, w)
                                                  ELSE CWDistance(Me, v) - CWDistance(Me, w)
                   /\ CWDistance(Me, w) = CWDistance(Me, v) => w = v
  <2>1. VidMax \in Nat
    BY VidMaxAssumption
  <2> QED
    BY <1>1, <2>1, RingDistance
<1>4. Rank(S, Me, v) - 1 \in 0 .. Cardinality(S) - 1
  <2>1. Rank(S, Me, v) < Cardinality(S) /\ Rank(S, Me, x) \in Nat /\ Rank(S, Me, v) \in Nat
        /\ Cardinality(S) \in Nat
    BY <1>1, <1>2, RankType, VidsFinite
  <2>2. Rank(S, Me, x) < Rank(S, Me, v)
    BY <1>1, <1>2, RankOrder
  <2> QED
    BY <2>1, <2>2
<1>5. PICK u \in S : Rank(S, Me, u) = Rank(S, Me, v) - 1
  BY <1>1, <1>4, RankExists
<1>6. Rank(S, Me, v) \in Nat
  BY <1>4, <1>1, <1>2, RankType
<1>7. CWDistance(Me, u) < CWDistance(Me, v)
  BY <1>1, <1>2, <1>3, <1>5, <1>6, RankOrder
<1>8. ASSUME NEW w \in S \ {v}, CWDistance(Me, w) < CWDistance(Me, v)
      PROVE  CWDistance(Me, w) <= CWDistance(Me, u)
  <2>1. Rank(S, Me, w) < Rank(S, Me, v) /\ Rank(S, Me, w) \in Nat
    BY <1>1, <1>2, <1>8, RankOrder, RankType
  <2>2. CWDistance(Me, u) < CWDistance(Me, w) => Rank(S, Me, u) < Rank(S, Me, w)
    BY <1>1, RankOrder
  <2> QED
    BY <1>3, <1>5, <1>6, <2>1, <2>2
<1>9. VidMax \in Nat
  BY VidMaxAssumption
<1>10. u \in S \ {v}
  BY <1>3, <1>7
<1>11. \A w \in S \ {v} : CCWDistance(v, u) <= CCWDistance(v, w)
  BY <1>3, <1>7, <1>8, <1>9, <1>10
<1>12. \A w \in S \ {v} : (\A y \in S \ {v} : CCWDistance(v, w) <= CCWDistance(v, y)) => w = u
  <2>1. \A w \in S \ {v} : CCWDistance(v, w) \in Int /\ (CCWDistance(v, w) = CCWDistance(v, u) => w = u)
    <3>1. \A w \in S : CWDistance(Me, w) = CWDistance(Me, u) => w = u
      BY <1>1, RingDistance
    <3> QED
      BY <1>3, <1>9, <1>10, <3>1
  <2> QED
    BY <2>1, <1>10, <1>11
<1>13. NextCCW(S, v) = u
  BY <1>10, <1>11, <1>12 DEF NextCCW
<1> QED
  BY <1>5, <1>13

\* n is too far away for the full set S: PendingHalf members are nearer on
\* either side
Beyond(S, n) ==
  /\ n \in Others \ S /\ Cardinality(S) = 2 * PendingHalf
  /\ Rank(S, Me, n) = PendingHalf

\* what getFarthestVneisInFullVset finds in a full set
LEMMA FarthestRank ==
  ASSUME NEW S \in SUBSET Others, Cardinality(S) = 2 * PendingHalf,
         NEW ccw, NEW cw, [ccw |-> ccw, cw |-> cw] = FarthestVneis(S, Me, PendingHalf)
  PROVE  /\ ccw \in S /\ Rank(S, Me, ccw) = PendingHalf
         /\ cw \in S /\ Rank(S, Me, cw) = PendingHalf - 1
         /\ CWDistance(Me, cw) < CWDistance(Me, ccw)
<1>1. Me \in RingVids /\ S \in SUBSET (RingVids \ {Me}) /\ PendingHalf \in Nat /\ PendingHalf >= 2
  BY Constants
<1>2. ccw = NthCW(S, Me, PendingHalf + 1) /\ cw = NthCW(S, Me, PendingHalf)
  BY DEF FarthestVneis
<1>3. PendingHalf \in 1 .. Cardinality(S) /\ PendingHalf + 1 \in 1 .. Cardinality(S)
  BY <1>1
<1>4. ccw \in S /\ Rank(S, Me, ccw) = PendingHalf + 1 - 1
  BY <1>1, <1>2, <1>3, NthCWRank
<1>5. cw \in S /\ Rank(S, Me, cw) = PendingHalf - 1
  BY <1>1, <1>2, <1>3, NthCWRank
<1>6. CWDistance(Me, ccw) \in Int /\ CWDistance(Me, cw) \in Int
  BY <1>1, <1>4, <1>5, RingDistance
<1>7. ~ (CWDistance(Me, ccw) <= CWDistance(Me, cw))
  BY <1>1, <1>4, <1>5, RankOrder
<1> QED
  BY <1>1, <1>4, <1>5, <1>6, <1>7

\* and the two with these ranks are what it finds
LEMMA FarthestIs ==
  ASSUME NEW S \in SUBSET Others, Cardinality(S) = 2 * PendingHalf,
         NEW a \in S, NEW c \in S, Rank(S, Me, a) = PendingHalf, Rank(S, Me, c) = PendingHalf - 1
  PROVE  [ccw |-> a, cw |-> c] = FarthestVneis(S, Me, PendingHalf)
<1>1. Me \in RingVids /\ S \in SUBSET (RingVids \ {Me}) /\ PendingHalf \in Nat /\ PendingHalf >= 2
  BY Constants
<1>2. PendingHalf \in 1 .. Cardinality(S) /\ PendingHalf + 1 \in 1 .. Cardinality(S)
      /\ Rank(S, Me, a) = (PendingHalf + 1) - 1
  BY <1>1
<1>3. a = NthCW(S, Me, PendingHalf + 1)
  BY <1>1, <1>2, NthCWUnique
<1>4. c = NthCW(S, Me, PendingHalf)
  BY <1>1, <1>2, NthCWUnique
<1> QED
  BY <1>3, <1>4 DEF FarthestVneis

\* the size of a set in which x has taken the place of old
LEMMA ReplaceSize ==
  ASSUME NEW S \in SUBSET Others, NEW x \in Others \ S, NEW old \in S
  PROVE  /\ Cardinality((S \cup {x}) \ {old}) = Cardinality(S)
         /\ \A m \in Others :
              Rank((S \cup {x}) \ {old}, Me, m)
                = Rank(S, Me, m) + (IF CWDistance(Me, x) < CWDistance(Me, m) THEN 1 ELSE 0)
                                 - (IF CWDistance(Me, old) < CWDistance(Me, m) THEN 1 ELSE 0)
<1>1. Me \in RingVids /\ S \in SUBSET (RingVids \ {Me}) /\ S \cup {x} \in SUBSET (RingVids \ {Me})
      /\ Others = RingVids \ {Me} /\ x \in RingVids \ {Me} /\ old \in S \cup {x} /\ x \notin S
  BY Constants
<1>2. IsFiniteSet(S) /\ Cardinality(S) \in Nat /\ IsFiniteSet(S \cup {x})
  BY <1>1, VidsFinite
<1>3. Cardinality(S \cup {x}) = Cardinality(S) + 1
  BY <1>1, <1>2, FS_AddElement
<1>4. Cardinality((S \cup {x}) \ {old}) = Cardinality(S \cup {x}) - 1
  BY <1>1, <1>2, FS_RemoveElement
<1>5. ASSUME NEW m \in Others
      PROVE  Rank((S \cup {x}) \ {old}, Me, m)
                = Rank(S, Me, m) + (IF CWDistance(Me, x) < CWDistance(Me, m) THEN 1 ELSE 0)
                                 - (IF CWDistance(Me, old) < CWDistance(Me, m) THEN 1 ELSE 0)
  <2>1. Rank(S \cup {x}, Me, m) = Rank(S, Me, m) + IF CWDistance(Me, x) < CWDistance(Me, m) THEN 1 ELSE 0
    BY <1>1, RankAdd
  <2>2. Rank((S \cup {x}) \ {old}, Me, m)
          = Rank(S \cup {x}, Me, m) - IF CWDistance(Me, old) < CWDistance(Me, m) THEN 1 ELSE 0
    BY <1>1, RankRemove
  <2>3. Rank(S, Me, m) \in Nat
    BY <1>1, RankType
  <2> QED
    BY <2>1, <2>2, <2>3
<1> QED
  BY <1>2, <1>3, <1>4, <1>5

\* A node nearer on the counter-clockwise side takes the place of the farthest
\* one there.  The one next to that becomes the farthest, and the node that went
\* and those that were beyond the set are beyond it.
LEMMA ReplaceCCW ==
  ASSUME NEW S \in SUBSET Others, Cardinality(S) = 2 * PendingHalf, NEW x \in Others \ S,
         NEW a, NEW c, [ccw |-> a, cw |-> c] = FarthestVneis(S, Me, PendingHalf),
         CCWDistance(Me, x) < CCWDistance(Me, a),
         NEW T, T = (S \cup {x}) \ {a}, NEW y, y = NextCW(S \cup {x}, a)
  PROVE  /\ [ccw |-> y, cw |-> c] = FarthestVneis(T, Me, PendingHalf)
         /\ y \in T /\ c \in T
         /\ Cardinality(T) = 2 * PendingHalf
         /\ Beyond(T, a)
         /\ \A m \in Others : Beyond(S, m) => m \in T \/ Beyond(T, m)
<1>1. Me \in RingVids /\ S \in SUBSET (RingVids \ {Me}) /\ Others = RingVids \ {Me}
      /\ PendingHalf \in Nat /\ PendingHalf >= 2 /\ S \cup {x} \in SUBSET Others
  BY Constants
<1>2. /\ a \in S /\ Rank(S, Me, a) = PendingHalf
      /\ c \in S /\ Rank(S, Me, c) = PendingHalf - 1
      /\ CWDistance(Me, c) < CWDistance(Me, a)
  BY FarthestRank
<1>d. \A m \in Others : CWDistance(Me, m) \in Int
  BY <1>1, RingDistance
<1>3. CWDistance(Me, a) < CWDistance(Me, x)
  <2>1. VidMax \in Nat
    BY VidMaxAssumption
  <2>2. CCWDistance(Me, x) = VidMax + 1 - CWDistance(Me, x)
    BY <1>1, RingDistance
  <2>3. CCWDistance(Me, a) = VidMax + 1 - CWDistance(Me, a)
    BY <1>1, <1>2, RingDistance
  <2> QED
    BY <1>1, <1>2, <1>d, <2>1, <2>2, <2>3
<1>4. Rank(S \cup {x}, Me, a) = PendingHalf
  <2>1. Rank(S \cup {x}, Me, a) = Rank(S, Me, a) + IF CWDistance(Me, x) < CWDistance(Me, a) THEN 1 ELSE 0
    BY <1>1, <1>2, RankAdd
  <2> QED
    BY <1>1, <1>2, <1>3, <1>d, <2>1
<1>5. y \in S \cup {x} /\ Rank(S \cup {x}, Me, y) = PendingHalf + 1
  BY <1>1, <1>2, <1>3, <1>4, NextCWRank
<1>6. y \in T /\ y \in Others /\ y # a
  BY <1>1, <1>4, <1>5
<1>7. CWDistance(Me, a) < CWDistance(Me, y)
  <2>1. CWDistance(Me, y) <= CWDistance(Me, a) => Rank(S \cup {x}, Me, y) <= Rank(S \cup {x}, Me, a)
    BY <1>1, <1>2, <1>6, RankOrder
  <2> QED
    BY <1>1, <1>2, <1>d, <1>4, <1>5, <1>6, <2>1
<1>8. /\ Cardinality(T) = 2 * PendingHalf
      /\ \A m \in Others : Rank(T, Me, m)
              = Rank(S, Me, m) + (IF CWDistance(Me, x) < CWDistance(Me, m) THEN 1 ELSE 0)
                               - (IF CWDistance(Me, a) < CWDistance(Me, m) THEN 1 ELSE 0)
  BY <1>2, ReplaceSize
<1>9. Rank(T, Me, y) = PendingHalf
  <2>1. Rank(T, Me, y) = Rank(S \cup {x}, Me, y) - IF CWDistance(Me, a) < CWDistance(Me, y) THEN 1 ELSE 0
    <3>1. a \in S \cup {x} /\ y \in RingVids \ {Me} /\ S \cup {x} \in SUBSET (RingVids \ {Me})
      BY <1>1, <1>2, <1>6
    <3> QED
      BY <1>1, <3>1, RankRemove
  <2> QED
    BY <1>1, <1>5, <1>7, <2>1
<1>e. x \in Others /\ a \in Others /\ c \in Others /\ x # a /\ c # a /\ c \in T
  BY <1>1, <1>2
<1>10. Rank(T, Me, c) = PendingHalf - 1
  <2>1. ~ (CWDistance(Me, x) < CWDistance(Me, c)) /\ ~ (CWDistance(Me, a) < CWDistance(Me, c))
    BY <1>2, <1>3, <1>d, <1>e
  <2>2. Rank(T, Me, c) = PendingHalf - 1 + 0 - 0
    BY <1>2, <1>8, <1>e, <2>1, Zenon
  <2> QED
    BY <1>1, <2>2
<1>11. T \in SUBSET Others
  BY <1>1
<1>12. [ccw |-> y, cw |-> c] = FarthestVneis(T, Me, PendingHalf)
  BY <1>6, <1>8, <1>9, <1>10, <1>11, <1>e, FarthestIs
<1>13. Beyond(T, a)
  <2>1. ~ (CWDistance(Me, x) < CWDistance(Me, a)) /\ ~ (CWDistance(Me, a) < CWDistance(Me, a))
    BY <1>3, <1>d, <1>e
  <2>3. Rank(T, Me, a) = PendingHalf + 0 - 0
    BY <1>2, <1>8, <1>e, <2>1, Zenon
  <2>2. Rank(T, Me, a) = PendingHalf
    BY <1>1, <2>3
  <2> QED
    BY <1>8, <1>e, <2>2 DEF Beyond
<1>14. ASSUME NEW m \in Others, Beyond(S, m), m \notin T PROVE Beyond(T, m)
  <2>1. m \notin S /\ m # x /\ Rank(S, Me, m) = PendingHalf
    BY <1>14, <1>e DEF Beyond
  <2>2. ~ (CWDistance(Me, a) < CWDistance(Me, m))
    BY <1>1, <1>2, <2>1, RankOrder
  <2>3. ~ (CWDistance(Me, x) < CWDistance(Me, m))
    BY <1>3, <1>d, <1>e, <2>2
  <2>5. Rank(T, Me, m) = PendingHalf + 0 - 0
    BY <1>8, <2>1, <2>2, <2>3, Zenon
  <2>4. Rank(T, Me, m) = PendingHalf
    BY <1>1, <2>5
  <2> QED
    BY <1>8, <1>14, <2>4 DEF Beyond
<1> QED
  BY <1>6, <1>8, <1>e, <1>12, <1>13, <1>14

\* the same on the other side
LEMMA ReplaceCW ==
  ASSUME NEW S \in SUBSET Others, Cardinality(S) = 2 * PendingHalf, NEW x \in Others \ S,
         NEW a, NEW c, [ccw |-> a, cw |-> c] = FarthestVneis(S, Me, PendingHalf),
         CWDistance(Me, x) < CWDistance(Me, c),
         NEW T, T = (S \cup {x}) \ {c}, NEW y, y = NextCCW(S \cup {x}, c)
  PROVE  /\ [ccw |-> a, cw |-> y] = FarthestVneis(T, Me, PendingHalf)
         /\ y \in T /\ a \in T
         /\ Cardinality(T) = 2 * PendingHalf
         /\ Beyond(T, c)
         /\ \A m \in Others : Beyond(S, m) => m \in T \/ Beyond(T, m)
<1>1. Me \in RingVids /\ S \in SUBSET (RingVids \ {Me}) /\ Others = RingVids \ {Me}
      /\ PendingHalf \in Nat /\ PendingHalf >= 2 /\ S \cup {x} \in SUBSET Others
  BY Constants
<1>2. /\ a \in S /\ Rank(S, Me, a) = PendingHalf
      /\ c \in S /\ Rank(S, Me, c) = PendingHalf - 1
      /\ CWDistance(Me, c) < CWDistance(Me, a)
  BY FarthestRank
<1>d. \A m \in Others : CWDistance(Me, m) \in Int
  BY <1>1, RingDistance
<1>4. Rank(S \cup {x}, Me, c) = PendingHalf
  <2>1. Rank(S \cup {x}, Me, c) = Rank(S, Me, c) + IF CWDistance(Me, x) < CWDistance(Me, c) THEN 1 ELSE 0
    BY <1>1, <1>2, RankAdd
  <2> QED
    BY <1>1, <1>2, <2>1
<1>5. y \in S \cup {x} /\ Rank(S \cup {x}, Me, y) = PendingHalf - 1
  BY <1>1, <1>2, <1>4, NextCCWRank
<1>6. y \in T /\ y \in Others /\ y # c
  BY <1>1, <1>4, <1>5
<1>7. CWDistance(Me, y) < CWDistance(Me, c)
  <2>1. CWDistance(Me, c) <= CWDistance(Me, y) => Rank(S \cup {x}, Me, c) <= Rank(S \cup {x}, Me, y)
    BY <1>1, <1>2, <1>5, <1>6, RankOrder
  <2> QED
    BY <1>1, <1>2, <1>d, <1>4, <1>5, <1>6, <2>1
<1>8. /\ Cardinality(T) = 2 * PendingHalf
      /\ \A m \in Others : Rank(T, Me, m)
              = Rank(S, Me, m) + (IF CWDistance(Me, x) < CWDistance(Me, m) THEN 1 ELSE 0)
                               - (IF CWDistance(Me, c) < CWDistance(Me, m) THEN 1 ELSE 0)
  BY <1>2, ReplaceSize
<1>9. Rank(T, Me, y) = PendingHalf - 1
  <2>1. Rank(T, Me, y) = Rank(S \cup {x}, Me, y) - IF CWDistance(Me, c) < CWDistance(Me, y) THEN 1 ELSE 0
    BY <1>1, <1>2, <1>6, RankRemove
  <2> QED
    BY <1>1, <1>2, <1>d, <1>5, <1>6, <1>7, <2>1
<1>e. x \in Others /\ a \in Others /\ c \in Others /\ a \in T
  BY <1>1, <1>2
<1>10. Rank(T, Me, a) = PendingHalf
  <2>1. CWDistance(Me, x) < CWDistance(Me, a)
    BY <1>2, <1>d, <1>e
  <2>2. Rank(T, Me, a) = PendingHalf + 1 - 1
    BY <1>2, <1>8, <1>e, <2>1, Zenon
  <2> QED
    BY <1>1, <2>2
<1>11. T \in SUBSET Others
  BY <1>1
<1>12. [ccw |-> a, cw |-> y] = FarthestVneis(T, Me, PendingHalf)
  BY <1>6, <1>8, <1>9, <1>10, <1>11, <1>e, FarthestIs
<1>13. Beyond(T, c)
  <2>1. ~ (CWDistance(Me, c) < CWDistance(Me, c))
    BY <1>d, <1>e
  <2>2. Rank(T, Me, c) = PendingHalf - 1 + 1 - 0
    BY <1>2, <1>8, <1>e, <2>1, Zenon
  <2> QED
    BY <1>1, <1>8, <1>e, <2>2 DEF Beyond
<1>14. ASSUME NEW m \in Others, Beyond(S, m), m \notin T PROVE Beyond(T, m)
  <2>1. m \notin S /\ m # x /\ Rank(S, Me, m) = PendingHalf
    BY <1>2, <1>14 DEF Beyond
  <2>2. ~ (CWDistance(Me, m) <= CWDistance(Me, c))
    BY <1>1, <1>2, <2>1, RankOrder
  <2>3. CWDistance(Me, c) < CWDistance(Me, m) /\ CWDistance(Me, x) < CWDistance(Me, m)
    BY <1>1, <1>2, <1>d, <2>2
  <2>4. Rank(T, Me, m) = PendingHalf + 1 - 1
    BY <1>8, <2>1, <2>3
  <2>5. Rank(T, Me, m) = PendingHalf
    BY <1>1, <2>4
  <2> QED
    BY <1>8, <1>14, <2>5 DEF Beyond
<1> QED
  BY <1>6, <1>8, <1>e, <1>12, <1>13, <1>14

\* a node that is nearer than neither is beyond the set
LEMMA NotNearerBeyond ==
  ASSUME NEW S \in SUBSET Others, Cardinality(S) = 2 * PendingHalf, NEW x \in Others \ S,
         NEW a, NEW c, [ccw |-> a, cw |-> c] = FarthestVneis(S, Me, PendingHalf),
         ~ (CCWDistance(Me, x) < CCWDistance(Me, a)), ~ (CWDistance(Me, x) < CWDistance(Me, c))
  PROVE  Beyond(S, x)
<1>1. Me \in RingVids /\ S \in SUBSET (RingVids \ {Me}) /\ Others = RingVids \ {Me}
      /\ PendingHalf \in Nat /\ PendingHalf >= 2
  BY Constants
<1>2. /\ a \in S /\ Rank(S, Me, a) = PendingHalf
      /\ c \in S /\ Rank(S, Me, c) = PendingHalf - 1
  BY FarthestRank
<1>3. VidMax \in Nat
  BY VidMaxAssumption
<1>4. /\ CWDistance(Me, x) \in Int /\ CWDistance(Me, a) \in Int /\ CWDistance(Me, c) \in Int
      /\ CWDistance(Me, x) # CWDistance(Me, c)
      /\ CCWDistance(Me, x) = VidMax + 1 - CWDistance(Me, x)
      /\ CCWDistance(Me, a) = VidMax + 1 - CWDistance(Me, a)
  BY <1>1, <1>2, RingDistance
<1>5. CWDistance(Me, c) < CWDistance(Me, x) /\ CWDistance(Me, x) <= CWDistance(Me, a)
  BY <1>3, <1>4
<1>6. Rank(S, Me, c) < Rank(S, Me, x) /\ Rank(S, Me, x) <= Rank(S, Me, a)
  BY <1>1, <1>2, <1>5, RankOrder
<1>7. Rank(S, Me, x) \in Nat
  BY <1>1, RankType
<1> QED
  BY <1>1, <1>2, <1>6, <1>7 DEF Beyond

(***************************************************************************)
(* pendingVset                                                             *)
(***************************************************************************)

\* pendingVset beside the vset v: what PendingOwned and FarthestFresh say of it
PendOK(v, p) ==
  /\ p \in PendType /\ p.nodes \cap v = {}
  /\ Cardinality(p.nodes) <= 2 * PendingHalf
  /\ \A n \in Others : p.timer[n] # NoTimer => n \in p.nodes
  /\ FullPending(p) /\ p.far # NoFarthest => p.far = FarthestVneis(p.nodes, Me, PendingHalf)

\* n has a place in pendingVset or is too far away for it
Kept(p, n) == n \in p.nodes \/ Beyond(p.nodes, n)

\* from p to q nobody is dropped who is not too far away
Keeps(v, p, q) == PendOK(v, q) /\ \A m \in Others : Kept(p, m) => Kept(q, m)

\* the fields of a pendingVset
LEMMA PendFields ==
  ASSUME NEW p \in PendType
  PROVE  /\ p.nodes \in SUBSET Others /\ p.timer \in [Others -> Timer \cup {NoTimer}]
         /\ p.far \in [ccw : Others, cw : Others] \cup {NoFarthest} /\ p.changed \in BOOLEAN
         /\ IsFiniteSet(p.nodes) /\ Cardinality(p.nodes) \in Nat
<1>1. /\ p.nodes \in SUBSET Others /\ p.timer \in [Others -> Timer \cup {NoTimer}]
      /\ p.far \in [ccw : Others, cw : Others] \cup {NoFarthest} /\ p.changed \in BOOLEAN
  BY DEF PendType
<1>2. p.nodes \in SUBSET RingVids
  BY <1>1 DEF Others
<1> QED
  BY <1>1, <1>2, VidsFinite

\* a record of the right fields
LEMMA PendRecord ==
  ASSUME NEW nodes \in SUBSET Others, NEW timer \in [Others -> Timer \cup {NoTimer}],
         NEW far \in [ccw : Others, cw : Others] \cup {NoFarthest}, NEW changed \in BOOLEAN
  PROVE  [nodes |-> nodes, timer |-> timer, far |-> far, changed |-> changed] \in PendType
  BY DEF PendType

\* a pending set is the record of its fields
LEMMA PendIs ==
  ASSUME NEW p \in PendType
  PROVE  p = [nodes |-> p.nodes, timer |-> p.timer, far |-> p.far, changed |-> p.changed]
  BY DEF PendType

\* cancelling a request clears a timer and nothing else
LEMMA CancelFields ==
  ASSUME NEW p \in PendType, NEW n
  PROVE  /\ CancelTimer(p, n) \in PendType
         /\ CancelTimer(p, n).nodes = p.nodes /\ CancelTimer(p, n).far = p.far
         /\ CancelTimer(p, n).timer = [p.timer EXCEPT ![n] = NoTimer]
         /\ CancelTimer(p, n).changed = p.changed
<1>1. CancelTimer(p, n) = [nodes |-> p.nodes, timer |-> [p.timer EXCEPT ![n] = NoTimer],
                           far |-> p.far, changed |-> p.changed]
  BY PendIs DEF CancelTimer, PendType
<1>2. [p.timer EXCEPT ![n] = NoTimer] \in [Others -> Timer \cup {NoTimer}]
  BY PendFields
<1> QED
  BY <1>1, <1>2, PendFields, PendRecord

\* so it does no harm
LEMMA CancelOK ==
  ASSUME NEW v, NEW p, PendOK(v, p), NEW n
  PROVE  PendOK(v, CancelTimer(p, n))
<1>1. p \in PendType
  BY DEF PendOK
<1>2. \A m \in Others : CancelTimer(p, n).timer[m] # NoTimer => p.timer[m] # NoTimer
  <2>1. CancelTimer(p, n).timer = [p.timer EXCEPT ![n] = NoTimer] /\ p.timer \in [Others -> Timer \cup {NoTimer}]
    BY <1>1, CancelFields, PendFields
  <2> QED
    BY <2>1
<1> QED
  BY <1>1, <1>2, CancelFields DEF PendOK, FullPending

\* erasing a node takes it out
LEMMA EraseNodes ==
  ASSUME NEW p \in PendType, NEW n
  PROVE  PendingErase(p, n).nodes = p.nodes \ {n}
<1>1. CASE n \in p.nodes
  BY <1>1, CancelFields DEF PendingErase, PendType
<1>2. CASE n \notin p.nodes
  BY <1>2 DEF PendingErase
<1> QED
  BY <1>1, <1>2

\* a node leaves pendingVset, perhaps for the vset
LEMMA EraseOK ==
  ASSUME NEW v, NEW w, NEW p, PendOK(v, p), NEW n \in Others, w \subseteq v \cup {n}
  PROVE  PendOK(w, PendingErase(p, n))
<1>1. p \in PendType /\ p.nodes \cap v = {}
  BY DEF PendOK
<1>2. CASE n \in p.nodes
  <2> DEFINE q == PendingErase(p, n)
  <2>1. q = [CancelTimer(p, n) EXCEPT !.nodes = @ \ {n}, !.changed = TRUE]
    BY <1>2 DEF PendingErase
  <2>2. q.nodes = p.nodes \ {n} /\ q.timer = [p.timer EXCEPT ![n] = NoTimer] /\ q.far = p.far
    BY <1>1, <2>1, CancelFields DEF PendType
  <2>3. q \in PendType
    <3>1. CancelTimer(p, n) \in PendType
      BY <1>1, CancelFields
    <3> QED
      BY <2>1, <3>1 DEF PendType
  <2>4. Cardinality(q.nodes) = Cardinality(p.nodes) - 1
    <3>1. IsFiniteSet(p.nodes)
      BY <1>1, PendFields
    <3>2. Cardinality(p.nodes \ {n}) = Cardinality(p.nodes) - 1
      BY <1>2, <3>1, FS_RemoveElement
    <3> QED
      BY <2>2, <3>2
  <2>5. Cardinality(p.nodes) <= 2 * PendingHalf /\ Cardinality(p.nodes) \in Nat /\ PendingHalf \in Nat
    BY <1>1, PendFields, Constants DEF PendOK
  <2>6. ~ FullPending(q) /\ Cardinality(q.nodes) <= 2 * PendingHalf
    BY <2>4, <2>5 DEF FullPending
  <2>7. \A m \in Others : q.timer[m] # NoTimer => m \in q.nodes
    <3>1. \A m \in Others : p.timer[m] # NoTimer => m \in p.nodes
      BY DEF PendOK
    <3>2. \A m \in Others : q.timer[m] = IF m = n THEN NoTimer ELSE p.timer[m]
      BY <1>1, <2>2, PendFields
    <3> QED
      BY <2>2, <3>1, <3>2
  <2>8. q.nodes \cap w = {}
    BY <1>1, <2>2
  <2> QED
    BY <2>2, <2>3, <2>6, <2>7, <2>8 DEF PendOK
<1>3. CASE n \notin p.nodes
  <2>1. PendingErase(p, n) = p /\ p.nodes \cap w = {}
    BY <1>1, <1>3 DEF PendingErase
  <2> QED
    BY <1>3, <2>1 DEF PendOK
<1> QED
  BY <1>2, <1>3

\* a node heard of again
LEMMA HeardAgainOK ==
  ASSUME NEW v, NEW p, PendOK(v, p), NEW n \in p.nodes, NEW alive
  PROVE  PendOK(v, HeardAgain(p, n, alive)) /\ HeardAgain(p, n, alive).nodes = p.nodes
<1> DEFINE t == p.timer[n]
           q == HeardAgain(p, n, alive)
<1>1. p \in PendType /\ n \in Others
  BY PendFields DEF PendOK
<1>2. CASE alive /\ t # NoTimer /\ t.sched /\ t.retry >= RetryLimit
  <2>1. q = [p EXCEPT !.timer[n].retry = @ - 1]
    BY <1>2 DEF HeardAgain
  <2>2. t \in Timer
    BY <1>1, <1>2, PendFields
  <2>3. [t EXCEPT !.retry = @ - 1] \in Timer
    BY <1>2, <2>2, Constants DEF Timer
  <2>4. q = [nodes |-> p.nodes, timer |-> [p.timer EXCEPT ![n] = [t EXCEPT !.retry = @ - 1]],
             far |-> p.far, changed |-> p.changed]
    BY <1>1, <2>1, PendIs DEF PendType
  <2>5. [p.timer EXCEPT ![n] = [t EXCEPT !.retry = @ - 1]] \in [Others -> Timer \cup {NoTimer}]
    BY <1>1, <2>3, PendFields
  <2>6. q \in PendType
    BY <1>1, <2>4, <2>5, PendFields, PendRecord
  <2>7. \A m \in Others : q.timer[m] # NoTimer => m \in q.nodes
    <3>1. \A m \in Others : p.timer[m] # NoTimer => m \in p.nodes
      BY DEF PendOK
    <3>2. \A m \in Others : m # n => q.timer[m] = p.timer[m]
      BY <1>1, <2>4, PendFields
    <3> QED
      BY <2>4, <3>1, <3>2
  <2> QED
    BY <2>4, <2>6, <2>7 DEF PendOK, FullPending
<1>3. CASE ~ (alive /\ t # NoTimer /\ t.sched /\ t.retry >= RetryLimit)
  <2>1. q = p
    BY <1>3 DEF HeardAgain
  <2> QED
    BY <2>1
<1> QED
  BY <1>2, <1>3

\* a node for which there is room
LEMMA AddToUnfullOK ==
  ASSUME NEW v, NEW p, PendOK(v, p), ~ FullPending(p), NEW n \in Others, n \notin p.nodes, n \notin v
  PROVE  PendOK(v, AddToUnfull(p, n)) /\ AddToUnfull(p, n).nodes = p.nodes \cup {n}
<1> DEFINE q == AddToUnfull(p, n)
<1>1. p \in PendType
  BY DEF PendOK
<1>2. q.nodes = p.nodes \cup {n} /\ q.timer = p.timer /\ q.far = NoFarthest
  BY <1>1 DEF AddToUnfull, PendType
<1>3. q \in PendType
  BY <1>1 DEF AddToUnfull, PendType
<1>4. Cardinality(p.nodes \cup {n}) <= 2 * PendingHalf
  <2>1. Cardinality(p.nodes \cup {n}) = Cardinality(p.nodes) + 1
    BY <1>1, PendFields, FS_AddElement
  <2>2. ~ (Cardinality(p.nodes) >= 2 * PendingHalf)
    BY DEF FullPending
  <2>3. PendingHalf \in Nat /\ Cardinality(p.nodes) \in Nat
    BY <1>1, PendFields, Constants
  <2> QED
    BY <2>1, <2>2, <2>3
<1> QED
  BY <1>2, <1>3, <1>4 DEF PendOK

\* replacing a member of a full pendingVset
LEMMA ReplaceOK ==
  ASSUME NEW v, NEW p, PendOK(v, p), NEW n \in Others, n \notin p.nodes, n \notin v, NEW old \in p.nodes,
         NEW far \in [ccw : Others, cw : Others],
         LET T == (p.nodes \cup {n}) \ {old}
         IN  Cardinality(T) = 2 * PendingHalf /\ far = FarthestVneis(T, Me, PendingHalf)
  PROVE  /\ PendOK(v, Replace(p, old, n, far))
         /\ Replace(p, old, n, far).nodes = (p.nodes \cup {n}) \ {old}
<1> DEFINE q == Replace(p, old, n, far)
           T == (p.nodes \cup {n}) \ {old}
<1>1. p \in PendType
  BY DEF PendOK
<1>2. q.nodes = T /\ q.timer = [p.timer EXCEPT ![old] = NoTimer] /\ q.far = far
  BY <1>1, CancelFields DEF Replace, PendType
<1>3. q \in PendType
  BY <1>1, CancelFields DEF Replace, PendType
<1>4. \A m \in Others : q.timer[m] # NoTimer => m \in q.nodes
  <2>1. \A m \in Others : p.timer[m] # NoTimer => m \in p.nodes
    BY DEF PendOK
  <2>2. \A m \in Others : q.timer[m] = IF m = old THEN NoTimer ELSE p.timer[m]
    BY <1>1, <1>2, PendFields
  <2> QED
    BY <1>2, <2>1, <2>2
<1>5. q.nodes \cap v = {}
  BY <1>2 DEF PendOK
<1>6. Cardinality(q.nodes) <= 2 * PendingHalf
  <2>1. Cardinality(T) = 2 * PendingHalf /\ PendingHalf \in Nat
    BY Constants
  <2> QED
    BY <1>2, <2>1
<1>7. q.far = FarthestVneis(q.nodes, Me, PendingHalf)
  BY <1>2
<1> QED
  BY <1>2, <1>3, <1>4, <1>5, <1>6, <1>7 DEF PendOK

\* a node that a full pendingVset hears of takes the place of a farther one or
\* is beyond it; nobody else loses more than that
LEMMA AddToFullOK ==
  ASSUME NEW v, NEW p, PendOK(v, p), FullPending(p), NEW n \in Others, n \notin p.nodes, n \notin v
  PROVE  /\ PendOK(v, AddToFull(p, n))
         /\ Kept(AddToFull(p, n), n)
         /\ \A m \in Others : Kept(p, m) => Kept(AddToFull(p, n), m)
<1> DEFINE S == p.nodes
           far == IF p.far = NoFarthest THEN FarthestVneis(S, Me, PendingHalf) ELSE p.far
           all == S \cup {n}
           q == AddToFull(p, n)
<1>1. p \in PendType /\ S \in SUBSET Others /\ n \in Others \ S
  BY PendFields DEF PendOK
<1>2. Cardinality(S) = 2 * PendingHalf
  BY <1>1, PendFields, Constants DEF PendOK, FullPending
<1>3. far = FarthestVneis(S, Me, PendingHalf)
  BY DEF PendOK
<1>4. PICK a, c : far = [ccw |-> a, cw |-> c]
  BY <1>3 DEF FarthestVneis
<1>5. a \in S /\ c \in S
  BY <1>1, <1>2, <1>3, <1>4, FarthestRank
<1>6. CASE CCWDistance(Me, n) < CCWDistance(Me, far.ccw)
  <2> DEFINE T == all \ {a}
             y == NextCW(all, a)
             new == [ccw |-> y, cw |-> c]
  <2>1. q = Replace(p, a, n, new)
    BY <1>4, <1>6 DEF AddToFull
  <2>2. /\ new = FarthestVneis(T, Me, PendingHalf)
        /\ y \in T /\ Cardinality(T) = 2 * PendingHalf
        /\ Beyond(T, a) /\ \A m \in Others : Beyond(S, m) => m \in T \/ Beyond(T, m)
    <3>1. [ccw |-> a, cw |-> c] = FarthestVneis(S, Me, PendingHalf) /\ CCWDistance(Me, n) < CCWDistance(Me, a)
      BY <1>3, <1>4, <1>6
    <3>2. S \in SUBSET Others /\ Cardinality(S) = 2 * PendingHalf /\ n \in Others \ S
      BY <1>1, <1>2
    <3>3. T = (S \cup {n}) \ {a} /\ y = NextCW(S \cup {n}, a)
      OBVIOUS
    <3> HIDE DEF far, S, T, y
    <3> QED
      BY <3>1, <3>2, <3>3, ReplaceCCW
  <2>3. new \in [ccw : Others, cw : Others]
    BY <1>1, <1>5, <2>2
  <2>4. PendOK(v, q) /\ q.nodes = T
    BY <1>5, <2>1, <2>2, <2>3, ReplaceOK
  <2>5. n \in T
    BY <1>1, <1>5
  <2> QED
    BY <2>2, <2>4, <2>5 DEF Kept
<1>7. CASE ~ (CCWDistance(Me, n) < CCWDistance(Me, far.ccw)) /\ CWDistance(Me, n) < CWDistance(Me, far.cw)
  <2> DEFINE T == all \ {c}
             y == NextCCW(all, c)
             new == [ccw |-> a, cw |-> y]
  <2>1. q = Replace(p, c, n, new)
    BY <1>4, <1>7 DEF AddToFull
  <2>2. /\ new = FarthestVneis(T, Me, PendingHalf)
        /\ y \in T /\ Cardinality(T) = 2 * PendingHalf
        /\ Beyond(T, c) /\ \A m \in Others : Beyond(S, m) => m \in T \/ Beyond(T, m)
    <3>1. [ccw |-> a, cw |-> c] = FarthestVneis(S, Me, PendingHalf) /\ CWDistance(Me, n) < CWDistance(Me, c)
      BY <1>3, <1>4, <1>7
    <3>2. S \in SUBSET Others /\ Cardinality(S) = 2 * PendingHalf /\ n \in Others \ S
      BY <1>1, <1>2
    <3>3. T = (S \cup {n}) \ {c} /\ y = NextCCW(S \cup {n}, c)
      OBVIOUS
    <3> HIDE DEF far, S, T, y
    <3> QED
      BY <3>1, <3>2, <3>3, ReplaceCW
  <2>3. new \in [ccw : Others, cw : Others]
    BY <1>1, <1>5, <2>2
  <2>4. PendOK(v, q) /\ q.nodes = T
    BY <1>5, <2>1, <2>2, <2>3, ReplaceOK
  <2>5. n \in T
    BY <1>1, <1>5
  <2> QED
    BY <2>2, <2>4, <2>5 DEF Kept
<1>8. CASE ~ (CCWDistance(Me, n) < CCWDistance(Me, far.ccw)) /\ ~ (CWDistance(Me, n) < CWDistance(Me, far.cw))
  <2>1. q = [p EXCEPT !.far = far]
    BY <1>8 DEF AddToFull
  <2>2. q = [nodes |-> S, timer |-> p.timer, far |-> far, changed |-> p.changed]
    BY <1>1, <2>1, PendIs
  <2>3. q \in PendType
    <3>1. far \in [ccw : Others, cw : Others] \cup {NoFarthest}
      BY <1>1, <1>4, <1>5
    <3> QED
      BY <1>1, <2>2, <3>1, PendFields, PendRecord
  <2>4. PendOK(v, q)
    BY <1>3, <2>2, <2>3 DEF PendOK
  <2>5. Beyond(S, n)
    BY <1>1, <1>2, <1>3, <1>4, <1>8, NotNearerBeyond
  <2> QED
    BY <2>2, <2>4, <2>5 DEF Kept
<1> QED
  BY <1>6, <1>7, <1>8

\* pendingVsetAdd
LEMMA PendingAddOK ==
  ASSUME NEW v, NEW p, PendOK(v, p), NEW n \in RingVids, NEW toEmpty, NEW alive,
         NEW q, q = PendingAdd(v, p, n, toEmpty, alive)
  PROVE  Keeps(v, p, q) /\ (toEmpty /\ n \in Others \ v => Kept(q, n))
<1> DEFINE skip == ~ (toEmpty \/ inNetwork \/ Cardinality(p.nodes) >= 2 * Half) \/ n \in v \cup {Me}
<1>1. CASE skip
  <2>1. q = p
    BY <1>1 DEF PendingAdd
  <2>2. ~ (toEmpty /\ n \in Others \ v)
    BY <1>1 DEF Others
  <2> QED
    BY <2>1, <2>2 DEF Keeps
<1>2. CASE ~skip
  <2>1. n \in Others /\ n \notin v
    BY <1>2 DEF Others
  <2>2. CASE n \in p.nodes
    <3>1. q = HeardAgain(p, n, alive)
      BY <1>2, <2>2 DEF PendingAdd
    <3>2. PendOK(v, q) /\ q.nodes = p.nodes
      BY <2>2, <3>1, HeardAgainOK
    <3> QED
      BY <2>2, <3>2 DEF Kept, Keeps
  <2>3. CASE n \notin p.nodes /\ FullPending(p)
    <3>1. q = AddToFull(p, n)
      BY <1>2, <2>3 DEF PendingAdd
    <3> QED
      BY <2>1, <2>3, <3>1, AddToFullOK DEF Keeps
  <2>4. CASE n \notin p.nodes /\ ~ FullPending(p)
    <3>1. q = AddToUnfull(p, n)
      BY <1>2, <2>4 DEF PendingAdd
    <3>2. PendOK(v, q) /\ q.nodes = p.nodes \cup {n}
      BY <2>1, <2>4, <3>1, AddToUnfullOK
    <3>3. \A m \in Others : ~ Beyond(p.nodes, m)
      BY <2>4, Constants DEF Beyond, FullPending
    <3> QED
      BY <3>2, <3>3 DEF Kept, Keeps
  <2> QED
    BY <2>2, <2>3, <2>4
<1> QED
  BY <1>1, <1>2

\* the same with the arguments it is called with: a node that was heard of
LEMMA PendingAddHeard ==
  ASSUME NEW v, NEW p, PendOK(v, p), NEW n \in RingVids
  PROVE  /\ Keeps(v, p, PendingAdd(v, p, n, TRUE, TRUE))
         /\ n \in Others \ v => Kept(PendingAdd(v, p, n, TRUE, TRUE), n)
<1>1. PICK t : t = TRUE
  OBVIOUS
<1>2. PICK q : q = PendingAdd(v, p, n, TRUE, TRUE)
  OBVIOUS
<1>3. q = PendingAdd(v, p, n, t, t)
  BY <1>1, <1>2
<1>4. Keeps(v, p, q) /\ (t /\ n \in Others \ v => Kept(q, n))
  BY <1>3, PendingAddOK
<1> QED
  BY <1>1, <1>2, <1>4

\* and one that is not a vnei any more
LEMMA PendingAddLost ==
  ASSUME NEW v, NEW p, PendOK(v, p), NEW n \in RingVids
  PROVE  /\ Keeps(v, p, PendingAdd(v, p, n, TRUE, FALSE))
         /\ n \in Others \ v => Kept(PendingAdd(v, p, n, TRUE, FALSE), n)
<1>1. PICK t, f : t = TRUE /\ f = FALSE
  OBVIOUS
<1>2. PICK q : q = PendingAdd(v, p, n, TRUE, FALSE)
  OBVIOUS
<1>3. q = PendingAdd(v, p, n, t, f)
  BY <1>1, <1>2
<1>4. Keeps(v, p, q) /\ (t /\ n \in Others \ v => Kept(q, n))
  BY <1>3, PendingAddOK
<1> QED
  BY <1>1, <1>2, <1>4

\* and one that was seen in passing
LEMMA PendingAddSeen ==
  ASSUME NEW v, NEW p, PendOK(v, p), NEW n \in RingVids, NEW alive
  PROVE  Keeps(v, p, PendingAdd(v, p, n, FALSE, alive))
<1>1. PICK f : f = FALSE
  OBVIOUS
<1>2. PICK q : q = PendingAdd(v, p, n, FALSE, alive)
  OBVIOUS
<1>3. q = PendingAdd(v, p, n, f, alive)
  BY <1>1, <1>2
<1>4. Keeps(v, p, q)
  BY <1>3, PendingAddOK
<1> QED
  BY <1>2, <1>4

\* processOtherVset
LEMMA AddOtherOK ==
  ASSUME NEW v, NEW p, PendOK(v, p), NEW s, Len(s) \in Nat, \A i \in 1 .. Len(s) : s[i] \in RingVids
  PROVE  Keeps(v, p, AddOtherVset(v, p, s))
<1>0. PICK add : add = CHOOSE f : f = [i \in 0 .. Len(s) |-> IF i = 0 THEN p ELSE PendingAdd(v, f[i - 1], s[i], TRUE, TRUE)]
  OBVIOUS
<1> DEFINE S == {k \in Nat : k <= Len(s) => Keeps(v, p, add[k])}
<1>1. AddOtherVset(v, p, s) = add[Len(s)]
  BY <1>0 DEF AddOtherVset
<1>2. add = [i \in 0 .. Len(s) |-> IF i = 0 THEN p ELSE PendingAdd(v, add[i - 1], s[i], TRUE, TRUE)]
  <2>1. \E f : f = [i \in 0 .. Len(s) |-> IF i = 0 THEN p ELSE PendingAdd(v, f[i - 1], s[i], TRUE, TRUE)]
    <3> DEFINE Step(f, i) == IF i = 0 THEN p ELSE PendingAdd(v, f[i - 1], s[i], TRUE, TRUE)
               K == {k \in Nat : \E f : f = [i \in 0 .. k |-> Step(f, i)]}
    <3>1. 0 \in K
      <4>1. [i \in 0 .. 0 |-> p] = [i \in 0 .. 0 |-> Step([j \in 0 .. 0 |-> p], i)]
        OBVIOUS
      <4> QED
        BY <4>1
    <3>2. ASSUME NEW k \in K PROVE k + 1 \in K
      <4>1. PICK f : f = [i \in 0 .. k |-> Step(f, i)]
        BY <3>2
      <4> DEFINE g == [i \in 0 .. k + 1 |-> IF i = k + 1 THEN PendingAdd(v, f[k], s[k + 1], TRUE, TRUE) ELSE f[i]]
      <4>2. k \in Nat
        OBVIOUS
      <4>3. ASSUME NEW i \in 0 .. k + 1 PROVE g[i] = Step(g, i)
        <5>1. CASE i = k + 1
          <6>1. i # 0 /\ i - 1 = k /\ g[i - 1] = f[k] /\ g[i] = PendingAdd(v, f[k], s[k + 1], TRUE, TRUE)
            <7>1. k + 1 \in 0 .. k + 1 /\ k \in 0 .. k + 1 /\ k # k + 1 /\ (k + 1) - 1 = k /\ k + 1 # 0
              BY <4>2
            <7> QED
              BY <5>1, <7>1
          <6> QED
            BY <5>1, <6>1
        <5>2. CASE i # k + 1
          <6>1. i \in 0 .. k /\ g[i] = f[i] /\ (i # 0 => i - 1 \in 0 .. k + 1 /\ g[i - 1] = f[i - 1])
            <7>1. i \in 0 .. k /\ (i # 0 => i - 1 \in 0 .. k + 1 /\ i - 1 # k + 1)
              BY <4>2, <5>2
            <7> QED
              BY <5>2, <7>1
          <6>2. f[i] = Step(f, i)
            BY <4>1, <6>1
          <6> QED
            BY <6>1, <6>2
        <5> QED
          BY <5>1, <5>2
      <4>4. g = [i \in 0 .. k + 1 |-> Step(g, i)]
        <5> HIDE DEF Step
        <5> QED
          BY <4>3
      <4>5. \E h : h = [i \in 0 .. k + 1 |-> Step(h, i)]
        <5> HIDE DEF g, Step
        <5> QED
          BY <4>4
      <4>6. k + 1 \in Nat
        BY <4>2
      <4> HIDE DEF Step
      <4> QED
        BY <4>5, <4>6
    <3>3. K = Nat
      <4>1. K \in SUBSET Nat
        OBVIOUS
      <4> HIDE DEF K
      <4> QED
        BY <3>1, <3>2, <4>1, NatInd
    <3> QED
      BY <3>3
  <2> QED
    BY <1>0, <2>1
<1>3. 0 \in S
  BY <1>2 DEF Keeps
<1>4. ASSUME NEW k \in S PROVE k + 1 \in S
  <2>1. SUFFICES ASSUME k + 1 <= Len(s) PROVE Keeps(v, p, add[k + 1])
    OBVIOUS
  <2>2. k \in Nat /\ Keeps(v, p, add[k]) /\ k + 1 \in 0 .. Len(s) /\ k + 1 # 0 /\ (k + 1) - 1 = k /\ k + 1 \in 1 .. Len(s)
    BY <2>1
  <2>3. add[k + 1] = PendingAdd(v, add[k], s[k + 1], TRUE, TRUE)
    BY <1>2, <2>2
  <2>4. s[k + 1] \in RingVids
    BY <2>2
  <2>5. PendOK(v, add[k])
    BY <2>2 DEF Keeps
  <2>6. Keeps(v, add[k], add[k + 1])
    <3>1. PICK a, b, x : a = add[k] /\ b = add[k + 1] /\ x = s[k + 1]
      OBVIOUS
    <3>2. x \in RingVids /\ PendOK(v, a) /\ b = PendingAdd(v, a, x, TRUE, TRUE)
      BY <2>3, <2>4, <2>5, <3>1
    <3>3. Keeps(v, a, b)
      BY <3>2, PendingAddHeard
    <3> QED
      BY <3>1, <3>3
  <2> QED
    BY <2>2, <2>6 DEF Keeps
<1>5. S = Nat
  <2>1. S \in SUBSET Nat
    OBVIOUS
  <2> HIDE DEF S
  <2> QED
    BY <1>3, <1>4, <2>1, NatInd
<1>6. Keeps(v, p, add[Len(s)])
  BY <1>5
<1> QED
  BY <1>1, <1>6

(***************************************************************************)
(* The invariant and the steps                                             *)
(***************************************************************************)

\* the inductive invariant
VsetInv ==
  /\ PendOK(vset, pend)
  /\ vset \in SUBSET Others /\ Cardinality(vset) <= 2 * Half
  /\ inNetwork \in BOOLEAN /\ warmup \in BOOLEAN
  /\ WarmupArmed

GivenUp(m) == pend.timer[m] # NoTimer /\ pend.timer[m].retry >= RetryLimit

\* nobody is forgotten who is not given up or too far away
Careful == \A m \in Known : m \in vset' \/ Kept(pend', m) \/ GivenUp(m)

\* a srcVset is a sequence of vids
LEMMA SrcVsetSeq ==
  ASSUME NEW s \in SrcVsets
  PROVE  Len(s) \in Nat /\ \A i \in 1 .. Len(s) : s[i] \in RingVids
<1>1. PICK m \in 0 .. MaxOther : s \in [1 .. m -> RingVids]
  BY DEF SrcVsets, BoundedSeq, SeqOf
<1>2. m \in Nat
  BY Constants
<1>3. s \in Seq(RingVids)
  BY <1>1, <1>2
<1> QED
  BY <1>3

\* a node starts with nothing
LEMMA InitInv == Init => VsetInv
<1> SUFFICES ASSUME Init PROVE VsetInv
  OBVIOUS
<1>1. NoPending \in PendType
  <2>1. [n \in Others |-> NoTimer] \in [Others -> Timer \cup {NoTimer}]
    OBVIOUS
  <2> QED
    BY <2>1 DEF NoPending, PendType
<1>2. Cardinality({}) = 0
  BY FS_EmptySet
<1>3. pend.nodes = {} /\ \A n \in Others : pend.timer[n] = NoTimer
  BY DEF Init, NoPending
<1>4. pend.far = NoFarthest
  BY DEF Init, NoPending
<1>5. Half \in Nat /\ PendingHalf \in Nat /\ IsRoot \in BOOLEAN
  BY Constants
<1>6. Cardinality(pend.nodes) <= 2 * PendingHalf /\ Cardinality(vset) <= 2 * Half
  BY <1>2, <1>3, <1>5 DEF Init
<1>7. PendOK(vset, pend)
  BY <1>1, <1>3, <1>4, <1>6 DEF Init, PendOK
<1> QED
  BY <1>5, <1>6, <1>7 DEF Init, VsetInv, WarmupArmed

\* shouldAddVnei takes at most one vnei out, and one of a full vset
LEMMA AdmissionOK ==
  ASSUME VsetInv, NEW n \in Others, n \notin vset, Admission(n).add,
         NEW out, out = Admission(n).removed, NEW v, v = (vset \cup {n}) \ out
  PROVE  /\ v \in SUBSET Others /\ n \in v /\ Cardinality(v) <= 2 * Half
         /\ out = {} \/ \E old \in vset : out = {old}
<1>1. /\ vset \in SUBSET Others /\ Cardinality(vset) <= 2 * Half
      /\ Half \in Nat /\ Half >= 1 /\ Me \in RingVids /\ vset \in SUBSET (RingVids \ {Me})
  BY Constants DEF VsetInv
<1>2. IsFiniteSet(vset) /\ Cardinality(vset) \in Nat
  BY <1>1, VidsFinite
<1>3. Cardinality(vset \cup {n}) = Cardinality(vset) + 1 /\ IsFiniteSet(vset \cup {n})
  BY <1>2, FS_AddElement
<1>4. CASE Cardinality(vset) < 2 * Half
  <2>1. out = {}
    BY <1>4 DEF Admission, ShouldAddVnei
  <2>2. v = vset \cup {n}
    BY <2>1
  <2> QED
    BY <1>1, <1>2, <1>3, <1>4, <2>1, <2>2
<1>5. CASE ~ (Cardinality(vset) < 2 * Half)
  <2> DEFINE far == FarthestVneis(vset, Me, Half)
  <2>1. Half \in 1 .. Cardinality(vset) /\ Half + 1 \in 1 .. Cardinality(vset)
    BY <1>1, <1>2, <1>5
  <2>2. far.cw \in vset /\ far.ccw \in vset
    <3>1. NthCW(vset, Me, Half) \in vset
      BY <1>1, <2>1, NthCWRank
    <3>2. NthCW(vset, Me, Half + 1) \in vset
      BY <1>1, <2>1, NthCWRank
    <3> QED
      BY <3>1, <3>2 DEF FarthestVneis
  <2>3. \E old \in vset : out = {old}
    <3> HIDE DEF far
    <3>1. Admission(n) = IF CCWDistance(Me, n) < CCWDistance(Me, far.ccw)
           THEN [add |-> TRUE, removed |-> {far.ccw}]
           ELSE IF CWDistance(Me, n) < CWDistance(Me, far.cw)
           THEN [add |-> TRUE, removed |-> {far.cw}]
           ELSE [add |-> FALSE, removed |-> {}]
      BY <1>5 DEF Admission, ShouldAddVnei, far
    <3> QED
      BY <2>2, <3>1
  <2>4. PICK old \in vset : out = {old}
    BY <2>3
  <2>5. Cardinality(v) = Cardinality(vset \cup {n}) - 1
    BY <1>3, <2>4, FS_RemoveElement
  <2>6. v \in SUBSET Others /\ n \in v
    BY <1>1, <2>4
  <2> QED
    BY <1>1, <1>2, <1>3, <2>4, <2>5, <2>6
<1> QED
  BY <1>4, <1>5

\* a node joins the vset, and the one it pushes out goes to pendingVset
LEMMA AddVneiStep ==
  ASSUME VsetInv, NEW n \in Others, NEW s \in SrcVsets, AddVnei(n, s)
  PROVE  VsetInv' /\ Careful
<1>a. PICK out, v, p : /\ out = Admission(n).removed /\ v = (vset \cup {n}) \ out
                       /\ p = PendingErase(pend, n)
  OBVIOUS
<1>1. /\ n \notin vset /\ Admission(n).add /\ vset' = v
      /\ \/ out = {} /\ pend' = AddOtherVset(v, p, s)
         \/ \E old \in out : pend' = AddOtherVset(v, PendingAdd(v, p, old, TRUE, FALSE), s)
      /\ RecordNewVnei(v)
  BY <1>a DEF AddVnei, Admit
<1>2. /\ v \in SUBSET Others /\ n \in v /\ Cardinality(v) <= 2 * Half
      /\ out = {} \/ \E old \in vset : out = {old}
  BY <1>1, <1>a, AdmissionOK
<1>3. PendOK(v, p) /\ p.nodes = pend.nodes \ {n}
  <2>1. v \subseteq vset \cup {n} /\ PendOK(vset, pend)
    BY <1>a DEF VsetInv
  <2>2. pend \in PendType
    BY <2>1 DEF PendOK
  <2>3. PendOK(v, p)
    BY <1>a, <2>1, EraseOK
  <2> QED
    BY <1>a, <2>2, <2>3, EraseNodes
<1>4. Len(s) \in Nat /\ \A i \in 1 .. Len(s) : s[i] \in RingVids
  BY SrcVsetSeq
<1>5. PendOK(v, pend') /\ \A m \in Known : m \in v \/ Kept(pend', m)
  <2>1. vset \in SUBSET Others /\ pend.nodes \in SUBSET Others
    BY PendFields DEF VsetInv, PendOK
  <2>2. v = (vset \cup {n}) \ out
    BY <1>a
  <2>3. CASE out = {} /\ pend' = AddOtherVset(v, p, s)
    <3>1. PendOK(v, pend') /\ \A m \in Others : Kept(p, m) => Kept(pend', m)
      BY <1>3, <1>4, <2>3, AddOtherOK DEF Keeps
    <3>2. \A m \in Known : m \in Others /\ (m \in v \/ m \in p.nodes)
      BY <1>3, <2>1, <2>2, <2>3 DEF Known
    <3> QED
      BY <3>1, <3>2 DEF Kept
  <2>4. CASE \E old \in out : pend' = AddOtherVset(v, PendingAdd(v, p, old, TRUE, FALSE), s)
    <3>1. PICK old \in out : pend' = AddOtherVset(v, PendingAdd(v, p, old, TRUE, FALSE), s)
      BY <2>4
    <3>2. out = {old} /\ old \in vset /\ old \in Others \ v /\ old \in RingVids
      BY <1>2, <2>1, <2>2, <3>1 DEF Others
    <3>q. PICK q : q = PendingAdd(v, p, old, TRUE, FALSE)
      OBVIOUS
    <3>3. /\ PendOK(v, q) /\ \A m \in Others : Kept(p, m) => Kept(q, m)
          /\ Kept(q, old)
      BY <1>3, <3>2, <3>q, PendingAddLost DEF Keeps
    <3>4. PendOK(v, pend') /\ \A m \in Others : Kept(q, m) => Kept(pend', m)
      BY <1>4, <3>1, <3>3, <3>q, AddOtherOK DEF Keeps
    <3>5. \A m \in Known : m \in Others /\ (m \in v \/ m \in p.nodes \/ m = old)
      BY <1>3, <2>1, <2>2, <3>2 DEF Known
    <3> QED
      BY <3>3, <3>4, <3>5 DEF Kept
  <2> QED
    BY <1>1, <2>3, <2>4
<1>6. inNetwork' \in BOOLEAN /\ warmup' \in BOOLEAN /\ WarmupArmed'
  BY <1>1 DEF VsetInv, RecordNewVnei, WarmupArmed
<1> QED
  BY <1>1, <1>2, <1>5, <1>6 DEF VsetInv, Careful

\* what the steps below have in common
LEMMA InvFacts ==
  ASSUME VsetInv
  PROVE  /\ PendOK(vset, pend) /\ pend \in PendType
         /\ vset \in SUBSET Others /\ pend.nodes \in SUBSET Others /\ Known \in SUBSET Others
         /\ Others \in SUBSET RingVids
<1>1. PendOK(vset, pend) /\ pend \in PendType /\ vset \in SUBSET Others
  BY DEF VsetInv, PendOK
<1> QED
  BY <1>1, PendFields DEF Known, Others

\* a step that changes nothing but pendingVset
LEMMA PendStep ==
  ASSUME VsetInv, PendOK(vset, pend'), UNCHANGED <<vset, inNetwork, warmup>>
  PROVE  VsetInv'
  BY DEF VsetInv, WarmupArmed

\* a SetupReq that is not accepted
LEMMA ProcessSetupReqStep ==
  ASSUME VsetInv, NEW n \in Others, NEW s \in SrcVsets, NEW routed \in BOOLEAN,
         ProcessSetupReq(n, s, routed)
  PROVE  VsetInv' /\ Careful
<1>1. PICK p, q : /\ p = PendingAdd(vset, pend, n, TRUE, TRUE)
                  /\ q = IF routed /\ n \notin vset THEN CancelTimer(p, n) ELSE p
                  /\ pend' = AddOtherVset(vset, q, s)
                  /\ UNCHANGED <<vset, inNetwork, warmup>>
  BY DEF ProcessSetupReq
<1>2. Keeps(vset, pend, p)
  <2>1. n \in RingVids /\ PendOK(vset, pend)
    BY InvFacts
  <2> QED
    BY <1>1, <2>1, PendingAddHeard
<1>3. PendOK(vset, q) /\ q.nodes = p.nodes
  <2>1. PendOK(vset, p) /\ p \in PendType
    BY <1>2 DEF Keeps, PendOK
  <2>2. PendOK(vset, CancelTimer(p, n))
    BY <2>1, CancelOK
  <2>3. CancelTimer(p, n).nodes = p.nodes
    BY <2>1, CancelFields
  <2> QED
    BY <1>1, <2>1, <2>2, <2>3
<1>4. Keeps(vset, q, pend')
  BY <1>1, <1>3, SrcVsetSeq, AddOtherOK
<1>5. PendOK(vset, pend')
  BY <1>4 DEF Keeps
<1>6. Careful
  <2>1. \A m \in Known : m \in vset \/ Kept(pend, m)
    BY DEF Known, Kept
  <2>2. \A m \in Known : Kept(pend, m) => Kept(pend', m)
    BY <1>2, <1>3, <1>4, InvFacts DEF Keeps, Kept
  <2> QED
    BY <1>1, <2>1, <2>2 DEF Careful
<1> QED
  BY <1>1, <1>5, <1>6, PendStep

\* a SetupFail: only here a node that is still wanted may be given up
LEMMA ProcessSetupFailStep ==
  ASSUME VsetInv, NEW n \in Others, NEW s \in SrcVsets, ProcessSetupFail(n, s)
  PROVE  VsetInv' /\ Careful
<1> DEFINE t == pend.timer[n]
<1>1. PICK p : /\ p = IF n \notin pend.nodes \/ t = NoTimer THEN PendingAdd(vset, pend, n, TRUE, TRUE)
                      ELSE IF t.retry < RetryLimit THEN CancelTimer(pend, n)
                      ELSE PendingErase(pend, n)
               /\ pend' = AddOtherVset(vset, p, s)
               /\ UNCHANGED <<vset, inNetwork, warmup>>
  BY DEF ProcessSetupFail
<1>2. PendOK(vset, p) /\ \A m \in pend.nodes : Kept(p, m) \/ GivenUp(m)
  <2>1. CASE n \notin pend.nodes \/ t = NoTimer
    <3>1. p = PendingAdd(vset, pend, n, TRUE, TRUE)
      BY <1>1, <2>1
    <3>2. n \in RingVids /\ PendOK(vset, pend)
      BY InvFacts
    <3>3. Keeps(vset, pend, p)
      BY <3>1, <3>2, PendingAddHeard
    <3> QED
      BY <3>3, InvFacts DEF Keeps, Kept
  <2>2. CASE ~ (n \notin pend.nodes \/ t = NoTimer) /\ t.retry < RetryLimit
    <3>1. p = CancelTimer(pend, n)
      BY <1>1, <2>2
    <3>2. PendOK(vset, p)
      BY <3>1, InvFacts, CancelOK
    <3>3. p.nodes = pend.nodes
      BY <3>1, InvFacts, CancelFields
    <3> QED
      BY <3>2, <3>3 DEF Kept
  <2>3. CASE ~ (n \notin pend.nodes \/ t = NoTimer) /\ ~ (t.retry < RetryLimit)
    <3>1. p = PendingErase(pend, n)
      BY <1>1, <2>3
    <3>2. PendOK(vset, p)
      <4>1. vset \subseteq vset \cup {n} /\ PendOK(vset, pend)
        BY InvFacts
      <4> QED
        BY <3>1, <4>1, EraseOK
    <3>3. p.nodes = pend.nodes \ {n}
      BY <3>1, InvFacts, EraseNodes
    <3>4. GivenUp(n)
      <4>1. t \in Timer
        BY <2>3, InvFacts, PendFields
      <4>2. t.retry \in Int /\ RetryLimit \in Int
        BY <4>1, Constants DEF Timer
      <4> QED
        BY <2>3, <4>2 DEF GivenUp
    <3> QED
      BY <3>2, <3>3, <3>4 DEF Kept
  <2> QED
    BY <2>1, <2>2, <2>3
<1>3. Keeps(vset, p, pend')
  BY <1>1, <1>2, SrcVsetSeq, AddOtherOK
<1>4. PendOK(vset, pend')
  BY <1>3 DEF Keeps
<1>5. Careful
  <2>1. \A m \in Known : m \in vset \/ Kept(p, m) \/ GivenUp(m)
    BY <1>2 DEF Known
  <2>2. \A m \in Known : Kept(p, m) => Kept(pend', m)
    BY <1>3, InvFacts DEF Keeps
  <2> QED
    BY <1>1, <2>1, <2>2 DEF Careful
<1> QED
  BY <1>1, <1>4, <1>5, PendStep

\* a node seen in passing
LEMMA OverhearStep ==
  ASSUME VsetInv, NEW n \in Others, NEW alive \in BOOLEAN, Overhear(n, alive)
  PROVE  VsetInv' /\ Careful
<1>1. pend' = PendingAdd(vset, pend, n, FALSE, alive) /\ UNCHANGED <<vset, inNetwork, warmup>>
  BY DEF Overhear
<1>2. n \in RingVids /\ PendOK(vset, pend)
  BY InvFacts
<1>3. Keeps(vset, pend, pend')
  BY <1>1, <1>2, PendingAddSeen
<1>4. PendOK(vset, pend')
  BY <1>3 DEF Keeps
<1>5. Careful
  <2>1. \A m \in Known : m \in vset \/ Kept(pend, m)
    BY DEF Known, Kept
  <2> QED
    BY <1>1, <1>3, <2>1, InvFacts DEF Keeps, Careful
<1> QED
  BY <1>1, <1>4, <1>5, PendStep

\* a vnei is lost: it goes to pendingVset, and the node may leave the network
LEMMA LoseVneiStep ==
  ASSUME VsetInv, NEW n \in Others, NEW s \in SrcVsets, LoseVnei(n, s)
  PROVE  VsetInv' /\ Careful
<1>1. PICK v, p1, p2, p3 :
        /\ n \in vset /\ v = vset \ {n} /\ vset' = v
        /\ p1 = PendingAdd(v, pend, n, TRUE, FALSE)
        /\ p2 = IF n \in p1.nodes /\ p1.timer[n] = NoTimer
                THEN [p1 EXCEPT !.timer[n] = [retry |-> 0, reqVnei |-> TRUE, sched |-> TRUE]] ELSE p1
        /\ p3 = AddOtherVset(v, p2, s)
        /\ pend' = PendingAdd(v, p3, n, TRUE, FALSE)
        /\ LeaveNetwork(v, n)
  BY DEF LoseVnei
<1>2. PendOK(v, pend)
  BY <1>1, InvFacts DEF PendOK
<1>3. n \in RingVids /\ n \in Others \ v
  BY <1>1, InvFacts
<1>4. Keeps(v, pend, p1) /\ Kept(p1, n)
  BY <1>1, <1>2, <1>3, PendingAddLost
<1>5. PendOK(v, p2) /\ p2.nodes = p1.nodes
  <2>1. PendOK(v, p1) /\ p1 \in PendType
    BY <1>4 DEF Keeps, PendOK
  <2>2. CASE n \in p1.nodes /\ p1.timer[n] = NoTimer
    <3> DEFINE t == [retry |-> 0, reqVnei |-> TRUE, sched |-> TRUE]
    <3>1. t \in Timer
      BY Constants DEF Timer
    <3> HIDE DEF t
    <3>2. p2 = [p1 EXCEPT !.timer[n] = t]
      BY <1>1, <2>2 DEF t
    <3>3. p2.nodes = p1.nodes /\ p2.far = p1.far /\ p2.timer = [p1.timer EXCEPT ![n] = t]
      BY <2>1, <3>2 DEF PendType
    <3>4. p2 \in PendType
      BY <2>1, <3>1, <3>2 DEF PendType
    <3>5. \A m \in Others : p2.timer[m] # NoTimer => m \in p2.nodes
      <4>1. \A m \in Others : p1.timer[m] # NoTimer => m \in p1.nodes
        BY <2>1 DEF PendOK
      <4>2. \A m \in Others : m # n => p2.timer[m] = p1.timer[m]
        BY <2>1, <3>3, PendFields
      <4> QED
        BY <2>2, <3>3, <4>1, <4>2
    <3> QED
      BY <2>1, <3>3, <3>4, <3>5 DEF PendOK, FullPending
  <2>3. CASE ~ (n \in p1.nodes /\ p1.timer[n] = NoTimer)
    BY <1>1, <2>1, <2>3
  <2> QED
    BY <2>2, <2>3
<1>6. Keeps(v, p2, p3)
  BY <1>1, <1>5, SrcVsetSeq, AddOtherOK
<1>7. Keeps(v, p3, pend')
  <2>1. PendOK(v, p3)
    BY <1>6 DEF Keeps
  <2> QED
    BY <1>1, <1>3, <2>1, PendingAddLost
<1>8. Careful
  <2>1. \A m \in Known : m \in v \/ m = n \/ Kept(pend, m)
    BY <1>1 DEF Known, Kept
  <2>2. \A m \in Others : Kept(pend, m) => Kept(p1, m)
    BY <1>4 DEF Keeps
  <2>3. \A m \in Others : Kept(p1, m) => Kept(pend', m)
    BY <1>5, <1>6, <1>7 DEF Keeps, Kept
  <2> QED
    BY <1>1, <1>4, <2>1, <2>2, <2>3, InvFacts DEF Careful
<1>9. v \in SUBSET Others /\ Cardinality(v) <= 2 * Half
  <2>1. IsFiniteSet(vset) /\ Cardinality(vset) \in Nat
    <3>1. vset \in SUBSET RingVids
      BY InvFacts
    <3> QED
      BY <3>1, VidsFinite
  <2>2. Cardinality(v) = Cardinality(vset) - 1
    BY <1>1, <2>1, FS_RemoveElement
  <2>3. Cardinality(vset) <= 2 * Half /\ Half \in Nat
    BY Constants DEF VsetInv
  <2>4. Cardinality(v) <= 2 * Half
    BY <2>1, <2>2, <2>3
  <2> QED
    BY <1>1, <2>4, InvFacts
<1>10. inNetwork' \in BOOLEAN /\ warmup' \in BOOLEAN /\ WarmupArmed'
  <2>1. KeepSelfInNetwork(v, n) \in BOOLEAN
    BY DEF KeepSelfInNetwork
  <2>2. v # {} => vset # {}
    BY <1>1
  <2>3. CASE inNetwork /\ Cardinality(v) < 2 * Half
    <3>1. inNetwork' = KeepSelfInNetwork(v, n) /\ warmup' = (warmup \/ ~ KeepSelfInNetwork(v, n))
      BY <1>1, <2>3 DEF LeaveNetwork
    <3> QED
      BY <2>1, <2>3, <3>1 DEF VsetInv, WarmupArmed
  <2>4. CASE ~ (inNetwork /\ Cardinality(v) < 2 * Half)
    BY <1>1, <2>2, <2>4 DEF VsetInv, WarmupArmed, LeaveNetwork
  <2> QED
    BY <2>3, <2>4
<1>11. PendOK(v, pend')
  BY <1>7 DEF Keeps
<1> QED
  BY <1>1, <1>8, <1>9, <1>10, <1>11 DEF VsetInv

\* everything is forgotten at once
LEMMA LeaveOverlayStep ==
  ASSUME VsetInv, LeaveOverlay
  PROVE  VsetInv' /\ Known' = {}
<1>1. vset' = {} /\ pend' = [NoPending EXCEPT !.changed = pend.changed]
      /\ inNetwork' = FALSE /\ warmup' = FALSE
  BY DEF LeaveOverlay
<1>2. pend'.nodes = {} /\ pend'.timer = [n \in Others |-> NoTimer] /\ pend'.far = NoFarthest
  BY <1>1 DEF NoPending
<1>3. pend' \in PendType
  <2>1. pend.changed \in BOOLEAN
    BY InvFacts, PendFields
  <2>2. [n \in Others |-> NoTimer] \in [Others -> Timer \cup {NoTimer}]
    OBVIOUS
  <2> QED
    BY <1>1, <2>1, <2>2 DEF NoPending, PendType
<1>4. Cardinality({}) = 0 /\ Half \in Nat /\ PendingHalf \in Nat
  BY FS_EmptySet, Constants
<1>5. PendOK(vset', pend')
  BY <1>2, <1>3, <1>4 DEF PendOK
<1>6. Cardinality(vset') <= 2 * Half
  BY <1>1, <1>4
<1> QED
  BY <1>1, <1>2, <1>5, <1>6 DEF VsetInv, WarmupArmed, Known

\* nobody new is known
NoNews == vset' = vset /\ pend.nodes' \subseteq pend.nodes

\* the timer of a SetupReq
LEMMA WaitSetupReqTimerStep ==
  ASSUME VsetInv, NEW n \in Others, NEW sent \in BOOLEAN, NEW connected \in BOOLEAN,
         WaitSetupReqTimer(n, sent, connected)
  PROVE  VsetInv' /\ NoNews
<1> DEFINE t == pend.timer[n]
<1>1. /\ t # NoTimer /\ t.sched /\ UNCHANGED <<vset, inNetwork, warmup>>
      /\ pend' = IF ~t.reqVnei /\ t.retry > 0 /\ connected THEN CancelTimer(pend, n)
                 ELSE NextSetupReq(n, t, sent)
  BY DEF WaitSetupReqTimer
<1>2. t \in Timer /\ n \in pend.nodes
  BY <1>1, InvFacts, PendFields DEF PendOK
<1>3. PendOK(vset, pend') /\ pend'.nodes \subseteq pend.nodes
  <2>1. CASE pend' = CancelTimer(pend, n)
    <3>1. PendOK(vset, pend')
      BY <2>1, InvFacts, CancelOK
    <3>2. pend'.nodes = pend.nodes
      BY <2>1, InvFacts, CancelFields
    <3> QED
      BY <3>1, <3>2
  <2>2. CASE pend' = PendingErase(pend, n)
    <3>1. PendOK(vset, pend')
      <4>1. vset \subseteq vset \cup {n} /\ PendOK(vset, pend)
        BY InvFacts
      <4> QED
        BY <2>2, <4>1, EraseOK
    <3>2. pend'.nodes = pend.nodes \ {n}
      BY <2>2, InvFacts, EraseNodes
    <3> QED
      BY <3>1, <3>2
  <2>3. ASSUME NEW u \in Timer,
               pend' = [pend EXCEPT !.nodes = @ \cup {n}, !.timer[n] = u]
        PROVE  PendOK(vset, pend') /\ pend'.nodes \subseteq pend.nodes
    <3>1. /\ pend'.nodes = pend.nodes \cup {n} /\ pend'.far = pend.far
          /\ pend'.timer = [pend.timer EXCEPT ![n] = u]
      BY <2>3, InvFacts DEF PendType
    <3>2. pend' \in PendType
      BY <2>3, InvFacts DEF PendType
    <3>3. pend'.nodes = pend.nodes
      BY <1>2, <3>1
    <3>4. \A m \in Others : pend'.timer[m] # NoTimer => m \in pend'.nodes
      <4>1. \A m \in Others : pend.timer[m] # NoTimer => m \in pend.nodes
        BY InvFacts DEF PendOK
      <4>2. \A m \in Others : m # n => pend'.timer[m] = pend.timer[m]
        BY <3>1, InvFacts, PendFields
      <4> QED
        BY <1>2, <3>3, <4>1, <4>2
    <3> QED
      BY <3>1, <3>2, <3>3, <3>4, InvFacts DEF PendOK, FullPending
  <2>4. CASE ~ (t.retry >= RetryLimit) /\ pend' = NextSetupReq(n, t, sent)
    <3>1. \/ pend' = [pend EXCEPT !.nodes = @ \cup {n}, !.timer[n].retry = @ + 1]
          \/ pend' = [pend EXCEPT !.nodes = @ \cup {n}, !.timer[n].sched = FALSE]
      BY <2>4 DEF NextSetupReq
    <3>2. [t EXCEPT !.retry = @ + 1] \in Timer /\ [t EXCEPT !.sched = FALSE] \in Timer
      <4>1. t.retry \in 0 .. RetryLimit /\ RetryLimit \in Nat
        BY <1>2, Constants DEF Timer
      <4>2. t.retry + 1 \in 0 .. RetryLimit
        BY <2>4, <4>1
      <4>3. [t EXCEPT !.retry = @ + 1] \in Timer
        BY <1>2, <4>2 DEF Timer
      <4>4. [t EXCEPT !.sched = FALSE] \in Timer
        BY <1>2 DEF Timer
      <4> QED
        BY <4>3, <4>4
    <3>3. CASE pend' = [pend EXCEPT !.nodes = @ \cup {n}, !.timer[n].retry = @ + 1]
      <4>1. pend' = [pend EXCEPT !.nodes = @ \cup {n}, !.timer[n] = [t EXCEPT !.retry = @ + 1]]
        BY <3>3
      <4> QED
        BY <2>3, <3>2, <4>1
    <3>4. CASE pend' = [pend EXCEPT !.nodes = @ \cup {n}, !.timer[n].sched = FALSE]
      <4>1. pend' = [pend EXCEPT !.nodes = @ \cup {n}, !.timer[n] = [t EXCEPT !.sched = FALSE]]
        BY <3>4
      <4> QED
        BY <2>3, <3>2, <4>1
    <3> QED
      BY <3>1, <3>3, <3>4
  <2> QED
    BY <1>1, <2>1, <2>2, <2>4 DEF NextSetupReq
<1> QED
  BY <1>1, <1>3, PendStep DEF NoNews

\* the walk of processFillVsetTimer
LEMMA FillVsetStep ==
  ASSUME VsetInv, FillVset
  PROVE  VsetInv' /\ NoNews
<1>1. UNCHANGED <<vset, inNetwork, warmup>>
  BY DEF FillVset
<1>2. CASE AsksForItself
  <2>1. pend' = [pend EXCEPT !.changed = FALSE]
    BY <1>2 DEF FillVset
  <2>2. pend' \in PendType
    BY <2>1, InvFacts DEF PendType
  <2>3. pend'.nodes = pend.nodes /\ pend'.far = pend.far /\ pend'.timer = pend.timer
    BY <2>1, InvFacts DEF PendType
  <2>4. PendOK(vset, pend')
    BY <2>2, <2>3, InvFacts DEF PendOK, FullPending
  <2> QED
    BY <1>1, <2>3, <2>4, PendStep DEF NoNews
<1>3. CASE ~ AsksForItself
  <2>1. PICK stale \in SUBSET Stale : \E asked \in SUBSET (Due \ stale) : pend' = AfterFill(stale, asked)
    BY <1>3 DEF FillVset
  <2>2. PICK asked \in SUBSET (Due \ stale) : pend' = AfterFill(stale, asked)
    BY <2>1
  <2>3. asked \subseteq pend.nodes \ stale /\ WantedNodes \subseteq pend.nodes
    BY DEF Due, Visited, WantedNodes
  <2> DEFINE Ask(m, t) ==
        IF m \in stale THEN NoTimer
        ELSE IF m \in asked
        THEN [retry |-> IF t = NoTimer THEN 0 ELSE t.retry, reqVnei |-> m \in WantedNodes, sched |-> TRUE]
        ELSE IF m \in Visited /\ t # NoTimer THEN [t EXCEPT !.reqVnei = m \in WantedNodes] ELSE t
  <2>4. pend' = [nodes |-> pend.nodes \ stale, far |-> pend.far, changed |-> FALSE,
                 timer |-> [m \in Others |-> Ask(m, pend.timer[m])]]
    BY <2>2 DEF AfterFill
  <2>5. /\ pend'.nodes = pend.nodes \ stale /\ pend'.far = pend.far
        /\ \A m \in Others : pend'.timer[m] = Ask(m, pend.timer[m])
    BY <2>4
  <2>6. \A m \in Others : Ask(m, pend.timer[m]) \in Timer \cup {NoTimer}
    <3> SUFFICES ASSUME NEW m \in Others PROVE Ask(m, pend.timer[m]) \in Timer \cup {NoTimer}
      OBVIOUS
    <3>1. PICK t \in Timer \cup {NoTimer} : t = pend.timer[m]
      BY InvFacts, PendFields
    <3>3. [retry |-> IF t = NoTimer THEN 0 ELSE t.retry, reqVnei |-> m \in WantedNodes, sched |-> TRUE] \in Timer
      BY <3>1, Constants DEF Timer
    <3>4. t # NoTimer => [t EXCEPT !.reqVnei = m \in WantedNodes] \in Timer
      <4>1. t # NoTimer => \A b \in BOOLEAN : [t EXCEPT !.reqVnei = b] \in Timer
        BY <3>1 DEF Timer
      <4>2. (m \in WantedNodes) \in BOOLEAN
        OBVIOUS
      <4> QED
        BY <4>1, <4>2, Zenon
    <3> QED
      BY <3>1, <3>3, <3>4
  <2>7. pend' \in PendType
    <3> HIDE DEF Ask
    <3>1. [m \in Others |-> Ask(m, pend.timer[m])] \in [Others -> Timer \cup {NoTimer}]
      BY <2>6
    <3>2. pend.nodes \ stale \in SUBSET Others /\ pend.far \in [ccw : Others, cw : Others] \cup {NoFarthest}
      BY InvFacts, PendFields
    <3> QED
      BY <2>4, <3>1, <3>2 DEF PendType
  <2>8. \A m \in Others : pend'.timer[m] # NoTimer => m \in pend'.nodes
    <3>1. \A m \in Others : pend.timer[m] # NoTimer => m \in pend.nodes
      BY InvFacts DEF PendOK
    <3> QED
      BY <2>3, <2>5, <3>1
  <2>9. Cardinality(pend'.nodes) <= Cardinality(pend.nodes)
        /\ (Cardinality(pend'.nodes) = Cardinality(pend.nodes) => pend'.nodes = pend.nodes)
        /\ Cardinality(pend'.nodes) \in Nat /\ Cardinality(pend.nodes) \in Nat
    <3>1. IsFiniteSet(pend.nodes) /\ pend'.nodes \in SUBSET pend.nodes
      BY <2>5, InvFacts, PendFields
    <3> QED
      BY <3>1, FS_Subset, FS_CardinalityType
  <2>10. /\ PendOK(vset, pend) /\ Cardinality(pend.nodes) <= 2 * PendingHalf /\ PendingHalf \in Nat
         /\ FullPending(pend) /\ pend.far # NoFarthest
              => pend.far = FarthestVneis(pend.nodes, Me, PendingHalf)
    BY InvFacts, Constants DEF PendOK
  <2>11. Cardinality(pend'.nodes) <= 2 * PendingHalf
         /\ (FullPending(pend') => FullPending(pend) /\ pend'.nodes = pend.nodes)
    BY <2>9, <2>10 DEF FullPending
  <2>12. pend'.nodes \cap vset = {}
    BY <2>5, <2>10 DEF PendOK
  <2>13. PendOK(vset, pend')
    BY <2>5, <2>7, <2>8, <2>10, <2>11, <2>12 DEF PendOK
  <2> QED
    BY <1>1, <2>5, <2>13, PendStep DEF NoNews
<1> QED
  BY <1>2, <1>3

\* the end of the warm-up
LEMMA InNetworkWarmupStep ==
  ASSUME VsetInv, InNetworkWarmup
  PROVE  VsetInv' /\ NoNews
  BY Constants DEF VsetInv, InNetworkWarmup, WarmupArmed, NoNews

\* what a step may do to the nodes known
KnownStep == Careful \/ NoNews \/ Known' = {}

\* every step keeps the invariant, and is careful about the nodes known
LEMMA NextStep ==
  ASSUME VsetInv, Next
  PROVE  VsetInv' /\ KnownStep
<1>1. CASE Hearing
  BY <1>1, AddVneiStep, ProcessSetupReqStep, ProcessSetupFailStep, LoseVneiStep, OverhearStep,
     LeaveOverlayStep DEF Hearing, KnownStep
<1>2. CASE FillVset
  BY <1>2, FillVsetStep DEF KnownStep
<1>3. CASE \E n \in Others : SomeSetupReqTimer(n)
  BY <1>3, WaitSetupReqTimerStep DEF SomeSetupReqTimer, KnownStep
<1>4. CASE InNetworkWarmup
  BY <1>4, InNetworkWarmupStep DEF KnownStep
<1> QED
  BY <1>1, <1>2, <1>3, <1>4 DEF Next

\* so does a step that leaves the node alone
LEMMA NextInv == VsetInv /\ [Next]_vars => VsetInv'
<1> SUFFICES ASSUME VsetInv, [Next]_vars PROVE VsetInv'
  OBVIOUS
<1>1. CASE Next
  BY <1>1, NextStep
<1>2. CASE UNCHANGED vars
  BY <1>2 DEF vars, VsetInv, WarmupArmed
<1> QED
  BY <1>1, <1>2

\* the invariant holds of every state
LEMMA Invariant == Spec => []VsetInv
  BY InitInv, NextInv, PTL DEF Spec

\* and implies three of the properties
LEMMA InvImplies == VsetInv => PendingOwned /\ FarthestFresh /\ WarmupArmed
<1> SUFFICES ASSUME VsetInv PROVE PendingOwned /\ FarthestFresh /\ WarmupArmed
  OBVIOUS
<1>1. PendingOwned
  BY InvFacts DEF VsetInv, PendOK, PendingOwned
<1>2. FarthestFresh
  BY DEF VsetInv, PendOK, FarthestFresh
<1> QED
  BY <1>1, <1>2 DEF VsetInv

\* the members nearer than a node beyond the set, on either side
LEMMA BeyondCounts ==
  ASSUME NEW S \in SUBSET Others, NEW n \in Others, Beyond(S, n)
  PROVE  /\ Cardinality({w \in S : CWDistance(Me, w) < CWDistance(Me, n)}) >= PendingHalf
         /\ Cardinality({w \in S : CCWDistance(Me, w) < CCWDistance(Me, n)}) >= PendingHalf
<1> DEFINE B == {w \in S : CWDistance(Me, w) < CWDistance(Me, n)}
           A == {w \in S : CCWDistance(Me, w) < CCWDistance(Me, n)}
<1>1. /\ Me \in RingVids /\ Others = RingVids \ {Me} /\ PendingHalf \in Nat
      /\ n \notin S /\ Cardinality(S) = 2 * PendingHalf /\ Cardinality(B) = PendingHalf
  BY Constants DEF Beyond, Rank, Before
<1>2. IsFiniteSet(A) /\ IsFiniteSet(B) /\ Cardinality(A) \in Nat
  <2>1. A \in SUBSET RingVids /\ B \in SUBSET RingVids
    BY <1>1
  <2> HIDE DEF A, B
  <2> QED
    BY <2>1, VidsFinite
<1>3. A \cup B = S /\ A \cap B = {}
  <2>1. VidMax \in Nat
    BY VidMaxAssumption
  <2>2. \A w \in S : /\ CWDistance(Me, w) \in Int /\ CWDistance(Me, n) \in Int
                     /\ CWDistance(Me, w) # CWDistance(Me, n)
                     /\ CCWDistance(Me, w) = VidMax + 1 - CWDistance(Me, w)
                     /\ CCWDistance(Me, n) = VidMax + 1 - CWDistance(Me, n)
    BY <1>1, RingDistance
  <2> QED
    BY <2>1, <2>2
<1>4. Cardinality(A \cup B) = Cardinality(A) + Cardinality(B)
  <2> HIDE DEF A, B
  <2>1. Cardinality(A \cap B) = 0
    BY <1>3, FS_EmptySet
  <2>2. Cardinality(A \cup B) = Cardinality(A) + Cardinality(B) - Cardinality(A \cap B)
    BY <1>2, FS_Union
  <2> QED
    BY <1>1, <1>2, <2>1, <2>2
<1>5. Cardinality(A) = PendingHalf
  <2> HIDE DEF A, B
  <2> QED
    BY <1>1, <1>2, <1>3, <1>4
<1> QED
  BY <1>1, <1>5

\* the action of OnlyFarNodesForgotten
ForgetFar ==
  (vset' # vset \/ ~ (pend.nodes' \subseteq pend.nodes)) /\ Known' # {} =>
    \A n \in Known \ Known' :
      \/ pend.timer[n] # NoTimer /\ pend.timer[n].retry >= RetryLimit
      \/ /\ Cardinality({w \in pend.nodes' : CWDistance(Me, w) < CWDistance(Me, n)}) >= PendingHalf
         /\ Cardinality({w \in pend.nodes' : CCWDistance(Me, w) < CCWDistance(Me, n)}) >= PendingHalf

\* a careful step does that
LEMMA StepForgetsFar == VsetInv /\ VsetInv' /\ [Next]_vars => [ForgetFar]_vars
<1> SUFFICES ASSUME VsetInv, VsetInv', Next PROVE ForgetFar
  OBVIOUS
<1>1. CASE Careful
  <2>1. ASSUME NEW n \in Known \ Known', ~ GivenUp(n)
        PROVE  /\ Cardinality({w \in pend.nodes' : CWDistance(Me, w) < CWDistance(Me, n)}) >= PendingHalf
               /\ Cardinality({w \in pend.nodes' : CCWDistance(Me, w) < CCWDistance(Me, n)}) >= PendingHalf
    <3>1. n \in Others /\ Kept(pend', n) /\ n \notin pend'.nodes
      BY <1>1, <2>1, InvFacts DEF Careful, Known
    <3>2. Beyond(pend'.nodes, n)
      BY <3>1 DEF Kept
    <3>3. pend'.nodes \in SUBSET Others
      BY PendFields DEF VsetInv, PendOK
    <3> QED
      BY <3>1, <3>2, <3>3, BeyondCounts
  <2> QED
    BY <2>1 DEF ForgetFar, GivenUp
<1>2. CASE NoNews
  BY <1>2 DEF NoNews, ForgetFar
<1>3. CASE Known' = {}
  BY <1>3 DEF ForgetFar
<1> QED
  BY <1>1, <1>2, <1>3, NextStep DEF KnownStep

\* Of the Half nearest known nodes of a side none is
\* passed over.  The walk reaches n from the side on which fewer are nearer.
LEMMA NearestWanted ==
  ASSUME VsetInv, NEW n \in pend.nodes,
         Cardinality(NearerCW(n)) < Half \/ Cardinality(NearerCCW(n)) < Half
  PROVE  n \in WantedNodes
<1> DEFINE k == Cardinality(Known)
           cw == Cardinality(NearerCW(n))
           ccw == Cardinality(NearerCCW(n))
<1>1. /\ Me \in RingVids /\ Others = RingVids \ {Me} /\ Half \in Nat /\ PendingHalf \in Nat
      /\ n \in Known /\ n \in Others /\ Known \in SUBSET (RingVids \ {Me})
  BY InvFacts, Constants DEF Known
<1>2. /\ IsFiniteSet(Known) /\ IsFiniteSet(NearerCW(n)) /\ IsFiniteSet(NearerCCW(n))
      /\ k \in Nat /\ cw \in Nat /\ ccw \in Nat
  <2>1. Known \in SUBSET RingVids /\ NearerCW(n) \in SUBSET RingVids /\ NearerCCW(n) \in SUBSET RingVids
    BY <1>1 DEF NearerCW, NearerCCW, CloserCW, CloserCCW
  <2> QED
    BY <2>1, VidsFinite
<1>3. cw + ccw = k - 1
  <2>1. VidMax \in Nat
    BY VidMaxAssumption
  <2>2. \A w \in Known : /\ CWDistance(Me, w) \in Int
                         /\ (CWDistance(Me, w) = CWDistance(Me, n) => w = n)
                         /\ CCWDistance(Me, w) = VidMax + 1 - CWDistance(Me, w)
    BY <1>1, RingDistance
  <2>3. NearerCW(n) \cup NearerCCW(n) = Known \ {n} /\ NearerCW(n) \cap NearerCCW(n) = {}
    BY <1>1, <2>1, <2>2 DEF NearerCW, NearerCCW, CloserCW, CloserCCW
  <2>4. Cardinality(NearerCW(n) \cup NearerCCW(n)) = cw + ccw - Cardinality({})
    BY <1>2, <2>3, FS_Union
  <2>5. Cardinality(Known \ {n}) = k - 1
    BY <1>1, <1>2, FS_RemoveElement
  <2>6. Cardinality({}) = 0
    BY FS_EmptySet
  <2>7. Cardinality(Known \ {n}) = cw + ccw - 0
    BY <2>3, <2>4, <2>6, Zenon
  <2> QED
    BY <1>2, <2>5, <2>7
<1>4. Cardinality(Closer(Known, n)) < Half
  <2>1. CASE MetCW(Known, n)
    <3>1. cw < (k + 1) \div 2
      BY <2>1 DEF MetCW, NearerCW
    <3>2. cw <= ccw
      BY <1>2, <1>3, <3>1
    <3>3. cw < Half
      BY <1>1, <1>2, <3>2
    <3> QED
      BY <2>1, <3>3 DEF Closer, NearerCW
  <2>2. CASE ~ MetCW(Known, n)
    <3>1. ~ (cw < (k + 1) \div 2)
      BY <2>2 DEF MetCW, NearerCW
    <3>2. ccw <= cw
      BY <1>2, <1>3, <3>1
    <3>3. ccw < Half
      BY <1>1, <1>2, <3>2
    <3> QED
      BY <2>2, <3>3 DEF Closer, NearerCCW
  <2> QED
    BY <2>1, <2>2
<1>5. IsFiniteSet(Closer(Known, n)) /\ Cardinality(Closer(Known, n)) \in Nat
  BY <1>2 DEF Closer, NearerCW, NearerCCW
<1>6. n \in Visited
  BY <1>1, <1>4, <1>5 DEF Visited, Reached
<1>7. Belongs(Known, pend.timer, n)
  <2> DEFINE W == {w \in Closer(Known, n) : ~ Retrying(pend.timer[w])}
  <2>1. W \in SUBSET Closer(Known, n)
    OBVIOUS
  <2> HIDE DEF W
  <2>2. Cardinality(W) <= Cardinality(Closer(Known, n)) /\ Cardinality(W) \in Nat
    BY <1>5, <2>1, FS_Subset, FS_CardinalityType
  <2>3. Cardinality(W) < Half
    BY <1>1, <1>4, <1>5, <2>2
  <2> QED
    BY <2>3 DEF Belongs, W
<1> QED
  BY <1>6, <1>7 DEF WantedNodes

\* and shouldAddVnei would accept it
LEMMA NearestAdmitted ==
  ASSUME VsetInv, NEW n \in pend.nodes,
         Cardinality(NearerCW(n)) < Half \/ Cardinality(NearerCCW(n)) < Half
  PROVE  Admission(n).add
<1>1. /\ Me \in RingVids /\ Others = RingVids \ {Me} /\ Half \in Nat /\ Half >= 1
      /\ vset \in SUBSET (RingVids \ {Me}) /\ Known \in SUBSET (RingVids \ {Me})
      /\ n \in RingVids \ {Me} /\ n \notin vset
  BY InvFacts, Constants DEF PendOK
<1>2. CASE Cardinality(vset) < 2 * Half
  BY <1>2 DEF Admission, ShouldAddVnei
<1>3. CASE ~ (Cardinality(vset) < 2 * Half)
  <2>1. PICK a, c : FarthestVneis(vset, Me, Half) = [ccw |-> a, cw |-> c]
    BY DEF FarthestVneis
  <2>2. a = NthCW(vset, Me, Half + 1) /\ c = NthCW(vset, Me, Half)
    BY <2>1 DEF FarthestVneis
  <2>3. Cardinality(vset) = 2 * Half
    <3>1. Cardinality(vset) <= 2 * Half
      BY DEF VsetInv
    <3>2. Cardinality(vset) \in Nat
      <4>1. vset \in SUBSET RingVids
        BY <1>1
      <4> QED
        BY <4>1, VidsFinite
    <3> QED
      BY <1>1, <1>3, <3>1, <3>2
  <2>4. Half \in 1 .. Cardinality(vset) /\ Half + 1 \in 1 .. Cardinality(vset)
    BY <1>1, <2>3
  <2>5. a \in vset /\ Rank(vset, Me, a) = Half /\ c \in vset /\ Rank(vset, Me, c) = Half - 1
    <3>1. a \in vset /\ Rank(vset, Me, a) = Half + 1 - 1
      BY <1>1, <2>2, <2>4, NthCWRank
    <3>2. c \in vset /\ Rank(vset, Me, c) = Half - 1
      BY <1>1, <2>2, <2>4, NthCWRank
    <3> QED
      BY <1>1, <3>1, <3>2
  <2>6. /\ Rank(vset, Me, n) \in Nat
        /\ Rank(vset, Me, n) <= Cardinality(NearerCW(n))
        /\ 2 * Half - Rank(vset, Me, n) <= Cardinality(NearerCCW(n))
        /\ Cardinality(NearerCW(n)) \in Nat /\ Cardinality(NearerCCW(n)) \in Nat
    <3> DEFINE A == vset \ Before(vset, Me, n)
    <3>1. /\ IsFiniteSet(NearerCW(n)) /\ IsFiniteSet(NearerCCW(n)) /\ IsFiniteSet(vset)
          /\ Cardinality(NearerCW(n)) \in Nat /\ Cardinality(NearerCCW(n)) \in Nat
      <4>1. NearerCW(n) \in SUBSET RingVids /\ NearerCCW(n) \in SUBSET RingVids /\ vset \in SUBSET RingVids
        BY <1>1 DEF NearerCW, NearerCCW, CloserCW, CloserCCW
      <4> QED
        BY <4>1, VidsFinite
    <3>2. Rank(vset, Me, n) \in Nat
      BY <1>1, RankType
    <3>3. Before(vset, Me, n) \in SUBSET NearerCW(n)
      BY DEF Before, NearerCW, CloserCW, Known
    <3>4. A \in SUBSET NearerCCW(n)
      <4>1. VidMax \in Nat
        BY VidMaxAssumption
      <4>2. \A w \in vset : /\ CWDistance(Me, w) \in Int /\ CWDistance(Me, n) \in Int
                            /\ CWDistance(Me, w) # CWDistance(Me, n)
                            /\ CCWDistance(Me, w) = VidMax + 1 - CWDistance(Me, w)
                            /\ CCWDistance(Me, n) = VidMax + 1 - CWDistance(Me, n)
        BY <1>1, RingDistance
      <4> QED
        BY <4>1, <4>2 DEF Before, NearerCCW, CloserCCW, Known
    <3>5. Cardinality(Before(vset, Me, n)) <= Cardinality(NearerCW(n))
      BY <3>1, <3>3, FS_Subset
    <3>6. Cardinality(A) <= Cardinality(NearerCCW(n))
      <4> HIDE DEF A
      <4> QED
        BY <3>1, <3>4, FS_Subset
    <3>7. Cardinality(A) = Cardinality(vset) - Rank(vset, Me, n)
      <4>1. Cardinality(A) = Cardinality(vset) - Cardinality(vset \cap Before(vset, Me, n))
        BY <3>1, FS_Difference
      <4>2. vset \cap Before(vset, Me, n) = Before(vset, Me, n)
        BY DEF Before
      <4> QED
        BY <4>1, <4>2 DEF Rank
    <3> QED
      BY <2>3, <3>1, <3>2, <3>5, <3>6, <3>7 DEF Rank
  <2>7. Rank(vset, Me, n) < Half \/ Rank(vset, Me, n) > Half
    BY <1>1, <2>6
  <2>8. Admission(n) = IF CCWDistance(Me, n) < CCWDistance(Me, a)
          THEN [add |-> TRUE, removed |-> {a}]
          ELSE IF CWDistance(Me, n) < CWDistance(Me, c)
          THEN [add |-> TRUE, removed |-> {c}]
          ELSE [add |-> FALSE, removed |-> {}]
    BY <1>3, <2>1 DEF Admission, ShouldAddVnei
  <2>9. /\ VidMax \in Nat
        /\ CWDistance(Me, n) \in Int /\ CWDistance(Me, a) \in Int /\ CWDistance(Me, c) \in Int
        /\ CWDistance(Me, n) # CWDistance(Me, c)
        /\ CCWDistance(Me, n) = VidMax + 1 - CWDistance(Me, n)
        /\ CCWDistance(Me, a) = VidMax + 1 - CWDistance(Me, a)
    <3>1. a \in RingVids \ {Me} /\ c \in RingVids \ {Me} /\ n # c
      BY <1>1, <2>5
    <3> QED
      BY <1>1, <3>1, VidMaxAssumption, RingDistance
  <2>10. CASE Rank(vset, Me, n) > Half
    <3>1. ~ (CWDistance(Me, n) <= CWDistance(Me, a))
      BY <1>1, <2>5, <2>6, <2>10, RankOrder
    <3>2. CCWDistance(Me, n) < CCWDistance(Me, a)
      BY <2>9, <3>1
    <3> QED
      BY <2>8, <3>2
  <2>11. CASE Rank(vset, Me, n) < Half
    <3>1. ~ (CWDistance(Me, c) < CWDistance(Me, n))
      BY <1>1, <2>5, <2>6, <2>11, RankOrder
    <3>2. CWDistance(Me, n) < CWDistance(Me, c)
      BY <2>9, <3>1
    <3> QED
      BY <2>8, <3>2
  <2> QED
    BY <2>7, <2>10, <2>11
<1> QED
  BY <1>2, <1>3

\* so the walk leaves a request for a vset route under way
LEMMA InvNearestAsked == VsetInv => NearestAsked
<1> SUFFICES ASSUME VsetInv, NEW n \in pend.nodes,
                    Cardinality(NearerCW(n)) < Half \/ Cardinality(NearerCCW(n)) < Half
             PROVE  LET after == AfterFill({}, Due)
                    IN  /\ after.timer[n] # NoTimer /\ after.timer[n].sched /\ after.timer[n].reqVnei
                        /\ Admission(n).add
  BY DEF NearestAsked
<1> DEFINE t == pend.timer[n]
           u == AfterFill({}, Due).timer[n]
<1>1. n \in WantedNodes /\ n \in Visited /\ n \in Others /\ Admission(n).add
  BY NearestWanted, NearestAdmitted, InvFacts DEF WantedNodes
<1>2. u = IF n \in Due
          THEN [retry |-> IF t = NoTimer THEN 0 ELSE t.retry, reqVnei |-> n \in WantedNodes, sched |-> TRUE]
          ELSE IF t # NoTimer THEN [t EXCEPT !.reqVnei = n \in WantedNodes] ELSE t
  BY <1>1 DEF AfterFill
<1>3. t \in Timer \cup {NoTimer}
  BY <1>1, InvFacts, PendFields
<1>4. CASE n \in Due
  <2>1. u = [retry |-> IF t = NoTimer THEN 0 ELSE t.retry, reqVnei |-> n \in WantedNodes, sched |-> TRUE]
    BY <1>2, <1>4
  <2> HIDE DEF u
  <2>2. u.sched /\ u.reqVnei
    BY <1>1, <2>1
  <2>3. u \in Timer
    <3>1. \A b \in BOOLEAN :
            [retry |-> IF t = NoTimer THEN 0 ELSE t.retry, reqVnei |-> b, sched |-> TRUE] \in Timer
      BY <1>3, Constants DEF Timer
    <3>2. (n \in WantedNodes) \in BOOLEAN
      OBVIOUS
    <3> QED
      BY <2>1, <3>1, <3>2, Zenon
  <2>4. u # NoTimer
    BY <2>3, Constants
  <2> QED
    BY <1>1, <2>2, <2>4 DEF u
<1>5. CASE n \notin Due
  <2>1. t # NoTimer /\ t.sched /\ t.reqVnei
    BY <1>1, <1>5 DEF Due
  <2>2. u = [t EXCEPT !.reqVnei = n \in WantedNodes]
    BY <1>2, <1>5, <2>1
  <2>3. u.sched /\ u.reqVnei
    BY <1>1, <1>3, <2>1, <2>2 DEF Timer
  <2>4. u \in Timer
    <3>1. \A b \in BOOLEAN : [t EXCEPT !.reqVnei = b] \in Timer
      BY <1>3, <2>1 DEF Timer
    <3>2. (n \in WantedNodes) \in BOOLEAN
      OBVIOUS
    <3> QED
      BY <2>2, <3>1, <3>2, Zenon
  <2> QED
    BY <1>1, <2>3, <2>4, Constants
<1> QED
  BY <1>4, <1>5

(***************************************************************************)
(* Theorems                                                                *)
(***************************************************************************)

\* A node is a vnei or pending but not both, SetupReq timers run for pending
\* nodes only, and neither set outgrows its bound.
THEOREM SetsOwned == Spec => []PendingOwned
  BY Invariant, InvImplies, PTL

\* processFillVsetTimer passes over none of the Half nearest known nodes of a
\* side, and asks only nodes that shouldAddVnei would accept.
THEOREM NearestAreAsked == Spec => []NearestAsked
  BY Invariant, InvNearestAsked, PTL

\* pendingVsetFarthest is always what a walk over the full pendingVset would
\* find.
THEOREM FarthestKeptFresh == Spec => []FarthestFresh
  BY Invariant, InvImplies, PTL

\* The warm-up timer runs whenever a node outside the network has vneis, and
\* never inside it.
THEOREM WarmupAlwaysArmed == Spec => []WarmupArmed
  BY Invariant, InvImplies, PTL

\* Additions push a node out only when PendingHalf pending nodes are nearer on
\* both sides, or when it was given up after RetryLimit requests.
THEOREM FarNodesForgotten == Spec => OnlyFarNodesForgotten
<1>1. VsetInv /\ VsetInv' /\ [Next]_vars =>
        [(vset' # vset \/ ~ (pend.nodes' \subseteq pend.nodes)) /\ Known' # {} =>
           \A n \in Known \ Known' :
             \/ pend.timer[n] # NoTimer /\ pend.timer[n].retry >= RetryLimit
             \/ /\ Cardinality({w \in pend.nodes' : CWDistance(Me, w) < CWDistance(Me, n)}) >= PendingHalf
                /\ Cardinality({w \in pend.nodes' : CCWDistance(Me, w) < CCWDistance(Me, n)}) >= PendingHalf]_vars
  BY StepForgetsFar DEF ForgetFar
<1> QED
  BY <1>1, Invariant, PTL DEF Spec, OnlyFarNodesForgotten
=============================================================================
