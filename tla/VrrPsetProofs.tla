---------------------------- MODULE VrrPsetProofs ----------------------------
(***************************************************************************)
(* Proofs about VrrPset, for any network, any beacon and validity          *)
(* intervals and any number of faults: psetTable is well typed and purged  *)
(* in time, its two maps agree, LINKED means heard both ways, and both     *)
(* ends of a working link become LINKED.                                   *)
(***************************************************************************)
EXTENDS VrrPset, TLAPS, WellFoundedInduction, FiniteSetTheorems

Entries == Entry \cup {NoEntry}

-----------------------------------------------------------------------------
(* Tables as values                                                        *)

\* A table that is well typed, whose maps agree, and whose PENDING pneis have
\* neither two-hop pneis nor a right to be a next hop.
Good(t) ==
  /\ t \in [pneis : [Nodes -> Entries], via : [Nodes -> SUBSET Nodes]]
  /\ \A m, p \in Nodes : p \in t.via[m] <=> IsLinked(t.pneis, p) /\ m \in t.pneis[p].mpneis
  /\ \A p \in Nodes : t.pneis[p] # NoEntry /\ ~IsLinked(t.pneis, p)
                        => t.pneis[p].mpneis = {} /\ ~t.pneis[p].hadInNet

\* pneis1 has no entry pneis has not, none heard of later and none LINKED anew.
Fewer(pneis, pneis1) ==
  \A p \in Nodes : pneis1[p] # NoEntry =>
    /\ pneis[p] # NoEntry /\ pneis1[p].age = pneis[p].age
    /\ IsLinked(pneis1, p) => IsLinked(pneis, p)

(* setNeighbour keeps a table good, if a pnei it makes PENDING was not     *)
(* LINKED any more and is given no two-hop pneis.                          *)
LEMMA SetNeighbourGood ==
  ASSUME NEW t, Good(t), NEW p \in Nodes, NEW state \in {"PENDING", "LINKED"},
         NEW joined \in BOOLEAN, NEW mpneis \in SUBSET Nodes,
         state = "PENDING" => mpneis = {} /\ ~IsLinked(t.pneis, p)
  PROVE  /\ Good(SetNeighbour(t, p, state, joined, mpneis))
         /\ SetNeighbour(t, p, state, joined, mpneis).pneis[p].age = 0
         /\ SetNeighbour(t, p, state, joined, mpneis).pneis[p] # NoEntry
         /\ IsLinked(SetNeighbour(t, p, state, joined, mpneis).pneis, p) <=> state = "LINKED"
         /\ \A q \in Nodes \ {p} :
              SetNeighbour(t, p, state, joined, mpneis).pneis[q] = t.pneis[q]
<1> DEFINE t1   == SetNeighbour(t, p, state, joined, mpneis)
           old  == IF t.pneis[p] = NoEntry THEN {} ELSE t.pneis[p].mpneis
           had  == t.pneis[p] # NoEntry /\ t.pneis[p].hadInNet
           new  == [state |-> state, mpneis |-> mpneis, age |-> 0,
                    hadInNet |-> had \/ (state = "LINKED" /\ joined)]
<1>1. /\ t1.pneis = [t.pneis EXCEPT ![p] = new]
      /\ \A m \in Nodes : t1.via[m] = (IF m \in old \ mpneis THEN t.via[m] \ {p} ELSE t.via[m])
                                        \cup (IF state = "LINKED" /\ m \in mpneis THEN {p} ELSE {})
      /\ t1.via \in [Nodes -> SUBSET Nodes]
  <2>1. t1.pneis = [t.pneis EXCEPT ![p] = new]
    BY DEF SetNeighbour
  <2>2. CASE state = "LINKED"
    BY <2>1, <2>2 DEF SetNeighbour, RemoveVia, Good
  <2>3. CASE state # "LINKED"
    BY <2>1, <2>3 DEF SetNeighbour, RemoveVia, Good
  <2> QED BY <2>2, <2>3
<1>2. new \in Entry /\ new # NoEntry
  <2>1. had \in BOOLEAN /\ (had \/ (state = "LINKED" /\ joined)) \in BOOLEAN
    <3>1. t.pneis[p] # NoEntry => t.pneis[p].hadInNet \in BOOLEAN
      BY DEF Good, Entries, Entry
    <3> QED BY <3>1
  <2>2. 0 \in 0 .. Validity
    BY PsetAssumption
  <2>3. new \in Entry
    <3> DEFINE hadNow == had \/ (state = "LINKED" /\ joined)
    <3>1. hadNow \in BOOLEAN
      BY <2>1
    <3> HIDE DEF hadNow, had
    <3>2. [state |-> state, mpneis |-> mpneis, age |-> 0, hadInNet |-> hadNow] \in Entry
      BY <2>2, <3>1 DEF Entry
    <3> QED BY <3>2 DEF hadNow
  <2> QED BY <2>3, NoEntryAssumption
<1>3. /\ t1 \in [pneis : [Nodes -> Entries], via : [Nodes -> SUBSET Nodes]]
      /\ t1.pneis[p] = new
  <2>1. t1.pneis \in [Nodes -> Entries] /\ t1.pneis[p] = new
    BY <1>1, <1>2 DEF Good, Entries
  <2>2. t1 = [pneis |-> t1.pneis, via |-> t1.via]
    BY DEF SetNeighbour
  <2> QED BY <1>1, <2>1, <2>2
<1>4. \A q \in Nodes \ {p} : t1.pneis[q] = t.pneis[q]
  BY <1>1 DEF Good
<1>5. IsLinked(t1.pneis, p) <=> state = "LINKED"
  BY <1>2, <1>3 DEF IsLinked
<1>6. ASSUME NEW m \in Nodes, NEW q \in Nodes
      PROVE  q \in t1.via[m] <=> IsLinked(t1.pneis, q) /\ m \in t1.pneis[q].mpneis
  <2>1. CASE q # p
    BY <1>1, <1>4, <2>1 DEF Good, IsLinked
  <2>2. CASE q = p
    <3>1. p \in t.via[m] => m \in old
      BY DEF Good, IsLinked
    <3>2. state = "PENDING" => p \notin t.via[m]
      BY DEF Good
    <3> QED BY <1>1, <1>3, <1>5, <2>2, <3>1, <3>2
  <2> QED BY <2>1, <2>2
<1>7. ASSUME NEW q \in Nodes, t1.pneis[q] # NoEntry, ~IsLinked(t1.pneis, q)
      PROVE  t1.pneis[q].mpneis = {} /\ ~t1.pneis[q].hadInNet
  <2>1. CASE q # p
    BY <1>4, <1>7, <2>1 DEF Good, IsLinked
  <2>2. CASE q = p
    <3>1. state = "PENDING" /\ ~had
      BY <1>5, <1>7, <2>2 DEF Good
    <3>2. mpneis = {} /\ ~(had \/ (state = "LINKED" /\ joined))
      BY <3>1
    <3>3. new.mpneis = mpneis /\ new.hadInNet = (had \/ (state = "LINKED" /\ joined))
      OBVIOUS
    <3>4. t1.pneis[q] = new
      BY <1>3, <2>2
    <3> HIDE DEF new, had, t1
    <3> QED BY <3>2, <3>3, <3>4
  <2> QED BY <2>1, <2>2
<1>8. Good(t1)
  BY <1>3, <1>6, <1>7 DEF Good
<1>9. t1.pneis[p].age = 0 /\ t1.pneis[p] # NoEntry
  BY <1>2, <1>3
<1> QED BY <1>4, <1>5, <1>8, <1>9

(* Losing pneis keeps a table good, and leaves none of them LINKED.        *)
LEMMA LosePneisGood ==
  ASSUME NEW t, Good(t), NEW lost
  PROVE  /\ Good(LosePneis(t, lost))
         /\ Fewer(t.pneis, LosePneis(t, lost).pneis)
         /\ \A p \in Nodes : /\ p \in lost => ~IsLinked(LosePneis(t, lost).pneis, p)
                             /\ p \notin lost => LosePneis(t, lost).pneis[p] = t.pneis[p]
<1> DEFINE t1 == LosePneis(t, lost)
<1>1. ASSUME NEW p \in Nodes
      PROVE  /\ t1.pneis[p] \in Entries
             /\ t1.pneis[p] # NoEntry => t.pneis[p] # NoEntry /\ t1.pneis[p].age = t.pneis[p].age
             /\ IsLinked(t1.pneis, p) <=> IsLinked(t.pneis, p) /\ p \notin lost
             /\ p \notin lost \/ ~IsLinked(t.pneis, p) => t1.pneis[p] = t.pneis[p]
             /\ p \in lost /\ IsLinked(t.pneis, p) => t1.pneis[p].mpneis = {} /\ ~t1.pneis[p].hadInNet
  <2>1. CASE p \in lost /\ IsLinked(t.pneis, p)
    <3> DEFINE r == [t.pneis[p] EXCEPT !.state = "PENDING", !.hadInNet = FALSE, !.mpneis = {}]
    <3>1. t.pneis[p] \in Entry /\ t.pneis[p] # NoEntry
      BY <2>1 DEF Good, Entries, IsLinked
    <3>2. r \in Entry /\ r.age = t.pneis[p].age /\ r.state = "PENDING" /\ r.mpneis = {} /\ ~r.hadInNet
      BY <3>1 DEF Entry
    <3>3. t1.pneis[p] = r
      BY <2>1 DEF LosePneis
    <3> QED BY <2>1, <3>1, <3>2, <3>3, NoEntryAssumption DEF Entries, IsLinked
  <2>2. CASE ~(p \in lost /\ IsLinked(t.pneis, p))
    BY <2>2 DEF LosePneis, Good, IsLinked
  <2> QED BY <2>1, <2>2
<1>2. t1 \in [pneis : [Nodes -> Entries], via : [Nodes -> SUBSET Nodes]]
  <2>1. t1 = [pneis |-> t1.pneis, via |-> t1.via]
    BY DEF LosePneis
  <2>2. t1.pneis \in [Nodes -> Entries] /\ t1.via \in [Nodes -> SUBSET Nodes]
    BY <1>1 DEF LosePneis, Good
  <2> QED BY <2>1, <2>2
<1>3. ASSUME NEW m \in Nodes, NEW p \in Nodes
      PROVE  p \in t1.via[m] <=> IsLinked(t1.pneis, p) /\ m \in t1.pneis[p].mpneis
  <2>1. p \in t1.via[m] <=> p \in t.via[m] /\ p \notin lost
    BY DEF LosePneis, Good, IsLinked
  <2> QED BY <1>1, <2>1 DEF Good
<1>4. ASSUME NEW p \in Nodes, t1.pneis[p] # NoEntry, ~IsLinked(t1.pneis, p)
      PROVE  t1.pneis[p].mpneis = {} /\ ~t1.pneis[p].hadInNet
  BY <1>1, <1>4 DEF Good
<1>5. Good(t1)
  BY <1>2, <1>3, <1>4 DEF Good
<1>6. Fewer(t.pneis, t1.pneis)
  BY <1>1 DEF Fewer
<1> QED BY <1>1, <1>5, <1>6

(* Erasing pneis that are not LINKED keeps a table good.                   *)
LEMMA EraseGood ==
  ASSUME NEW t, Good(t), NEW S, \A p \in Nodes : p \in S => ~IsLinked(t.pneis, p)
  PROVE  Good(Erase(t, S)) /\ Fewer(t.pneis, Erase(t, S).pneis)
<1> DEFINE t1 == Erase(t, S)
<1>1. t1 = [pneis |-> [p \in Nodes |-> IF p \in S THEN NoEntry ELSE t.pneis[p]], via |-> t.via]
  BY DEF Erase, Good
<1>2. t1 \in [pneis : [Nodes -> Entries], via : [Nodes -> SUBSET Nodes]]
  BY <1>1 DEF Good, Entries
<1>3. \A p \in Nodes : /\ t1.pneis[p] = IF p \in S THEN NoEntry ELSE t.pneis[p]
                       /\ IsLinked(t1.pneis, p) <=> IsLinked(t.pneis, p)
                       /\ IsLinked(t.pneis, p) => t1.pneis[p] = t.pneis[p]
                       /\ t1.via[p] = t.via[p]
  BY <1>1 DEF IsLinked
<1> QED BY <1>2, <1>3 DEF Good, Fewer

-----------------------------------------------------------------------------
(* The purge timer                                                         *)

LEMMA MaxExists ==
  ASSUME NEW S \in SUBSET Nat, S # {}, NEW b \in Nat, \A x \in S : x <= b
  PROVE  MaxOf(S) \in S /\ \A y \in S : MaxOf(S) >= y
<1> DEFINE T == {b - x : x \in S}
<1>1. T \subseteq Nat /\ T # {}
  <2>1. \A x \in S : b - x \in Nat
    OBVIOUS
  <2> QED BY <2>1
<1>2. PICK d \in T : \A y \in T : ~(<<y, d>> \in OpToRel(<, Nat))
  BY <1>1, NatLessThanWellFounded, WFMin
<1>3. \A y \in T : d <= y
  <2>1. ASSUME NEW y \in T, y < d
        PROVE  FALSE
    <3> DEFINE ss == <<y, d>>
    <3>1. ss \in Nat \X Nat /\ ss[1] < ss[2]
      BY <1>1, <1>2, <2>1
    <3>2. ss \in OpToRel(<, Nat)
      BY <3>1, Zenon DEF OpToRel
    <3> QED BY <1>2, <3>2
  <2>2. T \subseteq Int /\ d \in T
    BY <1>1
  <2> HIDE DEF T
  <2> QED BY <2>1, <2>2
<1>4. PICK x \in S : d = b - x
  OBVIOUS
<1>5. \A y \in S : x >= y
  BY <1>3, <1>4
<1> QED BY <1>4, <1>5 DEF MaxOf

\* A pnei of this age is purged, or the purge timer is set, in time.
InTime(age, purge, beacon) ==
  \/ purge # NoTimer /\ purge + age <= Validity
  \/ beacon # NoTimer /\ beacon + age <= BeaconMax

(* schedulePurgeNeighborsTimer is in time for every pnei.                  *)
LEMMA NextPurgeInTime ==
  ASSUME NEW pneis \in [Nodes -> Entries]
  PROVE  /\ NextPurge(pneis) \in NoTimer .. Validity
         /\ \A p \in Nodes : pneis[p] # NoEntry =>
              NextPurge(pneis) # NoTimer /\ NextPurge(pneis) + pneis[p].age <= Validity
<1> DEFINE ages == {pneis[p].age : p \in Known(pneis)}
<1>1. CASE Known(pneis) = {}
  BY <1>1, PsetAssumption DEF NextPurge, Known, NoTimer
<1>2. CASE Known(pneis) # {}
  <2>1. \A p \in Known(pneis) : pneis[p].age \in 0 .. Validity
    BY DEF Known, Entries, Entry
  <2>2. ages \in SUBSET Nat /\ ages # {} /\ \A x \in ages : x <= Validity
    BY <1>2, <2>1, PsetAssumption
  <2>3. Validity \in Nat
    BY PsetAssumption
  <2>4. MaxOf(ages) \in ages /\ \A y \in ages : MaxOf(ages) >= y
    BY <2>2, <2>3, MaxExists
  <2>5. NextPurge(pneis) = Validity - MaxOf(ages)
    BY <1>2 DEF NextPurge
  <2>6. MaxOf(ages) \in 0 .. Validity
    BY <2>1, <2>4
  <2>7. \A p \in Nodes : pneis[p] # NoEntry => pneis[p].age \in ages /\ pneis[p].age \in Nat
    BY <2>1 DEF Known
  <2> HIDE DEF ages
  <2> QED BY <2>3, <2>4, <2>5, <2>6, <2>7 DEF NoTimer
<1> QED BY <1>1, <1>2

-----------------------------------------------------------------------------
(* The invariant                                                           *)

TablesGood == \A n \in Nodes : Good(Table(n))

Timers ==
  \A n \in Nodes : /\ up[n] <=> beaconIn[n] # NoTimer
                   /\ \A p \in Nodes : pset[n][p] # NoEntry
                        => InTime(pset[n][p].age, purgeIn[n], beaconIn[n])

\* What a node says it hears, it has heard; a LINKED pnei has heard of this
\* node at most a validity time before it was last heard of itself.
Heard ==
  \A n, p \in Nodes :
    /\ pset[n][p] # NoEntry => heardAgo[n][p] <= pset[n][p].age
    /\ chan[n][p] # NoEntry /\ p \in chan[n][p].listed => heardAgo[n][p] <= Validity
    /\ IsLinked(pset[n], p) => heardAgo[p][n] <= Validity + pset[n][p].age

PsetInv == TypeOK /\ TablesGood /\ Timers /\ Heard

LEMMA Constants ==
  /\ BeaconInterval \in Nat /\ MaxJitter \in Nat /\ Validity \in Nat /\ MaxFaults \in Nat
  /\ BeaconMax \in Nat /\ BeaconMax < Validity /\ BeaconInterval <= BeaconMax
  /\ 0 < BeaconInterval - MaxJitter
  /\ LongAgo \in Nat /\ 2 * Validity < LongAgo /\ CalmTime \in Nat /\ 0 < CalmTime
  /\ NoTimer = -1 /\ Joiners \subseteq Nodes
BY PsetAssumption DEF BeaconMax, LongAgo, CalmTime, NoTimer

LEMMA InitInv == Init => PsetInv
<1> SUFFICES ASSUME Init PROVE PsetInv
  OBVIOUS
<1> USE DEF Init
<1>1. TypeOK
  <2>1. pset \in [Nodes -> [Nodes -> Entry \cup {NoEntry}]]
        /\ chan \in [Nodes -> [Nodes -> Beacon \cup {NoEntry}]]
        /\ viaPneis \in [Nodes -> [Nodes -> SUBSET Nodes]]
    OBVIOUS
  <2>2. beaconIn \in [Nodes -> NoTimer .. BeaconMax] /\ purgeIn \in [Nodes -> NoTimer .. Validity]
    BY Constants
  <2>3. faults \in 0 .. MaxFaults /\ calmFor \in 0 .. CalmTime
        /\ heardAgo \in [Nodes -> [Nodes -> 0 .. LongAgo]]
    BY Constants
  <2> QED BY <2>1, <2>2, <2>3 DEF TypeOK
<1>2. TablesGood
  BY DEF TablesGood, Table, Good, Entries, IsLinked
<1>3. Timers
  BY Constants DEF Timers
<1>4. Heard
  BY DEF Heard, IsLinked
<1> QED BY <1>1, <1>2, <1>3, <1>4 DEF PsetInv

(* What an action that stores the table t at n leaves behind.              *)
LEMMA SetTableGood ==
  ASSUME TypeOK, TablesGood, NEW n \in Nodes, NEW t, Good(t), SetTable(n, t)
  PROVE  /\ pset' \in [Nodes -> [Nodes -> Entry \cup {NoEntry}]]
         /\ viaPneis' \in [Nodes -> [Nodes -> SUBSET Nodes]]
         /\ pset'[n] = t.pneis
         /\ \A m \in Nodes \ {n} : pset'[m] = pset[m]
         /\ TablesGood'
<1>1. t \in [pneis : [Nodes -> Entry \cup {NoEntry}], via : [Nodes -> SUBSET Nodes]]
  BY DEF Good, Entries
<1>2. /\ pset' = [pset EXCEPT ![n] = t.pneis] /\ viaPneis' = [viaPneis EXCEPT ![n] = t.via]
      /\ pset \in [Nodes -> [Nodes -> Entry \cup {NoEntry}]]
      /\ viaPneis \in [Nodes -> [Nodes -> SUBSET Nodes]]
  BY DEF SetTable, TypeOK
<1>3. /\ pset' \in [Nodes -> [Nodes -> Entry \cup {NoEntry}]]
      /\ viaPneis' \in [Nodes -> [Nodes -> SUBSET Nodes]]
      /\ pset'[n] = t.pneis /\ viaPneis'[n] = t.via
      /\ \A m \in Nodes \ {n} : pset'[m] = pset[m] /\ viaPneis'[m] = viaPneis[m]
  BY <1>1, <1>2
<1>4. ASSUME NEW m \in Nodes
      PROVE  Good([pneis |-> pset'[m], via |-> viaPneis'[m]])
  <2>1. CASE m = n
    <3>1. [pneis |-> pset'[m], via |-> viaPneis'[m]] = t
      BY <1>1, <1>3, <2>1
    <3> QED BY <3>1
  <2>2. CASE m # n
    <3>1. Good([pneis |-> pset[m], via |-> viaPneis[m]])
      BY DEF TablesGood, Table
    <3> QED BY <1>3, <2>2, <3>1
  <2> QED BY <2>1, <2>2
<1>5. TablesGood'
  BY <1>4 DEF TablesGood, Table
<1> QED BY <1>3, <1>5

-----------------------------------------------------------------------------
(* Every step keeps the types and the tables                               *)

\* The variables other than the tables, the timers and what was heard.
WorldOK ==
  /\ up \in [Nodes -> BOOLEAN] /\ inNetwork \in [Nodes -> BOOLEAN]
  /\ chan \in [Nodes -> [Nodes -> Beacon \cup {NoEntry}]]
  /\ cut \subseteq Nodes \X Nodes /\ faults \in 0 .. MaxFaults
  /\ calmFor \in 0 .. CalmTime
TimersOK ==
  /\ beaconIn \in [Nodes -> NoTimer .. BeaconMax]
  /\ purgeIn \in [Nodes -> NoTimer .. Validity]
PsetOK ==
  /\ pset \in [Nodes -> [Nodes -> Entry \cup {NoEntry}]]
  /\ viaPneis \in [Nodes -> [Nodes -> SUBSET Nodes]]
HeardOK == heardAgo \in [Nodes -> [Nodes -> 0 .. LongAgo]]

LEMMA TypeParts == TypeOK <=> WorldOK /\ TimersOK /\ PsetOK /\ HeardOK
BY DEF TypeOK, WorldOK, TimersOK, PsetOK, HeardOK

LEMMA TypePartsNext == TypeOK' <=> WorldOK' /\ TimersOK' /\ PsetOK' /\ HeardOK'
BY DEF TypeOK, WorldOK, TimersOK, PsetOK, HeardOK

LEMMA BeaconTyped ==
  ASSUME TypeOK, NEW n \in Nodes
  PROVE  CreateBeacon(n) \in Beacon
BY DEF TypeOK, CreateBeacon, Known, Beacon

LEMMA SendBeaconStep ==
  ASSUME PsetInv, NEW n \in Nodes, SendBeacon(n)
  PROVE  PsetInv'
<1> USE DEF PsetInv
<1>1. /\ purgeIn' = [purgeIn EXCEPT ![n] = NextPurge(pset[n])]
      /\ chan' = [chan EXCEPT ![n] = [m \in Nodes |-> IF Works(n, m) THEN CreateBeacon(n) ELSE NoEntry]]
      /\ up[n] /\ beaconIn[n] = 0
      /\ UNCHANGED <<pset, viaPneis, heardAgo, up, inNetwork, cut, faults, calmFor>>
  BY DEF SendBeacon, envVars
<1>2. PICK d \in BeaconInterval - MaxJitter .. BeaconMax : beaconIn' = [beaconIn EXCEPT ![n] = d]
  BY DEF SendBeacon
<1>3. d \in 0 .. BeaconMax
  BY <1>2, Constants
<1>4. /\ NextPurge(pset[n]) \in NoTimer .. Validity
      /\ \A p \in Nodes : pset[n][p] # NoEntry =>
           NextPurge(pset[n]) # NoTimer /\ NextPurge(pset[n]) + pset[n][p].age <= Validity
  <2>1. pset[n] \in [Nodes -> Entries]
    BY DEF TypeOK, Entries
  <2> QED BY <2>1, NextPurgeInTime
<1>5. TimersOK'
  <2>1. d \in NoTimer .. BeaconMax
    BY <1>3, Constants
  <2> QED BY <1>1, <1>2, <1>4, <2>1 DEF TypeOK, TimersOK
<1>6. WorldOK'
  BY <1>1, BeaconTyped DEF TypeOK, WorldOK
<1>7. PsetOK' /\ HeardOK' /\ TablesGood'
  BY <1>1 DEF TypeOK, PsetOK, HeardOK, TablesGood, Table
<1>8. Timers'
  <2>1. d # NoTimer
    BY <1>3, Constants
  <2>2. ASSUME NEW m \in Nodes
        PROVE  /\ up'[m] <=> beaconIn'[m] # NoTimer
               /\ \A p \in Nodes : pset'[m][p] # NoEntry => InTime(pset'[m][p].age, purgeIn'[m], beaconIn'[m])
    <3>1. CASE m = n
      BY <1>1, <1>2, <1>4, <2>1, <3>1 DEF TypeOK, InTime
    <3>2. CASE m # n
      BY <1>1, <1>2, <3>2 DEF TypeOK, Timers
    <3> QED BY <3>1, <3>2
  <2> QED BY <2>2 DEF Timers
<1>9. Heard'
  <2>1. ASSUME NEW m \in Nodes, chan'[n][m] # NoEntry, m \in chan'[n][m].listed
        PROVE  heardAgo[n][m] <= Validity
    <3>1. pset[n][m] # NoEntry
      BY <1>1, <2>1 DEF TypeOK, CreateBeacon, Known
    <3>2. pset[n][m].age \in 0 .. Validity /\ heardAgo[n][m] <= pset[n][m].age
      BY <3>1 DEF TypeOK, Entry, Heard
    <3> QED BY <3>2, Constants DEF TypeOK
  <2>2. \A m \in Nodes \ {n} : chan'[m] = chan[m]
    BY <1>1 DEF TypeOK
  <2> QED BY <1>1, <2>1, <2>2 DEF Heard
<1> QED BY <1>5, <1>6, <1>7, <1>8, <1>9, TypePartsNext

(* A node loses pneis or stops following them, and nothing else changes    *)
(* but its timers.                                                         *)
LEMMA FewerStep ==
  ASSUME PsetInv, NEW n \in Nodes, NEW t, Good(t), SetTable(n, t), Fewer(pset[n], t.pneis),
         NEW q \in NoTimer .. Validity, purgeIn' = [purgeIn EXCEPT ![n] = q],
         NEW b \in NoTimer .. BeaconMax, beaconIn' = [beaconIn EXCEPT ![n] = b],
         \A m \in Nodes \ {n} : up'[m] = up[m], up'[n] <=> b # NoTimer,
         \A p \in Nodes : t.pneis[p] # NoEntry => InTime(t.pneis[p].age, q, b),
         WorldOK', UNCHANGED <<chan, heardAgo>>
  PROVE  PsetInv'
<1> USE DEF PsetInv
<1>1. /\ PsetOK' /\ TablesGood' /\ pset'[n] = t.pneis
      /\ \A m \in Nodes \ {n} : pset'[m] = pset[m]
  BY SetTableGood DEF PsetOK
<1>2. TimersOK' /\ HeardOK'
  BY DEF TypeOK, TimersOK, HeardOK
<1>3. Timers'
  <2>1. ASSUME NEW m \in Nodes
        PROVE  /\ up'[m] <=> beaconIn'[m] # NoTimer
               /\ \A p \in Nodes : pset'[m][p] # NoEntry => InTime(pset'[m][p].age, purgeIn'[m], beaconIn'[m])
    <3>1. CASE m = n
      BY <1>1, <3>1 DEF TypeOK
    <3>2. CASE m # n
      BY <1>1, <3>2 DEF TypeOK, Timers
    <3> QED BY <3>1, <3>2
  <2> QED BY <2>1 DEF Timers
<1>4. Heard'
  <2>1. \A m, p \in Nodes :
          /\ pset'[m][p] # NoEntry => pset[m][p] # NoEntry /\ pset'[m][p].age = pset[m][p].age
          /\ IsLinked(pset'[m], p) => IsLinked(pset[m], p) /\ pset'[m][p].age = pset[m][p].age
    <3>1. ASSUME NEW m \in Nodes, m # n
          PROVE  pset'[m] = pset[m]
      BY <1>1, <3>1
    <3>2. \A p \in Nodes : IsLinked(t.pneis, p) => t.pneis[p] # NoEntry
      BY DEF IsLinked
    <3> QED BY <1>1, <3>1, <3>2 DEF Fewer
  <2> QED BY <2>1 DEF Heard
<1> QED BY <1>1, <1>2, <1>3, <1>4, TypePartsNext

LEMMA PurgeStep ==
  ASSUME PsetInv, NEW n \in Nodes, PurgeNeighbors(n)
  PROVE  PsetInv'
<1> DEFINE expired == {p \in Known(pset[n]) : pset[n][p].age >= Validity}
           lost    == {p \in expired : IsLinked(pset[n], p)}
           t0      == LosePneis(Table(n), lost)
           t       == Erase(t0, expired)
<1>1. /\ SetTable(n, t) /\ purgeIn' = [purgeIn EXCEPT ![n] = NextPurge(t.pneis)]
      /\ UNCHANGED <<beaconIn, chan, heardAgo, up, inNetwork, cut, faults, calmFor>>
  BY DEF PurgeNeighbors, envVars
<1>2. Good(Table(n)) /\ Table(n).pneis = pset[n]
  BY DEF PsetInv, TablesGood, Table
<1>3. /\ Good(t0) /\ Fewer(pset[n], t0.pneis)
      /\ \A p \in Nodes : /\ p \in lost => ~IsLinked(t0.pneis, p)
                          /\ p \notin lost => t0.pneis[p] = pset[n][p]
  BY <1>2, LosePneisGood
<1>4. \A p \in Nodes : p \in expired => ~IsLinked(t0.pneis, p)
  BY <1>3 DEF IsLinked
<1>5. Good(t) /\ Fewer(t0.pneis, t.pneis)
  BY <1>3, <1>4, EraseGood
<1>6. Fewer(pset[n], t.pneis)
  BY <1>3, <1>5 DEF Fewer
<1>7. t.pneis \in [Nodes -> Entries]
  BY <1>5 DEF Good
<1>8. /\ NextPurge(t.pneis) \in NoTimer .. Validity
      /\ \A p \in Nodes : t.pneis[p] # NoEntry => InTime(t.pneis[p].age, NextPurge(t.pneis), beaconIn[n])
  BY <1>7, NextPurgeInTime DEF InTime
<1>9. beaconIn' = [beaconIn EXCEPT ![n] = beaconIn[n]] /\ beaconIn[n] \in NoTimer .. BeaconMax
  BY <1>1 DEF PsetInv, TypeOK
<1>10. WorldOK'
  BY <1>1 DEF PsetInv, TypeOK, WorldOK
<1>11. up'[n] <=> beaconIn[n] # NoTimer
  BY <1>1 DEF PsetInv, Timers
<1> HIDE DEF t, t0
<1> QED BY <1>1, <1>5, <1>6, <1>8, <1>9, <1>10, <1>11, FewerStep

LEMMA FailedPacketStep ==
  ASSUME PsetInv, NEW n \in Nodes, NEW p \in Nodes, FailedPacket(n, p)
  PROVE  PsetInv'
<1> DEFINE t0 == LosePneis(Table(n), {p})
           t  == Erase(t0, {p})
<1>1. /\ SetTable(n, t)
      /\ UNCHANGED <<beaconIn, purgeIn, chan, heardAgo, up, inNetwork, cut, faults, calmFor>>
  BY DEF FailedPacket, envVars
<1>2. Good(Table(n)) /\ Table(n).pneis = pset[n]
  BY DEF PsetInv, TablesGood, Table
<1>3. Good(t0) /\ Fewer(pset[n], t0.pneis) /\ \A m \in Nodes : m \in {p} => ~IsLinked(t0.pneis, m)
  BY <1>2, LosePneisGood
<1>4. Good(t) /\ Fewer(t0.pneis, t.pneis)
  BY <1>3, EraseGood
<1>5. Fewer(pset[n], t.pneis)
  BY <1>3, <1>4 DEF Fewer
<1>6. \A m \in Nodes : t.pneis[m] # NoEntry => InTime(t.pneis[m].age, purgeIn[n], beaconIn[n])
  BY <1>5 DEF Fewer, PsetInv, Timers
<1>7. /\ beaconIn' = [beaconIn EXCEPT ![n] = beaconIn[n]] /\ beaconIn[n] \in NoTimer .. BeaconMax
      /\ purgeIn' = [purgeIn EXCEPT ![n] = purgeIn[n]] /\ purgeIn[n] \in NoTimer .. Validity
  BY <1>1 DEF PsetInv, TypeOK
<1>8. WorldOK'
  BY <1>1 DEF PsetInv, TypeOK, WorldOK
<1>9. up'[n] <=> beaconIn[n] # NoTimer
  BY <1>1 DEF PsetInv, Timers
<1> HIDE DEF t, t0
<1> QED BY <1>1, <1>4, <1>5, <1>6, <1>7, <1>8, <1>9, FewerStep

LEMMA StopStep ==
  ASSUME PsetInv, NEW n \in Nodes, StopOperation(n)
  PROVE  PsetInv'
<1> DEFINE t == [pneis |-> [p \in Nodes |-> NoEntry], via |-> [m \in Nodes |-> {}]]
<1>1. Good(t)
  BY DEF Good, Entries, IsLinked
<1>2. /\ SetTable(n, t) /\ beaconIn' = [beaconIn EXCEPT ![n] = NoTimer]
      /\ purgeIn' = [purgeIn EXCEPT ![n] = NoTimer]
      /\ up' = [up EXCEPT ![n] = FALSE] /\ inNetwork' = [inNetwork EXCEPT ![n] = FALSE]
      /\ faults < MaxFaults /\ faults' = faults + 1 /\ calmFor' = 0
      /\ UNCHANGED <<chan, cut, heardAgo>>
  BY DEF StopOperation
<1>3. NoTimer \in NoTimer .. Validity /\ NoTimer \in NoTimer .. BeaconMax
  BY Constants
<1>4. WorldOK'
  BY <1>2, Constants DEF PsetInv, TypeOK, WorldOK
<1>5. Fewer(pset[n], t.pneis) /\ \A p \in Nodes : t.pneis[p] = NoEntry
  BY DEF Fewer
<1>6. (\A m \in Nodes \ {n} : up'[m] = up[m]) /\ ~up'[n]
  BY <1>2 DEF PsetInv, TypeOK
<1> HIDE DEF t
<1> QED BY <1>1, <1>2, <1>3, <1>4, <1>5, <1>6, FewerStep

LEMMA StartStep ==
  ASSUME PsetInv, NEW n \in Nodes, StartOperation(n)
  PROVE  PsetInv'
<1>1. /\ ~up[n] /\ up' = [up EXCEPT ![n] = TRUE] /\ calmFor' = 0
      /\ UNCHANGED <<inNetwork, purgeIn, pset, viaPneis, chan, cut, faults, heardAgo>>
  BY DEF StartOperation
<1>2. PICK d \in 0 .. BeaconInterval : beaconIn' = [beaconIn EXCEPT ![n] = d]
  BY DEF StartOperation
<1>3. d \in NoTimer .. BeaconMax /\ d # NoTimer
  BY <1>2, Constants
<1>4. beaconIn[n] = NoTimer
  BY <1>1 DEF PsetInv, Timers
<1>5. TypeOK'
  BY <1>1, <1>2, <1>3, Constants DEF PsetInv, TypeOK
<1>6. TablesGood'
  BY <1>1 DEF PsetInv, TablesGood, Table
<1>7. Timers'
  BY <1>1, <1>2, <1>3, <1>4 DEF PsetInv, Timers, InTime, TypeOK
<1>8. Heard'
  BY <1>1 DEF PsetInv, Heard
<1> QED BY <1>5, <1>6, <1>7, <1>8 DEF PsetInv

(* processBeacon: the table, and the entry of the pnei heard of.           *)
LEMMA HearBeaconTable ==
  ASSUME PsetInv, NEW n \in Nodes, NEW p \in Nodes, NEW beacon \in Beacon,
         HearBeacon(n, p, beacon)
  PROVE  /\ PsetOK' /\ TablesGood' /\ \A m \in Nodes \ {n} : pset'[m] = pset[m]
         /\ pset'[n][p] # NoEntry /\ pset'[n][p].age = 0
         /\ IsLinked(pset'[n], p) <=> n \in beacon.listed
         /\ \A q \in Nodes \ {p} : pset'[n][q] = pset[n][q]
<1> DEFINE hearsMe == n \in beacon.listed
           state   == IF hearsMe THEN "LINKED" ELSE "PENDING"
           mpneis  == IF hearsMe THEN beacon.linked \ {n} ELSE {}
           t0      == IF ~hearsMe /\ IsLinked(pset[n], p) THEN LosePneis(Table(n), {p}) ELSE Table(n)
           t       == SetNeighbour(t0, p, state, beacon.inNetwork, mpneis)
<1>1. SetTable(n, t)
  BY DEF HearBeacon
<1>2. Good(Table(n)) /\ Table(n).pneis = pset[n]
  BY DEF PsetInv, TablesGood, Table
<1>3. /\ Good(t0) /\ (~hearsMe => ~IsLinked(t0.pneis, p))
      /\ \A q \in Nodes \ {p} : t0.pneis[q] = pset[n][q]
  BY <1>2, LosePneisGood
<1>4. /\ state \in {"PENDING", "LINKED"} /\ (state = "LINKED" <=> hearsMe)
      /\ mpneis \in SUBSET Nodes /\ (~hearsMe => mpneis = {})
      /\ beacon.inNetwork \in BOOLEAN
  BY DEF Beacon
<1>5. state = "PENDING" => mpneis = {} /\ ~IsLinked(t0.pneis, p)
  BY <1>3, <1>4
<1> HIDE DEF state, mpneis, t0, hearsMe
<1>6. /\ Good(t) /\ t.pneis[p] # NoEntry /\ t.pneis[p].age = 0 /\ (IsLinked(t.pneis, p) <=> state = "LINKED")
      /\ \A q \in Nodes \ {p} : t.pneis[q] = t0.pneis[q]
  BY <1>3, <1>4, <1>5, SetNeighbourGood
<1> HIDE DEF t
<1>7. /\ PsetOK' /\ TablesGood' /\ pset'[n] = t.pneis
      /\ \A m \in Nodes \ {n} : pset'[m] = pset[m]
  BY <1>1, <1>6, SetTableGood DEF PsetInv, PsetOK
<1>8. IsLinked(pset'[n], p) <=> IsLinked(t.pneis, p)
  BY <1>7 DEF IsLinked
<1> QED BY <1>3, <1>4, <1>6, <1>7, <1>8 DEF hearsMe

LEMMA ReceiveBeaconStep ==
  ASSUME PsetInv, NEW n \in Nodes, NEW p \in Nodes, ReceiveBeacon(p, n)
  PROVE  PsetInv'
<1> USE DEF PsetInv
<1>1. /\ chan[p][n] # NoEntry /\ chan' = [chan EXCEPT ![p][n] = NoEntry]
      /\ UNCHANGED <<beaconIn, purgeIn, up, inNetwork, cut, faults, calmFor>>
  BY DEF ReceiveBeacon, envVars
<1>2. chan[p][n] \in Beacon
  BY <1>1 DEF TypeOK
<1>3. WorldOK' /\ TimersOK'
  BY <1>1 DEF TypeOK, WorldOK, TimersOK
<1>4. \A k, m \in Nodes : chan'[k][m] # NoEntry => chan'[k][m] = chan[k][m]
  BY <1>1 DEF TypeOK
<1>5. CASE ~up[n]
  <2>1. UNCHANGED <<pset, viaPneis, heardAgo>>
    BY <1>5 DEF ReceiveBeacon
  <2>2. PsetOK' /\ HeardOK' /\ TablesGood'
    BY <2>1 DEF TypeOK, PsetOK, HeardOK, TablesGood, Table
  <2>3. Timers'
    BY <1>1, <2>1 DEF Timers
  <2>4. Heard'
    BY <1>4, <2>1 DEF Heard
  <2> QED BY <1>3, <2>2, <2>3, <2>4, TypePartsNext
<1>6. CASE up[n]
  <2>1. HearBeacon(n, p, chan[p][n]) /\ heardAgo' = [heardAgo EXCEPT ![n][p] = 0]
    BY <1>6 DEF ReceiveBeacon
  <2>2. /\ PsetOK' /\ TablesGood' /\ \A m \in Nodes \ {n} : pset'[m] = pset[m]
        /\ pset'[n][p].age = 0
        /\ IsLinked(pset'[n], p) <=> n \in chan[p][n].listed
        /\ \A q \in Nodes \ {p} : pset'[n][q] = pset[n][q]
    BY <1>2, <2>1, HearBeaconTable
  <2>3. HeardOK'
    BY <2>1, Constants DEF TypeOK, HeardOK
  <2>4. Timers'
    <3>1. beaconIn[n] # NoTimer /\ beaconIn[n] \in NoTimer .. BeaconMax
      BY <1>6 DEF Timers, TypeOK
    <3>2. InTime(pset'[n][p].age, purgeIn[n], beaconIn[n])
      BY <2>2, <3>1, Constants DEF InTime
    <3>3. ASSUME NEW m \in Nodes, NEW q \in Nodes, pset'[m][q] # NoEntry
          PROVE  InTime(pset'[m][q].age, purgeIn'[m], beaconIn'[m])
      <4>1. CASE m = n /\ q = p
        BY <1>1, <3>2, <4>1
      <4>2. CASE ~(m = n /\ q = p)
        <5>1. pset'[m][q] = pset[m][q]
          BY <2>2, <4>2
        <5> QED BY <1>1, <3>3, <5>1 DEF Timers
      <4> QED BY <4>1, <4>2
    <3> QED BY <1>1, <3>3 DEF Timers
  <2>5. \A k, m \in Nodes : /\ heardAgo'[k][m] \in Nat /\ heardAgo'[k][m] <= heardAgo[k][m]
                            /\ heardAgo[k][m] \in Nat
                            /\ k = n /\ m = p => heardAgo'[k][m] = 0
    BY <2>1, Constants DEF TypeOK
  <2>6. \A k, m \in Nodes : pset'[k][m] # NoEntry => pset'[k][m].age \in 0 .. Validity
    BY <2>2 DEF PsetOK, Entry
  <2>7. Heard'
    <3>1. ASSUME NEW k \in Nodes, NEW m \in Nodes, pset'[k][m] # NoEntry
          PROVE  heardAgo'[k][m] <= pset'[k][m].age
      <4>1. CASE k = n /\ m = p
        BY <2>2, <2>5, <4>1
      <4>2. CASE ~(k = n /\ m = p)
        <5>1. pset'[k][m] = pset[k][m]
          BY <2>2, <4>2
        <5>2. heardAgo[k][m] <= pset[k][m].age
          BY <3>1, <5>1 DEF Heard
        <5> QED BY <2>5, <2>6, <3>1, <5>1, <5>2
      <4> QED BY <4>1, <4>2
    <3>2. ASSUME NEW k \in Nodes, NEW m \in Nodes, chan'[k][m] # NoEntry, m \in chan'[k][m].listed
          PROVE  heardAgo'[k][m] <= Validity
      <4>1. heardAgo[k][m] <= Validity
        BY <1>4, <3>2 DEF Heard
      <4> QED BY <2>5, <4>1, Constants
    <3>3. ASSUME NEW k \in Nodes, NEW m \in Nodes, IsLinked(pset'[k], m)
          PROVE  heardAgo'[m][k] <= Validity + pset'[k][m].age
      <4>1. pset'[k][m].age \in 0 .. Validity
        BY <2>6, <3>3 DEF IsLinked
      <4>2. CASE k = n /\ m = p
        <5>1. heardAgo[p][n] <= Validity
          BY <1>1, <2>2, <3>3, <4>2 DEF Heard
        <5> QED BY <2>2, <2>5, <4>2, <5>1, Constants
      <4>3. CASE ~(k = n /\ m = p)
        <5>1. pset'[k][m] = pset[k][m]
          BY <2>2, <4>3
        <5>2. heardAgo[m][k] <= Validity + pset[k][m].age
          BY <3>3, <5>1 DEF Heard, IsLinked
        <5> QED BY <2>5, <4>1, <5>1, <5>2, Constants
      <4> QED BY <4>2, <4>3
    <3> QED BY <3>1, <3>2, <3>3 DEF Heard
  <2> QED BY <1>3, <2>2, <2>3, <2>4, <2>7, TypePartsNext
<1> QED BY <1>5, <1>6

(* Nothing but the world changes, and beacons only get lost.               *)
LEMMA WorldStep ==
  ASSUME PsetInv, WorldOK', \A n, m \in Nodes : chan'[n][m] \in {chan[n][m], NoEntry},
         UNCHANGED <<up, beaconIn, purgeIn, pset, viaPneis, heardAgo>>
  PROVE  PsetInv'
<1>1. TypeOK'
  BY TypePartsNext DEF PsetInv, TypeOK, TimersOK, PsetOK, HeardOK
<1>2. TablesGood'
  BY DEF PsetInv, TablesGood, Table
<1>3. Timers'
  BY DEF PsetInv, Timers
<1>4. Heard'
  BY DEF PsetInv, Heard
<1> QED BY <1>1, <1>2, <1>3, <1>4 DEF PsetInv

LEMMA EnvironmentStep ==
  ASSUME PsetInv, NEW n \in Nodes, NEW p \in Nodes,
         \/ LoseBeacon(p, n)
         \/ CutLink({<<n, p>>})
         \/ CutLink({<<n, p>>, <<p, n>>})
         \/ RestoreLink(n, p)
         \/ Join(n)
  PROVE  PsetInv'
<1> USE Constants DEF PsetInv
<1>1. CASE LoseBeacon(p, n)
  BY <1>1, WorldStep DEF LoseBeacon, TypeOK, WorldOK
<1>2. ASSUME NEW dirs \in SUBSET (Nodes \X Nodes), CutLink(dirs)
      PROVE  PsetInv'
  BY <1>2, WorldStep DEF CutLink, TypeOK, WorldOK
<1>3. CASE RestoreLink(n, p)
  BY <1>3, WorldStep DEF RestoreLink, TypeOK, WorldOK
<1>4. CASE Join(n)
  BY <1>4, WorldStep DEF Join, TypeOK, WorldOK
<1> QED BY <1>1, <1>2, <1>3, <1>4

\* A pnei gets older, but not too old.
LEMMA TickEntry ==
  ASSUME PsetInv, Tick, NEW n \in Nodes, NEW p \in Nodes, pset[n][p] # NoEntry
  PROVE  /\ pset'[n][p] \in Entry /\ pset'[n][p] # NoEntry
         /\ pset'[n][p].age = pset[n][p].age + 1
         /\ pset'[n][p].state = pset[n][p].state
         /\ pset'[n][p].mpneis = pset[n][p].mpneis
         /\ pset'[n][p].hadInNet = pset[n][p].hadInNet
<1> USE DEF PsetInv
<1>1. pset[n][p] \in Entry
  BY DEF TypeOK
<1>2. beaconIn[n] \in NoTimer .. BeaconMax /\ purgeIn[n] \in NoTimer .. Validity
  BY DEF TypeOK
<1>3. InTime(pset[n][p].age, purgeIn[n], beaconIn[n])
  BY DEF Timers
<1>4. beaconIn[n] # 0 /\ purgeIn[n] # 0
  BY DEF Tick
<1>5. pset[n][p].age + 1 \in 0 .. Validity
  BY <1>1, <1>2, <1>3, <1>4, Constants DEF InTime, Entry
<1>6. pset'[n][p] = [pset[n][p] EXCEPT !.age = pset[n][p].age + 1]
  BY DEF Tick
<1> QED BY <1>1, <1>5, <1>6, NoEntryAssumption DEF Entry

LEMMA TickStep ==
  ASSUME PsetInv, Tick
  PROVE  PsetInv'
<1> USE DEF PsetInv
<1>1. /\ \A n, m \in Nodes : chan[n][m] = NoEntry
      /\ \A n \in Nodes : beaconIn[n] # 0 /\ purgeIn[n] # 0
      /\ beaconIn' = Later(beaconIn) /\ purgeIn' = Later(purgeIn)
      /\ UNCHANGED <<up, inNetwork, viaPneis, chan, cut, faults>>
      /\ calmFor' = IF calmFor = CalmTime THEN CalmTime ELSE calmFor + 1
  BY DEF Tick
<1>2. ASSUME NEW n \in Nodes, NEW p \in Nodes
      PROVE  pset'[n][p] = IF pset[n][p] = NoEntry THEN NoEntry
                           ELSE [pset[n][p] EXCEPT !.age = @ + 1]
  BY DEF Tick
<1>2a. ASSUME NEW n \in Nodes, NEW p \in Nodes
       PROVE  /\ heardAgo'[n][p] = IF heardAgo[n][p] = LongAgo THEN LongAgo ELSE heardAgo[n][p] + 1
              /\ heardAgo'[n][p] \in 0 .. LongAgo
  <2>1. heardAgo'[n][p] = IF heardAgo[n][p] = LongAgo THEN LongAgo ELSE heardAgo[n][p] + 1
    BY DEF Tick
  <2>2. heardAgo[n][p] \in 0 .. LongAgo
    BY DEF TypeOK
  <2> QED BY <2>1, <2>2, Constants
<1>3. ASSUME NEW n \in Nodes, NEW p \in Nodes, pset[n][p] # NoEntry
      PROVE  /\ pset'[n][p] \in Entry /\ pset'[n][p] # NoEntry
             /\ pset'[n][p].age = pset[n][p].age + 1
             /\ pset'[n][p].state = pset[n][p].state
             /\ pset'[n][p].mpneis = pset[n][p].mpneis
             /\ pset'[n][p].hadInNet = pset[n][p].hadInNet
  BY <1>3, TickEntry
<1>4. \A n, p \in Nodes : /\ pset[n][p] = NoEntry <=> pset'[n][p] = NoEntry
                          /\ IsLinked(pset'[n], p) <=> IsLinked(pset[n], p)
  BY <1>2, <1>3 DEF IsLinked
<1>5. PsetOK'
  <2>1. pset' = [n \in Nodes |-> [p \in Nodes |->
                  IF pset[n][p] = NoEntry THEN NoEntry ELSE [pset[n][p] EXCEPT !.age = @ + 1]]]
    BY DEF Tick
  <2>2. \A n, p \in Nodes : pset'[n][p] \in Entry \cup {NoEntry}
    BY <1>3, <1>4
  <2> QED BY <1>1, <2>1, <2>2 DEF TypeOK, PsetOK
<1>6. HeardOK' /\ TimersOK' /\ WorldOK'
  <2>1. heardAgo' = [n \in Nodes |-> [p \in Nodes |->
                      IF heardAgo[n][p] = LongAgo THEN LongAgo ELSE heardAgo[n][p] + 1]]
    BY DEF Tick
  <2>2. HeardOK'
    BY <1>2a, <2>1 DEF HeardOK
  <2>3. TimersOK'
    BY <1>1, Constants DEF TypeOK, TimersOK, Later
  <2>4. WorldOK'
    BY <1>1, Constants DEF TypeOK, WorldOK
  <2> QED BY <2>2, <2>3, <2>4
<1>7. TablesGood'
  <2>1. ASSUME NEW n \in Nodes
        PROVE  Good([pneis |-> pset'[n], via |-> viaPneis'[n]])
    <3>1. Good([pneis |-> pset[n], via |-> viaPneis[n]])
      BY DEF TablesGood, Table
    <3>2. pset'[n] \in [Nodes -> Entries] /\ viaPneis'[n] = viaPneis[n]
      BY <1>1, <1>5 DEF PsetOK, Entries
    <3>3. \A p \in Nodes : IsLinked(pset[n], p) => pset[n][p] # NoEntry
      BY DEF IsLinked
    <3> QED BY <1>3, <1>4, <3>1, <3>2, <3>3 DEF Good
  <2> QED BY <2>1 DEF TablesGood, Table
<1>8. Timers'
  <2>1. ASSUME NEW n \in Nodes
        PROVE  /\ up'[n] <=> beaconIn'[n] # NoTimer
               /\ \A p \in Nodes : pset'[n][p] # NoEntry => InTime(pset'[n][p].age, purgeIn'[n], beaconIn'[n])
    <3>1. /\ beaconIn[n] \in NoTimer .. BeaconMax /\ purgeIn[n] \in NoTimer .. Validity
          /\ beaconIn'[n] = IF beaconIn[n] = NoTimer THEN NoTimer ELSE beaconIn[n] - 1
          /\ purgeIn'[n] = IF purgeIn[n] = NoTimer THEN NoTimer ELSE purgeIn[n] - 1
          /\ up'[n] = up[n] /\ (up[n] <=> beaconIn[n] # NoTimer)
      BY <1>1 DEF TypeOK, Timers, Later
    <3>2. ASSUME NEW p \in Nodes, pset'[n][p] # NoEntry
          PROVE  InTime(pset'[n][p].age, purgeIn'[n], beaconIn'[n])
      <4>1. /\ InTime(pset[n][p].age, purgeIn[n], beaconIn[n]) /\ pset[n][p].age \in 0 .. Validity
            /\ pset'[n][p].age = pset[n][p].age + 1
        BY <1>3, <1>4, <3>2 DEF Timers, TypeOK, Entry
      <4> QED BY <1>1, <3>1, <4>1, Constants DEF InTime
    <3> QED BY <1>1, <3>1, <3>2, Constants
  <2> QED BY <2>1 DEF Timers
<1>9. Heard'
  <2>1. ASSUME NEW n \in Nodes, NEW p \in Nodes, pset'[n][p] # NoEntry
        PROVE  heardAgo'[n][p] <= pset'[n][p].age
    <3>1. heardAgo[n][p] <= pset[n][p].age /\ pset[n][p].age \in 0 .. Validity
          /\ heardAgo[n][p] \in 0 .. LongAgo /\ pset'[n][p].age = pset[n][p].age + 1
      BY <1>3, <1>4, <2>1 DEF Heard, TypeOK, Entry
    <3> QED BY <1>2a, <3>1, Constants
  <2>2. ASSUME NEW n \in Nodes, NEW p \in Nodes, IsLinked(pset'[n], p)
        PROVE  heardAgo'[p][n] <= Validity + pset'[n][p].age
    <3>1. pset[n][p] # NoEntry /\ heardAgo[p][n] <= Validity + pset[n][p].age
      BY <1>4, <2>2 DEF Heard, IsLinked
    <3>2. pset[n][p].age \in 0 .. Validity /\ heardAgo[p][n] \in 0 .. LongAgo
          /\ pset'[n][p].age = pset[n][p].age + 1
      BY <1>3, <3>1 DEF TypeOK, Entry
    <3> QED BY <1>2a, <3>1, <3>2, Constants
  <2> QED BY <1>1, <2>1, <2>2 DEF Heard
<1> QED BY <1>5, <1>6, <1>7, <1>8, <1>9, TypePartsNext

-----------------------------------------------------------------------------
(* The handshake.  Since the last fault, each node of a pair whose link    *)
(* works has still to send its first beacon, or it has been heard and will *)
(* be again before it is purged.  So what a node sends later than BeaconMax *)
(* lists its pneis, and makes it LINKED where it arrives.                  *)

Pair(n, p) == Works(n, p) /\ Works(p, n) /\ up[n] /\ up[p]

\* n has an entry for p, and keeps it until p sends
Fresh(n, p, left) == pset[n][p] # NoEntry /\ pset[n][p].age + left <= BeaconMax

HeardOf(n, p) ==
  \/ beaconIn[p] + calmFor <= BeaconMax
  \/ chan[p][n] # NoEntry /\ (calmFor > BeaconMax => Fresh(n, p, 0))
  \/ Fresh(n, p, beaconIn[p])

ListsMe(n, p) == chan[p][n] # NoEntry /\ calmFor > BeaconMax => n \in chan[p][n].listed

LinkedTo(n, p) ==
  \/ beaconIn[p] + calmFor <= 2 * BeaconMax
  \/ chan[p][n] # NoEntry /\ calmFor <= 2 * BeaconMax
  \/ IsLinked(pset[n], p)

CalmPairs == \A n, p \in Nodes : Pair(n, p) => HeardOf(n, p) /\ ListsMe(n, p) /\ LinkedTo(n, p)

-----------------------------------------------------------------------------
(* The theorems                                                            *)

LEMMA NextInv == PsetInv /\ [Next]_vars => PsetInv'
<1> SUFFICES ASSUME PsetInv, [Next]_vars PROVE PsetInv'
  OBVIOUS
<1>1. ASSUME NEW n \in Nodes,
             SendBeacon(n) \/ PurgeNeighbors(n) \/ StopOperation(n) \/ StartOperation(n)
      PROVE  PsetInv'
  BY <1>1, SendBeaconStep, PurgeStep, StopStep, StartStep
<1>2. ASSUME NEW n \in Nodes, NEW p \in Nodes, ReceiveBeacon(p, n) \/ FailedPacket(n, p)
      PROVE  PsetInv'
  BY <1>2, ReceiveBeaconStep, FailedPacketStep
<1>3. ASSUME NEW n \in Nodes, NEW p \in Nodes,
             \/ LoseBeacon(p, n)
             \/ CutLink({<<n, p>>})
             \/ CutLink({<<n, p>>, <<p, n>>})
             \/ RestoreLink(n, p)
             \/ Join(n)
      PROVE  PsetInv'
  BY <1>3, EnvironmentStep
<1>4. CASE UNCHANGED vars
  <2>1. TypeOK' /\ TablesGood' /\ Timers' /\ Heard'
    BY <1>4 DEF vars, PsetInv, TypeOK, TablesGood, Table, Timers, Heard
  <2> QED BY <2>1 DEF PsetInv
<1> QED BY <1>1, <1>2, <1>3, <1>4, TickStep DEF Next

LEMMA InvImplies ==
  ASSUME PsetInv
  PROVE  /\ TypeOK /\ MpneiMapExact /\ RoutablePneisLinked /\ LinkedTwoWay
<1>1. \A n \in Nodes : Good([pneis |-> pset[n], via |-> viaPneis[n]])
  BY DEF PsetInv, TablesGood, Table
<1>2. MpneiMapExact
  BY <1>1 DEF Good, MpneiMapExact
<1>3. RoutablePneisLinked
  BY <1>1 DEF Good, RoutablePneisLinked
<1>4. LinkedTwoWay
  <2>1. ASSUME NEW n \in Nodes, NEW p \in Nodes, IsLinked(pset[n], p)
        PROVE  heardAgo[p][n] <= 2 * Validity
    <3>1. heardAgo[p][n] <= Validity + pset[n][p].age
      BY <2>1 DEF PsetInv, Heard
    <3>2. pset[n][p].age \in 0 .. Validity /\ heardAgo[p][n] \in 0 .. LongAgo
      BY <2>1 DEF PsetInv, TypeOK, IsLinked, Entry
    <3> QED BY <3>1, <3>2, Constants
  <2> QED BY <2>1 DEF LinkedTwoWay
<1> QED BY <1>2, <1>3, <1>4 DEF PsetInv

\* What CalmPairs says of one pair.
PairCalm(n, p) == HeardOf(n, p) /\ ListsMe(n, p) /\ LinkedTo(n, p)

(* After a fault, or a restart, all starts anew.                           *)
LEMMA CalmAnew ==
  ASSUME PsetInv', calmFor' = 0
  PROVE  CalmPairs'
<1> SUFFICES ASSUME NEW n \in Nodes, NEW p \in Nodes
             PROVE  PairCalm(n, p)'
  BY DEF CalmPairs, PairCalm
<1>1. beaconIn'[p] \in NoTimer .. BeaconMax
  BY DEF PsetInv, TypeOK
<1> QED BY <1>1, Constants DEF PairCalm, HeardOf, ListsMe, LinkedTo

(* A step that neither p nor n has part in.                                *)
LEMMA PairKept ==
  ASSUME NEW n \in Nodes, NEW p \in Nodes, PairCalm(n, p), calmFor' = calmFor,
         beaconIn'[p] = beaconIn[p], chan'[p][n] = chan[p][n], pset'[n][p] = pset[n][p]
  PROVE  PairCalm(n, p)'
BY DEF PairCalm, HeardOf, ListsMe, LinkedTo, Fresh, IsLinked

LEMMA CalmInit == Init => CalmPairs
<1> SUFFICES ASSUME Init, NEW n \in Nodes, NEW p \in Nodes
             PROVE  PairCalm(n, p)
  BY DEF CalmPairs, PairCalm
<1>1. calmFor = 0 /\ beaconIn[p] \in 0 .. BeaconInterval
  BY DEF Init
<1> QED BY <1>1, Constants DEF PairCalm, HeardOf, ListsMe, LinkedTo

\* The types of what a pair is about.
LEMMA PairTypes ==
  ASSUME PsetInv, NEW n \in Nodes, NEW p \in Nodes
  PROVE  /\ beaconIn[p] \in NoTimer .. BeaconMax /\ (up[p] <=> beaconIn[p] # NoTimer)
         /\ calmFor \in 0 .. CalmTime
         /\ pset[n][p] # NoEntry => pset[n][p].age \in 0 .. Validity
         /\ IsLinked(pset[n], p) => pset[n][p] # NoEntry
BY DEF PsetInv, TypeOK, Timers, Entry, IsLinked

LEMMA CalmSend ==
  ASSUME PsetInv, CalmPairs, NEW k \in Nodes, SendBeacon(k)
  PROVE  CalmPairs'
<1>1. /\ chan' = [chan EXCEPT ![k] = [m \in Nodes |-> IF Works(k, m) THEN CreateBeacon(k) ELSE NoEntry]]
      /\ beaconIn[k] = 0 /\ \A m \in Nodes : chan[k][m] = NoEntry
      /\ UNCHANGED <<pset, up, cut, calmFor>>
  BY DEF SendBeacon, envVars
<1>2. PICK d \in BeaconInterval - MaxJitter .. BeaconMax : beaconIn' = [beaconIn EXCEPT ![k] = d]
  BY DEF SendBeacon
<1> SUFFICES ASSUME NEW n \in Nodes, NEW p \in Nodes, Pair(n, p)'
             PROVE  PairCalm(n, p)'
  BY DEF CalmPairs, PairCalm
<1>3. Pair(n, p) /\ Pair(p, n)
  BY <1>1 DEF Pair, Works
<1>4. PairCalm(n, p) /\ PairCalm(p, n)
  BY <1>3 DEF CalmPairs, PairCalm
<1>5. CASE p # k
  BY <1>1, <1>2, <1>4, <1>5, PairKept DEF PsetInv, TypeOK
<1>6. CASE p = k
  <2>1. chan'[p][n] = CreateBeacon(p) /\ chan'[p][n] # NoEntry
    BY <1>1, <1>3, <1>6, BeaconTyped, NoEntryAssumption DEF PsetInv, TypeOK, Pair
  <2>2. calmFor > BeaconMax => pset[n][p] # NoEntry /\ pset[n][p].age + 0 <= BeaconMax
    BY <1>1, <1>4, <1>6, PairTypes, Constants DEF PairCalm, HeardOf, Fresh
  <2>3. calmFor > BeaconMax => pset[p][n] # NoEntry
    <3>1. /\ beaconIn[n] \in NoTimer .. BeaconMax /\ beaconIn[n] # NoTimer /\ calmFor \in 0 .. CalmTime
      BY <1>3, PairTypes DEF Pair
    <3>2. ~(calmFor > BeaconMax /\ beaconIn[n] + calmFor <= BeaconMax)
      BY <3>1, Constants
    <3> QED BY <1>4, <3>2 DEF PairCalm, HeardOf, Fresh
  <2>4. calmFor > BeaconMax => n \in chan'[p][n].listed
    BY <2>1, <2>3 DEF CreateBeacon, Known
  <2>5. IsLinked(pset[n], p) \/ calmFor <= 2 * BeaconMax
    BY <1>1, <1>4, <1>6, PairTypes, Constants DEF PairCalm, LinkedTo
  <2> QED BY <1>1, <2>1, <2>2, <2>4, <2>5 DEF PairCalm, HeardOf, Fresh, ListsMe, LinkedTo, IsLinked
<1> QED BY <1>5, <1>6

LEMMA CalmReceive ==
  ASSUME PsetInv, CalmPairs, NEW k \in Nodes, NEW q \in Nodes, ReceiveBeacon(q, k)
  PROVE  CalmPairs'
<1>1. /\ chan[q][k] # NoEntry /\ chan' = [chan EXCEPT ![q][k] = NoEntry]
      /\ UNCHANGED <<beaconIn, up, cut, calmFor>>
  BY DEF ReceiveBeacon, envVars
<1> SUFFICES ASSUME NEW n \in Nodes, NEW p \in Nodes, Pair(n, p)'
             PROVE  PairCalm(n, p)'
  BY DEF CalmPairs, PairCalm
<1>2. Pair(n, p)
  BY <1>1 DEF Pair, Works
<1>3. PairCalm(n, p)
  BY <1>2 DEF CalmPairs, PairCalm
<1>4. up[k] => /\ pset'[k][q] # NoEntry /\ pset'[k][q].age = 0
               /\ IsLinked(pset'[k], q) <=> k \in chan[q][k].listed
               /\ \A m \in Nodes \ {q} : pset'[k][m] = pset[k][m]
               /\ \A m \in Nodes \ {k} : pset'[m] = pset[m]
  <2>1. chan[q][k] \in Beacon
    BY <1>1 DEF PsetInv, TypeOK
  <2> QED BY <2>1, HearBeaconTable DEF ReceiveBeacon
<1>5. CASE ~(n = k /\ p = q)
  <2>1. pset'[n][p] = pset[n][p]
    <3>1. CASE up[k]
      BY <1>4, <1>5, <3>1
    <3>2. CASE ~up[k]
      BY <3>2 DEF ReceiveBeacon
    <3> QED BY <3>1, <3>2
  <2>2. chan'[p][n] = chan[p][n]
    BY <1>1, <1>5 DEF PsetInv, TypeOK
  <2> QED BY <1>1, <1>3, <2>1, <2>2, PairKept
<1>6. CASE n = k /\ p = q
  <2>1. up[k] /\ chan'[p][n] = NoEntry
    BY <1>1, <1>2, <1>6 DEF Pair, PsetInv, TypeOK
  <2>2. pset'[n][p] # NoEntry /\ pset'[n][p].age = 0
    BY <1>4, <1>6, <2>1
  <2>3. Fresh(n, p, beaconIn[p])'
    BY <1>1, <2>2, PairTypes, Constants DEF Fresh
  <2>4. IsLinked(pset'[n], p) \/ beaconIn[p] + calmFor <= 2 * BeaconMax
    <3>1. CASE calmFor > BeaconMax
      BY <1>1, <1>3, <1>4, <1>6, <2>1, <3>1 DEF PairCalm, ListsMe
    <3>2. CASE ~(calmFor > BeaconMax)
      BY <3>2, PairTypes, Constants
    <3> QED BY <3>1, <3>2
  <2> QED BY <1>1, <2>1, <2>3, <2>4 DEF PairCalm, HeardOf, ListsMe, LinkedTo
<1> QED BY <1>5, <1>6

(* A pnei heard of since is not purged.                                    *)
LEMMA CalmPurge ==
  ASSUME PsetInv, CalmPairs, NEW k \in Nodes, PurgeNeighbors(k)
  PROVE  CalmPairs'
<1> DEFINE expired == {p \in Known(pset[k]) : pset[k][p].age >= Validity}
           lost    == {p \in expired : IsLinked(pset[k], p)}
           t       == Erase(LosePneis(Table(k), lost), expired)
<1>1. SetTable(k, t) /\ UNCHANGED <<beaconIn, chan, up, cut, calmFor>>
  BY DEF PurgeNeighbors, envVars
<1>2. \A p \in Nodes : p \notin expired => t.pneis[p] = pset[k][p]
  BY DEF Erase, LosePneis, Table
<1>3. \A m, p \in Nodes : m # k \/ p \notin expired => pset'[m][p] = pset[m][p]
  BY <1>1, <1>2 DEF SetTable, PsetInv, TypeOK
<1> SUFFICES ASSUME NEW n \in Nodes, NEW p \in Nodes, Pair(n, p)'
             PROVE  PairCalm(n, p)'
  BY DEF CalmPairs, PairCalm
<1>4. PairCalm(n, p) /\ Pair(n, p)
  BY <1>1 DEF CalmPairs, PairCalm, Pair, Works
<1>5. CASE n # k \/ p \notin expired
  BY <1>1, <1>3, <1>4, <1>5, PairKept
<1>6. CASE n = k /\ p \in expired
  <2>1. pset[n][p].age \in 0 .. Validity /\ pset[n][p].age >= Validity
    BY <1>6, PairTypes DEF Known
  <2>2. ~Fresh(n, p, 0) /\ ~Fresh(n, p, beaconIn[p])
    <3>1. beaconIn[p] \in Nat
      BY <1>4, PairTypes, Constants DEF Pair
    <3> QED BY <2>1, <3>1, Constants DEF Fresh
  <2>3. \/ beaconIn[p] + calmFor <= BeaconMax
        \/ chan[p][n] # NoEntry /\ calmFor <= BeaconMax
    BY <1>4, <2>2, PairTypes, Constants DEF PairCalm, HeardOf
  <2>4. \/ beaconIn[p] + calmFor <= 2 * BeaconMax
        \/ chan[p][n] # NoEntry /\ calmFor <= 2 * BeaconMax
    BY <2>3, PairTypes, Constants
  <2>5. HeardOf(n, p)'
    BY <1>1, <2>3, PairTypes, Constants DEF HeardOf
  <2>6. ListsMe(n, p)' /\ LinkedTo(n, p)'
    BY <1>1, <1>4, <2>4 DEF PairCalm, ListsMe, LinkedTo
  <2> QED BY <2>5, <2>6 DEF PairCalm
<1> QED BY <1>5, <1>6

LEMMA CalmFailed ==
  ASSUME PsetInv, CalmPairs, NEW k \in Nodes, NEW q \in Nodes, FailedPacket(k, q)
  PROVE  CalmPairs'
<1> DEFINE t == Erase(LosePneis(Table(k), {q}), {q})
<1>1. SetTable(k, t) /\ <<k, q>> \in cut /\ UNCHANGED <<beaconIn, chan, up, cut, calmFor>>
  BY DEF FailedPacket, envVars
<1>2. \A p \in Nodes \ {q} : t.pneis[p] = pset[k][p]
  BY DEF Erase, LosePneis, Table
<1>3. \A m, p \in Nodes : m # k \/ p # q => pset'[m][p] = pset[m][p]
  BY <1>1, <1>2 DEF SetTable, PsetInv, TypeOK
<1> SUFFICES ASSUME NEW n \in Nodes, NEW p \in Nodes, Pair(n, p)'
             PROVE  PairCalm(n, p)'
  BY DEF CalmPairs, PairCalm
<1>4. PairCalm(n, p) /\ ~(n = k /\ p = q)
  BY <1>1 DEF CalmPairs, PairCalm, Pair, Works
<1> QED BY <1>1, <1>3, <1>4, PairKept

LEMMA CalmTick ==
  ASSUME PsetInv, CalmPairs, Tick
  PROVE  CalmPairs'
<1>1. /\ \A n, m \in Nodes : chan[n][m] = NoEntry
      /\ \A n \in Nodes : beaconIn[n] # 0
      /\ beaconIn' = Later(beaconIn) /\ UNCHANGED <<up, chan, cut>>
      /\ calmFor' = IF calmFor = CalmTime THEN CalmTime ELSE calmFor + 1
      /\ \A n, p \in Nodes : pset'[n][p] = IF pset[n][p] = NoEntry THEN NoEntry
                                           ELSE [pset[n][p] EXCEPT !.age = @ + 1]
  BY DEF Tick
<1>2. PsetInv'
  BY TickStep
<1> SUFFICES ASSUME NEW n \in Nodes, NEW p \in Nodes, Pair(n, p)'
             PROVE  PairCalm(n, p)'
  BY DEF CalmPairs, PairCalm
<1>3. PairCalm(n, p) /\ Pair(n, p)
  BY <1>1 DEF CalmPairs, PairCalm, Pair, Works
<1>4. /\ beaconIn[p] \in 1 .. BeaconMax /\ beaconIn'[p] = beaconIn[p] - 1
      /\ calmFor \in 0 .. CalmTime
  <2>1. beaconIn[p] \in NoTimer .. BeaconMax /\ beaconIn[p] # NoTimer /\ calmFor \in 0 .. CalmTime
    BY <1>3, PairTypes DEF Pair
  <2>2. beaconIn'[p] = beaconIn[p] - 1 /\ beaconIn[p] # 0
    BY <1>1, <2>1 DEF Later
  <2> QED BY <2>1, <2>2, Constants
<1>5. pset[n][p] # NoEntry =>
        /\ pset'[n][p] # NoEntry /\ pset'[n][p].age = pset[n][p].age + 1
        /\ pset'[n][p].state = pset[n][p].state /\ pset[n][p].age \in 0 .. Validity
  BY TickEntry, PairTypes
<1>6. HeardOf(n, p)'
  <2>1. CASE beaconIn[p] + calmFor <= BeaconMax
    BY <1>1, <1>4, <2>1, Constants DEF HeardOf, CalmTime
  <2>2. CASE Fresh(n, p, beaconIn[p])
    BY <1>4, <1>5, <2>2, Constants DEF HeardOf, Fresh
  <2> QED BY <1>1, <1>3, <2>1, <2>2 DEF PairCalm, HeardOf
<1>7. ListsMe(n, p)'
  BY <1>1 DEF ListsMe
<1>8. LinkedTo(n, p)'
  <2>1. CASE beaconIn[p] + calmFor <= 2 * BeaconMax
    BY <1>1, <1>4, <2>1, Constants DEF LinkedTo, CalmTime
  <2>2. CASE IsLinked(pset[n], p)
    BY <1>5, <2>2 DEF LinkedTo, IsLinked
  <2> QED BY <1>1, <1>3, <2>1, <2>2 DEF PairCalm, LinkedTo
<1> QED BY <1>6, <1>7, <1>8 DEF PairCalm

LEMMA CalmNext == PsetInv /\ CalmPairs /\ [Next]_vars => CalmPairs'
<1> SUFFICES ASSUME PsetInv, CalmPairs, [Next]_vars PROVE CalmPairs'
  OBVIOUS
<1>1. PsetInv'
  BY NextInv
<1>2. ASSUME NEW n \in Nodes, StopOperation(n) \/ StartOperation(n)
      PROVE  CalmPairs'
  BY <1>1, <1>2, CalmAnew DEF StopOperation, StartOperation
<1>3. ASSUME NEW n \in Nodes, NEW p \in Nodes,
             \/ LoseBeacon(p, n)
             \/ CutLink({<<n, p>>})
             \/ CutLink({<<n, p>>, <<p, n>>})
             \/ RestoreLink(n, p)
      PROVE  CalmPairs'
  BY <1>1, <1>3, CalmAnew DEF LoseBeacon, CutLink, RestoreLink
<1>4. ASSUME UNCHANGED <<up, cut, calmFor, beaconIn, chan, pset>>
      PROVE  CalmPairs'
  BY <1>4 DEF CalmPairs, Pair, Works, HeardOf, ListsMe, LinkedTo, Fresh, IsLinked
<1>5. ASSUME NEW n \in Nodes, Join(n)
      PROVE  CalmPairs'
  BY <1>4, <1>5 DEF Join
<1>6. CASE UNCHANGED vars
  BY <1>4, <1>6 DEF vars
<1> QED BY <1>2, <1>3, <1>5, <1>6, CalmSend, CalmReceive, CalmPurge, CalmFailed, CalmTick DEF Next

LEMMA CalmImplies ==
  ASSUME PsetInv, CalmPairs
  PROVE  HandshakeDone
<1> SUFFICES ASSUME calmFor = CalmTime, NEW n \in Nodes, NEW p \in Nodes, Pair(n, p)
             PROVE  IsLinked(pset[n], p)
  BY DEF HandshakeDone, Pair
<1>1. LinkedTo(n, p)
  BY DEF CalmPairs
<1>2. beaconIn[p] \in Nat
  BY PairTypes, Constants DEF Pair
<1> QED BY <1>1, <1>2, Constants DEF LinkedTo, CalmTime

LEMMA Invariant == Spec => []PsetInv
<1> QED BY InitInv, NextInv, PTL DEF Spec

LEMMA CalmInvariant == Spec => [](PsetInv /\ CalmPairs)
<1>1. Init => PsetInv /\ CalmPairs
  BY InitInv, CalmInit
<1>2. PsetInv /\ CalmPairs /\ [Next]_vars => (PsetInv /\ CalmPairs)'
  BY NextInv, CalmNext
<1> QED BY <1>1, <1>2, PTL DEF Spec

\* The pset model has its types in every network: whatever sets the purge
\* timer last, no pnei outlives neighborValidityInterval.
THEOREM TypeCorrect == Spec => []TypeOK
BY Invariant, InvImplies, PTL

\* mpneiToPneiMap leads to exactly the LINKED pneis that list the two-hop pnei.
THEOREM MpneiMapCorrect == Spec => []MpneiMapExact
BY Invariant, InvImplies, PTL

\* Only LINKED pneis are next hops.
THEOREM RoutableCorrect == Spec => []RoutablePneisLinked
BY Invariant, InvImplies, PTL

\* A LINKED pnei was reached not longer than two validity times ago, for any
\* number of lost beacons, failed links and restarts.
THEOREM LinkedCorrect == Spec => []LinkedTwoWay
BY Invariant, InvImplies, PTL

\* Whatever was lost, cut or restarted before, two beacon intervals later both
\* ends of every link that works are LINKED: purging never undoes the handshake.
THEOREM HandshakeCorrect == Spec => []HandshakeDone
BY CalmInvariant, CalmImplies, PTL
=============================================================================
