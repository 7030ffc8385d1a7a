----------------------- MODULE VlrRepresentativeProofs -----------------------
(***************************************************************************)
(* Proofs about VlrRepresentative, for any network, any intervals and any  *)
(* number of lost beacons and crashes: types, the rep-path without         *)
(* circles, the observe timer that is free when it is scheduled, new       *)
(* numbers that meet a beacon before they are old, a silent root that is   *)
(* forgotten, and one that is there and never is.                          *)
(***************************************************************************)
EXTENDS VlrRepresentative, TLAPS, FiniteSetTheorems

LEMMA Constants ==
  /\ BeaconInterval \in Nat /\ MaxJitter \in Nat /\ Validity \in Nat
  /\ MaxSeq \in Nat /\ MaxFaults \in Nat
  /\ BeaconMax \in Nat /\ BeaconMax < Validity /\ BeaconInterval <= BeaconMax
  /\ 0 < BeaconInterval - MaxJitter /\ BeaconInterval - MaxJitter <= BeaconMax
  /\ NoTimer = -1 /\ Nothing = 0 /\ Root \in Nodes /\ NullVid \notin Nodes
  /\ Relays \subseteq Nodes /\ Root \notin Relays
  /\ LongTime \in Nat /\ 0 < LongTime
<1>1. /\ BeaconInterval \in Nat /\ MaxJitter \in Nat /\ Validity \in Nat
      /\ MaxSeq \in Nat /\ MaxFaults \in Nat
  BY RepAssumption
<1>2. Cardinality(Relays) \in Nat
  <2>1. IsFiniteSet(Relays)
    BY RepAssumption, FS_Subset DEF Relays
  <2> QED BY <2>1, FS_CardinalityType
<1>3. Cardinality(Relays) * Validity \in Nat
  BY <1>1, <1>2
<1> QED BY <1>1, <1>3, RepAssumption DEF BeaconMax, NoTimer, Nothing, Relays, LongTime

-----------------------------------------------------------------------------
(* The invariant                                                           *)

\* A new number that has not been sent yet meets a beacon in time.
NewsSoon ==
  \A n \in Relays : up[n] /\ rep[n].heard # NullVid /\ rep[n].seq > rep[n].lastSeq
                      => beaconIn[n] + HeardAge(n) <= BeaconMax

\* A node that is down has no representative, and a relay has crashed.
DownCrashed == \A n \in Nodes : ~up[n] => expireIn[n] = NoTimer /\ (n \in Relays => n \in crashed)

\* Numbers grow towards the root: along every rep-path, and from a beacon to
\* the relay that sent it.
NumbersGrow ==
  crashed = {} =>
    /\ \A n \in Relays, m \in Nodes : chan[n][m] <= rep[n].seq
    /\ \A n \in Relays : rep[n].heard \in Relays => rep[rep[n].heard].seq >= rep[n].seq

RepInv == /\ TypeOK /\ ObserveTimerFree /\ NewsSoon
          /\ DownCrashed /\ NumbersGrow /\ RepPathAcyclic

LEMMA StartRepTyped ==
  ASSUME NEW n \in Nodes
  PROVE  /\ StartRep(n) \in RepType /\ StartRep(n).seq = 0
         /\ n # Root => StartRep(n).heard = NullVid
<1> DEFINE h == IF n = Root THEN Root ELSE NullVid
<1>1. h \in Nodes \cup {NullVid} /\ 0 \in 0 .. MaxSeq
  BY Constants
<1> HIDE DEF h
<1>2. [seq |-> 0, heard |-> h, lastSeq |-> 0, unchanged |-> FALSE] \in RepType
  BY <1>1 DEF RepType
<1> QED BY <1>2 DEF StartRep, h

LEMMA InitInv == Init => RepInv
<1> SUFFICES ASSUME Init PROVE RepInv
  OBVIOUS
<1> USE Constants
<1>1. rep \in [Nodes -> RepType] /\ \A n \in Nodes : rep[n] = StartRep(n)
  BY StartRepTyped DEF Init
<1>2. /\ \A n \in Relays : rep[n].heard = NullVid
      /\ \A n \in Nodes : rep[n].seq = 0
  BY <1>1, StartRepTyped
<1>3. TypeOK
  <2>1. beaconIn \in [Nodes -> NoTimer .. BeaconMax] /\ \A n \in Nodes : beaconIn[n] # NoTimer
    BY DEF Init
  <2>2. expireIn \in [Nodes -> NoTimer .. Validity] /\ observeIn \in [Nodes -> NoTimer .. Validity]
    BY DEF Init
  <2>3. chan \in [Nodes -> [Nodes -> 0 .. MaxSeq]]
    BY DEF Init
  <2>4. /\ up \in [Nodes -> BOOLEAN] /\ calm \in BOOLEAN /\ crashed \subseteq Relays
        /\ faults \in 0 .. MaxFaults /\ silent \in 0 .. LongTime
    BY DEF Init
  <2>5. \A n \in Relays : expireIn[n] = NoTimer /\ rep[n].heard = NullVid
    BY <1>2 DEF Init
  <2>6. \A n \in Nodes : up[n] /\ beaconIn[n] # NoTimer
    BY <2>1 DEF Init
  <2>7. /\ \A n \in Relays : (expireIn[n] # NoTimer) = (rep[n].heard # NullVid)
        /\ \A n \in Nodes : up[n] = (beaconIn[n] # NoTimer)
    BY <2>4, <2>5, <2>6
  <2> QED BY <1>1, <2>1, <2>2, <2>3, <2>4, <2>7 DEF TypeOK
<1>4. ObserveTimerFree
  BY DEF Init, ObserveTimerFree
<1>5. NewsSoon /\ DownCrashed
  BY <1>2 DEF NewsSoon, DownCrashed, Init
<1>6. NumbersGrow
  BY <1>2 DEF NumbersGrow, Init
<1>7. RepPathAcyclic
  BY <1>2 DEF RepPathAcyclic
<1> QED BY <1>3, <1>4, <1>5, <1>6, <1>7 DEF RepInv

-----------------------------------------------------------------------------
(* The rep-path                                                            *)

\* No set of relays is closed under rep parents.
NoCircle(heard) == \A S \in (SUBSET Relays) \ {{}} : \E k \in S : heard[k] \notin S

(* A relay that takes a larger number than its own from a node whose own   *)
(* number is as large does not close a circle.                             *)
LEMMA AcceptKeepsAcyclic ==
  ASSUME NEW heard, NEW heard1, NEW seq, NEW m \in Relays, NEW s \in Nat,
         \A k \in Relays : seq[k] \in Nat,
         NoCircle(heard),
         \A k \in Relays : heard[k] \in Relays => seq[heard[k]] >= seq[k],
         s > seq[m],
         \A k \in Relays \ {m} : heard1[k] = heard[k],
         heard1[m] \in Relays => seq[heard1[m]] >= s
  PROVE  NoCircle(heard1)
<1> SUFFICES ASSUME NEW S \in SUBSET Relays, S # {}, \A k \in S : heard1[k] \in S
             PROVE  FALSE
  BY DEF NoCircle
<1>1. CASE m \notin S
  <2>1. \A k \in S : heard[k] \in S
    BY <1>1
  <2> QED BY <2>1 DEF NoCircle
<1>2. CASE m \in S
  <2> DEFINE T == {k \in S : seq[k] >= s}
  <2>1. heard1[m] \in T
    BY <1>2
  <2>2. m \notin T
    OBVIOUS
  <2>3. ASSUME NEW k \in T
        PROVE  heard[k] \in T
    <3>1. heard[k] \in S /\ heard[k] \in Relays
      BY <2>2, <2>3
    <3>2. seq[heard[k]] >= seq[k] /\ seq[k] >= s
      BY <2>3, <3>1
    <3> QED BY <3>1, <3>2
  <2>4. T \in (SUBSET Relays) \ {{}}
    BY <2>1
  <2> HIDE DEF T
  <2> QED BY <2>3, <2>4 DEF NoCircle
<1> QED BY <1>1, <1>2

(* Fewer rep parents make no circle either.                                *)
LEMMA FewerParentsAcyclic ==
  ASSUME NEW heard, NEW heard1, NoCircle(heard),
         \A k \in Relays : heard1[k] \in {heard[k], NullVid}
  PROVE  NoCircle(heard1)
<1> SUFFICES ASSUME NEW S \in SUBSET Relays, S # {}, \A k \in S : heard1[k] \in S
             PROVE  FALSE
  BY DEF NoCircle
<1>1. \A k \in S : heard[k] \in S
  BY Constants
<1> QED BY <1>1 DEF NoCircle

\* RepPathAcyclic in terms of NoCircle.
Parents == [n \in Nodes |-> rep[n].heard]

LEMMA AcyclicAsNoCircle == RepPathAcyclic <=> (crashed = {} => NoCircle(Parents))
BY Constants DEF RepPathAcyclic, NoCircle, Parents

LEMMA AcyclicAsNoCircleNext == RepPathAcyclic' <=> (crashed' = {} => NoCircle(Parents'))
BY Constants DEF RepPathAcyclic, NoCircle, Parents

-----------------------------------------------------------------------------
(* Every step keeps the invariant                                          *)

(* What createBeacon does to the representative.                           *)
LEMMA BeaconRepTyped ==
  ASSUME TypeOK, NEW n \in Nodes, n = Root => rep[n].seq < MaxSeq
  PROVE  /\ BeaconRep(n) \in RepType
         /\ BeaconRep(n).heard = rep[n].heard
         /\ n # Root => BeaconRep(n).seq = rep[n].seq
         /\ rep[n].heard # NullVid => BeaconRep(n).lastSeq = BeaconRep(n).seq
<1> DEFINE seq == IF n = Root THEN rep[n].seq + 1 ELSE rep[n].seq
<1>1. rep[n] \in RepType
  BY DEF TypeOK
<1>2. seq \in 0 .. MaxSeq
  BY <1>1, Constants DEF RepType
<1>3. CASE rep[n].heard = NullVid
  <2>1. BeaconRep(n) = [rep[n] EXCEPT !.unchanged = FALSE]
    BY <1>3 DEF BeaconRep
  <2> QED BY <1>1, <1>3, <2>1 DEF RepType
<1>4. CASE rep[n].heard # NullVid
  <2> DEFINE same == (seq = rep[n].lastSeq)
  <2>1. BeaconRep(n) = [rep[n] EXCEPT !.seq = seq, !.lastSeq = seq, !.unchanged = same]
    BY <1>4 DEF BeaconRep
  <2>2. same \in BOOLEAN
    OBVIOUS
  <2>3. n # Root => seq = rep[n].seq
    OBVIOUS
  <2> HIDE DEF same, seq
  <2> QED BY <1>1, <1>2, <2>1, <2>2, <2>3 DEF RepType
<1> QED BY <1>3, <1>4

LEMMA SendBeaconStep ==
  ASSUME RepInv, NEW n \in Nodes, SendBeacon(n)
  PROVE  RepInv'
<1> USE DEF RepInv
<1> DEFINE info == IF rep[n].heard = NullVid \/ LeftOut(n) THEN Nothing ELSE rep'[n].seq
<1>1. /\ up[n] /\ beaconIn[n] = 0 /\ (n = Root => rep[n].seq < MaxSeq)
      /\ rep' = [rep EXCEPT ![n] = BeaconRep(n)]
      /\ chan' = [chan EXCEPT ![n] = [m \in Nodes |-> IF {n, m} \in Links /\ m # n
                                                      THEN info ELSE Nothing]]
      /\ silent' = IF n = Root THEN 0 ELSE silent
      /\ UNCHANGED <<up, expireIn, observeIn, faults, crashed, calm>>
  BY DEF SendBeacon
<1>2. PICK d \in BeaconInterval - MaxJitter .. BeaconMax : beaconIn' = [beaconIn EXCEPT ![n] = d]
  BY DEF SendBeacon
<1>3. d \in NoTimer .. BeaconMax /\ d # NoTimer
  BY <1>2, Constants
<1>4. /\ rep'[n] \in RepType /\ rep'[n].heard = rep[n].heard
      /\ n # Root => rep'[n].seq = rep[n].seq
      /\ rep[n].heard # NullVid => rep'[n].lastSeq = rep'[n].seq
      /\ \A m \in Nodes \ {n} : rep'[m] = rep[m]
      /\ rep' \in [Nodes -> RepType]
  <2>1. rep'[n] = BeaconRep(n) /\ \A m \in Nodes \ {n} : rep'[m] = rep[m]
    BY <1>1 DEF TypeOK
  <2>2. /\ BeaconRep(n) \in RepType
        /\ BeaconRep(n).heard = rep[n].heard
        /\ n # Root => BeaconRep(n).seq = rep[n].seq
        /\ rep[n].heard # NullVid => BeaconRep(n).lastSeq = BeaconRep(n).seq
    BY <1>1, BeaconRepTyped
  <2>3. rep' \in [Nodes -> RepType]
    BY <1>1, <2>2 DEF TypeOK
  <2> QED BY <2>1, <2>2, <2>3
<1>5. info \in 0 .. MaxSeq /\ info <= rep'[n].seq
  BY <1>4, Constants DEF RepType
<1> HIDE DEF info
<1>6. TypeOK'
  <2>1. chan' \in [Nodes -> [Nodes -> 0 .. MaxSeq]]
    BY <1>1, <1>5, Constants DEF TypeOK
  <2>2. beaconIn' \in [Nodes -> NoTimer .. BeaconMax]
    BY <1>2, <1>3 DEF TypeOK
  <2>3. /\ \A m \in Relays : (expireIn'[m] # NoTimer) = (rep'[m].heard # NullVid)
        /\ \A m \in Nodes : up'[m] = (beaconIn'[m] # NoTimer)
    BY <1>1, <1>2, <1>3, <1>4, Constants DEF TypeOK
  <2>4. silent' \in 0 .. LongTime
    BY <1>1, Constants DEF TypeOK
  <2> QED BY <1>1, <1>4, <2>1, <2>2, <2>3, <2>4 DEF TypeOK
<1>7. ObserveTimerFree' /\ DownCrashed'
  BY <1>1 DEF ObserveTimerFree, DownCrashed
<1>8. NewsSoon'
  <2>1. ASSUME NEW m \in Relays, up'[m], rep'[m].heard # NullVid, rep'[m].seq > rep'[m].lastSeq
        PROVE  beaconIn'[m] + HeardAge(m)' <= BeaconMax
    <3>1. m # n
      BY <1>4, <2>1, Constants DEF RepType
    <3>2. /\ up[m] /\ rep[m].heard # NullVid /\ rep[m].seq > rep[m].lastSeq
          /\ beaconIn'[m] = beaconIn[m] /\ expireIn'[m] = expireIn[m]
      BY <1>1, <1>2, <1>4, <2>1, <3>1, Constants DEF TypeOK
    <3> QED BY <3>2 DEF NewsSoon, HeardAge
  <2> QED BY <2>1 DEF NewsSoon
<1>9. NumbersGrow'
  <2>1. ASSUME crashed = {}, NEW k \in Relays, NEW m \in Nodes
        PROVE  chan'[k][m] <= rep'[k].seq
    <3>1. CASE k = n
      BY <1>1, <1>4, <1>5, <3>1, Constants DEF TypeOK, RepType
    <3>2. CASE k # n
      BY <1>1, <1>4, <2>1, <3>2, Constants DEF TypeOK, NumbersGrow
    <3> QED BY <3>1, <3>2
  <2>2. \A k \in Relays : rep'[k].seq = rep[k].seq /\ rep'[k].heard = rep[k].heard
    BY <1>4, Constants
  <2> QED BY <1>1, <2>1, <2>2 DEF NumbersGrow
<1>10. RepPathAcyclic'
  <2>1. \A k \in Nodes : rep'[k].heard = rep[k].heard
    BY <1>4
  <2> QED BY <1>1, <2>1, Constants DEF RepPathAcyclic
<1> QED BY <1>6, <1>7, <1>8, <1>9, <1>10

(* A number and a rep parent are stored.                                   *)
LEMMA RepStored ==
  ASSUME NEW r \in RepType, NEW r1, NEW s \in 0 .. MaxSeq, NEW h \in Nodes \cup {NullVid},
         r1 = [r EXCEPT !.seq = s, !.heard = h]
  PROVE  /\ r1 \in RepType /\ r1.seq = s /\ r1.heard = h
         /\ r1.lastSeq = r.lastSeq
BY DEF RepType

LEMMA RepForgotten ==
  ASSUME NEW r \in RepType, NEW r1, r1 = [r EXCEPT !.seq = 0, !.heard = NullVid]
  PROVE  r1 \in RepType /\ r1.heard = NullVid
<1>1. 0 \in 0 .. MaxSeq
  BY Constants
<1> QED BY <1>1 DEF RepType

(* A beacon leaves the link without being taken.                           *)
LEMMA BeaconGone ==
  ASSUME RepInv, NEW n \in Nodes, NEW m \in Nodes, chan' = [chan EXCEPT ![n][m] = Nothing],
         faults' \in 0 .. MaxFaults, calm' \in BOOLEAN,
         UNCHANGED <<up, beaconIn, rep, expireIn, observeIn, crashed, silent>>
  PROVE  RepInv'
<1> USE DEF RepInv
<1>1. chan' \in [Nodes -> [Nodes -> 0 .. MaxSeq]]
  BY Constants DEF TypeOK
<1>2. \A k, l \in Nodes : chan'[k][l] <= chan[k][l] /\ chan[k][l] \in Nat
  BY Constants DEF TypeOK
<1>3. TypeOK'
  BY <1>1 DEF TypeOK
<1>4. ObserveTimerFree' /\ NewsSoon' /\ DownCrashed' /\ RepPathAcyclic'
  BY DEF ObserveTimerFree, NewsSoon, HeardAge, DownCrashed, RepPathAcyclic
<1>5. NumbersGrow'
  <2>1. ASSUME crashed = {}, NEW k \in Relays, NEW l \in Nodes
        PROVE  chan'[k][l] <= rep[k].seq
    <3>1. chan[k][l] <= rep[k].seq
      BY <2>1 DEF NumbersGrow
    <3>2. rep[k].seq \in Nat /\ chan'[k][l] \in Nat /\ chan'[k][l] <= chan[k][l] /\ chan[k][l] \in Nat
      BY <1>1, <1>2, Constants DEF TypeOK, RepType
    <3> QED BY <3>1, <3>2
  <2> QED BY <2>1 DEF NumbersGrow
<1> QED BY <1>3, <1>4, <1>5

LEMMA ReceiveBeaconStep ==
  ASSUME RepInv, NEW n \in Nodes, NEW m \in Nodes, ReceiveBeacon(n, m)
  PROVE  RepInv'
<1> USE DEF RepInv
<1>1. /\ chan[n][m] # Nothing /\ chan' = [chan EXCEPT ![n][m] = Nothing]
      /\ UNCHANGED <<up, observeIn, faults, crashed, calm, silent>>
  BY DEF ReceiveBeacon
<1>2. CASE ~(up[m] /\ Accepts(m, chan[n][m]))
  <2>1. UNCHANGED <<rep, expireIn, beaconIn>>
    BY <1>2 DEF ReceiveBeacon
  <2>2. faults' \in 0 .. MaxFaults /\ calm' \in BOOLEAN
    BY <1>1 DEF TypeOK
  <2> QED BY <1>1, <2>1, <2>2, BeaconGone
<1>3. CASE up[m] /\ Accepts(m, chan[n][m])
  <2> DEFINE s == chan[n][m]
  <2>1. /\ rep' = [rep EXCEPT ![m].seq = s, ![m].heard = n]
        /\ expireIn' = [expireIn EXCEPT ![m] = Validity]
        /\ beaconIn' = IF EarlyBeacon /\ rep[m].unchanged
                       THEN [beaconIn EXCEPT ![m] = 0] ELSE beaconIn
    BY <1>3 DEF ReceiveBeacon
  <2>2. /\ m \in Relays /\ s > rep[m].seq /\ s \in 0 .. MaxSeq /\ rep[m] \in RepType
        /\ rep[m].seq \in 0 .. MaxSeq
    BY <1>3, Constants DEF Accepts, Relays, TypeOK, RepType
  <2>3. \A k \in Nodes \ {m} : rep'[k] = rep[k]
    BY <2>1 DEF TypeOK
  <2>3a. rep'[m] = [rep[m] EXCEPT !.seq = s, !.heard = n]
    BY <2>1 DEF TypeOK
  <2>3b. rep' = [rep EXCEPT ![m] = rep'[m]]
    BY <2>1 DEF TypeOK
  <2> HIDE DEF s
  <2>4. /\ rep'[m] \in RepType /\ rep'[m].seq = s /\ rep'[m].heard = n
        /\ rep'[m].lastSeq = rep[m].lastSeq
    <3>1. n \in Nodes \cup {NullVid}
      OBVIOUS
    <3>2. \A r \in RepType : \A r1 : r1 = [r EXCEPT !.seq = s, !.heard = n]
            => r1 \in RepType /\ r1.seq = s /\ r1.heard = n /\ r1.lastSeq = r.lastSeq
      BY <2>2, <3>1, RepStored
    <3> QED BY <2>2, <2>3a, <3>2, Zenon
  <2>5. rep' \in [Nodes -> RepType]
    BY <2>4, <2>3b DEF TypeOK
  <2>6. beaconIn[m] \in 0 .. BeaconMax /\ beaconIn[m] # NoTimer
    BY <1>3, Constants DEF TypeOK
  <2>7. /\ beaconIn' \in [Nodes -> NoTimer .. BeaconMax] /\ beaconIn'[m] \in 0 .. BeaconMax
        /\ \A k \in Nodes \ {m} : beaconIn'[k] = beaconIn[k]
    BY <2>1, <2>6, Constants DEF TypeOK
  <2>8. /\ expireIn' \in [Nodes -> NoTimer .. Validity] /\ expireIn'[m] = Validity
        /\ \A k \in Nodes \ {m} : expireIn'[k] = expireIn[k]
    BY <2>1, Constants DEF TypeOK
  <2>9. chan' \in [Nodes -> [Nodes -> 0 .. MaxSeq]]
    BY <1>1, Constants DEF TypeOK
  <2>10. TypeOK'
    <3>1. \A k \in Relays : (expireIn'[k] # NoTimer) = (rep'[k].heard # NullVid)
      BY <2>3, <2>4, <2>8, Constants DEF TypeOK
    <3>2. \A k \in Nodes : up'[k] = (beaconIn'[k] # NoTimer)
      BY <1>1, <1>3, <2>7, Constants DEF TypeOK
    <3> QED BY <1>1, <2>5, <2>7, <2>8, <2>9, <3>1, <3>2 DEF TypeOK
  <2>11. ObserveTimerFree'
    <3>1. observeIn[m] <= Validity
      BY Constants DEF TypeOK
    <3>2. \A k \in Nodes : expireIn'[k] # NoTimer => expireIn'[k] >= observeIn[k]
      BY <2>8, <3>1, Constants DEF ObserveTimerFree, TypeOK
    <3> QED BY <1>1, <3>2 DEF ObserveTimerFree
  <2>12. NewsSoon'
    <3>1. beaconIn'[m] + (Validity - expireIn'[m]) <= BeaconMax
      BY <2>7, <2>8, Constants
    <3>2. ASSUME NEW k \in Relays, k # m, up'[k], rep'[k].heard # NullVid, rep'[k].seq > rep'[k].lastSeq
          PROVE  beaconIn'[k] + (Validity - expireIn'[k]) <= BeaconMax
      <4>1. /\ up[k] /\ rep[k].heard # NullVid /\ rep[k].seq > rep[k].lastSeq
            /\ beaconIn'[k] = beaconIn[k] /\ expireIn'[k] = expireIn[k]
        BY <1>1, <2>3, <2>7, <2>8, <3>2, Constants
      <4> QED BY <4>1 DEF NewsSoon, HeardAge
    <3> QED BY <3>1, <3>2 DEF NewsSoon, HeardAge
  <2>13. DownCrashed'
    BY <1>1, <1>3, <2>8 DEF DownCrashed
  <2>14. ASSUME crashed = {}, n \in Relays
         PROVE  n # m /\ rep[n].seq >= s
    BY <2>2, <2>14 DEF NumbersGrow, s
  <2>15. NumbersGrow'
    <3>1. ASSUME crashed = {}, NEW k \in Relays, NEW l \in Nodes
          PROVE  chan'[k][l] <= rep'[k].seq
      <4>1. chan[k][l] <= rep[k].seq /\ chan'[k][l] \in {chan[k][l], 0}
        BY <1>1, <3>1, Constants DEF NumbersGrow, TypeOK
      <4>2. chan[k][l] \in Nat /\ rep[k].seq \in Nat /\ rep'[k].seq \in Nat /\ rep'[k].seq >= rep[k].seq
        <5>1. chan[k][l] \in Nat
          BY Constants DEF TypeOK
        <5>2. k \in Nodes /\ rep[k].seq \in Nat
          BY Constants DEF TypeOK, RepType, Relays
        <5>3. CASE k = m
          BY <2>2, <2>4, <5>1, <5>2, <5>3, Constants
        <5>4. CASE k # m
          BY <2>3, <5>1, <5>2, <5>4
        <5> QED BY <5>3, <5>4
      <4> QED BY <4>1, <4>2
    <3>2. ASSUME crashed = {}, NEW k \in Relays, rep'[k].heard \in Relays
          PROVE  rep'[rep'[k].heard].seq >= rep'[k].seq
      <4>1. CASE k = m
        <5>1. n \in Relays /\ rep'[k].heard = n /\ rep'[k].seq = s
          BY <2>4, <3>2, <4>1
        <5>2. n # m /\ rep[n].seq >= s
          BY <2>14, <3>2, <5>1
        <5>3. rep'[n] = rep[n]
          BY <2>3, <5>2
        <5> QED BY <5>1, <5>2, <5>3
      <4>2. CASE k # m
        <5>1. rep'[k] = rep[k] /\ rep[rep[k].heard].seq >= rep[k].seq
          BY <2>3, <3>2, <4>2, Constants DEF NumbersGrow
        <5>2. CASE rep[k].heard = m
          BY <2>2, <2>4, <5>1, <5>2, Constants DEF TypeOK, RepType
        <5>3. CASE rep[k].heard # m
          BY <2>3, <3>2, <5>1, <5>3, Constants
        <5> QED BY <5>2, <5>3
      <4> QED BY <4>1, <4>2
    <3> QED BY <1>1, <3>1, <3>2 DEF NumbersGrow
  <2>16. RepPathAcyclic'
    <3> SUFFICES ASSUME crashed = {} PROVE NoCircle(Parents')
      BY <1>1, AcyclicAsNoCircleNext
    <3> DEFINE seq == [k \in Nodes |-> rep[k].seq]
    <3>1. NoCircle(Parents)
      BY AcyclicAsNoCircle
    <3>2. \A k \in Relays : seq[k] \in Nat
      BY Constants DEF TypeOK, RepType
    <3>3. \A k \in Relays : Parents[k] \in Relays => seq[Parents[k]] >= seq[k]
      BY Constants DEF NumbersGrow, Parents
    <3>4. s \in Nat /\ s > seq[m]
      BY <2>2
    <3>5. \A k \in Relays \ {m} : Parents'[k] = Parents[k]
      BY <2>3, Constants DEF Parents
    <3>6. Parents'[m] \in Relays => seq[Parents'[m]] >= s
      BY <2>4, <2>14 DEF Parents
    <3> HIDE DEF seq
    <3> QED BY <2>2, <3>1, <3>2, <3>3, <3>4, <3>5, <3>6, AcceptKeepsAcyclic
  <2> QED BY <2>10, <2>11, <2>12, <2>13, <2>15, <2>16
<1> QED BY <1>2, <1>3

LEMMA MissBeaconStep ==
  ASSUME RepInv, NEW n \in Nodes, NEW m \in Nodes, MissBeacon(n, m)
  PROVE  RepInv'
<1>1. /\ chan' = [chan EXCEPT ![n][m] = Nothing]
      /\ faults < MaxFaults /\ faults' = faults + 1 /\ calm' = FALSE
      /\ UNCHANGED <<up, beaconIn, rep, expireIn, observeIn, crashed, silent>>
  BY DEF MissBeacon
<1>2. faults' \in 0 .. MaxFaults /\ calm' \in BOOLEAN
  <2>1. faults \in 0 .. MaxFaults
    BY DEF RepInv, TypeOK
  <2>2. faults' \in 0 .. MaxFaults
    BY <1>1, <2>1, Constants
  <2>3. calm' \in BOOLEAN
    BY <1>1, Zenon
  <2> QED BY <2>2, <2>3
<1> QED BY <1>1, <1>2, BeaconGone

(* A node forgets its rep parent, and perhaps its number.                  *)
LEMMA ForgetStep ==
  ASSUME RepInv, NEW n \in Nodes,
         rep' \in [Nodes -> RepType], \A k \in Nodes \ {n} : rep'[k] = rep[k],
         n \in Relays => rep'[n].heard = NullVid,
         \/ rep'[n].seq = rep[n].seq
         \/ n \in Relays => crashed' # {},
         expireIn' \in [Nodes -> NoTimer .. Validity], expireIn'[n] = NoTimer,
         \A k \in Nodes \ {n} : expireIn'[k] = expireIn[k],
         observeIn' \in [Nodes -> NoTimer .. Validity],
         \A k \in Nodes \ {n} : observeIn'[k] = observeIn[k],
         up' \in [Nodes -> BOOLEAN], \A k \in Nodes \ {n} : up'[k] = up[k],
         beaconIn' \in [Nodes -> NoTimer .. BeaconMax],
         \A k \in Nodes \ {n} : beaconIn'[k] = beaconIn[k],
         up'[n] = (beaconIn'[n] # NoTimer),
         crashed' \in {crashed, crashed \cup {n}}, crashed' \subseteq Relays,
         n \in Relays /\ ~up'[n] => n \in crashed',
         faults' \in 0 .. MaxFaults, calm' \in BOOLEAN, UNCHANGED <<chan, silent>>
  PROVE  RepInv'
<1> USE DEF RepInv
<1>1. TypeOK'
  <2>1. ASSUME NEW k \in Relays
        PROVE  (expireIn'[k] # NoTimer) = (rep'[k].heard # NullVid)
    <3>1. CASE k = n
      BY <3>1
    <3>2. CASE k # n
      <4>1. expireIn'[k] = expireIn[k] /\ rep'[k] = rep[k]
        BY <3>2, Constants
      <4>2. (expireIn[k] # NoTimer) = (rep[k].heard # NullVid)
        BY DEF TypeOK
      <4> QED BY <4>1, <4>2
    <3> QED BY <3>1, <3>2
  <2>2. ASSUME NEW k \in Nodes
        PROVE  up'[k] = (beaconIn'[k] # NoTimer)
    <3>1. CASE k = n
      BY <3>1
    <3>2. CASE k # n
      BY <3>2 DEF TypeOK
    <3> QED BY <3>1, <3>2
  <2>3. chan' \in [Nodes -> [Nodes -> 0 .. MaxSeq]] /\ silent' \in 0 .. LongTime
    BY DEF TypeOK
  <2> QED BY <2>1, <2>2, <2>3 DEF TypeOK
<1>2. ObserveTimerFree'
  BY DEF ObserveTimerFree
<1>3. NewsSoon'
  <2>1. ASSUME NEW k \in Relays, up'[k], rep'[k].heard # NullVid, rep'[k].seq > rep'[k].lastSeq
        PROVE  beaconIn'[k] + (Validity - expireIn'[k]) <= BeaconMax
    <3>1. k # n
      BY <2>1
    <3>2. /\ up'[k] = up[k] /\ rep'[k] = rep[k]
          /\ beaconIn'[k] = beaconIn[k] /\ expireIn'[k] = expireIn[k]
      BY <3>1, Constants
    <3> QED BY <2>1, <3>2 DEF NewsSoon, HeardAge
  <2> QED BY <2>1 DEF NewsSoon, HeardAge
<1>4. DownCrashed'
  BY Constants DEF DownCrashed
<1>5. NumbersGrow'
  <2> SUFFICES ASSUME crashed' = {}
               PROVE  /\ \A k \in Relays, l \in Nodes : chan[k][l] <= rep'[k].seq
                      /\ \A k \in Relays : rep'[k].heard \in Relays => rep'[rep'[k].heard].seq >= rep'[k].seq
    BY DEF NumbersGrow
  <2>1. crashed = {}
    OBVIOUS
  <2>2. \A k \in Relays : rep'[k].seq = rep[k].seq /\ rep'[k].heard \in {rep[k].heard, NullVid}
    BY Constants
  <2> QED BY <2>1, <2>2, Constants DEF NumbersGrow
<1>6. RepPathAcyclic'
  <2>1. ASSUME crashed' = {}
        PROVE  NoCircle(Parents')
    <3>1. NoCircle(Parents)
      BY <2>1, AcyclicAsNoCircle
    <3>2. \A k \in Relays : Parents'[k] \in {Parents[k], NullVid}
      BY Constants DEF Parents
    <3> QED BY <3>1, <3>2, FewerParentsAcyclic
  <2> QED BY <2>1, AcyclicAsNoCircleNext
<1> QED BY <1>1, <1>2, <1>3, <1>4, <1>5, <1>6

LEMMA ExpirationStep ==
  ASSUME RepInv, NEW n \in Nodes, RepSeqExpiration(n)
  PROVE  RepInv'
<1> USE DEF RepInv
<1> DEFINE r == [rep[n] EXCEPT !.heard = NullVid]
<1>1. rep' = [rep EXCEPT ![n] = r]
  BY DEF RepSeqExpiration, TypeOK
<1>2. /\ expireIn' = [expireIn EXCEPT ![n] = NoTimer]
      /\ observeIn' = [observeIn EXCEPT ![n] = Validity]
      /\ UNCHANGED <<up, beaconIn, chan, faults, crashed, calm, silent>>
  BY DEF RepSeqExpiration
<1>3. r \in RepType /\ r.heard = NullVid /\ r.seq = rep[n].seq
  BY DEF TypeOK, RepType
<1> HIDE DEF r
<1>4. /\ rep' \in [Nodes -> RepType] /\ rep'[n] = r /\ \A k \in Nodes \ {n} : rep'[k] = rep[k]
  BY <1>1, <1>3 DEF TypeOK
<1>5. /\ expireIn' \in [Nodes -> NoTimer .. Validity] /\ expireIn'[n] = NoTimer
      /\ \A k \in Nodes \ {n} : expireIn'[k] = expireIn[k]
      /\ observeIn' \in [Nodes -> NoTimer .. Validity]
      /\ \A k \in Nodes \ {n} : observeIn'[k] = observeIn[k]
  BY <1>2, Constants DEF TypeOK
<1>6. /\ up' \in [Nodes -> BOOLEAN] /\ beaconIn' \in [Nodes -> NoTimer .. BeaconMax]
      /\ up'[n] = (beaconIn'[n] # NoTimer) /\ crashed' \subseteq Relays
      /\ faults' \in 0 .. MaxFaults /\ calm' \in BOOLEAN
      /\ (n \in Relays /\ ~up'[n] => n \in crashed')
  BY <1>2 DEF TypeOK, DownCrashed
<1> QED BY <1>2, <1>3, <1>4, <1>5, <1>6, ForgetStep

LEMMA StopStep ==
  ASSUME RepInv, NEW n \in Nodes, StopOperation(n)
  PROVE  RepInv'
<1> USE DEF RepInv
<1> DEFINE r == [rep[n] EXCEPT !.seq = 0, !.heard = NullVid]
<1>1. rep' = [rep EXCEPT ![n] = r]
  BY DEF StopOperation, TypeOK
<1>2. /\ up' = [up EXCEPT ![n] = FALSE] /\ beaconIn' = [beaconIn EXCEPT ![n] = NoTimer]
      /\ expireIn' = [expireIn EXCEPT ![n] = NoTimer]
      /\ observeIn' = [observeIn EXCEPT ![n] = NoTimer]
      /\ n # Root => faults < MaxFaults
      /\ faults' = IF n = Root THEN faults ELSE faults + 1
      /\ crashed' = IF n = Root THEN crashed ELSE crashed \cup {n}
      /\ calm' = FALSE /\ UNCHANGED <<chan, silent>>
  BY DEF StopOperation
<1>3. r \in RepType /\ r.heard = NullVid
  <2>1. 0 \in 0 .. MaxSeq /\ NullVid \in Nodes \cup {NullVid} /\ rep[n] \in RepType
    BY Constants DEF TypeOK
  <2>2. \A q \in RepType : \A q1 : q1 = [q EXCEPT !.seq = 0, !.heard = NullVid]
          => q1 \in RepType /\ q1.heard = NullVid
    BY <2>1, RepForgotten
  <2> QED BY <2>1, <2>2, Zenon
<1> HIDE DEF r
<1>4. /\ rep' \in [Nodes -> RepType] /\ rep'[n] = r /\ \A k \in Nodes \ {n} : rep'[k] = rep[k]
  BY <1>1, <1>3 DEF TypeOK
<1>5. /\ expireIn' \in [Nodes -> NoTimer .. Validity] /\ expireIn'[n] = NoTimer
      /\ \A k \in Nodes \ {n} : expireIn'[k] = expireIn[k]
      /\ observeIn' \in [Nodes -> NoTimer .. Validity]
      /\ \A k \in Nodes \ {n} : observeIn'[k] = observeIn[k]
  BY <1>2, Constants DEF TypeOK
<1>6. /\ up' \in [Nodes -> BOOLEAN] /\ beaconIn' \in [Nodes -> NoTimer .. BeaconMax]
      /\ \A k \in Nodes \ {n} : up'[k] = up[k] /\ beaconIn'[k] = beaconIn[k]
      /\ up'[n] = FALSE /\ beaconIn'[n] = NoTimer
  BY <1>2, Constants DEF TypeOK
<1>7. /\ crashed' \in {crashed, crashed \cup {n}} /\ crashed' \subseteq Relays
      /\ (n \in Relays => n \in crashed' /\ crashed' # {})
  BY <1>2, Constants DEF TypeOK, Relays
<1>8. faults' \in 0 .. MaxFaults /\ calm' \in BOOLEAN
  <2>1. faults \in 0 .. MaxFaults
    BY DEF TypeOK
  <2>2. faults' \in 0 .. MaxFaults
    BY <1>2, <2>1, Constants
  <2>3. calm' \in BOOLEAN
    BY <1>2, Zenon
  <2> QED BY <2>2, <2>3
<1> QED BY <1>2, <1>3, <1>4, <1>5, <1>6, <1>7, <1>8, ForgetStep

LEMMA StartStep ==
  ASSUME RepInv, NEW n \in Nodes, StartOperation(n)
  PROVE  RepInv'
<1> USE DEF RepInv
<1>1. /\ ~up[n] /\ up' = [up EXCEPT ![n] = TRUE] /\ rep' = [rep EXCEPT ![n] = StartRep(n)]
      /\ UNCHANGED <<expireIn, observeIn, chan, faults, crashed, calm, silent>>
  BY DEF StartOperation
<1>2. PICK d \in 0 .. BeaconInterval : beaconIn' = [beaconIn EXCEPT ![n] = d]
  BY DEF StartOperation
<1>3. /\ rep' \in [Nodes -> RepType] /\ rep'[n] = StartRep(n)
      /\ \A k \in Nodes \ {n} : rep'[k] = rep[k]
  BY <1>1, StartRepTyped DEF TypeOK
<1>4. n \in Relays => rep'[n].heard = NullVid /\ crashed' # {}
  BY <1>1, <1>3, StartRepTyped, Constants DEF DownCrashed
<1>5. /\ up' \in [Nodes -> BOOLEAN] /\ beaconIn' \in [Nodes -> NoTimer .. BeaconMax]
      /\ \A k \in Nodes \ {n} : up'[k] = up[k] /\ beaconIn'[k] = beaconIn[k]
      /\ up'[n] = TRUE /\ beaconIn'[n] # NoTimer
  BY <1>1, <1>2, Constants DEF TypeOK
<1>6. expireIn[n] = NoTimer
  BY <1>1 DEF DownCrashed
<1>7. /\ expireIn' \in [Nodes -> NoTimer .. Validity] /\ observeIn' \in [Nodes -> NoTimer .. Validity]
      /\ crashed' \subseteq Relays /\ faults' \in 0 .. MaxFaults /\ calm' \in BOOLEAN
  BY <1>1 DEF TypeOK
<1> QED BY <1>1, <1>3, <1>4, <1>5, <1>6, <1>7, ForgetStep

LEMMA ObserveStep ==
  ASSUME RepInv, NEW n \in Nodes, RepSeqObserve(n)
  PROVE  RepInv'
<1> USE DEF RepInv
<1>1. /\ observeIn' = [observeIn EXCEPT ![n] = NoTimer]
      /\ UNCHANGED <<up, beaconIn, rep, expireIn, chan, faults, crashed, calm, silent>>
  BY DEF RepSeqObserve
<1>2. TypeOK'
  <2>1. observeIn' \in [Nodes -> NoTimer .. Validity]
    BY <1>1, Constants DEF TypeOK
  <2> QED BY <1>1, <2>1 DEF TypeOK
<1>3. ObserveTimerFree'
  BY <1>1, Constants DEF ObserveTimerFree, TypeOK
<1>4. NewsSoon' /\ DownCrashed' /\ NumbersGrow' /\ RepPathAcyclic'
  BY <1>1 DEF NewsSoon, HeardAge, DownCrashed, NumbersGrow, RepPathAcyclic
<1> QED BY <1>2, <1>3, <1>4

LEMMA TickStep ==
  ASSUME RepInv, Tick
  PROVE  RepInv'
<1> USE DEF RepInv
<1>1. /\ \A n \in Nodes : beaconIn[n] # 0 /\ expireIn[n] # 0 /\ observeIn[n] # 0
      /\ beaconIn' = Later(beaconIn) /\ expireIn' = Later(expireIn)
      /\ observeIn' = Later(observeIn)
      /\ silent' = IF silent < LongTime THEN silent + 1 ELSE silent
      /\ UNCHANGED <<up, rep, chan, faults, crashed, calm>>
  BY DEF Tick
<1>2. ASSUME NEW n \in Nodes
      PROVE  /\ beaconIn'[n] = IF beaconIn[n] = NoTimer THEN NoTimer ELSE beaconIn[n] - 1
             /\ expireIn'[n] = IF expireIn[n] = NoTimer THEN NoTimer ELSE expireIn[n] - 1
             /\ observeIn'[n] = IF observeIn[n] = NoTimer THEN NoTimer ELSE observeIn[n] - 1
             /\ beaconIn[n] \in NoTimer .. BeaconMax /\ beaconIn[n] # 0
             /\ expireIn[n] \in NoTimer .. Validity /\ expireIn[n] # 0
             /\ observeIn[n] \in NoTimer .. Validity /\ observeIn[n] # 0
  BY <1>1 DEF Later, TypeOK
<1>3. ASSUME NEW n \in Nodes
      PROVE  /\ beaconIn'[n] \in NoTimer .. BeaconMax /\ expireIn'[n] \in NoTimer .. Validity
             /\ observeIn'[n] \in NoTimer .. Validity
             /\ beaconIn'[n] = NoTimer <=> beaconIn[n] = NoTimer
             /\ expireIn'[n] = NoTimer <=> expireIn[n] = NoTimer
  BY <1>2, Constants
<1>4. TypeOK'
  <2>1. /\ beaconIn' \in [Nodes -> NoTimer .. BeaconMax]
        /\ expireIn' \in [Nodes -> NoTimer .. Validity]
        /\ observeIn' \in [Nodes -> NoTimer .. Validity]
    BY <1>1, <1>3 DEF Later
  <2>2. silent' \in 0 .. LongTime
    BY <1>1, Constants DEF TypeOK
  <2>3. /\ \A n \in Relays : (expireIn'[n] # NoTimer) = (rep'[n].heard # NullVid)
        /\ \A n \in Nodes : up'[n] = (beaconIn'[n] # NoTimer)
    BY <1>1, <1>3, Constants DEF TypeOK
  <2> QED BY <1>1, <2>1, <2>2, <2>3 DEF TypeOK
<1>5. ObserveTimerFree'
  <2>1. ASSUME NEW n \in Nodes, expireIn'[n] # NoTimer
        PROVE  expireIn'[n] >= observeIn'[n]
    <3>1. expireIn[n] # NoTimer /\ expireIn[n] >= observeIn[n]
      BY <1>3, <2>1 DEF ObserveTimerFree
    <3> QED BY <1>2, <3>1, Constants
  <2> QED BY <2>1 DEF ObserveTimerFree
<1>6. NewsSoon'
  <2>1. ASSUME NEW n \in Relays, up'[n], rep'[n].heard # NullVid, rep'[n].seq > rep'[n].lastSeq
        PROVE  beaconIn'[n] + (Validity - expireIn'[n]) <= BeaconMax
    <3>1. beaconIn[n] + (Validity - expireIn[n]) <= BeaconMax
      BY <1>1, <2>1 DEF NewsSoon, HeardAge
    <3>2. beaconIn[n] # NoTimer /\ expireIn[n] # NoTimer
      BY <1>1, <2>1, Constants DEF TypeOK
    <3> QED BY <1>2, <3>1, <3>2, Constants
  <2> QED BY <2>1 DEF NewsSoon, HeardAge
<1>7. DownCrashed'
  BY <1>1, <1>3 DEF DownCrashed
<1>8. NumbersGrow' /\ RepPathAcyclic'
  BY <1>1 DEF NumbersGrow, RepPathAcyclic
<1> QED BY <1>4, <1>5, <1>6, <1>7, <1>8

-----------------------------------------------------------------------------
(* The theorems                                                            *)

LEMMA NextInv == RepInv /\ [Next]_vars => RepInv'
<1> SUFFICES ASSUME RepInv, [Next]_vars PROVE RepInv'
  OBVIOUS
<1>1. ASSUME NEW n \in Nodes,
             \/ SendBeacon(n) \/ RepSeqExpiration(n) \/ RepSeqObserve(n)
             \/ StopOperation(n) \/ StartOperation(n)
      PROVE  RepInv'
  BY <1>1, SendBeaconStep, ExpirationStep, ObserveStep, StopStep, StartStep
<1>2. ASSUME NEW n \in Nodes, NEW m \in Nodes, ReceiveBeacon(n, m) \/ MissBeacon(n, m)
      PROVE  RepInv'
  BY <1>2, ReceiveBeaconStep, MissBeaconStep
<1>3. CASE UNCHANGED vars
  <2>1. /\ TypeOK' /\ ObserveTimerFree' /\ NewsSoon' /\ DownCrashed' /\ NumbersGrow'
        /\ RepPathAcyclic'
    BY <1>3 DEF vars, RepInv, TypeOK, ObserveTimerFree, NewsSoon, HeardAge, DownCrashed,
                NumbersGrow, RepPathAcyclic
  <2> QED BY <2>1 DEF RepInv
<1> QED BY <1>1, <1>2, <1>3, TickStep DEF Next

LEMMA Invariant == Spec => []RepInv
<1> QED BY InitInv, NextInv, PTL DEF Spec

LEMMA InvSkipped == RepInv => SkippedWasSent
<1> SUFFICES ASSUME RepInv, NEW n \in Relays, up[n], beaconIn[n] = 0,
                    rep[n].heard # NullVid, LeftOut(n)
             PROVE  rep[n].seq <= rep[n].lastSeq
  BY DEF SkippedWasSent
<1>1. HeardAge(n) > BeaconMax /\ expireIn[n] \in NoTimer .. Validity
  BY Constants DEF LeftOut, RepInv, TypeOK
<1>2. ~(rep[n].seq > rep[n].lastSeq)
  BY <1>1, Constants DEF RepInv, NewsSoon, HeardAge
<1>3. rep[n].seq \in Nat /\ rep[n].lastSeq \in Nat
  BY Constants DEF RepInv, TypeOK, RepType
<1> QED BY <1>2, <1>3

\* The model has its types, and a timer runs exactly where there is a
\* representative.
THEOREM TypeCorrect == Spec => []TypeOK
<1> QED BY Invariant, PTL DEF RepInv

\* In every network, however many beacons are lost and however often the
\* representative restarts, the rep-path has no circle unless a relay restarts.
THEOREM RepPathHasNoCircle == Spec => []RepPathAcyclic
<1> QED BY Invariant, PTL DEF RepInv

\* processRepSeqExpirationTimer never schedules an observe timer that runs.
THEOREM ObserveTimerIsFree == Spec => []ObserveTimerFree
<1> QED BY Invariant, PTL DEF RepInv

\* createBeacon never throws "Skipping repstate", in any network.
THEOREM SkippedCorrect == Spec => []SkippedWasSent
<1> QED BY Invariant, InvSkipped, PTL

-----------------------------------------------------------------------------
(* How long a silent root is believed                                      *)

\* The age at which a relay still repeats a number in its beacons.
Repeated == IF ExcludeOld THEN BeaconMax ELSE Validity

\* The relays that have got to know number s, or a later one.
Reached(r, s) == {n \in Relays : r[n].seq >= s}

\* How long a number may be on its way to these relays.
Delay(r, s) == Cardinality(Reached(r, s)) * Repeated

\* A number has come to its last relay over relays that each kept it back for
\* no longer than they repeat it: as long as no relay restarts, the root has
\* not been silent for longer than these delays and the age of the number.
SilenceShort ==
  crashed = {} =>
    /\ \A n \in Relays : rep[n].heard # NullVid =>
         silent + Repeated <= HeardAge(n) + Delay(rep, rep[n].seq)
    /\ \A n \in Relays, m \in Nodes : chan[n][m] # Nothing =>
         silent <= Delay(rep, chan[n][m])
    /\ \A m \in Nodes : chan[Root][m] # Nothing => silent = 0

\* What the provers need to know of a product of numbers.
LEMMA Product ==
  ASSUME NEW a \in Nat, NEW b \in Nat, NEW w \in Nat, a <= b
  PROVE  a * w \in Nat /\ b * w \in Nat /\ a * w <= b * w /\ (a + 1) * w = a * w + w
<1>1. PICK c \in Nat : b = a + c
  <2>1. b - a \in Nat /\ b = a + (b - a)
    OBVIOUS
  <2> QED BY <2>1
<1>2. a * w \in Nat /\ c * w \in Nat /\ (a + c) * w = a * w + c * w
  OBVIOUS
<1>3. (a + 1) * w = a * w + w
  OBVIOUS
<1> QED BY <1>1, <1>2, <1>3

\* There are finitely many relays.
LEMMA RelaysFinite == IsFiniteSet(Relays) /\ Cardinality(Relays) \in Nat
<1>1. IsFiniteSet(Relays)
  BY RepAssumption, FS_Subset DEF Relays
<1> QED BY <1>1, FS_CardinalityType

\* The age is a number, and no larger than the validity time.
LEMMA RepeatedType == Repeated \in Nat /\ Repeated <= Validity
BY Constants DEF Repeated

\* So are those that a number has reached.
LEMMA ReachedFinite ==
  ASSUME NEW r, NEW s
  PROVE  /\ IsFiniteSet(Reached(r, s)) /\ Cardinality(Reached(r, s)) \in Nat
         /\ Cardinality(Reached(r, s)) <= Cardinality(Relays)
<1>1. Reached(r, s) \subseteq Relays
  BY DEF Reached
<1> HIDE DEF Reached
<1>2. IsFiniteSet(Reached(r, s)) /\ Cardinality(Reached(r, s)) <= Cardinality(Relays)
  BY <1>1, RelaysFinite, FS_Subset
<1> QED BY <1>2, FS_CardinalityType

(* A number is never on its way for longer than it takes to reach all.     *)
LEMMA DelayType ==
  ASSUME NEW r, NEW s
  PROVE  Delay(r, s) \in Nat /\ Delay(r, s) <= Cardinality(Relays) * Repeated
BY ReachedFinite, RelaysFinite, RepeatedType, Product DEF Delay

(* Numbers that grow have reached more relays ...                          *)
LEMMA DelayGrows ==
  ASSUME NEW r, NEW r1, NEW s \in Nat,
         \A n \in Relays : r[n].seq \in Nat /\ r1[n].seq \in Nat /\ r1[n].seq >= r[n].seq
  PROVE  Delay(r, s) <= Delay(r1, s)
<1>1. Reached(r, s) \subseteq Reached(r1, s)
  BY DEF Reached
<1>2. Cardinality(Reached(r, s)) <= Cardinality(Reached(r1, s))
  BY <1>1, ReachedFinite, FS_Subset
<1> QED BY <1>2, ReachedFinite, RepeatedType, Product DEF Delay

(* ... and a relay that takes a number is one more.                        *)
LEMMA DelayJoins ==
  ASSUME NEW r, NEW r1, NEW s \in Nat, NEW m \in Relays,
         \A n \in Relays : r[n].seq \in Nat, r[m].seq < s, r1[m].seq = s,
         \A n \in Relays \ {m} : r1[n] = r[n]
  PROVE  Delay(r1, s) = Delay(r, s) + Repeated
<1>1. Reached(r1, s) = Reached(r, s) \cup {m} /\ m \notin Reached(r, s)
  BY DEF Reached
<1>2. Cardinality(Reached(r1, s)) = Cardinality(Reached(r, s)) + 1
  BY <1>1, ReachedFinite, FS_AddElement
<1> QED BY <1>2, ReachedFinite, RepeatedType, Product DEF Delay

\* What a relay with a number knows of its age.
LEMMA AgeType ==
  ASSUME RepInv, NEW n \in Relays
  PROVE  /\ rep[n].seq \in Nat /\ silent \in Nat /\ expireIn[n] \in NoTimer .. Validity
         /\ rep[n].heard # NullVid => /\ expireIn[n] \in 0 .. Validity
                                      /\ HeardAge(n) \in 0 .. Validity
<1>1. n \in Nodes /\ expireIn[n] \in NoTimer .. Validity /\ silent \in Nat /\ rep[n].seq \in Nat
  BY Constants DEF RepInv, TypeOK, RepType
<1>2. rep[n].heard # NullVid => expireIn[n] # NoTimer
  BY DEF RepInv, TypeOK
<1> QED BY <1>1, <1>2, Constants DEF HeardAge

\* At first nobody has a number.
LEMMA InitSilence == Init => SilenceShort
BY Constants, StartRepTyped DEF Init, SilenceShort

(* A beacon repeats a number only while it is young enough.               *)
LEMMA SendBeaconSilence ==
  ASSUME RepInv, SilenceShort, NEW n \in Nodes, SendBeacon(n)
  PROVE  SilenceShort'
<1> DEFINE info == IF rep[n].heard = NullVid \/ LeftOut(n) THEN Nothing ELSE rep'[n].seq
<1>1. /\ n = Root => rep[n].seq < MaxSeq
      /\ rep' = [rep EXCEPT ![n] = BeaconRep(n)]
      /\ chan' = [chan EXCEPT ![n] = [m \in Nodes |-> IF {n, m} \in Links /\ m # n
                                                      THEN info ELSE Nothing]]
      /\ silent' = IF n = Root THEN 0 ELSE silent
      /\ UNCHANGED <<expireIn, crashed>>
  BY DEF SendBeacon
<1>2. \A k \in Relays : rep'[k].seq = rep[k].seq /\ rep'[k].heard = rep[k].heard
  <2>1. /\ BeaconRep(n).heard = rep[n].heard /\ (n # Root => BeaconRep(n).seq = rep[n].seq)
    BY <1>1, BeaconRepTyped DEF RepInv
  <2> QED BY <1>1, <2>1, Constants DEF RepInv, TypeOK
<1>3. \A s : Reached(rep', s) = Reached(rep, s) /\ Delay(rep', s) = Delay(rep, s)
  BY <1>2 DEF Reached, Delay
<1>4. silent' \in Nat /\ silent' <= silent /\ silent \in Nat
  BY <1>1, Constants DEF RepInv, TypeOK
<1> SUFFICES ASSUME crashed = {} PROVE SilenceShort'
  BY <1>1 DEF SilenceShort
<1>5. ASSUME NEW k \in Relays, rep'[k].heard # NullVid
      PROVE  silent' + Repeated <= HeardAge(k)' + Delay(rep', rep'[k].seq)
  <2>1. silent + Repeated <= HeardAge(k) + Delay(rep, rep[k].seq)
    BY <1>2, <1>5 DEF SilenceShort
  <2>2. HeardAge(k)' = HeardAge(k) /\ HeardAge(k) \in Nat
    BY <1>1, <1>2, <1>5, AgeType, Constants DEF HeardAge
  <2>3. Delay(rep', rep'[k].seq) = Delay(rep, rep[k].seq) /\ Delay(rep, rep[k].seq) \in Nat
    BY <1>2, <1>3, <1>5, DelayType
  <2> QED BY <1>4, <2>1, <2>2, <2>3, RepeatedType
<1>6. ASSUME NEW k \in Relays, NEW m \in Nodes, chan'[k][m] # Nothing
      PROVE  silent' <= Delay(rep', chan'[k][m])
  <2>1. CASE k # n
    <3>1. chan'[k][m] = chan[k][m]
      BY <1>1, <2>1, Constants DEF RepInv, TypeOK
    <3>2. silent <= Delay(rep, chan[k][m])
      BY <1>6, <3>1 DEF SilenceShort
    <3> QED BY <1>3, <1>4, <3>1, <3>2, DelayType
  <2>2. CASE k = n
    <3>1. chan'[k][m] = info /\ info # Nothing
      BY <1>1, <1>6, <2>2, Constants DEF RepInv, TypeOK
    <3>2. rep[k].heard # NullVid /\ ~LeftOut(k) /\ chan'[k][m] = rep[k].seq
      BY <1>2, <2>2, <3>1
    <3>3. HeardAge(k) \in 0 .. Validity /\ HeardAge(k) <= Repeated
      BY <3>2, AgeType, Constants DEF RepInv, TypeOK, LeftOut, Repeated
    <3>4. silent + Repeated <= HeardAge(k) + Delay(rep, rep[k].seq)
      BY <3>2 DEF SilenceShort
    <3>5. Delay(rep, rep[k].seq) \in Nat /\ Delay(rep', chan'[k][m]) = Delay(rep, rep[k].seq)
      BY <1>3, <3>2, DelayType
    <3> QED BY <1>4, <3>3, <3>4, <3>5, RepeatedType
  <2> QED BY <2>1, <2>2
<1>7. ASSUME NEW m \in Nodes, chan'[Root][m] # Nothing
      PROVE  silent' = 0
  <2>1. n # Root => chan'[Root][m] = chan[Root][m]
    BY <1>1, Constants DEF RepInv, TypeOK
  <2> QED BY <1>1, <1>7, <2>1 DEF SilenceShort
<1> QED BY <1>1, <1>5, <1>6, <1>7 DEF SilenceShort

(* Nobody's number and no beacon appears.                                  *)
LEMMA ForgetSilence ==
  ASSUME RepInv, SilenceShort, UNCHANGED silent,
         \A k, l \in Nodes : chan'[k][l] \in {chan[k][l], Nothing},
         crashed' = {} =>
           /\ crashed = {}
           /\ \A k \in Relays : /\ rep'[k].seq = rep[k].seq
                                /\ rep'[k].heard # NullVid =>
                                     rep[k].heard # NullVid /\ expireIn'[k] = expireIn[k]
  PROVE  SilenceShort'
<1> SUFFICES ASSUME crashed' = {} PROVE SilenceShort'
  BY DEF SilenceShort
<1>1. \A s : Reached(rep', s) = Reached(rep, s) /\ Delay(rep', s) = Delay(rep, s)
  BY DEF Reached, Delay
<1>2. ASSUME NEW k \in Relays, rep'[k].heard # NullVid
      PROVE  silent' + Repeated <= HeardAge(k)' + Delay(rep', rep'[k].seq)
  BY <1>1, <1>2 DEF SilenceShort, HeardAge
<1>3. ASSUME NEW k \in Relays, NEW m \in Nodes, chan'[k][m] # Nothing
      PROVE  silent' <= Delay(rep', chan'[k][m])
  BY <1>1, <1>3, Constants DEF SilenceShort
<1>4. ASSUME NEW m \in Nodes, chan'[Root][m] # Nothing
      PROVE  silent' = 0
  BY <1>4, Constants DEF SilenceShort
<1> QED BY <1>2, <1>3, <1>4 DEF SilenceShort

(* A relay that takes a number adds its own delay and starts its age at 0. *)
LEMMA ReceiveBeaconSilence ==
  ASSUME RepInv, SilenceShort, NEW n \in Nodes, NEW m \in Nodes, ReceiveBeacon(n, m)
  PROVE  SilenceShort'
<1> DEFINE s == chan[n][m]
<1>1. /\ s # Nothing /\ chan' = [chan EXCEPT ![n][m] = Nothing] /\ s \in Nat
      /\ UNCHANGED <<crashed, silent>>
  BY Constants DEF ReceiveBeacon, RepInv, TypeOK
<1>2. \A k, l \in Nodes : chan'[k][l] \in {chan[k][l], Nothing}
  BY <1>1 DEF RepInv, TypeOK
<1>3. CASE ~(up[m] /\ Accepts(m, s))
  BY <1>1, <1>2, <1>3, ForgetSilence DEF ReceiveBeacon
<1>4. CASE up[m] /\ Accepts(m, s)
  <2>1. /\ rep' = [rep EXCEPT ![m].seq = s, ![m].heard = n]
        /\ expireIn' = [expireIn EXCEPT ![m] = Validity]
    BY <1>4 DEF ReceiveBeacon
  <2> HIDE DEF s
  <2>2. m \in Relays /\ s > rep[m].seq
    BY <1>4 DEF Accepts, Relays
  <2>3. /\ rep'[m].seq = s /\ rep'[m].heard = n /\ \A k \in Relays \ {m} : rep'[k] = rep[k]
        /\ expireIn'[m] = Validity /\ \A k \in Relays \ {m} : expireIn'[k] = expireIn[k]
    BY <2>1, Constants DEF RepInv, TypeOK, RepType
  <2>4. \A k \in Relays : rep[k].seq \in Nat /\ rep'[k].seq \in Nat /\ rep'[k].seq >= rep[k].seq
    <3>1. \A k \in Relays : rep[k].seq \in Nat
      BY AgeType
    <3> QED BY <1>1, <2>2, <2>3, <3>1
  <2>5. \A t \in Nat : Delay(rep, t) <= Delay(rep', t) /\ Delay(rep, t) \in Nat /\ Delay(rep', t) \in Nat
    BY <2>4, DelayGrows, DelayType
  <2>6. Delay(rep', s) = Delay(rep, s) + Repeated
    BY <1>1, <2>2, <2>3, <2>4, DelayJoins
  <2>7. silent \in Nat /\ Repeated \in Nat
    BY RepeatedType, Constants DEF RepInv, TypeOK
  <2> SUFFICES ASSUME crashed = {} PROVE SilenceShort'
    BY <1>1 DEF SilenceShort
  <2>8. silent <= Delay(rep, s)
    <3>1. CASE n = Root
      BY <1>1, <2>5, <2>7, <3>1 DEF SilenceShort, s
    <3>2. CASE n # Root
      BY <1>1, <3>2 DEF SilenceShort, s, Relays
    <3> QED BY <3>1, <3>2
  <2>9. ASSUME NEW k \in Relays, rep'[k].heard # NullVid
        PROVE  silent' + Repeated <= HeardAge(k)' + Delay(rep', rep'[k].seq)
    <3>1. CASE k = m
      <4>1. HeardAge(k)' = 0
        BY <2>3, <3>1, Constants DEF HeardAge
      <4>2. Delay(rep, s) \in Nat /\ Delay(rep', s) \in Nat
        BY DelayType
      <4> QED BY <1>1, <2>3, <2>6, <2>7, <2>8, <3>1, <4>1, <4>2
    <3>2. CASE k # m
      <4>1. rep'[k] = rep[k] /\ HeardAge(k)' = HeardAge(k) /\ rep[k].heard # NullVid
        BY <2>3, <2>9, <3>2 DEF HeardAge
      <4>2. silent + Repeated <= HeardAge(k) + Delay(rep, rep[k].seq)
        BY <4>1 DEF SilenceShort
      <4>3. HeardAge(k) \in Nat /\ rep[k].seq \in Nat
        BY <4>1, AgeType, Constants
      <4>4. Delay(rep, rep[k].seq) <= Delay(rep', rep[k].seq)
            /\ Delay(rep, rep[k].seq) \in Nat /\ Delay(rep', rep[k].seq) \in Nat
        BY <2>5, <4>3
      <4>5. silent + Repeated <= HeardAge(k) + Delay(rep', rep[k].seq)
        BY <2>7, <4>2, <4>3, <4>4
      <4> QED BY <1>1, <4>1, <4>5
    <3> QED BY <3>1, <3>2
  <2>10. ASSUME NEW k \in Relays, NEW l \in Nodes, chan'[k][l] # Nothing
         PROVE  silent' <= Delay(rep', chan'[k][l])
    <3>1. chan'[k][l] = chan[k][l] /\ chan[k][l] \in Nat
      BY <1>2, <2>10, Constants DEF RepInv, TypeOK
    <3>2. silent <= Delay(rep, chan[k][l])
      BY <2>10, <3>1 DEF SilenceShort
    <3>3. /\ Delay(rep, chan[k][l]) <= Delay(rep', chan[k][l])
          /\ Delay(rep, chan[k][l]) \in Nat /\ Delay(rep', chan[k][l]) \in Nat
      BY <2>5, <3>1
    <3>4. silent <= Delay(rep', chan[k][l])
      BY <2>7, <3>2, <3>3
    <3> QED BY <1>1, <3>1, <3>4
  <2>11. ASSUME NEW l \in Nodes, chan'[Root][l] # Nothing
         PROVE  silent' = 0
    BY <1>1, <1>2, <2>11, Constants DEF SilenceShort
  <2> QED BY <2>9, <2>10, <2>11 DEF SilenceShort
<1> QED BY <1>3, <1>4

(* Every age grows with the silence.                                       *)
LEMMA TickSilence ==
  ASSUME RepInv, SilenceShort, Tick
  PROVE  SilenceShort'
<1>1. /\ \A n, m \in Nodes : chan[n][m] = Nothing
      /\ \A n \in Nodes : expireIn[n] # 0
      /\ expireIn' = Later(expireIn) /\ silent' \in {silent, silent + 1}
      /\ UNCHANGED <<rep, chan, crashed>>
  BY DEF Tick
<1> SUFFICES ASSUME crashed = {} PROVE SilenceShort'
  BY <1>1 DEF SilenceShort
<1>2. ASSUME NEW k \in Relays, rep'[k].heard # NullVid
      PROVE  silent' + Repeated <= HeardAge(k)' + Delay(rep', rep'[k].seq)
  <2>1. rep[k].heard # NullVid
    BY <1>1, <1>2
  <2>2. silent + Repeated <= HeardAge(k) + Delay(rep, rep[k].seq)
    BY <2>1 DEF SilenceShort
  <2>3. expireIn[k] \in 0 .. Validity /\ HeardAge(k) \in 0 .. Validity /\ silent \in Nat
    BY <2>1, AgeType
  <2>4. expireIn'[k] = expireIn[k] - 1
    BY <1>1, <2>3, Constants DEF Later
  <2>5. HeardAge(k)' = HeardAge(k) + 1
    BY <2>3, <2>4, Constants DEF HeardAge
  <2>6. silent' + Repeated <= HeardAge(k)' + Delay(rep, rep[k].seq)
    BY <1>1, <2>2, <2>3, <2>5, DelayType, RepeatedType, Constants
  <2> QED BY <1>1, <2>6
<1>3. \A n, m \in Nodes : chan'[n][m] = Nothing
  BY <1>1
<1> QED BY <1>2, <1>3, Constants DEF SilenceShort

\* Every step keeps SilenceShort.
LEMMA NextSilence == RepInv /\ SilenceShort /\ [Next]_vars => SilenceShort'
<1> SUFFICES ASSUME RepInv, SilenceShort, [Next]_vars PROVE SilenceShort'
  OBVIOUS
<1>1. ASSUME NEW n \in Nodes, RepSeqExpiration(n)
      PROVE  SilenceShort'
  <2>1. /\ rep' = [rep EXCEPT ![n].heard = NullVid] /\ expireIn' = [expireIn EXCEPT ![n] = NoTimer]
        /\ UNCHANGED <<chan, crashed, silent>>
    BY <1>1 DEF RepSeqExpiration
  <2>2. \A k \in Relays : /\ rep'[k].seq = rep[k].seq
                          /\ rep'[k].heard # NullVid =>
                               rep[k].heard # NullVid /\ expireIn'[k] = expireIn[k]
    BY <2>1, Constants DEF RepInv, TypeOK, RepType
  <2> QED BY <2>1, <2>2, ForgetSilence
<1>2. ASSUME NEW n \in Nodes, RepSeqObserve(n) PROVE SilenceShort'
  BY <1>2, ForgetSilence DEF RepSeqObserve
<1>3. ASSUME NEW n \in Nodes, NEW m \in Nodes, MissBeacon(n, m) PROVE SilenceShort'
  <2>1. chan' = [chan EXCEPT ![n][m] = Nothing] /\ UNCHANGED <<rep, expireIn, crashed, silent>>
    BY <1>3 DEF MissBeacon
  <2>2. \A k, l \in Nodes : chan'[k][l] \in {chan[k][l], Nothing}
    BY <2>1 DEF RepInv, TypeOK
  <2> QED BY <2>1, <2>2, ForgetSilence
<1>4. ASSUME NEW n \in Nodes, StopOperation(n) PROVE SilenceShort'
  <2>1. /\ rep' = [rep EXCEPT ![n].seq = 0, ![n].heard = NullVid]
        /\ expireIn' = [expireIn EXCEPT ![n] = NoTimer]
        /\ crashed' = IF n = Root THEN crashed ELSE crashed \cup {n}
        /\ UNCHANGED <<chan, silent>>
    BY <1>4 DEF StopOperation
  <2>2. crashed' = {} => /\ crashed = {} /\ n = Root
                         /\ \A k \in Relays : rep'[k] = rep[k] /\ expireIn'[k] = expireIn[k]
    BY <2>1, Constants DEF RepInv, TypeOK
  <2> QED BY <2>1, <2>2, ForgetSilence
<1>5. ASSUME NEW n \in Nodes, StartOperation(n) PROVE SilenceShort'
  <2>1. /\ ~up[n] /\ rep' = [rep EXCEPT ![n] = StartRep(n)]
        /\ UNCHANGED <<expireIn, chan, crashed, silent>>
    BY <1>5 DEF StartOperation
  <2>2. crashed' = {} => /\ crashed = {}
                         /\ \A k \in Relays : rep'[k] = rep[k] /\ expireIn'[k] = expireIn[k]
    BY <2>1, Constants DEF RepInv, TypeOK, DownCrashed
  <2> QED BY <2>1, <2>2, ForgetSilence
<1>6. CASE UNCHANGED vars
  BY <1>6, ForgetSilence DEF vars
<1> QED BY <1>1, <1>2, <1>3, <1>4, <1>5, <1>6, SendBeaconSilence, ReceiveBeaconSilence, TickSilence
     DEF Next

\* The delays of all relays are what the property allows.
LEMMA SilenceGives == RepInv /\ SilenceShort => SilentRootForgotten
<1> SUFFICES ASSUME RepInv, SilenceShort, crashed = {}, NEW n \in Relays, rep[n].heard # NullVid
             PROVE  silent <= IF ExcludeOld THEN Validity + (Cardinality(Relays) - 1) * BeaconMax
                                            ELSE Cardinality(Relays) * Validity
  BY DEF SilentRootForgotten
<1> DEFINE c == Cardinality(Relays)
<1>1. silent + Repeated <= HeardAge(n) + Delay(rep, rep[n].seq)
  BY DEF SilenceShort
<1>2. HeardAge(n) \in 0 .. Validity /\ silent \in Nat
  BY AgeType
<1>3. Delay(rep, rep[n].seq) \in Nat /\ Delay(rep, rep[n].seq) <= c * Repeated
  BY DelayType
<1>4. c \in Nat /\ c >= 1
  <2>1. Relays # {}
    OBVIOUS
  <2> QED BY <2>1, RelaysFinite, FS_EmptySet
<1>5. c * Repeated = (c - 1) * Repeated + Repeated /\ (c - 1) * Repeated \in Nat
  <2>1. c - 1 \in Nat /\ (c - 1) + 1 = c
    BY <1>4
  <2>2. ((c - 1) + 1) * Repeated = (c - 1) * Repeated + Repeated /\ (c - 1) * Repeated \in Nat
    BY <2>1, RepeatedType, Product
  <2> QED BY <2>1, <2>2
<1> HIDE DEF c
<1>6. silent <= Validity + (c - 1) * Repeated
  BY <1>1, <1>2, <1>3, <1>5, RepeatedType, Constants
<1>7. CASE ExcludeOld
  BY <1>6, <1>7 DEF Repeated, c
<1>8. CASE ~ExcludeOld
  <2>1. Repeated = Validity
    BY <1>8 DEF Repeated
  <2>2. silent <= c * Validity
    BY <1>2, <1>5, <1>6, <2>1, Constants
  <2> QED BY <1>8, <2>2 DEF c
<1> QED BY <1>7, <1>8

\* A root that has gone silent is forgotten by all relays, in every network
\* and with any loss of beacons, within the validity time and, for every
\* relay on the way, the time for which it repeats a number (Vlr.cc:524 keeps
\* that to one beacon interval).
THEOREM SilentRootIsForgotten == Spec => []SilentRootForgotten
BY Invariant, InitSilence, NextSilence, SilenceGives, PTL DEF Spec

-----------------------------------------------------------------------------
(* How old a number becomes when nothing fails                             *)

\* A relay c that has a number is told of a newer one in time: its rep parent
\* has one and a beacon that is due in time, or has the same number and has had
\* it for longer.
InTime(c) ==
  LET h == rep[c].heard
  IN  /\ {h, c} \in Links /\ h # c /\ rep[h].heard # NullVid
      /\ rep[c].seq <= rep[h].lastSeq
      /\ HeardAge(c) <= BeaconMax
      /\ chan[h][c] <= rep[c].seq /\ (rep[h].seq > rep[c].seq \/ h = Root \/ ~rep[h].unchanged)
           => beaconIn[h] + HeardAge(c) <= BeaconMax
      /\ h \in Relays /\ rep[h].seq = rep[c].seq => HeardAge(c) <= HeardAge(h)

\* What a beacon on its way says has been sent, over a link, by a node that
\* has a representative.
SentBefore ==
  \A n, m \in Nodes : chan[n][m] # Nothing =>
    {n, m} \in Links /\ n # m /\ rep[n].heard # NullVid /\ chan[n][m] <= rep[n].lastSeq

\* Nobody has crashed, and the root has no parent but itself.
AllUp ==
  /\ crashed = {} /\ \A n \in Nodes : up[n] /\ rep[n].lastSeq <= rep[n].seq
  /\ rep[Root].heard = Root /\ expireIn[Root] = NoTimer

CalmInv ==
  EarlyBeacon /\ calm =>
    AllUp /\ SentBefore /\ \A c \in Relays : rep[c].heard # NullVid => InTime(c)

\* What the types say of a node and a beacon.
LEMMA NodeType ==
  ASSUME RepInv, NEW n \in Nodes
  PROVE  /\ rep[n].seq \in Nat /\ rep[n].lastSeq \in Nat /\ rep[n].unchanged \in BOOLEAN
         /\ rep[n].heard \in Nodes \cup {NullVid}
         /\ up[n] => beaconIn[n] \in 0 .. BeaconMax
         /\ \A m \in Nodes : chan[n][m] \in Nat
<1>1. rep[n] \in RepType /\ beaconIn[n] \in NoTimer .. BeaconMax
  BY DEF RepInv, TypeOK
<1>2. up[n] => beaconIn[n] # NoTimer
  BY DEF RepInv, TypeOK
<1>3. up[n] => beaconIn[n] \in 0 .. BeaconMax
  BY <1>1, <1>2, Constants
<1>4. \A m \in Nodes : chan[n][m] \in Nat
  BY Constants DEF RepInv, TypeOK
<1> QED BY <1>1, <1>3, <1>4, Constants DEF RepType

\* At first nobody has a number.
LEMMA InitCalm == Init => CalmInv
<1> SUFFICES ASSUME Init PROVE CalmInv
  OBVIOUS
<1>1. /\ \A n \in Nodes : rep[n] = StartRep(n) /\ up[n] /\ expireIn[n] = NoTimer
      /\ \A n, m \in Nodes : chan[n][m] = Nothing
      /\ crashed = {}
  BY DEF Init
<1>2. /\ \A n \in Nodes : rep[n].seq = 0 /\ rep[n].lastSeq = 0
      /\ rep[Root].heard = Root /\ \A n \in Relays : rep[n].heard = NullVid
  <2>1. ASSUME NEW n \in Nodes
        PROVE  /\ rep[n].seq = 0 /\ rep[n].lastSeq = 0
               /\ rep[n].heard = IF n = Root THEN Root ELSE NullVid
    <3> DEFINE heard == IF n = Root THEN Root ELSE NullVid
    <3>1. rep[n] = [seq |-> 0, heard |-> heard, lastSeq |-> 0, unchanged |-> FALSE]
      BY <1>1 DEF StartRep
    <3> HIDE DEF heard
    <3>2. rep[n].seq = 0 /\ rep[n].lastSeq = 0 /\ rep[n].heard = heard
      BY <3>1
    <3> QED BY <3>2 DEF heard
  <2> QED BY <2>1, Constants
<1>3. AllUp
  BY <1>1, <1>2, Constants DEF AllUp
<1>4. SentBefore /\ \A c \in Relays : rep[c].heard # NullVid => InTime(c)
  BY <1>1, <1>2 DEF SentBefore
<1> QED BY <1>3, <1>4 DEF CalmInv

(* The beacon of a rep parent tells a child of a newer number; a parent    *)
(* that has none tells it that nothing has changed.                        *)
LEMMA SendBeaconCalm ==
  ASSUME RepInv, CalmInv, EarlyBeacon, calm, NEW n \in Nodes, SendBeacon(n)
  PROVE  AllUp' /\ SentBefore' /\ \A c \in Relays : rep'[c].heard # NullVid => InTime(c)'
<1> DEFINE info == IF rep[n].heard = NullVid \/ LeftOut(n) THEN Nothing ELSE rep'[n].seq
           seq == IF n = Root THEN rep[n].seq + 1 ELSE rep[n].seq
<1>1. /\ beaconIn[n] = 0
      /\ rep' = [rep EXCEPT ![n] = BeaconRep(n)]
      /\ chan' = [chan EXCEPT ![n] = [m \in Nodes |-> IF {n, m} \in Links /\ m # n
                                                      THEN info ELSE Nothing]]
      /\ UNCHANGED <<up, expireIn, crashed>>
  BY DEF SendBeacon
<1>2. PICK d \in BeaconInterval - MaxJitter .. BeaconMax : beaconIn' = [beaconIn EXCEPT ![n] = d]
  BY DEF SendBeacon
<1>3. /\ beaconIn'[n] = d /\ d <= BeaconMax
      /\ \A k \in Nodes \ {n} : /\ beaconIn'[k] = beaconIn[k] /\ rep'[k] = rep[k]
                                /\ \A m \in Nodes : chan'[k][m] = chan[k][m]
      /\ \A m \in Nodes : chan'[n][m] = IF {n, m} \in Links /\ m # n THEN info ELSE Nothing
      /\ rep'[n] = BeaconRep(n)
  BY <1>1, <1>2, Constants DEF RepInv, TypeOK
<1>4. /\ AllUp /\ SentBefore /\ \A c \in Relays : rep[c].heard # NullVid => InTime(c)
  BY DEF CalmInv
<1>5. /\ rep[n].heard # NullVid => /\ rep'[n].seq = seq /\ rep'[n].lastSeq = seq
                                   /\ rep'[n].unchanged = (seq = rep[n].lastSeq)
      /\ rep[n].heard = NullVid => rep'[n].seq = rep[n].seq /\ rep'[n].lastSeq = rep[n].lastSeq
      /\ rep'[n].heard = rep[n].heard
  <2>1. rep[n] \in RepType
    BY DEF RepInv, TypeOK
  <2> HIDE DEF seq
  <2>2. rep[n].heard = NullVid => BeaconRep(n) = [rep[n] EXCEPT !.unchanged = FALSE]
    BY DEF BeaconRep
  <2>3. rep[n].heard # NullVid =>
          BeaconRep(n) = [rep[n] EXCEPT !.seq = seq, !.lastSeq = seq, !.unchanged = (seq = rep[n].lastSeq)]
    BY DEF BeaconRep, seq
  <2>4. CASE rep[n].heard = NullVid
    BY <1>3, <2>1, <2>2, <2>4 DEF RepType
  <2>5. CASE rep[n].heard # NullVid
    <3> DEFINE same == (seq = rep[n].lastSeq)
    <3>1. rep'[n] = [rep[n] EXCEPT !.seq = seq, !.lastSeq = seq, !.unchanged = same]
      BY <1>3, <2>3, <2>5
    <3> HIDE DEF same
    <3>2. /\ rep'[n].seq = seq /\ rep'[n].lastSeq = seq /\ rep'[n].unchanged = same
          /\ rep'[n].heard = rep[n].heard
      BY <2>1, <3>1 DEF RepType
    <3> QED BY <2>5, <3>2 DEF same
  <2> QED BY <2>4, <2>5
<1>6. \A k \in Nodes : rep'[k].heard = rep[k].heard /\ (k # Root => rep'[k].seq = rep[k].seq)
  BY <1>3, <1>5
<1>7. rep[n].heard # NullVid => ~LeftOut(n) /\ info = seq
  <2>1. CASE n = Root
    BY <1>5, <2>1 DEF LeftOut
  <2>2. CASE n # Root /\ rep[n].heard # NullVid
    <3>1. n \in Relays /\ HeardAge(n) <= BeaconMax /\ HeardAge(n) \in 0 .. Validity
      BY <1>4, <2>2, AgeType DEF InTime, Relays
    <3>2. ~LeftOut(n)
      BY <3>1, Constants DEF LeftOut
    <3> QED BY <1>5, <2>2, <3>2
  <2> QED BY <2>1, <2>2
<1>8. /\ \A k, m \in Nodes : rep[k].seq \in Nat /\ rep[k].lastSeq \in Nat /\ chan[k][m] \in Nat
      /\ seq \in Nat /\ rep[n].seq <= seq /\ (n = Root => rep[n].seq < seq)
  BY NodeType
<1>9. \A k \in Nodes : rep[k].lastSeq <= rep'[k].lastSeq /\ rep'[k].lastSeq <= rep'[k].seq
  <2>1. ASSUME NEW k \in Nodes
        PROVE  rep[k].lastSeq <= rep'[k].lastSeq /\ rep'[k].lastSeq <= rep'[k].seq
    <3>1. rep[k].lastSeq <= rep[k].seq
      BY <1>4 DEF AllUp
    <3>2. CASE k # n
      BY <1>3, <1>8, <3>1, <3>2
    <3>3. CASE k = n /\ rep[n].heard = NullVid
      BY <1>5, <1>8, <3>1, <3>3
    <3>4. CASE k = n /\ rep[n].heard # NullVid
      <4> HIDE DEF seq
      <4> QED BY <1>5, <1>8, <3>1, <3>4
    <3> QED BY <3>2, <3>3, <3>4
  <2> QED BY <2>1
<1>10. AllUp'
  BY <1>1, <1>4, <1>6, <1>9, Constants DEF AllUp
<1> HIDE DEF seq, info
<1>11. SentBefore'
  <2>1. ASSUME NEW k \in Nodes, NEW m \in Nodes, chan'[k][m] # Nothing
        PROVE  {k, m} \in Links /\ k # m /\ rep'[k].heard # NullVid /\ chan'[k][m] <= rep'[k].lastSeq
    <3>1. CASE k # n
      BY <1>3, <1>4, <2>1, <3>1 DEF SentBefore
    <3>2. CASE k = n
      <4>1. {n, m} \in Links /\ m # n /\ chan'[k][m] = info /\ info # Nothing
        BY <1>3, <2>1, <3>2
      <4>2. rep[n].heard # NullVid
        BY <4>1 DEF info
      <4> QED BY <1>5, <1>7, <1>8, <3>2, <4>1, <4>2
    <3> QED BY <3>1, <3>2
  <2> QED BY <2>1 DEF SentBefore
<1>12. ASSUME NEW c \in Relays, rep'[c].heard # NullVid
       PROVE  InTime(c)'
  <2>0. rep[c].heard \in Nodes /\ InTime(c)
    BY <1>4, <1>6, <1>12, NodeType, Constants
  <2>1. PICK h \in Nodes : h = rep[c].heard /\ c \in Nodes /\ c # Root
    BY <2>0, Constants
  <2>2. /\ rep'[c].heard = h /\ rep'[c].seq = rep[c].seq /\ HeardAge(c)' = HeardAge(c)
        /\ rep'[h].heard = rep[h].heard /\ (h # Root => rep'[h].seq = rep[h].seq)
        /\ HeardAge(h)' = HeardAge(h)
    BY <1>1, <1>6, <2>1 DEF HeardAge
  <2>3. /\ {h, c} \in Links /\ h # c /\ rep[h].heard # NullVid /\ rep[c].seq <= rep[h].lastSeq
        /\ HeardAge(c) <= BeaconMax
        /\ chan[h][c] <= rep[c].seq /\ (rep[h].seq > rep[c].seq \/ h = Root \/ ~rep[h].unchanged)
             => beaconIn[h] + HeardAge(c) <= BeaconMax
        /\ h \in Relays /\ rep[h].seq = rep[c].seq => HeardAge(c) <= HeardAge(h)
    BY <2>0, <2>1 DEF InTime
  <2>4. rep[c].seq <= rep'[h].lastSeq
    <3>1. rep[h].lastSeq <= rep'[h].lastSeq /\ rep[h].lastSeq \in Nat /\ rep[c].seq \in Nat
      BY <1>8, <1>9, <2>1
    <3>2. rep'[h].lastSeq \in Nat
      BY <1>3, <1>5, <1>8, <2>1
    <3> QED BY <2>3, <3>1, <3>2
  <2>5. ASSUME chan'[h][c] <= rep[c].seq,
               rep'[h].seq > rep[c].seq \/ h = Root \/ ~rep'[h].unchanged
        PROVE  beaconIn'[h] + HeardAge(c) <= BeaconMax
    <3>1. CASE h # n
      BY <1>3, <2>1, <2>3, <2>5, <3>1
    <3>2. CASE h = n
      <4>1. chan'[h][c] = seq /\ seq <= rep[c].seq
        BY <1>3, <1>7, <2>1, <2>3, <2>5, <3>2
      <4>2. rep[c].seq <= rep[n].lastSeq /\ rep[n].lastSeq <= rep[n].seq
        BY <1>4, <2>1, <2>3, <3>2 DEF AllUp
      <4>3. seq = rep[c].seq /\ seq = rep[n].lastSeq /\ n # Root
        BY <1>8, <2>1, <4>1, <4>2
      <4>4. rep'[h].seq = rep[c].seq /\ rep'[h].unchanged
        BY <1>5, <2>3, <3>2, <4>3
      <4>4a. rep'[h].seq = rep[c].seq
        BY <4>4
      <4>5. ~(rep'[h].seq > rep[c].seq) /\ h # Root
        <5>1. rep[c].seq \in Nat
          BY <1>8, <2>1
        <5>2. h # Root
          BY <3>2, <4>3
        <5> QED BY <4>4a, <5>1, <5>2
      <4> QED BY <2>5, <4>4, <4>5, Zenon
    <3> QED BY <3>1, <3>2
  <2>6. h \in Relays /\ rep'[h].seq = rep[c].seq => HeardAge(c) <= HeardAge(h)
    BY <2>2, <2>3, Constants
  <2> QED BY <2>1, <2>2, <2>3, <2>4, <2>5, <2>6 DEF InTime, HeardAge
<1> QED BY <1>10, <1>11, <1>12

(* A number that is taken comes from a beacon just sent, and is told soon  *)
(* to the children that have heard nothing new.                            *)
LEMMA ReceiveBeaconCalm ==
  ASSUME RepInv, CalmInv, EarlyBeacon, calm, NEW n \in Nodes, NEW m \in Nodes,
         ReceiveBeacon(n, m)
  PROVE  AllUp' /\ SentBefore' /\ \A c \in Relays : rep'[c].heard # NullVid => InTime(c)'
<1> DEFINE s == chan[n][m]
<1>1. /\ s # Nothing /\ s \in Nat /\ chan' = [chan EXCEPT ![n][m] = Nothing]
      /\ UNCHANGED <<up, crashed>>
  BY NodeType DEF ReceiveBeacon
<1>2. /\ AllUp /\ SentBefore /\ \A c \in Relays : rep[c].heard # NullVid => InTime(c)
  BY DEF CalmInv
<1>3. /\ chan'[n][m] = Nothing
      /\ \A k, l \in Nodes : k # n \/ l # m => chan'[k][l] = chan[k][l]
  BY <1>1 DEF RepInv, TypeOK
<1>4. /\ {n, m} \in Links /\ n # m /\ rep[n].heard # NullVid /\ s <= rep[n].lastSeq
  BY <1>1, <1>2 DEF SentBefore
<1> HIDE DEF s
<1>5. CASE ~Accepts(m, s)
  <2>1. UNCHANGED <<rep, expireIn, beaconIn>>
    BY <1>5 DEF ReceiveBeacon, s
  <2>2. AllUp'
    BY <1>1, <1>2, <2>1 DEF AllUp
  <2>3. SentBefore'
    BY <1>2, <1>3, <2>1 DEF SentBefore
  <2>4. ASSUME NEW c \in Relays, rep'[c].heard # NullVid
        PROVE  InTime(c)'
    <3>0. InTime(c) /\ rep[c].heard \in Nodes
      BY <1>2, <2>1, <2>4, NodeType, Constants
    <3>1. PICK h \in Nodes : h = rep[c].heard /\ c \in Nodes /\ c # Root
      BY <3>0, Constants
    <3>2. chan'[h][c] <= rep[c].seq => chan[h][c] <= rep[c].seq
      <4>1. CASE h = n /\ c = m
        <5>1. ~(s > rep[m].seq) /\ rep[m].seq \in Nat
          BY <1>5, <3>1, <4>1, NodeType DEF Accepts
        <5> QED BY <1>1, <4>1, <5>1 DEF s
      <4>2. CASE ~(h = n /\ c = m)
        BY <1>3, <3>1, <4>2
      <4> QED BY <4>1, <4>2
    <3> QED BY <2>1, <3>0, <3>1, <3>2 DEF InTime, HeardAge
  <2> QED BY <2>2, <2>3, <2>4
<1>6. CASE Accepts(m, s)
  <2>1. /\ rep' = [rep EXCEPT ![m].seq = s, ![m].heard = n]
        /\ expireIn' = [expireIn EXCEPT ![m] = Validity]
        /\ beaconIn' = IF EarlyBeacon /\ rep[m].unchanged
                       THEN [beaconIn EXCEPT ![m] = 0] ELSE beaconIn
    BY <1>2, <1>6 DEF ReceiveBeacon, AllUp, s
  <2>2. m \in Relays /\ s > rep[m].seq /\ m # Root
    BY <1>6 DEF Accepts, Relays
  <2>3. /\ rep'[m].seq = s /\ rep'[m].heard = n /\ rep'[m].lastSeq = rep[m].lastSeq
        /\ rep'[m].unchanged = rep[m].unchanged
        /\ \A k \in Nodes \ {m} : rep'[k] = rep[k]
    BY <2>1 DEF RepInv, TypeOK, RepType
  <2>4. /\ expireIn'[m] = Validity /\ \A k \in Nodes \ {m} : expireIn'[k] = expireIn[k]
    BY <2>1 DEF RepInv, TypeOK
  <2>5. /\ \A k \in Nodes \ {m} : beaconIn'[k] = beaconIn[k]
        /\ rep[m].unchanged => beaconIn'[m] = 0
        /\ ~rep[m].unchanged => beaconIn'[m] = beaconIn[m]
    BY <2>1 DEF RepInv, TypeOK
  <2>6. \A k \in Nodes : rep[k].seq \in Nat /\ rep[k].lastSeq \in Nat
                         /\ beaconIn[k] \in 0 .. BeaconMax
    BY <1>2, NodeType DEF AllUp
  <2>7. rep[m].lastSeq <= rep[m].seq
    BY <1>2 DEF AllUp
  <2>8. AllUp'
    <3>1. rep'[m].lastSeq <= rep'[m].seq
      BY <1>1, <2>2, <2>3, <2>6, <2>7
    <3>2. \A k \in Nodes : up'[k] /\ rep'[k].lastSeq <= rep'[k].seq
      BY <1>1, <1>2, <2>3, <3>1 DEF AllUp
    <3>3. rep'[Root] = rep[Root] /\ expireIn'[Root] = expireIn[Root]
      BY <2>2, <2>3, <2>4, Constants
    <3> QED BY <1>1, <1>2, <3>2, <3>3 DEF AllUp
  <2>9. SentBefore'
    <3>1. \A k \in Nodes : rep'[k].lastSeq = rep[k].lastSeq
                           /\ (rep[k].heard # NullVid => rep'[k].heard # NullVid)
      BY <2>3, Constants
    <3> QED BY <1>2, <1>3, <3>1 DEF SentBefore
  <2>10. ASSUME NEW c \in Relays, rep'[c].heard # NullVid, c = m
         PROVE  InTime(c)'
    <3>1. HeardAge(m)' = 0
      BY <2>4, Constants DEF HeardAge
    <3>2. rep'[n] = rep[n] /\ beaconIn'[n] = beaconIn[n] /\ expireIn'[n] = expireIn[n]
      BY <1>4, <2>3, <2>4, <2>5
    <3>3. beaconIn'[n] + HeardAge(m)' <= BeaconMax /\ HeardAge(m)' <= BeaconMax
      BY <2>6, <3>1, <3>2, Constants
    <3>4. n \in Relays => HeardAge(m)' <= HeardAge(n)'
      BY <1>4, <3>1, <3>2, AgeType DEF HeardAge
    <3>5. s <= rep'[n].lastSeq
      BY <1>4, <3>2
    <3> QED BY <1>4, <2>3, <2>10, <3>2, <3>3, <3>4, <3>5 DEF InTime
  <2>11. ASSUME NEW c \in Relays, rep'[c].heard # NullVid, c # m
         PROVE  InTime(c)'
    <3>1. c \in Nodes /\ rep'[c] = rep[c] /\ HeardAge(c)' = HeardAge(c)
      BY <2>3, <2>4, <2>11, Constants DEF HeardAge
    <3>1a. InTime(c) /\ rep[c].heard \in Nodes
      BY <1>2, <2>11, <3>1, NodeType
    <3>2. PICK h \in Nodes : h = rep[c].heard
      BY <3>1a
    <3>3. /\ {h, c} \in Links /\ h # c /\ rep[h].heard # NullVid /\ rep[c].seq <= rep[h].lastSeq
          /\ HeardAge(c) <= BeaconMax
          /\ chan[h][c] <= rep[c].seq /\ (rep[h].seq > rep[c].seq \/ h = Root \/ ~rep[h].unchanged)
               => beaconIn[h] + HeardAge(c) <= BeaconMax
          /\ h \in Relays /\ rep[h].seq = rep[c].seq => HeardAge(c) <= HeardAge(h)
      BY <3>1a, <3>2 DEF InTime
    <3>4. chan'[h][c] = chan[h][c] /\ rep'[h].lastSeq = rep[h].lastSeq /\ rep'[h].heard # NullVid
      BY <1>3, <2>3, <2>11, <3>2, <3>3, Constants
    <3>5. CASE h # m
      <4>1. rep'[h] = rep[h] /\ beaconIn'[h] = beaconIn[h] /\ HeardAge(h)' = HeardAge(h)
        BY <2>3, <2>4, <2>5, <3>2, <3>5 DEF HeardAge
      <4>2. rep'[c].heard = h
        BY <3>1, <3>2
      <4> QED BY <3>1, <3>3, <3>4, <4>1, <4>2 DEF InTime, HeardAge
    <3>6. CASE h = m
      <4>1. rep'[c].heard = h /\ rep'[c].seq = rep[c].seq /\ rep'[h].seq > rep[c].seq
        <5>1. rep[c].seq \in Nat /\ rep[c].seq <= rep[m].lastSeq
          BY <2>6, <3>1, <3>3, <3>6
        <5>2. s > rep[c].seq
          BY <1>1, <2>2, <2>6, <2>7, <5>1
        <5> QED BY <2>3, <3>1, <3>2, <3>6, <5>2
      <4>2. rep'[h].seq # rep[c].seq
        BY <1>1, <2>3, <2>6, <3>1, <3>6, <4>1
      <4>3. HeardAge(c) \in Nat
        BY <2>11, <3>1, AgeType, Constants
      <4>4. chan'[h][c] <= rep[c].seq => beaconIn'[h] + HeardAge(c) <= BeaconMax
        BY <2>5, <3>3, <3>4, <3>6, <4>3, Constants
      <4> QED BY <3>1, <3>3, <3>4, <4>1, <4>2, <4>4 DEF InTime, HeardAge
    <3> QED BY <3>5, <3>6
  <2> QED BY <2>8, <2>9, <2>10, <2>11
<1> QED BY <1>5, <1>6

(* No number becomes too old: the oldest of those that would have, nearest *)
(* to the root, has a rep parent that should have told a newer one.        *)
LEMMA TickCalm ==
  ASSUME RepInv, CalmInv, EarlyBeacon, calm, Tick
  PROVE  AllUp' /\ SentBefore' /\ \A c \in Relays : rep'[c].heard # NullVid => InTime(c)'
<1>1. /\ \A n, m \in Nodes : chan[n][m] = Nothing
      /\ \A n \in Nodes : 0 \notin {beaconIn[n], expireIn[n], observeIn[n]}
      /\ beaconIn' = Later(beaconIn) /\ expireIn' = Later(expireIn)
      /\ UNCHANGED <<up, rep, chan, crashed>>
  BY DEF Tick
<1>2. /\ AllUp /\ SentBefore /\ \A c \in Relays : rep[c].heard # NullVid => InTime(c)
  BY DEF CalmInv
<1>3. \A n \in Nodes : beaconIn[n] \in 1 .. BeaconMax /\ beaconIn'[n] = beaconIn[n] - 1
  <2>1. \A n \in Nodes : beaconIn[n] \in 0 .. BeaconMax /\ beaconIn[n] # 0
    BY <1>1, <1>2, NodeType DEF AllUp
  <2> QED BY <1>1, <2>1, Constants DEF Later
<1>4. ASSUME NEW c \in Relays, rep[c].heard # NullVid
      PROVE  HeardAge(c) \in Nat /\ HeardAge(c)' = HeardAge(c) + 1
  <2>1. expireIn[c] \in 0 .. Validity /\ HeardAge(c) \in 0 .. Validity
    BY <1>4, AgeType
  <2>2. expireIn'[c] = expireIn[c] - 1
    BY <1>1, <2>1, Constants DEF Later
  <2> QED BY <2>1, <2>2, Constants DEF HeardAge
<1>5. ASSUME NEW c \in Relays, rep[c].heard # NullVid
      PROVE  LET h == rep[c].heard
             IN  /\ h \in Nodes /\ {h, c} \in Links /\ h # c /\ rep[h].heard # NullVid
                 /\ rep[c].seq <= rep[h].lastSeq /\ HeardAge(c) <= BeaconMax
                 /\ rep[h].seq > rep[c].seq \/ h = Root \/ ~rep[h].unchanged
                      => beaconIn[h] + HeardAge(c) <= BeaconMax
                 /\ h \in Relays /\ rep[h].seq = rep[c].seq => HeardAge(c) <= HeardAge(h)
  <2>1. InTime(c) /\ rep[c].heard \in Nodes /\ c \in Nodes /\ rep[c].seq \in Nat
    BY <1>2, <1>5, NodeType, Constants
  <2>2. chan[rep[c].heard][c] <= rep[c].seq
    BY <1>1, <2>1, Constants
  <2> QED BY <2>1, <2>2 DEF InTime
<1>6. ASSUME NEW c \in Relays, rep[c].heard # NullVid
      PROVE  HeardAge(c) < BeaconMax
  <2> DEFINE S == {k \in Relays : rep[k].heard # NullVid /\ HeardAge(k) = BeaconMax}
  <2>0. HeardAge(c) \in Nat /\ HeardAge(c) <= BeaconMax
    BY <1>4, <1>5, <1>6
  <2>1. SUFFICES ASSUME HeardAge(c) = BeaconMax PROVE FALSE
    BY <2>0, Constants
  <2>2. S \in (SUBSET Relays) \ {{}}
    BY <1>6, <2>1
  <2>3. \E k \in S : rep[k].heard \notin S
    <3> HIDE DEF S
    <3> QED BY <1>2, <2>2 DEF RepInv, RepPathAcyclic, AllUp
  <2>4. PICK k \in S : rep[k].heard \notin S
    BY <2>3
  <2> DEFINE h == rep[k].heard
  <2>5. k \in Relays /\ rep[k].heard # NullVid /\ HeardAge(k) = BeaconMax
    BY <2>4
  <2>6. /\ h \in Nodes /\ rep[h].heard # NullVid /\ rep[k].seq <= rep[h].lastSeq
        /\ rep[h].seq > rep[k].seq \/ h = Root => beaconIn[h] + HeardAge(k) <= BeaconMax
        /\ h \in Relays /\ rep[h].seq = rep[k].seq => HeardAge(k) <= HeardAge(h)
    BY <1>5, <2>5
  <2>7. h \in Relays => HeardAge(h) \in Nat /\ HeardAge(h) # BeaconMax /\ HeardAge(h) <= BeaconMax
    BY <1>4, <1>5, <2>4, <2>6
  <2> HIDE DEF h, S
  <2>8. beaconIn[h] \in 1 .. BeaconMax
    BY <1>3, <2>6
  <2>9. ~(rep[h].seq > rep[k].seq) /\ h # Root
    BY <2>5, <2>6, <2>8, Constants
  <2>10. h \in Relays
    BY <2>6, <2>9 DEF Relays
  <2>11. rep[h].seq = rep[k].seq
    <3>1. rep[h].lastSeq <= rep[h].seq
      BY <1>2, <2>6 DEF AllUp
    <3>2. rep[h].seq \in Nat /\ rep[k].seq \in Nat /\ rep[h].lastSeq \in Nat
      BY <2>5, <2>6, NodeType, Constants
    <3> QED BY <2>6, <2>9, <3>1, <3>2
  <2>12. BeaconMax <= HeardAge(h)
    BY <2>5, <2>6, <2>10, <2>11
  <2> QED BY <2>7, <2>10, <2>12, Constants
<1>7. AllUp'
  <2>1. expireIn'[Root] = NoTimer
    BY <1>1, <1>2, Constants DEF AllUp, Later
  <2> QED BY <1>1, <1>2, <2>1 DEF AllUp
<1>8. SentBefore'
  BY <1>1 DEF SentBefore
<1>9. ASSUME NEW c \in Relays, rep'[c].heard # NullVid
      PROVE  InTime(c)'
  <2>1. rep[c].heard # NullVid /\ rep[c].heard \in Nodes
    BY <1>1, <1>5, <1>9
  <2>2. PICK h \in Nodes : h = rep[c].heard
    BY <2>1
  <2>2a.
        /\ {h, c} \in Links /\ h # c /\ rep[h].heard # NullVid
        /\ rep[c].seq <= rep[h].lastSeq
        /\ rep[h].seq > rep[c].seq \/ h = Root \/ ~rep[h].unchanged
             => beaconIn[h] + HeardAge(c) <= BeaconMax
        /\ h \in Relays /\ rep[h].seq = rep[c].seq => HeardAge(c) <= HeardAge(h)
    BY <1>5, <2>1, <2>2
  <2>3. HeardAge(c) \in Nat /\ HeardAge(c)' = HeardAge(c) + 1 /\ HeardAge(c) < BeaconMax
    BY <1>4, <1>6, <2>1
  <2>4. rep'[c].heard = h
    BY <1>1, <2>2
  <2>5. HeardAge(c)' <= BeaconMax
    BY <2>3, Constants
  <2>6. beaconIn[h] + HeardAge(c) <= BeaconMax => beaconIn'[h] + HeardAge(c)' <= BeaconMax
    BY <1>3, <2>2, <2>3, Constants
  <2>7. h \in Relays => HeardAge(h) \in Nat /\ HeardAge(h)' = HeardAge(h) + 1
    BY <1>4, <2>2a
  <2>8. h \in Relays /\ rep[h].seq = rep[c].seq => HeardAge(c)' <= HeardAge(h)'
    BY <2>2a, <2>3, <2>7
  <2> QED BY <1>1, <2>2a, <2>4, <2>5, <2>6, <2>8 DEF InTime, HeardAge
<1> QED BY <1>7, <1>8, <1>9

\* Every step keeps CalmInv.
LEMMA NextCalm == RepInv /\ CalmInv /\ [Next]_vars => CalmInv'
<1> SUFFICES ASSUME RepInv, CalmInv, [Next]_vars, EarlyBeacon, calm'
             PROVE  AllUp' /\ SentBefore' /\ \A c \in Relays : rep'[c].heard # NullVid => InTime(c)'
  BY DEF CalmInv
<1>1. ASSUME NEW n \in Nodes, RepSeqExpiration(n) PROVE FALSE
  <2>1. expireIn[n] = 0 /\ calm
    BY <1>1 DEF RepSeqExpiration
  <2>2. AllUp /\ \A c \in Relays : rep[c].heard # NullVid => InTime(c)
    BY <2>1 DEF CalmInv
  <2>3. n \in Relays
    BY <2>1, <2>2, Constants DEF AllUp, Relays
  <2>4. rep[n].heard # NullVid
    BY <2>1, <2>3, Constants DEF RepInv, TypeOK
  <2>5. HeardAge(n) <= BeaconMax
    BY <2>2, <2>3, <2>4 DEF InTime
  <2> QED BY <2>1, <2>5, Constants DEF HeardAge
<1>2. ASSUME UNCHANGED <<up, beaconIn, rep, expireIn, chan, crashed, calm>>
      PROVE  AllUp' /\ SentBefore' /\ \A c \in Relays : rep'[c].heard # NullVid => InTime(c)'
  <2>1. AllUp /\ SentBefore /\ \A c \in Relays : rep[c].heard # NullVid => InTime(c)
    BY <1>2 DEF CalmInv
  <2>2. AllUp' /\ SentBefore'
    BY <1>2, <2>1 DEF AllUp, SentBefore
  <2>3. \A c \in Relays : rep'[c].heard # NullVid => InTime(c)'
    BY <1>2, <2>1 DEF InTime, HeardAge
  <2> QED BY <2>2, <2>3
<1>3. ASSUME NEW n \in Nodes, StopOperation(n) PROVE FALSE
  BY <1>3 DEF StopOperation
<1>4. ASSUME NEW n \in Nodes, NEW m \in Nodes, MissBeacon(n, m) PROVE FALSE
  BY <1>4 DEF MissBeacon
<1>5. ASSUME NEW n \in Nodes, StartOperation(n) PROVE FALSE
  BY <1>5 DEF StartOperation, CalmInv, AllUp
<1>6. ASSUME NEW n \in Nodes, RepSeqObserve(n)
      PROVE  UNCHANGED <<up, beaconIn, rep, expireIn, chan, crashed, calm>>
  BY <1>6 DEF RepSeqObserve
<1>7. UNCHANGED vars => UNCHANGED <<up, beaconIn, rep, expireIn, chan, crashed, calm>>
  BY DEF vars
<1>8. ASSUME NEW n \in Nodes, SendBeacon(n) PROVE calm
  BY <1>8 DEF SendBeacon
<1>9. ASSUME NEW n \in Nodes, NEW m \in Nodes, ReceiveBeacon(n, m) PROVE calm
  BY <1>9 DEF ReceiveBeacon
<1>10. Tick => calm
  BY DEF Tick
<1> QED BY <1>1, <1>2, <1>3, <1>4, <1>5, <1>6, <1>7, <1>8, <1>9, <1>10,
           SendBeaconCalm, ReceiveBeaconCalm, TickCalm DEF Next

\* As long as nothing fails, no relay of any network loses a representative
\* that is there: the early beacon makes up for beacon times that are not
\* aligned, at any distance from the root (Vlr.ned:67).
THEOREM NoFalseExpiries == Spec => []NoFalseExpiry
<1>1. CalmInv => NoFalseExpiry
  BY DEF CalmInv, NoFalseExpiry, InTime
<1> QED BY <1>1, Invariant, InitCalm, NextCalm, PTL DEF Spec
=============================================================================
