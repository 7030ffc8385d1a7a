------------------------- MODULE VlrRepresentative -------------------------
(***************************************************************************)
(* The predefined representative of a VLR network (representativeFixed,    *)
(* routing/vlr/Vlr.cc).                                                    *)
(*                                                                         *)
(* The representative, Root, counts its beacons: each carries a new        *)
(* sequence number.  A relay takes a larger number than its own from a     *)
(* LINKED pnei, which becomes its rep parent (heardfromvid: the next hop   *)
(* of the rep-path), and repeats it in its own beacons.  A relay that has  *)
(* heard no new number for repSeqValidityInterval leaves the overlay.      *)
(*                                                                         *)
(* Time is counted in ticks.  A timer is the number of ticks left, and     *)
(* time passes only when every timer that is due has fired and every       *)
(* beacon in flight has arrived: flights, and the 0.1 s of an early        *)
(* beacon, are far shorter than a tick.  A beacon that is not heard stands *)
(* for one that is lost and for one from a pnei that is not LINKED.        *)
(***************************************************************************)
EXTENDS Integers, FiniteSets

CONSTANTS Nodes, Root, NullVid,
          Links,          \* sets of two nodes
          BeaconInterval, MaxJitter,
          Validity,       \* repSeqValidityInterval
          EarlyBeacon,    \* repFixedEarlyBeaconOnNewRepSeqNum
          ExcludeOld,     \* repBeaconExcludeOldRepSeqNum
          MaxSeq,         \* bound: the root must crash when it has counted so far
          MaxFaults       \* bound on beacons not heard and crashes of relays

ASSUME RepAssumption ==
  /\ Root \in Nodes /\ NullVid \notin Nodes /\ IsFiniteSet(Nodes)
  /\ {BeaconInterval, MaxJitter, Validity, MaxSeq, MaxFaults} \subseteq Nat
  /\ MaxJitter < BeaconInterval /\ BeaconInterval + MaxJitter < Validity
  /\ {EarlyBeacon, ExcludeOld} \subseteq BOOLEAN

VARIABLES
  up,        \* not selfNodeFailure
  beaconIn,  \* ticks until beaconTimer fires
  rep,       \* representative: sequencenumber, heardfromvid, lastBeaconSeqnum(Unchanged)
  expireIn,  \* ticks until repSeqExpirationTimer fires
  observeIn, \* ticks until repSeqObserveTimer fires
  chan,      \* chan[n][m]: the sequence number in the beacon on its way, or Nothing
  faults,    \* how many of MaxFaults have happened
  crashed,   \* the relays that have ever crashed
  calm,      \* has every beacon been heard, and has nobody crashed, so far?
  silent     \* ticks since the last beacon of the root

vars == <<up, beaconIn, rep, expireIn, observeIn, chan, faults, crashed, calm, silent>>

Relays    == Nodes \ {Root}
BeaconMax == BeaconInterval + MaxJitter
NoTimer   == -1
Nothing   == 0
\* silent is counted up to here
LongTime  == Cardinality(Relays) * Validity + 1

RepType == [seq : 0 .. MaxSeq, heard : Nodes \cup {NullVid},
            lastSeq : 0 .. MaxSeq, unchanged : BOOLEAN]

StartRep(n) == [seq |-> 0, heard |-> IF n = Root THEN Root ELSE NullVid,
                lastSeq |-> 0, unchanged |-> FALSE]

Init ==
  /\ up = [n \in Nodes |-> TRUE]
  /\ beaconIn \in [Nodes -> 0 .. BeaconInterval]
  /\ rep = [n \in Nodes |-> StartRep(n)]
  /\ expireIn = [n \in Nodes |-> NoTimer] /\ observeIn = [n \in Nodes |-> NoTimer]
  /\ chan = [n \in Nodes |-> [m \in Nodes |-> Nothing]]
  /\ faults = 0 /\ crashed = {} /\ calm = TRUE /\ silent = 0

-----------------------------------------------------------------------------
(* Beacons                                                                 *)

HeardAge(n) == Validity - expireIn[n]

\* mutant: old numbers are never left out
LeavesNothingOut(n) == FALSE

\* Is the sequence number left out of the beacon because it is not new?
LeftOut(n) == /\ ExcludeOld /\ n # Root
              /\ expireIn[n] # NoTimer /\ HeardAge(n) > BeaconMax

\* mutant: what was sent is not remembered
BeaconForgetsSent(n) ==
  LET seq == IF n = Root THEN rep[n].seq + 1 ELSE rep[n].seq
  IN  IF rep[n].heard = NullVid
      THEN [rep[n] EXCEPT !.unchanged = FALSE]
      ELSE [rep[n] EXCEPT !.seq = seq, !.unchanged = (seq = rep[n].lastSeq)]

\* mutant: the test for an unchanged number is the wrong way round
BeaconSwapsUnchanged(n) ==
  LET seq == IF n = Root THEN rep[n].seq + 1 ELSE rep[n].seq
  IN  IF rep[n].heard = NullVid
      THEN [rep[n] EXCEPT !.unchanged = FALSE]
      ELSE [rep[n] EXCEPT !.seq = seq, !.lastSeq = seq,
                          !.unchanged = (seq # rep[n].lastSeq)]

\* createBeacon: the root counts; what was sent is remembered also when it
\* is left out.
BeaconRep(n) ==
  LET seq == IF n = Root THEN rep[n].seq + 1 ELSE rep[n].seq
  IN  IF rep[n].heard = NullVid
      THEN [rep[n] EXCEPT !.unchanged = FALSE]
      ELSE [rep[n] EXCEPT !.seq = seq, !.lastSeq = seq,
                          !.unchanged = (seq = rep[n].lastSeq)]

\* processBeaconTimer
SendBeacon(n) ==
  /\ up[n] /\ beaconIn[n] = 0
  /\ \A m \in Nodes : chan[n][m] = Nothing
  /\ n = Root => rep[n].seq < MaxSeq
  /\ rep' = [rep EXCEPT ![n] = BeaconRep(n)]
  /\ LET info == IF rep[n].heard = NullVid \/ LeftOut(n) THEN Nothing ELSE rep'[n].seq
     IN  chan' = [chan EXCEPT ![n] = [m \in Nodes |-> IF {n, m} \in Links /\ m # n
                                                      THEN info ELSE Nothing]]
  /\ \E d \in BeaconInterval - MaxJitter .. BeaconMax : beaconIn' = [beaconIn EXCEPT ![n] = d]
  /\ silent' = IF n = Root THEN 0 ELSE silent
  /\ UNCHANGED <<up, expireIn, observeIn, faults, crashed, calm>>

\* mutant: a number as large as the own one is taken too
AcceptsEqual(m, seq) == m # Root /\ seq >= rep[m].seq

\* updateRepState at m for the number in a beacon of n: taken if it is new,
\* and told soon if the last beacon of m had nothing new to tell.
Accepts(m, seq) == m # Root /\ seq > rep[m].seq

ReceiveBeacon(n, m) ==
  /\ chan[n][m] # Nothing
  /\ chan' = [chan EXCEPT ![n][m] = Nothing]
  /\ IF up[m] /\ Accepts(m, chan[n][m])
     THEN /\ rep' = [rep EXCEPT ![m].seq = chan[n][m], ![m].heard = n]
          /\ expireIn' = [expireIn EXCEPT ![m] = Validity]
          /\ beaconIn' = IF EarlyBeacon /\ rep[m].unchanged
                         THEN [beaconIn EXCEPT ![m] = 0] ELSE beaconIn
     ELSE UNCHANGED <<rep, expireIn, beaconIn>>
  /\ UNCHANGED <<up, observeIn, faults, crashed, calm, silent>>

-----------------------------------------------------------------------------
(* Expiry                                                                  *)

\* mutant: the observation lasts longer than a number is valid
ObserveTooLong(n) ==
  /\ expireIn[n] = 0 /\ observeIn[n] # 0
  /\ rep' = [rep EXCEPT ![n].heard = NullVid]
  /\ expireIn' = [expireIn EXCEPT ![n] = NoTimer]
  /\ observeIn' = [observeIn EXCEPT ![n] = Validity + BeaconMax]
  /\ UNCHANGED <<up, beaconIn, chan, faults, crashed, calm, silent>>

\* processRepSeqExpirationTimer.  Both timers run for the same time: when both
\* are due, the observe timer was started first and fires first.
RepSeqExpiration(n) ==
  /\ expireIn[n] = 0 /\ observeIn[n] # 0
  /\ rep' = [rep EXCEPT ![n].heard = NullVid]
  /\ expireIn' = [expireIn EXCEPT ![n] = NoTimer]
  /\ observeIn' = [observeIn EXCEPT ![n] = Validity]
  /\ UNCHANGED <<up, beaconIn, chan, faults, crashed, calm, silent>>

\* processRepSeqObserveTimer
RepSeqObserve(n) ==
  /\ observeIn[n] = 0
  /\ observeIn' = [observeIn EXCEPT ![n] = NoTimer]
  /\ UNCHANGED <<up, beaconIn, rep, expireIn, chan, faults, crashed, calm, silent>>

-----------------------------------------------------------------------------
(* Crashes and restarts                                                    *)

\* handleStopOperation: clearState resets the number and the parent.
StopOperation(n) ==
  /\ up[n]
  /\ n # Root => faults < MaxFaults
  /\ up' = [up EXCEPT ![n] = FALSE]
  /\ rep' = [rep EXCEPT ![n].seq = 0, ![n].heard = NullVid]
  /\ beaconIn' = [beaconIn EXCEPT ![n] = NoTimer]
  /\ expireIn' = [expireIn EXCEPT ![n] = NoTimer]
  /\ observeIn' = [observeIn EXCEPT ![n] = NoTimer]
  /\ faults' = IF n = Root THEN faults ELSE faults + 1
  /\ crashed' = IF n = Root THEN crashed ELSE crashed \cup {n}
  /\ calm' = FALSE
  /\ UNCHANGED <<chan, silent>>

\* handleStartOperation: the numbers start again at 0, those of the root too.
StartOperation(n) ==
  /\ ~up[n]
  /\ up' = [up EXCEPT ![n] = TRUE]
  /\ rep' = [rep EXCEPT ![n] = StartRep(n)]
  /\ \E d \in 0 .. BeaconInterval : beaconIn' = [beaconIn EXCEPT ![n] = d]
  /\ UNCHANGED <<expireIn, observeIn, chan, faults, crashed, calm, silent>>

-----------------------------------------------------------------------------
(* The environment                                                         *)

MissBeacon(n, m) ==
  /\ chan[n][m] # Nothing /\ faults < MaxFaults
  /\ chan' = [chan EXCEPT ![n][m] = Nothing]
  /\ faults' = faults + 1 /\ calm' = FALSE
  /\ UNCHANGED <<up, beaconIn, rep, expireIn, observeIn, crashed, silent>>

Later(timer) == [n \in Nodes |-> IF timer[n] = NoTimer THEN NoTimer ELSE timer[n] - 1]

Tick ==
  /\ \A n, m \in Nodes : chan[n][m] = Nothing
  /\ \A n \in Nodes : 0 \notin {beaconIn[n], expireIn[n], observeIn[n]}
  /\ beaconIn' = Later(beaconIn) /\ expireIn' = Later(expireIn)
  /\ observeIn' = Later(observeIn)
  /\ silent' = IF silent < LongTime THEN silent + 1 ELSE silent
  /\ UNCHANGED <<up, rep, chan, faults, crashed, calm>>

Next == \/ \E n \in Nodes : \/ SendBeacon(n)
                            \/ RepSeqExpiration(n)
                            \/ RepSeqObserve(n)
                            \/ StopOperation(n)
                            \/ StartOperation(n)
        \/ \E n, m \in Nodes : ReceiveBeacon(n, m) \/ MissBeacon(n, m)
        \/ Tick

Spec == Init /\ [][Next]_vars

-----------------------------------------------------------------------------
(* Properties                                                              *)

\* The variables have their types, and a timer of the representative runs
\* exactly at the relays that have a valid one.
TypeOK ==
  /\ up \in [Nodes -> BOOLEAN] /\ calm \in BOOLEAN
  /\ rep \in [Nodes -> RepType]
  /\ beaconIn \in [Nodes -> NoTimer .. BeaconMax]
  /\ expireIn \in [Nodes -> NoTimer .. Validity]
  /\ observeIn \in [Nodes -> NoTimer .. Validity]
  /\ chan \in [Nodes -> [Nodes -> 0 .. MaxSeq]]
  /\ faults \in 0 .. MaxFaults /\ crashed \subseteq Relays
  /\ silent \in 0 .. LongTime
  /\ \A n \in Relays : (expireIn[n] # NoTimer) = (rep[n].heard # NullVid)
  /\ \A n \in Nodes : up[n] = (beaconIn[n] # NoTimer)

\* The rep-path never runs in a circle: no relays are each other's rep
\* parents, whatever beacons are lost and however often the root restarts
\* (findNextHop, Vlr.cc:8110, forwards on it), unless a relay has restarted.
RepPathAcyclic ==
  crashed = {} => \A S \in (SUBSET Relays) \ {{}} : \E n \in S : rep[n].heard \notin S

\* The same whoever restarts, as findNextHop assumes when it takes the rep-path
\* ("assume no loop in rep path", Vlr.cc:8106).  It does not hold: a relay that
\* restarts takes its old number back from its own child.
RepPathNeverLoops == \A S \in (SUBSET Relays) \ {{}} : \E n \in S : rep[n].heard \notin S

\* When the expiration timer fires, the observe timer that it schedules
\* (Vlr.cc:1143) is not running: scheduleAt throws if it is.
ObserveTimerFree ==
  \A n \in Nodes : expireIn[n] # NoTimer => expireIn[n] >= observeIn[n]

\* A number that is left out of a beacon for being old has been in one
\* before: createBeacon throws "Skipping repstate" otherwise (Vlr.cc:526).
SkippedWasSent ==
  \A n \in Relays : up[n] /\ beaconIn[n] = 0 /\ rep[n].heard # NullVid /\ LeftOut(n)
                      => rep[n].seq <= rep[n].lastSeq

\* A representative that has gone silent is forgotten: at distance k of it
\* after k times the validity time, or, with old numbers left out, one
\* beacon interval later at every hop.
SilentRootForgotten ==
  crashed = {} /\ (\E n \in Relays : rep[n].heard # NullVid)
    => silent <= IF ExcludeOld THEN Validity + (Cardinality(Relays) - 1) * BeaconMax
                               ELSE Cardinality(Relays) * Validity

\* As long as nothing fails, a relay at any distance hears a new number in
\* every beacon interval, though the beacon times of a rep parent and its
\* children are not aligned (what Vlr.ned:67 says the early beacon is for).
NoFalseExpiry ==
  EarlyBeacon /\ calm =>
    \A n \in Relays : rep[n].heard # NullVid => HeardAge(n) <= BeaconMax
=============================================================================
