------------------------------ MODULE VrrPset ------------------------------
(***************************************************************************)
(* Physical neighbours in VRR (routing/vlr/PsetTable.h, and the beacons of *)
(* routing/vrr/Vrr.cc).                                                    *)
(*                                                                         *)
(* Every node broadcasts a beacon that lists the pneis it hears.  A pnei   *)
(* whose beacon lists me is LINKED, another one is PENDING; one that has   *)
(* not been heard for neighborValidityInterval is purged.  The LINKED      *)
(* pneis of a LINKED pnei are my two-hop pneis, kept with the pnei         *)
(* (mpneis) and by two-hop pnei (mpneiToPneiMap).                          *)
(*                                                                         *)
(* Time is counted in ticks and passes only when every timer that is due   *)
(* has fired and every beacon in flight has arrived: a flight is far       *)
(* shorter than a tick.  A link that is cut, in one direction or both,     *)
(* loses the beacons sent over it; a packet that cannot be sent shows it.  *)
(***************************************************************************)
EXTENDS Integers, FiniteSets

CONSTANTS Nodes,
          Links,          \* sets of two nodes
          BeaconInterval, MaxJitter,
          Validity,       \* neighborValidityInterval
          Joiners,        \* the nodes whose selfInNetwork is followed
          NoEntry,
          MaxFaults       \* bound on beacons lost, links cut and crashes

ASSUME PsetAssumption ==
  /\ {BeaconInterval, MaxJitter, Validity, MaxFaults} \subseteq Nat
  /\ MaxJitter < BeaconInterval /\ BeaconInterval + MaxJitter < Validity
  /\ Joiners \subseteq Nodes /\ IsFiniteSet(Nodes)

VARIABLES
  up,        \* not selfNodeFailure
  inNetwork, \* selfInNetwork
  beaconIn,  \* ticks until beaconTimer fires
  purgeIn,   \* ticks until purgeNeighborsTimer fires
  pset,      \* psetTable.vidToStateMap
  viaPneis,  \* psetTable.mpneiToPneiMap
  chan,      \* chan[n][m]: the beacon on its way from n to m, or NoEntry
  cut,       \* the <<n, m>> such that nothing gets from n to m
  faults,    \* how many of MaxFaults have happened
  calmFor,   \* ticks since the last of them, or since a node or link came back
  heardAgo   \* heardAgo[n][m]: ticks since n was last reached by a beacon of m

vars == <<up, inNetwork, beaconIn, purgeIn, pset, viaPneis, chan, cut, faults, calmFor, heardAgo>>
envVars == <<up, inNetwork, cut, faults, calmFor>>

BeaconMax == BeaconInterval + MaxJitter
NoTimer   == -1
LongAgo   == 2 * Validity + 1   \* heardAgo is counted up to here
CalmTime  == 2 * BeaconMax + 1  \* calmFor is counted up to here
Works(n, m) == {n, m} \in Links /\ n # m /\ <<n, m>> \notin cut
MaxOf(S)  == CHOOSE x \in S : \A y \in S : x >= y

\* age is the time since lastHeard; hadInNet is hadBeenInNetwork.  The gate and
\* the last inNetwork flag of the pnei are left out.
Entry  == [state : {"PENDING", "LINKED"}, mpneis : SUBSET Nodes, hadInNet : BOOLEAN,
           age : 0 .. Validity]
Beacon == [listed : SUBSET Nodes, linked : SUBSET Nodes, inNetwork : BOOLEAN]

ASSUME NoEntryAssumption == NoEntry \notin Entry /\ NoEntry \notin Beacon

Init ==
  /\ up = [n \in Nodes |-> TRUE] /\ inNetwork = [n \in Nodes |-> FALSE]
  /\ beaconIn \in [Nodes -> 0 .. BeaconInterval]
  /\ purgeIn = [n \in Nodes |-> NoTimer]
  /\ pset = [n \in Nodes |-> [m \in Nodes |-> NoEntry]]
  /\ viaPneis = [n \in Nodes |-> [m \in Nodes |-> {}]]
  /\ chan = [n \in Nodes |-> [m \in Nodes |-> NoEntry]]
  /\ cut = {} /\ faults = 0 /\ calmFor = 0
  /\ heardAgo = [n \in Nodes |-> [m \in Nodes |-> LongAgo]]

-----------------------------------------------------------------------------
(* psetTable.  A table is a record [pneis, via]: vidToStateMap and           *)
(* mpneiToPneiMap, where a two-hop pnei without a pnei has no entry.         *)

Table(n)         == [pneis |-> pset[n], via |-> viaPneis[n]]
Known(pneis)     == {p \in Nodes : pneis[p] # NoEntry}
IsLinked(pneis, p) == pneis[p] # NoEntry /\ pneis[p].state = "LINKED"

\* The two-hop pneis in S lose p.
RemoveVia(via, S, p) == [m \in Nodes |-> IF m \in S THEN via[m] \ {p} ELSE via[m]]

\* mutant: two-hop pneis that p no longer has keep it
SetNeighbourKeepsOld(t, p, state, joined, mpneis) ==
  LET had == t.pneis[p] # NoEntry /\ t.pneis[p].hadInNet
  IN  [pneis |-> [t.pneis EXCEPT ![p] =
                   [state |-> state, mpneis |-> mpneis, age |-> 0,
                    hadInNet |-> had \/ (state = "LINKED" /\ joined)]],
       via |-> IF state = "LINKED"
               THEN [m \in Nodes |-> IF m \in mpneis THEN t.via[m] \cup {p} ELSE t.via[m]]
               ELSE t.via]

\* setNeighbour: the two-hop pneis that p no longer has lose it, and those it
\* has gain it if it is LINKED.
SetNeighbour(t, p, state, joined, mpneis) ==
  LET old  == IF t.pneis[p] = NoEntry THEN {} ELSE t.pneis[p].mpneis
      had  == t.pneis[p] # NoEntry /\ t.pneis[p].hadInNet
      kept == RemoveVia(t.via, old \ mpneis, p)
  IN  [pneis |-> [t.pneis EXCEPT ![p] =
                   [state |-> state, mpneis |-> mpneis, age |-> 0,
                    hadInNet |-> had \/ (state = "LINKED" /\ joined)]],
       via |-> IF state = "LINKED"
               THEN [m \in Nodes |-> IF m \in mpneis THEN kept[m] \cup {p} ELSE kept[m]]
               ELSE kept]

\* mutant: a lost pnei stays a next hop
LosePneisRoutable(t, lost) ==
  [pneis |-> [p \in Nodes |->
      IF p \in lost /\ IsLinked(t.pneis, p)
      THEN [t.pneis[p] EXCEPT !.state = "PENDING", !.mpneis = {}]
      ELSE t.pneis[p]],
   via |-> [m \in Nodes |-> t.via[m] \ {p \in lost : t.pneis[p] # NoEntry
                                                    /\ m \in t.pneis[p].mpneis}]]

\* handleLostPneis, as far as psetTable goes (removeMPneisOfPnei included).
LosePneis(t, lost) ==
  [pneis |-> [p \in Nodes |->
      IF p \in lost /\ IsLinked(t.pneis, p)
      THEN [t.pneis[p] EXCEPT !.state = "PENDING", !.hadInNet = FALSE, !.mpneis = {}]
      ELSE t.pneis[p]],
   via |-> [m \in Nodes |-> t.via[m] \ {p \in lost : t.pneis[p] # NoEntry
                                                    /\ m \in t.pneis[p].mpneis}]]

Erase(t, S) == [t EXCEPT !.pneis = [p \in Nodes |-> IF p \in S THEN NoEntry ELSE t.pneis[p]]]

\* schedulePurgeNeighborsTimer for a table: at the expiry of the pnei heard of
\* longest ago.
NextPurge(pneis) ==
  IF Known(pneis) = {} THEN NoTimer
                       ELSE Validity - MaxOf({pneis[p].age : p \in Known(pneis)})

SetTable(n, t) == /\ pset' = [pset EXCEPT ![n] = t.pneis]
                  /\ viaPneis' = [viaPneis EXCEPT ![n] = t.via]

-----------------------------------------------------------------------------
(* Beacons                                                                 *)

\* mutant: only LINKED pneis are listed
BeaconListsLinked(n) == [listed    |-> {p \in Nodes : IsLinked(pset[n], p)},
                         linked    |-> {p \in Nodes : IsLinked(pset[n], p)},
                         inNetwork |-> inNetwork[n]]

\* createBeacon
CreateBeacon(n) == [listed    |-> Known(pset[n]),
                    linked    |-> {p \in Nodes : IsLinked(pset[n], p)},
                    inNetwork |-> inNetwork[n]]

\* processBeaconTimer
SendBeacon(n) ==
  /\ up[n] /\ beaconIn[n] = 0
  /\ \A m \in Nodes : chan[n][m] = NoEntry
  /\ chan' = [chan EXCEPT ![n] = [m \in Nodes |->
                IF Works(n, m) THEN CreateBeacon(n) ELSE NoEntry]]
  /\ \E d \in BeaconInterval - MaxJitter .. BeaconMax : beaconIn' = [beaconIn EXCEPT ![n] = d]
  /\ purgeIn' = [purgeIn EXCEPT ![n] = NextPurge(pset[n])]
  /\ UNCHANGED <<pset, viaPneis, heardAgo, envVars>>

\* mutant: a LINKED pnei that no longer hears me stays LINKED
HearBeaconStaysLinked(n, p, beacon) ==
  LET hearsMe == n \in beacon.listed \/ IsLinked(pset[n], p)
  IN  SetTable(n, SetNeighbour(Table(n), p, IF hearsMe THEN "LINKED" ELSE "PENDING",
                               beacon.inNetwork,
                               IF hearsMe THEN beacon.linked \ {n} ELSE {}))

\* processBeacon at n
HearBeacon(n, p, beacon) ==
  LET hearsMe == n \in beacon.listed
      t == IF ~hearsMe /\ IsLinked(pset[n], p) THEN LosePneis(Table(n), {p}) ELSE Table(n)
  IN  SetTable(n, SetNeighbour(t, p, IF hearsMe THEN "LINKED" ELSE "PENDING",
                               beacon.inNetwork,
                               IF hearsMe THEN beacon.linked \ {n} ELSE {}))

ReceiveBeacon(p, n) ==
  /\ chan[p][n] # NoEntry
  /\ chan' = [chan EXCEPT ![p][n] = NoEntry]
  /\ IF up[n] THEN /\ HearBeacon(n, p, chan[p][n])
                   /\ heardAgo' = [heardAgo EXCEPT ![n][p] = 0]
              ELSE UNCHANGED <<pset, viaPneis, heardAgo>>
  /\ UNCHANGED <<beaconIn, purgeIn, envVars>>

\* processPurgeNeighborsTimer: purgeNeighbors loses those that are LINKED, then
\* erases all that have expired.
PurgeNeighbors(n) ==
  /\ purgeIn[n] = 0
  /\ LET expired == {p \in Known(pset[n]) : pset[n][p].age >= Validity}
         linked  == {p \in expired : IsLinked(pset[n], p)}
         t       == Erase(LosePneis(Table(n), linked), expired)
     IN  /\ SetTable(n, t)
         /\ purgeIn' = [purgeIn EXCEPT ![n] = NextPurge(t.pneis)]
  /\ UNCHANGED <<beaconIn, chan, heardAgo, envVars>>

\* processFailedPacket: a packet to p could not be sent.
FailedPacket(n, p) ==
  /\ up[n] /\ <<n, p>> \in cut /\ IsLinked(pset[n], p)
  /\ SetTable(n, Erase(LosePneis(Table(n), {p}), {p}))
  /\ UNCHANGED <<beaconIn, purgeIn, chan, heardAgo, envVars>>

-----------------------------------------------------------------------------
(* Crashes and restarts                                                    *)

\* handleStopOperation: clearState
StopOperation(n) ==
  /\ up[n] /\ faults < MaxFaults
  /\ up' = [up EXCEPT ![n] = FALSE]
  /\ inNetwork' = [inNetwork EXCEPT ![n] = FALSE]
  /\ SetTable(n, [pneis |-> [p \in Nodes |-> NoEntry], via |-> [m \in Nodes |-> {}]])
  /\ beaconIn' = [beaconIn EXCEPT ![n] = NoTimer]
  /\ purgeIn' = [purgeIn EXCEPT ![n] = NoTimer]
  /\ faults' = faults + 1 /\ calmFor' = 0
  /\ UNCHANGED <<chan, cut, heardAgo>>

\* handleStartOperation
StartOperation(n) ==
  /\ ~up[n]
  /\ up' = [up EXCEPT ![n] = TRUE]
  /\ \E d \in 0 .. BeaconInterval : beaconIn' = [beaconIn EXCEPT ![n] = d]
  /\ calmFor' = 0
  /\ UNCHANGED <<inNetwork, purgeIn, pset, viaPneis, chan, cut, faults, heardAgo>>

\* A node joins the overlay (processInNetworkWarmupTimer, vrrAdd) or has lost
\* its last vset route (processTeardownAtEndpoint).
Join(n) ==
  /\ up[n] /\ n \in Joiners
  /\ inNetwork' = [inNetwork EXCEPT ![n] = ~inNetwork[n]]
  /\ UNCHANGED <<up, beaconIn, purgeIn, pset, viaPneis, chan, cut, faults, calmFor, heardAgo>>

-----------------------------------------------------------------------------
(* The environment                                                         *)

LoseBeacon(p, n) ==
  /\ chan[p][n] # NoEntry /\ faults < MaxFaults
  /\ chan' = [chan EXCEPT ![p][n] = NoEntry]
  /\ faults' = faults + 1 /\ calmFor' = 0
  /\ UNCHANGED <<up, inNetwork, beaconIn, purgeIn, pset, viaPneis, cut, heardAgo>>

\* One direction of a link, or both, stop working; later all of it works.
CutLink(dirs) ==
  /\ dirs \cap cut = {} /\ faults < MaxFaults
  /\ cut' = cut \cup dirs
  /\ chan' = [n \in Nodes |-> [m \in Nodes |-> IF <<n, m>> \in dirs THEN NoEntry ELSE chan[n][m]]]
  /\ faults' = faults + 1 /\ calmFor' = 0
  /\ UNCHANGED <<up, inNetwork, beaconIn, purgeIn, pset, viaPneis, heardAgo>>

RestoreLink(n, p) ==
  /\ <<n, p>> \in cut
  /\ cut' = cut \ {<<n, p>>, <<p, n>>} /\ calmFor' = 0
  /\ UNCHANGED <<up, inNetwork, beaconIn, purgeIn, pset, viaPneis, chan, faults, heardAgo>>

Later(timer) == [n \in Nodes |-> IF timer[n] = NoTimer THEN NoTimer ELSE timer[n] - 1]

Tick ==
  /\ \A n, m \in Nodes : chan[n][m] = NoEntry
  /\ \A n \in Nodes : 0 \notin {beaconIn[n], purgeIn[n]}
  /\ beaconIn' = Later(beaconIn) /\ purgeIn' = Later(purgeIn)
  /\ pset' = [n \in Nodes |-> [p \in Nodes |->
                IF pset[n][p] = NoEntry THEN NoEntry
                                        ELSE [pset[n][p] EXCEPT !.age = @ + 1]]]
  /\ heardAgo' = [n \in Nodes |-> [p \in Nodes |->
                    IF heardAgo[n][p] = LongAgo THEN LongAgo ELSE heardAgo[n][p] + 1]]
  /\ calmFor' = IF calmFor = CalmTime THEN CalmTime ELSE calmFor + 1
  /\ UNCHANGED <<up, inNetwork, viaPneis, chan, cut, faults>>

Next == \/ \E n \in Nodes : \/ SendBeacon(n)
                            \/ PurgeNeighbors(n)
                            \/ StopOperation(n)
                            \/ StartOperation(n)
                            \/ Join(n)
        \/ \E n, p \in Nodes : \/ ReceiveBeacon(p, n)
                               \/ LoseBeacon(p, n)
                               \/ FailedPacket(n, p)
                               \/ {n, p} \in Links /\ CutLink({<<n, p>>})
                               \/ {n, p} \in Links /\ CutLink({<<n, p>>, <<p, n>>})
                               \/ RestoreLink(n, p)
        \/ Tick

Spec == Init /\ [][Next]_vars

-----------------------------------------------------------------------------
(* Properties                                                              *)

\* The variables have their types: in particular no pnei stays in psetTable
\* beyond its expiry, whichever of the beacon, purge and failure handlers last
\* set purgeNeighborsTimer.
TypeOK ==
  /\ up \in [Nodes -> BOOLEAN] /\ inNetwork \in [Nodes -> BOOLEAN]
  /\ beaconIn \in [Nodes -> NoTimer .. BeaconMax]
  /\ purgeIn \in [Nodes -> NoTimer .. Validity]
  /\ pset \in [Nodes -> [Nodes -> Entry \cup {NoEntry}]]
  /\ viaPneis \in [Nodes -> [Nodes -> SUBSET Nodes]]
  /\ chan \in [Nodes -> [Nodes -> Beacon \cup {NoEntry}]]
  /\ cut \subseteq Nodes \X Nodes /\ faults \in 0 .. MaxFaults
  /\ calmFor \in 0 .. CalmTime
  /\ heardAgo \in [Nodes -> [Nodes -> 0 .. LongAgo]]

\* mpneiToPneiMap leads from a two-hop pnei to exactly the pneis that list it,
\* and those are LINKED: processWaitRepairLinkTimer asserts it (Vrr.cc:2470)
\* when it patches a vroute over two hops.
MpneiMapExact ==
  \A n, m, p \in Nodes :
    p \in viaPneis[n][m] <=> IsLinked(pset[n], p) /\ m \in pset[n][p].mpneis

\* A pnei that may be the next hop (hadBeenInNetwork) is LINKED: what it said
\* before the link was lost does not count (Vrr.cc:2844).
RoutablePneisLinked ==
  \A n, p \in Nodes : pset[n][p] # NoEntry /\ pset[n][p].hadInNet => IsLinked(pset[n], p)

\* LINKED means that the link works both ways: a pnei is LINKED only if, not
\* longer than two validity times ago, it was reached by a beacon of this node,
\* however beacons are lost and nodes restart.
LinkedTwoWay ==
  \A n, p \in Nodes : IsLinked(pset[n], p) => heardAgo[p][n] <= 2 * Validity

\* Two beacon intervals after the last failure, both ends of every link that
\* works are LINKED, whatever each still knew of the other.
HandshakeDone ==
  calmFor = CalmTime =>
    \A n, p \in Nodes : Works(n, p) /\ Works(p, n) /\ up[n] /\ up[p]
                          => IsLinked(pset[n], p)
=============================================================================
