------------------------------ MODULE VlrVset ------------------------------
(***************************************************************************)
(* How one VLR node chooses its virtual neighbours (routing/vlr/Vlr.cc).   *)
(*                                                                         *)
(* The vset holds the vneis the node has vset routes with, at most Half on *)
(* either side of it on the ring.  The pendingVset holds the other nodes   *)
(* it has heard of, the PendingHalf nearest on either side when it is      *)
(* full, each with the timer of the SetupReq sent to it, if any.  The node *)
(* is inNetwork once its vset is full, or once it has run out of nodes to  *)
(* ask when inNetworkWarmupTimer fires.                                    *)
(*                                                                         *)
(* Each action is one event handler of the node.  The rest of the network  *)
(* is its environment: it may send any message about any node at any time. *)
(* A known representative is assumed (representativeFixed, with            *)
(* representative.heardfromvid set) until the node leaves the overlay.     *)
(***************************************************************************)
EXTENDS VlrFillWalk, SequencesExt

CONSTANTS IsRoot,      \* is this node the representative that starts the overlay?
          BackupHalf,  \* backupVsetHalfCardinality
          RetryLimit,  \* setupReqRetryLimit
          SetupNonEss, \* setupNonEssRoutes
          MaxOther,    \* bound on the vids of a srcVset in a message
          NoFarthest

ASSUME VsetAssumption ==
  /\ Me \in RingVids /\ {IsRoot, SetupNonEss} \subseteq BOOLEAN
  /\ {Half, RetryLimit} \subseteq Nat \ {0} /\ {BackupHalf, MaxOther} \subseteq Nat
  /\ PendingHalf \in Nat /\ PendingHalf >= Half + BackupHalf /\ PendingHalf >= 2 * Half

VARIABLES
  vset,      \* the vneis
  pend,      \* pendingVset, its timers and pendingVsetFarthest (PendType)
  inNetwork, \* selfInNetwork
  warmup     \* is inNetworkWarmupTimer scheduled?

vars == <<vset, pend, inNetwork, warmup>>

Others == RingVids \ {Me}

\* WaitSetupReqIntTimer: getRetryCount, getReqVnei, isScheduled
Timer == [retry : 0 .. RetryLimit, reqVnei : BOOLEAN, sched : BOOLEAN]

ASSUME NoTimerAssumption == NoTimer \notin Timer

\* changed is pendingVsetChangedSinceLastCheckAndSchedule.  far is NoFarthest
\* when pendingVsetFarthest.first is null: its second is not read then.
PendType == [nodes : SUBSET Others, timer : [Others -> Timer \cup {NoTimer}],
             far : [ccw : Others, cw : Others] \cup {NoFarthest}, changed : BOOLEAN]

NoPending == [nodes |-> {}, timer |-> [n \in Others |-> NoTimer], far |-> NoFarthest,
              changed |-> FALSE]

Init == /\ vset = {} /\ pend = NoPending
        /\ inNetwork = IsRoot /\ warmup = FALSE

-----------------------------------------------------------------------------
(* pendingVset                                                             *)

CancelTimer(p, n) == [p EXCEPT !.timer[n] = NoTimer]    \* cancelAndDelete

PendingErase(p, n) ==
  IF n \in p.nodes THEN [CancelTimer(p, n) EXCEPT !.nodes = @ \ {n}, !.changed = TRUE] ELSE p

FullPending(p) == Cardinality(p.nodes) >= 2 * PendingHalf

\* mutant: the evicted node's timer keeps running
ReplaceKeepsTimer(p, old, n, far) ==
  [p EXCEPT !.nodes = (@ \cup {n}) \ {old}, !.far = far, !.changed = TRUE]

\* n takes the place of old
Replace(p, old, n, far) ==
  [CancelTimer(p, old) EXCEPT !.nodes = (@ \cup {n}) \ {old}, !.far = far, !.changed = TRUE]

\* mutant: pendingVsetFarthest survives an addition it was not compared with
AddKeepsFarthest(p, n) == [p EXCEPT !.nodes = @ \cup {n}, !.changed = TRUE]

AddToUnfull(p, n) == [p EXCEPT !.nodes = @ \cup {n}, !.far = NoFarthest, !.changed = TRUE]

AddToFull(p, n) ==
  LET far == IF p.far = NoFarthest THEN FarthestVneis(p.nodes, Me, PendingHalf) ELSE p.far
      all == p.nodes \cup {n}
  IN  IF CCWDistance(Me, n) < CCWDistance(Me, far.ccw)
      THEN Replace(p, far.ccw, n, [far EXCEPT !.ccw = NextCW(all, far.ccw)])
      ELSE IF CWDistance(Me, n) < CWDistance(Me, far.cw)
      THEN Replace(p, far.cw, n, [far EXCEPT !.cw = NextCCW(all, far.cw)])
      ELSE [p EXCEPT !.far = far]

\* a node already there: its timer may be tried once more if the node is alive
HeardAgain(p, n, alive) ==
  LET t == p.timer[n]
  IN  IF alive /\ t # NoTimer /\ t.sched /\ t.retry >= RetryLimit
      THEN [p EXCEPT !.timer[n].retry = @ - 1] ELSE p

\* pendingVsetAdd, with v the vset at the time of the call
PendingAdd(v, p, n, addToEmpty, alive) ==
  IF ~ (addToEmpty \/ inNetwork \/ Cardinality(p.nodes) >= 2 * Half) \/ n \in v \cup {Me} THEN p
  ELSE IF n \in p.nodes THEN HeardAgain(p, n, alive)
  ELSE IF FullPending(p) THEN AddToFull(p, n) ELSE AddToUnfull(p, n)

\* processOtherVset: the srcVset of a message
AddOtherVset(v, p, srcVset) ==
  LET add[i \in 0 .. Len(srcVset)] ==
        IF i = 0 THEN p ELSE PendingAdd(v, add[i - 1], srcVset[i], TRUE, TRUE)
  IN  add[Len(srcVset)]

HasSetupReqPending == \E n \in pend.nodes : pend.timer[n] # NoTimer /\ pend.timer[n].sched

-----------------------------------------------------------------------------
(* Vneis come and go.                                                      *)

\* recordNewVnei
RecordNewVnei(v) ==
  IF inNetwork THEN UNCHANGED <<inNetwork, warmup>>
  ELSE LET full == warmup /\ Cardinality(v) >= 2 * Half
       IN  inNetwork' = full /\ warmup' = ~full

Admission(n) == ShouldAddVnei(vset, Me, n, Half)

\* mutant: the vnei that is pushed out is dropped
AdmitDropsVnei(n, srcVset) ==
  LET v == (vset \cup {n}) \ Admission(n).removed
  IN  /\ vset' = v
      /\ pend' = AddOtherVset(v, PendingErase(pend, n), srcVset)
      /\ RecordNewVnei(v)

\* n joins the vset, the vnei it pushes out goes to the pendingVset: the part
\* of processSetupReq, processSetupReply and sendGreedySetupReplyAddVnei
Admit(n, srcVset) ==
  LET out  == Admission(n).removed
      v    == (vset \cup {n}) \ out
      p    == PendingErase(pend, n)
  IN  /\ vset' = v
      /\ \/ out = {} /\ pend' = AddOtherVset(v, p, srcVset)
         \/ \E old \in out : pend' = AddOtherVset(v, PendingAdd(v, p, old, TRUE, FALSE), srcVset)
      /\ RecordNewVnei(v)

\* a SetupReq (reqVnei) or a SetupReply of a node that shouldAddVnei accepts
AddVnei(n, srcVset) == n \notin vset /\ Admission(n).add /\ Admit(n, srcVset)

\* a SetupReq that is answered by a SetupFail, or by an AddRoute (routed), or
\* that comes from a vnei
ProcessSetupReq(n, srcVset, routed) ==
  LET p == PendingAdd(vset, pend, n, TRUE, TRUE)
  IN  /\ pend' = AddOtherVset(vset, IF routed /\ n \notin vset THEN CancelTimer(p, n) ELSE p, srcVset)
      /\ UNCHANGED <<vset, inNetwork, warmup>>

\* a SetupFail or an AddRoute from n
ProcessSetupFail(n, srcVset) ==
  LET t == pend.timer[n]
      p == IF n \notin pend.nodes \/ t = NoTimer THEN PendingAdd(vset, pend, n, TRUE, TRUE)
           ELSE IF t.retry < RetryLimit THEN CancelTimer(pend, n)
           ELSE PendingErase(pend, n)
  IN  /\ pend' = AddOtherVset(vset, p, srcVset)
      /\ UNCHANGED <<vset, inNetwork, warmup>>

\* n is seen in a packet this node only forwards (alive) or as a
\* representative in a beacon (not alive)
Overhear(n, alive) ==
  /\ pend' = PendingAdd(vset, pend, n, FALSE, alive)
  /\ UNCHANGED <<vset, inNetwork, warmup>>

\* keepSelfInNetwork: there are nearer vneis than the lost one on both sides
KeepSelfInNetwork(v, n) ==
  /\ Half > 1 /\ Cardinality(v) >= 2
  /\ \E w \in v : CCWDistance(Me, w) < CCWDistance(Me, n)
  /\ \E w \in v : CWDistance(Me, w) < CWDistance(Me, n)

\* mutant: a node that loses a vnei leaves the network without a warm-up
LeaveNetworkUnarmed(v, n) ==
  IF inNetwork /\ Cardinality(v) < 2 * Half
  THEN inNetwork' = KeepSelfInNetwork(v, n) /\ UNCHANGED warmup
  ELSE IF v = {} THEN inNetwork' = FALSE /\ warmup' = FALSE
  ELSE UNCHANGED <<inNetwork, warmup>>

LeaveNetwork(v, n) ==
  IF inNetwork /\ Cardinality(v) < 2 * Half
  THEN LET keep == KeepSelfInNetwork(v, n) IN inNetwork' = keep /\ warmup' = (warmup \/ ~keep)
  ELSE IF v = {} THEN inNetwork' = FALSE /\ warmup' = FALSE
  ELSE UNCHANGED <<inNetwork, warmup>>

\* processTeardownAtEndpoint for the last vset route to the vnei n
LoseVnei(n, srcVset) ==
  LET v  == vset \ {n}
      p1 == PendingAdd(v, pend, n, TRUE, FALSE)
      p2 == IF n \in p1.nodes /\ p1.timer[n] = NoTimer
            THEN [p1 EXCEPT !.timer[n] = [retry |-> 0, reqVnei |-> TRUE, sched |-> TRUE]] ELSE p1
  IN  /\ n \in vset /\ vset' = v
      /\ pend' = PendingAdd(v, AddOtherVset(v, p2, srcVset), n, TRUE, FALSE)
      /\ LeaveNetwork(v, n)

\* clearState, called when the representative is not heard of any more
LeaveOverlay ==
  /\ ~IsRoot
  /\ vset' = {} /\ pend' = [NoPending EXCEPT !.changed = pend.changed]
  /\ inNetwork' = FALSE /\ warmup' = FALSE

-----------------------------------------------------------------------------
(* Timers                                                                  *)

\* mutant: a node that does not answer is never given up
RetryForever(n, t, sent) == [pend EXCEPT !.timer[n].sched = t.reqVnei \/ sent]

\* the timer of a SetupReq to n fires: the next request, which may find no
\* next hop, or none after RetryLimit of them
NextSetupReq(n, t, sent) ==
  IF t.retry >= RetryLimit THEN PendingErase(pend, n)
  ELSE IF sent \/ t.reqVnei
  THEN [pend EXCEPT !.nodes = @ \cup {n}, !.timer[n].retry = @ + 1]     \* pendingVset[targetVid]
  ELSE [pend EXCEPT !.nodes = @ \cup {n}, !.timer[n].sched = FALSE]

\* processWaitSetupReqTimer; connected: n is a linked pnei or a route end
WaitSetupReqTimer(n, sent, connected) ==
  LET t == pend.timer[n]
  IN  /\ t # NoTimer /\ t.sched
      /\ pend' = IF ~t.reqVnei /\ t.retry > 0 /\ connected THEN CancelTimer(pend, n)
                 ELSE NextSetupReq(n, t, sent)
      /\ UNCHANGED <<vset, inNetwork, warmup>>

\* The walk of processFillVsetTimer over the vset and the pendingVset, see
\* VlrFillWalk: the nodes it looks at, and those that belong to the vset.
Known        == vset \cup pend.nodes
NearerCW(n)  == CloserCW(Known, n)
NearerCCW(n) == CloserCCW(Known, n)
Visited      == {n \in pend.nodes : Reached(Known, n)}
WantedNodes  == {n \in Visited : Belongs(Known, pend.timer, n)}

\* setRouteToPendingVsetItr: the nodes without a request under way, or with one
\* for another kind of route, that belong to the vset or are near enough for a
\* non-essential route.  Whether the node asks them also depends on whether they
\* are linked pneis, route ends, or nodes whose route is being repaired.
Due ==
  LET want == WantedNodes
  IN  {n \in Visited :
         LET t == pend.timer[n]
         IN  /\ t = NoTimer \/ ~t.sched \/ (n \in want /\ ~t.reqVnei)
             /\ n \in want \/ (SetupNonEss /\ Cardinality(Closer(Known, n)) < Half + BackupHalf)}

\* the rest of setRouteToPendingVsetItr, and the nodes that have expired
AfterFill(stale, asked) ==
  LET want == WantedNodes
      Ask(n, t) ==
        IF n \in stale THEN NoTimer
        ELSE IF n \in asked
        THEN [retry |-> IF t = NoTimer THEN 0 ELSE t.retry, reqVnei |-> n \in want, sched |-> TRUE]
        ELSE IF n \in Visited /\ t # NoTimer THEN [t EXCEPT !.reqVnei = n \in want] ELSE t
  IN  [nodes |-> pend.nodes \ stale, far |-> pend.far, changed |-> FALSE,
       timer |-> [n \in Others |-> Ask(n, pend.timer[n])]]

\* without vneis or requests under way, the node asks for itself instead
AsksForItself == ~inNetwork /\ vset = {} /\ ~HasSetupReqPending

\* nodes that may have expired: with no request under way
Stale == {n \in Visited : pend.timer[n] = NoTimer \/ ~pend.timer[n].sched}

\* processFillVsetTimer
FillVset ==
  /\ IF AsksForItself THEN pend' = [pend EXCEPT !.changed = FALSE]
     ELSE LET due == Due
          IN  \E stale \in SUBSET Stale : \E asked \in SUBSET (due \ stale) :
                pend' = AfterFill(stale, asked)
  /\ UNCHANGED <<vset, inNetwork, warmup>>

\* processInNetworkWarmupTimer: the warm-up is extended while the vset is not
\* full and there are nodes to ask or asked
InNetworkWarmup ==
  LET may  == vset # {} \/ IsRoot
      wait == Cardinality(vset) < 2 * Half /\ ((pend.changed /\ pend.nodes # {}) \/ HasSetupReqPending)
  IN  /\ warmup /\ (may /\ ~inNetwork => ~wait)
      /\ inNetwork' = (inNetwork \/ may) /\ warmup' = FALSE
      /\ UNCHANGED <<vset, pend>>

-----------------------------------------------------------------------------
SrcVsets == BoundedSeq(RingVids, MaxOther)

Hearing ==
  \/ \E n \in Others, s \in SrcVsets :
       \/ AddVnei(n, s)
       \/ \E routed \in BOOLEAN : ProcessSetupReq(n, s, routed)
       \/ ProcessSetupFail(n, s)
       \/ LoseVnei(n, s)
  \/ \E n \in Others, alive \in BOOLEAN : Overhear(n, alive)
  \/ LeaveOverlay

SomeSetupReqTimer(n) == \E sent, connected \in BOOLEAN : WaitSetupReqTimer(n, sent, connected)

Next == Hearing \/ FillVset \/ (\E n \in Others : SomeSetupReqTimer(n)) \/ InNetworkWarmup

Spec == Init /\ [][Next]_vars

\* The kernel fires every scheduled timer; fillVsetTimer is always scheduled.
FairSpec == /\ Spec /\ WF_vars(FillVset) /\ WF_vars(InNetworkWarmup)
            /\ \A n \in Others : WF_vars(SomeSetupReqTimer(n))

-----------------------------------------------------------------------------
(* Properties                                                              *)

\* A node is a vnei or pending but not both, since processFillVsetTimer would
\* overwrite its entry and lose its timer (Vlr.cc:7489-7491); a SetupReq timer
\* runs only for a pending node, since for another one pendingVset[targetVid] at
\* Vlr.cc:1393 would add it; and neither set outgrows the bound the walks over it
\* rely on (the ASSERT of getFarthestVneisInFullVset).
PendingOwned ==
  /\ vset \subseteq Others \ pend.nodes /\ pend.nodes \subseteq Others
  /\ Cardinality(vset) <= 2 * Half /\ Cardinality(pend.nodes) <= 2 * PendingHalf
  /\ \A n \in Others : pend.timer[n] # NoTimer => n \in pend.nodes

\* pendingVsetFarthest, kept up to date by single steps from its last values,
\* is what a walk over the full pendingVset would find.
FarthestFresh == FullPending(pend) /\ pend.far # NoFarthest
                   => pend.far = FarthestVneis(pend.nodes, Me, PendingHalf)

\* A node that is dropped while others are added, and was not given up after
\* RetryLimit requests, has PendingHalf pending nodes nearer on both sides.
OnlyFarNodesForgotten ==
  [][(vset' # vset \/ ~ (pend.nodes' \subseteq pend.nodes)) /\ Known' # {} =>
       \A n \in Known \ Known' :
         \/ pend.timer[n] # NoTimer /\ pend.timer[n].retry >= RetryLimit
         \/ /\ Cardinality({w \in pend.nodes' : CWDistance(Me, w) < CWDistance(Me, n)}) >= PendingHalf
            /\ Cardinality({w \in pend.nodes' : CCWDistance(Me, w) < CCWDistance(Me, n)}) >= PendingHalf]_vars

\* When processFillVsetTimer has run, each of the Half nearest known nodes of a
\* side that is not a vnei and not busy has a SetupReq for a vset route under
\* way, and is one that shouldAddVnei would accept.
NearestAsked ==
  ~AsksForItself =>
    LET after == AfterFill({}, Due)
    IN  \A n \in pend.nodes :
          Cardinality(NearerCW(n)) < Half \/ Cardinality(NearerCCW(n)) < Half =>
            /\ after.timer[n] # NoTimer /\ after.timer[n].sched /\ after.timer[n].reqVnei
            /\ Admission(n).add

\* The warm-up never runs in a node that is inNetwork, where scheduling it
\* again would be an error (Vlr.cc:4145, 4152), and always runs in one that
\* is not but has vneis, which nothing else would bring into the network.
WarmupArmed == /\ inNetwork => ~warmup
               /\ ~inNetwork /\ vset # {} => warmup

\* Once nothing more is heard, a node with vneis comes into the network.
QuietNodeSettles == <>[][~Hearing]_vars => []<>(vset = {} \/ inNetwork)
============================================================================
