------------------------------ MODULE VrrVroute ------------------------------
(***************************************************************************)
(* The life of a vroute in VRR (routing/vrr/Vrr.cc): it is set up hop by   *)
(* hop by a SetupReply on its way to the node that asked for it, it is the *)
(* reason its two ends keep each other in their vsets, its hops break when *)
(* a physical neighbour (pnei) is lost and come back when the pnei does,   *)
(* a broken previous hop may be repaired around the lost pnei, and it is   *)
(* taken down hop by hop by Teardowns.                                     *)
(*                                                                         *)
(* Nodes run concurrently and talk over FIFO channels.  Each action is one *)
(* event handler, run to its end as the simulation kernel runs it.  What   *)
(* decides who asks whom (SetupReq, pendingVset, representatives) is the   *)
(* environment of this module: any node may answer any other at any time.  *)
(* Timer delays are abstracted: a pending timer may fire at any time.      *)
(***************************************************************************)
EXTENDS VlrRingRoutingTable, FiniteSets, Functions, SequencesExt

CONSTANTS VidMax,        \* VLRRINGVID_MAX
          Links,         \* the physical links, as pairs {a, b}
          Half,          \* vsetHalfCardinality
          RetryLimit,    \* repairLinkReqRetryLimit
          PrevhopSize,   \* routePrevhopVidsSize
          RemoveBroken,  \* removeBrokenVrouteEndpointInRepair
          LocalRepair,   \* sendRepairLocalNoTemp
          Relink,        \* may a lost pnei be heard again?
          BeaconLoss,    \* may a pnei be lost while the link works?
          MaxFaults,     \* bound on link failures plus lost pneis
          MaxEvents      \* bound on faults plus vroutes set up

Ring == INSTANCE VidRing

Nodes == Vids
Nbrs(n) == {m \in Nodes : {n, m} \in Links}

ASSUME VrouteAssumption ==
  /\ Nodes \subseteq 0 .. VidMax
  /\ IsFiniteSet(PathIds)
  /\ \A l \in Links : \E a, b \in Nodes : a # b /\ l = {a, b}
  /\ Half \in Nat \ {0} /\ RetryLimit \in Nat /\ PrevhopSize \in Nat \ {0}
  /\ MaxFaults \in Nat /\ MaxEvents \in Nat
  /\ {RemoveBroken, LocalRepair, Relink, BeaconLoss} \subseteq BOOLEAN

VARIABLES
  tbl,     \* vlrRoutingTable of each node
  vset,    \* vset of each node: vnei -> the path ids of the vset routes to it
  nonEss,  \* nonEssRoutes of each node; nonEssRouteTeardownTimer runs if it is not empty
  lost,    \* lostPneis of each node: pnei -> brokenVroutes and the timer's retryCount
  linked,  \* the LINKED pneis of each node's psetTable
  up,      \* the links that work
  chan,    \* chan[n][m]: the messages from n to m, in order
  used,    \* the path ids drawn so far
  faults   \* how many faults have happened

node == <<tbl, vset, nonEss, lost, linked>>
vars == <<tbl, vset, nonEss, lost, linked, up, chan, used, faults>>

SetupReplies == {m \in [type : {"SetupReply"}, path : PathIds, from : Nodes, to : Nodes,
                        prevhops : Seq(Nodes)] : m.from # m.to}
Teardowns == [type : {"Teardown"}, path : PathIds]
RepairLocalReplies == {m \in [type : {"RepairLocalReply"}, path : PathIds, from : Nodes,
                              to : Nodes, trace : Seq(Nodes) \ {<<>>}] : m.from # m.to}

Msg == SetupReplies \cup Teardowns \cup RepairLocalReplies

SetupReplyMsg(p, from, to, prevhops) ==
  [type |-> "SetupReply", path |-> p, from |-> from, to |-> to, prevhops |-> prevhops]
TeardownMsg(p) == [type |-> "Teardown", path |-> p]
RepairMsg(p, from, to, trace) ==
  [type |-> "RepairLocalReply", path |-> p, from |-> from, to |-> to, trace |-> trace]

Init ==
  /\ tbl    = [n \in Nodes |-> EmptyTable]
  /\ vset   = [n \in Nodes |-> <<>>]
  /\ nonEss = [n \in Nodes |-> {}]
  /\ lost   = [n \in Nodes |-> <<>>]
  /\ linked = [n \in Nodes |-> Nbrs(n)]
  /\ up     = Links
  /\ chan   = [n \in Nodes |-> [m \in Nodes |-> <<>>]]
  /\ used   = {}
  /\ faults = 0

-----------------------------------------------------------------------------
(* Sending.  out[m] is the sequence of messages a handler sends to m; a     *)
(* message into a link that is down is lost.                               *)
Silent      == [m \in Nodes |-> <<>>]
Tell(x, msg) == [m \in Nodes |-> IF m = x THEN <<msg>> ELSE <<>>]
And(o1, o2) == [m \in Nodes |-> o1[m] \o o2[m]]

\* one message msg[p] to hop[p] for each path id p; the ids are random numbers,
\* so any order will do for that of the std::set they are read from
TellEach(hop, msg) ==
  [m \in Nodes |-> LET ps == SetToSeq({p \in DOMAIN hop : hop[p] = m})
                   IN  [i \in 1 .. Len(ps) |-> msg[ps[i]]]]

TeardownEach(hop) == TellEach(hop, [p \in DOMAIN hop |-> TeardownMsg(p)])

After(c, n, out) ==
  [c EXCEPT ![n] = [m \in Nodes |-> IF {n, m} \in up THEN @[m] \o out[m] ELSE @[m]]]

Send(n, out)       == chan' = After(chan, n, out)
Reply(n, m, out)   == chan' = After([chan EXCEPT ![m][n] = Tail(@)], n, out)
Received(n, m, ty) == chan[m][n] # <<>> /\ Head(chan[m][n]).type = ty

-----------------------------------------------------------------------------
(* vset and nonEssRoutes                                                   *)

OtherEnd(n, r) == IF r.from = n THEN r.to ELSE r.from

\* vrrAdd(_, srcVid): admit src; the vnei it pushes out leaves the vset and
\* its routes become non-essential.  pendingVset is not part of this module.
Admit(n, src) == Ring!ShouldAddVnei(DOMAIN vset[n], n, src, Half)
MayAdmit(n, src) == src \notin DOMAIN vset[n] /\ Admit(n, src).add
Demoted(n, src) == UNION {vset[n][v] : v \in DOMAIN vset[n] \cap Admit(n, src).removed}

VsetAfterAdmit(n, src, p) ==
  [v \in (DOMAIN vset[n] \ Admit(n, src).removed) \cup {src} |->
     IF v = src THEN {p} ELSE vset[n][v]]

\* mutant: the routes of the vnei pushed out stay vset routes
NotDemoted(t, ps) == t

DemoteRoutes(t, ps) ==
  [routes |-> [p \in PathIds |-> IF p \in ps /\ InTable(t, p)
                                 THEN [t.routes[p] EXCEPT !.isVset = FALSE] ELSE t.routes[p]],
   ends   |-> t.ends]

\* mutant: a vnei whose last route is gone stays in the vset
VneiOutlivesRoutes(n, ps) == [v \in DOMAIN vset[n] |-> vset[n][v] \ ps]

\* removeEndpointOnTeardown at n for the routes ps: a vnei without a route
\* left leaves the vset, a non-essential route leaves nonEssRoutes
VsetAfterTeardown(n, ps) ==
  LET gone(v) == {p \in ps : tbl[n].routes[p].isVset /\ OtherEnd(n, tbl[n].routes[p]) = v}
      kept    == {v \in DOMAIN vset[n] : gone(v) # {} => ~ (vset[n][v] \subseteq gone(v))}
  IN  [v \in kept |-> vset[n][v] \ gone(v)]

NonEssAfterTeardown(n, ps) == nonEss[n] \ {p \in ps : ~ tbl[n].routes[p].isVset}

-----------------------------------------------------------------------------
(* lostPneis                                                               *)

\* mutant: the whole entry goes with the first of its vroutes
ForgetPnei(l, gone) == Restrict(l, DOMAIN l \ {e[2] : e \in gone})

\* removeRouteFromLostPneiBrokenVroutes for a set of <<path id, lost pnei>>: an
\* entry left without broken vroutes is erased and its timer cancelled
ForgetBroken(l, gone) ==
  LET of(x) == {p \in PathIds : <<p, x>> \in gone}
      kept  == {x \in DOMAIN l : of(x) # {} => ~ (l[x].broken \subseteq of(x))}
  IN  [x \in kept |-> [l[x] EXCEPT !.broken = @ \ of(x)]]

\* the lostPneis l with this entry for x
LostWith(l, x, entry) == [y \in DOMAIN l \cup {x} |-> IF y = x THEN entry ELSE l[y]]

\* brokenVroutes and retryCount of x once the vroutes over broke; an entry
\* that is there keeps its count
BrokenBy(l, x, over) ==
  [broken |-> over \cup (IF x \in DOMAIN l THEN l[x].broken ELSE {}),
   retry  |-> IF x \in DOMAIN l THEN l[x].retry ELSE IF LocalRepair THEN 0 ELSE RetryLimit]

BrokenHops(p, r) ==
  {<<p, x>> : x \in {y \in Nodes : (y = r.prev /\ PrevBroken(r)) \/ (y = r.next /\ NextBroken(r))}}

\* mutant: the previous hop is marked whichever hop was lost
BreakPrevHop(r, x) == SetHop(r, TRUE, 1)

\* handleLostPneis on the table: hops over x become unavailable
BreakHop(r, x) ==
  LET r1 == IF r.prev = x THEN SetHop(r, TRUE, 1) ELSE r
  IN  IF r.next = x THEN SetHop(r1, FALSE, 1) ELSE r1

RoutesOver(t, x) == {p \in PathIds : InTable(t, p) /\ x \in {t.routes[p].prev, t.routes[p].next}}

\* mutant: the end points over x stay in endpointToRoutesMap
TableKeepsEnds(t, x) ==
  [t EXCEPT !.routes = [p \in PathIds |-> IF p \in RoutesOver(t, x) THEN BreakHop(@[p], x) ELSE @[p]]]

TableAfterLost(t, x) ==
  LET hit == RoutesOver(t, x)
      r(p) == t.routes[p]
  IN [routes |-> [p \in PathIds |-> IF p \in hit THEN BreakHop(r(p), x) ELSE r(p)],
      ends   |-> IF RemoveBroken
                 THEN t.ends \ ({<<r(p).from, p>> : p \in {q \in hit : r(q).prev = x}}
                                \cup {<<r(p).to, p>> : p \in {q \in hit : r(q).next = x}})
                 ELSE t.ends]

\* handleLinkedPnei on the table: the broken vroutes of x are available again
RestoreHop(r, x) == SetHop(r, r.prev = x, 0)

TableAfterLinked(t, x, broken) ==
  LET hit == {p \in broken : InTable(t, p)}
      r(p) == t.routes[p]
  IN [routes |-> [p \in PathIds |-> IF p \in hit THEN RestoreHop(r(p), x) ELSE r(p)],
      ends   |-> t.ends \cup {<<IF r(p).prev = x THEN r(p).from ELSE r(p).to, p>> : p \in hit}]

-----------------------------------------------------------------------------
(* vrrTeardownPath at n for a path id another node m spoke about: tell the *)
(* available hops, and m unless it is one of the hops.                     *)
\* mutant: who spoke about an unknown vroute is not told
TellHopsOnly(n, p, m) ==
  LET r == tbl[n].routes[p]
  IN  IF ~InTable(tbl[n], p) THEN Silent
      ELSE And(IF r.prev # NullVid /\ ~PrevBroken(r) THEN Tell(r.prev, TeardownMsg(p)) ELSE Silent,
               IF r.next # NullVid /\ ~NextBroken(r) THEN Tell(r.next, TeardownMsg(p)) ELSE Silent)

TeardownPathOut(n, p, m) ==
  LET r == tbl[n].routes[p]
      tell(x) == Tell(x, TeardownMsg(p))
  IN  IF ~InTable(tbl[n], p) THEN tell(m)
      ELSE And(And(IF r.prev # NullVid /\ ~PrevBroken(r) THEN tell(r.prev) ELSE Silent,
                   IF r.next # NullVid /\ ~NextBroken(r) THEN tell(r.next) ELSE Silent),
               IF m \notin {r.prev, r.next} THEN tell(m) ELSE Silent)

TeardownPath(n, m, p, checkMeEndpoint) ==
  LET r    == tbl[n].routes[p]
      ends == IF InTable(tbl[n], p) /\ checkMeEndpoint /\ n \in {r.from, r.to} THEN {p} ELSE {}
  IN  /\ tbl'    = [tbl EXCEPT ![n] = RemoveRoute(@, p)]
      /\ lost'   = [lost EXCEPT ![n] = IF InTable(tbl[n], p) THEN ForgetBroken(@, BrokenHops(p, r))
                                            ELSE @]
      /\ vset'   = [vset EXCEPT ![n] = VsetAfterTeardown(n, ends)]
      /\ nonEss' = [nonEss EXCEPT ![n] = NonEssAfterTeardown(n, ends)]
      /\ Reply(n, m, TeardownPathOut(n, p, m))

-----------------------------------------------------------------------------
(* findNextHopForSetupReply: the node itself if it is a LINKED pnei; else  *)
(* the greedy choice, which depends on distances and state this module     *)
(* leaves out: any LINKED pnei, or none.                                   *)
NextHops(n, newnode) ==
  IF newnode \in linked[n] THEN {newnode} ELSE linked[n] \cup {NullVid}

\* setRoutePrevhopVidsFromMessage: the message's circular buffer holds the
\* last PrevhopSize senders, here oldest first; a route keeps them newest first
PushPrevhop(buf, n) ==
  IF Len(buf) < PrevhopSize THEN Append(buf, n) ELSE Append(Tail(buf), n)

\* processSetupReq at the node that answers newnode (and, for a representative
\* it heard of, processWaitSetupReqTimer): admit newnode and start a vroute to it
AnswerSetup(n, newnode, p, nh) ==
  /\ newnode # n /\ MayAdmit(n, newnode)
  /\ p \notin used /\ Cardinality(used) + faults < MaxEvents
  /\ nh \in NextHops(n, newnode) \ {NullVid}
  /\ used' = used \cup {p}
  /\ tbl' = [tbl EXCEPT ![n] =
        DemoteRoutes(AddRoute(@, p, NewRoute(n, newnode, NullVid, nh, TRUE, 0, <<>>)),
                     Demoted(n, newnode))]
  /\ vset' = [vset EXCEPT ![n] = VsetAfterAdmit(n, newnode, p)]
  /\ nonEss' = [nonEss EXCEPT ![n] = @ \cup Demoted(n, newnode)]
  /\ Send(n, Tell(nh, SetupReplyMsg(p, n, newnode, <<n>>)))
  /\ UNCHANGED <<lost, linked, up, faults>>

\* processSetupReply, at n from m
AcceptSetup(n, m, msg) ==                    \* newnode = vid and vrrAdd admits the source
  /\ tbl' = [tbl EXCEPT ![n] =
        DemoteRoutes(AddRoute(@, msg.path, NewRoute(msg.from, n, m, NullVid, TRUE, 0,
                                                    Reverse(msg.prevhops))),
                     Demoted(n, msg.from))]
  /\ vset' = [vset EXCEPT ![n] = VsetAfterAdmit(n, msg.from, msg.path)]
  /\ nonEss' = [nonEss EXCEPT ![n] = @ \cup Demoted(n, msg.from)]
  /\ Reply(n, m, Silent)
  /\ UNCHANGED lost

ForwardSetup(n, m, msg, nh) ==
  /\ tbl' = [tbl EXCEPT ![n] =
        AddRoute(@, msg.path, NewRoute(msg.from, msg.to, m, nh, FALSE, 0, Reverse(msg.prevhops)))]
  /\ Reply(n, m, Tell(nh, SetupReplyMsg(msg.path, msg.from, msg.to, PushPrevhop(msg.prevhops, n))))
  /\ UNCHANGED <<vset, nonEss, lost>>

ProcessSetupReply(n, m) ==
  /\ Received(n, m, "SetupReply")
  /\ LET msg == Head(chan[m][n])
         p   == msg.path
     IN  \/ InTable(tbl[n], p) /\ TeardownPath(n, m, p, TRUE)
         \/ ~InTable(tbl[n], p) /\ m \notin linked[n] /\ TeardownPath(n, m, p, FALSE)
         \/ /\ ~InTable(tbl[n], p) /\ m \in linked[n] /\ msg.to = n
            /\ \/ MayAdmit(n, msg.from) /\ AcceptSetup(n, m, msg)
               \/ ~MayAdmit(n, msg.from) /\ TeardownPath(n, m, p, FALSE)
         \/ /\ ~InTable(tbl[n], p) /\ m \in linked[n] /\ msg.to # n
            /\ \E nh \in NextHops(n, msg.to) :
                 \/ nh = NullVid /\ TeardownPath(n, m, p, FALSE)
                 \/ nh # NullVid /\ ForwardSetup(n, m, msg, nh)
  /\ UNCHANGED <<linked, up, used, faults>>

-----------------------------------------------------------------------------
\* The hop a Teardown from m travels on to, and whether m is the previous hop
Onward(r, m) == IF m = r.prev THEN r.next ELSE r.prev
OnwardBroken(r, m) == IF m = r.prev THEN NextBroken(r) ELSE PrevBroken(r)

\* processTeardown, at n from m: only a hop of the vroute may take it down
ProcessTeardown(n, m) ==
  /\ Received(n, m, "Teardown")
  /\ LET p == Head(chan[m][n]).path
         r == tbl[n].routes[p]
         mine == InTable(tbl[n], p) /\ m \in {r.prev, r.next}
         x == Onward(r, m)
     IN  \/ ~mine /\ Reply(n, m, Silent) /\ UNCHANGED node
         \/ /\ mine
            /\ tbl' = [tbl EXCEPT ![n] = RemoveRoute(@, p)]
            /\ \/ /\ x = NullVid
                  /\ vset' = [vset EXCEPT ![n] = VsetAfterTeardown(n, {p})]
                  /\ nonEss' = [nonEss EXCEPT ![n] = NonEssAfterTeardown(n, {p})]
                  /\ Reply(n, m, Silent)
                  /\ UNCHANGED lost
               \/ /\ x # NullVid /\ ~OnwardBroken(r, m)
                  /\ Reply(n, m, Tell(x, TeardownMsg(p)))
                  /\ UNCHANGED <<vset, nonEss, lost>>
               \/ /\ x # NullVid /\ OnwardBroken(r, m)
                  /\ lost' = [lost EXCEPT ![n] = ForgetBroken(@, {<<p, x>>})]
                  /\ Reply(n, m, Silent)
                  /\ UNCHANGED <<vset, nonEss>>
            /\ UNCHANGED linked
  /\ UNCHANGED <<up, used, faults>>

\* processNonEssRouteTeardownTimer: take down the routes demoted by vrrAdd
NonEssTimer(n) ==
  /\ nonEss[n] # {}
  /\ LET r(p)    == tbl[n].routes[p]
         ps      == {p \in nonEss[n] : InTable(tbl[n], p)}
         hop(p)  == IF r(p).from = n THEN r(p).next ELSE r(p).prev
         cut(p)  == IF r(p).from = n THEN NextBroken(r(p)) ELSE PrevBroken(r(p))
     IN  /\ tbl' = [tbl EXCEPT ![n] = RemoveRoutes(@, ps)]
         /\ lost' = [lost EXCEPT ![n] = ForgetBroken(@, {<<p, hop(p)>> : p \in {q \in ps : cut(q)}})]
         /\ Send(n, TeardownEach([p \in {q \in ps : ~cut(q)} |-> hop(p)]))
  /\ nonEss' = [nonEss EXCEPT ![n] = {}]
  /\ UNCHANGED <<vset, linked, up, used, faults>>

-----------------------------------------------------------------------------
(* Lost pneis.                                                             *)

\* processBeacon from a pnei that hears me, with handleLinkedPnei
LinkPnei(n, x) ==
  /\ Relink /\ {n, x} \in up /\ x \notin linked[n]
  /\ linked' = [linked EXCEPT ![n] = @ \cup {x}]
  /\ tbl' = [tbl EXCEPT ![n] = IF x \in DOMAIN lost[n]
                               THEN TableAfterLinked(@, x, lost[n][x].broken) ELSE @]
  /\ lost' = [lost EXCEPT ![n] = Restrict(@, DOMAIN @ \ {x})]
  /\ UNCHANGED <<vset, nonEss, up, chan, used, faults>>

\* handleLostPneis, from purgeNeighbors, processBeacon or processFailedPacket.
\* Without BeaconLoss a pnei is lost because its link is down or because it
\* no longer lists me in its beacons.
LosePnei(n, x) ==
  /\ x \in linked[n]
  /\ \/ {n, x} \notin up /\ UNCHANGED faults
     \/ {n, x} \in up /\ n \notin linked[x] /\ UNCHANGED faults
     \/ {n, x} \in up /\ BeaconLoss /\ faults < MaxFaults /\ faults' = faults + 1
        /\ Cardinality(used) + faults < MaxEvents
  /\ linked' = [linked EXCEPT ![n] = @ \ {x}]
  /\ tbl' = [tbl EXCEPT ![n] = TableAfterLost(@, x)]
  /\ lost' = [lost EXCEPT ![n] = IF RoutesOver(tbl[n], x) = {} THEN @
                                  ELSE LostWith(@, x, BrokenBy(@, x, RoutesOver(tbl[n], x)))]
  /\ UNCHANGED <<vset, nonEss, up, chan, used>>

\* the linkTraces processWaitRepairLinkTimer may build to get a broken vroute
\* past its lost previous hop.  Which pnei leads to a 2-hop neighbour is read
\* from the last beacons, which may be stale.
Traces(n, r) ==
  IF r.from \in linked[n] THEN {<<r.from>>}
  ELSE IF Len(r.prevhops) < 2 THEN {<<>>}
  ELSE IF r.prevhops[2] \in linked[n] THEN {<<r.prevhops[2]>>}
  ELSE {<<>>} \cup {<<r.prevhops[2], h>> : h \in (linked[n] \cap Nbrs(r.prevhops[2])) \ {r.next}}

\* mutant: a repaired vroute stays on the list
RepairKeepsList(entry, done) == [entry EXCEPT !.retry = @ + 1]

\* the repaired vroutes leave the list, unless the next hop is broken too
AfterRepair(entry, done) == [broken |-> entry.broken \ done, retry |-> entry.retry + 1]

\* the table once the previous hop of each p \in DOMAIN trace leads along trace[p]
TableAfterRepair(t, trace) ==
  LET r(p) == t.routes[p]
  IN [routes |-> [p \in PathIds |->
        IF p \in DOMAIN trace
        THEN [SetHop(r(p), TRUE, 0) EXCEPT !.prev = Last(trace[p]), !.prevhops = Reverse(trace[p])]
        ELSE r(p)],
      ends   |-> t.ends \cup {<<r(p).from, p>> : p \in DOMAIN trace}]

\* processWaitRepairLinkTimer while there are retries left: local repair
RepairTimer(n, x) ==
  /\ x \in DOMAIN lost[n] /\ lost[n][x].retry < RetryLimit
  /\ LET r(p) == tbl[n].routes[p]
         ps   == {p \in lost[n][x].broken : InTable(tbl[n], p) /\ r(p).prev = x}
     IN \E choice \in [ps -> UNION {Traces(n, r(p)) : p \in ps}] :
          LET fixed == {p \in ps : choice[p] # <<>>}
              trace == Restrict(choice, fixed)
          IN /\ \A p \in ps : choice[p] \in Traces(n, r(p))
             /\ tbl' = [tbl EXCEPT ![n] = TableAfterRepair(@, trace)]
             /\ lost' = [lost EXCEPT ![n] =
                  LostWith(@, x, AfterRepair(@[x], {p \in fixed : r(p).next # x}))]
             /\ Send(n, TellEach([p \in fixed |-> Last(trace[p])],
                                 [p \in fixed |-> RepairMsg(p, r(p).from, r(p).to, trace[p])]))
  /\ UNCHANGED <<vset, nonEss, linked, up, used, faults>>

\* processWaitRepairLinkTimer with no retries left: take the vroutes that are
\* still broken down on the side that is left
GiveUpTimer(n, x) ==
  /\ x \in DOMAIN lost[n] /\ lost[n][x].retry >= RetryLimit
  /\ LET r(p)   == tbl[n].routes[p]
         ps     == IF x \in linked[n] THEN {}
                   ELSE {p \in lost[n][x].broken : InTable(tbl[n], p) /\ r(p).unavail # 0}
         hop(p) == Onward(r(p), x)
         cut(p) == OnwardBroken(r(p), x)
         ends   == {p \in ps : hop(p) = NullVid}
         gone   == {<<p, hop(p)>> : p \in {q \in ps \ ends : cut(q) /\ hop(q) # x}}
     IN  /\ tbl' = [tbl EXCEPT ![n] = RemoveRoutes(@, ps)]
         /\ vset' = [vset EXCEPT ![n] = VsetAfterTeardown(n, ends)]
         /\ nonEss' = [nonEss EXCEPT ![n] = NonEssAfterTeardown(n, ends)]
         /\ lost' = [lost EXCEPT ![n] = Restrict(ForgetBroken(@, gone), DOMAIN ForgetBroken(@, gone) \ {x})]
         /\ Send(n, TeardownEach([p \in {q \in ps \ ends : ~cut(q)} |-> hop(p)]))
  /\ UNCHANGED <<linked, up, used, faults>>

\* processRepairLocalReply, at n from m; trace[1] is the node that has to patch
\* its next hop, a node that is not yet on the vroute joins it
TableAfterPatch(t, p, m) ==
  LET r == t.routes[p]
  IN  [routes |-> [t.routes EXCEPT ![p] =
                     [IF NextBroken(r) THEN SetHop(r, FALSE, 0) ELSE r EXCEPT !.next = m]],
       ends   |-> IF NextBroken(r) THEN t.ends \cup {<<r.to, p>>} ELSE t.ends]

PatchNextHop(n, m, msg) ==
  LET p == msg.path
      r == tbl[n].routes[p]
  IN  /\ tbl' = [tbl EXCEPT ![n] = TableAfterPatch(@, p, m)]
      /\ lost' = [lost EXCEPT ![n] =
           IF NextBroken(r) /\ r.next \in DOMAIN @
           THEN LostWith(@, r.next, [broken |-> @[r.next].broken \ {p}, retry |-> @[r.next].retry])
           ELSE @]
      /\ Reply(n, m, Silent)
      /\ UNCHANGED <<vset, nonEss>>

\* getNextHopIndexInTrace: the LINKED pneis of the trace before me; the last one
\* is the next hop
LinkedBeforeMe(n, trace) ==
  {i \in DOMAIN trace : trace[i] \in linked[n] /\ \A j \in 1 .. i : trace[j] # n}

JoinRepair(n, m, msg) ==
  LET before == LinkedBeforeMe(n, msg.trace)
  IN  \/ before = {} /\ TeardownPath(n, m, msg.path, FALSE)
      \/ \E i \in before :
           LET nh == msg.trace[i]
           IN  /\ \A j \in before : j <= i
               /\ tbl' = [tbl EXCEPT ![n] =
                    AddRoute(@, msg.path, NewRoute(msg.from, msg.to, nh, m, FALSE, 0, <<msg.trace[1]>>))]
               /\ Reply(n, m, Tell(nh, RepairMsg(msg.path, msg.from, msg.to, <<msg.trace[1]>>)))
               /\ UNCHANGED <<vset, nonEss, lost>>

ProcessRepairLocalReply(n, m) ==
  /\ Received(n, m, "RepairLocalReply")
  /\ LET msg == Head(chan[m][n])
         p   == msg.path
         forMe == msg.trace[1] = n
     IN  \/ InTable(tbl[n], p) /\ ~forMe /\ TeardownPath(n, m, p, TRUE)
         \/ ~InTable(tbl[n], p) /\ forMe /\ TeardownPath(n, m, p, FALSE)
         \/ /\ InTable(tbl[n], p) <=> forMe
            /\ m \notin linked[n]
            /\ TeardownPath(n, m, p, FALSE)
         \/ InTable(tbl[n], p) /\ forMe /\ m \in linked[n] /\ PatchNextHop(n, m, msg)
         \/ ~InTable(tbl[n], p) /\ ~forMe /\ m \in linked[n] /\ JoinRepair(n, m, msg)
  /\ UNCHANGED <<linked, up, used, faults>>

-----------------------------------------------------------------------------
(* The environment: a link fails, and what is in it is lost; it comes back. *)
LinkDown(l) ==
  /\ l \in up /\ faults < MaxFaults /\ Cardinality(used) + faults < MaxEvents
  /\ up' = up \ {l} /\ faults' = faults + 1
  /\ chan' = [n \in Nodes |-> [m \in Nodes |-> IF {n, m} = l THEN <<>> ELSE chan[n][m]]]
  /\ UNCHANGED <<node, used>>

LinkUp(l) ==
  /\ Relink /\ l \in Links \ up
  /\ up' = up \cup {l}
  /\ UNCHANGED <<node, chan, used, faults>>

Receive(n, m) ==
  ProcessSetupReply(n, m) \/ ProcessTeardown(n, m) \/ ProcessRepairLocalReply(n, m)

Next ==
  \/ \E n, newnode \in Nodes, p \in PathIds, nh \in Hops : AnswerSetup(n, newnode, p, nh)
  \/ \E n, m \in Nodes : ProcessSetupReply(n, m)
  \/ \E n, m \in Nodes : ProcessTeardown(n, m)
  \/ \E n, m \in Nodes : ProcessRepairLocalReply(n, m)
  \/ \E n \in Nodes : NonEssTimer(n)
  \/ \E n, x \in Nodes : RepairTimer(n, x)
  \/ \E n, x \in Nodes : GiveUpTimer(n, x)
  \/ \E n, x \in Nodes : LinkPnei(n, x)
  \/ \E n, x \in Nodes : LosePnei(n, x)
  \/ \E l \in Links : LinkDown(l)
  \/ \E l \in Links : LinkUp(l)

Spec == Init /\ [][Next]_vars

\* Messages arrive and timers fire; a pnei whose link is down is purged.
Fairness ==
  \A n, m \in Nodes :
    /\ WF_vars(Receive(n, m))
    /\ WF_vars(NonEssTimer(n))
    /\ WF_vars(RepairTimer(n, m) \/ GiveUpTimer(n, m))
    /\ WF_vars({n, m} \notin up /\ LosePnei(n, m))

FairSpec == Spec /\ Fairness

-----------------------------------------------------------------------------
(* Properties.                                                             *)

\* Shorthand: the vroutes n knows, and the hops of an entry.
Known(n)    == {p \in PathIds : InTable(tbl[n], p)}
R(n, p)     == tbl[n].routes[p]
VrrStatus   == {0, 1, 4, 5}    \* VRR patches no hop and dismantles no vroute
LostEntry   == [broken : SUBSET PathIds, retry : 0 .. RetryLimit]

VsetType(n, v) == /\ DOMAIN v \subseteq Nodes \ {n}
                  /\ \A w \in DOMAIN v : v[w] \subseteq PathIds
LostType(l)    == /\ DOMAIN l \subseteq Nodes
                  /\ \A x \in DOMAIN l : l[x] \in LostEntry

TypeOK ==
  /\ tbl \in [Nodes -> Table]
  /\ \A n \in Nodes : \A p \in Known(n) : R(n, p).unavail \in VrrStatus
  /\ DOMAIN vset = Nodes /\ \A n \in Nodes : VsetType(n, vset[n])
  /\ nonEss \in [Nodes -> SUBSET PathIds]
  /\ DOMAIN lost = Nodes /\ \A n \in Nodes : LostType(lost[n])
  /\ linked \in [Nodes -> SUBSET Nodes]
  /\ up \subseteq Links
  /\ chan \in [Nodes -> [Nodes -> Seq(Msg)]]
  /\ used \subseteq PathIds
  /\ faults \in 0 .. MaxFaults

\* endpointToRoutesMap lists exactly the ends a message may be sent towards:
\* every key it leads to is in vlrRoutesMap, and an end is missing only if
\* removeBrokenVrouteEndpointInRepair took it out with the hop towards it.
EndpointMapMatchesRoutes ==
  \A n \in Nodes : EndsKnown(tbl[n]) /\ EndsListed(tbl[n], RemoveBroken)

\* A hop that is not marked unavailable is a LINKED pnei, so that what
\* findNextHop picks has a gate (getPneiGateIndex asserts it).
AvailableHopsLinked ==
  \A n \in Nodes : \A p \in Known(n) :
    LET r == R(n, p)
    IN  /\ r.prev # NullVid /\ ~PrevBroken(r) => r.prev \in linked[n]
        /\ r.next # NullVid /\ ~NextBroken(r) => r.next \in linked[n]

\* the broken hops of p at n are each on the list of the lost pnei
HopsTimed(n, p) ==
  LET r == R(n, p)
  IN  /\ PrevBroken(r) => r.prev \in DOMAIN lost[n] /\ p \in lost[n][r.prev].broken
      /\ NextBroken(r) => r.next \in DOMAIN lost[n] /\ p \in lost[n][r.next].broken

\* lostPneis and the marks on the vroutes agree: a hop marked unavailable is on
\* the list of a lost pnei, whose timer will repair it or take the vroute down,
\* and a vroute on the list that is still in the table goes over that pnei
\* (handleLinkedPnei takes the hop that is not the previous one for the next one
\* without looking).
LostPneisMatchTable ==
  \A n \in Nodes :
    /\ \A p \in Known(n) : HopsTimed(n, p)
    /\ \A x \in DOMAIN lost[n] : \A p \in lost[n][x].broken \cap Known(n) :
         x \in {R(n, p).prev, R(n, p).next}

\* vset and vroute table agree: a vnei is kept by at least one vset route, and
\* each of its routes is in the table (vrrAdd reads it with .at), is a vset
\* route and joins the two.
VsetRoutesKnown ==
  \A n \in Nodes : \A v \in DOMAIN vset[n] :
    /\ vset[n][v] # {}
    /\ \A p \in vset[n][v] : /\ InTable(tbl[n], p)
                             /\ R(n, p).isVset
                             /\ {R(n, p).from, R(n, p).to} = {n, v}

\* ... and a vset route is always the route to some vnei.
VsetRoutesServeVnei ==
  \A n \in Nodes : \A p \in Known(n) :
    R(n, p).isVset => /\ OtherEnd(n, R(n, p)) \in DOMAIN vset[n]
                      /\ p \in vset[n][OtherEnd(n, R(n, p))]

\* When nothing is in flight and nobody has a repair or teardown left to do,
\* every vroute is a chain: the node one hop on has it and points back, so no
\* node holds a vroute that leads nowhere.
Quiet == /\ \A n, m \in Nodes : chan[n][m] = <<>>
         /\ \A n \in Nodes : lost[n] = <<>> /\ nonEss[n] = {}
         /\ \A n \in Nodes : linked[n] = {m \in Nodes : {n, m} \in up}

Chained(n, p) ==
  LET r == R(n, p)
  IN  /\ r.next # NullVid => p \in Known(r.next) /\ R(r.next, p).prev = n
      /\ r.prev # NullVid => p \in Known(r.prev) /\ R(r.prev, p).next = n

QuietVroutesChained == Quiet => \A n \in Nodes : \A p \in Known(n) : Chained(n, p)

\* A RepairLocalReply for me from a pnei that is not LINKED is answered with a
\* Teardown, "not removing an existing vroute in vlrRoutingTable".
UnlinkedReplyRemovesNothing ==
  [][\A n, m \in Nodes :
       /\ Received(n, m, "RepairLocalReply") /\ Head(chan[m][n]).trace[1] = n
       /\ m \notin linked[n] /\ chan'[m][n] = Tail(chan[m][n])
       => \A p \in Known(n) : InTable(tbl'[n], p)]_vars

\* When all is quiet the two ends of a vset route agree that they are vneis.
QuietVsetMutual ==
  Quiet => \A n \in Nodes : \A v \in DOMAIN vset[n] : n \in DOMAIN vset[v]

\* A broken hop does not stay broken: it is restored, repaired or removed. (A
\* vroute that leaves a node the way it came is not meant: handleLinkedPnei
\* restores one of its hops only.)
Broken(n, p) ==
  /\ InTable(tbl[n], p) /\ R(n, p).prev # R(n, p).next
  /\ PrevBroken(R(n, p)) \/ NextBroken(R(n, p))

BrokenHopsResolved == \A n \in Nodes : \A p \in PathIds : Broken(n, p) ~> ~Broken(n, p)
=============================================================================
