------------------------------ MODULE VlrRepair ------------------------------
(***************************************************************************)
(* Repair in VLR (routing/vlr/Vlr.cc).  A node that loses a physical       *)
(* neighbour (pnei) marks the hops over it broken.  The node behind the    *)
(* break floods a RepairLinkReq for the nodes the vroute came through; one *)
(* of them that also has a broken hop answers with a RepairLinkReply, which *)
(* sets up a temporary route on its way and patches the hops at its two    *)
(* ends; RepairRoutes then tell the ends of the vroute that it is patched. *)
(* What cannot be repaired is taken down by Teardowns, which may leave a   *)
(* dismantled half of the vroute behind for a while.                       *)
(*                                                                         *)
(* All state of a node is one record, and a handler is a function from     *)
(* that record to the next.  Nodes run concurrently; unicast messages are  *)
(* FIFO per link, copies of a flood are delayed at random and so unordered. *)
(* Delays are abstracted: a timer may fire at any time, but nothing comes  *)
(* before a timer that is due at once (delayedRepairReqTimer).  Vroutes    *)
(* are set up before the behaviour starts; representativeFixed is TRUE, and *)
(* every node knows the representative and its rep parent.                 *)
(***************************************************************************)
EXTENDS VlrRingRoutingTable, VidRing, Functions, SequencesExt, FiniteSetsExt

CONSTANTS DummyVid,        \* VLRRINGVID_DUMMY, in Vids but nobody's vid
          NoPath,          \* VLRPATHID_INVALID
          NoTimer,         \* the timer is a null pointer
          Half,            \* vsetHalfCardinality
          Setups,          \* the networks to start from, see IsSetup
          RetryLimit,      \* repairLinkReqRetryLimit
          FloodTTL,        \* repairLinkReqFloodTTL
          PrevhopSize,     \* routePrevhopVidsSize
          SetupTempRoute,  \* setupTempRoute
          KeepDismantled,  \* keepDismantledRoute
          Rep,             \* the vid of the representative
          RepPath          \* VLRPATHID_REPPATH

Nodes == Vids \ {DummyVid}

(* A network before anything fails: its links, as pairs {a, b}; the vroutes *)
(* in it, path id -> nodes in order; those that are in nonEssRoutes of their *)
(* ends and not in vset; which pnei each node hears the representative from; *)
(* how often links may fail or LINKED pneis be lost, and how often they may *)
(* come back.                                                              *)
IsSetup(e) ==
  /\ {"links", "vroutes", "extra", "parent", "faults", "relinks"} \subseteq DOMAIN e
  /\ \A l \in e.links : l \subseteq Nodes /\ Cardinality(l) = 2
  /\ DOMAIN e.vroutes \subseteq PathIds /\ e.extra \subseteq DOMAIN e.vroutes /\ e.parent \in [Nodes -> Nodes]
  /\ e.faults \in Nat /\ e.relinks \in Nat
  /\ \A p \in DOMAIN e.vroutes :
       /\ e.vroutes[p] \in Seq(Nodes) /\ IsInjective(e.vroutes[p]) /\ Len(e.vroutes[p]) > 1
       /\ \A i \in 1 .. Len(e.vroutes[p]) - 1 : {e.vroutes[p][i], e.vroutes[p][i + 1]} \in e.links

ASSUME RepairAssumption ==
  /\ DummyVid \in Vids /\ NoPath \notin PathIds /\ NoTimer \notin Nat
  /\ Vids \subseteq Nat /\ IsFiniteSet(Vids) /\ PathIds \subseteq Nat /\ IsFiniteSet(PathIds)
  /\ \A e \in Setups : IsSetup(e)
  /\ {RetryLimit, FloodTTL} \subseteq Nat /\ {PrevhopSize, Half} \subseteq Nat \ {0}
  /\ {SetupTempRoute, KeepDismantled} \subseteq BOOLEAN
  /\ Rep \in Nodes /\ RepPath \notin PathIds \cup {NoPath}

VARIABLES
  node,    \* the state of each node, see NodeState
  chan,    \* chan[n][m]: the unicast messages from n to m, in order
  air,     \* the copies of RepairLinkReqFloods on their way
  setup,   \* the network and its vroutes before anything failed
  up,      \* the links that work
  used,    \* the path ids drawn so far
  faults,  \* how many faults have happened
  relinks  \* how often a link or a LINKED pnei came back

vars == <<node, chan, air, setup, up, used, faults, relinks>>

Nbrs(n) == {m \in Nodes : {n, m} \in up}

-----------------------------------------------------------------------------
(* Messages.  A Teardown or RepairRoute carries one path id here; the code *)
(* puts those with the same next hop into one message.                     *)
SomePath == PathIds \cup {NoPath}

\* a map from some of S to T
IsMap(f, S, T) == DOMAIN f \subseteq S /\ Range(f) \subseteq T

TeardownInt ==
  [type : {"Teardown"}, path : PathIds, src : Nodes, rebuild : BOOLEAN, dism : BOOLEAN,
   temp : SomePath, toward : Hops]
RepairRouteInt == [type : {"RepairRoute"}, path : PathIds, temp : SomePath, toward : Hops]
RepairLinkReplyInt ==
  [type : {"RepairLinkReply"}, path : PathIds, src : Nodes, broken : SUBSET PathIds, trace : Seq(Nodes)]
RepairLinkFailInt ==
  [type : {"RepairLinkFail"}, path : PathIds, src : Nodes, dst : Nodes, broken : SUBSET PathIds,
   curr : SomePath \cup {RepPath}]

\* one copy of it; dst is dstToPathidsMap
IsRepairLinkReqFloodInt(m) ==
  /\ IsMap(m.dst, Nodes, SUBSET PathIds)
  /\ m.to \in Nodes /\ m.trace \in Seq(Nodes) /\ m.seq \in Nat /\ m.ttl \in 1 .. FloodTTL

TeardownMsg(p, src, rebuild, dism) ==
  [type |-> "Teardown", path |-> p, src |-> src, rebuild |-> rebuild, dism |-> dism,
   temp |-> NoPath, toward |-> NullVid]
RepairRouteMsg(p) == [type |-> "RepairRoute", path |-> p, temp |-> NoPath, toward |-> NullVid]
ReplyMsg(t, src, broken, trace) ==
  [type |-> "RepairLinkReply", path |-> t, src |-> src, broken |-> broken, trace |-> trace]
FailMsg(t, src, dst, broken) ==
  [type |-> "RepairLinkFail", path |-> t, src |-> src, dst |-> dst, broken |-> broken, curr |-> t]

\* createRepairLinkReqFlood: what n asks, and whom
FloodMsg(n, dst, seq) == [to |-> n, dst |-> dst, trace |-> <<n>>, seq |-> seq, ttl |-> FloodTTL]

-----------------------------------------------------------------------------
(* What a node keeps.                                                      *)

\* the retryCount of it
WaitRepairLinkIntTimer == 0 .. RetryLimit

\* a WaitSetupReqIntTimer: its retryCount, the patched vroute it wants to
\* replace (getPatchedRoute, if getRepairRoute), getReqVnei, and isScheduled
WaitSetupReqIntTimer == [retry : Nat, repair : SomePath, reqVnei : BOOLEAN, on : BOOLEAN]

\* brokenVroutes, timer and whether it is due at once, tempVlinks
LostPneiInfo ==
  [broken : SUBSET PathIds, timer : WaitRepairLinkIntTimer \cup {NoTimer}, due : BOOLEAN, temp : SUBSET PathIds]

\* messages to each node: none
Nothing == [m \in Nodes |-> <<>>]

RepairLinkReqInfo == [broken : SUBSET PathIds, trace : Seq(Nodes)]

NodeOK(s) ==
  /\ s.tbl \in Table
  /\ IsMap(s.vset, Nodes, SUBSET PathIds)
  /\ \A ps \in {s.nonEss, s.unwanted, s.late, s.dismantled} : ps \subseteq PathIds
  /\ IsMap(s.asks, Nodes, WaitSetupReqIntTimer) /\ IsMap(s.lost, Vids, LostPneiInfo)
  /\ s.linked \cup s.pending \cup DOMAIN s.delayed \cup DOMAIN s.heard \subseteq Nodes
  /\ s.linked \cap s.pending = {}
  /\ Range(s.delayed) \subseteq RepairLinkReqInfo
  /\ DOMAIN s.recent \subseteq PathIds /\ \A p \in DOMAIN s.recent : IsMap(s.recent[p], PathIds, Vids)
  /\ s.parent \in Nodes /\ {s.inNet, s.warm, s.wake} \subseteq BOOLEAN /\ {s.seq} \cup Range(s.heard) \subseteq Nat
  /\ s.out = Nothing

-----------------------------------------------------------------------------
(* Initially: the vroutes of a setup, as SetupReq and SetupReply leave them. *)
Prevhops(path, i) == Reverse(SubSeq(path, IF i > PrevhopSize THEN i - PrevhopSize ELSE 1, i - 1))

HopOn(path, i) ==
  NewRoute(path[1], Last(path), IF i = 1 THEN NullVid ELSE path[i - 1],
           IF i = Len(path) THEN NullVid ELSE path[i + 1],
           FALSE, 0, Prevhops(path, i))

NodeInit(n, e) ==
  LET onIt   == {p \in DOMAIN e.vroutes : n \in Range(e.vroutes[p])}
      Place(p)  == CHOOSE i \in DOMAIN e.vroutes[p] : e.vroutes[p][i] = n
      atEnd  == {p \in onIt : Place(p) \in {1, Len(e.vroutes[p])}}
      inVset == atEnd \ e.extra
      FarEnd(p) == IF e.vroutes[p][1] = n THEN Last(e.vroutes[p]) ELSE e.vroutes[p][1]
      routes == [p \in PathIds |->
        IF p \in onIt THEN [HopOn(e.vroutes[p], Place(p)) EXCEPT !.isVset = p \in inVset] ELSE NoRoute]
  IN [tbl        |-> [routes |-> routes,
                      ends |-> UNION {{<<routes[p].from, p>>, <<routes[p].to, p>>} : p \in onIt}],
      vset       |-> [v \in {FarEnd(p) : p \in inVset} |-> {p \in inVset : FarEnd(p) = v}],
      nonEss     |-> atEnd \ inVset,  \* nonEssRoutes
      unwanted   |-> {},           \* nonEssUnwantedRoutes
      asks       |-> <<>>,         \* the setupReqTimers of pendingVset: target -> timer
      inNet      |-> inVset # {},  \* selfInNetwork
      warm       |-> FALSE,        \* is inNetworkWarmupTimer scheduled?
      late       |-> {},           \* those handleLinkedPnei leaves for nonEssRouteExpiration
      dismantled |-> {},           \* dismantledRoutes
      lost       |-> <<>>,         \* lostPneis: pnei -> brokenVroutes, retryCount, tempVlinks
      linked     |-> {m \in Nodes : {n, m} \in e.links},   \* the LINKED pneis of psetTable
      pending    |-> {},           \* the PENDING ones
      parent     |-> e.parent[n],  \* representative.heardfromvid
      recent     |-> <<>>,         \* recentTempRouteSent: temp route -> vroute -> old next hop
      delayed    |-> <<>>,         \* delayedRepairLinkReq: source -> broken vroutes, link trace
      heard      |-> <<>>,         \* recentReqFloodFrom: source -> floodSeqnum
      seq        |-> 0,            \* floodSeqnum
      wake       |-> FALSE,        \* is delayedRepairReqTimer scheduled?
      out        |-> Nothing]      \* what the running handler sends, to whom

InitIn(e) ==
  /\ setup  = e
  /\ node   = [n \in Nodes |-> NodeInit(n, e)]
  /\ up     = e.links
  /\ used   = DOMAIN e.vroutes

Init ==
  /\ \E e \in Setups : InitIn(e)
  /\ chan   = [n \in Nodes |-> Nothing]
  /\ air    = {}
  /\ faults = 0 /\ relinks = 0

-----------------------------------------------------------------------------
(* Parts of the handlers, on the state s of a node.                        *)
RouteOf(s, p) == s.tbl.routes[p]
Known(s)     == {p \in PathIds : InTable(s.tbl, p)}
OtherEnd(n, r) == IF r.from = n THEN r.to ELSE r.from

\* the hop, the end and the hop's state on the next or the previous side
HopTo(r, toNext)    == IF toNext THEN r.next ELSE r.prev
EndTo(r, toNext)    == IF toNext THEN r.to ELSE r.from
HopState(r, toNext) == PrevNextIsUnavailable(r.unavail, ~toNext)
ToNextOf(r, x)      == x # r.prev       \* the side lost pnei x is on

\* getRouteNextHop
HopToward(r, v) == IF v = r.from THEN r.prev ELSE r.next

\* the map f with x mapped to v
Put(f, x, v) == [y \in DOMAIN f \cup {x} |-> IF y = x THEN v ELSE f[y]]

Post(s, x, msg) == [s EXCEPT !.out[x] = Append(@, msg)]

\* a loop over a std::set of path ids or vids, in ascending order
ForEach(op(_, _), s, ps) ==
  LET do[T \in SUBSET ps] == IF T = {} THEN s ELSE op(do[T \ {Max(T)}], Max(T))
  IN  do[ps]

RemovePath(s, p) == [s EXCEPT !.tbl = RemoveRoute(@, p)]

\* set the state of a hop; a hop that leads nowhere hides the end behind it
MarkHop(s, p, toNext, v) ==
  LET r == RouteOf(s, p)
      t == [s.tbl EXCEPT !.routes[p] = SetHop(r, ~toNext, v)]
  IN  [s EXCEPT !.tbl = IF v \in {1, 3} THEN RemoveEnd(t, p, EndTo(r, toNext))
                                        ELSE AddEnd(t, p, EndTo(r, toNext))]

Dismantle(s, p, toNext, v) ==
  LET s1 == MarkHop(s, p, toNext, v)
  IN  [s1 EXCEPT !.tbl.routes[p].unavail = SetDismantled(@, ~toNext), !.dismantled = @ \cup {p}]

-----------------------------------------------------------------------------
(* lostPneis                                                               *)

\* add broken vroutes to the entry of x, which may be new, and arm its timer
\* if it has none
AddBroken(s, x, ps, timer) ==
  LET old == IF x \in DOMAIN s.lost THEN s.lost[x] ELSE [broken |-> {}, timer |-> NoTimer, due |-> FALSE, temp |-> {}]
      new == [old EXCEPT !.broken = @ \cup ps, !.timer = IF @ = NoTimer THEN timer ELSE @]
  IN  [s EXCEPT !.lost = Put(@, x, new)]

NoTimerFor(s, x) == [s EXCEPT !.lost[x].timer = NoTimer, !.lost[x].due = FALSE]

\* erase the entry; delayLostPneiTempVlinksTeardown leaves its temporary
\* routes to the teardown of nonEssRoutes
DropLost(s, x) ==
  [s EXCEPT !.nonEss = @ \cup s.lost[x].temp, !.lost = Restrict(@, DOMAIN @ \ {x})]

\* removeRouteFromLostPneiBrokenVroutes
LoseBroken(s, p, x) ==
  IF x \notin DOMAIN s.lost THEN s
  ELSE IF s.lost[x].broken \subseteq {p} THEN DropLost(s, x)
  ELSE [s EXCEPT !.lost[x].broken = @ \ {p}]

EraseBroken(s, p, x) ==
  IF x \in DOMAIN s.lost THEN [s EXCEPT !.lost[x].broken = @ \ {p}] ELSE s

Stale(s, p) == \/ ~InTable(s.tbl, p)
               \/ RouteOf(s, p).unavail = 0
               \/ IsDismantledRoute(RouteOf(s, p).unavail)

\* setLostPneiBrokenVroutes: every vroute on the list of x becomes broken (1)
\* or patched (2); the list loses those that are gone
SetBroken(s, x, v) ==
  ForEach(LAMBDA t, p : IF Stale(t, p) THEN EraseBroken(t, p, x)
                        ELSE MarkHop(t, p, ToNextOf(RouteOf(t, p), x), v),
          s, s.lost[x].broken)

\* ASSERT(!tempVlinks.empty())
HasTemp(s, x) == Assert(s.lost[x].temp # {}, "no temporary route") /\ s.lost[x].temp # {}

\* getVlrOptionToNextHop: send msg on to hop x, whose state is st, along the
\* first temporary route if the hop is patched
RelayVia(s, x, st, msg) ==
  IF st \in {0, 3} THEN Post(s, x, [msg EXCEPT !.temp = NoPath])
  ELSE IF st = 2 /\ x \in DOMAIN s.lost /\ HasTemp(s, x)
  THEN LET t == Min(s.lost[x].temp)
       IN  Post(s, HopToward(RouteOf(s, t), x), [msg EXCEPT !.temp = t, !.toward = x])
  ELSE s

\* sendCreatedTeardownToNextHop: the vroute needs the patched hop no more
TeardownVia(s, x, st, msg) ==
  LET s1 == RelayVia(s, x, st, msg)
  IN  IF st = 2 THEN LoseBroken(s1, msg.path, x) ELSE s1

-----------------------------------------------------------------------------
(* The ends of vroutes: removeEndpointOnTeardown.  A vnei that is lost is   *)
(* asked again, and the node may leave the network.  (What becomes of these *)
(* requests is in VlrSetup; here they are only recorded.)                  *)

AskTimer(repair, reqVnei) == [retry |-> 0, repair |-> repair, reqVnei |-> reqVnei, on |-> TRUE]

\* keepSelfInNetwork: v was not one of the two closest vneis
KeepInNetwork(n, vneis, v) ==
  /\ Half > 1 /\ Cardinality(vneis) >= 2
  /\ \E u \in vneis : CCWDistance(n, u) < CCWDistance(n, v)
  /\ \E u \in vneis : CWDistance(n, u) < CWDistance(n, v)

LoseVnei(s, n, v, repair) ==
  LET s1    == [s EXCEPT !.vset = Restrict(@, DOMAIN @ \ {v}), !.asks = Put(@, v, AskTimer(repair, TRUE))]
      short == s.inNet /\ Cardinality(DOMAIN s1.vset) < 2 * Half
  IN  IF short THEN IF KeepInNetwork(n, DOMAIN s1.vset, v) THEN s1 ELSE [s1 EXCEPT !.inNet = FALSE, !.warm = TRUE]
      ELSE IF DOMAIN s1.vset = {} THEN [s1 EXCEPT !.inNet = FALSE, !.warm = FALSE] ELSE s1

LoseVsetRoute(s, n, p, v, repair) ==
  IF v \notin DOMAIN s.vset THEN s
  ELSE IF s.vset[v] \subseteq {p} THEN LoseVnei(s, n, v, repair)
  ELSE [s EXCEPT !.vset[v] = @ \ {p}]

\* vroute p was moved to x, whose temporary route is gone: give it back to the
\* next hop it had, or to nobody if that one is patched, and let it be torn down
Orphan(s, p, old) ==
  LET x  == IF old \in DOMAIN s.lost /\ s.lost[old].timer = NoTimer THEN DummyVid ELSE old
      s1 == AddBroken(MarkHop(s, p, TRUE, 1), x, {p}, RetryLimit)
  IN  [s1 EXCEPT !.tbl.routes[p].next = x]

PatchedTo(s, p, x) == InTable(s.tbl, p) /\ RouteOf(s, p).next = x /\ HopState(RouteOf(s, p), TRUE) = 2


\* a temporary route to x is gone: without another one the vroutes it patched
\* are broken and the repair starts again
LoseTemp(s, t, x) ==
  IF x \in DOMAIN s.lost THEN
    LET s1 == [NoTimerFor(s, x) EXCEPT !.lost[x].temp = @ \ {t}]
        s2 == SetBroken(s1, x, 1)
    IN  IF s1.lost[x].temp # {} THEN s1
        ELSE IF s2.lost[x].broken = {} THEN DropLost(s2, x)
        ELSE [s2 EXCEPT !.lost[x].timer = 0, !.wake = TRUE]
  ELSE IF t \in DOMAIN s.recent THEN
    LET old == s.recent[t]
        s1  == ForEach(LAMBDA u, p : IF PatchedTo(u, p, x) THEN Orphan(u, p, old[p]) ELSE u, s, DOMAIN old)
    IN  [s1 EXCEPT !.recent = Restrict(@, DOMAIN @ \ {t})]
  ELSE s

\* the vroute an ask wants to replace is gone
NotRepairing(s, p, v) ==
  IF v \in DOMAIN s.asks /\ s.asks[v].repair = p THEN [s EXCEPT !.asks[v].repair = NoPath] ELSE s

RemoveEndpoint(s, n, p, other) ==
  LET r == RouteOf(s, p)
  IN  IF r.isVset THEN LoseVsetRoute(s, n, p, other, NoPath)
      ELSE IF p \in s.nonEss
      THEN NotRepairing([s EXCEPT !.nonEss = @ \ {p}, !.unwanted = @ \ {p}], p, other)
      ELSE IF IsTemporaryRoute(r.unavail) THEN LoseTemp(s, p, other)
      ELSE s

\* mutant: the vroute stays a vset route
PatchEndOnly(s, n, p, other) ==
  [(IF RouteOf(s, p).isVset THEN LoseVsetRoute(s, n, p, other, p) ELSE s)
     EXCEPT !.nonEss = @ \cup {p}, !.unwanted = @ \cup {p}]

\* an end hears that vroute p is patched: it is not a vset route any more but
\* kept for a while (reqRepairRoute = true, and what its callers do)
PatchEnd(s, n, p, other) ==
  LET s1 == IF RouteOf(s, p).isVset THEN LoseVsetRoute(s, n, p, other, p) ELSE s
  IN  [s1 EXCEPT !.tbl.routes[p].isVset = FALSE, !.nonEss = @ \cup {p}, !.unwanted = @ \cup {p}]

-----------------------------------------------------------------------------
(* handleLostPneis, for one pnei.  A temporary or dismantled vroute over x *)
(* is taken down on the other side; a regular one is kept for repair.      *)
DropRouteOver(s, n, p, x) ==
  LET r      == RouteOf(s, p)
      onward == r.prev = x
      nh     == HopTo(r, onward)
      st     == HopState(r, onward)
      dism   == IsDismantledRoute(r.unavail)
      s1     == IF nh # x /\ ((~dism /\ st # 1) \/ st = 3)
                THEN Post(s, nh, TeardownMsg(p, n, TRUE, TRUE)) ELSE s
  IN  IF nh = NullVid THEN RemovePath(RemoveEndpoint(s, n, p, OtherEnd(n, r)), p)
      ELSE IF IsTemporaryRoute(r.unavail) \/ ~KeepDismantled \/ st # 0 THEN RemovePath(s1, p)
      ELSE Dismantle(s1, p, ~onward, 1)

LoseRouteOver(s, n, p, x) ==
  LET r == RouteOf(s, p)
  IN  IF ~InTable(s.tbl, p) \/ x \notin {r.prev, r.next} THEN s
      ELSE IF ~SetupTempRoute \/ IsTemporaryRoute(r.unavail) \/ IsDismantledRoute(r.unavail)
      THEN DropRouteOver(s, n, p, x)
      ELSE AddBroken(MarkHop(s, p, ToNextOf(r, x), 1), x, {p}, NoTimer)

AfterLost(s, n, x) ==
  LET s1 == ForEach(LAMBDA t, p : LoseRouteOver(t, n, p, x),
                    [s EXCEPT !.linked = @ \ {x}], Known(s))
  IN  [(IF x \in DOMAIN s1.lost THEN AddBroken(s1, x, {}, 0) ELSE s1) EXCEPT !.wake = TRUE]

\* handleLinkedPnei: the vroutes broken by x are available again, unless a
\* temporary route to x has just been built
RestoreHops(s, x) ==
  DropLost(ForEach(LAMBDA t, p : IF InTable(t.tbl, p)
                                 THEN MarkHop(t, p, ToNextOf(RouteOf(t, p), x), 0) ELSE t,
                   s, s.lost[x].broken), x)

Restorable(s, x) == s.lost[x].temp \cap DOMAIN s.recent = {}

AfterLinked(s, x) ==
  LET s1 == [s EXCEPT !.linked = @ \cup {x}]
  IN  IF x \in DOMAIN s.lost /\ Restorable(s, x)
      THEN [RestoreHops(s1, x) EXCEPT !.late = @ \cup s.lost[x].temp] ELSE s1

-----------------------------------------------------------------------------
(* processWaitRepairLinkTimer                                              *)

\* the vroutes whose previous hop broke, by the nodes they came through
Lookup(s, n, x) ==
  LET ps == {p \in s.lost[x].broken : InTable(s.tbl, p) /\ RouteOf(s, p).prev = x}
      asks(p) == Range(RouteOf(s, p).prevhops) \cup {RouteOf(s, p).from}
  IN  [v \in UNION {asks(p) : p \in ps} |-> {p \in ps : v \in asks(p)}]

\* one vroute that could not be repaired, broken on the side of x
GiveUpRoute(s, n, p, x) ==
  LET r      == RouteOf(s, p)
      onward == r.prev = x
      nh     == HopTo(r, onward)
      st     == HopState(r, onward)
      s1     == IF st = 1 THEN LoseBroken(s, p, nh)
                ELSE TeardownVia(s, nh, st, TeardownMsg(p, n, TRUE, TRUE))
  IN  IF nh = NullVid THEN RemovePath(RemoveEndpoint(s, n, p, OtherEnd(n, r)), p)
      ELSE IF ~KeepDismantled \/ st # 0 THEN RemovePath(s1, p)
      ELSE Dismantle(s1, p, ~onward, 1)

GiveUp(s, n, x) ==
  LET ps == IF x \in s.linked THEN {} ELSE {p \in s.lost[x].broken : ~Stale(s, p)}
      s1 == ForEach(LAMBDA t, p : GiveUpRoute(t, n, p, x), s, ps)
  IN  IF x \in DOMAIN s1.lost THEN DropLost(s1, x) ELSE s1

-----------------------------------------------------------------------------
(* Floods.  getNextHopIndexInTrace: the LINKED pneis of the trace before   *)
(* me; the last one is the next hop.                                       *)
UpToMe(n, trace) ==
  LET i == SelectInSeq(trace, LAMBDA v : v = n)
  IN  IF i = 0 THEN trace ELSE SubSeq(trace, 1, i - 1)

BeforeMe(s, n, trace) == {i \in DOMAIN UpToMe(n, trace) : trace[i] \in s.linked}

\* the vroutes I can answer for: mine is the broken hop before the break
Answered(s, ps) == {p \in ps : InTable(s.tbl, p) /\ HopState(RouteOf(s, p), TRUE) = 1}
Postponed(s, ps) == {p \in ps : InTable(s.tbl, p) /\ HopState(RouteOf(s, p), TRUE) # 1}


\* the vroutes ps whose next hop is not src are moved to src
MoveNextHops(s, src, ps) ==
  ForEach(LAMBDA t, p : [EraseBroken(t, p, RouteOf(t, p).next) EXCEPT !.tbl.routes[p].next = src], s, ps)

\* processRepairLinkReqInfo, t being the path id genPathID draws if it is called
AnswerReq(s, n, src, ps, trace, t) ==
  LET mine  == Answered(s, ps)
      moved == {p \in mine : RouteOf(s, p).next # src}
      old   == [p \in moved |-> RouteOf(s, p).next]
      s1    == AddBroken(MoveNextHops(s, src, moved), src, moved, NoTimer)
      back  == BeforeMe(s, n, trace)
      s2    == SetBroken(NoTimerFor(s1, src), src, 2)
      nh    == trace[Max(back)]
      s3    == [s2 EXCEPT !.tbl = AddRoute(@, t, NewRoute(n, src, NullVid, nh, FALSE, 16, <<>>)),
                          !.lost[src].temp = @ \cup {t},
                          !.recent = IF moved = {} THEN @ ELSE Put(@, t, old)]
  IN  IF mine = {} THEN s
      ELSE IF back = {} THEN AddBroken(s1, src, {}, RetryLimit)
      ELSE IF s2.lost[src].broken = {} THEN DropLost(s2, src)
      ELSE Post(s3, nh, ReplyMsg(t, n, mine, UpToMe(n, trace)))

\* sendCreatedRepairLinkReqFlood: a copy for every neighbour
Cast(n, flood) == {[flood EXCEPT !.to = m] : m \in Nbrs(n)}

\* mutant: my own vroutes are asked for again behind me
FloodAll(n, f) == [f EXCEPT !.trace = Append(@, n), !.ttl = @ - 1]

\* the flood as n passes it on
FloodOn(n, f) == [f EXCEPT !.dst = Restrict(@, DOMAIN @ \ {n}), !.trace = Append(@, n), !.ttl = @ - 1]

\* processDelayedRepairLinkReq: the requests that have not expired again
RetryReq(s, n, src, t) ==
  LET ps   == s.delayed[src].broken
      s1   == AnswerReq(s, n, src, ps, s.delayed[src].trace, t)
      left == Postponed(s, ps)
  IN  [s1 EXCEPT !.delayed = IF left = {} THEN Restrict(@, DOMAIN @ \ {src})
                             ELSE [@ EXCEPT ![src].broken = left]]

\* the part of processRepairLinkReqFlood that looks for my path ids
HearReq(s, n, f, t) ==
  LET src  == f.trace[1]
      ps   == f.dst[n] \ (IF src \in DOMAIN s.delayed THEN s.delayed[src].broken ELSE {})
      s1   == AnswerReq(s, n, src, ps, f.trace, t)
      left == Postponed(s, ps)
      old  == IF src \in DOMAIN s.delayed THEN s.delayed[src] ELSE [broken |-> {}, trace |-> f.trace]
  IN  IF n \notin DOMAIN f.dst THEN s
      ELSE IF left = {} THEN s1
      ELSE [s1 EXCEPT !.delayed = Put(@, src, [old EXCEPT !.broken = @ \cup left])]

-----------------------------------------------------------------------------
(* RepairLinkFail travels to the other end of the temporary route it       *)
(* follows.  findNextHopForSetupReq sends it to its destination if that is *)
(* a LINKED pnei; up the tree of the representative if that is the         *)
(* destination; else along the temporary route.  Nothing else will do: the *)
(* end it is on its way to is the destination itself, so that any other    *)
(* end is too far, and as far on another vroute.  A node that has none of  *)
(* the three drops it, and if it does not know the route, but a node       *)
(* nearer to the destination than itself, takes the route down behind it.  *)

\* is the rep-path usable, for a message that must not go to ex?
RepKnown(s, ex) == Rep # ex /\ s.parent # ex /\ s.parent \in s.linked

FailHasWay(s, msg) ==
  \/ msg.dst \in s.linked
  \/ msg.dst = Rep /\ RepKnown(s, NullVid)
  \/ <<msg.dst, msg.curr>> \in s.tbl.ends

SendFail(s, msg) ==
  IF msg.dst \in s.linked THEN Post(s, msg.dst, [msg EXCEPT !.curr = NoPath])
  ELSE IF msg.dst = Rep /\ RepKnown(s, NullVid) THEN Post(s, s.parent, [msg EXCEPT !.curr = RepPath])
  ELSE Post(s, HopToward(RouteOf(s, msg.curr), msg.dst), msg)

\* at the node that built the temporary route: the vroutes the other end could
\* not patch are broken again
UnpatchFailed(s, msg) ==
  LET x   == msg.src
      old == IF msg.path \in DOMAIN s.recent THEN s.recent[msg.path] ELSE <<>>
      ps  == {p \in msg.broken : PatchedTo(s, p, x)}
      s1  == ForEach(LAMBDA t, p : Orphan(EraseBroken(t, p, x), p, IF p \in DOMAIN old THEN old[p] ELSE x),
                     s, ps)
  IN  IF x \notin DOMAIN s.lost THEN s
      ELSE [s1 EXCEPT !.recent = IF msg.path \in DOMAIN @
                                 THEN Put(@, msg.path, Restrict(old, DOMAIN old \ ps)) ELSE @]

-----------------------------------------------------------------------------
(* processRepairLinkReply.                                                 *)

\* prevhopVids once the source of the vroute is known to be on it
WithSource(r, src) ==
  IF r.from = src /\ src \notin Range(r.prevhops) THEN Append(r.prevhops, src) ELSE r.prevhops

\* the last index of v in prevhopVids, the first one if it is not there
IndexOf(hops, v) ==
  LET at == {i \in DOMAIN hops : hops[i] = v} IN IF at = {} THEN 1 ELSE Max(at)

\* will the previous hop of r be moved back to src?
MovesBack(r, src) ==
  /\ HopState(r, FALSE) # 3 /\ r.prev # src
  /\ IndexOf(WithSource(r, src), src) > IndexOf(WithSource(r, src), r.prev)

MoveBack(s, src, p) ==
  LET r    == RouteOf(s, p)
      hops == WithSource(r, src)
      r1   == IF HopState(r, FALSE) = 0 THEN SetHop(r, TRUE, 2) ELSE r
  IN  [EraseBroken(s, p, r.prev) EXCEPT !.tbl.routes[p] =
         [r1 EXCEPT !.prev = src, !.prevhops = SubSeq(hops, IndexOf(hops, src), Len(hops))]]

\* a vroute that is not moved still learns of its source
LearnSource(s, src, p) ==
  LET r == RouteOf(s, p)
  IN  IF r.prev # src /\ HopState(r, FALSE) # 3
      THEN [s EXCEPT !.tbl.routes[p].prevhops = WithSource(r, src)] ELSE s

\* tell the rest of vroute p, patched on the side of src, that it is
Announce(s, n, p, src) ==
  LET r      == RouteOf(s, p)
      onward == r.prev = src
      nh     == HopTo(r, onward)
      st     == HopState(r, onward)
      s1     == IF onward THEN [s EXCEPT !.tbl.routes[p].repairSent = TRUE] ELSE s
  IN  IF nh = NullVid THEN PatchEnd(s, n, p, OtherEnd(n, r))
      ELSE IF st = 1 \/ r.repairSent THEN s
      ELSE RelayVia(s1, nh, st, RepairRouteMsg(p))

\* the vroutes SetBroken(_, x, 2) patches and wants announced
ToAnnounce(s, x) ==
  {p \in s.lost[x].broken : ~Stale(s, p) /\ (RouteOf(s, p).prev = x \/ HopState(RouteOf(s, p), TRUE) # 2)}

\* the temporary route is not wanted; may the other end build another one?
RefuseTemp(s, n, m, t, rebuild) == Post(s, m, TeardownMsg(t, n, rebuild, FALSE))

\* the temporary route msg sets up ends here: patch what it can patch
EndTempRoute(s, n, m, msg) ==
  LET src   == msg.src
      t     == msg.path
      here  == {p \in msg.broken : InTable(s.tbl, p) /\ HopState(RouteOf(s, p), FALSE) # 3}
      moved == {p \in here : MovesBack(RouteOf(s, p), src)}
      done  == moved \cup {p \in here : RouteOf(s, p).prev = src}
      s1    == ForEach(LAMBDA u, p : MoveBack(u, src, p),
                       ForEach(LAMBDA u, p : LearnSource(u, src, p), s, here \ moved), moved)
      s2    == IF moved = {} THEN s1 ELSE AddBroken(s1, src, moved, NoTimer)
      told  == IF m = src THEN {} ELSE ToAnnounce(s2, src)
      s3    == SetBroken(NoTimerFor(s2, src), src, 2)
      s4    == [s3 EXCEPT !.lost[src].temp = @ \cup {t},
                          !.tbl = AddRoute(@, t, NewRoute(src, n, m, NullVid, FALSE, 16, <<>>))]
      s5    == ForEach(LAMBDA u, p : Announce(u, n, p, src), s4, told)
  IN  IF done = {} THEN RefuseTemp(s1, n, m, t, TRUE)
      ELSE IF src \notin DOMAIN s2.lost THEN RefuseTemp(s1, n, m, t, FALSE)
      ELSE IF s4.lost[src].broken = {} THEN DropLost(s4, src)
      ELSE IF msg.broken \subseteq done THEN s5
      ELSE SendFail(s5, FailMsg(t, n, src, msg.broken \ done))

\* forwardRepairLinkReply
ForwardReply(s, n, m, msg) ==
  LET back == BeforeMe(s, n, msg.trace)
      nh   == msg.trace[Max(back)]
      r    == NewRoute(msg.src, msg.trace[1], m, nh, FALSE, 16, <<>>)
  IN  IF back = {} THEN Post(s, m, TeardownMsg(msg.path, n, TRUE, FALSE))
      ELSE Post([s EXCEPT !.tbl = AddRoute(@, msg.path, r)], nh,
                [msg EXCEPT !.trace = UpToMe(n, @)])

HandleReply(s, n, m, msg) ==
  IF InTable(s.tbl, msg.path) \/ m \notin s.linked
  THEN Post(s, m, TeardownMsg(msg.path, n, TRUE, FALSE))
  ELSE IF msg.trace[1] = n THEN EndTempRoute(s, n, m, msg)
  ELSE ForwardReply(s, n, m, msg)

-----------------------------------------------------------------------------
(* A message that travels along a temporary route (temp, toward): it is at *)
(* the end it was sent to, has to be passed on, or finds the route gone.   *)
Riding(s, n, msg) == msg.temp # NoPath /\ InTable(s.tbl, msg.temp) /\ msg.toward # n
Stranded(s, msg)  == msg.temp # NoPath /\ ~InTable(s.tbl, msg.temp)

\* the hop of the vroute it comes from
Sender(s, n, m, msg) == IF msg.temp = NoPath THEN m ELSE OtherEnd(n, RouteOf(s, msg.temp))

\* processTeardownAtEndpoint.  A temporary route its other end does not want
\* rebuilt: the vroutes it patched are taken down next.
TeardownAtEnd(s, n, msg) ==
  LET p     == msg.path
      r     == RouteOf(s, p)
      other == OtherEnd(n, r)
  IN  IF IsTemporaryRoute(r.unavail) /\ msg.src = other /\ ~msg.rebuild
      THEN IF other \notin DOMAIN s.lost THEN s
           ELSE [s EXCEPT !.lost[other].timer = RetryLimit, !.lost[other].due = TRUE,
                         !.lost[other].temp = @ \ {p}]
      ELSE RemoveEndpoint(s, n, p, other)


\* is a Teardown for r worth passing on?
PassOn(r, onward) ==
  /\ HopState(r, onward) # 1
  /\ IsDismantledRoute(r.unavail) => /\ HopState(r, onward) # 2
                                     /\ EndTo(r, onward) # HopTo(r, onward)

\* processTeardown from hop x of vroute p
TeardownRoute(s, n, x, msg) ==
  LET p      == msg.path
      r      == RouteOf(s, p)
      onward == x = r.prev
      nh     == HopTo(r, onward)
      st     == HopState(r, onward)
      dism   == IsDismantledRoute(r.unavail)
      s1     == IF PassOn(r, onward) THEN TeardownVia(s, nh, st, msg)
                ELSE IF st = 1 /\ ~dism THEN LoseBroken(s, p, nh) ELSE s
      s2     == [s1 EXCEPT !.dismantled = IF dism THEN @ \ {p} ELSE @]
      behind == IF msg.temp # NoPath /\ HopState(r, ~onward) = 2 THEN 1 ELSE 3
  IN  IF nh = NullVid THEN RemovePath(TeardownAtEnd(s, n, msg), p)
      ELSE IF IsTemporaryRoute(r.unavail) \/ ~KeepDismantled \/ ~msg.dism \/ dism THEN RemovePath(s2, p)
      ELSE Dismantle(s2, p, ~onward, behind)

OnRoute(s, p, x) == InTable(s.tbl, p) /\ x \in {RouteOf(s, p).prev, RouteOf(s, p).next}


HandleTeardown(s, n, m, msg) ==
  LET x  == Sender(s, n, m, msg)
      s1 == IF msg.temp = NoPath THEN s ELSE LoseBroken(s, msg.path, x)
  IN  IF Stranded(s, msg) THEN Post(s, m, TeardownMsg(msg.temp, n, TRUE, FALSE))
      ELSE IF Riding(s, n, msg) THEN Post(s, HopToward(RouteOf(s, msg.temp), msg.toward), msg)
      ELSE IF OnRoute(s1, msg.path, x) THEN TeardownRoute(s1, n, x, msg)
      ELSE s1

\* an end of vroute p hears that it is patched.  When it is the first of several
\* vset routes to that vnei, the others are given up too.
PatchedEnd(s, n, p) ==
  LET v     == OtherEnd(n, RouteOf(s, p))
      rest  == IF v \in DOMAIN s.vset THEN s.vset[v] \ {p} ELSE {}
      first == RouteOf(s, p).isVset /\ rest # {} /\ \A q \in rest : p < q
      s1    == [s EXCEPT !.vset[v] = {p} \cap @, !.nonEss = @ \cup rest, !.unwanted = @ \cup rest,
                         !.tbl.routes = [q \in PathIds |-> IF q \in rest THEN [@[q] EXCEPT !.isVset = FALSE]
                                                           ELSE @[q]]]
  IN  PatchEnd(IF first THEN s1 ELSE s, n, p, v)

\* processRepairRoute
RepairRouteFrom(s, n, x, msg) ==
  LET r      == RouteOf(s, msg.path)
      onward == x = r.prev
  IN  IF HopTo(r, onward) = NullVid THEN PatchedEnd(s, n, msg.path)
      ELSE RelayVia(s, HopTo(r, onward), HopState(r, onward), msg)

HandleRepairRoute(s, n, m, msg) ==
  LET x == Sender(s, n, m, msg)
      unknown == TeardownMsg(msg.path, n, TRUE, FALSE)
  IN  IF Stranded(s, msg) THEN Post(s, m, TeardownMsg(msg.temp, n, TRUE, FALSE))
      ELSE IF Riding(s, n, msg) THEN Post(s, HopToward(RouteOf(s, msg.temp), msg.toward), msg)
      ELSE IF OnRoute(s, msg.path, x) THEN RepairRouteFrom(s, n, x, msg)
      ELSE IF InTable(s.tbl, msg.path) THEN s
      ELSE IF msg.temp = NoPath THEN Post(s, m, unknown)
      ELSE TeardownVia(s, x, 2, unknown)

-----------------------------------------------------------------------------
(* Actions.  A handler runs at n, and what it sends goes into the channels; *)
(* a message into a link that is down is lost.                             *)
After(c, n, out) == [c EXCEPT ![n] = [m \in Nodes |-> IF {n, m} \in up THEN @[m] \o out[m] ELSE @[m]]]

Becomes(n, s) == node' = [node EXCEPT ![n] = [s EXCEPT !.out = Nothing]]

Step(n, s)     == Becomes(n, s) /\ chan' = After(chan, n, s.out)
Reply(n, m, s) == Becomes(n, s) /\ chan' = After([chan EXCEPT ![m][n] = Tail(@)], n, s.out)

\* no timer is due at this very moment
Due(s) == {x \in DOMAIN s.lost : s.lost[x].due}
Calm   == \A n \in Nodes : ~node[n].wake /\ Due(node[n]) = {}

Received(n, m, ty) == chan[m][n] # <<>> /\ Head(chan[m][n]).type = ty /\ Calm

ProcessTeardown(n, m) ==
  /\ Received(n, m, "Teardown")
  /\ Reply(n, m, HandleTeardown(node[n], n, m, Head(chan[m][n])))
  /\ UNCHANGED <<air, setup, up, used, faults, relinks>>

ProcessRepairRoute(n, m) ==
  /\ Received(n, m, "RepairRoute")
  /\ Reply(n, m, HandleRepairRoute(node[n], n, m, Head(chan[m][n])))
  /\ UNCHANGED <<air, setup, up, used, faults, relinks>>

ProcessRepairLinkReply(n, m) ==
  /\ Received(n, m, "RepairLinkReply")
  /\ Reply(n, m, HandleReply(node[n], n, m, Head(chan[m][n])))
  /\ UNCHANGED <<air, setup, up, used, faults, relinks>>

ProcessRepairLinkFail(n, m) ==
  /\ Received(n, m, "RepairLinkFail")
  /\ LET s   == node[n]
         msg == Head(chan[m][n])
         way == FailHasWay(s, msg)
     IN  \/ msg.dst = n /\ Reply(n, m, UnpatchFailed(s, msg))
         \/ msg.dst # n /\ way /\ Reply(n, m, SendFail(s, msg))
         \/ msg.dst # n /\ ~way /\ Reply(n, m, s)
         \/ /\ msg.dst # n /\ ~way /\ s.linked \cup s.pending # {}
            /\ msg.curr \in PathIds /\ ~InTable(s.tbl, msg.curr)
            /\ Reply(n, m, Post(s, m, TeardownMsg(msg.curr, n, TRUE, FALSE)))
  /\ UNCHANGED <<air, setup, up, used, faults, relinks>>

\* the path ids a handler drew
Drawn(n, s) == {t \in PathIds \ used : InTable(s.tbl, t)}

\* processRepairLinkReqFlood, for one copy.  A flood heard before is dropped,
\* but a second copy is still answered.
ProcessFlood(n, f, t) ==
  LET s    == node[n]
      src  == f.trace[1]
      last == IF src \in DOMAIN s.heard THEN s.heard[src] ELSE 0
      s1   == HearReq([s EXCEPT !.heard = IF f.seq > last THEN Put(@, src, f.seq) ELSE @], n, f, t)
      on   == FloodOn(n, f)
  IN  /\ f \in air /\ f.to = n /\ Calm /\ (n \in DOMAIN f.dst => t \notin used)
      /\ IF src = n \/ f.seq < last \/ (f.seq = last /\ n \notin DOMAIN f.dst)
         THEN air' = air \ {f} /\ UNCHANGED <<node, chan, used>>
         ELSE /\ Step(n, s1)
              /\ used' = used \cup Drawn(n, s1)
              /\ air' = (air \ {f}) \cup (IF f.seq > last /\ f.ttl > 1 /\ on.dst # <<>> THEN Cast(n, on) ELSE {})
  /\ UNCHANGED <<setup, up, faults, relinks>>

\* processDelayedRepairLinkReq; each request kept may have expired
DelayedRepair(n, live, draw) ==
  /\ node[n].wake
  /\ live \subseteq DOMAIN node[n].delayed
  /\ LET s  == [node[n] EXCEPT !.wake = FALSE, !.delayed = Restrict(@, live)]
         s1 == IF SetupTempRoute THEN ForEach(LAMBDA u, src : RetryReq(u, n, src, draw[src]), s, live)
               ELSE [node[n] EXCEPT !.wake = FALSE]
     IN  Step(n, s1) /\ used' = used \cup Drawn(n, s1)
  /\ UNCHANGED <<air, setup, up, faults, relinks>>

\* processWaitRepairLinkTimer with retries left: ask for a repair
RepairTimer(n, x) ==
  /\ x \in DOMAIN node[n].lost /\ (Calm \/ x \in Due(node[n]))
  /\ node[n].lost[x].timer \in 0 .. RetryLimit - 1
  /\ LET dst == Lookup(node[n], n, x)
         asking == dst # <<>>
         s   == [node[n] EXCEPT !.lost[x].timer = @ + 1, !.lost[x].due = (node[n].lost[x].broken = {}),
                                !.seq = IF asking THEN @ + 1 ELSE @]
     IN  /\ Becomes(n, s)
         /\ air' = air \cup (IF asking THEN Cast(n, FloodMsg(n, dst, s.seq)) ELSE {})
  /\ UNCHANGED <<chan, setup, up, used, faults, relinks>>

\* a wait is longer than a beacon interval: a LINKED pnei has restored its hops
Heard(n, x) ==
  ~(x \in node[n].linked /\ {n, x} \in up /\ Restorable(node[n], x))

\* ... and without: take down what is still broken
GiveUpTimer(n, x) ==
  /\ x \in DOMAIN node[n].lost /\ (x \in Due(node[n]) \/ (Calm /\ Heard(n, x)))
  /\ node[n].lost[x].timer = RetryLimit
  /\ Step(n, GiveUp(node[n], n, x))
  /\ UNCHANGED <<air, setup, up, used, faults, relinks>>

\* nonEssRouteExpiration is over only when messages have arrived and each node
\* has heard the beacons of its pneis
Waited(n, p) ==
  /\ \A x, m \in Nodes : chan[x][m] = <<>>
  /\ \A x \in Nodes : n \in node[x].linked /\ n \in DOMAIN node[x].lost => p \notin node[x].lost[n].temp

\* processNonEssRouteTeardownTimer for one route whose time has come
NonEssExpires(n, p) ==
  /\ p \in node[n].nonEss /\ Calm
  /\ p \in node[n].late => Waited(n, p)
  /\ LET s      == [node[n] EXCEPT !.nonEss = @ \ {p}, !.late = @ \ {p}, !.unwanted = @ \ {p}]
         r      == RouteOf(s, p)
         onward == r.from = n
         nh     == HopTo(r, onward)
         st     == HopState(r, onward)
     IN  Step(n, IF ~InTable(s.tbl, p) THEN s
                 ELSE RemovePath(IF st = 1 THEN LoseBroken(s, p, nh)
                                 ELSE TeardownVia(s, nh, st, TeardownMsg(p, n, FALSE, FALSE)), p))
  /\ UNCHANGED <<air, setup, up, used, faults, relinks>>

\* ... and for one dismantled vroute
DismantledExpires(n, p) ==
  /\ p \in node[n].dismantled /\ Calm
  /\ LET s  == [node[n] EXCEPT !.dismantled = @ \ {p}]
         r  == RouteOf(s, p)
         Tell(u, toNext) ==
           IF HopState(r, toNext) \in {1, 2} \/ EndTo(r, toNext) = HopTo(r, toNext) THEN u
           ELSE Post(u, HopTo(r, toNext), TeardownMsg(p, n, FALSE, FALSE))
     IN  Step(n, IF InTable(s.tbl, p) THEN RemovePath(Tell(Tell(s, FALSE), TRUE), p) ELSE s)
  /\ UNCHANGED <<air, setup, up, used, faults, relinks>>

\* a record of recentTempRouteSent expires
RecentExpires(n, t) ==
  /\ t \in DOMAIN node[n].recent /\ Calm
  /\ Becomes(n, [node[n] EXCEPT !.recent = Restrict(@, DOMAIN @ \ {t})])
  /\ UNCHANGED <<chan, air, setup, up, used, faults, relinks>>

-----------------------------------------------------------------------------
(* Pneis come and go, links fail and come back.                            *)

\* does x list n in its beacons?
Listed(x, n) == n \in node[x].linked \cup node[x].pending

\* processBeacon from a pnei that hears me, with handleLinkedPnei
LinkPnei(n, x) ==
  /\ {n, x} \in up /\ Listed(x, n) /\ Calm
  /\ x \in node[n].linked => x \in DOMAIN node[n].lost /\ Restorable(node[n], x)
  /\ Becomes(n, [AfterLinked(node[n], x) EXCEPT !.pending = @ \ {x}])
  /\ UNCHANGED <<chan, air, setup, up, used, faults, relinks>>

\* ... and from one that does not: it becomes PENDING, with handleLostPneis if
\* it was LINKED
UnlinkPnei(n, x) ==
  /\ {n, x} \in up /\ ~Listed(x, n) /\ x \notin node[n].pending /\ Calm
  /\ LET s == [node[n] EXCEPT !.pending = @ \cup {x}]
     IN  Step(n, IF x \in s.linked THEN AfterLost(s, n, x) ELSE s)
  /\ UNCHANGED <<air, setup, up, used, faults, relinks>>

\* purgeNeighbors or processFailedPacket, with handleLostPneis; the link may work
\* if only beacons were lost, and the pnei will then come back
LosePnei(n, x) ==
  /\ x \in node[n].linked /\ Calm
  /\ \/ {n, x} \notin up /\ UNCHANGED <<faults, relinks>>
     \/ /\ {n, x} \in up /\ faults < setup.faults /\ relinks < setup.relinks
        /\ faults' = faults + 1 /\ relinks' = relinks + 1
  /\ Step(n, AfterLost(node[n], n, x))
  /\ UNCHANGED <<air, setup, up, used>>

\* purgeNeighbors of a PENDING pnei
ForgetPnei(n, x) ==
  /\ x \in node[n].pending /\ {n, x} \notin up /\ Calm
  /\ Becomes(n, [node[n] EXCEPT !.pending = @ \ {x}])
  /\ UNCHANGED <<chan, air, setup, up, used, faults, relinks>>

\* a link fails, or all links of a node that crashes or is cut off
LinksDown(ls) ==
  /\ faults < setup.faults /\ ls \cap up # {} /\ Calm
  /\ up' = up \ ls /\ faults' = faults + 1
  /\ chan' = [n \in Nodes |-> [m \in Nodes |-> IF {n, m} \in ls THEN <<>> ELSE chan[n][m]]]
  /\ air' = {f \in air : {f.to, Last(f.trace)} \notin ls}
  /\ UNCHANGED <<node, setup, used, relinks>>

LinkUp(l) ==
  /\ l \in setup.links \ up /\ Calm
  /\ relinks < setup.relinks /\ relinks' = relinks + 1
  /\ up' = up \cup {l}
  /\ UNCHANGED <<node, chan, air, setup, used, faults>>

Draws(n) == {d \in [DOMAIN node[n].delayed -> PathIds \ used] : IsInjective(d)}

\* what the nodes do
Protocol ==
  \/ \E n, m \in Nodes : ProcessTeardown(n, m)
  \/ \E n, m \in Nodes : ProcessRepairRoute(n, m)
  \/ \E n, m \in Nodes : ProcessRepairLinkReply(n, m)
  \/ \E n, m \in Nodes : ProcessRepairLinkFail(n, m)
  \/ \E n \in Nodes, f \in air, t \in PathIds : ProcessFlood(n, f, t)
  \/ \E n \in Nodes : \E live \in SUBSET DOMAIN node[n].delayed, draw \in Draws(n) : DelayedRepair(n, live, draw)
  \/ \E n \in Nodes, x \in Vids : RepairTimer(n, x)
  \/ \E n \in Nodes, x \in Vids : GiveUpTimer(n, x)
  \/ \E n \in Nodes, p \in PathIds : NonEssExpires(n, p)
  \/ \E n \in Nodes, p \in PathIds : DismantledExpires(n, p)
  \/ \E n \in Nodes, t \in PathIds : RecentExpires(n, t)
  \/ \E n, x \in Nodes : LinkPnei(n, x)
  \/ \E n, x \in Nodes : UnlinkPnei(n, x)
  \/ \E n, x \in Nodes : LosePnei(n, x)
  \/ \E n, x \in Nodes : ForgetPnei(n, x)

Environment ==
  \/ \E l \in setup.links : LinksDown({l})
  \/ \E n \in Nodes : LinksDown({l \in setup.links : n \in l})
  \/ \E l \in setup.links : LinkUp(l)

\* Nothing is under way: no message, no timer but those that never stop.
Quiet ==
  /\ air = {} /\ \A n, m \in Nodes : chan[n][m] = <<>>
  /\ \A n \in Nodes : LET s == node[n] IN
       /\ ~s.wake /\ s.nonEss = {} /\ s.dismantled = {} /\ s.recent = <<>>
       /\ s.linked = {x \in Nodes : {n, x} \in up} /\ s.pending = {}
       /\ \A x \in DOMAIN s.lost : s.lost[x].timer = NoTimer /\ x \notin s.linked

Rest == Quiet /\ UNCHANGED vars

Next == Protocol \/ Environment \/ Rest

Spec == Init /\ [][Next]_vars

\* The event queue does not stand still while a message or timer is in it.
\* (Weak fairness of Next: a state that is not quiet has a successor, which the
\* check for deadlock shows; written out because it is quicker to evaluate.)
Fairness == []<>Quiet \/ []<><<TRUE>>_vars
FairSpec == Spec /\ Fairness

-----------------------------------------------------------------------------
(* Properties.                                                             *)

\* the hops of the regular vroutes of n that have state v
HopsIn(n, v) == {h \in Known(node[n]) \X BOOLEAN :
                   LET r == RouteOf(node[n], h[1])
                   IN  ~IsDismantledRoute(r.unavail) /\ HopState(r, h[2]) = v}
Behind(n, h) == HopTo(RouteOf(node[n], h[1]), h[2])


\* Conversely an entry of lostPneis lists vroutes over that pnei only, and one
\* without a timer is in use: no entry is left behind for good.
ListedOverPnei ==
  \A n \in Nodes : \A x \in DOMAIN node[n].lost : \A p \in node[n].lost[x].broken :
    ~Stale(node[n], p) => x \in {RouteOf(node[n], p).prev, RouteOf(node[n], p).next}


\* endpointToRoutesMap, edited next to every change of a hop's state, lists an end
\* of a vroute exactly when the hop towards that end leads on.
EndsMatchHops(s) ==
  /\ EndsKnown(s.tbl)
  /\ \A p \in Known(s) : \A toNext \in BOOLEAN :
       <<EndTo(RouteOf(s, p), toNext), p>> \in s.tbl.ends <=> HopState(RouteOf(s, p), toNext) \in {0, 2}

\* endpointToRoutesMap, vset, nonEssRoutes and dismantledRoutes agree with the
\* vroutes and their flags: vset lists known vset routes, nonEssRoutes none of
\* them (ASSERT in processNonEssRouteTeardownTimer), dismantledRoutes those
\* flagged so (ASSERT in processDismantledRouteTimer).
SetsMatchRoutes ==
  \A n \in Nodes : LET s == node[n] IN
    /\ EndsMatchHops(s)
    /\ \A v \in DOMAIN s.vset : /\ s.vset[v] # {}
                                /\ \A p \in s.vset[v] : InTable(s.tbl, p) /\ RouteOf(s, p).isVset
    /\ \A p \in s.nonEss \cap Known(s) : ~RouteOf(s, p).isVset
    /\ \A p \in Known(s) : p \in s.dismantled <=> IsDismantledRoute(RouteOf(s, p).unavail)

\* A flood that comes back to a node on its trace is dropped there (the ASSERT in
\* processRepairLinkReqFlood that the trace has no loop).
FloodLoopFree ==
  \A f \in air : f.to \in Range(f.trace) =>
    /\ f.to \notin DOMAIN f.dst
    /\ f.to = f.trace[1] \/ f.seq <= node[f.to].heard[f.trace[1]]

\* When all is quiet after links have failed for good, what the nodes know of a
\* vroute, repaired, temporary or not broken at all, is one chain: the next hop
\* knows it, leads back, and agrees on whether the hop is patched.
QuietVroutesChained ==
  Quiet /\ relinks = 0 =>
    \A n \in Nodes : \A p \in Known(node[n]) : \A toNext \in BOOLEAN :
      LET x == HopTo(RouteOf(node[n], p), toNext)
      IN  x # NullVid =>
            /\ InTable(node[x].tbl, p)
            /\ HopTo(RouteOf(node[x], p), ~toNext) = n
            /\ HopState(RouteOf(node[x], p), ~toNext) = HopState(RouteOf(node[n], p), toNext)

=============================================================================
