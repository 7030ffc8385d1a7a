------------------------------ MODULE VlrSetup ------------------------------
(***************************************************************************)
(* Setup of vroutes in VLR (routing/vlr/Vlr.cc), composed with their       *)
(* teardown and repair, VlrRepair, and greedy forwarding, VlrNextHop.      *)
(*                                                                         *)
(* A node that wants a virtual neighbour sends it a SetupReq; one without  *)
(* any sends it to itself, through a pnei in the network that serves as    *)
(* its proxy, and the node nearest to it on the ring answers and hands the *)
(* request on to its own vneis.  The answer is a SetupReply, which sets up *)
(* the vroute on its way back and makes both ends each other's vneis; an   *)
(* AddRoute, which sets up a vroute that is not essential; or a SetupFail. *)
(* A timer sends the SetupReq again.  Vneis that are replaced, or whose    *)
(* SetupReq is dropped, are told of other nodes by a NotifyVset.           *)
(*                                                                         *)
(* pendingVset is not part of the state (see VlrVset): a node may ask any  *)
(* other, a bounded number of times, and srcVset holds vneis only.         *)
(***************************************************************************)
EXTENDS VlrNextHop

CONSTANT NotifyReplaced \* sendNotifyVsetToReplacedVnei

(* A network also says what the nodes may do of their own accord, once each, *)
(* as <<what, node, target>>; which traces they have overheard: node ->    *)
(* target -> trace; and how often a node tries to set up a vroute,         *)
(* setupReqRetryLimit.                                                     *)
Deeds == {"join", "vnei", "route", "repair", "tell", "notify", "test"}

IsJoinSetup(e) ==
  /\ {"asks", "overheard", "tries"} \subseteq DOMAIN e
  /\ e.asks \subseteq Deeds \X Nodes \X Nodes /\ e.tries \in Nat \ {0}
  /\ \A n \in DOMAIN e.overheard : \A v \in DOMAIN e.overheard[n] :
       Head(e.overheard[n][v]) = n /\ Last(e.overheard[n][v]) = v

ASSUME SetupAssumption ==
  /\ \A e \in Setups : IsJoinSetup(e)
  /\ NotifyReplaced \in BOOLEAN

VARIABLE asked    \* what the nodes have done of their own accord

setupVars == <<vars, asked>>

-----------------------------------------------------------------------------
(* Initially: the nodes with vset routes, and the representative, are in   *)
(* the network, and all pneis have heard so.                               *)
InNetwork(e) == {n \in Nodes : n = Rep \/ NodeInit(n, e).inNet}

SetupNode(n, e) ==
  [NodeInit(n, e) EXCEPT !.inNet = n \in InNetwork(e)] @@
  [sees      |-> {m \in InNetwork(e) : {n, m} \in e.links},  \* pneis in the network
   repIn     |-> TRUE,                   \* representative.inNetwork
   overheard |-> IF n \in DOMAIN e.overheard THEN e.overheard[n] ELSE <<>>,  \* overheardTraces
   replaced  |-> {}]                     \* recentReplacedVneis

SetupInit ==
  /\ setup \in Setups
  /\ node   = [n \in Nodes |-> SetupNode(n, setup)]
  /\ chan   = [n \in Nodes |-> [m \in Nodes |-> <<>>]]
  /\ air    = {}
  /\ up     = setup.links
  /\ used   = DOMAIN setup.vroutes
  /\ faults = 0 /\ relinks = 0 /\ asked = {}

-----------------------------------------------------------------------------
(* Messages.                                                               *)
Vneis(s) == DOMAIN s.vset

SetupReqInt ==
  [type : {"SetupReq"}, newnode : Nodes, dst : Nodes, proxy : Hops, transfer : Hops, dispatch : BOOLEAN,
   repair : SomePath, reqVnei : BOOLEAN, record : BOOLEAN, trace : Seq(Nodes), index : Nat,
   known : SUBSET Nodes, srcVset : SUBSET Nodes, opt : VlrIntOption]

\* the previous hops a SetupReply or AddRoute carries, and oldestPrevhopIndex
PrevhopBuffer == [vids : Seq(Nodes), oldest : 0 .. PrevhopSize - 1]

SetupReplyInt ==
  [type : {"SetupReply"}, newnode : Nodes, src : Nodes, proxy : Hops, path : PathIds,
   prevhops : PrevhopBuffer, trace : Seq(Nodes), opt : VlrIntOption]
SetupFailInt ==
  [type : {"SetupFail"}, newnode : Nodes, src : Nodes, proxy : Hops, trace : Seq(Nodes), opt : VlrIntOption]
AddRouteInt ==
  [type : {"AddRoute"}, dst : Nodes, src : Nodes, proxy : Hops, path : PathIds,
   prevhops : PrevhopBuffer, trace : Seq(Nodes), opt : VlrIntOption]
NotifyVsetInt ==
  [type : {"NotifyVset"}, dst : Nodes, src : Nodes, toVnei : BOOLEAN, proxy : Hops,
   srcVset : SUBSET Nodes, trace : Seq(Nodes), opt : VlrIntOption]
VlrIntTestPacket == [type : {"TestPacket"}, dst : Nodes, src : Nodes, opt : VlrIntOption]

\* createSetupReq
SetupReqMsg(s, n, dst, proxy, dispatch) ==
  [type |-> "SetupReq", newnode |-> n, dst |-> dst, proxy |-> proxy, transfer |-> NullVid,
   dispatch |-> dispatch, repair |-> NoPath, reqVnei |-> TRUE, record |-> FALSE, trace |-> <<>>,
   index |-> 0, known |-> {}, srcVset |-> Vneis(s), opt |-> Option(dst)]

\* createSetupReply, createSetupFail, createAddRoute, createNotifyVset
SetupReplyMsg(n, newnode, path) ==
  [type |-> "SetupReply", newnode |-> newnode, src |-> n, proxy |-> NullVid, path |-> path,
   prevhops |-> [vids |-> <<n>>, oldest |-> 0], trace |-> <<>>, opt |-> Option(NullVid)]
SetupFailMsg(n, newnode) ==
  [type |-> "SetupFail", newnode |-> newnode, src |-> n, proxy |-> NullVid, trace |-> <<>>,
   opt |-> Option(NullVid)]
AddRouteMsg(n, dst, path) ==
  [type |-> "AddRoute", dst |-> dst, src |-> n, proxy |-> NullVid, path |-> path,
   prevhops |-> [vids |-> <<n>>, oldest |-> 0], trace |-> <<>>, opt |-> Option(NullVid)]
NotifyVsetMsg(s, n, dst, toVnei) ==
  [type |-> "NotifyVset", dst |-> dst, src |-> n, toVnei |-> toVnei, proxy |-> NullVid,
   srcVset |-> Vneis(s), trace |-> <<>>, opt |-> Option(NullVid)]

-----------------------------------------------------------------------------
(* The last nodes a SetupReply or AddRoute came by, in a circular buffer   *)
(* with the index of the oldest one.                                       *)

\* advanceVectorIndexWrapAround
AdvanceIndex(i, times, size) == IF size < 2 THEN i ELSE (i + times) % size

\* setRoutePrevhopVids: the nodes in the buffer, the last one first
RoutePrevhops(b) == [k \in DOMAIN b.vids |-> b.vids[AdvanceIndex(b.oldest, -k, Len(b.vids)) + 1]]

\* mutant: the oldest index stays where it is
PushKeepsOldest(b, v) ==
  IF Len(b.vids) < PrevhopSize THEN [vids |-> Append(b.vids, v), oldest |-> 0]
  ELSE [vids |-> [b.vids EXCEPT ![b.oldest + 1] = v], oldest |-> b.oldest]

\* setRoutePrevhopVidsFromMessage: what it does to the message
PushPrevhop(b, v) ==
  IF Len(b.vids) < PrevhopSize THEN [vids |-> Append(b.vids, v), oldest |-> 0]
  ELSE [vids |-> [b.vids EXCEPT ![b.oldest + 1] = v], oldest |-> AdvanceIndex(b.oldest, 1, Len(b.vids))]

\* createTestPacket
TestPacket(n, dst) == [type |-> "TestPacket", dst |-> dst, src |-> n, opt |-> Option(dst)]

-----------------------------------------------------------------------------
(* Vneis.                                                                  *)

\* recordNewVnei
RecordNewVnei(s) ==
  IF s.inNet THEN s
  ELSE IF ~s.warm THEN [s EXCEPT !.warm = TRUE]
  ELSE IF Cardinality(Vneis(s)) >= 2 * Half THEN [s EXCEPT !.inNet = TRUE, !.warm = FALSE] ELSE s

Unvset(s, ps) == [s EXCEPT !.tbl.routes = [q \in PathIds |-> IF q \in ps THEN [@[q] EXCEPT !.isVset = FALSE] ELSE @[q]]]

\* v becomes a vnei with vset route p: vsetInsertRmPending, and for the vneis it
\* replaces delayRouteTeardown and vsetEraseAddPending
MakeVnei(s, v, p, removed, notify) ==
  LET old == UNION {s.vset[u] : u \in removed}
      s1  == [Unvset(s, old) EXCEPT
                !.vset = [u \in (DOMAIN @ \cup {v}) \ removed |-> IF u = v THEN {p} ELSE @[u]],
                !.asks = Restrict(@, DOMAIN @ \ {v}),
                !.nonEss = @ \cup old,
                !.replaced = IF notify /\ NotifyReplaced THEN @ \cup removed ELSE @]
  IN  RecordNewVnei(s1)

NoAsk(s, v) == [s EXCEPT !.asks = Restrict(@, DOMAIN @ \ {v})]

\* isClosestVneiTo
IsClosestVneiTo(s, n, v) ==
  \/ Cardinality(Vneis(s)) < 2
  \/ \A u \in Vneis(s) : CCWDistance(n, v) < CCWDistance(n, u)
  \/ \A u \in Vneis(s) : CWDistance(n, v) < CWDistance(n, u)

\* getVneisForwardInFullVsetTo: half of the vneis on the side of newnode, and on
\* the other side as many as have newnode among their own
ForwardInFullVset(S, n, newnode, ccw) ==
  LET nearer == IF ccw THEN {u \in S : CCWDistance(n, u) < CCWDistance(n, newnode)}
                       ELSE {u \in S : CWDistance(n, u) < CWDistance(n, newnode)}
      CW(i)  == NthCW(S, n, i)
      CCW(i) == NthCW(S, n, 2 * Half + 1 - i)
      more   == 1 .. Half - 1 - Cardinality(nearer)
  IN  IF ccw THEN {CCW(i) : i \in 1 .. Half} \cup {CW(i) : i \in more}
             ELSE {CW(i) : i \in 1 .. Half} \cup {CCW(i) : i \in more}

\* neisToForward of shouldAddVnei, for the newnode it lets in
NeisToForward(s, n, newnode, known) ==
  LET S == Vneis(s)
  IN  (IF Cardinality(S) < 2 * Half THEN S
       ELSE ForwardInFullVset(S, n, newnode,
              CCWDistance(n, newnode) < CCWDistance(n, FarthestVneis(S, n, Half).ccw))) \ known

\* IsLinkedPneiOrAvailableWantedRouteEnd
Wanted(s, v, ends) ==
  \/ v \in s.linked
  \/ \E p \in PathsTo(s, v) \ s.unwanted :
       LET r == RouteOf(s, p)
       IN  ~IsTemporaryRoute(r.unavail) /\ ~IsDismantledRoute(r.unavail) /\ {r.from, r.to} \cap ends # {}

-----------------------------------------------------------------------------
(* SetupReq.  A handler draws at most one path id, p; where the code draws *)
(* a next hop at random, it returns a set of states.                       *)

\* the ways back to the node a SetupReq came from: along its trace, cut at the
\* first place each node is at, or through its proxy
TraceBack(s, n, trace) ==
  LET back == BeforeMe(s, n, trace)
  IN  {Outcome(s, IF back = {} THEN NullVid ELSE trace[Max(back)], Option(NullVid))}

WaysBack(s, n, req, allowTemp) ==
  IF req.trace # <<>> THEN TraceBack(s, n, RemoveLoop(req.trace))
  ELSE FindNextHopForSetupReply(s, n, Option(req.proxy), NullVid, req.newnode, allowTemp)

\* send the answer msg to req on way
SendBack(s, n, req, way, msg) ==
  LET traced == req.trace # <<>>
  IN  Post(s, way.hop, [msg EXCEPT !.proxy = IF traced THEN NullVid ELSE req.proxy,
                                   !.trace = IF traced THEN UpToMe(n, RemoveLoop(req.trace)) ELSE <<>>,
                                   !.opt   = way.opt])

NewVroute(s, p, r) == [s EXCEPT !.tbl = AddRoute(@, p, r)]

\* is the SetupReq for me?
ForMe(s, n, req) ==
  /\ req.newnode # n
  /\ \/ req.dst = n
     \/ /\ req.dst = req.newnode /\ (req.opt.path = NoPath \/ req.opt.toward = n)
        /\ s.inNet /\ IsClosestVneiTo(s, n, req.newnode)

\* hand the request on to the vneis vs
Dispatch(s, n, req, vs) ==
  LET To(t, v) ==
        {IF r.hop = NullVid THEN r.st
         ELSE Post(r.st, r.hop, [req EXCEPT !.dst = v, !.known = @ \cup vs \cup {n}, !.opt = r.opt]) :
           r \in FindNextHop(t, n, Option(v), NullVid, req.newnode, TRUE)}
  IN  ForEach(LAMBDA S, v : UNION {To(t, v) : t \in S}, {s}, vs)

\* newnode is let into the vset, if the reply can be sent
AdmitNewnode(s, n, req, removed, p) ==
  LET new == req.newnode
      vs  == IF req.dispatch THEN NeisToForward(s, n, new, req.known) ELSE {}
      Admitted(t, way) ==
        SendBack(MakeVnei(NewVroute(t, p, NewRoute(n, new, NullVid, way.hop, TRUE, 0, <<>>)),
                          new, p, removed, ~req.dispatch),
                 n, req, way, SetupReplyMsg(n, new, p))
  IN  UNION {IF way.hop = NullVid THEN {way.st} ELSE {Admitted(t, way) : t \in Dispatch(way.st, n, req, vs)} :
               way \in WaysBack(s, n, req, FALSE)}

\* ... or is not, or wants another vroute only: a SetupReply if it is a vnei, else
\* a SetupFail or AddRoute.  taken: the vset route to be replaced was taken out
AnswerOthers(s, n, req, reqVnei, taken, p) ==
  LET new    == req.newnode
      traced == req.trace # <<>>
      isVnei == new \in Vneis(s) /\ (req.repair = NoPath \/ taken)
      fail   == IF traced THEN ~isVnei /\ Wanted(s, new, {n}) ELSE reqVnei
      adds   == ~traced /\ ~fail /\ ~isVnei
      to     == IF req.proxy \in {NullVid, n} THEN new ELSE req.proxy
      ways   == IF adds
                THEN IF req.repair # NoPath THEN NoHop(s, req.opt)
                     ELSE FindNextHopForSetupReq(s, n, Option(to), NullVid, new, NullVid, FALSE)
                ELSE WaysBack(s, n, req, fail)
      Kept(t)  == LoseVsetRoute([t EXCEPT !.vset[new] = @ \cup {req.repair}], n, req.repair, new, req.repair)
      r(way)   == NewRoute(n, new, NullVid, way.hop, isVnei, 0, <<>>)
      Joined(way) == [NewVroute(way.st, p, r(way)) EXCEPT !.vset[new] = @ \cup {p}]
      Added(way)  == NoAsk([NewVroute(way.st, p, r(way)) EXCEPT !.nonEss = @ \cup {p}], new)
  IN  {IF way.hop = NullVid THEN IF taken THEN Kept(way.st) ELSE way.st
       ELSE IF fail THEN SendBack(way.st, n, req, way, SetupFailMsg(n, new))
       ELSE IF isVnei THEN SendBack(Joined(way), n, req, way, SetupReplyMsg(n, new, p))
       ELSE IF adds THEN Post(Added(way), way.hop, [AddRouteMsg(n, new, p) EXCEPT !.proxy = way.opt.dst, !.opt = way.opt])
       ELSE SendBack(Added(way), n, req, way, AddRouteMsg(n, new, p)) : way \in ways}

\* the patched vroute newnode wants to replace is a vset route no more
RetirePatched(s, req) ==
  LET q   == req.repair
      new == req.newnode
      s1  == IF RouteOf(s, q).isVset /\ new \in Vneis(s) THEN [s EXCEPT !.vset[new] = @ \ {q}] ELSE s
  IN  IF q = NoPath \/ q \notin Known(s) THEN s
      ELSE [s1 EXCEPT !.unwanted = @ \cup {q}, !.tbl.routes[q].isVset = FALSE, !.nonEss = @ \cup {q}]

AnswerSetupReq(s, n, req, p) ==
  LET new   == req.newnode
      s1    == RetirePatched(s, req)
      taken == s1.vset # s.vset
      reqVnei == req.reqVnei /\ new \notin Vneis(s)
      admit == ShouldAddVnei(Vneis(s), n, new, Half)
  IN  IF ~s.inNet /\ s.vset = <<>> /\ req.known = {} /\ req.dispatch THEN {s}
      ELSE IF req.reqVnei /\ ~reqVnei /\ req.known # {} THEN {s1}
      ELSE IF reqVnei /\ admit.add THEN AdmitNewnode(s1, n, req, admit.removed, p)
      ELSE AnswerOthers(s1, n, req, reqVnei, taken, p)

\* sendNotifyVsetOnDroppedSetupReq: newnode is told of my vneis that are not its
NotifyDropped(s, n, req) ==
  LET new  == req.newnode
      to   == IF req.proxy = NullVid THEN new ELSE req.proxy
      ways == IF req.trace # <<>> THEN TraceBack(s, n, RemoveLoop(req.trace))
              ELSE FindNextHopForSetupReq(s, n, Option(to), NullVid, new, NullVid, TRUE)
  IN  IF \/ n \in {new, req.dst} \/ ~req.reqVnei \/ req.repair # NoPath
         \/ new \notin Vneis(s) \/ Vneis(s) \subseteq req.srcVset
      THEN {s}
      ELSE {IF way.hop = NullVid THEN way.st ELSE SendBack(way.st, n, req, way, NotifyVsetMsg(s, n, new, FALSE)) :
              way \in ways}

ForwardGreedily(s, n, m, req) ==
  LET here == req.transfer = n
      out  == IF here THEN [req EXCEPT !.transfer = NullVid, !.opt = Redirect(@, req.dst)] ELSE req
  IN  UNION {IF r.hop = NullVid THEN NotifyDropped(r.st, n, out)
             ELSE {Post(r.st, r.hop, [out EXCEPT !.opt = r.opt, !.trace = IF out.record THEN Append(@, n) ELSE @])} :
               r \in FindNextHopForSetupReq(s, n, out.opt, m, req.dst, req.newnode, TRUE)}

\* mutant: the place in the trace is not moved on
ForwardInPlace(s, n, m, req) ==
  LET i == NextIndex(s, n, req.trace, req.index)
      off == [req EXCEPT !.opt = Option(req.dst), !.record = TRUE, !.trace = SubSeq(@, 1, req.index - 1)]
  IN  IF req.trace = <<>> \/ req.record THEN ForwardGreedily(s, n, m, req)
      ELSE IF i = 0 THEN ForwardGreedily(s, n, m, off)
      ELSE {Post(s, req.trace[i], req)}

\* forwardSetupReq.  A request that cannot follow its trace goes on greedily and
\* records the rest of its way.
ForwardSetupReq(s, n, m, req) ==
  LET i == NextIndex(s, n, req.trace, req.index)
      off == [req EXCEPT !.opt = Option(req.dst), !.record = TRUE, !.trace = SubSeq(@, 1, req.index - 1)]
  IN  IF req.trace = <<>> \/ req.record THEN ForwardGreedily(s, n, m, req)
      ELSE IF i = 0 THEN ForwardGreedily(s, n, m, off)
      ELSE {Post(s, req.trace[i], [req EXCEPT !.index = i])}

HandleSetupReq(s, n, m, req, p) ==
  IF ForMe(s, n, req) THEN AnswerSetupReq(s, n, req, p) ELSE ForwardSetupReq(s, n, m, req)

-----------------------------------------------------------------------------
(* SetupReply and AddRoute: the vroute is set up on the way.               *)
Refuse(s, n, m, p) == {Post(s, m, TeardownMsg(p, n, TRUE, FALSE))}

\* mutant: ... and the hops behind stay
SetUpHopOnly(s, n, m, msg, end, ways) ==
  {IF r.hop = NullVid THEN r.st
   ELSE Post(NewVroute(r.st, msg.path,
                       NewRoute(msg.src, end, m, r.hop, FALSE, 0, RoutePrevhops(msg.prevhops))),
             r.hop, [msg EXCEPT !.opt = r.opt, !.trace = UpToMe(n, @), !.prevhops = PushPrevhop(@, n)]) :
     r \in IF msg.trace # <<>> THEN TraceBack(s, n, msg.trace) ELSE ways}

\* along the trace it carries, or as ways says; none takes the vroute down again
SetUpHop(s, n, m, msg, end, ways) ==
  {IF r.hop = NullVid THEN Post(r.st, m, TeardownMsg(msg.path, n, TRUE, FALSE))
   ELSE Post(NewVroute(r.st, msg.path,
                       NewRoute(msg.src, end, m, r.hop, FALSE, 0, RoutePrevhops(msg.prevhops))),
             r.hop, [msg EXCEPT !.opt = r.opt, !.trace = UpToMe(n, @), !.prevhops = PushPrevhop(@, n)]) :
     r \in IF msg.trace # <<>> THEN TraceBack(s, n, msg.trace) ELSE ways}

\* the vroute a SetupReply or AddRoute sets up, at its end n
Arrived(s, n, m, msg, isVset) ==
  NewVroute(s, msg.path, NewRoute(msg.src, n, m, NullVid, isVset, 0, RoutePrevhops(msg.prevhops)))

\* mutant: a reply that is too late is thrown away
IgnoreLateReply(s, n, m, msg) ==
  LET admit == ShouldAddVnei(Vneis(s), n, msg.src, Half)
      s1    == Arrived(s, n, m, msg, TRUE)
  IN  IF msg.src \in Vneis(s) THEN [s1 EXCEPT !.vset[msg.src] = @ \cup {msg.path}]
      ELSE IF admit.add THEN MakeVnei(s1, msg.src, msg.path, admit.removed, TRUE) ELSE s

\* a new vset route to a vnei, or to one that is let in; it is taken down if the
\* vset has become full of nearer ones
AcceptReply(s, n, m, msg) ==
  LET admit == ShouldAddVnei(Vneis(s), n, msg.src, Half)
      s1    == Arrived(s, n, m, msg, TRUE)
  IN  IF msg.src \in Vneis(s) THEN [s1 EXCEPT !.vset[msg.src] = @ \cup {msg.path}]
      ELSE IF admit.add THEN MakeVnei(s1, msg.src, msg.path, admit.removed, TRUE)
      ELSE Post(s, m, TeardownMsg(msg.path, n, FALSE, FALSE))

HandleSetupReply(s, n, m, msg) ==
  IF msg.path \in Known(s) \/ m \notin s.linked THEN Refuse(s, n, m, msg.path)
  ELSE IF msg.newnode = n THEN {AcceptReply(s, n, m, msg)}
  ELSE SetUpHop(s, n, m, msg, msg.newnode,
                FindNextHopForSetupReply(s, n, msg.opt, m, msg.newnode, FALSE))

\* leave the proxy for the destination
PastProxy(n, msg) ==
  IF msg.proxy = n THEN [msg EXCEPT !.proxy = NullVid, !.opt = Redirect(@, msg.dst)] ELSE msg

ForwardAddRoute(s, n, m, msg) ==
  LET out == PastProxy(n, msg)
  IN  SetUpHop(s, n, m, out, msg.dst, FindNextHopForSetupReq(s, n, out.opt, m, msg.dst, NullVid, FALSE))

HandleAddRoute(s, n, m, msg) ==
  LET s1 == [Arrived(s, n, m, msg, FALSE) EXCEPT !.nonEss = @ \cup {msg.path}]
  IN  IF msg.path \in Known(s) \/ m \notin s.linked THEN Refuse(s, n, m, msg.path)
      ELSE IF msg.dst = n THEN {NoAsk(s1, msg.src)}
      ELSE ForwardAddRoute(s, n, m, msg)

-----------------------------------------------------------------------------
(* SetupFail and NotifyVset, which are dropped where there is no next hop. *)
PassAlong(s, n, msg, ways) ==
  {IF r.hop = NullVid THEN r.st
   ELSE Post(r.st, r.hop, [msg EXCEPT !.opt = r.opt, !.trace = UpToMe(n, @)]) :
     r \in IF msg.trace # <<>> THEN TraceBack(s, n, msg.trace) ELSE ways}

HandleSetupFail(s, n, m, msg) ==
  IF msg.newnode = n THEN {NoAsk(s, msg.src)}
  ELSE PassAlong(s, n, msg, FindNextHopForSetupReply(s, n, msg.opt, m, msg.newnode, TRUE))

\* tell v of my vset
Notify(s, n, v, toVnei) ==
  {IF r.hop = NullVid THEN r.st ELSE Post(r.st, r.hop, [NotifyVsetMsg(s, n, v, toVnei) EXCEPT !.opt = r.opt]) :
     r \in FindNextHop(s, n, Option(v), NullVid, NullVid, TRUE)}

HandleNotifyVset(s, n, m, msg) ==
  LET out == PastProxy(n, msg)
  IN  IF msg.dst = n
      THEN IF msg.toVnei /\ msg.src \notin Vneis(s) /\ ~(Vneis(s) \subseteq msg.srcVset)
           THEN Notify(s, n, msg.src, FALSE) ELSE {s}
      ELSE PassAlong(s, n, out, FindNextHopForSetupReq(s, n, out.opt, m, msg.dst, NullVid, TRUE))

-----------------------------------------------------------------------------
(* Test packets: what the vroutes are for.                                 *)

\* send one on greedily, or drop it
Carry(s, n, prev, msg) ==
  {IF r.hop = NullVid THEN r.st ELSE Post(r.st, r.hop, [msg EXCEPT !.opt = r.opt]) :
     r \in FindNextHop(s, n, msg.opt, prev, NullVid, TRUE)}

HandleTestPacket(s, n, m, msg) == IF msg.dst = n THEN {s} ELSE Carry(s, n, m, msg)

-----------------------------------------------------------------------------
(* Timers.                                                                 *)

\* mutant: tries are not counted
RetryOnAndOn(s, v) == s

\* the setupReqTimer of v runs again, or a request could not be sent
Retry(s, v)   == [s EXCEPT !.asks[v].retry = @ + 1]
NotSent(s, v) == IF s.asks[v].reqVnei THEN Retry(s, v) ELSE [s EXCEPT !.asks[v].on = FALSE]

AskAlongTrace(s, n, v) ==
  LET trace == s.overheard[v]
      i     == NextIndex(s, n, trace, 1)
      s1    == [s EXCEPT !.overheard = Restrict(@, DOMAIN @ \ {v})]
      req   == [SetupReqMsg(s, n, v, NullVid, FALSE) EXCEPT
                  !.reqVnei = s.asks[v].reqVnei, !.trace = trace, !.index = i]
  IN  {IF i = 0 THEN NotSent(s1, v) ELSE Retry(Post(s1, trace[i], req), v)}

\* through a pnei, in the network if there is one
AskThroughProxy(s, n, v) ==
  LET ask     == s.asks[v]
      desperate == ask.reqVnei /\ Vneis(s) # {} /\ ask.retry > 0
      proxies == IF s.linked \cap s.sees # {} THEN s.linked \cap s.sees
                 ELSE IF desperate THEN s.linked ELSE {}
      Req(x)  == [SetupReqMsg(s, n, v, x, FALSE) EXCEPT !.reqVnei = ask.reqVnei]
  IN  IF ask.repair # NoPath THEN {NotSent([s EXCEPT !.asks[v].repair = NoPath], v)}
      ELSE IF proxies = {} THEN {NotSent(s, v)}
      ELSE {Retry(Post(s, x, Req(x)), v) : x \in proxies}

\* mutant: the request does not say which node is to hand it on
NoTransfer(opt, v, transfer) == NullVid

\* the node that is to hand on a request for v which sets out as opt says
TransferOf(opt, v, transfer) == IF opt.dst = v THEN NullVid ELSE transfer

\* towards the vneis of v I heard of v from, or straight to v
AskGreedily(s, n, v, transfer) ==
  LET ask == s.asks[v]
      opt == IF ask.repair # NoPath THEN [Option(v) EXCEPT !.path = ask.repair, !.toward = v]
             ELSE Option(IF transfer = NullVid THEN v ELSE transfer)
      Via(r)    == TransferOf(r.opt, v, transfer)
      Record(r) == \/ ask.repair # NoPath \/ Via(r) # NullVid \/ r.opt.path = RepPath
                   \/ SetupTempRoute /\ r.opt.toward = v
      Req(r)    == [SetupReqMsg(s, n, v, IF Record(r) THEN NullVid ELSE r.hop, FALSE) EXCEPT
                      !.opt = r.opt, !.repair = ask.repair, !.reqVnei = ask.reqVnei, !.record = Record(r),
                      !.transfer = Via(r), !.trace = IF Record(r) THEN <<n>> ELSE <<>>]
  IN  UNION {IF r.hop = NullVid THEN AskThroughProxy(r.st, n, v)
             ELSE {Retry(Post(r.st, r.hop, Req(r)), v)} :
               r \in FindNextHopForSetupReq(s, n, opt, NullVid, v, NullVid, TRUE)}

\* processWaitSetupReqTimer
Ask(s, n, v, transfer) ==
  LET ask == s.asks[v]
  IN  IF \/ ~ask.reqVnei /\ ask.retry > 0 /\ Wanted(s, v, Nodes)
         \/ ask.retry >= setup.tries
      THEN {NoAsk(s, v)}
      ELSE IF ask.repair = NoPath /\ v \in DOMAIN s.overheard THEN AskAlongTrace(s, n, v)
      ELSE AskGreedily(s, n, v, transfer)

-----------------------------------------------------------------------------
(* Actions.                                                                *)

\* recentReplacedVneiTimer is due at once
Undisturbed == Calm /\ \A n \in Nodes : node[n].replaced = {}

Handled(n, m, S) ==
  /\ \E s \in S : Reply(n, m, s) /\ used' = used \cup Drawn(n, s)
  /\ UNCHANGED <<air, setup, up, faults, relinks, asked>>

Acts(n, S) ==
  /\ \E s \in S : Step(n, s)
  /\ UNCHANGED <<air, setup, up, used, faults, relinks>>

ProcessSetupReq(n, m) ==
  /\ Received(n, m, "SetupReq") /\ Undisturbed /\ PathIds \ used # {}
  /\ Handled(n, m, HandleSetupReq(node[n], n, m, Head(chan[m][n]), Min(PathIds \ used)))

ProcessSetupReply(n, m) ==
  /\ Received(n, m, "SetupReply") /\ Undisturbed
  /\ Handled(n, m, HandleSetupReply(node[n], n, m, Head(chan[m][n])))

ProcessSetupFail(n, m) ==
  /\ Received(n, m, "SetupFail") /\ Undisturbed
  /\ Handled(n, m, HandleSetupFail(node[n], n, m, Head(chan[m][n])))

ProcessAddRoute(n, m) ==
  /\ Received(n, m, "AddRoute") /\ Undisturbed
  /\ Handled(n, m, HandleAddRoute(node[n], n, m, Head(chan[m][n])))

ProcessNotifyVset(n, m) ==
  /\ Received(n, m, "NotifyVset") /\ Undisturbed
  /\ Handled(n, m, HandleNotifyVset(node[n], n, m, Head(chan[m][n])))

ProcessTestPacket(n, m) ==
  /\ Received(n, m, "TestPacket") /\ Undisturbed
  /\ Handled(n, m, HandleTestPacket(node[n], n, m, Head(chan[m][n])))

\* processRecentReplacedVneiTimer
NotifyReplacedVneis(n) ==
  /\ node[n].replaced # {}
  /\ Acts(n, ForEach(LAMBDA S, v : UNION {Notify(s, n, v, FALSE) : s \in S},
                     {[node[n] EXCEPT !.replaced = {}]}, node[n].replaced))
  /\ UNCHANGED asked

\* of my own accord
Wants(what, n, v) == <<what, n, v>> \in setup.asks \ asked /\ Undisturbed /\ asked' = asked \cup {<<what, n, v>>}

SetupReqTimer(n, v, transfer) ==
  /\ v \in DOMAIN node[n].asks /\ node[n].asks[v].on /\ Undisturbed
  /\ transfer \notin {n, v}
  /\ node[n].asks[v].retry = 0 \/ node[n].asks[v].repair # NoPath => transfer = NullVid
  /\ Acts(n, Ask(node[n], n, v, transfer))
  /\ UNCHANGED asked

\* processFillVsetTimer: a node without vneis asks for itself
Join(n) ==
  LET s == node[n]
  IN  /\ Wants("join", n, n)
      /\ ~s.inNet /\ s.vset = <<>> /\ \A v \in DOMAIN s.asks : ~s.asks[v].on
      /\ s.linked \cap s.sees # {}
      /\ Acts(n, {Post(s, x, SetupReqMsg(s, n, n, x, TRUE)) : x \in s.linked \cap s.sees})

\* checkLostPneiUnavailable
LostPneiUnavailable(s, v) == v \in DOMAIN s.lost /\ s.lost[v].temp = {}

\* ... setRouteToPendingVsetItr: ask a node of pendingVset to be a vnei, or for a
\* vroute only; or, when a vroute is patched, for another one
AskPending(n, v, what, repair) ==
  LET s   == node[n]
      reqVnei == what = "vnei"
      new == v \notin DOMAIN s.asks
      old == IF new THEN AskTimer(NoPath, reqVnei) ELSE s.asks[v]
  IN  /\ what \in {"vnei", "route", "repair"} /\ Wants(what, n, v)
      /\ v \notin Vneis(s) \cup {n} /\ ~LostPneiUnavailable(s, v)
      /\ new \/ ~old.on \/ (reqVnei /\ ~old.reqVnei)
      /\ ~reqVnei => ~Wanted(s, v, Nodes)
      /\ IF what # "repair" THEN repair = NoPath
         ELSE repair \in s.nonEss \cap s.unwanted \cap Known(s) /\ OtherEnd(n, RouteOf(s, repair)) = v
      /\ Acts(n, {[s EXCEPT !.asks = (v :> [old EXCEPT !.on = TRUE, !.reqVnei = reqVnei,
                                                     !.repair = IF repair = NoPath THEN @ ELSE repair]) @@ @]})

\* ... and tell a vnei, or a node that can be reached, of the vset
NotifyPeriodically(n, v, toVnei) ==
  /\ Wants(IF toVnei THEN "tell" ELSE "notify", n, v)
  /\ IF toVnei THEN v \in Vneis(node[n])
     ELSE node[n].vset # <<>> /\ v \notin Vneis(node[n]) \cup {n} /\ Reachable(node[n], v)
  /\ Acts(n, Notify(node[n], n, v, toVnei))

\* processTestPacketTimer
SendTestPacket(n, v) ==
  /\ Wants("test", n, v) /\ v # n
  /\ Acts(n, Carry(node[n], n, NullVid, TestPacket(n, v)))

\* processInNetworkWarmupTimer, when it does not wait any longer
InNetworkWarmup(n) ==
  LET s == node[n]
  IN  /\ s.warm /\ Undisturbed
      /\ Vneis(s) # {} \/ n = Rep =>
           Cardinality(Vneis(s)) >= 2 * Half \/ \A v \in DOMAIN s.asks : ~s.asks[v].on
      /\ Acts(n, {[s EXCEPT !.warm = FALSE, !.inNet = Vneis(s) # {} \/ n = Rep]})
      /\ UNCHANGED asked

\* the news a beacon of x has for n: whether x is in the network and, from its
\* parent, whether the representative is
News(n, x) ==
  [node[n] EXCEPT !.sees  = IF node[x].inNet THEN @ \cup {x} ELSE @ \ {x},
                  !.repIn = IF x # node[n].parent THEN @ ELSE IF x = Rep THEN node[x].inNet ELSE node[x].repIn]

HearBeacon(n, x) ==
  /\ {n, x} \in up /\ News(n, x) # node[n] /\ Undisturbed
  /\ Acts(n, {News(n, x)})
  /\ UNCHANGED asked

Repair ==
  /\ \A n \in Nodes : node[n].replaced = {}
  /\ Protocol \/ Environment
  /\ UNCHANGED asked

\* Nothing is under way.
SetupQuiet ==
  /\ Quiet
  /\ \A n \in Nodes : LET s == node[n] IN
       /\ s.replaced = {} /\ ~s.warm /\ \A v \in DOMAIN s.asks : ~s.asks[v].on
       /\ \A x \in Nbrs(n) : News(n, x) = s

SetupRest == SetupQuiet /\ UNCHANGED setupVars

SetupNext ==
  \/ \E n, m \in Nodes : ProcessSetupReq(n, m)
  \/ \E n, m \in Nodes : ProcessSetupReply(n, m)
  \/ \E n, m \in Nodes : ProcessSetupFail(n, m)
  \/ \E n, m \in Nodes : ProcessAddRoute(n, m)
  \/ \E n, m \in Nodes : ProcessNotifyVset(n, m)
  \/ \E n, m \in Nodes : ProcessTestPacket(n, m)
  \/ \E n \in Nodes : NotifyReplacedVneis(n)
  \/ \E n, v \in Nodes, transfer \in Nodes \cup {NullVid} : SetupReqTimer(n, v, transfer)
  \/ \E n \in Nodes : Join(n)
  \/ \E n, v \in Nodes, what \in Deeds, repair \in PathIds \cup {NoPath} : AskPending(n, v, what, repair)
  \/ \E n, v \in Nodes, toVnei \in BOOLEAN : NotifyPeriodically(n, v, toVnei)
  \/ \E n, v \in Nodes : SendTestPacket(n, v)
  \/ \E n \in Nodes : InNetworkWarmup(n)
  \/ \E n, x \in Nodes : HearBeacon(n, x)
  \/ Repair
  \/ SetupRest

SetupSpec == SetupInit /\ [][SetupNext]_setupVars

\* see Fairness in VlrRepair
SetupFairSpec == SetupSpec /\ ([]<>SetupQuiet \/ []<><<TRUE>>_setupVars)

-----------------------------------------------------------------------------
(* Properties.                                                             *)

Messages ==
  TeardownInt \cup RepairRouteInt \cup RepairLinkReplyInt \cup RepairLinkFailInt \cup SetupReqInt \cup
  SetupReplyInt \cup SetupFailInt \cup AddRouteInt \cup NotifyVsetInt \cup VlrIntTestPacket

\* Types: what nodes keep and messages carry is what the declarations say; the
\* index of a buffer or trace is inside it, requests are sent as often as allowed,
\* and one that sets out along a trace goes from node to node of it.
TypeOK ==
  /\ \A n \in Nodes : LET s == node[n] IN
       /\ NodeOK(s)
       /\ s.sees \cup s.replaced \cup DOMAIN s.overheard \subseteq Nodes
       /\ \A v \in DOMAIN s.asks : s.asks[v].retry <= setup.tries
  /\ \A n, m \in Nodes : \A i \in DOMAIN chan[n][m] : LET msg == chan[n][m][i] IN
       /\ msg \in Messages
       /\ msg.type = "SetupReq" /\ msg.index > 0 /\ ~msg.record =>
            msg.index <= Len(msg.trace) /\ msg.trace[msg.index] = m
       /\ msg.type \in {"SetupReply", "AddRoute"} =>
            msg.prevhops.oldest < Len(msg.prevhops.vids) /\ Len(msg.prevhops.vids) <= PrevhopSize
  /\ \A flood \in air : IsRepairLinkReqFloodInt(flood)

\* The previous hops a vroute keeps are the nodes it came by, the nearest first,
\* as many as there are and fit: the circular buffer of SetupReply and AddRoute.
PrevhopsTrue ==
  \A n \in Nodes : \A p \in Known(node[n]) :
    LET r == RouteOf(node[n], p)
        b == r.prevhops
        Knows(k) == k \in Nodes /\ InTable(node[k].tbl, p)
    IN  ~IsTemporaryRoute(r.unavail) /\ r.prev # NullVid =>
          /\ b # <<>> /\ Len(b) <= PrevhopSize /\ b[1] = r.prev
          /\ \A i \in DOMAIN b : Knows(b[i]) =>
               IF i < Len(b) THEN RouteOf(node[b[i]], p).prev = b[i + 1]
               ELSE Len(b) = PrevhopSize \/ b[i] = r.from

\* Whoever forwards a message greedily is not the node it is going to (the throw
\* of findNextHop).
ForwardedElsewhere ==
  \A n, m \in Nodes : \A i \in DOMAIN chan[m][n] :
    LET msg == chan[m][n][i]
    IN  CASE msg.type = "SetupReq" -> (msg.trace = <<>> \/ msg.record) /\ msg.opt.dst = n =>
               n = msg.transfer \/ ForMe(node[n], n, msg)
          [] msg.type \in {"AddRoute", "NotifyVset"} -> msg.trace = <<>> /\ msg.opt.dst = n => n \in {msg.dst, msg.proxy}
          [] OTHER -> TRUE

\* When all is quiet the two ends of a vset route are each other's vneis by it.
QuietVneisMutual ==
  SetupQuiet => \A n \in Nodes : \A v \in Vneis(node[n]) : \A p \in node[n].vset[v] :
                  n \in Vneis(node[v]) /\ p \in node[v].vset[n]

\* ... and every vroute is known along all its hops.
QuietSetupChained == SetupQuiet => QuietVroutesChained

InNow == {n \in Nodes : node[n].inNet}

\* The vsets make up a ring: the nodes in the network have the nearest such node on
\* either side among their vneis.
RingClosed ==
  \A n \in InNow : \A v \in InNow \ {n} :
    (\/ \A w \in InNow \ {n} : CWDistance(n, v) <= CWDistance(n, w)
     \/ \A w \in InNow \ {n} : CCWDistance(n, v) <= CCWDistance(n, w))
    => v \in Vneis(node[n])

\* where a packet for v can be one hop after k, <<node, node before, option>>; a
\* packet without a next hop, or over a link that is down, is at NullVid
OneHop(k, v) ==
  IF k[1] = v THEN {}
  ELSE IF k[1] = NullVid THEN {k}
  ELSE {<<IF {k[1], r.hop} \in up THEN r.hop ELSE NullVid, k[1], r.opt>> :
          r \in FindNextHop(node[k[1]], k[1], k[3], k[2], NullVid, TRUE)}

\* When all is quiet and the ring is closed, whatever a node in the network sends
\* another one arrives, over whichever vroutes, in fewer than twice as many hops
\* as there are nodes: greedy forwarding neither gets stuck nor goes in circles.
QuietRingDelivers ==
  SetupQuiet /\ RingClosed =>
    \A n, v \in InNow :
      FoldLeft(LAMBDA ks, i : UNION {OneHop(k, v) : k \in ks},
               {<<n, NullVid, Option(v)>>}, [i \in 1 .. 2 * Cardinality(Nodes) |-> i]) = {}

\* Setup comes to an end: requests are answered or given up, replaced vneis and
\* their vroutes are dropped, and the nodes do not go round in circles.
SetupSettles == <>[]SetupQuiet
=============================================================================
