-------------------------- MODULE VrrVrouteProofs --------------------------
(***************************************************************************)
(* Proofs about VrrVroute for any network, any vids and any path ids,      *)
(* however links fail, pneis come back and messages interleave:            *)
(*   - the type invariant, and every endpoint map matches its table;       *)
(*   - every vset route serves a vnei;                                     *)
(*   - the four places in which a node writes about a vroute agree: its    *)
(*     table, vset and nonEssRoutes, lostPneis, and the LINKED pneis of    *)
(*     psetTable.                                                          *)
(***************************************************************************)
EXTENDS VrrVroute, VlrRingRoutingTableProofs, FiniteSetTheorems, SequenceTheorems

-----------------------------------------------------------------------------
(* Messages.                                                               *)

(* The path ids of a finite set, in some order, are a sequence of them.    *)
LEMMA SetToSeqType ==
  ASSUME NEW S, IsFiniteSet(S)
  PROVE  SetToSeq(S) \in Seq(S)
<1> DEFINE k == Cardinality(S)
<1>1. k \in Nat /\ ExistsBijection(1 .. k, S)
  BY FS_CardinalityType
<1>2. \E f \in [1 .. k -> S] : IsInjective(f)
  BY <1>1 DEF ExistsBijection, Bijection, Injection
<1>3. SetToSeq(S) \in [1 .. k -> S]
  BY <1>2 DEF SetToSeq
<1> QED BY <1>1, <1>3

Outs == [Nodes -> Seq(Msg)]

(* A handler may send nothing ...                                           *)
LEMMA SilentType == Silent \in Outs
BY DEF Silent, Outs

(* ... one message to one pnei ...                                          *)
LEMMA TellType ==
  ASSUME NEW x, NEW msg \in Msg
  PROVE  Tell(x, msg) \in Outs
BY DEF Tell, Outs

(* ... or what two senders send, one after the other.                       *)
LEMMA AndType ==
  ASSUME NEW o1 \in Outs, NEW o2 \in Outs
  PROVE  And(o1, o2) \in Outs
BY DEF And, Outs

(* createTeardown makes a message.                                          *)
LEMMA TeardownMsgType ==
  ASSUME NEW p \in PathIds
  PROVE  TeardownMsg(p) \in Msg
BY DEF TeardownMsg, Msg, Teardowns

(* A message for each of some path ids: every destination gets a sequence.  *)
LEMMA TellEachType ==
  ASSUME NEW hop, NEW msg, DOMAIN hop \subseteq PathIds,
         \A p \in DOMAIN hop : msg[p] \in Msg
  PROVE  TellEach(hop, msg) \in Outs
<1> SUFFICES ASSUME NEW m \in Nodes
             PROVE  LET ps == SetToSeq({p \in DOMAIN hop : hop[p] = m})
                    IN  [i \in 1 .. Len(ps) |-> msg[ps[i]]] \in Seq(Msg)
  BY DEF TellEach, Outs
<1> DEFINE S == {p \in DOMAIN hop : hop[p] = m}
           ps == SetToSeq(S)
<1>1. IsFiniteSet(S)
  BY FS_Subset, VrouteAssumption
<1>2. ps \in Seq(S)
  BY <1>1, SetToSeqType
<1> HIDE DEF ps, S
<1>3. Len(ps) \in Nat /\ \A i \in 1 .. Len(ps) : ps[i] \in S
  BY <1>2, LenProperties, ElementOfSeq
<1>4. \A i \in 1 .. Len(ps) : msg[ps[i]] \in Msg
  BY <1>3 DEF S
<1>5. [i \in 1 .. Len(ps) |-> msg[ps[i]]] \in Seq(Msg)
  BY <1>3, <1>4
<1> QED BY <1>5 DEF ps, S

(* A Teardown for each of some path ids.                                    *)
LEMMA TeardownEachType ==
  ASSUME NEW hop, DOMAIN hop \subseteq PathIds
  PROVE  TeardownEach(hop) \in Outs
<1>1. \A p \in DOMAIN hop : [q \in DOMAIN hop |-> TeardownMsg(q)][p] \in Msg
  BY TeardownMsgType
<1> QED BY <1>1, TellEachType DEF TeardownEach

Chans == [Nodes -> [Nodes -> Seq(Msg)]]

(* What is sent is appended to channels of messages; what is received is    *)
(* taken from the front.                                                    *)
LEMMA AfterType ==
  ASSUME NEW c \in Chans, NEW n \in Nodes, NEW out \in Outs
  PROVE  After(c, n, out) \in Chans
BY DEF After, Chans, Outs

(* Taking the message a handler was called with and sending its answers.    *)
LEMMA ReplyType ==
  ASSUME chan \in Chans, NEW n \in Nodes, NEW m \in Nodes, chan[m][n] # <<>>,
         NEW out \in Outs, Reply(n, m, out)
  PROVE  chan' \in Chans
<1>1. Tail(chan[m][n]) \in Seq(Msg)
  BY DEF Chans
<1>2. [chan EXCEPT ![m][n] = Tail(@)] \in Chans
  BY <1>1 DEF Chans
<1> QED BY <1>2, AfterType DEF Reply

(* What a handler is called with is a message of its type.                  *)
LEMMA ReceivedType ==
  ASSUME chan \in Chans, NEW n \in Nodes, NEW m \in Nodes, NEW ty, Received(n, m, ty)
  PROVE  /\ chan[m][n] # <<>>
         /\ Head(chan[m][n]) \in Msg
         /\ Head(chan[m][n]).type = ty
BY DEF Received, Chans

-----------------------------------------------------------------------------
(* Tables.                                                                 *)

(* A table of a VRR node: no hop is patched, no vroute dismantled.          *)
NodeTable(t) ==
  /\ GoodTable(t, RemoveBroken)
  /\ \A p \in PathIds : InTable(t, p) => t.routes[p].unavail \in VrrStatus

(* removeBrokenVrouteEndpointInRepair is a flag.                            *)
LEMMA RemoveBrokenType == RemoveBroken \in BOOLEAN
BY VrouteAssumption

(* VRR only marks hops available or unavailable.                            *)
LEMMA VrrSetStatus ==
  ASSUME NEW u \in VrrStatus, NEW value \in {0, 1}, NEW setPrev \in BOOLEAN
  PROVE  SetStatus(u, setPrev, value) \in VrrStatus
BY DEF VrrStatus, SetStatus

(* A route that was just added has no broken hop.                           *)
LEMMA FreshRoute ==
  ASSUME NEW r \in Route, r.unavail = 0
  PROVE  ~PrevBroken(r) /\ ~NextBroken(r)
BY DEF PrevBroken, NextBroken, PrevNextIsUnavailable

(* addRoute with both hops available.                                       *)
LEMMA AddNodeTable ==
  ASSUME NEW t, NodeTable(t), NEW p \in PathIds, NEW r \in Route, r.unavail = 0
  PROVE  NodeTable(AddRoute(t, p, r))
<1>1. GoodTable(AddRoute(t, p, r), RemoveBroken)
  BY AddRouteGood, FreshRoute, RemoveBrokenType DEF NodeTable
<1>2. t.routes \in [PathIds -> Route \cup {NoRoute}]
  BY DEF NodeTable, GoodTable, Table
<1>3. \A q \in PathIds : AddRoute(t, p, r).routes[q] \in {t.routes[q], r}
  BY <1>2 DEF AddRoute
<1> QED BY <1>1, <1>2, <1>3 DEF NodeTable, VrrStatus, InTable

(* removeRouteByPathID.                                                     *)
LEMMA RemoveNodeTable ==
  ASSUME NEW t, NodeTable(t), NEW ps
  PROVE  NodeTable(RemoveRoutes(t, ps))
<1>1. GoodTable(RemoveRoutes(t, ps), RemoveBroken)
  BY RemoveRoutesGood, RemoveBrokenType DEF NodeTable
<1>2. \A q \in PathIds : RemoveRoutes(t, ps).routes[q] \in {t.routes[q], NoRoute}
  BY DEF RemoveRoutes
<1> QED BY <1>1, <1>2 DEF NodeTable, InTable

(* What a table in the shape of UpdateRoutesGood has to show.               *)
LEMMA UpdateNodeTable ==
  ASSUME NEW t, NodeTable(t), NEW f \in [PathIds -> Route \cup {NoRoute}], NEW E,
         \A p \in PathIds : f[p] = NoRoute <=> ~InTable(t, p),
         \A p \in PathIds : InTable(t, p) => /\ f[p].from = t.routes[p].from
                                             /\ f[p].to = t.routes[p].to
                                             /\ f[p].unavail \in VrrStatus,
         \A e \in E : /\ e \in Vids \X PathIds
                      /\ InTable(t, e[2])
                      /\ e[1] \in {t.routes[e[2]].from, t.routes[e[2]].to},
         \A p \in PathIds : InTable(t, p) =>
           /\ <<f[p].from, p>> \in E <=> ~(RemoveBroken /\ PrevBroken(f[p]))
           /\ <<f[p].to, p>> \in E <=> ~(RemoveBroken /\ NextBroken(f[p]))
  PROVE  NodeTable([routes |-> f, ends |-> E])
<1> DEFINE t1 == [routes |-> f, ends |-> E]
<1>1. GoodTable(t1, RemoveBroken)
  BY UpdateRoutesGood, RemoveBrokenType DEF NodeTable
<1>2. \A p \in PathIds : InTable(t1, p) => InTable(t, p)
  BY DEF InTable
<1> QED BY <1>1, <1>2 DEF NodeTable

(* What a table of a node gives about each of its routes.                   *)
LEMMA NodeTableFacts ==
  ASSUME NEW t, NodeTable(t)
  PROVE  /\ t = [routes |-> t.routes, ends |-> t.ends]
         /\ t.routes \in [PathIds -> Route \cup {NoRoute}]
         /\ \A p \in PathIds : InTable(t, p) =>
              /\ t.routes[p] \in Route
              /\ t.routes[p].from \in Vids /\ t.routes[p].to \in Vids
              /\ t.routes[p].from # t.routes[p].to
              /\ t.routes[p].prev \in Hops /\ t.routes[p].next \in Hops
              /\ t.routes[p].unavail \in VrrStatus
              /\ <<t.routes[p].from, p>> \in t.ends
                   <=> ~(RemoveBroken /\ PrevBroken(t.routes[p]))
              /\ <<t.routes[p].to, p>> \in t.ends
                   <=> ~(RemoveBroken /\ NextBroken(t.routes[p]))
         /\ \A e \in t.ends : /\ e \in Vids \X PathIds
                              /\ InTable(t, e[2])
                              /\ e[1] \in {t.routes[e[2]].from, t.routes[e[2]].to}
<1>1. t \in Table /\ EndsKnown(t) /\ EndsListed(t, RemoveBroken)
  BY DEF NodeTable, GoodTable
<1>2. t.routes \in [PathIds -> Route \cup {NoRoute}] /\ t = [routes |-> t.routes, ends |-> t.ends]
  BY <1>1 DEF Table
<1>3. \A p \in PathIds : InTable(t, p) => t.routes[p] \in Route
  BY <1>2 DEF InTable
<1>4. \A e \in t.ends : e \in Vids \X PathIds
  BY <1>1 DEF Table
<1> QED BY <1>1, <1>2, <1>3, <1>4 DEF NodeTable, EndsKnown, EndsListed, Route

(* Setting one hop available or unavailable, as VRR does.                   *)
Same(r, q) == q.from = r.from /\ q.to = r.to /\ q.prev = r.prev /\ q.next = r.next

(* The previous hop is marked, the next hop and the ends stay.              *)
LEMMA VrrSetPrev ==
  ASSUME NEW r \in Route, r.unavail \in VrrStatus, NEW value \in {0, 1}
  PROVE  /\ SetHop(r, TRUE, value) \in Route
         /\ Same(r, SetHop(r, TRUE, value))
         /\ SetHop(r, TRUE, value).unavail \in VrrStatus
         /\ PrevBroken(SetHop(r, TRUE, value)) <=> value = 1
         /\ NextBroken(SetHop(r, TRUE, value)) <=> NextBroken(r)
<1>1. SetStatus(r.unavail, TRUE, value) \in VrrStatus
  BY VrrSetStatus
<1>2. value \in 0 .. 3 /\ TRUE \in BOOLEAN
  OBVIOUS
<1> QED BY <1>1, <1>2, SetHopFields DEF Same

(* The next hop is marked, the previous hop and the ends stay.              *)
LEMMA VrrSetNext ==
  ASSUME NEW r \in Route, r.unavail \in VrrStatus, NEW value \in {0, 1}
  PROVE  /\ SetHop(r, FALSE, value) \in Route
         /\ Same(r, SetHop(r, FALSE, value))
         /\ SetHop(r, FALSE, value).unavail \in VrrStatus
         /\ PrevBroken(SetHop(r, FALSE, value)) <=> PrevBroken(r)
         /\ NextBroken(SetHop(r, FALSE, value)) <=> value = 1
<1>1. SetStatus(r.unavail, FALSE, value) \in VrrStatus
  BY VrrSetStatus
<1>2. value \in 0 .. 3 /\ FALSE \in BOOLEAN
  OBVIOUS
<1> QED BY <1>1, <1>2, SetHopFields DEF Same

(* A hop is made available again (the two lemmas above for the value 0).    *)
LEMMA ClearHop ==
  ASSUME NEW r \in Route, r.unavail \in VrrStatus
  PROVE  /\ SetHop(r, TRUE, 0) \in Route
         /\ Same(r, SetHop(r, TRUE, 0))
         /\ SetHop(r, TRUE, 0).unavail \in VrrStatus
         /\ ~PrevBroken(SetHop(r, TRUE, 0))
         /\ NextBroken(SetHop(r, TRUE, 0)) <=> NextBroken(r)
         /\ SetHop(r, FALSE, 0) \in Route
         /\ Same(r, SetHop(r, FALSE, 0))
         /\ SetHop(r, FALSE, 0).unavail \in VrrStatus
         /\ PrevBroken(SetHop(r, FALSE, 0)) <=> PrevBroken(r)
         /\ ~NextBroken(SetHop(r, FALSE, 0))
<1> DEFINE value == 0
<1>1. value \in {0, 1} /\ ~(value = 1)
  OBVIOUS
<1> HIDE DEF value
<1>2. /\ SetHop(r, TRUE, value) \in Route
      /\ Same(r, SetHop(r, TRUE, value))
      /\ SetHop(r, TRUE, value).unavail \in VrrStatus
      /\ ~PrevBroken(SetHop(r, TRUE, value))
      /\ NextBroken(SetHop(r, TRUE, value)) <=> NextBroken(r)
  BY <1>1, VrrSetPrev
<1>3. /\ SetHop(r, FALSE, value) \in Route
      /\ Same(r, SetHop(r, FALSE, value))
      /\ SetHop(r, FALSE, value).unavail \in VrrStatus
      /\ PrevBroken(SetHop(r, FALSE, value)) <=> PrevBroken(r)
      /\ ~NextBroken(SetHop(r, FALSE, value))
  BY <1>1, VrrSetNext
<1> QED BY <1>2, <1>3 DEF value

(* vrrAdd demotes routes: only isVsetRoute changes.                         *)
LEMMA DemoteNodeTable ==
  ASSUME NEW t, NodeTable(t), NEW ps
  PROVE  NodeTable(DemoteRoutes(t, ps))
<1> DEFINE f == DemoteRoutes(t, ps).routes
<1>1. /\ f = [p \in PathIds |-> IF p \in ps /\ InTable(t, p)
                               THEN [t.routes[p] EXCEPT !.isVset = FALSE] ELSE t.routes[p]]
      /\ DemoteRoutes(t, ps) = [routes |-> f, ends |-> t.ends]
  BY DEF DemoteRoutes
<1>2. \A r \in Route : /\ [r EXCEPT !.isVset = FALSE] \in Route
                       /\ [r EXCEPT !.isVset = FALSE].from = r.from
                       /\ [r EXCEPT !.isVset = FALSE].to = r.to
                       /\ [r EXCEPT !.isVset = FALSE].unavail = r.unavail
  BY DEF Route
<1>3. \A p \in PathIds :
        /\ ~InTable(t, p) => f[p] = NoRoute
        /\ InTable(t, p) => /\ f[p] \in Route
                            /\ f[p].from = t.routes[p].from
                            /\ f[p].to = t.routes[p].to
                            /\ f[p].unavail = t.routes[p].unavail
  BY <1>1, <1>2, NodeTableFacts DEF InTable
<1>4. f \in [PathIds -> Route \cup {NoRoute}]
  BY <1>1, <1>3
<1>5. \A p \in PathIds : f[p] = NoRoute <=> ~InTable(t, p)
  BY <1>3, RouteAssumption
<1> HIDE DEF f
<1>6. NodeTable([routes |-> f, ends |-> t.ends])
  <2>1. \A p \in PathIds : InTable(t, p) =>
          /\ f[p].from = t.routes[p].from
          /\ f[p].to = t.routes[p].to
          /\ f[p].unavail \in VrrStatus
    BY <1>3, NodeTableFacts
  <2>2. \A e \in t.ends : /\ e \in Vids \X PathIds
                         /\ InTable(t, e[2])
                         /\ e[1] \in {t.routes[e[2]].from, t.routes[e[2]].to}
    BY NodeTableFacts
  <2>3. \A p \in PathIds : InTable(t, p) =>
          /\ <<f[p].from, p>> \in t.ends <=> ~(RemoveBroken /\ PrevBroken(f[p]))
          /\ <<f[p].to, p>> \in t.ends <=> ~(RemoveBroken /\ NextBroken(f[p]))
    <3> SUFFICES ASSUME NEW p \in PathIds, InTable(t, p)
                 PROVE  /\ <<f[p].from, p>> \in t.ends <=> ~(RemoveBroken /\ PrevBroken(f[p]))
                        /\ <<f[p].to, p>> \in t.ends <=> ~(RemoveBroken /\ NextBroken(f[p]))
      OBVIOUS
    <3>1. /\ f[p].from = t.routes[p].from /\ f[p].to = t.routes[p].to
          /\ PrevBroken(f[p]) <=> PrevBroken(t.routes[p])
          /\ NextBroken(f[p]) <=> NextBroken(t.routes[p])
      BY <1>3 DEF PrevBroken, NextBroken
    <3> QED BY <3>1, NodeTableFacts
  <2> QED BY <1>4, <1>5, <2>1, <2>2, <2>3, UpdateNodeTable
<1> QED BY <1>1, <1>6

(* handleLostPneis marks the hops over the lost pnei, both if both are.     *)
LEMMA BreakHopFields ==
  ASSUME NEW r \in Route, r.unavail \in VrrStatus, NEW x
  PROVE  /\ BreakHop(r, x) \in Route
         /\ BreakHop(r, x).from = r.from
         /\ BreakHop(r, x).to = r.to
         /\ BreakHop(r, x).unavail \in VrrStatus
         /\ PrevBroken(BreakHop(r, x)) <=> r.prev = x \/ PrevBroken(r)
         /\ NextBroken(BreakHop(r, x)) <=> r.next = x \/ NextBroken(r)
<1> DEFINE r1 == IF r.prev = x THEN SetHop(r, TRUE, 1) ELSE r
<1>1. /\ r1 \in Route /\ r1.from = r.from /\ r1.to = r.to /\ r1.unavail \in VrrStatus
      /\ PrevBroken(r1) <=> r.prev = x \/ PrevBroken(r)
      /\ NextBroken(r1) <=> NextBroken(r)
  BY VrrSetPrev DEF Same
<1>2. BreakHop(r, x) = IF r.next = x THEN SetHop(r1, FALSE, 1) ELSE r1
  BY DEF BreakHop
<1> HIDE DEF r1
<1>3. CASE r.next = x
  <2> DEFINE r2 == SetHop(r1, FALSE, 1)
  <2>1. /\ r2 \in Route /\ r2.from = r1.from /\ r2.to = r1.to /\ r2.unavail \in VrrStatus
        /\ PrevBroken(r2) <=> PrevBroken(r1)
        /\ NextBroken(r2)
    BY <1>1, VrrSetNext DEF Same
  <2> QED BY <1>1, <1>2, <1>3, <2>1
<1>4. CASE r.next # x
  BY <1>1, <1>2, <1>4
<1> QED BY <1>3, <1>4

(* handleLostPneis takes out of the map the ends it takes the hops from.    *)
LEMMA LostNodeTable ==
  ASSUME NEW t, NodeTable(t), NEW x \in Nodes
  PROVE  NodeTable(TableAfterLost(t, x))
<1> DEFINE hit == RoutesOver(t, x)
           f == TableAfterLost(t, x).routes
           E == TableAfterLost(t, x).ends
           cut == {<<t.routes[p].from, p>> : p \in {q \in hit : t.routes[q].prev = x}}
                  \cup {<<t.routes[p].to, p>> : p \in {q \in hit : t.routes[q].next = x}}
<1>1. /\ f = [p \in PathIds |-> IF p \in hit THEN BreakHop(t.routes[p], x) ELSE t.routes[p]]
      /\ E = IF RemoveBroken THEN t.ends \ cut ELSE t.ends
      /\ TableAfterLost(t, x) = [routes |-> f, ends |-> E]
  BY DEF TableAfterLost
<1>2. \A p \in PathIds : p \in hit <=> InTable(t, p) /\ (t.routes[p].prev = x \/ t.routes[p].next = x)
  BY DEF RoutesOver
<1>3. \A p \in PathIds : InTable(t, p) =>
        /\ f[p] \in Route
        /\ f[p].from = t.routes[p].from
        /\ f[p].to = t.routes[p].to
        /\ f[p].unavail \in VrrStatus
        /\ PrevBroken(f[p]) <=> t.routes[p].prev = x \/ PrevBroken(t.routes[p])
        /\ NextBroken(f[p]) <=> t.routes[p].next = x \/ NextBroken(t.routes[p])
  <2> SUFFICES ASSUME NEW p \in PathIds, InTable(t, p)
               PROVE  /\ f[p] \in Route
                      /\ f[p].from = t.routes[p].from
                      /\ f[p].to = t.routes[p].to
                      /\ f[p].unavail \in VrrStatus
                      /\ PrevBroken(f[p]) <=> t.routes[p].prev = x \/ PrevBroken(t.routes[p])
                      /\ NextBroken(f[p]) <=> t.routes[p].next = x \/ NextBroken(t.routes[p])
    OBVIOUS
  <2>1. t.routes[p] \in Route /\ t.routes[p].unavail \in VrrStatus
    BY NodeTableFacts
  <2>2. CASE p \in hit
    <3>1. f[p] = BreakHop(t.routes[p], x)
      BY <1>1, <2>2
    <3> QED BY <2>1, <3>1, BreakHopFields
  <2>3. CASE p \notin hit
    BY <1>1, <1>2, <2>1, <2>3
  <2> QED BY <2>2, <2>3
<1>4. \A p \in PathIds : ~InTable(t, p) => f[p] = NoRoute
  BY <1>1, <1>2 DEF InTable
<1>5. f \in [PathIds -> Route \cup {NoRoute}]
  BY <1>1, <1>3, <1>4
<1>6. \A p \in PathIds : f[p] = NoRoute <=> ~InTable(t, p)
  BY <1>3, <1>4, RouteAssumption
<1>7. \A p \in PathIds : InTable(t, p) =>
        /\ <<t.routes[p].from, p>> \in cut <=> t.routes[p].prev = x
        /\ <<t.routes[p].to, p>> \in cut <=> t.routes[p].next = x
  <2> SUFFICES ASSUME NEW p \in PathIds, InTable(t, p)
               PROVE  /\ <<t.routes[p].from, p>> \in cut <=> t.routes[p].prev = x
                      /\ <<t.routes[p].to, p>> \in cut <=> t.routes[p].next = x
    OBVIOUS
  <2>1. t.routes[p].from # t.routes[p].to
    BY NodeTableFacts
  <2>2. hit \subseteq PathIds
    BY DEF RoutesOver
  <2>3. \A v : <<v, p>> \in cut <=> \/ p \in hit /\ t.routes[p].prev = x /\ v = t.routes[p].from
                                    \/ p \in hit /\ t.routes[p].next = x /\ v = t.routes[p].to
    OBVIOUS
  <2> QED BY <1>2, <2>1, <2>3
<1> HIDE DEF f, E, cut, hit
<1>8. \A e \in E : /\ e \in Vids \X PathIds
                   /\ InTable(t, e[2])
                   /\ e[1] \in {t.routes[e[2]].from, t.routes[e[2]].to}
  BY <1>1, NodeTableFacts
<1>9. \A p \in PathIds : InTable(t, p) =>
        /\ <<f[p].from, p>> \in E <=> ~(RemoveBroken /\ PrevBroken(f[p]))
        /\ <<f[p].to, p>> \in E <=> ~(RemoveBroken /\ NextBroken(f[p]))
  <2> SUFFICES ASSUME NEW p \in PathIds, InTable(t, p)
               PROVE  /\ <<f[p].from, p>> \in E <=> ~(RemoveBroken /\ PrevBroken(f[p]))
                      /\ <<f[p].to, p>> \in E <=> ~(RemoveBroken /\ NextBroken(f[p]))
    OBVIOUS
  <2>1. /\ <<t.routes[p].from, p>> \in t.ends <=> ~(RemoveBroken /\ PrevBroken(t.routes[p]))
        /\ <<t.routes[p].to, p>> \in t.ends <=> ~(RemoveBroken /\ NextBroken(t.routes[p]))
    BY NodeTableFacts
  <2> QED BY <1>1, <1>3, <1>7, <2>1
<1>10. NodeTable([routes |-> f, ends |-> E])
  BY <1>3, <1>5, <1>6, <1>8, <1>9, UpdateNodeTable
<1> QED BY <1>1, <1>10

(* handleLinkedPnei puts a hop and the end point beyond it back together,   *)
(* whichever hop it takes for the one over the pnei.                        *)
LEMMA LinkedNodeTable ==
  ASSUME NEW t, NodeTable(t), NEW x \in Nodes, NEW broken \in SUBSET PathIds
  PROVE  NodeTable(TableAfterLinked(t, x, broken))
<1> DEFINE hit == {p \in broken : InTable(t, p)}
           f == TableAfterLinked(t, x, broken).routes
           E == TableAfterLinked(t, x, broken).ends
           back(p) == IF t.routes[p].prev = x THEN t.routes[p].from ELSE t.routes[p].to
<1>1. /\ f = [p \in PathIds |-> IF p \in hit THEN RestoreHop(t.routes[p], x) ELSE t.routes[p]]
      /\ E = t.ends \cup {<<back(p), p>> : p \in hit}
      /\ TableAfterLinked(t, x, broken) = [routes |-> f, ends |-> E]
  BY DEF TableAfterLinked
<1>2. \A p \in PathIds : InTable(t, p) =>
        /\ f[p] \in Route
        /\ f[p].from = t.routes[p].from
        /\ f[p].to = t.routes[p].to
        /\ f[p].unavail \in VrrStatus
        /\ PrevBroken(f[p]) <=> ~(p \in hit /\ t.routes[p].prev = x) /\ PrevBroken(t.routes[p])
        /\ NextBroken(f[p]) <=> ~(p \in hit /\ t.routes[p].prev # x) /\ NextBroken(t.routes[p])
  <2> SUFFICES ASSUME NEW p \in PathIds, InTable(t, p)
               PROVE  /\ f[p] \in Route
                      /\ f[p].from = t.routes[p].from
                      /\ f[p].to = t.routes[p].to
                      /\ f[p].unavail \in VrrStatus
                      /\ PrevBroken(f[p])
                           <=> ~(p \in hit /\ t.routes[p].prev = x) /\ PrevBroken(t.routes[p])
                      /\ NextBroken(f[p])
                           <=> ~(p \in hit /\ t.routes[p].prev # x) /\ NextBroken(t.routes[p])
    OBVIOUS
  <2>1. t.routes[p] \in Route /\ t.routes[p].unavail \in VrrStatus
    BY NodeTableFacts
  <2>2. CASE p \in hit /\ t.routes[p].prev = x
    <3>1. f[p] = SetHop(t.routes[p], TRUE, 0)
      BY <1>1, <2>2 DEF RestoreHop
    <3>2. /\ f[p] \in Route /\ Same(t.routes[p], f[p]) /\ f[p].unavail \in VrrStatus
          /\ ~PrevBroken(f[p])
          /\ NextBroken(f[p]) <=> NextBroken(t.routes[p])
      BY <2>1, <3>1, ClearHop
    <3> HIDE DEF f, hit
    <3> QED BY <2>2, <3>2 DEF Same
  <2>3. CASE p \in hit /\ t.routes[p].prev # x
    <3>1. f[p] = SetHop(t.routes[p], FALSE, 0)
      BY <1>1, <2>3 DEF RestoreHop
    <3>2. /\ f[p] \in Route /\ Same(t.routes[p], f[p]) /\ f[p].unavail \in VrrStatus
          /\ PrevBroken(f[p]) <=> PrevBroken(t.routes[p])
          /\ ~NextBroken(f[p])
      BY <2>1, <3>1, ClearHop
    <3> HIDE DEF f, hit
    <3> QED BY <2>3, <3>2 DEF Same
  <2>4. CASE p \notin hit
    BY <1>1, <2>1, <2>4
  <2> QED BY <2>2, <2>3, <2>4
<1>3. \A p \in PathIds : ~InTable(t, p) => f[p] = NoRoute
  BY <1>1 DEF InTable
<1>4. f \in [PathIds -> Route \cup {NoRoute}]
  BY <1>1, <1>2, <1>3
<1>5. \A p \in PathIds : f[p] = NoRoute <=> ~InTable(t, p)
  BY <1>2, <1>3, RouteAssumption
<1>6. \A v, p : <<v, p>> \in E <=> <<v, p>> \in t.ends \/ (p \in hit /\ v = back(p))
  BY <1>1
<1>7. \A e \in E : /\ e \in Vids \X PathIds
                   /\ InTable(t, e[2])
                   /\ e[1] \in {t.routes[e[2]].from, t.routes[e[2]].to}
  <2> SUFFICES ASSUME NEW p \in hit
               PROVE  /\ back(p) \in Vids /\ p \in PathIds /\ InTable(t, p)
                      /\ back(p) \in {t.routes[p].from, t.routes[p].to}
    BY <1>1, NodeTableFacts
  <2> QED BY NodeTableFacts
<1> HIDE DEF f, E, hit
<1>8. \A p \in PathIds : InTable(t, p) =>
        /\ <<f[p].from, p>> \in E <=> ~(RemoveBroken /\ PrevBroken(f[p]))
        /\ <<f[p].to, p>> \in E <=> ~(RemoveBroken /\ NextBroken(f[p]))
  <2> SUFFICES ASSUME NEW p \in PathIds, InTable(t, p)
               PROVE  /\ <<f[p].from, p>> \in E <=> ~(RemoveBroken /\ PrevBroken(f[p]))
                      /\ <<f[p].to, p>> \in E <=> ~(RemoveBroken /\ NextBroken(f[p]))
    OBVIOUS
  <2>1. /\ <<t.routes[p].from, p>> \in t.ends <=> ~(RemoveBroken /\ PrevBroken(t.routes[p]))
        /\ <<t.routes[p].to, p>> \in t.ends <=> ~(RemoveBroken /\ NextBroken(t.routes[p]))
        /\ t.routes[p].from # t.routes[p].to
    BY NodeTableFacts
  <2>2. CASE p \in hit /\ t.routes[p].prev = x
    BY <1>2, <1>6, <2>1, <2>2
  <2>3. CASE p \in hit /\ t.routes[p].prev # x
    BY <1>2, <1>6, <2>1, <2>3
  <2>4. CASE p \notin hit
    BY <1>2, <1>6, <2>1, <2>4
  <2> QED BY <2>2, <2>3, <2>4
<1>9. NodeTable([routes |-> f, ends |-> E])
  BY <1>2, <1>4, <1>5, <1>7, <1>8, UpdateNodeTable
<1> QED BY <1>1, <1>9

(* Local repair: the previous hops of some routes are available again, over *)
(* another pnei, and so are the sources beyond them.                        *)
LEMMA RepairNodeTable ==
  ASSUME NEW t, NodeTable(t), NEW trace,
         \A p \in DOMAIN trace : /\ p \in PathIds /\ InTable(t, p)
                                 /\ Last(trace[p]) \in Hops
                                 /\ Reverse(trace[p]) \in Seq(Vids)
  PROVE  NodeTable(TableAfterRepair(t, trace))
<1> DEFINE hit == DOMAIN trace
           f == TableAfterRepair(t, trace).routes
           E == TableAfterRepair(t, trace).ends
           new(p) == [SetHop(t.routes[p], TRUE, 0) EXCEPT !.prev = Last(trace[p]),
                                                          !.prevhops = Reverse(trace[p])]
<1>1. /\ f = [p \in PathIds |-> IF p \in hit THEN new(p) ELSE t.routes[p]]
      /\ E = t.ends \cup {<<t.routes[p].from, p>> : p \in hit}
      /\ TableAfterRepair(t, trace) = [routes |-> f, ends |-> E]
  BY DEF TableAfterRepair
<1>2. \A p \in PathIds : InTable(t, p) =>
        /\ f[p] \in Route
        /\ f[p].from = t.routes[p].from
        /\ f[p].to = t.routes[p].to
        /\ f[p].unavail \in VrrStatus
        /\ PrevBroken(f[p]) <=> p \notin hit /\ PrevBroken(t.routes[p])
        /\ NextBroken(f[p]) <=> NextBroken(t.routes[p])
  <2> SUFFICES ASSUME NEW p \in PathIds, InTable(t, p)
               PROVE  /\ f[p] \in Route
                      /\ f[p].from = t.routes[p].from
                      /\ f[p].to = t.routes[p].to
                      /\ f[p].unavail \in VrrStatus
                      /\ PrevBroken(f[p]) <=> p \notin hit /\ PrevBroken(t.routes[p])
                      /\ NextBroken(f[p]) <=> NextBroken(t.routes[p])
    OBVIOUS
  <2>1. t.routes[p] \in Route /\ t.routes[p].unavail \in VrrStatus
    BY NodeTableFacts
  <2>2. CASE p \in hit
    <3> DEFINE r == SetHop(t.routes[p], TRUE, 0)
    <3>1. /\ r \in Route /\ r.from = t.routes[p].from /\ r.to = t.routes[p].to
          /\ r.unavail \in VrrStatus /\ ~PrevBroken(r)
          /\ NextBroken(r) <=> NextBroken(t.routes[p])
      BY <2>1, ClearHop DEF Same
    <3>2. f[p] = [r EXCEPT !.prev = Last(trace[p]), !.prevhops = Reverse(trace[p])]
      BY <1>1, <2>2
    <3>3. Last(trace[p]) \in Hops /\ Reverse(trace[p]) \in Seq(Vids)
      BY <2>2
    <3> HIDE DEF r, f
    <3>4. /\ f[p] \in Route /\ f[p].from = r.from /\ f[p].to = r.to /\ f[p].unavail = r.unavail
      BY <3>1, <3>2, <3>3 DEF Route
    <3>5. /\ PrevBroken(f[p]) <=> PrevBroken(r)
          /\ NextBroken(f[p]) <=> NextBroken(r)
      BY <3>4 DEF PrevBroken, NextBroken
    <3> HIDE DEF hit
    <3> QED BY <2>2, <3>1, <3>4, <3>5
  <2>3. CASE p \notin hit
    BY <1>1, <2>1, <2>3
  <2> QED BY <2>2, <2>3
<1>3. \A p \in PathIds : ~InTable(t, p) => f[p] = NoRoute
  BY <1>1 DEF InTable
<1>4. f \in [PathIds -> Route \cup {NoRoute}]
  BY <1>1, <1>2, <1>3
<1>5. \A p \in PathIds : f[p] = NoRoute <=> ~InTable(t, p)
  BY <1>2, <1>3, RouteAssumption
<1>6. \A v, p : <<v, p>> \in E <=> <<v, p>> \in t.ends \/ (p \in hit /\ v = t.routes[p].from)
  BY <1>1
<1>7. \A e \in E : /\ e \in Vids \X PathIds
                   /\ InTable(t, e[2])
                   /\ e[1] \in {t.routes[e[2]].from, t.routes[e[2]].to}
  <2>1. \A e \in t.ends : /\ e \in Vids \X PathIds
                         /\ InTable(t, e[2])
                         /\ e[1] \in {t.routes[e[2]].from, t.routes[e[2]].to}
    BY NodeTableFacts
  <2>2. \A p \in hit : t.routes[p].from \in Vids /\ p \in PathIds /\ InTable(t, p)
    BY NodeTableFacts
  <2> HIDE DEF hit, E, f
  <2> SUFFICES ASSUME NEW e \in E
               PROVE  /\ e \in Vids \X PathIds
                      /\ InTable(t, e[2])
                      /\ e[1] \in {t.routes[e[2]].from, t.routes[e[2]].to}
    OBVIOUS
  <2>3. CASE e \in t.ends
    BY <2>1, <2>3
  <2>4. CASE \E p \in hit : e = <<t.routes[p].from, p>>
    BY <2>2, <2>4
  <2> QED BY <1>1, <2>3, <2>4
<1> HIDE DEF f, E, hit
<1>8. \A p \in PathIds : InTable(t, p) =>
        /\ <<f[p].from, p>> \in E <=> ~(RemoveBroken /\ PrevBroken(f[p]))
        /\ <<f[p].to, p>> \in E <=> ~(RemoveBroken /\ NextBroken(f[p]))
  <2> SUFFICES ASSUME NEW p \in PathIds, InTable(t, p)
               PROVE  /\ <<f[p].from, p>> \in E <=> ~(RemoveBroken /\ PrevBroken(f[p]))
                      /\ <<f[p].to, p>> \in E <=> ~(RemoveBroken /\ NextBroken(f[p]))
    OBVIOUS
  <2>1. /\ <<t.routes[p].from, p>> \in t.ends <=> ~(RemoveBroken /\ PrevBroken(t.routes[p]))
        /\ <<t.routes[p].to, p>> \in t.ends <=> ~(RemoveBroken /\ NextBroken(t.routes[p]))
        /\ t.routes[p].from # t.routes[p].to
    BY NodeTableFacts
  <2> QED BY <1>2, <1>6, <2>1
<1>9. NodeTable([routes |-> f, ends |-> E])
  BY <1>2, <1>4, <1>5, <1>7, <1>8, UpdateNodeTable
<1> QED BY <1>1, <1>9

(* A repaired next hop is available again, and so is the node beyond it.    *)
LEMMA PatchNodeTable ==
  ASSUME NEW t, NodeTable(t), NEW p \in PathIds, InTable(t, p), NEW m \in Nodes
  PROVE  NodeTable(TableAfterPatch(t, p, m))
<1> DEFINE r == t.routes[p]
           r1 == IF NextBroken(r) THEN SetHop(r, FALSE, 0) ELSE r
           r2 == [r1 EXCEPT !.next = m]
           f == [t.routes EXCEPT ![p] = r2]
           E == IF NextBroken(r) THEN t.ends \cup {<<r.to, p>>} ELSE t.ends
<1>1. TableAfterPatch(t, p, m) = [routes |-> f, ends |-> E]
  BY DEF TableAfterPatch
<1>2. r \in Route /\ r.unavail \in VrrStatus /\ r.from \in Vids /\ r.to \in Vids /\ r.from # r.to
  BY NodeTableFacts
<1>3. /\ r1 \in Route /\ Same(r, r1) /\ r1.unavail \in VrrStatus
      /\ PrevBroken(r1) <=> PrevBroken(r)
      /\ ~NextBroken(r1)
  BY <1>2, ClearHop DEF Same
<1> HIDE DEF r1
<1>4. r2 \in Route /\ r2.from = r1.from /\ r2.to = r1.to /\ r2.unavail = r1.unavail
  BY <1>3 DEF Route, Hops, Nodes
<1>5. /\ r2.from = r.from /\ r2.to = r.to /\ r2.unavail \in VrrStatus
      /\ PrevBroken(r2) <=> PrevBroken(r)
      /\ ~NextBroken(r2)
  <2>1. (PrevBroken(r2) <=> PrevBroken(r1)) /\ (NextBroken(r2) <=> NextBroken(r1))
    BY <1>4 DEF PrevBroken, NextBroken
  <2> HIDE DEF r2, r
  <2> QED BY <1>3, <1>4, <2>1 DEF Same
<1> HIDE DEF r2
<1>6. \A q \in PathIds : f[q] = IF q = p THEN r2 ELSE t.routes[q]
  BY NodeTableFacts
<1>7. f \in [PathIds -> Route \cup {NoRoute}]
  BY <1>4, NodeTableFacts
<1>8. \A q \in PathIds : f[q] = NoRoute <=> ~InTable(t, q)
  BY <1>4, <1>6, RouteAssumption DEF InTable
<1> HIDE DEF f
<1>9. \A q \in PathIds : InTable(t, q) => /\ f[q].from = t.routes[q].from
                                          /\ f[q].to = t.routes[q].to
                                          /\ f[q].unavail \in VrrStatus
  BY <1>5, <1>6, NodeTableFacts
<1>10. \A e \in E : /\ e \in Vids \X PathIds
                    /\ InTable(t, e[2])
                    /\ e[1] \in {t.routes[e[2]].from, t.routes[e[2]].to}
  BY <1>2, NodeTableFacts
<1>11. \A q \in PathIds : InTable(t, q) =>
         /\ <<f[q].from, q>> \in E <=> ~(RemoveBroken /\ PrevBroken(f[q]))
         /\ <<f[q].to, q>> \in E <=> ~(RemoveBroken /\ NextBroken(f[q]))
  <2> SUFFICES ASSUME NEW q \in PathIds, InTable(t, q)
               PROVE  /\ <<f[q].from, q>> \in E <=> ~(RemoveBroken /\ PrevBroken(f[q]))
                      /\ <<f[q].to, q>> \in E <=> ~(RemoveBroken /\ NextBroken(f[q]))
    OBVIOUS
  <2>1. /\ <<t.routes[q].from, q>> \in t.ends <=> ~(RemoveBroken /\ PrevBroken(t.routes[q]))
        /\ <<t.routes[q].to, q>> \in t.ends <=> ~(RemoveBroken /\ NextBroken(t.routes[q]))
    BY NodeTableFacts
  <2>2. CASE q = p
    BY <1>2, <1>5, <1>6, <2>1, <2>2
  <2>3. CASE q # p
    BY <1>6, <2>1, <2>3
  <2> QED BY <2>2, <2>3
<1> HIDE DEF E
<1> QED BY <1>1, <1>7, <1>8, <1>9, <1>10, <1>11, UpdateNodeTable

-----------------------------------------------------------------------------
(* vset and lostPneis.                                                     *)

(* vrrAdd: the source joins, whom it pushes out leaves.                     *)
LEMMA AdmitVset ==
  ASSUME NEW n \in Nodes, VsetType(n, vset[n]), NEW src \in Nodes \ {n}, NEW p \in PathIds
  PROVE  VsetType(n, VsetAfterAdmit(n, src, p)) /\ Demoted(n, src) \subseteq PathIds
BY DEF VsetType, VsetAfterAdmit, Demoted

(* removeEndpointOnTeardown.                                                *)
LEMMA TeardownVset ==
  ASSUME NEW n \in Nodes, VsetType(n, vset[n]), NEW ps
  PROVE  VsetType(n, VsetAfterTeardown(n, ps))
BY DEF VsetType, VsetAfterTeardown

(* removeRouteFromLostPneiBrokenVroutes.                                    *)
LEMMA ForgetBrokenType ==
  ASSUME NEW l, LostType(l), NEW gone
  PROVE  LostType(ForgetBroken(l, gone))
<1> DEFINE of(x) == {p \in PathIds : <<p, x>> \in gone}
           l1 == ForgetBroken(l, gone)
<1>1. /\ DOMAIN l1 \subseteq DOMAIN l
      /\ \A x \in DOMAIN l1 : l1[x] = [l[x] EXCEPT !.broken = @ \ of(x)]
  BY DEF ForgetBroken
<1>2. \A x \in DOMAIN l : /\ l[x].broken \in SUBSET PathIds /\ l[x].retry \in 0 .. RetryLimit
                          /\ l[x] = [broken |-> l[x].broken, retry |-> l[x].retry]
  BY DEF LostType, LostEntry
<1> HIDE DEF l1
<1>3. \A x \in DOMAIN l1 : l1[x] \in LostEntry
  <2> SUFFICES ASSUME NEW x \in DOMAIN l1
               PROVE  l1[x] \in LostEntry
    OBVIOUS
  <2>1. l[x] \in LostEntry
    BY <1>1 DEF LostType
  <2> QED BY <1>1, <2>1 DEF LostEntry
<1> QED BY <1>1, <1>3 DEF LostType, l1

(* An entry is put into the list; it is an entry once vroutes broke.        *)
LEMMA LostWithType ==
  ASSUME NEW l, LostType(l), NEW x \in Nodes, NEW entry \in LostEntry
  PROVE  LostType(LostWith(l, x, entry))
BY DEF LostType, LostWith

(* handleLostPneis adds the vroutes over the lost pnei.                     *)
LEMMA BrokenByType ==
  ASSUME NEW l, LostType(l), NEW x \in Nodes, NEW over, over \subseteq PathIds
  PROVE  BrokenBy(l, x, over) \in LostEntry
<1>1. CASE x \in DOMAIN l
  <2>1. l[x].broken \subseteq PathIds /\ l[x].retry \in 0 .. RetryLimit
    BY <1>1 DEF LostType, LostEntry
  <2> QED BY <1>1, <2>1 DEF BrokenBy, LostEntry
<1>2. CASE x \notin DOMAIN l
  BY <1>2, VrouteAssumption DEF BrokenBy, LostEntry
<1> QED BY <1>1, <1>2

(* Entries are erased from lostPneis.                                       *)
LEMMA RestrictLost ==
  ASSUME NEW l, LostType(l), NEW S
  PROVE  LostType(Restrict(l, DOMAIN l \ S))
BY DEF LostType, Restrict

-----------------------------------------------------------------------------
(* The inductive invariant: the type invariant, with the endpoint map in    *)
(* the place of the bare type of the tables.                                *)
Tables == tbl \in [Nodes -> Table] /\ \A n \in Nodes : NodeTable(tbl[n])
Vsets  == DOMAIN vset = Nodes /\ \A n \in Nodes : VsetType(n, vset[n])
Losts  == DOMAIN lost = Nodes /\ \A n \in Nodes : LostType(lost[n])
NonEss == nonEss \in [Nodes -> SUBSET PathIds]
World  == /\ linked \in [Nodes -> SUBSET Nodes] /\ up \subseteq Links
          /\ used \subseteq PathIds /\ faults \in 0 .. MaxFaults

Inv == Tables /\ Vsets /\ Losts /\ NonEss /\ World /\ chan \in Chans

(* The inductive invariant gives the two invariants the runs check.         *)
LEMMA InvGives == Inv => TypeOK /\ EndpointMapMatchesRoutes
BY DEF Inv, Tables, Vsets, Losts, NonEss, World, Chans, NodeTable, GoodTable,
       TypeOK, EndpointMapMatchesRoutes, Known, R

(* It holds when the nodes start.                                           *)
LEMMA InitInv == Init => Inv
<1> SUFFICES ASSUME Init PROVE Inv
  OBVIOUS
<1>1. NodeTable(EmptyTable)
  BY EmptyTableGood, RemoveBrokenType DEF NodeTable, EmptyTable, InTable
<1>2. Tables
  BY <1>1 DEF Init, Tables, NodeTable, GoodTable
<1>3. Vsets /\ Losts
  BY DEF Init, Vsets, Losts, VsetType, LostType
<1>4. NonEss /\ World
  BY VrouteAssumption DEF Init, NonEss, World, Nbrs
<1>5. chan \in Chans
  BY DEF Init, Chans
<1> QED BY <1>2, <1>3, <1>4, <1>5 DEF Inv

(* A handler changes the state of one node.                                 *)
LEMMA StepTables ==
  ASSUME Tables, NEW n \in Nodes, NEW t, NodeTable(t), tbl' = [tbl EXCEPT ![n] = t]
  PROVE  Tables'
<1>1. t \in Table
  BY DEF NodeTable, GoodTable
<1>2. tbl' \in [Nodes -> Table]
  BY <1>1 DEF Tables
<1>3. \A k \in Nodes : NodeTable(tbl'[k])
  BY DEF Tables
<1> QED BY <1>2, <1>3 DEF Tables

(* ... its vset ...                                                         *)
LEMMA StepVsets ==
  ASSUME Vsets, NEW n \in Nodes, NEW v, VsetType(n, v), vset' = [vset EXCEPT ![n] = v]
  PROVE  Vsets'
BY DEF Vsets, VsetType

(* ... and its lostPneis.                                                   *)
LEMMA StepLosts ==
  ASSUME Losts, NEW n \in Nodes, NEW l, LostType(l), lost' = [lost EXCEPT ![n] = l]
  PROVE  Losts'
BY DEF Losts, LostType

-----------------------------------------------------------------------------
(* The handlers, one by one.                                               *)

(* Reversed previous hops are still vids.                                   *)
LEMMA ReverseType ==
  ASSUME NEW S, NEW q \in Seq(S)
  PROVE  Reverse(q) \in Seq(S)
<1>1. Len(q) \in Nat /\ \A i \in 1 .. Len(q) : q[(Len(q) - i) + 1] \in S
  BY LenProperties, ElementOfSeq
<1> QED BY <1>1 DEF Reverse

(* What vrrTeardownPath sends.                                              *)
LEMMA TeardownPathOutType ==
  ASSUME NEW n, NEW p \in PathIds, NEW m
  PROVE  TeardownPathOut(n, p, m) \in Outs
<1>1. \A x : Tell(x, TeardownMsg(p)) \in Outs
  BY TeardownMsgType, TellType
<1> QED BY <1>1, SilentType, AndType DEF TeardownPathOut

(* vrrTeardownPath, wherever it is called from.                             *)
LEMMA TeardownPathInv ==
  ASSUME Inv, NEW n \in Nodes, NEW m \in Nodes, chan[m][n] # <<>>, NEW p \in PathIds,
         NEW me \in BOOLEAN, TeardownPath(n, m, p, me)
  PROVE  Tables' /\ Vsets' /\ Losts' /\ NonEss' /\ chan' \in Chans
<1> USE DEF Inv
<1> DEFINE r    == tbl[n].routes[p]
           ends == IF InTable(tbl[n], p) /\ me /\ n \in {r.from, r.to} THEN {p} ELSE {}
           l    == IF InTable(tbl[n], p) THEN ForgetBroken(lost[n], BrokenHops(p, r)) ELSE lost[n]
<1>1. /\ tbl' = [tbl EXCEPT ![n] = RemoveRoute(tbl[n], p)]
      /\ lost' = [lost EXCEPT ![n] = l]
      /\ vset' = [vset EXCEPT ![n] = VsetAfterTeardown(n, ends)]
      /\ nonEss' = [nonEss EXCEPT ![n] = NonEssAfterTeardown(n, ends)]
      /\ Reply(n, m, TeardownPathOut(n, p, m))
  BY DEF TeardownPath
<1>2. Tables'
  <2>1. NodeTable(RemoveRoute(tbl[n], p))
    BY RemoveNodeTable DEF Tables, RemoveRoute
  <2> QED BY <1>1, <2>1, StepTables
<1>3. Vsets'
  <2>1. VsetType(n, VsetAfterTeardown(n, ends))
    BY TeardownVset DEF Vsets
  <2> QED BY <1>1, <2>1, StepVsets
<1>4. Losts'
  <2>1. LostType(l)
    BY ForgetBrokenType DEF Losts
  <2> HIDE DEF l
  <2> QED BY <1>1, <2>1, StepLosts
<1>5. NonEss'
  BY <1>1 DEF NonEss, NonEssAfterTeardown
<1>6. chan' \in Chans
  BY <1>1, ReplyType, TeardownPathOutType
<1> QED BY <1>2, <1>3, <1>4, <1>5, <1>6

(* processSetupReq.                                                         *)
LEMMA AnswerSetupInv ==
  ASSUME Inv, NEW n \in Nodes, NEW newnode \in Nodes, NEW p \in PathIds, NEW nh \in Hops,
         AnswerSetup(n, newnode, p, nh)
  PROVE  Inv'
<1> DEFINE r == NewRoute(n, newnode, NullVid, nh, TRUE, 0, <<>>)
           msg == SetupReplyMsg(p, n, newnode, <<n>>)
<1>1. newnode # n /\ newnode \in Nodes \ {n}
  BY DEF AnswerSetup
<1>2. r \in Route /\ r.unavail = 0
  BY <1>1 DEF NewRoute, Route, Hops, Status, Nodes
<1>3. msg \in Msg
  BY <1>1 DEF SetupReplyMsg, Msg, SetupReplies
<1>4. Tables'
  <2>1. NodeTable(AddRoute(tbl[n], p, r))
    BY <1>2, AddNodeTable DEF Inv, Tables
  <2>2. NodeTable(DemoteRoutes(AddRoute(tbl[n], p, r), Demoted(n, newnode)))
    BY <2>1, DemoteNodeTable
  <2> QED BY <2>2, StepTables DEF AnswerSetup, Inv
<1>5. VsetType(n, VsetAfterAdmit(n, newnode, p)) /\ Demoted(n, newnode) \subseteq PathIds
  BY <1>1, AdmitVset DEF Inv, Vsets
<1>6. Vsets'
  BY <1>5, StepVsets DEF AnswerSetup, Inv
<1>7. NonEss'
  BY <1>5 DEF AnswerSetup, Inv, NonEss
<1>8. chan' \in Chans
  BY <1>3, TellType, AfterType DEF AnswerSetup, Send, Inv
<1>9. Losts' /\ World'
  BY DEF AnswerSetup, Inv, Losts, World
<1> QED BY <1>4, <1>6, <1>7, <1>8, <1>9 DEF Inv

(* processSetupReply at the node the vroute was asked by.                   *)
LEMMA AcceptSetupInv ==
  ASSUME Inv, NEW n \in Nodes, NEW m \in Nodes, chan[m][n] # <<>>,
         NEW msg \in SetupReplies, msg.to = n, AcceptSetup(n, m, msg)
  PROVE  Tables' /\ Vsets' /\ Losts' /\ NonEss' /\ chan' \in Chans
<1> DEFINE r == NewRoute(msg.from, n, m, NullVid, TRUE, 0, Reverse(msg.prevhops))
<1>1. /\ msg.path \in PathIds /\ msg.from \in Nodes \ {n}
      /\ Reverse(msg.prevhops) \in Seq(Nodes)
  BY ReverseType DEF SetupReplies
<1>2. r \in Route /\ r.unavail = 0
  BY <1>1 DEF NewRoute, Route, Hops, Status, Nodes
<1>3. Tables'
  <2>1. NodeTable(AddRoute(tbl[n], msg.path, r))
    BY <1>1, <1>2, AddNodeTable DEF Inv, Tables
  <2>2. NodeTable(DemoteRoutes(AddRoute(tbl[n], msg.path, r), Demoted(n, msg.from)))
    BY <2>1, DemoteNodeTable
  <2> QED BY <2>2, StepTables DEF AcceptSetup, Inv
<1>4. VsetType(n, VsetAfterAdmit(n, msg.from, msg.path)) /\ Demoted(n, msg.from) \subseteq PathIds
  BY <1>1, AdmitVset DEF Inv, Vsets
<1>5. Vsets'
  BY <1>4, StepVsets DEF AcceptSetup, Inv
<1>6. NonEss'
  BY <1>4 DEF AcceptSetup, Inv, NonEss
<1>7. chan' \in Chans
  BY SilentType, ReplyType DEF AcceptSetup, Inv
<1>8. Losts'
  BY DEF AcceptSetup, Inv, Losts
<1> QED BY <1>3, <1>5, <1>6, <1>7, <1>8

(* processSetupReply at a node on the way.                                  *)
LEMMA ForwardSetupInv ==
  ASSUME Inv, NEW n \in Nodes, NEW m \in Nodes, chan[m][n] # <<>>,
         NEW msg \in SetupReplies, NEW nh \in Nodes, ForwardSetup(n, m, msg, nh)
  PROVE  Tables' /\ Vsets' /\ Losts' /\ NonEss' /\ chan' \in Chans
<1> DEFINE r == NewRoute(msg.from, msg.to, m, nh, FALSE, 0, Reverse(msg.prevhops))
           on == SetupReplyMsg(msg.path, msg.from, msg.to, PushPrevhop(msg.prevhops, n))
<1>1. /\ msg.path \in PathIds /\ msg.from \in Nodes /\ msg.to \in Nodes /\ msg.from # msg.to
      /\ msg.prevhops \in Seq(Nodes)
      /\ Reverse(msg.prevhops) \in Seq(Nodes)
  BY ReverseType DEF SetupReplies
<1>2. r \in Route /\ r.unavail = 0
  BY <1>1 DEF NewRoute, Route, Hops, Status, Nodes
<1>3. on \in Msg
  <2>1. PushPrevhop(msg.prevhops, n) \in Seq(Nodes)
    <3>1. CASE Len(msg.prevhops) < PrevhopSize
      BY <1>1, <3>1 DEF PushPrevhop
    <3>2. CASE ~ (Len(msg.prevhops) < PrevhopSize)
      <4>1. msg.prevhops # <<>>
        BY <1>1, <3>2, VrouteAssumption, EmptySeq
      <4>2. Tail(msg.prevhops) \in Seq(Nodes)
        BY <1>1, <4>1
      <4> QED BY <3>2, <4>2 DEF PushPrevhop
    <3> QED BY <3>1, <3>2
  <2> QED BY <1>1, <2>1 DEF SetupReplyMsg, Msg, SetupReplies
<1>4. Tables'
  <2>1. NodeTable(AddRoute(tbl[n], msg.path, r))
    BY <1>1, <1>2, AddNodeTable DEF Inv, Tables
  <2> QED BY <2>1, StepTables DEF ForwardSetup, Inv
<1>5. chan' \in Chans
  BY <1>3, TellType, ReplyType DEF ForwardSetup, Inv
<1>6. Vsets' /\ NonEss' /\ Losts'
  BY DEF ForwardSetup, Inv, Vsets, NonEss, Losts
<1> QED BY <1>4, <1>5, <1>6

(* processSetupReply, all cases.                                            *)
LEMMA ProcessSetupReplyInv ==
  ASSUME Inv, NEW n \in Nodes, NEW m \in Nodes, ProcessSetupReply(n, m)
  PROVE  Inv'
<1> DEFINE msg == Head(chan[m][n])
<1>1. chan[m][n] # <<>> /\ msg \in SetupReplies
  BY ReceivedType
     DEF ProcessSetupReply, Inv, Msg, SetupReplies, Teardowns, RepairLocalReplies
<1>2. msg.path \in PathIds
  BY <1>1 DEF SetupReplies
<1>3. \/ \E me \in BOOLEAN : TeardownPath(n, m, msg.path, me)
      \/ msg.to = n /\ AcceptSetup(n, m, msg)
      \/ \E nh \in Nodes : ForwardSetup(n, m, msg, nh)
  BY DEF ProcessSetupReply, NextHops, Inv, World, Nodes
<1> HIDE DEF msg
<1>4. Tables' /\ Vsets' /\ Losts' /\ NonEss' /\ chan' \in Chans
  <2>1. CASE \E me \in BOOLEAN : TeardownPath(n, m, msg.path, me)
    BY <1>1, <1>2, <2>1, TeardownPathInv
  <2>2. CASE msg.to = n /\ AcceptSetup(n, m, msg)
    BY <1>1, <2>2, AcceptSetupInv
  <2>3. CASE \E nh \in Nodes : ForwardSetup(n, m, msg, nh)
    BY <1>1, <2>3, ForwardSetupInv
  <2> QED BY <1>3, <2>1, <2>2, <2>3
<1>5. World'
  BY DEF ProcessSetupReply, Inv, World
<1> QED BY <1>4, <1>5 DEF Inv

(* processTeardown.                                                         *)
LEMMA ProcessTeardownInv ==
  ASSUME Inv, NEW n \in Nodes, NEW m \in Nodes, ProcessTeardown(n, m)
  PROVE  Inv'
<1> DEFINE p == Head(chan[m][n]).path
           r == tbl[n].routes[p]
           x == Onward(r, m)
<1>1. chan[m][n] # <<>> /\ p \in PathIds
  BY ReceivedType DEF ProcessTeardown, Inv, Msg, SetupReplies, Teardowns, RepairLocalReplies
<1>2. TeardownMsg(p) \in Msg
  BY <1>1, TeardownMsgType
<1> HIDE DEF p
<1>3. World'
  <2>1. UNCHANGED <<linked, up, used, faults>>
    BY DEF ProcessTeardown, node
  <2> QED BY <2>1 DEF Inv, World
<1>4. CASE Reply(n, m, Silent) /\ UNCHANGED node
  <2>1. chan' \in Chans
    BY <1>1, <1>4, SilentType, ReplyType DEF Inv
  <2>2. Tables' /\ Vsets' /\ Losts' /\ NonEss'
    BY <1>4 DEF node, Inv, Tables, Vsets, Losts, NonEss
  <2> QED BY <1>3, <2>1, <2>2 DEF Inv
<1>5. CASE /\ tbl' = [tbl EXCEPT ![n] = RemoveRoute(tbl[n], p)]
           /\ \/ /\ vset' = [vset EXCEPT ![n] = VsetAfterTeardown(n, {p})]
                 /\ nonEss' = [nonEss EXCEPT ![n] = NonEssAfterTeardown(n, {p})]
                 /\ Reply(n, m, Silent)
                 /\ UNCHANGED lost
              \/ Reply(n, m, Tell(x, TeardownMsg(p))) /\ UNCHANGED <<vset, nonEss, lost>>
              \/ /\ lost' = [lost EXCEPT ![n] = ForgetBroken(lost[n], {<<p, x>>})]
                 /\ Reply(n, m, Silent)
                 /\ UNCHANGED <<vset, nonEss>>
  <2>1. Tables'
    <3>1. NodeTable(RemoveRoute(tbl[n], p))
      BY RemoveNodeTable DEF Inv, Tables, RemoveRoute
    <3> QED BY <1>5, <3>1, StepTables DEF Inv
  <2>2. chan' \in Chans
    BY <1>1, <1>2, <1>5, SilentType, TellType, ReplyType DEF Inv
  <2>3. Vsets'
    <3>1. VsetType(n, VsetAfterTeardown(n, {p}))
      BY TeardownVset DEF Inv, Vsets
    <3>2. CASE vset' = [vset EXCEPT ![n] = VsetAfterTeardown(n, {p})]
      BY <3>1, <3>2, StepVsets DEF Inv
    <3>3. CASE UNCHANGED vset
      BY <3>3 DEF Inv, Vsets
    <3> QED BY <1>5, <3>2, <3>3
  <2>4. NonEss'
    BY <1>5 DEF Inv, NonEss, NonEssAfterTeardown
  <2>5. Losts'
    <3>1. LostType(ForgetBroken(lost[n], {<<p, x>>}))
      BY ForgetBrokenType DEF Inv, Losts
    <3>2. CASE lost' = [lost EXCEPT ![n] = ForgetBroken(lost[n], {<<p, x>>})]
      BY <3>1, <3>2, StepLosts DEF Inv
    <3>3. CASE UNCHANGED lost
      BY <3>3 DEF Inv, Losts
    <3> QED BY <1>5, <3>2, <3>3
  <2> QED BY <1>3, <2>1, <2>2, <2>3, <2>4, <2>5 DEF Inv
<1> QED BY <1>4, <1>5 DEF ProcessTeardown, p

(* processNonEssRouteTeardownTimer.                                         *)
LEMMA NonEssTimerInv ==
  ASSUME Inv, NEW n \in Nodes, NonEssTimer(n)
  PROVE  Inv'
<1> DEFINE r(p)    == tbl[n].routes[p]
           ps      == {p \in nonEss[n] : InTable(tbl[n], p)}
           hop(p)  == IF r(p).from = n THEN r(p).next ELSE r(p).prev
           cut(p)  == IF r(p).from = n THEN NextBroken(r(p)) ELSE PrevBroken(r(p))
           gone    == {<<p, hop(p)>> : p \in {q \in ps : cut(q)}}
           tell    == [p \in {q \in ps : ~cut(q)} |-> hop(p)]
<1>1. /\ tbl' = [tbl EXCEPT ![n] = RemoveRoutes(tbl[n], ps)]
      /\ lost' = [lost EXCEPT ![n] = ForgetBroken(lost[n], gone)]
      /\ Send(n, TeardownEach(tell))
      /\ nonEss' = [nonEss EXCEPT ![n] = {}]
      /\ UNCHANGED <<vset, linked, up, used, faults>>
  BY DEF NonEssTimer
<1>2. DOMAIN tell \subseteq PathIds
  BY DEF Inv, NonEss
<1> HIDE DEF ps, gone, tell
<1>3. Tables'
  <2>1. NodeTable(RemoveRoutes(tbl[n], ps))
    BY RemoveNodeTable DEF Inv, Tables
  <2> QED BY <1>1, <2>1, StepTables DEF Inv
<1>4. Losts'
  <2>1. LostType(ForgetBroken(lost[n], gone))
    BY ForgetBrokenType DEF Inv, Losts
  <2> QED BY <1>1, <2>1, StepLosts DEF Inv
<1>5. chan' \in Chans
  BY <1>1, <1>2, TeardownEachType, AfterType DEF Send, Inv
<1>6. Vsets' /\ NonEss' /\ World'
  BY <1>1 DEF Inv, Vsets, NonEss, World
<1> QED BY <1>3, <1>4, <1>5, <1>6 DEF Inv

(* processBeacon from a pnei that is back, with handleLinkedPnei.           *)
LEMMA LinkPneiInv ==
  ASSUME Inv, NEW n \in Nodes, NEW x \in Nodes, LinkPnei(n, x)
  PROVE  Inv'
<1> DEFINE t == IF x \in DOMAIN lost[n] THEN TableAfterLinked(tbl[n], x, lost[n][x].broken)
                                        ELSE tbl[n]
           l == Restrict(lost[n], DOMAIN lost[n] \ {x})
<1>1. /\ tbl' = [tbl EXCEPT ![n] = t]
      /\ lost' = [lost EXCEPT ![n] = l]
      /\ linked' = [linked EXCEPT ![n] = @ \cup {x}]
      /\ UNCHANGED <<vset, nonEss, up, chan, used, faults>>
  BY DEF LinkPnei
<1>2. NodeTable(t)
  <2>1. NodeTable(tbl[n])
    BY DEF Inv, Tables
  <2>2. x \in DOMAIN lost[n] => lost[n][x].broken \in SUBSET PathIds
    BY DEF Inv, Losts, LostType, LostEntry
  <2> QED BY <2>1, <2>2, LinkedNodeTable
<1>3. LostType(l)
  BY RestrictLost DEF Inv, Losts
<1> HIDE DEF t, l
<1>4. Tables' /\ Losts'
  BY <1>1, <1>2, <1>3, StepTables, StepLosts DEF Inv
<1>5. Vsets' /\ NonEss' /\ World' /\ chan' \in Chans
  BY <1>1 DEF Inv, Vsets, NonEss, World
<1> QED BY <1>4, <1>5 DEF Inv

(* handleLostPneis.                                                         *)
LEMMA LosePneiInv ==
  ASSUME Inv, NEW n \in Nodes, NEW x \in Nodes, LosePnei(n, x)
  PROVE  Inv'
<1> DEFINE over == RoutesOver(tbl[n], x)
           l    == IF over = {} THEN lost[n] ELSE LostWith(lost[n], x, BrokenBy(lost[n], x, over))
<1>1. /\ tbl' = [tbl EXCEPT ![n] = TableAfterLost(tbl[n], x)]
      /\ lost' = [lost EXCEPT ![n] = l]
      /\ linked' = [linked EXCEPT ![n] = @ \ {x}]
      /\ UNCHANGED <<vset, nonEss, up, chan, used>>
      /\ (UNCHANGED faults) \/ (faults < MaxFaults /\ faults' = faults + 1)
  BY DEF LosePnei
<1>2. faults' \in 0 .. MaxFaults
  <2>1. faults \in 0 .. MaxFaults /\ MaxFaults \in Nat
    BY VrouteAssumption DEF Inv, World
  <2> QED BY <1>1, <2>1
<1>3. LostType(l)
  <2>1. over \subseteq PathIds /\ LostType(lost[n])
    BY DEF RoutesOver, Inv, Losts
  <2> HIDE DEF over
  <2>2. BrokenBy(lost[n], x, over) \in LostEntry
    BY <2>1, BrokenByType
  <2> QED BY <2>1, <2>2, LostWithType
<1> HIDE DEF l
<1>4. Tables'
  <2>1. NodeTable(TableAfterLost(tbl[n], x))
    BY LostNodeTable DEF Inv, Tables
  <2> QED BY <1>1, <2>1, StepTables DEF Inv
<1>5. Losts'
  BY <1>1, <1>3, StepLosts DEF Inv
<1>6. Vsets' /\ NonEss' /\ World' /\ chan' \in Chans
  BY <1>1, <1>2 DEF Inv, Vsets, NonEss, World
<1> QED BY <1>4, <1>5, <1>6 DEF Inv

(* A trace is made of pneis and of nodes the route came by.                 *)
LEMMA TracesType ==
  ASSUME World, NEW n \in Nodes, NEW r \in Route
  PROVE  Traces(n, r) \subseteq Seq(Nodes)
<1>1. r.from \in Nodes /\ r.prevhops \in Seq(Nodes)
  BY DEF Route, Nodes
<1>2. Len(r.prevhops) >= 2 => r.prevhops[2] \in Nodes
  BY <1>1, ElementOfSeq, LenProperties
<1>3. <<>> \in Seq(Nodes) /\ \A a, b \in Nodes : <<a>> \in Seq(Nodes) /\ <<a, b>> \in Seq(Nodes)
  OBVIOUS
<1>4. linked[n] \subseteq Nodes
  BY DEF World
<1>5. SUFFICES ASSUME NEW t \in Traces(n, r)
               PROVE  t \in Seq(Nodes)
  OBVIOUS
<1>6. \/ t = <<>>
      \/ \E a \in {r.from, r.prevhops[2]} \cap linked[n] : t = <<a>>
      \/ Len(r.prevhops) >= 2 /\ \E h \in linked[n] : t = <<r.prevhops[2], h>>
  <2>1. Len(r.prevhops) \in Nat
    BY <1>1, LenProperties
  <2> QED BY <1>5, <2>1 DEF Traces
<1>7. CASE \E a \in {r.from, r.prevhops[2]} \cap linked[n] : t = <<a>>
  BY <1>3, <1>4, <1>7
<1>8. CASE Len(r.prevhops) >= 2 /\ \E h \in linked[n] : t = <<r.prevhops[2], h>>
  BY <1>2, <1>3, <1>4, <1>8
<1> QED BY <1>3, <1>6, <1>7, <1>8

(* processWaitRepairLinkTimer with retries left.                            *)
LEMMA RepairTimerInv ==
  ASSUME Inv, NEW n \in Nodes, NEW x \in Nodes, RepairTimer(n, x)
  PROVE  Inv'
<1> DEFINE r(p) == tbl[n].routes[p]
           ps == {p \in lost[n][x].broken : InTable(tbl[n], p) /\ r(p).prev = x}
           fixed(choice) == {p \in ps : choice[p] # <<>>}
           trace(choice) == Restrict(choice, fixed(choice))
           to(choice) == [p \in fixed(choice) |-> Last(trace(choice)[p])]
           msgs(choice) == [p \in fixed(choice) |-> RepairMsg(p, r(p).from, r(p).to, trace(choice)[p])]
           done(choice) == {p \in fixed(choice) : r(p).next # x}
<1>1. PICK choice \in [ps -> UNION {Traces(n, r(p)) : p \in ps}] :
        /\ \A p \in ps : choice[p] \in Traces(n, r(p))
        /\ tbl' = [tbl EXCEPT ![n] = TableAfterRepair(tbl[n], trace(choice))]
        /\ lost' = [lost EXCEPT ![n] =
                      LostWith(lost[n], x, AfterRepair(lost[n][x], done(choice)))]
        /\ Send(n, TellEach(to(choice), msgs(choice)))
  BY DEF RepairTimer
<1>2. /\ x \in DOMAIN lost[n] /\ lost[n][x].retry < RetryLimit
      /\ UNCHANGED <<vset, nonEss, linked, up, used, faults>>
  BY DEF RepairTimer
<1>3. LostType(lost[n]) /\ lost[n][x] \in LostEntry
  BY <1>2 DEF Inv, Losts, LostType
<1>4. \A p \in ps : p \in PathIds /\ InTable(tbl[n], p) /\ r(p) \in Route /\ r(p).from # r(p).to
  BY <1>3, NodeTableFacts DEF Inv, Tables, LostEntry
<1>5. \A p \in fixed(choice) : /\ trace(choice)[p] \in Seq(Nodes) \ {<<>>}
                               /\ p \in PathIds /\ InTable(tbl[n], p) /\ r(p) \in Route
                               /\ r(p).from # r(p).to
  BY <1>1, <1>4, TracesType DEF Inv, Restrict
<1>6. DOMAIN trace(choice) = fixed(choice)
  BY <1>1 DEF Restrict
<1> DEFINE t == trace(choice)
           hit == fixed(choice)
<1> HIDE DEF ps
<1>7. \A p \in hit : Last(t[p]) \in Hops /\ Reverse(t[p]) \in Seq(Vids)
  <2> SUFFICES ASSUME NEW p \in hit
               PROVE  Last(t[p]) \in Hops /\ Reverse(t[p]) \in Seq(Vids)
    OBVIOUS
  <2>1. t[p] \in Seq(Vids) /\ t[p] # <<>>
    BY <1>5 DEF Nodes
  <2> HIDE DEF t
  <2>2. Len(t[p]) \in 1 .. Len(t[p])
    BY <2>1, LenProperties, EmptySeq
  <2>3. Last(t[p]) \in Vids
    BY <2>1, <2>2, ElementOfSeq DEF Last
  <2> QED BY <2>1, <2>3, ReverseType DEF Hops
<1>8. Tables'
  <2>1. NodeTable(tbl[n])
    BY DEF Inv, Tables
  <2>2. \A p \in DOMAIN t : p \in PathIds /\ InTable(tbl[n], p) /\ Last(t[p]) \in Hops
                            /\ Reverse(t[p]) \in Seq(Vids)
    BY <1>5, <1>6, <1>7
  <2> HIDE DEF t
  <2>3. NodeTable(TableAfterRepair(tbl[n], t))
    BY <2>1, <2>2, RepairNodeTable
  <2> QED BY <1>1, <2>3, StepTables DEF Inv, t
<1>9. Losts'
  <2> DEFINE d == done(choice)
  <2> HIDE DEF d
  <2>1. AfterRepair(lost[n][x], d) \in LostEntry
    BY <1>2, <1>3, VrouteAssumption DEF AfterRepair, LostEntry
  <2>2. LostType(LostWith(lost[n], x, AfterRepair(lost[n][x], d)))
    BY <1>3, <2>1, LostWithType
  <2> QED BY <1>1, <2>2, StepLosts DEF Inv, d
<1>10. chan' \in Chans
  <2>1. \A p \in hit : RepairMsg(p, r(p).from, r(p).to, t[p]) \in Msg
    <3> SUFFICES ASSUME NEW p \in hit
                 PROVE  RepairMsg(p, r(p).from, r(p).to, t[p]) \in Msg
      OBVIOUS
    <3>1. r(p).from \in Nodes /\ r(p).to \in Nodes /\ p \in PathIds /\ r(p).from # r(p).to
          /\ t[p] \in Seq(Nodes) \ {<<>>}
      BY <1>5 DEF Route, Nodes
    <3> HIDE DEF t
    <3> QED BY <3>1 DEF RepairMsg, Msg, RepairLocalReplies
  <2> DEFINE h == to(choice)
             ms == msgs(choice)
  <2>2. DOMAIN h = hit /\ hit \subseteq PathIds /\ \A p \in DOMAIN h : ms[p] \in Msg
    BY <1>5, <2>1
  <2> HIDE DEF h, ms, hit
  <2>3. TellEach(h, ms) \in Outs
    BY <2>2, TellEachType
  <2> QED BY <1>1, <2>3, AfterType DEF Send, Inv, h, ms
<1>11. Vsets' /\ NonEss' /\ World'
  BY <1>2 DEF Inv, Vsets, NonEss, World
<1> QED BY <1>8, <1>9, <1>10, <1>11 DEF Inv

(* processWaitRepairLinkTimer without.                                      *)
LEMMA GiveUpTimerInv ==
  ASSUME Inv, NEW n \in Nodes, NEW x \in Nodes, GiveUpTimer(n, x)
  PROVE  Inv'
<1> DEFINE r(p)   == tbl[n].routes[p]
           ps     == IF x \in linked[n] THEN {}
                     ELSE {p \in lost[n][x].broken : InTable(tbl[n], p) /\ r(p).unavail # 0}
           hop(p) == Onward(r(p), x)
           cut(p) == OnwardBroken(r(p), x)
           ends   == {p \in ps : hop(p) = NullVid}
           gone   == {<<p, hop(p)>> : p \in {q \in ps \ ends : cut(q) /\ hop(q) # x}}
           tell   == [p \in {q \in ps \ ends : ~cut(q)} |-> hop(p)]
           l      == ForgetBroken(lost[n], gone)
<1>1. /\ tbl' = [tbl EXCEPT ![n] = RemoveRoutes(tbl[n], ps)]
      /\ vset' = [vset EXCEPT ![n] = VsetAfterTeardown(n, ends)]
      /\ nonEss' = [nonEss EXCEPT ![n] = NonEssAfterTeardown(n, ends)]
      /\ lost' = [lost EXCEPT ![n] = Restrict(l, DOMAIN l \ {x})]
      /\ Send(n, TeardownEach(tell))
      /\ UNCHANGED <<linked, up, used, faults>>
      /\ x \in DOMAIN lost[n]
  BY DEF GiveUpTimer
<1>2. ps \subseteq PathIds
  BY <1>1 DEF Inv, Losts, LostType, LostEntry
<1>3. DOMAIN tell \subseteq PathIds
  BY <1>2
<1> HIDE DEF ps, ends, gone, tell
<1>4. Tables'
  <2>1. NodeTable(RemoveRoutes(tbl[n], ps))
    BY RemoveNodeTable DEF Inv, Tables
  <2> QED BY <1>1, <2>1, StepTables DEF Inv
<1>5. Losts'
  <2>1. LostType(l)
    BY ForgetBrokenType DEF Inv, Losts
  <2> HIDE DEF l
  <2>2. LostType(Restrict(l, DOMAIN l \ {x}))
    BY <2>1, RestrictLost
  <2> QED BY <1>1, <2>2, StepLosts DEF Inv
<1>6. Vsets'
  <2>1. VsetType(n, VsetAfterTeardown(n, ends))
    BY TeardownVset DEF Inv, Vsets
  <2> QED BY <1>1, <2>1, StepVsets DEF Inv
<1>7. NonEss'
  BY <1>1 DEF Inv, NonEss, NonEssAfterTeardown
<1>8. chan' \in Chans
  BY <1>1, <1>3, TeardownEachType, AfterType DEF Send, Inv
<1>9. World'
  BY <1>1 DEF Inv, World
<1> QED BY <1>4, <1>5, <1>6, <1>7, <1>8, <1>9 DEF Inv

(* processRepairLocalReply at the node that has to patch its next hop.      *)
LEMMA PatchNextHopInv ==
  ASSUME Inv, NEW n \in Nodes, NEW m \in Nodes, chan[m][n] # <<>>,
         NEW msg \in RepairLocalReplies, InTable(tbl[n], msg.path), PatchNextHop(n, m, msg)
  PROVE  Tables' /\ Vsets' /\ Losts' /\ NonEss' /\ chan' \in Chans
<1> DEFINE p == msg.path
           r == tbl[n].routes[p]
           l == IF NextBroken(r) /\ r.next \in DOMAIN lost[n]
                THEN LostWith(lost[n], r.next, [broken |-> lost[n][r.next].broken \ {p},
                                                retry |-> lost[n][r.next].retry])
                ELSE lost[n]
<1>1. /\ tbl' = [tbl EXCEPT ![n] = TableAfterPatch(tbl[n], p, m)]
      /\ lost' = [lost EXCEPT ![n] = l]
      /\ Reply(n, m, Silent)
      /\ UNCHANGED <<vset, nonEss>>
  BY DEF PatchNextHop
<1>2. p \in PathIds
  BY DEF RepairLocalReplies
<1>3. Tables'
  <2>1. NodeTable(TableAfterPatch(tbl[n], p, m))
    BY <1>2, PatchNodeTable DEF Inv, Tables
  <2> QED BY <1>1, <2>1, StepTables DEF Inv
<1>4. LostType(l)
  <2>1. LostType(lost[n])
    BY DEF Inv, Losts
  <2>2. ASSUME r.next \in DOMAIN lost[n]
        PROVE  /\ r.next \in Nodes
               /\ [broken |-> lost[n][r.next].broken \ {p},
                   retry |-> lost[n][r.next].retry] \in LostEntry
    <3>1. r.next \in Nodes /\ lost[n][r.next] \in LostEntry
      BY <2>1, <2>2 DEF LostType
    <3> QED BY <3>1 DEF LostEntry
  <2> HIDE DEF r
  <2> QED BY <2>1, <2>2, LostWithType
<1> HIDE DEF l
<1>5. Losts'
  BY <1>1, <1>4, StepLosts DEF Inv
<1>6. chan' \in Chans
  BY <1>1, SilentType, ReplyType DEF Inv
<1>7. Vsets' /\ NonEss'
  BY <1>1 DEF Inv, Vsets, NonEss
<1> QED BY <1>3, <1>5, <1>6, <1>7

(* processRepairLocalReply at the node between the two ends of the repair.  *)
LEMMA JoinRepairInv ==
  ASSUME Inv, NEW n \in Nodes, NEW m \in Nodes, chan[m][n] # <<>>,
         NEW msg \in RepairLocalReplies, JoinRepair(n, m, msg)
  PROVE  Tables' /\ Vsets' /\ Losts' /\ NonEss' /\ chan' \in Chans
<1>1. /\ msg.path \in PathIds /\ msg.from \in Nodes /\ msg.to \in Nodes /\ msg.from # msg.to
      /\ msg.trace \in Seq(Nodes) /\ msg.trace # <<>>
  BY DEF RepairLocalReplies
<1>2. CASE TeardownPath(n, m, msg.path, FALSE)
  BY <1>1, <1>2, TeardownPathInv
<1>3. CASE \E i \in LinkedBeforeMe(n, msg.trace) :
             LET nh == msg.trace[i]
                 first == <<msg.trace[1]>>
             IN  /\ tbl' = [tbl EXCEPT ![n] =
                      AddRoute(tbl[n], msg.path, NewRoute(msg.from, msg.to, nh, m, FALSE, 0, first))]
                 /\ Reply(n, m, Tell(nh, RepairMsg(msg.path, msg.from, msg.to, first)))
                 /\ UNCHANGED <<vset, nonEss, lost>>
  <2>1. PICK i \in DOMAIN msg.trace :
             LET nh == msg.trace[i]
                 first == <<msg.trace[1]>>
             IN  /\ tbl' = [tbl EXCEPT ![n] =
                      AddRoute(tbl[n], msg.path, NewRoute(msg.from, msg.to, nh, m, FALSE, 0, first))]
                 /\ Reply(n, m, Tell(nh, RepairMsg(msg.path, msg.from, msg.to, first)))
                 /\ UNCHANGED <<vset, nonEss, lost>>
    BY <1>3 DEF LinkedBeforeMe
  <2> DEFINE nh == msg.trace[i]
             first == <<msg.trace[1]>>
             r == NewRoute(msg.from, msg.to, nh, m, FALSE, 0, first)
  <2>2. nh \in Nodes /\ msg.trace[1] \in Nodes
    BY <1>1, ElementOfSeq, LenProperties, EmptySeq
  <2>3. first \in Seq(Nodes) \ {<<>>}
    BY <2>2
  <2> HIDE DEF nh, first
  <2>4. r \in Route /\ r.unavail = 0
    BY <1>1, <2>2, <2>3 DEF NewRoute, Route, Hops, Status, Nodes
  <2>5. RepairMsg(msg.path, msg.from, msg.to, first) \in Msg
    BY <1>1, <2>3 DEF RepairMsg, Msg, RepairLocalReplies
  <2>6. Tables'
    <3>1. NodeTable(AddRoute(tbl[n], msg.path, r))
      BY <1>1, <2>4, AddNodeTable DEF Inv, Tables
    <3> QED BY <2>1, <3>1, StepTables DEF Inv, nh, first
  <2>7. chan' \in Chans
    BY <2>1, <2>5, TellType, ReplyType DEF Inv, nh, first
  <2>8. Vsets' /\ NonEss' /\ Losts'
    BY <2>1 DEF Inv, Vsets, NonEss, Losts
  <2> QED BY <2>6, <2>7, <2>8
<1> QED BY <1>2, <1>3 DEF JoinRepair

(* processRepairLocalReply, all cases.                                      *)
LEMMA ProcessRepairLocalReplyInv ==
  ASSUME Inv, NEW n \in Nodes, NEW m \in Nodes, ProcessRepairLocalReply(n, m)
  PROVE  Inv'
<1> DEFINE msg == Head(chan[m][n])
<1>1. chan[m][n] # <<>> /\ msg \in RepairLocalReplies
  BY ReceivedType
     DEF ProcessRepairLocalReply, Inv, Msg, SetupReplies, Teardowns, RepairLocalReplies
<1>2. msg.path \in PathIds
  BY <1>1 DEF RepairLocalReplies
<1>3. \/ \E me \in BOOLEAN : TeardownPath(n, m, msg.path, me)
      \/ InTable(tbl[n], msg.path) /\ PatchNextHop(n, m, msg)
      \/ JoinRepair(n, m, msg)
  BY DEF ProcessRepairLocalReply
<1> HIDE DEF msg
<1>4. Tables' /\ Vsets' /\ Losts' /\ NonEss' /\ chan' \in Chans
  <2>1. CASE \E me \in BOOLEAN : TeardownPath(n, m, msg.path, me)
    BY <1>1, <1>2, <2>1, TeardownPathInv
  <2>2. CASE InTable(tbl[n], msg.path) /\ PatchNextHop(n, m, msg)
    BY <1>1, <2>2, PatchNextHopInv
  <2>3. CASE JoinRepair(n, m, msg)
    BY <1>1, <2>3, JoinRepairInv
  <2> QED BY <1>3, <2>1, <2>2, <2>3
<1>5. World'
  BY DEF ProcessRepairLocalReply, Inv, World
<1> QED BY <1>4, <1>5 DEF Inv

(* A link fails and loses what is in it.                                    *)
LEMMA LinkDownInv ==
  ASSUME Inv, NEW l, LinkDown(l)
  PROVE  Inv'
<1>1. /\ faults < MaxFaults /\ up' = up \ {l} /\ faults' = faults + 1
      /\ chan' = [n \in Nodes |-> [m \in Nodes |-> IF {n, m} = l THEN <<>> ELSE chan[n][m]]]
      /\ UNCHANGED <<tbl, vset, nonEss, lost, linked, used>>
  BY DEF LinkDown, node
<1>2. faults' \in 0 .. MaxFaults
  BY <1>1, VrouteAssumption DEF Inv, World
<1>3. chan' \in Chans
  BY <1>1 DEF Inv, Chans
<1>4. World'
  BY <1>1, <1>2 DEF Inv, World
<1> QED BY <1>1, <1>3, <1>4 DEF Inv, Tables, Vsets, Losts, NonEss

(* A link works again.                                                      *)
LEMMA LinkUpInv ==
  ASSUME Inv, NEW l, LinkUp(l)
  PROVE  Inv'
<1>1. /\ l \in Links /\ up' = up \cup {l}
      /\ UNCHANGED <<tbl, vset, nonEss, lost, linked, chan, used, faults>>
  BY DEF LinkUp, node
<1>2. World'
  BY <1>1 DEF Inv, World
<1> QED BY <1>1, <1>2 DEF Inv, Tables, Vsets, Losts, NonEss

-----------------------------------------------------------------------------
(* Every step keeps the invariant.                                          *)
LEMMA NextInv == Inv /\ [Next]_vars => Inv'
<1> SUFFICES ASSUME Inv, [Next]_vars PROVE Inv'
  OBVIOUS
<1>1. CASE UNCHANGED vars
  BY <1>1 DEF vars, Inv, Tables, Vsets, Losts, NonEss, World
<1>2. CASE Next
  BY <1>2, AnswerSetupInv, ProcessSetupReplyInv, ProcessTeardownInv, ProcessRepairLocalReplyInv,
     NonEssTimerInv, RepairTimerInv, GiveUpTimerInv, LinkPneiInv, LosePneiInv, LinkDownInv,
     LinkUpInv DEF Next
<1> QED BY <1>1, <1>2

(* So it holds in every state of every behaviour.                           *)
LEMMA AlwaysInv == Spec => []Inv
BY InitInv, NextInv, PTL DEF Spec

(* Whatever the network, the faults and the interleaving, the state of the  *)
(* nodes and of the channels keeps its type.                                *)
THEOREM TypeCorrect == Spec => []TypeOK
BY AlwaysInv, InvGives, PTL

(* ... and the endpointToRoutesMap of every node lists exactly the ends of  *)
(* its vroutes that may be used, so findNextHop never follows a path id     *)
(* that is not in vlrRoutesMap and never overlooks a vroute.                *)
THEOREM EndpointMapCorrect == Spec => []EndpointMapMatchesRoutes
BY AlwaysInv, InvGives, PTL

-----------------------------------------------------------------------------
(* Every vset route serves a vnei: whatever makes a node drop a vnei also  *)
(* takes the routes to it down or demotes them.                            *)

(* VsetRoutesServeVnei for one node, with table t and vset v.              *)
Serves(n, t, v) ==
  \A p \in PathIds : InTable(t, p) /\ t.routes[p].isVset =>
    /\ OtherEnd(n, t.routes[p]) \in DOMAIN v
    /\ p \in v[OtherEnd(n, t.routes[p])]

(* t1 has no vset route t has not, and none between other ends.            *)
NoNewVsetRoute(t, t1) ==
  \A p \in PathIds : InTable(t1, p) /\ t1.routes[p].isVset =>
    /\ InTable(t, p) /\ t.routes[p].isVset
    /\ t1.routes[p].from = t.routes[p].from
    /\ t1.routes[p].to = t.routes[p].to

(* So a vset that serves t serves t1.                                       *)
LEMMA ServesFewer ==
  ASSUME NEW n, NEW t, NEW t1, NEW v, Serves(n, t, v), NoNewVsetRoute(t, t1)
  PROVE  Serves(n, t1, v)
BY DEF Serves, NoNewVsetRoute, OtherEnd

(* Changing the state of a hop changes neither the kind nor the ends.      *)
LEMMA SetHopKeeps ==
  ASSUME NEW r \in Route, NEW setPrev \in BOOLEAN, NEW value \in {0, 1}, r.unavail \in VrrStatus
  PROVE  /\ SetHop(r, setPrev, value) \in Route
         /\ SetHop(r, setPrev, value).isVset = r.isVset
         /\ SetHop(r, setPrev, value).from = r.from
         /\ SetHop(r, setPrev, value).to = r.to
         /\ SetHop(r, setPrev, value).unavail \in VrrStatus
<1>1. SetHop(r, setPrev, value).isVset = r.isVset
  BY DEF SetHop, Route
<1>2. CASE setPrev = TRUE
  BY <1>1, <1>2, VrrSetPrev DEF Same
<1>3. CASE setPrev = FALSE
  BY <1>1, <1>3, VrrSetNext DEF Same
<1> QED BY <1>2, <1>3

(* The tables the handlers of lost and found pneis leave behind.           *)
LEMMA LostNoNew ==
  ASSUME NEW t, NodeTable(t), NEW x
  PROVE  NoNewVsetRoute(t, TableAfterLost(t, x))
<1> SUFFICES ASSUME NEW p \in PathIds, NEW t1, t1 = TableAfterLost(t, x), InTable(t1, p)
             PROVE  /\ InTable(t, p) /\ t1.routes[p].isVset = t.routes[p].isVset
                    /\ t1.routes[p].from = t.routes[p].from
                    /\ t1.routes[p].to = t.routes[p].to
  BY DEF NoNewVsetRoute
<1> DEFINE r == t.routes[p]
           r1 == IF r.prev = x THEN SetHop(r, TRUE, 1) ELSE r
<1>1. t1.routes[p] = IF p \in RoutesOver(t, x) THEN BreakHop(r, x) ELSE r
  BY DEF TableAfterLost
<1>2. CASE p \notin RoutesOver(t, x)
  BY <1>1, <1>2 DEF InTable
<1>3. CASE p \in RoutesOver(t, x)
  <2>1. InTable(t, p) /\ r \in Route /\ r.unavail \in VrrStatus
    BY <1>3, NodeTableFacts DEF RoutesOver
  <2>2. /\ r1 \in Route /\ r1.unavail \in VrrStatus
        /\ r1.isVset = r.isVset /\ r1.from = r.from /\ r1.to = r.to
    BY <2>1, SetHopKeeps
  <2>3. BreakHop(r, x) = IF r.next = x THEN SetHop(r1, FALSE, 1) ELSE r1
    BY DEF BreakHop
  <2> HIDE DEF r1, r
  <2>4. /\ BreakHop(r, x).isVset = r.isVset
        /\ BreakHop(r, x).from = r.from /\ BreakHop(r, x).to = r.to
    BY <2>2, <2>3, SetHopKeeps
  <2> QED BY <1>1, <1>3, <2>1, <2>4 DEF r
<1> QED BY <1>2, <1>3

(* handleLinkedPnei.                                                        *)
LEMMA LinkedNoNew ==
  ASSUME NEW t, NodeTable(t), NEW x, NEW broken
  PROVE  NoNewVsetRoute(t, TableAfterLinked(t, x, broken))
<1> SUFFICES ASSUME NEW p \in PathIds, NEW t1, t1 = TableAfterLinked(t, x, broken),
                    InTable(t1, p)
             PROVE  /\ InTable(t, p) /\ t1.routes[p].isVset = t.routes[p].isVset
                    /\ t1.routes[p].from = t.routes[p].from
                    /\ t1.routes[p].to = t.routes[p].to
  BY DEF NoNewVsetRoute
<1> DEFINE r == t.routes[p]
<1>1. t1.routes[p] = IF p \in broken /\ InTable(t, p) THEN RestoreHop(r, x) ELSE r
  BY DEF TableAfterLinked
<1>2. CASE ~(p \in broken /\ InTable(t, p))
  BY <1>1, <1>2 DEF InTable
<1>3. CASE p \in broken /\ InTable(t, p)
  <2>1. r \in Route /\ r.unavail \in VrrStatus
    BY <1>3, NodeTableFacts
  <2>2. /\ RestoreHop(r, x).isVset = r.isVset
        /\ RestoreHop(r, x).from = r.from /\ RestoreHop(r, x).to = r.to
    <3> DEFINE value == 0
    <3>1. value \in {0, 1} /\ (r.prev = x) \in BOOLEAN
      OBVIOUS
    <3> HIDE DEF value, r
    <3>2. /\ SetHop(r, r.prev = x, value).isVset = r.isVset
          /\ SetHop(r, r.prev = x, value).from = r.from
          /\ SetHop(r, r.prev = x, value).to = r.to
      BY <2>1, <3>1, SetHopKeeps
    <3> QED BY <3>2 DEF RestoreHop, value
  <2> QED BY <1>1, <1>3, <2>2
<1> QED BY <1>2, <1>3

(* Local repair.                                                            *)
LEMMA RepairNoNew ==
  ASSUME NEW t, NodeTable(t), NEW trace, \A p \in DOMAIN trace : InTable(t, p)
  PROVE  NoNewVsetRoute(t, TableAfterRepair(t, trace))
<1> SUFFICES ASSUME NEW p \in PathIds, NEW t1, t1 = TableAfterRepair(t, trace), InTable(t1, p)
             PROVE  /\ InTable(t, p) /\ t1.routes[p].isVset = t.routes[p].isVset
                    /\ t1.routes[p].from = t.routes[p].from
                    /\ t1.routes[p].to = t.routes[p].to
  BY DEF NoNewVsetRoute
<1> DEFINE r == t.routes[p]
           r1 == SetHop(r, TRUE, 0)
<1>1. t1.routes[p] = IF p \in DOMAIN trace
                     THEN [r1 EXCEPT !.prev = Last(trace[p]), !.prevhops = Reverse(trace[p])]
                     ELSE r
  BY DEF TableAfterRepair
<1>2. CASE p \notin DOMAIN trace
  BY <1>1, <1>2 DEF InTable
<1>3. CASE p \in DOMAIN trace
  <2>1. InTable(t, p) /\ r \in Route /\ r.unavail \in VrrStatus
    BY <1>3, NodeTableFacts
  <2>2. r1 \in Route /\ r1.isVset = r.isVset /\ r1.from = r.from /\ r1.to = r.to
    <3> DEFINE value == 0
               setPrev == TRUE
    <3>1. value \in {0, 1} /\ setPrev \in BOOLEAN
      OBVIOUS
    <3> HIDE DEF value, setPrev, r
    <3>2. /\ SetHop(r, setPrev, value) \in Route
          /\ SetHop(r, setPrev, value).isVset = r.isVset
          /\ SetHop(r, setPrev, value).from = r.from
          /\ SetHop(r, setPrev, value).to = r.to
      BY <2>1, <3>1, SetHopKeeps
    <3> QED BY <3>2 DEF value, setPrev
  <2> HIDE DEF r1
  <2> QED BY <1>1, <1>3, <2>1, <2>2 DEF Route
<1> QED BY <1>2, <1>3

(* A patched next hop.                                                      *)
LEMMA PatchNoNew ==
  ASSUME NEW t, NodeTable(t), NEW q \in PathIds, InTable(t, q), NEW m
  PROVE  NoNewVsetRoute(t, TableAfterPatch(t, q, m))
<1> SUFFICES ASSUME NEW p \in PathIds, NEW t1, t1 = TableAfterPatch(t, q, m), InTable(t1, p)
             PROVE  /\ InTable(t, p) /\ t1.routes[p].isVset = t.routes[p].isVset
                    /\ t1.routes[p].from = t.routes[p].from
                    /\ t1.routes[p].to = t.routes[p].to
  BY DEF NoNewVsetRoute
<1> DEFINE r == t.routes[q]
           r1 == IF NextBroken(r) THEN SetHop(r, FALSE, 0) ELSE r
<1>1. t1.routes = [t.routes EXCEPT ![q] = [r1 EXCEPT !.next = m]]
  BY DEF TableAfterPatch
<1>2. t.routes \in [PathIds -> Route \cup {NoRoute}] /\ r \in Route /\ r.unavail \in VrrStatus
  BY NodeTableFacts
<1>3. r1 \in Route /\ r1.isVset = r.isVset /\ r1.from = r.from /\ r1.to = r.to
  <2> DEFINE value == 0
             setPrev == FALSE
  <2>1. value \in {0, 1} /\ setPrev \in BOOLEAN
    OBVIOUS
  <2> HIDE DEF value, setPrev, r
  <2>2. /\ SetHop(r, setPrev, value) \in Route
        /\ SetHop(r, setPrev, value).isVset = r.isVset
        /\ SetHop(r, setPrev, value).from = r.from
        /\ SetHop(r, setPrev, value).to = r.to
    BY <1>2, <2>1, SetHopKeeps
  <2> QED BY <1>2, <2>2 DEF value, setPrev
<1> HIDE DEF r1
<1>4. CASE p = q
  <2>1. t1.routes[p] = [r1 EXCEPT !.next = m]
    BY <1>1, <1>2, <1>4
  <2> QED BY <1>3, <1>4, <2>1 DEF Route
<1>5. CASE p # q
  BY <1>1, <1>2, <1>5 DEF InTable
<1> QED BY <1>4, <1>5

-----------------------------------------------------------------------------
(* Teardown and admission change table and vset together.                  *)
LEMMA ServesTeardown ==
  ASSUME NEW n \in Nodes, Serves(n, tbl[n], vset[n]), NEW ps, NEW ends, ends \subseteq ps
  PROVE  Serves(n, RemoveRoutes(tbl[n], ps), VsetAfterTeardown(n, ends))
<1> DEFINE t1 == RemoveRoutes(tbl[n], ps)
           gone(v) == {p \in ends : tbl[n].routes[p].isVset /\ OtherEnd(n, tbl[n].routes[p]) = v}
           kept == {v \in DOMAIN vset[n] : gone(v) # {} => ~ (vset[n][v] \subseteq gone(v))}
<1>1. VsetAfterTeardown(n, ends) = [v \in kept |-> vset[n][v] \ gone(v)]
  BY DEF VsetAfterTeardown
<1> SUFFICES ASSUME NEW p \in PathIds, InTable(t1, p), t1.routes[p].isVset
             PROVE  /\ OtherEnd(n, t1.routes[p]) \in kept
                    /\ p \in vset[n][OtherEnd(n, t1.routes[p])] \ gone(OtherEnd(n, t1.routes[p]))
  BY <1>1 DEF Serves
<1>2. p \notin ps /\ t1.routes[p] = tbl[n].routes[p] /\ InTable(tbl[n], p)
  BY DEF RemoveRoutes, InTable
<1>3. \A v : p \notin gone(v)
  BY <1>2
<1>4. /\ OtherEnd(n, tbl[n].routes[p]) \in DOMAIN vset[n]
      /\ p \in vset[n][OtherEnd(n, tbl[n].routes[p])]
  BY <1>2 DEF Serves
<1> HIDE DEF gone, t1
<1> QED BY <1>2, <1>3, <1>4

(* Admission: the routes of the vnei pushed out are demoted.                *)
LEMMA ServesAdmit ==
  ASSUME Inv, NEW n \in Nodes, Serves(n, tbl[n], vset[n]), NEW src \in Nodes, src # n,
         src \notin DOMAIN vset[n], NEW p \in PathIds,
         NEW r \in Route, r.unavail = 0, OtherEnd(n, r) = src
  PROVE  Serves(n, DemoteRoutes(AddRoute(tbl[n], p, r), Demoted(n, src)),
                   VsetAfterAdmit(n, src, p))
<1> DEFINE t == AddRoute(tbl[n], p, r)
           D == Demoted(n, src)
           t1 == DemoteRoutes(t, D)
           v1 == VsetAfterAdmit(n, src, p)
<1>1. /\ DOMAIN v1 = (DOMAIN vset[n] \ Admit(n, src).removed) \cup {src}
      /\ \A v \in DOMAIN v1 : v1[v] = IF v = src THEN {p} ELSE vset[n][v]
  BY DEF VsetAfterAdmit
<1>2. \A v \in DOMAIN vset[n] : v \in Admit(n, src).removed => vset[n][v] \subseteq D
  BY DEF Demoted
<1>3. NodeTable(tbl[n]) /\ NodeTable(t)
  BY AddNodeTable DEF Inv, Tables
<1> HIDE DEF D, v1, t
<1> SUFFICES ASSUME NEW q \in PathIds, InTable(t1, q), t1.routes[q].isVset
             PROVE  /\ OtherEnd(n, t1.routes[q]) \in DOMAIN v1
                    /\ q \in v1[OtherEnd(n, t1.routes[q])]
  BY DEF Serves, D, v1, t
<1>4. q \notin D /\ t1.routes[q] = t.routes[q] /\ InTable(t, q)
  <2>1. t1.routes[q] = IF q \in D /\ InTable(t, q)
                       THEN [t.routes[q] EXCEPT !.isVset = FALSE] ELSE t.routes[q]
    BY DEF DemoteRoutes
  <2>2. CASE q \in D /\ InTable(t, q)
    <3>1. t.routes[q] \in Route
      BY <1>3, <2>2, NodeTableFacts
    <3>2. ~ [t.routes[q] EXCEPT !.isVset = FALSE].isVset
      BY <3>1 DEF Route
    <3> QED BY <2>1, <2>2, <3>2
  <2>3. CASE ~(q \in D /\ InTable(t, q))
    BY <2>1, <2>3 DEF InTable
  <2> QED BY <2>2, <2>3
<1>5. CASE q = p /\ ~InTable(tbl[n], p)
  <2>1. t.routes[q] = r
    BY <1>3, <1>5, NodeTableFacts DEF t, AddRoute
  <2> QED BY <1>1, <1>4, <1>5, <2>1
<1>6. CASE ~(q = p /\ ~InTable(tbl[n], p))
  <2>1. t.routes[q] = tbl[n].routes[q] /\ InTable(tbl[n], q)
    BY <1>3, <1>4, <1>6, NodeTableFacts DEF t, AddRoute, InTable
  <2> DEFINE w == OtherEnd(n, tbl[n].routes[q])
  <2>2. w \in DOMAIN vset[n] /\ q \in vset[n][w]
    BY <1>4, <2>1 DEF Serves
  <2> HIDE DEF w
  <2>3. w \notin Admit(n, src).removed /\ w # src
    BY <1>2, <1>4, <2>2
  <2> QED BY <1>1, <1>4, <2>1, <2>2, <2>3 DEF w
<1> QED BY <1>5, <1>6

(* A vroute this node only passes on is no vset route.                     *)
LEMMA ServesPassing ==
  ASSUME Inv, NEW n \in Nodes, Serves(n, tbl[n], vset[n]), NEW p \in PathIds, NEW r \in Route,
         ~r.isVset
  PROVE  Serves(n, AddRoute(tbl[n], p, r), vset[n])
<1>1. NodeTable(tbl[n])
  BY DEF Inv, Tables
<1>2. NoNewVsetRoute(tbl[n], AddRoute(tbl[n], p, r))
  BY <1>1, NodeTableFacts DEF NoNewVsetRoute, AddRoute, InTable
<1> QED BY <1>2, ServesFewer

-----------------------------------------------------------------------------
AllServe == \A n \in Nodes : Serves(n, tbl[n], vset[n])

(* A handler changes the table and vset of one node.                       *)
LEMMA StepServes ==
  ASSUME Inv, AllServe, NEW n \in Nodes, NEW t, NEW v, Serves(n, t, v),
         tbl' = [tbl EXCEPT ![n] = t], vset' = [vset EXCEPT ![n] = v]
  PROVE  AllServe'
<1>1. /\ tbl'[n] = t /\ vset'[n] = v
      /\ \A k \in Nodes \ {n} : tbl'[k] = tbl[k] /\ vset'[k] = vset[k]
  BY DEF Inv, Tables, Vsets
<1>2. \A k \in Nodes : Serves(k, tbl'[k], vset'[k])
  BY <1>1 DEF AllServe
<1> QED BY <1>2 DEF AllServe, Serves, OtherEnd, InTable

(* ... or only its table ...                                                *)
LEMMA StepServesTable ==
  ASSUME Inv, AllServe, NEW n \in Nodes, NEW t, Serves(n, t, vset[n]),
         tbl' = [tbl EXCEPT ![n] = t], UNCHANGED vset
  PROVE  AllServe'
<1>1. /\ tbl'[n] = t
      /\ \A k \in Nodes \ {n} : tbl'[k] = tbl[k]
  BY DEF Inv, Tables
<1>2. \A k \in Nodes : Serves(k, tbl'[k], vset[k])
  BY <1>1 DEF AllServe
<1> QED BY <1>2 DEF AllServe, Serves, OtherEnd, InTable

(* ... to one without new vset routes.                                      *)
LEMMA StepServesFewer ==
  ASSUME Inv, AllServe, NEW n \in Nodes, NEW t, NoNewVsetRoute(tbl[n], t),
         tbl' = [tbl EXCEPT ![n] = t], UNCHANGED vset
  PROVE  AllServe'
BY ServesFewer, StepServesTable DEF AllServe

(* Taking routes out adds none.                                             *)
LEMMA RemoveNoNew ==
  ASSUME NEW t, NEW ps
  PROVE  NoNewVsetRoute(t, RemoveRoutes(t, ps))
BY DEF NoNewVsetRoute, RemoveRoutes, InTable

-----------------------------------------------------------------------------
(* The handlers.                                                           *)
LEMMA TeardownPathServes ==
  ASSUME Inv, AllServe, NEW n \in Nodes, NEW m \in Nodes, NEW p \in PathIds,
         NEW me \in BOOLEAN, TeardownPath(n, m, p, me)
  PROVE  AllServe'
<1> DEFINE r == tbl[n].routes[p]
           ends == IF InTable(tbl[n], p) /\ me /\ n \in {r.from, r.to} THEN {p} ELSE {}
<1>1. /\ tbl' = [tbl EXCEPT ![n] = RemoveRoutes(tbl[n], {p})]
      /\ vset' = [vset EXCEPT ![n] = VsetAfterTeardown(n, ends)]
  BY DEF TeardownPath, RemoveRoute
<1>2. ends \subseteq {p}
  OBVIOUS
<1> HIDE DEF ends
<1> QED BY <1>1, <1>2, ServesTeardown, StepServes DEF AllServe

(* processSetupReq.                                                         *)
LEMMA AnswerSetupServes ==
  ASSUME Inv, AllServe, NEW n \in Nodes, NEW newnode \in Nodes, NEW p \in PathIds,
         NEW nh \in Hops, AnswerSetup(n, newnode, p, nh)
  PROVE  AllServe'
<1> DEFINE r == NewRoute(n, newnode, NullVid, nh, TRUE, 0, <<>>)
<1>1. newnode # n /\ newnode \notin DOMAIN vset[n]
  BY DEF AnswerSetup, MayAdmit
<1>2. r \in Route /\ r.unavail = 0 /\ OtherEnd(n, r) = newnode
  BY <1>1 DEF NewRoute, Route, Hops, Status, Nodes, OtherEnd
<1>3. /\ tbl' = [tbl EXCEPT ![n] = DemoteRoutes(AddRoute(tbl[n], p, r), Demoted(n, newnode))]
      /\ vset' = [vset EXCEPT ![n] = VsetAfterAdmit(n, newnode, p)]
  BY DEF AnswerSetup
<1> HIDE DEF r
<1>4. Serves(n, DemoteRoutes(AddRoute(tbl[n], p, r), Demoted(n, newnode)),
                VsetAfterAdmit(n, newnode, p))
  BY <1>1, <1>2, ServesAdmit DEF AllServe
<1> QED BY <1>3, <1>4, StepServes

(* processSetupReply at the node the vroute was asked by.                   *)
LEMMA AcceptSetupServes ==
  ASSUME Inv, AllServe, NEW n \in Nodes, NEW m \in Nodes,
         NEW msg \in SetupReplies, msg.to = n, MayAdmit(n, msg.from), AcceptSetup(n, m, msg)
  PROVE  AllServe'
<1> DEFINE r == NewRoute(msg.from, n, m, NullVid, TRUE, 0, Reverse(msg.prevhops))
<1>1. /\ msg.path \in PathIds /\ msg.from \in Nodes /\ msg.from # n
      /\ Reverse(msg.prevhops) \in Seq(Nodes) /\ msg.from \notin DOMAIN vset[n]
  BY ReverseType DEF SetupReplies, MayAdmit
<1>2. r \in Route /\ r.unavail = 0 /\ OtherEnd(n, r) = msg.from
  BY <1>1 DEF NewRoute, Route, Hops, Status, Nodes, OtherEnd
<1>3. /\ tbl' = [tbl EXCEPT ![n] = DemoteRoutes(AddRoute(tbl[n], msg.path, r),
                                                Demoted(n, msg.from))]
      /\ vset' = [vset EXCEPT ![n] = VsetAfterAdmit(n, msg.from, msg.path)]
  BY DEF AcceptSetup
<1> HIDE DEF r
<1>4. Serves(n, DemoteRoutes(AddRoute(tbl[n], msg.path, r), Demoted(n, msg.from)),
                VsetAfterAdmit(n, msg.from, msg.path))
  BY <1>1, <1>2, ServesAdmit DEF AllServe
<1> QED BY <1>3, <1>4, StepServes

(* processSetupReply at a node on the way.                                  *)
LEMMA ForwardSetupServes ==
  ASSUME Inv, AllServe, NEW n \in Nodes, NEW m \in Nodes,
         NEW msg \in SetupReplies, NEW nh \in Nodes, ForwardSetup(n, m, msg, nh)
  PROVE  AllServe'
<1> DEFINE r == NewRoute(msg.from, msg.to, m, nh, FALSE, 0, Reverse(msg.prevhops))
<1>1. /\ msg.path \in PathIds /\ msg.from \in Nodes /\ msg.to \in Nodes /\ msg.from # msg.to
      /\ Reverse(msg.prevhops) \in Seq(Nodes)
  BY ReverseType DEF SetupReplies
<1>2. r \in Route /\ ~r.isVset
  BY <1>1 DEF NewRoute, Route, Hops, Status, Nodes
<1>3. tbl' = [tbl EXCEPT ![n] = AddRoute(tbl[n], msg.path, r)] /\ UNCHANGED vset
  BY DEF ForwardSetup
<1> HIDE DEF r
<1> QED BY <1>1, <1>2, <1>3, ServesPassing, StepServesTable DEF AllServe

(* processSetupReply, all cases.                                            *)
LEMMA ProcessSetupReplyServes ==
  ASSUME Inv, AllServe, NEW n \in Nodes, NEW m \in Nodes, ProcessSetupReply(n, m)
  PROVE  AllServe'
<1> DEFINE msg == Head(chan[m][n])
<1>1. msg \in SetupReplies
  BY ReceivedType
     DEF ProcessSetupReply, Inv, Msg, SetupReplies, Teardowns, RepairLocalReplies
<1>2. msg.path \in PathIds
  BY <1>1 DEF SetupReplies
<1>3. \/ \E me \in BOOLEAN : TeardownPath(n, m, msg.path, me)
      \/ msg.to = n /\ MayAdmit(n, msg.from) /\ AcceptSetup(n, m, msg)
      \/ \E nh \in Nodes : ForwardSetup(n, m, msg, nh)
  BY DEF ProcessSetupReply, NextHops, Inv, World, Nodes
<1> HIDE DEF msg
<1> QED BY <1>1, <1>2, <1>3, TeardownPathServes, AcceptSetupServes, ForwardSetupServes

(* processTeardown.                                                         *)
LEMMA ProcessTeardownServes ==
  ASSUME Inv, AllServe, NEW n \in Nodes, NEW m \in Nodes, ProcessTeardown(n, m)
  PROVE  AllServe'
<1> DEFINE p == Head(chan[m][n]).path
<1>1. \/ UNCHANGED <<tbl, vset>>
      \/ /\ tbl' = [tbl EXCEPT ![n] = RemoveRoutes(tbl[n], {p})]
         /\ vset' = [vset EXCEPT ![n] = VsetAfterTeardown(n, {p})]
      \/ tbl' = [tbl EXCEPT ![n] = RemoveRoutes(tbl[n], {p})] /\ UNCHANGED vset
  BY DEF ProcessTeardown, node, RemoveRoute
<1> HIDE DEF p
<1>2. CASE UNCHANGED <<tbl, vset>>
  BY <1>2 DEF AllServe, Serves, OtherEnd, InTable
<1>3. CASE /\ tbl' = [tbl EXCEPT ![n] = RemoveRoutes(tbl[n], {p})]
           /\ vset' = [vset EXCEPT ![n] = VsetAfterTeardown(n, {p})]
  BY <1>3, ServesTeardown, StepServes DEF AllServe
<1>4. CASE tbl' = [tbl EXCEPT ![n] = RemoveRoutes(tbl[n], {p})] /\ UNCHANGED vset
  BY <1>4, RemoveNoNew, StepServesFewer
<1> QED BY <1>1, <1>2, <1>3, <1>4

(* processRepairLocalReply.                                                 *)
LEMMA ProcessRepairLocalReplyServes ==
  ASSUME Inv, AllServe, NEW n \in Nodes, NEW m \in Nodes, ProcessRepairLocalReply(n, m)
  PROVE  AllServe'
<1> DEFINE msg == Head(chan[m][n])
<1>1. msg \in RepairLocalReplies
  BY ReceivedType
     DEF ProcessRepairLocalReply, Inv, Msg, SetupReplies, Teardowns, RepairLocalReplies
<1>2. /\ msg.path \in PathIds /\ msg.from \in Nodes /\ msg.to \in Nodes /\ msg.from # msg.to
      /\ msg.trace \in Seq(Nodes) /\ msg.trace # <<>>
  BY <1>1 DEF RepairLocalReplies
<1>3. \/ \E me \in BOOLEAN : TeardownPath(n, m, msg.path, me)
      \/ InTable(tbl[n], msg.path) /\ PatchNextHop(n, m, msg)
      \/ JoinRepair(n, m, msg)
  BY DEF ProcessRepairLocalReply
<1> HIDE DEF msg
<1>4. NodeTable(tbl[n])
  BY DEF Inv, Tables
<1>5. CASE \E me \in BOOLEAN : TeardownPath(n, m, msg.path, me)
  BY <1>2, <1>5, TeardownPathServes
<1>6. CASE InTable(tbl[n], msg.path) /\ PatchNextHop(n, m, msg)
  <2>1. tbl' = [tbl EXCEPT ![n] = TableAfterPatch(tbl[n], msg.path, m)] /\ UNCHANGED vset
    BY <1>6 DEF PatchNextHop
  <2> QED BY <1>2, <1>4, <1>6, <2>1, PatchNoNew, StepServesFewer
<1>7. CASE JoinRepair(n, m, msg)
  <2>1. CASE TeardownPath(n, m, msg.path, FALSE)
    BY <1>2, <2>1, TeardownPathServes
  <2>2. CASE \E i \in DOMAIN msg.trace :
               /\ tbl' = [tbl EXCEPT ![n] =
                    AddRoute(tbl[n], msg.path, NewRoute(msg.from, msg.to, msg.trace[i], m, FALSE,
                                                        0, <<msg.trace[1]>>))]
               /\ UNCHANGED vset
    <3>1. PICK i \in DOMAIN msg.trace :
               /\ tbl' = [tbl EXCEPT ![n] =
                    AddRoute(tbl[n], msg.path, NewRoute(msg.from, msg.to, msg.trace[i], m, FALSE,
                                                        0, <<msg.trace[1]>>))]
               /\ UNCHANGED vset
      BY <2>2
    <3> DEFINE r == NewRoute(msg.from, msg.to, msg.trace[i], m, FALSE, 0, <<msg.trace[1]>>)
    <3>2. msg.trace[i] \in Nodes /\ msg.trace[1] \in Nodes
      BY <1>2, ElementOfSeq, LenProperties, EmptySeq
    <3>3. <<msg.trace[1]>> \in Seq(Nodes)
      BY <3>2
    <3>4. r \in Route /\ ~r.isVset
      BY <1>2, <3>2, <3>3 DEF NewRoute, Route, Hops, Status, Nodes
    <3> HIDE DEF r
    <3> QED BY <1>2, <3>1, <3>4, ServesPassing, StepServesTable DEF AllServe, r
  <2> QED BY <1>7, <2>1, <2>2 DEF JoinRepair, LinkedBeforeMe
<1> QED BY <1>3, <1>5, <1>6, <1>7

(* processNonEssRouteTeardownTimer takes routes down.                       *)
LEMMA NonEssTimerServes ==
  ASSUME Inv, AllServe, NEW n \in Nodes, NonEssTimer(n)
  PROVE  AllServe'
<1>1. /\ \E ps : tbl' = [tbl EXCEPT ![n] = RemoveRoutes(tbl[n], ps)]
      /\ UNCHANGED vset
  BY DEF NonEssTimer
<1> QED BY <1>1, RemoveNoNew, StepServesFewer

(* processWaitRepairLinkTimer with retries left.                            *)
LEMMA RepairTimerServes ==
  ASSUME Inv, AllServe, NEW n \in Nodes, NEW x \in Nodes, RepairTimer(n, x)
  PROVE  AllServe'
<1> DEFINE ps == {p \in lost[n][x].broken : InTable(tbl[n], p) /\ tbl[n].routes[p].prev = x}
           fixed(choice) == {p \in ps : choice[p] # <<>>}
<1>1. PICK choice : tbl' = [tbl EXCEPT ![n] =
                              TableAfterRepair(tbl[n], Restrict(choice, fixed(choice)))]
  BY DEF RepairTimer
<1>2. UNCHANGED vset
  BY DEF RepairTimer
<1>3. \A p \in DOMAIN Restrict(choice, fixed(choice)) : InTable(tbl[n], p)
  BY DEF Restrict
<1>4. NodeTable(tbl[n])
  BY DEF Inv, Tables
<1> QED BY <1>1, <1>2, <1>3, <1>4, RepairNoNew, StepServesFewer

(* processWaitRepairLinkTimer without.                                      *)
LEMMA GiveUpTimerServes ==
  ASSUME Inv, AllServe, NEW n \in Nodes, NEW x \in Nodes, GiveUpTimer(n, x)
  PROVE  AllServe'
<1>1. \E ps : \E ends \in SUBSET ps :
        /\ tbl' = [tbl EXCEPT ![n] = RemoveRoutes(tbl[n], ps)]
        /\ vset' = [vset EXCEPT ![n] = VsetAfterTeardown(n, ends)]
  <2> DEFINE ps == IF x \in linked[n] THEN {}
                   ELSE {p \in lost[n][x].broken : InTable(tbl[n], p)
                                                   /\ tbl[n].routes[p].unavail # 0}
             ends == {p \in ps : Onward(tbl[n].routes[p], x) = NullVid}
  <2>1. /\ tbl' = [tbl EXCEPT ![n] = RemoveRoutes(tbl[n], ps)]
        /\ vset' = [vset EXCEPT ![n] = VsetAfterTeardown(n, ends)]
    BY DEF GiveUpTimer
  <2>2. ends \in SUBSET ps
    OBVIOUS
  <2> HIDE DEF ps, ends
  <2> QED BY <2>1, <2>2
<1>2. PICK ps : \E ends \in SUBSET ps :
        /\ tbl' = [tbl EXCEPT ![n] = RemoveRoutes(tbl[n], ps)]
        /\ vset' = [vset EXCEPT ![n] = VsetAfterTeardown(n, ends)]
  BY <1>1
<1>3. PICK ends \in SUBSET ps :
        /\ tbl' = [tbl EXCEPT ![n] = RemoveRoutes(tbl[n], ps)]
        /\ vset' = [vset EXCEPT ![n] = VsetAfterTeardown(n, ends)]
  BY <1>2
<1> QED BY <1>3, ServesTeardown, StepServes DEF AllServe

(* handleLinkedPnei.                                                        *)
LEMMA LinkPneiServes ==
  ASSUME Inv, AllServe, NEW n \in Nodes, NEW x \in Nodes, LinkPnei(n, x)
  PROVE  AllServe'
<1>1. NodeTable(tbl[n])
  BY DEF Inv, Tables
<1>2. CASE x \in DOMAIN lost[n]
  <2>1. /\ tbl' = [tbl EXCEPT ![n] = TableAfterLinked(tbl[n], x, lost[n][x].broken)]
        /\ UNCHANGED vset
    BY <1>2 DEF LinkPnei
  <2> QED BY <1>1, <2>1, LinkedNoNew, StepServesFewer
<1>3. CASE x \notin DOMAIN lost[n]
  <2>1. tbl' = [tbl EXCEPT ![n] = tbl[n]] /\ UNCHANGED vset
    BY <1>3 DEF LinkPnei
  <2> QED BY <2>1, StepServesTable DEF AllServe
<1> QED BY <1>2, <1>3

(* handleLostPneis.                                                         *)
LEMMA LosePneiServes ==
  ASSUME Inv, AllServe, NEW n \in Nodes, NEW x \in Nodes, LosePnei(n, x)
  PROVE  AllServe'
<1>1. NodeTable(tbl[n])
  BY DEF Inv, Tables
<1>2. tbl' = [tbl EXCEPT ![n] = TableAfterLost(tbl[n], x)] /\ UNCHANGED vset
  BY DEF LosePnei
<1> QED BY <1>1, <1>2, LostNoNew, StepServesFewer

(* Every step keeps it.                                                     *)
LEMMA NextServes == Inv /\ AllServe /\ [Next]_vars => AllServe'
<1> SUFFICES ASSUME Inv, AllServe, [Next]_vars PROVE AllServe'
  OBVIOUS
<1>1. CASE UNCHANGED <<tbl, vset>>
  BY <1>1 DEF AllServe, Serves, OtherEnd, InTable
<1>2. CASE Next
  <2>1. CASE \E l \in Links : LinkDown(l) \/ LinkUp(l)
    BY <1>1, <2>1 DEF LinkDown, LinkUp, node
  <2> QED BY <1>2, <2>1, AnswerSetupServes, ProcessSetupReplyServes, ProcessTeardownServes,
             ProcessRepairLocalReplyServes, NonEssTimerServes, RepairTimerServes,
             GiveUpTimerServes, LinkPneiServes, LosePneiServes DEF Next
<1> QED BY <1>1, <1>2 DEF vars

(* A vset route always serves a vnei: whichever of crossing setups,        *)
(* evictions, teardowns, repairs and lost pneis meet at a node, no route   *)
(* is left marked as a vset route that vset does not list (removeEndpoint- *)
(* OnTeardown would then not find it, and nothing would take it down).     *)
THEOREM VsetRoutesServe == Spec => []VsetRoutesServeVnei
<1>1. Init => AllServe
  BY DEF Init, AllServe, Serves, EmptyTable, InTable
<1>2. AllServe => VsetRoutesServeVnei
  BY DEF AllServe, Serves, VsetRoutesServeVnei, Known, R
<1> QED BY <1>1, <1>2, AlwaysInv, NextServes, PTL DEF Spec

-----------------------------------------------------------------------------
(* Table, vset, lostPneis and psetTable agree.  A handler believes what    *)
(* the message in its hands says about a vroute, so the argument is also   *)
(* about messages: whoever knows a path id, node or message, knows the     *)
(* same two ends of it.                                                    *)

(* Nobody is sent a message by a pnei it has lost.                          *)
HeardFromLinked == \A n, m \in Nodes : chan[m][n] # <<>> => m \in linked[n]

-----------------------------------------------------------------------------
(* What holds of one route r with path id p at a node whose LINKED pneis   *)
(* are ls, when e says which ends each path id has.                        *)

\* a hop that is not marked is LINKED
Usable(ls, r) ==
  /\ r.prev # NullVid /\ ~PrevBroken(r) => r.prev \in ls
  /\ r.next # NullVid /\ ~NextBroken(r) => r.next \in ls

\* the node that is to patch its next hop is not the end of the vroute
Passed(r) == \A i \in 1 .. Len(r.prevhops) : i >= 2 => r.prevhops[i] # r.to

EntryOK(e, ls, p, r) == <<r.from, r.to>> = e[p] /\ Passed(r) /\ Usable(ls, r)

\* an end point has a hop on one side only
EndShape(n, r) == (r.from = n /\ r.prev = NullVid) \/ (r.to = n /\ r.next = NullVid)

\* the hops of r over x are marked
CutBy(r, x) == /\ x \in {r.prev, r.next}
               /\ x = r.prev => PrevBroken(r)
               /\ x = r.next => NextBroken(r)

(* ... and of the tables of node n.                                         *)
TableOK(e, u, ls, t) ==
  \A p \in PathIds : InTable(t, p) => p \in u /\ EntryOK(e, ls, p, t.routes[p])

ListOK(t, l, ls) ==
  \A x \in DOMAIN l :
    x \notin ls /\ \A p \in l[x].broken : InTable(t, p) /\ CutBy(t.routes[p], x)

VsetOK(n, t, v) ==
  \A w \in DOMAIN v :
    /\ v[w] # {}
    /\ \A p \in v[w] : /\ InTable(t, p) /\ t.routes[p].isVset
                       /\ {t.routes[p].from, t.routes[p].to} = {n, w}
                       /\ EndShape(n, t.routes[p])

NonEssOK(n, t, ne) ==
  \A p \in ne : InTable(t, p) /\ ~t.routes[p].isVset /\ EndShape(n, t.routes[p])

NodeOK(e, u, n, t, v, ne, l, ls) ==
  TableOK(e, u, ls, t) /\ ListOK(t, l, ls) /\ VsetOK(n, t, v) /\ NonEssOK(n, t, ne)

(* Messages that tell the truth about the ends of their vroute, and are not *)
(* on their way back from its end.                                          *)
Agrees(e, u, m) == m.path \in u /\ <<m.from, m.to>> = e[m.path]

Truthful(e, u) ==
  Teardowns
  \cup {m \in SetupReplies : /\ Agrees(e, u, m)
                             /\ \A i \in 1 .. Len(m.prevhops) : m.prevhops[i] # m.to}
  \cup {m \in RepairLocalReplies : Agrees(e, u, m) /\ m.trace[1] # m.to}

(* The ends of the vroutes; a path id nobody has drawn has none.            *)
EndsOf == [PathIds -> (Nodes \X Nodes) \cup {<<>>}]

NodesOK(e) ==
  \A n \in Nodes : NodeOK(e, used, n, tbl[n], vset[n], nonEss[n], lost[n], linked[n])

ChansOf(M) == [Nodes -> [Nodes -> Seq(M)]]
OutsOf(M)  == [Nodes -> Seq(M)]

AllOK(e) == NodesOK(e) /\ chan \in ChansOf(Truthful(e, used))

LostInv == \E e \in EndsOf : AllOK(e)

-----------------------------------------------------------------------------
(* Channels, for any set of messages.                                       *)

(* What is sent is appended ...                                             *)
LEMMA AfterOf ==
  ASSUME NEW M, NEW c \in ChansOf(M), NEW n \in Nodes, NEW out \in OutsOf(M)
  PROVE  After(c, n, out) \in ChansOf(M)
BY DEF After, ChansOf, OutsOf

(* ... and the message a handler was called with is taken from the front.   *)
LEMMA ReplyOf ==
  ASSUME NEW M, chan \in ChansOf(M), NEW n \in Nodes, NEW m \in Nodes, chan[m][n] # <<>>,
         NEW out \in OutsOf(M), Reply(n, m, out)
  PROVE  chan' \in ChansOf(M)
<1>1. Tail(chan[m][n]) \in Seq(M)
  BY DEF ChansOf
<1>2. [chan EXCEPT ![m][n] = Tail(@)] \in ChansOf(M)
  BY <1>1 DEF ChansOf
<1> QED BY <1>2, AfterOf DEF Reply

(* That message is one of them.                                             *)
LEMMA ReceivedOf ==
  ASSUME NEW M, chan \in ChansOf(M), NEW n \in Nodes, NEW m \in Nodes, NEW ty,
         Received(n, m, ty)
  PROVE  chan[m][n] # <<>> /\ Head(chan[m][n]) \in M /\ Head(chan[m][n]).type = ty
BY DEF Received, ChansOf

(* Nothing, or one message, is sent.                                        *)
LEMMA TellOf ==
  ASSUME NEW M
  PROVE  Silent \in OutsOf(M) /\ \A x : \A msg \in M : Tell(x, msg) \in OutsOf(M)
BY DEF Silent, Tell, OutsOf

(* Two handlers' worth of messages.                                         *)
LEMMA AndOf ==
  ASSUME NEW M, NEW o1 \in OutsOf(M), NEW o2 \in OutsOf(M)
  PROVE  And(o1, o2) \in OutsOf(M)
BY DEF And, OutsOf

(* A message for each of some path ids.                                     *)
LEMMA TellEachOf ==
  ASSUME NEW M, NEW hop, NEW msg, DOMAIN hop \subseteq PathIds,
         \A p \in DOMAIN hop : msg[p] \in M
  PROVE  TellEach(hop, msg) \in OutsOf(M)
<1> SUFFICES ASSUME NEW m \in Nodes
             PROVE  LET ps == SetToSeq({p \in DOMAIN hop : hop[p] = m})
                    IN  [i \in 1 .. Len(ps) |-> msg[ps[i]]] \in Seq(M)
  BY DEF TellEach, OutsOf
<1> DEFINE S == {p \in DOMAIN hop : hop[p] = m}
           ps == SetToSeq(S)
<1>1. IsFiniteSet(S)
  BY FS_Subset, VrouteAssumption
<1>2. ps \in Seq(S)
  BY <1>1, SetToSeqType
<1> HIDE DEF ps, S
<1>3. Len(ps) \in Nat /\ \A i \in 1 .. Len(ps) : ps[i] \in S
  BY <1>2, LenProperties, ElementOfSeq
<1>4. \A i \in 1 .. Len(ps) : msg[ps[i]] \in M
  BY <1>3 DEF S
<1>5. [i \in 1 .. Len(ps) |-> msg[ps[i]]] \in Seq(M)
  BY <1>3, <1>4
<1> QED BY <1>5 DEF ps, S

(* Teardowns say nothing about ends.                                        *)
LEMMA TeardownTrue ==
  ASSUME NEW e, NEW u, NEW p \in PathIds
  PROVE  TeardownMsg(p) \in Truthful(e, u)
BY DEF TeardownMsg, Truthful, Teardowns

(* So neither does what a timer sends of them ...                           *)
LEMMA TeardownEachTrue ==
  ASSUME NEW e, NEW u, NEW hop, DOMAIN hop \subseteq PathIds
  PROVE  TeardownEach(hop) \in OutsOf(Truthful(e, u))
<1>1. \A p \in DOMAIN hop : [q \in DOMAIN hop |-> TeardownMsg(q)][p] \in Truthful(e, u)
  BY TeardownTrue
<1> QED BY <1>1, TellEachOf DEF TeardownEach

(* ... or vrrTeardownPath.                                                  *)
LEMMA TeardownPathOutTrue ==
  ASSUME NEW e, NEW u, NEW n, NEW p \in PathIds, NEW m
  PROVE  TeardownPathOut(n, p, m) \in OutsOf(Truthful(e, u))
<1> DEFINE M == Truthful(e, u)
<1>1. TeardownMsg(p) \in M
  BY TeardownTrue
<1> HIDE DEF M
<1>2. Silent \in OutsOf(M) /\ \A x : Tell(x, TeardownMsg(p)) \in OutsOf(M)
  BY <1>1, TellOf
<1>3. TeardownPathOut(n, p, m) \in OutsOf(M)
  BY <1>2, AndOf DEF TeardownPathOut
<1> QED BY <1>3 DEF M

(* The fields of what a handler takes for the truth.                        *)
LEMMA SetupFacts ==
  ASSUME NEW e, NEW u, NEW m \in Truthful(e, u), m.type = "SetupReply"
  PROVE  /\ m \in SetupReplies /\ Agrees(e, u, m)
         /\ m.path \in PathIds /\ m.from \in Nodes /\ m.to \in Nodes /\ m.from # m.to
         /\ m.prevhops \in Seq(Nodes)
         /\ \A i \in 1 .. Len(m.prevhops) : m.prevhops[i] # m.to
BY DEF Truthful, SetupReplies, Teardowns, RepairLocalReplies

(* ... of a RepairLocalReply.                                               *)
LEMMA RepairFacts ==
  ASSUME NEW e, NEW u, NEW m \in Truthful(e, u), m.type = "RepairLocalReply"
  PROVE  /\ m \in RepairLocalReplies /\ Agrees(e, u, m)
         /\ m.path \in PathIds /\ m.from \in Nodes /\ m.to \in Nodes /\ m.from # m.to
         /\ m.trace \in Seq(Nodes) /\ m.trace # <<>> /\ m.trace[1] # m.to
BY DEF Truthful, SetupReplies, Teardowns, RepairLocalReplies

-----------------------------------------------------------------------------
(* Tables.  What the handlers do to the hops of a route leaves its kind,    *)
(* its ends and, but for the hop that is repaired, its hops.                *)
Kept(r, q) == /\ q.from = r.from /\ q.to = r.to /\ q.prev = r.prev /\ q.next = r.next
              /\ q.isVset = r.isVset /\ q.prevhops = r.prevhops

(* Marking a hop.                                                           *)
LEMMA SetHopKept ==
  ASSUME NEW r \in Route, NEW setPrev, NEW value
  PROVE  Kept(r, SetHop(r, setPrev, value))
BY DEF Kept, SetHop, Route

(* handleLostPneis on one route.                                            *)
LEMMA BreakHopKept ==
  ASSUME NEW r \in Route, r.unavail \in VrrStatus, NEW x
  PROVE  Kept(r, BreakHop(r, x))
<1> DEFINE r1 == IF r.prev = x THEN SetHop(r, TRUE, 1) ELSE r
<1>1. r1 \in Route /\ Kept(r, r1)
  <2>1. CASE r.prev = x
    BY <2>1, VrrSetPrev, SetHopKept
  <2>2. CASE r.prev # x
    BY <2>2 DEF Kept
  <2> QED BY <2>1, <2>2
<1>2. BreakHop(r, x) = IF r.next = x THEN SetHop(r1, FALSE, 1) ELSE r1
  BY DEF BreakHop
<1> HIDE DEF r1
<1>3. CASE r.next = x
  <2>1. BreakHop(r, x) = SetHop(r1, FALSE, 1)
    BY <1>2, <1>3
  <2>2. Kept(r1, BreakHop(r, x))
    BY <1>1, <2>1, SetHopKept
  <2> QED BY <1>1, <2>2 DEF Kept
<1>4. CASE r.next # x
  BY <1>1, <1>2, <1>4
<1> QED BY <1>3, <1>4

(* handleLostPneis on the table.                                            *)
LEMMA LostRoutes ==
  ASSUME NEW t, NodeTable(t), NEW x, NEW p \in PathIds
  PROVE  /\ InTable(TableAfterLost(t, x), p) <=> InTable(t, p)
         /\ InTable(t, p) =>
              /\ Kept(t.routes[p], TableAfterLost(t, x).routes[p])
              /\ PrevBroken(TableAfterLost(t, x).routes[p])
                   <=> t.routes[p].prev = x \/ PrevBroken(t.routes[p])
              /\ NextBroken(TableAfterLost(t, x).routes[p])
                   <=> t.routes[p].next = x \/ NextBroken(t.routes[p])
<1> DEFINE r == t.routes[p]
           q == TableAfterLost(t, x).routes[p]
<1>1. q = IF p \in RoutesOver(t, x) THEN BreakHop(r, x) ELSE r
  BY DEF TableAfterLost
<1>2. p \in RoutesOver(t, x) <=> InTable(t, p) /\ (r.prev = x \/ r.next = x)
  BY DEF RoutesOver
<1>3. CASE ~InTable(t, p)
  BY <1>1, <1>2, <1>3 DEF InTable
<1>4. CASE InTable(t, p)
  <2>1. r \in Route /\ r.unavail \in VrrStatus
    BY <1>4, NodeTableFacts
  <2>2. CASE p \in RoutesOver(t, x)
    <3>1. q = BreakHop(r, x)
      BY <1>1, <2>2
    <3> HIDE DEF q, r
    <3>2. /\ q \in Route /\ Kept(r, q)
          /\ PrevBroken(q) <=> r.prev = x \/ PrevBroken(r)
          /\ NextBroken(q) <=> r.next = x \/ NextBroken(r)
      BY <2>1, <3>1, BreakHopFields, BreakHopKept
    <3>3. q # NoRoute
      BY <3>2, RouteAssumption
    <3> QED BY <1>4, <3>2, <3>3 DEF InTable, q, r
  <2>3. CASE p \notin RoutesOver(t, x)
    BY <1>1, <1>2, <1>4, <2>3 DEF Kept, InTable
  <2> QED BY <2>2, <2>3
<1> QED BY <1>3, <1>4

(* handleLinkedPnei on the table.                                           *)
LEMMA LinkedRoutes ==
  ASSUME NEW t, NodeTable(t), NEW x, NEW broken, NEW p \in PathIds
  PROVE  /\ InTable(TableAfterLinked(t, x, broken), p) <=> InTable(t, p)
         /\ InTable(t, p) =>
              /\ Kept(t.routes[p], TableAfterLinked(t, x, broken).routes[p])
              /\ PrevBroken(TableAfterLinked(t, x, broken).routes[p])
                   <=> PrevBroken(t.routes[p]) /\ ~(p \in broken /\ t.routes[p].prev = x)
              /\ NextBroken(TableAfterLinked(t, x, broken).routes[p])
                   <=> NextBroken(t.routes[p]) /\ ~(p \in broken /\ t.routes[p].prev # x)
<1> DEFINE r == t.routes[p]
           q == TableAfterLinked(t, x, broken).routes[p]
<1>1. q = IF p \in broken /\ InTable(t, p) THEN RestoreHop(r, x) ELSE r
  BY DEF TableAfterLinked
<1>2. CASE ~InTable(t, p)
  BY <1>1, <1>2 DEF InTable
<1>3. CASE InTable(t, p)
  <2>1. r \in Route /\ r.unavail \in VrrStatus
    BY <1>3, NodeTableFacts
  <2>2. CASE p \notin broken
    BY <1>1, <1>3, <2>2 DEF Kept, InTable
  <2>3. CASE p \in broken /\ r.prev = x
    <3>1. q = SetHop(r, TRUE, 0)
      BY <1>1, <1>3, <2>3 DEF RestoreHop
    <3> HIDE DEF q, r
    <3>2. q \in Route /\ ~PrevBroken(q) /\ (NextBroken(q) <=> NextBroken(r)) /\ Kept(r, q)
      BY <2>1, <3>1, ClearHop, SetHopKept
    <3>3. q # NoRoute
      BY <3>2, RouteAssumption
    <3> QED BY <1>3, <2>3, <3>2, <3>3 DEF InTable, q, r
  <2>4. CASE p \in broken /\ r.prev # x
    <3>1. q = SetHop(r, FALSE, 0)
      BY <1>1, <1>3, <2>4 DEF RestoreHop
    <3> HIDE DEF q, r
    <3>2. q \in Route /\ ~NextBroken(q) /\ (PrevBroken(q) <=> PrevBroken(r)) /\ Kept(r, q)
      BY <2>1, <3>1, ClearHop, SetHopKept
    <3>3. q # NoRoute
      BY <3>2, RouteAssumption
    <3> QED BY <1>3, <2>4, <3>2, <3>3 DEF InTable, q, r
  <2> QED BY <2>2, <2>3, <2>4
<1> QED BY <1>2, <1>3

(* A repaired route of the table of processWaitRepairLinkTimer.             *)
LEMMA RepairedRoute ==
  ASSUME NEW t, NodeTable(t), NEW trace, NEW p \in PathIds, InTable(t, p), p \in DOMAIN trace,
         Last(trace[p]) \in Nodes, Reverse(trace[p]) \in Seq(Nodes)
  PROVE  /\ InTable(TableAfterRepair(t, trace), p)
         /\ TableAfterRepair(t, trace).routes[p].from = t.routes[p].from
         /\ TableAfterRepair(t, trace).routes[p].to = t.routes[p].to
         /\ TableAfterRepair(t, trace).routes[p].isVset = t.routes[p].isVset
         /\ TableAfterRepair(t, trace).routes[p].prev = Last(trace[p])
         /\ TableAfterRepair(t, trace).routes[p].next = t.routes[p].next
         /\ TableAfterRepair(t, trace).routes[p].prevhops = Reverse(trace[p])
         /\ ~PrevBroken(TableAfterRepair(t, trace).routes[p])
         /\ NextBroken(TableAfterRepair(t, trace).routes[p]) <=> NextBroken(t.routes[p])
<1> DEFINE r == t.routes[p]
           q == SetHop(r, TRUE, 0)
           s == [q EXCEPT !.prev = Last(trace[p]), !.prevhops = Reverse(trace[p])]
<1>1. TableAfterRepair(t, trace).routes[p] = s
  BY DEF TableAfterRepair
<1>2. r \in Route /\ r.unavail \in VrrStatus
  BY NodeTableFacts
<1>3. q \in Route /\ ~PrevBroken(q) /\ (NextBroken(q) <=> NextBroken(r)) /\ Kept(r, q)
  BY <1>2, ClearHop, SetHopKept
<1> HIDE DEF q, r
<1>4. /\ s \in Route /\ s.from = q.from /\ s.to = q.to /\ s.isVset = q.isVset
      /\ s.prev = Last(trace[p]) /\ s.next = q.next /\ s.prevhops = Reverse(trace[p])
      /\ s.unavail = q.unavail
  BY <1>3 DEF Route, Hops, Nodes
<1>5. s # NoRoute
  BY <1>4, RouteAssumption
<1> HIDE DEF s
<1>6. (PrevBroken(s) <=> PrevBroken(q)) /\ (NextBroken(s) <=> NextBroken(q))
  BY <1>4 DEF PrevBroken, NextBroken
<1> QED BY <1>1, <1>3, <1>4, <1>5, <1>6 DEF InTable, Kept, r

(* The other routes stay.                                                   *)
LEMMA NotRepaired ==
  ASSUME NEW t, NEW trace, NEW p \in PathIds, p \notin DOMAIN trace
  PROVE  TableAfterRepair(t, trace).routes[p] = t.routes[p]
BY DEF TableAfterRepair

(* processRepairLocalReply where the vroute is patched.                     *)
LEMMA PatchedRoute ==
  ASSUME NEW t, NodeTable(t), NEW p \in PathIds, InTable(t, p), NEW m \in Nodes
  PROVE  /\ InTable(TableAfterPatch(t, p, m), p)
         /\ TableAfterPatch(t, p, m).routes[p].from = t.routes[p].from
         /\ TableAfterPatch(t, p, m).routes[p].to = t.routes[p].to
         /\ TableAfterPatch(t, p, m).routes[p].isVset = t.routes[p].isVset
         /\ TableAfterPatch(t, p, m).routes[p].prev = t.routes[p].prev
         /\ TableAfterPatch(t, p, m).routes[p].next = m
         /\ TableAfterPatch(t, p, m).routes[p].prevhops = t.routes[p].prevhops
         /\ PrevBroken(TableAfterPatch(t, p, m).routes[p]) <=> PrevBroken(t.routes[p])
         /\ ~NextBroken(TableAfterPatch(t, p, m).routes[p])
<1> DEFINE r == t.routes[p]
           q == IF NextBroken(r) THEN SetHop(r, FALSE, 0) ELSE r
           s == [q EXCEPT !.next = m]
<1>1. TableAfterPatch(t, p, m).routes[p] = s
  BY NodeTableFacts DEF TableAfterPatch
<1>2. r \in Route /\ r.unavail \in VrrStatus
  BY NodeTableFacts
<1>3. q \in Route /\ ~NextBroken(q) /\ (PrevBroken(q) <=> PrevBroken(r)) /\ Kept(r, q)
  <2>1. CASE NextBroken(r)
    <3>1. q = SetHop(r, FALSE, 0)
      BY <2>1
    <3> HIDE DEF q, r
    <3> QED BY <1>2, <3>1, ClearHop, SetHopKept
  <2>2. CASE ~NextBroken(r)
    BY <1>2, <2>2 DEF Kept
  <2> QED BY <2>1, <2>2
<1> HIDE DEF q, r
<1>4. /\ s \in Route /\ s.from = q.from /\ s.to = q.to /\ s.isVset = q.isVset
      /\ s.prev = q.prev /\ s.next = m /\ s.prevhops = q.prevhops
      /\ s.unavail = q.unavail
  BY <1>3 DEF Route, Hops, Nodes
<1>5. s # NoRoute
  BY <1>4, RouteAssumption
<1> HIDE DEF s
<1>6. (PrevBroken(s) <=> PrevBroken(q)) /\ (NextBroken(s) <=> NextBroken(q))
  BY <1>4 DEF PrevBroken, NextBroken
<1> QED BY <1>1, <1>3, <1>4, <1>5, <1>6 DEF InTable, Kept, r

(* The other routes stay.                                                   *)
LEMMA NotPatched ==
  ASSUME NEW t, NodeTable(t), NEW p \in PathIds, NEW q \in PathIds, q # p, NEW m
  PROVE  TableAfterPatch(t, p, m).routes[q] = t.routes[q]
BY NodeTableFacts DEF TableAfterPatch

-----------------------------------------------------------------------------
(* One node.                                                               *)

(* A new path id does not disturb what is known of the others ...           *)
LEMMA NodeLearns ==
  ASSUME NEW e, NEW u, NEW e1, NEW u1, u \subseteq u1, \A p \in u : e1[p] = e[p],
         NEW n, NEW t, NEW v, NEW ne, NEW l, NEW ls, NodeOK(e, u, n, t, v, ne, l, ls)
  PROVE  NodeOK(e1, u1, n, t, v, ne, l, ls)
BY DEF NodeOK, TableOK, EntryOK

(* ... nor the messages.                                                    *)
LEMMA TruthLearns ==
  ASSUME NEW e, NEW u, NEW e1, NEW u1, u \subseteq u1, \A p \in u : e1[p] = e[p]
  PROVE  ChansOf(Truthful(e, u)) \subseteq ChansOf(Truthful(e1, u1))
<1>1. Truthful(e, u) \subseteq Truthful(e1, u1)
  BY DEF Truthful, Agrees
<1> DEFINE M == Truthful(e, u)
           N == Truthful(e1, u1)
<1> HIDE DEF M, N
<1>2. M \subseteq N => Seq(M) \subseteq Seq(N)
  OBVIOUS
<1> QED BY <1>1, <1>2 DEF ChansOf, M, N

(* Routes ps are taken out of the table and of whatever lists them.         *)
LEMMA RemoveOK ==
  ASSUME NEW e, NEW u, NEW n, NEW t, NEW v, NEW ne, NEW l, NEW ls,
         NodeOK(e, u, n, t, v, ne, l, ls), VsetType(n, v), LostType(l), ne \subseteq PathIds,
         NEW ps, NEW v1, NEW ne1, NEW l1,
         DOMAIN l1 \subseteq DOMAIN l,
         \A x \in DOMAIN l1 : l1[x].broken \subseteq (l[x].broken \ ps),
         DOMAIN v1 \subseteq DOMAIN v,
         \A w \in DOMAIN v1 : v1[w] # {} /\ v1[w] \subseteq (v[w] \ ps),
         ne1 \subseteq (ne \ ps)
  PROVE  NodeOK(e, u, n, RemoveRoutes(t, ps), v1, ne1, l1, ls)
<1> DEFINE t1 == RemoveRoutes(t, ps)
<1>1. /\ \A p \in PathIds : InTable(t1, p) => InTable(t, p)
      /\ \A p \in PathIds : InTable(t1, p) => t1.routes[p] = t.routes[p]
      /\ \A p \in PathIds \ ps : InTable(t, p) => InTable(t1, p)
  BY DEF RemoveRoutes, InTable
<1> HIDE DEF t1
<1>2. TableOK(e, u, ls, t1)
  BY <1>1 DEF NodeOK, TableOK
<1>3. ListOK(t1, l1, ls)
  <2>1. \A x \in DOMAIN l : l[x].broken \subseteq PathIds
    BY DEF LostType, LostEntry
  <2> SUFFICES ASSUME NEW x \in DOMAIN l1
               PROVE  /\ x \notin ls
                      /\ \A p \in l1[x].broken : InTable(t1, p) /\ CutBy(t1.routes[p], x)
    BY DEF ListOK
  <2>2. x \notin ls /\ \A p \in l[x].broken : InTable(t, p) /\ CutBy(t.routes[p], x)
    BY DEF NodeOK, ListOK
  <2> QED BY <1>1, <2>1, <2>2
<1>4. VsetOK(n, t1, v1)
  <2> SUFFICES ASSUME NEW w \in DOMAIN v1, NEW p \in v1[w]
               PROVE  /\ InTable(t1, p) /\ t1.routes[p].isVset
                      /\ {t1.routes[p].from, t1.routes[p].to} = {n, w}
                      /\ EndShape(n, t1.routes[p])
    BY DEF VsetOK
  <2>1. p \in v[w] /\ p \in PathIds \ ps /\ w \in DOMAIN v
    BY DEF VsetType
  <2>2. /\ InTable(t, p) /\ t.routes[p].isVset
        /\ {t.routes[p].from, t.routes[p].to} = {n, w}
        /\ EndShape(n, t.routes[p])
    BY <2>1 DEF NodeOK, VsetOK
  <2>3. InTable(t1, p) /\ t1.routes[p] = t.routes[p]
    BY <1>1, <2>1, <2>2
  <2> QED BY <2>2, <2>3
<1>5. NonEssOK(n, t1, ne1)
  <2> SUFFICES ASSUME NEW p \in ne1
               PROVE  InTable(t1, p) /\ ~t1.routes[p].isVset /\ EndShape(n, t1.routes[p])
    BY DEF NonEssOK
  <2>1. InTable(t, p) /\ ~t.routes[p].isVset /\ EndShape(n, t.routes[p]) /\ p \in PathIds \ ps
    BY DEF NodeOK, NonEssOK
  <2> QED BY <1>1, <2>1
<1> QED BY <1>2, <1>3, <1>4, <1>5 DEF NodeOK, t1

(* A route is added under a path id that is not known.                      *)
LEMMA AddOK ==
  ASSUME NEW e, NEW u, NEW n, NEW t, NEW v, NEW ne, NEW l, NEW ls,
         NodeOK(e, u, n, t, v, ne, l, ls), NodeTable(t),
         NEW p \in PathIds, ~InTable(t, p), NEW r \in Route,
         p \in u, EntryOK(e, ls, p, r)
  PROVE  /\ NodeOK(e, u, n, AddRoute(t, p, r), v, ne, l, ls)
         /\ AddRoute(t, p, r).routes = [t.routes EXCEPT ![p] = r]
<1> DEFINE t1 == AddRoute(t, p, r)
<1>1. t1.routes = [t.routes EXCEPT ![p] = r]
  BY DEF AddRoute
<1> HIDE DEF t1
<1>2. /\ t1.routes[p] = r
      /\ \A q \in PathIds \ {p} : t1.routes[q] = t.routes[q]
      /\ \A q : InTable(t, q) => InTable(t1, q) /\ t1.routes[q] = t.routes[q]
  <2>1. t.routes \in [PathIds -> Route \cup {NoRoute}] /\ r # NoRoute
    BY NodeTableFacts, RouteAssumption
  <2> QED BY <1>1, <2>1 DEF InTable
<1>3. TableOK(e, u, ls, t1)
  <2> SUFFICES ASSUME NEW q \in PathIds, InTable(t1, q)
               PROVE  q \in u /\ EntryOK(e, ls, q, t1.routes[q])
    BY DEF TableOK
  <2>1. CASE q = p
    BY <1>2, <2>1
  <2>2. CASE q # p
    <3>1. t1.routes[q] = t.routes[q] /\ InTable(t, q)
      BY <1>2, <2>2 DEF InTable
    <3> QED BY <3>1 DEF NodeOK, TableOK
  <2> QED BY <2>1, <2>2
<1>4. ListOK(t1, l, ls)
  <2> SUFFICES ASSUME NEW x \in DOMAIN l
               PROVE  /\ x \notin ls
                      /\ \A q \in l[x].broken : InTable(t1, q) /\ CutBy(t1.routes[q], x)
    BY DEF ListOK
  <2>1. x \notin ls /\ \A q \in l[x].broken : InTable(t, q) /\ CutBy(t.routes[q], x)
    BY DEF NodeOK, ListOK
  <2> QED BY <1>2, <2>1
<1>5. VsetOK(n, t1, v)
  <2> SUFFICES ASSUME NEW w \in DOMAIN v
               PROVE  /\ v[w] # {}
                      /\ \A q \in v[w] : /\ InTable(t1, q) /\ t1.routes[q].isVset
                                         /\ {t1.routes[q].from, t1.routes[q].to} = {n, w}
                                         /\ EndShape(n, t1.routes[q])
    BY DEF VsetOK
  <2>1. /\ v[w] # {}
        /\ \A q \in v[w] : /\ InTable(t, q) /\ t.routes[q].isVset
                           /\ {t.routes[q].from, t.routes[q].to} = {n, w}
                           /\ EndShape(n, t.routes[q])
    BY DEF NodeOK, VsetOK
  <2> QED BY <1>2, <2>1
<1>6. NonEssOK(n, t1, ne)
  BY <1>2 DEF NodeOK, NonEssOK
<1> QED BY <1>1, <1>3, <1>4, <1>5, <1>6 DEF NodeOK, t1

(* The node the state of the others depends on ...                          *)
LEMMA StepNode ==
  ASSUME NEW e, NodesOK(e), NEW n \in Nodes,
         NodeOK(e, used, n, tbl'[n], vset'[n], nonEss'[n], lost'[n], linked'[n]),
         \A k \in Nodes \ {n} : /\ tbl'[k] = tbl[k] /\ vset'[k] = vset[k]
                                /\ nonEss'[k] = nonEss[k] /\ lost'[k] = lost[k]
                                /\ linked'[k] = linked[k],
         UNCHANGED used
  PROVE  NodesOK(e)'
<1>1. \A k \in Nodes : NodeOK(e, used, k, tbl'[k], vset'[k], nonEss'[k], lost'[k], linked'[k])
  <2> TAKE k \in Nodes
  <2>1. CASE k = n
    BY <2>1
  <2>2. CASE k # n
    BY <2>2 DEF NodesOK
  <2> QED BY <2>1, <2>2
<1> QED BY <1>1 DEF NodesOK

(* What removeEndpointOnTeardown leaves does not mention the routes.        *)
LEMMA TeardownSets ==
  ASSUME NEW n \in Nodes, VsetType(n, vset[n]),
         VsetOK(n, tbl[n], vset[n]), NonEssOK(n, tbl[n], nonEss[n]), NEW ends
  PROVE  /\ DOMAIN VsetAfterTeardown(n, ends) \subseteq DOMAIN vset[n]
         /\ \A w \in DOMAIN VsetAfterTeardown(n, ends) :
              /\ VsetAfterTeardown(n, ends)[w] # {}
              /\ VsetAfterTeardown(n, ends)[w] \subseteq (vset[n][w] \ ends)
         /\ NonEssAfterTeardown(n, ends) \subseteq (nonEss[n] \ ends)
<1> DEFINE gone(w) == {p \in ends : tbl[n].routes[p].isVset /\ OtherEnd(n, tbl[n].routes[p]) = w}
           v1 == VsetAfterTeardown(n, ends)
<1>1. /\ DOMAIN v1 = {w \in DOMAIN vset[n] : gone(w) # {} => ~ (vset[n][w] \subseteq gone(w))}
      /\ \A w \in DOMAIN v1 : v1[w] = vset[n][w] \ gone(w)
  BY DEF VsetAfterTeardown
<1> HIDE DEF v1
<1>2. \A w \in DOMAIN vset[n] : \A p \in vset[n][w] : p \in ends => p \in gone(w)
  <2> SUFFICES ASSUME NEW w \in DOMAIN vset[n], NEW p \in vset[n][w], p \in ends
               PROVE  tbl[n].routes[p].isVset /\ OtherEnd(n, tbl[n].routes[p]) = w
    OBVIOUS
  <2>1. /\ tbl[n].routes[p].isVset /\ {tbl[n].routes[p].from, tbl[n].routes[p].to} = {n, w}
        /\ w # n
    BY DEF VsetOK, VsetType
  <2> QED BY <2>1 DEF OtherEnd
<1>3. \A w \in DOMAIN v1 : v1[w] # {}
  BY <1>1 DEF VsetOK
<1>4. \A w \in DOMAIN v1 : v1[w] \subseteq (vset[n][w] \ ends)
  BY <1>1, <1>2
<1>5. NonEssAfterTeardown(n, ends) \subseteq (nonEss[n] \ ends)
  BY DEF NonEssOK, NonEssAfterTeardown
<1> QED BY <1>1, <1>3, <1>4, <1>5 DEF v1

(* removeRouteFromLostPneiBrokenVroutes.                                    *)
LEMMA ForgetLists ==
  ASSUME NEW l, LostType(l), NEW gone
  PROVE  /\ DOMAIN ForgetBroken(l, gone) \subseteq DOMAIN l
         /\ \A x \in DOMAIN ForgetBroken(l, gone) : \A p :
              p \in ForgetBroken(l, gone)[x].broken <=> p \in l[x].broken /\ <<p, x>> \notin gone
<1> DEFINE of(x) == {p \in PathIds : <<p, x>> \in gone}
           l1 == ForgetBroken(l, gone)
<1>1. /\ DOMAIN l1 \subseteq DOMAIN l
      /\ \A x \in DOMAIN l1 : l1[x] = [l[x] EXCEPT !.broken = @ \ of(x)]
  BY DEF ForgetBroken
<1> HIDE DEF l1
<1>2. \A x \in DOMAIN l1 : l1[x].broken = l[x].broken \ of(x) /\ l[x].broken \subseteq PathIds
  BY <1>1 DEF LostType, LostEntry
<1> QED BY <1>1, <1>2 DEF l1

-----------------------------------------------------------------------------
(* The handlers.                                                           *)

(* What is known of a node before a handler runs.                           *)
LEMMA NodeGives ==
  ASSUME Inv, NEW e, NodesOK(e), NEW n \in Nodes
  PROVE  /\ NodeOK(e, used, n, tbl[n], vset[n], nonEss[n], lost[n], linked[n])
         /\ NodeTable(tbl[n]) /\ VsetType(n, vset[n]) /\ LostType(lost[n])
         /\ nonEss[n] \subseteq PathIds
         /\ linked[n] \subseteq Nodes /\ NullVid \notin linked[n]
BY RouteAssumption DEF NodesOK, Inv, Tables, Vsets, Losts, NonEss, World, Nodes

(* vrrTeardownPath of a vroute in the table: whichever lists it is on, it   *)
(* leaves them, since a node that lists it is one of its ends or has lost    *)
(* one of its hops.                                                         *)
LEMMA TeardownKnownOK ==
  ASSUME Inv, NEW e, AllOK(e), NEW n \in Nodes, NEW m \in Nodes, chan[m][n] # <<>>,
         NEW p \in PathIds, InTable(tbl[n], p), NEW me \in BOOLEAN, me,
         TeardownPath(n, m, p, me), UNCHANGED <<linked, used>>
  PROVE  AllOK(e)'
<1> DEFINE r    == tbl[n].routes[p]
           ends == IF n \in {r.from, r.to} THEN {p} ELSE {}
           l1   == ForgetBroken(lost[n], BrokenHops(p, r))
           v1   == VsetAfterTeardown(n, ends)
           ne1  == NonEssAfterTeardown(n, ends)
<1>1. /\ tbl' = [tbl EXCEPT ![n] = RemoveRoutes(tbl[n], {p})]
      /\ lost' = [lost EXCEPT ![n] = l1]
      /\ vset' = [vset EXCEPT ![n] = v1]
      /\ nonEss' = [nonEss EXCEPT ![n] = ne1]
      /\ Reply(n, m, TeardownPathOut(n, p, m))
  BY DEF TeardownPath, RemoveRoute
<1>2. NodesOK(e) /\ chan \in ChansOf(Truthful(e, used))
  BY DEF AllOK
<1>3. /\ NodeOK(e, used, n, tbl[n], vset[n], nonEss[n], lost[n], linked[n])
      /\ VsetType(n, vset[n]) /\ LostType(lost[n]) /\ nonEss[n] \subseteq PathIds
  BY <1>2, NodeGives
<1>4. /\ VsetOK(n, tbl[n], vset[n]) /\ NonEssOK(n, tbl[n], nonEss[n])
      /\ ListOK(tbl[n], lost[n], linked[n])
  BY <1>3 DEF NodeOK
<1>5. /\ DOMAIN v1 \subseteq DOMAIN vset[n]
      /\ \A w \in DOMAIN v1 : v1[w] # {} /\ v1[w] \subseteq (vset[n][w] \ {p})
      /\ ne1 \subseteq (nonEss[n] \ {p})
  <2>1. \A w \in DOMAIN vset[n] : p \in vset[n][w] => p \in ends
    BY <1>4 DEF VsetOK
  <2>2. p \in nonEss[n] => p \in ends
    BY <1>4 DEF NonEssOK, EndShape
  <2> HIDE DEF ends
  <2>3. /\ DOMAIN v1 \subseteq DOMAIN vset[n]
        /\ \A w \in DOMAIN v1 : v1[w] # {} /\ v1[w] \subseteq (vset[n][w] \ ends)
        /\ ne1 \subseteq (nonEss[n] \ ends)
    BY <1>3, <1>4, TeardownSets
  <2> QED BY <2>1, <2>2, <2>3
<1>6. /\ DOMAIN l1 \subseteq DOMAIN lost[n]
      /\ \A x \in DOMAIN l1 : l1[x].broken \subseteq (lost[n][x].broken \ {p})
  <2> DEFINE gone == BrokenHops(p, r)
  <2>1. \A x \in DOMAIN lost[n] : p \in lost[n][x].broken => <<p, x>> \in gone
    <3> SUFFICES ASSUME NEW x \in DOMAIN lost[n], p \in lost[n][x].broken
                 PROVE  x \in Nodes /\ ((x = r.prev /\ PrevBroken(r)) \/ (x = r.next /\ NextBroken(r)))
      BY DEF BrokenHops
    <3> QED BY <1>3, <1>4 DEF ListOK, CutBy, LostType
  <2> HIDE DEF gone
  <2>2. /\ DOMAIN ForgetBroken(lost[n], gone) \subseteq DOMAIN lost[n]
        /\ \A x \in DOMAIN ForgetBroken(lost[n], gone) : \A q :
             q \in ForgetBroken(lost[n], gone)[x].broken
               <=> q \in lost[n][x].broken /\ <<q, x>> \notin gone
    BY <1>3, ForgetLists
  <2>3. /\ DOMAIN ForgetBroken(lost[n], gone) \subseteq DOMAIN lost[n]
        /\ \A x \in DOMAIN ForgetBroken(lost[n], gone) :
             ForgetBroken(lost[n], gone)[x].broken \subseteq (lost[n][x].broken \ {p})
    BY <2>1, <2>2
  <2> QED BY <2>3 DEF gone
<1> HIDE DEF l1, v1, ne1
<1>7. NodeOK(e, used, n, RemoveRoutes(tbl[n], {p}), v1, ne1, l1, linked[n])
  BY <1>3, <1>5, <1>6, RemoveOK
<1>8. NodesOK(e)'
  <2>1. /\ tbl'[n] = RemoveRoutes(tbl[n], {p}) /\ vset'[n] = v1 /\ nonEss'[n] = ne1
        /\ lost'[n] = l1 /\ linked'[n] = linked[n]
    BY <1>1 DEF Inv, Tables, Vsets, Losts, NonEss
  <2>2. \A k \in Nodes \ {n} : /\ tbl'[k] = tbl[k] /\ vset'[k] = vset[k]
                               /\ nonEss'[k] = nonEss[k] /\ lost'[k] = lost[k]
                               /\ linked'[k] = linked[k]
    BY <1>1 DEF Inv, Tables, Vsets, Losts, NonEss
  <2> QED BY <1>2, <1>7, <2>1, <2>2, StepNode
<1>9. chan' \in ChansOf(Truthful(e, used))
  <2> DEFINE M == Truthful(e, used)
  <2>1. TeardownPathOut(n, p, m) \in OutsOf(M)
    BY TeardownPathOutTrue
  <2> HIDE DEF M
  <2>2. chan \in ChansOf(M) => chan' \in ChansOf(M)
    BY <1>1, <2>1, ReplyOf
  <2> QED BY <1>2, <2>2 DEF M
<1> QED BY <1>8, <1>9 DEF AllOK

(* vrrTeardownPath of a vroute that is not in the table changes no state.   *)
LEMMA TeardownUnknownOK ==
  ASSUME Inv, NEW e, AllOK(e), NEW n \in Nodes, NEW m \in Nodes, chan[m][n] # <<>>,
         NEW p \in PathIds, ~InTable(tbl[n], p), NEW me,
         TeardownPath(n, m, p, me), UNCHANGED <<linked, used>>
  PROVE  AllOK(e)'
<1>1. /\ tbl' = [tbl EXCEPT ![n] = RemoveRoutes(tbl[n], {p})]
      /\ lost' = [lost EXCEPT ![n] = lost[n]]
      /\ vset' = [vset EXCEPT ![n] = VsetAfterTeardown(n, {})]
      /\ nonEss' = [nonEss EXCEPT ![n] = NonEssAfterTeardown(n, {})]
      /\ Reply(n, m, TeardownPathOut(n, p, m))
  BY DEF TeardownPath, RemoveRoute
<1>2. NodesOK(e) /\ chan \in ChansOf(Truthful(e, used))
  BY DEF AllOK
<1>3. /\ NodeOK(e, used, n, tbl[n], vset[n], nonEss[n], lost[n], linked[n])
      /\ VsetType(n, vset[n]) /\ LostType(lost[n]) /\ nonEss[n] \subseteq PathIds
  BY <1>2, NodeGives
<1>4. /\ VsetOK(n, tbl[n], vset[n]) /\ NonEssOK(n, tbl[n], nonEss[n])
      /\ ListOK(tbl[n], lost[n], linked[n])
  BY <1>3 DEF NodeOK
<1> DEFINE v1 == VsetAfterTeardown(n, {})
           ne1 == NonEssAfterTeardown(n, {})
<1>5. /\ DOMAIN v1 \subseteq DOMAIN vset[n]
      /\ \A w \in DOMAIN v1 : v1[w] # {} /\ v1[w] \subseteq (vset[n][w] \ {p})
      /\ ne1 \subseteq (nonEss[n] \ {p})
  <2>1. \A w \in DOMAIN vset[n] : p \notin vset[n][w]
    BY <1>4 DEF VsetOK
  <2>2. p \notin nonEss[n]
    BY <1>4 DEF NonEssOK
  <2>3. /\ DOMAIN v1 \subseteq DOMAIN vset[n]
        /\ \A w \in DOMAIN v1 : v1[w] # {} /\ v1[w] \subseteq (vset[n][w] \ {})
        /\ ne1 \subseteq (nonEss[n] \ {})
    BY <1>3, <1>4, TeardownSets
  <2> QED BY <2>1, <2>2, <2>3
<1>6. \A x \in DOMAIN lost[n] : lost[n][x].broken \subseteq (lost[n][x].broken \ {p})
  BY <1>4 DEF ListOK
<1> HIDE DEF v1, ne1
<1>7. NodeOK(e, used, n, RemoveRoutes(tbl[n], {p}), v1, ne1, lost[n], linked[n])
  BY <1>3, <1>5, <1>6, RemoveOK
<1>8. NodesOK(e)'
  <2>1. /\ tbl'[n] = RemoveRoutes(tbl[n], {p}) /\ vset'[n] = v1 /\ nonEss'[n] = ne1
        /\ lost'[n] = lost[n] /\ linked'[n] = linked[n]
    BY <1>1 DEF Inv, Tables, Vsets, Losts, NonEss, v1, ne1
  <2>2. \A k \in Nodes \ {n} : /\ tbl'[k] = tbl[k] /\ vset'[k] = vset[k]
                               /\ nonEss'[k] = nonEss[k] /\ lost'[k] = lost[k]
                               /\ linked'[k] = linked[k]
    BY <1>1 DEF Inv, Tables, Vsets, Losts, NonEss
  <2> QED BY <1>2, <1>7, <2>1, <2>2, StepNode
<1>9. chan' \in ChansOf(Truthful(e, used))
  <2> DEFINE M == Truthful(e, used)
  <2>1. TeardownPathOut(n, p, m) \in OutsOf(M)
    BY TeardownPathOutTrue
  <2> HIDE DEF M
  <2>2. chan \in ChansOf(M) => chan' \in ChansOf(M)
    BY <1>1, <2>1, ReplyOf
  <2> QED BY <1>2, <2>2 DEF M
<1> QED BY <1>8, <1>9 DEF AllOK

(* vrrAdd demotes routes: their hops and ends stay.                         *)
LEMMA DemotedRoutes ==
  ASSUME NEW t, NodeTable(t), NEW D, NEW q \in PathIds
  PROVE  /\ InTable(DemoteRoutes(t, D), q) <=> InTable(t, q)
         /\ q \notin D => DemoteRoutes(t, D).routes[q] = t.routes[q]
         /\ q \in D /\ InTable(t, q) => ~DemoteRoutes(t, D).routes[q].isVset
         /\ InTable(t, q) =>
              /\ DemoteRoutes(t, D).routes[q].from = t.routes[q].from
              /\ DemoteRoutes(t, D).routes[q].to = t.routes[q].to
              /\ DemoteRoutes(t, D).routes[q].prev = t.routes[q].prev
              /\ DemoteRoutes(t, D).routes[q].next = t.routes[q].next
              /\ DemoteRoutes(t, D).routes[q].prevhops = t.routes[q].prevhops
              /\ PrevBroken(DemoteRoutes(t, D).routes[q]) <=> PrevBroken(t.routes[q])
              /\ NextBroken(DemoteRoutes(t, D).routes[q]) <=> NextBroken(t.routes[q])
<1> DEFINE r == t.routes[q]
           s == DemoteRoutes(t, D).routes[q]
<1>1. s = IF q \in D /\ InTable(t, q) THEN [r EXCEPT !.isVset = FALSE] ELSE r
  BY DEF DemoteRoutes
<1>2. CASE q \in D /\ InTable(t, q)
  <2>1. r \in Route /\ s = [r EXCEPT !.isVset = FALSE]
    BY <1>1, <1>2, NodeTableFacts
  <2> HIDE DEF r, s
  <2>2. /\ s \in Route /\ ~s.isVset /\ s.from = r.from /\ s.to = r.to /\ s.prev = r.prev
        /\ s.next = r.next /\ s.prevhops = r.prevhops /\ s.unavail = r.unavail
    BY <2>1 DEF Route
  <2>3. s # NoRoute
    BY <2>2, RouteAssumption
  <2>4. (PrevBroken(s) <=> PrevBroken(r)) /\ (NextBroken(s) <=> NextBroken(r))
    BY <2>2 DEF PrevBroken, NextBroken
  <2> QED BY <1>2, <2>2, <2>3, <2>4 DEF InTable, r, s
<1>3. CASE ~(q \in D /\ InTable(t, q))
  <2>1. s = r
    BY <1>1, <1>3
  <2> QED BY <1>3, <2>1 DEF InTable
<1> QED BY <1>2, <1>3

(* vrrAdd of src at n, with the vset route r to it.                         *)
LEMMA AdmitOK ==
  ASSUME NEW e, NEW u, NEW n \in Nodes, NodeTable(tbl[n]), VsetType(n, vset[n]),
         NodeOK(e, u, n, tbl[n], vset[n], nonEss[n], lost[n], linked[n]),
         LostType(lost[n]), nonEss[n] \subseteq PathIds,
         NEW src \in Nodes, NEW p \in PathIds, ~InTable(tbl[n], p), p \in u,
         NEW r \in Route, r.unavail = 0, r.isVset, {r.from, r.to} = {n, src}, EndShape(n, r),
         EntryOK(e, linked[n], p, r)
  PROVE  NodeOK(e, u, n, DemoteRoutes(AddRoute(tbl[n], p, r), Demoted(n, src)),
                VsetAfterAdmit(n, src, p), nonEss[n] \cup Demoted(n, src), lost[n], linked[n])
<1> DEFINE t  == AddRoute(tbl[n], p, r)
           D  == Demoted(n, src)
           t1 == DemoteRoutes(t, D)
           v1 == VsetAfterAdmit(n, src, p)
           ls == linked[n]
<1>1. /\ NodeOK(e, u, n, t, vset[n], nonEss[n], lost[n], ls)
      /\ t.routes = [tbl[n].routes EXCEPT ![p] = r]
  BY AddOK
<1>2. NodeTable(t)
  BY AddNodeTable
<1>3. InTable(t, p) /\ t.routes[p] = r
  <2>1. tbl[n].routes \in [PathIds -> Route \cup {NoRoute}] /\ r # NoRoute
    BY NodeTableFacts, RouteAssumption
  <2> QED BY <1>1, <2>1 DEF InTable
<1>4. /\ DOMAIN v1 = (DOMAIN vset[n] \ Admit(n, src).removed) \cup {src}
      /\ v1[src] = {p}
      /\ \A w \in DOMAIN v1 : w # src => v1[w] = vset[n][w]
  BY DEF VsetAfterAdmit
<1>5. \A q \in D : \E w \in DOMAIN vset[n] : w \in Admit(n, src).removed /\ q \in vset[n][w]
  BY DEF Demoted
<1>6. D \subseteq PathIds /\ p \notin D
  <2>1. \A w \in DOMAIN vset[n] : p \notin vset[n][w]
    BY DEF NodeOK, VsetOK
  <2> QED BY <1>5, <2>1 DEF VsetType
<1>7. VsetOK(n, t, vset[n]) /\ NonEssOK(n, t, nonEss[n]) /\ TableOK(e, u, ls, t)
      /\ ListOK(t, lost[n], ls)
  BY <1>1 DEF NodeOK
<1> HIDE DEF t, D, v1, ls
<1>8. TableOK(e, u, ls, t1)
  <2> SUFFICES ASSUME NEW q \in PathIds, InTable(t1, q)
               PROVE  q \in u /\ EntryOK(e, ls, q, t1.routes[q])
    BY DEF TableOK
  <2>1. InTable(t, q) /\ q \in u /\ EntryOK(e, ls, q, t.routes[q])
    BY <1>2, <1>7, DemotedRoutes DEF TableOK
  <2>2. /\ t1.routes[q].from = t.routes[q].from /\ t1.routes[q].to = t.routes[q].to
        /\ t1.routes[q].prev = t.routes[q].prev /\ t1.routes[q].next = t.routes[q].next
        /\ t1.routes[q].prevhops = t.routes[q].prevhops
        /\ PrevBroken(t1.routes[q]) <=> PrevBroken(t.routes[q])
        /\ NextBroken(t1.routes[q]) <=> NextBroken(t.routes[q])
    BY <1>2, <2>1, DemotedRoutes
  <2> HIDE DEF t1
  <2> QED BY <2>1, <2>2 DEF EntryOK, Passed, Usable
<1>9. ListOK(t1, lost[n], ls)
  <2> SUFFICES ASSUME NEW x \in DOMAIN lost[n]
               PROVE  /\ x \notin ls
                      /\ \A q \in lost[n][x].broken : InTable(t1, q) /\ CutBy(t1.routes[q], x)
    BY DEF ListOK
  <2>1. /\ x \notin ls /\ lost[n][x].broken \subseteq PathIds
        /\ \A q \in lost[n][x].broken : InTable(t, q) /\ CutBy(t.routes[q], x)
    BY <1>7 DEF ListOK, LostType, LostEntry
  <2> SUFFICES ASSUME NEW q \in lost[n][x].broken
               PROVE  InTable(t1, q) /\ CutBy(t1.routes[q], x)
    BY <2>1
  <2>2. /\ InTable(t1, q)
        /\ t1.routes[q].prev = t.routes[q].prev /\ t1.routes[q].next = t.routes[q].next
        /\ PrevBroken(t1.routes[q]) <=> PrevBroken(t.routes[q])
        /\ NextBroken(t1.routes[q]) <=> NextBroken(t.routes[q])
    BY <1>2, <2>1, DemotedRoutes
  <2> HIDE DEF t1
  <2> QED BY <2>1, <2>2 DEF CutBy
<1>10. VsetOK(n, t1, v1)
  <2> SUFFICES ASSUME NEW w \in DOMAIN v1
               PROVE  /\ v1[w] # {}
                      /\ \A q \in v1[w] : /\ InTable(t1, q) /\ t1.routes[q].isVset
                                          /\ {t1.routes[q].from, t1.routes[q].to} = {n, w}
                                          /\ EndShape(n, t1.routes[q])
    BY DEF VsetOK
  <2>1. CASE w = src
    <3>1. InTable(t1, p) /\ t1.routes[p] = r
      BY <1>2, <1>3, <1>6, DemotedRoutes
    <3> QED BY <1>4, <2>1, <3>1
  <2>2. CASE w # src
    <3>1. w \in DOMAIN vset[n] /\ w \notin Admit(n, src).removed /\ v1[w] = vset[n][w]
      BY <1>4, <2>2
    <3>2. /\ vset[n][w] # {} /\ vset[n][w] \subseteq PathIds
          /\ \A q \in vset[n][w] : /\ InTable(t, q) /\ t.routes[q].isVset
                                   /\ {t.routes[q].from, t.routes[q].to} = {n, w}
                                   /\ EndShape(n, t.routes[q])
      BY <1>7, <3>1 DEF VsetOK, VsetType
    <3>3. \A q \in vset[n][w] : q \notin D
      <4> SUFFICES ASSUME NEW q \in vset[n][w], q \in D
                   PROVE  FALSE
        OBVIOUS
      <4>1. PICK z \in DOMAIN vset[n] : z \in Admit(n, src).removed /\ q \in vset[n][z]
        BY <1>5
      <4>2. {t.routes[q].from, t.routes[q].to} = {n, z} /\ z # n /\ w # n
        BY <1>7, <3>1, <4>1 DEF VsetOK, VsetType
      <4>3. {t.routes[q].from, t.routes[q].to} = {n, w}
        BY <3>2
      <4>4. z = w
        BY <4>2, <4>3
      <4> QED BY <3>1, <4>1, <4>4
    <3>4. \A q \in vset[n][w] : InTable(t1, q) /\ t1.routes[q] = t.routes[q]
      BY <1>2, <3>2, <3>3, DemotedRoutes
    <3> QED BY <3>1, <3>2, <3>4
  <2> QED BY <2>1, <2>2
<1>11. NonEssOK(n, t1, nonEss[n] \cup D)
  <2> SUFFICES ASSUME NEW q \in nonEss[n] \cup D
               PROVE  InTable(t1, q) /\ ~t1.routes[q].isVset /\ EndShape(n, t1.routes[q])
    BY DEF NonEssOK
  <2>1. q \in PathIds /\ InTable(t, q) /\ EndShape(n, t.routes[q])
        /\ (q \in D \/ ~t.routes[q].isVset)
    <3>1. CASE q \in D
      BY <1>5, <1>6, <1>7, <3>1 DEF VsetOK
    <3>2. CASE q \in nonEss[n]
      BY <1>7, <3>2 DEF NonEssOK
    <3> QED BY <3>1, <3>2
  <2>2. /\ InTable(t1, q) /\ ~t1.routes[q].isVset
        /\ t1.routes[q].from = t.routes[q].from /\ t1.routes[q].to = t.routes[q].to
        /\ t1.routes[q].prev = t.routes[q].prev /\ t1.routes[q].next = t.routes[q].next
    BY <1>2, <2>1, DemotedRoutes
  <2> HIDE DEF t1
  <2> QED BY <2>1, <2>2 DEF EndShape
<1> QED BY <1>8, <1>9, <1>10, <1>11 DEF NodeOK, t, D, v1, ls

(* processSetupReq: a path id nobody knows gets its two ends.               *)
LEMMA AnswerSetupOK ==
  ASSUME Inv, NEW e \in EndsOf, AllOK(e), NEW n \in Nodes, NEW newnode \in Nodes,
         NEW p \in PathIds, NEW nh \in Hops, AnswerSetup(n, newnode, p, nh)
  PROVE  LostInv'
<1> DEFINE r  == NewRoute(n, newnode, NullVid, nh, TRUE, 0, <<>>)
           e1 == [e EXCEPT ![p] = <<n, newnode>>]
           u1 == used \cup {p}
           t1 == DemoteRoutes(AddRoute(tbl[n], p, r), Demoted(n, newnode))
           v1 == VsetAfterAdmit(n, newnode, p)
           ne1 == nonEss[n] \cup Demoted(n, newnode)
           msg == SetupReplyMsg(p, n, newnode, <<n>>)
<1>1. /\ newnode # n /\ p \notin used /\ nh \in linked[n] \cup {newnode}
      /\ nh \in linked[n] /\ nh # NullVid
      /\ used' = u1
      /\ tbl' = [tbl EXCEPT ![n] = t1]
      /\ vset' = [vset EXCEPT ![n] = v1]
      /\ nonEss' = [nonEss EXCEPT ![n] = ne1]
      /\ chan' = After(chan, n, Tell(nh, msg))
      /\ UNCHANGED <<lost, linked>>
  BY DEF AnswerSetup, NextHops, Send
<1>2. e1 \in EndsOf /\ e1[p] = <<n, newnode>> /\ \A q \in used : e1[q] = e[q]
  BY <1>1 DEF EndsOf, Inv, World
<1>3. NodesOK(e) /\ chan \in ChansOf(Truthful(e, used))
  BY DEF AllOK
<1>4. /\ NodeOK(e, used, n, tbl[n], vset[n], nonEss[n], lost[n], linked[n])
      /\ NodeTable(tbl[n]) /\ VsetType(n, vset[n]) /\ LostType(lost[n])
      /\ nonEss[n] \subseteq PathIds
  BY <1>3, NodeGives
<1>5. ~InTable(tbl[n], p)
  BY <1>1, <1>4 DEF NodeOK, TableOK
<1>6. /\ r \in Route /\ r.unavail = 0 /\ r.isVset /\ {r.from, r.to} = {n, newnode}
      /\ EndShape(n, r)
  BY <1>1 DEF NewRoute, Route, Hops, Status, Nodes, EndShape
<1>7. EntryOK(e1, linked[n], p, r)
  BY <1>1, <1>2 DEF EntryOK, Passed, Usable, NewRoute
<1> HIDE DEF e1, r
<1>8. \A k \in Nodes : NodeOK(e1, u1, k, tbl[k], vset[k], nonEss[k], lost[k], linked[k])
  <2> TAKE k \in Nodes
  <2>1. NodeOK(e, used, k, tbl[k], vset[k], nonEss[k], lost[k], linked[k])
    BY <1>3 DEF NodesOK
  <2> QED BY <1>2, <2>1, NodeLearns
<1>9. NodeOK(e1, u1, n, t1, v1, ne1, lost[n], linked[n])
  BY <1>4, <1>5, <1>6, <1>7, <1>8, AdmitOK
<1> HIDE DEF t1, v1, ne1
<1>10. NodesOK(e1)'
  <2> SUFFICES ASSUME NEW k \in Nodes
               PROVE  NodeOK(e1, u1, k, tbl'[k], vset'[k], nonEss'[k], lost'[k], linked'[k])
    BY <1>1 DEF NodesOK
  <2>1. CASE k = n
    BY <1>1, <1>9, <2>1 DEF Inv, Tables, Vsets, NonEss
  <2>2. CASE k # n
    BY <1>1, <1>8, <2>2 DEF Inv, Tables, Vsets, NonEss
  <2> QED BY <2>1, <2>2
<1>11. chan' \in ChansOf(Truthful(e1, used'))
  <2> DEFINE M == Truthful(e1, u1)
  <2>1. chan \in ChansOf(M)
    <3>1. ChansOf(Truthful(e, used)) \subseteq ChansOf(M)
      BY <1>2, TruthLearns
    <3> QED BY <1>3, <3>1
  <2>2. msg \in M
    <3>1. /\ <<n>> \in Seq(Nodes) /\ Len(<<n>>) = 1 /\ <<n>>[1] = n
      OBVIOUS
    <3>2. msg \in SetupReplies
      BY <1>1, <3>1 DEF SetupReplyMsg, SetupReplies
    <3>3. Agrees(e1, u1, msg) /\ \A i \in 1 .. Len(msg.prevhops) : msg.prevhops[i] # msg.to
      BY <1>1, <1>2, <3>1 DEF SetupReplyMsg, Agrees
    <3> QED BY <3>2, <3>3 DEF Truthful
  <2> HIDE DEF M, msg, u1
  <2>3. chan' \in ChansOf(M)
    BY <1>1, <2>1, <2>2, TellOf, AfterOf
  <2> QED BY <1>1, <2>3 DEF M
<1> QED BY <1>2, <1>10, <1>11 DEF LostInv, AllOK

(* Reversing a sequence puts nothing in it.                                 *)
LEMMA ReverseAvoids ==
  ASSUME NEW q \in Seq(Nodes), NEW to, \A i \in 1 .. Len(q) : q[i] # to
  PROVE  \A i \in 1 .. Len(Reverse(q)) : Reverse(q)[i] # to
<1>1. Len(q) \in Nat
  BY LenProperties
<1>2. Reverse(q) = [i \in 1 .. Len(q) |-> q[(Len(q) - i) + 1]]
  BY DEF Reverse
<1>3. Len(Reverse(q)) = Len(q)
  BY <1>1, <1>2
<1>4. \A i \in 1 .. Len(q) : Reverse(q)[i] = q[(Len(q) - i) + 1] /\ (Len(q) - i) + 1 \in 1 .. Len(q)
  BY <1>1, <1>2
<1> QED BY <1>3, <1>4

(* processSetupReply at the node the vroute was asked by.                   *)
LEMMA AcceptSetupOK ==
  ASSUME Inv, NEW e, AllOK(e), NEW n \in Nodes, NEW m \in linked[n], m \in Nodes,
         chan[m][n] # <<>>, NEW msg \in Truthful(e, used), msg.type = "SetupReply",
         msg.to = n, ~InTable(tbl[n], msg.path),
         AcceptSetup(n, m, msg), UNCHANGED <<linked, used>>
  PROVE  AllOK(e)'
<1> DEFINE p  == msg.path
           r  == NewRoute(msg.from, n, m, NullVid, TRUE, 0, Reverse(msg.prevhops))
           t1 == DemoteRoutes(AddRoute(tbl[n], p, r), Demoted(n, msg.from))
           v1 == VsetAfterAdmit(n, msg.from, p)
           ne1 == nonEss[n] \cup Demoted(n, msg.from)
<1>1. /\ tbl' = [tbl EXCEPT ![n] = t1]
      /\ vset' = [vset EXCEPT ![n] = v1]
      /\ nonEss' = [nonEss EXCEPT ![n] = ne1]
      /\ Reply(n, m, Silent)
      /\ UNCHANGED lost
  BY DEF AcceptSetup
<1>2. NodesOK(e) /\ chan \in ChansOf(Truthful(e, used))
  BY DEF AllOK
<1>3. /\ NodeOK(e, used, n, tbl[n], vset[n], nonEss[n], lost[n], linked[n])
      /\ NodeTable(tbl[n]) /\ VsetType(n, vset[n]) /\ LostType(lost[n])
      /\ nonEss[n] \subseteq PathIds
  BY <1>2, NodeGives
<1>4. /\ p \in PathIds /\ msg.from \in Nodes /\ msg.from # n
      /\ p \in used /\ <<msg.from, n>> = e[p]
      /\ msg.prevhops \in Seq(Nodes)
      /\ \A i \in 1 .. Len(msg.prevhops) : msg.prevhops[i] # n
  BY SetupFacts DEF Agrees
<1>5. /\ r \in Route /\ r.unavail = 0 /\ r.isVset /\ {r.from, r.to} = {n, msg.from}
      /\ EndShape(n, r)
  <2>1. Reverse(msg.prevhops) \in Seq(Nodes)
    BY <1>4, ReverseType
  <2> QED BY <1>4, <2>1 DEF NewRoute, Route, Hops, Status, Nodes, EndShape
<1>6. EntryOK(e, linked[n], p, r)
  <2>1. \A i \in 1 .. Len(Reverse(msg.prevhops)) : Reverse(msg.prevhops)[i] # n
    BY <1>4, ReverseAvoids
  <2> QED BY <1>4, <2>1 DEF EntryOK, Passed, Usable, NewRoute
<1> HIDE DEF r
<1>7. NodeOK(e, used, n, t1, v1, ne1, lost[n], linked[n])
  BY <1>3, <1>4, <1>5, <1>6, AdmitOK
<1> HIDE DEF t1, v1, ne1
<1>8. NodesOK(e)'
  <2>1. /\ tbl'[n] = t1 /\ vset'[n] = v1 /\ nonEss'[n] = ne1
        /\ lost'[n] = lost[n] /\ linked'[n] = linked[n]
    BY <1>1 DEF Inv, Tables, Vsets, NonEss
  <2>2. \A k \in Nodes \ {n} : /\ tbl'[k] = tbl[k] /\ vset'[k] = vset[k]
                               /\ nonEss'[k] = nonEss[k] /\ lost'[k] = lost[k]
                               /\ linked'[k] = linked[k]
    BY <1>1 DEF Inv, Tables, Vsets, NonEss
  <2> QED BY <1>2, <1>7, <2>1, <2>2, StepNode
<1>9. chan' \in ChansOf(Truthful(e, used))
  <2> DEFINE M == Truthful(e, used)
  <2> HIDE DEF M
  <2>1. chan \in ChansOf(M) => chan' \in ChansOf(M)
    BY <1>1, TellOf, ReplyOf
  <2> QED BY <1>2, <2>1 DEF M
<1> QED BY <1>8, <1>9 DEF AllOK

(* A node other than the end is appended to the previous hops.              *)
LEMMA PushKeeps ==
  ASSUME NEW q \in Seq(Nodes), NEW n \in Nodes, NEW to, n # to,
         \A i \in 1 .. Len(q) : q[i] # to
  PROVE  /\ PushPrevhop(q, n) \in Seq(Nodes)
         /\ \A i \in 1 .. Len(PushPrevhop(q, n)) : PushPrevhop(q, n)[i] # to
<1>1. Len(q) \in Nat
  BY LenProperties
<1>2. CASE Len(q) < PrevhopSize
  <2>1. PushPrevhop(q, n) = Append(q, n)
    BY <1>2 DEF PushPrevhop
  <2>2. /\ Append(q, n) \in Seq(Nodes) /\ Len(Append(q, n)) = Len(q) + 1
        /\ \A i \in 1 .. Len(q) + 1 : Append(q, n)[i] = IF i = Len(q) + 1 THEN n ELSE q[i]
    OBVIOUS
  <2> HIDE DEF PushPrevhop
  <2> QED BY <1>1, <2>1, <2>2
<1>3. CASE ~(Len(q) < PrevhopSize)
  <2>1. q # <<>>
    BY <1>3, VrouteAssumption, EmptySeq
  <2>2. /\ Tail(q) \in Seq(Nodes) /\ Len(Tail(q)) = Len(q) - 1
        /\ \A i \in 1 .. Len(q) - 1 : Tail(q)[i] = q[i + 1]
    BY <2>1
  <2> DEFINE s == Tail(q)
  <2> HIDE DEF s
  <2>3. /\ Append(s, n) \in Seq(Nodes) /\ Len(Append(s, n)) = Len(s) + 1
        /\ \A i \in 1 .. Len(s) + 1 : Append(s, n)[i] = IF i = Len(s) + 1 THEN n ELSE s[i]
    <3>1. s \in Seq(Nodes)
      BY <2>2 DEF s
    <3> QED BY <3>1
  <2>4. PushPrevhop(q, n) = Append(s, n)
    BY <1>3 DEF PushPrevhop, s
  <2>5. Len(s) = Len(q) - 1 /\ \A i \in 1 .. Len(q) - 1 : s[i] = q[i + 1]
    BY <2>2 DEF s
  <2>6. \A i \in 1 .. Len(s) + 1 : Append(s, n)[i] # to
    BY <1>1, <2>3, <2>5
  <2> QED BY <2>3, <2>4, <2>6
<1> QED BY <1>2, <1>3

(* processSetupReply at a node on the way.                                  *)
LEMMA ForwardSetupOK ==
  ASSUME Inv, NEW e, AllOK(e), NEW n \in Nodes, NEW m \in linked[n], m \in Nodes,
         chan[m][n] # <<>>, NEW msg \in Truthful(e, used), msg.type = "SetupReply",
         msg.to # n, ~InTable(tbl[n], msg.path), NEW nh \in linked[n],
         ForwardSetup(n, m, msg, nh), UNCHANGED <<linked, used>>
  PROVE  AllOK(e)'
<1> DEFINE p  == msg.path
           r  == NewRoute(msg.from, msg.to, m, nh, FALSE, 0, Reverse(msg.prevhops))
           t1 == AddRoute(tbl[n], p, r)
           on == SetupReplyMsg(p, msg.from, msg.to, PushPrevhop(msg.prevhops, n))
<1>1. /\ tbl' = [tbl EXCEPT ![n] = t1]
      /\ Reply(n, m, Tell(nh, on))
      /\ UNCHANGED <<vset, nonEss, lost>>
  BY DEF ForwardSetup
<1>2. NodesOK(e) /\ chan \in ChansOf(Truthful(e, used))
  BY DEF AllOK
<1>3. /\ NodeOK(e, used, n, tbl[n], vset[n], nonEss[n], lost[n], linked[n])
      /\ NodeTable(tbl[n]) /\ linked[n] \subseteq Nodes
  BY <1>2, NodeGives
<1>4. /\ p \in PathIds /\ msg.from \in Nodes /\ msg.to \in Nodes /\ msg.from # msg.to
      /\ p \in used /\ <<msg.from, msg.to>> = e[p]
      /\ msg.prevhops \in Seq(Nodes)
      /\ \A i \in 1 .. Len(msg.prevhops) : msg.prevhops[i] # msg.to
  BY SetupFacts DEF Agrees
<1>5. r \in Route
  <2>1. Reverse(msg.prevhops) \in Seq(Nodes)
    BY <1>4, ReverseType
  <2> QED BY <1>3, <1>4, <2>1 DEF NewRoute, Route, Hops, Status, Nodes
<1>6. EntryOK(e, linked[n], p, r)
  <2>1. \A i \in 1 .. Len(Reverse(msg.prevhops)) : Reverse(msg.prevhops)[i] # msg.to
    BY <1>4, ReverseAvoids
  <2> QED BY <1>4, <2>1 DEF EntryOK, Passed, Usable, NewRoute
<1> HIDE DEF r
<1>7. NodeOK(e, used, n, t1, vset[n], nonEss[n], lost[n], linked[n])
  BY <1>3, <1>4, <1>5, <1>6, AddOK
<1> HIDE DEF t1
<1>8. NodesOK(e)'
  <2>1. /\ tbl'[n] = t1 /\ vset'[n] = vset[n] /\ nonEss'[n] = nonEss[n]
        /\ lost'[n] = lost[n] /\ linked'[n] = linked[n]
    BY <1>1 DEF Inv, Tables
  <2>2. \A k \in Nodes \ {n} : /\ tbl'[k] = tbl[k] /\ vset'[k] = vset[k]
                               /\ nonEss'[k] = nonEss[k] /\ lost'[k] = lost[k]
                               /\ linked'[k] = linked[k]
    BY <1>1 DEF Inv, Tables
  <2> QED BY <1>2, <1>7, <2>1, <2>2, StepNode
<1>9. chan' \in ChansOf(Truthful(e, used))
  <2>1. on \in Truthful(e, used)
    <3> DEFINE push == PushPrevhop(msg.prevhops, n)
    <3>1. push \in Seq(Nodes) /\ \A i \in 1 .. Len(push) : push[i] # msg.to
      BY <1>4, PushKeeps
    <3> HIDE DEF push
    <3>2. on \in SetupReplies
      BY <1>4, <3>1 DEF SetupReplyMsg, SetupReplies, push
    <3>3. Agrees(e, used, on) /\ \A i \in 1 .. Len(on.prevhops) : on.prevhops[i] # on.to
      BY <1>4, <3>1 DEF SetupReplyMsg, Agrees, push
    <3> QED BY <3>2, <3>3 DEF Truthful
  <2> DEFINE M == Truthful(e, used)
  <2> HIDE DEF M, on
  <2>2. on \in M /\ chan \in ChansOf(M) => chan' \in ChansOf(M)
    BY <1>1, TellOf, ReplyOf
  <2> QED BY <1>2, <2>1, <2>2 DEF M
<1> QED BY <1>8, <1>9 DEF AllOK

(* processSetupReply, all cases.                                            *)
LEMMA ProcessSetupReplyOK ==
  ASSUME Inv, HeardFromLinked, NEW e, AllOK(e), NEW n \in Nodes, NEW m \in Nodes,
         ProcessSetupReply(n, m)
  PROVE  AllOK(e)'
<1> DEFINE msg == Head(chan[m][n])
<1>1. chan[m][n] # <<>> /\ msg \in Truthful(e, used) /\ msg.type = "SetupReply"
  <2> DEFINE M == Truthful(e, used)
             ty == "SetupReply"
  <2>1. chan \in ChansOf(M) /\ Received(n, m, ty)
    BY DEF AllOK, ProcessSetupReply
  <2> HIDE DEF M, ty
  <2>2. chan[m][n] # <<>> /\ msg \in M /\ msg.type = ty
    BY <2>1, ReceivedOf
  <2> QED BY <2>2 DEF M, ty
<1>2. m \in linked[n] /\ NullVid \notin linked[n] /\ UNCHANGED <<linked, used>>
  BY <1>1, NodeGives DEF HeardFromLinked, ProcessSetupReply, AllOK
<1>3. \/ InTable(tbl[n], msg.path) /\ \E me \in BOOLEAN : me /\ TeardownPath(n, m, msg.path, me)
      \/ ~InTable(tbl[n], msg.path) /\ \E me \in BOOLEAN : TeardownPath(n, m, msg.path, me)
      \/ ~InTable(tbl[n], msg.path) /\ msg.to = n /\ AcceptSetup(n, m, msg)
      \/ /\ ~InTable(tbl[n], msg.path) /\ msg.to # n
         /\ \E nh \in linked[n] : ForwardSetup(n, m, msg, nh)
  BY <1>2 DEF ProcessSetupReply, NextHops
<1>4. msg.path \in PathIds
  BY <1>1, SetupFacts
<1> HIDE DEF msg
<1>5. CASE InTable(tbl[n], msg.path) /\ \E me \in BOOLEAN : me /\ TeardownPath(n, m, msg.path, me)
  BY <1>1, <1>2, <1>4, <1>5, TeardownKnownOK
<1>6. CASE ~InTable(tbl[n], msg.path) /\ \E me \in BOOLEAN : TeardownPath(n, m, msg.path, me)
  BY <1>1, <1>2, <1>4, <1>6, TeardownUnknownOK
<1>7. CASE ~InTable(tbl[n], msg.path) /\ msg.to = n /\ AcceptSetup(n, m, msg)
  BY <1>1, <1>2, <1>7, AcceptSetupOK
<1>8. CASE /\ ~InTable(tbl[n], msg.path) /\ msg.to # n
           /\ \E nh \in linked[n] : ForwardSetup(n, m, msg, nh)
  BY <1>1, <1>2, <1>8, ForwardSetupOK
<1> QED BY <1>3, <1>5, <1>6, <1>7, <1>8

(* The handler of node n changed f to g at n only, where it is v now.       *)
Only(f, g, n, v) == g[n] = v /\ \A k \in Nodes \ {n} : g[k] = f[k]

(* That is what EXCEPT means.                                               *)
LEMMA ExceptOnly ==
  ASSUME Inv, NEW n \in Nodes, NEW v
  PROVE  /\ vset' = [vset EXCEPT ![n] = v] => Only(vset, vset', n, v)
         /\ nonEss' = [nonEss EXCEPT ![n] = v] => Only(nonEss, nonEss', n, v)
         /\ lost' = [lost EXCEPT ![n] = v] => Only(lost, lost', n, v)
BY DEF Inv, Vsets, Losts, NonEss, Only

(* A handler takes routes ps out of the table of n, and whatever it does to *)
(* its lists leaves none of them there.                                     *)
Fewer(n, ps, v1, ne1, l1) ==
  /\ DOMAIN l1 \subseteq DOMAIN lost[n]
  /\ \A x \in DOMAIN l1 : l1[x].broken \subseteq (lost[n][x].broken \ ps)
  /\ DOMAIN v1 \subseteq DOMAIN vset[n]
  /\ \A w \in DOMAIN v1 : v1[w] # {} /\ v1[w] \subseteq (vset[n][w] \ ps)
  /\ ne1 \subseteq (nonEss[n] \ ps)

TakenOut(n, ps, v1, ne1, l1) ==
  /\ tbl' = [tbl EXCEPT ![n] = RemoveRoutes(tbl[n], ps)]
  /\ Only(vset, vset', n, v1) /\ Only(nonEss, nonEss', n, ne1) /\ Only(lost, lost', n, l1)
  /\ UNCHANGED <<linked, used>>

(* What is left is consistent.                                              *)
LEMMA RemoveStep ==
  ASSUME Inv, NEW e, NodesOK(e), NEW n \in Nodes, NEW ps, NEW v1, NEW ne1, NEW l1,
         Fewer(n, ps, v1, ne1, l1), TakenOut(n, ps, v1, ne1, l1)
  PROVE  NodesOK(e)'
<1>1. /\ NodeOK(e, used, n, tbl[n], vset[n], nonEss[n], lost[n], linked[n])
      /\ VsetType(n, vset[n]) /\ LostType(lost[n]) /\ nonEss[n] \subseteq PathIds
  BY NodeGives
<1>2. NodeOK(e, used, n, RemoveRoutes(tbl[n], ps), v1, ne1, l1, linked[n])
  BY <1>1, RemoveOK DEF Fewer
<1>3. /\ tbl'[n] = RemoveRoutes(tbl[n], ps) /\ vset'[n] = v1 /\ nonEss'[n] = ne1
      /\ lost'[n] = l1 /\ linked'[n] = linked[n]
  BY DEF Inv, Tables, Only, TakenOut
<1>4. \A k \in Nodes \ {n} : /\ tbl'[k] = tbl[k] /\ vset'[k] = vset[k]
                             /\ nonEss'[k] = nonEss[k] /\ lost'[k] = lost[k]
                             /\ linked'[k] = linked[k]
  BY DEF Inv, Tables, Only, TakenOut
<1>5. UNCHANGED used
  BY DEF TakenOut
<1> QED BY <1>2, <1>3, <1>4, <1>5, StepNode

(* What processTeardown does to the lists of n when m, a hop of the vroute, *)
(* sent the Teardown and x is the hop beyond.                               *)
Leaves(n, p, m, x) ==
  \/ /\ x = NullVid
     /\ vset' = [vset EXCEPT ![n] = VsetAfterTeardown(n, {p})]
     /\ nonEss' = [nonEss EXCEPT ![n] = NonEssAfterTeardown(n, {p})]
     /\ UNCHANGED lost
  \/ /\ x # NullVid /\ ~OnwardBroken(tbl[n].routes[p], m)
     /\ UNCHANGED <<vset, nonEss, lost>>
  \/ /\ x # NullVid /\ OnwardBroken(tbl[n].routes[p], m)
     /\ lost' = [lost EXCEPT ![n] = ForgetBroken(lost[n], {<<p, x>>})]
     /\ UNCHANGED <<vset, nonEss>>

(* processTeardown from a hop of the vroute.  At an end point that hop was  *)
(* the only one; elsewhere the vroute is on nobody's list but that of the   *)
(* lost pnei beyond.                                                        *)
LEMMA TeardownMineOK ==
  ASSUME Inv, NEW e, AllOK(e), NEW n \in Nodes, NEW m \in linked[n], m \in Nodes,
         NEW p \in PathIds, InTable(tbl[n], p),
         m \in {tbl[n].routes[p].prev, tbl[n].routes[p].next},
         NEW x, x = Onward(tbl[n].routes[p], m),
         tbl' = [tbl EXCEPT ![n] = RemoveRoutes(tbl[n], {p})], UNCHANGED <<linked, used>>,
         Leaves(n, p, m, x)
  PROVE  NodesOK(e)'
<1> DEFINE r == tbl[n].routes[p]
<1>1. NodesOK(e)
  BY DEF AllOK
<1>2. /\ NodeOK(e, used, n, tbl[n], vset[n], nonEss[n], lost[n], linked[n])
      /\ VsetType(n, vset[n]) /\ LostType(lost[n]) /\ nonEss[n] \subseteq PathIds
      /\ NullVid \notin Nodes
  BY <1>1, NodeGives, RouteAssumption DEF Nodes
<1>3. /\ VsetOK(n, tbl[n], vset[n]) /\ NonEssOK(n, tbl[n], nonEss[n])
      /\ ListOK(tbl[n], lost[n], linked[n])
  BY <1>2 DEF NodeOK
<1>4. \A y \in DOMAIN lost[n] : p \in lost[n][y].broken =>
        y = x /\ OnwardBroken(r, m) /\ x # NullVid
  <2> SUFFICES ASSUME NEW y \in DOMAIN lost[n], p \in lost[n][y].broken
               PROVE  y = x /\ OnwardBroken(r, m) /\ x # NullVid
    OBVIOUS
  <2>1. y \in Nodes /\ y # m /\ y # NullVid /\ y \in {r.prev, r.next}
        /\ (y = r.prev => PrevBroken(r)) /\ (y = r.next => NextBroken(r))
    BY <1>2, <1>3 DEF ListOK, CutBy, LostType
  <2> QED BY <2>1 DEF Onward, OnwardBroken
<1>5. x # NullVid => ~EndShape(n, r)
  BY <1>2 DEF EndShape, Onward
<1>6. x # NullVid => /\ \A w \in DOMAIN vset[n] : p \notin vset[n][w]
                     /\ p \notin nonEss[n]
  BY <1>3, <1>5 DEF VsetOK, NonEssOK
<1>7. \A w \in DOMAIN vset[n] : vset[n][w] # {}
  BY <1>3 DEF VsetOK
<1> HIDE DEF r
<1>8. CASE /\ x = NullVid
           /\ vset' = [vset EXCEPT ![n] = VsetAfterTeardown(n, {p})]
           /\ nonEss' = [nonEss EXCEPT ![n] = NonEssAfterTeardown(n, {p})]
           /\ UNCHANGED lost
  <2>1. /\ DOMAIN VsetAfterTeardown(n, {p}) \subseteq DOMAIN vset[n]
        /\ \A w \in DOMAIN VsetAfterTeardown(n, {p}) :
             /\ VsetAfterTeardown(n, {p})[w] # {}
             /\ VsetAfterTeardown(n, {p})[w] \subseteq (vset[n][w] \ {p})
        /\ NonEssAfterTeardown(n, {p}) \subseteq (nonEss[n] \ {p})
    BY <1>2, <1>3, TeardownSets
  <2>2. \A y \in DOMAIN lost[n] : lost[n][y].broken \subseteq (lost[n][y].broken \ {p})
    BY <1>4, <1>8
  <2>3. /\ Only(vset, vset', n, VsetAfterTeardown(n, {p}))
        /\ Only(nonEss, nonEss', n, NonEssAfterTeardown(n, {p}))
        /\ Only(lost, lost', n, lost[n])
    BY <1>8, ExceptOnly DEF Only
  <2>4. /\ Fewer(n, {p}, VsetAfterTeardown(n, {p}), NonEssAfterTeardown(n, {p}), lost[n])
        /\ TakenOut(n, {p}, VsetAfterTeardown(n, {p}), NonEssAfterTeardown(n, {p}), lost[n])
    BY <2>1, <2>2, <2>3 DEF Fewer, TakenOut
  <2> QED BY <1>1, <2>4, RemoveStep, Zenon
<1>9. CASE x # NullVid /\ UNCHANGED <<vset, nonEss>>
           /\ \/ ~OnwardBroken(r, m) /\ UNCHANGED lost
              \/ lost' = [lost EXCEPT ![n] = ForgetBroken(lost[n], {<<p, x>>})]
  <2>1. /\ \A w \in DOMAIN vset[n] : vset[n][w] # {} /\ vset[n][w] \subseteq (vset[n][w] \ {p})
        /\ nonEss[n] \subseteq (nonEss[n] \ {p})
    BY <1>6, <1>7, <1>9
  <2>2. Only(vset, vset', n, vset[n]) /\ Only(nonEss, nonEss', n, nonEss[n])
    BY <1>9 DEF Only
  <2>3. CASE ~OnwardBroken(r, m) /\ UNCHANGED lost
    <3>1. \A y \in DOMAIN lost[n] : lost[n][y].broken \subseteq (lost[n][y].broken \ {p})
      BY <1>4, <2>3
    <3>2. Only(lost, lost', n, lost[n])
      BY <2>3 DEF Only
    <3>3. /\ Fewer(n, {p}, vset[n], nonEss[n], lost[n])
          /\ TakenOut(n, {p}, vset[n], nonEss[n], lost[n])
      BY <2>1, <2>2, <3>1, <3>2 DEF Fewer, TakenOut
    <3> QED BY <1>1, <3>3, RemoveStep, Zenon
  <2>4. CASE lost' = [lost EXCEPT ![n] = ForgetBroken(lost[n], {<<p, x>>})]
    <3> DEFINE gone == {<<p, x>>}
               l1 == ForgetBroken(lost[n], gone)
    <3>1. /\ DOMAIN l1 \subseteq DOMAIN lost[n]
          /\ \A y \in DOMAIN l1 : \A q :
               q \in l1[y].broken <=> q \in lost[n][y].broken /\ <<q, y>> \notin gone
      BY <1>2, ForgetLists
    <3>2. \A y \in DOMAIN l1 : l1[y].broken \subseteq (lost[n][y].broken \ {p})
      BY <1>4, <3>1
    <3>3. Only(lost, lost', n, l1)
      BY <2>4, ExceptOnly
    <3> HIDE DEF l1, gone
    <3>4. Fewer(n, {p}, vset[n], nonEss[n], l1) /\ TakenOut(n, {p}, vset[n], nonEss[n], l1)
      BY <2>1, <2>2, <3>1, <3>2, <3>3 DEF Fewer, TakenOut
    <3> QED BY <1>1, <3>4, RemoveStep, Zenon
  <2> QED BY <1>9, <2>3, <2>4
<1> QED BY <1>8, <1>9 DEF r, Leaves

(* processTeardown, all cases.                                              *)
LEMMA ProcessTeardownOK ==
  ASSUME Inv, HeardFromLinked, NEW e, AllOK(e), NEW n \in Nodes, NEW m \in Nodes,
         ProcessTeardown(n, m)
  PROVE  AllOK(e)'
<1> DEFINE M == Truthful(e, used)
           p == Head(chan[m][n]).path
           r == tbl[n].routes[p]
           x == Onward(r, m)
<1>1. chan[m][n] # <<>> /\ p \in PathIds
  BY ReceivedType DEF ProcessTeardown, Inv, Msg, SetupReplies, Teardowns, RepairLocalReplies
<1>2. m \in linked[n] /\ UNCHANGED <<linked, used>>
  BY <1>1 DEF HeardFromLinked, ProcessTeardown, node
<1>3. TeardownMsg(p) \in M
  BY <1>1, TeardownTrue
<1>4. /\ (\E out \in {Silent, Tell(x, TeardownMsg(p))} : Reply(n, m, out))
      /\ \/ UNCHANGED node
         \/ /\ InTable(tbl[n], p) /\ m \in {r.prev, r.next}
            /\ tbl' = [tbl EXCEPT ![n] = RemoveRoutes(tbl[n], {p})]
            /\ Leaves(n, p, m, x)
  BY DEF ProcessTeardown, RemoveRoute, Leaves
<1> HIDE DEF M, x, p
<1>5. NodesOK(e)'
  <2>1. CASE UNCHANGED node
    BY <1>2, <2>1 DEF node, AllOK, NodesOK
  <2>2. CASE ~UNCHANGED node
    BY <1>1, <1>2, <1>4, <2>2, TeardownMineOK DEF x
  <2> QED BY <2>1, <2>2
<1>6. chan' \in ChansOf(M)
  <2>1. chan \in ChansOf(M)
    BY DEF AllOK, M
  <2>2. \A out \in {Silent, Tell(x, TeardownMsg(p))} : out \in OutsOf(M)
    BY <1>3, TellOf
  <2> QED BY <1>1, <1>4, <2>1, <2>2, ReplyOf
<1> QED BY <1>2, <1>5, <1>6 DEF AllOK, M

(* processNonEssRouteTeardownTimer: an end point has one hop only, so the   *)
(* lost pnei it may be cut by is the one it would have been told to.        *)
LEMMA NonEssTimerOK ==
  ASSUME Inv, NEW e, AllOK(e), NEW n \in Nodes, NonEssTimer(n)
  PROVE  AllOK(e)'
<1> DEFINE r(p)    == tbl[n].routes[p]
           ps      == {p \in nonEss[n] : InTable(tbl[n], p)}
           hop(p)  == IF r(p).from = n THEN r(p).next ELSE r(p).prev
           cut(p)  == IF r(p).from = n THEN NextBroken(r(p)) ELSE PrevBroken(r(p))
           gone    == {<<p, hop(p)>> : p \in {q \in ps : cut(q)}}
           tell    == [p \in {q \in ps : ~cut(q)} |-> hop(p)]
           l1      == ForgetBroken(lost[n], gone)
<1>1. /\ tbl' = [tbl EXCEPT ![n] = RemoveRoutes(tbl[n], ps)]
      /\ lost' = [lost EXCEPT ![n] = l1]
      /\ chan' = After(chan, n, TeardownEach(tell))
      /\ nonEss' = [nonEss EXCEPT ![n] = {}]
      /\ UNCHANGED <<vset, linked, used>>
  BY DEF NonEssTimer, Send
<1>2. NodesOK(e) /\ chan \in ChansOf(Truthful(e, used))
  BY DEF AllOK
<1>3. /\ NodeOK(e, used, n, tbl[n], vset[n], nonEss[n], lost[n], linked[n])
      /\ LostType(lost[n]) /\ nonEss[n] \subseteq PathIds /\ NullVid \notin Nodes
      /\ NodeTable(tbl[n])
  BY <1>2, NodeGives, RouteAssumption DEF Nodes
<1>4. /\ VsetOK(n, tbl[n], vset[n]) /\ NonEssOK(n, tbl[n], nonEss[n])
      /\ ListOK(tbl[n], lost[n], linked[n])
  BY <1>3 DEF NodeOK
<1>5. \A w \in DOMAIN vset[n] : vset[n][w] # {} /\ vset[n][w] \subseteq (vset[n][w] \ ps)
  BY <1>4 DEF VsetOK, NonEssOK
<1>6. \A x \in DOMAIN lost[n] : \A p \in ps : p \in lost[n][x].broken => <<p, x>> \in gone
  <2> SUFFICES ASSUME NEW x \in DOMAIN lost[n], NEW p \in ps, p \in lost[n][x].broken
               PROVE  x = hop(p) /\ cut(p)
    OBVIOUS
  <2>1. x \in Nodes /\ x # NullVid /\ x \in {r(p).prev, r(p).next}
        /\ (x = r(p).prev => PrevBroken(r(p))) /\ (x = r(p).next => NextBroken(r(p)))
    BY <1>3, <1>4 DEF ListOK, CutBy, LostType
  <2>2. EndShape(n, r(p)) /\ r(p).from # r(p).to
    BY <1>3, <1>4, NodeTableFacts DEF NonEssOK
  <2> QED BY <2>1, <2>2 DEF EndShape
<1>7. DOMAIN tell \subseteq PathIds
  BY <1>3
<1> HIDE DEF gone, tell
<1>8. /\ DOMAIN l1 \subseteq DOMAIN lost[n]
      /\ \A x \in DOMAIN l1 : l1[x].broken \subseteq (lost[n][x].broken \ ps)
  <2>1. /\ DOMAIN l1 \subseteq DOMAIN lost[n]
        /\ \A x \in DOMAIN l1 : \A q :
             q \in l1[x].broken <=> q \in lost[n][x].broken /\ <<q, x>> \notin gone
    BY <1>3, ForgetLists
  <2> HIDE DEF l1, ps
  <2> QED BY <1>6, <2>1
<1>9. {} \subseteq (nonEss[n] \ ps)
  OBVIOUS
<1> HIDE DEF l1, ps
<1>10. NodesOK(e)'
  <2>1. Only(vset, vset', n, vset[n]) /\ Only(nonEss, nonEss', n, {}) /\ Only(lost, lost', n, l1)
    BY <1>1, ExceptOnly DEF Only
  <2>2. Fewer(n, ps, vset[n], {}, l1) /\ TakenOut(n, ps, vset[n], {}, l1)
    BY <1>1, <1>5, <1>8, <1>9, <2>1 DEF Fewer, TakenOut
  <2> QED BY <1>2, <2>2, RemoveStep, Zenon
<1>11. chan' \in ChansOf(Truthful(e, used))
  <2> DEFINE M == Truthful(e, used)
  <2>1. TeardownEach(tell) \in OutsOf(M)
    BY <1>7, TeardownEachTrue
  <2> HIDE DEF M
  <2>2. chan \in ChansOf(M) => chan' \in ChansOf(M)
    BY <1>1, <2>1, AfterOf
  <2> QED BY <1>2, <2>2 DEF M
<1> QED BY <1>1, <1>10, <1>11 DEF AllOK

(* The routes of t are still those of t1, but for their hops, and those of  *)
(* an end point are as before.                                              *)
SameEnds(n, t, t1) ==
  \A p \in PathIds : InTable(t, p) =>
    /\ InTable(t1, p)
    /\ t1.routes[p].from = t.routes[p].from /\ t1.routes[p].to = t.routes[p].to
    /\ t1.routes[p].isVset = t.routes[p].isVset
    /\ EndShape(n, t.routes[p]) => EndShape(n, t1.routes[p])

(* So vset and nonEssRoutes may stay.                                       *)
LEMMA SetsKept ==
  ASSUME NEW n, NEW t, NEW t1, SameEnds(n, t, t1), NEW v, VsetType(n, v), VsetOK(n, t, v),
         NEW ne, ne \subseteq PathIds, NonEssOK(n, t, ne)
  PROVE  VsetOK(n, t1, v) /\ NonEssOK(n, t1, ne)
<1>1. VsetOK(n, t1, v)
  <2> SUFFICES ASSUME NEW w \in DOMAIN v
               PROVE  /\ v[w] # {}
                      /\ \A p \in v[w] : /\ InTable(t1, p) /\ t1.routes[p].isVset
                                         /\ {t1.routes[p].from, t1.routes[p].to} = {n, w}
                                         /\ EndShape(n, t1.routes[p])
    BY DEF VsetOK
  <2>1. /\ v[w] # {} /\ v[w] \subseteq PathIds
        /\ \A p \in v[w] : /\ InTable(t, p) /\ t.routes[p].isVset
                           /\ {t.routes[p].from, t.routes[p].to} = {n, w}
                           /\ EndShape(n, t.routes[p])
    BY DEF VsetOK, VsetType
  <2> QED BY <2>1 DEF SameEnds
<1>2. NonEssOK(n, t1, ne)
  BY DEF NonEssOK, SameEnds
<1> QED BY <1>1, <1>2

(* A handler changes table, lostPneis and LINKED pneis of n.                *)
LEMMA HopStep ==
  ASSUME Inv, NEW e, AllOK(e), NEW n \in Nodes, NEW t1, NEW l1, NEW ls1,
         TableOK(e, used, ls1, t1), ListOK(t1, l1, ls1),
         VsetOK(n, t1, vset[n]), NonEssOK(n, t1, nonEss[n]),
         tbl' = [tbl EXCEPT ![n] = t1], lost' = [lost EXCEPT ![n] = l1],
         linked' = [linked EXCEPT ![n] = ls1], UNCHANGED <<vset, nonEss, used>>
  PROVE  NodesOK(e)'
<1>1. NodeOK(e, used, n, t1, vset[n], nonEss[n], l1, ls1)
  BY DEF NodeOK
<1>2. /\ tbl'[n] = t1 /\ vset'[n] = vset[n] /\ nonEss'[n] = nonEss[n]
      /\ lost'[n] = l1 /\ linked'[n] = ls1
  BY DEF Inv, Tables, Losts, World
<1>3. \A k \in Nodes \ {n} : /\ tbl'[k] = tbl[k] /\ vset'[k] = vset[k]
                             /\ nonEss'[k] = nonEss[k] /\ lost'[k] = lost[k]
                             /\ linked'[k] = linked[k]
  BY DEF Inv, Tables, Losts, World
<1>4. NodesOK(e)
  BY DEF AllOK
<1> QED BY <1>1, <1>2, <1>3, <1>4, StepNode

(* handleLostPneis: the vroutes over the lost pnei are on its list, marked. *)
LEMMA LosePneiOK ==
  ASSUME Inv, NEW e, AllOK(e), NEW n \in Nodes, NEW x \in Nodes, LosePnei(n, x)
  PROVE  AllOK(e)'
<1> DEFINE over == RoutesOver(tbl[n], x)
           t    == tbl[n]
           l    == lost[n]
           t1   == TableAfterLost(t, x)
           l1   == IF over = {} THEN l ELSE LostWith(l, x, BrokenBy(l, x, over))
           ls1  == linked[n] \ {x}
<1>1. /\ x \in linked[n]
      /\ tbl' = [tbl EXCEPT ![n] = t1]
      /\ lost' = [lost EXCEPT ![n] = l1]
      /\ linked' = [linked EXCEPT ![n] = ls1]
      /\ UNCHANGED <<vset, nonEss, chan, used>>
  BY DEF LosePnei
<1>2. NodesOK(e) /\ chan \in ChansOf(Truthful(e, used))
  BY DEF AllOK
<1>3. /\ NodeTable(t) /\ VsetType(n, vset[n]) /\ LostType(l) /\ nonEss[n] \subseteq PathIds
      /\ TableOK(e, used, linked[n], t) /\ ListOK(t, l, linked[n])
      /\ VsetOK(n, t, vset[n]) /\ NonEssOK(n, t, nonEss[n])
  BY <1>2, NodeGives DEF NodeOK
<1>4. \A p \in PathIds :
        /\ InTable(t1, p) <=> InTable(t, p)
        /\ InTable(t, p) =>
             /\ Kept(t.routes[p], t1.routes[p])
             /\ PrevBroken(t1.routes[p]) <=> t.routes[p].prev = x \/ PrevBroken(t.routes[p])
             /\ NextBroken(t1.routes[p]) <=> t.routes[p].next = x \/ NextBroken(t.routes[p])
  BY <1>3, LostRoutes
<1>5. /\ x \notin DOMAIN l
      /\ \A p \in over : p \in PathIds /\ InTable(t, p) /\ x \in {t.routes[p].prev, t.routes[p].next}
  BY <1>1, <1>3 DEF ListOK, RoutesOver
<1>6. /\ \A y \in DOMAIN l1 : y = x \/ (y \in DOMAIN l /\ l1[y] = l[y])
      /\ x \in DOMAIN l1 => l1[x].broken = over
  BY <1>5 DEF LostWith, BrokenBy
<1> HIDE DEF t1, l1, over
<1>7. TableOK(e, used, ls1, t1)
  <2> SUFFICES ASSUME NEW p \in PathIds, InTable(t1, p)
               PROVE  p \in used /\ EntryOK(e, ls1, p, t1.routes[p])
    BY DEF TableOK
  <2>1. p \in used /\ EntryOK(e, linked[n], p, t.routes[p])
    BY <1>3, <1>4 DEF TableOK
  <2> QED BY <1>4, <2>1 DEF EntryOK, Passed, Usable, Kept
<1>8. ListOK(t1, l1, ls1)
  <2> SUFFICES ASSUME NEW y \in DOMAIN l1
               PROVE  /\ y \notin ls1
                      /\ \A p \in l1[y].broken : InTable(t1, p) /\ CutBy(t1.routes[p], y)
    BY DEF ListOK
  <2>1. CASE y = x
    <3> SUFFICES ASSUME NEW p \in over
                 PROVE  InTable(t1, p) /\ CutBy(t1.routes[p], x)
      BY <1>6, <2>1
    <3> QED BY <1>4, <1>5 DEF CutBy, Kept
  <2>2. CASE y # x
    <3>1. /\ y \notin linked[n] /\ l1[y] = l[y] /\ l[y].broken \subseteq PathIds
          /\ \A p \in l[y].broken : InTable(t, p) /\ CutBy(t.routes[p], y)
      BY <1>3, <1>6, <2>2 DEF ListOK, LostType, LostEntry
    <3> QED BY <1>4, <3>1 DEF CutBy, Kept
  <2> QED BY <2>1, <2>2
<1>9. VsetOK(n, t1, vset[n]) /\ NonEssOK(n, t1, nonEss[n])
  BY <1>3, <1>4, SetsKept DEF SameEnds, Kept, EndShape
<1> HIDE DEF ls1
<1>10. NodesOK(e)'
  BY <1>1, <1>7, <1>8, <1>9, HopStep
<1> QED BY <1>1, <1>2, <1>10 DEF AllOK

(* handleLinkedPnei: each vroute on the list of the pnei that is back goes  *)
(* over it, so the hop that is restored is the one that was marked.         *)
LEMMA LinkPneiOK ==
  ASSUME Inv, NEW e, AllOK(e), NEW n \in Nodes, NEW x \in Nodes, LinkPnei(n, x)
  PROVE  AllOK(e)'
<1> DEFINE t    == tbl[n]
           l    == lost[n]
           t1   == IF x \in DOMAIN l THEN TableAfterLinked(t, x, l[x].broken) ELSE t
           l1   == Restrict(l, DOMAIN l \ {x})
           ls1  == linked[n] \cup {x}
           mine == IF x \in DOMAIN l THEN l[x].broken ELSE {}
<1>1. /\ tbl' = [tbl EXCEPT ![n] = t1]
      /\ lost' = [lost EXCEPT ![n] = l1]
      /\ linked' = [linked EXCEPT ![n] = ls1]
      /\ UNCHANGED <<vset, nonEss, chan, used>>
  BY DEF LinkPnei
<1>2. NodesOK(e) /\ chan \in ChansOf(Truthful(e, used))
  BY DEF AllOK
<1>3. /\ NodeTable(t) /\ VsetType(n, vset[n]) /\ LostType(l) /\ nonEss[n] \subseteq PathIds
      /\ TableOK(e, used, linked[n], t) /\ ListOK(t, l, linked[n])
      /\ VsetOK(n, t, vset[n]) /\ NonEssOK(n, t, nonEss[n])
  BY <1>2, NodeGives DEF NodeOK
<1>4. \A p \in PathIds :
        /\ InTable(t1, p) <=> InTable(t, p)
        /\ InTable(t, p) =>
             /\ Kept(t.routes[p], t1.routes[p])
             /\ PrevBroken(t1.routes[p])
                  <=> PrevBroken(t.routes[p]) /\ ~(p \in mine /\ t.routes[p].prev = x)
             /\ NextBroken(t1.routes[p])
                  <=> NextBroken(t.routes[p]) /\ ~(p \in mine /\ t.routes[p].prev # x)
  <2>1. CASE x \in DOMAIN l
    BY <1>3, <2>1, LinkedRoutes
  <2>2. CASE x \notin DOMAIN l
    BY <2>2 DEF Kept
  <2> QED BY <2>1, <2>2
<1>5. \A p \in mine : x \in {t.routes[p].prev, t.routes[p].next}
  BY <1>3 DEF ListOK, CutBy
<1>6. \A y \in DOMAIN l1 : y # x /\ y \in DOMAIN l /\ l1[y] = l[y]
  BY DEF Restrict
<1> HIDE DEF t1, l1, mine
<1>7. TableOK(e, used, ls1, t1)
  <2> SUFFICES ASSUME NEW p \in PathIds, InTable(t1, p)
               PROVE  p \in used /\ EntryOK(e, ls1, p, t1.routes[p])
    BY DEF TableOK
  <2>1. p \in used /\ EntryOK(e, linked[n], p, t.routes[p])
    BY <1>3, <1>4 DEF TableOK
  <2> QED BY <1>4, <1>5, <2>1 DEF EntryOK, Passed, Usable, Kept
<1>8. ListOK(t1, l1, ls1)
  <2> SUFFICES ASSUME NEW y \in DOMAIN l1
               PROVE  /\ y \notin ls1
                      /\ \A p \in l1[y].broken : InTable(t1, p) /\ CutBy(t1.routes[p], y)
    BY DEF ListOK
  <2>1. /\ y # x /\ y \notin linked[n] /\ l1[y] = l[y] /\ l[y].broken \subseteq PathIds
        /\ \A p \in l[y].broken : InTable(t, p) /\ CutBy(t.routes[p], y)
    BY <1>3, <1>6 DEF ListOK, LostType, LostEntry
  <2> SUFFICES ASSUME NEW p \in l[y].broken
               PROVE  InTable(t1, p) /\ CutBy(t1.routes[p], y)
    BY <2>1
  <2> QED BY <1>4, <1>5, <2>1 DEF CutBy, Kept
<1>9. VsetOK(n, t1, vset[n]) /\ NonEssOK(n, t1, nonEss[n])
  BY <1>3, <1>4, SetsKept DEF SameEnds, Kept, EndShape
<1> HIDE DEF ls1
<1>10. NodesOK(e)'
  BY <1>1, <1>7, <1>8, <1>9, HopStep
<1> QED BY <1>1, <1>2, <1>10 DEF AllOK

(* A trace leads past the lost previous hop, to a LINKED pnei.              *)
LEMMA TraceFacts ==
  ASSUME World, NEW n \in Nodes, NEW r \in Route, Passed(r), NEW t \in Traces(n, r), t # <<>>
  PROVE  /\ t \in Seq(Nodes) /\ Last(t) \in linked[n] /\ t[1] # r.to
         /\ Reverse(t) \in Seq(Nodes)
         /\ \A i \in 1 .. Len(Reverse(t)) : i >= 2 => Reverse(t)[i] # r.to
<1>1. t \in Seq(Nodes) /\ Reverse(t) \in Seq(Nodes)
  BY TracesType, ReverseType
<1>2. r.from # r.to /\ r.prevhops \in Seq(Nodes) /\ Len(r.prevhops) \in Nat
  BY LenProperties DEF Route, Nodes
<1>3. \/ t = <<r.from>> /\ r.from \in linked[n]
      \/ /\ Len(r.prevhops) >= 2 /\ r.prevhops[2] \in linked[n]
         /\ t = <<r.prevhops[2]>>
      \/ Len(r.prevhops) >= 2 /\ \E h \in linked[n] : t = <<r.prevhops[2], h>>
  BY <1>2 DEF Traces
<1>4. Len(r.prevhops) >= 2 => r.prevhops[2] # r.to
  BY <1>2 DEF Passed
<1>5. CASE \E a \in linked[n] : a # r.to /\ t = <<a>>
  <2>1. PICK a \in linked[n] : a # r.to /\ t = <<a>>
    BY <1>5
  <2>2. Len(t) = 1 /\ t[1] = a /\ Last(t) = a
    BY <2>1 DEF Last
  <2>3. Len(Reverse(t)) = 1
    BY <2>2 DEF Reverse
  <2> QED BY <1>1, <2>1, <2>2, <2>3
<1>6. CASE Len(r.prevhops) >= 2 /\ \E h \in linked[n] : t = <<r.prevhops[2], h>>
  <2>1. PICK h \in linked[n] : t = <<r.prevhops[2], h>>
    BY <1>6
  <2>2. Len(t) = 2 /\ t[1] = r.prevhops[2] /\ t[2] = h /\ Last(t) = h
    BY <2>1 DEF Last
  <2>3. Len(Reverse(t)) = 2 /\ Reverse(t)[2] = t[1]
    BY <2>2 DEF Reverse
  <2>4. Last(t) \in linked[n] /\ t[1] # r.to
    BY <1>4, <1>6, <2>1, <2>2
  <2>5. \A i \in 1 .. 2 : i >= 2 => i = 2
    OBVIOUS
  <2>6. \A i \in 1 .. Len(Reverse(t)) : i >= 2 => Reverse(t)[i] # r.to
    BY <2>3, <2>4, <2>5
  <2> QED BY <1>1, <2>4, <2>6
<1> QED BY <1>2, <1>3, <1>4, <1>5, <1>6

(* processWaitRepairLinkTimer with retries left: a repaired vroute leaves   *)
(* by a LINKED pnei, and it stays on the list only if it leaves over the    *)
(* lost pnei on the other side too.                                         *)
LEMMA RepairTimerOK ==
  ASSUME Inv, NEW e, AllOK(e), NEW n \in Nodes, NEW x \in Nodes, RepairTimer(n, x)
  PROVE  AllOK(e)'
<1> DEFINE t == tbl[n]
           l == lost[n]
           r(p) == t.routes[p]
           ps == {p \in l[x].broken : InTable(t, p) /\ r(p).prev = x}
           fixedBy(choice) == {p \in ps : choice[p] # <<>>}
           traceBy(choice) == Restrict(choice, fixedBy(choice))
           doneBy(choice) == {p \in fixedBy(choice) : r(p).next # x}
           toBy(choice) == [p \in fixedBy(choice) |-> Last(traceBy(choice)[p])]
           msgsBy(choice) == [p \in fixedBy(choice) |->
                                RepairMsg(p, r(p).from, r(p).to, traceBy(choice)[p])]
<1>1. PICK choice :
        /\ \A p \in ps : choice[p] \in Traces(n, r(p))
        /\ tbl' = [tbl EXCEPT ![n] = TableAfterRepair(t, traceBy(choice))]
        /\ lost' = [lost EXCEPT ![n] = LostWith(l, x, AfterRepair(l[x], doneBy(choice)))]
        /\ chan' = After(chan, n, TellEach(toBy(choice), msgsBy(choice)))
  <2>1. \E choice \in [ps -> UNION {Traces(n, r(p)) : p \in ps}] :
          /\ \A p \in ps : choice[p] \in Traces(n, r(p))
          /\ tbl' = [tbl EXCEPT ![n] = TableAfterRepair(t, traceBy(choice))]
          /\ lost' = [lost EXCEPT ![n] = LostWith(l, x, AfterRepair(l[x], doneBy(choice)))]
          /\ Send(n, TellEach(toBy(choice), msgsBy(choice)))
    BY Zenon DEF RepairTimer
  <2> HIDE DEF t, l, r, ps, fixedBy, traceBy, doneBy, toBy, msgsBy
  <2> QED BY <2>1, Zenon DEF Send
<1>2. x \in DOMAIN l /\ UNCHANGED <<vset, nonEss, linked, used>>
  BY DEF RepairTimer
<1>3. NodesOK(e) /\ chan \in ChansOf(Truthful(e, used))
  BY DEF AllOK
<1>4. /\ NodeTable(t) /\ VsetType(n, vset[n]) /\ LostType(l) /\ nonEss[n] \subseteq PathIds
      /\ TableOK(e, used, linked[n], t) /\ ListOK(t, l, linked[n])
      /\ VsetOK(n, t, vset[n]) /\ NonEssOK(n, t, nonEss[n])
      /\ linked[n] \subseteq Nodes
  BY <1>3, NodeGives DEF NodeOK
<1> DEFINE fixed == fixedBy(choice)
           trace == traceBy(choice)
           t1 == TableAfterRepair(t, trace)
           l1 == LostWith(l, x, AfterRepair(l[x], doneBy(choice)))
           to == toBy(choice)
           msgs == msgsBy(choice)
<1>5. /\ DOMAIN trace = fixed
      /\ \A p \in fixed : trace[p] = choice[p] /\ trace[p] # <<>> /\ p \in ps
      /\ \A p \in fixed : to[p] = Last(trace[p])
                          /\ msgs[p] = RepairMsg(p, r(p).from, r(p).to, trace[p])
      /\ DOMAIN to = fixed
  BY DEF Restrict
<1>6. \A p \in ps : p \in PathIds /\ InTable(t, p) /\ r(p).prev = x /\ p \in l[x].broken
  BY <1>2, <1>4 DEF LostType, LostEntry
<1>7. /\ \A y \in DOMAIN l1 : y \in DOMAIN l
      /\ \A y \in DOMAIN l1 : y # x => l1[y] = l[y]
      /\ \A p \in l1[x].broken : p \in l[x].broken /\ (p \in fixed => r(p).next = x)
  BY <1>2 DEF LostWith, AfterRepair
<1> HIDE DEF fixed, trace, t1, l1, ps, to, msgs
<1>8. \A p \in fixed :
        /\ p \in PathIds /\ InTable(t, p) /\ r(p).prev = x /\ p \in used
        /\ <<r(p).from, r(p).to>> = e[p]
        /\ r(p).from \in Nodes /\ r(p).to \in Nodes /\ r(p).from # r(p).to
        /\ trace[p] \in Seq(Nodes) /\ trace[p] # <<>>
        /\ Last(trace[p]) \in linked[n] /\ trace[p][1] # r(p).to
        /\ Reverse(trace[p]) \in Seq(Nodes)
        /\ \A i \in 1 .. Len(Reverse(trace[p])) : i >= 2 => Reverse(trace[p])[i] # r(p).to
  <2> SUFFICES ASSUME NEW p \in fixed
               PROVE  /\ p \in PathIds /\ InTable(t, p) /\ r(p).prev = x /\ p \in used
                      /\ <<r(p).from, r(p).to>> = e[p]
                      /\ r(p).from \in Nodes /\ r(p).to \in Nodes /\ r(p).from # r(p).to
                      /\ trace[p] \in Seq(Nodes) /\ trace[p] # <<>>
                      /\ Last(trace[p]) \in linked[n] /\ trace[p][1] # r(p).to
                      /\ Reverse(trace[p]) \in Seq(Nodes)
                      /\ \A i \in 1 .. Len(Reverse(trace[p])) :
                           i >= 2 => Reverse(trace[p])[i] # r(p).to
    OBVIOUS
  <2>1. p \in PathIds /\ InTable(t, p) /\ r(p).prev = x
    BY <1>5, <1>6
  <2>2. p \in used /\ EntryOK(e, linked[n], p, r(p))
    BY <1>4, <2>1 DEF TableOK
  <2>3. /\ r(p) \in Route /\ r(p).from \in Nodes /\ r(p).to \in Nodes /\ r(p).from # r(p).to
        /\ Passed(r(p)) /\ <<r(p).from, r(p).to>> = e[p]
    BY <1>4, <2>1, <2>2, NodeTableFacts DEF EntryOK, Nodes
  <2>4. trace[p] \in Traces(n, r(p)) /\ trace[p] # <<>> /\ World
    BY <1>1, <1>5 DEF Inv
  <2> HIDE DEF r
  <2>5. /\ trace[p] \in Seq(Nodes) /\ Last(trace[p]) \in linked[n] /\ trace[p][1] # r(p).to
        /\ Reverse(trace[p]) \in Seq(Nodes)
        /\ \A i \in 1 .. Len(Reverse(trace[p])) : i >= 2 => Reverse(trace[p])[i] # r(p).to
    BY <2>3, <2>4, TraceFacts
  <2> QED BY <2>1, <2>2, <2>3, <2>4, <2>5
<1>9. \A p \in fixed :
        /\ InTable(t1, p)
        /\ t1.routes[p].from = r(p).from /\ t1.routes[p].to = r(p).to
        /\ t1.routes[p].isVset = r(p).isVset /\ t1.routes[p].next = r(p).next
        /\ t1.routes[p].prev = Last(trace[p]) /\ t1.routes[p].prevhops = Reverse(trace[p])
        /\ ~PrevBroken(t1.routes[p]) /\ (NextBroken(t1.routes[p]) <=> NextBroken(r(p)))
  BY <1>4, <1>5, <1>8, RepairedRoute DEF t1
<1>10. \A p \in PathIds \ fixed : t1.routes[p] = r(p) /\ (InTable(t1, p) <=> InTable(t, p))
  BY <1>5, NotRepaired DEF t1, InTable
<1>11. TableOK(e, used, linked[n], t1)
  <2> SUFFICES ASSUME NEW p \in PathIds, InTable(t1, p)
               PROVE  p \in used /\ EntryOK(e, linked[n], p, t1.routes[p])
    BY DEF TableOK
  <2>1. CASE p \in fixed
    <3>1. EntryOK(e, linked[n], p, r(p))
      BY <1>4, <1>8, <2>1 DEF TableOK
    <3> QED BY <1>8, <1>9, <2>1, <3>1 DEF EntryOK, Passed, Usable
  <2>2. CASE p \notin fixed
    BY <1>4, <1>10, <2>2 DEF TableOK
  <2> QED BY <2>1, <2>2
<1>12. ListOK(t1, l1, linked[n])
  <2> SUFFICES ASSUME NEW y \in DOMAIN l1
               PROVE  /\ y \notin linked[n]
                      /\ \A p \in l1[y].broken : InTable(t1, p) /\ CutBy(t1.routes[p], y)
    BY DEF ListOK
  <2>1. /\ y \in DOMAIN l /\ y \notin linked[n] /\ l[y].broken \subseteq PathIds
        /\ \A p \in l[y].broken : InTable(t, p) /\ CutBy(r(p), y)
    BY <1>4, <1>7 DEF ListOK, LostType, LostEntry
  <2> SUFFICES ASSUME NEW p \in l1[y].broken
               PROVE  InTable(t1, p) /\ CutBy(t1.routes[p], y)
    BY <2>1
  <2>2. p \in l[y].broken /\ p \in PathIds
    BY <1>7, <2>1
  <2>3. CASE p \notin fixed
    BY <1>10, <2>1, <2>2, <2>3
  <2>4. CASE p \in fixed
    <3>1. r(p).next = y /\ NextBroken(r(p))
      BY <1>7, <1>8, <2>1, <2>2, <2>4 DEF CutBy
    <3>2. Last(trace[p]) # y
      BY <1>8, <2>1, <2>4
    <3> QED BY <1>9, <2>4, <3>1, <3>2 DEF CutBy
  <2> QED BY <2>3, <2>4
<1>13. VsetOK(n, t1, vset[n]) /\ NonEssOK(n, t1, nonEss[n])
  <2>1. SameEnds(n, t, t1)
    <3> SUFFICES ASSUME NEW p \in PathIds, InTable(t, p)
                 PROVE  /\ InTable(t1, p)
                        /\ t1.routes[p].from = r(p).from /\ t1.routes[p].to = r(p).to
                        /\ t1.routes[p].isVset = r(p).isVset
                        /\ EndShape(n, r(p)) => EndShape(n, t1.routes[p])
      BY DEF SameEnds
    <3>1. CASE p \in fixed
      <4>1. r(p).prev # NullVid
        BY <1>8, <3>1, RouteAssumption DEF Nodes
      <4> QED BY <1>9, <3>1, <4>1 DEF EndShape
    <3>2. CASE p \notin fixed
      BY <1>10, <3>2
    <3> QED BY <3>1, <3>2
  <2> QED BY <1>4, <2>1, SetsKept
<1>14. NodesOK(e)'
  <2>1. /\ tbl' = [tbl EXCEPT ![n] = t1] /\ lost' = [lost EXCEPT ![n] = l1]
        /\ linked' = [linked EXCEPT ![n] = linked[n]]
        /\ UNCHANGED <<vset, nonEss, used>>
    BY <1>1, <1>2 DEF t1, l1, trace, Inv, World
  <2> QED BY <1>11, <1>12, <1>13, <2>1, HopStep
<1>15. chan' \in ChansOf(Truthful(e, used))
  <2>1. \A p \in fixed : msgs[p] \in Truthful(e, used)
    <3> SUFFICES ASSUME NEW p \in fixed
                 PROVE  RepairMsg(p, r(p).from, r(p).to, trace[p]) \in Truthful(e, used)
      BY <1>5
    <3>1. RepairMsg(p, r(p).from, r(p).to, trace[p]) \in RepairLocalReplies
      BY <1>8 DEF RepairMsg, RepairLocalReplies
    <3>2. Agrees(e, used, RepairMsg(p, r(p).from, r(p).to, trace[p]))
      BY <1>8 DEF RepairMsg, Agrees
    <3> QED BY <1>8, <3>1, <3>2 DEF Truthful, RepairMsg
  <2>2. fixed \subseteq PathIds
    BY <1>8
  <2> DEFINE M == Truthful(e, used)
  <2>3. DOMAIN to \subseteq PathIds /\ \A p \in DOMAIN to : msgs[p] \in M
    BY <1>5, <2>1, <2>2
  <2> HIDE DEF M
  <2>4. TellEach(to, msgs) \in OutsOf(M)
    BY <2>3, TellEachOf
  <2>5. chan' = After(chan, n, TellEach(to, msgs))
    BY <1>1 DEF to, msgs
  <2>6. chan \in ChansOf(M) => chan' \in ChansOf(M)
    BY <2>4, <2>5, AfterOf
  <2> QED BY <1>3, <2>6 DEF M
<1> QED BY <1>2, <1>14, <1>15 DEF AllOK

(* processWaitRepairLinkTimer without: the vroutes taken down are those of  *)
(* the list, and the only other list one of them may be on is that of the   *)
(* hop on the other side.                                                   *)
LEMMA GiveUpTimerOK ==
  ASSUME Inv, NEW e, AllOK(e), NEW n \in Nodes, NEW x \in Nodes, GiveUpTimer(n, x)
  PROVE  AllOK(e)'
<1> DEFINE t == tbl[n]
           l == lost[n]
           r(p)   == t.routes[p]
           ps     == IF x \in linked[n] THEN {}
                     ELSE {p \in l[x].broken : InTable(t, p) /\ r(p).unavail # 0}
           hop(p) == Onward(r(p), x)
           cut(p) == OnwardBroken(r(p), x)
           ends   == {p \in ps : hop(p) = NullVid}
           gone   == {<<p, hop(p)>> : p \in {q \in ps \ ends : cut(q) /\ hop(q) # x}}
           tell   == [p \in {q \in ps \ ends : ~cut(q)} |-> hop(p)]
           l1     == Restrict(ForgetBroken(l, gone), DOMAIN ForgetBroken(l, gone) \ {x})
           v1     == VsetAfterTeardown(n, ends)
           ne1    == NonEssAfterTeardown(n, ends)
<1>1. /\ tbl' = [tbl EXCEPT ![n] = RemoveRoutes(t, ps)]
      /\ vset' = [vset EXCEPT ![n] = v1]
      /\ nonEss' = [nonEss EXCEPT ![n] = ne1]
      /\ lost' = [lost EXCEPT ![n] = l1]
      /\ chan' = After(chan, n, TeardownEach(tell))
      /\ UNCHANGED <<linked, used>>
      /\ x \in DOMAIN l
  BY DEF GiveUpTimer, Send
<1>2. NodesOK(e) /\ chan \in ChansOf(Truthful(e, used))
  BY DEF AllOK
<1>3. /\ VsetType(n, vset[n]) /\ LostType(l) /\ nonEss[n] \subseteq PathIds
      /\ ListOK(t, l, linked[n])
      /\ VsetOK(n, t, vset[n]) /\ NonEssOK(n, t, nonEss[n])
      /\ NullVid \notin Nodes
  BY <1>2, NodeGives, RouteAssumption, SMTT(30) DEF NodeOK, Nodes
<1>4. \A p \in ps : p \in PathIds /\ p \in l[x].broken /\ InTable(t, p) /\ CutBy(r(p), x)
  BY <1>1, <1>3 DEF ListOK, LostType, LostEntry
<1>5. DOMAIN tell \subseteq PathIds
  BY <1>4
<1>6. \A y \in DOMAIN l : \A p \in ps : y # x /\ p \in l[y].broken => <<p, y>> \in gone
  <2> SUFFICES ASSUME NEW y \in DOMAIN l, NEW p \in ps, y # x, p \in l[y].broken
               PROVE  hop(p) = y /\ y # NullVid /\ cut(p)
    OBVIOUS
  <2>1. CutBy(r(p), x) /\ CutBy(r(p), y) /\ y \in Nodes
    BY <1>3, <1>4 DEF ListOK, LostType
  <2> QED BY <1>3, <2>1 DEF CutBy, Onward, OnwardBroken
<1>7. \A p \in ps \ ends : ~EndShape(n, r(p))
  <2> SUFFICES ASSUME NEW p \in ps, hop(p) # NullVid
               PROVE  r(p).prev # NullVid /\ r(p).next # NullVid
    BY DEF EndShape
  <2> QED BY <1>3, <1>4 DEF CutBy, Onward
<1>8. /\ DOMAIN ForgetBroken(l, gone) \subseteq DOMAIN l
      /\ \A y \in DOMAIN ForgetBroken(l, gone) : \A q :
           q \in ForgetBroken(l, gone)[y].broken <=> q \in l[y].broken /\ <<q, y>> \notin gone
  <2> HIDE DEF gone
  <2> QED BY <1>3, ForgetLists
<1>9. /\ \A p \in ends : p \in ps
      /\ \A w \in DOMAIN vset[n] : \A p \in vset[n][w] : p \in ps => p \in ends
      /\ \A p \in nonEss[n] : p \in ps => p \in ends
  BY <1>3, <1>7 DEF VsetOK, NonEssOK
<1> HIDE DEF ps, ends, gone, tell
<1>10. /\ DOMAIN l1 \subseteq DOMAIN l
       /\ \A y \in DOMAIN l1 : l1[y].broken \subseteq (l[y].broken \ ps)
  <2>1. /\ DOMAIN l1 = DOMAIN ForgetBroken(l, gone) \ {x}
        /\ \A y \in DOMAIN l1 : l1[y] = ForgetBroken(l, gone)[y]
    BY DEF Restrict
  <2> HIDE DEF l1
  <2> QED BY <1>6, <1>8, <2>1
<1>11. /\ DOMAIN v1 \subseteq DOMAIN vset[n]
       /\ \A w \in DOMAIN v1 : v1[w] # {} /\ v1[w] \subseteq (vset[n][w] \ ps)
       /\ ne1 \subseteq (nonEss[n] \ ps)
  <2>1. /\ DOMAIN v1 \subseteq DOMAIN vset[n]
        /\ \A w \in DOMAIN v1 : v1[w] # {} /\ v1[w] \subseteq (vset[n][w] \ ends)
        /\ ne1 \subseteq (nonEss[n] \ ends)
    BY <1>3, TeardownSets
  <2> HIDE DEF v1, ne1
  <2> QED BY <1>9, <2>1
<1> HIDE DEF l1, v1, ne1
<1>12. NodesOK(e)'
  <2>1. Only(vset, vset', n, v1) /\ Only(nonEss, nonEss', n, ne1) /\ Only(lost, lost', n, l1)
    BY <1>1, ExceptOnly
  <2>2. Fewer(n, ps, v1, ne1, l1) /\ TakenOut(n, ps, v1, ne1, l1)
    BY <1>1, <1>10, <1>11, <2>1, SMTT(30) DEF Fewer, TakenOut
  <2> QED BY <1>2, <2>2, RemoveStep, Zenon
<1>13. chan' \in ChansOf(Truthful(e, used))
  <2> DEFINE M == Truthful(e, used)
  <2>1. TeardownEach(tell) \in OutsOf(M)
    BY <1>5, TeardownEachTrue
  <2> HIDE DEF M
  <2>2. chan \in ChansOf(M) => chan' \in ChansOf(M)
    BY <1>1, <2>1, AfterOf
  <2> QED BY <1>2, <2>2 DEF M
<1> QED BY <1>1, <1>12, <1>13 DEF AllOK

(* processRepairLocalReply at the node that has to patch its next hop: the  *)
(* message says it is not the end of the vroute.                            *)
LEMMA PatchNextHopOK ==
  ASSUME Inv, NEW e, AllOK(e), NEW n \in Nodes, NEW m \in linked[n], m \in Nodes,
         chan[m][n] # <<>>, NEW msg \in Truthful(e, used), msg.type = "RepairLocalReply",
         msg.trace[1] = n, InTable(tbl[n], msg.path),
         PatchNextHop(n, m, msg), UNCHANGED <<linked, used>>
  PROVE  AllOK(e)'
<1> DEFINE t == tbl[n]
           l == lost[n]
           p == msg.path
           r == t.routes[p]
           t1 == TableAfterPatch(t, p, m)
           l1 == IF NextBroken(r) /\ r.next \in DOMAIN l
                 THEN LostWith(l, r.next, [broken |-> l[r.next].broken \ {p},
                                           retry |-> l[r.next].retry])
                 ELSE l
<1>1. /\ tbl' = [tbl EXCEPT ![n] = t1]
      /\ lost' = [lost EXCEPT ![n] = l1]
      /\ Reply(n, m, Silent)
      /\ UNCHANGED <<vset, nonEss>>
  BY DEF PatchNextHop
<1>2. NodesOK(e) /\ chan \in ChansOf(Truthful(e, used))
  BY DEF AllOK
<1>3. /\ NodeTable(t) /\ VsetType(n, vset[n]) /\ LostType(l) /\ nonEss[n] \subseteq PathIds
      /\ TableOK(e, used, linked[n], t) /\ ListOK(t, l, linked[n])
      /\ VsetOK(n, t, vset[n]) /\ NonEssOK(n, t, nonEss[n])
  BY <1>2, NodeGives DEF NodeOK
<1>4. /\ p \in PathIds /\ p \in used /\ <<msg.from, msg.to>> = e[p] /\ n # msg.to
  BY RepairFacts DEF Agrees
<1>5. p \in used /\ EntryOK(e, linked[n], p, r) /\ n # r.to
  BY <1>3, <1>4 DEF TableOK, EntryOK
<1>6. /\ InTable(t1, p)
      /\ t1.routes[p].from = r.from /\ t1.routes[p].to = r.to /\ t1.routes[p].isVset = r.isVset
      /\ t1.routes[p].prev = r.prev /\ t1.routes[p].next = m
      /\ t1.routes[p].prevhops = r.prevhops
      /\ (PrevBroken(t1.routes[p]) <=> PrevBroken(r)) /\ ~NextBroken(t1.routes[p])
  BY <1>3, <1>4, PatchedRoute
<1>7. \A q \in PathIds : q # p =>
        t1.routes[q] = t.routes[q] /\ (InTable(t1, q) <=> InTable(t, q))
  BY <1>3, <1>4, NotPatched DEF InTable
<1>8. \A y \in DOMAIN l1 : /\ y \in DOMAIN l /\ l1[y].broken \subseteq l[y].broken
                           /\ y = r.next /\ NextBroken(r) => p \notin l1[y].broken
  BY DEF LostWith
<1> HIDE DEF t1, l1, r
<1>9. TableOK(e, used, linked[n], t1)
  <2> SUFFICES ASSUME NEW q \in PathIds, InTable(t1, q)
               PROVE  q \in used /\ EntryOK(e, linked[n], q, t1.routes[q])
    BY DEF TableOK
  <2>1. CASE q = p
    BY <1>5, <1>6, <2>1 DEF EntryOK, Passed, Usable
  <2>2. CASE q # p
    BY <1>3, <1>7, <2>2 DEF TableOK
  <2> QED BY <2>1, <2>2
<1>10. ListOK(t1, l1, linked[n])
  <2> SUFFICES ASSUME NEW y \in DOMAIN l1
               PROVE  /\ y \notin linked[n]
                      /\ \A q \in l1[y].broken : InTable(t1, q) /\ CutBy(t1.routes[q], y)
    BY DEF ListOK
  <2>1. /\ y \in DOMAIN l /\ y \notin linked[n] /\ l[y].broken \subseteq PathIds
        /\ \A q \in l[y].broken : InTable(t, q) /\ CutBy(t.routes[q], y)
    BY <1>3, <1>8 DEF ListOK, LostType, LostEntry
  <2> SUFFICES ASSUME NEW q \in l1[y].broken
               PROVE  InTable(t1, q) /\ CutBy(t1.routes[q], y)
    BY <2>1
  <2>2. q \in l[y].broken /\ q \in PathIds
    BY <1>8, <2>1
  <2>3. CASE q # p
    BY <1>7, <2>1, <2>2, <2>3
  <2>4. CASE q = p
    <3>1. CutBy(r, y) /\ y # m
      BY <2>1, <2>2, <2>4 DEF r
    <3>2. y = r.prev /\ PrevBroken(r)
      BY <1>8, <2>4, <3>1 DEF CutBy
    <3> QED BY <1>6, <2>4, <3>1, <3>2 DEF CutBy
  <2> QED BY <2>3, <2>4
<1>11. VsetOK(n, t1, vset[n]) /\ NonEssOK(n, t1, nonEss[n])
  <2>1. SameEnds(n, t, t1)
    <3> SUFFICES ASSUME NEW q \in PathIds, InTable(t, q)
                 PROVE  /\ InTable(t1, q)
                        /\ t1.routes[q].from = t.routes[q].from
                        /\ t1.routes[q].to = t.routes[q].to
                        /\ t1.routes[q].isVset = t.routes[q].isVset
                        /\ EndShape(n, t.routes[q]) => EndShape(n, t1.routes[q])
      BY DEF SameEnds
    <3>1. CASE q = p
      BY <1>5, <1>6, <3>1 DEF EndShape, r
    <3>2. CASE q # p
      BY <1>7, <3>2
    <3> QED BY <3>1, <3>2
  <2> QED BY <1>3, <2>1, SetsKept
<1>12. NodesOK(e)'
  <2>1. linked' = [linked EXCEPT ![n] = linked[n]] /\ UNCHANGED <<vset, nonEss, used>>
    BY <1>1 DEF Inv, World
  <2> QED BY <1>1, <1>9, <1>10, <1>11, <2>1, HopStep
<1>13. chan' \in ChansOf(Truthful(e, used))
  <2> DEFINE M == Truthful(e, used)
  <2> HIDE DEF M
  <2>1. chan \in ChansOf(M) => chan' \in ChansOf(M)
    BY <1>1, TellOf, ReplyOf
  <2> QED BY <1>2, <2>1 DEF M
<1> QED BY <1>12, <1>13 DEF AllOK

(* processRepairLocalReply at the node between the two ends of the repair.  *)
LEMMA JoinRepairOK ==
  ASSUME Inv, NEW e, AllOK(e), NEW n \in Nodes, NEW m \in linked[n], m \in Nodes,
         chan[m][n] # <<>>, NEW msg \in Truthful(e, used), msg.type = "RepairLocalReply",
         ~InTable(tbl[n], msg.path), NEW nh \in linked[n],
         tbl' = [tbl EXCEPT ![n] = AddRoute(tbl[n], msg.path,
                   NewRoute(msg.from, msg.to, nh, m, FALSE, 0, <<msg.trace[1]>>))],
         Reply(n, m, Tell(nh, RepairMsg(msg.path, msg.from, msg.to, <<msg.trace[1]>>))),
         UNCHANGED <<vset, nonEss, lost, linked, used>>
  PROVE  AllOK(e)'
<1> DEFINE p  == msg.path
           tr == <<msg.trace[1]>>
           r  == NewRoute(msg.from, msg.to, nh, m, FALSE, 0, tr)
           t1 == AddRoute(tbl[n], p, r)
           on == RepairMsg(p, msg.from, msg.to, tr)
<1>1. NodesOK(e) /\ chan \in ChansOf(Truthful(e, used))
  BY DEF AllOK
<1>2. /\ NodeOK(e, used, n, tbl[n], vset[n], nonEss[n], lost[n], linked[n])
      /\ NodeTable(tbl[n]) /\ linked[n] \subseteq Nodes
  BY <1>1, NodeGives
<1>3. /\ p \in PathIds /\ msg.from \in Nodes /\ msg.to \in Nodes /\ msg.from # msg.to
      /\ p \in used /\ <<msg.from, msg.to>> = e[p]
      /\ msg.trace[1] # msg.to /\ msg.trace[1] \in Nodes
  <2>1. msg.trace \in Seq(Nodes) /\ msg.trace # <<>>
    BY RepairFacts
  <2>2. msg.trace[1] \in Nodes
    BY <2>1, ElementOfSeq, LenProperties, EmptySeq
  <2> QED BY <2>2, RepairFacts DEF Agrees
<1>4. tr \in Seq(Nodes) \ {<<>>} /\ Len(tr) = 1 /\ tr[1] # msg.to
  BY <1>3
<1> HIDE DEF tr
<1>5. r \in Route
  BY <1>2, <1>3, <1>4 DEF NewRoute, Route, Hops, Status, Nodes
<1>6. EntryOK(e, linked[n], p, r)
  <2>1. /\ r.from = msg.from /\ r.to = msg.to /\ r.prev = nh /\ r.next = m
        /\ r.prevhops = tr
    BY DEF NewRoute
  <2>2. \A i \in 1 .. Len(tr) : ~(i >= 2)
    BY <1>4
  <2> QED BY <1>3, <2>1, <2>2 DEF EntryOK, Passed, Usable
<1>7. on \in Truthful(e, used)
  <2>1. on \in RepairLocalReplies
    BY <1>3, <1>4 DEF RepairMsg, RepairLocalReplies
  <2>2. Agrees(e, used, on) /\ on.trace[1] # on.to
    BY <1>3, <1>4 DEF RepairMsg, Agrees
  <2> QED BY <2>1, <2>2 DEF Truthful
<1>8. tbl' = [tbl EXCEPT ![n] = t1] /\ Reply(n, m, Tell(nh, on))
  BY DEF tr
<1> HIDE DEF r, on
<1>9. NodeOK(e, used, n, t1, vset[n], nonEss[n], lost[n], linked[n])
  BY <1>2, <1>3, <1>5, <1>6, AddOK
<1> HIDE DEF t1
<1>10. NodesOK(e)'
  <2>1. /\ tbl'[n] = t1 /\ vset'[n] = vset[n] /\ nonEss'[n] = nonEss[n]
        /\ lost'[n] = lost[n] /\ linked'[n] = linked[n]
    BY <1>8 DEF Inv, Tables
  <2>2. \A k \in Nodes \ {n} : /\ tbl'[k] = tbl[k] /\ vset'[k] = vset[k]
                               /\ nonEss'[k] = nonEss[k] /\ lost'[k] = lost[k]
                               /\ linked'[k] = linked[k]
    BY <1>8 DEF Inv, Tables
  <2> QED BY <1>1, <1>9, <2>1, <2>2, StepNode
<1>11. chan' \in ChansOf(Truthful(e, used))
  <2> DEFINE M == Truthful(e, used)
  <2> HIDE DEF M
  <2>1. on \in M /\ chan \in ChansOf(M) => chan' \in ChansOf(M)
    BY <1>8, TellOf, ReplyOf
  <2> QED BY <1>1, <1>7, <2>1 DEF M
<1> QED BY <1>10, <1>11 DEF AllOK

(* processRepairLocalReply, all cases; nobody hears from a lost pnei.       *)
LEMMA ProcessRepairLocalReplyOK ==
  ASSUME Inv, HeardFromLinked, NEW e, AllOK(e), NEW n \in Nodes, NEW m \in Nodes,
         ProcessRepairLocalReply(n, m)
  PROVE  AllOK(e)'
<1> DEFINE msg == Head(chan[m][n])
           p == msg.path
<1>1. chan[m][n] # <<>> /\ msg \in Truthful(e, used) /\ msg.type = "RepairLocalReply"
  <2> DEFINE M == Truthful(e, used)
             ty == "RepairLocalReply"
  <2>1. chan \in ChansOf(M) /\ Received(n, m, ty)
    BY DEF AllOK, ProcessRepairLocalReply
  <2> HIDE DEF M, ty
  <2>2. chan[m][n] # <<>> /\ msg \in M /\ msg.type = ty
    BY <2>1, ReceivedOf
  <2> QED BY <2>2 DEF M, ty
<1>2. m \in linked[n] /\ UNCHANGED <<linked, used>>
  BY <1>1 DEF HeardFromLinked, ProcessRepairLocalReply
<1>3. \/ InTable(tbl[n], p) /\ \E me \in BOOLEAN : me /\ TeardownPath(n, m, p, me)
      \/ ~InTable(tbl[n], p) /\ \E me \in BOOLEAN : TeardownPath(n, m, p, me)
      \/ InTable(tbl[n], p) /\ msg.trace[1] = n /\ PatchNextHop(n, m, msg)
      \/ ~InTable(tbl[n], p) /\ JoinRepair(n, m, msg)
  BY <1>2 DEF ProcessRepairLocalReply
<1>4. p \in PathIds
  BY <1>1, RepairFacts
<1> HIDE DEF msg
<1>5. CASE InTable(tbl[n], p) /\ \E me \in BOOLEAN : me /\ TeardownPath(n, m, p, me)
  BY <1>1, <1>2, <1>4, <1>5, TeardownKnownOK
<1>6. CASE ~InTable(tbl[n], p) /\ \E me \in BOOLEAN : TeardownPath(n, m, p, me)
  BY <1>1, <1>2, <1>4, <1>6, TeardownUnknownOK
<1>7. CASE InTable(tbl[n], p) /\ msg.trace[1] = n /\ PatchNextHop(n, m, msg)
  BY <1>1, <1>2, <1>7, PatchNextHopOK
<1>8. CASE ~InTable(tbl[n], p) /\ JoinRepair(n, m, msg)
  <2>1. CASE TeardownPath(n, m, p, FALSE)
    BY <1>6, <1>8, <2>1
  <2>2. CASE \E nh \in linked[n] :
               /\ tbl' = [tbl EXCEPT ![n] = AddRoute(tbl[n], p,
                            NewRoute(msg.from, msg.to, nh, m, FALSE, 0, <<msg.trace[1]>>))]
               /\ Reply(n, m, Tell(nh, RepairMsg(p, msg.from, msg.to, <<msg.trace[1]>>)))
               /\ UNCHANGED <<vset, nonEss, lost>>
    <3>1. PICK nh \in linked[n] :
               /\ tbl' = [tbl EXCEPT ![n] = AddRoute(tbl[n], p,
                            NewRoute(msg.from, msg.to, nh, m, FALSE, 0, <<msg.trace[1]>>))]
               /\ Reply(n, m, Tell(nh, RepairMsg(p, msg.from, msg.to, <<msg.trace[1]>>)))
               /\ UNCHANGED <<vset, nonEss, lost>>
      BY <2>2
    <3>2. UNCHANGED <<vset, nonEss, lost, linked, used>>
      BY <1>2, <3>1
    <3> QED BY <1>1, <1>2, <1>8, <3>1, <3>2, JoinRepairOK
  <2> QED BY <1>8, <2>1, <2>2 DEF JoinRepair, LinkedBeforeMe
<1> QED BY <1>3, <1>5, <1>6, <1>7, <1>8

(* What a link loses, nobody believes.                                      *)
LEMMA LinkDownOK ==
  ASSUME NEW e, AllOK(e), NEW l, LinkDown(l)
  PROVE  AllOK(e)'
<1>1. /\ chan' = [n \in Nodes |-> [m \in Nodes |-> IF {n, m} = l THEN <<>> ELSE chan[n][m]]]
      /\ UNCHANGED <<tbl, vset, nonEss, lost, linked, used>>
  BY DEF LinkDown, node
<1> DEFINE M == Truthful(e, used)
<1> HIDE DEF M
<1>2. chan \in ChansOf(M) => chan' \in ChansOf(M)
  BY <1>1 DEF ChansOf
<1> QED BY <1>1, <1>2 DEF AllOK, NodesOK, M

(* Every step in which nobody hears from a lost pnei keeps all that is      *)
(* known.                                                                   *)
LEMMA NextLost == Inv /\ HeardFromLinked /\ LostInv /\ [Next]_vars => LostInv'
<1> SUFFICES ASSUME Inv, HeardFromLinked, LostInv, [Next]_vars PROVE LostInv'
  OBVIOUS
<1>1. PICK e \in EndsOf : AllOK(e)
  BY DEF LostInv
<1>2. SUFFICES AllOK(e)' \/ LostInv'
  BY <1>1 DEF LostInv
<1>3. CASE \E n, newnode \in Nodes, p \in PathIds, nh \in Hops : AnswerSetup(n, newnode, p, nh)
  BY <1>1, <1>3, AnswerSetupOK
<1>4. CASE \E n, m \in Nodes : \/ ProcessSetupReply(n, m) \/ ProcessTeardown(n, m)
                               \/ ProcessRepairLocalReply(n, m)
  BY <1>1, <1>4, ProcessSetupReplyOK, ProcessTeardownOK, ProcessRepairLocalReplyOK
<1>5. CASE \E n \in Nodes : NonEssTimer(n)
  BY <1>1, <1>5, NonEssTimerOK
<1>6. CASE \E n, x \in Nodes : RepairTimer(n, x) \/ GiveUpTimer(n, x)
  BY <1>1, <1>6, RepairTimerOK, GiveUpTimerOK
<1>7. CASE \E n, x \in Nodes : LinkPnei(n, x) \/ LosePnei(n, x)
  BY <1>1, <1>7, LinkPneiOK, LosePneiOK
<1>8. CASE \E l \in Links : LinkDown(l)
  BY <1>1, <1>8, LinkDownOK
<1>9. CASE UNCHANGED <<tbl, vset, nonEss, lost, linked, chan, used>>
  BY <1>1, <1>9 DEF AllOK, NodesOK
<1>10. CASE \E l \in Links : LinkUp(l)
  BY <1>9, <1>10 DEF LinkUp, node
<1>11. CASE UNCHANGED vars
  BY <1>9, <1>11 DEF vars
<1> QED BY <1>3, <1>4, <1>5, <1>6, <1>7, <1>8, <1>10, <1>11 DEF Next

(* Nothing is known when the nodes start.                                   *)
LEMMA InitLost == Init => LostInv
<1> SUFFICES ASSUME Init PROVE LostInv
  OBVIOUS
<1> DEFINE e == [p \in PathIds |-> <<>>]
<1>1. e \in EndsOf
  BY DEF EndsOf
<1> HIDE DEF e
<1>2. NodesOK(e)
  BY DEF Init, NodesOK, NodeOK, TableOK, ListOK, VsetOK, NonEssOK, EmptyTable, InTable
<1>3. chan \in ChansOf(Truthful(e, used))
  <2> DEFINE M == Truthful(e, used)
  <2> HIDE DEF M
  <2>1. chan \in ChansOf(M)
    BY DEF Init, ChansOf
  <2> QED BY <2>1 DEF M
<1> QED BY <1>1, <1>2, <1>3 DEF LostInv, AllOK

(* What it says of the tables.                                              *)
LEMMA LostGives == Inv /\ LostInv => VsetRoutesKnown /\ AvailableHopsLinked
<1> SUFFICES ASSUME Inv, LostInv PROVE VsetRoutesKnown /\ AvailableHopsLinked
  OBVIOUS
<1>1. PICK e \in EndsOf : AllOK(e)
  BY DEF LostInv
<1>2. \A n \in Nodes : VsetOK(n, tbl[n], vset[n]) /\ TableOK(e, used, linked[n], tbl[n])
  BY <1>1 DEF AllOK, NodesOK, NodeOK
<1>3. VsetRoutesKnown
  BY <1>2 DEF VsetOK, VsetRoutesKnown, R
<1>4. AvailableHopsLinked
  BY <1>2 DEF TableOK, EntryOK, Usable, AvailableHopsLinked, Known, R
<1> QED BY <1>3, <1>4

-----------------------------------------------------------------------------
(* As long as nobody hears from a pnei it has lost, it all holds.           *)
LEMMA AlwaysLost == Spec /\ []HeardFromLinked => []LostInv
BY InitLost, NextLost, AlwaysInv, PTL DEF Spec

(* Whoever else sets up, repairs, demotes or takes down vroutes meanwhile,  *)
(* each route a node keeps for a vnei is in its table, is a vset route and  *)
(* joins the two: what vrrAdd reads with .at is there.  The hypothesis is   *)
(* needed: with a Teardown from a pnei that is lost already, vlrRoutingTable *)
(* forgets a vroute and vset keeps it.                                      *)
THEOREM VsetRoutesAreKnown == Spec /\ []HeardFromLinked => []VsetRoutesKnown
BY AlwaysInv, AlwaysLost, LostGives, PTL

(* ... and a hop a message may be sent over is a LINKED pnei, through lost  *)
(* and found pneis, repairs and patches: getPneiGateIndex finds a gate.     *)
THEOREM UsableHopsLinked == Spec /\ []HeardFromLinked => []AvailableHopsLinked
BY AlwaysInv, AlwaysLost, LostGives, PTL

(* A pnei on lostPneis is not LINKED, and each vroute on its list is in the *)
(* table, goes over it and has that hop marked: handleLinkedPnei, which     *)
(* takes the hop that is not the previous one for the next one without      *)
(* looking, clears a mark that is there.                                    *)
THEOREM ListedHopsMarked ==
  Spec /\ []HeardFromLinked => [](\A n \in Nodes : ListOK(tbl[n], lost[n], linked[n]))
<1>1. LostInv => \A n \in Nodes : ListOK(tbl[n], lost[n], linked[n])
  BY DEF LostInv, AllOK, NodesOK, NodeOK
<1> QED BY <1>1, AlwaysLost, PTL

-----------------------------------------------------------------------------
(* When only failed links make nodes lose pneis, and for good, the          *)
(* hypothesis holds: what is in a failed link is lost with it.              *)
LinksTrue ==
  \A n, m \in Nodes : /\ {n, m} \in up => m \in linked[n]
                      /\ {n, m} \notin up => chan[n][m] = <<>>

(* Nothing is sent into a link that is down ...                             *)
LEMMA SendQuiet ==
  ASSUME Inv, NEW n \in Nodes, NEW out, chan' = After(chan, n, out)
  PROVE  \A a, b \in Nodes : {a, b} \notin up => chan'[a][b] = chan[a][b]
BY DEF After, Inv, Chans

(* ... and nothing is received from it.                                     *)
LEMMA ReplyQuiet ==
  ASSUME Inv, NEW n \in Nodes, NEW m \in Nodes, chan[m][n] # <<>>, NEW out, Reply(n, m, out)
  PROVE  \A a, b \in Nodes : {a, b} \notin up /\ chan[a][b] = <<>> => chan'[a][b] = <<>>
<1> DEFINE c == [chan EXCEPT ![m][n] = Tail(@)]
<1>1. chan' = After(c, n, out)
  BY DEF Reply
<1>2. /\ DOMAIN c = Nodes /\ \A a \in Nodes : DOMAIN c[a] = Nodes
      /\ \A a, b \in Nodes : ~(a = m /\ b = n) => c[a][b] = chan[a][b]
      /\ c = [a \in Nodes |-> c[a]]
  BY DEF Inv, Chans
<1> HIDE DEF c
<1>3. \A a, b \in Nodes : {a, b} \notin up => chan'[a][b] = c[a][b]
  BY <1>1, <1>2 DEF After
<1> QED BY <1>2, <1>3

(* The handlers of messages and timers.                                     *)
LEMMA QuietSteps ==
  ASSUME Inv, LinksTrue, UNCHANGED <<linked, up>>, NEW n \in Nodes,
         \/ UNCHANGED chan
         \/ \E out : chan' = After(chan, n, out)
         \/ \E m \in Nodes : \E out : chan[m][n] # <<>> /\ Reply(n, m, out)
  PROVE  LinksTrue'
<1>1. \A a, b \in Nodes : {a, b} \notin up /\ chan[a][b] = <<>> => chan'[a][b] = <<>>
  <2>1. CASE UNCHANGED chan
    BY <2>1
  <2>2. CASE \E out : chan' = After(chan, n, out)
    BY <2>2, SendQuiet
  <2>3. CASE \E m \in Nodes : \E out : chan[m][n] # <<>> /\ Reply(n, m, out)
    BY <2>3, ReplyQuiet
  <2> QED BY <2>1, <2>2, <2>3
<1> QED BY <1>1 DEF LinksTrue

(* Every step.                                                              *)
LEMMA NextLinks ==
  ASSUME ~Relink, ~BeaconLoss
  PROVE  Inv /\ LinksTrue /\ [Next]_vars => LinksTrue'
<1> SUFFICES ASSUME Inv, LinksTrue, [Next]_vars PROVE LinksTrue'
  OBVIOUS
<1>1. CASE \E n, newnode \in Nodes, p \in PathIds, nh \in Hops : AnswerSetup(n, newnode, p, nh)
  <2>1. PICK n, newnode \in Nodes, p \in PathIds, nh \in Hops : AnswerSetup(n, newnode, p, nh)
    BY <1>1
  <2>2. UNCHANGED <<linked, up>> /\ \E out : chan' = After(chan, n, out)
    BY <2>1 DEF AnswerSetup, Send
  <2> QED BY <2>2, QuietSteps
<1>2. CASE \E n, m \in Nodes : ProcessSetupReply(n, m)
  <2>1. PICK n, m \in Nodes : ProcessSetupReply(n, m)
    BY <1>2
  <2>2. /\ UNCHANGED <<linked, up>> /\ chan[m][n] # <<>> /\ \E out : Reply(n, m, out)
    BY <2>1 DEF ProcessSetupReply, Received, TeardownPath, AcceptSetup, ForwardSetup
  <2> QED BY <2>2, QuietSteps
<1>3. CASE \E n, m \in Nodes : ProcessTeardown(n, m)
  <2>1. PICK n, m \in Nodes : ProcessTeardown(n, m)
    BY <1>3
  <2>2. /\ UNCHANGED <<linked, up>> /\ chan[m][n] # <<>> /\ \E out : Reply(n, m, out)
    BY <2>1 DEF ProcessTeardown, Received, node
  <2> QED BY <2>2, QuietSteps
<1>4. CASE \E n, m \in Nodes : ProcessRepairLocalReply(n, m)
  <2>1. PICK n, m \in Nodes : ProcessRepairLocalReply(n, m)
    BY <1>4
  <2>2. /\ UNCHANGED <<linked, up>> /\ chan[m][n] # <<>> /\ \E out : Reply(n, m, out)
    BY <2>1 DEF ProcessRepairLocalReply, Received, TeardownPath, PatchNextHop, JoinRepair
  <2> QED BY <2>2, QuietSteps
<1>5. CASE \E n \in Nodes : NonEssTimer(n)
  <2>1. PICK n \in Nodes : NonEssTimer(n)
    BY <1>5
  <2>2. UNCHANGED <<linked, up>> /\ \E out : chan' = After(chan, n, out)
    BY <2>1 DEF NonEssTimer, Send
  <2> QED BY <2>2, QuietSteps
<1>6. CASE \E n, x \in Nodes : RepairTimer(n, x) \/ GiveUpTimer(n, x)
  <2>1. PICK n, x \in Nodes : RepairTimer(n, x) \/ GiveUpTimer(n, x)
    BY <1>6
  <2>2. UNCHANGED <<linked, up>> /\ \E out : chan' = After(chan, n, out)
    BY <2>1 DEF RepairTimer, GiveUpTimer, Send
  <2> QED BY <2>2, QuietSteps
<1>7. CASE \E n, x \in Nodes : LosePnei(n, x)
  <2>1. PICK n, x \in Nodes : LosePnei(n, x)
    BY <1>7
  <2>2. {n, x} \notin up
    <3>1. {n, x} = {x, n}
      OBVIOUS
    <3> QED BY <2>1, <3>1 DEF LosePnei, LinksTrue
  <2>3. linked' = [linked EXCEPT ![n] = linked[n] \ {x}] /\ UNCHANGED <<up, chan>>
    BY <2>1 DEF LosePnei
  <2> QED BY <2>2, <2>3 DEF LinksTrue, Inv, World
<1>8. CASE \E l \in Links : LinkDown(l)
  <2>1. PICK l \in Links : LinkDown(l)
    BY <1>8
  <2>2. /\ up' = up \ {l} /\ UNCHANGED linked
        /\ \A n, m \in Nodes : chan'[n][m] = IF {n, m} = l THEN <<>> ELSE chan[n][m]
    BY <2>1 DEF LinkDown, node
  <2> QED BY <2>2 DEF LinksTrue
<1>9. CASE \E l \in Links : LinkUp(l)
  BY <1>9 DEF LinkUp
<1>10. CASE \E n, x \in Nodes : LinkPnei(n, x)
  BY <1>10 DEF LinkPnei
<1>11. CASE UNCHANGED vars
  BY <1>11 DEF vars, LinksTrue
<1> QED BY <1>1, <1>2, <1>3, <1>4, <1>5, <1>6, <1>7, <1>8, <1>9, <1>10, <1>11 DEF Next

(* So nobody hears from a lost pnei.                                        *)
LEMMA AlwaysHeard ==
  ASSUME ~Relink, ~BeaconLoss
  PROVE  Spec => []HeardFromLinked
<1>1. Init => LinksTrue
  BY DEF Init, LinksTrue, Nbrs
<1>2. LinksTrue => HeardFromLinked
  <2> SUFFICES ASSUME LinksTrue, NEW n \in Nodes, NEW m \in Nodes, chan[m][n] # <<>>
               PROVE  m \in linked[n]
    BY DEF HeardFromLinked
  <2>1. {m, n} \in up /\ {m, n} = {n, m}
    BY DEF LinksTrue
  <2> QED BY <2>1 DEF LinksTrue
<1> QED BY <1>1, <1>2, AlwaysInv, NextLinks, PTL DEF Spec

(* With links that fail for good, whatever else interleaves, vset and table *)
(* agree in every state ...                                                 *)
THEOREM VsetRoutesKnownForGood ==
  ASSUME ~Relink, ~BeaconLoss
  PROVE  Spec => []VsetRoutesKnown
BY AlwaysHeard, VsetRoutesAreKnown, PTL

(* ... and so do the hops in use and the LINKED pneis.                      *)
THEOREM UsableHopsLinkedForGood ==
  ASSUME ~Relink, ~BeaconLoss
  PROVE  Spec => []AvailableHopsLinked
BY AlwaysHeard, UsableHopsLinked, PTL

-----------------------------------------------------------------------------
(* A hop that is marked is on the list of its lost pnei, whose timer will   *)
(* repair the vroute or take it down.                                       *)
OnList(l, x, p) == x \in DOMAIN l /\ p \in l[x].broken

Timed(t, l) ==
  \A p \in PathIds : InTable(t, p) =>
    /\ PrevBroken(t.routes[p]) => OnList(l, t.routes[p].prev, p)
    /\ NextBroken(t.routes[p]) => OnList(l, t.routes[p].next, p)

AllTimed == \A n \in Nodes : Timed(tbl[n], lost[n])

(* lostPneis has one place for a vroute that comes from a pnei, turns back  *)
(* to it and has lost it: such a vroute leaves the list when one of its two *)
(* hops is restored.  This is not about those.                              *)
NoBrokenTurnBack ==
  \A n \in Nodes : \A p \in Known(n) :
    PrevBroken(R(n, p)) /\ NextBroken(R(n, p)) => R(n, p).prev # R(n, p).next

(* The handler of node n changed nothing of the other nodes.                *)
LEMMA StepTimed ==
  ASSUME Inv, AllTimed, NEW n \in Nodes, NEW t1, NEW l1, Timed(t1, l1),
         tbl' = [tbl EXCEPT ![n] = t1], lost' = [lost EXCEPT ![n] = l1]
  PROVE  AllTimed'
<1>1. tbl'[n] = t1 /\ lost'[n] = l1
  BY DEF Inv, Tables, Losts
<1>2. \A k \in Nodes \ {n} : tbl'[k] = tbl[k] /\ lost'[k] = lost[k]
  BY DEF Inv, Tables, Losts
<1>3. \A k \in Nodes : Timed(tbl'[k], lost'[k])
  <2> TAKE k \in Nodes
  <2>1. CASE k = n
    BY <1>1, <2>1
  <2>2. CASE k # n
    BY <1>2, <2>2 DEF AllTimed
  <2> QED BY <2>1, <2>2
<1> QED BY <1>3 DEF AllTimed

(* ... nor of its lists.                                                    *)
LEMMA StepTimedTable ==
  ASSUME Inv, AllTimed, NEW n \in Nodes, NEW t1, Timed(t1, lost[n]),
         tbl' = [tbl EXCEPT ![n] = t1], UNCHANGED lost
  PROVE  AllTimed'
<1>1. tbl'[n] = t1 /\ \A k \in Nodes \ {n} : tbl'[k] = tbl[k]
  BY DEF Inv, Tables
<1>2. \A k \in Nodes : Timed(tbl'[k], lost'[k])
  <2> TAKE k \in Nodes
  <2>1. CASE k = n
    BY <1>1, <2>1
  <2>2. CASE k # n
    BY <1>1, <2>2 DEF AllTimed
  <2> QED BY <2>1, <2>2
<1> QED BY <1>2 DEF AllTimed

(* Routes are taken out, and nothing but them leaves the lists.             *)
LEMMA TimedRemove ==
  ASSUME NEW t, NEW l, Timed(t, l), NEW ps, NEW l1,
         \A x \in DOMAIN l : \A p \in l[x].broken : p \notin ps => OnList(l1, x, p)
  PROVE  Timed(RemoveRoutes(t, ps), l1)
<1> DEFINE t1 == RemoveRoutes(t, ps)
<1>1. \A p \in PathIds : InTable(t1, p) =>
        p \notin ps /\ InTable(t, p) /\ t1.routes[p] = t.routes[p]
  BY DEF RemoveRoutes, InTable
<1> HIDE DEF t1
<1>2. Timed(t1, l1)
  <2> SUFFICES ASSUME NEW p \in PathIds, InTable(t1, p)
               PROVE  /\ PrevBroken(t1.routes[p]) => OnList(l1, t1.routes[p].prev, p)
                      /\ NextBroken(t1.routes[p]) => OnList(l1, t1.routes[p].next, p)
    BY DEF Timed
  <2>1. /\ p \notin ps /\ t1.routes[p] = t.routes[p]
        /\ PrevBroken(t.routes[p]) => OnList(l, t.routes[p].prev, p)
        /\ NextBroken(t.routes[p]) => OnList(l, t.routes[p].next, p)
    BY <1>1 DEF Timed
  <2> QED BY <2>1 DEF OnList
<1> QED BY <1>2 DEF t1

(* A route is added with both hops available.                               *)
LEMMA TimedAdd ==
  ASSUME NEW t, NodeTable(t), NEW l, Timed(t, l), NEW p \in PathIds, NEW r \in Route,
         r.unavail = 0
  PROVE  Timed(AddRoute(t, p, r), l)
<1>1. t.routes \in [PathIds -> Route \cup {NoRoute}]
  BY NodeTableFacts
<1>2. \A q \in PathIds : AddRoute(t, p, r).routes[q] \in {t.routes[q], r}
  BY <1>1 DEF AddRoute
<1>3. ~PrevBroken(r) /\ ~NextBroken(r)
  BY FreshRoute
<1> QED BY <1>2, <1>3 DEF Timed, InTable

(* vrrAdd demotes routes.                                                   *)
LEMMA TimedDemote ==
  ASSUME NEW t, NodeTable(t), NEW l, Timed(t, l), NEW D
  PROVE  Timed(DemoteRoutes(t, D), l)
<1> DEFINE t1 == DemoteRoutes(t, D)
<1>1. \A p \in PathIds : InTable(t1, p) =>
        /\ InTable(t, p)
        /\ t1.routes[p].prev = t.routes[p].prev /\ t1.routes[p].next = t.routes[p].next
        /\ PrevBroken(t1.routes[p]) <=> PrevBroken(t.routes[p])
        /\ NextBroken(t1.routes[p]) <=> NextBroken(t.routes[p])
  BY DemotedRoutes
<1> HIDE DEF t1
<1>2. Timed(t1, l)
  <2> SUFFICES ASSUME NEW p \in PathIds, InTable(t1, p)
               PROVE  /\ PrevBroken(t1.routes[p]) => OnList(l, t1.routes[p].prev, p)
                      /\ NextBroken(t1.routes[p]) => OnList(l, t1.routes[p].next, p)
    BY DEF Timed
  <2> QED BY <1>1 DEF Timed
<1> QED BY <1>2 DEF t1

(* removeRouteFromLostPneiBrokenVroutes forgets what it is told to, only.   *)
LEMMA ForgetKeeps ==
  ASSUME NEW l, LostType(l), NEW gone
  PROVE  \A x \in DOMAIN l : \A p \in l[x].broken :
           <<p, x>> \notin gone => OnList(ForgetBroken(l, gone), x, p)
<1> DEFINE of(x) == {p \in PathIds : <<p, x>> \in gone}
           l1 == ForgetBroken(l, gone)
<1>1. /\ DOMAIN l1 = {x \in DOMAIN l : of(x) # {} => ~ (l[x].broken \subseteq of(x))}
      /\ \A x \in DOMAIN l1 : l1[x] = [l[x] EXCEPT !.broken = @ \ of(x)]
  BY DEF ForgetBroken
<1> HIDE DEF l1
<1>2. \A x \in DOMAIN l1 : l1[x].broken = l[x].broken \ of(x)
  BY <1>1 DEF LostType, LostEntry
<1> SUFFICES ASSUME NEW x \in DOMAIN l, NEW p \in l[x].broken, <<p, x>> \notin gone
             PROVE  x \in DOMAIN l1 /\ p \in l1[x].broken
  BY DEF OnList, l1
<1> QED BY <1>1, <1>2

-----------------------------------------------------------------------------
(* The handlers once more.                                                  *)

(* vrrTeardownPath.                                                         *)
LEMMA TeardownPathTimed ==
  ASSUME Inv, AllTimed, NEW n \in Nodes, NEW m, NEW p \in PathIds, NEW me,
         TeardownPath(n, m, p, me)
  PROVE  AllTimed'
<1> DEFINE gone == IF InTable(tbl[n], p) THEN BrokenHops(p, tbl[n].routes[p]) ELSE {}
           l1   == IF InTable(tbl[n], p) THEN ForgetBroken(lost[n], gone) ELSE lost[n]
<1>1. /\ tbl' = [tbl EXCEPT ![n] = RemoveRoutes(tbl[n], {p})]
      /\ lost' = [lost EXCEPT ![n] = l1]
  BY DEF TeardownPath, RemoveRoute
<1>2. LostType(lost[n]) /\ Timed(tbl[n], lost[n])
  BY DEF Inv, Losts, AllTimed
<1>3. \A y \in DOMAIN lost[n] : \A q \in lost[n][y].broken : q \notin {p} => OnList(l1, y, q)
  <2>1. \A y, q : q # p => <<q, y>> \notin gone
    BY DEF BrokenHops
  <2> HIDE DEF gone
  <2>2. CASE InTable(tbl[n], p)
    BY <1>2, <2>1, <2>2, ForgetKeeps
  <2>3. CASE ~InTable(tbl[n], p)
    BY <2>3 DEF OnList
  <2> QED BY <2>2, <2>3
<1> HIDE DEF l1
<1>4. Timed(RemoveRoutes(tbl[n], {p}), l1)
  BY <1>2, <1>3, TimedRemove
<1> QED BY <1>1, <1>4, StepTimed

(* processSetupReq.                                                         *)
LEMMA AnswerSetupTimed ==
  ASSUME Inv, AllTimed, NEW n \in Nodes, NEW newnode \in Nodes, NEW p \in PathIds,
         NEW nh \in Hops, AnswerSetup(n, newnode, p, nh)
  PROVE  AllTimed'
<1> DEFINE r == NewRoute(n, newnode, NullVid, nh, TRUE, 0, <<>>)
           t == AddRoute(tbl[n], p, r)
           t1 == DemoteRoutes(t, Demoted(n, newnode))
<1>1. newnode # n /\ tbl' = [tbl EXCEPT ![n] = t1] /\ UNCHANGED lost
  BY DEF AnswerSetup
<1>2. r \in Route /\ r.unavail = 0
  BY <1>1 DEF NewRoute, Route, Hops, Status, Nodes
<1>3. NodeTable(tbl[n]) /\ Timed(tbl[n], lost[n])
  BY DEF Inv, Tables, AllTimed
<1> HIDE DEF r
<1>4. NodeTable(t) /\ Timed(t, lost[n])
  BY <1>2, <1>3, AddNodeTable, TimedAdd
<1> HIDE DEF t
<1>5. Timed(t1, lost[n])
  BY <1>4, TimedDemote
<1> QED BY <1>1, <1>5, StepTimedTable

(* processSetupReply at the node the vroute was asked by.                   *)
LEMMA AcceptSetupTimed ==
  ASSUME Inv, AllTimed, NEW n \in Nodes, NEW m \in Nodes, NEW msg \in SetupReplies,
         msg.to = n, AcceptSetup(n, m, msg)
  PROVE  AllTimed'
<1> DEFINE r == NewRoute(msg.from, n, m, NullVid, TRUE, 0, Reverse(msg.prevhops))
           t == AddRoute(tbl[n], msg.path, r)
           t1 == DemoteRoutes(t, Demoted(n, msg.from))
<1>1. tbl' = [tbl EXCEPT ![n] = t1] /\ UNCHANGED lost
  BY DEF AcceptSetup
<1>2. msg.path \in PathIds /\ r \in Route /\ r.unavail = 0
  <2>1. /\ msg.path \in PathIds /\ msg.from \in Nodes \ {n}
        /\ Reverse(msg.prevhops) \in Seq(Nodes)
    BY ReverseType DEF SetupReplies
  <2> QED BY <2>1 DEF NewRoute, Route, Hops, Status, Nodes
<1>3. NodeTable(tbl[n]) /\ Timed(tbl[n], lost[n])
  BY DEF Inv, Tables, AllTimed
<1> HIDE DEF r
<1>4. NodeTable(t) /\ Timed(t, lost[n])
  BY <1>2, <1>3, AddNodeTable, TimedAdd
<1> HIDE DEF t
<1>5. Timed(t1, lost[n])
  BY <1>4, TimedDemote
<1> QED BY <1>1, <1>5, StepTimedTable

(* processSetupReply at a node on the way.                                  *)
LEMMA ForwardSetupTimed ==
  ASSUME Inv, AllTimed, NEW n \in Nodes, NEW m \in Nodes, NEW msg \in SetupReplies,
         NEW nh \in Nodes, ForwardSetup(n, m, msg, nh)
  PROVE  AllTimed'
<1> DEFINE r == NewRoute(msg.from, msg.to, m, nh, FALSE, 0, Reverse(msg.prevhops))
           t1 == AddRoute(tbl[n], msg.path, r)
<1>1. tbl' = [tbl EXCEPT ![n] = t1] /\ UNCHANGED lost
  BY DEF ForwardSetup
<1>2. msg.path \in PathIds /\ r \in Route /\ r.unavail = 0
  <2>1. /\ msg.path \in PathIds /\ msg.from \in Nodes /\ msg.to \in Nodes /\ msg.from # msg.to
        /\ Reverse(msg.prevhops) \in Seq(Nodes)
    BY ReverseType DEF SetupReplies
  <2> QED BY <2>1 DEF NewRoute, Route, Hops, Status, Nodes
<1>3. NodeTable(tbl[n]) /\ Timed(tbl[n], lost[n])
  BY DEF Inv, Tables, AllTimed
<1> HIDE DEF r
<1>4. Timed(t1, lost[n])
  BY <1>2, <1>3, TimedAdd
<1> HIDE DEF t1
<1> QED BY <1>1, <1>4, StepTimedTable

(* processSetupReply, all cases.                                            *)
LEMMA ProcessSetupReplyTimed ==
  ASSUME Inv, AllTimed, NEW n \in Nodes, NEW m \in Nodes, ProcessSetupReply(n, m)
  PROVE  AllTimed'
<1> DEFINE msg == Head(chan[m][n])
<1>1. msg \in SetupReplies
  BY ReceivedType
     DEF ProcessSetupReply, Inv, Msg, SetupReplies, Teardowns, RepairLocalReplies
<1>2. msg.path \in PathIds
  BY <1>1 DEF SetupReplies
<1>3. \/ \E me \in BOOLEAN : TeardownPath(n, m, msg.path, me)
      \/ msg.to = n /\ AcceptSetup(n, m, msg)
      \/ \E nh \in Nodes : ForwardSetup(n, m, msg, nh)
  BY DEF ProcessSetupReply, NextHops, Inv, World, Nodes
<1> HIDE DEF msg
<1> QED BY <1>1, <1>2, <1>3, TeardownPathTimed, AcceptSetupTimed, ForwardSetupTimed

(* processTeardown.                                                         *)
LEMMA ProcessTeardownTimed ==
  ASSUME Inv, AllTimed, NEW n \in Nodes, NEW m \in Nodes, ProcessTeardown(n, m)
  PROVE  AllTimed'
<1> DEFINE p == Head(chan[m][n]).path
           x == Onward(tbl[n].routes[p], m)
           gone == {<<p, x>>}
<1>1. \/ UNCHANGED <<tbl, lost>>
      \/ /\ tbl' = [tbl EXCEPT ![n] = RemoveRoutes(tbl[n], {p})]
         /\ \/ UNCHANGED lost
            \/ lost' = [lost EXCEPT ![n] = ForgetBroken(lost[n], gone)]
  BY DEF ProcessTeardown, RemoveRoute, node
<1>2. LostType(lost[n]) /\ Timed(tbl[n], lost[n])
  BY DEF Inv, Losts, AllTimed
<1>3. \A y, q : q # p => <<q, y>> \notin gone
  OBVIOUS
<1> HIDE DEF p, gone
<1>4. CASE UNCHANGED <<tbl, lost>>
  BY <1>4 DEF AllTimed
<1>5. CASE /\ tbl' = [tbl EXCEPT ![n] = RemoveRoutes(tbl[n], {p})]
           /\ UNCHANGED lost
  <2>1. Timed(RemoveRoutes(tbl[n], {p}), lost[n])
    BY <1>2, TimedRemove DEF OnList
  <2> QED BY <1>5, <2>1, StepTimedTable
<1>6. CASE /\ tbl' = [tbl EXCEPT ![n] = RemoveRoutes(tbl[n], {p})]
           /\ lost' = [lost EXCEPT ![n] = ForgetBroken(lost[n], gone)]
  <2>1. \A y \in DOMAIN lost[n] : \A q \in lost[n][y].broken :
          q \notin {p} => OnList(ForgetBroken(lost[n], gone), y, q)
    BY <1>2, <1>3, ForgetKeeps
  <2>2. Timed(RemoveRoutes(tbl[n], {p}), ForgetBroken(lost[n], gone))
    BY <1>2, <2>1, TimedRemove
  <2> QED BY <1>6, <2>2, StepTimed
<1> QED BY <1>1, <1>4, <1>5, <1>6

(* processNonEssRouteTeardownTimer.                                         *)
LEMMA NonEssTimerTimed ==
  ASSUME Inv, AllTimed, NEW n \in Nodes, NonEssTimer(n)
  PROVE  AllTimed'
<1> DEFINE r(p)    == tbl[n].routes[p]
           ps      == {p \in nonEss[n] : InTable(tbl[n], p)}
           hop(p)  == IF r(p).from = n THEN r(p).next ELSE r(p).prev
           cut(p)  == IF r(p).from = n THEN NextBroken(r(p)) ELSE PrevBroken(r(p))
           gone    == {<<p, hop(p)>> : p \in {q \in ps : cut(q)}}
<1>1. /\ tbl' = [tbl EXCEPT ![n] = RemoveRoutes(tbl[n], ps)]
      /\ lost' = [lost EXCEPT ![n] = ForgetBroken(lost[n], gone)]
  BY DEF NonEssTimer
<1>2. LostType(lost[n]) /\ Timed(tbl[n], lost[n])
  BY DEF Inv, Losts, AllTimed
<1>3. \A y, q : q \notin ps => <<q, y>> \notin gone
  OBVIOUS
<1> HIDE DEF ps, gone
<1>4. \A y \in DOMAIN lost[n] : \A q \in lost[n][y].broken :
        q \notin ps => OnList(ForgetBroken(lost[n], gone), y, q)
  BY <1>2, <1>3, ForgetKeeps
<1>5. Timed(RemoveRoutes(tbl[n], ps), ForgetBroken(lost[n], gone))
  BY <1>2, <1>4, TimedRemove
<1> QED BY <1>1, <1>5, StepTimed

(* handleLostPneis: what it marks goes on the list of the lost pnei, next   *)
(* to what may be there.                                                    *)
LEMMA LosePneiTimed ==
  ASSUME Inv, AllTimed, NEW n \in Nodes, NEW x \in Nodes, LosePnei(n, x)
  PROVE  AllTimed'
<1> DEFINE t    == tbl[n]
           l    == lost[n]
           over == RoutesOver(t, x)
           t1   == TableAfterLost(t, x)
           l1   == IF over = {} THEN l ELSE LostWith(l, x, BrokenBy(l, x, over))
<1>1. /\ tbl' = [tbl EXCEPT ![n] = t1]
      /\ lost' = [lost EXCEPT ![n] = l1]
  BY DEF LosePnei
<1>2. NodeTable(t) /\ Timed(t, l)
  BY DEF Inv, Tables, AllTimed
<1>3. \A p \in PathIds : InTable(t1, p) =>
        /\ InTable(t, p)
        /\ t1.routes[p].prev = t.routes[p].prev /\ t1.routes[p].next = t.routes[p].next
        /\ PrevBroken(t1.routes[p]) <=> t.routes[p].prev = x \/ PrevBroken(t.routes[p])
        /\ NextBroken(t1.routes[p]) <=> t.routes[p].next = x \/ NextBroken(t.routes[p])
  BY <1>2, LostRoutes DEF Kept
<1>4. /\ \A y, p : OnList(l, y, p) => OnList(l1, y, p)
      /\ \A p \in over : OnList(l1, x, p)
  BY DEF OnList, LostWith, BrokenBy
<1>5. \A p \in PathIds : InTable(t, p) /\ x \in {t.routes[p].prev, t.routes[p].next} => p \in over
  BY DEF RoutesOver
<1> HIDE DEF t1, l1, over
<1>6. Timed(t1, l1)
  <2> SUFFICES ASSUME NEW p \in PathIds, InTable(t1, p)
               PROVE  /\ PrevBroken(t1.routes[p]) => OnList(l1, t1.routes[p].prev, p)
                      /\ NextBroken(t1.routes[p]) => OnList(l1, t1.routes[p].next, p)
    BY DEF Timed
  <2>1. /\ InTable(t, p)
        /\ PrevBroken(t.routes[p]) => OnList(l, t.routes[p].prev, p)
        /\ NextBroken(t.routes[p]) => OnList(l, t.routes[p].next, p)
    BY <1>2, <1>3 DEF Timed
  <2> QED BY <1>3, <1>4, <1>5, <2>1
<1> QED BY <1>1, <1>6, StepTimed

(* handleLinkedPnei: the list that goes away has no marked hop left.        *)
LEMMA LinkPneiTimed ==
  ASSUME Inv, AllTimed, NoBrokenTurnBack, NEW e, AllOK(e), NEW n \in Nodes, NEW x \in Nodes,
         LinkPnei(n, x)
  PROVE  AllTimed'
<1> DEFINE t    == tbl[n]
           l    == lost[n]
           t1   == IF x \in DOMAIN l THEN TableAfterLinked(t, x, l[x].broken) ELSE t
           l1   == Restrict(l, DOMAIN l \ {x})
           mine == IF x \in DOMAIN l THEN l[x].broken ELSE {}
<1>1. /\ tbl' = [tbl EXCEPT ![n] = t1]
      /\ lost' = [lost EXCEPT ![n] = l1]
  BY DEF LinkPnei
<1>2. NodeTable(t) /\ Timed(t, l) /\ ListOK(t, l, linked[n])
  BY DEF Inv, Tables, AllTimed, AllOK, NodesOK, NodeOK
<1>3. \A p \in PathIds : InTable(t1, p) =>
        /\ InTable(t, p)
        /\ t1.routes[p].prev = t.routes[p].prev /\ t1.routes[p].next = t.routes[p].next
        /\ PrevBroken(t1.routes[p])
             <=> PrevBroken(t.routes[p]) /\ ~(p \in mine /\ t.routes[p].prev = x)
        /\ NextBroken(t1.routes[p])
             <=> NextBroken(t.routes[p]) /\ ~(p \in mine /\ t.routes[p].prev # x)
  <2>1. CASE x \in DOMAIN l
    BY <1>2, <2>1, LinkedRoutes DEF Kept
  <2>2. CASE x \notin DOMAIN l
    BY <2>2
  <2> QED BY <2>1, <2>2
<1>4. /\ \A y, p : y # x /\ OnList(l, y, p) => OnList(l1, y, p)
      /\ \A p : OnList(l, x, p) => p \in mine
  BY DEF OnList, Restrict
<1>5. \A p \in mine : CutBy(t.routes[p], x)
  BY <1>2 DEF ListOK
<1> HIDE DEF t1, l1, mine
<1>6. Timed(t1, l1)
  <2> SUFFICES ASSUME NEW p \in PathIds, InTable(t1, p)
               PROVE  /\ PrevBroken(t1.routes[p]) => OnList(l1, t1.routes[p].prev, p)
                      /\ NextBroken(t1.routes[p]) => OnList(l1, t1.routes[p].next, p)
    BY DEF Timed
  <2>1. /\ InTable(t, p)
        /\ PrevBroken(t.routes[p]) => OnList(l, t.routes[p].prev, p)
        /\ NextBroken(t.routes[p]) => OnList(l, t.routes[p].next, p)
    BY <1>2, <1>3 DEF Timed
  <2>2. PrevBroken(t.routes[p]) /\ NextBroken(t.routes[p]) =>
          t.routes[p].prev # t.routes[p].next
    BY <2>1 DEF NoBrokenTurnBack, Known, R
  <2>3. PrevBroken(t1.routes[p]) => t1.routes[p].prev # x /\ OnList(l, t1.routes[p].prev, p)
    BY <1>3, <1>4, <2>1
  <2>4. NextBroken(t1.routes[p]) => t1.routes[p].next # x /\ OnList(l, t1.routes[p].next, p)
    <3> SUFFICES ASSUME NextBroken(t1.routes[p]), t.routes[p].next = x
                 PROVE  FALSE
      BY <1>3, <2>1
    <3>1. p \in mine /\ t.routes[p].prev = x
      BY <1>3, <1>4, <2>1
    <3> QED BY <1>3, <1>5, <2>2, <3>1 DEF CutBy
  <2> QED BY <1>4, <2>3, <2>4
<1> QED BY <1>1, <1>6, StepTimed

(* processWaitRepairLinkTimer with retries left: a repaired vroute leaves   *)
(* the list unless its next hop is marked for the same pnei.                *)
LEMMA RepairTimerTimed ==
  ASSUME Inv, AllTimed, NEW n \in Nodes, NEW x \in Nodes, RepairTimer(n, x)
  PROVE  AllTimed'
<1> DEFINE t == tbl[n]
           l == lost[n]
           r(p) == t.routes[p]
           ps == {p \in l[x].broken : InTable(t, p) /\ r(p).prev = x}
           fixedBy(choice) == {p \in ps : choice[p] # <<>>}
           traceBy(choice) == Restrict(choice, fixedBy(choice))
           doneBy(choice) == {p \in fixedBy(choice) : r(p).next # x}
<1>1. PICK choice :
        /\ \A p \in ps : choice[p] \in Traces(n, r(p))
        /\ tbl' = [tbl EXCEPT ![n] = TableAfterRepair(t, traceBy(choice))]
        /\ lost' = [lost EXCEPT ![n] = LostWith(l, x, AfterRepair(l[x], doneBy(choice)))]
  BY DEF RepairTimer
<1>2. x \in DOMAIN l /\ NodeTable(t) /\ Timed(t, l) /\ LostType(l) /\ World
  BY DEF RepairTimer, Inv, Tables, Losts, AllTimed
<1> DEFINE fixed == fixedBy(choice)
           trace == traceBy(choice)
           t1 == TableAfterRepair(t, trace)
           l1 == LostWith(l, x, AfterRepair(l[x], doneBy(choice)))
<1>3. /\ DOMAIN trace = fixed
      /\ \A p \in fixed : trace[p] = choice[p] /\ trace[p] # <<>> /\ p \in ps
  BY DEF Restrict
<1>4. \A p \in ps : p \in PathIds /\ InTable(t, p) /\ r(p).prev = x
  BY <1>2 DEF LostType, LostEntry
<1>5. \A y, p : OnList(l, y, p) /\ (y = x /\ p \in fixed => r(p).next = x) => OnList(l1, y, p)
  BY <1>2 DEF OnList, LostWith, AfterRepair
<1> HIDE DEF fixed, trace, t1, l1, ps
<1>6. \A p \in fixed : Last(trace[p]) \in Nodes /\ Reverse(trace[p]) \in Seq(Nodes)
  <2> SUFFICES ASSUME NEW p \in fixed
               PROVE  Last(trace[p]) \in Nodes /\ Reverse(trace[p]) \in Seq(Nodes)
    OBVIOUS
  <2>1. trace[p] \in Seq(Nodes) /\ trace[p] # <<>>
    <3>1. r(p) \in Route
      BY <1>2, <1>3, <1>4, NodeTableFacts
    <3> QED BY <1>1, <1>2, <1>3, <3>1, TracesType
  <2>2. Len(trace[p]) \in 1 .. Len(trace[p])
    BY <2>1, LenProperties, EmptySeq
  <2>3. Last(trace[p]) \in Nodes
    BY <2>1, <2>2, ElementOfSeq DEF Last
  <2> QED BY <2>1, <2>3, ReverseType
<1>7. \A p \in fixed :
        /\ t1.routes[p].next = r(p).next
        /\ ~PrevBroken(t1.routes[p]) /\ (NextBroken(t1.routes[p]) <=> NextBroken(r(p)))
  BY <1>2, <1>3, <1>4, <1>6, RepairedRoute DEF t1
<1>8. \A p \in PathIds \ fixed : t1.routes[p] = r(p) /\ (InTable(t1, p) => InTable(t, p))
  BY <1>3, NotRepaired DEF t1, InTable
<1>9. Timed(t1, l1)
  <2> SUFFICES ASSUME NEW p \in PathIds, InTable(t1, p)
               PROVE  /\ PrevBroken(t1.routes[p]) => OnList(l1, t1.routes[p].prev, p)
                      /\ NextBroken(t1.routes[p]) => OnList(l1, t1.routes[p].next, p)
    BY DEF Timed
  <2>1. InTable(t, p)
    BY <1>3, <1>4, <1>8
  <2>2. /\ PrevBroken(r(p)) => OnList(l, r(p).prev, p)
        /\ NextBroken(r(p)) => OnList(l, r(p).next, p)
    BY <1>2, <2>1 DEF Timed
  <2> HIDE DEF r
  <2>3. CASE p \in fixed
    BY <1>5, <1>7, <2>2, <2>3
  <2>4. CASE p \notin fixed
    BY <1>5, <1>8, <2>2, <2>4
  <2> QED BY <2>3, <2>4
<1> QED BY <1>1, <1>9, StepTimed DEF t1, l1, trace

(* processWaitRepairLinkTimer without: every marked hop of the list is      *)
(* taken down with its vroute before the list is erased.                    *)
LEMMA GiveUpTimerTimed ==
  ASSUME Inv, AllTimed, NEW e, AllOK(e), NEW n \in Nodes, NEW x \in Nodes, GiveUpTimer(n, x)
  PROVE  AllTimed'
<1> DEFINE t == tbl[n]
           l == lost[n]
           r(p)   == t.routes[p]
           ps     == IF x \in linked[n] THEN {}
                     ELSE {p \in l[x].broken : InTable(t, p) /\ r(p).unavail # 0}
           hop(p) == Onward(r(p), x)
           cut(p) == OnwardBroken(r(p), x)
           ends   == {p \in ps : hop(p) = NullVid}
           gone   == {<<p, hop(p)>> : p \in {q \in ps \ ends : cut(q) /\ hop(q) # x}}
           l0     == ForgetBroken(l, gone)
           l1     == Restrict(l0, DOMAIN l0 \ {x})
<1>1. /\ tbl' = [tbl EXCEPT ![n] = RemoveRoutes(t, ps)]
      /\ lost' = [lost EXCEPT ![n] = l1]
      /\ x \in DOMAIN l
  BY DEF GiveUpTimer
<1>2. NodeTable(t) /\ Timed(t, l) /\ LostType(l) /\ ListOK(t, l, linked[n])
  BY DEF Inv, Tables, Losts, AllTimed, AllOK, NodesOK, NodeOK
<1>3. \A p \in l[x].broken : p \in ps
  <2> SUFFICES ASSUME NEW p \in l[x].broken
               PROVE  InTable(t, p) /\ r(p).unavail # 0
    BY <1>1, <1>2 DEF ListOK
  <2>1. p \in PathIds /\ InTable(t, p) /\ CutBy(r(p), x)
    BY <1>1, <1>2 DEF ListOK, LostType, LostEntry
  <2>2. r(p) \in Route
    BY <1>2, <2>1, NodeTableFacts
  <2> QED BY <2>1, <2>2, FreshRoute DEF CutBy
<1>4. \A y, q : q \notin ps => <<q, y>> \notin gone
  OBVIOUS
<1> HIDE DEF ps, gone
<1>5. \A y \in DOMAIN l : \A q \in l[y].broken : q \notin ps => OnList(l1, y, q)
  <2> SUFFICES ASSUME NEW y \in DOMAIN l, NEW q \in l[y].broken, q \notin ps
               PROVE  OnList(l1, y, q)
    OBVIOUS
  <2>1. OnList(l0, y, q)
    BY <1>2, <1>4, ForgetKeeps
  <2>2. y # x
    BY <1>3
  <2> HIDE DEF l0
  <2> QED BY <2>1, <2>2 DEF OnList, Restrict
<1> HIDE DEF l1
<1>6. Timed(RemoveRoutes(t, ps), l1)
  BY <1>2, <1>5, TimedRemove
<1> QED BY <1>1, <1>6, StepTimed

(* processRepairLocalReply at the node that has to patch its next hop.      *)
LEMMA PatchNextHopTimed ==
  ASSUME Inv, AllTimed, NoBrokenTurnBack, NEW n \in Nodes, NEW m \in Nodes, NEW msg,
         msg.path \in PathIds, InTable(tbl[n], msg.path), PatchNextHop(n, m, msg)
  PROVE  AllTimed'
<1> DEFINE t == tbl[n]
           l == lost[n]
           p == msg.path
           r == t.routes[p]
           t1 == TableAfterPatch(t, p, m)
           l1 == IF NextBroken(r) /\ r.next \in DOMAIN l
                 THEN LostWith(l, r.next, [broken |-> l[r.next].broken \ {p},
                                           retry |-> l[r.next].retry])
                 ELSE l
<1>1. /\ tbl' = [tbl EXCEPT ![n] = t1]
      /\ lost' = [lost EXCEPT ![n] = l1]
  BY DEF PatchNextHop
<1>2. NodeTable(t) /\ Timed(t, l)
  BY DEF Inv, Tables, AllTimed
<1>3. t1.routes[p].prev = r.prev /\ (PrevBroken(t1.routes[p]) <=> PrevBroken(r))
      /\ ~NextBroken(t1.routes[p])
  BY <1>2, PatchedRoute
<1>4. \A q \in PathIds : q # p =>
        t1.routes[q] = t.routes[q] /\ (InTable(t1, q) => InTable(t, q))
  BY <1>2, NotPatched DEF InTable
<1>5. \A y, q : OnList(l, y, q) /\ ~(q = p /\ y = r.next /\ NextBroken(r)) => OnList(l1, y, q)
  BY DEF OnList, LostWith
<1>6. /\ PrevBroken(r) => OnList(l, r.prev, p)
      /\ PrevBroken(r) /\ NextBroken(r) => r.prev # r.next
  BY <1>2 DEF Timed, NoBrokenTurnBack, Known, R
<1> HIDE DEF t1, l1, r
<1>7. Timed(t1, l1)
  <2> SUFFICES ASSUME NEW q \in PathIds, InTable(t1, q)
               PROVE  /\ PrevBroken(t1.routes[q]) => OnList(l1, t1.routes[q].prev, q)
                      /\ NextBroken(t1.routes[q]) => OnList(l1, t1.routes[q].next, q)
    BY DEF Timed
  <2>1. CASE q = p
    BY <1>3, <1>5, <1>6, <2>1
  <2>2. CASE q # p
    <3>1. /\ t1.routes[q] = t.routes[q]
          /\ PrevBroken(t.routes[q]) => OnList(l, t.routes[q].prev, q)
          /\ NextBroken(t.routes[q]) => OnList(l, t.routes[q].next, q)
      BY <1>2, <1>4, <2>2 DEF Timed
    <3> QED BY <1>5, <2>2, <3>1
  <2> QED BY <2>1, <2>2
<1> QED BY <1>1, <1>7, StepTimed

(* processRepairLocalReply, all cases.                                      *)
LEMMA ProcessRepairLocalReplyTimed ==
  ASSUME Inv, AllTimed, NoBrokenTurnBack, NEW n \in Nodes, NEW m \in Nodes,
         ProcessRepairLocalReply(n, m)
  PROVE  AllTimed'
<1> DEFINE msg == Head(chan[m][n])
           p == msg.path
           join(nh) == NewRoute(msg.from, msg.to, nh, m, FALSE, 0, <<msg.trace[1]>>)
<1>1. msg \in RepairLocalReplies
  BY ReceivedType
     DEF ProcessRepairLocalReply, Inv, Msg, SetupReplies, Teardowns, RepairLocalReplies
<1>2. /\ p \in PathIds /\ msg.from \in Nodes /\ msg.to \in Nodes /\ msg.from # msg.to
      /\ msg.trace \in Seq(Nodes) /\ msg.trace # <<>>
  BY <1>1 DEF RepairLocalReplies
<1>3. msg.trace[1] \in Nodes
  <2>1. 1 \in 1 .. Len(msg.trace)
    BY <1>2, LenProperties, EmptySeq
  <2> QED BY <1>2, <2>1, ElementOfSeq
<1>4. \/ \E me \in BOOLEAN : TeardownPath(n, m, p, me)
      \/ InTable(tbl[n], p) /\ PatchNextHop(n, m, msg)
      \/ \E nh \in linked[n] :
           /\ tbl' = [tbl EXCEPT ![n] = AddRoute(tbl[n], p, join(nh))]
           /\ UNCHANGED lost
  BY DEF ProcessRepairLocalReply, JoinRepair, LinkedBeforeMe
<1> HIDE DEF msg
<1>5. CASE \E me \in BOOLEAN : TeardownPath(n, m, p, me)
  BY <1>2, <1>5, TeardownPathTimed
<1>6. CASE InTable(tbl[n], p) /\ PatchNextHop(n, m, msg)
  BY <1>2, <1>6, PatchNextHopTimed
<1>7. CASE \E nh \in linked[n] :
             /\ tbl' = [tbl EXCEPT ![n] = AddRoute(tbl[n], p, join(nh))]
             /\ UNCHANGED lost
  <2>1. PICK nh \in linked[n] :
               /\ tbl' = [tbl EXCEPT ![n] = AddRoute(tbl[n], p, join(nh))]
               /\ UNCHANGED lost
    BY <1>7
  <2> DEFINE r == join(nh)
             t1 == AddRoute(tbl[n], p, r)
  <2>2. nh \in Nodes /\ UNCHANGED lost
    BY <2>1 DEF Inv, World
  <2>3. r \in Route /\ r.unavail = 0
    <3>1. <<msg.trace[1]>> \in Seq(Nodes)
      BY <1>3
    <3> QED BY <1>2, <2>2, <3>1 DEF NewRoute, Route, Hops, Status, Nodes
  <2>4. tbl' = [tbl EXCEPT ![n] = t1]
    BY <2>1
  <2>5. NodeTable(tbl[n]) /\ Timed(tbl[n], lost[n])
    BY DEF Inv, Tables, AllTimed
  <2> HIDE DEF r
  <2>6. Timed(t1, lost[n])
    BY <1>2, <2>3, <2>5, TimedAdd
  <2> HIDE DEF t1
  <2> QED BY <2>2, <2>4, <2>6, StepTimedTable
<1> QED BY <1>4, <1>5, <1>6, <1>7

(* Every step keeps the marked hops on the lists.                           *)
LEMMA NextTimed ==
  Inv /\ LostInv /\ NoBrokenTurnBack /\ AllTimed /\ [Next]_vars => AllTimed'
<1> SUFFICES ASSUME Inv, LostInv, NoBrokenTurnBack, AllTimed, [Next]_vars PROVE AllTimed'
  OBVIOUS
<1>1. PICK e \in EndsOf : AllOK(e)
  BY DEF LostInv
<1>2. CASE \E n, newnode \in Nodes, p \in PathIds, nh \in Hops : AnswerSetup(n, newnode, p, nh)
  BY <1>2, AnswerSetupTimed
<1>3. CASE \E n, m \in Nodes : \/ ProcessSetupReply(n, m) \/ ProcessTeardown(n, m)
                               \/ ProcessRepairLocalReply(n, m)
  BY <1>3, ProcessSetupReplyTimed, ProcessTeardownTimed, ProcessRepairLocalReplyTimed
<1>4. CASE \E n \in Nodes : NonEssTimer(n)
  BY <1>4, NonEssTimerTimed
<1>5. CASE \E n, x \in Nodes : RepairTimer(n, x) \/ GiveUpTimer(n, x)
  BY <1>1, <1>5, RepairTimerTimed, GiveUpTimerTimed
<1>6. CASE \E n, x \in Nodes : LinkPnei(n, x) \/ LosePnei(n, x)
  BY <1>1, <1>6, LinkPneiTimed, LosePneiTimed
<1>7. CASE UNCHANGED <<tbl, lost>>
  BY <1>7 DEF AllTimed
<1>8. CASE \E l \in Links : LinkDown(l) \/ LinkUp(l)
  BY <1>7, <1>8 DEF LinkDown, LinkUp, node
<1>9. CASE UNCHANGED vars
  BY <1>7, <1>9 DEF vars
<1> QED BY <1>2, <1>3, <1>4, <1>5, <1>6, <1>8, <1>9 DEF Next

(* No hop is marked when the nodes start.                                   *)
LEMMA InitTimed == Init => AllTimed
BY DEF Init, AllTimed, Timed, EmptyTable, InTable

(* Table and lostPneis agree: a hop that is marked is on the list of the    *)
(* pnei that was lost, and a vroute on a list goes over that pnei.  It      *)
(* holds through pneis that return, retries, repairs and Teardowns, but for *)
(* a vroute that turns back to the lost pnei, of which handleLinkedPnei and  *)
(* processRepairLocalReply restore one hop only.                            *)
THEOREM LostPneisAgree ==
  Spec /\ []HeardFromLinked /\ []NoBrokenTurnBack => []LostPneisMatchTable
<1>1. LostInv /\ AllTimed => LostPneisMatchTable
  <2> SUFFICES ASSUME LostInv, AllTimed PROVE LostPneisMatchTable
    OBVIOUS
  <2>1. \A n \in Nodes : ListOK(tbl[n], lost[n], linked[n]) /\ Timed(tbl[n], lost[n])
    BY DEF LostInv, AllOK, NodesOK, NodeOK, AllTimed
  <2> QED BY <2>1 DEF ListOK, CutBy, Timed, OnList, LostPneisMatchTable, HopsTimed, Known, R
<1> QED BY <1>1, AlwaysInv, AlwaysLost, InitTimed, NextTimed, PTL DEF Spec

(* ... and so do table and lostPneis, with local repair or without.         *)
THEOREM LostPneisAgreeForGood ==
  ASSUME ~Relink, ~BeaconLoss
  PROVE  Spec /\ []NoBrokenTurnBack => []LostPneisMatchTable
BY AlwaysHeard, LostPneisAgree, PTL
============================================================================
