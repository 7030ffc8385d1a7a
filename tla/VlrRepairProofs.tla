--------------------------- MODULE VlrRepairProofs ---------------------------
(***************************************************************************)
(* Proofs about VlrRepair, for any network, vroutes, options and faults:   *)
(* endpointToRoutesMap, vset, nonEssRoutes and dismantledRoutes agree with *)
(* the vroutes, the lists of lost pneis name vroutes over them, and floods *)
(* do not go round in circles.                                             *)
(*                                                                         *)
(* First the inductive invariant, RepairInv; then the parts of a handler,  *)
(* each of which leaves the record of a node as NodeGood wants it; then    *)
(* the handlers, the actions, and the theorems.                            *)
(***************************************************************************)
EXTENDS VlrRepair, VlrRingRoutingTableProofs, FiniteSetTheorems, SequenceTheorems, WellFoundedInduction

-----------------------------------------------------------------------------
(* The invariant                                                           *)

\* What a vroute is at a node: at an end, where a hop leads nowhere, no node came
\* before; a node does not come before itself; all but the vroutes of the setup, P,
\* are temporary.
RouteOK(n, P, p, r) ==
  /\ r.prev = NullVid <=> r.from = n
  /\ r.next = NullVid <=> r.to = n
  /\ r.prev = NullVid => r.prevhops = <<>>
  /\ n \notin Range(r.prevhops)
  /\ p \in P <=> ~IsTemporaryRoute(r.unavail)
  /\ p \notin P => ~r.isVset
  /\ \A toNext \in BOOLEAN : HopTo(r, toNext) = NullVid => HopState(r, toNext) = 0
  /\ IsDismantledRoute(r.unavail) => r.prev # NullVid /\ r.next # NullVid

EndsMatch(t, p) ==
  \A toNext \in BOOLEAN :
    <<EndTo(t.routes[p], toNext), p>> \in t.ends <=> HopState(t.routes[p], toNext) \in {0, 2}

TableOK(n, P, t) ==
  /\ t \in Table /\ EndsKnown(t)
  /\ \A p \in PathIds : InTable(t, p) => RouteOK(n, P, p, t.routes[p]) /\ EndsMatch(t, p)

\* a vset route is a vroute to that vnei
ServesVnei(n, t, v, p) ==
  /\ p \in PathIds /\ InTable(t, p) /\ t.routes[p].isVset
  /\ n \in {t.routes[p].from, t.routes[p].to} /\ v = OtherEnd(n, t.routes[p])

SetsOK(n, P, t, vset, nonEss, dismantled) ==
  /\ \A v \in DOMAIN vset : vset[v] # {} /\ \A p \in vset[v] : ServesVnei(n, t, v, p)
  /\ \A p \in PathIds : InTable(t, p) =>
       /\ p \in nonEss => ~t.routes[p].isVset
       /\ p \in dismantled <=> IsDismantledRoute(t.routes[p].unavail)
  /\ dismantled \subseteq P

\* a vroute on the list of a lost pnei goes over it
Over(t, p, x) == InTable(t, p) => x \in {t.routes[p].prev, t.routes[p].next}

LostOK(P, t, lost) ==
  \A x \in DOMAIN lost :
    /\ x \in Vids /\ lost[x] \in LostPneiInfo
    /\ lost[x].broken \subseteq P /\ lost[x].temp \cap P = {}
    /\ \A p \in lost[x].broken : Over(t, p, x)

DelayedOK(n, P, delayed) ==
  \A src \in DOMAIN delayed :
    src \in Nodes \ {n} /\ delayed[src] \in RepairLinkReqInfo /\ delayed[src].broken \subseteq P

RecentOK(P, recent) ==
  \A t \in DOMAIN recent : DOMAIN recent[t] \subseteq P /\ \A p \in DOMAIN recent[t] : recent[t][p] \in Vids

HeardOK(heard) == \A src \in DOMAIN heard : heard[src] \in Nat

\* A reply goes back along the trace of the request, on which its source is not.
GoodReply(P, m, msg) ==
  /\ msg.path \notin P /\ msg.broken \subseteq P
  /\ m \in Range(msg.trace) /\ msg.src \notin Range(msg.trace)

MessagesTo(P, m) ==
  TeardownInt \cup RepairRouteInt
    \cup {msg \in RepairLinkReplyInt : GoodReply(P, m, msg)}
    \cup {msg \in RepairLinkFailInt : msg.broken \subseteq P}

SentOK(P, out) == DOMAIN out = Nodes /\ \A m \in Nodes : out[m] \in Seq(MessagesTo(P, m))

NodeFields ==
  {"tbl", "vset", "nonEss", "unwanted", "asks", "inNet", "warm", "late", "dismantled", "lost",
   "linked", "pending", "recent", "delayed", "heard", "seq", "wake", "out"}

NodeGood(n, P, s) ==
  /\ NodeFields \subseteq DOMAIN s
  /\ TableOK(n, P, s.tbl)
  /\ SetsOK(n, P, s.tbl, s.vset, s.nonEss, s.dismantled)
  /\ LostOK(P, s.tbl, s.lost)
  /\ DelayedOK(n, P, s.delayed)
  /\ RecentOK(P, s.recent)
  /\ HeardOK(s.heard) /\ s.seq \in Nat
  /\ SentOK(P, s.out)

\* A flood asks nobody on its trace.
FloodOK(P, f) ==
  /\ f \in [to : Nodes, dst : {f.dst}, trace : Seq(Nodes), seq : Nat, ttl : {f.ttl}]
  /\ f.trace # <<>> /\ DOMAIN f.dst \cap Range(f.trace) = {}
  /\ \A v \in DOMAIN f.dst : f.dst[v] \subseteq P

NodesOK(P, nd) == DOMAIN nd = Nodes /\ \A n \in Nodes : NodeGood(n, P, nd[n]) /\ nd[n].out = Nothing

ChanOK(P, c) == DOMAIN c = Nodes /\ \A n \in Nodes : SentOK(P, c[n])

\* Whoever passed a flood on has recorded its number.
PassedOn(nd, f) ==
  \A u \in Range(f.trace) :
    \/ u = f.trace[1]
    \/ f.trace[1] \in DOMAIN nd[u].heard /\ f.seq <= nd[u].heard[f.trace[1]]

AirOK(P, nd, a) == \A f \in a : FloodOK(P, f) /\ PassedOn(nd, f)

Perm == DOMAIN setup.vroutes

RepairInv ==
  /\ setup \in Setups /\ Perm \subseteq used
  /\ NodesOK(Perm, node) /\ ChanOK(Perm, chan) /\ AirOK(Perm, node, air)

-----------------------------------------------------------------------------
(* Constants                                                               *)

LEMMA Constants ==
  /\ NullVid \notin Vids /\ NullVid \notin Nodes /\ Nodes \subseteq Vids /\ DummyVid \in Vids
  /\ NoPath \notin PathIds /\ NoRoute \notin Route
  /\ PathIds \subseteq Nat /\ Vids \subseteq Nat
  /\ RetryLimit \in Nat /\ NoTimer \notin Nat
BY RepairAssumption, RouteAssumption DEF Nodes

LEMMA Finite ==
  ASSUME NEW S, S \in SUBSET PathIds \/ S \in SUBSET Vids
  PROVE  S \in SUBSET Nat /\ IsFiniteSet(S)
BY FS_Subset, RepairAssumption

-----------------------------------------------------------------------------
(* The status byte                                                         *)

\* Flagging one side of a vroute as dismantled changes nothing else.
LEMMA FlagStatus ==
  ASSUME NEW u \in Status, NEW setPrev \in BOOLEAN
  PROVE  /\ SetDismantled(u, setPrev) \in Status
         /\ SetDismantled(u, setPrev) % 16 = u % 16
         /\ IsTemporaryRoute(SetDismantled(u, setPrev)) = IsTemporaryRoute(u)
         /\ IsDismantledRoute(SetDismantled(u, setPrev))
<1>1. CASE setPrev
  <2>1. CASE (u \div 64) % 2 = 1
    <3>1. SetDismantled(u, setPrev) = u
      BY <1>1, <2>1 DEF SetDismantled
    <3>2. (u \div 32) % 4 # 0
      BY <2>1 DEF Status
    <3> QED BY <3>1, <3>2 DEF IsDismantledRoute, IsDismantled2bit
  <2>2. CASE (u \div 64) % 2 # 1
    <3> DEFINE w == u + 64
    <3>1. SetDismantled(u, setPrev) = w
      BY <1>1, <2>2 DEF SetDismantled
    <3>2. w \in Status /\ w % 16 = u % 16 /\ (w \div 16) % 2 = (u \div 16) % 2
      BY <2>2 DEF Status
    <3>3. (w \div 32) % 4 # 0
      BY <2>2 DEF Status
    <3> HIDE DEF w
    <3> QED BY <3>1, <3>2, <3>3 DEF IsTemporaryRoute, IsDismantledRoute, IsDismantled2bit
  <2> QED BY <2>1, <2>2
<1>2. CASE ~setPrev
  <2>1. CASE (u \div 32) % 2 = 1
    <3>1. SetDismantled(u, setPrev) = u
      BY <1>2, <2>1 DEF SetDismantled
    <3>2. (u \div 32) % 4 # 0
      BY <2>1 DEF Status
    <3> QED BY <3>1, <3>2 DEF IsDismantledRoute, IsDismantled2bit
  <2>2. CASE (u \div 32) % 2 # 1
    <3> DEFINE w == u + 32
    <3>1. SetDismantled(u, setPrev) = w
      BY <1>2, <2>2 DEF SetDismantled
    <3>2. w \in Status /\ w % 16 = u % 16 /\ (w \div 16) % 2 = (u \div 16) % 2
      BY <2>2 DEF Status
    <3>3. (w \div 32) % 4 # 0
      BY <2>2 DEF Status
    <3> HIDE DEF w
    <3> QED BY <3>1, <3>2, <3>3 DEF IsTemporaryRoute, IsDismantledRoute, IsDismantled2bit
  <2> QED BY <2>1, <2>2
<1> QED BY <1>1, <1>2

LEMMA SameLowBits ==
  ASSUME NEW u \in Status, NEW w \in Status, w % 16 = u % 16, NEW side \in BOOLEAN
  PROVE  PrevNextIsUnavailable(w, side) = PrevNextIsUnavailable(u, side)
<1>1. w % 4 = u % 4 /\ (w \div 4) % 4 = (u \div 4) % 4
  BY DEF Status
<1> QED BY <1>1, ReadStatus

-----------------------------------------------------------------------------
(* Tables                                                                  *)

\* The same vroutes with the same ends, of the same kind ...
SameEnds(t, t1) ==
  \A p \in PathIds : /\ InTable(t1, p) <=> InTable(t, p)
                     /\ InTable(t, p) =>
                          /\ t1.routes[p].from = t.routes[p].from /\ t1.routes[p].to = t.routes[p].to
                          /\ t1.routes[p].isVset = t.routes[p].isVset
                          /\ IsDismantledRoute(t1.routes[p].unavail) = IsDismantledRoute(t.routes[p].unavail)

\* ... and the same hops
SameHops(t, t1) ==
  \A p \in PathIds : InTable(t1, p) =>
    /\ InTable(t, p) /\ t1.routes[p].prev = t.routes[p].prev /\ t1.routes[p].next = t.routes[p].next

\* nothing but the entry of p has changed
OnlyAt(t, t1, p) == \A q \in PathIds \ {p} : t1.routes[q] = t.routes[q]

LEMMA SetsKept ==
  ASSUME NEW n, NEW P, NEW t, NEW t1, NEW vset, NEW nonEss, NEW dismantled,
         SetsOK(n, P, t, vset, nonEss, dismantled), SameEnds(t, t1)
  PROVE  SetsOK(n, P, t1, vset, nonEss, dismantled)
BY DEF SetsOK, SameEnds, ServesVnei, OtherEnd

LEMMA LostKept ==
  ASSUME NEW P \in SUBSET PathIds, NEW t, NEW t1, NEW lost, LostOK(P, t, lost), SameHops(t, t1)
  PROVE  LostOK(P, t1, lost)
BY DEF LostOK, SameHops, Over

LEMMA RouteIn ==
  ASSUME NEW n, NEW P, NEW t, TableOK(n, P, t), NEW p \in PathIds, InTable(t, p)
  PROVE  /\ t.routes[p] \in Route /\ RouteOK(n, P, p, t.routes[p]) /\ EndsMatch(t, p)
         /\ t.routes[p].from \in Vids /\ t.routes[p].to \in Vids /\ t.routes[p].from # t.routes[p].to
         /\ t.routes[p].prev \in Hops /\ t.routes[p].next \in Hops
         /\ t.routes[p].unavail \in Status
<1>1. t.routes[p] \in Route /\ RouteOK(n, P, p, t.routes[p]) /\ EndsMatch(t, p)
  BY DEF TableOK, Table, InTable
<1> QED BY <1>1 DEF Route

\* the entry of p is replaced by r and its end points are listed anew
Edited(t, t1, p, r) ==
  /\ t1 = [routes |-> [t.routes EXCEPT ![p] = r], ends |-> t1.ends]
  /\ t1.ends \in SUBSET (Vids \X PathIds)
  /\ \A v : \A q \in PathIds \ {p} : <<v, q>> \in t1.ends <=> <<v, q>> \in t.ends
  /\ \A v : <<v, p>> \in t1.ends => v \in {r.from, r.to}
  /\ \A toNext \in BOOLEAN : <<EndTo(r, toNext), p>> \in t1.ends <=> HopState(r, toNext) \in {0, 2}

LEMMA PutRoute ==
  ASSUME NEW n, NEW P, NEW t, TableOK(n, P, t), NEW p \in PathIds, InTable(t, p),
         NEW r \in Route, RouteOK(n, P, p, r),
         r.from = t.routes[p].from, r.to = t.routes[p].to,
         NEW t1, Edited(t, t1, p, r)
  PROVE  /\ TableOK(n, P, t1) /\ OnlyAt(t, t1, p) /\ t1.routes[p] = r
         /\ \A q \in PathIds : InTable(t1, q) <=> InTable(t, q)
<1> DEFINE E == t1.ends
<1>1. t \in Table /\ EndsKnown(t)
  BY DEF TableOK
<1>0. /\ t1 = [routes |-> [t.routes EXCEPT ![p] = r], ends |-> t1.ends]
      /\ t1.ends \in SUBSET (Vids \X PathIds)
      /\ \A v : \A q \in PathIds \ {p} : <<v, q>> \in t1.ends <=> <<v, q>> \in t.ends
      /\ \A v : <<v, p>> \in t1.ends => v \in {r.from, r.to}
      /\ \A toNext \in BOOLEAN : <<EndTo(r, toNext), p>> \in t1.ends <=> HopState(r, toNext) \in {0, 2}
  BY DEF Edited
<1>2. \A q \in PathIds : t1.routes[q] = IF q = p THEN r ELSE t.routes[q]
  BY <1>0, <1>1 DEF Table
<1>3. t1 \in Table
  BY <1>0, <1>1 DEF Table
<1>4. \A q \in PathIds : InTable(t1, q) <=> InTable(t, q)
  BY <1>2, Constants DEF InTable
<1>5. EndsKnown(t1)
  <2> SUFFICES ASSUME NEW e \in E PROVE InTable(t1, e[2]) /\ e[1] \in {t1.routes[e[2]].from, t1.routes[e[2]].to}
    BY DEF EndsKnown
  <2>1. e = <<e[1], e[2]>> /\ e[2] \in PathIds
    BY <1>0
  <2>2. CASE e[2] = p
    BY <1>0, <1>2, <1>4, <2>1, <2>2
  <2>3. CASE e[2] # p
    <3>1. e \in t.ends
      BY <1>0, <2>1, <2>3
    <3> QED BY <1>1, <1>2, <1>4, <2>1, <2>3, <3>1 DEF EndsKnown
  <2> QED BY <2>2, <2>3
<1>6. ASSUME NEW q \in PathIds, InTable(t1, q)
      PROVE  RouteOK(n, P, q, t1.routes[q]) /\ EndsMatch(t1, q)
  <2>1. CASE q = p
    BY <1>0, <1>2, <2>1 DEF EndsMatch
  <2>2. CASE q # p
    <3>1. RouteOK(n, P, q, t.routes[q]) /\ EndsMatch(t, q)
      BY <1>4, <1>6 DEF TableOK
    <3>2. t1.routes[q] = t.routes[q]
      BY <1>2, <2>2
    <3> QED BY <1>0, <3>1, <3>2, <2>2 DEF EndsMatch
  <2> QED BY <2>1, <2>2
<1> QED BY <1>2, <1>3, <1>4, <1>5, <1>6 DEF TableOK, OnlyAt

\* ... or its end points stay as they are
WithRoute(t, p, r) == [t EXCEPT !.routes[p] = r]

LEMMA PutRouteSame ==
  ASSUME NEW n, NEW P, NEW t, TableOK(n, P, t), NEW p \in PathIds, InTable(t, p),
         NEW r \in Route, RouteOK(n, P, p, r),
         r.from = t.routes[p].from, r.to = t.routes[p].to,
         \A toNext \in BOOLEAN : HopState(r, toNext) \in {0, 2} <=> HopState(t.routes[p], toNext) \in {0, 2},
         NEW t1, t1 = WithRoute(t, p, r)
  PROVE  /\ TableOK(n, P, t1) /\ OnlyAt(t, t1, p) /\ t1.routes[p] = r
         /\ \A q \in PathIds : InTable(t1, q) <=> InTable(t, q)
<1>1. t \in Table /\ EndsKnown(t) /\ EndsMatch(t, p)
  BY DEF TableOK
<1>2. t1.ends = t.ends /\ t.ends \in SUBSET (Vids \X PathIds)
      /\ t1 = [routes |-> [t.routes EXCEPT ![p] = r], ends |-> t1.ends]
  BY <1>1 DEF Table, WithRoute
<1>3. \A v : <<v, p>> \in t1.ends => v \in {r.from, r.to}
  <2>1. \A e \in t.ends : e[1] \in {t.routes[e[2]].from, t.routes[e[2]].to}
    BY <1>1 DEF EndsKnown
  <2> QED BY <1>2, <2>1
<1>4. \A toNext \in BOOLEAN : <<EndTo(r, toNext), p>> \in t1.ends <=> HopState(r, toNext) \in {0, 2}
  BY <1>1, <1>2 DEF EndsMatch, EndTo
<1>5. \A v : \A q \in PathIds \ {p} : <<v, q>> \in t1.ends <=> <<v, q>> \in t.ends
  BY <1>2
<1>6. Edited(t, t1, p, r)
  BY <1>2, <1>3, <1>4, <1>5 DEF Edited
<1> QED BY <1>6, PutRoute

\* the vroute leaves the table
LEMMA RemoveRouteOK ==
  ASSUME NEW n, NEW P, NEW t, TableOK(n, P, t), NEW p
  PROVE  /\ TableOK(n, P, RemoveRoute(t, p)) /\ OnlyAt(t, RemoveRoute(t, p), p)
         /\ \A q \in PathIds : InTable(RemoveRoute(t, p), q) <=> InTable(t, q) /\ q # p
<1> DEFINE t1 == RemoveRoute(t, p)
<1>1. t \in Table /\ EndsKnown(t)
  BY DEF TableOK
<1>2. \A q \in PathIds : t1.routes[q] = IF q = p THEN NoRoute ELSE t.routes[q]
  BY DEF RemoveRoute, RemoveRoutes
<1>3. t1.ends = {e \in t.ends : e[2] # p}
  BY <1>1 DEF RemoveRoute, RemoveRoutes, EndsKnown
<1>4. t1 \in Table
  <2>1. t1 = [routes |-> t1.routes, ends |-> t1.ends] /\ t1.routes \in [PathIds -> Route \cup {NoRoute}]
    BY <1>1 DEF RemoveRoute, RemoveRoutes, Table
  <2> QED BY <1>1, <1>3, <2>1 DEF Table
<1>5. \A q \in PathIds : InTable(t1, q) <=> InTable(t, q) /\ q # p
  BY <1>2 DEF InTable
<1>6. EndsKnown(t1)
  <2>1. \A e \in t.ends : e[2] \in PathIds
    BY <1>1 DEF Table
  <2> QED BY <1>1, <1>2, <1>3, <1>5, <2>1 DEF EndsKnown
<1>7. ASSUME NEW q \in PathIds, InTable(t1, q)
      PROVE  RouteOK(n, P, q, t1.routes[q]) /\ EndsMatch(t1, q)
  <2>1. RouteOK(n, P, q, t.routes[q]) /\ EndsMatch(t, q) /\ q # p
    BY <1>5, <1>7 DEF TableOK
  <2>2. t1.routes[q] = t.routes[q]
    BY <1>2, <2>1
  <2>3. \A v : <<v, q>> \in t1.ends <=> <<v, q>> \in t.ends
    BY <1>3, <2>1
  <2> QED BY <2>1, <2>2, <2>3 DEF EndsMatch
<1> QED BY <1>2, <1>4, <1>5, <1>6, <1>7 DEF TableOK, OnlyAt

\* a vroute enters it, with hops that work
LEMMA AddRouteOK ==
  ASSUME NEW n, NEW P, NEW t, TableOK(n, P, t), NEW p \in PathIds,
         NEW r \in Route, RouteOK(n, P, p, r), r.unavail \in {0, 16}
  PROVE  /\ TableOK(n, P, AddRoute(t, p, r)) /\ OnlyAt(t, AddRoute(t, p, r), p)
         /\ AddRoute(t, p, r).routes[p] = IF InTable(t, p) THEN t.routes[p] ELSE r
<1>1. CASE InTable(t, p)
  BY <1>1 DEF AddRoute, OnlyAt
<1>2. CASE ~InTable(t, p)
  <2> DEFINE t1 == AddRoute(t, p, r)
             both == {<<r.from, p>>, <<r.to, p>>}
  <2>1. t1 = [routes |-> [t.routes EXCEPT ![p] = r], ends |-> t.ends \cup both]
    BY <1>2 DEF AddRoute
  <2>2. t \in Table /\ EndsKnown(t)
    BY DEF TableOK
  <2>3. r.from \in Vids /\ r.to \in Vids /\ r # NoRoute
    BY RouteAssumption DEF Route
  <2>4. t1 \in Table
    BY <2>1, <2>2, <2>3 DEF Table
  <2>5. \A q \in PathIds : t1.routes[q] = IF q = p THEN r ELSE t.routes[q]
    BY <2>1, <2>2 DEF Table
  <2>6. \A e \in t.ends : e[2] \in PathIds /\ e[2] # p
    BY <1>2, <2>2 DEF EndsKnown, Table
  <2>7. EndsKnown(t1)
    BY <2>1, <2>2, <2>3, <2>5, <2>6 DEF EndsKnown, InTable
  <2>8. ASSUME NEW q \in PathIds, InTable(t1, q)
        PROVE  RouteOK(n, P, q, t1.routes[q]) /\ EndsMatch(t1, q)
    <3>1. CASE q = p
      <4>1. \A toNext \in BOOLEAN : HopState(r, toNext) = 0
        BY DEF HopState, PrevNextIsUnavailable
      <4>2. <<r.from, p>> \in t1.ends /\ <<r.to, p>> \in t1.ends
        BY <2>1
      <4> QED BY <2>5, <3>1, <4>1, <4>2 DEF EndsMatch, EndTo
    <3>2. CASE q # p
      <4>1. t1.routes[q] = t.routes[q] /\ InTable(t, q)
        BY <2>5, <2>8, <3>2 DEF InTable
      <4>2. \A v : <<v, q>> \in t1.ends <=> <<v, q>> \in t.ends
        BY <2>1, <3>2
      <4>3. RouteOK(n, P, q, t.routes[q]) /\ EndsMatch(t, q)
        BY <4>1 DEF TableOK
      <4> QED BY <4>1, <4>2, <4>3 DEF EndsMatch
    <3> QED BY <3>1, <3>2
  <2> QED BY <1>2, <2>4, <2>5, <2>7, <2>8 DEF TableOK, OnlyAt
<1> QED BY <1>1, <1>2

-----------------------------------------------------------------------------
(* Parts of the handlers.  Each leads from a good state of a node to one    *)
(* and leaves the floods heard and the requests kept alone.                *)
Leads(n, P, s, s1) == NodeGood(n, P, s1) /\ s1.heard = s.heard /\ s1.delayed = s.delayed

\* what most of them leave alone
KeepsTable(s, s1) == s1.tbl = s.tbl
KeepsSets(s, s1)  == s1.vset = s.vset /\ s1.nonEss = s.nonEss /\ s1.recent = s.recent
KeepsLost(s, s1)  == s1.lost = s.lost
KeepsVset(s, s1)  == s1.vset = s.vset

LEMMA KeepsOn ==
  ASSUME NEW s, NEW s1, NEW s2
  PROVE  /\ KeepsTable(s, s) /\ KeepsSets(s, s) /\ KeepsLost(s, s) /\ KeepsVset(s, s)
         /\ KeepsSets(s, s1) => KeepsVset(s, s1)
         /\ KeepsVset(s, s1) /\ KeepsVset(s1, s2) => KeepsVset(s, s2)
         /\ KeepsTable(s, s1) /\ KeepsTable(s1, s2) => KeepsTable(s, s2)
         /\ KeepsSets(s, s1) /\ KeepsSets(s1, s2) => KeepsSets(s, s2)
         /\ KeepsLost(s, s1) /\ KeepsLost(s1, s2) => KeepsLost(s, s2)
BY DEF KeepsTable, KeepsSets, KeepsLost, KeepsVset

LEMMA LeadsOn ==
  ASSUME NEW n, NEW P, NEW s, NEW s1, NEW s2, Leads(n, P, s, s1), Leads(n, P, s1, s2)
  PROVE  Leads(n, P, s, s2)
BY DEF Leads

LEMMA LeadsHere ==
  ASSUME NEW n, NEW P, NEW s, NodeGood(n, P, s)
  PROVE  Leads(n, P, s, s)
BY DEF Leads

\* the fields no property is about
LEMMA OtherFields ==
  ASSUME NEW n, NEW P, NEW s, NodeGood(n, P, s), NEW s1,
         NodeFields \subseteq DOMAIN s1,
         s1.tbl = s.tbl, s1.vset = s.vset, s1.nonEss = s.nonEss, s1.dismantled = s.dismantled,
         s1.lost = s.lost, s1.delayed = s.delayed, s1.recent = s.recent, s1.heard = s.heard,
         s1.seq = s.seq, s1.out = s.out
  PROVE  Leads(n, P, s, s1)
BY DEF NodeGood, Leads

LEMMA PostLeads ==
  ASSUME NEW n, NEW P, NEW s, NodeGood(n, P, s), NEW x, NEW msg, x \in Nodes => msg \in MessagesTo(P, x)
  PROVE  /\ Leads(n, P, s, Post(s, x, msg))
         /\ Post(s, x, msg).tbl = s.tbl /\ Post(s, x, msg).lost = s.lost /\ Post(s, x, msg).recent = s.recent
         /\ Post(s, x, msg).nonEss = s.nonEss /\ Post(s, x, msg).dismantled = s.dismantled
         /\ Post(s, x, msg).vset = s.vset
<1> DEFINE s1 == Post(s, x, msg)
<1>1. NodeFields \subseteq DOMAIN s /\ SentOK(P, s.out)
  BY DEF NodeGood
<1>2. /\ s1.tbl = s.tbl /\ s1.vset = s.vset /\ s1.nonEss = s.nonEss /\ s1.dismantled = s.dismantled
      /\ s1.lost = s.lost /\ s1.delayed = s.delayed /\ s1.recent = s.recent /\ s1.heard = s.heard
      /\ s1.seq = s.seq /\ NodeFields \subseteq DOMAIN s1
  BY <1>1 DEF Post, NodeFields
<1>3. s1.out = [s.out EXCEPT ![x] = Append(@, msg)]
  BY <1>1 DEF Post, NodeFields
<1>4. SentOK(P, s1.out)
  <2>1. x \in Nodes => Append(s.out[x], msg) \in Seq(MessagesTo(P, x))
    BY <1>1, AppendProperties DEF SentOK
  <2> QED BY <1>1, <1>3, <2>1 DEF SentOK
<1> QED BY <1>2, <1>4 DEF NodeGood, Leads

-----------------------------------------------------------------------------
(* lostPneis                                                               *)

LEMMA LostFields ==
  ASSUME NEW n, NEW P, NEW s, NodeGood(n, P, s), NEW x \in DOMAIN s.lost
  PROVE  /\ x \in Vids /\ x # NullVid
         /\ s.lost[x].broken \in SUBSET P /\ s.lost[x].broken \in SUBSET PathIds
         /\ s.lost[x].temp \in SUBSET PathIds /\ s.lost[x].temp \cap P = {}
         /\ s.lost[x].timer \in WaitRepairLinkIntTimer \cup {NoTimer} /\ s.lost[x].due \in BOOLEAN
         /\ \A p \in s.lost[x].broken : Over(s.tbl, p, x)
<1>1. LostOK(P, s.tbl, s.lost)
  BY DEF NodeGood
<1> QED BY <1>1, Constants DEF LostOK, LostPneiInfo

\* lostPneis is replaced
WithLost(s, lost) == [s EXCEPT !.lost = lost]

LEMMA PutLost ==
  ASSUME NEW n, NEW P, NEW s, NodeGood(n, P, s), NEW lost, LostOK(P, s.tbl, lost),
         NEW s1, s1 = WithLost(s, lost)
  PROVE  /\ Leads(n, P, s, s1) /\ s1.lost = lost /\ s1.tbl = s.tbl /\ s1.vset = s.vset
         /\ s1.recent = s.recent /\ s1.nonEss = s.nonEss
<1>1. NodeFields \subseteq DOMAIN s
  BY DEF NodeGood
<1>2. /\ s1.tbl = s.tbl /\ s1.vset = s.vset /\ s1.nonEss = s.nonEss /\ s1.dismantled = s.dismantled
      /\ s1.lost = lost /\ s1.delayed = s.delayed /\ s1.recent = s.recent /\ s1.heard = s.heard
      /\ s1.seq = s.seq /\ s1.out = s.out /\ NodeFields \subseteq DOMAIN s1
  BY <1>1 DEF NodeFields, WithLost
<1> QED BY <1>2 DEF NodeGood, Leads

NewLost == [broken |-> {}, timer |-> NoTimer, due |-> FALSE, temp |-> {}]
LostAt(s, x) == IF x \in DOMAIN s.lost THEN s.lost[x] ELSE NewLost

OverAll(t, ps, x) == \A p \in ps : Over(t, p, x)

\* the vroutes ps are added to the list of x
Added(s, s1, x, ps) ==
  /\ DOMAIN s1.lost = DOMAIN s.lost \cup {x}
  /\ s1.lost[x].broken = LostAt(s, x).broken \cup ps /\ s1.lost[x].temp = LostAt(s, x).temp
  /\ \A y \in DOMAIN s.lost \ {x} : s1.lost[y] = s.lost[y]

LEMMA AddBrokenLeads ==
  ASSUME NEW n, NEW P \in SUBSET PathIds, NEW s, NodeGood(n, P, s), NEW x \in Vids, NEW ps \in SUBSET P,
         NEW timer \in WaitRepairLinkIntTimer \cup {NoTimer}, OverAll(s.tbl, ps, x),
         NEW s1, s1 = AddBroken(s, x, ps, timer)
  PROVE  Leads(n, P, s, s1) /\ KeepsTable(s, s1) /\ KeepsSets(s, s1) /\ Added(s, s1, x, ps)
<1> DEFINE old  == LostAt(s, x)
           new  == [old EXCEPT !.broken = @ \cup ps, !.timer = IF @ = NoTimer THEN timer ELSE @]
           lost == [y \in DOMAIN s.lost \cup {x} |-> IF y = x THEN new ELSE s.lost[y]]
<1>1. NodeFields \subseteq DOMAIN s /\ LostOK(P, s.tbl, s.lost)
  BY DEF NodeGood
<1>2. s1 = WithLost(s, lost)
  BY <1>1 DEF WithLost, AddBroken, Put, LostAt, NewLost, NodeFields
<1>3. old \in LostPneiInfo /\ old.broken \subseteq P /\ old.temp \cap P = {}
      /\ \A p \in old.broken : Over(s.tbl, p, x)
  BY <1>1 DEF LostAt, NewLost, LostOK, LostPneiInfo
<1>4. new \in LostPneiInfo /\ new.broken = old.broken \cup ps /\ new.temp = old.temp
  BY <1>3 DEF LostPneiInfo
<1>5. LostOK(P, s.tbl, lost)
  <2> HIDE DEF old, new
  <2> QED BY <1>1, <1>3, <1>4 DEF LostOK, OverAll
<1> HIDE DEF old, new, lost
<1>6. /\ Leads(n, P, s, s1) /\ s1.lost = lost /\ s1.tbl = s.tbl /\ s1.recent = s.recent /\ s1.vset = s.vset
      /\ s1.nonEss = s.nonEss
  BY <1>2, <1>5, PutLost
<1>7. Added(s, s1, x, ps)
  BY <1>4, <1>6 DEF lost, old, Added
<1> QED BY <1>6, <1>7 DEF KeepsTable, KeepsSets

\* an entry becomes another one that lists no more
WithEntry(s, x, e) == [s EXCEPT !.lost = [@ EXCEPT ![x] = e]]

LEMMA PutEntry ==
  ASSUME NEW n, NEW P, NEW s, NodeGood(n, P, s), NEW x \in DOMAIN s.lost,
         NEW e \in LostPneiInfo, e.broken \subseteq s.lost[x].broken, e.temp \cap P = {},
         NEW s1, s1 = WithEntry(s, x, e)
  PROVE  /\ Leads(n, P, s, s1) /\ s1.tbl = s.tbl /\ s1.vset = s.vset /\ s1.recent = s.recent
         /\ s1.nonEss = s.nonEss
         /\ DOMAIN s1.lost = DOMAIN s.lost /\ s1.lost[x] = e
         /\ \A y \in DOMAIN s.lost \ {x} : s1.lost[y] = s.lost[y]
<1> DEFINE lost == [s.lost EXCEPT ![x] = e]
<1>1. NodeFields \subseteq DOMAIN s /\ LostOK(P, s.tbl, s.lost)
  BY DEF NodeGood
<1>2. s1 = WithLost(s, lost)
  BY <1>1 DEF NodeFields, WithLost, WithEntry
<1>3. LostOK(P, s.tbl, lost)
  BY <1>1 DEF LostOK
<1>4. /\ DOMAIN lost = DOMAIN s.lost /\ lost[x] = e
      /\ \A y \in DOMAIN s.lost \ {x} : lost[y] = s.lost[y]
  OBVIOUS
<1> HIDE DEF lost
<1>5. /\ Leads(n, P, s, s1) /\ s1.lost = lost /\ s1.tbl = s.tbl /\ s1.vset = s.vset
      /\ s1.recent = s.recent /\ s1.nonEss = s.nonEss
  BY <1>2, <1>3, PutLost
<1> QED BY <1>4, <1>5

LEMMA EraseBrokenLeads ==
  ASSUME NEW n, NEW P, NEW s, NodeGood(n, P, s), NEW p, NEW x, NEW s1, s1 = EraseBroken(s, p, x)
  PROVE  /\ Leads(n, P, s, s1) /\ s1.tbl = s.tbl /\ s1.recent = s.recent /\ s1.vset = s.vset
         /\ s1.nonEss = s.nonEss
         /\ DOMAIN s1.lost = DOMAIN s.lost
         /\ x \in DOMAIN s.lost => s1.lost[x].broken = s.lost[x].broken \ {p} /\ s1.lost[x].temp = s.lost[x].temp
         /\ \A y \in DOMAIN s.lost \ {x} : s1.lost[y] = s.lost[y]
<1>1. CASE x \notin DOMAIN s.lost
  BY <1>1, LeadsHere DEF EraseBroken
<1>2. CASE x \in DOMAIN s.lost
  <2> DEFINE e == [s.lost[x] EXCEPT !.broken = @ \ {p}]
  <2>1. NodeFields \subseteq DOMAIN s /\ s.lost[x] \in LostPneiInfo /\ s.lost[x].temp \cap P = {}
    BY <1>2 DEF NodeGood, LostOK
  <2>2. e \in LostPneiInfo /\ e.broken = s.lost[x].broken \ {p} /\ e.temp = s.lost[x].temp
    BY <2>1 DEF LostPneiInfo
  <2>3. s1 = WithEntry(s, x, e)
    BY <1>2 DEF EraseBroken, WithEntry
  <2> HIDE DEF e
  <2> QED BY <1>2, <2>1, <2>2, <2>3, PutEntry
<1> QED BY <1>1, <1>2

LEMMA NoTimerForLeads ==
  ASSUME NEW n, NEW P, NEW s, NodeGood(n, P, s), NEW x \in DOMAIN s.lost, NEW s1, s1 = NoTimerFor(s, x)
  PROVE  /\ Leads(n, P, s, s1) /\ s1.tbl = s.tbl /\ s1.recent = s.recent /\ s1.nonEss = s.nonEss
         /\ DOMAIN s1.lost = DOMAIN s.lost
         /\ s1.lost[x].broken = s.lost[x].broken /\ s1.lost[x].temp = s.lost[x].temp
         /\ \A y \in DOMAIN s.lost \ {x} : s1.lost[y] = s.lost[y]
<1> DEFINE e == [s.lost[x] EXCEPT !.timer = NoTimer, !.due = FALSE]
<1>1. NodeFields \subseteq DOMAIN s /\ s.lost[x] \in LostPneiInfo /\ s.lost[x].temp \cap P = {}
  BY DEF NodeGood, LostOK
<1>2. e \in LostPneiInfo /\ e.broken = s.lost[x].broken /\ e.temp = s.lost[x].temp
  BY <1>1 DEF LostPneiInfo
<1>3. s1 = WithEntry(s, x, e)
  <2>1. s1 = [[s EXCEPT !.lost[x].timer = NoTimer] EXCEPT !.lost[x].due = FALSE]
    BY DEF NoTimerFor
  <2> QED BY <1>1, <2>1 DEF NodeFields, LostPneiInfo, WithEntry
<1> HIDE DEF e
<1> QED BY <1>1, <1>2, <1>3, PutEntry

LEMMA DropLostLeads ==
  ASSUME NEW n, NEW P, NEW s, NodeGood(n, P, s), NEW x \in DOMAIN s.lost, NEW s1, s1 = DropLost(s, x)
  PROVE  /\ Leads(n, P, s, s1) /\ s1.tbl = s.tbl /\ s1.vset = s.vset
         /\ DOMAIN s1.lost = DOMAIN s.lost \ {x}
<1> DEFINE lost   == Restrict(s.lost, DOMAIN s.lost \ {x})
           nonEss == s.nonEss \cup s.lost[x].temp
<1>1. /\ NodeFields \subseteq DOMAIN s /\ LostOK(P, s.tbl, s.lost) /\ TableOK(n, P, s.tbl)
      /\ SetsOK(n, P, s.tbl, s.vset, s.nonEss, s.dismantled)
  BY DEF NodeGood
<1>2. /\ s1.tbl = s.tbl /\ s1.vset = s.vset /\ s1.nonEss = nonEss /\ s1.dismantled = s.dismantled
      /\ s1.lost = lost /\ s1.delayed = s.delayed /\ s1.recent = s.recent /\ s1.heard = s.heard
      /\ s1.seq = s.seq /\ s1.out = s.out /\ NodeFields \subseteq DOMAIN s1
  BY <1>1 DEF DropLost, NodeFields
<1>3. LostOK(P, s.tbl, lost) /\ DOMAIN lost = DOMAIN s.lost \ {x}
  BY <1>1 DEF LostOK, Restrict
<1>4. \A p \in s.lost[x].temp : p \in PathIds /\ InTable(s.tbl, p) => ~s.tbl.routes[p].isVset
  BY <1>1 DEF LostOK, TableOK, RouteOK
<1>5. SetsOK(n, P, s.tbl, s.vset, nonEss, s.dismantled)
  BY <1>1, <1>4 DEF SetsOK
<1> HIDE DEF lost, nonEss
<1> QED BY <1>2, <1>3, <1>5 DEF NodeGood, Leads

LEMMA LoseBrokenLeads ==
  ASSUME NEW n, NEW P, NEW s, NodeGood(n, P, s), NEW p, NEW x, NEW s1, s1 = LoseBroken(s, p, x)
  PROVE  /\ Leads(n, P, s, s1) /\ s1.tbl = s.tbl /\ s1.vset = s.vset
         /\ DOMAIN s1.lost \subseteq DOMAIN s.lost
<1>1. CASE x \notin DOMAIN s.lost
  BY <1>1, LeadsHere DEF LoseBroken
<1>2. CASE x \in DOMAIN s.lost /\ s.lost[x].broken \subseteq {p}
  <2>1. s1 = DropLost(s, x)
    BY <1>2 DEF LoseBroken
  <2> QED BY <1>2, <2>1, DropLostLeads
<1>3. CASE x \in DOMAIN s.lost /\ ~(s.lost[x].broken \subseteq {p})
  <2>1. s1 = EraseBroken(s, p, x)
    BY <1>3 DEF LoseBroken, EraseBroken
  <2> QED BY <2>1, EraseBrokenLeads
<1> QED BY <1>1, <1>2, <1>3

-----------------------------------------------------------------------------
(* Hops                                                                    *)

\* the table is replaced by one with the same vroutes
WithTable(s, t) == [s EXCEPT !.tbl = t]

LEMMA PutTable ==
  ASSUME NEW n, NEW P \in SUBSET PathIds, NEW s, NodeGood(n, P, s), NEW t1, TableOK(n, P, t1),
         SetsOK(n, P, t1, s.vset, s.nonEss, s.dismantled), LostOK(P, t1, s.lost),
         NEW s1, s1 = WithTable(s, t1)
  PROVE  /\ Leads(n, P, s, s1) /\ s1.tbl = t1 /\ s1.lost = s.lost /\ s1.recent = s.recent /\ s1.vset = s.vset
         /\ s1.nonEss = s.nonEss
<1>1. NodeFields \subseteq DOMAIN s
  BY DEF NodeGood
<1>2. /\ s1.tbl = t1 /\ s1.vset = s.vset /\ s1.nonEss = s.nonEss /\ s1.dismantled = s.dismantled
      /\ s1.lost = s.lost /\ s1.delayed = s.delayed /\ s1.recent = s.recent /\ s1.heard = s.heard
      /\ s1.seq = s.seq /\ s1.out = s.out /\ NodeFields \subseteq DOMAIN s1
  BY <1>1 DEF NodeFields, WithTable
<1> QED BY <1>2 DEF NodeGood, Leads

\* what setRouteItrPrevNextIsUnavailable makes of an entry
LEMMA SetHopOK ==
  ASSUME NEW n, NEW P, NEW p \in PathIds, NEW r \in Route, RouteOK(n, P, p, r),
         NEW toNext \in BOOLEAN, NEW v \in 0 .. 3, HopTo(r, toNext) = NullVid => v = 0,
         NEW r1, r1 = SetHop(r, ~toNext, v)
  PROVE  /\ r1 \in Route /\ RouteOK(n, P, p, r1)
         /\ r1.from = r.from /\ r1.to = r.to /\ r1.prev = r.prev /\ r1.next = r.next
         /\ r1.isVset = r.isVset /\ r1.prevhops = r.prevhops
         /\ IsDismantledRoute(r1.unavail) = IsDismantledRoute(r.unavail)
         /\ HopState(r1, toNext) = v /\ HopState(r1, ~toNext) = HopState(r, ~toNext)
<1> DEFINE toPrev == ~toNext
<1>1. r.unavail \in Status /\ toPrev \in BOOLEAN /\ toNext = ~toPrev
  BY DEF Route
<1>a. r1 = SetHop(r, toPrev, v)
  OBVIOUS
<1>b. toPrev \in BOOLEAN
  OBVIOUS
<1> HIDE DEF toPrev
<1>2. /\ r1 \in Route
      /\ r1.from = r.from /\ r1.to = r.to /\ r1.prev = r.prev /\ r1.next = r.next
      /\ r1.unavail = SetStatus(r.unavail, toPrev, v)
  <2>1. /\ SetHop(r, toPrev, v) \in Route
        /\ SetHop(r, toPrev, v).from = r.from /\ SetHop(r, toPrev, v).to = r.to
        /\ SetHop(r, toPrev, v).prev = r.prev /\ SetHop(r, toPrev, v).next = r.next
        /\ SetHop(r, toPrev, v).unavail = SetStatus(r.unavail, toPrev, v)
    <3>1. CASE toPrev = TRUE
      BY <3>1, SetHopFields
    <3>2. CASE toPrev = FALSE
      BY <3>2, SetHopFields
    <3> QED BY <1>b, <3>1, <3>2
  <2> QED BY <1>a, <2>1
<1>3. r1.isVset = r.isVset /\ r1.prevhops = r.prevhops
  BY DEF SetHop, Route
<1>4. /\ IsDismantledRoute(r1.unavail) = IsDismantledRoute(r.unavail)
      /\ IsTemporaryRoute(r1.unavail) = IsTemporaryRoute(r.unavail)
  BY <1>1, <1>2, WriteStatus DEF IsDismantledRoute
<1>5. /\ PrevNextIsUnavailable(r1.unavail, toPrev) = v
      /\ PrevNextIsUnavailable(r1.unavail, ~toPrev) = PrevNextIsUnavailable(r.unavail, ~toPrev)
  BY <1>1, <1>2, WriteStatus
<1>6. HopState(r1, toNext) = v /\ HopState(r1, ~toNext) = HopState(r, ~toNext)
  <2>1. CASE toNext
    BY <1>1, <1>5, <2>1 DEF HopState
  <2>2. CASE ~toNext
    BY <1>1, <1>5, <2>2 DEF HopState
  <2> QED BY <2>1, <2>2
<1>7. \A side \in BOOLEAN : HopTo(r1, side) = HopTo(r, side)
  BY <1>2 DEF HopTo
<1>8. \A side \in BOOLEAN : HopTo(r1, side) = NullVid => HopState(r1, side) = 0
  BY <1>6, <1>7 DEF RouteOK
<1>9. RouteOK(n, P, p, r1)
  BY <1>2, <1>3, <1>4, <1>8 DEF RouteOK
<1> QED BY <1>2, <1>3, <1>4, <1>6, <1>9

LEMMA MarkHopLeads ==
  ASSUME NEW n, NEW P \in SUBSET PathIds, NEW s, NodeGood(n, P, s), NEW p \in PathIds, InTable(s.tbl, p),
         NEW toNext \in BOOLEAN, NEW v \in 0 .. 3, HopTo(RouteOf(s, p), toNext) = NullVid => v = 0,
         NEW s1, s1 = MarkHop(s, p, toNext, v)
  PROVE  /\ Leads(n, P, s, s1) /\ s1.lost = s.lost /\ s1.recent = s.recent /\ s1.vset = s.vset
         /\ s1.nonEss = s.nonEss
         /\ SameEnds(s.tbl, s1.tbl) /\ SameHops(s.tbl, s1.tbl) /\ OnlyAt(s.tbl, s1.tbl, p)
         /\ HopState(RouteOf(s1, p), toNext) = v
         /\ HopState(RouteOf(s1, p), ~toNext) = HopState(RouteOf(s, p), ~toNext)
<1> DEFINE r  == s.tbl.routes[p]
           r1 == SetHop(r, ~toNext, v)
           t  == [s.tbl EXCEPT !.routes[p] = r1]
           v1 == EndTo(r, toNext)
           E  == IF v \in {1, 3} THEN s.tbl.ends \ {<<v1, p>>} ELSE s.tbl.ends \cup {<<v1, p>>}
           t1 == [routes |-> [s.tbl.routes EXCEPT ![p] = r1], ends |-> E]
<1>1. /\ NodeFields \subseteq DOMAIN s /\ TableOK(n, P, s.tbl) /\ LostOK(P, s.tbl, s.lost)
      /\ SetsOK(n, P, s.tbl, s.vset, s.nonEss, s.dismantled)
  BY DEF NodeGood
<1>2. /\ r \in Route /\ RouteOK(n, P, p, r) /\ EndsMatch(s.tbl, p)
      /\ r.from \in Vids /\ r.to \in Vids /\ r.from # r.to
  BY <1>1, RouteIn
<1>3. /\ r1 \in Route /\ RouteOK(n, P, p, r1)
      /\ r1.from = r.from /\ r1.to = r.to /\ r1.prev = r.prev /\ r1.next = r.next
      /\ r1.isVset = r.isVset /\ IsDismantledRoute(r1.unavail) = IsDismantledRoute(r.unavail)
      /\ HopState(r1, toNext) = v /\ HopState(r1, ~toNext) = HopState(r, ~toNext)
  BY <1>2, SetHopOK DEF RouteOf
<1>4. s.tbl = [routes |-> s.tbl.routes, ends |-> s.tbl.ends] /\ s.tbl.ends \in SUBSET (Vids \X PathIds)
  BY <1>1 DEF TableOK, Table
<1>5. s1 = WithTable(s, t1)
  <2>1. s1 = [s EXCEPT !.tbl = IF v \in {1, 3} THEN RemoveEnd(t, p, v1) ELSE AddEnd(t, p, v1)]
    BY DEF MarkHop, RouteOf
  <2>2. (IF v \in {1, 3} THEN RemoveEnd(t, p, v1) ELSE AddEnd(t, p, v1)) = t1
    <3> HIDE DEF r, r1, v1
    <3> QED BY <1>4 DEF RemoveEnd, AddEnd
  <2> QED BY <2>1, <2>2 DEF WithTable
<1>6. v1 \in {r.from, r.to} /\ v1 \in Vids
  BY <1>2 DEF EndTo
<1>7. E \in SUBSET (Vids \X PathIds) /\ \A u : \A q \in PathIds \ {p} : <<u, q>> \in E <=> <<u, q>> \in s.tbl.ends
  <2> HIDE DEF v1
  <2> QED BY <1>4, <1>6
<1>8. \A u : <<u, p>> \in E => u \in {r1.from, r1.to}
  <2>1. \A u : <<u, p>> \in s.tbl.ends => u \in {r.from, r.to}
    <3>1. \A e \in s.tbl.ends : e[1] \in {s.tbl.routes[e[2]].from, s.tbl.routes[e[2]].to}
      BY <1>1 DEF TableOK, EndsKnown
    <3> QED BY <3>1
  <2>2. \A u : <<u, p>> \in E => <<u, p>> \in s.tbl.ends \/ u = v1
    OBVIOUS
  <2> HIDE DEF E, v1
  <2> QED BY <1>3, <1>6, <2>1, <2>2
<1>9. ASSUME NEW side \in BOOLEAN
      PROVE  <<EndTo(r1, side), p>> \in E <=> HopState(r1, side) \in {0, 2}
  <2>1. CASE side = toNext
    <3>1. EndTo(r1, side) = v1
      BY <1>3, <2>1 DEF EndTo
    <3>2. <<v1, p>> \in E <=> v \notin {1, 3}
      <4> HIDE DEF v1
      <4> QED OBVIOUS
    <3> QED BY <1>3, <2>1, <3>1, <3>2
  <2>2. CASE side = ~toNext
    <3>1. EndTo(r1, side) = EndTo(r, side) /\ EndTo(r, side) # v1
      BY <1>2, <1>3, <2>2 DEF EndTo
    <3>2. <<EndTo(r, side), p>> \in E <=> <<EndTo(r, side), p>> \in s.tbl.ends
      <4> HIDE DEF v1
      <4> QED BY <3>1
    <3>3. HopState(r1, side) = HopState(r, side)
      BY <1>3, <2>2
    <3> QED BY <1>2, <3>1, <3>2, <3>3 DEF EndsMatch
  <2> QED BY <2>1, <2>2
<1> HIDE DEF r, r1, v1, E
<1>a. t1 = [routes |-> [s.tbl.routes EXCEPT ![p] = r1], ends |-> t1.ends] /\ t1.ends = E
  OBVIOUS
<1>c. Edited(s.tbl, t1, p, r1)
  BY <1>7, <1>8, <1>9, <1>a DEF Edited
<1> HIDE DEF t1
<1>b. r1.from = s.tbl.routes[p].from /\ r1.to = s.tbl.routes[p].to
  BY <1>3 DEF r
<1>10. /\ TableOK(n, P, t1) /\ OnlyAt(s.tbl, t1, p) /\ t1.routes[p] = r1
       /\ \A q \in PathIds : InTable(t1, q) <=> InTable(s.tbl, q)
  BY <1>1, <1>3, <1>b, <1>c, PutRoute
<1>11. SameEnds(s.tbl, t1) /\ SameHops(s.tbl, t1)
  BY <1>3, <1>10 DEF r, SameEnds, SameHops, OnlyAt
<1>12. SetsOK(n, P, t1, s.vset, s.nonEss, s.dismantled) /\ LostOK(P, t1, s.lost)
  BY <1>1, <1>11, SetsKept, LostKept
<1>13. /\ Leads(n, P, s, s1) /\ s1.tbl = t1 /\ s1.lost = s.lost /\ s1.recent = s.recent /\ s1.vset = s.vset
       /\ s1.nonEss = s.nonEss
  BY <1>5, <1>10, <1>12, PutTable
<1> QED BY <1>3, <1>10, <1>11, <1>13 DEF RouteOf, r

\* the table, vset and lostPneis are replaced
LEMMA PutSets ==
  ASSUME NEW n, NEW P, NEW s, NodeGood(n, P, s), NEW s1, NodeFields \subseteq DOMAIN s1,
         TableOK(n, P, s1.tbl), SetsOK(n, P, s1.tbl, s1.vset, s1.nonEss, s1.dismantled),
         LostOK(P, s1.tbl, s1.lost),
         s1.delayed = s.delayed, s1.recent = s.recent, s1.heard = s.heard, s1.seq = s.seq, s1.out = s.out
  PROVE  Leads(n, P, s, s1)
BY DEF NodeGood, Leads

\* An entry of the table is replaced, and the lists of lostPneis stay right.
LEMMA EditRoute ==
  ASSUME NEW n, NEW P \in SUBSET PathIds, NEW s, NodeGood(n, P, s), NEW p \in PathIds, InTable(s.tbl, p),
         NEW r \in Route, RouteOK(n, P, p, r),
         r.from = s.tbl.routes[p].from, r.to = s.tbl.routes[p].to, r.isVset = s.tbl.routes[p].isVset,
         IsDismantledRoute(r.unavail) = IsDismantledRoute(s.tbl.routes[p].unavail),
         \A toNext \in BOOLEAN : HopState(r, toNext) \in {0, 2} <=> HopState(s.tbl.routes[p], toNext) \in {0, 2},
         \A x \in DOMAIN s.lost : p \in s.lost[x].broken => x \in {r.prev, r.next},
         NEW s1, s1 = WithTable(s, WithRoute(s.tbl, p, r))
  PROVE  /\ Leads(n, P, s, s1) /\ s1.lost = s.lost /\ s1.recent = s.recent /\ s1.vset = s.vset
         /\ s1.nonEss = s.nonEss
         /\ OnlyAt(s.tbl, s1.tbl, p) /\ s1.tbl.routes[p] = r /\ SameEnds(s.tbl, s1.tbl)
<1> DEFINE t1 == WithRoute(s.tbl, p, r)
<1>1. /\ TableOK(n, P, s.tbl) /\ SetsOK(n, P, s.tbl, s.vset, s.nonEss, s.dismantled)
      /\ LostOK(P, s.tbl, s.lost)
  BY DEF NodeGood
<1>2. /\ TableOK(n, P, t1) /\ OnlyAt(s.tbl, t1, p) /\ t1.routes[p] = r
      /\ \A q \in PathIds : InTable(t1, q) <=> InTable(s.tbl, q)
  BY <1>1, PutRouteSame
<1> HIDE DEF t1
<1>3. SameEnds(s.tbl, t1)
  BY <1>2 DEF SameEnds, OnlyAt
<1>4. SetsOK(n, P, t1, s.vset, s.nonEss, s.dismantled)
  BY <1>1, <1>3, SetsKept
<1>5. ASSUME NEW x \in DOMAIN s.lost, NEW q \in s.lost[x].broken
      PROVE  Over(t1, q, x)
  <2>1. q \in PathIds /\ Over(s.tbl, q, x)
    BY <1>1 DEF LostOK
  <2>2. CASE q = p
    BY <1>2, <2>2 DEF Over
  <2>3. CASE q # p
    BY <1>2, <2>1, <2>3 DEF Over, OnlyAt
  <2> QED BY <2>2, <2>3
<1>6. LostOK(P, t1, s.lost)
  BY <1>1, <1>5 DEF LostOK
<1>7. s1 = WithTable(s, t1)
  BY DEF t1
<1>8. /\ Leads(n, P, s, s1) /\ s1.tbl = t1 /\ s1.lost = s.lost /\ s1.recent = s.recent /\ s1.vset = s.vset
      /\ s1.nonEss = s.nonEss
  BY <1>2, <1>4, <1>6, <1>7, PutTable
<1> QED BY <1>2, <1>3, <1>8

LEMMA RemovePathLeads ==
  ASSUME NEW n, NEW P \in SUBSET PathIds, NEW s, NodeGood(n, P, s), NEW p,
         \A v \in DOMAIN s.vset : p \notin s.vset[v],
         NEW s1, s1 = RemovePath(s, p)
  PROVE  Leads(n, P, s, s1) /\ OnlyAt(s.tbl, s1.tbl, p)
<1> DEFINE t1 == RemoveRoute(s.tbl, p)
<1>1. /\ TableOK(n, P, s.tbl) /\ SetsOK(n, P, s.tbl, s.vset, s.nonEss, s.dismantled)
      /\ LostOK(P, s.tbl, s.lost)
  BY DEF NodeGood
<1>2. /\ TableOK(n, P, t1) /\ OnlyAt(s.tbl, t1, p)
      /\ \A q \in PathIds : InTable(t1, q) <=> InTable(s.tbl, q) /\ q # p
  BY <1>1, RemoveRouteOK
<1>3. s1 = WithTable(s, t1)
  BY DEF RemovePath, WithTable
<1> HIDE DEF t1
<1>4. SetsOK(n, P, t1, s.vset, s.nonEss, s.dismantled)
  BY <1>1, <1>2 DEF SetsOK, ServesVnei, OtherEnd, OnlyAt
<1>5. SameHops(s.tbl, t1)
  BY <1>2 DEF SameHops, OnlyAt
<1>6. LostOK(P, t1, s.lost)
  BY <1>1, <1>5, LostKept
<1> QED BY <1>2, <1>3, <1>4, <1>6, PutTable

LEMMA DismantleLeads ==
  ASSUME NEW n, NEW P \in SUBSET PathIds, NEW s, NodeGood(n, P, s), NEW p \in P, InTable(s.tbl, p),
         RouteOf(s, p).prev # NullVid, RouteOf(s, p).next # NullVid,
         NEW toNext \in BOOLEAN, NEW v \in 0 .. 3, NEW s2, s2 = Dismantle(s, p, toNext, v)
  PROVE  Leads(n, P, s, s2) /\ OnlyAt(s.tbl, s2.tbl, p)
<1> DEFINE s1 == MarkHop(s, p, toNext, v)
           r  == s1.tbl.routes[p]
           w  == SetDismantled(r.unavail, ~toNext)
           r1 == [r EXCEPT !.unavail = w]
           t2 == WithRoute(s1.tbl, p, r1)
<1>0. p \in PathIds
  OBVIOUS
<1>1. HopTo(RouteOf(s, p), toNext) # NullVid
  BY DEF HopTo
<1>2. /\ Leads(n, P, s, s1) /\ SameEnds(s.tbl, s1.tbl) /\ SameHops(s.tbl, s1.tbl) /\ OnlyAt(s.tbl, s1.tbl, p)
  BY <1>0, <1>1, MarkHopLeads
<1>3. /\ s2 = [s1 EXCEPT !.tbl.routes[p].unavail = SetDismantled(@, ~toNext), !.dismantled = @ \cup {p}]
  BY DEF Dismantle
<1> HIDE DEF s1
<1>4. NodeGood(n, P, s1)
  BY <1>2 DEF Leads
<1>5. /\ NodeFields \subseteq DOMAIN s1 /\ TableOK(n, P, s1.tbl)
      /\ SetsOK(n, P, s1.tbl, s1.vset, s1.nonEss, s1.dismantled) /\ LostOK(P, s1.tbl, s1.lost)
  BY <1>4 DEF NodeGood
<1>6. InTable(s1.tbl, p) /\ r.prev # NullVid /\ r.next # NullVid
  BY <1>0, <1>2 DEF SameEnds, SameHops, RouteOf
<1>7. r \in Route /\ RouteOK(n, P, p, r) /\ r.unavail \in Status
  BY <1>0, <1>5, <1>6, RouteIn
<1> HIDE DEF r
<1>8. /\ w \in Status /\ w % 16 = r.unavail % 16 /\ IsTemporaryRoute(w) = IsTemporaryRoute(r.unavail)
      /\ IsDismantledRoute(w)
  <2> DEFINE side == ~toNext
  <2>1. side \in BOOLEAN
    OBVIOUS
  <2>2. w = SetDismantled(r.unavail, side)
    OBVIOUS
  <2> HIDE DEF side, w
  <2>3. CASE side = TRUE
    BY <1>7, <2>2, <2>3, FlagStatus
  <2>4. CASE side = FALSE
    BY <1>7, <2>2, <2>4, FlagStatus
  <2> QED BY <2>1, <2>3, <2>4
<1> HIDE DEF w
<1>9. /\ r1 \in Route /\ r1.from = r.from /\ r1.to = r.to /\ r1.prev = r.prev /\ r1.next = r.next
      /\ r1.isVset = r.isVset /\ r1.prevhops = r.prevhops /\ r1.unavail = w
  BY <1>7, <1>8 DEF Route
<1> HIDE DEF r1
<1>10. ASSUME NEW side \in BOOLEAN PROVE HopState(r1, side) = HopState(r, side)
  BY <1>7, <1>8, <1>9, SameLowBits DEF HopState
<1>11. RouteOK(n, P, p, r1)
  BY <1>6, <1>7, <1>8, <1>9, <1>10 DEF RouteOK, HopTo
<1>12. /\ TableOK(n, P, t2) /\ OnlyAt(s1.tbl, t2, p) /\ t2.routes[p] = r1
       /\ \A q \in PathIds : InTable(t2, q) <=> InTable(s1.tbl, q)
  <2>1. r1.from = s1.tbl.routes[p].from /\ r1.to = s1.tbl.routes[p].to
    BY <1>9 DEF r
  <2>2. \A side \in BOOLEAN : HopState(r1, side) \in {0, 2} <=> HopState(s1.tbl.routes[p], side) \in {0, 2}
    BY <1>10 DEF r
  <2> QED BY <1>0, <1>5, <1>6, <1>9, <1>11, <2>1, <2>2, PutRouteSame
<1>13. /\ s2.tbl = t2 /\ s2.vset = s1.vset /\ s2.nonEss = s1.nonEss /\ s2.dismantled = s1.dismantled \cup {p}
       /\ s2.lost = s1.lost /\ s2.delayed = s1.delayed /\ s2.recent = s1.recent /\ s2.heard = s1.heard
       /\ s2.seq = s1.seq /\ s2.out = s1.out /\ NodeFields \subseteq DOMAIN s2
  <2>1. /\ s2.tbl = [s1.tbl EXCEPT !.routes[p].unavail = SetDismantled(@, ~toNext)]
        /\ s2.vset = s1.vset /\ s2.nonEss = s1.nonEss /\ s2.dismantled = s1.dismantled \cup {p}
        /\ s2.lost = s1.lost /\ s2.delayed = s1.delayed /\ s2.recent = s1.recent /\ s2.heard = s1.heard
        /\ s2.seq = s1.seq /\ s2.out = s1.out /\ NodeFields \subseteq DOMAIN s2
    BY <1>3, <1>5 DEF NodeFields
  <2>2. s1.tbl \in Table
    BY <1>5 DEF TableOK
  <2>3. [s1.tbl EXCEPT !.routes[p].unavail = SetDismantled(@, ~toNext)] = t2
    BY <1>0, <2>2 DEF Table, WithRoute, r1, w, r
  <2> QED BY <2>1, <2>3
<1> HIDE DEF t2
<1>14. SetsOK(n, P, t2, s1.vset, s1.nonEss, s1.dismantled \cup {p})
  BY <1>5, <1>8, <1>9, <1>12 DEF SetsOK, ServesVnei, OtherEnd, OnlyAt, r
<1>15. SameHops(s1.tbl, t2)
  BY <1>9, <1>12 DEF SameHops, OnlyAt, r
<1>16. LostOK(P, t2, s1.lost)
  BY <1>5, <1>15, LostKept
<1>17. Leads(n, P, s1, s2)
  BY <1>4, <1>12, <1>13, <1>14, <1>16, PutSets
<1>18. Leads(n, P, s, s2)
  BY <1>2, <1>17, LeadsOn
<1>19. OnlyAt(s.tbl, s2.tbl, p)
  BY <1>2, <1>12, <1>13 DEF OnlyAt
<1> QED BY <1>18, <1>19

-----------------------------------------------------------------------------
(* setLostPneiBrokenVroutes                                                *)

\* what the loop over the vroutes of x, of state s, has made of it in state t
Marking(n, P, s, x, t) ==
  /\ Leads(n, P, s, t) /\ SameEnds(s.tbl, t.tbl) /\ SameHops(s.tbl, t.tbl)
  /\ t.vset = s.vset /\ t.recent = s.recent /\ t.nonEss = s.nonEss
  /\ DOMAIN t.lost = DOMAIN s.lost /\ \A y \in DOMAIN s.lost \ {x} : t.lost[y] = s.lost[y]
  /\ t.lost[x].broken \subseteq s.lost[x].broken /\ t.lost[x].temp = s.lost[x].temp

BrokenLoop == INSTANCE ForEachInduction WITH
  Op  <- LAMBDA n, P, s, x, v, t, p :
           IF Stale(t, p) THEN EraseBroken(t, p, x) ELSE MarkHop(t, p, ToNextOf(RouteOf(t, p), x), v),
  Inv <- LAMBDA n, P, s, x, v, T, t : Marking(n, P, s, x, t)

LEMMA SetBrokenLeads ==
  ASSUME NEW n, NEW P \in SUBSET PathIds, NEW s, NodeGood(n, P, s), NEW x \in DOMAIN s.lost,
         NEW v \in {1, 2}, NEW s1, s1 = SetBroken(s, x, v)
  PROVE  Marking(n, P, s, x, s1)
<1> DEFINE Body(t, p) == IF Stale(t, p) THEN EraseBroken(t, p, x)
                         ELSE MarkHop(t, p, ToNextOf(RouteOf(t, p), x), v)
           ps == s.lost[x].broken
<1>1. /\ ps \in SUBSET PathIds /\ ps \in SUBSET P /\ x # NullVid
      /\ \A p \in ps : Over(s.tbl, p, x)
  BY LostFields
<1>2. ps \in SUBSET Nat /\ IsFiniteSet(ps)
  BY <1>1, Finite
<1>3. Marking(n, P, s, x, s)
  BY LeadsHere DEF Marking, SameEnds, SameHops
<1>4. ASSUME NEW p \in ps, NEW t, Marking(n, P, s, x, t)
      PROVE  Marking(n, P, s, x, Body(t, p))
  <2> DEFINE r == RouteOf(t, p)
             toNext == ToNextOf(r, x)
  <2>1. NodeGood(n, P, t) /\ x \in DOMAIN t.lost /\ p \in PathIds
    BY <1>1, <1>4 DEF Marking, Leads
  <2>2. CASE Stale(t, p)
    <3>1. Body(t, p) = EraseBroken(t, p, x)
      BY <2>2
    <3> QED BY <1>4, <2>1, <3>1, EraseBrokenLeads, LeadsOn DEF Marking
  <2>3. CASE ~Stale(t, p)
    <3>1. Body(t, p) = MarkHop(t, p, toNext, v) /\ InTable(t.tbl, p)
      BY <2>3 DEF Stale
    <3>2. x \in {r.prev, r.next}
      BY <1>1, <1>4, <2>1, <3>1 DEF Marking, SameHops, Over, RouteOf
    <3>3. toNext \in BOOLEAN /\ HopTo(r, toNext) # NullVid
      BY <1>1, <3>2 DEF ToNextOf, HopTo
    <3> DEFINE u == MarkHop(t, p, toNext, v)
    <3>4. /\ Leads(n, P, t, u) /\ u.lost = t.lost /\ u.recent = t.recent /\ u.vset = t.vset
          /\ u.nonEss = t.nonEss /\ SameEnds(t.tbl, u.tbl) /\ SameHops(t.tbl, u.tbl)
      <4> HIDE DEF toNext
      <4> QED BY <2>1, <3>1, <3>3, MarkHopLeads DEF r
    <3> HIDE DEF u, toNext, r
    <3>5. SameEnds(s.tbl, u.tbl)
      BY <1>4, <3>4 DEF Marking, SameEnds
    <3>6. SameHops(s.tbl, u.tbl)
      BY <1>4, <3>4 DEF Marking, SameHops
    <3>7. Leads(n, P, s, u)
      BY <1>4, <3>4, LeadsOn DEF Marking
    <3>8. Marking(n, P, s, x, u)
      BY <1>4, <3>4, <3>5, <3>6, <3>7 DEF Marking
    <3> QED BY <3>1, <3>8 DEF u
  <2> QED BY <2>2, <2>3
<1>5. s1 = BrokenLoop!Loop(n, P, s, x, v, s, ps)
  BY DEF SetBroken, ForEach, BrokenLoop!Loop, Max, BrokenLoop!Max
<1> HIDE DEF ps
<1>6. Marking(n, P, s, x, BrokenLoop!Loop(n, P, s, x, v, s, ps))
  <2>1. \A T \in SUBSET ps : \A p \in ps \ T : \A t :
          Marking(n, P, s, x, t) => Marking(n, P, s, x, Body(t, p))
    BY <1>4
  <2>2. BrokenLoop!IsFiniteSet(ps)
    BY <1>2 DEF IsFiniteSet, BrokenLoop!IsFiniteSet
  <2> QED BY <1>2, <1>3, <2>1, <2>2, BrokenLoop!LoopKeeps
<1> QED BY <1>5, <1>6

-----------------------------------------------------------------------------
(* Teardowns and RepairRoutes                                              *)
LEMMA LeastOf ==
  ASSUME NEW S \in SUBSET Nat, S # {}
  PROVE  Min(S) \in S
<1>1. \E x \in S : \A y \in S : x <= y
  BY BrokenLoop!NatMin
<1> QED BY <1>1 DEF Min

OnWay == TeardownInt \cup RepairRouteInt

LEMMA OnWayKept ==
  ASSUME NEW msg \in OnWay, NEW t \in SomePath, NEW x \in Hops
  PROVE  /\ [msg EXCEPT !.temp = t, !.toward = x] \in OnWay
         /\ [msg EXCEPT !.temp = t] \in OnWay
BY DEF OnWay, TeardownInt, RepairRouteInt

LEMMA MakeTeardown ==
  ASSUME NEW p \in PathIds, NEW src \in Nodes, NEW rebuild \in BOOLEAN, NEW dism \in BOOLEAN
  PROVE  TeardownMsg(p, src, rebuild, dism) \in OnWay /\ TeardownMsg(p, src, rebuild, dism).path = p
BY DEF TeardownMsg, OnWay, TeardownInt, SomePath, Hops

LEMMA RelayViaLeads ==
  ASSUME NEW n, NEW P, NEW s, NodeGood(n, P, s), NEW x \in Hops, NEW st, NEW msg \in OnWay,
         NEW s1, s1 = RelayVia(s, x, st, msg)
  PROVE  /\ Leads(n, P, s, s1)
         /\ s1.tbl = s.tbl /\ s1.lost = s.lost /\ s1.recent = s.recent /\ s1.vset = s.vset
         /\ s1.nonEss = s.nonEss
<1>1. \A y : \A m \in OnWay : m \in MessagesTo(P, y)
  BY DEF OnWay, MessagesTo
<1>2. CASE st \in {0, 3}
  <2> DEFINE m1 == [msg EXCEPT !.temp = NoPath]
  <2>1. m1 \in OnWay
    BY OnWayKept DEF SomePath
  <2>2. s1 = Post(s, x, m1)
    BY <1>2 DEF RelayVia
  <2> HIDE DEF m1
  <2> QED BY <1>1, <2>1, <2>2, PostLeads
<1>3. CASE st \notin {0, 3} /\ st = 2 /\ x \in DOMAIN s.lost /\ HasTemp(s, x)
  <2> DEFINE t  == Min(s.lost[x].temp)
             y  == HopToward(RouteOf(s, t), x)
             m1 == [msg EXCEPT !.temp = t, !.toward = x]
  <2>1. s.lost[x].temp # {} /\ s.lost[x].temp \in SUBSET PathIds
    BY <1>3, LostFields DEF HasTemp
  <2>2. s.lost[x].temp \in SUBSET Nat
    BY <2>1, Constants
  <2>3. t \in s.lost[x].temp
    BY <2>1, <2>2, LeastOf
  <2>4. m1 \in OnWay
    BY <2>1, <2>3, OnWayKept DEF SomePath
  <2>5. s1 = Post(s, y, m1)
    BY <1>3 DEF RelayVia
  <2> HIDE DEF m1, y
  <2> QED BY <1>1, <2>4, <2>5, PostLeads
<1>4. CASE st \notin {0, 3} /\ ~(st = 2 /\ x \in DOMAIN s.lost /\ HasTemp(s, x))
  <2>1. s1 = s
    BY <1>4 DEF RelayVia
  <2> QED BY <2>1, LeadsHere
<1> QED BY <1>2, <1>3, <1>4

LEMMA TeardownViaLeads ==
  ASSUME NEW n, NEW P, NEW s, NodeGood(n, P, s), NEW x \in Hops, NEW st, NEW msg \in OnWay,
         NEW s1, s1 = TeardownVia(s, x, st, msg)
  PROVE  Leads(n, P, s, s1) /\ s1.tbl = s.tbl /\ s1.vset = s.vset
<1> DEFINE u == RelayVia(s, x, st, msg)
<1>1. Leads(n, P, s, u) /\ u.tbl = s.tbl /\ u.vset = s.vset
  BY RelayViaLeads
<1>2. s1 = IF st = 2 THEN LoseBroken(u, msg.path, x) ELSE u
  BY DEF TeardownVia
<1> HIDE DEF u
<1>3. NodeGood(n, P, u)
  BY <1>1 DEF Leads
<1>4. CASE st = 2
  <2>1. s1 = LoseBroken(u, msg.path, x)
    BY <1>2, <1>4
  <2>2. Leads(n, P, u, s1) /\ s1.tbl = u.tbl /\ s1.vset = u.vset
    BY <1>3, <2>1, LoseBrokenLeads
  <2> QED BY <1>1, <2>2, LeadsOn
<1>5. CASE st # 2
  BY <1>1, <1>2, <1>5
<1> QED BY <1>4, <1>5

-----------------------------------------------------------------------------
(* The ends of vroutes                                                     *)

\* the fields but those LoseVsetRoute changes
OnlyVset(s, s1) ==
  /\ NodeFields \subseteq DOMAIN s1
  /\ s1.tbl = s.tbl /\ s1.nonEss = s.nonEss /\ s1.dismantled = s.dismantled
  /\ s1.lost = s.lost /\ s1.delayed = s.delayed /\ s1.recent = s.recent /\ s1.heard = s.heard
  /\ s1.seq = s.seq /\ s1.out = s.out

Without(f, x) == Restrict(f, DOMAIN f \ {x})

\* vset without the vroute p to v
VsetLess(vset, p, v) ==
  IF v \notin DOMAIN vset THEN vset
  ELSE IF vset[v] \subseteq {p} THEN Without(vset, v)
  ELSE [vset EXCEPT ![v] = @ \ {p}]

HasFields(s) == NodeFields \subseteq DOMAIN s

LEMMA LoseVneiFields ==
  ASSUME NEW s, HasFields(s), NEW n, NEW v, NEW repair, NEW s1, s1 = LoseVnei(s, n, v, repair)
  PROVE  OnlyVset(s, s1) /\ s1.vset = Without(s.vset, v)
<1> DEFINE u == [s EXCEPT !.vset = Restrict(@, DOMAIN @ \ {v}), !.asks = Put(@, v, AskTimer(repair, TRUE))]
           short == s.inNet /\ Cardinality(DOMAIN u.vset) < 2 * Half
           keep == KeepInNetwork(n, DOMAIN u.vset, v)
<1>1. OnlyVset(s, u) /\ u.vset = Without(s.vset, v)
  BY DEF OnlyVset, NodeFields, HasFields, Without
<1>2. s1 = IF short THEN IF keep THEN u ELSE [u EXCEPT !.inNet = FALSE, !.warm = TRUE]
           ELSE IF DOMAIN u.vset = {} THEN [u EXCEPT !.inNet = FALSE, !.warm = FALSE] ELSE u
  BY DEF LoseVnei
<1> HIDE DEF u, short, keep
<1>3. s1 = u \/ s1 = [u EXCEPT !.inNet = FALSE, !.warm = TRUE] \/ s1 = [u EXCEPT !.inNet = FALSE, !.warm = FALSE]
  BY <1>2
<1>4. OnlyVset(u, s1) /\ s1.vset = u.vset
  <2>1. NodeFields \subseteq DOMAIN u
    BY <1>1 DEF OnlyVset
  <2>2. CASE s1 = u
    BY <2>1, <2>2 DEF OnlyVset
  <2>3. CASE s1 = [u EXCEPT !.inNet = FALSE, !.warm = TRUE]
    BY <2>1, <2>3 DEF OnlyVset, NodeFields
  <2>4. CASE s1 = [u EXCEPT !.inNet = FALSE, !.warm = FALSE]
    BY <2>1, <2>4 DEF OnlyVset, NodeFields
  <2> QED BY <1>3, <2>2, <2>3, <2>4
<1>5. OnlyVset(s, s1)
  BY <1>1, <1>4 DEF OnlyVset
<1> QED BY <1>1, <1>4, <1>5

LEMMA LoseVsetFields ==
  ASSUME NEW s, HasFields(s), NEW n, NEW p, NEW v, NEW repair,
         NEW s1, s1 = LoseVsetRoute(s, n, p, v, repair)
  PROVE  OnlyVset(s, s1) /\ s1.vset = VsetLess(s.vset, p, v)
<1>1. CASE v \notin DOMAIN s.vset
  BY <1>1 DEF LoseVsetRoute, OnlyVset, VsetLess, HasFields
<1>2. CASE v \in DOMAIN s.vset /\ s.vset[v] \subseteq {p}
  <2>1. s1 = LoseVnei(s, n, v, repair)
    BY <1>2 DEF LoseVsetRoute
  <2> DEFINE u == LoseVnei(s, n, v, repair)
  <2>2. OnlyVset(s, u) /\ u.vset = Without(s.vset, v)
    BY LoseVneiFields
  <2> QED BY <1>2, <2>1, <2>2 DEF VsetLess
<1>3. CASE v \in DOMAIN s.vset /\ ~(s.vset[v] \subseteq {p})
  <2>1. s1 = [s EXCEPT !.vset[v] = @ \ {p}]
    BY <1>3 DEF LoseVsetRoute
  <2> QED BY <1>3, <2>1 DEF OnlyVset, VsetLess, NodeFields, HasFields
<1> QED BY <1>1, <1>2, <1>3

\* p is in no set of vset
InNoSet(vset, p) == \A v \in DOMAIN vset : p \notin vset[v]

LEMMA VsetLessOK ==
  ASSUME NEW n, NEW P, NEW t, NEW vset, NEW nonEss, NEW dismantled,
         SetsOK(n, P, t, vset, nonEss, dismantled), NEW p \in PathIds, InTable(t, p),
         NEW v, v = OtherEnd(n, t.routes[p])
  PROVE  SetsOK(n, P, t, VsetLess(vset, p, v), nonEss, dismantled) /\ InNoSet(VsetLess(vset, p, v), p)
<1> DEFINE less == VsetLess(vset, p, v)
<1>1. ASSUME NEW w \in DOMAIN less
      PROVE  /\ w \in DOMAIN vset /\ less[w] \subseteq vset[w] /\ less[w] # {} /\ p \notin less[w]
  <2>1. w \in DOMAIN vset /\ (w # v => p \notin vset[w]) /\ vset[w] # {}
    <3>1. w \in DOMAIN vset
      BY <1>1 DEF VsetLess, Without, Restrict
    <3> QED BY <3>1 DEF SetsOK, ServesVnei
  <2>2. CASE v \notin DOMAIN vset
    BY <2>1, <2>2 DEF VsetLess
  <2>3. CASE v \in DOMAIN vset /\ vset[v] \subseteq {p}
    BY <1>1, <2>1, <2>3 DEF VsetLess, Without, Restrict
  <2>4. CASE v \in DOMAIN vset /\ ~(vset[v] \subseteq {p})
    <3>1. less = [vset EXCEPT ![v] = @ \ {p}]
      BY <2>4 DEF VsetLess
    <3> HIDE DEF less
    <3> QED BY <2>1, <2>4, <3>1
  <2> QED BY <2>2, <2>3, <2>4
<1> HIDE DEF less
<1> QED BY <1>1 DEF SetsOK, InNoSet, less

LEMMA LoseVsetLeads ==
  ASSUME NEW n, NEW P, NEW s, NodeGood(n, P, s), NEW p \in PathIds, InTable(s.tbl, p),
         NEW v, v = OtherEnd(n, RouteOf(s, p)), NEW repair,
         NEW s1, s1 = LoseVsetRoute(s, n, p, v, repair)
  PROVE  Leads(n, P, s, s1) /\ s1.tbl = s.tbl /\ InNoSet(s1.vset, p) /\ OnlyVset(s, s1)
<1>1. /\ NodeFields \subseteq DOMAIN s /\ TableOK(n, P, s.tbl) /\ LostOK(P, s.tbl, s.lost)
      /\ SetsOK(n, P, s.tbl, s.vset, s.nonEss, s.dismantled)
  BY DEF NodeGood
<1>2. OnlyVset(s, s1) /\ s1.vset = VsetLess(s.vset, p, v)
  BY <1>1, LoseVsetFields DEF HasFields
<1>3. SetsOK(n, P, s.tbl, s1.vset, s.nonEss, s.dismantled) /\ InNoSet(s1.vset, p)
  BY <1>1, <1>2, VsetLessOK DEF RouteOf
<1>4. Leads(n, P, s, s1)
  BY <1>1, <1>2, <1>3, PutSets DEF OnlyVset
<1> QED BY <1>2, <1>3, <1>4 DEF OnlyVset

\* the next hop of a vroute is replaced
WithNext(s, p, x) == [s EXCEPT !.tbl.routes[p].next = x]

LEMMA WithNextLeads ==
  ASSUME NEW n, NEW P \in SUBSET PathIds, NEW s, NodeGood(n, P, s), NEW p \in PathIds, InTable(s.tbl, p),
         RouteOf(s, p).next # NullVid, NEW x \in Vids,
         \A y \in DOMAIN s.lost : p \in s.lost[y].broken => y \in {RouteOf(s, p).prev, x},
         NEW s1, s1 = WithNext(s, p, x)
  PROVE  /\ Leads(n, P, s, s1) /\ s1.lost = s.lost /\ s1.recent = s.recent /\ s1.vset = s.vset
         /\ s1.nonEss = s.nonEss
         /\ OnlyAt(s.tbl, s1.tbl, p) /\ SameEnds(s.tbl, s1.tbl)
         /\ RouteOf(s1, p).next = x /\ RouteOf(s1, p).prev = RouteOf(s, p).prev
         /\ RouteOf(s1, p).unavail = RouteOf(s, p).unavail
<1> DEFINE r  == s.tbl.routes[p]
           r1 == [r EXCEPT !.next = x]
<1>1. NodeFields \subseteq DOMAIN s /\ TableOK(n, P, s.tbl) /\ s.tbl \in Table
  BY DEF NodeGood, TableOK
<1>2. r \in Route /\ RouteOK(n, P, p, r)
  BY <1>1, RouteIn
<1>3. /\ r1 \in Route /\ r1.from = r.from /\ r1.to = r.to /\ r1.prev = r.prev /\ r1.next = x
      /\ r1.isVset = r.isVset /\ r1.prevhops = r.prevhops /\ r1.unavail = r.unavail
  BY <1>2 DEF Route, Hops
<1>4. s1 = WithTable(s, WithRoute(s.tbl, p, r1))
  <2>1. WithRoute(s.tbl, p, r1) = [s.tbl EXCEPT !.routes[p].next = x]
    BY <1>1 DEF WithRoute, Table
  <2> QED BY <2>1 DEF WithNext, WithTable
<1>5. r.next # NullVid
  BY DEF RouteOf
<1> HIDE DEF r1
<1>6. \A toNext \in BOOLEAN : HopState(r1, toNext) = HopState(r, toNext)
  BY <1>3 DEF HopState
<1>7. RouteOK(n, P, p, r1)
  BY <1>2, <1>3, <1>5, <1>6, Constants DEF RouteOK, HopTo
<1>8. \A y \in DOMAIN s.lost : p \in s.lost[y].broken => y \in {r1.prev, r1.next}
  BY <1>3 DEF RouteOf
<1> HIDE DEF r
<1>9. /\ Leads(n, P, s, s1) /\ s1.lost = s.lost /\ s1.recent = s.recent /\ s1.vset = s.vset
      /\ s1.nonEss = s.nonEss
      /\ OnlyAt(s.tbl, s1.tbl, p) /\ s1.tbl.routes[p] = r1 /\ SameEnds(s.tbl, s1.tbl)
  <2>1. /\ r1.from = s.tbl.routes[p].from /\ r1.to = s.tbl.routes[p].to /\ r1.isVset = s.tbl.routes[p].isVset
        /\ IsDismantledRoute(r1.unavail) = IsDismantledRoute(s.tbl.routes[p].unavail)
        /\ \A toNext \in BOOLEAN : HopState(r1, toNext) \in {0, 2} <=> HopState(s.tbl.routes[p], toNext) \in {0, 2}
    BY <1>3, <1>6 DEF r
  <2> QED BY <1>3, <1>4, <1>7, <1>8, <2>1, EditRoute
<1> QED BY <1>3, <1>9 DEF RouteOf, r

\* no list of lostPneis but those on the side of the previous hop has p
ListedBack(s, p) ==
  \A y \in DOMAIN s.lost : p \in s.lost[y].broken => y = RouteOf(s, p).prev

\* other vroutes are on no more lists
ListsKept(s, s1, p) ==
  \A y \in DOMAIN s1.lost : \A q \in s1.lost[y].broken \ {p} : y \in DOMAIN s.lost /\ q \in s.lost[y].broken

\* lostPneis with the vroutes ps added to the entry of x
MoreBroken(lost, x, ps, timer) ==
  LET old == IF x \in DOMAIN lost THEN lost[x] ELSE NewLost
      new == [old EXCEPT !.broken = @ \cup ps, !.timer = IF @ = NoTimer THEN timer ELSE @]
  IN  Put(lost, x, new)

LEMMA AddBrokenIs ==
  ASSUME NEW s, NEW x, NEW ps, NEW timer
  PROVE  AddBroken(s, x, ps, timer) = WithLost(s, MoreBroken(s.lost, x, ps, timer))
BY DEF AddBroken, Put, WithLost, MoreBroken, NewLost

LEMMA OrphanLeads ==
  ASSUME NEW n, NEW P \in SUBSET PathIds, NEW s, NodeGood(n, P, s), NEW p \in P, InTable(s.tbl, p),
         RouteOf(s, p).next # NullVid, ListedBack(s, p), NEW old \in Vids,
         NEW s1, s1 = Orphan(s, p, old)
  PROVE  Leads(n, P, s, s1) /\ s1.vset = s.vset /\ OnlyAt(s.tbl, s1.tbl, p) /\ ListsKept(s, s1, p)
<1> DEFINE x  == IF old \in DOMAIN s.lost /\ s.lost[old].timer = NoTimer THEN DummyVid ELSE old
           m  == MarkHop(s, p, TRUE, 1)
           m1 == WithNext(m, p, x)
           o  == AddBroken(m1, x, {p}, RetryLimit)
<1>0. p \in PathIds /\ x \in Vids
  BY Constants
<1>1. /\ Leads(n, P, s, m) /\ m.lost = s.lost /\ m.recent = s.recent /\ m.vset = s.vset
      /\ SameEnds(s.tbl, m.tbl) /\ SameHops(s.tbl, m.tbl) /\ OnlyAt(s.tbl, m.tbl, p)
  <2> DEFINE toNext == TRUE
             st == 1
  <2>1. HopTo(RouteOf(s, p), toNext) # NullVid /\ toNext \in BOOLEAN /\ st \in 0 .. 3
    BY DEF HopTo
  <2>2. m = MarkHop(s, p, toNext, st)
    OBVIOUS
  <2> HIDE DEF toNext, st, m
  <2> QED BY <1>0, <2>1, <2>2, MarkHopLeads
<1>2. s1 = [AddBroken(m, x, {p}, RetryLimit) EXCEPT !.tbl.routes[p].next = x]
  BY DEF Orphan
<1> HIDE DEF x, m
<1>3. s1 = o
  <2> DEFINE lost == MoreBroken(m.lost, x, {p}, RetryLimit)
  <2>1. NodeFields \subseteq DOMAIN m
    BY <1>1 DEF Leads, NodeGood
  <2>2. m1.lost = m.lost
    BY <2>1 DEF WithNext, NodeFields
  <2>3. AddBroken(m, x, {p}, RetryLimit) = WithLost(m, lost) /\ o = WithLost(m1, lost)
    BY <2>2, AddBrokenIs
  <2> HIDE DEF lost, o
  <2>4. WithLost(m1, lost) = [WithLost(m, lost) EXCEPT !.tbl.routes[p].next = x]
    BY <2>1 DEF WithLost, WithNext, NodeFields
  <2> QED BY <1>2, <2>3, <2>4
<1>4. NodeGood(n, P, m) /\ InTable(m.tbl, p)
  BY <1>0, <1>1 DEF Leads, SameEnds
<1>5. RouteOf(m, p).prev = RouteOf(s, p).prev /\ RouteOf(m, p).next # NullVid
  BY <1>0, <1>1, <1>4 DEF SameHops, RouteOf
<1>6. \A y \in DOMAIN m.lost : p \in m.lost[y].broken => y \in {RouteOf(m, p).prev, x}
  BY <1>1, <1>5 DEF ListedBack
<1>7. /\ Leads(n, P, m, m1) /\ m1.lost = m.lost /\ m1.recent = m.recent /\ m1.vset = m.vset
      /\ OnlyAt(m.tbl, m1.tbl, p) /\ RouteOf(m1, p).next = x
  BY <1>0, <1>4, <1>5, <1>6, WithNextLeads
<1> HIDE DEF m1
<1> DEFINE one == {p}
<1>8. /\ NodeGood(n, P, m1) /\ one \in SUBSET P /\ OverAll(m1.tbl, one, x)
      /\ RetryLimit \in WaitRepairLinkIntTimer \cup {NoTimer}
  BY <1>7, Constants DEF Leads, OverAll, Over, RouteOf, WaitRepairLinkIntTimer
<1>a. o = AddBroken(m1, x, one, RetryLimit)
  OBVIOUS
<1> HIDE DEF one, o
<1>9. Leads(n, P, m1, o) /\ KeepsTable(m1, o) /\ KeepsSets(m1, o) /\ Added(m1, o, x, one)
  BY <1>0, <1>8, <1>a, AddBrokenLeads
<1>10. Leads(n, P, s, o)
  BY <1>1, <1>7, <1>9, LeadsOn
<1>11. OnlyAt(s.tbl, o.tbl, p)
  BY <1>1, <1>7, <1>9 DEF OnlyAt, KeepsTable
<1>12. ListsKept(s, o, p)
  BY <1>1, <1>7, <1>9 DEF ListsKept, LostAt, NewLost, Added, one
<1> QED BY <1>1, <1>3, <1>7, <1>9, <1>10, <1>11, <1>12 DEF KeepsSets

\* removeTempRoute with an entry of lostPneis for its other end
LEMMA LoseTempListed ==
  ASSUME NEW n, NEW P \in SUBSET PathIds, NEW s, NodeGood(n, P, s), NEW t, NEW x \in DOMAIN s.lost,
         NEW s3, s3 = LoseTemp(s, t, x)
  PROVE  Leads(n, P, s, s3) /\ KeepsVset(s, s3)
<1> DEFINE s0 == NoTimerFor(s, x)
           e  == [s0.lost[x] EXCEPT !.temp = @ \ {t}]
           s1 == WithEntry(s0, x, e)
           s2 == SetBroken(s1, x, 1)
           e2 == [s2.lost[x] EXCEPT !.timer = 0]
           u  == WithEntry(s2, x, e2)
<1>1. s3 = IF s1.lost[x].temp # {} THEN s1
           ELSE IF s2.lost[x].broken = {} THEN DropLost(s2, x)
           ELSE [s2 EXCEPT !.lost[x].timer = 0, !.wake = TRUE]
  BY DEF LoseTemp, WithEntry
<1>2. Leads(n, P, s, s0) /\ KeepsSets(s, s0) /\ DOMAIN s0.lost = DOMAIN s.lost
  <2>1. Leads(n, P, s, s0) /\ s0.recent = s.recent /\ s0.nonEss = s.nonEss /\ DOMAIN s0.lost = DOMAIN s.lost
    BY NoTimerForLeads
  <2>2. s0.vset = s.vset
    <3>1. NodeFields \subseteq DOMAIN s
      BY DEF NodeGood
    <3> QED BY <3>1 DEF NoTimerFor, NodeFields
  <2> QED BY <2>1, <2>2 DEF KeepsSets
<1> HIDE DEF s0
<1>3. NodeGood(n, P, s0) /\ x \in DOMAIN s0.lost
  BY <1>2 DEF Leads
<1>4. s0.lost[x] \in LostPneiInfo /\ s0.lost[x].temp \cap P = {}
  BY <1>3 DEF NodeGood, LostOK
<1>5. e \in LostPneiInfo /\ e.broken \subseteq s0.lost[x].broken /\ e.temp \cap P = {}
  BY <1>4 DEF LostPneiInfo
<1> HIDE DEF e
<1>6. Leads(n, P, s0, s1) /\ s1.vset = s0.vset /\ DOMAIN s1.lost = DOMAIN s0.lost
  BY <1>3, <1>5, PutEntry
<1> HIDE DEF s1
<1>7. NodeGood(n, P, s1) /\ x \in DOMAIN s1.lost
  BY <1>3, <1>6 DEF Leads
<1>8. Marking(n, P, s1, x, s2)
  <2> DEFINE v == 1
  <2>1. s2 = SetBroken(s1, x, v) /\ v \in {1, 2}
    OBVIOUS
  <2> HIDE DEF v, s2
  <2> QED BY <1>7, <2>1, SetBrokenLeads
<1> HIDE DEF s2
<1>9. NodeGood(n, P, s2) /\ x \in DOMAIN s2.lost /\ Leads(n, P, s1, s2) /\ s2.vset = s1.vset
  BY <1>7, <1>8 DEF Marking, Leads
<1>10. Leads(n, P, s, s1) /\ s1.vset = s.vset
  BY <1>2, <1>6, LeadsOn DEF KeepsSets
<1>11. Leads(n, P, s, s2) /\ s2.vset = s.vset
  BY <1>9, <1>10, LeadsOn
<1>12. CASE s1.lost[x].temp # {}
  BY <1>1, <1>10, <1>12 DEF KeepsVset
<1>13. CASE ~(s1.lost[x].temp # {}) /\ s2.lost[x].broken = {}
  <2>1. s3 = DropLost(s2, x)
    BY <1>1, <1>13
  <2>2. Leads(n, P, s2, s3) /\ s3.vset = s2.vset
    BY <1>9, <2>1, DropLostLeads
  <2> QED BY <1>11, <2>2, LeadsOn DEF KeepsVset
<1>14. CASE ~(s1.lost[x].temp # {}) /\ s2.lost[x].broken # {}
  <2>1. s3 = [s2 EXCEPT !.lost[x].timer = 0, !.wake = TRUE]
    BY <1>1, <1>14
  <2>2. s2.lost[x] \in LostPneiInfo /\ s2.lost[x].temp \cap P = {} /\ NodeFields \subseteq DOMAIN s2
    BY <1>9 DEF NodeGood, LostOK
  <2>3. e2 \in LostPneiInfo /\ e2.broken \subseteq s2.lost[x].broken /\ e2.temp \cap P = {}
    BY <2>2, Constants DEF LostPneiInfo, WaitRepairLinkIntTimer
  <2>4. s3 = [u EXCEPT !.wake = TRUE]
    BY <2>1, <2>2 DEF WithEntry, NodeFields
  <2> HIDE DEF e2
  <2>5. Leads(n, P, s2, u) /\ u.vset = s2.vset
    BY <1>9, <2>3, PutEntry
  <2> HIDE DEF u
  <2>6. NodeGood(n, P, u) /\ NodeFields \subseteq DOMAIN u
    BY <2>5 DEF Leads, NodeGood
  <2>7. Leads(n, P, u, s3) /\ s3.vset = u.vset
    <3>1. /\ NodeFields \subseteq DOMAIN s3
          /\ s3.tbl = u.tbl /\ s3.vset = u.vset /\ s3.nonEss = u.nonEss /\ s3.dismantled = u.dismantled
          /\ s3.lost = u.lost /\ s3.delayed = u.delayed /\ s3.recent = u.recent /\ s3.heard = u.heard
          /\ s3.seq = u.seq /\ s3.out = u.out
      BY <2>4, <2>6 DEF NodeFields
    <3> QED BY <2>6, <3>1, OtherFields
  <2> QED BY <1>11, <2>5, <2>7, LeadsOn DEF KeepsVset
<1> QED BY <1>12, <1>13, <1>14

\* what the loop over the vroutes old, which were moved to x, has made of s when
\* those of T are done
Orphaning(n, P, s, x, old, T, u) ==
  /\ Leads(n, P, s, u) /\ u.vset = s.vset
  /\ \A q \in DOMAIN old \ T : x \in DOMAIN u.lost => q \notin u.lost[x].broken

OrphanLoop == INSTANCE ForEachInduction WITH
  Op  <- LAMBDA n, P, s, x, old, u, p : IF PatchedTo(u, p, x) THEN Orphan(u, p, old[p]) ELSE u,
  Inv <- LAMBDA n, P, s, x, old, T, u : Orphaning(n, P, s, x, old, T, u)

\* ... and one without
LEMMA LoseTempSent ==
  ASSUME NEW n, NEW P \in SUBSET PathIds, NEW s, NodeGood(n, P, s), NEW t \in DOMAIN s.recent,
         NEW x \in Vids, x \notin DOMAIN s.lost, NEW s3, s3 = LoseTemp(s, t, x)
  PROVE  Leads(n, P, s, s3) /\ KeepsVset(s, s3)
<1> DEFINE old == s.recent[t]
           ps  == DOMAIN old
           Body(u, p) == IF PatchedTo(u, p, x) THEN Orphan(u, p, old[p]) ELSE u
           s1  == ForEach(LAMBDA u, p : IF PatchedTo(u, p, x) THEN Orphan(u, p, old[p]) ELSE u, s, ps)
<1>1. s3 = [s1 EXCEPT !.recent = Restrict(@, DOMAIN @ \ {t})]
  BY DEF LoseTemp
<1>2. ps \in SUBSET P /\ \A p \in ps : old[p] \in Vids
  BY DEF NodeGood, RecentOK
<1>3. ps \in SUBSET Nat /\ IsFiniteSet(ps)
  BY <1>2, Finite
<1>4. Orphaning(n, P, s, x, old, {}, s)
  BY LeadsHere DEF Orphaning
<1>5. ASSUME NEW T \in SUBSET ps, NEW p \in ps \ T, NEW u, Orphaning(n, P, s, x, old, T, u)
      PROVE  Orphaning(n, P, s, x, old, T \cup {p}, Body(u, p))
  <2>1. CASE ~PatchedTo(u, p, x)
    <3>1. Body(u, p) = u
      BY <2>1
    <3> HIDE DEF old
    <3> QED BY <1>5, <3>1 DEF Orphaning
  <2>2. CASE PatchedTo(u, p, x)
    <3> DEFINE o == Orphan(u, p, old[p])
    <3>1. Body(u, p) = o
      BY <2>2
    <3>2. NodeGood(n, P, u) /\ InTable(u.tbl, p) /\ RouteOf(u, p).next = x /\ x # NullVid /\ p \in P
      BY <1>2, <1>5, <2>2, Constants DEF PatchedTo, Orphaning, Leads
    <3>3. ListedBack(u, p)
      <4> SUFFICES ASSUME NEW y \in DOMAIN u.lost, p \in u.lost[y].broken
                   PROVE  y = RouteOf(u, p).prev
        BY DEF ListedBack
      <4>1. y # x
        BY <1>5 DEF Orphaning
      <4>2. Over(u.tbl, p, y)
        BY <3>2, LostFields
      <4> QED BY <3>2, <4>1, <4>2 DEF Over, RouteOf
    <3>4. old[p] \in Vids
      BY <1>2
    <3> HIDE DEF old
    <3>5. Leads(n, P, u, o) /\ o.vset = u.vset /\ ListsKept(u, o, p)
      BY <3>2, <3>3, <3>4, OrphanLeads
    <3> HIDE DEF o
    <3>6. Leads(n, P, s, o) /\ o.vset = s.vset
      BY <1>5, <3>5, LeadsOn DEF Orphaning
    <3>7. \A q \in DOMAIN old \ (T \cup {p}) : x \in DOMAIN o.lost => q \notin o.lost[x].broken
      BY <1>5, <3>5 DEF Orphaning, ListsKept
    <3>8. Orphaning(n, P, s, x, old, T \cup {p}, o)
      BY <3>6, <3>7 DEF Orphaning
    <3> QED BY <3>1, <3>8
  <2> QED BY <2>1, <2>2
<1>6. s1 = OrphanLoop!Loop(n, P, s, x, old, s, ps)
  BY DEF ForEach, OrphanLoop!Loop, Max, OrphanLoop!Max
<1>7. Orphaning(n, P, s, x, old, ps, OrphanLoop!Loop(n, P, s, x, old, s, ps))
  <2>1. OrphanLoop!IsFiniteSet(ps)
    BY <1>3 DEF IsFiniteSet, OrphanLoop!IsFiniteSet
  <2>2. \A T \in SUBSET ps : \A p \in ps \ T : \A u :
          Orphaning(n, P, s, x, old, T, u) => Orphaning(n, P, s, x, old, T \cup {p}, Body(u, p))
    BY <1>5
  <2> HIDE DEF ps, old
  <2> QED BY <1>3, <1>4, <2>1, <2>2, OrphanLoop!LoopKeeps
<1> HIDE DEF s1
<1>8. Leads(n, P, s, s1) /\ s1.vset = s.vset
  BY <1>6, <1>7 DEF Orphaning
<1>9. NodeGood(n, P, s1) /\ NodeFields \subseteq DOMAIN s1 /\ RecentOK(P, s1.recent)
  BY <1>8 DEF Leads, NodeGood
<1>10. /\ s3.tbl = s1.tbl /\ s3.vset = s1.vset /\ s3.nonEss = s1.nonEss /\ s3.dismantled = s1.dismantled
       /\ s3.lost = s1.lost /\ s3.delayed = s1.delayed /\ s3.heard = s1.heard
       /\ s3.seq = s1.seq /\ s3.out = s1.out /\ NodeFields \subseteq DOMAIN s3
       /\ s3.recent = Restrict(s1.recent, DOMAIN s1.recent \ {t})
  BY <1>1, <1>9 DEF NodeFields
<1>11. RecentOK(P, s3.recent)
  BY <1>9, <1>10 DEF RecentOK, Restrict
<1>12. Leads(n, P, s1, s3)
  BY <1>9, <1>10, <1>11 DEF NodeGood, Leads
<1> QED BY <1>8, <1>10, <1>12, LeadsOn DEF KeepsVset

LEMMA LoseTempLeads ==
  ASSUME NEW n, NEW P \in SUBSET PathIds, NEW s, NodeGood(n, P, s), NEW t, NEW x \in Vids,
         NEW s3, s3 = LoseTemp(s, t, x)
  PROVE  Leads(n, P, s, s3) /\ KeepsVset(s, s3)
<1>1. CASE x \in DOMAIN s.lost
  BY <1>1, LoseTempListed
<1>2. CASE x \notin DOMAIN s.lost /\ t \in DOMAIN s.recent
  BY <1>2, LoseTempSent
<1>3. CASE x \notin DOMAIN s.lost /\ t \notin DOMAIN s.recent
  <2>1. s3 = s
    BY <1>3 DEF LoseTemp
  <2> QED BY <2>1, LeadsHere, KeepsOn
<1> QED BY <1>1, <1>2, <1>3

LEMMA RemoveEndpointLeads ==
  ASSUME NEW n, NEW P \in SUBSET PathIds, NEW s, NodeGood(n, P, s), NEW p \in PathIds, InTable(s.tbl, p),
         NEW other, other = OtherEnd(n, RouteOf(s, p)), NEW s1, s1 = RemoveEndpoint(s, n, p, other)
  PROVE  Leads(n, P, s, s1) /\ InNoSet(s1.vset, p) /\ (p \in P => KeepsTable(s, s1))
<1> DEFINE r == RouteOf(s, p)
<1>1. NodeFields \subseteq DOMAIN s /\ TableOK(n, P, s.tbl) /\ SetsOK(n, P, s.tbl, s.vset, s.nonEss, s.dismantled)
  BY DEF NodeGood
<1>2. RouteOK(n, P, p, r) /\ r.from \in Vids /\ r.to \in Vids
  BY <1>1, RouteIn DEF RouteOf
<1>3. other \in Vids
  BY <1>2 DEF OtherEnd
<1>4. ~r.isVset => InNoSet(s.vset, p)
  BY <1>1 DEF InNoSet, SetsOK, ServesVnei, RouteOf
<1>5. CASE r.isVset
  <2>1. s1 = LoseVsetRoute(s, n, p, other, NoPath)
    BY <1>5 DEF RemoveEndpoint
  <2> DEFINE none == NoPath
  <2>2. s1 = LoseVsetRoute(s, n, p, other, none)
    BY <2>1
  <2> HIDE DEF none
  <2>3. Leads(n, P, s, s1) /\ s1.tbl = s.tbl /\ InNoSet(s1.vset, p)
    BY <2>2, LoseVsetLeads
  <2> QED BY <2>3 DEF KeepsTable
<1>6. CASE ~r.isVset /\ p \in s.nonEss
  <2> DEFINE u == [s EXCEPT !.nonEss = @ \ {p}, !.unwanted = @ \ {p}]
  <2>1. s1 = NotRepairing(u, p, other)
    BY <1>6 DEF RemoveEndpoint
  <2>2. /\ u.tbl = s.tbl /\ u.vset = s.vset /\ u.nonEss = s.nonEss \ {p} /\ u.dismantled = s.dismantled
        /\ u.lost = s.lost /\ u.delayed = s.delayed /\ u.recent = s.recent /\ u.heard = s.heard
        /\ u.seq = s.seq /\ u.out = s.out /\ NodeFields \subseteq DOMAIN u
    BY <1>1 DEF NodeFields
  <2> HIDE DEF u
  <2>3. /\ s1.tbl = u.tbl /\ s1.vset = u.vset /\ s1.nonEss = u.nonEss /\ s1.dismantled = u.dismantled
        /\ s1.lost = u.lost /\ s1.delayed = u.delayed /\ s1.recent = u.recent /\ s1.heard = u.heard
        /\ s1.seq = u.seq /\ s1.out = u.out /\ NodeFields \subseteq DOMAIN s1
    BY <2>1, <2>2 DEF NodeFields, NotRepairing
  <2>4. SetsOK(n, P, s.tbl, s.vset, s1.nonEss, s.dismantled)
    BY <1>1, <2>2, <2>3 DEF SetsOK
  <2>5. Leads(n, P, s, s1)
    BY <2>2, <2>3, <2>4 DEF NodeGood, Leads
  <2> QED BY <1>4, <1>6, <2>2, <2>3, <2>5 DEF KeepsTable
<1>7. CASE ~r.isVset /\ p \notin s.nonEss /\ IsTemporaryRoute(r.unavail)
  <2>1. s1 = LoseTemp(s, p, other)
    BY <1>7 DEF RemoveEndpoint
  <2>2. Leads(n, P, s, s1) /\ KeepsVset(s, s1)
    BY <1>3, <2>1, LoseTempLeads
  <2>3. p \notin P
    BY <1>2, <1>7 DEF RouteOK
  <2> QED BY <1>4, <1>7, <2>2, <2>3 DEF KeepsVset
<1>8. CASE ~r.isVset /\ p \notin s.nonEss /\ ~IsTemporaryRoute(r.unavail)
  <2>1. s1 = s
    BY <1>8 DEF RemoveEndpoint
  <2> QED BY <1>4, <1>8, <2>1, LeadsHere, KeepsOn
<1> QED BY <1>5, <1>6, <1>7, <1>8

\* the vroutes Q are not vset routes any more
Unmark(t, Q) ==
  [t EXCEPT !.routes = [q \in PathIds |-> IF q \in Q THEN [@[q] EXCEPT !.isVset = FALSE] ELSE @[q]]]

\* the same vroutes, but for that mark
Unmarked(t, t1, Q) ==
  \A q \in PathIds : /\ InTable(t1, q) <=> InTable(t, q)
                     /\ q \notin Q => t1.routes[q] = t.routes[q]
                     /\ q \in Q => ~t1.routes[q].isVset
                     /\ t1.routes[q].from = t.routes[q].from /\ t1.routes[q].to = t.routes[q].to
                     /\ t1.routes[q].prev = t.routes[q].prev /\ t1.routes[q].next = t.routes[q].next
                     /\ t1.routes[q].unavail = t.routes[q].unavail

LEMMA UnmarkOK ==
  ASSUME NEW n, NEW P, NEW t, TableOK(n, P, t), NEW Q \in SUBSET PathIds, \A q \in Q : InTable(t, q),
         NEW t1, t1 = Unmark(t, Q)
  PROVE  TableOK(n, P, t1) /\ Unmarked(t, t1, Q)
<1>1. t \in Table /\ EndsKnown(t)
  BY DEF TableOK
<1>2. /\ t1.ends = t.ends /\ t1 = [routes |-> t1.routes, ends |-> t1.ends]
      /\ t1.routes = [q \in PathIds |-> IF q \in Q THEN [t.routes[q] EXCEPT !.isVset = FALSE] ELSE t.routes[q]]
  BY <1>1 DEF Unmark, Table
<1>3. ASSUME NEW q \in Q
      PROVE  /\ t1.routes[q] \in Route /\ t1.routes[q].isVset = FALSE
             /\ t1.routes[q].from = t.routes[q].from /\ t1.routes[q].to = t.routes[q].to
             /\ t1.routes[q].prev = t.routes[q].prev /\ t1.routes[q].next = t.routes[q].next
             /\ t1.routes[q].unavail = t.routes[q].unavail /\ t1.routes[q].prevhops = t.routes[q].prevhops
  <2>1. t.routes[q] \in Route
    BY RouteIn
  <2>2. t1.routes[q] = [t.routes[q] EXCEPT !.isVset = FALSE]
    BY <1>2
  <2> QED BY <2>1, <2>2 DEF Route
<1>4. \A q \in PathIds \ Q : t1.routes[q] = t.routes[q]
  BY <1>2
<1>5. t1 \in Table
  <2>1. \A q \in PathIds : t1.routes[q] \in Route \cup {NoRoute}
    BY <1>1, <1>3, <1>4 DEF Table
  <2>2. t1.routes \in [PathIds -> Route \cup {NoRoute}]
    BY <1>2, <2>1
  <2> QED BY <1>1, <1>2, <2>2 DEF Table
<1>6. Unmarked(t, t1, Q)
  BY <1>3, <1>4, Constants DEF Unmarked, InTable
<1>7. EndsKnown(t1)
  <2>1. \A e \in t.ends : e[2] \in PathIds
    BY <1>1 DEF Table
  <2> QED BY <1>1, <1>2, <1>6, <2>1 DEF EndsKnown, Unmarked
<1>8. ASSUME NEW q \in PathIds, InTable(t1, q)
      PROVE  RouteOK(n, P, q, t1.routes[q]) /\ EndsMatch(t1, q)
  <2>1. RouteOK(n, P, q, t.routes[q]) /\ EndsMatch(t, q)
    BY <1>6, <1>8 DEF TableOK, Unmarked
  <2>2. /\ t1.routes[q].from = t.routes[q].from /\ t1.routes[q].to = t.routes[q].to
        /\ t1.routes[q].prev = t.routes[q].prev /\ t1.routes[q].next = t.routes[q].next
        /\ t1.routes[q].unavail = t.routes[q].unavail /\ t1.routes[q].prevhops = t.routes[q].prevhops
        /\ t1.routes[q].isVset => t.routes[q].isVset
    BY <1>3, <1>4
  <2>3. \A side \in BOOLEAN : /\ HopTo(t1.routes[q], side) = HopTo(t.routes[q], side)
                              /\ HopState(t1.routes[q], side) = HopState(t.routes[q], side)
                              /\ EndTo(t1.routes[q], side) = EndTo(t.routes[q], side)
    BY <2>2 DEF HopTo, HopState, EndTo
  <2>4. RouteOK(n, P, q, t1.routes[q])
    BY <2>1, <2>2, <2>3 DEF RouteOK
  <2>5. EndsMatch(t1, q)
    BY <1>2, <2>1, <2>3 DEF EndsMatch
  <2> QED BY <2>4, <2>5
<1> QED BY <1>5, <1>6, <1>7, <1>8 DEF TableOK

\* the vroutes that stay in vset
VsetBut(vset, vset1, Q) ==
  \A w \in DOMAIN vset1 : w \in DOMAIN vset /\ vset1[w] # {} /\ vset1[w] \subseteq vset[w] \ Q

LEMMA UnmarkLeads ==
  ASSUME NEW n, NEW P \in SUBSET PathIds, NEW s, NodeGood(n, P, s), NEW Q \in SUBSET PathIds,
         \A q \in Q : InTable(s.tbl, q),
         NEW s1, NodeFields \subseteq DOMAIN s1, s1.tbl = Unmark(s.tbl, Q),
         VsetBut(s.vset, s1.vset, Q), s1.nonEss \subseteq s.nonEss \cup Q,
         s1.dismantled = s.dismantled, s1.lost = s.lost,
         s1.delayed = s.delayed, s1.recent = s.recent, s1.heard = s.heard, s1.seq = s.seq, s1.out = s.out
  PROVE  Leads(n, P, s, s1) /\ Unmarked(s.tbl, s1.tbl, Q)
<1>1. /\ TableOK(n, P, s.tbl) /\ LostOK(P, s.tbl, s.lost)
      /\ SetsOK(n, P, s.tbl, s.vset, s.nonEss, s.dismantled)
  BY DEF NodeGood
<1>2. TableOK(n, P, s1.tbl) /\ Unmarked(s.tbl, s1.tbl, Q)
  BY <1>1, UnmarkOK
<1>3. SameHops(s.tbl, s1.tbl)
  BY <1>2 DEF SameHops, Unmarked
<1>4. LostOK(P, s1.tbl, s1.lost)
  BY <1>1, <1>3, LostKept
<1>5. SetsOK(n, P, s1.tbl, s1.vset, s1.nonEss, s1.dismantled)
  <2>1. ASSUME NEW w \in DOMAIN s1.vset
        PROVE  s1.vset[w] # {} /\ \A p \in s1.vset[w] : ServesVnei(n, s1.tbl, w, p)
    BY <1>1, <1>2, <2>1 DEF VsetBut, SetsOK, ServesVnei, OtherEnd, Unmarked
  <2>2. ASSUME NEW p \in PathIds, InTable(s1.tbl, p)
        PROVE  /\ p \in s1.nonEss => ~s1.tbl.routes[p].isVset
               /\ p \in s.dismantled <=> IsDismantledRoute(s1.tbl.routes[p].unavail)
    BY <1>1, <1>2, <2>2 DEF SetsOK, Unmarked
  <2>3. s.dismantled \subseteq P
    BY <1>1 DEF SetsOK
  <2> QED BY <2>1, <2>2, <2>3 DEF SetsOK
<1> QED BY <1>2, <1>4, <1>5, PutSets

\* what PatchEnd does to the state
EndPatched(n, s, s1, p, other) ==
  /\ NodeFields \subseteq DOMAIN s1
  /\ s1.tbl = Unmark(s.tbl, {p}) /\ s1.nonEss = s.nonEss \cup {p}
  /\ s1.vset = IF RouteOf(s, p).isVset THEN VsetLess(s.vset, p, other) ELSE s.vset
  /\ s1.dismantled = s.dismantled /\ s1.lost = s.lost /\ s1.delayed = s.delayed /\ s1.recent = s.recent
  /\ s1.heard = s.heard /\ s1.seq = s.seq /\ s1.out = s.out

LEMMA PatchEndFields ==
  ASSUME NEW n, NEW s, HasFields(s), s.tbl \in Table, NEW p \in PathIds, NEW other,
         NEW s1, s1 = PatchEnd(s, n, p, other)
  PROVE  EndPatched(n, s, s1, p, other)
<1> DEFINE u == IF RouteOf(s, p).isVset THEN LoseVsetRoute(s, n, p, other, p) ELSE s
<1>1. s1 = [u EXCEPT !.tbl.routes[p].isVset = FALSE, !.nonEss = @ \cup {p}, !.unwanted = @ \cup {p}]
  BY DEF PatchEnd
<1>2. OnlyVset(s, u) /\ u.vset = IF RouteOf(s, p).isVset THEN VsetLess(s.vset, p, other) ELSE s.vset
  <2>1. CASE RouteOf(s, p).isVset
    <3>1. u = LoseVsetRoute(s, n, p, other, p)
      BY <2>1
    <3> HIDE DEF u
    <3> QED BY <2>1, <3>1, LoseVsetFields
  <2>2. CASE ~RouteOf(s, p).isVset
    BY <2>2 DEF OnlyVset, HasFields
  <2> QED BY <2>1, <2>2
<1> HIDE DEF u
<1>3. NodeFields \subseteq DOMAIN u /\ u.tbl = s.tbl
  BY <1>2 DEF OnlyVset
<1>4. /\ NodeFields \subseteq DOMAIN s1
      /\ s1.tbl = [u.tbl EXCEPT !.routes[p].isVset = FALSE] /\ s1.nonEss = u.nonEss \cup {p}
      /\ s1.vset = u.vset /\ s1.dismantled = u.dismantled /\ s1.lost = u.lost /\ s1.delayed = u.delayed
      /\ s1.recent = u.recent /\ s1.heard = u.heard /\ s1.seq = u.seq /\ s1.out = u.out
  BY <1>1, <1>3 DEF NodeFields
<1>5. [s.tbl EXCEPT !.routes[p].isVset = FALSE] = Unmark(s.tbl, {p})
  <2> DEFINE t == s.tbl
  <2>1. t.routes = [q \in PathIds |-> t.routes[q]] /\ t = [routes |-> t.routes, ends |-> t.ends]
    BY DEF Table
  <2> HIDE DEF t
  <2>2. [t EXCEPT !.routes[p].isVset = FALSE] = Unmark(t, {p})
    <3>1. [t.routes EXCEPT ![p] = [t.routes[p] EXCEPT !.isVset = FALSE]]
            = [q \in PathIds |-> IF q \in {p} THEN [t.routes[q] EXCEPT !.isVset = FALSE] ELSE t.routes[q]]
      BY <2>1
    <3> QED BY <2>1, <3>1 DEF Unmark
  <2> QED BY <2>2 DEF t
<1> QED BY <1>2, <1>3, <1>4, <1>5 DEF EndPatched, OnlyVset

LEMMA PatchEndLeads ==
  ASSUME NEW n, NEW P \in SUBSET PathIds, NEW s, NodeGood(n, P, s), NEW p \in PathIds, InTable(s.tbl, p),
         NEW other, other = OtherEnd(n, RouteOf(s, p)), NEW s1, s1 = PatchEnd(s, n, p, other)
  PROVE  Leads(n, P, s, s1) /\ Unmarked(s.tbl, s1.tbl, {p})
<1>1. /\ HasFields(s) /\ TableOK(n, P, s.tbl) /\ s.tbl \in Table
      /\ SetsOK(n, P, s.tbl, s.vset, s.nonEss, s.dismantled)
  BY DEF NodeGood, TableOK, HasFields
<1>2. EndPatched(n, s, s1, p, other)
  BY <1>1, PatchEndFields
<1>3. VsetBut(s.vset, s1.vset, {p})
  <2>1. CASE RouteOf(s, p).isVset
    <3>1. s1.vset = VsetLess(s.vset, p, other)
      BY <1>2, <2>1 DEF EndPatched
    <3>2. SetsOK(n, P, s.tbl, s1.vset, s.nonEss, s.dismantled) /\ InNoSet(s1.vset, p)
      BY <1>1, <3>1, VsetLessOK DEF RouteOf
    <3>3. \A w \in DOMAIN s1.vset : w \in DOMAIN s.vset /\ s1.vset[w] \subseteq s.vset[w]
      BY <3>1 DEF VsetLess, Without, Restrict
    <3> QED BY <3>2, <3>3 DEF SetsOK, InNoSet, VsetBut
  <2>2. CASE ~RouteOf(s, p).isVset
    BY <1>1, <1>2, <2>2 DEF EndPatched, SetsOK, ServesVnei, VsetBut, RouteOf
  <2> QED BY <2>1, <2>2
<1> DEFINE Q == {p}
<1>4. /\ Q \in SUBSET PathIds /\ (\A q \in Q : InTable(s.tbl, q)) /\ VsetBut(s.vset, s1.vset, Q)
      /\ NodeFields \subseteq DOMAIN s1 /\ s1.tbl = Unmark(s.tbl, Q) /\ s1.nonEss \subseteq s.nonEss \cup Q
      /\ s1.dismantled = s.dismantled /\ s1.lost = s.lost
      /\ s1.delayed = s.delayed /\ s1.recent = s.recent /\ s1.heard = s.heard /\ s1.seq = s.seq
      /\ s1.out = s.out
  BY <1>2, <1>3 DEF EndPatched
<1> HIDE DEF Q
<1>5. Leads(n, P, s, s1) /\ Unmarked(s.tbl, s1.tbl, Q)
  BY <1>4, UnmarkLeads
<1> QED BY <1>5 DEF Q

LEMMA UnmarkIs ==
  ASSUME NEW t, t = [routes |-> t.routes, ends |-> t.ends], NEW Q
  PROVE  Unmark(t, Q) = [routes |-> [q \in PathIds |-> IF q \in Q THEN [t.routes[q] EXCEPT !.isVset = FALSE]
                                                       ELSE t.routes[q]],
                         ends |-> t.ends]
<1> DEFINE b == [q \in PathIds |-> IF q \in Q THEN [t.routes[q] EXCEPT !.isVset = FALSE] ELSE t.routes[q]]
<1>1. Unmark(t, Q) = [t EXCEPT !.routes = b]
  BY DEF Unmark
<1> HIDE DEF b
<1>2. [t EXCEPT !.routes = b] = [routes |-> b, ends |-> t.ends]
  OBVIOUS
<1> QED BY <1>1, <1>2 DEF b

\* handleRepairRoute at an end
LEMMA PatchedEndLeads ==
  ASSUME NEW n, NEW P \in SUBSET PathIds, NEW s, NodeGood(n, P, s), NEW p \in PathIds, InTable(s.tbl, p),
         NEW s2, s2 = PatchedEnd(s, n, p)
  PROVE  Leads(n, P, s, s2)
<1> DEFINE v     == OtherEnd(n, RouteOf(s, p))
           rest  == IF v \in DOMAIN s.vset THEN s.vset[v] \ {p} ELSE {}
           first == RouteOf(s, p).isVset /\ rest # {} /\ \A q \in rest : p < q
           s1    == [s EXCEPT !.vset[v] = {p} \cap @, !.nonEss = @ \cup rest, !.unwanted = @ \cup rest,
                              !.tbl.routes = [q \in PathIds |-> IF q \in rest THEN [@[q] EXCEPT !.isVset = FALSE]
                                                                ELSE @[q]]]
<1>1. s2 = PatchEnd(IF first THEN s1 ELSE s, n, p, v)
  BY DEF PatchedEnd
<1>2. CASE ~first
  <2>1. s2 = PatchEnd(s, n, p, v)
    BY <1>1, <1>2
  <2> HIDE DEF v
  <2>2. v = OtherEnd(n, RouteOf(s, p))
    BY DEF v
  <2> QED BY <2>1, <2>2, PatchEndLeads
<1>3. CASE first
  <2>1. s2 = PatchEnd(s1, n, p, v)
    BY <1>1, <1>3
  <2>2. /\ NodeFields \subseteq DOMAIN s /\ TableOK(n, P, s.tbl) /\ s.tbl \in Table
        /\ SetsOK(n, P, s.tbl, s.vset, s.nonEss, s.dismantled)
    BY DEF NodeGood, TableOK
  <2>3. v \in DOMAIN s.vset /\ RouteOf(s, p).isVset /\ rest = s.vset[v] \ {p}
    BY <1>3
  <2>4. rest \in SUBSET PathIds /\ \A q \in rest : InTable(s.tbl, q) /\ OtherEnd(n, s.tbl.routes[q]) = v
    BY <2>2, <2>3 DEF SetsOK, ServesVnei
  <2>v. v = OtherEnd(n, s.tbl.routes[p])
    BY DEF RouteOf
  <2> HIDE DEF rest, v, first
  <2>5. /\ s1.vset = [s.vset EXCEPT ![v] = {p} \cap @] /\ s1.nonEss = s.nonEss \cup rest
        /\ s1.tbl = Unmark(s.tbl, rest) /\ s1.dismantled = s.dismantled
        /\ s1.lost = s.lost /\ s1.delayed = s.delayed /\ s1.recent = s.recent /\ s1.heard = s.heard
        /\ s1.seq = s.seq /\ s1.out = s.out /\ HasFields(s1)
    BY <2>2 DEF NodeFields, HasFields, Unmark
  <2> HIDE DEF s1
  <2>6. TableOK(n, P, s1.tbl) /\ Unmarked(s.tbl, s1.tbl, rest) /\ s1.tbl \in Table
    <3>1. TableOK(n, P, s1.tbl) /\ Unmarked(s.tbl, s1.tbl, rest)
      BY <2>2, <2>4, <2>5, UnmarkOK
    <3> QED BY <3>1 DEF TableOK
  <2>7. EndPatched(n, s1, s2, p, v)
    BY <2>1, <2>5, <2>6, PatchEndFields
  <2>8. RouteOf(s1, p).isVset
    BY <2>3, <2>6 DEF Unmarked, RouteOf
  <2>9. s2.vset = VsetLess(s1.vset, p, v)
    BY <2>7, <2>8 DEF EndPatched
  <2>10. s2.vset = Without(s1.vset, v)
    <3>1. v \in DOMAIN s1.vset /\ s1.vset[v] \subseteq {p}
      BY <2>3, <2>5
    <3> QED BY <2>9, <3>1 DEF VsetLess
  <2> DEFINE Q == rest \cup {p}
  <2>11. Q \in SUBSET PathIds /\ (\A q \in Q : InTable(s.tbl, q)) /\ \A q \in Q : OtherEnd(n, s.tbl.routes[q]) = v
    BY <2>4, <2>v
  <2>12. VsetBut(s.vset, s2.vset, Q)
    <3> SUFFICES ASSUME NEW w \in DOMAIN s2.vset
                 PROVE  w \in DOMAIN s.vset /\ s2.vset[w] # {} /\ s2.vset[w] \subseteq s.vset[w] \ Q
      BY DEF VsetBut
    <3>1. w \in DOMAIN s.vset /\ w # v /\ s2.vset[w] = s.vset[w]
      BY <2>5, <2>10 DEF Without, Restrict
    <3>2. s.vset[w] # {} /\ \A q \in s.vset[w] : OtherEnd(n, s.tbl.routes[q]) = w
      BY <2>2, <3>1 DEF SetsOK, ServesVnei
    <3> HIDE DEF Q
    <3> QED BY <2>11, <3>1, <3>2
  <2>13. s2.tbl = Unmark(s.tbl, Q)
    <3>1. s2.tbl = Unmark(Unmark(s.tbl, rest), {p})
      BY <2>5, <2>7 DEF EndPatched
    <3> DEFINE t == s.tbl
               a == [q \in PathIds |-> IF q \in rest THEN [t.routes[q] EXCEPT !.isVset = FALSE] ELSE t.routes[q]]
    <3>2. t = [routes |-> t.routes, ends |-> t.ends] /\ \A q \in rest : t.routes[q] \in Route
      BY <2>2, <2>4, RouteIn DEF Table
    <3> HIDE DEF t
    <3>3. Unmark(t, rest) = [routes |-> a, ends |-> t.ends]
      BY <3>2, UnmarkIs
    <3> DEFINE u == [routes |-> a, ends |-> t.ends]
    <3>u. u = [routes |-> u.routes, ends |-> u.ends] /\ u.routes = a /\ u.ends = t.ends
      OBVIOUS
    <3>4. [q \in PathIds |-> IF q \in {p} THEN [a[q] EXCEPT !.isVset = FALSE] ELSE a[q]]
            = [q \in PathIds |-> IF q \in Q THEN [t.routes[q] EXCEPT !.isVset = FALSE] ELSE t.routes[q]]
      <4>1. p \notin rest
        BY DEF rest
      <4> QED BY <4>1
    <3> HIDE DEF a, Q, u
    <3>5. Unmark(u, {p}) = [routes |-> [q \in PathIds |-> IF q \in {p} THEN [u.routes[q] EXCEPT !.isVset = FALSE]
                                                           ELSE u.routes[q]],
                            ends |-> u.ends]
      BY <3>u, UnmarkIs
    <3>6. Unmark(t, Q) = [routes |-> [q \in PathIds |-> IF q \in Q THEN [t.routes[q] EXCEPT !.isVset = FALSE]
                                                        ELSE t.routes[q]],
                          ends |-> t.ends]
      BY <3>2, UnmarkIs
    <3>7. Unmark(u, {p}) = Unmark(t, Q)
      BY <3>4, <3>5, <3>6, <3>u
    <3> QED BY <3>1, <3>3, <3>7 DEF t, u
  <2>14. /\ NodeFields \subseteq DOMAIN s2 /\ s2.nonEss \subseteq s.nonEss \cup Q
         /\ s2.dismantled = s.dismantled /\ s2.lost = s.lost
         /\ s2.delayed = s.delayed /\ s2.recent = s.recent /\ s2.heard = s.heard /\ s2.seq = s.seq
         /\ s2.out = s.out
    BY <2>5, <2>7 DEF EndPatched
  <2> HIDE DEF Q
  <2> QED BY <2>11, <2>12, <2>13, <2>14, UnmarkLeads
<1> QED BY <1>2, <1>3
-----------------------------------------------------------------------------
(* A vroute leaves the node                                                *)

\* in the middle of a vroute it is in no set of vset
LEMMA Middle ==
  ASSUME NEW n, NEW P \in SUBSET PathIds, NEW s, NodeGood(n, P, s), NEW p \in PathIds, InTable(s.tbl, p),
         RouteOf(s, p).prev # NullVid, RouteOf(s, p).next # NullVid
  PROVE  InNoSet(s.vset, p)
<1>1. /\ SetsOK(n, P, s.tbl, s.vset, s.nonEss, s.dismantled) /\ TableOK(n, P, s.tbl)
  BY DEF NodeGood
<1>2. n \notin {s.tbl.routes[p].from, s.tbl.routes[p].to}
  BY <1>1, RouteIn DEF RouteOK, RouteOf
<1> QED BY <1>1, <1>2 DEF SetsOK, ServesVnei, InNoSet

LEMMA RemoveMiddle ==
  ASSUME NEW n, NEW P \in SUBSET PathIds, NEW s, NodeGood(n, P, s), NEW p \in PathIds, InTable(s.tbl, p),
         RouteOf(s, p).prev # NullVid, RouteOf(s, p).next # NullVid,
         NEW s1, Leads(n, P, s, s1), KeepsTable(s, s1), NEW s2, s2 = RemovePath(s1, p)
  PROVE  Leads(n, P, s, s2) /\ OnlyAt(s.tbl, s2.tbl, p)
<1>1. NodeGood(n, P, s1) /\ InTable(s1.tbl, p) /\ s1.tbl = s.tbl
  BY DEF Leads, KeepsTable
<1>2. RouteOf(s1, p).prev # NullVid /\ RouteOf(s1, p).next # NullVid
  BY <1>1 DEF RouteOf
<1>3. InNoSet(s1.vset, p)
  BY <1>1, <1>2, Middle
<1>4. Leads(n, P, s1, s2) /\ OnlyAt(s1.tbl, s2.tbl, p)
  BY <1>1, <1>3, RemovePathLeads DEF InNoSet
<1> QED BY <1>1, <1>4, LeadsOn

LEMMA RemoveAtEnd ==
  ASSUME NEW n, NEW P \in SUBSET PathIds, NEW s, NodeGood(n, P, s), NEW p \in PathIds, InTable(s.tbl, p),
         NEW s2, s2 = RemovePath(RemoveEndpoint(s, n, p, OtherEnd(n, RouteOf(s, p))), p)
  PROVE  Leads(n, P, s, s2) /\ (p \in P => OnlyAt(s.tbl, s2.tbl, p))
<1> DEFINE other == OtherEnd(n, RouteOf(s, p))
           s1 == RemoveEndpoint(s, n, p, other)
<1>1. Leads(n, P, s, s1) /\ InNoSet(s1.vset, p) /\ (p \in P => KeepsTable(s, s1))
  <2> HIDE DEF other
  <2>1. other = OtherEnd(n, RouteOf(s, p))
    BY DEF other
  <2> QED BY <2>1, RemoveEndpointLeads
<1>2. s2 = RemovePath(s1, p)
  OBVIOUS
<1> HIDE DEF s1
<1>3. NodeGood(n, P, s1)
  BY <1>1 DEF Leads
<1>4. Leads(n, P, s1, s2) /\ OnlyAt(s1.tbl, s2.tbl, p)
  BY <1>1, <1>2, <1>3, RemovePathLeads DEF InNoSet
<1> QED BY <1>1, <1>4, LeadsOn DEF KeepsTable

LEMMA DismantleMiddle ==
  ASSUME NEW n, NEW P \in SUBSET PathIds, NEW s, NodeGood(n, P, s), NEW p \in PathIds, InTable(s.tbl, p),
         RouteOf(s, p).prev # NullVid, RouteOf(s, p).next # NullVid, ~IsTemporaryRoute(RouteOf(s, p).unavail),
         NEW s1, Leads(n, P, s, s1), KeepsTable(s, s1),
         NEW toNext \in BOOLEAN, NEW v \in 0 .. 3, NEW s2, s2 = Dismantle(s1, p, toNext, v)
  PROVE  Leads(n, P, s, s2) /\ OnlyAt(s.tbl, s2.tbl, p)
<1>1. NodeGood(n, P, s1) /\ InTable(s1.tbl, p) /\ s1.tbl = s.tbl
  BY DEF Leads, KeepsTable
<1>2. RouteOf(s1, p).prev # NullVid /\ RouteOf(s1, p).next # NullVid
  BY <1>1 DEF RouteOf
<1>3. p \in P
  <2>1. TableOK(n, P, s.tbl)
    BY DEF NodeGood
  <2> QED BY <2>1, RouteIn DEF RouteOK, RouteOf
<1>4. Leads(n, P, s1, s2) /\ OnlyAt(s1.tbl, s2.tbl, p)
  BY <1>1, <1>2, <1>3, DismantleLeads
<1> QED BY <1>1, <1>4, LeadsOn

\* handleLostPneis, for one vroute that is not kept for repair
LEMMA DropRouteOverLeads ==
  ASSUME NEW n \in Nodes, NEW P \in SUBSET PathIds, NEW s, NodeGood(n, P, s), NEW p \in PathIds,
         InTable(s.tbl, p), NEW x \in Vids, x \in {RouteOf(s, p).prev, RouteOf(s, p).next},
         NEW s2, s2 = DropRouteOver(s, n, p, x)
  PROVE  Leads(n, P, s, s2)
<1> DEFINE r      == RouteOf(s, p)
           onward == r.prev = x
           nh     == HopTo(r, onward)
           st     == HopState(r, onward)
           dism   == IsDismantledRoute(r.unavail)
           msg    == TeardownMsg(p, n, TRUE, TRUE)
           s1     == IF nh # x /\ ((~dism /\ st # 1) \/ st = 3) THEN Post(s, nh, msg) ELSE s
           side   == ~onward
           toEnd  == RemovePath(RemoveEndpoint(s, n, p, OtherEnd(n, r)), p)
           gone   == RemovePath(s1, p)
           half   == Dismantle(s1, p, side, 1)
<1>1. s2 = IF nh = NullVid THEN toEnd
           ELSE IF IsTemporaryRoute(r.unavail) \/ ~KeepDismantled \/ st # 0 THEN gone ELSE half
  BY DEF DropRouteOver
<1>2. onward \in BOOLEAN /\ side \in BOOLEAN
  OBVIOUS
<1>3. nh # NullVid => r.prev # NullVid /\ r.next # NullVid
  BY Constants DEF HopTo
<1>4. Leads(n, P, s, s1) /\ KeepsTable(s, s1)
  <2>1. msg \in MessagesTo(P, nh)
    <3> DEFINE b == TRUE
    <3>1. b \in BOOLEAN /\ msg = TeardownMsg(p, n, b, b)
      OBVIOUS
    <3> HIDE DEF b, msg
    <3> QED BY <3>1, MakeTeardown DEF OnWay, MessagesTo
  <2> HIDE DEF msg, nh, st, dism
  <2>2. Leads(n, P, s, Post(s, nh, msg)) /\ KeepsTable(s, Post(s, nh, msg))
    BY <2>1, PostLeads DEF KeepsTable
  <2>3. Leads(n, P, s, s) /\ KeepsTable(s, s)
    BY LeadsHere, KeepsOn
  <2> QED BY <2>2, <2>3
<1>5. Leads(n, P, s, toEnd)
  BY RemoveAtEnd
<1> HIDE DEF s1, st, nh, side, onward
<1>6. nh # NullVid => Leads(n, P, s, gone)
  BY <1>3, <1>4, RemoveMiddle
<1>7. nh # NullVid /\ ~IsTemporaryRoute(r.unavail) => Leads(n, P, s, half)
  <2> DEFINE one == 1
  <2>1. one \in 0 .. 3 /\ half = Dismantle(s1, p, side, one)
    OBVIOUS
  <2> HIDE DEF one, half
  <2> QED BY <1>2, <1>3, <1>4, <2>1, DismantleMiddle
<1> HIDE DEF toEnd, gone, half
<1> QED BY <1>1, <1>5, <1>6, <1>7

LEMMA LoseRouteOverLeads ==
  ASSUME NEW n \in Nodes, NEW P \in SUBSET PathIds, NEW s, NodeGood(n, P, s), NEW p \in PathIds,
         NEW x \in Vids, NEW s2, s2 = LoseRouteOver(s, n, p, x)
  PROVE  Leads(n, P, s, s2)
<1> DEFINE r == RouteOf(s, p)
<1>1. CASE ~InTable(s.tbl, p) \/ x \notin {r.prev, r.next}
  <2>1. s2 = s
    BY <1>1 DEF LoseRouteOver
  <2> QED BY <2>1, LeadsHere
<1>2. CASE /\ InTable(s.tbl, p) /\ x \in {r.prev, r.next}
           /\ ~SetupTempRoute \/ IsTemporaryRoute(r.unavail) \/ IsDismantledRoute(r.unavail)
  <2>1. s2 = DropRouteOver(s, n, p, x)
    BY <1>2 DEF LoseRouteOver
  <2> QED BY <1>2, <2>1, DropRouteOverLeads
<1>3. CASE /\ InTable(s.tbl, p) /\ x \in {r.prev, r.next}
           /\ SetupTempRoute /\ ~IsTemporaryRoute(r.unavail) /\ ~IsDismantledRoute(r.unavail)
  <2> DEFINE toNext == ToNextOf(r, x)
             one    == 1
             m      == MarkHop(s, p, toNext, one)
             ps     == {p}
  <2>1. s2 = AddBroken(m, x, ps, NoTimer)
    BY <1>3 DEF LoseRouteOver
  <2>2. p \in P
    <3>1. TableOK(n, P, s.tbl)
      BY DEF NodeGood
    <3> QED BY <1>3, <3>1, RouteIn DEF RouteOK, RouteOf
  <2>3. toNext \in BOOLEAN /\ HopTo(r, toNext) # NullVid /\ one \in 0 .. 3
    BY <1>3, Constants DEF ToNextOf, HopTo
  <2> HIDE DEF toNext, one
  <2>4. Leads(n, P, s, m) /\ SameHops(s.tbl, m.tbl) /\ SameEnds(s.tbl, m.tbl)
    BY <1>3, <2>3, MarkHopLeads
  <2> HIDE DEF m
  <2>5. NodeGood(n, P, m)
    BY <2>4 DEF Leads
  <2>6. ps \in SUBSET P /\ OverAll(m.tbl, ps, x)
    BY <1>3, <2>2, <2>4 DEF SameHops, SameEnds, OverAll, Over, RouteOf
  <2> HIDE DEF ps
  <2>7. Leads(n, P, m, s2)
    BY <2>1, <2>5, <2>6, AddBrokenLeads
  <2> QED BY <2>4, <2>7, LeadsOn
<1> QED BY <1>1, <1>2, <1>3

LostLoop == INSTANCE ForEachInduction WITH
  Op  <- LAMBDA n, P, s, x, y, t, p : LoseRouteOver(t, n, p, x),
  Inv <- LAMBDA n, P, s, x, y, T, t : Leads(n, P, s, t)

\* handleLostPneis
LEMMA AfterLostLeads ==
  ASSUME NEW n \in Nodes, NEW P \in SUBSET PathIds, NEW s, NodeGood(n, P, s), NEW x \in Vids,
         NEW s2, s2 = AfterLost(s, n, x)
  PROVE  Leads(n, P, s, s2)
<1> DEFINE s0 == [s EXCEPT !.linked = @ \ {x}]
           ps == Known(s)
           Body(t, p) == LoseRouteOver(t, n, p, x)
           s1 == ForEach(LAMBDA t, p : LoseRouteOver(t, n, p, x), s0, ps)
           zero == 0
           none == {}
           u  == IF x \in DOMAIN s1.lost THEN AddBroken(s1, x, none, zero) ELSE s1
<1>1. s2 = [u EXCEPT !.wake = TRUE]
  BY DEF AfterLost
<1>2. Leads(n, P, s, s0)
  <2>1. NodeFields \subseteq DOMAIN s
    BY DEF NodeGood
  <2> QED BY <2>1, OtherFields DEF NodeFields
<1> HIDE DEF s0
<1>3. ps \in SUBSET PathIds
  BY DEF Known
<1>4. ps \in SUBSET Nat /\ IsFiniteSet(ps)
  BY <1>3, Finite
<1>5. ASSUME NEW p \in ps, NEW t, Leads(n, P, s, t)
      PROVE  Leads(n, P, s, Body(t, p))
  <2>1. NodeGood(n, P, t) /\ p \in PathIds
    BY <1>3, <1>5 DEF Leads
  <2>2. Leads(n, P, t, Body(t, p))
    BY <2>1, LoseRouteOverLeads
  <2> HIDE DEF Body
  <2> QED BY <1>5, <2>2, LeadsOn
<1>6. s1 = LostLoop!Loop(n, P, s, x, x, s0, ps)
  BY DEF ForEach, LostLoop!Loop, Max, LostLoop!Max
<1> HIDE DEF ps
<1>7. Leads(n, P, s, LostLoop!Loop(n, P, s, x, x, s0, ps))
  <2>1. \A T \in SUBSET ps : \A p \in ps \ T : \A t : Leads(n, P, s, t) => Leads(n, P, s, Body(t, p))
    BY <1>5
  <2>2. LostLoop!IsFiniteSet(ps)
    BY <1>4 DEF IsFiniteSet, LostLoop!IsFiniteSet
  <2> QED BY <1>2, <1>4, <2>1, <2>2, LostLoop!LoopKeeps
<1>8. Leads(n, P, s, s1)
  BY <1>6, <1>7
<1> HIDE DEF s1
<1>9. NodeGood(n, P, s1)
  BY <1>8 DEF Leads
<1>10. zero \in WaitRepairLinkIntTimer \cup {NoTimer} /\ none \in SUBSET P /\ OverAll(s1.tbl, none, x)
  BY Constants DEF WaitRepairLinkIntTimer, OverAll
<1> HIDE DEF zero, none
<1>11. Leads(n, P, s1, u)
  <2>1. Leads(n, P, s1, AddBroken(s1, x, none, zero))
    BY <1>9, <1>10, AddBrokenLeads
  <2> QED BY <1>9, <2>1, LeadsHere
<1> HIDE DEF u
<1>12. NodeGood(n, P, u) /\ NodeFields \subseteq DOMAIN u
  BY <1>11 DEF Leads, NodeGood
<1>13. Leads(n, P, u, s2)
  BY <1>1, <1>12, OtherFields DEF NodeFields
<1>14. Leads(n, P, s, u)
  BY <1>8, <1>11, LeadsOn
<1> QED BY <1>13, <1>14, LeadsOn

Restoring(n, P, s, x, t) == Leads(n, P, s, t) /\ x \in DOMAIN t.lost

RestoreLoop == INSTANCE ForEachInduction WITH
  Op  <- LAMBDA n, P, s, x, y, t, p :
           IF InTable(t.tbl, p) THEN MarkHop(t, p, ToNextOf(RouteOf(t, p), x), 0) ELSE t,
  Inv <- LAMBDA n, P, s, x, y, T, t : Restoring(n, P, s, x, t)

LEMMA RestoreHopsLeads ==
  ASSUME NEW n, NEW P \in SUBSET PathIds, NEW s, NodeGood(n, P, s), NEW x \in DOMAIN s.lost,
         NEW s2, s2 = RestoreHops(s, x)
  PROVE  Leads(n, P, s, s2)
<1> DEFINE Body(t, p) == IF InTable(t.tbl, p) THEN MarkHop(t, p, ToNextOf(RouteOf(t, p), x), 0) ELSE t
           ps == s.lost[x].broken
           s1 == ForEach(LAMBDA t, p : IF InTable(t.tbl, p)
                                       THEN MarkHop(t, p, ToNextOf(RouteOf(t, p), x), 0) ELSE t, s, ps)
<1>1. s2 = DropLost(s1, x)
  BY DEF RestoreHops
<1>2. ps \in SUBSET PathIds
  BY LostFields
<1>3. ps \in SUBSET Nat /\ IsFiniteSet(ps)
  BY <1>2, Finite
<1>4. Restoring(n, P, s, x, s)
  BY LeadsHere DEF Restoring
<1>5. ASSUME NEW p \in ps, NEW t, Restoring(n, P, s, x, t)
      PROVE  Restoring(n, P, s, x, Body(t, p))
  <2>1. NodeGood(n, P, t) /\ p \in PathIds
    BY <1>2, <1>5 DEF Restoring, Leads
  <2>2. CASE ~InTable(t.tbl, p)
    BY <1>5, <2>2
  <2>3. CASE InTable(t.tbl, p)
    <3> DEFINE toNext == ToNextOf(RouteOf(t, p), x)
               zero == 0
               u == MarkHop(t, p, toNext, zero)
    <3>1. Body(t, p) = u
      BY <2>3
    <3>2. toNext \in BOOLEAN /\ zero \in 0 .. 3 /\ (HopTo(RouteOf(t, p), toNext) = NullVid => zero = 0)
      BY DEF ToNextOf
    <3>a. u = MarkHop(t, p, toNext, zero)
      OBVIOUS
    <3> HIDE DEF toNext, zero, u
    <3>3. Leads(n, P, t, u) /\ u.lost = t.lost
      BY <2>1, <2>3, <3>2, <3>a, MarkHopLeads
    <3> QED BY <1>5, <3>1, <3>3, LeadsOn DEF Restoring
  <2> QED BY <2>2, <2>3
<1>6. s1 = RestoreLoop!Loop(n, P, s, x, x, s, ps)
  BY DEF ForEach, RestoreLoop!Loop, Max, RestoreLoop!Max
<1> HIDE DEF ps
<1>7. Restoring(n, P, s, x, RestoreLoop!Loop(n, P, s, x, x, s, ps))
  <2>1. \A T \in SUBSET ps : \A p \in ps \ T : \A t : Restoring(n, P, s, x, t) => Restoring(n, P, s, x, Body(t, p))
    BY <1>5
  <2>2. RestoreLoop!IsFiniteSet(ps)
    BY <1>3 DEF IsFiniteSet, RestoreLoop!IsFiniteSet
  <2> QED BY <1>3, <1>4, <2>1, <2>2, RestoreLoop!LoopKeeps
<1> HIDE DEF s1
<1>8. Leads(n, P, s, s1) /\ x \in DOMAIN s1.lost /\ NodeGood(n, P, s1)
  BY <1>6, <1>7 DEF Restoring, Leads
<1>9. Leads(n, P, s1, s2)
  BY <1>1, <1>8, DropLostLeads
<1> QED BY <1>8, <1>9, LeadsOn

\* handleLinkedPnei
LEMMA AfterLinkedLeads ==
  ASSUME NEW n, NEW P \in SUBSET PathIds, NEW s, NodeGood(n, P, s), NEW x, NEW s2, s2 = AfterLinked(s, x)
  PROVE  Leads(n, P, s, s2)
<1> DEFINE s1 == [s EXCEPT !.linked = @ \cup {x}]
           u  == RestoreHops(s1, x)
<1>1. s2 = IF x \in DOMAIN s.lost /\ Restorable(s, x)
           THEN [u EXCEPT !.late = @ \cup s.lost[x].temp] ELSE s1
  BY DEF AfterLinked
<1>2. Leads(n, P, s, s1) /\ s1.lost = s.lost
  <2>1. NodeFields \subseteq DOMAIN s
    BY DEF NodeGood
  <2> QED BY <2>1, OtherFields DEF NodeFields
<1> HIDE DEF s1
<1>3. CASE x \in DOMAIN s.lost
  <2>1. Leads(n, P, s1, u)
    BY <1>2, <1>3, RestoreHopsLeads DEF Leads
  <2>2. NodeGood(n, P, u) /\ NodeFields \subseteq DOMAIN u
    BY <2>1 DEF Leads, NodeGood
  <2> HIDE DEF u
  <2>3. Leads(n, P, u, [u EXCEPT !.late = @ \cup s.lost[x].temp])
    BY <2>2, OtherFields DEF NodeFields
  <2>4. Leads(n, P, s, [u EXCEPT !.late = @ \cup s.lost[x].temp])
    BY <1>2, <2>1, <2>3, LeadsOn
  <2> QED BY <1>1, <1>2, <2>4
<1>4. CASE x \notin DOMAIN s.lost
  BY <1>1, <1>2, <1>4
<1> QED BY <1>3, <1>4
-----------------------------------------------------------------------------
(* processWaitRepairLinkTimer without retries left                         *)

LEMMA GiveUpRouteLeads ==
  ASSUME NEW n \in Nodes, NEW P \in SUBSET PathIds, NEW s, NodeGood(n, P, s), NEW p \in P,
         InTable(s.tbl, p), NEW x \in Vids, x \in {RouteOf(s, p).prev, RouteOf(s, p).next},
         NEW s2, s2 = GiveUpRoute(s, n, p, x)
  PROVE  Leads(n, P, s, s2) /\ OnlyAt(s.tbl, s2.tbl, p)
<1> DEFINE r      == RouteOf(s, p)
           onward == r.prev = x
           nh     == HopTo(r, onward)
           st     == HopState(r, onward)
           msg    == TeardownMsg(p, n, TRUE, TRUE)
           s1     == IF st = 1 THEN LoseBroken(s, p, nh) ELSE TeardownVia(s, nh, st, msg)
           side   == ~onward
           toEnd  == RemovePath(RemoveEndpoint(s, n, p, OtherEnd(n, r)), p)
           gone   == RemovePath(s1, p)
           half   == Dismantle(s1, p, side, 1)
<1>0. p \in PathIds
  OBVIOUS
<1>1. s2 = IF nh = NullVid THEN toEnd
           ELSE IF ~KeepDismantled \/ st # 0 THEN gone ELSE half
  BY DEF GiveUpRoute
<1>2. onward \in BOOLEAN /\ side \in BOOLEAN
  OBVIOUS
<1>3. nh # NullVid => r.prev # NullVid /\ r.next # NullVid
  BY Constants DEF HopTo
<1>a. ~IsTemporaryRoute(r.unavail) /\ nh \in Hops
  <2>1. TableOK(n, P, s.tbl)
    BY DEF NodeGood
  <2> QED BY <1>0, <2>1, RouteIn DEF RouteOK, RouteOf, HopTo
<1>4. Leads(n, P, s, s1) /\ KeepsTable(s, s1)
  <2>1. msg \in OnWay
    <3> DEFINE b == TRUE
    <3>1. b \in BOOLEAN /\ msg = TeardownMsg(p, n, b, b)
      OBVIOUS
    <3> HIDE DEF b, msg
    <3> QED BY <1>0, <3>1, MakeTeardown
  <2> HIDE DEF msg, nh, st
  <2>2. Leads(n, P, s, LoseBroken(s, p, nh)) /\ KeepsTable(s, LoseBroken(s, p, nh))
    BY LoseBrokenLeads DEF KeepsTable
  <2>3. Leads(n, P, s, TeardownVia(s, nh, st, msg)) /\ KeepsTable(s, TeardownVia(s, nh, st, msg))
    BY <1>a, <2>1, TeardownViaLeads DEF KeepsTable
  <2> QED BY <2>2, <2>3
<1>5. Leads(n, P, s, toEnd) /\ OnlyAt(s.tbl, toEnd.tbl, p)
  BY <1>0, RemoveAtEnd
<1> HIDE DEF s1, st, nh, side, onward
<1>6. nh # NullVid => Leads(n, P, s, gone) /\ OnlyAt(s.tbl, gone.tbl, p)
  BY <1>0, <1>3, <1>4, RemoveMiddle
<1>7. nh # NullVid => Leads(n, P, s, half) /\ OnlyAt(s.tbl, half.tbl, p)
  <2> DEFINE one == 1
  <2>1. one \in 0 .. 3 /\ half = Dismantle(s1, p, side, one)
    OBVIOUS
  <2> HIDE DEF one, half
  <2> QED BY <1>0, <1>2, <1>3, <1>4, <1>a, <2>1, DismantleMiddle
<1> HIDE DEF toEnd, gone, half
<1> QED BY <1>1, <1>5, <1>6, <1>7

\* no vroutes but T have been changed since s
Worked(n, P, s, T, t) == Leads(n, P, s, t) /\ \A q \in P \ T : t.tbl.routes[q] = s.tbl.routes[q]

GiveUpLoop == INSTANCE ForEachInduction WITH
  Op  <- LAMBDA n, P, s, x, y, t, p : GiveUpRoute(t, n, p, x),
  Inv <- LAMBDA n, P, s, x, y, T, t : Worked(n, P, s, T, t)

LEMMA GiveUpLeads ==
  ASSUME NEW n \in Nodes, NEW P \in SUBSET PathIds, NEW s, NodeGood(n, P, s), NEW x \in DOMAIN s.lost,
         NEW s2, s2 = GiveUp(s, n, x)
  PROVE  Leads(n, P, s, s2)
<1> DEFINE Body(t, p) == GiveUpRoute(t, n, p, x)
           ps == IF x \in s.linked THEN {} ELSE {p \in s.lost[x].broken : ~Stale(s, p)}
           s1 == ForEach(LAMBDA t, p : GiveUpRoute(t, n, p, x), s, ps)
<1>1. s2 = IF x \in DOMAIN s1.lost THEN DropLost(s1, x) ELSE s1
  BY DEF GiveUp
<1>2. /\ ps \in SUBSET PathIds /\ ps \in SUBSET P /\ x \in Vids
      /\ \A p \in ps : InTable(s.tbl, p) /\ Over(s.tbl, p, x)
  BY LostFields DEF Stale
<1> HIDE DEF ps
<1>3. ps \in SUBSET Nat /\ IsFiniteSet(ps)
  BY <1>2, Finite
<1>4. Worked(n, P, s, {}, s)
  BY LeadsHere DEF Worked
<1>5. ASSUME NEW T \in SUBSET ps, NEW p \in ps \ T, NEW t, Worked(n, P, s, T, t)
      PROVE  Worked(n, P, s, T \cup {p}, Body(t, p))
  <2>1. /\ NodeGood(n, P, t) /\ p \in P /\ InTable(t.tbl, p)
        /\ x \in {RouteOf(t, p).prev, RouteOf(t, p).next}
    BY <1>2, <1>5 DEF Worked, Leads, InTable, Over, RouteOf
  <2>2. Leads(n, P, t, Body(t, p)) /\ OnlyAt(t.tbl, Body(t, p).tbl, p)
    BY <1>2, <2>1, GiveUpRouteLeads
  <2> HIDE DEF Body
  <2>3. Leads(n, P, s, Body(t, p))
    BY <1>5, <2>2, LeadsOn DEF Worked
  <2>4. ASSUME NEW q \in P \ (T \cup {p}) PROVE Body(t, p).tbl.routes[q] = s.tbl.routes[q]
    BY <1>2, <1>5, <2>2 DEF Worked, OnlyAt
  <2> QED BY <2>3, <2>4 DEF Worked
<1>6. s1 = GiveUpLoop!Loop(n, P, s, x, x, s, ps)
  BY DEF ForEach, GiveUpLoop!Loop, Max, GiveUpLoop!Max
<1>7. Worked(n, P, s, ps, GiveUpLoop!Loop(n, P, s, x, x, s, ps))
  <2>1. \A T \in SUBSET ps : \A p \in ps \ T : \A t :
          Worked(n, P, s, T, t) => Worked(n, P, s, T \cup {p}, Body(t, p))
    BY <1>5
  <2>2. GiveUpLoop!IsFiniteSet(ps)
    BY <1>3 DEF IsFiniteSet, GiveUpLoop!IsFiniteSet
  <2> QED BY <1>3, <1>4, <2>1, <2>2, GiveUpLoop!LoopKeeps
<1> HIDE DEF s1
<1>8. Leads(n, P, s, s1) /\ NodeGood(n, P, s1)
  BY <1>6, <1>7 DEF Worked, Leads
<1>9. Leads(n, P, s1, s2)
  <2>1. CASE x \in DOMAIN s1.lost
    <3>1. s2 = DropLost(s1, x)
      BY <1>1, <2>1
    <3> QED BY <1>8, <2>1, <3>1, DropLostLeads
  <2>2. CASE x \notin DOMAIN s1.lost
    BY <1>1, <1>8, <2>2, LeadsHere
  <2> QED BY <2>1, <2>2
<1> QED BY <1>8, <1>9, LeadsOn
-----------------------------------------------------------------------------
(* Answering a flood                                                       *)

\* the trace before me
LEMMA UpToMeIs ==
  ASSUME NEW n, NEW trace \in Seq(Nodes), NEW up1, up1 = UpToMe(n, trace)
  PROVE  /\ up1 \in Seq(Nodes) /\ n \notin Range(up1) /\ DOMAIN up1 \subseteq DOMAIN trace
         /\ \A i \in DOMAIN up1 : up1[i] = trace[i]
<1> DEFINE I == {i \in 1 .. Len(trace) : trace[i] = n}
           k == Min(I)
<1>1. up1 = IF I = {} THEN trace ELSE SubSeq(trace, 1, k - 1)
  <2>1. SelectInSeq(trace, LAMBDA v : v = n) = IF I # {} THEN k ELSE 0
    BY DEF SelectInSeq
  <2>2. I # {} => k \in I
    <3>1. I \in SUBSET Nat
      OBVIOUS
    <3> HIDE DEF I
    <3> QED BY <3>1, LeastOf
  <2> HIDE DEF k
  <2> QED BY <2>1, <2>2 DEF UpToMe
<1>2. CASE I = {}
  BY <1>1, <1>2 DEF Range
<1>3. CASE I # {}
  <2>1. k \in I /\ \A y \in I : k <= y
    <3>1. I \in SUBSET Nat
      OBVIOUS
    <3> HIDE DEF I
    <3>2. \E x \in I : \A y \in I : x <= y
      BY <1>3, <3>1, BrokenLoop!NatMin
    <3> QED BY <3>2 DEF Min
  <2> HIDE DEF k
  <2>2. k \in 1 .. Len(trace) /\ Len(trace) \in Nat /\ trace[k] = n
    BY <2>1
  <2>3. up1 = SubSeq(trace, 1, k - 1)
    BY <1>1, <1>3
  <2>4. up1 \in Seq(Nodes) /\ Len(up1) = k - 1 /\ \A i \in 1 .. k - 1 : up1[i] = trace[i]
    BY <2>2, <2>3
  <2>5. DOMAIN up1 = 1 .. k - 1
    BY <2>4
  <2>6. \A i \in 1 .. k - 1 : trace[i] # n
    BY <2>1, <2>2
  <2> QED BY <2>2, <2>4, <2>5, <2>6 DEF Range
<1> QED BY <1>2, <1>3

\* the hop back along the trace
LEMMA BackHop ==
  ASSUME NEW s, NEW n, NEW trace \in Seq(Nodes), BeforeMe(s, n, trace) # {},
         NEW up1, up1 = UpToMe(n, trace), NEW nh, nh = trace[Max(BeforeMe(s, n, trace))]
  PROVE  nh \in Nodes /\ nh # n /\ nh \in Range(up1)
<1> DEFINE back == BeforeMe(s, n, trace)
           k    == Max(back)
<1>1. /\ up1 \in Seq(Nodes) /\ n \notin Range(up1)
      /\ \A i \in DOMAIN up1 : up1[i] = trace[i]
  BY UpToMeIs
<1>2. back \subseteq DOMAIN up1
  BY DEF BeforeMe
<1>3. back \in SUBSET Nat /\ IsFiniteSet(back)
  <2> DEFINE l == Len(up1)
             I == 1 .. l
  <2>1. DOMAIN up1 = I /\ l \in Nat
    BY <1>1
  <2> HIDE DEF back, l
  <2>2. IsFiniteSet(I)
    BY <2>1, FS_Interval
  <2>3. I \subseteq Nat
    BY <2>1
  <2> HIDE DEF I
  <2> QED BY <1>2, <2>1, <2>2, <2>3, FS_Subset
<1>4. k \in back
  <2>1. BrokenLoop!IsFiniteSet(back)
    BY <1>3 DEF IsFiniteSet, BrokenLoop!IsFiniteSet
  <2>2. k = BrokenLoop!Max(back)
    BY DEF Max, BrokenLoop!Max
  <2> HIDE DEF k
  <2>3. back # {}
    OBVIOUS
  <2> HIDE DEF back
  <2> QED BY <1>3, <2>1, <2>2, <2>3, BrokenLoop!MaxOfFinite
<1> HIDE DEF k
<1>5. nh = up1[k] /\ k \in DOMAIN up1
  BY <1>1, <1>2, <1>4 DEF k
<1> QED BY <1>1, <1>5 DEF Range

\* a temporary route when it is added
Fresh(r) == r.unavail = 16 /\ r.isVset = FALSE

LEMMA AddTempLeads ==
  ASSUME NEW n, NEW P \in SUBSET PathIds, NEW s, NodeGood(n, P, s), NEW t \in PathIds, t \notin P,
         NEW r \in Route, RouteOK(n, P, t, r), Fresh(r),
         NEW s1, s1 = WithTable(s, AddRoute(s.tbl, t, r))
  PROVE  /\ Leads(n, P, s, s1) /\ s1.lost = s.lost /\ s1.recent = s.recent /\ s1.vset = s.vset
         /\ s1.nonEss = s.nonEss /\ OnlyAt(s.tbl, s1.tbl, t)
<1> DEFINE t1 == AddRoute(s.tbl, t, r)
<1>1. /\ TableOK(n, P, s.tbl) /\ SetsOK(n, P, s.tbl, s.vset, s.nonEss, s.dismantled)
      /\ LostOK(P, s.tbl, s.lost) /\ r.unavail = 16 /\ r.isVset = FALSE
  BY DEF NodeGood, Fresh
<1>2. /\ TableOK(n, P, t1) /\ OnlyAt(s.tbl, t1, t)
      /\ t1.routes[t] = IF InTable(s.tbl, t) THEN s.tbl.routes[t] ELSE r
  BY <1>1, AddRouteOK
<1>3. s1 = WithTable(s, t1)
  OBVIOUS
<1> HIDE DEF t1
<1>4. SetsOK(n, P, t1, s.vset, s.nonEss, s.dismantled)
  <2>1. ~IsDismantledRoute(16)
    BY DEF IsDismantledRoute, IsDismantled2bit
  <2>2. \A p \in PathIds : p # t => t1.routes[p] = s.tbl.routes[p]
    BY <1>2 DEF OnlyAt
  <2>3. \A p \in PathIds : InTable(s.tbl, p) => InTable(t1, p) /\ t1.routes[p] = s.tbl.routes[p]
    BY <1>2, <2>2 DEF InTable
  <2>4. \A p \in PathIds : InTable(t1, p) => InTable(s.tbl, p) \/ (p = t /\ t1.routes[p] = r)
    BY <1>2, <2>2 DEF InTable
  <2> QED BY <1>1, <2>1, <2>3, <2>4 DEF SetsOK, ServesVnei, OtherEnd
<1>5. LostOK(P, t1, s.lost)
  BY <1>1, <1>2 DEF LostOK, Over, OnlyAt, InTable
<1> QED BY <1>2, <1>3, <1>4, <1>5, PutTable

\* the status of a temporary route when it is added
LEMMA TempStatus == IsTemporaryRoute(16) /\ ~IsDismantledRoute(16)
<1>1. 16 \div 16 = 1 /\ 16 \div 32 = 0
  OBVIOUS
<1>2. 1 % 2 = 1 /\ 0 % 4 = 0
  OBVIOUS
<1> QED BY <1>1, <1>2 DEF IsTemporaryRoute, IsDismantledRoute, IsDismantled2bit

LEMMA EmptyRange == ASSUME NEW x PROVE x \notin Range(<<>>)
BY DEF Range

TempRoute(from, to, prev, next) == NewRoute(from, to, prev, next, FALSE, 16, <<>>)

Fits(n, from, to, prev, next) ==
  from # to /\ (prev = NullVid <=> from = n) /\ (next = NullVid <=> to = n)

\* ... by one of its ends or by a node on its way
LEMMA NewTemp ==
  ASSUME NEW n \in Nodes, NEW P, NEW t, t \notin P, NEW from \in Nodes, NEW to \in Nodes,
         NEW prev \in Hops, NEW next \in Hops, Fits(n, from, to, prev, next),
         NEW r, r = TempRoute(from, to, prev, next)
  PROVE  r \in Route /\ RouteOK(n, P, t, r) /\ Fresh(r)
<1>0. from # to /\ (prev = NullVid <=> from = n) /\ (next = NullVid <=> to = n)
  BY DEF Fits
<1>1. /\ r.from = from /\ r.to = to /\ r.prev = prev /\ r.next = next /\ r.isVset = FALSE
      /\ r.unavail = 16 /\ r.prevhops = <<>>
  BY DEF TempRoute, NewRoute
<1>2. r \in Route
  BY <1>0, Constants DEF TempRoute, NewRoute, Route, Status
<1>3. /\ IsTemporaryRoute(r.unavail) /\ ~IsDismantledRoute(r.unavail)
      /\ \A side \in BOOLEAN : HopState(r, side) = 0
  <2>1. IsTemporaryRoute(r.unavail) /\ ~IsDismantledRoute(r.unavail)
    BY <1>1, TempStatus
  <2>3. ASSUME NEW side \in BOOLEAN PROVE HopState(r, side) = 0
    BY <1>1 DEF HopState, PrevNextIsUnavailable
  <2> QED BY <2>1, <2>3
<1>4. n \notin Range(r.prevhops)
  BY <1>1, EmptyRange
<1> QED BY <1>0, <1>1, <1>2, <1>3, <1>4 DEF RouteOK, Fresh

WithRecent(s, recent) == [s EXCEPT !.recent = recent]

LEMMA PutRecent ==
  ASSUME NEW n, NEW P, NEW s, NodeGood(n, P, s), NEW recent, RecentOK(P, recent),
         NEW s1, s1 = WithRecent(s, recent)
  PROVE  Leads(n, P, s, s1) /\ s1.tbl = s.tbl /\ s1.lost = s.lost
<1>1. NodeFields \subseteq DOMAIN s
  BY DEF NodeGood
<1>2. /\ s1.tbl = s.tbl /\ s1.vset = s.vset /\ s1.nonEss = s.nonEss /\ s1.dismantled = s.dismantled
      /\ s1.lost = s.lost /\ s1.delayed = s.delayed /\ s1.recent = recent /\ s1.heard = s.heard
      /\ s1.seq = s.seq /\ s1.out = s.out /\ NodeFields \subseteq DOMAIN s1
  BY <1>1 DEF WithRecent, NodeFields
<1> QED BY <1>2 DEF NodeGood, Leads

\* of the vroutes ps, T have been moved to src
Moving(n, P, s, src, ps, T, t) ==
  /\ Leads(n, P, s, t)
  /\ \A q \in ps \ T : t.tbl.routes[q] = s.tbl.routes[q]
  /\ \A q \in T : Over(t.tbl, q, src)

MoveLoop == INSTANCE ForEachInduction WITH
  Op  <- LAMBDA n, P, s, src, ps, t, p :
           [EraseBroken(t, p, RouteOf(t, p).next) EXCEPT !.tbl.routes[p].next = src],
  Inv <- LAMBDA n, P, s, src, ps, T, t : Moving(n, P, s, src, ps, T, t)

LEMMA MoveNextHopsLeads ==
  ASSUME NEW n, NEW P \in SUBSET PathIds, NEW s, NodeGood(n, P, s), NEW src \in Vids, NEW ps \in SUBSET P,
         \A p \in ps : InTable(s.tbl, p) /\ RouteOf(s, p).next # NullVid,
         NEW s2, s2 = MoveNextHops(s, src, ps)
  PROVE  Leads(n, P, s, s2) /\ OverAll(s2.tbl, ps, src)
<1> DEFINE Body(t, p) == [EraseBroken(t, p, RouteOf(t, p).next) EXCEPT !.tbl.routes[p].next = src]
<1>1. ps \in SUBSET PathIds
  OBVIOUS
<1>2. ps \in SUBSET Nat /\ IsFiniteSet(ps)
  BY <1>1, Finite
<1>3. Moving(n, P, s, src, ps, {}, s)
  BY LeadsHere DEF Moving
<1>4. ASSUME NEW T \in SUBSET ps, NEW p \in ps \ T, NEW t, Moving(n, P, s, src, ps, T, t)
      PROVE  Moving(n, P, s, src, ps, T \cup {p}, Body(t, p))
  <2> DEFINE nh == RouteOf(t, p).next
             u  == EraseBroken(t, p, nh)
             w  == WithNext(u, p, src)
  <2>1. Body(t, p) = w
    BY DEF WithNext
  <2>2. NodeGood(n, P, t) /\ p \in PathIds /\ InTable(t.tbl, p) /\ nh # NullVid
    BY <1>1, <1>4 DEF Moving, Leads, InTable, RouteOf
  <2>3. u = EraseBroken(t, p, nh)
    OBVIOUS
  <2> HIDE DEF u
  <2>4. /\ Leads(n, P, t, u) /\ u.tbl = t.tbl /\ DOMAIN u.lost = DOMAIN t.lost
        /\ nh \in DOMAIN t.lost => u.lost[nh].broken = t.lost[nh].broken \ {p}
        /\ \A y \in DOMAIN t.lost \ {nh} : u.lost[y] = t.lost[y]
    <3> HIDE DEF nh
    <3> QED BY <2>2, <2>3, EraseBrokenLeads
  <2>5. NodeGood(n, P, u) /\ InTable(u.tbl, p) /\ RouteOf(u, p).next # NullVid
    BY <2>2, <2>4 DEF Leads, RouteOf
  <2>6. ASSUME NEW y \in DOMAIN u.lost, p \in u.lost[y].broken
        PROVE  y \in {RouteOf(u, p).prev, src}
    <3>1. y # nh
      BY <2>4, <2>6
    <3>2. Over(u.tbl, p, y)
      BY <2>5, <2>6, LostFields
    <3> QED BY <2>4, <2>5, <3>1, <3>2 DEF Over, RouteOf
  <2>7. w = WithNext(u, p, src)
    OBVIOUS
  <2> HIDE DEF w, nh
  <2>8. Leads(n, P, u, w) /\ OnlyAt(u.tbl, w.tbl, p) /\ RouteOf(w, p).next = src
    BY <2>2, <2>5, <2>6, <2>7, WithNextLeads
  <2>9. Leads(n, P, s, w)
    <3>1. Leads(n, P, s, u)
      BY <1>4, <2>4, LeadsOn DEF Moving
    <3> QED BY <2>8, <3>1, LeadsOn
  <2>10. \A q \in ps \ (T \cup {p}) : w.tbl.routes[q] = s.tbl.routes[q]
    BY <1>1, <1>4, <2>4, <2>8 DEF Moving, OnlyAt
  <2>11. \A q \in T \cup {p} : Over(w.tbl, q, src)
    BY <1>1, <1>4, <2>4, <2>8 DEF Moving, OnlyAt, Over, InTable, RouteOf
  <2>12. Moving(n, P, s, src, ps, T \cup {p}, w)
    BY <2>9, <2>10, <2>11 DEF Moving
  <2> HIDE DEF Body
  <2> QED BY <2>1, <2>12
<1>5. s2 = MoveLoop!Loop(n, P, s, src, ps, s, ps)
  BY DEF MoveNextHops, ForEach, MoveLoop!Loop, Max, MoveLoop!Max
<1>6. Moving(n, P, s, src, ps, ps, MoveLoop!Loop(n, P, s, src, ps, s, ps))
  <2>1. \A T \in SUBSET ps : \A p \in ps \ T : \A t :
          Moving(n, P, s, src, ps, T, t) => Moving(n, P, s, src, ps, T \cup {p}, Body(t, p))
    BY <1>4
  <2>2. MoveLoop!IsFiniteSet(ps)
    BY <1>2 DEF IsFiniteSet, MoveLoop!IsFiniteSet
  <2> QED BY <1>2, <1>3, <2>1, <2>2, MoveLoop!LoopKeeps
<1> QED BY <1>5, <1>6 DEF Moving, OverAll

\* processRepairLinkReqInfo: a temporary route to src is started along the trace
LEMMA OwnTemp ==
  ASSUME NEW n \in Nodes, NEW P, NEW src \in Nodes, src # n, NEW t, t \notin P, NEW nh \in Nodes,
         NEW r, r = TempRoute(n, src, NullVid, nh)
  PROVE  r \in Route /\ RouteOK(n, P, t, r) /\ Fresh(r)
<1>1. NullVid \in Hops /\ nh \in Hops /\ Fits(n, n, src, NullVid, nh)
  BY Constants DEF Hops, Fits
<1> QED BY <1>1, NewTemp

StartTemp(s, n, src, t, nh, recent) ==
  [s EXCEPT !.tbl = AddRoute(@, t, NewRoute(n, src, NullVid, nh, FALSE, 16, <<>>)),
            !.lost[src].temp = @ \cup {t}, !.recent = recent]

LEMMA StartTempIs ==
  ASSUME NEW n, NEW P, NEW s, NodeGood(n, P, s), NEW src, NEW t, NEW nh, NEW recent,
         NEW r, r = TempRoute(n, src, NullVid, nh), NEW t1, t1 = AddRoute(s.tbl, t, r),
         NEW e, e = [s.lost[src] EXCEPT !.temp = @ \cup {t}]
  PROVE  StartTemp(s, n, src, t, nh, recent) = WithRecent(WithEntry(WithTable(s, t1), src, e), recent)
<1>1. NodeFields \subseteq DOMAIN s
  BY DEF NodeGood
<1>2. StartTemp(s, n, src, t, nh, recent) = [s EXCEPT !.tbl = t1, !.lost[src].temp = @ \cup {t}, !.recent = recent]
  BY DEF StartTemp, TempRoute
<1> QED BY <1>1, <1>2 DEF WithTable, WithEntry, WithRecent, NodeFields

LEMMA StartTempLeads ==
  ASSUME NEW n \in Nodes, NEW P \in SUBSET PathIds, NEW s, NodeGood(n, P, s), NEW src \in Nodes, src # n,
         src \in DOMAIN s.lost, NEW t \in PathIds, t \notin P, NEW nh \in Nodes, NEW recent, RecentOK(P, recent),
         NEW s3, s3 = StartTemp(s, n, src, t, nh, recent)
  PROVE  Leads(n, P, s, s3)
<1> DEFINE r  == TempRoute(n, src, NullVid, nh)
           t1 == AddRoute(s.tbl, t, r)
           a  == WithTable(s, t1)
           e  == [s.lost[src] EXCEPT !.temp = @ \cup {t}]
           b  == WithEntry(a, src, e)
           c  == WithRecent(b, recent)
<1>1. s3 = c
  BY StartTempIs
<1>a. r = TempRoute(n, src, NullVid, nh)
  OBVIOUS
<1> HIDE DEF r
<1>2. r \in Route /\ RouteOK(n, P, t, r) /\ Fresh(r)
  BY <1>a, OwnTemp
<1>3. a = WithTable(s, AddRoute(s.tbl, t, r))
  OBVIOUS
<1> HIDE DEF r, t1, a
<1>4. Leads(n, P, s, a) /\ a.lost = s.lost
  BY <1>2, <1>3, AddTempLeads
<1>5. NodeGood(n, P, a) /\ src \in DOMAIN a.lost
  BY <1>4 DEF Leads
<1>6. e \in LostPneiInfo /\ e.broken = a.lost[src].broken /\ e.temp \cap P = {}
  <2>1. s.lost[src] \in LostPneiInfo /\ s.lost[src].temp \cap P = {}
    BY DEF NodeGood, LostOK
  <2> QED BY <1>4, <2>1 DEF LostPneiInfo
<1> HIDE DEF e
<1>7. Leads(n, P, a, b)
  BY <1>5, <1>6, PutEntry
<1> HIDE DEF b
<1>8. NodeGood(n, P, b)
  BY <1>7 DEF Leads
<1>9. Leads(n, P, b, c)
  BY <1>8, PutRecent
<1> HIDE DEF c
<1> QED BY <1>1, <1>4, <1>7, <1>9, LeadsOn

LEMMA MakeReply ==
  ASSUME NEW n \in Nodes, NEW P \in SUBSET PathIds, NEW t \in PathIds, t \notin P, NEW broken \in SUBSET P,
         NEW up1 \in Seq(Nodes), n \notin Range(up1), NEW m, m \in Range(up1)
  PROVE  ReplyMsg(t, n, broken, up1) \in MessagesTo(P, m)
<1> DEFINE msg == ReplyMsg(t, n, broken, up1)
<1>1. /\ msg.path = t /\ msg.src = n /\ msg.broken = broken /\ msg.trace = up1
      /\ msg \in RepairLinkReplyInt
  BY DEF ReplyMsg, RepairLinkReplyInt
<1> HIDE DEF msg
<1>2. msg \in MessagesTo(P, m)
  BY <1>1 DEF MessagesTo, GoodReply
<1> QED BY <1>2 DEF msg

\* recentTempRouteSent with the old next hops of what has been moved
LEMMA RecentMore ==
  ASSUME NEW P, NEW recent, RecentOK(P, recent), NEW t, NEW old, DOMAIN old \subseteq P,
         \A p \in DOMAIN old : old[p] \in Vids
  PROVE  RecentOK(P, Put(recent, t, old))
<1> DEFINE rec == Put(recent, t, old)
<1>1. DOMAIN rec = {t} \cup DOMAIN recent /\ rec[t] = old /\ \A u \in DOMAIN recent : u # t => rec[u] = recent[u]
  BY DEF Put
<1> HIDE DEF rec
<1>2. RecentOK(P, rec)
  BY <1>1 DEF RecentOK
<1> QED BY <1>2 DEF rec

LEMMA AnswerReqLeads ==
  ASSUME NEW n \in Nodes, NEW P \in SUBSET PathIds, NEW s, NodeGood(n, P, s), NEW src \in Nodes, src # n,
         NEW ps \in SUBSET P, NEW trace \in Seq(Nodes), NEW t \in PathIds, t \notin P,
         NEW s4, s4 = AnswerReq(s, n, src, ps, trace, t)
  PROVE  Leads(n, P, s, s4)
<1> DEFINE mine   == Answered(s, ps)
           moved  == {p \in mine : RouteOf(s, p).next # src}
           old    == [p \in moved |-> RouteOf(s, p).next]
           s0     == MoveNextHops(s, src, moved)
           s1     == AddBroken(s0, src, moved, NoTimer)
           none   == {}
           bare   == AddBroken(s1, src, none, RetryLimit)
           back   == BeforeMe(s, n, trace)
           u      == NoTimerFor(s1, src)
           two    == 2
           s2     == SetBroken(u, src, two)
           up1    == UpToMe(n, trace)
           nh     == trace[Max(back)]
           recent == IF moved = {} THEN s2.recent ELSE Put(s2.recent, t, old)
           s3     == StartTemp(s2, n, src, t, nh, recent)
           reply  == ReplyMsg(t, n, mine, up1)
<1>1. s4 = IF mine = {} THEN s
           ELSE IF back = {} THEN bare
           ELSE IF s2.lost[src].broken = {} THEN DropLost(s2, src)
           ELSE Post(s3, nh, reply)
  BY DEF AnswerReq, StartTemp
<1>2. /\ mine \in SUBSET P /\ moved \in SUBSET P /\ src \in Vids
      /\ \A p \in mine : InTable(s.tbl, p) /\ RouteOf(s, p).next \in Vids
  <2>1. TableOK(n, P, s.tbl)
    BY DEF NodeGood
  <2>2. \A p \in mine : p \in P /\ InTable(s.tbl, p) /\ HopState(RouteOf(s, p), TRUE) = 1
    BY DEF Answered
  <2> HIDE DEF mine
  <2>3. ASSUME NEW p \in mine PROVE RouteOf(s, p).next \in Vids
    <3>1. /\ p \in PathIds /\ RouteOK(n, P, p, s.tbl.routes[p]) /\ s.tbl.routes[p].next \in Hops
      BY <2>1, <2>2, RouteIn
    <3>2. HopTo(s.tbl.routes[p], TRUE) # NullVid
      <4> DEFINE toNext == TRUE
                 r == s.tbl.routes[p]
      <4>1. toNext \in BOOLEAN /\ HopState(r, toNext) = 1
        BY <2>2 DEF RouteOf
      <4> HIDE DEF toNext, r
      <4>2. HopTo(r, toNext) # NullVid
        BY <3>1, <4>1 DEF RouteOK, r
      <4> QED BY <4>2 DEF toNext, r
    <3> QED BY <3>1, <3>2 DEF HopTo, Hops, RouteOf
  <2> QED BY <2>2, <2>3, Constants
<1>3. DOMAIN old \subseteq P /\ \A p \in DOMAIN old : old[p] \in Vids
  BY <1>2
<1>4. \A p \in moved : InTable(s.tbl, p) /\ RouteOf(s, p).next # NullVid
  BY <1>2, Constants
<1> HIDE DEF old, moved, mine
<1>5. Leads(n, P, s, s0) /\ OverAll(s0.tbl, moved, src)
  BY <1>2, <1>4, MoveNextHopsLeads
<1> HIDE DEF s0
<1>6. NodeGood(n, P, s0) /\ NoTimer \in WaitRepairLinkIntTimer \cup {NoTimer}
  BY <1>5 DEF Leads
<1>7. Leads(n, P, s0, s1) /\ Added(s0, s1, src, moved)
  BY <1>2, <1>5, <1>6, AddBrokenLeads
<1> HIDE DEF s1
<1>8. NodeGood(n, P, s1) /\ src \in DOMAIN s1.lost
  BY <1>7 DEF Leads, Added
<1>9. Leads(n, P, s, s1)
  BY <1>5, <1>7, LeadsOn
<1>10. Leads(n, P, s, bare)
  <2>1. RetryLimit \in WaitRepairLinkIntTimer \cup {NoTimer} /\ none \in SUBSET P /\ OverAll(s1.tbl, none, src)
    BY Constants DEF WaitRepairLinkIntTimer, OverAll
  <2> HIDE DEF none
  <2>2. Leads(n, P, s1, bare)
    BY <1>2, <1>8, <2>1, AddBrokenLeads
  <2> HIDE DEF bare
  <2> QED BY <1>9, <2>2, LeadsOn
<1>11. Leads(n, P, s1, u) /\ DOMAIN u.lost = DOMAIN s1.lost
  BY <1>8, NoTimerForLeads
<1> HIDE DEF u
<1>12. NodeGood(n, P, u) /\ src \in DOMAIN u.lost /\ two \in {1, 2}
  BY <1>8, <1>11 DEF Leads
<1>13. Marking(n, P, u, src, s2)
  <2> HIDE DEF two
  <2> QED BY <1>12, SetBrokenLeads
<1> HIDE DEF s2
<1>14. Leads(n, P, u, s2) /\ DOMAIN s2.lost = DOMAIN u.lost
  BY <1>13 DEF Marking
<1>15. Leads(n, P, s, s2)
  BY <1>9, <1>11, <1>14, LeadsOn
<1>16. NodeGood(n, P, s2) /\ src \in DOMAIN s2.lost /\ RecentOK(P, s2.recent)
  BY <1>12, <1>14 DEF Leads, NodeGood
<1>17. Leads(n, P, s, DropLost(s2, src))
  <2>1. Leads(n, P, s2, DropLost(s2, src))
    BY <1>16, DropLostLeads
  <2> QED BY <1>15, <2>1, LeadsOn
<1>18. RecentOK(P, recent)
  BY <1>3, <1>16, RecentMore
<1> HIDE DEF recent
<1>19. back # {} => Leads(n, P, s, Post(s3, nh, reply))
  <2> SUFFICES ASSUME back # {} PROVE Leads(n, P, s, Post(s3, nh, reply))
    OBVIOUS
  <2>1. nh \in Nodes /\ nh \in Range(up1)
    BY BackHop
  <2>2. up1 \in Seq(Nodes) /\ n \notin Range(up1)
    BY UpToMeIs
  <2> HIDE DEF nh, up1, back
  <2>3. Leads(n, P, s2, s3)
    BY <1>16, <1>18, <2>1, StartTempLeads
  <2> HIDE DEF s3
  <2>4. reply \in MessagesTo(P, nh)
    BY <1>2, <2>1, <2>2, MakeReply
  <2> HIDE DEF reply
  <2>5. NodeGood(n, P, s3)
    BY <2>3 DEF Leads
  <2>6. Leads(n, P, s3, Post(s3, nh, reply))
    BY <2>4, <2>5, PostLeads
  <2> QED BY <1>15, <2>3, <2>6, LeadsOn
<1>20. Leads(n, P, s, s)
  BY LeadsHere
<1> HIDE DEF bare, back, s3, reply, nh
<1> QED BY <1>1, <1>10, <1>17, <1>19, <1>20

\* ... and a handler that also postpones requests
Turns(n, P, s, s1) == NodeGood(n, P, s1) /\ s1.heard = s.heard

LEMMA LeadsTurns ==
  ASSUME NEW n, NEW P, NEW s, NEW s1, NEW s2, Leads(n, P, s, s1)
  PROVE  Turns(n, P, s, s1) /\ (Turns(n, P, s1, s2) => Turns(n, P, s, s2))
BY DEF Leads, Turns

WithDelayed(s, delayed) == [s EXCEPT !.delayed = delayed]

LEMMA PutDelayed ==
  ASSUME NEW n, NEW P, NEW s, NodeGood(n, P, s), NEW delayed, DelayedOK(n, P, delayed),
         NEW s1, s1 = WithDelayed(s, delayed)
  PROVE  Turns(n, P, s, s1) /\ s1.delayed = delayed
<1>1. NodeFields \subseteq DOMAIN s
  BY DEF NodeGood
<1>2. /\ s1.tbl = s.tbl /\ s1.vset = s.vset /\ s1.nonEss = s.nonEss /\ s1.dismantled = s.dismantled
      /\ s1.lost = s.lost /\ s1.delayed = delayed /\ s1.recent = s.recent /\ s1.heard = s.heard
      /\ s1.seq = s.seq /\ s1.out = s.out /\ NodeFields \subseteq DOMAIN s1
  BY <1>1 DEF WithDelayed, NodeFields
<1> QED BY <1>2 DEF NodeGood, Turns

\* processDelayedRepairLinkReq for one request
LEMMA RetryReqTurns ==
  ASSUME NEW n \in Nodes, NEW P \in SUBSET PathIds, NEW s, NodeGood(n, P, s), NEW src \in DOMAIN s.delayed,
         NEW t \in PathIds, t \notin P, NEW s2, s2 = RetryReq(s, n, src, t)
  PROVE  Turns(n, P, s, s2) /\ DOMAIN s.delayed \ {src} \subseteq DOMAIN s2.delayed
<1> DEFINE d     == s.delayed
           ps    == d[src].broken
           trace == d[src].trace
           s1    == AnswerReq(s, n, src, ps, trace, t)
           left  == Postponed(s, ps)
           d1    == IF left = {} THEN Restrict(d, DOMAIN d \ {src}) ELSE [d EXCEPT ![src].broken = left]
<1>1. DelayedOK(n, P, d)
  BY DEF NodeGood
<1>2. /\ src \in Nodes /\ src # n /\ ps \in SUBSET P /\ trace \in Seq(Nodes)
      /\ d[src] \in RepairLinkReqInfo
  BY <1>1 DEF DelayedOK, RepairLinkReqInfo
<1>3. left \subseteq ps
  BY DEF Postponed
<1>4. DelayedOK(n, P, d1) /\ DOMAIN d \ {src} \subseteq DOMAIN d1
  <2> HIDE DEF left, d, ps, trace
  <2>1. CASE left = {}
    BY <1>1, <2>1 DEF DelayedOK, Restrict
  <2>2. CASE left # {}
    <3> DEFINE e == [d[src] EXCEPT !.broken = left]
    <3>1. e \in RepairLinkReqInfo /\ e.broken \subseteq P
      BY <1>2, <1>3 DEF RepairLinkReqInfo, ps
    <3>2. d1 = [d EXCEPT ![src] = e]
      BY <2>2
    <3> HIDE DEF e, d1
    <3>3. src \in DOMAIN d
      BY DEF d
    <3> QED BY <1>1, <3>1, <3>2, <3>3 DEF DelayedOK
  <2> QED BY <2>1, <2>2
<1>5. Leads(n, P, s, s1)
  <2> HIDE DEF ps, trace
  <2> QED BY <1>2, AnswerReqLeads
<1>6. s2 = WithDelayed(s1, d1)
  <2>1. s1.delayed = d
    BY <1>5 DEF Leads
  <2>2. s2 = [s1 EXCEPT !.delayed = IF left = {} THEN Restrict(@, DOMAIN @ \ {src})
                                    ELSE [@ EXCEPT ![src].broken = left]]
    BY DEF RetryReq
  <2> HIDE DEF s1, left, d
  <2> QED BY <2>1, <2>2 DEF WithDelayed
<1> HIDE DEF s1, d1
<1>7. NodeGood(n, P, s1)
  BY <1>5 DEF Leads
<1>8. Turns(n, P, s1, s2) /\ s2.delayed = d1
  BY <1>4, <1>6, <1>7, PutDelayed
<1> QED BY <1>4, <1>5, <1>8, LeadsTurns

\* the requests live that are still to come, all but T, are kept
Retrying(n, P, s, live, T, u) == Turns(n, P, s, u) /\ live \ T \subseteq DOMAIN u.delayed

RetryLoop == INSTANCE ForEachInduction WITH
  Op  <- LAMBDA n, P, s, live, draw, u, src : RetryReq(u, n, src, draw[src]),
  Inv <- LAMBDA n, P, s, live, draw, T, u : Retrying(n, P, s, live, T, u)

RetryThese(s, n, live, draw) == ForEach(LAMBDA u, src : RetryReq(u, n, src, draw[src]), s, live)

LEMMA RetryAll ==
  ASSUME NEW n \in Nodes, NEW P \in SUBSET PathIds, NEW s, NodeGood(n, P, s),
         NEW live \in SUBSET DOMAIN s.delayed, NEW draw, \A src \in live : draw[src] \in PathIds /\ draw[src] \notin P,
         NEW s1, s1 = RetryThese(s, n, live, draw)
  PROVE  Turns(n, P, s, s1)
<1> DEFINE Body(u, src) == RetryReq(u, n, src, draw[src])
<1>1. live \in SUBSET Vids
  BY Constants DEF NodeGood, DelayedOK
<1>2. live \in SUBSET Nat /\ IsFiniteSet(live)
  BY <1>1, Finite
<1>3. Retrying(n, P, s, live, {}, s)
  BY DEF Retrying, Turns
<1>4. ASSUME NEW T \in SUBSET live, NEW src \in live \ T, NEW u, Retrying(n, P, s, live, T, u)
      PROVE  Retrying(n, P, s, live, T \cup {src}, Body(u, src))
  <2> DEFINE t == draw[src]
  <2>1. NodeGood(n, P, u) /\ src \in DOMAIN u.delayed /\ t \in PathIds /\ t \notin P
    BY <1>4 DEF Retrying, Turns
  <2>2. Body(u, src) = RetryReq(u, n, src, t)
    OBVIOUS
  <2> HIDE DEF t, Body
  <2>3. Turns(n, P, u, Body(u, src)) /\ DOMAIN u.delayed \ {src} \subseteq DOMAIN Body(u, src).delayed
    BY <2>1, <2>2, RetryReqTurns
  <2> QED BY <1>4, <2>3 DEF Retrying, Turns
<1>5. s1 = RetryLoop!Loop(n, P, s, live, draw, s, live)
  BY DEF RetryThese, ForEach, RetryLoop!Loop, Max, RetryLoop!Max
<1>6. Retrying(n, P, s, live, live, RetryLoop!Loop(n, P, s, live, draw, s, live))
  <2>1. \A T \in SUBSET live : \A src \in live \ T : \A u :
          Retrying(n, P, s, live, T, u) => Retrying(n, P, s, live, T \cup {src}, Body(u, src))
    BY <1>4
  <2>2. RetryLoop!IsFiniteSet(live)
    BY <1>2 DEF IsFiniteSet, RetryLoop!IsFiniteSet
  <2> QED BY <1>2, <1>3, <2>1, <2>2, RetryLoop!LoopKeeps
<1> QED BY <1>5, <1>6 DEF Retrying

\* processRepairLinkReqFlood at a node the flood asks
LEMMA HearReqTurns ==
  ASSUME NEW n \in Nodes, NEW P \in SUBSET PathIds, NEW s, NodeGood(n, P, s), NEW f, FloodOK(P, f),
         f.trace[1] # n, NEW t \in PathIds, n \in DOMAIN f.dst => t \notin P,
         NEW s2, s2 = HearReq(s, n, f, t)
  PROVE  Turns(n, P, s, s2)
<1> DEFINE src   == f.trace[1]
           trace == f.trace
           d     == s.delayed
           ps    == f.dst[n] \ (IF src \in DOMAIN s.delayed THEN s.delayed[src].broken ELSE {})
           s1    == AnswerReq(s, n, src, ps, trace, t)
           left  == Postponed(s, ps)
           old   == IF src \in DOMAIN d THEN d[src] ELSE [broken |-> {}, trace |-> trace]
           e     == [old EXCEPT !.broken = @ \cup left]
           d1    == Put(d, src, e)
<1>1. trace \in Seq(Nodes) /\ src \in Nodes /\ DelayedOK(n, P, d)
  BY DEF FloodOK, NodeGood
<1>2. s2 = IF n \notin DOMAIN f.dst THEN s
           ELSE IF left = {} THEN s1
           ELSE [s1 EXCEPT !.delayed = Put(@, src, e)] 
  <2>1. n \notin DOMAIN f.dst \/ left = {} => s2 = IF n \notin DOMAIN f.dst THEN s ELSE s1
    BY DEF HearReq
  <2>2. ASSUME n \in DOMAIN f.dst, left # {}
        PROVE  s2 = [s1 EXCEPT !.delayed = Put(@, src, e)]
    BY <2>2 DEF HearReq
  <2> HIDE DEF src, left, s1, e
  <2> QED BY <2>1, <2>2
<1>3. CASE n \notin DOMAIN f.dst
  <2>1. s2 = s
    BY <1>2, <1>3
  <2> QED BY <2>1 DEF Turns
<1>4. CASE n \in DOMAIN f.dst
  <2>1. ps \in SUBSET P
    BY <1>4 DEF FloodOK
  <2>2. left \subseteq ps
    BY DEF Postponed
  <2> HIDE DEF ps
  <2>3. Leads(n, P, s, s1)
    <3>1. src # n
      OBVIOUS
    <3> HIDE DEF src, trace
    <3> QED BY <1>1, <1>4, <2>1, <3>1, AnswerReqLeads
  <2> HIDE DEF s1, left
  <2>4. NodeGood(n, P, s1) /\ s1.delayed = d
    BY <2>3 DEF Leads
  <2>5. DelayedOK(n, P, d1)
    <3>1. src # n
      OBVIOUS
    <3> HIDE DEF src, trace, d
    <3>2. old \in RepairLinkReqInfo /\ old.broken \subseteq P
      BY <1>1, <2>1 DEF DelayedOK, RepairLinkReqInfo
    <3> HIDE DEF old
    <3>3. e \in RepairLinkReqInfo /\ e.broken \subseteq P
      BY <2>1, <2>2, <3>2 DEF RepairLinkReqInfo
    <3> HIDE DEF e
    <3>4. DOMAIN d1 = DOMAIN d \cup {src} /\ \A x \in DOMAIN d1 : d1[x] = IF x = src THEN e ELSE d[x]
      BY DEF Put
    <3> HIDE DEF d1
    <3> QED BY <1>1, <3>1, <3>3, <3>4 DEF DelayedOK
  <2>6. CASE left = {}
    <3>1. s2 = s1
      BY <1>2, <1>4, <2>6
    <3> QED BY <2>3, <3>1, LeadsTurns
  <2>7. CASE left # {}
    <3> HIDE DEF e, src, d
    <3>1. s2 = WithDelayed(s1, d1)
      BY <1>2, <1>4, <2>4, <2>7 DEF WithDelayed
    <3> HIDE DEF d1
    <3>2. Turns(n, P, s1, s2)
      BY <2>4, <2>5, <3>1, PutDelayed
    <3> QED BY <2>3, <3>2, LeadsTurns
  <2> QED BY <2>6, <2>7
<1> QED BY <1>3, <1>4

-----------------------------------------------------------------------------
(* RepairLinkFail                                                          *)

LEMMA FailOnWay ==
  ASSUME NEW P, NEW msg \in RepairLinkFailInt, msg.broken \subseteq P, NEW x, NEW c \in {NoPath, RepPath}
  PROVE  msg \in MessagesTo(P, x) /\ [msg EXCEPT !.curr = c] \in MessagesTo(P, x)
<1> DEFINE m1 == [msg EXCEPT !.curr = c]
<1>1. m1 \in RepairLinkFailInt /\ m1.broken = msg.broken
  BY DEF RepairLinkFailInt, SomePath
<1> HIDE DEF m1
<1>2. m1 \in MessagesTo(P, x)
  BY <1>1 DEF MessagesTo
<1>3. msg \in MessagesTo(P, x)
  BY DEF MessagesTo
<1> QED BY <1>2, <1>3 DEF m1

LEMMA SendFailLeads ==
  ASSUME NEW n, NEW P, NEW s, NodeGood(n, P, s), NEW msg \in RepairLinkFailInt, msg.broken \subseteq P,
         NEW s1, s1 = SendFail(s, msg)
  PROVE  Leads(n, P, s, s1)
<1> DEFINE m1 == [msg EXCEPT !.curr = NoPath]
           m2 == [msg EXCEPT !.curr = RepPath]
           x  == msg.dst
           y  == HopToward(RouteOf(s, msg.curr), x)
           z  == s.parent
<1>1. s1 = IF x \in s.linked THEN Post(s, x, m1)
           ELSE IF x = Rep /\ RepKnown(s, NullVid) THEN Post(s, z, m2) ELSE Post(s, y, msg)
  BY DEF SendFail
<1>2. m1 \in MessagesTo(P, x) /\ msg \in MessagesTo(P, y) /\ m2 \in MessagesTo(P, z)
  BY FailOnWay
<1> HIDE DEF m1, m2, x, y, z
<1>3. Leads(n, P, s, Post(s, x, m1)) /\ Leads(n, P, s, Post(s, z, m2)) /\ Leads(n, P, s, Post(s, y, msg))
  BY <1>2, PostLeads
<1> QED BY <1>1, <1>3

UnpatchLoop == INSTANCE ForEachInduction WITH
  Op  <- LAMBDA n, P, s, x, old, t, p :
           Orphan(EraseBroken(t, p, x), p, IF p \in DOMAIN old THEN old[p] ELSE x),
  Inv <- LAMBDA n, P, s, x, old, T, t : Worked(n, P, s, T, t)

LEMMA UnpatchFailedLeads ==
  ASSUME NEW n, NEW P \in SUBSET PathIds, NEW s, NodeGood(n, P, s), NEW msg \in RepairLinkFailInt,
         msg.broken \subseteq P, NEW s2, s2 = UnpatchFailed(s, msg)
  PROVE  Leads(n, P, s, s2)
<1> DEFINE x   == msg.src
           q0  == msg.path
           old == IF q0 \in DOMAIN s.recent THEN s.recent[q0] ELSE <<>>
           ps  == {p \in msg.broken : PatchedTo(s, p, x)}
           Body(t, p) == Orphan(EraseBroken(t, p, x), p, IF p \in DOMAIN old THEN old[p] ELSE x)
           s1  == ForEach(LAMBDA t, p : Orphan(EraseBroken(t, p, x), p, IF p \in DOMAIN old THEN old[p] ELSE x),
                          s, ps)
           rec == IF q0 \in DOMAIN s1.recent
                  THEN Put(s1.recent, q0, Restrict(old, DOMAIN old \ ps)) ELSE s1.recent
<1>1. s2 = IF x \notin DOMAIN s.lost THEN s ELSE WithRecent(s1, rec)
  <2>1. s2 = IF x \notin DOMAIN s.lost THEN s
             ELSE [s1 EXCEPT !.recent = IF q0 \in DOMAIN @
                                        THEN Put(@, q0, Restrict(old, DOMAIN old \ ps)) ELSE @]
    BY DEF UnpatchFailed
  <2> HIDE DEF s1, x, q0, ps, old
  <2> QED BY <2>1 DEF WithRecent
<1>2. x \in Vids /\ x # NullVid /\ ps \in SUBSET P /\ ps \in SUBSET PathIds
  BY Constants DEF RepairLinkFailInt
<1>3. \A p \in ps : InTable(s.tbl, p) /\ RouteOf(s, p).next = x
  BY DEF PatchedTo
<1>4. DOMAIN old \subseteq P /\ \A p \in DOMAIN old : old[p] \in Vids
  <2>1. RecentOK(P, s.recent)
    BY DEF NodeGood
  <2>2. DOMAIN <<>> = {}
    OBVIOUS
  <2> HIDE DEF q0
  <2> QED BY <2>1, <2>2 DEF RecentOK
<1> HIDE DEF ps, x, old
<1>5. ps \in SUBSET Nat /\ IsFiniteSet(ps)
  BY <1>2, Finite
<1>6. Worked(n, P, s, {}, s)
  BY LeadsHere DEF Worked
<1>7. ASSUME NEW T \in SUBSET ps, NEW p \in ps \ T, NEW t, Worked(n, P, s, T, t)
      PROVE  Worked(n, P, s, T \cup {p}, Body(t, p))
  <2> DEFINE u == EraseBroken(t, p, x)
             v == IF p \in DOMAIN old THEN old[p] ELSE x
             o == Orphan(u, p, v)
  <2>1. Body(t, p) = o
    OBVIOUS
  <2>2. NodeGood(n, P, t) /\ p \in P /\ p \in PathIds /\ InTable(t.tbl, p) /\ RouteOf(t, p).next = x
    BY <1>2, <1>3, <1>7 DEF Worked, Leads, InTable, RouteOf
  <2>3. v \in Vids
    BY <1>2, <1>4
  <2>4. /\ Leads(n, P, t, u) /\ u.tbl = t.tbl
        /\ x \in DOMAIN u.lost => p \notin u.lost[x].broken
    BY <2>2, EraseBrokenLeads
  <2> HIDE DEF u, v
  <2>5. NodeGood(n, P, u) /\ InTable(u.tbl, p) /\ RouteOf(u, p).next = x /\ RouteOf(u, p).next # NullVid
    BY <1>2, <2>2, <2>4 DEF Leads, RouteOf
  <2>6. ListedBack(u, p)
    <3> SUFFICES ASSUME NEW y \in DOMAIN u.lost, p \in u.lost[y].broken
                 PROVE  y = RouteOf(u, p).prev
      BY DEF ListedBack
    <3>1. y # x
      BY <2>4
    <3>2. Over(u.tbl, p, y)
      BY <2>5, LostFields
    <3> QED BY <2>5, <3>1, <3>2 DEF Over, RouteOf
  <2>7. o = Orphan(u, p, v)
    OBVIOUS
  <2> HIDE DEF o
  <2>8. Leads(n, P, u, o) /\ OnlyAt(u.tbl, o.tbl, p)
    BY <2>2, <2>3, <2>5, <2>6, <2>7, OrphanLeads
  <2>9. Leads(n, P, s, o)
    <3>1. Leads(n, P, s, u)
      BY <1>7, <2>4, LeadsOn DEF Worked
    <3> QED BY <2>8, <3>1, LeadsOn
  <2>10. \A q \in P \ (T \cup {p}) : o.tbl.routes[q] = s.tbl.routes[q]
    BY <1>7, <2>4, <2>8 DEF Worked, OnlyAt
  <2>11. Worked(n, P, s, T \cup {p}, o)
    BY <2>9, <2>10 DEF Worked
  <2> HIDE DEF Body
  <2> QED BY <2>1, <2>11
<1>8. s1 = UnpatchLoop!Loop(n, P, s, x, old, s, ps)
  BY DEF ForEach, UnpatchLoop!Loop, Max, UnpatchLoop!Max
<1>9. Worked(n, P, s, ps, UnpatchLoop!Loop(n, P, s, x, old, s, ps))
  <2>1. \A T \in SUBSET ps : \A p \in ps \ T : \A t :
          Worked(n, P, s, T, t) => Worked(n, P, s, T \cup {p}, Body(t, p))
    BY <1>7
  <2>2. UnpatchLoop!IsFiniteSet(ps)
    BY <1>5 DEF IsFiniteSet, UnpatchLoop!IsFiniteSet
  <2> QED BY <1>5, <1>6, <2>1, <2>2, UnpatchLoop!LoopKeeps
<1> HIDE DEF s1
<1>10. Leads(n, P, s, s1)
  BY <1>8, <1>9 DEF Worked
<1>11. NodeGood(n, P, s1) /\ RecentOK(P, s1.recent)
  BY <1>10 DEF Leads, NodeGood
<1>12. RecentOK(P, rec)
  <2> DEFINE o == Restrict(old, DOMAIN old \ ps)
  <2>1. DOMAIN o \subseteq P /\ \A p \in DOMAIN o : o[p] \in Vids
    BY <1>4 DEF Restrict
  <2>2. rec = IF q0 \in DOMAIN s1.recent THEN Put(s1.recent, q0, o) ELSE s1.recent
    OBVIOUS
  <2> HIDE DEF o, rec, q0
  <2>3. RecentOK(P, Put(s1.recent, q0, o))
    BY <1>11, <2>1, RecentMore
  <2> QED BY <1>11, <2>2, <2>3
<1> HIDE DEF rec
<1>13. Leads(n, P, s1, WithRecent(s1, rec))
  BY <1>11, <1>12, PutRecent
<1>14. Leads(n, P, s, WithRecent(s1, rec))
  BY <1>10, <1>13, LeadsOn
<1> QED BY <1>1, <1>14, LeadsHere
-----------------------------------------------------------------------------
(* RepairLinkReply at the other end of the temporary route                 *)

LEMMA WithSourceOK ==
  ASSUME NEW n, NEW P, NEW p, NEW r \in Route, RouteOK(n, P, p, r), NEW src \in Nodes, src # n,
         NEW hops, hops = WithSource(r, src)
  PROVE  hops \in Seq(Vids) /\ n \notin Range(hops) /\ (r.prev = NullVid => hops = <<>>)
<1>1. /\ r.prevhops \in Seq(Vids) /\ n \notin Range(r.prevhops) /\ (r.prev = NullVid => r.prevhops = <<>>)
      /\ (r.prev = NullVid => r.from = n)
  BY DEF Route, RouteOK
<1> DEFINE old  == r.prevhops
           more == Append(old, src)
<1>2. hops = old \/ (hops = more /\ r.prev # NullVid)
  BY <1>1 DEF WithSource
<1>3. more \in Seq(Vids) /\ n \notin Range(more)
  <2> HIDE DEF more, old
  <2>1. old \in Seq(Vids) /\ src \in Vids
    BY <1>1, Constants DEF old
  <2>2. /\ more \in Seq(Vids) /\ Len(more) = Len(old) + 1
        /\ \A i \in 1 .. Len(old) : more[i] = old[i]
        /\ more[Len(old) + 1] = src
    BY <2>1, AppendProperties DEF more
  <2>3. \A i \in 1 .. Len(old) : old[i] # n
    BY <1>1, <2>1 DEF Range, old
  <2> HIDE DEF more
  <2>4. DOMAIN more = 1 .. Len(old) + 1 /\ Len(old) \in Nat
    BY <2>1, <2>2
  <2>5. ASSUME NEW i \in DOMAIN more PROVE more[i] # n
    <3>1. i \in 1 .. Len(old) \/ i = Len(old) + 1
      BY <2>4
    <3>2. CASE i \in 1 .. Len(old)
      BY <2>2, <2>3, <3>2
    <3>3. CASE i = Len(old) + 1
      BY <2>2, <3>3
    <3> QED BY <3>1, <3>2, <3>3
  <2> QED BY <2>2, <2>5 DEF Range
<1> HIDE DEF more
<1> QED BY <1>1, <1>2, <1>3

LEMMA IndexOfIs ==
  ASSUME NEW hops \in Seq(Vids), NEW v
  PROVE  IndexOf(hops, v) \in Nat \ {0} /\ (hops = <<>> => IndexOf(hops, v) = 1)
<1> DEFINE at == {i \in DOMAIN hops : hops[i] = v}
<1>1. IndexOf(hops, v) = IF at = {} THEN 1 ELSE Max(at)
  BY DEF IndexOf
<1>2. hops = <<>> => at = {}
  <2>1. DOMAIN <<>> = {}
    OBVIOUS
  <2> QED BY <2>1
<1>3. DOMAIN hops = 1 .. Len(hops) /\ Len(hops) \in Nat
  OBVIOUS
<1>4. at # {} => Max(at) \in at
  <2> DEFINE I == 1 .. Len(hops)
  <2>1. IsFiniteSet(I) /\ I \subseteq Nat /\ at \subseteq I
    BY <1>3, FS_Interval
  <2> HIDE DEF I, at
  <2>2. IsFiniteSet(at) /\ at \in SUBSET Nat
    BY <2>1, FS_Subset
  <2>3. BrokenLoop!IsFiniteSet(at)
    BY <2>2 DEF IsFiniteSet, BrokenLoop!IsFiniteSet
  <2>4. Max(at) = BrokenLoop!Max(at)
    BY DEF Max, BrokenLoop!Max
  <2> QED BY <2>2, <2>3, <2>4, BrokenLoop!MaxOfFinite
<1> DEFINE k == Max(at)
<1>5. at \subseteq Nat \ {0}
  BY <1>3
<1>6. IndexOf(hops, v) = IF at = {} THEN 1 ELSE k
  BY <1>1
<1>7. at # {} => k \in at
  BY <1>4
<1>8. at = {} => IndexOf(hops, v) \in Nat \ {0} /\ IndexOf(hops, v) = 1
  <2>1. at = {} => IndexOf(hops, v) = 1
    BY <1>6
  <2> QED BY <2>1
<1>9. at # {} => IndexOf(hops, v) \in Nat \ {0}
  <2> HIDE DEF k, at
  <2>1. at # {} => IndexOf(hops, v) = k
    BY <1>6
  <2> QED BY <1>5, <1>7, <2>1
<1> HIDE DEF at
<1> QED BY <1>2, <1>8, <1>9

LEMMA SuffixOK ==
  ASSUME NEW n, NEW hops \in Seq(Vids), n \notin Range(hops), NEW k \in Nat \ {0}
  PROVE  SubSeq(hops, k, Len(hops)) \in Seq(Vids) /\ n \notin Range(SubSeq(hops, k, Len(hops)))
<1> DEFINE l   == Len(hops)
           suf == SubSeq(hops, k, l)
<1>1. l \in Nat /\ DOMAIN hops = 1 .. l
  OBVIOUS
<1>2. \A i \in k .. l : hops[i] \in Vids /\ hops[i] # n
  BY <1>1 DEF Range
<1>3. \A i \in k .. l : hops[i] \in Vids \ {n}
  BY <1>2
<1>4. suf \in Seq(Vids \ {n})
  <2> DEFINE S == Vids \ {n}
  <2> HIDE DEF S, l, suf
  <2>1. \A i \in k .. l : hops[i] \in S
    BY <1>3 DEF S
  <2>2. SubSeq(hops, k, l) \in Seq(S)
    BY <1>1, <2>1, SubSeqProperties
  <2> QED BY <2>2 DEF S, suf
<1> HIDE DEF suf
<1>5. suf \in Seq(Vids)
  BY <1>4
<1>6. n \notin Range(suf)
  <2>1. \A i \in DOMAIN suf : suf[i] \in Vids \ {n}
    BY <1>4
  <2> QED BY <2>1 DEF Range
<1> QED BY <1>5, <1>6 DEF suf

\* the entry of a vroute whose previous hop is moved back to src
MovedTo(r, src) ==
  LET hops == WithSource(r, src)
      r1   == IF HopState(r, FALSE) = 0 THEN SetHop(r, TRUE, 2) ELSE r
  IN  [r1 EXCEPT !.prev = src, !.prevhops = SubSeq(hops, IndexOf(hops, src), Len(hops))]

LEMMA MovesBackHop ==
  ASSUME NEW n, NEW P, NEW p, NEW r \in Route, RouteOK(n, P, p, r), NEW src \in Nodes, src # n, MovesBack(r, src)
  PROVE  r.prev # NullVid
<1> SUFFICES ASSUME r.prev = NullVid PROVE FALSE
  OBVIOUS
<1> DEFINE hops == WithSource(r, src)
           i == IndexOf(hops, src)
           j == IndexOf(hops, r.prev)
<1>1. hops \in Seq(Vids) /\ hops = <<>>
  BY WithSourceOK
<1>2. i > j
  BY DEF MovesBack
<1>3. i = 1
  <2> HIDE DEF hops
  <2> QED BY <1>1, IndexOfIs
<1>4. j = 1
  <2> DEFINE v == r.prev
  <2>1. j = IndexOf(hops, v)
    OBVIOUS
  <2> HIDE DEF hops, v, j
  <2> QED BY <1>1, <2>1, IndexOfIs
<1> QED BY <1>2, <1>3, <1>4

\* the same route, but for its previous hop and prevhopVids
BackAt(n, P, p, r, src, r2) ==
  /\ r2 \in Route /\ RouteOK(n, P, p, r2)
  /\ r2.from = r.from /\ r2.to = r.to /\ r2.isVset = r.isVset
  /\ IsDismantledRoute(r2.unavail) = IsDismantledRoute(r.unavail)
  /\ \A toNext \in BOOLEAN : HopState(r2, toNext) \in {0, 2} <=> HopState(r, toNext) \in {0, 2}
  /\ r2.prev = src /\ r2.next = r.next

LEMMA MovedRoute ==
  ASSUME NEW n, NEW P, NEW p \in PathIds, NEW r \in Route, RouteOK(n, P, p, r), NEW src \in Nodes, src # n,
         MovesBack(r, src), NEW r2, r2 = MovedTo(r, src)
  PROVE  BackAt(n, P, p, r, src, r2)
<1> DEFINE hops == WithSource(r, src)
           k    == IndexOf(hops, src)
           suf  == SubSeq(hops, k, Len(hops))
           no   == FALSE
           two  == 2
           set  == SetHop(r, ~no, two)
           r1   == IF HopState(r, no) = 0 THEN set ELSE r
<1>1. r2 = [r1 EXCEPT !.prev = src, !.prevhops = suf]
  <2>1. SetHop(r, TRUE, 2) = set
    OBVIOUS
  <2> QED BY <2>1 DEF MovedTo
<1>2. r.prev # NullVid
  BY MovesBackHop
<1>3. hops \in Seq(Vids) /\ n \notin Range(hops)
  BY WithSourceOK
<1>4. suf \in Seq(Vids) /\ n \notin Range(suf)
  <2> HIDE DEF hops
  <2>1. k \in Nat \ {0}
    BY <1>3, IndexOfIs
  <2> HIDE DEF k
  <2> QED BY <1>3, <2>1, SuffixOK
<1>5. no \in BOOLEAN /\ two \in 0 .. 3 /\ (HopTo(r, no) = NullVid => two = 0) /\ ~(HopTo(r, no) = NullVid)
  BY <1>2 DEF HopTo
<1> HIDE DEF suf, hops
<1>6. /\ set \in Route /\ RouteOK(n, P, p, set)
      /\ set.from = r.from /\ set.to = r.to /\ set.prev = r.prev /\ set.next = r.next
      /\ set.isVset = r.isVset
      /\ IsDismantledRoute(set.unavail) = IsDismantledRoute(r.unavail)
      /\ HopState(set, no) = two /\ HopState(set, ~no) = HopState(r, ~no)
  <2>1. set = SetHop(r, ~no, two)
    OBVIOUS
  <2> HIDE DEF no, two, set
  <2> QED BY <1>5, <2>1, SetHopOK
<1>7. \A toNext \in BOOLEAN : HopState(set, toNext) = IF toNext = no THEN 2 ELSE HopState(r, toNext)
  BY <1>6
<1> HIDE DEF set
<1>8. /\ r1 \in Route /\ RouteOK(n, P, p, r1)
      /\ r1.from = r.from /\ r1.to = r.to /\ r1.prev = r.prev /\ r1.next = r.next
      /\ r1.isVset = r.isVset
      /\ IsDismantledRoute(r1.unavail) = IsDismantledRoute(r.unavail)
      /\ \A toNext \in BOOLEAN : HopState(r1, toNext) \in {0, 2} <=> HopState(r, toNext) \in {0, 2}
  BY <1>6, <1>7
<1> HIDE DEF r1
<1>9. src \in Vids /\ src # NullVid /\ src \in Hops
  BY Constants DEF Hops
<1>10. /\ r2 \in Route
       /\ r2.from = r1.from /\ r2.to = r1.to /\ r2.prev = src /\ r2.next = r1.next
       /\ r2.isVset = r1.isVset /\ r2.unavail = r1.unavail /\ r2.prevhops = suf
  BY <1>1, <1>4, <1>8, <1>9 DEF Route
<1>11. \A toNext \in BOOLEAN : HopState(r2, toNext) = HopState(r1, toNext)
  BY <1>10 DEF HopState
<1>12. RouteOK(n, P, p, r2)
  <2>1. r1.from # n
    BY <1>2, <1>8 DEF RouteOK
  <2>2. \A toNext \in BOOLEAN : HopTo(r2, toNext) = NullVid => HopTo(r1, toNext) = NullVid
    BY <1>9, <1>10 DEF HopTo
  <2>3. r2.prev # NullVid
    BY <1>9, <1>10
  <2> QED BY <1>4, <1>8, <1>10, <1>11, <2>1, <2>2, <2>3 DEF RouteOK
<1> QED BY <1>8, <1>10, <1>11, <1>12 DEF BackAt

LEMMA MoveBackLeads ==
  ASSUME NEW n, NEW P \in SUBSET PathIds, NEW s, NodeGood(n, P, s), NEW p \in P, InTable(s.tbl, p),
         NEW src \in Nodes, src # n, MovesBack(RouteOf(s, p), src), NEW s1, s1 = MoveBack(s, src, p)
  PROVE  Leads(n, P, s, s1) /\ OnlyAt(s.tbl, s1.tbl, p) /\ Over(s1.tbl, p, src)
<1> DEFINE r  == RouteOf(s, p)
           x  == r.prev
           u  == EraseBroken(s, p, x)
           r2 == MovedTo(r, src)
<1>1. p \in PathIds /\ TableOK(n, P, s.tbl) /\ NodeFields \subseteq DOMAIN s
  BY DEF NodeGood
<1>2. r \in Route /\ RouteOK(n, P, p, r)
  BY <1>1, RouteIn DEF RouteOf
<1>a. r = s.tbl.routes[p]
  BY DEF RouteOf
<1>b. r2 = MovedTo(r, src)
  OBVIOUS
<1>c. s1 = WithTable(u, WithRoute(u.tbl, p, r2))
  <2>1. s1 = [u EXCEPT !.tbl.routes[p] = r2]
    BY DEF MoveBack, MovedTo
  <2> HIDE DEF u, r2
  <2> QED BY <2>1 DEF WithTable, WithRoute
<1> HIDE DEF r, r2
<1>3. BackAt(n, P, p, r, src, r2)
  BY <1>1, <1>2, <1>a, <1>b, MovedRoute DEF RouteOf
<1>4. /\ Leads(n, P, s, u) /\ u.tbl = s.tbl /\ DOMAIN u.lost = DOMAIN s.lost
      /\ x \in DOMAIN u.lost => p \notin u.lost[x].broken
  <2> HIDE DEF x
  <2> QED BY EraseBrokenLeads
<1> HIDE DEF u
<1>5. NodeGood(n, P, u) /\ InTable(u.tbl, p) /\ u.tbl.routes[p] = r
  BY <1>4, <1>a DEF Leads
<1>6. ASSUME NEW y \in DOMAIN u.lost, p \in u.lost[y].broken PROVE y \in {r2.prev, r2.next}
  <2>1. Over(u.tbl, p, y)
    BY <1>5, <1>6, LostFields
  <2>2. y # x
    BY <1>4, <1>6
  <2> QED BY <1>3, <1>5, <2>1, <2>2 DEF Over, BackAt
<1>7. /\ Leads(n, P, u, s1) /\ OnlyAt(u.tbl, s1.tbl, p) /\ s1.tbl.routes[p] = r2
  <2>1. /\ r2 \in Route /\ RouteOK(n, P, p, r2)
        /\ r2.from = u.tbl.routes[p].from /\ r2.to = u.tbl.routes[p].to /\ r2.isVset = u.tbl.routes[p].isVset
        /\ IsDismantledRoute(r2.unavail) = IsDismantledRoute(u.tbl.routes[p].unavail)
        /\ \A toNext \in BOOLEAN : HopState(r2, toNext) \in {0, 2} <=> HopState(u.tbl.routes[p], toNext) \in {0, 2}
    BY <1>3, <1>5 DEF BackAt
  <2> QED BY <1>1, <1>5, <1>6, <1>c, <2>1, EditRoute
<1>8. Over(s1.tbl, p, src)
  BY <1>3, <1>7 DEF Over, BackAt
<1> QED BY <1>4, <1>7, <1>8, LeadsOn

\* a change of a route that leaves its hops, ends and status alone
EditedQuietly(n, P, p, r, r2) ==
  /\ r2 \in Route /\ RouteOK(n, P, p, r2)
  /\ r2.from = r.from /\ r2.to = r.to /\ r2.isVset = r.isVset /\ r2.unavail = r.unavail
  /\ r2.prev = r.prev /\ r2.next = r.next

LEMMA EditQuietly ==
  ASSUME NEW n, NEW P \in SUBSET PathIds, NEW s, NodeGood(n, P, s), NEW p \in PathIds, InTable(s.tbl, p),
         NEW r2, EditedQuietly(n, P, p, RouteOf(s, p), r2),
         NEW s1, s1 = WithTable(s, WithRoute(s.tbl, p, r2))
  PROVE  /\ Leads(n, P, s, s1) /\ OnlyAt(s.tbl, s1.tbl, p) /\ s1.lost = s.lost
         /\ \A q \in PathIds : InTable(s1.tbl, q) <=> InTable(s.tbl, q)
<1> DEFINE r == s.tbl.routes[p]
<1>1. /\ r2 \in Route /\ RouteOK(n, P, p, r2)
      /\ r2.from = r.from /\ r2.to = r.to /\ r2.isVset = r.isVset /\ r2.unavail = r.unavail
      /\ r2.prev = r.prev /\ r2.next = r.next
  BY DEF EditedQuietly, RouteOf
<1>2. \A toNext \in BOOLEAN : HopState(r2, toNext) = HopState(r, toNext)
  BY <1>1 DEF HopState
<1>3. ASSUME NEW x \in DOMAIN s.lost, p \in s.lost[x].broken PROVE x \in {r2.prev, r2.next}
  <2>1. Over(s.tbl, p, x)
    BY <1>3, LostFields
  <2> QED BY <1>1, <2>1 DEF Over
<1>4. Leads(n, P, s, s1) /\ OnlyAt(s.tbl, s1.tbl, p) /\ s1.lost = s.lost /\ SameEnds(s.tbl, s1.tbl)
  BY <1>1, <1>2, <1>3, EditRoute
<1> QED BY <1>4 DEF SameEnds

LEMMA LearnSourceLeads ==
  ASSUME NEW n, NEW P \in SUBSET PathIds, NEW s, NodeGood(n, P, s), NEW p \in P, InTable(s.tbl, p),
         NEW src \in Nodes, src # n, NEW s1, s1 = LearnSource(s, src, p)
  PROVE  Leads(n, P, s, s1) /\ OnlyAt(s.tbl, s1.tbl, p)
<1> DEFINE r    == RouteOf(s, p)
           hops == WithSource(r, src)
           r2   == [r EXCEPT !.prevhops = hops]
<1>1. p \in PathIds /\ TableOK(n, P, s.tbl) /\ NodeFields \subseteq DOMAIN s
  BY DEF NodeGood
<1>2. r \in Route /\ RouteOK(n, P, p, r)
  BY <1>1, RouteIn DEF RouteOf
<1>3. hops \in Seq(Vids) /\ n \notin Range(hops) /\ (r.prev = NullVid => hops = <<>>)
  <2> HIDE DEF r
  <2> QED BY <1>2, WithSourceOK
<1>4. s1 = IF r.prev # src /\ HopState(r, FALSE) # 3 THEN WithTable(s, WithRoute(s.tbl, p, r2)) ELSE s
  <2>1. [s EXCEPT !.tbl.routes[p].prevhops = hops] = WithTable(s, WithRoute(s.tbl, p, r2))
    BY DEF WithTable, WithRoute, RouteOf
  <2> HIDE DEF r2
  <2> QED BY <2>1 DEF LearnSource
<1>r. r = RouteOf(s, p)
  OBVIOUS
<1> HIDE DEF hops, r
<1>5. EditedQuietly(n, P, p, r, r2)
  <2>1. /\ r2 \in Route
        /\ r2.from = r.from /\ r2.to = r.to /\ r2.isVset = r.isVset /\ r2.unavail = r.unavail
        /\ r2.prev = r.prev /\ r2.next = r.next /\ r2.prevhops = hops
    BY <1>2, <1>3 DEF Route
  <2>2. \A toNext \in BOOLEAN : HopTo(r2, toNext) = HopTo(r, toNext) /\ HopState(r2, toNext) = HopState(r, toNext)
    BY <2>1 DEF HopTo, HopState
  <2> HIDE DEF r2
  <2>3. RouteOK(n, P, p, r2)
    BY <1>2, <1>3, <2>1, <2>2 DEF RouteOK
  <2> QED BY <2>1, <2>3 DEF EditedQuietly
<1> HIDE DEF r2
<1>6. EditedQuietly(n, P, p, RouteOf(s, p), r2)
  BY <1>5, <1>r
<1> DEFINE u == WithTable(s, WithRoute(s.tbl, p, r2))
<1>7. Leads(n, P, s, u) /\ OnlyAt(s.tbl, u.tbl, p)
  BY <1>1, <1>6, EditQuietly
<1>8. Leads(n, P, s, s) /\ OnlyAt(s.tbl, s.tbl, p)
  BY LeadsHere DEF OnlyAt
<1> HIDE DEF u
<1>9. s1 = u \/ s1 = s
  BY <1>4 DEF u
<1> QED BY <1>7, <1>8, <1>9

LearnLoop == INSTANCE ForEachInduction WITH
  Op  <- LAMBDA n, P, s, src, y, u, p : LearnSource(u, src, p),
  Inv <- LAMBDA n, P, s, src, y, T, u : Worked(n, P, s, T, u)

LearnSources(s, src, ps) == ForEach(LAMBDA u, p : LearnSource(u, src, p), s, ps)

LEMMA LearnAll ==
  ASSUME NEW n, NEW P \in SUBSET PathIds, NEW s, NodeGood(n, P, s), NEW src \in Nodes, src # n,
         NEW ps \in SUBSET P, \A p \in ps : InTable(s.tbl, p),
         NEW s1, s1 = LearnSources(s, src, ps)
  PROVE  Worked(n, P, s, ps, s1)
<1> DEFINE Body(u, p) == LearnSource(u, src, p)
<1>1. ps \in SUBSET PathIds
  OBVIOUS
<1>2. ps \in SUBSET Nat /\ IsFiniteSet(ps)
  BY <1>1, Finite
<1>3. Worked(n, P, s, {}, s)
  BY LeadsHere DEF Worked
<1>4. ASSUME NEW T \in SUBSET ps, NEW p \in ps \ T, NEW u, Worked(n, P, s, T, u)
      PROVE  Worked(n, P, s, T \cup {p}, Body(u, p))
  <2>1. NodeGood(n, P, u) /\ p \in P /\ InTable(u.tbl, p)
    BY <1>4 DEF Worked, Leads, InTable
  <2>2. Leads(n, P, u, Body(u, p)) /\ OnlyAt(u.tbl, Body(u, p).tbl, p)
    BY <2>1, LearnSourceLeads
  <2> HIDE DEF Body
  <2>3. Leads(n, P, s, Body(u, p))
    BY <1>4, <2>2, LeadsOn DEF Worked
  <2>4. ASSUME NEW q \in P \ (T \cup {p}) PROVE Body(u, p).tbl.routes[q] = s.tbl.routes[q]
    BY <1>4, <2>2 DEF Worked, OnlyAt
  <2> QED BY <2>3, <2>4 DEF Worked
<1>5. s1 = LearnLoop!Loop(n, P, s, src, src, s, ps)
  BY DEF LearnSources, ForEach, LearnLoop!Loop, Max, LearnLoop!Max
<1>6. Worked(n, P, s, ps, LearnLoop!Loop(n, P, s, src, src, s, ps))
  <2>1. \A T \in SUBSET ps : \A p \in ps \ T : \A u :
          Worked(n, P, s, T, u) => Worked(n, P, s, T \cup {p}, Body(u, p))
    BY <1>4
  <2>2. LearnLoop!IsFiniteSet(ps)
    BY <1>2 DEF IsFiniteSet, LearnLoop!IsFiniteSet
  <2> QED BY <1>2, <1>3, <2>1, <2>2, LearnLoop!LoopKeeps
<1> QED BY <1>5, <1>6

BackLoop == INSTANCE ForEachInduction WITH
  Op  <- LAMBDA n, P, s, src, ps, u, p : MoveBack(u, src, p),
  Inv <- LAMBDA n, P, s, src, ps, T, u : Moving(n, P, s, src, ps, T, u)

MovesBackAll(s, src, ps) == \A p \in ps : InTable(s.tbl, p) /\ MovesBack(RouteOf(s, p), src)

MoveBackThese(s, src, ps) == ForEach(LAMBDA u, p : MoveBack(u, src, p), s, ps)

LEMMA MoveBackAll ==
  ASSUME NEW n, NEW P \in SUBSET PathIds, NEW s, NodeGood(n, P, s), NEW src \in Nodes, src # n,
         NEW ps \in SUBSET P, MovesBackAll(s, src, ps),
         NEW s1, s1 = MoveBackThese(s, src, ps)
  PROVE  Leads(n, P, s, s1) /\ OverAll(s1.tbl, ps, src)
<1> DEFINE Body(u, p) == MoveBack(u, src, p)
<1>1. ps \in SUBSET PathIds
  OBVIOUS
<1>2. ps \in SUBSET Nat /\ IsFiniteSet(ps)
  BY <1>1, Finite
<1>3. Moving(n, P, s, src, ps, {}, s)
  BY LeadsHere DEF Moving
<1>4. ASSUME NEW T \in SUBSET ps, NEW p \in ps \ T, NEW u, Moving(n, P, s, src, ps, T, u)
      PROVE  Moving(n, P, s, src, ps, T \cup {p}, Body(u, p))
  <2>1. NodeGood(n, P, u) /\ p \in P /\ InTable(u.tbl, p) /\ MovesBack(RouteOf(u, p), src)
    BY <1>4 DEF Moving, Leads, InTable, RouteOf, MovesBackAll
  <2> DEFINE w == Body(u, p)
  <2>w. w = MoveBack(u, src, p)
    OBVIOUS
  <2> HIDE DEF w, Body
  <2>2. Leads(n, P, u, w) /\ OnlyAt(u.tbl, w.tbl, p) /\ Over(w.tbl, p, src)
    <3>1. \A q \in P : InTable(u.tbl, q) /\ MovesBack(RouteOf(u, q), src) =>
            \A v : v = MoveBack(u, src, q) => Leads(n, P, u, v) /\ OnlyAt(u.tbl, v.tbl, q) /\ Over(v.tbl, q, src)
      BY <2>1, MoveBackLeads
    <3> QED BY <2>1, <2>w, <3>1
  <2>3. Leads(n, P, s, w)
    BY <1>4, <2>2, LeadsOn DEF Moving
  <2>4. \A q \in ps \ (T \cup {p}) : w.tbl.routes[q] = s.tbl.routes[q]
    BY <1>1, <1>4, <2>2 DEF Moving, OnlyAt
  <2>5. \A q \in T \cup {p} : Over(w.tbl, q, src)
    BY <1>1, <1>4, <2>2 DEF Moving, OnlyAt, Over, InTable
  <2>6. Moving(n, P, s, src, ps, T \cup {p}, w)
    BY <2>3, <2>4, <2>5 DEF Moving
  <2> QED BY <2>6 DEF w
<1>5. s1 = BackLoop!Loop(n, P, s, src, ps, s, ps)
  BY DEF MoveBackThese, ForEach, BackLoop!Loop, Max, BackLoop!Max
<1>6. Moving(n, P, s, src, ps, ps, BackLoop!Loop(n, P, s, src, ps, s, ps))
  <2>1. \A T \in SUBSET ps : \A p \in ps \ T : \A u :
          Moving(n, P, s, src, ps, T, u) => Moving(n, P, s, src, ps, T \cup {p}, Body(u, p))
    BY <1>4
  <2>2. BackLoop!IsFiniteSet(ps)
    BY <1>2 DEF IsFiniteSet, BackLoop!IsFiniteSet
  <2> QED BY <1>2, <1>3, <2>1, <2>2, BackLoop!LoopKeeps
<1> QED BY <1>5, <1>6 DEF Moving, OverAll

\* the rest of the vroute is told, or its end takes notice
SameKnown(t, t1) == \A q \in PathIds : InTable(t1, q) <=> InTable(t, q)

LEMMA AnnounceLeads ==
  ASSUME NEW n, NEW P \in SUBSET PathIds, NEW s, NodeGood(n, P, s), NEW p \in PathIds, InTable(s.tbl, p),
         NEW src, NEW s2, s2 = Announce(s, n, p, src)
  PROVE  Leads(n, P, s, s2) /\ SameKnown(s.tbl, s2.tbl)
<1> DEFINE r      == RouteOf(s, p)
           onward == r.prev = src
           nh     == HopTo(r, onward)
           st     == HopState(r, onward)
           r2     == [r EXCEPT !.repairSent = TRUE]
           u      == WithTable(s, WithRoute(s.tbl, p, r2))
           s1     == IF onward THEN u ELSE s
           msg    == RepairRouteMsg(p)
           other  == OtherEnd(n, r)
           end    == PatchEnd(s, n, p, other)
           relay  == RelayVia(s1, nh, st, msg)
<1>1. s2 = IF nh = NullVid THEN end ELSE IF st = 1 \/ r.repairSent THEN s ELSE relay
  <2>1. [s EXCEPT !.tbl.routes[p].repairSent = TRUE] = u
    BY DEF WithTable, WithRoute, RouteOf
  <2> HIDE DEF u
  <2> QED BY <2>1 DEF Announce
<1>2. r \in Route /\ RouteOK(n, P, p, r) /\ nh \in Hops
  BY RouteIn DEF RouteOf, HopTo, NodeGood
<1>3. other = OtherEnd(n, RouteOf(s, p)) /\ r = RouteOf(s, p)
  OBVIOUS
<1>4. Leads(n, P, s, end) /\ SameKnown(s.tbl, end.tbl)
  <2> HIDE DEF other, r
  <2>1. end = PatchEnd(s, n, p, other)
    OBVIOUS
  <2> HIDE DEF end
  <2>2. Leads(n, P, s, end) /\ Unmarked(s.tbl, end.tbl, {p})
    BY <1>3, <2>1, PatchEndLeads
  <2> QED BY <2>2 DEF Unmarked, SameKnown
<1> HIDE DEF other, end, r
<1>5. EditedQuietly(n, P, p, r, r2)
  <2>1. /\ r2 \in Route
        /\ r2.from = r.from /\ r2.to = r.to /\ r2.isVset = r.isVset /\ r2.unavail = r.unavail
        /\ r2.prev = r.prev /\ r2.next = r.next /\ r2.prevhops = r.prevhops
    BY <1>2 DEF Route
  <2>2. \A toNext \in BOOLEAN : HopTo(r2, toNext) = HopTo(r, toNext) /\ HopState(r2, toNext) = HopState(r, toNext)
    BY <2>1 DEF HopTo, HopState
  <2> HIDE DEF r2
  <2>3. RouteOK(n, P, p, r2)
    BY <1>2, <2>1, <2>2 DEF RouteOK
  <2> QED BY <2>1, <2>3 DEF EditedQuietly
<1> HIDE DEF r2
<1>6. Leads(n, P, s, u) /\ SameKnown(s.tbl, u.tbl)
  <2>1. EditedQuietly(n, P, p, RouteOf(s, p), r2)
    BY <1>3, <1>5
  <2>2. u = WithTable(s, WithRoute(s.tbl, p, r2))
    OBVIOUS
  <2> HIDE DEF u
  <2> QED BY <2>1, <2>2, EditQuietly DEF SameKnown
<1> HIDE DEF u
<1>7. Leads(n, P, s, s) /\ SameKnown(s.tbl, s.tbl)
  BY LeadsHere DEF SameKnown
<1>8. Leads(n, P, s, s1) /\ SameKnown(s.tbl, s1.tbl)
  BY <1>6, <1>7
<1> HIDE DEF s1, st, nh, onward
<1>9. Leads(n, P, s, relay) /\ SameKnown(s.tbl, relay.tbl)
  <2>1. msg \in OnWay
    BY Constants DEF RepairRouteMsg, OnWay, RepairRouteInt, SomePath, Hops
  <2> HIDE DEF msg
  <2>2. NodeGood(n, P, s1)
    BY <1>8 DEF Leads
  <2>3. relay = RelayVia(s1, nh, st, msg)
    OBVIOUS
  <2> HIDE DEF relay
  <2>4. Leads(n, P, s1, relay) /\ relay.tbl = s1.tbl
    BY <1>2, <2>1, <2>2, <2>3, RelayViaLeads
  <2> QED BY <1>8, <2>4, LeadsOn
<1> HIDE DEF relay
<1> QED BY <1>1, <1>4, <1>7, <1>9

Telling(n, P, s, u) == Leads(n, P, s, u) /\ SameKnown(s.tbl, u.tbl)

AnnounceLoop == INSTANCE ForEachInduction WITH
  Op  <- LAMBDA n, P, s, src, y, u, p : Announce(u, n, p, src),
  Inv <- LAMBDA n, P, s, src, y, T, u : Telling(n, P, s, u)

AnnounceThese(s, n, src, ps) == ForEach(LAMBDA u, p : Announce(u, n, p, src), s, ps)

LEMMA AnnounceAll ==
  ASSUME NEW n, NEW P \in SUBSET PathIds, NEW s, NodeGood(n, P, s), NEW src,
         NEW ps \in SUBSET PathIds, \A p \in ps : InTable(s.tbl, p),
         NEW s1, s1 = AnnounceThese(s, n, src, ps)
  PROVE  Leads(n, P, s, s1)
<1> DEFINE Body(u, p) == Announce(u, n, p, src)
<1>2. ps \in SUBSET Nat /\ IsFiniteSet(ps)
  BY Finite
<1>3. Telling(n, P, s, s)
  BY LeadsHere DEF Telling, SameKnown
<1>4. ASSUME NEW T \in SUBSET ps, NEW p \in ps \ T, NEW u, Telling(n, P, s, u)
      PROVE  Telling(n, P, s, Body(u, p))
  <2>1. NodeGood(n, P, u) /\ p \in PathIds /\ InTable(u.tbl, p)
    BY <1>4 DEF Telling, Leads, SameKnown
  <2> DEFINE w == Body(u, p)
  <2>w. w = Announce(u, n, p, src)
    OBVIOUS
  <2> HIDE DEF w
  <2>2. Leads(n, P, u, w) /\ SameKnown(u.tbl, w.tbl)
    BY <2>1, <2>w, AnnounceLeads
  <2>3. Telling(n, P, s, w)
    BY <1>4, <2>2, LeadsOn DEF Telling, SameKnown
  <2> QED BY <2>3 DEF w
<1>5. s1 = AnnounceLoop!Loop(n, P, s, src, src, s, ps)
  BY DEF AnnounceThese, ForEach, AnnounceLoop!Loop, Max, AnnounceLoop!Max
<1>6. Telling(n, P, s, AnnounceLoop!Loop(n, P, s, src, src, s, ps))
  <2>1. \A T \in SUBSET ps : \A p \in ps \ T : \A u : Telling(n, P, s, u) => Telling(n, P, s, Body(u, p))
    BY <1>4
  <2>2. AnnounceLoop!IsFiniteSet(ps)
    BY <1>2 DEF IsFiniteSet, AnnounceLoop!IsFiniteSet
  <2> QED BY <1>2, <1>3, <2>1, <2>2, AnnounceLoop!LoopKeeps
<1> QED BY <1>5, <1>6 DEF Telling

\* the hop back to the source of a reply, and its routes
EndTemp(s, n, src, t, m) ==
  [s EXCEPT !.lost[src].temp = @ \cup {t},
            !.tbl = AddRoute(@, t, NewRoute(src, n, m, NullVid, FALSE, 16, <<>>))]

LEMMA EndTempLeads ==
  ASSUME NEW n \in Nodes, NEW P \in SUBSET PathIds, NEW s, NodeGood(n, P, s), NEW src \in Nodes, src # n,
         src \in DOMAIN s.lost, NEW t \in PathIds, t \notin P, NEW m \in Nodes,
         NEW s4, s4 = EndTemp(s, n, src, t, m)
  PROVE  /\ Leads(n, P, s, s4) /\ src \in DOMAIN s4.lost
         /\ \A q \in PathIds : InTable(s.tbl, q) => InTable(s4.tbl, q)
<1> DEFINE r  == TempRoute(src, n, m, NullVid)
           t1 == AddRoute(s.tbl, t, r)
           a  == WithTable(s, t1)
           e  == [s.lost[src] EXCEPT !.temp = @ \cup {t}]
           b  == WithEntry(a, src, e)
<1>0. NodeFields \subseteq DOMAIN s
  BY DEF NodeGood
<1>1. s4 = b
  BY <1>0 DEF EndTemp, TempRoute, WithTable, WithEntry, NodeFields
<1>2. r \in Route /\ RouteOK(n, P, t, r) /\ Fresh(r)
  <2> DEFINE next == NullVid
  <2>1. next \in Hops /\ m \in Hops /\ Fits(n, src, n, m, next)
    BY Constants DEF Hops, Fits
  <2>2. r = TempRoute(src, n, m, next)
    OBVIOUS
  <2> HIDE DEF next, r
  <2> QED BY <2>1, <2>2, NewTemp
<1>3. a = WithTable(s, AddRoute(s.tbl, t, r))
  OBVIOUS
<1>4. \A q \in PathIds : InTable(s.tbl, q) => InTable(t1, q)
  <2> HIDE DEF r
  <2>1. TableOK(n, P, s.tbl)
    BY DEF NodeGood
  <2>2. Fresh(r) => r.unavail \in {0, 16}
    BY DEF Fresh
  <2>3. /\ OnlyAt(s.tbl, t1, t)
        /\ t1.routes[t] = IF InTable(s.tbl, t) THEN s.tbl.routes[t] ELSE r
    BY <1>2, <2>1, <2>2, AddRouteOK
  <2> QED BY <2>3 DEF OnlyAt, InTable
<1> HIDE DEF r
<1>5. a.tbl = t1
  BY <1>0 DEF WithTable, NodeFields
<1> HIDE DEF t1, a
<1>6. Leads(n, P, s, a) /\ a.lost = s.lost
  BY <1>2, <1>3, AddTempLeads
<1>7. NodeGood(n, P, a) /\ src \in DOMAIN a.lost
  BY <1>6 DEF Leads
<1>8. e \in LostPneiInfo /\ e.broken = a.lost[src].broken /\ e.temp \cap P = {}
  <2>1. s.lost[src] \in LostPneiInfo /\ s.lost[src].temp \cap P = {}
    BY DEF NodeGood, LostOK
  <2> QED BY <1>6, <2>1 DEF LostPneiInfo
<1> HIDE DEF e
<1>9. Leads(n, P, a, b) /\ b.tbl = a.tbl /\ DOMAIN b.lost = DOMAIN a.lost
  BY <1>7, <1>8, PutEntry
<1> HIDE DEF b
<1> QED BY <1>1, <1>4, <1>5, <1>6, <1>7, <1>9, LeadsOn

LEMMA RefuseLeads ==
  ASSUME NEW n \in Nodes, NEW P, NEW s, NodeGood(n, P, s), NEW m, NEW t \in PathIds,
         NEW rebuild \in BOOLEAN, NEW dism \in BOOLEAN, NEW s1, s1 = Post(s, m, TeardownMsg(t, n, rebuild, dism))
  PROVE  Leads(n, P, s, s1)
<1> DEFINE msg == TeardownMsg(t, n, rebuild, dism)
<1>1. msg \in OnWay
  BY MakeTeardown
<1> HIDE DEF msg
<1>2. m \in Nodes => msg \in MessagesTo(P, m)
  BY <1>1 DEF OnWay, MessagesTo
<1>3. Leads(n, P, s, Post(s, m, msg))
  BY <1>2, PostLeads
<1> QED BY <1>3 DEF msg

LEMMA MakeFail ==
  ASSUME NEW P \in SUBSET PathIds, NEW t \in PathIds, NEW n \in Nodes, NEW src \in Nodes, NEW ps \in SUBSET P
  PROVE  FailMsg(t, n, src, ps) \in RepairLinkFailInt /\ FailMsg(t, n, src, ps).broken = ps
BY DEF FailMsg, RepairLinkFailInt, SomePath

LEMMA EndTempRouteLeads ==
  ASSUME NEW n \in Nodes, NEW P \in SUBSET PathIds, NEW s, NodeGood(n, P, s), NEW m \in Nodes,
         NEW msg \in RepairLinkReplyInt, msg.broken \subseteq P, msg.path \notin P, msg.src # n,
         NEW s6, s6 = EndTempRoute(s, n, m, msg)
  PROVE  Leads(n, P, s, s6)
<1> DEFINE src   == msg.src
           t     == msg.path
           here  == {p \in msg.broken : InTable(s.tbl, p) /\ HopState(RouteOf(s, p), FALSE) # 3}
           moved == {p \in here : MovesBack(RouteOf(s, p), src)}
           stay  == here \ moved
           done  == moved \cup {p \in here : RouteOf(s, p).prev = src}
           s0    == LearnSources(s, src, stay)
           s1    == MoveBackThese(s0, src, moved)
           s2    == IF moved = {} THEN s1 ELSE AddBroken(s1, src, moved, NoTimer)
           told  == IF m = src THEN {} ELSE ToAnnounce(s2, src)
           c     == NoTimerFor(s2, src)
           two   == 2
           s3    == SetBroken(c, src, two)
           s4    == EndTemp(s3, n, src, t, m)
           s5    == AnnounceThese(s4, n, src, told)
           left  == msg.broken \ done
           fail  == FailMsg(t, n, src, left)
           no1   == RefuseTemp(s1, n, m, t, TRUE)
           no2   == RefuseTemp(s1, n, m, t, FALSE)
           drop  == DropLost(s4, src)
           last  == SendFail(s5, fail)
<1>1. s6 = IF done = {} THEN no1
           ELSE IF src \notin DOMAIN s2.lost THEN no2
           ELSE IF s4.lost[src].broken = {} THEN drop
           ELSE IF msg.broken \subseteq done THEN s5
           ELSE last
  BY DEF EndTempRoute, EndTemp, LearnSources, MoveBackThese, AnnounceThese
<1>2. src \in Nodes /\ t \in PathIds /\ src # n /\ t \notin P /\ src \in Vids
  BY Constants DEF RepairLinkReplyInt
<1>3. /\ here \in SUBSET P /\ moved \in SUBSET P /\ stay \in SUBSET P /\ left \in SUBSET P
      /\ \A p \in here : InTable(s.tbl, p)
      /\ moved \subseteq here /\ stay = here \ moved
      /\ \A p \in moved : MovesBack(RouteOf(s, p), src)
  OBVIOUS
<1> HIDE DEF here, moved, stay, done, left
<1>4. Worked(n, P, s, stay, s0)
  <2>1. \A p \in stay : InTable(s.tbl, p)
    BY <1>3
  <2>2. s0 = LearnSources(s, src, stay)
    OBVIOUS
  <2> HIDE DEF s0, src
  <2> QED BY <1>2, <1>3, <2>1, <2>2, LearnAll
<1>5. Leads(n, P, s, s0) /\ MovesBackAll(s0, src, moved)
  BY <1>3, <1>4 DEF Worked, InTable, RouteOf, MovesBackAll
<1>6. Leads(n, P, s0, s1) /\ OverAll(s1.tbl, moved, src)
  <2>1. s1 = MoveBackThese(s0, src, moved)
    OBVIOUS
  <2>2. NodeGood(n, P, s0)
    BY <1>5 DEF Leads
  <2> HIDE DEF s0, s1, src
  <2> QED BY <1>2, <1>3, <1>5, <2>1, <2>2, MoveBackAll
<1> HIDE DEF s0, s1
<1>7. Leads(n, P, s, s1) /\ NodeGood(n, P, s1)
  BY <1>5, <1>6, LeadsOn DEF Leads
<1>8. Leads(n, P, s1, s2)
  <2> DEFINE a == AddBroken(s1, src, moved, NoTimer)
  <2>1. a = AddBroken(s1, src, moved, NoTimer) /\ NoTimer \in WaitRepairLinkIntTimer \cup {NoTimer}
    OBVIOUS
  <2>2. s2 = s1 \/ s2 = a
    OBVIOUS
  <2> HIDE DEF a, s2, src
  <2>3. Leads(n, P, s1, a)
    BY <1>2, <1>3, <1>6, <1>7, <2>1, AddBrokenLeads
  <2>4. Leads(n, P, s1, s1)
    BY <1>7, LeadsHere
  <2> QED BY <2>2, <2>3, <2>4
<1> HIDE DEF s2
<1>9. Leads(n, P, s, s2) /\ NodeGood(n, P, s2)
  BY <1>7, <1>8, LeadsOn DEF Leads
<1>10. Leads(n, P, s, no1) /\ Leads(n, P, s, no2)
  <2> DEFINE yes == TRUE
             no  == FALSE
  <2>1. no1 = Post(s1, m, TeardownMsg(t, n, yes, no)) /\ no2 = Post(s1, m, TeardownMsg(t, n, no, no))
    BY DEF RefuseTemp
  <2>2. yes \in BOOLEAN /\ no \in BOOLEAN
    OBVIOUS
  <2> HIDE DEF no1, no2, yes, no, t
  <2>3. Leads(n, P, s1, no1)
    BY <1>2, <1>7, <2>1, <2>2, RefuseLeads
  <2>4. Leads(n, P, s1, no2)
    BY <1>2, <1>7, <2>1, <2>2, RefuseLeads
  <2> QED BY <1>7, <2>3, <2>4, LeadsOn
<1>11. ASSUME src \in DOMAIN s2.lost
       PROVE  /\ Leads(n, P, s, drop) /\ Leads(n, P, s, s5) /\ Leads(n, P, s, last)
  <2>1. Leads(n, P, s2, c) /\ c.tbl = s2.tbl /\ DOMAIN c.lost = DOMAIN s2.lost
    <3>1. c = NoTimerFor(s2, src)
      OBVIOUS
    <3> HIDE DEF c, src
    <3> QED BY <1>9, <1>11, <3>1, NoTimerForLeads
  <2>2. NodeGood(n, P, c) /\ src \in DOMAIN c.lost /\ two \in {1, 2}
    BY <1>11, <2>1 DEF Leads
  <2>3. Marking(n, P, c, src, s3)
    <3>1. s3 = SetBroken(c, src, two)
      OBVIOUS
    <3> HIDE DEF c, src, two, s3
    <3> QED BY <2>2, <3>1, SetBrokenLeads
  <2>4. told \in SUBSET PathIds /\ \A p \in told : InTable(s2.tbl, p)
    <3>1. s2.lost[src].broken \in SUBSET PathIds
      <4> HIDE DEF src
      <4> QED BY <1>9, <1>11, LostFields
    <3> HIDE DEF src
    <3> QED BY <3>1 DEF ToAnnounce, Stale
  <2> HIDE DEF c, two, s3, told
  <2>5. /\ Leads(n, P, c, s3) /\ NodeGood(n, P, s3) /\ src \in DOMAIN s3.lost
        /\ \A p \in told : InTable(s3.tbl, p)
    BY <2>1, <2>2, <2>3, <2>4 DEF Marking, SameEnds, Leads
  <2>6. /\ Leads(n, P, s3, s4) /\ src \in DOMAIN s4.lost
        /\ \A q \in PathIds : InTable(s3.tbl, q) => InTable(s4.tbl, q)
    <3>1. s4 = EndTemp(s3, n, src, t, m)
      OBVIOUS
    <3> HIDE DEF s4, src, t
    <3> QED BY <1>2, <2>5, <3>1, EndTempLeads
  <2>7. Leads(n, P, s, s4) /\ NodeGood(n, P, s4) /\ \A p \in told : InTable(s4.tbl, p)
    <3>1. Leads(n, P, s, c)
      BY <1>9, <2>1, LeadsOn
    <3>2. Leads(n, P, s, s3)
      BY <3>1, <2>5, LeadsOn
    <3> QED BY <3>2, <2>4, <2>5, <2>6, LeadsOn DEF Leads
  <2> HIDE DEF s4
  <2>8. Leads(n, P, s, drop)
    <3>1. drop = DropLost(s4, src)
      OBVIOUS
    <3> HIDE DEF drop, src
    <3>2. Leads(n, P, s4, drop)
      BY <2>6, <2>7, <3>1, DropLostLeads
    <3> QED BY <2>7, <3>2, LeadsOn
  <2>9. Leads(n, P, s4, s5)
    <3>1. s5 = AnnounceThese(s4, n, src, told)
      OBVIOUS
    <3> HIDE DEF s5, src
    <3> QED BY <2>4, <2>7, <3>1, AnnounceAll
  <2> HIDE DEF s5
  <2>10. Leads(n, P, s, s5) /\ NodeGood(n, P, s5)
    BY <2>7, <2>9, LeadsOn DEF Leads
  <2>11. Leads(n, P, s5, last)
    <3>1. fail \in RepairLinkFailInt /\ fail.broken \subseteq P
      <4> HIDE DEF src, t
      <4> QED BY <1>2, <1>3, MakeFail
    <3>2. last = SendFail(s5, fail)
      OBVIOUS
    <3> HIDE DEF last, fail
    <3> QED BY <2>10, <3>1, <3>2, SendFailLeads
  <2> QED BY <2>8, <2>10, <2>11, LeadsOn
<1> HIDE DEF no1, no2, drop, s5, last, s4
<1> QED BY <1>1, <1>10, <1>11

\* a node on the way passes a reply on, along a temporary route of its own
LEMMA ForwardReplyLeads ==
  ASSUME NEW n \in Nodes, NEW P \in SUBSET PathIds, NEW s, NodeGood(n, P, s), NEW m \in Nodes,
         NEW msg \in RepairLinkReplyInt, GoodReply(P, n, msg), msg.trace[1] # n,
         NEW s1, s1 = ForwardReply(s, n, m, msg)
  PROVE  Leads(n, P, s, s1)
<1> DEFINE src   == msg.src
           t     == msg.path
           trace == msg.trace
           to    == trace[1]
           back  == BeforeMe(s, n, trace)
           up1   == UpToMe(n, trace)
           nh    == trace[Max(back)]
           r     == TempRoute(src, to, m, nh)
           a     == WithTable(s, AddRoute(s.tbl, t, r))
           msg1  == [msg EXCEPT !.trace = up1]
           refuse == Post(s, m, TeardownMsg(t, n, TRUE, FALSE))
           pass   == Post(a, nh, msg1)
<1>1. s1 = IF back = {} THEN refuse ELSE pass
  BY DEF ForwardReply, TempRoute, WithTable
<1>2. /\ src \in Nodes /\ t \in PathIds /\ t \notin P /\ trace \in Seq(Nodes) /\ msg.broken \subseteq P
      /\ n \in Range(trace) /\ src \notin Range(trace)
  BY DEF GoodReply, RepairLinkReplyInt
<1>3. to \in Nodes /\ to \in Range(trace) /\ src # n /\ src # to /\ to # n
  <2>1. trace # <<>>
    BY <1>2, EmptyRange
  <2>2. 1 \in DOMAIN trace
    BY <1>2, <2>1
  <2> QED BY <1>2, <2>2 DEF Range
<1>4. Leads(n, P, s, refuse)
  <2> DEFINE yes == TRUE
             no  == FALSE
  <2>1. refuse = Post(s, m, TeardownMsg(t, n, yes, no)) /\ yes \in BOOLEAN /\ no \in BOOLEAN
    OBVIOUS
  <2> HIDE DEF refuse, yes, no, t
  <2> QED BY <1>2, <2>1, RefuseLeads
<1>5. back # {} => Leads(n, P, s, pass)
  <2> SUFFICES ASSUME back # {} PROVE Leads(n, P, s, pass)
    OBVIOUS
  <2>1. nh \in Nodes /\ nh # n /\ nh \in Range(up1)
    <3> HIDE DEF trace
    <3> QED BY <1>2, BackHop
  <2>2. up1 \in Seq(Nodes) /\ src \notin Range(up1)
    <3>1. up1 \in Seq(Nodes) /\ DOMAIN up1 \subseteq DOMAIN trace /\ \A i \in DOMAIN up1 : up1[i] = trace[i]
      <4> HIDE DEF trace
      <4> QED BY <1>2, UpToMeIs
    <3> QED BY <1>2, <3>1 DEF Range
  <2> HIDE DEF nh, up1, back
  <2>3. r \in Route /\ RouteOK(n, P, t, r) /\ Fresh(r)
    <3>1. m \in Hops /\ nh \in Hops /\ Fits(n, src, to, m, nh) /\ r = TempRoute(src, to, m, nh)
      BY <1>3, <2>1, Constants DEF Hops, Fits
    <3> HIDE DEF src, to, t, r
    <3> QED BY <1>2, <1>3, <3>1, NewTemp
  <2> HIDE DEF r
  <2>4. Leads(n, P, s, a)
    <3>1. a = WithTable(s, AddRoute(s.tbl, t, r))
      OBVIOUS
    <3> HIDE DEF a, t
    <3> QED BY <1>2, <2>3, <3>1, AddTempLeads
  <2> HIDE DEF a
  <2>5. msg1 \in MessagesTo(P, nh)
    <3>1. /\ msg1 \in RepairLinkReplyInt /\ msg1.path = t /\ msg1.broken = msg.broken /\ msg1.trace = up1
          /\ msg1.src = src
      BY <2>2 DEF RepairLinkReplyInt
    <3> HIDE DEF msg1
    <3> QED BY <1>2, <2>1, <2>2, <3>1 DEF MessagesTo, GoodReply
  <2> HIDE DEF msg1
  <2>6. NodeGood(n, P, a)
    BY <2>4 DEF Leads
  <2>7. Leads(n, P, a, pass)
    BY <2>5, <2>6, PostLeads
  <2> QED BY <2>4, <2>7, LeadsOn
<1> HIDE DEF refuse, pass
<1> QED BY <1>1, <1>4, <1>5

LEMMA HandleReplyLeads ==
  ASSUME NEW n \in Nodes, NEW P \in SUBSET PathIds, NEW s, NodeGood(n, P, s), NEW m \in Nodes,
         NEW msg \in RepairLinkReplyInt, GoodReply(P, n, msg), NEW s1, s1 = HandleReply(s, n, m, msg)
  PROVE  Leads(n, P, s, s1)
<1> DEFINE t == msg.path
           refuse  == Post(s, m, TeardownMsg(t, n, TRUE, FALSE))
           end     == EndTempRoute(s, n, m, msg)
           forward == ForwardReply(s, n, m, msg)
<1>1. s1 = refuse \/ s1 = end \/ (msg.trace[1] # n /\ s1 = forward)
  BY DEF HandleReply
<1>2. t \in PathIds
  BY DEF RepairLinkReplyInt
<1>3. Leads(n, P, s, refuse)
  <2> DEFINE yes == TRUE
             no  == FALSE
  <2>1. refuse = Post(s, m, TeardownMsg(t, n, yes, no)) /\ yes \in BOOLEAN /\ no \in BOOLEAN
    OBVIOUS
  <2> HIDE DEF refuse, yes, no, t
  <2> QED BY <1>2, <2>1, RefuseLeads
<1>4. Leads(n, P, s, end)
  <2>1. msg.broken \subseteq P /\ msg.path \notin P /\ msg.src # n
    BY DEF GoodReply
  <2>2. end = EndTempRoute(s, n, m, msg)
    OBVIOUS
  <2> HIDE DEF end
  <2> QED BY <2>1, <2>2, EndTempRouteLeads
<1>5. msg.trace[1] # n => Leads(n, P, s, forward)
  <2>1. forward = ForwardReply(s, n, m, msg)
    OBVIOUS
  <2> HIDE DEF forward
  <2> QED BY <2>1, ForwardReplyLeads
<1> HIDE DEF refuse, end, forward
<1> QED BY <1>1, <1>3, <1>4, <1>5
-----------------------------------------------------------------------------
(* Teardowns                                                               *)

\* a vroute that is gone leaves dismantledRoutes
LessDismantled(s, p) == [s EXCEPT !.dismantled = @ \ {p}]

LEMMA LessDismantledLeads ==
  ASSUME NEW n, NEW P, NEW s, NodeGood(n, P, s), NEW p, ~InTable(s.tbl, p),
         NEW s1, s1 = LessDismantled(s, p)
  PROVE  Leads(n, P, s, s1)
<1>1. /\ NodeFields \subseteq DOMAIN s /\ TableOK(n, P, s.tbl)
      /\ SetsOK(n, P, s.tbl, s.vset, s.nonEss, s.dismantled) /\ LostOK(P, s.tbl, s.lost)
  BY DEF NodeGood
<1>2. /\ s1.tbl = s.tbl /\ s1.vset = s.vset /\ s1.nonEss = s.nonEss /\ s1.dismantled = s.dismantled \ {p}
      /\ s1.lost = s.lost /\ s1.delayed = s.delayed /\ s1.recent = s.recent /\ s1.heard = s.heard
      /\ s1.seq = s.seq /\ s1.out = s.out /\ NodeFields \subseteq DOMAIN s1
  BY <1>1 DEF LessDismantled, NodeFields
<1>3. SetsOK(n, P, s1.tbl, s1.vset, s1.nonEss, s1.dismantled)
  BY <1>1, <1>2 DEF SetsOK
<1> QED BY <1>1, <1>2, <1>3, PutSets

\* ... or is not a vset route, being temporary
LEMMA TempInNoSet ==
  ASSUME NEW n, NEW P \in SUBSET PathIds, NEW s, NodeGood(n, P, s), NEW p \in PathIds, InTable(s.tbl, p),
         IsTemporaryRoute(RouteOf(s, p).unavail)
  PROVE  InNoSet(s.vset, p)
<1>1. TableOK(n, P, s.tbl) /\ SetsOK(n, P, s.tbl, s.vset, s.nonEss, s.dismantled)
  BY DEF NodeGood
<1>2. ~s.tbl.routes[p].isVset
  BY <1>1, RouteIn DEF RouteOK, RouteOf
<1> QED BY <1>1, <1>2 DEF SetsOK, ServesVnei, InNoSet

LEMMA TeardownAtEndLeads ==
  ASSUME NEW n, NEW P \in SUBSET PathIds, NEW s, NodeGood(n, P, s), NEW msg \in TeardownInt,
         InTable(s.tbl, msg.path), NEW s1, s1 = TeardownAtEnd(s, n, msg)
  PROVE  Leads(n, P, s, s1) /\ InNoSet(s1.vset, msg.path)
<1> DEFINE p     == msg.path
           r     == RouteOf(s, p)
           other == OtherEnd(n, r)
           e     == [s.lost[other] EXCEPT !.timer = RetryLimit, !.due = TRUE, !.temp = @ \ {p}]
           u     == WithEntry(s, other, e)
           end   == RemoveEndpoint(s, n, p, other)
           unwanted == IsTemporaryRoute(r.unavail) /\ msg.src = other /\ ~msg.rebuild
<1>1. p \in PathIds /\ NodeFields \subseteq DOMAIN s
  BY DEF TeardownInt, NodeGood
<1>2. s1 = IF unwanted THEN IF other \notin DOMAIN s.lost THEN s ELSE u ELSE end
  <2>1. [s EXCEPT !.lost[other].timer = RetryLimit, !.lost[other].due = TRUE, !.lost[other].temp = @ \ {p}] = u
    BY <1>1 DEF WithEntry, NodeFields
  <2> HIDE DEF u
  <2> QED BY <2>1 DEF TeardownAtEnd
<1>3. Leads(n, P, s, end) /\ InNoSet(end.vset, p)
  <2>1. end = RemoveEndpoint(s, n, p, other) /\ other = OtherEnd(n, RouteOf(s, p)) /\ InTable(s.tbl, p)
    OBVIOUS
  <2> HIDE DEF end, other, p
  <2> QED BY <1>1, <2>1, RemoveEndpointLeads
<1>4. unwanted => Leads(n, P, s, s) /\ InNoSet(s.vset, p)
  <2>1. InTable(s.tbl, p) /\ r = RouteOf(s, p)
    OBVIOUS
  <2> HIDE DEF p, r
  <2> QED BY <1>1, <2>1, LeadsHere, TempInNoSet
<1>5. unwanted /\ other \in DOMAIN s.lost => Leads(n, P, s, u) /\ InNoSet(u.vset, p)
  <2> SUFFICES ASSUME unwanted, other \in DOMAIN s.lost PROVE Leads(n, P, s, u) /\ InNoSet(u.vset, p)
    OBVIOUS
  <2> HIDE DEF other, p
  <2>1. e \in LostPneiInfo /\ e.broken \subseteq s.lost[other].broken /\ e.temp \cap P = {}
    <3>1. s.lost[other] \in LostPneiInfo /\ s.lost[other].temp \cap P = {}
      BY DEF NodeGood, LostOK
    <3>2. RetryLimit \in WaitRepairLinkIntTimer \cup {NoTimer}
      BY Constants DEF WaitRepairLinkIntTimer
    <3> QED BY <3>1, <3>2 DEF LostPneiInfo
  <2> HIDE DEF e
  <2>2. u = WithEntry(s, other, e)
    OBVIOUS
  <2> HIDE DEF u
  <2>3. Leads(n, P, s, u) /\ u.vset = s.vset
    BY <2>1, <2>2, PutEntry
  <2> QED BY <1>4, <2>3
<1> HIDE DEF u, end, unwanted
<1> QED BY <1>2, <1>3, <1>4, <1>5

LEMMA TeardownRouteLeads ==
  ASSUME NEW n \in Nodes, NEW P \in SUBSET PathIds, NEW s, NodeGood(n, P, s), NEW msg \in TeardownInt,
         InTable(s.tbl, msg.path), NEW x \in Vids, x \in {RouteOf(s, msg.path).prev, RouteOf(s, msg.path).next},
         NEW s3, s3 = TeardownRoute(s, n, x, msg)
  PROVE  Leads(n, P, s, s3)
<1> DEFINE p      == msg.path
           r      == RouteOf(s, p)
           onward == x = r.prev
           nh     == HopTo(r, onward)
           st     == HopState(r, onward)
           dism   == IsDismantledRoute(r.unavail)
           via    == TeardownVia(s, nh, st, msg)
           less   == LoseBroken(s, p, nh)
           s1     == IF PassOn(r, onward) THEN via ELSE IF st = 1 /\ ~dism THEN less ELSE s
           s2     == [s1 EXCEPT !.dismantled = IF dism THEN @ \ {p} ELSE @]
           side   == ~onward
           behind == IF msg.temp # NoPath /\ HopState(r, side) = 2 THEN 1 ELSE 3
           atEnd  == TeardownAtEnd(s, n, msg)
           end    == RemovePath(atEnd, p)
           gone   == RemovePath(s2, p)
           half   == Dismantle(s2, p, side, behind)
           temp   == IsTemporaryRoute(r.unavail)
<1>1. s3 = IF nh = NullVid THEN end
           ELSE IF temp \/ ~KeepDismantled \/ ~msg.dism \/ dism THEN gone ELSE half
  BY DEF TeardownRoute
<1>2. p \in PathIds /\ msg \in OnWay /\ InTable(s.tbl, p) /\ r = RouteOf(s, p)
  BY DEF TeardownInt, OnWay
<1>3. nh # NullVid => r.prev # NullVid /\ r.next # NullVid
  BY Constants DEF HopTo
<1>4. onward \in BOOLEAN /\ side \in BOOLEAN /\ behind \in 0 .. 3 /\ nh \in Hops
  <2>1. TableOK(n, P, s.tbl)
    BY DEF NodeGood
  <2>2. r.prev \in Hops /\ r.next \in Hops
    <3> HIDE DEF p
    <3> QED BY <1>2, <2>1, RouteIn DEF RouteOf
  <2> QED BY <2>2 DEF HopTo
<1> HIDE DEF r, p
<1>5. Leads(n, P, s, s1) /\ KeepsTable(s, s1)
  <2> HIDE DEF nh, st, dism, onward
  <2>1. Leads(n, P, s, via) /\ via.tbl = s.tbl
    <3>1. via = TeardownVia(s, nh, st, msg)
      OBVIOUS
    <3> HIDE DEF via
    <3> QED BY <1>2, <1>4, <3>1, TeardownViaLeads
  <2>2. Leads(n, P, s, less) /\ less.tbl = s.tbl
    <3>1. less = LoseBroken(s, p, nh)
      OBVIOUS
    <3> HIDE DEF less
    <3> QED BY <3>1, LoseBrokenLeads
  <2>3. Leads(n, P, s, s)
    BY LeadsHere
  <2> HIDE DEF via, less
  <2> QED BY <2>1, <2>2, <2>3 DEF KeepsTable
<1> HIDE DEF s1, nh, st, behind
<1>6. NodeGood(n, P, s1) /\ NodeFields \subseteq DOMAIN s1
  BY <1>5 DEF Leads, NodeGood
<1>7. ~dism => Leads(n, P, s1, s2) /\ KeepsTable(s1, s2)
  <2> SUFFICES ASSUME ~dism PROVE Leads(n, P, s1, s2) /\ KeepsTable(s1, s2)
    OBVIOUS
  <2>1. /\ s2.tbl = s1.tbl /\ s2.vset = s1.vset /\ s2.nonEss = s1.nonEss /\ s2.dismantled = s1.dismantled
        /\ s2.lost = s1.lost /\ s2.delayed = s1.delayed /\ s2.recent = s1.recent /\ s2.heard = s1.heard
        /\ s2.seq = s1.seq /\ s2.out = s1.out /\ NodeFields \subseteq DOMAIN s2
    BY <1>6 DEF NodeFields
  <2> HIDE DEF s2
  <2> QED BY <1>6, <2>1, OtherFields DEF KeepsTable
<1>8. Leads(n, P, s, end)
  <2>1. Leads(n, P, s, atEnd) /\ InNoSet(atEnd.vset, p)
    <3>1. atEnd = TeardownAtEnd(s, n, msg)
      OBVIOUS
    <3> HIDE DEF atEnd
    <3> QED BY <1>2, <3>1, TeardownAtEndLeads DEF p
  <2> HIDE DEF atEnd
  <2>2. NodeGood(n, P, atEnd) /\ \A v \in DOMAIN atEnd.vset : p \notin atEnd.vset[v]
    BY <2>1 DEF Leads, InNoSet
  <2>3. Leads(n, P, atEnd, end)
    BY <2>2, RemovePathLeads
  <2> HIDE DEF end
  <2> QED BY <2>1, <2>3, LeadsOn
<1>9. nh # NullVid => Leads(n, P, s, gone)
  <2> SUFFICES ASSUME nh # NullVid PROVE Leads(n, P, s, gone)
    OBVIOUS
  <2>a. RouteOf(s, p).prev # NullVid /\ RouteOf(s, p).next # NullVid
    BY <1>2, <1>3
  <2>1. CASE dism
    <3> DEFINE a == RemovePath(s1, p)
               b == LessDismantled(a, p)
    <3>1. Leads(n, P, s, a)
      <4>1. a = RemovePath(s1, p)
        OBVIOUS
      <4> HIDE DEF a
      <4> QED BY <1>2, <1>5, <2>a, <4>1, RemoveMiddle
    <3>2. gone = b
      BY <1>6, <2>1 DEF RemovePath, LessDismantled, NodeFields
    <3>3. ~InTable(a.tbl, p)
      <4>1. a.tbl = RemoveRoute(s1.tbl, p) /\ TableOK(n, P, s1.tbl)
        BY <1>6 DEF RemovePath, NodeGood, NodeFields
      <4> QED BY <1>2, <4>1, RemoveRouteOK
    <3> HIDE DEF a, gone
    <3>4. NodeGood(n, P, a)
      BY <3>1 DEF Leads
    <3>5. Leads(n, P, a, b)
      BY <3>3, <3>4, LessDismantledLeads
    <3> HIDE DEF b
    <3> QED BY <3>1, <3>2, <3>5, LeadsOn
  <2>2. CASE ~dism
    <3>1. Leads(n, P, s, s2) /\ KeepsTable(s, s2)
      BY <1>5, <1>7, <2>2, LeadsOn DEF KeepsTable
    <3> HIDE DEF s2
    <3>2. gone = RemovePath(s2, p)
      OBVIOUS
    <3> HIDE DEF gone
    <3> QED BY <1>2, <2>a, <3>1, <3>2, RemoveMiddle
  <2> QED BY <2>1, <2>2
<1>10. nh # NullVid /\ ~dism /\ ~temp => Leads(n, P, s, half)
  <2> SUFFICES ASSUME nh # NullVid, ~dism, ~temp PROVE Leads(n, P, s, half)
    OBVIOUS
  <2>a. /\ RouteOf(s, p).prev # NullVid /\ RouteOf(s, p).next # NullVid
        /\ ~IsTemporaryRoute(RouteOf(s, p).unavail)
    BY <1>2, <1>3
  <2>1. Leads(n, P, s, s2) /\ KeepsTable(s, s2)
    BY <1>5, <1>7, LeadsOn DEF KeepsTable
  <2> HIDE DEF s2
  <2>2. half = Dismantle(s2, p, side, behind)
    OBVIOUS
  <2> HIDE DEF half, side
  <2> QED BY <1>2, <1>4, <2>a, <2>1, <2>2, DismantleMiddle
<1> HIDE DEF end, gone, half, dism, temp
<1> QED BY <1>1, <1>8, <1>9, <1>10

\* the node a message that came over m is from
LEMMA SenderIs ==
  ASSUME NEW n, NEW P, NEW s, NodeGood(n, P, s), NEW m \in Nodes, NEW msg \in OnWay, ~Stranded(s, msg),
         NEW x, x = Sender(s, n, m, msg)
  PROVE  x \in Vids /\ x \in Hops
<1>1. CASE msg.temp = NoPath
  BY <1>1, Constants DEF Sender, Hops
<1>2. CASE msg.temp # NoPath
  <2>1. InTable(s.tbl, msg.temp) /\ msg.temp \in PathIds /\ TableOK(n, P, s.tbl)
    BY <1>2 DEF Stranded, OnWay, TeardownInt, RepairRouteInt, SomePath, NodeGood
  <2>2. x = OtherEnd(n, s.tbl.routes[msg.temp])
    BY <1>2 DEF Sender, RouteOf
  <2> DEFINE t == msg.temp
  <2>3. s.tbl.routes[t].from \in Vids /\ s.tbl.routes[t].to \in Vids
    <3> HIDE DEF t
    <3>1. InTable(s.tbl, t) /\ t \in PathIds
      BY <2>1 DEF t
    <3> QED BY <2>1, <3>1, RouteIn
  <2> QED BY <2>2, <2>3 DEF OtherEnd, Hops
<1> QED BY <1>1, <1>2

\* what is done with a message that does not end here
LEMMA OnwardLeads ==
  ASSUME NEW n \in Nodes, NEW P \in SUBSET PathIds, NEW s, NodeGood(n, P, s), NEW m \in Nodes, NEW msg \in OnWay,
         NEW x, NEW t \in SomePath
  PROVE  /\ Leads(n, P, s, Post(s, x, msg))
         /\ t # NoPath => Leads(n, P, s, Post(s, m, TeardownMsg(t, n, TRUE, FALSE)))
<1>1. msg \in MessagesTo(P, x)
  BY DEF OnWay, MessagesTo
<1>2. Leads(n, P, s, Post(s, x, msg))
  BY <1>1, PostLeads
<1> DEFINE yes == TRUE
           no  == FALSE
           stop == Post(s, m, TeardownMsg(t, n, yes, no))
<1>3. t # NoPath => Leads(n, P, s, stop)
  <2>1. yes \in BOOLEAN /\ no \in BOOLEAN /\ (t # NoPath => t \in PathIds)
    BY DEF SomePath
  <2>2. stop = Post(s, m, TeardownMsg(t, n, yes, no))
    OBVIOUS
  <2> HIDE DEF yes, no, stop
  <2> QED BY <2>1, <2>2, RefuseLeads
<1> QED BY <1>2, <1>3

LEMMA HandleTeardownLeads ==
  ASSUME NEW n \in Nodes, NEW P \in SUBSET PathIds, NEW s, NodeGood(n, P, s), NEW m \in Nodes,
         NEW msg \in TeardownInt, NEW s2, s2 = HandleTeardown(s, n, m, msg)
  PROVE  Leads(n, P, s, s2)
<1> DEFINE x    == Sender(s, n, m, msg)
           p    == msg.path
           t    == msg.temp
           less == LoseBroken(s, p, x)
           s1   == IF t = NoPath THEN s ELSE less
           y    == HopToward(RouteOf(s, t), msg.toward)
           stop == Post(s, m, TeardownMsg(t, n, TRUE, FALSE))
           on   == Post(s, y, msg)
           here == TeardownRoute(s1, n, x, msg)
<1>1. s2 = IF Stranded(s, msg) THEN stop
           ELSE IF Riding(s, n, msg) THEN on ELSE IF OnRoute(s1, p, x) THEN here ELSE s1
  BY DEF HandleTeardown
<1>2. msg \in OnWay /\ t \in SomePath /\ (Stranded(s, msg) => t # NoPath)
  BY DEF OnWay, TeardownInt, Stranded
<1>3. Leads(n, P, s, on) /\ (Stranded(s, msg) => Leads(n, P, s, stop))
  <2> HIDE DEF t, y
  <2> QED BY <1>2, OnwardLeads
<1>4. ~Stranded(s, msg) => x \in Vids
  <2>1. x = Sender(s, n, m, msg)
    OBVIOUS
  <2> HIDE DEF x
  <2> QED BY <1>2, <2>1, SenderIs
<1>5. Leads(n, P, s, s1) /\ NodeGood(n, P, s1)
  <2>1. Leads(n, P, s, s) /\ Leads(n, P, s, less)
    <3>1. less = LoseBroken(s, p, x)
      OBVIOUS
    <3> HIDE DEF less, x, p
    <3> QED BY <3>1, LeadsHere, LoseBrokenLeads
  <2> QED BY <2>1 DEF Leads
<1> HIDE DEF s1, x, on, stop
<1>6. ~Stranded(s, msg) /\ OnRoute(s1, p, x) => Leads(n, P, s, here)
  <2> SUFFICES ASSUME ~Stranded(s, msg), OnRoute(s1, p, x) PROVE Leads(n, P, s, here)
    OBVIOUS
  <2>1. InTable(s1.tbl, msg.path) /\ x \in {RouteOf(s1, msg.path).prev, RouteOf(s1, msg.path).next}
    BY DEF OnRoute
  <2>2. here = TeardownRoute(s1, n, x, msg)
    OBVIOUS
  <2> HIDE DEF here
  <2>3. Leads(n, P, s1, here)
    BY <1>4, <1>5, <2>1, <2>2, TeardownRouteLeads
  <2> QED BY <1>5, <2>3, LeadsOn
<1> HIDE DEF here
<1> QED BY <1>1, <1>3, <1>5, <1>6

LEMMA RepairRouteFromLeads ==
  ASSUME NEW n \in Nodes, NEW P \in SUBSET PathIds, NEW s, NodeGood(n, P, s),
         NEW msg \in RepairRouteInt, InTable(s.tbl, msg.path), NEW x, NEW s1, s1 = RepairRouteFrom(s, n, x, msg)
  PROVE  Leads(n, P, s, s1)
<1> DEFINE p      == msg.path
           r      == RouteOf(s, p)
           onward == x = r.prev
           nh     == HopTo(r, onward)
           st     == HopState(r, onward)
           end    == PatchedEnd(s, n, p)
           on     == RelayVia(s, nh, st, msg)
<1>1. s1 = end \/ s1 = on
  BY DEF RepairRouteFrom
<1>2. p \in PathIds /\ msg \in OnWay /\ InTable(s.tbl, p) /\ TableOK(n, P, s.tbl)
  BY DEF RepairRouteInt, OnWay, NodeGood
<1> HIDE DEF p
<1>3. nh \in Hops
  BY <1>2, RouteIn DEF RouteOf, HopTo
<1>4. Leads(n, P, s, end)
  <2>1. end = PatchedEnd(s, n, p)
    OBVIOUS
  <2> HIDE DEF end
  <2> QED BY <1>2, <2>1, PatchedEndLeads
<1>5. Leads(n, P, s, on)
  <2>1. on = RelayVia(s, nh, st, msg)
    OBVIOUS
  <2> HIDE DEF on, nh, st
  <2> QED BY <1>2, <1>3, <2>1, RelayViaLeads
<1> QED BY <1>1, <1>4, <1>5

LEMMA HandleRepairRouteLeads ==
  ASSUME NEW n \in Nodes, NEW P \in SUBSET PathIds, NEW s, NodeGood(n, P, s), NEW m \in Nodes,
         NEW msg \in RepairRouteInt, NEW s2, s2 = HandleRepairRoute(s, n, m, msg)
  PROVE  Leads(n, P, s, s2)
<1> DEFINE x    == Sender(s, n, m, msg)
           p    == msg.path
           t    == msg.temp
           y    == HopToward(RouteOf(s, t), msg.toward)
           unknown == TeardownMsg(p, n, TRUE, FALSE)
           stop == Post(s, m, TeardownMsg(t, n, TRUE, FALSE))
           on   == Post(s, y, msg)
           here == RepairRouteFrom(s, n, x, msg)
           back == Post(s, m, unknown)
           two  == 2
           via  == TeardownVia(s, x, two, unknown)
<1>1. s2 = IF Stranded(s, msg) THEN stop
           ELSE IF Riding(s, n, msg) THEN on
           ELSE IF OnRoute(s, p, x) THEN here
           ELSE IF InTable(s.tbl, p) THEN s ELSE IF t = NoPath THEN back ELSE via
  BY DEF HandleRepairRoute
<1>2. msg \in OnWay /\ t \in SomePath /\ p \in PathIds /\ (Stranded(s, msg) => t # NoPath)
  BY DEF OnWay, RepairRouteInt, Stranded
<1>3. Leads(n, P, s, on) /\ (Stranded(s, msg) => Leads(n, P, s, stop))
  <2> HIDE DEF t, y
  <2> QED BY <1>2, OnwardLeads
<1>4. ~Stranded(s, msg) => x \in Hops
  <2>1. x = Sender(s, n, m, msg)
    OBVIOUS
  <2> HIDE DEF x
  <2> QED BY <1>2, <2>1, SenderIs
<1>5. OnRoute(s, p, x) => Leads(n, P, s, here)
  <2>1. OnRoute(s, p, x) => InTable(s.tbl, msg.path)
    BY DEF OnRoute
  <2>2. here = RepairRouteFrom(s, n, x, msg)
    OBVIOUS
  <2> HIDE DEF here, x, p
  <2> QED BY <2>1, <2>2, RepairRouteFromLeads
<1> HIDE DEF x, two, here, on, stop
<1>6. unknown \in OnWay
  <2> DEFINE yes == TRUE
             no  == FALSE
  <2>1. yes \in BOOLEAN /\ no \in BOOLEAN /\ unknown = TeardownMsg(p, n, yes, no)
    OBVIOUS
  <2> HIDE DEF unknown, yes, no, p
  <2> QED BY <1>2, <2>1, MakeTeardown
<1> HIDE DEF unknown
<1>7. Leads(n, P, s, back)
  <2>1. NoPath \in SomePath
    BY DEF SomePath
  <2> QED BY <1>6, <2>1, OnwardLeads
<1>8. ~Stranded(s, msg) => Leads(n, P, s, via)
  <2>1. via = TeardownVia(s, x, two, unknown)
    OBVIOUS
  <2> HIDE DEF via
  <2> QED BY <1>4, <1>6, <2>1, TeardownViaLeads
<1>9. Leads(n, P, s, s)
  BY LeadsHere
<1> HIDE DEF back, via
<1> QED BY <1>1, <1>3, <1>5, <1>7, <1>8, <1>9
-----------------------------------------------------------------------------
(* The steps: what a handler leaves behind becomes the state of its node,  *)
(* what it sent goes into the channels.                                    *)

Emptied(s) == [s EXCEPT !.out = Nothing]

NodePut(nd, n, s) == [nd EXCEPT ![n] = Emptied(s)]

LEMMA NothingSent == ASSUME NEW P PROVE SentOK(P, Nothing)
<1>1. \A m \in Nodes : Nothing[m] = <<>> /\ <<>> \in Seq(MessagesTo(P, m))
  BY DEF Nothing
<1> QED BY <1>1 DEF SentOK, Nothing

LEMMA NodeBecomes ==
  ASSUME NEW P, NEW nd, NodesOK(P, nd), NEW n \in Nodes, NEW s, NodeGood(n, P, s),
         NEW nd1, nd1 = NodePut(nd, n, s)
  PROVE  /\ NodesOK(P, nd1) /\ nd1[n].heard = s.heard
         /\ \A k \in Nodes : k # n => nd1[k] = nd[k]
<1> DEFINE e == Emptied(s)
<1>1. NodeFields \subseteq DOMAIN s
  BY DEF NodeGood
<1>2. /\ e.tbl = s.tbl /\ e.vset = s.vset /\ e.nonEss = s.nonEss /\ e.dismantled = s.dismantled
      /\ e.lost = s.lost /\ e.delayed = s.delayed /\ e.recent = s.recent /\ e.heard = s.heard
      /\ e.seq = s.seq /\ e.out = Nothing /\ NodeFields \subseteq DOMAIN e
  BY <1>1 DEF Emptied, NodeFields
<1> HIDE DEF e
<1>3. SentOK(P, e.out)
  BY <1>2, NothingSent
<1>4. NodeGood(n, P, e)
  BY <1>2, <1>3 DEF NodeGood
<1>5. nd1[n] = e /\ DOMAIN nd1 = Nodes /\ \A k \in Nodes : k # n => nd1[k] = nd[k]
  BY DEF NodesOK, NodePut, e
<1> QED BY <1>2, <1>4, <1>5 DEF NodesOK

LEMMA SentAfter ==
  ASSUME NEW P, NEW c, ChanOK(P, c), NEW n \in Nodes, NEW out, SentOK(P, out),
         NEW c1, c1 = After(c, n, out)
  PROVE  ChanOK(P, c1)
<1> DEFINE row == [m \in Nodes |-> IF {n, m} \in up THEN c[n][m] \o out[m] ELSE c[n][m]]
<1>1. c1 = [c EXCEPT ![n] = row]
  BY DEF After
<1>2. ASSUME NEW m \in Nodes PROVE row[m] \in Seq(MessagesTo(P, m))
  <2> DEFINE S == MessagesTo(P, m)
             a == c[n][m]
             b == out[m]
  <2>1. a \in Seq(S) /\ b \in Seq(S)
    BY DEF ChanOK, SentOK
  <2>2. row[m] = a \o b \/ row[m] = a
    OBVIOUS
  <2> HIDE DEF S, a, b
  <2>3. a \o b \in Seq(S)
    BY <2>1
  <2>4. row[m] \in Seq(S)
    BY <2>1, <2>2, <2>3
  <2> QED BY <2>4 DEF S
<1>3. SentOK(P, row)
  BY <1>2 DEF SentOK
<1> HIDE DEF row
<1> QED BY <1>1, <1>3 DEF ChanOK

LEMMA Taken ==
  ASSUME NEW P, NEW c, ChanOK(P, c), NEW m \in Nodes, NEW n \in Nodes, c[m][n] # <<>>,
         NEW c1, c1 = [c EXCEPT ![m][n] = Tail(@)]
  PROVE  ChanOK(P, c1) /\ Head(c[m][n]) \in MessagesTo(P, n)
<1> DEFINE S   == MessagesTo(P, n)
           q   == c[m][n]
           row == [c[m] EXCEPT ![n] = Tail(q)]
<1>1. q \in Seq(S) /\ q # <<>>
  BY DEF ChanOK, SentOK
<1>2. Head(q) \in S /\ Tail(q) \in Seq(S)
  <2> HIDE DEF q, S
  <2> QED BY <1>1
<1>3. c1 = [c EXCEPT ![m] = row]
  OBVIOUS
<1>4. SentOK(P, row)
  <2>1. SentOK(P, c[m])
    BY DEF ChanOK
  <2> HIDE DEF q
  <2> QED BY <1>2, <2>1 DEF SentOK
<1> HIDE DEF row
<1>5. ChanOK(P, c1)
  BY <1>3, <1>4 DEF ChanOK
<1> QED BY <1>2, <1>5

\* nobody forgets the number of a flood
Remembers(h, h1) == \A src \in DOMAIN h : src \in DOMAIN h1 /\ h[src] <= h1[src]

LEMMA RemembersSame ==
  ASSUME NEW n, NEW P, NEW s, NodeGood(n, P, s), NEW h, h = s.heard
  PROVE  Remembers(s.heard, h)
BY DEF NodeGood, HeardOK, Remembers

LEMMA AirKept ==
  ASSUME NEW P, NEW nd, NEW nd1, NodesOK(P, nd), NodesOK(P, nd1), NEW a, AirOK(P, nd, a), NEW a1 \in SUBSET a,
         \A k \in Nodes : Remembers(nd[k].heard, nd1[k].heard)
  PROVE  AirOK(P, nd1, a1)
<1> SUFFICES ASSUME NEW f \in a1 PROVE FloodOK(P, f) /\ PassedOn(nd1, f)
  BY DEF AirOK
<1>1. FloodOK(P, f) /\ PassedOn(nd, f)
  BY DEF AirOK
<1>2. Range(f.trace) \subseteq Nodes /\ f.seq \in Nat
  BY <1>1 DEF FloodOK, Range
<1>3. ASSUME NEW u \in Range(f.trace), u # f.trace[1]
      PROVE  f.trace[1] \in DOMAIN nd1[u].heard /\ f.seq <= nd1[u].heard[f.trace[1]]
  <2> DEFINE src == f.trace[1]
             h   == nd[u].heard
             h1  == nd1[u].heard
  <2>1. src \in DOMAIN h /\ f.seq <= h[src]
    BY <1>1, <1>3 DEF PassedOn
  <2>2. src \in DOMAIN h1 /\ h[src] <= h1[src]
    BY <1>2, <2>1 DEF Remembers
  <2>3. h[src] \in Nat /\ h1[src] \in Nat
    BY <1>2, <2>1, <2>2 DEF NodesOK, NodeGood, HeardOK
  <2> HIDE DEF src, h, h1
  <2>4. f.seq <= h1[src]
    BY <1>2, <2>1, <2>2, <2>3
  <2> QED BY <2>2, <2>4 DEF src, h1
<1> QED BY <1>1, <1>3 DEF PassedOn

\* a step of n whose handler leaves s; the floods new are sent
LEMMA HandlerCasts ==
  ASSUME RepairInv, NEW n \in Nodes, NEW s, NodeGood(n, Perm, s), Remembers(node[n].heard, s.heard),
         Becomes(n, s), ChanOK(Perm, chan'), NEW new, AirOK(Perm, NodePut(node, n, s), new),
         air' \subseteq air \cup new, UNCHANGED setup, used \subseteq used'
  PROVE  RepairInv'
<1>1. Perm' = Perm
  BY DEF Perm
<1>2. NodesOK(Perm, node) /\ node' = NodePut(node, n, s)
  BY DEF RepairInv, Becomes, Emptied, NodePut
<1>3. /\ NodesOK(Perm, node') /\ node'[n].heard = s.heard
      /\ \A k \in Nodes : k # n => node'[k] = node[k]
  BY <1>2, NodeBecomes
<1>4. AirOK(Perm, node', air)
  <2>1. ASSUME NEW k \in Nodes PROVE Remembers(node[k].heard, node'[k].heard)
    <3>1. NodeGood(k, Perm, node[k])
      BY <1>2 DEF NodesOK
    <3> QED BY <1>3, <3>1, RemembersSame
  <2> QED BY <1>2, <1>3, <2>1, AirKept DEF RepairInv
<1>5. AirOK(Perm, node', air')
  BY <1>2, <1>4 DEF AirOK
<1>6. setup \in Setups /\ Perm \subseteq used'
  BY DEF RepairInv
<1> QED BY <1>1, <1>3, <1>5, <1>6 DEF RepairInv

\* ... or none are
LEMMA HandlerKeeps ==
  ASSUME RepairInv, NEW n \in Nodes, NEW s, NodeGood(n, Perm, s), Remembers(node[n].heard, s.heard),
         Becomes(n, s), ChanOK(Perm, chan'), air' \subseteq air, UNCHANGED setup, used \subseteq used'
  PROVE  RepairInv'
<1> DEFINE new == {}
<1>1. AirOK(Perm, NodePut(node, n, s), new) /\ air' \subseteq air \cup new
  BY DEF AirOK
<1> HIDE DEF new
<1> QED BY <1>1, HandlerCasts

LEMMA StepKeeps ==
  ASSUME RepairInv, NEW n \in Nodes, NEW s, Turns(n, Perm, node[n], s), Step(n, s),
         air' \subseteq air, UNCHANGED setup, used \subseteq used'
  PROVE  RepairInv'
<1>1. NodeGood(n, Perm, s) /\ NodeGood(n, Perm, node[n]) /\ s.heard = node[n].heard
  BY DEF Turns, RepairInv, NodesOK
<1>2. Becomes(n, s) /\ chan' = After(chan, n, s.out)
  BY DEF Step
<1>3. ChanOK(Perm, chan) /\ SentOK(Perm, s.out)
  BY <1>1 DEF RepairInv, NodeGood
<1>4. ChanOK(Perm, chan')
  BY <1>2, <1>3, SentAfter
<1> QED BY <1>1, <1>2, <1>4, RemembersSame, HandlerKeeps

LEMMA ReplyKeeps ==
  ASSUME RepairInv, NEW n \in Nodes, NEW m \in Nodes, chan[m][n] # <<>>, NEW s, Turns(n, Perm, node[n], s),
         Reply(n, m, s), air' \subseteq air, UNCHANGED setup, used \subseteq used'
  PROVE  RepairInv'
<1>1. NodeGood(n, Perm, s) /\ NodeGood(n, Perm, node[n]) /\ s.heard = node[n].heard
  BY DEF Turns, RepairInv, NodesOK
<1> DEFINE c == [chan EXCEPT ![m][n] = Tail(@)]
<1>2. Becomes(n, s) /\ chan' = After(c, n, s.out) /\ c = [chan EXCEPT ![m][n] = Tail(@)]
  BY DEF Reply
<1> HIDE DEF c
<1>3. ChanOK(Perm, c) /\ SentOK(Perm, s.out)
  BY <1>1, <1>2, Taken DEF RepairInv, NodeGood
<1>4. ChanOK(Perm, chan')
  BY <1>2, <1>3, SentAfter
<1> QED BY <1>1, <1>2, <1>4, RemembersSame, HandlerKeeps

LEMMA BecomesKeeps ==
  ASSUME RepairInv, NEW n \in Nodes, NEW s, Turns(n, Perm, node[n], s), Becomes(n, s),
         UNCHANGED <<chan, air, setup, used>>
  PROVE  RepairInv'
<1>1. NodeGood(n, Perm, s) /\ NodeGood(n, Perm, node[n]) /\ s.heard = node[n].heard
  BY DEF Turns, RepairInv, NodesOK
<1>2. ChanOK(Perm, chan')
  BY DEF RepairInv
<1> QED BY <1>1, <1>2, RemembersSame, HandlerKeeps

\* a step of no node
LEMMA StillKeeps ==
  ASSUME RepairInv, ChanOK(Perm, chan'), air' \subseteq air, UNCHANGED <<node, setup, used>>
  PROVE  RepairInv'
<1>1. Perm' = Perm
  BY DEF Perm
<1>2. AirOK(Perm, node', air')
  BY DEF RepairInv, AirOK
<1>3. NodesOK(Perm, node') /\ setup \in Setups /\ Perm \subseteq used'
  BY DEF RepairInv
<1> QED BY <1>1, <1>2, <1>3 DEF RepairInv
-----------------------------------------------------------------------------
(* Each action keeps RepairInv                                             *)

LEMMA NodeOf ==
  ASSUME RepairInv, NEW n \in Nodes
  PROVE  /\ Perm \in SUBSET PathIds /\ NodeGood(n, Perm, node[n]) /\ NodeFields \subseteq DOMAIN node[n]
         /\ Turns(n, Perm, node[n], node[n]) /\ Leads(n, Perm, node[n], node[n])
<1>1. Perm \in SUBSET PathIds
  BY RepairAssumption DEF RepairInv, Perm, IsSetup
<1>2. NodeGood(n, Perm, node[n])
  BY DEF RepairInv, NodesOK
<1> QED BY <1>1, <1>2, LeadsHere DEF NodeGood, Turns

LEMMA MessageOf ==
  ASSUME RepairInv, NEW n \in Nodes, NEW m \in Nodes, chan[m][n] # <<>>
  PROVE  Head(chan[m][n]) \in MessagesTo(Perm, n)
<1> DEFINE c1 == [chan EXCEPT ![m][n] = Tail(@)]
<1>1. c1 = [chan EXCEPT ![m][n] = Tail(@)] /\ ChanOK(Perm, chan)
  BY DEF RepairInv
<1> HIDE DEF c1
<1> QED BY <1>1, Taken

LEMMA ProcessTeardownKeeps ==
  ASSUME RepairInv, NEW n \in Nodes, NEW m \in Nodes, ProcessTeardown(n, m)
  PROVE  RepairInv'
<1> DEFINE msg == Head(chan[m][n])
           s   == HandleTeardown(node[n], n, m, msg)
<1>1. /\ chan[m][n] # <<>> /\ msg.type = "Teardown" /\ Reply(n, m, s)
      /\ UNCHANGED <<air, setup, used>>
  BY DEF ProcessTeardown, Received
<1>2. msg \in TeardownInt
  BY <1>1, MessageOf DEF MessagesTo, TeardownInt, RepairRouteInt, RepairLinkReplyInt, RepairLinkFailInt
<1>3. s = HandleTeardown(node[n], n, m, msg)
  OBVIOUS
<1> HIDE DEF msg, s
<1>4. Leads(n, Perm, node[n], s)
  BY <1>2, <1>3, NodeOf, HandleTeardownLeads
<1>5. Turns(n, Perm, node[n], s)
  BY <1>4 DEF Leads, Turns
<1> QED BY <1>1, <1>5, ReplyKeeps

LEMMA ProcessRepairRouteKeeps ==
  ASSUME RepairInv, NEW n \in Nodes, NEW m \in Nodes, ProcessRepairRoute(n, m)
  PROVE  RepairInv'
<1> DEFINE msg == Head(chan[m][n])
           s   == HandleRepairRoute(node[n], n, m, msg)
<1>1. /\ chan[m][n] # <<>> /\ msg.type = "RepairRoute" /\ Reply(n, m, s)
      /\ UNCHANGED <<air, setup, used>>
  BY DEF ProcessRepairRoute, Received
<1>2. msg \in RepairRouteInt
  BY <1>1, MessageOf DEF MessagesTo, TeardownInt, RepairRouteInt, RepairLinkReplyInt, RepairLinkFailInt
<1>3. s = HandleRepairRoute(node[n], n, m, msg)
  OBVIOUS
<1> HIDE DEF msg, s
<1>4. Leads(n, Perm, node[n], s)
  BY <1>2, <1>3, NodeOf, HandleRepairRouteLeads
<1>5. Turns(n, Perm, node[n], s)
  BY <1>4 DEF Leads, Turns
<1> QED BY <1>1, <1>5, ReplyKeeps

LEMMA ProcessRepairLinkReplyKeeps ==
  ASSUME RepairInv, NEW n \in Nodes, NEW m \in Nodes, ProcessRepairLinkReply(n, m)
  PROVE  RepairInv'
<1> DEFINE msg == Head(chan[m][n])
           s   == HandleReply(node[n], n, m, msg)
<1>1. /\ chan[m][n] # <<>> /\ msg.type = "RepairLinkReply" /\ Reply(n, m, s)
      /\ UNCHANGED <<air, setup, used>>
  BY DEF ProcessRepairLinkReply, Received
<1>2. msg \in RepairLinkReplyInt /\ GoodReply(Perm, n, msg)
  BY <1>1, MessageOf DEF MessagesTo, TeardownInt, RepairRouteInt, RepairLinkReplyInt, RepairLinkFailInt
<1>3. s = HandleReply(node[n], n, m, msg)
  OBVIOUS
<1> HIDE DEF msg, s
<1>4. Leads(n, Perm, node[n], s)
  BY <1>2, <1>3, NodeOf, HandleReplyLeads
<1>5. Turns(n, Perm, node[n], s)
  BY <1>4 DEF Leads, Turns
<1> QED BY <1>1, <1>5, ReplyKeeps

LEMMA ProcessRepairLinkFailKeeps ==
  ASSUME RepairInv, NEW n \in Nodes, NEW m \in Nodes, ProcessRepairLinkFail(n, m)
  PROVE  RepairInv'
<1> DEFINE s0   == node[n]
           msg  == Head(chan[m][n])
           here == UnpatchFailed(s0, msg)
           on   == SendFail(s0, msg)
           t    == msg.curr
           stop == Post(s0, m, TeardownMsg(t, n, TRUE, FALSE))
<1>1. /\ chan[m][n] # <<>> /\ msg.type = "RepairLinkFail" /\ UNCHANGED <<air, setup, used>>
      /\ \/ Reply(n, m, here) \/ Reply(n, m, on) \/ Reply(n, m, s0)
         \/ t \in PathIds /\ Reply(n, m, stop)
  BY DEF ProcessRepairLinkFail, Received
<1>2. msg \in RepairLinkFailInt /\ msg.broken \subseteq Perm
  BY <1>1, MessageOf DEF MessagesTo, TeardownInt, RepairRouteInt, RepairLinkReplyInt, RepairLinkFailInt
<1>3. NodeGood(n, Perm, s0) /\ Perm \in SUBSET PathIds /\ Leads(n, Perm, s0, s0)
  BY NodeOf
<1>4. Leads(n, Perm, s0, here)
  <2>1. here = UnpatchFailed(s0, msg)
    OBVIOUS
  <2> HIDE DEF here, s0, msg
  <2> QED BY <1>2, <1>3, <2>1, UnpatchFailedLeads
<1>5. Leads(n, Perm, s0, on)
  <2>1. on = SendFail(s0, msg)
    OBVIOUS
  <2> HIDE DEF on, s0, msg
  <2> QED BY <1>2, <1>3, <2>1, SendFailLeads
<1>6. t \in PathIds => Leads(n, Perm, s0, stop)
  <2> DEFINE yes == TRUE
             no  == FALSE
  <2>1. yes \in BOOLEAN /\ no \in BOOLEAN /\ stop = Post(s0, m, TeardownMsg(t, n, yes, no))
    OBVIOUS
  <2> HIDE DEF yes, no, stop, s0, t
  <2> QED BY <1>3, <2>1, RefuseLeads
<1> HIDE DEF here, on, stop
<1>7. ASSUME NEW s, Leads(n, Perm, s0, s), Reply(n, m, s) PROVE RepairInv'
  <2>1. Turns(n, Perm, node[n], s)
    BY <1>7 DEF Leads, Turns
  <2>2. air' \subseteq air /\ used \subseteq used' /\ UNCHANGED setup
    BY <1>1
  <2> HIDE DEF msg, s0
  <2> QED BY <1>1, <1>7, <2>1, <2>2, ReplyKeeps
<1> HIDE DEF s0, t
<1> QED BY <1>1, <1>3, <1>4, <1>5, <1>6, <1>7

LEMMA GiveUpTimerKeeps ==
  ASSUME RepairInv, NEW n \in Nodes, NEW x, GiveUpTimer(n, x)
  PROVE  RepairInv'
<1> DEFINE s == GiveUp(node[n], n, x)
<1>1. x \in DOMAIN node[n].lost /\ Step(n, s) /\ UNCHANGED <<air, setup, used>> /\ s = GiveUp(node[n], n, x)
  BY DEF GiveUpTimer
<1> HIDE DEF s
<1>2. Leads(n, Perm, node[n], s)
  BY <1>1, NodeOf, GiveUpLeads
<1>3. Turns(n, Perm, node[n], s)
  BY <1>2 DEF Leads, Turns
<1> QED BY <1>1, <1>3, StepKeeps

LEMMA RecentExpiresKeeps ==
  ASSUME RepairInv, NEW n \in Nodes, NEW t, RecentExpires(n, t)
  PROVE  RepairInv'
<1> DEFINE rec == Restrict(node[n].recent, DOMAIN node[n].recent \ {t})
           s   == WithRecent(node[n], rec)
<1>1. Becomes(n, s) /\ UNCHANGED <<chan, air, setup, used>>
  BY DEF RecentExpires, WithRecent
<1>2. RecentOK(Perm, rec)
  BY NodeOf DEF NodeGood, RecentOK, Restrict
<1>3. s = WithRecent(node[n], rec)
  OBVIOUS
<1> HIDE DEF rec, s
<1>4. Leads(n, Perm, node[n], s)
  BY <1>2, <1>3, NodeOf, PutRecent
<1>5. Turns(n, Perm, node[n], s)
  BY <1>4 DEF Leads, Turns
<1> QED BY <1>1, <1>5, BecomesKeeps

\* fields no part of the invariant is about
SameFields(s, s1) ==
  /\ NodeFields \subseteq DOMAIN s1
  /\ s1.tbl = s.tbl /\ s1.vset = s.vset /\ s1.nonEss = s.nonEss /\ s1.dismantled = s.dismantled
  /\ s1.lost = s.lost /\ s1.delayed = s.delayed /\ s1.recent = s.recent /\ s1.heard = s.heard
  /\ s1.seq = s.seq /\ s1.out = s.out

LEMMA SameFieldsLeads ==
  ASSUME NEW n, NEW P, NEW s, NodeGood(n, P, s), NEW s1, SameFields(s, s1)
  PROVE  Leads(n, P, s, s1)
BY OtherFields DEF SameFields

LEMMA LinkPneiKeeps ==
  ASSUME RepairInv, NEW n \in Nodes, NEW x \in Nodes, LinkPnei(n, x)
  PROVE  RepairInv'
<1> DEFINE a == AfterLinked(node[n], x)
           s == [a EXCEPT !.pending = @ \ {x}]
<1>1. Becomes(n, s) /\ UNCHANGED <<chan, air, setup, used>> /\ a = AfterLinked(node[n], x)
  BY DEF LinkPnei
<1> HIDE DEF a
<1>2. Leads(n, Perm, node[n], a) /\ NodeGood(n, Perm, a) /\ NodeFields \subseteq DOMAIN a
  <2>1. Leads(n, Perm, node[n], a)
    BY <1>1, NodeOf, AfterLinkedLeads
  <2> QED BY <2>1 DEF Leads, NodeGood
<1>3. SameFields(a, s)
  BY <1>2 DEF SameFields, NodeFields
<1> HIDE DEF s
<1>4. Leads(n, Perm, node[n], s)
  BY <1>2, <1>3, SameFieldsLeads, LeadsOn
<1>5. Turns(n, Perm, node[n], s)
  BY <1>4 DEF Leads, Turns
<1> QED BY <1>1, <1>5, BecomesKeeps

LEMMA UnlinkPneiKeeps ==
  ASSUME RepairInv, NEW n \in Nodes, NEW x \in Nodes, UnlinkPnei(n, x)
  PROVE  RepairInv'
<1> DEFINE a == [node[n] EXCEPT !.pending = @ \cup {x}]
           b == AfterLost(a, n, x)
           s == IF x \in a.linked THEN b ELSE a
<1>1. Step(n, s) /\ UNCHANGED <<air, setup, used>>
  BY DEF UnlinkPnei
<1>2. SameFields(node[n], a)
  BY NodeOf DEF SameFields, NodeFields
<1>3. b = AfterLost(a, n, x) /\ (s = a \/ s = b)
  OBVIOUS
<1> HIDE DEF a, b, s
<1>4. Leads(n, Perm, node[n], a) /\ NodeGood(n, Perm, a)
  BY <1>2, NodeOf, SameFieldsLeads DEF Leads
<1>5. Leads(n, Perm, a, b)
  BY <1>3, <1>4, NodeOf, Constants, AfterLostLeads
<1>6. Leads(n, Perm, node[n], s)
  BY <1>3, <1>4, <1>5, LeadsOn
<1>7. Turns(n, Perm, node[n], s)
  BY <1>6 DEF Leads, Turns
<1> QED BY <1>1, <1>7, StepKeeps

LEMMA LosePneiKeeps ==
  ASSUME RepairInv, NEW n \in Nodes, NEW x \in Nodes, LosePnei(n, x)
  PROVE  RepairInv'
<1> DEFINE s == AfterLost(node[n], n, x)
<1>1. Step(n, s) /\ UNCHANGED <<air, setup, used>> /\ s = AfterLost(node[n], n, x)
  BY DEF LosePnei
<1> HIDE DEF s
<1>2. Leads(n, Perm, node[n], s)
  BY <1>1, NodeOf, Constants, AfterLostLeads
<1>3. Turns(n, Perm, node[n], s)
  BY <1>2 DEF Leads, Turns
<1> QED BY <1>1, <1>3, StepKeeps

LEMMA ForgetPneiKeeps ==
  ASSUME RepairInv, NEW n \in Nodes, NEW x \in Nodes, ForgetPnei(n, x)
  PROVE  RepairInv'
<1> DEFINE s == [node[n] EXCEPT !.pending = @ \ {x}]
<1>1. Becomes(n, s) /\ UNCHANGED <<chan, air, setup, used>>
  BY DEF ForgetPnei
<1>2. SameFields(node[n], s)
  BY NodeOf DEF SameFields, NodeFields
<1> HIDE DEF s
<1>3. Leads(n, Perm, node[n], s)
  BY <1>2, NodeOf, SameFieldsLeads
<1>4. Turns(n, Perm, node[n], s)
  BY <1>3 DEF Leads, Turns
<1> QED BY <1>1, <1>4, BecomesKeeps

LEMMA NonEssExpiresKeeps ==
  ASSUME RepairInv, NEW n \in Nodes, NEW p \in PathIds, NonEssExpires(n, p)
  PROVE  RepairInv'
<1> DEFINE o      == node[n]
           s      == [o EXCEPT !.nonEss = @ \ {p}, !.late = @ \ {p}, !.unwanted = @ \ {p}]
           r      == RouteOf(s, p)
           onward == r.from = n
           nh     == HopTo(r, onward)
           st     == HopState(r, onward)
           msg    == TeardownMsg(p, n, FALSE, FALSE)
           less   == LoseBroken(s, p, nh)
           via    == TeardownVia(s, nh, st, msg)
           u      == IF st = 1 THEN less ELSE via
           gone   == RemovePath(u, p)
           s1     == IF ~InTable(s.tbl, p) THEN s ELSE gone
<1>1. p \in o.nonEss /\ Step(n, s1) /\ UNCHANGED <<air, setup, used>>
  BY DEF NonEssExpires
<1>2. /\ NodeFields \subseteq DOMAIN s /\ s.tbl = o.tbl /\ s.vset = o.vset /\ s.nonEss = o.nonEss \ {p}
      /\ s.dismantled = o.dismantled
      /\ s.lost = o.lost /\ s.delayed = o.delayed /\ s.recent = o.recent /\ s.heard = o.heard
      /\ s.seq = o.seq /\ s.out = o.out
  BY NodeOf DEF NodeFields
<1>3. NodeGood(n, Perm, o) /\ Perm \in SUBSET PathIds
  BY NodeOf
<1>4. /\ TableOK(n, Perm, o.tbl) /\ SetsOK(n, Perm, o.tbl, o.vset, o.nonEss, o.dismantled)
      /\ LostOK(Perm, o.tbl, o.lost)
  BY <1>3 DEF NodeGood
<1>5. SetsOK(n, Perm, s.tbl, s.vset, s.nonEss, s.dismantled)
  <2> HIDE DEF s, o
  <2> QED BY <1>2, <1>4 DEF SetsOK
<1>6. Leads(n, Perm, o, s) /\ NodeGood(n, Perm, s)
  <2> HIDE DEF s, o
  <2>1. Leads(n, Perm, o, s)
    BY <1>2, <1>3, <1>4, <1>5, PutSets
  <2> QED BY <2>1 DEF Leads
<1>7. InTable(s.tbl, p) => InNoSet(s.vset, p)
  <2> HIDE DEF s, o
  <2>1. InTable(o.tbl, p) => ~o.tbl.routes[p].isVset
    BY <1>1, <1>4 DEF SetsOK
  <2> QED BY <1>2, <1>4, <2>1 DEF SetsOK, ServesVnei, InNoSet
<1>8. InTable(s.tbl, p) => nh \in Hops
  <2>1. TableOK(n, Perm, s.tbl)
    BY <1>6 DEF NodeGood
  <2> HIDE DEF s
  <2> QED BY <2>1, RouteIn DEF RouteOf, HopTo
<1> HIDE DEF s, nh, st, o
<1>9. InTable(s.tbl, p) => Leads(n, Perm, s, u) /\ u.vset = s.vset
  <2> SUFFICES ASSUME InTable(s.tbl, p) PROVE Leads(n, Perm, s, u) /\ u.vset = s.vset
    OBVIOUS
  <2>1. Leads(n, Perm, s, less) /\ less.vset = s.vset
    <3>1. less = LoseBroken(s, p, nh)
      OBVIOUS
    <3> HIDE DEF less
    <3> QED BY <1>6, <3>1, LoseBrokenLeads
  <2>2. msg \in OnWay
    <3> DEFINE no == FALSE
    <3>1. no \in BOOLEAN /\ msg = TeardownMsg(p, n, no, no)
      OBVIOUS
    <3> HIDE DEF no, msg
    <3> QED BY <3>1, MakeTeardown
  <2> HIDE DEF msg
  <2>3. Leads(n, Perm, s, via) /\ via.vset = s.vset
    <3>1. via = TeardownVia(s, nh, st, msg)
      OBVIOUS
    <3> HIDE DEF via
    <3> QED BY <1>6, <1>8, <2>2, <3>1, TeardownViaLeads
  <2> HIDE DEF less, via
  <2> QED BY <2>1, <2>3
<1> HIDE DEF u
<1>10. InTable(s.tbl, p) => Leads(n, Perm, s, gone)
  <2> SUFFICES ASSUME InTable(s.tbl, p) PROVE Leads(n, Perm, s, gone)
    OBVIOUS
  <2>1. NodeGood(n, Perm, u) /\ \A v \in DOMAIN u.vset : p \notin u.vset[v]
    BY <1>7, <1>9 DEF Leads, InNoSet
  <2>2. gone = RemovePath(u, p)
    OBVIOUS
  <2> HIDE DEF gone
  <2>3. Leads(n, Perm, u, gone)
    BY <1>3, <2>1, <2>2, RemovePathLeads
  <2> QED BY <1>9, <2>3, LeadsOn
<1> HIDE DEF gone
<1>11. Leads(n, Perm, o, s1)
  BY <1>6, <1>10, LeadsOn
<1>12. Turns(n, Perm, node[n], s1)
  BY <1>11 DEF Leads, Turns, o
<1> HIDE DEF s1
<1> QED BY <1>1, <1>12, StepKeeps

\* it makes no difference when p leaves dismantledRoutes
LEMMA LessDismantledCommutes ==
  ASSUME NEW u, HasFields(u), NEW p, NEW x, NEW msg
  PROVE  /\ Post(LessDismantled(u, p), x, msg) = LessDismantled(Post(u, x, msg), p)
         /\ RemovePath(LessDismantled(u, p), p) = LessDismantled(RemovePath(u, p), p)
BY DEF HasFields, NodeFields, Post, LessDismantled, RemovePath

\* what is sent behind a dismantled vroute
TellBehind(u, r, toNext, msg) ==
  IF HopState(r, toNext) \in {1, 2} \/ EndTo(r, toNext) = HopTo(r, toNext) THEN u
  ELSE Post(u, HopTo(r, toNext), msg)

LEMMA TellBehindLeads ==
  ASSUME NEW n, NEW P, NEW u, NodeGood(n, P, u), NEW r, NEW toNext, NEW msg \in OnWay, NEW p,
         NEW w, w = TellBehind(u, r, toNext, msg)
  PROVE  /\ Leads(n, P, u, w) /\ KeepsTable(u, w)
         /\ TellBehind(LessDismantled(u, p), r, toNext, msg) = LessDismantled(w, p)
<1> DEFINE x    == HopTo(r, toNext)
           none == HopState(r, toNext) \in {1, 2} \/ EndTo(r, toNext) = x
           v    == Post(u, x, msg)
           l    == LessDismantled(u, p)
           k    == Post(l, x, msg)
<1>1. w = (IF none THEN u ELSE v) /\ TellBehind(l, r, toNext, msg) = IF none THEN l ELSE k
  BY DEF TellBehind
<1>2. msg \in MessagesTo(P, x) /\ HasFields(u)
  BY DEF OnWay, MessagesTo, NodeGood, HasFields
<1>3. k = LessDismantled(v, p)
  <2> HIDE DEF x
  <2> QED BY <1>2, LessDismantledCommutes
<1>4. Leads(n, P, u, v) /\ v.tbl = u.tbl
  <2> HIDE DEF x
  <2> QED BY <1>2, PostLeads
<1>5. Leads(n, P, u, u)
  BY LeadsHere
<1> HIDE DEF k, v, none
<1> QED BY <1>1, <1>3, <1>4, <1>5 DEF KeepsTable

LEMMA DismantledExpiresKeeps ==
  ASSUME RepairInv, NEW n \in Nodes, NEW p \in PathIds, DismantledExpires(n, p)
  PROVE  RepairInv'
<1> DEFINE o   == node[n]
           s   == LessDismantled(o, p)
           r   == RouteOf(o, p)
           msg == TeardownMsg(p, n, FALSE, FALSE)
           no  == FALSE
           yes == TRUE
           w0  == TellBehind(o, r, no, msg)
           w1  == TellBehind(w0, r, yes, msg)
           z0  == TellBehind(s, r, no, msg)
           z1  == TellBehind(z0, r, yes, msg)
           gone == RemovePath(w1, p)
           s1   == IF InTable(s.tbl, p) THEN RemovePath(z1, p) ELSE s
<1>1. p \in o.dismantled /\ Step(n, s1) /\ UNCHANGED <<air, setup, used>>
  <2>1. RouteOf(s, p) = r
    BY NodeOf DEF LessDismantled, RouteOf, NodeFields
  <2> HIDE DEF r
  <2> QED BY <2>1 DEF DismantledExpires, TellBehind, LessDismantled
<1>2. NodeGood(n, Perm, o) /\ Perm \in SUBSET PathIds /\ s.tbl = o.tbl
  BY NodeOf DEF LessDismantled, NodeFields
<1>3. msg \in OnWay
  <2>1. no \in BOOLEAN /\ msg = TeardownMsg(p, n, no, no)
    OBVIOUS
  <2> HIDE DEF no, msg
  <2> QED BY <2>1, MakeTeardown
<1>s. s = LessDismantled(o, p)
  OBVIOUS
<1>r. r = RouteOf(o, p)
  OBVIOUS
<1> HIDE DEF o, s, r, msg, no, yes
<1>4. Leads(n, Perm, o, w0) /\ KeepsTable(o, w0) /\ z0 = LessDismantled(w0, p)
  <2>1. w0 = TellBehind(o, r, no, msg)
    OBVIOUS
  <2> HIDE DEF w0
  <2> QED BY <1>2, <1>3, <1>s, <2>1, TellBehindLeads
<1> HIDE DEF w0
<1>5. NodeGood(n, Perm, w0)
  BY <1>4 DEF Leads
<1>6. Leads(n, Perm, w0, w1) /\ KeepsTable(w0, w1) /\ z1 = LessDismantled(w1, p)
  <2>1. w1 = TellBehind(w0, r, yes, msg)
    OBVIOUS
  <2> HIDE DEF w1, z0
  <2> QED BY <1>3, <1>4, <1>5, <2>1, TellBehindLeads
<1> HIDE DEF w1, z0, z1
<1>7. Leads(n, Perm, o, w1) /\ KeepsTable(o, w1) /\ HasFields(w1)
  BY <1>4, <1>6, LeadsOn DEF KeepsTable, Leads, NodeGood, HasFields
<1>8. InTable(o.tbl, p) => Leads(n, Perm, o, gone) /\ ~InTable(gone.tbl, p)
  <2> SUFFICES ASSUME InTable(o.tbl, p) PROVE Leads(n, Perm, o, gone) /\ ~InTable(gone.tbl, p)
    OBVIOUS
  <2>1. TableOK(n, Perm, o.tbl) /\ SetsOK(n, Perm, o.tbl, o.vset, o.nonEss, o.dismantled)
    BY <1>2 DEF NodeGood
  <2>2. IsDismantledRoute(o.tbl.routes[p].unavail)
    BY <1>1, <2>1 DEF SetsOK
  <2>3. RouteOf(o, p).prev # NullVid /\ RouteOf(o, p).next # NullVid
    BY <2>1, <2>2, RouteIn DEF RouteOK, RouteOf
  <2>4. gone = RemovePath(w1, p)
    OBVIOUS
  <2>5. gone.tbl = RemoveRoute(w1.tbl, p)
    BY <1>7 DEF RemovePath, HasFields, NodeFields
  <2> HIDE DEF gone
  <2>6. Leads(n, Perm, o, gone)
    BY <1>2, <1>7, <2>3, <2>4, RemoveMiddle
  <2>7. ~InTable(gone.tbl, p)
    BY <1>7, <2>1, <2>5, RemoveRouteOK DEF KeepsTable
  <2> QED BY <2>6, <2>7
<1>9. RemovePath(z1, p) = LessDismantled(gone, p)
  BY <1>6, <1>7, LessDismantledCommutes
<1> HIDE DEF gone
<1>10. Leads(n, Perm, o, s1)
  <2>1. CASE InTable(o.tbl, p)
    <3> DEFINE b == LessDismantled(gone, p)
    <3>1. s1 = b
      BY <1>2, <1>9, <2>1
    <3>2. NodeGood(n, Perm, gone) /\ b = LessDismantled(gone, p)
      BY <1>8, <2>1 DEF Leads
    <3> HIDE DEF b
    <3>3. Leads(n, Perm, gone, b)
      BY <1>8, <2>1, <3>2, LessDismantledLeads
    <3> QED BY <1>8, <2>1, <3>1, <3>3, LeadsOn
  <2>2. CASE ~InTable(o.tbl, p)
    <3>1. s1 = s
      BY <1>2, <2>2
    <3> QED BY <1>2, <1>s, <2>2, <3>1, LessDismantledLeads
  <2> QED BY <2>1, <2>2
<1>11. Turns(n, Perm, node[n], s1)
  BY <1>10 DEF Leads, Turns, o
<1> HIDE DEF s1
<1> QED BY <1>1, <1>11, StepKeeps

LEMMA DelayedRepairKeeps ==
  ASSUME RepairInv, NEW n \in Nodes, NEW live \in SUBSET DOMAIN node[n].delayed, NEW draw \in Draws(n),
         DelayedRepair(n, live, draw)
  PROVE  RepairInv'
<1> DEFINE o  == node[n]
           a  == [o EXCEPT !.wake = FALSE]
           d  == Restrict(o.delayed, live)
           s  == WithDelayed(a, d)
           t  == RetryThese(s, n, live, draw)
           s1 == IF SetupTempRoute THEN t ELSE a
<1>1. Step(n, s1) /\ UNCHANGED <<air, setup>> /\ used \subseteq used'
  <2>1. [o EXCEPT !.wake = FALSE, !.delayed = Restrict(@, live)] = s
    BY NodeOf DEF WithDelayed, NodeFields
  <2> HIDE DEF s
  <2> QED BY <2>1 DEF DelayedRepair, RetryThese
<1>2. SameFields(o, a) /\ NodeGood(n, Perm, o) /\ Perm \in SUBSET PathIds /\ live \in SUBSET DOMAIN o.delayed
  BY NodeOf DEF SameFields, NodeFields
<1> HIDE DEF o, a
<1>3. Leads(n, Perm, o, a) /\ NodeGood(n, Perm, a)
  BY <1>2, SameFieldsLeads DEF Leads
<1>4. DelayedOK(n, Perm, d) /\ DOMAIN d = live
  BY <1>2 DEF NodeGood, DelayedOK, Restrict
<1> HIDE DEF d
<1>5. Turns(n, Perm, a, s) /\ s.delayed = d
  <2>1. s = WithDelayed(a, d)
    OBVIOUS
  <2> HIDE DEF s
  <2> QED BY <1>3, <1>4, <2>1, PutDelayed
<1>6. \A src \in live : draw[src] \in PathIds /\ draw[src] \notin Perm
  BY <1>2 DEF Draws, RepairInv, o
<1>7. Turns(n, Perm, s, t)
  <2>1. t = RetryThese(s, n, live, draw)
    OBVIOUS
  <2>2. NodeGood(n, Perm, s) /\ live \in SUBSET DOMAIN s.delayed
    BY <1>4, <1>5 DEF Turns
  <2> HIDE DEF s, t
  <2> QED BY <1>2, <1>6, <2>1, <2>2, RetryAll
<1> HIDE DEF s, t
<1>8. Turns(n, Perm, o, s1)
  BY <1>3, <1>5, <1>7 DEF Turns, Leads
<1>9. Turns(n, Perm, node[n], s1)
  BY <1>8 DEF o
<1> HIDE DEF s1
<1> QED BY <1>1, <1>9, StepKeeps

LEMMA LinksDownKeeps ==
  ASSUME RepairInv, NEW ls, LinksDown(ls)
  PROVE  RepairInv'
<1>1. /\ chan' = [n \in Nodes |-> [m \in Nodes |-> IF {n, m} \in ls THEN <<>> ELSE chan[n][m]]]
      /\ air' \subseteq air /\ UNCHANGED <<node, setup, used>>
  BY DEF LinksDown
<1>2. ASSUME NEW n \in Nodes PROVE SentOK(Perm, chan'[n])
  <2>1. SentOK(Perm, chan[n])
    BY DEF RepairInv, ChanOK
  <2>2. DOMAIN chan'[n] = Nodes /\ \A m \in Nodes : chan'[n][m] = <<>> \/ chan'[n][m] = chan[n][m]
    BY <1>1
  <2>3. \A m \in Nodes : <<>> \in Seq(MessagesTo(Perm, m))
    OBVIOUS
  <2> QED BY <2>1, <2>2, <2>3 DEF SentOK
<1>3. ChanOK(Perm, chan')
  BY <1>1, <1>2 DEF ChanOK
<1> QED BY <1>1, <1>3, StillKeeps

LEMMA LinkUpKeeps ==
  ASSUME RepairInv, NEW l, LinkUp(l)
  PROVE  RepairInv'
<1>1. UNCHANGED <<node, chan, air, setup, used>>
  BY DEF LinkUp
<1>2. ChanOK(Perm, chan')
  BY <1>1 DEF RepairInv
<1> QED BY <1>1, <1>2, StillKeeps

LEMMA StutterKeeps ==
  ASSUME RepairInv, UNCHANGED vars
  PROVE  RepairInv'
<1>1. UNCHANGED <<node, chan, air, setup, used>>
  BY DEF vars
<1>2. ChanOK(Perm, chan')
  BY <1>1 DEF RepairInv
<1> QED BY <1>1, <1>2, StillKeeps

-----------------------------------------------------------------------------
(* Floods                                                                  *)

LEMMA CastOK ==
  ASSUME NEW P, NEW nd, NEW n, NEW g, FloodOK(P, g), PassedOn(nd, g)
  PROVE  AirOK(P, nd, Cast(n, g))
<1> SUFFICES ASSUME NEW m \in Nodes PROVE FloodOK(P, [g EXCEPT !.to = m]) /\ PassedOn(nd, [g EXCEPT !.to = m])
  BY DEF AirOK, Cast, Nbrs
<1> DEFINE f == [g EXCEPT !.to = m]
<1>1. g \in [to : Nodes, dst : {g.dst}, trace : Seq(Nodes), seq : Nat, ttl : {g.ttl}]
  BY DEF FloodOK
<1>2. /\ f \in [to : Nodes, dst : {f.dst}, trace : Seq(Nodes), seq : Nat, ttl : {f.ttl}]
      /\ f.dst = g.dst /\ f.trace = g.trace /\ f.seq = g.seq
  BY <1>1
<1> HIDE DEF f
<1>3. FloodOK(P, f) /\ PassedOn(nd, f)
  BY <1>2 DEF FloodOK, PassedOn
<1> QED BY <1>3 DEF f

\* whom the node behind a break asks, and for what
LEMMA LookupOK ==
  ASSUME NEW n, NEW P \in SUBSET PathIds, NEW s, NodeGood(n, P, s), NEW x \in DOMAIN s.lost,
         NEW dst, dst = Lookup(s, n, x)
  PROVE  n \notin DOMAIN dst /\ \A v \in DOMAIN dst : dst[v] \subseteq P
<1> DEFINE ps == {p \in s.lost[x].broken : InTable(s.tbl, p) /\ RouteOf(s, p).prev = x}
           asks(p) == Range(RouteOf(s, p).prevhops) \cup {RouteOf(s, p).from}
<1>1. dst = [v \in UNION {asks(p) : p \in ps} |-> {p \in ps : v \in asks(p)}]
  BY DEF Lookup
<1>2. x # NullVid /\ s.lost[x].broken \subseteq P /\ TableOK(n, P, s.tbl)
  <2>1. x # NullVid /\ s.lost[x].broken \in SUBSET P
    BY LostFields
  <2> QED BY <2>1 DEF NodeGood
<1>3. ASSUME NEW p \in ps PROVE n \notin asks(p)
  <2>1. p \in PathIds /\ InTable(s.tbl, p) /\ RouteOf(s, p).prev = x
    BY <1>2
  <2>2. RouteOK(n, P, p, RouteOf(s, p))
    BY <1>2, <2>1, RouteIn DEF RouteOf
  <2> QED BY <1>2, <2>1, <2>2 DEF RouteOK
<1>4. ps \subseteq P
  BY <1>2
<1> HIDE DEF ps, asks
<1>5. n \notin UNION {asks(p) : p \in ps}
  BY <1>3
<1> QED BY <1>1, <1>4, <1>5

WithSeq(s, k) == [s EXCEPT !.seq = k]

LEMMA PutSeq ==
  ASSUME NEW n, NEW P, NEW s, NodeGood(n, P, s), NEW k \in Nat, NEW s1, s1 = WithSeq(s, k)
  PROVE  NodeGood(n, P, s1) /\ s1.heard = s.heard
<1>1. NodeFields \subseteq DOMAIN s
  BY DEF NodeGood
<1>2. /\ s1.tbl = s.tbl /\ s1.vset = s.vset /\ s1.nonEss = s.nonEss /\ s1.dismantled = s.dismantled
      /\ s1.lost = s.lost /\ s1.delayed = s.delayed /\ s1.recent = s.recent /\ s1.heard = s.heard
      /\ s1.seq = k /\ s1.out = s.out /\ NodeFields \subseteq DOMAIN s1
  BY <1>1 DEF WithSeq, NodeFields
<1> QED BY <1>2 DEF NodeGood

LEMMA RepairTimerKeeps ==
  ASSUME RepairInv, NEW n \in Nodes, NEW x, RepairTimer(n, x)
  PROVE  RepairInv'
<1> DEFINE o      == node[n]
           dst    == Lookup(o, n, x)
           asking == dst # <<>>
           e      == [o.lost[x] EXCEPT !.timer = @ + 1, !.due = (o.lost[x].broken = {})]
           a      == WithEntry(o, x, e)
           k      == IF asking THEN o.seq + 1 ELSE o.seq
           s      == WithSeq(a, k)
           g      == FloodMsg(n, dst, k)
           new    == IF asking THEN Cast(n, g) ELSE {}
<1>1. /\ x \in DOMAIN o.lost /\ o.lost[x].timer \in 0 .. RetryLimit - 1
      /\ Becomes(n, s) /\ air' = air \cup new /\ UNCHANGED <<chan, setup, used>>
  <2> DEFINE t == [o EXCEPT !.lost[x].timer = @ + 1, !.lost[x].due = (o.lost[x].broken = {}),
                            !.seq = IF asking THEN @ + 1 ELSE @]
  <2>1. /\ x \in DOMAIN o.lost /\ o.lost[x].timer \in 0 .. RetryLimit - 1
        /\ Becomes(n, t) /\ air' = air \cup (IF asking THEN Cast(n, FloodMsg(n, dst, t.seq)) ELSE {})
        /\ UNCHANGED <<chan, setup, used>>
    BY DEF RepairTimer
  <2>2. t = s /\ t.seq = k
    <3> HIDE DEF asking
    <3> QED BY NodeOf DEF WithSeq, WithEntry, NodeFields
  <2> HIDE DEF t, s, asking, dst, k
  <2> QED BY <2>1, <2>2
<1>2. NodeGood(n, Perm, o) /\ Perm \in SUBSET PathIds
  BY NodeOf
<1>3. e \in LostPneiInfo /\ e.broken \subseteq o.lost[x].broken /\ e.temp \cap Perm = {}
  <2>1. o.lost[x] \in LostPneiInfo /\ o.lost[x].temp \cap Perm = {}
    BY <1>1, <1>2 DEF NodeGood, LostOK
  <2>2. o.lost[x].timer + 1 \in WaitRepairLinkIntTimer
    BY <1>1, Constants DEF WaitRepairLinkIntTimer
  <2> QED BY <2>1, <2>2 DEF LostPneiInfo
<1>4. k \in Nat
  BY <1>2 DEF NodeGood
<1>5. n \notin DOMAIN dst /\ \A v \in DOMAIN dst : dst[v] \subseteq Perm
  <2>1. dst = Lookup(o, n, x)
    OBVIOUS
  <2> HIDE DEF dst, o
  <2> QED BY <1>1, <1>2, <2>1, LookupOK
<1> HIDE DEF dst, asking, k, e
<1>6. NodeGood(n, Perm, a) /\ a.heard = o.heard
  <2>1. a = WithEntry(o, x, e)
    OBVIOUS
  <2> HIDE DEF a, o
  <2> QED BY <1>1, <1>2, <1>3, <2>1, PutEntry DEF Leads
<1> HIDE DEF a
<1>7. NodeGood(n, Perm, s) /\ s.heard = o.heard
  <2>1. s = WithSeq(a, k)
    OBVIOUS
  <2> HIDE DEF s
  <2> QED BY <1>4, <1>6, <2>1, PutSeq
<1> HIDE DEF s
<1>8. FloodOK(Perm, g) /\ \A nd : PassedOn(nd, g)
  <2>1. /\ g = [to |-> n, dst |-> dst, trace |-> <<n>>, seq |-> k, ttl |-> FloodTTL]
    BY DEF FloodMsg
  <2>2. Range(<<n>>) = {n} /\ <<n>>[1] = n /\ <<n>> \in Seq(Nodes) /\ <<n>> # <<>>
    BY DEF Range
  <2> QED BY <1>4, <1>5, <2>1, <2>2 DEF FloodOK, PassedOn
<1> HIDE DEF g
<1>9. AirOK(Perm, NodePut(node, n, s), new)
  <2>1. AirOK(Perm, NodePut(node, n, s), Cast(n, g))
    BY <1>8, CastOK
  <2> QED BY <2>1 DEF AirOK
<1> HIDE DEF new
<1>10. Remembers(node[n].heard, s.heard)
  BY <1>2, <1>7, RemembersSame DEF o
<1>11. ChanOK(Perm, chan')
  BY <1>1 DEF RepairInv
<1> QED BY <1>1, <1>7, <1>9, <1>10, <1>11, HandlerCasts

WithHeard(s, heard) == [s EXCEPT !.heard = heard]

LEMMA PutHeard ==
  ASSUME NEW n, NEW P, NEW s, NodeGood(n, P, s), NEW h, HeardOK(h), NEW s1, s1 = WithHeard(s, h)
  PROVE  NodeGood(n, P, s1) /\ s1.heard = h
<1>1. NodeFields \subseteq DOMAIN s
  BY DEF NodeGood
<1>2. /\ s1.tbl = s.tbl /\ s1.vset = s.vset /\ s1.nonEss = s.nonEss /\ s1.dismantled = s.dismantled
      /\ s1.lost = s.lost /\ s1.delayed = s.delayed /\ s1.recent = s.recent /\ s1.heard = h
      /\ s1.seq = s.seq /\ s1.out = s.out /\ NodeFields \subseteq DOMAIN s1
  BY <1>1 DEF WithHeard, NodeFields
<1> QED BY <1>2 DEF NodeGood

\* the record of the numbers after flood k of src was heard
HeardNow(h, src, k) ==
  IF k > (IF src \in DOMAIN h THEN h[src] ELSE 0) THEN Put(h, src, k) ELSE h

LEMMA HeardRises ==
  ASSUME NEW h, HeardOK(h), NEW src \in Nodes, NEW k \in Nat, NEW h1, h1 = HeardNow(h, src, k)
  PROVE  HeardOK(h1) /\ Remembers(h, h1)
<1> DEFINE last == IF src \in DOMAIN h THEN h[src] ELSE 0
<1>1. CASE k > last
  <2>1. /\ DOMAIN h1 = DOMAIN h \cup {src} /\ h1[src] = k
        /\ \A y \in DOMAIN h : y # src => h1[y] = h[y]
    BY <1>1 DEF HeardNow, Put
  <2>2. \A y \in DOMAIN h : h[y] \in Nat
    BY DEF HeardOK
  <2>3. src \in DOMAIN h => h[src] <= k
    BY <1>1, <2>2
  <2>4. \A y \in DOMAIN h : y \in DOMAIN h1 /\ h[y] <= h1[y]
    BY <2>1, <2>2, <2>3
  <2>5. \A y \in DOMAIN h1 : h1[y] \in Nat
    BY <2>1, <2>2
  <2> QED BY <2>4, <2>5 DEF HeardOK, Remembers
<1>2. CASE ~(k > last)
  <2>1. h1 = h
    BY <1>2 DEF HeardNow
  <2> QED BY <2>1 DEF HeardOK, Remembers
<1> QED BY <1>1, <1>2

\* what n passes on asks nobody on the trace, and n has recorded it
LEMMA FloodOnOK ==
  ASSUME NEW P, NEW n \in Nodes, NEW f, FloodOK(P, f), NEW g, g = FloodOn(n, f)
  PROVE  /\ FloodOK(P, g) /\ g.trace[1] = f.trace[1] /\ g.seq = f.seq
         /\ Range(g.trace) = Range(f.trace) \cup {n}
<1>1. f \in [to : Nodes, dst : {f.dst}, trace : Seq(Nodes), seq : Nat, ttl : {f.ttl}]
  BY DEF FloodOK
<1>2. /\ g.to = f.to /\ g.dst = Restrict(f.dst, DOMAIN f.dst \ {n}) /\ g.trace = Append(f.trace, n)
      /\ g.seq = f.seq /\ g.ttl = f.ttl - 1
      /\ g \in [to : {g.to}, dst : {g.dst}, trace : {g.trace}, seq : {g.seq}, ttl : {g.ttl}]
  BY <1>1 DEF FloodOn
<1> DEFINE tr == f.trace
<1>3. tr \in Seq(Nodes) /\ tr # <<>>
  BY <1>1 DEF FloodOK
<1>4. /\ Append(tr, n) \in Seq(Nodes) /\ Append(tr, n) # <<>> /\ Append(tr, n)[1] = tr[1]
      /\ Range(Append(tr, n)) = Range(tr) \cup {n}
  <2> HIDE DEF tr
  <2>1. /\ Append(tr, n) \in Seq(Nodes) /\ Len(Append(tr, n)) = Len(tr) + 1 /\ Len(tr) \in Nat \ {0}
        /\ Append(tr, n)[Len(tr) + 1] = n /\ \A i \in 1 .. Len(tr) : Append(tr, n)[i] = tr[i]
    BY <1>3
  <2>2. DOMAIN tr = 1 .. Len(tr) /\ DOMAIN Append(tr, n) = 1 .. (Len(tr) + 1)
    BY <1>3, <2>1
  <2>3. Range(Append(tr, n)) = Range(tr) \cup {n}
    <3>1. 1 .. (Len(tr) + 1) = (1 .. Len(tr)) \cup {Len(tr) + 1}
      BY <2>1
    <3> QED BY <2>1, <2>2, <3>1 DEF Range
  <2> QED BY <2>1, <2>2, <2>3
<1> HIDE DEF tr
<1>5. DOMAIN g.dst = DOMAIN f.dst \ {n} /\ \A v \in DOMAIN g.dst : g.dst[v] = f.dst[v]
  BY <1>2 DEF Restrict
<1>6. /\ DOMAIN f.dst \cap Range(f.trace) = {}
      /\ \A v \in DOMAIN f.dst : f.dst[v] \subseteq P
  BY DEF FloodOK
<1>7. g.to \in Nodes /\ g.seq \in Nat
  BY <1>1, <1>2
<1>8. g.trace \in Seq(Nodes) /\ g.trace # <<>> /\ g.trace[1] = f.trace[1] /\ Range(g.trace) = Range(f.trace) \cup {n}
  BY <1>2, <1>4 DEF tr
<1>9. g \in [to : Nodes, dst : {g.dst}, trace : Seq(Nodes), seq : Nat, ttl : {g.ttl}]
  BY <1>2, <1>7, <1>8
<1>10. DOMAIN g.dst \cap Range(g.trace) = {} /\ \A v \in DOMAIN g.dst : g.dst[v] \subseteq P
  BY <1>5, <1>6, <1>8
<1> QED BY <1>2, <1>8, <1>9, <1>10 DEF FloodOK

LEMMA ProcessFloodKeeps ==
  ASSUME RepairInv, NEW n \in Nodes, NEW f \in air, NEW t \in PathIds, ProcessFlood(n, f, t)
  PROVE  RepairInv'
<1> DEFINE o    == node[n]
           src  == f.trace[1]
           last == IF src \in DOMAIN o.heard THEN o.heard[src] ELSE 0
           h    == HeardNow(o.heard, src, f.seq)
           s    == WithHeard(o, h)
           s1   == HearReq(s, n, f, t)
           on   == FloodOn(n, f)
           new  == IF f.seq > last /\ f.ttl > 1 /\ on.dst # <<>> THEN Cast(n, on) ELSE {}
           old  == src = n \/ f.seq < last \/ (f.seq = last /\ n \notin DOMAIN f.dst)
<1>1. [o EXCEPT !.heard = IF f.seq > last THEN Put(@, src, f.seq) ELSE @] = s
  BY NodeOf DEF WithHeard, HeardNow, NodeFields
<1>2. /\ n \in DOMAIN f.dst => t \notin used
      /\ IF old THEN air' = air \ {f} /\ UNCHANGED <<node, chan, used>>
         ELSE /\ Step(n, s1) /\ used' = used \cup Drawn(n, s1) /\ air' = (air \ {f}) \cup new
      /\ UNCHANGED setup
  <2> HIDE DEF s
  <2> QED BY <1>1 DEF ProcessFlood
<1>3. CASE old
  <2>1. ChanOK(Perm, chan') /\ air' \subseteq air /\ UNCHANGED <<node, setup, used>>
    <3> HIDE DEF old
    <3> QED BY <1>2, <1>3 DEF RepairInv
  <2> QED BY <2>1, StillKeeps
<1>4. CASE ~old
  <2>1. /\ src # n /\ Step(n, s1) /\ used \subseteq used' /\ air' \subseteq air \cup new /\ UNCHANGED setup
    <3> HIDE DEF src, s1, new, last
    <3> QED BY <1>2, <1>4
  <2>2. NodeGood(n, Perm, o) /\ Perm \in SUBSET PathIds
    BY NodeOf
  <2>3. FloodOK(Perm, f) /\ PassedOn(node, f)
    BY DEF RepairInv, AirOK
  <2>4. f.seq \in Nat /\ src \in Nodes /\ src \in Range(f.trace) /\ src = f.trace[1]
    <3>1. f.trace \in Seq(Nodes) /\ f.trace # <<>> /\ f.seq \in Nat
      BY <2>3 DEF FloodOK
    <3> DEFINE tr == f.trace
    <3>2. tr[1] \in Nodes /\ tr[1] \in Range(tr)
      <4>1. tr \in Seq(Nodes) /\ tr # <<>>
        BY <3>1
      <4> HIDE DEF tr
      <4>2. 1 \in DOMAIN tr
        BY <4>1
      <4> QED BY <4>1, <4>2 DEF Range
    <3> QED BY <3>1, <3>2
  <2>5. n \in DOMAIN f.dst => t \notin Perm
    BY <1>2 DEF RepairInv
  <2>6. h = HeardNow(o.heard, src, f.seq) /\ (f.seq > last => h = Put(o.heard, src, f.seq)) /\ HeardOK(o.heard)
    BY <2>2 DEF HeardNow, NodeGood
  <2> HIDE DEF src, h, last
  <2>7. HeardOK(h) /\ Remembers(o.heard, h)
    <3> HIDE DEF o
    <3> QED BY <2>4, <2>6, HeardRises
  <2>8. NodeGood(n, Perm, s) /\ s.heard = h
    <3>1. s = WithHeard(o, h)
      OBVIOUS
    <3> HIDE DEF s, o
    <3> QED BY <2>2, <2>7, <3>1, PutHeard
  <2>9. Turns(n, Perm, s, s1)
    <3>1. s1 = HearReq(s, n, f, t)
      OBVIOUS
    <3>2. f.trace[1] # n
      BY <2>1, <2>4
    <3> HIDE DEF s, s1
    <3> QED BY <2>2, <2>3, <2>5, <2>8, <3>1, <3>2, HearReqTurns
  <2> HIDE DEF s, s1
  <2>10. NodeGood(n, Perm, s1) /\ s1.heard = h
    BY <2>8, <2>9 DEF Turns
  <2>11. Becomes(n, s1) /\ chan' = After(chan, n, s1.out)
    BY <2>1 DEF Step
  <2>12. ChanOK(Perm, chan')
    <3>1. ChanOK(Perm, chan) /\ SentOK(Perm, s1.out)
      BY <2>10 DEF RepairInv, NodeGood
    <3> QED BY <2>11, <3>1, SentAfter
  <2> DEFINE nd == NodePut(node, n, s1)
  <2>13. AirOK(Perm, nd, new)
    <3> SUFFICES ASSUME f.seq > last PROVE AirOK(Perm, nd, Cast(n, on))
      <4> HIDE DEF nd, on
      <4> QED BY DEF AirOK
    <3>1. /\ FloodOK(Perm, on) /\ on.trace[1] = f.trace[1] /\ on.seq = f.seq
          /\ Range(on.trace) = Range(f.trace) \cup {n}
      <4>1. on = FloodOn(n, f)
        OBVIOUS
      <4> HIDE DEF on
      <4>2. FloodOK(Perm, on) /\ on.seq = f.seq
        BY <2>3, <4>1, FloodOnOK
      <4>3. Range(on.trace) = Range(f.trace) \cup {n} /\ on.trace[1] = f.trace[1]
        BY <2>3, <4>1, FloodOnOK
      <4> QED BY <4>2, <4>3
    <3>2. nd[n].heard = h /\ \A k \in Nodes : k # n => nd[k] = node[k]
      <4>1. nd = NodePut(node, n, s1) /\ NodesOK(Perm, node)
        BY DEF RepairInv
      <4> HIDE DEF nd
      <4> QED BY <2>10, <4>1, NodeBecomes
    <3> HIDE DEF nd, on
    <3>3. src \in DOMAIN h /\ h[src] = f.seq
      BY <2>6 DEF Put
    <3>4. f.seq <= h[src]
      BY <2>4, <3>3
    <3>5. Range(f.trace) \subseteq Nodes
      BY <2>3 DEF FloodOK, Range
    <3>6. PassedOn(nd, on)
      <4> SUFFICES ASSUME NEW u \in Range(f.trace) \cup {n}, u # src
                   PROVE  src \in DOMAIN nd[u].heard /\ f.seq <= nd[u].heard[src]
        BY <2>4, <3>1 DEF PassedOn
      <4>1. CASE u = n
        BY <3>2, <3>3, <3>4, <4>1
      <4>2. CASE u # n
        BY <2>3, <2>4, <3>2, <3>5, <4>2 DEF PassedOn
      <4> QED BY <4>1, <4>2
    <3> QED BY <3>1, <3>6, CastOK
  <2> HIDE DEF nd, new
  <2>14. Remembers(node[n].heard, s1.heard)
    BY <2>7, <2>10
  <2> QED BY <2>1, <2>10, <2>11, <2>12, <2>13, <2>14, HandlerCasts DEF nd
<1> QED BY <1>3, <1>4
-----------------------------------------------------------------------------
(* Initially                                                               *)

\* the nodes a vroute came through, at the i-th of its nodes
LEMMA PrevhopsBefore ==
  ASSUME NEW path \in Seq(Nodes), IsInjective(path), NEW i \in 1 .. Len(path), NEW q, q = Prevhops(path, i)
  PROVE  q \in Seq(Vids) /\ path[i] \notin Range(q) /\ (i = 1 => q = <<>>)
<1> DEFINE k == IF i > PrevhopSize THEN i - PrevhopSize ELSE 1
           w == SubSeq(path, k, i - 1)
<1>1. PrevhopSize \in Nat \ {0} /\ Len(path) \in Nat /\ DOMAIN path = 1 .. Len(path)
  BY RepairAssumption
<1>2. k \in 1 .. i /\ (i = 1 => k = 1)
  BY <1>1
<1>3. /\ w \in Seq(Nodes) /\ Len(w) = i - k
      /\ \A j \in 1 .. Len(w) : w[j] = path[k + j - 1]
  <2> HIDE DEF k
  <2>1. w = [j \in 1 .. i - k |-> path[k + j - 1]]
    BY <1>1, <1>2
  <2>2. \A j \in 1 .. i - k : k + j - 1 \in 1 .. Len(path)
    BY <1>1, <1>2
  <2>3. i - k \in Nat /\ \A j \in 1 .. i - k : path[k + j - 1] \in Nodes
    BY <1>1, <1>2, <2>2
  <2> HIDE DEF w
  <2> QED BY <2>1, <2>3
<1>4. q = Reverse(w)
  BY DEF Prevhops
<1> HIDE DEF k, w
<1>5. q = [j \in 1 .. Len(w) |-> w[Len(w) - j + 1]]
  BY <1>4 DEF Reverse
<1>6. Len(w) \in Nat /\ \A j \in 1 .. Len(w) : Len(w) - j + 1 \in 1 .. Len(w)
  BY <1>3
<1>7. q \in Seq(Vids)
  <2>1. \A j \in 1 .. Len(w) : w[Len(w) - j + 1] \in Vids
    BY <1>3, <1>6 DEF Nodes
  <2> QED BY <1>5, <1>6, <2>1
<1>8. ASSUME NEW j \in 1 .. Len(w) PROVE q[j] # path[i]
  <2> DEFINE l == k + (Len(w) - j + 1) - 1
  <2>1. q[j] = path[l]
    BY <1>3, <1>5, <1>6
  <2>2. l \in 1 .. Len(path) /\ l < i
    BY <1>1, <1>2, <1>3
  <2> HIDE DEF l
  <2> QED BY <1>1, <2>1, <2>2 DEF IsInjective
<1>9. DOMAIN q = 1 .. Len(w)
  BY <1>5
<1>10. i = 1 => q = <<>>
  BY <1>2, <1>3, <1>5
<1> QED BY <1>7, <1>8, <1>9, <1>10 DEF Range

StartHop(path, i, b) == [HopOn(path, i) EXCEPT !.isVset = b]

LEMMA StartHopOK ==
  ASSUME NEW path \in Seq(Nodes), IsInjective(path), Len(path) > 1, NEW i \in 1 .. Len(path), NEW b \in BOOLEAN,
         NEW P, NEW p \in P, NEW r, r = StartHop(path, i, b)
  PROVE  /\ r \in Route /\ RouteOK(path[i], P, p, r) /\ r.isVset = b /\ r.unavail = 0
         /\ r.from = path[1] /\ r.to = path[Len(path)]
         /\ path[i] \in {r.from, r.to} <=> i \in {1, Len(path)}
<1> DEFINE n  == path[i]
           q  == Prevhops(path, i)
           pr == IF i = 1 THEN NullVid ELSE path[i - 1]
           nx == IF i = Len(path) THEN NullVid ELSE path[i + 1]
<1>1. r = [from |-> path[1], to |-> path[Len(path)], prev |-> pr, next |-> nx, isVset |-> b,
           unavail |-> 0, repairSent |-> FALSE, prevhops |-> q]
  BY DEF StartHop, HopOn, NewRoute, Last
<1>2. Len(path) \in Nat /\ DOMAIN path = 1 .. Len(path)
  OBVIOUS
<1>3. /\ path[1] \in Nodes /\ path[Len(path)] \in Nodes /\ n \in Nodes
      /\ path[1] # path[Len(path)] /\ (n = path[1] <=> i = 1) /\ (n = path[Len(path)] <=> i = Len(path))
  <2> DEFINE z == Len(path)
  <2>1. 1 \in DOMAIN path /\ z \in DOMAIN path /\ i \in DOMAIN path /\ 1 # z
    BY <1>2
  <2>2. \A j \in DOMAIN path : path[j] \in Nodes
    BY <1>2
  <2>3. \A j \in DOMAIN path, l \in DOMAIN path : path[j] = path[l] => j = l
    BY DEF IsInjective
  <2> HIDE DEF z
  <2>4. /\ path[1] \in Nodes /\ path[z] \in Nodes /\ n \in Nodes
        /\ path[1] # path[z] /\ (n = path[1] <=> i = 1) /\ (n = path[z] <=> i = z)
    BY <2>1, <2>2, <2>3
  <2> QED BY <2>4 DEF z
<1>4. Nodes \subseteq Vids /\ NullVid \notin Vids
  BY RouteAssumption DEF Nodes
<1>5. q \in Seq(Vids) /\ n \notin Range(q) /\ (i = 1 => q = <<>>)
  BY PrevhopsBefore
<1>6. pr \in Hops /\ (pr = NullVid <=> i = 1)
  BY <1>2, <1>4 DEF Hops
<1>7. nx \in Hops /\ (nx = NullVid <=> i = Len(path))
  <2> DEFINE z == Len(path)
  <2>1. i # z => i + 1 \in DOMAIN path
    <3>1. z \in Nat /\ i \in 1 .. z /\ DOMAIN path = 1 .. z
      BY <1>2
    <3> HIDE DEF z
    <3>2. i # z => i + 1 \in 1 .. z
      BY <3>1
    <3> QED BY <3>1, <3>2
  <2>2. nx = IF i = z THEN NullVid ELSE path[i + 1]
    OBVIOUS
  <2>4. i # z => path[i + 1] \in Nodes
    BY <2>1
  <2> HIDE DEF z, nx
  <2>3. nx \in Hops /\ (nx = NullVid <=> i = z)
    BY <1>4, <2>2, <2>4 DEF Hops
  <2> QED BY <2>3 DEF z
<1> HIDE DEF q, pr, nx
<1>8. /\ r.from = path[1] /\ r.to = path[Len(path)] /\ r.prev = pr /\ r.next = nx /\ r.isVset = b
      /\ r.unavail = 0 /\ r.prevhops = q
  BY <1>1
<1>9. r \in Route
  <2>1. 0 \in Status
    BY DEF Status
  <2> QED BY <1>1, <1>3, <1>4, <1>5, <1>6, <1>7, <2>1 DEF Route
<1>10. ~IsTemporaryRoute(0) /\ ~IsDismantledRoute(0) /\ \A a \in BOOLEAN : PrevNextIsUnavailable(0, a) = 0
  BY DEF IsTemporaryRoute, IsDismantledRoute, IsDismantled2bit, PrevNextIsUnavailable
<1>11. RouteOK(n, P, p, r)
  <2>1. \A toNext \in BOOLEAN : HopState(r, toNext) = 0
    BY <1>8, <1>10 DEF HopState
  <2> HIDE DEF n
  <2> QED BY <1>3, <1>5, <1>6, <1>7, <1>8, <1>10, <2>1 DEF RouteOK
<1> QED BY <1>3, <1>8, <1>9, <1>11

\* the vroutes of a setup at n, and where on each of them n is
OnIt(n, e)     == {p \in DOMAIN e.vroutes : n \in Range(e.vroutes[p])}
Place(n, e, p) == CHOOSE i \in DOMAIN e.vroutes[p] : e.vroutes[p][i] = n

LEMMA StartRoutes ==
  ASSUME NEW e, IsSetup(e), NEW n \in Nodes, NEW p \in OnIt(n, e), NEW b \in BOOLEAN,
         NEW r, r = StartHop(e.vroutes[p], Place(n, e, p), b)
  PROVE  /\ p \in PathIds /\ r \in Route /\ RouteOK(n, DOMAIN e.vroutes, p, r) /\ r.isVset = b /\ r.unavail = 0
         /\ r.from = e.vroutes[p][1] /\ r.to = Last(e.vroutes[p])
         /\ n \in {r.from, r.to} <=> Place(n, e, p) \in {1, Len(e.vroutes[p])}
<1> DEFINE path == e.vroutes[p]
           i    == Place(n, e, p)
           P    == DOMAIN e.vroutes
<1>1. /\ p \in P /\ p \in PathIds /\ path \in Seq(Nodes) /\ IsInjective(path) /\ Len(path) > 1
      /\ n \in Range(path)
  BY DEF OnIt, IsSetup
<1>2. i \in DOMAIN path /\ path[i] = n
  BY <1>1 DEF Place, Range
<1>3. r = StartHop(path, i, b)
  OBVIOUS
<1> HIDE DEF path, i, P
<1>4. i \in 1 .. Len(path)
  BY <1>1, <1>2
<1>5. /\ r \in Route /\ RouteOK(path[i], P, p, r) /\ r.isVset = b /\ r.unavail = 0
      /\ r.from = path[1] /\ r.to = path[Len(path)]
      /\ path[i] \in {r.from, r.to} <=> i \in {1, Len(path)}
  BY <1>1, <1>3, <1>4, StartHopOK
<1> QED BY <1>1, <1>2, <1>5 DEF path, i, P, Last

LEMMA NodeInitGood ==
  ASSUME NEW e, IsSetup(e), NEW n \in Nodes, NEW P, P = DOMAIN e.vroutes, NEW s, s = NodeInit(n, e)
  PROVE  NodeGood(n, P, s) /\ s.out = Nothing
<1> DEFINE onIt   == OnIt(n, e)
           atEnd  == {p \in onIt : Place(n, e, p) \in {1, Len(e.vroutes[p])}}
           inVset == atEnd \ e.extra
           far(p) == IF e.vroutes[p][1] = n THEN Last(e.vroutes[p]) ELSE e.vroutes[p][1]
           hop(p) == StartHop(e.vroutes[p], Place(n, e, p), p \in inVset)
           routes == [p \in PathIds |-> IF p \in onIt THEN hop(p) ELSE NoRoute]
           ends   == UNION {{<<routes[p].from, p>>, <<routes[p].to, p>>} : p \in onIt}
           empty  == <<>>
<1>1. /\ s.tbl = [routes |-> routes, ends |-> ends]
      /\ s.vset = [v \in {far(p) : p \in inVset} |-> {p \in inVset : far(p) = v}]
      /\ s.nonEss = atEnd \ inVset /\ s.dismantled = {} /\ s.lost = empty /\ s.delayed = empty
      /\ s.recent = empty /\ s.heard = empty /\ s.seq = 0 /\ s.out = Nothing
      /\ NodeFields \subseteq DOMAIN s
  BY DEF NodeInit, OnIt, Place, StartHop, NodeFields
<1>2. DOMAIN empty = {}
  OBVIOUS
<1> HIDE DEF empty
<1>3. ASSUME NEW p \in onIt
      PROVE  /\ p \in PathIds /\ p \in P /\ routes[p] \in Route /\ RouteOK(n, P, p, routes[p])
             /\ routes[p].isVset = (p \in inVset) /\ routes[p].unavail = 0
             /\ n \in {routes[p].from, routes[p].to} <=> p \in atEnd
             /\ p \in atEnd => far(p) = OtherEnd(n, routes[p])
  <2> DEFINE b == p \in inVset
             r == hop(p)
  <2>1. b \in BOOLEAN /\ r = StartHop(e.vroutes[p], Place(n, e, p), b)
    OBVIOUS
  <2> HIDE DEF b, r, onIt
  <2>2. /\ p \in PathIds /\ r \in Route /\ RouteOK(n, P, p, r) /\ r.isVset = b /\ r.unavail = 0
        /\ r.from = e.vroutes[p][1] /\ r.to = Last(e.vroutes[p])
        /\ n \in {r.from, r.to} <=> Place(n, e, p) \in {1, Len(e.vroutes[p])}
    BY <2>1, StartRoutes DEF onIt
  <2>3. p \in P
    BY DEF onIt, OnIt
  <2>4. routes[p] = r
    BY <2>2 DEF r
  <2> HIDE DEF routes, atEnd, hop
  <2>5. n \in {r.from, r.to} <=> p \in atEnd
    BY <2>2 DEF atEnd
  <2>6. far(p) = OtherEnd(n, r)
    BY <2>2 DEF OtherEnd
  <2> HIDE DEF far
  <2> QED BY <2>2, <2>3, <2>4, <2>5, <2>6 DEF b
<1>4. \A p \in PathIds : p \notin onIt => routes[p] = NoRoute
  OBVIOUS
<1>5. routes \in [PathIds -> Route \cup {NoRoute}]
  <2>1. \A p \in PathIds : routes[p] \in Route \cup {NoRoute}
    BY <1>3, <1>4
  <2> QED BY <2>1
<1>6. onIt \subseteq PathIds /\ atEnd \subseteq onIt /\ inVset \subseteq atEnd /\ NoRoute \notin Route
  BY <1>3, Constants
<1> HIDE DEF routes, onIt, atEnd, inVset, far, hop
<1>7. \A p \in onIt : /\ routes[p].from \in Vids /\ routes[p].to \in Vids /\ routes[p].from # routes[p].to
  BY <1>3 DEF Route
<1>8. /\ ends \subseteq Vids \X PathIds
      /\ \A v, p : <<v, p>> \in ends <=> p \in onIt /\ v \in {routes[p].from, routes[p].to}
  BY <1>6, <1>7
<1>9. \A d \in ends : d[2] \in onIt /\ d[1] \in {routes[d[2]].from, routes[d[2]].to}
  BY <1>6, <1>7
<1> HIDE DEF ends
<1>10. \A p \in PathIds : InTable(s.tbl, p) <=> p \in onIt
  BY <1>1, <1>3, <1>4, <1>6 DEF InTable
<1>11. ~IsDismantledRoute(0) /\ \A a \in BOOLEAN : PrevNextIsUnavailable(0, a) = 0
  BY DEF IsDismantledRoute, IsDismantled2bit, PrevNextIsUnavailable
<1>12. TableOK(n, P, s.tbl)
  <2>1. s.tbl \in Table
    BY <1>1, <1>5, <1>8 DEF Table
  <2>2. EndsKnown(s.tbl)
    BY <1>1, <1>6, <1>9, <1>10 DEF EndsKnown
  <2>3. ASSUME NEW p \in onIt PROVE EndsMatch(s.tbl, p)
    <3>1. \A toNext \in BOOLEAN : HopState(routes[p], toNext) = 0
      BY <1>3, <1>11 DEF HopState
    <3>2. \A toNext \in BOOLEAN : <<EndTo(routes[p], toNext), p>> \in ends
      BY <1>8 DEF EndTo
    <3> QED BY <1>1, <3>1, <3>2 DEF EndsMatch
  <2>4. \A p \in onIt : RouteOK(n, P, p, s.tbl.routes[p])
    BY <1>1, <1>3
  <2> QED BY <1>10, <2>1, <2>2, <2>3, <2>4 DEF TableOK
<1>13. SetsOK(n, P, s.tbl, s.vset, s.nonEss, s.dismantled)
  <2>1. ASSUME NEW v \in DOMAIN s.vset
        PROVE  s.vset[v] # {} /\ \A p \in s.vset[v] : ServesVnei(n, s.tbl, v, p)
    <3>1. v \in {far(p) : p \in inVset} /\ s.vset[v] = {p \in inVset : far(p) = v}
      BY <1>1
    <3>2. s.vset[v] # {}
      BY <3>1
    <3>3. ASSUME NEW p \in inVset, far(p) = v PROVE ServesVnei(n, s.tbl, v, p)
      <4>1. p \in onIt /\ p \in PathIds /\ p \in atEnd /\ s.tbl.routes[p] = routes[p]
        BY <1>1, <1>6
      <4>2. /\ routes[p].isVset /\ n \in {routes[p].from, routes[p].to} /\ v = OtherEnd(n, routes[p])
        BY <1>3, <3>3, <4>1
      <4> QED BY <1>10, <4>1, <4>2 DEF ServesVnei
    <3> QED BY <3>1, <3>2, <3>3
  <2>2. ASSUME NEW p \in onIt
        PROVE  /\ p \in s.nonEss => ~s.tbl.routes[p].isVset
               /\ p \in s.dismantled <=> IsDismantledRoute(s.tbl.routes[p].unavail)
    <3>1. /\ s.tbl.routes[p] = routes[p] /\ (p \in s.nonEss => p \notin inVset) /\ p \notin s.dismantled
      BY <1>1
    <3>2. routes[p].isVset = (p \in inVset) /\ routes[p].unavail = 0
      BY <1>3
    <3>3. ~IsDismantledRoute(s.tbl.routes[p].unavail)
      BY <1>11, <3>1, <3>2
    <3>4. p \in s.nonEss => ~s.tbl.routes[p].isVset
      BY <3>1, <3>2
    <3> QED BY <3>1, <3>3, <3>4
  <2>3. s.dismantled \subseteq P
    BY <1>1
  <2> QED BY <1>10, <2>1, <2>2, <2>3 DEF SetsOK
<1>14. /\ LostOK(P, s.tbl, s.lost) /\ DelayedOK(n, P, s.delayed) /\ RecentOK(P, s.recent)
       /\ HeardOK(s.heard) /\ s.seq \in Nat
  BY <1>1, <1>2 DEF LostOK, DelayedOK, RecentOK, HeardOK
<1>15. SentOK(P, s.out)
  BY <1>1, NothingSent
<1> QED BY <1>1, <1>12, <1>13, <1>14, <1>15 DEF NodeGood

LEMMA InitRepairInv ==
  ASSUME Init
  PROVE  RepairInv
<1>1. PICK e \in Setups : InitIn(e)
  BY DEF Init
<1>2. /\ IsSetup(e) /\ setup = e /\ used = DOMAIN e.vroutes /\ Perm = DOMAIN e.vroutes
      /\ node = [n \in Nodes |-> NodeInit(n, e)] /\ chan = [n \in Nodes |-> Nothing] /\ air = {}
  BY <1>1, RepairAssumption DEF Init, InitIn, Perm
<1>3. NodesOK(Perm, node)
  <2> SUFFICES ASSUME NEW n \in Nodes PROVE NodeGood(n, Perm, node[n]) /\ node[n].out = Nothing
    BY <1>2 DEF NodesOK
  <2> DEFINE s == NodeInit(n, e)
  <2>1. node[n] = s /\ s = NodeInit(n, e)
    BY <1>2
  <2> HIDE DEF s
  <2>2. NodeGood(n, Perm, s) /\ s.out = Nothing
    BY <1>2, <2>1, NodeInitGood
  <2> QED BY <2>1, <2>2
<1>4. ChanOK(Perm, chan)
  BY <1>2, NothingSent DEF ChanOK
<1>5. AirOK(Perm, node, air)
  BY <1>2 DEF AirOK
<1> QED BY <1>1, <1>2, <1>3, <1>4, <1>5 DEF RepairInv

LEMMA NextKeeps ==
  ASSUME RepairInv, [Next]_vars
  PROVE  RepairInv'
<1>1. CASE Protocol
  <2>1. ASSUME NEW n \in Nodes, NEW m \in Nodes,
               \/ ProcessTeardown(n, m) \/ ProcessRepairRoute(n, m)
               \/ ProcessRepairLinkReply(n, m) \/ ProcessRepairLinkFail(n, m)
        PROVE  RepairInv'
    BY <2>1, ProcessTeardownKeeps, ProcessRepairRouteKeeps, ProcessRepairLinkReplyKeeps, ProcessRepairLinkFailKeeps
  <2>2. ASSUME NEW n \in Nodes, NEW f \in air, NEW t \in PathIds, ProcessFlood(n, f, t)
        PROVE  RepairInv'
    BY <2>2, ProcessFloodKeeps
  <2>3. ASSUME NEW n \in Nodes, NEW live \in SUBSET DOMAIN node[n].delayed, NEW draw \in Draws(n),
               DelayedRepair(n, live, draw)
        PROVE  RepairInv'
    BY <2>3, DelayedRepairKeeps
  <2>4. ASSUME NEW n \in Nodes, NEW x \in Vids, RepairTimer(n, x) \/ GiveUpTimer(n, x)
        PROVE  RepairInv'
    BY <2>4, RepairTimerKeeps, GiveUpTimerKeeps
  <2>5. ASSUME NEW n \in Nodes, NEW p \in PathIds,
               NonEssExpires(n, p) \/ DismantledExpires(n, p) \/ RecentExpires(n, p)
        PROVE  RepairInv'
    BY <2>5, NonEssExpiresKeeps, DismantledExpiresKeeps, RecentExpiresKeeps
  <2>6. ASSUME NEW n \in Nodes, NEW x \in Nodes,
               LinkPnei(n, x) \/ UnlinkPnei(n, x) \/ LosePnei(n, x) \/ ForgetPnei(n, x)
        PROVE  RepairInv'
    BY <2>6, LinkPneiKeeps, UnlinkPneiKeeps, LosePneiKeeps, ForgetPneiKeeps
  <2> QED BY <1>1, <2>1, <2>2, <2>3, <2>4, <2>5, <2>6 DEF Protocol
<1>2. CASE Environment
  <2>1. ASSUME NEW l, LinksDown({l}) PROVE RepairInv'
    <3> DEFINE ls == {l}
    <3>1. LinksDown(ls)
      BY <2>1
    <3> HIDE DEF ls
    <3> QED BY <3>1, LinksDownKeeps
  <2>2. ASSUME NEW n, LinksDown({l \in setup.links : n \in l}) PROVE RepairInv'
    <3> DEFINE ls == {l \in setup.links : n \in l}
    <3>1. LinksDown(ls)
      BY <2>2
    <3> HIDE DEF ls
    <3> QED BY <3>1, LinksDownKeeps
  <2>3. ASSUME NEW l, LinkUp(l) PROVE RepairInv'
    BY <2>3, LinkUpKeeps
  <2> QED BY <1>2, <2>1, <2>2, <2>3 DEF Environment
<1>3. CASE UNCHANGED vars
  BY <1>3, StutterKeeps
<1> QED BY <1>1, <1>2, <1>3 DEF Next, Rest

\* What a node keeps, whatever fails and comes back: RepairInv, which names for
\* every record of a node (vroutes, vset, nonEssRoutes, dismantledRoutes, lostPneis,
\* delayedRepairLinkReq, recentTempRouteSent) and for every message and flood under
\* way what the handlers of Vlr.cc rely on when they read it.
THEOREM RepairInvariant == Spec => []RepairInv
<1>1. Init => RepairInv
  BY InitRepairInv
<1>2. RepairInv /\ [Next]_vars => RepairInv'
  BY NextKeeps
<1> QED BY <1>1, <1>2, PTL DEF Spec

-----------------------------------------------------------------------------
(* What follows                                                            *)

\* A flood that comes back to a node on its trace is dropped there, so that the
\* ASSERT in processRepairLinkReqFlood that the trace has no loop cannot fail: the
\* node is the source, or has recorded a number at least as high, and is not one
\* of those the flood looks for.
THEOREM FloodsDoNotLoop == Spec => []FloodLoopFree
<1>1. RepairInv => FloodLoopFree
  <2> SUFFICES ASSUME RepairInv, NEW f \in air, f.to \in Range(f.trace)
               PROVE  /\ f.to \notin DOMAIN f.dst
                      /\ f.to = f.trace[1] \/ f.seq <= node[f.to].heard[f.trace[1]]
    BY DEF FloodLoopFree
  <2> QED BY DEF RepairInv, AirOK, FloodOK, PassedOn
<1> QED BY <1>1, RepairInvariant, PTL

\* endpointToRoutesMap lists an end of a vroute exactly when the hop towards it
\* leads on; vset lists known vset routes, nonEssRoutes none of them, and
\* dismantledRoutes the vroutes flagged so (the ASSERTs of
\* processNonEssRouteTeardownTimer and processDismantledRouteTimer).
THEOREM SetsAgreeWithRoutes == Spec => []SetsMatchRoutes
<1>1. RepairInv => SetsMatchRoutes
  <2> SUFFICES ASSUME RepairInv, NEW n \in Nodes
               PROVE  /\ EndsMatchHops(node[n])
                      /\ \A v \in DOMAIN node[n].vset :
                           /\ node[n].vset[v] # {}
                           /\ \A p \in node[n].vset[v] : InTable(node[n].tbl, p) /\ RouteOf(node[n], p).isVset
                      /\ \A p \in node[n].nonEss \cap Known(node[n]) : ~RouteOf(node[n], p).isVset
                      /\ \A p \in Known(node[n]) :
                           p \in node[n].dismantled <=> IsDismantledRoute(RouteOf(node[n], p).unavail)
    BY DEF SetsMatchRoutes
  <2> DEFINE s == node[n]
  <2>1. NodeGood(n, Perm, s)
    BY NodeOf
  <2> HIDE DEF s
  <2>2. EndsMatchHops(s)
    BY <2>1 DEF NodeGood, TableOK, EndsMatch, EndsMatchHops, Known, RouteOf
  <2>3. \A v \in DOMAIN s.vset :
          s.vset[v] # {} /\ \A p \in s.vset[v] : InTable(s.tbl, p) /\ RouteOf(s, p).isVset
    BY <2>1 DEF NodeGood, SetsOK, ServesVnei, RouteOf
  <2>4. /\ \A p \in s.nonEss \cap Known(s) : ~RouteOf(s, p).isVset
        /\ \A p \in Known(s) : p \in s.dismantled <=> IsDismantledRoute(RouteOf(s, p).unavail)
    BY <2>1 DEF NodeGood, SetsOK, Known, RouteOf
  <2> QED BY <2>2, <2>3, <2>4 DEF s
<1> QED BY <1>1, RepairInvariant, PTL

\* The first half of LostPneisAccurate: an entry of lostPneis lists vroutes over that
\* pnei only, whatever was repaired, taken down, dismantled or set up again since
\* handleLostPneis put them there.
THEOREM LostPneisListed == Spec => []ListedOverPnei
<1>1. RepairInv => ListedOverPnei
  <2> SUFFICES ASSUME RepairInv, NEW n \in Nodes, NEW x \in DOMAIN node[n].lost, NEW p \in node[n].lost[x].broken,
                      ~Stale(node[n], p)
               PROVE  x \in {RouteOf(node[n], p).prev, RouteOf(node[n], p).next}
    BY DEF ListedOverPnei
  <2>1. NodeGood(n, Perm, node[n])
    BY NodeOf
  <2>2. Over(node[n].tbl, p, x)
    BY <2>1, LostFields
  <2> QED BY <2>2 DEF Over, Stale, RouteOf
<1> QED BY <1>1, RepairInvariant, PTL
============================================================================
