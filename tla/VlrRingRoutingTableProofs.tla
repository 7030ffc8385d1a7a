--------------------- MODULE VlrRingRoutingTableProofs ---------------------
(***************************************************************************)
(* What the operations of the vroute table do to it, for any sets of vids  *)
(* and path ids.                                                           *)
(***************************************************************************)
EXTENDS VlrRingRoutingTable, TLAPS

(* getPrevNextIsUnavailable reads two bits: its shortcut for the bytes 0 and *)
(* 16 changes nothing.                                                       *)
LEMMA ReadStatus ==
  ASSUME NEW u \in Status
  PROVE  /\ PrevNextIsUnavailable(u, TRUE) = (u \div 4) % 4
         /\ PrevNextIsUnavailable(u, FALSE) = u % 4
BY DEF PrevNextIsUnavailable, Status

(* setRouteItrPrevNextIsUnavailable writes two bits: the value can be read   *)
(* back, the other hop's status and the type of the route are kept.          *)
LEMMA WriteStatus ==
  ASSUME NEW u \in Status, NEW value \in 0 .. 3, NEW setPrev \in BOOLEAN
  PROVE  /\ SetStatus(u, setPrev, value) \in Status
         /\ PrevNextIsUnavailable(SetStatus(u, setPrev, value), setPrev) = value
         /\ PrevNextIsUnavailable(SetStatus(u, setPrev, value), ~setPrev)
              = PrevNextIsUnavailable(u, ~setPrev)
         /\ IsTemporaryRoute(SetStatus(u, setPrev, value)) = IsTemporaryRoute(u)
         /\ IsDismantled2bit(SetStatus(u, setPrev, value)) = IsDismantled2bit(u)
<1>1. CASE setPrev
  <2> DEFINE w == u - 4 * ((u \div 4) % 4) + 4 * value
  <2>1. SetStatus(u, setPrev, value) = w
    BY <1>1 DEF SetStatus
  <2>2. w \in Status /\ w % 4 = u % 4 /\ (w \div 4) % 4 = value
    BY DEF Status
  <2>3. w \div 16 = u \div 16
    BY DEF Status
  <2>4. w \div 32 = u \div 32
    BY DEF Status
  <2> QED BY <1>1, <2>1, <2>2, <2>3, <2>4, ReadStatus DEF IsTemporaryRoute, IsDismantled2bit
<1>2. CASE ~setPrev
  <2> DEFINE w == u - (u % 4) + value
  <2>1. SetStatus(u, setPrev, value) = w
    BY <1>2 DEF SetStatus
  <2>2. w \in Status /\ w % 4 = value /\ w \div 4 = u \div 4
    BY DEF Status
  <2>3. w \div 16 = u \div 16
    BY DEF Status
  <2>4. w \div 32 = u \div 32
    BY DEF Status
  <2> QED BY <1>2, <2>1, <2>2, <2>3, <2>4, ReadStatus DEF IsTemporaryRoute, IsDismantled2bit
<1> QED BY <1>1, <1>2

(* Setting one hop of a route changes the status of that hop only.           *)
LEMMA SetHopFields ==
  ASSUME NEW r \in Route, NEW value \in 0 .. 3, NEW setPrev \in BOOLEAN
  PROVE  /\ SetHop(r, setPrev, value) \in Route
         /\ SetHop(r, setPrev, value).from = r.from
         /\ SetHop(r, setPrev, value).to = r.to
         /\ SetHop(r, setPrev, value).prev = r.prev
         /\ SetHop(r, setPrev, value).next = r.next
         /\ SetHop(r, setPrev, value).unavail = SetStatus(r.unavail, setPrev, value)
         /\ setPrev => /\ PrevBroken(SetHop(r, setPrev, value)) <=> value = 1
                       /\ NextBroken(SetHop(r, setPrev, value)) <=> NextBroken(r)
         /\ ~setPrev => /\ PrevBroken(SetHop(r, setPrev, value)) <=> PrevBroken(r)
                        /\ NextBroken(SetHop(r, setPrev, value)) <=> value = 1
<1> DEFINE u == SetStatus(r.unavail, setPrev, value)
<1>1. r.unavail \in Status
  BY DEF Route
<1>2. /\ u \in Status
      /\ PrevNextIsUnavailable(u, setPrev) = value
      /\ PrevNextIsUnavailable(u, ~setPrev) = PrevNextIsUnavailable(r.unavail, ~setPrev)
  BY <1>1, WriteStatus
<1>3. SetHop(r, setPrev, value) \in Route
  BY <1>2 DEF SetHop, Route
<1>4. SetHop(r, setPrev, value).unavail = u
  BY DEF SetHop, Route
<1>5. /\ SetHop(r, setPrev, value).from = r.from
      /\ SetHop(r, setPrev, value).to = r.to
      /\ SetHop(r, setPrev, value).prev = r.prev
      /\ SetHop(r, setPrev, value).next = r.next
  BY DEF SetHop, Route
<1>6. CASE setPrev
  BY <1>2, <1>3, <1>4, <1>5, <1>6 DEF PrevBroken, NextBroken
<1>7. CASE ~setPrev
  BY <1>2, <1>3, <1>4, <1>5, <1>7 DEF PrevBroken, NextBroken
<1> QED BY <1>6, <1>7

-----------------------------------------------------------------------------
(* A table whose endpoint map matches its routes.                            *)
GoodTable(t, hide) == t \in Table /\ EndsKnown(t) /\ EndsListed(t, hide)

(* The table clearState leaves.                                             *)
LEMMA EmptyTableGood ==
  ASSUME NEW hide \in BOOLEAN
  PROVE  GoodTable(EmptyTable, hide)
BY DEF GoodTable, EmptyTable, Table, EndsKnown, EndsListed, InTable

(* addRoute keeps the endpoint map right: of a new route no hop is broken.   *)
LEMMA AddRouteGood ==
  ASSUME NEW hide \in BOOLEAN, NEW t, GoodTable(t, hide),
         NEW p \in PathIds, NEW r \in Route, ~PrevBroken(r), ~NextBroken(r)
  PROVE  GoodTable(AddRoute(t, p, r), hide)
<1>1. CASE InTable(t, p)
  BY <1>1 DEF AddRoute
<1>2. CASE ~InTable(t, p)
  <2> DEFINE t1 == AddRoute(t, p, r)
  <2>1. /\ t1.routes = [t.routes EXCEPT ![p] = r]
        /\ t1.ends = t.ends \cup {<<r.from, p>>, <<r.to, p>>}
        /\ t1 = [routes |-> t1.routes, ends |-> t1.ends]
    BY <1>2 DEF AddRoute
  <2>2. t \in Table /\ EndsKnown(t) /\ EndsListed(t, hide)
    BY DEF GoodTable
  <2>3. r.from \in Vids /\ r.to \in Vids /\ r # NoRoute
    BY RouteAssumption DEF Route
  <2>4. t1 \in Table
    BY <2>1, <2>2, <2>3 DEF Table
  <2>5. \A q \in PathIds : t1.routes[q] = IF q = p THEN r ELSE t.routes[q]
    BY <2>1, <2>2 DEF Table
  <2>6. \A e \in t.ends : e[2] \in PathIds /\ e[2] # p
    BY <1>2, <2>2 DEF EndsKnown, Table
  <2>7. EndsKnown(t1)
    BY <2>1, <2>2, <2>3, <2>5, <2>6 DEF EndsKnown, InTable
  <2>8. EndsListed(t1, hide)
    <3> SUFFICES ASSUME NEW q \in PathIds, InTable(t1, q)
                 PROVE  /\ <<t1.routes[q].from, q>> \in t1.ends
                             <=> ~(hide /\ PrevBroken(t1.routes[q]))
                        /\ <<t1.routes[q].to, q>> \in t1.ends
                             <=> ~(hide /\ NextBroken(t1.routes[q]))
      BY DEF EndsListed
    <3>1. CASE q = p
      BY <2>1, <2>5, <3>1
    <3>2. CASE q # p
      BY <2>1, <2>2, <2>5, <3>2 DEF EndsListed, InTable
    <3> QED BY <3>1, <3>2
  <2> QED BY <2>4, <2>7, <2>8 DEF GoodTable
<1> QED BY <1>1, <1>2

(* removeRouteByPathID takes a route out with everything listed for it.      *)
LEMMA RemoveRoutesGood ==
  ASSUME NEW hide \in BOOLEAN, NEW t, GoodTable(t, hide), NEW ps
  PROVE  GoodTable(RemoveRoutes(t, ps), hide)
<1> DEFINE t1 == RemoveRoutes(t, ps)
<1>1. t \in Table /\ EndsKnown(t) /\ EndsListed(t, hide)
  BY DEF GoodTable
<1>2. \A q \in PathIds : t1.routes[q] = IF q \in ps THEN NoRoute ELSE t.routes[q]
  BY DEF RemoveRoutes
<1>3. t1.ends = {e \in t.ends : e[2] \notin ps}
  BY <1>1 DEF RemoveRoutes, EndsKnown
<1>4. t1 \in Table
  BY <1>1, <1>3 DEF Table, RemoveRoutes
<1>5. \A e \in t.ends : e[2] \in PathIds
  BY <1>1 DEF Table
<1>6. EndsKnown(t1)
  BY <1>1, <1>2, <1>3, <1>5 DEF EndsKnown, InTable
<1>7. EndsListed(t1, hide)
  <2> SUFFICES ASSUME NEW q \in PathIds, InTable(t1, q)
               PROVE  /\ <<t1.routes[q].from, q>> \in t1.ends
                           <=> ~(hide /\ PrevBroken(t1.routes[q]))
                      /\ <<t1.routes[q].to, q>> \in t1.ends
                           <=> ~(hide /\ NextBroken(t1.routes[q]))
    BY DEF EndsListed
  <2>1. q \notin ps /\ t1.routes[q] = t.routes[q] /\ InTable(t, q)
    BY <1>2 DEF InTable
  <2>2. \A v : <<v, q>> \in t1.ends <=> <<v, q>> \in t.ends
    BY <1>3, <2>1
  <2> QED BY <1>1, <2>1, <2>2 DEF EndsListed
<1> QED BY <1>4, <1>6, <1>7 DEF GoodTable

(* Changing entries without touching their ends: good if the new end point   *)
(* list hides just what the new entries call for.                            *)
LEMMA UpdateRoutesGood ==
  ASSUME NEW hide \in BOOLEAN, NEW t, GoodTable(t, hide),
         NEW f \in [PathIds -> Route \cup {NoRoute}], NEW E,
         \A p \in PathIds : f[p] = NoRoute <=> ~InTable(t, p),
         \A p \in PathIds : InTable(t, p) => /\ f[p].from = t.routes[p].from
                                             /\ f[p].to = t.routes[p].to,
         \A e \in E : /\ e \in Vids \X PathIds
                      /\ InTable(t, e[2])
                      /\ e[1] \in {t.routes[e[2]].from, t.routes[e[2]].to},
         \A p \in PathIds : InTable(t, p) =>
           /\ <<f[p].from, p>> \in E <=> ~(hide /\ PrevBroken(f[p]))
           /\ <<f[p].to, p>> \in E <=> ~(hide /\ NextBroken(f[p]))
  PROVE  GoodTable([routes |-> f, ends |-> E], hide)
<1> DEFINE t1 == [routes |-> f, ends |-> E]
<1>1. t1 \in Table
  BY DEF Table
<1>2. \A p \in PathIds : InTable(t1, p) <=> InTable(t, p)
  BY DEF InTable
<1>3. EndsKnown(t1)
  BY <1>2 DEF EndsKnown
<1>4. EndsListed(t1, hide)
  BY <1>2 DEF EndsListed
<1> QED BY <1>1, <1>3, <1>4 DEF GoodTable
============================================================================
