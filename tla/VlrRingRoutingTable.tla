------------------------ MODULE VlrRingRoutingTable ------------------------
(***************************************************************************)
(* The vroute table of one node (routing/vlr/VlrRingRoutingTable.{h,cc}),  *)
(* used by both protocols, as operators on a table value                   *)
(*                                                                         *)
(*   [routes |-> vlrRoutesMap, ends |-> endpointToRoutesMap]               *)
(*                                                                         *)
(* routes maps every path id to its entry, or to NoRoute when the map has  *)
(* no such key.  ends is the relation {<<v, p>> : p \in                    *)
(* endpointToRoutesMap[v]}: removeRouteEndFromEndpointMap erases a set it  *)
(* has emptied, so a key is in the map exactly when it is related to some  *)
(* path id.                                                                *)
(*                                                                         *)
(* isUnavailable is the C++ char, bits 1-2 the state of the next hop, bits *)
(* 3-4 that of the previous hop (0 available, 1 unavailable, 2 patched by  *)
(* a temporary route), bit 5 "temporary route", bits 6-7 "dismantled".     *)
(***************************************************************************)
EXTENDS Integers, Sequences

CONSTANTS Vids,      \* virtual ids of the nodes
          NullVid,   \* VLRRINGVID_NULL
          PathIds,   \* the path ids genPathID may draw
          NoRoute    \* "not a key of vlrRoutesMap"

Hops   == Vids \cup {NullVid}
Status == 0 .. 127               \* the char; bit 8 is never set

Route == {r \in [from : Vids, to : Vids, prev : Hops, next : Hops, isVset : BOOLEAN,
                 unavail : Status, repairSent : BOOLEAN, prevhops : Seq(Vids)] :
           r.from # r.to}

Table == [routes : [PathIds -> Route \cup {NoRoute}],
          ends   : SUBSET (Vids \X PathIds)]

ASSUME RouteAssumption == NullVid \notin Vids /\ NoRoute \notin Route

-----------------------------------------------------------------------------
(* The status byte.  Masks and shifts are divisions by powers of two.      *)

\* getPrevNextIsUnavailable
PrevNextIsUnavailable(u, getPrev) ==
  IF u \in {0, 16} THEN 0
  ELSE IF getPrev THEN (u \div 4) % 4 ELSE u % 4

\* setRouteItrPrevNextIsUnavailable: clear the two bits, then or the value in
SetStatus(u, setPrev, value) ==
  IF setPrev THEN u - 4 * ((u \div 4) % 4) + 4 * value
             ELSE u - (u % 4) + value

IsTemporaryRoute(u) == (u \div 16) % 2 = 1
IsDismantled2bit(u) == (u \div 32) % 4
IsDismantledRoute(u) == IsDismantled2bit(u) # 0

\* setRouteItrIsDismantled(_, true, setPrev): or the bit of that side in
SetDismantled(u, setPrev) ==
  LET bit == IF setPrev THEN 64 ELSE 32
  IN  IF (u \div bit) % 2 = 1 THEN u ELSE u + bit

-----------------------------------------------------------------------------
EmptyTable == [routes |-> [p \in PathIds |-> NoRoute], ends |-> {}]

InTable(t, p) == t.routes[p] # NoRoute

\* the entry addRoute inserts
NewRoute(from, to, prev, next, isVset, unavail, prevhops) ==
  [from |-> from, to |-> to, prev |-> prev, next |-> next, isVset |-> isVset,
   unavail |-> unavail, repairSent |-> FALSE, prevhops |-> prevhops]

\* insert does nothing when the path id is already a key
AddRoute(t, p, r) ==
  IF InTable(t, p) THEN t
  ELSE [routes |-> [t.routes EXCEPT ![p] = r],
        ends   |-> t.ends \cup {<<r.from, p>>, <<r.to, p>>}]

\* removeRouteByPathID for each of a set of path ids
RemoveRoutes(t, ps) ==
  [routes |-> [p \in PathIds |-> IF p \in ps THEN NoRoute ELSE t.routes[p]],
   ends   |-> {e \in t.ends : ~ /\ e[2] \in ps
                               /\ InTable(t, e[2])
                               /\ e[1] \in {t.routes[e[2]].from, t.routes[e[2]].to}}]

RemoveRoute(t, p) == RemoveRoutes(t, {p})

\* addRouteEndInEndpointMap, removeRouteEndFromEndpointMap
AddEnd(t, p, v)    == [t EXCEPT !.ends = @ \cup {<<v, p>>}]
RemoveEnd(t, p, v) == [t EXCEPT !.ends = @ \ {<<v, p>>}]

\* setRouteItrPrevNextIsUnavailable on an entry
SetHop(r, setPrev, value) ==
  [r EXCEPT !.unavail = SetStatus(@, setPrev, value),
            !.repairSent = IF setPrev /\ value # 2 THEN FALSE ELSE @]

\* is the hop marked unavailable (status 1)?
PrevBroken(r) == PrevNextIsUnavailable(r.unavail, TRUE) = 1
NextBroken(r) == PrevNextIsUnavailable(r.unavail, FALSE) = 1

-----------------------------------------------------------------------------
(* What the lookups rely on: a path id listed under an end point is a key  *)
(* of vlrRoutesMap (getRouteToEndpoint and getVsetRouteToVnei dereference  *)
(* it, getRouteNextHop asserts it) and has that vid as one of its ends.    *)
EndsKnown(t) == \A e \in t.ends : /\ InTable(t, e[2])
                                  /\ e[1] \in {t.routes[e[2]].from, t.routes[e[2]].to}

(* ... and, the other way round, a route is listed under both its ends, or, *)
(* where broken hops hide an end point, under those whose hop is not broken. *)
EndsListed(t, hide) ==
  \A p \in PathIds : InTable(t, p) =>
    LET r == t.routes[p]
    IN  /\ <<r.from, p>> \in t.ends <=> ~(hide /\ PrevBroken(r))
        /\ <<r.to, p>> \in t.ends <=> ~(hide /\ NextBroken(r))
============================================================================
