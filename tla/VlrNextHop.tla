------------------------------ MODULE VlrNextHop ------------------------------
(***************************************************************************)
(* Greedy next-hop selection in VLR (findNextHop and its callers in        *)
(* routing/vlr/Vlr.cc).  A message carries the vid it is sent to and the   *)
(* path it follows (VlrIntOption); each node on its way picks, among its   *)
(* pneis, the representative and the ends of the vroutes it knows, the     *)
(* node closest to that vid on the ring, and so may change the path.       *)
(*                                                                         *)
(* A choice is made on the state of a node, see VlrRepair, with in         *)
(* addition: sees, the pneis whose beacons said they are in the network;   *)
(* repIn, whether the representative is in the network.                    *)
(***************************************************************************)
EXTENDS VlrRepair

ASSUME NextHopAssumption == VidMax > 2 /\ \A n \in Nodes : n <= VidMax

\* computeVidDistance: the shorter way round the ring
VidDistance(src, dst) ==
  LET d == IF src < dst THEN dst - src ELSE src - dst
  IN  IF d <= VidMax + 1 - d THEN d ELSE VidMax + 1 - d

-----------------------------------------------------------------------------
(* VlrIntOption: where a message is going, the path it is on and the end of *)
(* that path it is going to, and the temporary route it rides meanwhile.   *)
VlrIntOption ==
  [dst : Hops, toward : Hops, path : SomePath \cup {RepPath}, tempToward : Hops, temp : SomePath]

Option(dst) == [dst |-> dst, toward |-> NullVid, path |-> NoPath, tempToward |-> NullVid, temp |-> NoPath]

OffPath(opt) == [opt EXCEPT !.path = NoPath, !.temp = NoPath]

Redirect(opt, dst) == IF opt.dst = dst THEN opt ELSE OffPath([opt EXCEPT !.dst = dst])

-----------------------------------------------------------------------------
(* Candidates.                                                             *)

\* the path ids endpointToRoutesMap lists under v
PathsTo(s, v) == {p \in PathIds : <<v, p>> \in s.tbl.ends}

\* the state of the hop towards end v (isRouteItrNextHopAvailable, where 0 means
\* unavailable and 1 available, is 1 when this is 0)
HopStateToward(r, v) == PrevNextIsUnavailable(r.unavail, v = r.from)

\* IsLinkedPneiOrAvailableRouteEnd
Reachable(s, v) == v \in s.linked \/ PathsTo(s, v) # {}

\* of the vids in S nearest to target: keep if it is one of them, else the one
\* the downward walk around the ring meets
Nearest(S, target, keep) ==
  LET near == {v \in S : \A w \in S : VidDistance(v, target) <= VidDistance(w, target)}
  IN  IF keep \in near THEN keep
      ELSE CHOOSE v \in near : \A w \in near : CCWDistance(target, v) <= CCWDistance(target, w)

\* vendItrQualified: the vroutes to v that can be used, for a message to target
\* that must not go to the vid ex
UsablePaths(s, n, v, target, ex, allowTemp) ==
  LET exPnei == ex \in s.linked \cup DOMAIN s.lost
      exNext == exPnei /\ (target = ex \/ VidDistance(ex, target) <= VidDistance(v, target))
      Usable(r) == /\ exNext => HopToward(r, v) # ex
                   /\ HopStateToward(r, v) = 0 \/ (allowTemp /\ ~IsDismantledRoute(r.unavail))
  IN  IF v \in {ex, n} THEN {}
      ELSE IF ~exPnei /\ allowTemp /\ s.dismantled = {} THEN PathsTo(s, v)
      ELSE {p \in PathsTo(s, v) : Usable(RouteOf(s, p))}

\* the candidates: pneis in the network, the representative through its tree,
\* and the ends of vroutes
Pneis(s, ex) == (s.linked \cap s.sees) \ {ex}

Vends(s, n, target, ex, allowTemp) == {v \in Nodes : UsablePaths(s, n, v, target, ex, allowTemp) # {}}

-----------------------------------------------------------------------------
(* findNextHop.  The result is a set of outcomes (the code draws a random  *)
(* vroute among those to the chosen end), each with the next hop or        *)
(* NullVid, the new option, and the state of the node: a path the node     *)
(* does not know is torn down behind the message, at prev.                 *)
Outcome(s, hop, opt) == [hop |-> hop, opt |-> opt, st |-> s]

NoHop(s, opt) == {Outcome(s, NullVid, opt)}

TeardownBack(s, n, prev, p) ==
  IF prev = NullVid THEN s ELSE Post(s, prev, TeardownMsg(p, n, TRUE, FALSE))

\* the path the message came along is unknown here
ForgetPath(s, n, opt, prev) ==
  LET other == OtherEnd(n, RouteOf(s, opt.temp))
  IN  IF opt.path \in {NoPath, RepPath} \/ InTable(s.tbl, opt.path) \/ prev = NullVid THEN s
      ELSE IF opt.temp = NoPath
      THEN IF opt.toward = n THEN s ELSE TeardownBack(s, n, prev, opt.path)
      ELSE IF InTable(s.tbl, opt.temp) /\ other \in DOMAIN s.lost
      THEN TeardownVia(s, other, 2, TeardownMsg(opt.path, n, TRUE, FALSE)) ELSE s

\* go along vroute p to its end v, over the first temporary route if the next
\* hop is patched
GoAlong(s, p, v, opt, allowTemp) ==
  LET r  == RouteOf(s, p)
      x  == HopToward(r, v)
      on == [opt EXCEPT !.path = p, !.toward = v]
      t  == Min(s.lost[x].temp)
  IN  IF ~(allowTemp /\ HopStateToward(r, v) = 2) THEN Outcome(s, x, [on EXCEPT !.temp = NoPath])
      ELSE IF x \notin DOMAIN s.lost THEN Outcome(s, NullVid, on)
      ELSE Outcome(s, HopToward(RouteOf(s, t), x), [on EXCEPT !.temp = t, !.tempToward = x])

\* mutant: ... or as far, the end it was on its way to included
NotNearer(opt, v) ==
  opt.path # NoPath /\ VidDistance(v, opt.dst) >= VidDistance(opt.toward, opt.dst)

\* is v too far for a message that was on its way to opt.toward?
TooFar(opt, v) ==
  opt.path # NoPath /\ VidDistance(v, opt.dst) > VidDistance(opt.toward, opt.dst)

\* ... or just as far, so that only the path it is on may be used?
AsFar(opt, v) ==
  opt.path # NoPath /\ (v = opt.toward \/ VidDistance(v, opt.dst) = VidDistance(opt.toward, opt.dst))

ViaPnei(s, x, opt) == {Outcome(s, x, OffPath(opt))}

ViaRep(s, opt) ==
  IF opt.path = RepPath /\ AsFar(opt, Rep) /\ Rep # opt.toward THEN NoHop(s, opt)
  ELSE {Outcome(s, s.parent, [opt EXCEPT !.path = RepPath, !.toward = Rep, !.temp = NoPath])}

ViaVroute(s, n, v, opt, ex, allowTemp) ==
  LET paths == UsablePaths(s, n, v, opt.dst, ex, allowTemp)
      mine  == IF opt.toward = v /\ opt.path \in paths THEN {opt.path} ELSE paths
  IN  {IF AsFar(opt, v) /\ p # opt.path THEN Outcome(s, NullVid, opt) ELSE GoAlong(s, p, v, opt, allowTemp) :
         p \in mine}

Greedy(s, n, opt, prev, ex, allowTemp) ==
  LET Far(S)  == IF S = {} THEN VidMax ELSE VidDistance(Nearest(S, opt.dst, NullVid), opt.dst)
      pneis   == Pneis(s, ex)
      vends   == Vends(s, n, opt.dst, ex, allowTemp)
      dRep    == IF RepKnown(s, ex) /\ s.repIn THEN VidDistance(Rep, opt.dst) ELSE VidMax
      best    == Min({Far(pneis), Far(vends), dRep})
      useVend == Far(vends) < Min({Far(pneis), dRep})
      useRep  == ~useVend /\ dRep < Far(pneis)
      next    == IF useVend THEN Nearest(vends, opt.dst, IF opt.path = NoPath THEN NullVid ELSE opt.toward)
                 ELSE IF useRep THEN Rep ELSE Nearest(pneis, opt.dst, NullVid)
      s1      == ForgetPath(s, n, opt, prev)
  IN  IF best = VidMax \/ best >= VidDistance(n, opt.dst) THEN NoHop(s, opt)
      ELSE IF TooFar(opt, next) THEN NoHop(s1, opt)
      ELSE IF useVend THEN ViaVroute(s1, n, next, opt, ex, allowTemp)
      ELSE IF useRep THEN ViaRep(s1, opt)
      ELSE ViaPnei(s1, next, opt)

FindNextHop(s, n, opt, prev, ex, allowTemp) ==
  LET riding   == opt.temp # NoPath /\ InTable(s.tbl, opt.temp) /\ opt.tempToward # n
      stranded == opt.temp # NoPath /\ ~InTable(s.tbl, opt.temp)
  IN  IF s.linked \cup s.pending = {} THEN NoHop(s, opt)
      ELSE IF opt.dst \in s.linked /\ opt.dst # ex THEN ViaPnei(s, opt.dst, opt)
      ELSE IF riding THEN {Outcome(s, HopToward(RouteOf(s, opt.temp), opt.tempToward), opt)}
      ELSE LET s1 == IF stranded THEN TeardownBack(s, n, prev, opt.temp) ELSE s
               o1 == IF stranded THEN OffPath(opt) ELSE opt
           IN  IF o1.dst = Rep /\ RepKnown(s1, ex)
               THEN {Outcome(s1, s1.parent, [o1 EXCEPT !.path = RepPath, !.toward = Rep, !.temp = NoPath])}
               ELSE Greedy(s1, n, o1, prev, ex, allowTemp)

\* findNextHopForSetupReply: to newnode through its proxy
FindNextHopForSetupReply(s, n, opt, prev, newnode, allowTemp) ==
  IF newnode \in s.linked THEN ViaPnei(s, newnode, opt)
  ELSE IF opt.dst = n THEN NoHop(s, opt)
  ELSE FindNextHop(s, n, opt, prev, NullVid, allowTemp)

\* findNextHopForSetupReq: to opt.dst, the transfer node or proxy, until dst is in
\* reach or opt.dst is not
FindNextHopForSetupReq(s, n, opt, prev, dst, newnode, allowTemp) ==
  IF opt.dst = dst \/ Reachable(s, dst)
  THEN FindNextHop(s, n, Redirect(opt, dst), prev, newnode, allowTemp)
  ELSE UNION {IF r.hop # NullVid THEN {r}
              ELSE FindNextHop(r.st, n, Redirect(r.opt, dst), prev, newnode, allowTemp) :
                r \in FindNextHop(s, n, opt, prev, newnode, allowTemp)}

-----------------------------------------------------------------------------
(* Traces: the nodes a message came by, to be followed backwards or, for a *)
(* trace that was overheard, forwards.                                     *)

\* removeLoopInTrace
RemoveLoop(trace) ==
  FoldLeft(LAMBDA t, v : IF v \in Range(t) THEN SubSeq(t, 1, SelectInSeq(t, LAMBDA w : w = v))
                         ELSE Append(t, v),
           <<>>, trace)

\* getNextHopIndexInTraceForSetupReq: the next node, or the last LINKED one, of a
\* trace in which I am at place i; 0 if there is none
NextIndex(s, n, trace, i) ==
  LET ahead == {k \in 2 .. Len(trace) : trace[k] \in s.linked /\ \A j \in k .. Len(trace) : trace[j] # n}
  IN  IF i < Len(trace) /\ trace[i] = n /\ trace[i + 1] \in s.linked THEN i + 1
      ELSE IF ahead = {} THEN 0 ELSE Max(ahead)
============================================================================
