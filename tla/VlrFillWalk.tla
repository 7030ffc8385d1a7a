----------------------------- MODULE VlrFillWalk -----------------------------
(***************************************************************************)
(* Which nodes a VLR node looks at when it fills its vset                  *)
(* (processFillVsetTimer, routing/vlr/Vlr.cc).  It puts its vneis among    *)
(* the nodes of its pendingVset and walks over them from its two sides in  *)
(* turn, outwards, vsetAndPendingHalfCardinality on each side or until the *)
(* two iterators meet.  A node met on the clockwise side is not met again. *)
(*                                                                         *)
(* The result is given twice: by the ranks of the nodes, which VlrVset     *)
(* uses, and by the code's iterators.  MCVlrVset compares the two.         *)
(***************************************************************************)
EXTENDS VidRing

CONSTANTS Me,          \* vid
          Half,        \* vsetHalfCardinality
          PendingHalf, \* pendingVsetHalfCardinality
          NoTimer

\* has the node been asked more than once in vain?
Retrying(t) == t # NoTimer /\ t.retry > 1

-----------------------------------------------------------------------------
(* By rank.  S is the set of vneis and pending nodes, n a member of it.    *)
CloserCW(S, n)  == {w \in S : CWDistance(Me, w) < CWDistance(Me, n)}
CloserCCW(S, n) == {w \in S : CCWDistance(Me, w) < CCWDistance(Me, n)}

\* is n met on the clockwise side?
MetCW(S, n) == Cardinality(CloserCW(S, n)) < (Cardinality(S) + 1) \div 2

\* mutant: the walk looks clockwise only
CloserOneWay(S, n) == CloserCW(S, n)

Closer(S, n) == IF MetCW(S, n) THEN CloserCW(S, n) ELSE CloserCCW(S, n)

Reached(S, n) == Cardinality(Closer(S, n)) < Half + PendingHalf

\* n belongs to the vset: there are not Half closer ones, not counting those
\* that have been asked more than once in vain (vsetHalfCardup, -low)
Belongs(S, timer, n) == Cardinality({w \in Closer(S, n) : ~ Retrying(timer[w])}) < Half

-----------------------------------------------------------------------------
(* By iterators: itrup and itrlow, which wrap around.                      *)

\* advanceIteratorWrapAround by 1 and by -1 from the member v of S
NextCW(S, v)  == CHOOSE w \in S \ {v} : \A u \in S \ {v} : CWDistance(v, w) <= CWDistance(v, u)
NextCCW(S, v) == CHOOSE w \in S \ {v} : \A u \in S \ {v} : CCWDistance(v, w) <= CCWDistance(v, u)

\* the walk has come to x on a side in its turn i; vneis are passed over
Meet(walk, vneis, timer, x, side, i) ==
  LET near == i < walk.card[side]
  IN  IF x \in vneis THEN walk
      ELSE [walk EXCEPT !.met        = @ \cup {x},
                        !.wanted     = IF near THEN @ \cup {x} ELSE @,
                        !.card[side] = IF near /\ Retrying(timer[x]) THEN @ + 1 ELSE @]

\* turn i of the loop, from 0
Turn(walk, vneis, nodes, timer, i) ==
  LET S     == vneis \cup nodes
      above == Meet(walk, vneis, timer, walk.up, "up", i)
      low   == IF S = {walk.low} THEN walk.low ELSE NextCCW(S, walk.low)
      below == Meet(above, vneis, timer, low, "low", i)
  IN  IF walk.ended \/ (walk.up = walk.low /\ i > 0) THEN [walk EXCEPT !.ended = TRUE]
      ELSE IF low = walk.up THEN [above EXCEPT !.low = low, !.ended = TRUE]
      ELSE [below EXCEPT !.low = low, !.up = NextCW(S, walk.up)]

FillWalk(vneis, nodes, timer) ==
  LET S     == vneis \cup nodes
      first == CHOOSE v \in S : \A w \in S : CWDistance(Me, v) <= CWDistance(Me, w)
      walk[i \in 0 .. Half + PendingHalf] ==
        IF i = 0
        THEN [up |-> first, low |-> first, met |-> {}, wanted |-> {}, ended |-> FALSE,
              card |-> [side \in {"up", "low"} |-> Half]]
        ELSE Turn(walk[i - 1], vneis, nodes, timer, i - 1)
  IN  walk[Half + PendingHalf]
============================================================================
