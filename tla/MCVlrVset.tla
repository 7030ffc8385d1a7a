----------------------------- MODULE MCVlrVset -----------------------------
(* Instances of VlrVset for TLC, and of the fill walk. *)
EXTENDS VlrVset

Walk(me, h, ph) == INSTANCE VlrFillWalk WITH Me <- me, Half <- h, PendingHalf <- ph

AskedTwice == [retry |-> 2, reqVnei |-> TRUE, sched |-> TRUE]

(* The fill walk, whose iterators wrap around the ring and may meet, looks at *)
(* the nodes, and takes those to belong to the vset, that their ranks say it  *)
(* should (Vlr.cc:7493-7531): for every node, vset, pendingVset and set of    *)
(* nodes asked in vain, with walks that end where the iterators meet and ones *)
(* that end before.                                                           *)
ASSUME FillWalkByRank ==
  \A me \in RingVids, h \in 1 .. 2, ph \in 0 .. 2 :
  \A vneis, nodes \in SUBSET (RingVids \ {me}) : nodes # {} /\ nodes \cap vneis = {} =>
  \A retrying \in SUBSET nodes :
    LET S     == vneis \cup nodes
        timer == [n \in RingVids |-> IF n \in retrying THEN AskedTwice ELSE NoTimer]
        walk  == Walk(me, h, ph)!FillWalk(vneis, nodes, timer)
        met   == {n \in nodes : Walk(me, h, ph)!Reached(S, n)}
    IN  /\ walk.met = met
        /\ walk.wanted = {n \in met : Walk(me, h, ph)!Belongs(S, timer, n)}
============================================================================
