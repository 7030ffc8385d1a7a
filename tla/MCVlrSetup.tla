----------------------------- MODULE MCVlrSetup -----------------------------
(* Instances of VlrSetup for TLC. *)
EXTENDS VlrSetup

Line(n)  == {{i, i + 1} : i \in 0 .. n - 2}
Star(n)  == {{0, i} : i \in 1 .. n - 1}
Triangle == {{0, 1}, {1, 2}, {0, 2}}

\* the representative is heard from the node before, or from itself
Net(links, vroutes, asks, fails, tries) ==
  [links |-> links, vroutes |-> vroutes, extra |-> {}, faults |-> fails, relinks |-> 0,
   parent |-> [n \in Nodes |-> IF n > 0 /\ {n - 1, n} \in links THEN n - 1 ELSE 0],
   asks |-> asks, overheard |-> <<>>, tries |-> tries]

Overheard(e, trace) == [e EXCEPT !.overheard = trace[1] :> (Last(trace) :> trace)]

Pair(a, b) == <<a, b>>

MCSetups ==
  \* nodes join all at once, replace each other's vneis, and are handed on
  { Net(Star(4), <<>>, {<<"join", 1, 1>>, <<"join", 2, 2>>, <<"join", 3, 3>>}, 0, 1),
    Net(Line(4), (1 :> Pair(0, 1)) @@ (2 :> Pair(1, 2)), {<<"join", 3, 3>>}, 0, 2),
    Net(Star(4), (1 :> Pair(0, 1)) @@ (2 :> Pair(0, 3)), {<<"join", 2, 2>>, <<"vnei", 2, 3>>}, 0, 2),
  \* two nodes want each other, by transfer nodes; a vroute of three hops
    Net(Line(4), (1 :> Pair(0, 1)) @@ (2 :> Pair(2, 3)), {<<"vnei", 0, 3>>, <<"vnei", 3, 0>>}, 0, 2),
    Net(Line(4), (1 :> Pair(0, 1)) @@ (2 :> Pair(1, 2)), {<<"route", 0, 3>>}, 0, 2),
    Net(Line(4), (1 :> Pair(0, 1)) @@ (2 :> Pair(1, 2)) @@ (3 :> Pair(2, 3)),
        {<<"tell", 1, 2>>, <<"notify", 1, 3>>, <<"vnei", 0, 3>>}, 0, 2),
  \* along an overheard trace, whole or broken
    Overheard(Net(Line(4), 1 :> Pair(0, 1), {<<"vnei", 0, 3>>, <<"test", 2, 0>>}, 0, 2), <<0, 1, 2, 3>>),
    Overheard(Net(Line(4), 1 :> Pair(0, 1), {<<"route", 0, 3>>}, 0, 2), <<0, 1, 2, 3>>),
    Overheard(Net(Triangle \cup {{2, 3}}, (1 :> Pair(0, 1)) @@ (2 :> Pair(2, 3)), {<<"vnei", 0, 3>>}, 0, 2), <<0, 1, 3>>),
  \* a link fails, or a node, under the setup
    Net(Line(3), <<>>, {<<"vnei", 0, 2>>, <<"test", 0, 2>>}, 1, 2),
    Net(Line(3), <<>>, {<<"join", 1, 1>>}, 1, 2),
  \* ... or under a vset route, which is patched and replaced
    Net(Triangle, 1 :> Pair(0, 1), {}, 1, 1),
  \* ... or under one that is not, with a packet on its way
    [Net(Triangle, 1 :> Pair(0, 1), {<<"test", 0, 1>>}, 1, 1) EXCEPT !.extra = {1}] }
============================================================================
