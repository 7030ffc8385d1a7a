---------------------------- MODULE MCVlrRepair ----------------------------
(* Instances of VlrRepair for TLC. *)
EXTENDS VlrRepair

Cycle4   == {{0, 1}, {1, 2}, {2, 3}, {0, 3}}
Triangle == {{0, 1}, {1, 2}, {0, 2}}

\* node 1 hears the representative, 0, from node x, and the others from itself
Net(links, vroutes, extra, x, comebacks, fails) ==
  [links |-> links, vroutes |-> vroutes, extra |-> extra, faults |-> fails, relinks |-> comebacks,
   parent |-> [n \in Nodes |-> IF n = 1 THEN x ELSE 0]]

(* A vroute of two hops, both of which can fail at once with the node between *)
(* them; two vroutes over one link, of which one may expire during the repair, *)
(* and where the way round the link may fail as well, with the representative *)
(* heard over the link or round it; two vroutes in opposite directions; a    *)
(* vroute whose link comes back; and one whose link fails after the beacons  *)
(* of one side have been lost.                                               *)
MCSetups == {
  Net(Cycle4, 1 :> <<0, 1, 2>>, {}, 0, 0, 1),
  Net(Triangle, (1 :> <<0, 1>>) @@ (2 :> <<0, 1>>), {2}, 0, 0, 2),
  Net(Triangle, (1 :> <<0, 1>>) @@ (2 :> <<0, 1>>), {2}, 2, 0, 2),
  Net(Triangle, (1 :> <<0, 1>>) @@ (2 :> <<1, 0>>), {}, 2, 0, 1),
  Net(Triangle, 1 :> <<0, 1>>, {}, 2, 1, 1),
  Net({{0, 1}}, 1 :> <<0, 1>>, {}, 0, 1, 2)}
============================================================================
