--------------------------- MODULE MCLinkFailure ---------------------------
(* Instances of LinkFailure for TLC. *)
EXTENDS LinkFailure

Pair     == {<<1, 2>>, <<2, 1>>}
Line3    == Pair \cup {<<2, 3>>, <<3, 2>>}
Triangle == Line3 \cup {<<1, 3>>, <<3, 1>>}
Messages == {Unicast} \cup {Beacon(b) : b \in BOOLEAN} \cup {NotifyLinkFailure(b) : b \in BOOLEAN}

LinksBatch(op, ls) == [op |-> op, links |-> ls, nodes |-> <<>>]
NodesBatch(op, ns) == [op |-> op, links |-> <<>>, nodes |-> ns]

(* A link that fails, comes back, and fails in the other order of its ends; *)
(* a node that fails and comes back; both nodes.                            *)
MCFiles == {
  <<LinksBatch("stop", <<<<1, 2>>>>), LinksBatch("start", <<<<1, 2>>>>), LinksBatch("stop", <<<<2, 1>>>>)>>,
  <<NodesBatch("stop", <<1>>), NodesBatch("start", <<1>>)>>,
  <<NodesBatch("stop", <<1, 2>>), NodesBatch("start", <<2, 1>>)>>}

(* Every link of a triangle fails and one of them comes back: it was stopped by *)
(* node 2, which had an entry already, and is started by node 1, which has one  *)
(* by then.                                                                     *)
MCOtherEnd == {
  <<LinksBatch("stop", <<<<2, 3>>, <<1, 2>>, <<1, 3>>>>), LinksBatch("start", <<<<1, 2>>>>)>>}
============================================================================
