----------------------------- MODULE MCVrrPset -----------------------------
(* Instances of VrrPset for TLC. *)
EXTENDS VrrPset

Pair     == {{0, 1}}
Line3    == {{0, 1}, {1, 2}}
Triangle == {{0, 1}, {1, 2}, {0, 2}}
=============================================================================
