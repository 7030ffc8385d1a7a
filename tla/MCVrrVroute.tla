---------------------------- MODULE MCVrrVroute ----------------------------
(* Instances of VrrVroute for TLC. *)
EXTENDS VrrVroute

Line3  == {{0, 1}, {1, 2}}
Line4  == {{0, 1}, {1, 2}, {2, 3}}
Cycle4 == {{0, 1}, {1, 2}, {2, 3}, {0, 3}}
============================================================================
