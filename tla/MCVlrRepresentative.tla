------------------------ MODULE MCVlrRepresentative ------------------------
(* Instances of VlrRepresentative for TLC. *)
EXTENDS VlrRepresentative

Line3     == {{0, 1}, {1, 2}}
Line4     == {{0, 1}, {1, 2}, {2, 3}}
Triangle  == {{0, 1}, {1, 2}, {0, 2}}
=============================================================================
