--------------------------- MODULE MCVlrVsetLive ---------------------------
(* An instance of VlrVset for TLC. *)
EXTENDS VlrVset
============================================================================
