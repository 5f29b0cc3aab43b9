--------------------------- MODULE MCSwarmEngine ---------------------------
(* SwarmEngine on a small instance, for TLC. *)
EXTENDS SwarmEngine
=============================================================================
