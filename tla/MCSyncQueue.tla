---------------------------- MODULE MCSyncQueue ----------------------------
(* SyncQueue on a small instance, for TLC. *)
EXTENDS SyncQueue
=============================================================================
