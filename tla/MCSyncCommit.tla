---------------------------- MODULE MCSyncCommit ---------------------------
(* Instances of SyncCommit for TLC. *)
EXTENDS SyncCommit
=============================================================================
