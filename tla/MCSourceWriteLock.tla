------------------------- MODULE MCSourceWriteLock -------------------------
(* Instances of SourceWriteLock for TLC. *)
EXTENDS SourceWriteLock
=============================================================================
