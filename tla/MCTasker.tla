----------------------------- MODULE MCTasker -----------------------------
(* Instances of Tasker for TLC. *)
EXTENDS Tasker

=============================================================================
