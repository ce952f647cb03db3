------------------------------ MODULE MCCilk ------------------------------
(* Instances of Cilk for TLC. *)
EXTENDS Cilk

=============================================================================
