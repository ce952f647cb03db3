------------------------------ MODULE MCFaults ------------------------------
(***************************************************************************)
(* Instances of Faults for TLC: stacks of whole pages and of pages and a   *)
(* half.                                                                   *)
(***************************************************************************)
EXTENDS Faults, TLC

MCSizes == {<<6, 6, 6, 6>>, <<10, 6, 10, 6>>, <<6, 10, 6, 10>>}
Symmetry == Permutations(Tasks)

=============================================================================
