----------------------------- MODULE MCBlocks -----------------------------
(* Instances of Blocks and BlockIncluded for TLC. *)
EXTENDS BlockIncluded, TLC

(* Handles are interchangeable: nothing orders them. *)
HandleSymmetry == Permutations(Fids)

=============================================================================
