-------------------------- MODULE MCControllerSync --------------------------
(* ControllerSync for TLC. *)
EXTENDS ControllerSync, TLC

Symmetry == Permutations(Replica)
=============================================================================
