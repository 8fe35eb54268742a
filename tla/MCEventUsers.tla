---------------------------- MODULE MCEventUsers ---------------------------
(* Instances of EventUsers for TLC. *)
EXTENDS EventUsers, TLC

Symmetry == Permutations(Coros)

=============================================================================
