---------------------------- MODULE MCFileObject ---------------------------
(* Instances of FileObject for TLC. *)
EXTENDS FileObject, TLC

Symmetry == Permutations(Coros) \cup Permutations(Files) \cup Permutations(Descs)

=============================================================================
