--------------------------- MODULE MCCoOperation ---------------------------
(* Instances of CoOperation for TLC. *)
EXTENDS CoOperation, TLC

(* Coroutines are interchangeable. *)
Symmetry == Permutations(Threads)
=============================================================================
