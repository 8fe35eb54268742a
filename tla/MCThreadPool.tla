---------------------------- MODULE MCThreadPool ----------------------------
(* Instances of ThreadPool for TLC. *)
EXTENDS ThreadPool, TLC

(* Tasks and system threads are interchangeable. *)
Symmetry == Permutations(Tasks) \cup Permutations(Workers)
=============================================================================
