------------------------- MODULE MCUdataOperation --------------------------
(* Instances of UdataOperation for TLC. *)
EXTENDS UdataOperation, TLC

Symmetry == Permutations(Coros)

=============================================================================
