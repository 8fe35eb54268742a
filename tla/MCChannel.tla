----------------------------- MODULE MCChannel -----------------------------
(* Instances of Channel for TLC. *)
EXTENDS Channel, TLC

CONSTANTS m1, a1, b1, t1, t2

(* One channel in the main state, and two in the first task. *)
ThreeHomes == m1 :> Main @@ a1 :> t1 @@ b1 :> t1
TwoHomes == m1 :> Main @@ a1 :> t1
=============================================================================
