---------------------------- MODULE MCFabricGate -----------------------------
(* Instances of FabricGate: two call slots on one worker, one on the other. *)
EXTENDS FabricGate, TLC
CONSTANTS w1, w2, c1, c2, c3
Placement == (c1 :> w1) @@ (c2 :> w1) @@ (c3 :> w2)
==============================================================================
