----------------------------- MODULE MCFreshness -----------------------------
(* Instances of Freshness: two checks on one worker, one on the other.      *)
EXTENDS Freshness, TLC
CONSTANTS w1, w2, r1, r2, r3
Placement == (r1 :> w1) @@ (r2 :> w1) @@ (r3 :> w2)
Apart == (r1 :> w1) @@ (r3 :> w2)
==============================================================================
