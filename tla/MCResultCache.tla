---------------------------- MODULE MCResultCache ----------------------------
(* Instances of ResultCache: two slots on one worker, one on the other.     *)
EXTENDS ResultCache, TLC
CONSTANTS w1, w2, r1, r2, r3
Placement == (r1 :> w1) @@ (r2 :> w1) @@ (r3 :> w2)
Apart == (r1 :> w1) @@ (r3 :> w2)
Twins == Permutations({r1, r2})
==============================================================================
