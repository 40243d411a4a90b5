-------------------------- MODULE MCDashboardEditor --------------------------
(* Instances of DashboardEditor: two stored pages with a widget each, one   *)
(* more widget to add, and a template.                                      *)
EXTENDS DashboardEditor, TLC
CONSTANTS P, Q, a, b, c, t
TwoPages == P :> [version |-> 1, ids |-> {a}, layout |-> "l1", content |-> "t1"]
            @@ Q :> [version |-> 1, ids |-> {b}, layout |-> "l1", content |-> "t1"]
(* The two pages are alike, each with its widget. *)
Own == P :> a @@ Q :> b
Alike == {f \in Permutations({P, Q, a, b}) :
             \A n \in {P, Q} : f[n] \in {P, Q} /\ f[Own[n]] = Own[f[n]]}
==============================================================================
