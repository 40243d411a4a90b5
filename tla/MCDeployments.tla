---------------------------- MODULE MCDeployments ----------------------------
(* Instances of Deployments for TLC. *)
EXTENDS Deployments, TLC

CONSTANTS hq, d1, dana, eli, n1, o1, o2, p1, p2, t1, t2, a, b, c1

(* Two people of one dealer, each with a page of their own. *)
Colleagues == {dana, eli}
InD1 == [u \in Colleagues |-> d1]
OneTabEach == [s \in Sessions |-> IF s = t1 THEN dana ELSE eli]
OwnObject == [k \in {hq, d1} \X Users \X Names |-> IF k[2] = dana THEN {o1} ELSE {o2}]
(* Renaming the colleagues with all that is theirs, pages, and shared tabs. *)
ObjectOf == t1 :> o1 @@ t2 :> o2
SwapPeople == {f \in Permutations({dana, eli, t1, t2, o1, o2}) :
                  \A s \in {t1, t2} : /\ f[s] \in {t1, t2}
                                      /\ f[OneTabEach[s]] = OneTabEach[f[s]]
                                      /\ f[ObjectOf[s]] = ObjectOf[f[s]]}
Renamings == SwapPeople \cup Permutations(PageIds) \cup Permutations(Tabs)
AllUsers == [u \in Users |-> "user"]
=============================================================================
