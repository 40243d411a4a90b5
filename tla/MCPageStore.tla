----------------------------- MODULE MCPageStore -----------------------------
(* Instances of PageStore for TLC. *)
EXTENDS PageStore, TLC

CONSTANTS hq, d1, hana, dana, n1, n2, o1, o2, o3, p1, p2, p3, t1, t2, c1, c2

(* Two tabs of one dealer user. *)
OneUser == {dana}
OneScopeOf == [u \in {dana} |-> d1]
OneUserOf == [s \in Sessions |-> dana]
(* Each page makes its own widget ids (randomUUID). *)
OwnIds == [k \in {hq, d1} \X Users \X Names |-> IF k[3] = n1 THEN {o1} ELSE {o2}]

(* A headquarters tab and a dealer tab. *)
TwoUsers == {hana, dana}
TwoScopeOf == [u \in {hana, dana} |-> IF u = hana THEN hq ELSE d1]
TwoUserOf == [s \in {t1, t2} |-> IF s = t1 THEN hana ELSE dana]
TemplateIds == [k \in {hq, d1} \X Users \X Names |-> IF k[2] = hana THEN {o1} ELSE {o2}]

Symmetric == Permutations(PageIds) \cup Permutations(Sessions) \cup Permutations(Contents)
(* The two tabs of a template run belong to different users. *)
SymmetricData == Permutations(PageIds) \cup Permutations(Contents)
=============================================================================
