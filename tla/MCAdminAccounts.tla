--------------------------- MODULE MCAdminAccounts ---------------------------
(* Instances of AdminAccounts for TLC. *)
EXTENDS AdminAccounts, TLC

CONSTANTS r1, r2, u1, a1, e1, e2, c1, c2, p1, p2

(* Each operation with the fields that can differ; an account is always     *)
(* created with e1, c1 and p1.                                             *)
MCForms ==
    {Nothing,
     [Nothing EXCEPT !.email = e1, !.company = c1],
     [Nothing EXCEPT !.email = e1, !.company = c1, !.password = p1],
     [Nothing EXCEPT !.company = c2],
     [Nothing EXCEPT !.password = p2],
     [Nothing EXCEPT !.password = p2, !.old = p1],
     [Nothing EXCEPT !.workspaces = "empty"],
     [Nothing EXCEPT !.company = c2, !.workspaces = "some"]}
=============================================================================
