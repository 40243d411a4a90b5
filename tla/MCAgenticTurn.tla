--------------------------- MODULE MCAgenticTurn ---------------------------
(* Instances of AgenticTurn for TLC. *)
EXTENDS AgenticTurn, TLC

CONSTANTS r1, r2, r3, c1, c2, c3, c4

(* Two reports that each have a column of their own, as                     *)
(* delivery_status_monthly and target_management_month do; both have c3,    *)
(* and a report by the year has c4, which resembles a column of r1.         *)
MCOf == (r1 :> {c1, c3}) @@ (r2 :> {c2, c3}) @@ (r3 :> {c4})
MCAlike == {<<c4, r1>>}
=============================================================================
