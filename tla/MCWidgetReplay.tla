---------------------------- MODULE MCWidgetReplay ----------------------------
(* Instances of WidgetReplay for TLC: three days, of which the first two are *)
(* of one month; two dealers.                                               *)
EXTENDS WidgetReplay, TLC

CONSTANTS monthly, target, yearly, average, other, s1, r1, r2

Calendar == [month |-> <<1, 1, 2>>, year |-> <<1, 1, 1>>]
Metrics == {monthly, target, yearly, average, other}
OfTheRate == {yearly, target}
Parts == [rate |-> <<monthly, target>>, share |-> <<average, other>>]
ZeroResults == [rate |-> Null, share |-> Zero]
Kept == [m \in Metrics |-> CASE m \in {monthly, target} -> "month"
                             [] m = yearly -> "year" [] OTHER -> "none"]
Summed == Metrics \ {average}
FromTable == [m \in Base |-> s1]

(* The last day's target is 0; the other metric has no row for dealer 2 on  *)
(* the first day.                                                          *)
n(k) == <<k, 1>>
Actual(v) == [k \in (1 .. 3) \X (1 .. 2) |-> n(IF k[1] = 2 THEN v ELSE 2 - v)]
Plan(rows) == [k \in rows |-> n(IF k[1] = 3 THEN 0 ELSE k[2])]
Tables == [m \in Base |-> [v \in 0 .. MaxLoads |->
              IF m \in {monthly, yearly, average} THEN Actual(v)
              ELSE Plan(((1 .. 3) \X (1 .. 2)) \ IF m = other THEN {<<1, 2>>} ELSE {})]]

Q(metrics, transform, byDealer) ==
    [metrics |-> metrics, transform |-> transform, byDealer |-> byDealer]
Plain == {Q(<<monthly>>, "none", TRUE), Q(<<yearly>>, "cumulative", FALSE),
          Q(<<average>>, "cumulative", FALSE), Q(<<monthly>>, "mom_change_pct", FALSE),
          Q(<<monthly, target>>, "none", TRUE), Q(<<average, other>>, "mom_change_pct", TRUE),
          Q(<<"share">>, "none", TRUE), Q(<<"share">>, "cumulative", FALSE)}
Twins == Permutations(Requests)

(* The yearly rate per month, a question of timeAxis.test.js. *)
YearlyParts == [rate |-> <<yearly, target>>]
YearlyZero == [rate |-> Zero]
Yearly == [m \in {yearly, target} |-> "year"]
OneRate == {Q(<<"rate">>, "none", FALSE)}
=============================================================================
