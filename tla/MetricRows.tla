------------------------------ MODULE MetricRows ------------------------------
(***************************************************************************)
(* The numbers of a widget made of registered metrics, computed twice:     *)
(* when the question is answered (agenticBiPipeline.js) and whenever the   *)
(* stored widget is opened again (dashboardQueryBundle.js), both with the  *)
(* helpers of agentic-bi/mergeMetricRows.js.                               *)
(*                                                                         *)
(* A metric's result is a column: a function from the rows a query         *)
(* returned, here <<time, dealer>>, to a number.  The transforms treat     *)
(* each metric on its own, so a table is a function from metrics to        *)
(* columns over the same rows.                                             *)
(***************************************************************************)
EXTENDS Integers, SequencesExt

CONSTANTS
    Times,       \* values of the time axis, in order
    Dealers,     \* values of the second dimension; 0 stands for all of them
    PeriodOf,    \* PeriodOf[g][t]: the month or the year that t is in
    DimGrain,    \* derive_grain of the time axis: "month" or "day"
    Base,        \* metrics with a query of their own
    Ratio,       \* Ratio[m]: numerator and denominator of a ratio metric m
    IfZero,      \* IfZero[m]: its zero_denominator_result
    Grain,       \* default_time_grain of a base metric, "none" without one
    Additive     \* base metrics that are summed or counted

Grains == [year |-> 0, month |-> 1, day |-> 2]
Rows == Times \X (Dealers \cup {0})

-----------------------------------------------------------------------------
(* Numbers are fractions; the one without a value is null.                 *)

Null == <<0, 0>>
Zero == <<0, 1>>
Numeric(x) == IF x = Null THEN Zero ELSE x
Plus(x, y) == <<x[1] * y[2] + y[1] * x[2], x[2] * y[2]>>
Over(x, y) == <<x[1] * y[2], x[2] * y[1]>>
Same(x, y) == (x = Null <=> y = Null) /\ x[1] * y[2] = y[1] * x[2]
SameColumn(c, d) == DOMAIN c = DOMAIN d /\ \A k \in DOMAIN c : Same(c[k], d[k])

ASSUME MetricAssumption ==
    /\ Times \subseteq Nat /\ Dealers \subseteq Nat \ {0}
    /\ PeriodOf \in [{"year", "month"} -> [Times -> Nat \ {0}]]
    /\ DimGrain \in {"month", "day"}
    /\ Ratio \in [DOMAIN Ratio -> Base \X Base] /\ DOMAIN Ratio \cap Base = {}
    /\ IfZero \in [DOMAIN Ratio -> {Null, Zero, <<1, 1>>}]
    /\ Grain \in [Base -> {"none", "year", "month"}] /\ Additive \subseteq Base

(* Dates are compared as texts, whose first four or seven characters are    *)
(* the period (periodKeyOf).                                               *)
ASSUME PeriodsInOrder ==
    \A g \in {"year", "month"} : \A t, u \in Times : t <= u => PeriodOf[g][t] <= PeriodOf[g][u]

-----------------------------------------------------------------------------
(* mergeMetricRows.js.                                                     *)

(* A row that one query did not return, or returned null in, counts as 0.  *)
Filled(column, rows) ==
    [k \in rows |-> IF k \in DOMAIN column THEN Numeric(column[k]) ELSE Zero]
mergeMetricRows(columns) ==
    LET rows == UNION {DOMAIN columns[m] : m \in DOMAIN columns}
    IN [m \in DOMAIN columns |-> Filled(columns[m], rows)]

applyRatioDerivation(m, table) ==
    LET numerator == table[Ratio[m][1]]
        denominator == table[Ratio[m][2]]
    IN [k \in DOMAIN numerator |->
           IF Numeric(denominator[k])[1] = 0 THEN IfZero[m]
           ELSE Over(Numeric(numerator[k]), Numeric(denominator[k]))]

(* Rows in order: by the other dimension and then by time, or by time only  *)
(* when the caller named no other (equal times then keep the order of the  *)
(* result, for which the order of the dealers stands).                     *)
Before(k, l, byDealer) ==
    LET i == IF byDealer THEN 2 ELSE 1
    IN k[i] < l[i] \/ (k[i] = l[i] /\ k[3 - i] < l[3 - i])
Sorted(rows, byDealer) ==
    [i \in 1 .. Cardinality(rows) |->
        CHOOSE k \in rows : Cardinality({l \in rows : Before(l, k, byDealer)}) = i - 1]
Partition(k, byDealer) == IF byDealer THEN k[2] ELSE 0

(* transform 'cumulative': a running sum per partition that starts again    *)
(* where the period changes.                                               *)
PeriodOfYears(reset, t) == IF reset = "year" THEN PeriodOf[reset][t] ELSE 0
Period(reset, t) == IF reset = "none" THEN 0 ELSE PeriodOf[reset][t]
NoRow(column) == [sum |-> [p \in Dealers \cup {0} |-> Zero],
                  period |-> [p \in Dealers \cup {0} |-> 0], out |-> column]
AddRow(acc, k, column, reset, byDealer) ==
    LET p == Partition(k, byDealer)
        period == Period(reset, k[1])
        start == IF acc.period[p] # period THEN Zero ELSE acc.sum[p]
        sum == Plus(start, Numeric(column[k]))
    IN [sum |-> [acc.sum EXCEPT ![p] = sum],
        period |-> [acc.period EXCEPT ![p] = period],
        out |-> [acc.out EXCEPT ![k] = sum]]
Cumulative(column, reset, byDealer) ==
    FoldLeft(LAMBDA acc, k : AddRow(acc, k, column, reset, byDealer), NoRow(column),
             Sorted(DOMAIN column, byDealer)).out

(* transform 'mom_change_pct': the change against the row before, null      *)
(* without one or when it is 0.                                            *)
Change(column, byDealer) ==
    [k \in DOMAIN column |->
        LET earlier == {l \in DOMAIN column : /\ Before(l, k, byDealer)
                                              /\ Partition(l, byDealer) = Partition(k, byDealer)}
            previous == CHOOSE l \in earlier :
                            \A j \in earlier : j = l \/ Before(j, l, byDealer)
            before == IF earlier = {} THEN Zero ELSE Numeric(column[previous])
            now == Numeric(column[k])
        IN IF before[1] = 0 THEN Null
           ELSE Over(Plus(now, <<-before[1], before[2]>>), before)]

applyTimeSeriesTransform(column, transform, reset, byDealer) ==
    CASE transform = "cumulative" -> Cumulative(column, reset, byDealer)
      [] transform = "mom_change_pct" -> Change(column, byDealer)
      [] OTHER -> column

-----------------------------------------------------------------------------
(* A question: the metrics asked for, the transform its words ask for, and *)
(* whether its rows are per dealer as well as per time.  "data" gives the   *)
(* column each base metric's query returns.                                *)

IsRatio(m) == m \in DOMAIN Ratio
QueriesFor(m) == IF IsRatio(m) THEN {Ratio[m][1], Ratio[m][2]} ELSE {m}
Asked(question) == {question.metrics[i] : i \in DOMAIN question.metrics}
Single(question) == Len(question.metrics) = 1

(* periodResetForAutoCumulative: a metric kept per month or year is shown   *)
(* cumulated within that period on a finer axis.  A ratio has no            *)
(* aggregation and is never meant.                                         *)
PeriodReset(m) ==
    IF ~IsRatio(m) /\ m \in Additive /\ Grain[m] # "none" /\ Grains[Grain[m]] < Grains[DimGrain]
    THEN Grain[m] ELSE "none"
Resets(question) == {PeriodReset(m) : m \in Asked(question)} \ {"none"}

(* resolveMetricRows, with applyAutoCumulative for every query it makes. *)
AutoCumulated(m, question, data) ==
    IF question.transform = "mom_change_pct" \/ PeriodReset(m) = "none" THEN data[m]
    ELSE Cumulative(data[m], PeriodReset(m), question.byDealer)
resolveMetricRows(m, question, data) ==
    IF IsRatio(m)
    THEN applyRatioDerivation(m,
             mergeMetricRows([q \in QueriesFor(m) |-> AutoCumulated(q, question, data)]))
    ELSE AutoCumulated(m, question, data)

(* What the answer shows (runAgenticBiQuery, renderMultiSeriesAndRespond):  *)
(* the user's own transform comes on top, unless it is the cumulation that *)
(* was made already.  For one metric it is told the time axis only.        *)
Answer(question, data) ==
    LET columns == [m \in Asked(question) |-> resolveMetricRows(m, question, data)]
        table == IF Single(question) THEN columns ELSE mergeMetricRows(columns)
        transform == IF question.transform = "cumulative" /\ Resets(question) # {}
                     THEN "none" ELSE question.transform
    IN [m \in Asked(question) |->
           applyTimeSeriesTransform(table[m], transform, "none",
                                    question.byDealer /\ ~Single(question))]

(* What the stored widget keeps: its queries, its derivations and one       *)
(* transform (persistedTimeSeriesSpec, buildQueryBundle and the end of     *)
(* renderMultiSeriesAndRespond).                                           *)
StoredNoReset(question) ==
    [queries |-> UNION {QueriesFor(m) : m \in Asked(question)},
     derivations |-> {m \in Asked(question) : IsRatio(m)},
     transform |-> IF question.transform # "mom_change_pct" /\ Resets(question) # {}
                   THEN "cumulative" ELSE question.transform,
     reset |-> "none"]
Stored(question) ==
    LET auto == question.transform # "mom_change_pct" /\ Cardinality(Resets(question)) = 1
    IN [queries |-> UNION {QueriesFor(m) : m \in Asked(question)},
        derivations |-> {m \in Asked(question) : IsRatio(m)},
        transform |-> IF auto THEN "cumulative" ELSE question.transform,
        reset |-> IF auto THEN CHOOSE r \in Resets(question) : TRUE ELSE "none"]

(* executeQueryBundle after its queries: merge, derive, transform. *)
Replay(question, data) ==
    LET bundle == Stored(question)
        columns == [q \in bundle.queries |-> data[q]]
        table == IF Cardinality(bundle.queries) = 1 THEN columns ELSE mergeMetricRows(columns)
        Derived(m) == IF m \in bundle.derivations THEN applyRatioDerivation(m, table)
                      ELSE table[m]
    IN [m \in Asked(question) |->
           applyTimeSeriesTransform(Derived(m), bundle.transform, bundle.reset,
                                    question.byDealer)]

(* The questions whose widget keeps all that its numbers depend on: the      *)
(* metrics are cumulated alike, a ratio stands alone and has no cumulated   *)
(* parts, and a transform of one metric has one row per time.  Several      *)
(* cumulated metrics must have the same rows: the answer cumulates each and *)
(* fills the rows it lacks with 0, the widget fills them and then cumulates.*)
KeepsAll(question, data) ==
    /\ \A m, n \in Asked(question) : PeriodReset(m) = PeriodReset(n)
    /\ \A m \in Asked(question) : IsRatio(m) =>
          /\ Single(question)
          /\ question.transform = "mom_change_pct" \/ \A q \in QueriesFor(m) : PeriodReset(q) = "none"
    /\ Single(question) /\ question.byDealer =>
          \/ question.transform = "none"
          \/ question.transform = "cumulative" /\ Resets(question) # {}
    /\ \/ Single(question) \/ Resets(question) = {} \/ question.transform = "mom_change_pct"
       \/ \A m, n \in Asked(question) : DOMAIN data[m] = DOMAIN data[n]
=============================================================================
