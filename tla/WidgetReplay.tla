----------------------------- MODULE WidgetReplay -----------------------------
(***************************************************************************)
(* Opening a stored widget again: executeCachedQueryBundle of              *)
(* dashboardObjectExecution.js and executeQueryBundle of                   *)
(* dashboardQueryBundle.js.  The watermarks of the sources make a           *)
(* fingerprint, the fingerprint is part of the result's cache key, and on   *)
(* a miss the queries of the bundle run side by side, each seeing the data  *)
(* of its own moment while the ETL goes on loading.                        *)
(*                                                                         *)
(* What a single check of a watermark and a single access of the result    *)
(* cache go through is in Freshness and ResultCache; here two requests     *)
(* may both miss, as they do when a lock expired.                          *)
(***************************************************************************)
EXTENDS MetricRows

CONSTANTS
    Questions,   \* the questions whose widgets are stored
    Sources,     \* source tables
    SourceOf,    \* SourceOf[m]: the table that base metric m is computed from
    Table,       \* Table[m][v]: its rows per time and dealer after v loads
    MaxLoads,    \* bound on the loads of a source
    MaxKept,     \* bound on the results kept at a time
    Requests,
    Absent,      \* no mark yet, no answer yet
    NoWatermark, \* the status 'unavailable' of a source
    Failed

VARIABLES
    question,    \* what the widget was made for
    loads,       \* how often the ETL has loaded each source
    mark,        \* the shared watermark entry of each source, Absent without one
    cache,       \* results: the fingerprint they are kept under, what was read
    request      \* what each request is doing

wvars == <<question, loads, mark, cache, request>>

Loads == 0 .. MaxLoads
Bundle == Stored(question).queries
Dependencies == {SourceOf[q] : q \in Bundle}
Idle == [pc |-> "idle", force |-> FALSE, print |-> <<>>, read |-> <<>>]

ASSUME ReplayAssumption ==
    /\ SourceOf \in [Base -> Sources]
    /\ Questions \subseteq [metrics: Seq(Base \cup DOMAIN Ratio), byDealer: BOOLEAN,
                           transform: {"none", "cumulative", "mom_change_pct"}]
    /\ MaxLoads \in Nat /\ MaxKept \in Nat /\ {Absent, NoWatermark, Failed} \cap Loads = {}
(* A source holds finitely many rows, each with a number (a sum or count).  *)
ASSUME RowsOfASource ==
    \A q \in Base : \A v \in Loads :
        LET rows == DOMAIN Table[q][v]
        IN /\ rows \subseteq Times \X Dealers /\ IsFiniteSet(rows)
           /\ Table[q][v] \in [rows -> Int \X (Nat \ {0})]

-----------------------------------------------------------------------------
(* Numbers.                                                                *)

(* A query groups by what the question asks for. *)
Total(column, K) == FoldSet(LAMBDA k, sum : Plus(sum, column[k]), Zero, K)
Grouped(column, byDealer) ==
    IF byDealer THEN column
    ELSE LET at(t) == {k \in DOMAIN column : k[1] = t}
         IN [k \in {<<t, 0>> : t \in {l[1] : l \in DOMAIN column}} |-> Total(column, at(k[1]))]

(* The columns that the queries return when they meet these loads. *)
Data(about, read) == [q \in DOMAIN read |-> Grouped(Table[q][read[q]], about.byDealer)]

-----------------------------------------------------------------------------
(* A request.                                                              *)

Open(r, force) ==
    /\ request[r].pc = "idle"
    /\ request' = [request EXCEPT ![r] = [Idle EXCEPT !.pc = "check", !.force = force,
                                            !.print = [s \in Dependencies |-> Absent]]]
    /\ UNCHANGED <<question, loads, mark, cache>>

(* loadWatermark: the entry of the last hour, or the table is asked, which  *)
(* may fail, and the answer becomes the entry.                             *)
Known(r, s) ==
    /\ request[r].pc = "check" /\ s \in Dependencies /\ request[r].print[s] = Absent
    /\ ~request[r].force /\ mark[s] # Absent
    /\ request' = [request EXCEPT ![r].print[s] = mark[s]]
    /\ UNCHANGED <<question, loads, mark, cache>>
AskSource(r, s) ==
    /\ request[r].pc = "check" /\ s \in Dependencies /\ request[r].print[s] = Absent
    /\ request[r].force \/ mark[s] = Absent
    /\ \/ /\ request' = [request EXCEPT ![r].print[s] = loads[s]]
          /\ mark' = [mark EXCEPT ![s] = loads[s]]
       \/ /\ request' = [request EXCEPT ![r].print[s] = NoWatermark]
          /\ UNCHANGED mark
    /\ UNCHANGED <<question, loads, cache>>

Entries(print) == {e \in cache : e.print = print}

(* resolveFingerprint has answered for every source (Promise.all). *)
Lookup(r) ==
    /\ request[r].pc = "check"
    /\ \A s \in Dependencies : request[r].print[s] # Absent
    /\ IF request[r].force \/ Entries(request[r].print) = {}
       THEN request' = [request EXCEPT ![r].pc = "run",
                                       ![r].read = [q \in Bundle |-> Absent]]
       ELSE \E e \in Entries(request[r].print) :
               request' = [request EXCEPT ![r].pc = "shown", ![r].read = e.read]
    /\ UNCHANGED <<question, loads, mark, cache>>

(* One query of Promise.allSettled settles. *)
Settle(r, q) ==
    /\ request[r].pc = "run" /\ q \in Bundle /\ request[r].read[q] = Absent
    /\ \E outcome \in {loads[SourceOf[q]], Failed} :
          request' = [request EXCEPT ![r].read[q] = outcome]
    /\ UNCHANGED <<question, loads, mark, cache>>

(* All have settled.  If one failed, so does the request and nothing is     *)
(* kept; otherwise the result is kept under the fingerprint that was        *)
(* resolved before the queries ran.                                        *)
Failures(r) == {q \in Bundle : request[r].read[q] = Failed}
PrintNow(r) == [s \in DOMAIN request[r].print |-> loads[s]]
PrintOf(r) == request[r].print
Finish(r) ==
    /\ request[r].pc = "run" /\ \A q \in Bundle : request[r].read[q] # Absent
    /\ IF Failures(r) # {}
       THEN request' = [request EXCEPT ![r] = Idle] /\ UNCHANGED cache
       ELSE /\ request' = [request EXCEPT ![r].pc = "shown"]
            /\ Cardinality(cache \ Entries(PrintOf(r))) < MaxKept
            /\ cache' = (cache \ Entries(PrintOf(r)))
                           \cup {[print |-> PrintOf(r), read |-> request[r].read]}
    /\ UNCHANGED <<question, loads, mark>>

Close(r) ==
    /\ request[r].pc = "shown"
    /\ request' = [request EXCEPT ![r] = Idle]
    /\ UNCHANGED <<question, loads, mark, cache>>

-----------------------------------------------------------------------------
(* What happens around the requests.                                       *)

Load(s) ==
    /\ loads[s] < MaxLoads
    /\ loads' = [loads EXCEPT ![s] = @ + 1]
    /\ UNCHANGED <<question, mark, cache, request>>

(* The TTLs of the runtime store. *)
ExpireMark(s) ==
    /\ mark[s] # Absent
    /\ mark' = [mark EXCEPT ![s] = Absent]
    /\ UNCHANGED <<question, loads, cache, request>>
ExpireResult(e) ==
    /\ cache' = cache \ {e}
    /\ UNCHANGED <<question, loads, mark, request>>

ReplayInit ==
    /\ question \in Questions
    /\ loads = [s \in Sources |-> 0]
    /\ mark = [s \in Sources |-> Absent]
    /\ cache = {}
    /\ request = [r \in Requests |-> Idle]

ReplayNext ==
    \/ \E r \in Requests :
          \/ \E force \in BOOLEAN : Open(r, force)
          \/ \E s \in Sources : Known(r, s) \/ AskSource(r, s)
          \/ Lookup(r)
          \/ \E q \in Base : Settle(r, q)
          \/ Finish(r) \/ Close(r)
    \/ \E s \in Sources : Load(s) \/ ExpireMark(s)
    \/ \E e \in cache : ExpireResult(e)

ReplaySpec == ReplayInit /\ [][ReplayNext]_wvars
-----------------------------------------------------------------------------
(* Properties.                                                             *)

(* Queries that ran before and after a load can end up in one result.  It   *)
(* is never kept where those who know of the load would find it: a result  *)
(* kept under the watermarks the sources have now was read from what they  *)
(* hold now, whatever checks, loads and failures came between.             *)
CurrentKeyIsCurrent ==
    \A e \in cache : (\A s \in DOMAIN e.print : e.print[s] = loads[s]) =>
        \A q \in DOMAIN e.read : e.read[q] = loads[SourceOf[q]]

(* The comments of mergeMetricRows.js and resolveMetricRows: what a stored  *)
(* widget shows is what the question itself is answered with on the same   *)
(* data.  It holds for widgets that keep all that their numbers depend on. *)
Agrees(about, data) ==
    \A m \in Asked(about) : SameColumn(Replay(about, data)[m], Answer(about, data)[m])
ReplayIsTheAnswer ==
    \A r \in Requests :
        request[r].pc = "shown" => Agrees(question, Data(question, request[r].read))
PlainReplayIsTheAnswer ==
    \A r \in Requests : request[r].pc = "shown" =>
        LET data == Data(question, request[r].read)
        IN KeepsAll(question, data) => Agrees(question, data)

(* A metric kept per month or year and shown on a finer axis: each of its    *)
(* rows is the total of that dealer's rows of the period up to it.         *)
AutoCumulates == Single(question) /\ Resets(question) # {} /\ question.transform # "mom_change_pct"
UpTo(m, k, rows) ==
    {l \in rows : /\ l[2] = k[2] /\ l[1] <= k[1]
                  /\ PeriodOf[PeriodReset(m)][l[1]] = PeriodOf[PeriodReset(m)][k[1]]}
CumulatedIsTheTotal ==
    \A r \in Requests : request[r].pc = "shown" /\ AutoCumulates =>
        LET data == Data(question, request[r].read)
        IN \A m \in Asked(question) : \A k \in DOMAIN data[m] :
              Same(Replay(question, data)[m][k], Total(data[m], UpTo(m, k, DOMAIN data[m])))
=============================================================================
