-------------------------- MODULE AgenticTurnProofs --------------------------
(***************************************************************************)
(* Proofs about AgenticTurn, for any reports, columns and limits: a turn   *)
(* ends once, calls the model four times at most, and what it proposes     *)
(* answers the question and fits the dashboard.                            *)
(***************************************************************************)
EXTENDS AgenticTurn, TLAPS

(* The set Preparation, with names for the sets of its fields: the provers  *)
(* need not look into them.                                                *)
Swaps == 0 .. StackDepth
Bundles == 1 .. 2
Dones == 0 .. 2
ReportIds == Reports \cup {None}
Prepared == [id: ReportIds, chosen: BOOLEAN, reselect: BOOLEAN,
             swaps: Swaps, bundle: Bundles, done: Dones]

(* How often the model has been called by the time a turn gets to a place. *)
Budget(place) ==
    IF place \in {"idle", "begin", "select"} THEN 0
    ELSE IF place \in {"restyle", "regroup", "unanswerable", "columns"} THEN 1
    ELSE IF place \in {"rate", "decline"} THEN 2
    ELSE IF place \in {"week", "structure", "values", "validate", "target", "metrics",
                       "single", "kpis", "series"} THEN 3
    ELSE 4

(* Past the checks of its route and of its month a report the model chose  *)
(* answers the question.                                                   *)
Routed == at \in {"month", "names", "run", "narrow", "shape", "emit"}
Dated == at \in {"names", "run", "narrow", "shape", "emit"}
TelltaleColumns(r) == Missed(question.columns, r) = {}
TelltaleMonth(r) == question.month => r \in Monthly

Budgeted ==
    /\ llm \in Nat /\ llm <= Budget(at)
    /\ at = "retry" => /\ resume \in {"reask", "decline", "rate", "week", "invalid"}
                       /\ llm + 1 <= Budget(resume)
    /\ at \in {"route", "month"} /\ report.reselect => llm <= 1
OnTrack ==
    /\ Routed /\ report.chosen => TelltaleColumns(report.id)
    /\ Dated /\ report.chosen => TelltaleMonth(report.id)
SaysOnce == IF at = "end" THEN Len(said) = 1 ELSE said = <<>>

Fits(e) ==
    /\ e.report # None => TelltaleColumns(e.report) /\ TelltaleMonth(e.report)
    /\ e.kind = "patch" =>
          question.widgets # None /\ question.widgets + e.adds <= MaxWidgets

TurnInv ==
    /\ question \in Question /\ report \in Prepared
    /\ at \notin {"emit", "end"} => report.done < report.bundle
    /\ Budgeted /\ OnTrack /\ SaysOnce /\ ReportFitsQuestion /\ ProposalFits

(* What the steps make of these fields. *)
LEMMA PreparedShape ==
    /\ None \in ReportIds /\ 0 \in Swaps /\ 0 \in Dones /\ 1 \in Bundles /\ 2 \in Bundles
    /\ \A r \in Reports : r \in ReportIds
    /\ \A s \in Swaps : s # StackDepth => s + 1 \in Swaps
    /\ \A d \in Dones, b \in Bundles : d < b => d + 1 \in Dones
<1>1. /\ None \in ReportIds /\ 0 \in Swaps /\ 0 \in Dones /\ 1 \in Bundles /\ 2 \in Bundles
      /\ \A r \in Reports : r \in ReportIds
  BY ReportsAssumption DEF ReportIds, Swaps, Dones, Bundles
<1>2. /\ \A s \in Swaps : s # StackDepth => s + 1 \in Swaps
      /\ \A d \in Dones, b \in Bundles : d < b => d + 1 \in Dones
  BY ReportsAssumption DEF Swaps, Dones, Bundles
<1>3. QED BY <1>1, <1>2

LEMMA TurnInvInit == Init => TurnInv
<1> SUFFICES ASSUME Init PROVE TurnInv
  OBVIOUS
<1>1. NoQuestion \in Question
  <2>1. {} \in SUBSET Columns /\ FALSE \in BOOLEAN /\ None \in {None} \cup (0 .. MaxWidgets)
    OBVIOUS
  <2>2. QED BY <2>1, Zenon DEF NoQuestion, Question
<1>2. NoReport \in Prepared /\ NoReport.done < NoReport.bundle
  BY PreparedShape DEF NoReport, Prepared
<1>3. Budgeted /\ OnTrack /\ SaysOnce
  BY DEF Init, Budgeted, Budget, OnTrack, Routed, Dated, SaysOnce
<1>4. ReportFitsQuestion /\ ProposalFits
  BY DEF Init, ReportFitsQuestion, ProposalFits
<1>5. QED BY <1>1, <1>2, <1>3, <1>4 DEF Init, TurnInv

(* A turn ends with a fitting answer. *)
LEMMA FinishKeeps ==
    ASSUME TurnInv, at # "end", NEW e, Fits(e), Finish(e)
    PROVE  TurnInv'
<1>1. /\ said = <<>> /\ said' = Append(said, e) /\ at' = "end"
      /\ UNCHANGED <<question, report, llm, resume, update>>
  BY DEF TurnInv, SaysOnce, Finish
<1>2. Len(said') = 1 /\ DOMAIN said' = {1} /\ said'[1] = e
  BY <1>1
<1>3. Budgeted'
  BY <1>1 DEF TurnInv, Budgeted, Budget
<1>4. OnTrack' /\ SaysOnce'
  BY <1>1, <1>2 DEF OnTrack, SaysOnce, Routed, Dated
<1>5. ReportFitsQuestion'
  BY <1>1, <1>2 DEF ReportFitsQuestion, Fits, TelltaleColumns, TelltaleMonth
<1>6. ProposalFits'
  BY <1>1, <1>2 DEF ProposalFits, Fits
<1>7. QED BY <1>1, <1>3, <1>4, <1>5, <1>6 DEF TurnInv

LEMMA PlainFits ==
    ASSUME NEW k, k # "patch" \/ HasWidgets, TurnInv
    PROVE  Fits(Plain(k))
<1>1. Plain(k).report = None /\ Plain(k).kind = k /\ Plain(k).adds = 0
  BY DEF Plain
<1>2. question.widgets \in {None} \cup (0 .. MaxWidgets)
  BY DEF TurnInv, Question
<1>3. CASE k # "patch"
  BY <1>1, <1>3 DEF Fits
<1>4. CASE HasWidgets
  <2>1. question.widgets # None /\ question.widgets \in 0 .. MaxWidgets
    BY <1>2, <1>4 DEF HasWidgets
  <2>2. question.widgets + 0 <= MaxWidgets
    BY <2>1, ReportsAssumption
  <2>3. QED BY <1>1, <2>1, <2>2 DEF Fits
<1>5. QED BY <1>3, <1>4

(* A turn goes on outside a report's way, with the calls the place allows. *)
LEMMA GoKeeps ==
    ASSUME TurnInv, at \notin {"end", "emit"}, NEW next, Go(next),
           next \notin {"end", "retry", "route", "month", "names", "run", "narrow", "shape", "emit"},
           llm <= Budget(next)
    PROVE  TurnInv'
<1>1. at' = next /\ UNCHANGED <<question, report, llm, said, resume, update>>
  BY DEF Go
<1>2. Budgeted' /\ OnTrack' /\ SaysOnce'
  BY <1>1 DEF TurnInv, Budgeted, OnTrack, SaysOnce, Routed, Dated
<1>3. ReportFitsQuestion' /\ ProposalFits'
  BY <1>1 DEF TurnInv, ReportFitsQuestion, ProposalFits
<1>4. QED BY <1>1, <1>2, <1>3 DEF TurnInv

(* A report goes on, checked as far as its next place asks. *)
LEMMA ReportKeeps ==
    ASSUME TurnInv, at \notin {"end", "emit"}, NEW next, Go(next),
           next \in {"month", "names", "run", "narrow", "shape"},
           next = "month" => at = "route",
           report.chosen => TelltaleColumns(report.id),
           next # "month" /\ report.chosen => TelltaleMonth(report.id)
    PROVE  TurnInv'
<1>1. at' = next /\ UNCHANGED <<question, report, llm, said, resume, update>>
  BY DEF Go
<1>2. Budgeted'
  BY <1>1 DEF TurnInv, Budgeted, Budget
<1>3. OnTrack' /\ SaysOnce'
  BY <1>1 DEF TurnInv, OnTrack, SaysOnce, Routed, Dated, TelltaleColumns, TelltaleMonth
<1>4. ReportFitsQuestion' /\ ProposalFits'
  BY <1>1 DEF TurnInv, ReportFitsQuestion, ProposalFits
<1>5. QED BY <1>1, <1>2, <1>3, <1>4 DEF TurnInv

(* A retry may answer the question, or let the turn go on. *)
LEMMA AskAgainKeeps ==
    ASSUME TurnInv, at \notin {"end", "emit"}, NEW then, AskAgain(then),
           then \in {"reask", "decline", "rate", "week", "invalid"}, llm + 1 <= Budget(then)
    PROVE  TurnInv'
<1>1. at' = "retry" /\ resume' = then /\ UNCHANGED <<question, report, llm, said, update>>
  BY DEF AskAgain
<1>2. Budgeted' /\ OnTrack' /\ SaysOnce'
  BY <1>1 DEF TurnInv, Budgeted, Budget, OnTrack, SaysOnce, Routed, Dated
<1>3. ReportFitsQuestion' /\ ProposalFits'
  BY <1>1 DEF TurnInv, ReportFitsQuestion, ProposalFits
<1>4. QED BY <1>1, <1>2, <1>3 DEF TurnInv

(* Reports as the steps prepare them. *)
LEMMA NoReportYet ==
    /\ NoReport \in Prepared /\ NoReport.done < NoReport.bundle
    /\ ~NoReport.chosen /\ ~NoReport.reselect
<1>1. NoReport \in Prepared
  BY PreparedShape DEF NoReport, Prepared
<1>2. NoReport.done < NoReport.bundle /\ ~NoReport.chosen /\ ~NoReport.reselect
  BY DEF NoReport
<1>3. QED BY <1>1, <1>2

LEMMA ChosenReport ==
    ASSUME NEW r \in Reports, NEW b \in BOOLEAN, report' = [Chosen(r) EXCEPT !.reselect = b]
    PROVE  report' \in Prepared /\ report'.done < report'.bundle
<1>1. [Chosen(r) EXCEPT !.reselect = b] \in Prepared
  BY NoReportYet, PreparedShape DEF Chosen, Prepared
<1>2. /\ [Chosen(r) EXCEPT !.reselect = b].done = 0
      /\ [Chosen(r) EXCEPT !.reselect = b].bundle = 1
  BY DEF Chosen, NoReport
<1>3. QED BY <1>1, <1>2

LEMMA RetriedReport ==
    ASSUME NEW r \in Reports, report' = [Chosen(r) EXCEPT !.reselect = FALSE]
    PROVE  report' \in Prepared /\ report'.done < report'.bundle /\ ~report'.reselect
<1>1. ~[Chosen(r) EXCEPT !.reselect = FALSE].reselect
  BY DEF Chosen, NoReport
<1>2. QED BY <1>1, ChosenReport

LEMMA FunnelReports ==
    ASSUME NEW n \in 1 .. 2, report' = [NoReport EXCEPT !.id = FunnelReport, !.bundle = n]
    PROVE  report' \in Prepared /\ ~report'.chosen /\ report'.done < report'.bundle
<1>1. n \in Bundles
  BY DEF Bundles
<1>2. [NoReport EXCEPT !.id = FunnelReport, !.bundle = n] \in Prepared
  BY <1>1, NoReportYet, PreparedShape, FunnelAssumption DEF Prepared
<1>3. /\ ~[NoReport EXCEPT !.id = FunnelReport, !.bundle = n].chosen
      /\ [NoReport EXCEPT !.id = FunnelReport, !.bundle = n].done = 0
      /\ [NoReport EXCEPT !.id = FunnelReport, !.bundle = n].bundle = n
  BY DEF NoReport
<1>4. QED BY <1>2, <1>3

-----------------------------------------------------------------------------
(* One lemma for each action, or for those of a kind: the invariant is kept. *)

LEMMA AskAgentKeeps ==
    ASSUME TurnInv, NEW columns \in SUBSET Columns, NEW month \in BOOLEAN,
           NEW widgets \in {None} \cup (0 .. MaxWidgets), AskAgent(columns, month, widgets)
    PROVE  TurnInv'
<1>1. /\ at = "idle" /\ at' = "begin" /\ said = <<>> /\ said' = said
      /\ UNCHANGED <<report, llm, resume, update>>
  BY DEF AskAgent, TurnInv, SaysOnce
<1>2. question' \in Question
  BY Zenon DEF AskAgent, Question
<1>3. Budgeted' /\ OnTrack' /\ SaysOnce'
  BY <1>1 DEF TurnInv, Budgeted, Budget, OnTrack, SaysOnce, Routed, Dated
<1>4. ReportFitsQuestion' /\ ProposalFits'
  BY <1>1 DEF ReportFitsQuestion, ProposalFits
<1>5. QED BY <1>1, <1>2, <1>3, <1>4 DEF TurnInv

(* A report is set to be prepared, chosen by the model or not. *)
LEMMA PreparingKeeps ==
    ASSUME TurnInv, at \notin {"end", "emit"}, report' \in Prepared,
           report'.done < report'.bundle, at' \in {"route", "names"}, llm' \in Nat, llm' <= 4,
           at' = "names" => ~report'.chosen,
           at' = "route" /\ report'.reselect => llm' <= 1,
           UNCHANGED <<question, said>>
    PROVE  TurnInv'
<1>1. Budgeted' /\ OnTrack' /\ SaysOnce'
  BY DEF TurnInv, Budgeted, Budget, OnTrack, SaysOnce, Routed, Dated
<1>2. ReportFitsQuestion' /\ ProposalFits'
  BY DEF TurnInv, ReportFitsQuestion, ProposalFits
<1>3. QED BY <1>1, <1>2 DEF TurnInv

LEMMA BeginKeeps == ASSUME TurnInv, Begin PROVE TurnInv'
<1>1. at = "begin" /\ llm = 0
  BY DEF Begin, TurnInv, Budgeted, Budget
<1>2. CASE Finish(Plain("reask")) \/ Fail
  BY <1>1, <1>2, PlainFits, FinishKeeps DEF Fail
<1>3. CASE Go("select")
  BY <1>1, <1>3, GoKeeps DEF Budget
<1>4. CASE /\ \E n \in 1 .. 2 : report' = [NoReport EXCEPT !.id = FunnelReport, !.bundle = n]
           /\ at' = "names" /\ UNCHANGED <<question, llm, said, resume, update>>
  <2>1. PICK n \in 1 .. 2 : report' = [NoReport EXCEPT !.id = FunnelReport, !.bundle = n]
    BY <1>4
  <2>2. report' \in Prepared /\ ~report'.chosen /\ report'.done < report'.bundle
    BY <2>1, FunnelReports
  <2>3. QED BY <1>1, <1>4, <2>2, PreparingKeeps
<1>5. QED BY <1>2, <1>3, <1>4 DEF Begin

LEMMA SelectKeeps == ASSUME TurnInv, Select PROVE TurnInv'
<1>1. /\ at = "select" /\ llm' = 1 /\ UNCHANGED <<question, resume, update>> /\ said = <<>>
  BY DEF Select, TurnInv, Budgeted, Budget, SaysOnce
<1>2. CASE at' \in {"restyle", "regroup", "unanswerable", "columns"} /\ UNCHANGED <<report, said>>
  <2>1. Budgeted' /\ OnTrack' /\ SaysOnce'
    BY <1>1, <1>2 DEF Budgeted, Budget, OnTrack, SaysOnce, Routed, Dated
  <2>2. ReportFitsQuestion' /\ ProposalFits'
    BY <1>1, <1>2 DEF TurnInv, ReportFitsQuestion, ProposalFits
  <2>3. QED BY <1>1, <1>2, <2>1, <2>2 DEF TurnInv
<1>3. CASE /\ \E r \in Reports : report' = [Chosen(r) EXCEPT !.reselect = TRUE]
           /\ at' = "route" /\ UNCHANGED said
  <2>1. PICK r \in Reports : report' = [Chosen(r) EXCEPT !.reselect = TRUE]
    BY <1>3
  <2>2. report' \in Prepared /\ report'.done < report'.bundle
    BY <2>1, ChosenReport
  <2>3. QED BY <1>1, <1>3, <2>2, PreparingKeeps
<1>4. CASE said' = Append(said, Plain("error")) /\ at' = "end" /\ UNCHANGED report
  <2>1. Len(said') = 1 /\ DOMAIN said' = {1} /\ said'[1] = Plain("error")
    BY <1>1, <1>4
  <2>2. said'[1].report = None /\ said'[1].kind = "error"
    BY <2>1 DEF Plain
  <2>3. Budgeted' /\ OnTrack' /\ SaysOnce'
    BY <1>1, <1>4, <2>1 DEF Budgeted, Budget, OnTrack, SaysOnce, Routed, Dated
  <2>4. ReportFitsQuestion' /\ ProposalFits'
    BY <2>1, <2>2 DEF ReportFitsQuestion, ProposalFits
  <2>5. QED BY <1>1, <1>4, <2>3, <2>4 DEF TurnInv
<1>5. QED BY <1>2, <1>3, <1>4 DEF Select

LEMMA RetryKeeps == ASSUME TurnInv, Retry PROVE TurnInv'
<1>1. /\ at = "retry" /\ llm \in Nat /\ llm' = llm + 1 /\ llm' <= Budget(resume)
      /\ resume \in {"reask", "decline", "rate", "week", "invalid"}
      /\ UNCHANGED <<question, said, resume, update>>
  BY DEF Retry, TurnInv, Budgeted
<1>2. Budget(resume) <= 4
  BY DEF Budget
<1>3. CASE at' = resume /\ UNCHANGED report
  <2>1. Budgeted' /\ OnTrack' /\ SaysOnce'
    BY <1>1, <1>3 DEF TurnInv, Budgeted, OnTrack, SaysOnce, Routed, Dated
  <2>2. ReportFitsQuestion' /\ ProposalFits'
    BY <1>1 DEF TurnInv, ReportFitsQuestion, ProposalFits
  <2>3. QED BY <1>1, <1>3, <2>1, <2>2 DEF TurnInv
<1>4. CASE \E r \in Reports : /\ report' = [Chosen(r) EXCEPT !.reselect = FALSE]
                              /\ at' = "route"
  <2>1. PICK r \in Reports : report' = [Chosen(r) EXCEPT !.reselect = FALSE]
    BY <1>4
  <2>2. report' \in Prepared /\ report'.done < report'.bundle /\ ~report'.reselect
    BY <2>1, RetriedReport
  <2>3. llm' \in Nat /\ llm' <= 4
    <3>1. Budget(resume) \in {0, 1, 2, 3, 4}
      BY DEF Budget
    <3>2. QED BY <1>1, <1>2, <3>1
  <2>4. QED BY <1>1, <1>4, <2>2, <2>3, PreparingKeeps
<1>5. QED BY <1>3, <1>4 DEF Retry, RetryOnce, Checked

LEMMA RouteKeeps == ASSUME TurnInv, Route PROVE TurnInv'
<1> DEFINE missed == Missed(question.columns, report.id)
<1>1. at = "route"
  BY DEF Route
<1>2. CASE missed = {} /\ Go("month")
  BY <1>1, <1>2, ReportKeeps DEF TelltaleColumns
<1>3. CASE missed # {} /\ Cardinality(Owners(missed)) = 1
  <2>1. CASE report.swaps = StackDepth /\ Finish(Plain("error"))
    BY <1>1, <2>1, PlainFits, FinishKeeps
  <2>2. CASE /\ report.swaps # StackDepth
             /\ \E r \in Owners(missed) :
                   report' = [report EXCEPT !.id = r, !.reselect = FALSE, !.swaps = Deeper(@)]
             /\ UNCHANGED <<at, question, llm, said, resume, update>>
    <3>1. PICK r \in Reports :
             report' = [report EXCEPT !.id = r, !.reselect = FALSE, !.swaps = report.swaps + 1]
      BY <2>2 DEF Owners, Deeper
    <3>2. report \in Prepared
      BY PreparedShape DEF TurnInv
    <3>3. report.swaps \in Swaps
      BY <3>2 DEF Prepared
    <3>4. report.swaps + 1 \in Swaps
      BY <2>2, <3>3, PreparedShape
    <3>5. \A s \in Swaps : [report EXCEPT !.id = r, !.reselect = FALSE, !.swaps = s] \in Prepared
      BY <3>2, PreparedShape DEF Prepared
    <3>6. \A s \in Swaps :
             /\ [report EXCEPT !.id = r, !.reselect = FALSE, !.swaps = s].done = report.done
             /\ [report EXCEPT !.id = r, !.reselect = FALSE, !.swaps = s].bundle = report.bundle
             /\ ~[report EXCEPT !.id = r, !.reselect = FALSE, !.swaps = s].reselect
      BY <3>2 DEF Prepared
    <3>7. report' \in Prepared /\ report'.done < report'.bundle /\ ~report'.reselect
      BY <1>1, <3>1, <3>4, <3>5, <3>6, PreparedShape DEF TurnInv
    <3>8. llm' \in Nat /\ llm' <= 4
      BY <1>1, <2>2 DEF TurnInv, Budgeted, Budget
    <3>9. QED BY <1>1, <2>2, <3>7, <3>8, PreparingKeeps
  <2>3. QED BY <1>3, <2>1, <2>2 DEF Route
<1>4. CASE missed # {} /\ Cardinality(Owners(missed)) # 1
  <2>1. CASE report.reselect /\ AskAgain("reask")
    <3>1. llm \in Nat /\ llm + 1 <= 4
      BY <1>1, <2>1 DEF TurnInv, Budgeted
    <3>2. QED BY <1>1, <2>1, <3>1, AskAgainKeeps DEF Budget
  <2>2. CASE Go("reask")
    BY <1>1, <2>2, GoKeeps DEF TurnInv, Budgeted, Budget
  <2>3. QED BY <1>4, <2>1, <2>2 DEF Route
<1>5. QED BY <1>2, <1>3, <1>4 DEF Route

LEMMA MonthKeeps == ASSUME TurnInv, Month PROVE TurnInv'
<1>1. at = "month" /\ (report.chosen => TelltaleColumns(report.id))
  BY DEF Month, TurnInv, OnTrack, Routed
<1>2. CASE (question.month => report.id \in Monthly) /\ Go("names")
  BY <1>1, <1>2, ReportKeeps DEF TelltaleMonth
<1>3. CASE report.reselect /\ AskAgain("reask")
  <2>1. llm \in Nat /\ llm + 1 <= 4
    BY <1>1, <1>3 DEF TurnInv, Budgeted
  <2>2. QED BY <1>1, <1>3, <2>1, AskAgainKeeps DEF Budget
<1>4. CASE Go("reask")
  BY <1>1, <1>4, GoKeeps DEF TurnInv, Budgeted, Budget
<1>5. QED BY <1>2, <1>3, <1>4 DEF Month

LEMMA ReportGoesOnKeeps == ASSUME TurnInv, Names \/ Run \/ Narrow PROVE TurnInv'
<1>1. /\ at \in {"names", "run", "narrow"}
      /\ report.chosen => TelltaleColumns(report.id) /\ TelltaleMonth(report.id)
  BY DEF Names, Run, Narrow, TurnInv, OnTrack, Routed, Dated
<1>2. CASE \E next \in {"run", "narrow", "shape"} : Go(next)
  BY <1>1, <1>2, ReportKeeps
<1>3. CASE \E k \in {"reask", "rejected"} : Finish(Plain(k))
  BY <1>1, <1>3, PlainFits, FinishKeeps
<1>4. QED BY <1>2, <1>3 DEF Names, Run, Narrow

LEMMA ShapeKeeps == ASSUME TurnInv, Shape PROVE TurnInv'
<1>1. at = "shape" /\ report \in Prepared /\ report.done < report.bundle
  BY PreparedShape DEF Shape, TurnInv
<1>2. CASE \E k \in {"reask", "rejected"} : Finish(Plain(k))
  BY <1>1, <1>2, PlainFits, FinishKeeps
<1>3. CASE /\ at' = IF report.done + 1 = report.bundle THEN "emit" ELSE "names"
           /\ report' = [report EXCEPT !.done = @ + 1]
           /\ UNCHANGED <<question, llm, said, resume, update>>
  <2>1. report.done \in Dones /\ report.bundle \in Bundles
    BY <1>1 DEF Prepared
  <2>2. report.done + 1 \in Dones
    BY <1>1, <2>1, PreparedShape
  <2>3. \A d \in Dones : /\ [report EXCEPT !.done = d] \in Prepared
                         /\ [report EXCEPT !.done = d].done = d
                         /\ [report EXCEPT !.done = d].bundle = report.bundle
                         /\ [report EXCEPT !.done = d].id = report.id
    BY <1>1 DEF Prepared
  <2>4. \A d \in Dones : [report EXCEPT !.done = d].chosen <=> report.chosen
    BY <1>1 DEF Prepared
  <2>5. /\ report' \in Prepared /\ report'.done = report.done + 1
        /\ report'.bundle = report.bundle /\ report'.id = report.id
        /\ report'.chosen <=> report.chosen
    BY <1>3, <2>2, <2>3, <2>4, PreparedShape
  <2>6. at' \notin {"emit", "end"} => report'.done < report'.bundle
    BY <1>1, <1>3, <2>1, <2>5 DEF Dones, Bundles
  <2>7. Budgeted'
    BY <1>1, <1>3 DEF TurnInv, Budgeted, Budget
  <2>8. OnTrack'
    BY <1>1, <1>3, <2>5 DEF TurnInv, OnTrack, Routed, Dated, TelltaleColumns, TelltaleMonth
  <2>9. SaysOnce' /\ ReportFitsQuestion' /\ ProposalFits'
    BY <1>1, <1>3 DEF TurnInv, SaysOnce, ReportFitsQuestion, ProposalFits
  <2>10. QED BY <1>3, <2>5, <2>6, <2>7, <2>8, <2>9 DEF TurnInv
<1>4. QED BY <1>2, <1>3 DEF Shape

LEMMA EmitKeeps == ASSUME TurnInv, Emit PROVE TurnInv'
<1> DEFINE e == [kind |-> IF RoomFor(report.bundle) THEN "patch" ELSE "shown",
                 adds |-> IF RoomFor(report.bundle) THEN report.bundle ELSE 0,
                 report |-> IF report.chosen THEN report.id ELSE None]
<1>1. /\ at = "emit" /\ Finish(e)
      /\ report.chosen => TelltaleColumns(report.id) /\ TelltaleMonth(report.id)
  BY DEF Emit, TurnInv, OnTrack, Routed, Dated
<1>2. e.report # None => TelltaleColumns(e.report) /\ TelltaleMonth(e.report)
  BY <1>1
<1>3. e.kind = "patch" => question.widgets # None /\ question.widgets + e.adds <= MaxWidgets
  BY DEF RoomFor
<1>4. Fits(e)
  BY <1>2, <1>3 DEF Fits
<1> HIDE DEF e
<1>5. QED BY <1>1, <1>4, FinishKeeps

LEMMA SayingKeeps ==
    ASSUME TurnInv, Change \/ Decline \/ Reask \/ Invalid \/ Failed
    PROVE  TurnInv'
<1>1. at # "end" /\ (\E k : (k # "patch" \/ HasWidgets) /\ Finish(Plain(k)))
  BY DEF Change, Decline, Reask, Invalid, Failed, Fail
<1>2. QED BY <1>1, PlainFits, FinishKeeps

(* The guards and checks of a registered query. *)
LEMMA GuardsKeep ==
    ASSUME TurnInv, Unanswerable \/ ColumnsGuard \/ RateGuard \/ Week \/ Structure
    PROVE  TurnInv'
<1>1. /\ llm \in Nat /\ llm <= Budget(at)
      /\ at \in {"unanswerable", "columns", "rate", "week", "structure"}
  BY DEF Unanswerable, ColumnsGuard, RateGuard, Week, Structure, TurnInv, Budgeted
<1>2. CASE Unanswerable
  <2>1. at = "unanswerable" /\ llm + 1 <= Budget("decline") /\ llm <= Budget("decline")
    BY <1>1, <1>2 DEF Unanswerable, Budget
  <2>2. QED BY <1>2, <2>1, AskAgainKeeps, GoKeeps DEF Unanswerable
<1>3. CASE ColumnsGuard
  <2>1. at = "columns" /\ llm + 1 <= Budget("rate") /\ llm <= Budget("rate")
    BY <1>1, <1>3 DEF ColumnsGuard, Budget
  <2>2. QED BY <1>3, <2>1, AskAgainKeeps, GoKeeps DEF ColumnsGuard
<1>4. CASE RateGuard
  <2>1. at = "rate" /\ llm + 1 <= Budget("week") /\ llm <= Budget("week")
    BY <1>1, <1>4 DEF RateGuard, Budget
  <2>2. QED BY <1>4, <2>1, AskAgainKeeps, GoKeeps DEF RateGuard
<1>5. CASE Week
  <2>1. at = "week" /\ llm <= Budget("structure")
    BY <1>1, <1>5 DEF Week, Budget
  <2>2. QED BY <1>5, <2>1, PlainFits, FinishKeeps, GoKeeps DEF Week
<1>6. CASE Structure
  <2>1. /\ at = "structure" /\ llm + 1 <= Budget("invalid") /\ llm <= Budget("invalid")
        /\ llm <= Budget("values")
    BY <1>1, <1>6 DEF Structure, Budget
  <2>2. QED BY <1>6, <2>1, AskAgainKeeps, GoKeeps DEF Structure
<1>7. QED BY <1>2, <1>3, <1>4, <1>5, <1>6

LEMMA ChecksKeep == ASSUME TurnInv, Values \/ Validate \/ Metrics PROVE TurnInv'
<1>1. /\ at \in {"values", "validate", "metrics"} /\ llm \in Nat /\ llm <= Budget(at)
  BY DEF Values, Validate, Metrics, TurnInv, Budgeted
<1>2. /\ llm <= Budget("validate") /\ llm <= Budget("target") /\ llm <= Budget("single")
      /\ llm <= Budget("kpis") /\ llm <= Budget("series")
  BY <1>1 DEF Budget
<1>3. QED BY <1>1, <1>2, PlainFits, FinishKeeps, GoKeeps DEF Values, Validate, Metrics, Fail

LEMMA TargetKeeps == ASSUME TurnInv, Target PROVE TurnInv'
<1>1. at = "target" /\ llm \in Nat /\ llm <= Budget("metrics")
  BY DEF Target, TurnInv, Budgeted, Budget
<1>2. CASE Fail
  BY <1>1, <1>2, PlainFits, FinishKeeps DEF Fail
<1>3. CASE Go("metrics")
  BY <1>1, <1>3, GoKeeps
<1>4. QED BY <1>2, <1>3 DEF Target

(* A proposal fits: there is room for it, or it takes the place of another. *)
LEMMA RespondKeeps ==
    ASSUME TurnInv, at # "end", NEW n \in Nat, Respond(n)
    PROVE  TurnInv'
<1> DEFINE e == [kind |-> "patch", adds |-> IF update THEN 0 ELSE n, report |-> None]
<1>1. CASE Room(n) /\ question.widgets # None /\ Finish(e)
  <2>1. question.widgets \in 0 .. MaxWidgets
    BY <1>1 DEF TurnInv, Question
  <2>2. question.widgets + 0 <= MaxWidgets
    BY <2>1, ReportsAssumption
  <2>3. question.widgets + e.adds <= MaxWidgets
    BY <1>1, <2>2 DEF Room, RoomFor
  <2>4. e.report = None
    OBVIOUS
  <2>5. Fits(e)
    BY <1>1, <2>3, <2>4 DEF Fits
  <2> HIDE DEF e
  <2>6. QED BY <1>1, <2>5, FinishKeeps
<1>2. CASE Finish(Plain("shown"))
  BY <1>2, PlainFits, FinishKeeps
<1>3. QED BY <1>1, <1>2 DEF Respond

LEMMA SingleKeeps == ASSUME TurnInv, Single PROVE TurnInv'
<1>1. at = "single" /\ llm \in Nat /\ llm <= 3 /\ said = <<>>
  BY DEF Single, TurnInv, Budgeted, Budget, SaysOnce
<1>2. CASE Respond(1)
  BY <1>1, <1>2, RespondKeeps
<1>3. CASE /\ llm' = llm + 1 /\ said' = Append(said, Plain("reask")) /\ at' = "end"
           /\ UNCHANGED <<question, report, resume, update>>
  <2>1. Len(said') = 1 /\ DOMAIN said' = {1} /\ said'[1] = Plain("reask")
    BY <1>1, <1>3
  <2>2. said'[1].report = None /\ said'[1].kind = "reask"
    BY <2>1 DEF Plain
  <2>3. Budgeted' /\ OnTrack' /\ SaysOnce'
    BY <1>1, <1>3, <2>1 DEF Budgeted, Budget, OnTrack, SaysOnce, Routed, Dated
  <2>4. ReportFitsQuestion' /\ ProposalFits'
    BY <2>1, <2>2 DEF ReportFitsQuestion, ProposalFits
  <2>5. QED BY <1>3, <2>3, <2>4 DEF TurnInv
<1>4. QED BY <1>2, <1>3 DEF Single

LEMMA ChartsKeep == ASSUME TurnInv, Kpis \/ Chart PROVE TurnInv'
  BY RespondKeeps DEF Kpis, Chart

LEMMA SeriesKeeps == ASSUME TurnInv, Series PROVE TurnInv'
<1>1. at = "series" /\ llm \in Nat /\ llm <= 3
  BY DEF Series, TurnInv, Budgeted, Budget
<1>2. CASE Finish(Plain("shown"))
  BY <1>1, <1>2, PlainFits, FinishKeeps
<1>3. CASE /\ llm' = llm + 1 /\ at' \in {"chart", "failed"}
           /\ UNCHANGED <<question, report, said, resume, update>>
  <2>1. Budgeted' /\ OnTrack' /\ SaysOnce'
    BY <1>1, <1>3 DEF TurnInv, Budgeted, Budget, OnTrack, SaysOnce, Routed, Dated
  <2>2. ReportFitsQuestion' /\ ProposalFits'
    BY <1>3 DEF TurnInv, ReportFitsQuestion, ProposalFits
  <2>3. QED BY <1>1, <1>3, <2>1, <2>2 DEF TurnInv
<1>4. QED BY <1>2, <1>3 DEF Series

LEMMA DoneKeeps == ASSUME TurnInv, Done PROVE TurnInv'
<1>1. /\ at' = "idle" /\ question' = NoQuestion /\ report' = NoReport /\ llm' = 0
      /\ said' = <<>>
  BY DEF Done
<1>2. question' \in Question
  <2>1. {} \in SUBSET Columns /\ FALSE \in BOOLEAN /\ None \in {None} \cup (0 .. MaxWidgets)
    OBVIOUS
  <2>2. QED BY <1>1, <2>1, Zenon DEF NoQuestion, Question
<1>3. Budgeted' /\ OnTrack' /\ SaysOnce'
  BY <1>1 DEF Budgeted, Budget, OnTrack, SaysOnce, Routed, Dated
<1>4. ReportFitsQuestion' /\ ProposalFits'
  BY <1>1 DEF ReportFitsQuestion, ProposalFits
<1>5. QED BY <1>1, <1>2, <1>3, <1>4, NoReportYet DEF TurnInv

-----------------------------------------------------------------------------
(* Every step keeps the invariant. *)
LEMMA TurnStep == TurnInv /\ [Next]_vars => TurnInv'
<1> SUFFICES ASSUME TurnInv, [Next]_vars PROVE TurnInv'
  OBVIOUS
<1>1. CASE Certified
  BY <1>1, RetryKeeps, RouteKeeps, MonthKeeps, SayingKeeps, ReportGoesOnKeeps, ShapeKeeps,
     EmitKeeps DEF Certified
<1>2. CASE Answering /\ ~Certified
  BY <1>2, BeginKeeps, SelectKeeps, SayingKeeps, GuardsKeep, ChecksKeep, TargetKeeps,
     SingleKeeps, ChartsKeep, SeriesKeeps, DoneKeeps DEF Answering
<1>3. CASE \E columns \in SUBSET Columns, month \in BOOLEAN, widgets \in {None} \cup (0 .. MaxWidgets) :
              AskAgent(columns, month, widgets)
  BY <1>3, AskAgentKeeps
<1>4. CASE UNCHANGED vars
  BY <1>4 DEF vars, TurnInv, Budgeted, OnTrack, SaysOnce, Routed, Dated, TelltaleColumns,
     TelltaleMonth, ReportFitsQuestion, ProposalFits
<1>5. QED BY <1>1, <1>2, <1>3, <1>4 DEF Next

LEMMA TurnInvariant == Spec => []TurnInv
  BY TurnInvInit, TurnStep, PTL DEF Spec

(* The stream of a turn carries one ending, on whichever way through the   *)
(* guards, the retries and the swaps of reports, and however many there    *)
(* are of those.                                                           *)
THEOREM TurnEndsOnce == Spec => []OneOutcome
<1>1. TurnInv => OneOutcome
  <2>1. said = <<>> => Len(said) = 0
    OBVIOUS
  <2>2. \A n : n = 0 \/ n = 1 => n <= 1
    OBVIOUS
  <2>3. TurnInv => (at = "end" => Len(said) = 1) /\ (Len(said) = 0 \/ Len(said) = 1)
    BY <2>1, Zenon DEF TurnInv, SaysOnce
  <2>4. QED BY <2>2, <2>3, Zenon DEF OneOutcome
<1>2. QED BY <1>1, TurnInvariant, PTL

(* A turn calls the model four times at most, for any set of reports.       *)
THEOREM ModelIsAskedFourTimes == Spec => []AskBudget
<1>1. TurnInv => AskBudget
  BY DEF TurnInv, Budgeted, Budget, AskBudget
<1>2. QED BY <1>1, TurnInvariant, PTL

(* A report the model chose answers what the question names, whatever the   *)
(* columns of the reports are and however they resemble each other.         *)
THEOREM ChosenReportFits == Spec => []ReportFitsQuestion
<1>1. TurnInv => ReportFitsQuestion
  BY DEF TurnInv
<1>2. QED BY <1>1, TurnInvariant, PTL

(* A proposal fits the dashboard of its question, for any limit.            *)
THEOREM ProposalFitsDashboard == Spec => []ProposalFits
<1>1. TurnInv => ProposalFits
  BY DEF TurnInv
<1>2. QED BY <1>1, TurnInvariant, PTL

=============================================================================
