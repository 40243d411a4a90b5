---------------------------- MODULE AgenticTurn ----------------------------
(***************************************************************************)
(* One question to the agentic BI endpoint (agenticBiHandler.js,           *)
(* runAgenticBiQuery): the model turns it into a registered query, a       *)
(* certified report or a change of a widget, four guards may send it to a  *)
(* report instead, the query is checked and run, and the rows become a     *)
(* proposal for the dashboard or an answer in the chat.                    *)
(***************************************************************************)
EXTENDS CertifiedReports

CONSTANT FunnelReport    \* the report of the deterministic funnel answer

ASSUME FunnelAssumption == FunnelReport \in Reports

HasWidgets == question.widgets \notin {None, 0}
Fail == Finish(Plain("error"))

AskAgent(columns, month, widgets) ==
    /\ at = "idle"
    /\ at' = "begin"
    /\ question' = [columns |-> columns, month |-> month, widgets |-> widgets]
    /\ UNCHANGED <<report, llm, said, resume, update>>

(* An ambiguous subject is asked back; a question about the funnel needs no *)
(* model; without a configured model nothing else can be answered.          *)
Begin ==
    /\ at = "begin"
    /\ \/ Finish(Plain("reask"))
       \/ /\ \E n \in 1 .. 2 :
                report' = [NoReport EXCEPT !.id = FunnelReport, !.bundle = n]
          /\ at' = "names"
          /\ UNCHANGED <<question, llm, said, resume, update>>
       \/ Fail
       \/ Go("select")

Select ==
    /\ at = "select"
    /\ llm' = llm + 1
    /\ \/ at' \in {"restyle", "regroup", "unanswerable", "columns"} /\ UNCHANGED <<report, said>>
       \/ /\ \E r \in Reports : report' = [Chosen(r) EXCEPT !.reselect = TRUE]
          /\ at' = "route" /\ UNCHANGED said
       \/ said' = Append(said, Plain("error")) /\ at' = "end" /\ UNCHANGED report
    /\ UNCHANGED <<question, resume, update>>

(* A change of looks, or of the columns a report is grouped by, updates the *)
(* widget it names; the report is run again for the latter.                 *)
Change ==
    /\ at \in {"restyle", "regroup"}
    /\ \/ Finish(Plain("shown"))
       \/ HasWidgets /\ at = "regroup" /\ Finish(Plain("rejected"))
       \/ HasWidgets /\ Finish(Plain("patch"))

(* The model says that no metric answers the question.  When it names a     *)
(* report all the same, or the question names a column of one, it is asked. *)
Unanswerable ==
    /\ at = "unanswerable"
    /\ \/ AskAgain("decline")
       \/ Distinctive(question.columns) = {} /\ Go("decline")
Decline == at = "decline" /\ \E k \in {"reask", "rejected"} : Finish(Plain(k))

-----------------------------------------------------------------------------
(* The guards on a registered query, and its checks.                        *)

Mentions == Distinctive(question.columns) # {}
ColumnsGuard ==
    at = "columns" /\ ((Mentions /\ AskAgain("rate")) \/ Go("rate"))
RateGuard == at = "rate" /\ (AskAgain("week") \/ Go("week"))
Week == at = "week" /\ (Go("structure") \/ \E k \in {"error", "reask"} : Finish(Plain(k)))
Structure ==
    /\ at = "structure"
    /\ \/ Go("values")
       \/ Mentions /\ AskAgain("invalid")
       \/ ~Mentions /\ Go("invalid")
Invalid == at = "invalid" /\ Fail
Values == at = "values" /\ (Go("validate") \/ Finish(Plain("reask")))
Validate == at = "validate" /\ (Go("target") \/ Fail)

(* A widget to modify must be one of the dashboard the question came with.  *)
Target ==
    /\ at = "target"
    /\ \/ Fail /\ UNCHANGED update
       \/ Go("metrics") /\ update' = FALSE
       \/ HasWidgets /\ Go("metrics") /\ update' = TRUE

-----------------------------------------------------------------------------
(* Running the metrics one after the other, and rendering the rows.         *)

Metrics == at = "metrics" /\ (Fail \/ \E next \in {"single", "kpis", "series"} : Go(next))

Room(n) == update \/ RoomFor(n)
Respond(n) ==
    \/ Room(n) /\ question.widgets # None
       /\ Finish([kind |-> "patch", adds |-> IF update THEN 0 ELSE n, report |-> None])
    \/ Finish(Plain("shown"))     \* no room, or a query that cannot be replayed

(* No rows: the model words what to ask instead, or a fixed text does.      *)
Single ==
    /\ at = "single"
    /\ \/ Respond(1)
       \/ /\ llm' = llm + 1 /\ said' = Append(said, Plain("reask")) /\ at' = "end"
          /\ UNCHANGED <<question, report, resume, update>>
Kpis == at = "kpis" /\ Respond(1)

(* Several metrics: the model chooses the chart, unless there are many rows *)
(* and no dashboard.                                                        *)
Series ==
    /\ at = "series"
    /\ \/ question.widgets = None /\ Finish(Plain("shown"))
       \/ /\ llm' = llm + 1 /\ at' \in {"chart", "failed"}
          /\ UNCHANGED <<question, report, said, resume, update>>
Chart == at = "chart" /\ Respond(1)
Failed == at = "failed" /\ Fail

(* "done", and the stream is closed.                                        *)
Done ==
    /\ at = "end"
    /\ at' = "idle" /\ question' = NoQuestion /\ report' = NoReport
    /\ llm' = 0 /\ said' = <<>> /\ resume' = None /\ update' = FALSE

Answering ==
    \/ Certified \/ Begin \/ Select \/ Change
    \/ Unanswerable \/ Decline \/ ColumnsGuard
    \/ RateGuard \/ Week \/ Structure \/ Invalid
    \/ Values \/ Validate \/ Target \/ Metrics
    \/ Single \/ Kpis \/ Series \/ Chart
    \/ Failed \/ Done
Init ==
    /\ at = "idle" /\ question = NoQuestion /\ report = NoReport
    /\ llm = 0 /\ said = <<>> /\ resume = None /\ update = FALSE
Next ==
    \/ Answering
    \/ \E columns \in SUBSET Columns, month \in BOOLEAN, widgets \in {None} \cup (0 .. MaxWidgets) :
          AskAgent(columns, month, widgets)
Spec == Init /\ [][Next]_vars /\ WF_vars(Answering)

-----------------------------------------------------------------------------
(* Properties.                                                              *)

(* Types of the turn.                                                       *)
AgenticTypeOK ==
    /\ at \in {"idle", "begin", "select", "restyle", "regroup", "unanswerable", "decline",
               "columns", "rate", "week", "structure", "invalid", "values", "validate",
               "target", "metrics", "single", "kpis", "series", "chart", "failed",
               "retry", "route", "month", "reask", "names", "run", "narrow", "shape",
               "emit", "end"}
    /\ question \in Question /\ report \in Preparation
    /\ llm \in Nat /\ said \in Seq(Ending) /\ update \in BOOLEAN
    /\ resume \in {None, "reask", "decline", "rate", "week", "invalid"}

(* A stream carries one ending, on whichever of its ways, retries that      *)
(* answered and retries that did not included.                              *)
OneOutcome ==
    /\ Len(said) <= 1
    /\ at = "end" => Len(said) = 1

(* The guards, the choice of another report and the wording of an empty     *)
(* result each call the model again; a turn calls it four times at most.    *)
AskBudget == llm <= 4

(* A question does not go round between reports, guards and the model: its  *)
(* stream is closed.                                                        *)
TurnEnds == at # "idle" ~> at = "idle"
=============================================================================
