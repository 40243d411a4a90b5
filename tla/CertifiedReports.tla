-------------------------- MODULE CertifiedReports --------------------------
(***************************************************************************)
(* The answer to one chat question by a certified report                   *)
(* (agenticBiPipeline.js): a report is routed by the columns and the month *)
(* the question names, swapped for another or chosen again by the model,   *)
(* run, narrowed, and proposed as widgets.  Rows and wording are left out: *)
(* of a result only the way it ends is kept.                               *)
(*                                                                         *)
(* Every ending is an event of the answer's stream; notices and traces are *)
(* not.  AgenticTurn adds the way into this module and the other answers.  *)
(***************************************************************************)
EXTENDS Naturals, FiniteSets, Sequences

CONSTANTS
    Reports, Columns,
    Of,              \* the measure columns of each report
    Alike,           \* <<column, report>>: it shares two letters with a column there
    Monthly,         \* reports with a parameter or a column for the month
    WithTotal,       \* reports with total rows
    MaxWidgets,      \* MAX_WIDGETS, 12 in the code
    StackDepth,      \* how deep the runtime lets a function call itself
    None

ASSUME ReportsAssumption ==
    /\ Of \in [Reports -> SUBSET Columns]
    /\ Alike \subseteq Columns \X Reports
    /\ Monthly \subseteq Reports /\ WithTotal \subseteq Reports
    /\ StackDepth \in Nat /\ MaxWidgets \in Nat /\ None \notin Nat \cup Reports

VARIABLES
    at,              \* where the turn is; "idle" between turns
    question,        \* what was asked, and the widgets of dashboardState
    report,          \* the report being prepared
    llm,             \* calls of the language model in this turn
    said,            \* the endings the stream has carried in this turn
    resume,          \* where the turn goes on when a retry does not answer
    update           \* the proposal will replace a widget of the dashboard

vars == <<at, question, report, llm, said, resume, update>>

Question == [columns: SUBSET Columns, month: BOOLEAN,
             widgets: {None} \cup (0 .. MaxWidgets)]
NoQuestion == [columns |-> {}, month |-> FALSE, widgets |-> None]

(* chosen: the model chose the report, for this question; bundle: how many  *)
(* reports the turn prepares, done: how many it has.                       *)
Preparation == [id: Reports \cup {None}, chosen: BOOLEAN, reselect: BOOLEAN,
                swaps: 0 .. StackDepth, bundle: 1 .. 2, done: 0 .. 2]
NoReport == [id |-> None, chosen |-> FALSE, reselect |-> FALSE, swaps |-> 0,
             bundle |-> 1, done |-> 0]
Chosen(r) == [NoReport EXCEPT !.id = r, !.chosen = TRUE]

(* adds: widgets a proposal adds, 0 when it updates one; report: the report *)
(* the model chose that is shown or proposed.                              *)
Ending == [kind: {"reask", "rejected", "error", "shown", "patch"},
           adds: 0 .. 2, report: Reports \cup {None}]
Plain(kind) == [kind |-> kind, adds |-> 0, report |-> None]

FinishAndGoOn(ending) ==
    /\ said' = Append(said, ending)
    /\ at' = IF resume = None THEN "end" ELSE resume
    /\ UNCHANGED <<question, report, llm, resume, update>>
Finish(ending) ==
    /\ said' = Append(said, ending)
    /\ at' = "end"
    /\ UNCHANGED <<question, report, llm, resume, update>>
Go(next) ==
    /\ at' = next
    /\ UNCHANGED <<question, report, llm, said, resume, update>>

-----------------------------------------------------------------------------
(* Routing.                                                                 *)

Owners(columns) == {r \in Reports : columns \subseteq Of[r]}

(* Columns named in the question that one report alone has, another one     *)
(* than r, and that resemble nothing r has.                                *)
Distinctive(columns) == {c \in columns : Cardinality(Owners({c})) = 1}
Missed(columns, r) ==
    {c \in Distinctive(columns) : c \notin Of[r] /\ <<c, r>> \notin Alike}

(* A retry shows the model the reports that would do; it may answer with    *)
(* anything, or fail.  What it chooses is not chosen again.                *)
RetryAgain == TRUE
RetryOnce == FALSE
Unchecked == "names"
Checked == "route"
AskAgain(then) ==
    /\ at' = "retry" /\ resume' = then
    /\ UNCHANGED <<question, report, llm, said, update>>
Retry ==
    /\ at = "retry"
    /\ llm' = llm + 1
    /\ \/ \E r \in Reports :
             /\ report' = [Chosen(r) EXCEPT !.reselect = RetryOnce]
             /\ at' = Checked
       \/ at' = resume /\ UNCHANGED report
    /\ UNCHANGED <<question, said, resume, update>>

(* The one report that has all the missed columns replaces this one: the    *)
(* function calls itself, with allowReselect off, which the swap does not   *)
(* look at.  When the calls no longer fit the stack, the turn fails.        *)
Shallow(swaps) == swaps
Deeper(swaps) == swaps + 1
Route ==
    LET missed == Missed(question.columns, report.id)
    IN /\ at = "route"
       /\ \/ missed = {} /\ Go("month")
          \/ /\ missed # {} /\ Cardinality(Owners(missed)) = 1
             /\ IF report.swaps = StackDepth THEN Finish(Plain("error"))
                ELSE /\ \E r \in Owners(missed) :
                           report' = [report EXCEPT !.id = r, !.reselect = FALSE,
                                                    !.swaps = Deeper(@)]
                     /\ UNCHANGED <<at, question, llm, said, resume, update>>
          \/ /\ missed # {} /\ Cardinality(Owners(missed)) # 1
             /\ IF report.reselect THEN AskAgain("reask") ELSE Go("reask")

(* A month the report cannot express would vanish without an error.         *)
Month ==
    /\ at = "month"
    /\ \/ (question.month => report.id \in Monthly) /\ Go("names")
       \/ /\ question.month /\ report.id \notin Monthly
          /\ IF report.reselect THEN AskAgain("reask") ELSE Go("reask")
Reask == at = "reask" /\ Finish(Plain("reask"))

-----------------------------------------------------------------------------
(* Running the report, and what is made of its rows.                        *)

(* An unknown filter, or a name that fits several values, is asked back.    *)
Names == at = "names" /\ (Go("run") \/ Finish(Plain("reask")))

(* A timeout and an empty result are asked back; any other failure says so. *)
Run == at = "run" /\ (Go("narrow") \/ \E k \in {"reask", "rejected"} : Finish(Plain(k)))

(* Filters on dimensions, roll-up, filters on measures, projection, and the *)
(* limit on rows, each of which can end the turn.  Rows of a report with a  *)
(* total are not filtered by a dimension: the total would not match.        *)
Narrow ==
    /\ at = "narrow"
    /\ \/ Go("shape")                             \* no filter on a dimension
       \/ report.id \notin WithTotal /\ (Go("shape") \/ Finish(Plain("reask")))
       \/ Finish(Plain("rejected"))
Shape ==
    /\ at = "shape"
    /\ \/ \E k \in {"reask", "rejected"} : Finish(Plain(k))
       \/ /\ at' = IF report.done + 1 = report.bundle THEN "emit" ELSE "names"
          /\ report' = [report EXCEPT !.done = @ + 1]
          /\ UNCHANGED <<question, llm, said, resume, update>>

(* The widgets of a bundle are proposed together, when all of them fit the  *)
(* dashboard the question was asked with; they are shown in the chat else.  *)
RoomForFirst(n) == question.widgets # None /\ question.widgets + 1 <= MaxWidgets
RoomFor(n) == question.widgets # None /\ question.widgets + n <= MaxWidgets
Emit ==
    /\ at = "emit"
    /\ Finish([kind |-> IF RoomFor(report.bundle) THEN "patch" ELSE "shown",
               adds |-> IF RoomFor(report.bundle) THEN report.bundle ELSE 0,
               report |-> IF report.chosen THEN report.id ELSE None])

Certified == Retry \/ Route \/ Month \/ Reask \/ Names \/ Run \/ Narrow \/ Shape \/ Emit
-----------------------------------------------------------------------------
(* Properties.                                                              *)

(* The one swap the code allows itself ("once only, so that they do not go  *)
(* round handing it to each other") is the only one.                        *)
SwapsOnce == report.swaps <= 1

(* A report the model chose answers what was named: it has, or resembles,   *)
(* every telling column of the question, and can express its month, by      *)
(* whatever chain of swaps and retries it was reached.                      *)
ReportFitsQuestion ==
    \A i \in DOMAIN said : LET r == said[i].report IN
       r # None => Missed(question.columns, r) = {} /\ (question.month => r \in Monthly)

(* A proposal made for the dashboard as the question saw it does not take   *)
(* it over the limit, and is not made without a dashboard.                  *)
ProposalFits ==
    \A i \in DOMAIN said : said[i].kind = "patch" =>
       question.widgets # None /\ question.widgets + said[i].adds <= MaxWidgets
=============================================================================
