----------------------------- MODULE ChatTurns ------------------------------
(***************************************************************************)
(* The chat panel of the dashboard builder (ChatPanel.jsx), the endpoints  *)
(* it asks (/api/dashboard-customize, /api/chat) and the canvas that its   *)
(* proposals change while the user goes on editing it.                     *)
(*                                                                         *)
(* A question carries a snapshot of the canvas.  The backend keeps no      *)
(* state: it works on the snapshot, sends events over one stream and ends  *)
(* it.  The panel writes each event into the message of its question.  A   *)
(* connection may break at any point; what the backend still does for it   *)
(* reaches nobody and is not followed.  Events that only add text, stages  *)
(* or components are left out.                                             *)
(***************************************************************************)
EXTENDS Naturals, Sequences, FiniteSets, SequencesExt

CONSTANTS
    Turns,         \* questions, the bound on how many are asked
    Widgets,       \* object ids
    Start,         \* the widgets on the canvas when the panel opens
    Contents,      \* what a widget's definition can be
    MaxWidgets,    \* MAX_WIDGETS, 12 in the code
    MaxHistory,    \* MAX_HISTORY, 20 in the code
    None

VARIABLES
    canvas,        \* widget -> content, or None
    past,          \* the canvases undo goes back to
    minted,        \* ids given to a widget: randomUUID gives each once
    chat,          \* the questions whose message is shown
    asked,         \* the questions asked, the current one last
    msg,           \* the message of a question
    loading,       \* isLoading
    job,           \* the backend's work on a question
    wire           \* the events on the way to the panel

board == <<canvas, past>>
panel == <<chat, asked, msg, loading>>
chatVars == <<board, minted, panel, job, wire>>

Canvas == [Widgets -> Contents \cup {None}]
On(c) == {w \in Widgets : c[w] # None}
Blank == [w \in Widgets |-> None]

(* A patch: what it does, and the content it gives each widget it names.    *)
Kinds == {"add", "update", "remove", "move"}
Proposal == [kind: Kinds, names: SUBSET Widgets, content: Contents, blocked: BOOLEAN]
Message == [streaming: BOOLEAN, failed: BOOLEAN, proposal: Proposal \cup {None},
            status: {"pending", "applied", "discarded"}]
Job == [at: {"none", "intent", "query", "topic", "build", "patch", "review",
             "chat", "live", "last", "closed"},
        kind: Kinds, snapshot: Canvas, target: Widgets \cup {None},
        proposal: Proposal \cup {None}]
Event == [type: {"patch_ready", "rejected", "error", "done"}, proposal: Proposal \cup {None}]

NewMessage == [streaming |-> TRUE, failed |-> FALSE, proposal |-> None, status |-> "pending"]
NoJob == [at |-> "none", kind |-> "add", snapshot |-> Blank, target |-> None, proposal |-> None]
Closed == [NoJob EXCEPT !.at = "closed"]
Unseen == [NewMessage EXCEPT !.streaming = FALSE]

ASSUME ChatAssumption ==
    /\ IsFiniteSet(Widgets) /\ Start \subseteq Widgets /\ Contents # {}
    /\ MaxWidgets \in Nat /\ MaxHistory \in Nat \ {0}
    /\ None \notin Contents /\ None \notin Widgets /\ None \notin Proposal

-----------------------------------------------------------------------------
(* The canvas.                                                             *)

AllOfThem(q) == IF Len(q) > 2 * MaxHistory THEN Tail(q) ELSE q
LastFew(q) == IF Len(q) > MaxHistory THEN Tail(q) ELSE q
Show(c) == canvas' = c /\ past' = LastFew(Append(past, canvas))

(* applyPatchToState: an update or a removal of a widget that is not there   *)
(* changes nothing, an addition puts its widgets there whatever else is.    *)
PatchedAnyway(c, p) ==
    [w \in Widgets |->
        IF w \notin p.names \/ p.kind = "move" THEN c[w]
        ELSE IF p.kind = "remove" THEN None ELSE p.content]
Patched(c, p) ==
    [w \in Widgets |->
        IF w \notin p.names THEN c[w]
        ELSE CASE p.kind = "add" -> p.content
               [] p.kind = "update" -> IF c[w] = None THEN None ELSE p.content
               [] p.kind = "remove" -> None
               [] p.kind = "move" -> c[w]]

(* The user's own work on the canvas: an edit or a removal of a widget, the  *)
(* undo button, and another page, which starts without a history.           *)
Edit(w, x) ==
    /\ w \in On(canvas) /\ Show([canvas EXCEPT ![w] = x])
    /\ UNCHANGED <<minted, panel, job, wire>>
RemoveWidget(w) == w \in On(canvas) /\ Edit(w, None)
Undone ==
    IF past = <<>> THEN UNCHANGED board
    ELSE canvas' = Last(past) /\ past' = Front(past)
Undo == past # <<>> /\ Undone /\ UNCHANGED <<minted, panel, job, wire>>
OpenPage ==
    /\ canvas' = Blank /\ past' = <<>>
    /\ UNCHANGED <<minted, panel, job, wire>>

-----------------------------------------------------------------------------
(* The panel.                                                              *)

Current == Last(asked)

(* sendMessage: refused while a question is loading.                        *)
Idle == ~loading
Send(t, endpoint) ==
    /\ Idle /\ t \notin Range(asked)
    /\ asked' = Append(asked, t) /\ chat' = chat \cup {t} /\ loading' = TRUE
    /\ msg' = [msg EXCEPT ![t] = NewMessage]
    /\ job' = [job EXCEPT ![t] = [NoJob EXCEPT !.at = endpoint, !.snapshot = canvas]]
    /\ UNCHANGED <<board, minted, wire>>

(* The new-chat button drops the messages; a stream under way goes on.      *)
ClearChat ==
    /\ chat # {}
    /\ chat' = {} /\ msg' = [t \in Turns |-> Unseen]
    /\ UNCHANGED <<board, minted, asked, loading, job, wire>>

(* What an event does to the message of its question.                       *)
Told(m, e) ==
    CASE e.type = "patch_ready" ->
             [m EXCEPT !.streaming = FALSE, !.proposal = e.proposal, !.status = "pending"]
      [] e.type = "error" -> [m EXCEPT !.streaming = FALSE, !.failed = TRUE]
      [] OTHER -> [m EXCEPT !.streaming = FALSE]

Reading(t) == loading /\ asked # <<>> /\ t = Current
Receive(t) ==
    /\ Reading(t) /\ wire[t] # <<>>
    /\ wire' = [wire EXCEPT ![t] = Tail(@)]
    /\ msg' = IF t \in chat THEN [msg EXCEPT ![t] = Told(@, Head(wire[t]))] ELSE msg
    /\ UNCHANGED <<board, minted, chat, asked, loading, job>>

(* The stream ends: for await is over and finally unlocks the panel.        *)
StreamEnds(t) ==
    /\ Reading(t) /\ wire[t] = <<>> /\ job[t].at = "closed"
    /\ loading' = FALSE
    /\ UNCHANGED <<board, minted, chat, asked, msg, job, wire>>

(* A broken connection, or an answer other than 200, is caught.              *)
Broken(m) == [m EXCEPT !.streaming = FALSE, !.failed = TRUE]
Break(t) ==
    /\ Reading(t)
    /\ loading' = FALSE /\ wire' = [wire EXCEPT ![t] = <<>>]
    /\ msg' = IF t \in chat THEN [msg EXCEPT ![t] = Broken(@)] ELSE msg
    /\ job' = [job EXCEPT ![t] = Closed]
    /\ UNCHANGED <<board, minted, chat, asked>>

(* PatchPreviewCard: the apply button is disabled for a blocked proposal.    *)
Pending(t) == t \in chat /\ msg[t].proposal # None /\ msg[t].status = "pending"
MayApply(t) == Pending(t) /\ ~msg[t].proposal.blocked
ApplyPatch(t) ==
    /\ MayApply(t)
    /\ Show(Patched(canvas, msg[t].proposal))
    /\ msg' = [msg EXCEPT ![t].status = "applied"]
    /\ UNCHANGED <<minted, chat, asked, loading, job, wire>>
CancelPatch(t) ==
    /\ Pending(t)
    /\ msg' = [msg EXCEPT ![t].status = "discarded"]
    /\ UNCHANGED <<board, minted, chat, asked, loading, job, wire>>

(* Undo on the card of an applied proposal undoes whatever came last.       *)
UndoPatch(t) ==
    /\ t \in chat /\ msg[t].status = "applied"
    /\ Undone
    /\ msg' = [msg EXCEPT ![t].status = "discarded"]
    /\ UNCHANGED <<minted, chat, asked, loading, job, wire>>

-----------------------------------------------------------------------------
(* The backend: runDashboardPipeline.                                      *)

At(t, stage) == job[t].at = stage
Emit(t, type, proposal) ==
    wire' = [wire EXCEPT ![t] = Append(@, [type |-> type, proposal |-> proposal])]
Go(t, stage) == job' = [job EXCEPT ![t].at = stage] /\ UNCHANGED wire
Fail(t) == job' = [job EXCEPT ![t] = [NoJob EXCEPT !.at = "last"]] /\ Emit(t, "error", None)
Refuse(t) == job' = [job EXCEPT ![t] = [NoJob EXCEPT !.at = "last"]] /\ Emit(t, "rejected", None)

(* Every way out of the pipeline leads to the finally of its handler.       *)
ReturnUnclosed(t) == Go(t, "none")
Return(t) == job' = [job EXCEPT ![t] = [NoJob EXCEPT !.at = "last"]] /\ UNCHANGED wire
AnsweredSilently(t) == job' = [job EXCEPT ![t] = Closed] /\ UNCHANGED wire
Answered(t) == job' = [job EXCEPT ![t] = Closed] /\ Emit(t, "done", None)

(* validateProposal, on the snapshot the question came with.                *)
ValidAdd(c) == Cardinality(On(c)) < MaxWidgets
ValidTarget(c, w) == w \in On(c)

(* The model's first answer: nothing usable, a refusal, or an action.  Only *)
(* an addition and a change of the query need data.                         *)
Intent(t) ==
    /\ At(t, "intent")
    /\ \/ Fail(t)
       \/ Refuse(t)
       \/ /\ ValidAdd(job[t].snapshot)
          /\ job' = [job EXCEPT ![t] = [@ EXCEPT !.at = "query", !.kind = "add"]]
          /\ UNCHANGED wire
       \/ \E w \in Widgets, k \in Kinds \ {"add"} :
             /\ ValidTarget(job[t].snapshot, w)
             /\ \E next \in (IF k = "update" THEN {"query", "patch"} ELSE {"patch"}) :
                   job' = [job EXCEPT ![t] =
                             [@ EXCEPT !.at = next, !.kind = k, !.target = w]]
             /\ UNCHANGED wire
    /\ UNCHANGED minted

(* tryRagWidget: rows, a question back (a time-out, too many rows), or      *)
(* nothing, which leads to the tables of the topic.                         *)
Query(t) ==
    /\ At(t, "query")
    /\ \E next \in {"build", "topic"} : Go(t, next) \/ Return(t)
    /\ UNCHANGED minted
Topic(t) ==
    /\ At(t, "topic")
    /\ \/ Fail(t) \/ Return(t) \/ Go(t, "build")
       \/ Refuse(t)
    /\ UNCHANGED minted

Fresh == Widgets \ minted
Propose(t, names, x) ==
    job' = [job EXCEPT ![t] =
              [@ EXCEPT !.at = "review",
                        !.proposal = [kind |-> job[t].kind, names |-> names,
                                      content |-> x, blocked |-> FALSE]]]

(* A row of KPIs becomes one widget for each column there is a place for.    *)
SlotsOffByOne(c) == 1 + MaxWidgets - Cardinality(On(c))
Slots(c) == IF MaxWidgets > Cardinality(On(c)) THEN MaxWidgets - Cardinality(On(c)) ELSE 0
Build(t) ==
    /\ At(t, "build")
    /\ \/ Fail(t) /\ UNCHANGED minted
       \/ /\ job[t].kind = "add"
          /\ \E names \in SUBSET Fresh, x \in Contents :
                /\ names # {} /\ Cardinality(names) <= Slots(job[t].snapshot)
                /\ Propose(t, names, x) /\ minted' = minted \cup names
          /\ UNCHANGED wire
       \/ /\ job[t].kind = "update"
          /\ \E x \in Contents : Propose(t, {job[t].target}, x)
          /\ UNCHANGED <<wire, minted>>
Patch(t) ==
    /\ At(t, "patch")
    /\ \/ job[t].kind = "update" /\ Fail(t)
       \/ (\E x \in Contents : Propose(t, {job[t].target}, x)) /\ UNCHANGED wire
    /\ UNCHANGED minted

(* The reviewing model decides whether the proposal may be applied; without *)
(* an answer of its it may.                                                 *)
Review(t) ==
    /\ At(t, "review")
    /\ \/ Fail(t)
       \/ \E blocked \in BOOLEAN :
             /\ Emit(t, "patch_ready", [job[t].proposal EXCEPT !.blocked = blocked])
             /\ job' = [job EXCEPT ![t] = [NoJob EXCEPT !.at = "last"]]
    /\ UNCHANGED minted

(* chatHandler.js: live data for the topics the model names, one after the  *)
(* other (one is enough here); an exception ends the stream without "done".  *)
Chat(t) ==
    /\ At(t, "chat")
    /\ \/ Go(t, "live") \/ Return(t)
       \/ job' = [job EXCEPT ![t] = Closed] /\ Emit(t, "error", None)
    /\ UNCHANGED minted
Live(t) == At(t, "live") /\ (Fail(t) \/ Return(t)) /\ UNCHANGED minted
Close(t) == At(t, "last") /\ Answered(t) /\ UNCHANGED minted

Serve(t) ==
    /\ \/ Intent(t) \/ Query(t) \/ Topic(t) \/ Build(t) \/ Patch(t) \/ Review(t)
       \/ Chat(t) \/ Live(t) \/ Close(t)
    /\ UNCHANGED <<board, panel>>

-----------------------------------------------------------------------------
Init ==
    /\ \E x \in Contents : canvas = [w \in Widgets |-> IF w \in Start THEN x ELSE None]
    /\ past = <<>> /\ minted = Start
    /\ chat = {} /\ asked = <<>> /\ loading = FALSE
    /\ msg = [t \in Turns |-> Unseen]
    /\ job = [t \in Turns |-> NoJob]
    /\ wire = [t \in Turns |-> <<>>]

UserActs ==
    \/ \E w \in Widgets, x \in Contents : Edit(w, x)
    \/ \E w \in Widgets : RemoveWidget(w)
    \/ Undo \/ OpenPage \/ ClearChat
    \/ \E t \in Turns :
          \/ Send(t, "intent") \/ Send(t, "chat")
          \/ ApplyPatch(t) \/ CancelPatch(t) \/ UndoPatch(t)
Answer(t) == Serve(t) \/ Receive(t) \/ StreamEnds(t)
Next == UserActs \/ \E t \in Turns : Answer(t) \/ Break(t)
Spec == Init /\ [][Next]_chatVars /\ \A t \in Turns : WF_chatVars(Answer(t))
-----------------------------------------------------------------------------
(* Properties.                                                             *)

(* Types of the panel, the backend's jobs and the canvas, whose history is  *)
(* bounded.                                                                *)
ChatTypeOK ==
    /\ canvas \in Canvas /\ past \in Seq(Canvas) /\ Len(past) <= MaxHistory
    /\ minted \subseteq Widgets /\ chat \subseteq Turns /\ asked \in Seq(Turns)
    /\ msg \in [Turns -> Message] /\ loading \in BOOLEAN
    /\ job \in [Turns -> Job] /\ wire \in [Turns -> Seq(Event)]

(* However a question ends (an answer, a refusal, an exception, a broken    *)
(* connection, a cleared chat), its message stops showing that it is being  *)
(* answered, and an old stream never keeps two messages going.              *)
OnlyTheCurrentStreams ==
    \A t \in chat : msg[t].streaming => loading /\ t = Current

(* A proposal fits the canvas the question came with: its widgets are new   *)
(* and there is room for all of them, or it names a widget that was there.  *)
ProposalFitsSnapshot ==
    \A t \in Turns : job[t].proposal # None =>
        LET p == job[t].proposal
            there == On(job[t].snapshot)
        IN IF p.kind = "add"
           THEN p.names \cap there = {} /\ Cardinality(p.names \cup there) <= MaxWidgets
           ELSE p.names \subseteq there

(* A proposal may be applied long after its question, on a canvas that has  *)
(* changed or that belongs to another page.  It then touches only what it   *)
(* names, brings back nothing the user removed, and was approved.           *)
LateProposalKeepsTheRest ==
    [][\A t \in Turns :
          msg[t].status = "pending" /\ msg'[t].status = "applied" =>
              LET p == msg[t].proposal
              IN /\ ~p.blocked
                 /\ \A w \in Widgets : canvas'[w] # canvas[w] =>
                       w \in p.names /\ (canvas[w] = None => p.kind = "add")]_chatVars

(* The panel is locked by a question only until its stream ends: every      *)
(* return of the pipeline passes the finally of its handler.               *)
QuestionSettles == loading ~> ~loading
=============================================================================
