-------------------------- MODULE DashboardEditor ---------------------------
(***************************************************************************)
(* The editor of one browser tab: the canvas, its undo history, the dirty  *)
(* mark and the saves of frontend/src/context/DashboardStateContext.jsx.   *)
(*                                                                         *)
(* Requests to the backend are open for as long as the network takes, and  *)
(* the user goes on meanwhile.  A save is answered in two steps, where the *)
(* server decides it and where the answer arrives; so is a load.  The      *)
(* server is what the editor sees of PageStore: pages with a version that  *)
(* a save must name.                                                       *)
(*                                                                         *)
(* A canvas is its version, the ids on it, how they are laid out, and the  *)
(* titles and specs they have.                                             *)
(* React applies an event's updates before the next event, so stateRef and *)
(* nameRef are the state and the name.  suppressDirty has no effect of its *)
(* own: whatever sets it also makes changeSource 'system'.                 *)
(***************************************************************************)
EXTENDS Naturals, Sequences, FiniteSets

CONSTANTS
    Names,         \* names of saved pages
    Widgets,       \* object ids
    Layouts,       \* what moving and resizing can tell apart
    Contents,      \* what editing titles and specs can tell apart
    InitialPages,  \* the stored pages before the tab opens
    Template,      \* ids on the template that headquarters offers
    MaxHistory,    \* MAX_HISTORY, 20 in the code
    MaxVersion,    \* bound on the versions of canvases and pages
    MaxActs,       \* bound on what the user does
    MaxSaves,      \* bound on the saves under way at the same time
    None

VARIABLES
    server,        \* the stored pages: name -> canvas, or None
    name,          \* the open name, None for an unnamed draft
    present, past, future,
    persistedVersion,
    persistedIds,  \* the ids last loaded or saved, None: no stored page
    dirty,
    timer,         \* the name the pending layout save is for, or None
    load,          \* the load under way, or None
    saves,         \* the saves under way
    deletion,      \* the deletion under way, or None
    drafting,      \* a template has been asked for and is not there yet
    origin,        \* ghost: the name whose page persistedVersion and persistedIds are of
    persistedContent, \* ghost: the titles and specs last loaded or saved
    committed,     \* ghost: ids the user has saved by hand, or that were stored
    acts,          \* how much of MaxActs is used
    silent         \* ghost: a page lost widgets or its versions without a new one

canvas == <<present, past, future, persistedVersion, persistedIds, persistedContent, origin>>
evars == <<server, name, canvas, dirty, timer, load, saves, deletion, drafting, committed, silent, acts>>

Canvas == [version: 0 .. MaxVersion, ids: SUBSET Widgets, layout: Layouts, content: Contents]
ASSUME EditorAssumption ==
    /\ InitialPages \in [Names -> Canvas \cup {None}]
    /\ Template \subseteq Widgets /\ Layouts # {} /\ Contents # {}
    /\ MaxHistory \in Nat \ {0} /\ MaxVersion \in Nat /\ MaxActs \in Nat /\ MaxSaves \in Nat \ {0}
    /\ None \notin Names /\ None \notin Canvas

(* The primary key of the stored objects: an id is on one page. *)
ASSUME OnePagePerWidget ==
    \A m, n \in Names : m = n \/ InitialPages[m] = None \/ InitialPages[n] = None
                        \/ InitialPages[m].ids \cap InitialPages[n].ids = {}

Empty == [version |-> 0, ids |-> {}, layout |-> CHOOSE l \in Layouts : TRUE,
          content |-> CHOOSE t \in Contents : TRUE]
Save == [target: Names, base: 0 .. MaxVersion, canvas: Canvas, auto: BOOLEAN,
         for: Names \cup {None}, was: Contents, rewound: BOOLEAN,
         answer: (0 .. MaxVersion) \cup {None}]
Page(n) == IF server[n] = None THEN Empty ELSE server[n]
Stored == {n \in Names : server[n] # None}
SameContent(c, d) == c.ids = d.ids /\ c.layout = d.layout /\ c.content = d.content

(* Types of the editor's state and of what is under way. *)
EditorTypeOK ==
    /\ server \in [Names -> Canvas \cup {None}]
    /\ name \in Names \cup {None} /\ timer \in Names \cup {None}
    /\ present \in Canvas /\ past \in Seq(Canvas) /\ future \in Seq(Canvas)
    /\ Len(past) <= MaxHistory
    /\ persistedVersion \in 0 .. MaxVersion
    /\ persistedIds \in (SUBSET Widgets) \cup {None} /\ persistedContent \in Contents
    /\ dirty \in BOOLEAN /\ drafting \in BOOLEAN
    /\ load = None \/ load \in [of: Names, got: Canvas \cup {None}]
    /\ saves \subseteq Save /\ Cardinality(saves) <= MaxSaves
    /\ deletion = None \/ deletion \in [of: Names, next: Names \cup {None}, done: BOOLEAN]
    /\ origin \in Names \cup {None} /\ committed \subseteq Widgets /\ silent \in BOOLEAN
    /\ acts \in 0 .. MaxActs

-----------------------------------------------------------------------------
(* setName: a new name cancels the load under way and starts another. *)
Open(n) ==
    /\ name' = n
    /\ load' = IF n = name THEN load
               ELSE IF n = None THEN None ELSE [of |-> n, got |-> None]

(* 'loaded': the history goes; dirty stays what it was.  Saves under way now *)
(* meet a canvas with versions of its own.                                  *)
Rewind == saves' = {[s EXCEPT !.rewound = TRUE] : s \in saves}
Loaded(c, ids, n) ==
    /\ present' = c /\ past' = <<>> /\ future' = <<>>
    /\ persistedVersion' = c.version /\ persistedIds' = ids
    /\ persistedContent' = c.content /\ origin' = n
    /\ Rewind

(* Only while the canvas may still grow, so that every version has room. *)
Room == present.version < MaxVersion
AllOfThem(q) == IF Len(q) > MaxVersion THEN Tail(q) ELSE q
LastFew(q) == IF Len(q) > MaxHistory THEN Tail(q) ELSE q

Apply(ids, layout, content) ==
    /\ Room
    /\ present' = [version |-> present.version + 1, ids |-> ids, layout |-> layout,
                   content |-> content]
    /\ past' = LastFew(Append(past, present)) /\ future' = <<>>
    /\ dirty' = TRUE
    /\ UNCHANGED <<server, name, persistedVersion, persistedIds, persistedContent, load, saves,
                   deletion, drafting, origin, committed, silent>>

(* A move or a resize also sets the timer of the layout save, for the name   *)
(* open now.                                                                *)
Move(l) ==
    /\ present.ids # {} /\ l # present.layout
    /\ Apply(present.ids, l, present.content)
    /\ timer' = IF name = None THEN timer ELSE name
Add(w) ==
    /\ w \notin committed \cup present.ids \cup Template
    /\ Apply(present.ids \cup {w}, present.layout, present.content)
    /\ UNCHANGED timer
Remove(w) ==
    /\ w \in present.ids
    /\ Apply(present.ids \ {w}, present.layout, present.content)
    /\ UNCHANGED timer
(* handleSaveObject, or an update from the chat: not a reason for a save.   *)
Edit(c) ==
    /\ present.ids # {}
    /\ Apply(present.ids, present.layout, c)
    /\ UNCHANGED timer

Undo ==
    /\ past # <<>>
    /\ present' = past[Len(past)] /\ past' = SubSeq(past, 1, Len(past) - 1)
    /\ future' = <<present>> \o future
    /\ dirty' = TRUE /\ Rewind
    /\ UNCHANGED <<server, name, persistedVersion, persistedIds, persistedContent, timer, load,
                   deletion, drafting, origin, committed, silent>>
Redo ==
    /\ future # <<>>
    /\ present' = Head(future) /\ future' = Tail(future)
    /\ past' = Append(past, present)
    /\ dirty' = TRUE /\ Rewind
    /\ UNCHANGED <<server, name, persistedVersion, persistedIds, persistedContent, timer, load,
                   deletion, drafting, origin, committed, silent>>

-----------------------------------------------------------------------------
(* Opening pages.  The user has agreed to lose what is not saved.           *)

SwitchTo(n) ==
    /\ n \in Stored /\ n # name
    /\ Open(n)
    /\ UNCHANGED <<server, canvas, dirty, timer, saves, deletion, drafting, committed, silent>>

NewPage(n) ==
    /\ n \notin Stored
    /\ Loaded(Empty, None, n) /\ Open(n)
    /\ UNCHANGED <<server, dirty, timer, deletion, drafting, committed, silent>>

(* The server reads the page; the answer arrives later, or not at all.      *)
LoadAnswered ==
    /\ load # None /\ load.got = None
    /\ load' = [load EXCEPT !.got = Page(load.of)]
    /\ UNCHANGED <<server, name, canvas, dirty, timer, saves, deletion, drafting, committed, silent>>
LoadArrives ==
    /\ load # None /\ load.got # None
    /\ Loaded(load.got, load.got.ids, load.of)
    /\ load' = None
    /\ UNCHANGED <<server, name, dirty, timer, deletion, drafting, committed, silent>>
LoadFails ==
    /\ load # None
    /\ Loaded(Empty, None, load.of)
    /\ load' = None
    /\ UNCHANGED <<server, name, dirty, timer, deletion, drafting, committed, silent>>

AskTemplate ==
    /\ ~drafting /\ drafting' = TRUE
    /\ UNCHANGED <<server, name, canvas, dirty, timer, load, saves, deletion, committed, silent>>
TemplateArrives ==
    /\ drafting /\ drafting' = FALSE
    /\ Loaded([Empty EXCEPT !.ids = Template], None, None) /\ Open(None)
    /\ UNCHANGED <<server, dirty, timer, deletion, committed, silent>>

-----------------------------------------------------------------------------
(* Saving.                                                                  *)

Send(n, auto) ==
    /\ Cardinality(saves) < MaxSaves
    /\ saves' = saves \cup {[target |-> n, base |-> persistedVersion, canvas |-> present,
                             auto |-> auto, for |-> origin, was |-> persistedContent,
                             rewound |-> FALSE, answer |-> None]}
    /\ committed' = IF auto THEN committed ELSE committed \cup present.ids

(* save(): under the open name, or under one the user gives a draft. *)
SaveNow(n) ==
    /\ name \in {n, None}
    /\ timer' = None
    /\ Send(n, FALSE)
    /\ UNCHANGED <<server, name, canvas, dirty, load, deletion, drafting, silent>>

PureMoveAlways == persistedIds # None
PureMove == persistedIds # None /\ present.ids = persistedIds
LayoutSaveDue == timer = name /\ present.version # persistedVersion /\ PureMove
LayoutTimer ==
    /\ timer # None /\ timer' = None
    /\ \/ LayoutSaveDue /\ Send(timer, TRUE)
       \/ ~LayoutSaveDue /\ UNCHANGED <<saves, committed>>
    /\ UNCHANGED <<server, name, canvas, dirty, load, deletion, drafting, silent>>

(* The server stores a canvas whose base is the page's version, or that      *)
(* makes the page; it refuses any other, which then fails.  An id is on one  *)
(* page: it leaves any other.  A canvas without a change does not count.     *)
Accepts(s) == s.target \in Stored => s.base = Page(s.target).version
Changes(s) == s.target \in Stored => ~SameContent(s.canvas, Page(s.target))
NextVersion(s) == Page(s.target).version + IF Changes(s) THEN 1 ELSE 0
Put(s) ==
    [n \in Names |->
        IF n = s.target THEN [s.canvas EXCEPT !.version = NextVersion(s)]
        ELSE IF server[n] = None THEN None
        ELSE [server[n] EXCEPT !.ids = @ \ s.canvas.ids]]
SaveDecided(s) ==
    /\ s.answer = None
    /\ Accepts(s) /\ NextVersion(s) <= MaxVersion
    /\ server' = Put(s)
    /\ silent' = (silent \/ \E n \in Stored \ {s.target} : Page(n).ids \cap s.canvas.ids # {})
    /\ saves' = (saves \ {s}) \cup {[s EXCEPT !.answer = NextVersion(s)]}
    /\ UNCHANGED <<name, canvas, dirty, timer, load, deletion, drafting, committed>>

(* The answer tells a newer edit by the canvas's version.  The name of the   *)
(* save becomes the open one.                                                *)
NewerEditNever(s) == s.canvas.version > MaxVersion
NewerEdit(s) == present.version # s.canvas.version
SaveArrives(s) ==
    /\ s.answer # None
    /\ present' = IF NewerEdit(s) THEN present ELSE [present EXCEPT !.version = s.answer]
    /\ persistedVersion' = s.answer /\ persistedIds' = s.canvas.ids
    /\ persistedContent' = s.canvas.content
    /\ dirty' = NewerEdit(s)
    /\ saves' = {[t EXCEPT !.rewound = @ \/ present' # present] : t \in saves \ {s}}
    /\ Open(s.target) /\ origin' = s.target
    /\ UNCHANGED <<server, past, future, timer, deletion, drafting, committed, silent>>

(* A refusal, or an error before or after the server stored the canvas. *)
SaveFails(s) ==
    /\ saves' = saves \ {s}
    /\ UNCHANGED <<server, name, canvas, dirty, timer, load, deletion, drafting, committed, silent>>

-----------------------------------------------------------------------------
(* Deleting the open page.  What is opened next is settled by the list that  *)
(* comes with the answer, wherever the user is by then.                      *)

Delete ==
    /\ name \in Stored /\ deletion = None
    /\ deletion' = [of |-> name, next |-> None, done |-> FALSE]
    /\ UNCHANGED <<server, name, canvas, dirty, timer, load, saves, drafting, committed, silent>>
DeleteDecided ==
    /\ deletion # None /\ ~deletion.done
    /\ server' = [server EXCEPT ![deletion.of] = None] /\ silent' = TRUE
    /\ \E next \in (Stored \ {deletion.of}) \cup {None} :
          /\ next = None <=> Stored \subseteq {deletion.of}
          /\ deletion' = [deletion EXCEPT !.next = next, !.done = TRUE]
    /\ UNCHANGED <<name, canvas, dirty, timer, load, saves, drafting, committed>>
DeleteArrives ==
    /\ deletion # None /\ deletion.done
    /\ deletion' = None
    /\ Open(deletion.next)
    /\ \/ deletion.next # None /\ UNCHANGED <<canvas, saves>>
       \/ deletion.next = None /\ Loaded(Empty, None, None)
    /\ UNCHANGED <<server, dirty, timer, drafting, committed, silent>>

-----------------------------------------------------------------------------
EditorInit ==
    /\ server = InitialPages
    /\ name \in Stored
    /\ present = server[name] /\ past = <<>> /\ future = <<>>
    /\ persistedVersion = present.version /\ persistedIds = present.ids
    /\ persistedContent = present.content
    /\ dirty = FALSE /\ timer = None /\ load = None /\ saves = {}
    /\ deletion = None /\ drafting = FALSE /\ origin = name /\ silent = FALSE /\ acts = 0
    /\ committed = UNION {Page(n).ids : n \in Names}

User ==
    /\ acts < MaxActs /\ acts' = acts + 1
    /\ \/ \E l \in Layouts : Move(l)
       \/ \E c \in Contents : Edit(c)
       \/ \E w \in Widgets : Add(w) \/ Remove(w)
       \/ Undo \/ Redo
       \/ \E n \in Names : SwitchTo(n) \/ NewPage(n) \/ SaveNow(n)
       \/ AskTemplate \/ Delete
Network ==
    /\ UNCHANGED acts
    /\ \/ LayoutTimer
       \/ LoadAnswered \/ LoadArrives \/ LoadFails
       \/ TemplateArrives
       \/ \E s \in saves : SaveDecided(s) \/ SaveArrives(s) \/ SaveFails(s)
       \/ DeleteDecided \/ DeleteArrives
EditorNext == User \/ Network

EditorSpec == EditorInit /\ [][EditorNext]_evars

-----------------------------------------------------------------------------
(* Properties.                                                              *)

Decided(s) == s.answer = None /\ s \notin saves' /\ [s EXCEPT !.answer = NextVersion(s)] \in saves'

(* A widget put on the canvas reaches the server only by a save by hand (the *)
(* comment on persistedIdsRef: a layout save once stored new objects).       *)
NewWidgetsNeedASave == \A n \in Stored : server[n].ids \subseteq committed

(* A layout save whose base was loaded or saved for its page leaves every    *)
(* page the widgets it has, whatever was opened, undone or saved meanwhile;  *)
(* and their titles and specs, unless the canvas has others than the tab     *)
(* last loaded or saved, which go along.  So it is as long as no page was    *)
(* deleted and no save took the widgets of another.                         *)
OwnLayoutSaveKeepsWidgets ==
    [][\A s \in saves :
          Decided(s) /\ s.auto /\ s.for = s.target /\ s.target \in Stored /\ ~silent
          => \A n \in Names : /\ Page(n).ids = Page(n)'.ids
                              /\ s.canvas.content = s.was => Page(n).content = Page(n)'.content]_evars

(* DashboardStateContext.jsx:15-17 and 322 say it of every layout save and   *)
(* without exception: it carries moves and resizes only.                    *)
LayoutSaveOnlyMoves ==
    [][\A s \in saves : Decided(s) /\ s.auto
          => \A n \in Names : /\ Page(n).ids = Page(n)'.ids
                              /\ Page(n).content = Page(n)'.content]_evars

(* A save that is answered marks clean only the canvas that it stored, as    *)
(* long as the canvas's version has only grown since the save was sent.      *)
CleanIsSaved ==
    [][dirty /\ ~dirty'
          => \E s \in saves \ saves' : s.rewound \/ SameContent(present', s.canvas)]_evars

(* The comment on 'saved' (DashboardStateContext.jsx:72) has no such limit: a *)
(* newer edit stays dirty.                                                   *)
NewerEditStaysDirty ==
    [][dirty /\ ~dirty' => \E s \in saves \ saves' : SameContent(present', s.canvas)]_evars
==============================================================================
