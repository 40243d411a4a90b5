------------------------ MODULE DashboardEditorProofs ------------------------
(***************************************************************************)
(* Proofs about DashboardEditor, for any pages, widgets and bounds: its    *)
(* types, what a layout save may change, and when a canvas is clean.       *)
(***************************************************************************)
EXTENDS DashboardEditor, FiniteSetTheorems, SequenceTheorems, TLAPS

-----------------------------------------------------------------------------
(* The inductive invariant.                                                *)

(* Whatever may become the content of a page is there by hand. *)
CommittedInv ==
    /\ \A n \in Stored : server[n].ids \subseteq committed
    /\ persistedIds # None => persistedIds \subseteq committed
    /\ \A s \in saves : s.canvas.ids \subseteq committed
    /\ load # None /\ load.got # None => load.got.ids \subseteq committed

(* While the version of the canvas only grows, it tells its contents apart. *)
Behind(s) ==
    /\ s.canvas.version <= present.version
    /\ s.canvas.version = present.version => SameContent(s.canvas, present)
GrownInv == \A s \in saves : s.rewound \/ Behind(s)

(* So does the version of a page, as long as it is neither deleted nor      *)
(* robbed of widgets: it tells its widgets, and their titles and specs.     *)
Snapshot(n, version, ids, content) ==
    /\ version <= Page(n).version
    /\ n \in Stored /\ version = Page(n).version
       => ids = Page(n).ids /\ content = Page(n).content
OwnBase(s) == s.auto /\ s.for = s.target
Disjoint == \A m, n \in Stored : m # n => server[m].ids \cap server[n].ids = {}
SnapshotOfTab ==
    origin # None /\ persistedIds # None
    => Snapshot(origin, persistedVersion, persistedIds, persistedContent)
SnapshotOfSave(s) ==
    /\ s.answer # None => Snapshot(s.target, s.answer, s.canvas.ids, s.canvas.content)
    /\ OwnBase(s) => Snapshot(s.target, s.base, s.canvas.ids, s.was)
SnapshotOfLoad ==
    load # None /\ load.got # None
    => Snapshot(load.of, load.got.version, load.got.ids, load.got.content)
SnapshotInv ==
    /\ Disjoint
    /\ silent \/ (SnapshotOfTab /\ SnapshotOfLoad /\ \A s \in saves : SnapshotOfSave(s))

-----------------------------------------------------------------------------
(* Types, in parts that a step may leave alone.                            *)

(* Undo and redo only pass canvases between past and future. *)
HistoryFits == Len(past) + Len(future) <= MaxHistory

PagesOK == server \in [Names -> Canvas \cup {None}]
CanvasOK ==
    /\ present \in Canvas /\ past \in Seq(Canvas) /\ future \in Seq(Canvas) /\ HistoryFits
    /\ persistedVersion \in 0 .. MaxVersion /\ persistedIds \in (SUBSET Widgets) \cup {None}
    /\ persistedContent \in Contents /\ origin \in Names \cup {None}
SavesOK == saves \subseteq Save /\ IsFiniteSet(saves) /\ Cardinality(saves) <= MaxSaves
LoadRecord == [of: Names, got: Canvas \cup {None}]
DeletionRecord == [of: Names, next: Names \cup {None}, done: BOOLEAN]
TabOK ==
    /\ name \in Names \cup {None} /\ timer \in Names \cup {None}
    /\ dirty \in BOOLEAN /\ drafting \in BOOLEAN
    /\ load = None \/ load \in LoadRecord
    /\ deletion = None \/ deletion \in DeletionRecord
    /\ committed \subseteq Widgets /\ silent \in BOOLEAN
Parts == PagesOK /\ CanvasOK /\ SavesOK /\ TabOK
TypeInv == Parts /\ acts \in 0 .. MaxActs

LEMMA Bounds ==
    /\ MaxVersion \in Nat /\ MaxHistory \in Nat /\ MaxHistory >= 1 /\ MaxSaves \in Nat
    /\ None \notin Names /\ None \notin Canvas /\ Template \subseteq Widgets
  BY EditorAssumption

LEMMA TypesOK == TypeInv => EditorTypeOK
<1>1. CanvasOK => Len(past) <= MaxHistory
  BY Bounds DEF CanvasOK, HistoryFits
<1>2. QED
  BY <1>1 DEF TypeInv, EditorTypeOK, Parts, PagesOK, CanvasOK, SavesOK, TabOK, LoadRecord,
              DeletionRecord

LEMMA EmptyCanvas ==
    /\ Empty \in Canvas /\ Empty.ids = {} /\ Empty.version = 0
    /\ [Empty EXCEPT !.ids = Template] \in Canvas
<1>1. (CHOOSE l \in Layouts : TRUE) \in Layouts /\ (CHOOSE t \in Contents : TRUE) \in Contents
  BY EditorAssumption
<1>2. 0 \in 0 .. MaxVersion
  BY Bounds
<1>3. QED BY <1>1, <1>2, Bounds DEF Empty, Canvas

LEMMA PageIsCanvas ==
    ASSUME PagesOK, NEW n \in Names
    PROVE  Page(n) \in Canvas
  BY EmptyCanvas DEF PagesOK, Page

LEMMA EditorStarts == EditorInit => TypeInv
<1> SUFFICES ASSUME EditorInit PROVE TypeInv
  OBVIOUS
<1>1. PagesOK /\ name \in Names /\ server[name] # None
  BY EditorAssumption DEF EditorInit, PagesOK, Stored
<1>2. present \in Canvas
  BY <1>1 DEF EditorInit, PagesOK
<1>3. CanvasOK
  <2>1. /\ present.version \in 0 .. MaxVersion /\ present.ids \in SUBSET Widgets
        /\ present.content \in Contents
    BY <1>2 DEF Canvas
  <2>2. past \in Seq(Canvas) /\ future \in Seq(Canvas) /\ Len(past) = 0 /\ Len(future) = 0
    BY DEF EditorInit
  <2>3. QED BY <1>1, <1>2, <2>1, <2>2, Bounds DEF EditorInit, CanvasOK, HistoryFits
<1>4. SavesOK
  BY FS_EmptySet, Bounds DEF EditorInit, SavesOK
<1>5. TabOK
  <2>1. \A n \in Names : Page(n).ids \subseteq Widgets
    BY <1>1, PageIsCanvas DEF Canvas
  <2>2. committed \subseteq Widgets
    BY <2>1 DEF EditorInit
  <2>3. QED BY <1>1, <2>2 DEF EditorInit, TabOK
<1>6. acts \in 0 .. MaxActs
  BY EditorAssumption DEF EditorInit
<1>7. QED BY <1>1, <1>3, <1>4, <1>5, <1>6 DEF Parts, TypeInv

(* As many saves as before, or fewer. *)
LEMMA NoMoreSaves ==
    ASSUME SavesOK, NEW T \in SUBSET saves, NEW f \in [T -> Save], saves' = {f[s] : s \in T}
    PROVE  SavesOK'
<1>1. f \in Surjection(T, saves')
  BY DEF Surjection
<1>2. IsFiniteSet(T) /\ Cardinality(T) <= Cardinality(saves)
  BY FS_Subset DEF SavesOK
<1>3. IsFiniteSet(saves') /\ Cardinality(saves') <= Cardinality(T)
  BY <1>1, <1>2, FS_Surjection
<1>4. Cardinality(saves) \in Nat /\ Cardinality(T) \in Nat /\ Cardinality(saves') \in Nat
  BY <1>2, <1>3, FS_CardinalityType DEF SavesOK
<1>5. Cardinality(saves') <= MaxSaves
  BY <1>2, <1>3, <1>4, Bounds DEF SavesOK
<1>6. QED BY <1>3, <1>5 DEF SavesOK

LEMMA FewerSaves ==
    ASSUME SavesOK, saves' \subseteq saves
    PROVE  SavesOK'
<1>1. IsFiniteSet(saves') /\ Cardinality(saves') <= Cardinality(saves)
  BY FS_Subset DEF SavesOK
<1>2. Cardinality(saves) \in Nat /\ Cardinality(saves') \in Nat
  BY <1>1, FS_CardinalityType DEF SavesOK
<1>3. Cardinality(saves') <= MaxSaves
  BY <1>1, <1>2, Bounds DEF SavesOK
<1>4. QED BY <1>1, <1>3 DEF SavesOK

(* A save goes on, as it was but for the fields that its course is noted in. *)
SameSave(t, s) ==
    /\ t.target = s.target /\ t.base = s.base /\ t.canvas = s.canvas
    /\ t.auto = s.auto /\ t.for = s.for /\ t.was = s.was /\ t.answer = s.answer

LEMMA RewindEffect ==
    ASSUME SavesOK, Rewind
    PROVE  /\ SavesOK'
           /\ \A t \in saves' : t.rewound /\ \E s \in saves : SameSave(t, s)
<1> DEFINE f == [s \in saves |-> [s EXCEPT !.rewound = TRUE]]
<1>1. \A s \in saves : /\ [s EXCEPT !.rewound = TRUE] \in Save
                       /\ [s EXCEPT !.rewound = TRUE].rewound
                       /\ SameSave([s EXCEPT !.rewound = TRUE], s)
  BY DEF SavesOK, Save, SameSave
<1>2. f \in [saves -> Save] /\ saves' = {f[s] : s \in saves}
  BY <1>1 DEF Rewind
<1>3. SavesOK'
  <2> HIDE DEF f
  <2>1. QED BY <1>2, NoMoreSaves
<1>4. QED BY <1>1, <1>3 DEF Rewind

LEMMA LoadedEffect ==
    ASSUME Parts, NEW c \in Canvas, NEW ids \in (SUBSET Widgets) \cup {None},
           NEW n \in Names \cup {None}, Loaded(c, ids, n)
    PROVE  CanvasOK' /\ SavesOK'
<1>1. SavesOK'
  BY RewindEffect DEF Parts, Loaded
<1>2. c.version \in 0 .. MaxVersion /\ c.content \in Contents
  BY DEF Canvas
<1>3. past' \in Seq(Canvas) /\ future' \in Seq(Canvas) /\ Len(past') = 0 /\ Len(future') = 0
  BY DEF Loaded
<1>4. QED BY <1>1, <1>2, <1>3, Bounds DEF Loaded, CanvasOK, HistoryFits

(* The canvas of a page that is not there, and that of a template. *)
LEMMA BlankEffect ==
    ASSUME Parts, NEW n \in Names \cup {None},
           Loaded(Empty, None, n) \/ Loaded([Empty EXCEPT !.ids = Template], None, n)
    PROVE  CanvasOK' /\ SavesOK'
<1>1. PICK c \in Canvas : Loaded(c, None, n)
  BY EmptyCanvas
<1>2. None \in (SUBSET Widgets) \cup {None}
  OBVIOUS
<1>3. QED BY <1>1, <1>2, LoadedEffect

LEMMA OpenEffect ==
    ASSUME Parts, NEW n \in Names \cup {None}, Open(n)
    PROVE  /\ name' \in Names \cup {None} /\ (load' = None \/ load' \in LoadRecord)
           /\ load' = load \/ load' = None \/ load'.got = None
  BY Bounds DEF Parts, TabOK, Open, LoadRecord

(* A canvas more in the past, or one less. *)
LEMMA Pushed ==
    ASSUME NEW q \in Seq(Canvas), NEW c \in Canvas, Len(q) <= MaxHistory
    PROVE  LastFew(Append(q, c)) \in Seq(Canvas) /\ Len(LastFew(Append(q, c))) <= MaxHistory
<1> DEFINE p == Append(q, c)
<1>1. p \in Seq(Canvas) /\ Len(p) = Len(q) + 1 /\ Len(q) \in Nat /\ p # <<>>
  OBVIOUS
<1> HIDE DEF p
<1>2. Tail(p) \in Seq(Canvas) /\ Len(Tail(p)) = Len(p) - 1
  BY <1>1
<1>3. LastFew(p) \in Seq(Canvas) /\ Len(LastFew(p)) <= MaxHistory
  BY <1>1, <1>2, Bounds DEF LastFew
<1>4. QED BY <1>3 DEF p

LEMMA Popped ==
    ASSUME NEW q \in Seq(Canvas), q # <<>>
    PROVE  /\ Len(q) \in Nat /\ Len(q) >= 1 /\ q[Len(q)] \in Canvas
           /\ SubSeq(q, 1, Len(q) - 1) \in Seq(Canvas)
           /\ Len(SubSeq(q, 1, Len(q) - 1)) = Len(q) - 1
<1>1. Len(q) \in Nat /\ Len(q) >= 1 /\ q[Len(q)] \in Canvas
  OBVIOUS
<1> DEFINE last == Len(q) - 1
<1>2. last \in Int /\ last + 1 = Len(q) /\ \A i \in 1 .. last : q[i] \in Canvas
  BY <1>1
<1> HIDE DEF last
<1>3. /\ SubSeq(q, 1, last) \in Seq(Canvas)
      /\ Len(SubSeq(q, 1, last)) = IF 1 <= last THEN last - 1 + 1 ELSE 0
  BY <1>2, SubSeqProperties
<1>4. Len(SubSeq(q, 1, last)) = last
  BY <1>1, <1>2, <1>3
<1>5. QED BY <1>1, <1>3, <1>4 DEF last

LEMMA ApplyTyped ==
    ASSUME Parts, NEW ids \in SUBSET Widgets, NEW l \in Layouts, NEW t \in Contents,
           Apply(ids, l, t)
    PROVE  CanvasOK' /\ PagesOK' /\ SavesOK'
<1>1. present' \in Canvas
  <2>1. present.version \in 0 .. MaxVersion /\ present.version < MaxVersion
    BY DEF Parts, CanvasOK, Canvas, Apply, Room
  <2>2. present.version + 1 \in 0 .. MaxVersion
    BY <2>1, Bounds
  <2>3. QED BY <2>2 DEF Apply, Canvas
<1>2. past' \in Seq(Canvas) /\ Len(past') <= MaxHistory
  <2>1. /\ past \in Seq(Canvas) /\ present \in Canvas /\ future \in Seq(Canvas)
        /\ Len(past) + Len(future) <= MaxHistory /\ past' = LastFew(Append(past, present))
    BY DEF Parts, CanvasOK, HistoryFits, Apply
  <2>2. Len(past) \in Nat /\ Len(future) \in Nat
    BY <2>1
  <2>3. Len(past) <= MaxHistory
    BY <2>1, <2>2, Bounds
  <2>4. QED BY <2>1, <2>2, <2>3, Pushed
<1>3. future' \in Seq(Canvas) /\ Len(future') = 0
  BY DEF Apply
<1>4. QED BY <1>1, <1>2, <1>3 DEF Apply, Parts, CanvasOK, HistoryFits, PagesOK, SavesOK

(* One canvas comes back from the past, or from the future. *)
LEMMA UndoTyped ==
    ASSUME Parts, Undo
    PROVE  Parts'
<1>1. /\ past \in Seq(Canvas) /\ future \in Seq(Canvas) /\ past # <<>> /\ present \in Canvas
      /\ Len(past) + Len(future) <= MaxHistory
  BY DEF Parts, CanvasOK, HistoryFits, Undo
<1>2. Len(past) \in Nat /\ Len(past) >= 1 /\ past[Len(past)] \in Canvas /\ Len(future) \in Nat
  BY <1>1, Popped
<1> DEFINE p == SubSeq(past, 1, Len(past) - 1)
           f == <<present>> \o future
<1>3. p \in Seq(Canvas) /\ Len(p) = Len(past) - 1
  BY <1>1, Popped
<1>4. f \in Seq(Canvas) /\ Len(f) = Len(future) + 1
  BY <1>1
<1>4a. past' = p /\ future' = f
  BY DEF Undo
<1> HIDE DEF p, f
<1>5. Len(past') + Len(future') <= MaxHistory /\ past' \in Seq(Canvas) /\ future' \in Seq(Canvas)
  BY <1>1, <1>2, <1>3, <1>4, <1>4a, Bounds
<1>6. CanvasOK'
  BY <1>2, <1>5 DEF Undo, Parts, CanvasOK, HistoryFits
<1>7. SavesOK'
  BY RewindEffect DEF Undo, Parts
<1>8. QED BY <1>6, <1>7 DEF Undo, Parts, PagesOK, TabOK

LEMMA RedoTyped ==
    ASSUME Parts, Redo
    PROVE  Parts'
<1>1. /\ past \in Seq(Canvas) /\ future \in Seq(Canvas) /\ future # <<>> /\ present \in Canvas
      /\ Len(past) + Len(future) <= MaxHistory
  BY DEF Parts, CanvasOK, HistoryFits, Redo
<1>2. /\ Len(past) \in Nat /\ Len(future) \in Nat /\ Head(future) \in Canvas
      /\ Tail(future) \in Seq(Canvas) /\ Len(Tail(future)) = Len(future) - 1
  BY <1>1
<1>3. Append(past, present) \in Seq(Canvas) /\ Len(Append(past, present)) = Len(past) + 1
  BY <1>1
<1>4. Len(past') + Len(future') <= MaxHistory
  BY <1>1, <1>2, <1>3, Bounds DEF Redo
<1>5. CanvasOK'
  BY <1>2, <1>3, <1>4 DEF Redo, Parts, CanvasOK, HistoryFits
<1>6. SavesOK'
  BY RewindEffect DEF Redo, Parts
<1>7. QED BY <1>5, <1>6 DEF Redo, Parts, PagesOK, TabOK

LEMMA EditsTyped ==
    ASSUME Parts, \/ \E l \in Layouts : Move(l)
                  \/ \E c \in Contents : Edit(c)
                  \/ \E w \in Widgets : Add(w) \/ Remove(w)
    PROVE  Parts'
<1>1. present.ids \in SUBSET Widgets /\ present.layout \in Layouts /\ present.content \in Contents
  BY DEF Parts, CanvasOK, Canvas
<1>2. PICK ids \in SUBSET Widgets, l \in Layouts, t \in Contents : Apply(ids, l, t)
  BY <1>1 DEF Move, Edit, Add, Remove
<1>3. timer' \in Names \cup {None}
  BY DEF Move, Edit, Add, Remove, Parts, TabOK
<1>4. TabOK'
  BY <1>2, <1>3 DEF Apply, Parts, TabOK
<1>5. QED BY <1>2, <1>4, ApplyTyped DEF Parts

LEMMA OpeningTyped ==
    ASSUME Parts, \/ \E n \in Names : SwitchTo(n) \/ NewPage(n)
                  \/ LoadAnswered \/ LoadArrives \/ LoadFails \/ AskTemplate \/ TemplateArrives
    PROVE  Parts'
<1>1. ASSUME NEW n \in Names, SwitchTo(n) PROVE Parts'
  <2>1. name' \in Names \cup {None} /\ (load' = None \/ load' \in LoadRecord)
    BY <1>1, OpenEffect DEF SwitchTo
  <2>2. QED BY <1>1, <2>1 DEF SwitchTo, canvas, Parts, PagesOK, CanvasOK, HistoryFits, SavesOK, TabOK
<1>2. ASSUME NEW n \in Names, NewPage(n) PROVE Parts'
  <2>1. name' \in Names \cup {None} /\ (load' = None \/ load' \in LoadRecord)
    BY <1>2, OpenEffect DEF NewPage
  <2>2. CanvasOK' /\ SavesOK'
    BY <1>2, BlankEffect DEF NewPage
  <2>3. QED BY <1>2, <2>1, <2>2 DEF NewPage, Parts, PagesOK, TabOK
<1>3. CASE LoadAnswered
  <2>1. load \in LoadRecord /\ load' = [load EXCEPT !.got = Page(load.of)]
    BY <1>3 DEF LoadAnswered, Parts, TabOK
  <2>2. load' \in LoadRecord
    BY <2>1, PageIsCanvas DEF Parts, LoadRecord
  <2>3. QED BY <1>3, <2>2 DEF LoadAnswered, canvas, Parts, PagesOK, CanvasOK, HistoryFits, SavesOK, TabOK
<1>4. CASE LoadArrives
  <2>1. load \in LoadRecord /\ load.got \in Canvas /\ load.of \in Names
    BY <1>4 DEF LoadArrives, Parts, TabOK, LoadRecord
  <2>2. load.got.ids \in SUBSET Widgets
    BY <2>1 DEF Canvas
  <2>3. CanvasOK' /\ SavesOK'
    BY <1>4, <2>1, <2>2, LoadedEffect DEF LoadArrives
  <2>4. QED BY <1>4, <2>3 DEF LoadArrives, Parts, PagesOK, TabOK
<1>5. CASE LoadFails
  <2>1. load \in LoadRecord /\ load.of \in Names
    BY <1>5 DEF LoadFails, Parts, TabOK, LoadRecord
  <2>2. CanvasOK' /\ SavesOK'
    BY <1>5, <2>1, BlankEffect DEF LoadFails
  <2>3. QED BY <1>5, <2>2 DEF LoadFails, Parts, PagesOK, TabOK
<1>6. CASE AskTemplate
  BY <1>6 DEF AskTemplate, canvas, Parts, PagesOK, CanvasOK, HistoryFits, SavesOK, TabOK
<1>7. CASE TemplateArrives
  <2>1. name' \in Names \cup {None} /\ (load' = None \/ load' \in LoadRecord)
    BY <1>7, OpenEffect DEF TemplateArrives
  <2>2. CanvasOK' /\ SavesOK'
    BY <1>7, BlankEffect DEF TemplateArrives
  <2>3. QED BY <1>7, <2>1, <2>2 DEF TemplateArrives, Parts, PagesOK, TabOK
<1>8. QED BY <1>1, <1>2, <1>3, <1>4, <1>5, <1>6, <1>7

(* What is sent. *)
Sent(n, auto) ==
    [target |-> n, base |-> persistedVersion, canvas |-> present, auto |-> auto,
     for |-> origin, was |-> persistedContent, rewound |-> FALSE, answer |-> None]

LEMMA SendTyped ==
    ASSUME Parts, NEW n \in Names, NEW auto \in BOOLEAN, Send(n, auto)
    PROVE  /\ SavesOK' /\ committed' \subseteq Widgets /\ Sent(n, auto) \in Save
           /\ saves' = saves \cup {Sent(n, auto)}
<1>1. Sent(n, auto) \in Save
  BY DEF Parts, CanvasOK, Sent, Save
<1>2. saves' = saves \cup {Sent(n, auto)} /\ Cardinality(saves) < MaxSaves
  BY DEF Send, Sent
<1> DEFINE x == Sent(n, auto)
<1> HIDE DEF x
<1>3. IsFiniteSet(saves') /\ Cardinality(saves') <= Cardinality(saves) + 1
  <2>1. IsFiniteSet(saves) /\ Cardinality(saves) \in Nat
    BY FS_CardinalityType DEF Parts, SavesOK
  <2>2. saves' = saves \cup {x}
    BY <1>2 DEF x
  <2>3. /\ IsFiniteSet(saves \cup {x})
        /\ Cardinality(saves \cup {x}) =
              IF x \in saves THEN Cardinality(saves) ELSE Cardinality(saves) + 1
    BY <2>1, FS_AddElement
  <2>4. QED BY <2>1, <2>2, <2>3
<1>4. Cardinality(saves') <= MaxSaves
  <2>1. Cardinality(saves) \in Nat /\ Cardinality(saves') \in Nat
    BY <1>3, FS_CardinalityType DEF Parts, SavesOK
  <2>2. QED BY <1>2, <1>3, <2>1, Bounds
<1>5. committed' \subseteq Widgets
  BY DEF Send, Parts, TabOK, CanvasOK, Canvas
<1>6. QED BY <1>1, <1>2, <1>3, <1>4, <1>5 DEF Parts, SavesOK

LEMMA SendingTyped ==
    ASSUME Parts, LayoutTimer \/ \E n \in Names : SaveNow(n)
    PROVE  Parts'
<1>1. ASSUME NEW n \in Names, SaveNow(n) PROVE Parts'
  <2>1. SavesOK' /\ committed' \subseteq Widgets
    BY <1>1, SendTyped DEF SaveNow
  <2>2. QED BY <1>1, <2>1 DEF SaveNow, canvas, Parts, PagesOK, CanvasOK, HistoryFits, TabOK
<1>2. CASE LayoutTimer
  <2>1. SavesOK' /\ committed' \subseteq Widgets
    <3>1. timer \in Names
      BY <1>2 DEF LayoutTimer, Parts, TabOK
    <3>2. CASE Send(timer, TRUE)
      BY <3>1, <3>2, SendTyped
    <3>3. CASE UNCHANGED <<saves, committed>>
      BY <3>3 DEF Parts, SavesOK, TabOK
    <3>4. QED BY <1>2, <3>2, <3>3 DEF LayoutTimer
  <2>2. QED BY <1>2, <2>1 DEF LayoutTimer, canvas, Parts, PagesOK, CanvasOK, HistoryFits, TabOK
<1>3. QED BY <1>1, <1>2

(* The three ways in which a save goes on. *)
LEMMA SaveTyped ==
    ASSUME Parts, NEW s \in saves
    PROVE  /\ s \in Save /\ s.target \in Names /\ s.canvas \in Canvas
           /\ s.canvas.version \in Nat /\ s.canvas.ids \subseteq Widgets
           /\ Page(s.target) \in Canvas /\ Page(s.target).version \in Nat
           /\ NextVersion(s) \in Nat
<1>1. s \in Save /\ s.target \in Names /\ s.canvas \in Canvas
  BY DEF Parts, SavesOK, Save
<1>2. Page(s.target) \in Canvas
  BY <1>1, PageIsCanvas DEF Parts
<1>3. s.canvas.version \in Nat /\ s.canvas.ids \subseteq Widgets /\ Page(s.target).version \in Nat
  BY <1>1, <1>2, Bounds DEF Canvas
<1>4. NextVersion(s) \in Nat
  BY <1>3 DEF NextVersion
<1>5. QED BY <1>1, <1>2, <1>3, <1>4

LEMMA SaveDecidedTyped ==
    ASSUME Parts, NEW s \in saves, SaveDecided(s)
    PROVE  Parts'
<1>1. NextVersion(s) \in 0 .. MaxVersion
  BY SaveTyped, Bounds DEF SaveDecided
<1>2. PagesOK'
  <2>1. server' = Put(s)
    BY DEF SaveDecided
  <2>2. [s.canvas EXCEPT !.version = NextVersion(s)] \in Canvas
    BY <1>1, SaveTyped DEF Canvas
  <2>3. ASSUME NEW n \in Names, server[n] # None
        PROVE  [server[n] EXCEPT !.ids = @ \ s.canvas.ids] \in Canvas
    BY <2>3 DEF Parts, PagesOK, Canvas
  <2>4. Put(s) \in [Names -> Canvas \cup {None}]
    BY <2>2, <2>3 DEF Put
  <2>5. QED BY <2>1, <2>4 DEF PagesOK
<1>3. SavesOK'
  <2> DEFINE x == [s EXCEPT !.answer = NextVersion(s)]
             f == [t \in saves |-> IF t = s THEN x ELSE t]
  <2>1. x \in Save
    BY <1>1, SaveTyped DEF Save
  <2>2. saves' = (saves \ {s}) \cup {x}
    BY DEF SaveDecided
  <2> HIDE DEF x
  <2>3. f \in [saves -> Save] /\ saves' = {f[t] : t \in saves}
    BY <2>1, <2>2 DEF Parts, SavesOK
  <2> HIDE DEF f
  <2>4. QED BY <2>3, NoMoreSaves DEF Parts
<1>4. TabOK' /\ CanvasOK'
  <2>1. silent' \in BOOLEAN
    BY DEF SaveDecided, Parts, TabOK
  <2>2. QED BY <2>1 DEF SaveDecided, canvas, Parts, TabOK, CanvasOK, HistoryFits
<1>5. QED BY <1>2, <1>3, <1>4 DEF Parts

LEMMA SaveArrivesTyped ==
    ASSUME Parts, NEW s \in saves, SaveArrives(s)
    PROVE  Parts'
<1>1. s.answer \in 0 .. MaxVersion /\ s.target \in Names /\ s.canvas \in Canvas
  BY DEF Parts, SavesOK, Save, SaveArrives
<1>2. present' \in Canvas
  BY <1>1 DEF SaveArrives, Parts, CanvasOK, Canvas
<1>3. persistedIds' \in (SUBSET Widgets) \cup {None} /\ persistedContent' \in Contents
  BY <1>1 DEF SaveArrives, Canvas
<1>4. CanvasOK'
  BY <1>1, <1>2, <1>3 DEF SaveArrives, Parts, CanvasOK, HistoryFits
<1>5. SavesOK'
  <2> DEFINE T == saves \ {s}
             f == [t \in T |-> [t EXCEPT !.rewound = @ \/ present' # present]]
  <2>1. \A t \in T : [t EXCEPT !.rewound = @ \/ present' # present] \in Save
    BY DEF Parts, SavesOK, Save
  <2>2. T \in SUBSET saves /\ f \in [T -> Save] /\ saves' = {f[t] : t \in T}
    BY <2>1 DEF SaveArrives
  <2> HIDE DEF f, T
  <2>3. QED BY <2>2, NoMoreSaves DEF Parts
<1>6. name' \in Names \cup {None} /\ (load' = None \/ load' \in LoadRecord)
  BY <1>1, OpenEffect DEF SaveArrives
<1>7. dirty' \in BOOLEAN
  BY DEF SaveArrives, NewerEdit
<1>8. QED BY <1>4, <1>5, <1>6, <1>7 DEF SaveArrives, Parts, PagesOK, TabOK

LEMMA SaveFailsTyped ==
    ASSUME Parts, NEW s \in saves, SaveFails(s)
    PROVE  Parts'
<1>1. SavesOK'
  BY FewerSaves DEF SaveFails, Parts
<1>2. QED BY <1>1 DEF SaveFails, canvas, Parts, PagesOK, CanvasOK, HistoryFits, TabOK

LEMMA DeletingTyped ==
    ASSUME Parts, Delete \/ DeleteDecided \/ DeleteArrives
    PROVE  Parts'
<1>1. CASE Delete
  <2>1. deletion' \in DeletionRecord
    BY <1>1 DEF Delete, Stored, DeletionRecord
  <2>2. QED BY <1>1, <2>1 DEF Delete, canvas, Parts, PagesOK, CanvasOK, HistoryFits, SavesOK, TabOK
<1>2. CASE DeleteDecided
  <2>1. PagesOK' /\ silent' \in BOOLEAN
    BY <1>2 DEF DeleteDecided, Parts, PagesOK
  <2>2. deletion' \in DeletionRecord
    <3>1. deletion \in DeletionRecord
      BY <1>2 DEF DeleteDecided, Parts, TabOK
    <3>2. PICK next \in Names \cup {None} :
             deletion' = [deletion EXCEPT !.next = next, !.done = TRUE]
      BY <1>2 DEF DeleteDecided, Stored
    <3>3. QED BY <3>1, <3>2 DEF DeletionRecord
  <2>3. QED BY <1>2, <2>1, <2>2 DEF DeleteDecided, canvas, Parts, CanvasOK, HistoryFits, SavesOK, TabOK
<1>3. CASE DeleteArrives
  <2>1. deletion.next \in Names \cup {None}
    BY <1>3 DEF DeleteArrives, Parts, TabOK, DeletionRecord
  <2>2. name' \in Names \cup {None} /\ (load' = None \/ load' \in LoadRecord)
    BY <1>3, <2>1, OpenEffect DEF DeleteArrives
  <2>3. CanvasOK' /\ SavesOK'
    <3>1. CASE UNCHANGED <<canvas, saves>>
      BY <3>1 DEF canvas, Parts, CanvasOK, HistoryFits, SavesOK
    <3>2. CASE Loaded(Empty, None, None)
      BY <3>2, BlankEffect
    <3>3. QED BY <1>3, <3>1, <3>2 DEF DeleteArrives
  <2>4. QED BY <1>3, <2>2, <2>3 DEF DeleteArrives, Parts, PagesOK, TabOK
<1>4. QED BY <1>1, <1>2, <1>3

LEMMA StillParts ==
    ASSUME Parts, UNCHANGED evars
    PROVE  Parts'
  BY DEF evars, canvas, Parts, PagesOK, CanvasOK, HistoryFits, SavesOK, TabOK

LEMMA TypeStep == TypeInv /\ [EditorNext]_evars => TypeInv'
<1> SUFFICES ASSUME TypeInv, [EditorNext]_evars PROVE TypeInv'
  OBVIOUS
<1>1. Parts /\ acts \in 0 .. MaxActs
  BY DEF TypeInv
<1>2. CASE User
  <2>1. Parts'
    BY <1>1, <1>2, EditsTyped, UndoTyped, RedoTyped, OpeningTyped, SendingTyped, DeletingTyped
       DEF User
  <2>2. acts' \in 0 .. MaxActs
    BY <1>1, <1>2, EditorAssumption DEF User
  <2>3. QED BY <2>1, <2>2 DEF TypeInv
<1>3. CASE Network
  <2>1. Parts'
    BY <1>1, <1>3, SendingTyped, OpeningTyped, SaveDecidedTyped, SaveArrivesTyped, SaveFailsTyped,
       DeletingTyped DEF Network
  <2>2. acts' \in 0 .. MaxActs
    BY <1>1, <1>3 DEF Network
  <2>3. QED BY <2>1, <2>2 DEF TypeInv
<1>4. CASE UNCHANGED evars
  <2>1. acts' = acts
    BY <1>4 DEF evars
  <2>2. Parts'
    BY <1>1, <1>4, StillParts
  <2>3. QED BY <1>1, <2>1, <2>2 DEF TypeInv
<1>5. QED BY <1>2, <1>3, <1>4 DEF EditorNext

(* The types hold in every state, and an undo or a redo never makes the     *)
(* history longer than MAX_HISTORY.                                         *)
THEOREM EditorTypes == EditorSpec => []EditorTypeOK
<1>1. EditorSpec => []TypeInv
  BY EditorStarts, TypeStep, PTL DEF EditorSpec
<1>2. QED BY <1>1, TypesOK, PTL

-----------------------------------------------------------------------------
(* What a version tells of a canvas.                                       *)

LEMMA RewoundGrown ==
    ASSUME Parts, Rewind
    PROVE  GrownInv'
  BY RewindEffect DEF Parts, GrownInv

LEMMA QuietGrown ==
    ASSUME GrownInv, saves' \subseteq saves, present' = present
    PROVE  GrownInv'
  BY DEF GrownInv, Behind, SameContent

LEMMA AppliedGrown ==
    ASSUME Parts, GrownInv, NEW ids, NEW l, NEW t, Apply(ids, l, t)
    PROVE  GrownInv'
<1>1. present.version \in Nat /\ present'.version = present.version + 1 /\ saves' = saves
  BY Bounds DEF Parts, CanvasOK, Canvas, Apply
<1>2. ASSUME NEW s \in saves, Behind(s) PROVE Behind(s)'
  BY <1>1, <1>2, SaveTyped DEF Behind
<1>3. QED BY <1>1, <1>2 DEF GrownInv

LEMMA SentGrown ==
    ASSUME Parts, GrownInv, NEW n \in Names, NEW auto \in BOOLEAN, Send(n, auto), present' = present
    PROVE  GrownInv'
<1>1. saves' = saves \cup {Sent(n, auto)} /\ Sent(n, auto).canvas = present
  BY SendTyped DEF Sent
<1>2. present.version \in Nat
  BY Bounds DEF Parts, CanvasOK, Canvas
<1>3. ASSUME NEW s \in saves' PROVE s.rewound \/ Behind(s)'
  <2>1. CASE s = Sent(n, auto)
    BY <1>1, <1>2, <2>1 DEF Behind, SameContent
  <2>2. CASE s \in saves
    BY <2>2 DEF GrownInv, Behind, SameContent
  <2>3. QED BY <1>1, <2>1, <2>2
<1>4. QED BY <1>3 DEF GrownInv

LEMMA UserGrown ==
    ASSUME Parts, GrownInv, User
    PROVE  GrownInv'
<1>1. CASE (\E l \in Layouts : Move(l)) \/ \E c \in Contents : Edit(c)
  BY <1>1, AppliedGrown DEF Move, Edit
<1>2. CASE \E w \in Widgets : Add(w) \/ Remove(w)
  BY <1>2, AppliedGrown DEF Add, Remove
<1>3. CASE Undo \/ Redo
  BY <1>3, RewoundGrown DEF Undo, Redo
<1>4. CASE \E n \in Names : SwitchTo(n)
  BY <1>4, QuietGrown DEF SwitchTo, canvas
<1>5. CASE \E n \in Names : NewPage(n)
  BY <1>5, RewoundGrown DEF NewPage, Loaded
<1>6. CASE \E n \in Names : SaveNow(n)
  BY <1>6, SentGrown DEF SaveNow, canvas
<1>7. CASE AskTemplate \/ Delete
  BY <1>7, QuietGrown DEF AskTemplate, Delete, canvas
<1>8. QED BY <1>1, <1>2, <1>3, <1>4, <1>5, <1>6, <1>7 DEF User

LEMMA NetworkGrown ==
    ASSUME Parts, GrownInv, Network
    PROVE  GrownInv'
<1>1. CASE LayoutTimer
  <2>1. timer \in Names /\ present' = present
    BY <1>1 DEF LayoutTimer, canvas, Parts, TabOK
  <2>2. CASE Send(timer, TRUE)
    BY <2>1, <2>2, SentGrown
  <2>3. CASE UNCHANGED <<saves, committed>>
    BY <2>1, <2>3, QuietGrown
  <2>4. QED BY <1>1, <2>2, <2>3 DEF LayoutTimer
<1>2. CASE LoadAnswered
  BY <1>2, QuietGrown DEF LoadAnswered, canvas
<1>3. CASE LoadArrives \/ LoadFails \/ TemplateArrives
  BY <1>3, RewoundGrown DEF LoadArrives, LoadFails, TemplateArrives, Loaded
<1>4. ASSUME NEW s \in saves, SaveDecided(s) PROVE GrownInv'
  <2>1. s \in Save
    BY SaveTyped
  <2> DEFINE x == [s EXCEPT !.answer = NextVersion(s)]
  <2>2. x.canvas = s.canvas /\ x.rewound = s.rewound
    BY <2>1 DEF Save
  <2>3. saves' = (saves \ {s}) \cup {x} /\ present' = present
    BY <1>4 DEF SaveDecided, canvas
  <2> HIDE DEF x
  <2>4. QED BY <2>2, <2>3 DEF GrownInv, Behind, SameContent
<1>5. ASSUME NEW s \in saves, SaveArrives(s) PROVE GrownInv'
  <2> SUFFICES ASSUME NEW t \in saves', ~t.rewound PROVE Behind(t)'
    BY DEF GrownInv
  <2>1. PICK u \in saves : t = [u EXCEPT !.rewound = @ \/ present' # present]
    BY <1>5 DEF SaveArrives
  <2>2. ~u.rewound /\ present' = present /\ t.canvas = u.canvas
    BY <2>1, SaveTyped DEF Save
  <2>3. QED BY <2>2 DEF GrownInv, Behind, SameContent
<1>6. ASSUME NEW s \in saves, SaveFails(s) PROVE GrownInv'
  BY <1>6, QuietGrown DEF SaveFails, canvas
<1>7. CASE DeleteDecided
  BY <1>7, QuietGrown DEF DeleteDecided, canvas
<1>8. CASE DeleteArrives
  BY <1>8, QuietGrown, RewoundGrown DEF DeleteArrives, canvas, Loaded
<1>9. QED BY <1>1, <1>2, <1>3, <1>4, <1>5, <1>6, <1>7, <1>8 DEF Network

-----------------------------------------------------------------------------
(* What is there by hand.                                                  *)

(* A save goes on with the same canvas. *)
SavesKept == \A t \in saves' : \E s \in saves : SameSave(t, s)
LoadKept == load' = load \/ load' = None \/ load'.got = None

LEMMA QuietCommitted ==
    ASSUME CommittedInv, UNCHANGED <<server, committed, persistedIds>>,
           saves' = saves \/ SavesKept, LoadKept
    PROVE  CommittedInv'
<1>1. \A t \in saves' : t.canvas.ids \subseteq committed'
  BY DEF CommittedInv, SavesKept, SameSave
<1>2. QED BY <1>1, Zenon DEF CommittedInv, Stored, LoadKept

(* What a step loads: nothing, or what the server has answered. *)
LoadsThat(c, ids, n) ==
    \/ ids = None
    \/ load # None /\ load.got # None /\ c = load.got /\ ids = load.got.ids /\ n = load.of

LEMMA LoadedCommitted ==
    ASSUME Parts, CommittedInv, UNCHANGED <<server, committed>>, LoadKept,
           NEW c, NEW ids, NEW n, Loaded(c, ids, n), LoadsThat(c, ids, n)
    PROVE  CommittedInv'
<1>1. \A t \in saves' : t.canvas.ids \subseteq committed'
  BY RewindEffect DEF Parts, Loaded, CommittedInv, SameSave
<1>2. persistedIds' # None => persistedIds' \subseteq committed'
  BY DEF Loaded, CommittedInv, LoadsThat
<1>3. QED BY <1>1, <1>2, Zenon DEF CommittedInv, Stored, LoadKept

LEMMA SentCommitted ==
    ASSUME Parts, CommittedInv, NEW n \in Names, NEW auto \in BOOLEAN, Send(n, auto),
           auto => PureMove, UNCHANGED <<server, canvas, load>>
    PROVE  CommittedInv'
<1>1. saves' = saves \cup {Sent(n, auto)} /\ Sent(n, auto).canvas = present
  BY SendTyped DEF Sent
<1>2. committed \subseteq committed' /\ present.ids \subseteq committed'
  BY DEF Send, PureMove, CommittedInv
<1>3. \A t \in saves' : t.canvas.ids \subseteq committed'
  BY <1>1, <1>2 DEF CommittedInv
<1>4. QED BY <1>2, <1>3 DEF CommittedInv, Stored, canvas

LEMMA OpenKeepsLoad ==
    ASSUME Parts, NEW n \in Names \cup {None}, Open(n)
    PROVE  LoadKept
  BY OpenEffect DEF LoadKept

LEMMA RewindKeeps ==
    ASSUME Parts, Rewind
    PROVE  SavesKept
  BY RewindEffect DEF Parts, SavesKept

LEMMA UserCommitted ==
    ASSUME Parts, CommittedInv, User
    PROVE  CommittedInv'
<1>1. CASE \/ (\E l \in Layouts : Move(l)) \/ \E c \in Contents : Edit(c)
           \/ \E w \in Widgets : Add(w) \/ Remove(w)
  <2>1. PICK ids, l, t : Apply(ids, l, t)
    BY <1>1 DEF Move, Edit, Add, Remove
  <2>2. QED BY <2>1, QuietCommitted DEF Apply, LoadKept
<1>2. CASE Undo \/ Redo
  BY <1>2, RewindKeeps, QuietCommitted DEF Undo, Redo, LoadKept
<1>3. ASSUME NEW n \in Names, SwitchTo(n) PROVE CommittedInv'
  BY <1>3, OpenKeepsLoad, QuietCommitted DEF SwitchTo, canvas
<1>4. ASSUME NEW n \in Names, NewPage(n) PROVE CommittedInv'
  BY <1>4, OpenKeepsLoad, LoadedCommitted DEF NewPage, LoadsThat
<1>5. ASSUME NEW n \in Names, SaveNow(n) PROVE CommittedInv'
  BY <1>5, SentCommitted DEF SaveNow
<1>6. CASE AskTemplate \/ Delete
  BY <1>6, QuietCommitted DEF AskTemplate, Delete, canvas, LoadKept
<1>7. QED BY <1>1, <1>2, <1>3, <1>4, <1>5, <1>6 DEF User

LEMMA NetworkCommitted ==
    ASSUME Parts, CommittedInv, Network
    PROVE  CommittedInv'
<1>1. CASE LayoutTimer
  <2>1. timer \in Names /\ UNCHANGED <<server, canvas, load>>
    BY <1>1 DEF LayoutTimer, Parts, TabOK
  <2>2. CASE LayoutSaveDue /\ Send(timer, TRUE)
    BY <2>1, <2>2, SentCommitted DEF LayoutSaveDue
  <2>3. CASE UNCHANGED <<saves, committed>>
    BY <2>1, <2>3, QuietCommitted DEF canvas, LoadKept
  <2>4. QED BY <1>1, <2>2, <2>3 DEF LayoutTimer
<1>2. CASE LoadAnswered
  <2>1. load \in LoadRecord /\ load' = [load EXCEPT !.got = Page(load.of)]
    BY <1>2 DEF LoadAnswered, Parts, TabOK
  <2>2. load'.got = Page(load.of) /\ load.of \in Names
    BY <2>1 DEF LoadRecord
  <2>3. Page(load.of).ids \subseteq committed
    BY <2>2, EmptyCanvas DEF Page, Stored, CommittedInv
  <2>4. QED BY <1>2, <2>2, <2>3 DEF LoadAnswered, canvas, CommittedInv, Stored
<1>3. CASE LoadArrives
  BY <1>3, LoadedCommitted DEF LoadArrives, LoadsThat, LoadKept
<1>4. CASE LoadFails
  BY <1>4, LoadedCommitted DEF LoadFails, LoadsThat, LoadKept
<1>5. CASE TemplateArrives
  BY <1>5, OpenKeepsLoad, LoadedCommitted DEF TemplateArrives, LoadsThat
<1>6. ASSUME NEW s \in saves, SaveDecided(s) PROVE CommittedInv'
  <2>1. server' = Put(s) /\ s.canvas.ids \subseteq committed /\ committed' = committed
    BY <1>6 DEF SaveDecided, CommittedInv
  <2>2. ASSUME NEW n \in Names, server'[n] # None PROVE server'[n].ids \subseteq committed
    <3>1. CASE n = s.target
      <4>1. server'[n].ids = s.canvas.ids
        BY <2>1, <3>1, SaveTyped DEF Put, Canvas
      <4>2. QED BY <2>1, <4>1
    <3>2. CASE n # s.target
      <4>1. server[n] # None /\ server'[n] = [server[n] EXCEPT !.ids = @ \ s.canvas.ids]
        BY <2>1, <2>2, <3>2 DEF Put
      <4>2. server'[n].ids = server[n].ids \ s.canvas.ids
        BY <4>1 DEF Parts, PagesOK, Canvas
      <4>3. QED BY <4>1, <4>2 DEF CommittedInv, Stored
    <3>3. QED BY <3>1, <3>2
  <2>3. ASSUME NEW t \in saves' PROVE t.canvas.ids \subseteq committed
    <3>1. [s EXCEPT !.answer = NextVersion(s)].canvas = s.canvas
      BY SaveTyped DEF Save
    <3>2. QED BY <1>6, <3>1 DEF SaveDecided, CommittedInv
  <2>4. UNCHANGED <<load, persistedIds, committed>>
    BY <1>6 DEF SaveDecided, canvas
  <2>5. QED BY <2>2, <2>3, <2>4 DEF CommittedInv, Stored
<1>7. ASSUME NEW s \in saves, SaveArrives(s) PROVE CommittedInv'
  <2>1. LoadKept
    BY <1>7, SaveTyped, OpenKeepsLoad DEF SaveArrives
  <2>2. persistedIds' = s.canvas.ids /\ s.canvas.ids \subseteq committed
        /\ UNCHANGED <<server, committed>>
    BY <1>7 DEF SaveArrives, CommittedInv
  <2>3. ASSUME NEW t \in saves' PROVE t.canvas.ids \subseteq committed'
    <3>1. PICK u \in saves : t = [u EXCEPT !.rewound = @ \/ present' # present]
      BY <1>7 DEF SaveArrives
    <3>2. t.canvas = u.canvas
      BY <3>1, SaveTyped DEF Save
    <3>3. QED BY <2>2, <3>2 DEF CommittedInv
  <2>4. QED BY <2>1, <2>2, <2>3 DEF CommittedInv, Stored, LoadKept
<1>8. ASSUME NEW s \in saves, SaveFails(s) PROVE CommittedInv'
  <2>1. SavesKept
    BY <1>8 DEF SaveFails, SavesKept, SameSave
  <2>2. QED BY <1>8, <2>1, QuietCommitted DEF SaveFails, canvas, LoadKept
<1>9. CASE DeleteDecided
  <2>1. \A n \in Names : server'[n] = server[n] \/ server'[n] = None
    BY <1>9 DEF DeleteDecided, Parts, PagesOK
  <2>2. QED BY <1>9, <2>1 DEF DeleteDecided, canvas, CommittedInv, Stored
<1>10. CASE DeleteArrives
  <2>1. deletion.next \in Names \cup {None} /\ UNCHANGED <<server, committed>>
    BY <1>10 DEF DeleteArrives, Parts, TabOK, DeletionRecord
  <2>2. LoadKept
    BY <1>10, <2>1, OpenKeepsLoad DEF DeleteArrives
  <2>3. CASE UNCHANGED <<canvas, saves>>
    BY <2>1, <2>2, <2>3, QuietCommitted DEF canvas
  <2>4. CASE Loaded(Empty, None, None)
    BY <2>1, <2>2, <2>4, LoadedCommitted DEF LoadsThat
  <2>5. QED BY <1>10, <2>3, <2>4 DEF DeleteArrives
<1>11. QED BY <1>1, <1>2, <1>3, <1>4, <1>5, <1>6, <1>7, <1>8, <1>9, <1>10 DEF Network

-----------------------------------------------------------------------------
(* What the version of a page tells.                                       *)

LEMMA SnapshotStands ==
    ASSUME UNCHANGED server, NEW n, NEW v, NEW ids, NEW t, Snapshot(n, v, ids, t)
    PROVE  Snapshot(n, v, ids, t)'
  BY DEF Snapshot, Page, Stored

LEMMA DisjointStands ==
    ASSUME Disjoint, UNCHANGED server
    PROVE  Disjoint'
  BY DEF Disjoint, Stored

LEMMA SavesStand ==
    ASSUME \A s \in saves : SnapshotOfSave(s), UNCHANGED server, saves' = saves \/ SavesKept
    PROVE  (\A s \in saves : SnapshotOfSave(s))'
<1> SUFFICES ASSUME NEW t \in saves' PROVE SnapshotOfSave(t)'
  OBVIOUS
<1>1. PICK s \in saves : SameSave(t, s)
  BY DEF SavesKept, SameSave
<1>2. SnapshotOfSave(s)'
  BY <1>1, SnapshotStands DEF SnapshotOfSave, OwnBase
<1>3. QED BY <1>1, <1>2 DEF SameSave, SnapshotOfSave, OwnBase

LEMMA LoadStands ==
    ASSUME SnapshotOfLoad, UNCHANGED server, LoadKept
    PROVE  SnapshotOfLoad'
<1>1. CASE load' = load
  BY <1>1, SnapshotStands DEF SnapshotOfLoad
<1>2. CASE load' = None \/ load'.got = None
  BY <1>2 DEF SnapshotOfLoad
<1>3. QED BY <1>1, <1>2 DEF LoadKept

LEMMA QuietSnapshot ==
    ASSUME SnapshotInv, UNCHANGED <<server, silent>>,
           UNCHANGED <<origin, persistedIds, persistedVersion, persistedContent>>,
           saves' = saves \/ SavesKept, LoadKept
    PROVE  SnapshotInv'
<1>1. SnapshotOfTab => SnapshotOfTab'
  BY SnapshotStands DEF SnapshotOfTab
<1>2. QED BY <1>1, DisjointStands, SavesStand, LoadStands DEF SnapshotInv

LEMMA LoadedSnapshot ==
    ASSUME Parts, SnapshotInv, UNCHANGED <<server, silent>>, LoadKept,
           NEW c, NEW ids, NEW n, Loaded(c, ids, n), LoadsThat(c, ids, n)
    PROVE  SnapshotInv'
<1>1. SavesKept
  BY RewindKeeps DEF Loaded
<1>2. SnapshotOfLoad => SnapshotOfTab'
  <2> SUFFICES ASSUME SnapshotOfLoad, ids # None
               PROVE  Snapshot(origin, persistedVersion, persistedIds, persistedContent)'
    BY DEF SnapshotOfTab, Loaded
  <2>1. Snapshot(n, c.version, ids, c.content)'
    BY SnapshotStands DEF SnapshotOfLoad, LoadsThat
  <2>2. /\ origin' = n /\ persistedVersion' = c.version /\ persistedIds' = ids
        /\ persistedContent' = c.content
    BY DEF Loaded
  <2>3. QED BY <2>1, <2>2 DEF Snapshot
<1>3. QED BY <1>1, <1>2, DisjointStands, SavesStand, LoadStands DEF SnapshotInv

LEMMA SentSnapshot ==
    ASSUME Parts, SnapshotInv, NEW n \in Names, NEW auto \in BOOLEAN, Send(n, auto),
           auto => PureMove, UNCHANGED <<server, silent, canvas, load>>
    PROVE  SnapshotInv'
<1>1. UNCHANGED <<origin, persistedIds, persistedVersion, persistedContent>> /\ LoadKept
  BY DEF canvas, LoadKept
<1>2. ASSUME SnapshotOfTab, \A s \in saves : SnapshotOfSave(s), NEW t \in saves'
      PROVE  SnapshotOfSave(t)'
  <2>1. CASE t \in saves
    BY <1>2, <2>1, SnapshotStands DEF SnapshotOfSave, OwnBase
  <2>2. CASE t = Sent(n, auto)
    <3>1. /\ t.target = n /\ t.base = persistedVersion /\ t.canvas = present /\ t.auto = auto
          /\ t.for = origin /\ t.was = persistedContent /\ t.answer = None
      BY <2>2 DEF Sent
    <3>2. ASSUME auto, origin = n
          PROVE  Snapshot(n, persistedVersion, present.ids, persistedContent)
      BY <1>2, <3>2, Bounds DEF SnapshotOfTab, PureMove
    <3>3. ASSUME OwnBase(t) PROVE Snapshot(t.target, t.base, t.canvas.ids, t.was)
      BY <3>1, <3>2, <3>3 DEF OwnBase
    <3>4. QED BY <3>1, <3>3, SnapshotStands DEF SnapshotOfSave, OwnBase
  <2>3. QED BY <2>1, <2>2, SendTyped
<1>3. SnapshotOfTab => SnapshotOfTab'
  BY <1>1, SnapshotStands DEF SnapshotOfTab
<1>4. QED BY <1>1, <1>2, <1>3, DisjointStands, LoadStands DEF SnapshotInv

(* The server decides a save that takes no widget of another page. *)
LEMMA PutEffect ==
    ASSUME Parts, NEW s \in saves, SaveDecided(s), NEW n \in Names
    PROVE  /\ n = s.target => /\ n \in Stored' /\ server'[n].ids = s.canvas.ids
                              /\ Page(n)'.version = NextVersion(s) /\ Page(n)'.ids = s.canvas.ids
                              /\ Page(n)'.content = s.canvas.content
           /\ n # s.target => /\ n \in Stored' <=> n \in Stored
                              /\ n \in Stored => /\ server'[n].ids = server[n].ids \ s.canvas.ids
                                                 /\ server'[n].version = server[n].version
                                                 /\ server'[n].content = server[n].content
<1>1. server' = Put(s)
  BY DEF SaveDecided
<1>2. CASE n = s.target
  <2>1. server'[n] = [s.canvas EXCEPT !.version = NextVersion(s)]
    BY <1>1, <1>2 DEF Put
  <2>2. /\ server'[n].ids = s.canvas.ids /\ server'[n].version = NextVersion(s)
        /\ server'[n].content = s.canvas.content
    BY <2>1, SaveTyped DEF Canvas
  <2>3. server'[n] \in Canvas
    BY <2>1, <2>2, SaveTyped, SaveDecidedTyped, Bounds DEF Canvas, SaveDecided
  <2>4. server'[n] # None
    BY <2>3, Bounds
  <2>5. QED BY <1>2, <2>2, <2>4 DEF Stored, Page
<1>3. CASE n # s.target
  <2>1. server'[n] = IF server[n] = None THEN None
                     ELSE [server[n] EXCEPT !.ids = @ \ s.canvas.ids]
    BY <1>1, <1>3 DEF Put
  <2>2. CASE server[n] = None
    BY <1>3, <2>1, <2>2 DEF Stored
  <2>3. CASE server[n] # None
    <3>1. server[n] \in Canvas
      BY <2>3 DEF Parts, PagesOK
    <3>2. /\ server'[n].ids = server[n].ids \ s.canvas.ids
          /\ server'[n].version = server[n].version /\ server'[n].content = server[n].content
      BY <2>1, <2>3, <3>1 DEF Canvas
    <3>3. server'[n] \in Canvas
      BY <2>1, <2>3, <3>1 DEF Canvas
    <3>4. server'[n] # None
      BY <3>3, Bounds
    <3>5. QED BY <1>3, <2>3, <3>2, <3>4 DEF Stored
  <2>4. QED BY <2>2, <2>3
<1>4. QED BY <1>2, <1>3

LEMMA PutKeepsDisjoint ==
    ASSUME Parts, Disjoint, NEW s \in saves, SaveDecided(s)
    PROVE  Disjoint'
<1> SUFFICES ASSUME NEW m \in Stored', NEW n \in Stored', m # n
             PROVE  server'[m].ids \cap server'[n].ids = {}
  BY DEF Disjoint
<1>1. m \in Names /\ n \in Names
  BY DEF Stored
<1>2. CASE m = s.target
  BY <1>1, <1>2, PutEffect
<1>3. CASE n = s.target
  BY <1>1, <1>3, PutEffect
<1>4. CASE m # s.target /\ n # s.target
  BY <1>1, <1>4, PutEffect DEF Disjoint
<1>5. QED BY <1>2, <1>3, <1>4

LEMMA PutKeepsSnapshots ==
    ASSUME Parts, NEW s \in saves, SaveDecided(s), ~silent',
           NEW n \in Names, NEW v \in Nat, NEW ids, NEW t, Snapshot(n, v, ids, t)
    PROVE  Snapshot(n, v, ids, t)'
<1>1. CASE n = s.target
  <2>1. /\ n \in Stored' /\ Page(n)'.version = NextVersion(s) /\ Page(n)'.ids = s.canvas.ids
        /\ Page(n)'.content = s.canvas.content
    BY <1>1, PutEffect
  <2>2. Page(n).version \in Nat /\ v <= Page(n).version
    BY <1>1, SaveTyped DEF Snapshot
  <2>3. CASE Changes(s)
    BY <1>1, <2>1, <2>2, <2>3 DEF Snapshot, NextVersion
  <2>4. CASE ~Changes(s)
    <3>1. /\ n \in Stored /\ NextVersion(s) = Page(n).version
          /\ s.canvas.ids = Page(n).ids /\ s.canvas.content = Page(n).content
      BY <1>1, <2>2, <2>4 DEF Changes, SameContent, NextVersion
    <3>2. QED BY <2>1, <2>2, <3>1 DEF Snapshot
  <2>5. QED BY <2>3, <2>4
<1>2. CASE n # s.target
  <2>1. CASE n \in Stored
    <3>1. Page(n) = server[n] /\ Page(n)' = server'[n] /\ n \in Stored'
      BY <1>2, <2>1, PutEffect DEF Page, Stored
    <3>2. server[n].ids \cap s.canvas.ids = {}
      BY <1>2, <2>1, <3>1 DEF SaveDecided
    <3>3. /\ server'[n].ids = server[n].ids /\ server'[n].version = server[n].version
          /\ server'[n].content = server[n].content
      BY <1>2, <2>1, <3>2, PutEffect
    <3>4. QED BY <2>1, <3>1, <3>3 DEF Snapshot
  <2>2. CASE n \notin Stored
    <3>1. n \notin Stored' /\ Page(n) = Empty /\ Page(n)' = Empty
      BY <1>2, <2>2, PutEffect DEF Page, Stored
    <3>2. QED BY <2>2, <3>1 DEF Snapshot
  <2>3. QED BY <2>1, <2>2
<1>3. QED BY <1>1, <1>2

LEMMA UserSnapshot ==
    ASSUME Parts, SnapshotInv, User
    PROVE  SnapshotInv'
<1>1. CASE \/ (\E l \in Layouts : Move(l)) \/ \E c \in Contents : Edit(c)
           \/ \E w \in Widgets : Add(w) \/ Remove(w)
  <2>1. PICK ids, l, t : Apply(ids, l, t)
    BY <1>1 DEF Move, Edit, Add, Remove
  <2>2. QED BY <2>1, QuietSnapshot DEF Apply, LoadKept
<1>2. CASE Undo \/ Redo
  BY <1>2, RewindKeeps, QuietSnapshot DEF Undo, Redo, LoadKept
<1>3. ASSUME NEW n \in Names, SwitchTo(n) PROVE SnapshotInv'
  BY <1>3, OpenKeepsLoad, QuietSnapshot DEF SwitchTo, canvas
<1>4. ASSUME NEW n \in Names, NewPage(n) PROVE SnapshotInv'
  BY <1>4, OpenKeepsLoad, LoadedSnapshot DEF NewPage, LoadsThat
<1>5. ASSUME NEW n \in Names, SaveNow(n) PROVE SnapshotInv'
  BY <1>5, SentSnapshot DEF SaveNow
<1>6. CASE AskTemplate \/ Delete
  BY <1>6, QuietSnapshot DEF AskTemplate, Delete, canvas, LoadKept
<1>7. QED BY <1>1, <1>2, <1>3, <1>4, <1>5, <1>6 DEF User

LEMMA SaveDecidedSnapshot ==
    ASSUME Parts, SnapshotInv, NEW s \in saves, SaveDecided(s)
    PROVE  SnapshotInv'
<1>1. Disjoint'
  BY PutKeepsDisjoint DEF SnapshotInv
<1>2. SUFFICES ASSUME ~silent'
               PROVE  SnapshotOfTab' /\ SnapshotOfLoad' /\ \A t \in saves' : SnapshotOfSave(t)'
  BY <1>1 DEF SnapshotInv
<1>3. SnapshotOfTab /\ SnapshotOfLoad /\ \A t \in saves : SnapshotOfSave(t)
  BY <1>2 DEF SaveDecided, SnapshotInv
<1>4. SnapshotOfTab'
  <2>1. /\ persistedVersion \in Nat
        /\ UNCHANGED <<persistedVersion, persistedIds, persistedContent, origin>>
    BY Bounds DEF SaveDecided, canvas, Parts, CanvasOK
  <2>2. origin # None => origin \in Names
    BY DEF Parts, CanvasOK
  <2>3. QED BY <1>2, <1>3, <2>1, <2>2, PutKeepsSnapshots DEF SnapshotOfTab
<1>5. SnapshotOfLoad'
  <2>1. UNCHANGED load
    BY DEF SaveDecided
  <2>2. load # None /\ load.got # None => load.of \in Names /\ load.got.version \in Nat
    BY Bounds DEF Parts, TabOK, LoadRecord, Canvas
  <2>3. QED BY <1>2, <1>3, <2>1, <2>2, PutKeepsSnapshots DEF SnapshotOfLoad
<1>6. ASSUME NEW t \in saves PROVE SnapshotOfSave(t)'
  <2>1. t.target \in Names /\ t.base \in Nat /\ (t.answer # None => t.answer \in Nat)
    BY Bounds DEF Parts, SavesOK, Save
  <2>2. QED BY <1>2, <1>3, <2>1, PutKeepsSnapshots DEF SnapshotOfSave, OwnBase
<1>7. ASSUME NEW t, t = [s EXCEPT !.answer = NextVersion(s)] PROVE SnapshotOfSave(t)'
  <2>1. /\ t.target = s.target /\ t.canvas = s.canvas /\ t.base = s.base /\ t.auto = s.auto
        /\ t.for = s.for /\ t.was = s.was /\ t.answer = NextVersion(s)
    BY <1>7, SaveTyped DEF Save
  <2>2. OwnBase(t) => Snapshot(t.target, t.base, t.canvas.ids, t.was)'
    BY <1>6, <2>1 DEF SnapshotOfSave, OwnBase
  <2>3. Snapshot(t.target, t.answer, t.canvas.ids, t.canvas.content)'
    BY <2>1, SaveTyped, PutEffect DEF Snapshot
  <2>4. QED BY <2>2, <2>3 DEF SnapshotOfSave, OwnBase
<1>8. QED BY <1>4, <1>5, <1>6, <1>7 DEF SaveDecided

LEMMA SaveArrivesSnapshot ==
    ASSUME Parts, SnapshotInv, NEW s \in saves, SaveArrives(s)
    PROVE  SnapshotInv'
<1>1. UNCHANGED <<server, silent>> /\ LoadKept
  BY SaveTyped, OpenKeepsLoad DEF SaveArrives
<1>2. SavesKept
  <2> SUFFICES ASSUME NEW t \in saves' PROVE \E u \in saves : SameSave(t, u)
    BY DEF SavesKept
  <2>1. PICK u \in saves : t = [u EXCEPT !.rewound = @ \/ present' # present]
    BY DEF SaveArrives
  <2>2. SameSave(t, u)
    BY <2>1, SaveTyped DEF Save, SameSave
  <2>3. QED BY <2>2
<1>3. SnapshotOfSave(s) => SnapshotOfTab'
  <2> SUFFICES ASSUME SnapshotOfSave(s)
               PROVE  Snapshot(origin, persistedVersion, persistedIds, persistedContent)'
    BY DEF SnapshotOfTab
  <2>1. Snapshot(s.target, s.answer, s.canvas.ids, s.canvas.content)'
    BY <1>1, SnapshotStands DEF SaveArrives, SnapshotOfSave
  <2>2. /\ origin' = s.target /\ persistedVersion' = s.answer /\ persistedIds' = s.canvas.ids
        /\ persistedContent' = s.canvas.content
    BY DEF SaveArrives
  <2>3. QED BY <2>1, <2>2 DEF Snapshot
<1>4. QED BY <1>1, <1>2, <1>3, DisjointStands, SavesStand, LoadStands DEF SnapshotInv

LEMMA NetworkSnapshot ==
    ASSUME Parts, SnapshotInv, Network
    PROVE  SnapshotInv'
<1>1. CASE LayoutTimer
  <2>1. timer \in Names /\ UNCHANGED <<server, silent, canvas, load>>
    BY <1>1 DEF LayoutTimer, Parts, TabOK
  <2>2. CASE LayoutSaveDue /\ Send(timer, TRUE)
    BY <2>1, <2>2, SentSnapshot DEF LayoutSaveDue
  <2>3. CASE UNCHANGED <<saves, committed>>
    BY <2>1, <2>3, QuietSnapshot DEF canvas, LoadKept
  <2>4. QED BY <1>1, <2>2, <2>3 DEF LayoutTimer
<1>2. CASE LoadAnswered
  <2>1. load \in LoadRecord /\ load' = [load EXCEPT !.got = Page(load.of)]
    BY <1>2 DEF LoadAnswered, Parts, TabOK
  <2>2. load'.got = Page(load.of) /\ load'.of = load.of /\ load.of \in Names
    BY <2>1 DEF LoadRecord
  <2>3. Page(load.of).version \in Nat
    BY <2>2, PageIsCanvas, Bounds DEF Parts, Canvas
  <2>4. SnapshotOfLoad'
    BY <1>2, <2>2, <2>3 DEF LoadAnswered, SnapshotOfLoad, Snapshot, Page, Stored
  <2>5. SnapshotOfTab => SnapshotOfTab'
    BY <1>2, SnapshotStands DEF LoadAnswered, canvas, SnapshotOfTab
  <2>6. QED BY <1>2, <2>4, <2>5, DisjointStands, SavesStand DEF LoadAnswered, SnapshotInv
<1>3. CASE LoadArrives
  BY <1>3, LoadedSnapshot DEF LoadArrives, LoadsThat, LoadKept
<1>4. CASE LoadFails
  BY <1>4, LoadedSnapshot DEF LoadFails, LoadsThat, LoadKept
<1>5. CASE TemplateArrives
  BY <1>5, OpenKeepsLoad, LoadedSnapshot DEF TemplateArrives, LoadsThat
<1>6. ASSUME NEW s \in saves, SaveFails(s) PROVE SnapshotInv'
  <2>1. SavesKept
    BY <1>6 DEF SaveFails, SavesKept, SameSave
  <2>2. QED BY <1>6, <2>1, QuietSnapshot DEF SaveFails, canvas, LoadKept
<1>7. CASE DeleteDecided
  <2>1. silent' /\ \A n \in Names : server'[n] = server[n] \/ server'[n] = None
    BY <1>7 DEF DeleteDecided, Parts, PagesOK
  <2>2. QED BY <2>1 DEF SnapshotInv, Disjoint, Stored
<1>8. CASE DeleteArrives
  <2>1. deletion.next \in Names \cup {None} /\ UNCHANGED <<server, silent>>
    BY <1>8 DEF DeleteArrives, Parts, TabOK, DeletionRecord
  <2>2. LoadKept
    BY <1>8, <2>1, OpenKeepsLoad DEF DeleteArrives
  <2>3. CASE UNCHANGED <<canvas, saves>>
    BY <2>1, <2>2, <2>3, QuietSnapshot DEF canvas
  <2>4. CASE Loaded(Empty, None, None)
    BY <2>1, <2>2, <2>4, LoadedSnapshot DEF LoadsThat
  <2>5. QED BY <1>8, <2>3, <2>4 DEF DeleteArrives
<1>9. QED BY <1>1, <1>2, <1>3, <1>4, <1>5, <1>6, <1>7, <1>8, SaveDecidedSnapshot, SaveArrivesSnapshot
         DEF Network

-----------------------------------------------------------------------------
(* The properties.                                                         *)

EditorInv == TypeInv /\ CommittedInv /\ GrownInv /\ SnapshotInv

LEMMA InvStarts == EditorInit => EditorInv
<1> SUFFICES ASSUME EditorInit PROVE EditorInv
  OBVIOUS
<1>1. TypeInv
  BY EditorStarts
<1>2. /\ name \in Names /\ server[name] # None /\ present = server[name] /\ Page(name) = server[name]
      /\ saves = {} /\ load = None /\ origin = name
      /\ persistedVersion = present.version /\ persistedIds = present.ids
      /\ persistedContent = present.content
  BY DEF EditorInit, Stored, Page
<1>3. \A n \in Names : Page(n).ids \subseteq committed
  BY DEF EditorInit
<1>4. CommittedInv
  BY <1>2, <1>3 DEF CommittedInv, Stored, Page
<1>5. present.version \in Nat
  BY <1>1, Bounds DEF TypeInv, Parts, CanvasOK, Canvas
<1>6. SnapshotInv
  <2>1. Disjoint
    BY OnePagePerWidget DEF EditorInit, Disjoint, Stored
  <2>2. SnapshotOfTab
    BY <1>2, <1>5 DEF SnapshotOfTab, Snapshot
  <2>3. QED BY <1>2, <2>1, <2>2 DEF SnapshotInv, SnapshotOfLoad
<1>7. QED BY <1>1, <1>2, <1>4, <1>6 DEF EditorInv, GrownInv

LEMMA InvStep == EditorInv /\ [EditorNext]_evars => EditorInv'
<1> SUFFICES ASSUME EditorInv, [EditorNext]_evars PROVE EditorInv'
  OBVIOUS
<1>1. Parts /\ TypeInv'
  BY TypeStep DEF EditorInv, TypeInv
<1>2. CASE User
  BY <1>1, <1>2, UserCommitted, UserGrown, UserSnapshot DEF EditorInv
<1>3. CASE Network
  BY <1>1, <1>3, NetworkCommitted, NetworkGrown, NetworkSnapshot DEF EditorInv
<1>4. CASE UNCHANGED evars
  BY <1>1, <1>4, QuietCommitted, QuietGrown, QuietSnapshot DEF evars, canvas, LoadKept, EditorInv
<1>5. QED BY <1>2, <1>3, <1>4 DEF EditorNext

LEMMA InvHolds == EditorSpec => []EditorInv
  BY InvStarts, InvStep, PTL DEF EditorSpec

(* A widget that the user has put on the canvas is on no stored page until  *)
(* the user saves by hand: no layout save takes it along, whatever is       *)
(* opened, undone, deleted or answered late.                                *)
THEOREM NewWidgetsWaitForASave == EditorSpec => []NewWidgetsNeedASave
<1>1. EditorInv => NewWidgetsNeedASave
  BY DEF EditorInv, CommittedInv, NewWidgetsNeedASave
<1>2. QED BY <1>1, InvHolds, PTL

(* Only two steps change a page. *)
LEMMA ServerSteps ==
    ASSUME [EditorNext]_evars, server' # server
    PROVE  DeleteDecided \/ \E s \in saves : SaveDecided(s)
  BY DEF EditorNext, User, Network, evars, Move, Edit, Add, Remove, Apply, Undo, Redo, SwitchTo, NewPage,
         SaveNow, AskTemplate, Delete, LayoutTimer, LoadAnswered, LoadArrives, LoadFails,
         TemplateArrives, SaveArrives, SaveFails, DeleteArrives

(* A layout save whose base was loaded or saved for its page leaves every    *)
(* page its widgets: its base is the page's version, and that version tells *)
(* which widgets the page has, which are those the save brings.  It tells   *)
(* their titles and specs too, which stay unless the canvas has others than *)
(* the tab has last loaded or saved.                                        *)
THEOREM OwnLayoutSavesKeepWidgets == EditorSpec => OwnLayoutSaveKeepsWidgets
<1>1. ASSUME EditorInv, [EditorNext]_evars, NEW s \in saves,
             Decided(s), s.auto, s.for = s.target, s.target \in Stored, ~silent, NEW n \in Names
      PROVE  /\ Page(n).ids = Page(n)'.ids
             /\ s.canvas.content = s.was => Page(n).content = Page(n)'.content
  <2>1. Parts
    BY <1>1 DEF EditorInv, TypeInv
  <2>2. CASE server' = server
    BY <2>2 DEF Page
  <2>3. CASE DeleteDecided
    BY <1>1, <2>3 DEF DeleteDecided, Decided
  <2>4. ASSUME NEW x \in saves, SaveDecided(x)
        PROVE  /\ Page(n).ids = Page(n)'.ids
               /\ s.canvas.content = s.was => Page(n).content = Page(n)'.content
    <3>1. x = s
      BY <1>1, <2>4 DEF SaveDecided, Decided
    <3>2. Accepts(s) /\ Snapshot(s.target, s.base, s.canvas.ids, s.was) /\ Disjoint
      BY <1>1, <2>4, <3>1 DEF SaveDecided, EditorInv, SnapshotInv, SnapshotOfSave, OwnBase
    <3>3. s.canvas.ids = Page(s.target).ids /\ s.was = Page(s.target).content
      BY <1>1, <3>2 DEF Accepts, Snapshot
    <3>4. CASE n = s.target
      BY <2>1, <2>4, <3>1, <3>3, <3>4, PutEffect
    <3>5. CASE n # s.target /\ n \in Stored
      <4>1. Page(n) = server[n] /\ Page(n)' = server'[n] /\ Page(s.target) = server[s.target]
        BY <1>1, <2>1, <2>4, <3>1, <3>5, PutEffect DEF Page, Stored
      <4>2. server[n].ids \cap s.canvas.ids = {}
        BY <1>1, <3>2, <3>3, <3>5, <4>1 DEF Disjoint
      <4>3. server'[n].ids = server[n].ids \ s.canvas.ids /\ server'[n].content = server[n].content
        BY <2>1, <2>4, <3>1, <3>5, PutEffect
      <4>4. QED BY <4>1, <4>2, <4>3
    <3>6. CASE n # s.target /\ n \notin Stored
      BY <2>1, <2>4, <3>1, <3>6, PutEffect DEF Page, Stored
    <3>7. QED BY <3>4, <3>5, <3>6
  <2>5. QED BY <1>1, <2>2, <2>3, <2>4, ServerSteps
<1>2. EditorInv /\ [EditorNext]_evars
      => [\A s \in saves :
             Decided(s) /\ s.auto /\ s.for = s.target /\ s.target \in Stored /\ ~silent
             => \A n \in Names :
                   /\ Page(n).ids = Page(n)'.ids
                   /\ s.canvas.content = s.was => Page(n).content = Page(n)'.content]_evars
  BY <1>1
<1>3. QED BY <1>2, InvHolds, PTL DEF EditorSpec, OwnLayoutSaveKeepsWidgets

(* Only an answer to a save makes a canvas clean. *)
LEMMA CleanSteps ==
    ASSUME [EditorNext]_evars, dirty, ~dirty'
    PROVE  \E s \in saves : SaveArrives(s)
  BY DEF EditorNext, User, Network, evars, Move, Edit, Add, Remove, Apply, Undo, Redo, SwitchTo, NewPage,
         SaveNow, AskTemplate, Delete, LayoutTimer, LoadAnswered, LoadArrives, LoadFails,
         TemplateArrives, SaveDecided, SaveFails, DeleteDecided, DeleteArrives

(* A save marks clean only the canvas that it stored, unless an undo, a redo *)
(* or a load came between: as long as versions only grow, an equal version   *)
(* is the same canvas.                                                      *)
THEOREM CleanCanvasIsSaved == EditorSpec => CleanIsSaved
<1>1. ASSUME EditorInv, [EditorNext]_evars, dirty, ~dirty'
      PROVE  \E s \in saves \ saves' : s.rewound \/ SameContent(present', s.canvas)
  <2>1. Parts /\ GrownInv
    BY <1>1 DEF EditorInv, TypeInv
  <2>2. PICK x \in saves : SaveArrives(x)
    BY <1>1, CleanSteps
  <2>3. present.version = x.canvas.version /\ present' = [present EXCEPT !.version = x.answer]
    BY <1>1, <2>2 DEF SaveArrives, NewerEdit
  <2>4. /\ present'.ids = present.ids /\ present'.layout = present.layout
        /\ present'.content = present.content
    BY <2>1, <2>3 DEF Parts, CanvasOK, Canvas
  <2>5. ASSUME NEW t \in saves, t.canvas = x.canvas
        PROVE  t.rewound \/ SameContent(present', t.canvas)
    BY <2>1, <2>3, <2>4, <2>5 DEF GrownInv, Behind, SameContent
  <2>6. CASE x \notin saves'
    BY <2>5, <2>6
  <2>7. CASE x \in saves'
    <3>1. PICK t \in saves \ {x} : x = [t EXCEPT !.rewound = @ \/ present' # present]
      BY <2>2, <2>7 DEF SaveArrives
    <3>2. t \in Save /\ t.rewound \in BOOLEAN /\ t.canvas = x.canvas
      BY <2>1, <3>1 DEF Parts, SavesOK, Save
    <3>3. ~t.rewound /\ present' # present
      BY <3>1, <3>2 DEF Save
    <3>4. t \notin saves'
      <4> SUFFICES ASSUME t \in saves' PROVE FALSE
        OBVIOUS
      <4>1. PICK u \in saves : t = [u EXCEPT !.rewound = @ \/ present' # present]
        BY <2>2 DEF SaveArrives
      <4>2. t.rewound
        BY <2>1, <3>3, <4>1, SaveTyped DEF Save
      <4>3. QED BY <3>3, <4>2
    <3>5. QED BY <2>5, <3>2, <3>4
  <2>8. QED BY <2>6, <2>7
<1>2. EditorInv /\ [EditorNext]_evars
      => [dirty /\ ~dirty'
          => \E s \in saves \ saves' : s.rewound \/ SameContent(present', s.canvas)]_evars
  BY <1>1
<1>3. QED BY <1>2, InvHolds, PTL DEF EditorSpec, CleanIsSaved
=============================================================================
