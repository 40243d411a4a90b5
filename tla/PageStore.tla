------------------------------ MODULE PageStore ------------------------------
(***************************************************************************)
(* The saved dashboard pages of service/backend/dashboardPagesHandler.js   *)
(* and the Postgres tables behind them (db/service/005 and 007).           *)
(*                                                                         *)
(* A session is one browser tab of a user.  A save is one transaction at   *)
(* READ COMMITTED: it is split at the statements whose order with another  *)
(* transaction can matter, its writes become visible only at the commit,   *)
(* and it may be rolled back after any statement (a lost connection, a     *)
(* deadlock victim, a crash of the backend all take the catch branch or    *)
(* have its effect).  The row locks of SELECT ... FOR UPDATE are held to   *)
(* the end of the transaction.                                             *)
(*                                                                         *)
(* Data is abstracted: a widget's stored record (everything that           *)
(* recordFingerprint compares, sort order included) is one member of       *)
(* Contents.                                                               *)
(***************************************************************************)
EXTENDS Naturals, FiniteSets

CONSTANTS
    Users, Scopes, HQ,
    ScopeOf,         \* ScopeOf[u] is the scope of user u's identity
    Names,           \* names a user gives to saved pages
    Objects,         \* object ids: a primary key over all pages
    Contents,        \* what a widget's stored record can be
    PageIds,         \* the page ids the sequence can hand out (bounds creations)
    Sessions,
    UserOf,          \* UserOf[s] is the user whose tab session s is
    ClientIds,       \* ClientIds[k]: ids of the widgets made on the canvas of key k
    TemplateNames,   \* names headquarters may publish as templates
    MaxSavedPages,   \* MAX_SAVED_PAGES, 5 in the code
    MaxVersion,      \* bound on a page's version
    None

Keys == Scopes \X Users \X Names
ScopeIn(k) == k[1]
Owner(k) == k[2]
NameIn(k) == k[3]

VARIABLES
    pages,           \* dashboard_pages: page id -> row, or None
    objects,         \* dashboard_objects: object id -> row, or None
    pageVersions,    \* rows of dashboard_page_versions
    objectVersions,  \* rows of dashboard_object_versions
    used,            \* page ids the sequence has handed out, never again
    locked,          \* pages whose row an open transaction holds FOR UPDATE
    tx,              \* the open save of each session
    view             \* what each session's editor has on its canvas

vars == <<pages, objects, pageVersions, objectVersions, used, locked, tx, view>>
tables == <<pages, objects, pageVersions, objectVersions>>

(* A draft gives each object on a canvas its content; None: not on it. *)
Draft == [Objects -> Contents \cup {None}]
Blank == [o \in Objects |-> None]
StoredObject == [version: Nat, content: Contents]
Operations == {"create", "update", "delete"}

(* Mutants: a definition named in PROJECT.json's "mutants" is the operator   *)
(* after it with a plausible bug; no action uses it.                       *)
IdleTx == [pc |-> "idle", key |-> None, page |-> None, fresh |-> FALSE,
           want |-> Blank, seen |-> Blank]
NoBaseView == [key |-> None, page |-> None, base |-> None, borrowed |-> {}]
EmptyView == [key |-> None, page |-> None, base |-> 0, borrowed |-> {}]

PageRow == [key: Keys, version: Nat, template: BOOLEAN]
ObjectRow == [page: PageIds, version: Nat, content: Contents]
PageVersionRow == [page: PageIds, version: Nat, manifest: [Objects -> Nat]]
ObjectVersionRow == [page: PageIds, object: Objects, version: Nat,
                     operation: Operations, content: Contents]
Tx == [pc: {"idle", "insert", "read", "commit"}, key: Keys \cup {None},
       page: PageIds \cup {None}, fresh: BOOLEAN, want: Draft,
       seen: [Objects -> StoredObject \cup {None}]]
View == [key: Keys \cup {None}, page: PageIds \cup {None}, base: Nat,
         borrowed: SUBSET Objects]

(* None is what a query that finds no row gives: it is no row. *)
ASSUME ConstantsAssumption ==
    /\ HQ \in Scopes
    /\ ScopeOf \in [Users -> Scopes]
    /\ UserOf \in [Sessions -> Users]
    /\ ClientIds \in [Keys -> SUBSET Objects]
    /\ TemplateNames \subseteq Names
    /\ MaxSavedPages \in Nat \ {0}
    /\ MaxVersion \in Nat
    /\ None \notin PageIds /\ None \notin Keys /\ None \notin Contents
    /\ None \notin PageRow /\ None \notin ObjectRow /\ None \notin StoredObject

(* Types of the tables, of the open transactions and of the editors.  An   *)
(* open save past its insert always names a page.                          *)
TypeOK ==
    /\ pages \in [PageIds -> PageRow \cup {None}]
    /\ objects \in [Objects -> ObjectRow \cup {None}]
    /\ pageVersions \in SUBSET PageVersionRow
    /\ objectVersions \in SUBSET ObjectVersionRow
    /\ used \in SUBSET PageIds
    /\ locked \in SUBSET PageIds
    /\ tx \in [Sessions -> Tx]
    /\ view \in [Sessions -> View]
    /\ \A s \in Sessions :
          /\ tx[s].pc # "idle" => tx[s].key \in Keys
          /\ tx[s].pc \in {"read", "commit"} => tx[s].page \in PageIds

-----------------------------------------------------------------------------
(* Queries.                                                                *)

Live == {p \in PageIds : pages[p] # None}
Saved(k) == {p \in Live : pages[p].key = k}
OwnedBy(u, sc) == {p \in Live : Owner(pages[p].key) = u /\ ScopeIn(pages[p].key) = sc}
ObjectsOn(p) == {o \in Objects : objects[o] # None /\ objects[o].page = p}

(* The rows a transaction reads back for a page: object id -> version, content. *)
LoadPageObjects(p) ==
    [o \in Objects |->
        IF o \in ObjectsOn(p)
        THEN [version |-> objects[o].version, content |-> objects[o].content]
        ELSE None]

(* SELECT ... FOR UPDATE proceeds only when no open transaction has the row. *)
RowFree(p) == p \notin locked

(* The unique index on (scope, owner, name): an insert waits for an        *)
(* uncommitted row of the same key and fails on a committed one.           *)
KeyFreeNoIndex(s) == tx[s].key \in Keys
KeyFree(s) ==
    /\ Saved(tx[s].key) = {}
    /\ \A other \in Sessions \ {s} : ~(tx[other].fresh /\ tx[other].key = tx[s].key)

CanAccessScope(u, sc) == ScopeOf[u] = sc \/ ScopeOf[u] = HQ
MayUse(s, k) == Owner(k) = UserOf[s] /\ CanAccessScope(UserOf[s], ScopeIn(k))

-----------------------------------------------------------------------------
(* The editor: opening a page or a template.                               *)

(* Opening a name: the page's version is the base of the next save, 0 when *)
(* the page does not exist.  view.page only records which row it was.      *)
Load(s, k) ==
    /\ tx[s].pc = "idle" /\ MayUse(s, k)
    /\ \/ \E p \in Saved(k) :
            view' = [view EXCEPT ![s] = [key |-> k, page |-> p,
                                         base |-> pages[p].version, borrowed |-> {}]]
       \/ /\ Saved(k) = {}
          /\ view' = [view EXCEPT ![s] = [EmptyView EXCEPT !.key = k]]
    /\ UNCHANGED <<pages, objects, pageVersions, objectVersions, used, locked, tx>>

(* A template's widgets become an unnamed draft and keep their object ids. *)
LoadTemplate(s, p) ==
    /\ tx[s].pc = "idle"
    /\ p \in Live /\ pages[p].template /\ ScopeIn(pages[p].key) = HQ
    /\ view' = [view EXCEPT ![s] = [EmptyView EXCEPT !.borrowed = ObjectsOn(p)]]
    /\ UNCHANGED <<pages, objects, pageVersions, objectVersions, used, locked, tx>>

(* The widgets a session can send when it saves under key k. *)
Drafts(s, k) ==
    {d \in Draft : \A o \in Objects :
        d[o] # None => o \in ClientIds[k] \cup view[s].borrowed}

-----------------------------------------------------------------------------
(* The save transaction.                                                   *)

(* Number.isInteger(baseVersion) && baseVersion !== page.version is refused. *)
BaseNotAhead(s, p) == view[s].base <= pages[p].version
BaseIsCurrent(s, p) == view[s].base = pages[p].version

(* BEGIN, SELECT ... FOR UPDATE; when the page is missing, the COUNT that  *)
(* enforces the limit.  A stale base version answers 409 and changes       *)
(* nothing, and so does a full quota.                                      *)
SaveBegin(s, k, d) ==
    /\ tx[s].pc = "idle" /\ MayUse(s, k) /\ view[s].key \in {k, None}
    /\ \/ \E p \in Saved(k) :
            /\ RowFree(p)
            /\ BaseIsCurrent(s, p)
            /\ pages[p].version < MaxVersion
            /\ locked' = locked \cup {p}
            /\ tx' = [tx EXCEPT ![s] = [IdleTx EXCEPT !.pc = "read", !.key = k,
                                                      !.page = p, !.want = d]]
       \/ /\ Saved(k) = {}
          /\ Cardinality(OwnedBy(UserOf[s], ScopeIn(k))) < MaxSavedPages
          /\ tx' = [tx EXCEPT ![s] = [IdleTx EXCEPT !.pc = "insert", !.key = k, !.want = d]]
          /\ UNCHANGED locked
    /\ UNCHANGED <<pages, objects, pageVersions, objectVersions, used, view>>

(* INSERT INTO dashboard_pages with version 0 (a failure is SaveAbort). *)
SaveInsert(s) ==
    /\ tx[s].pc = "insert" /\ KeyFree(s)
    /\ \E p \in PageIds \ used :
          /\ used' = used \cup {p}
          /\ locked' = locked \cup {p}
          /\ tx' = [tx EXCEPT ![s].pc = "read", ![s].page = p, ![s].fresh = TRUE]
    /\ UNCHANGED <<pages, objects, pageVersions, objectVersions, view>>

(* const existingRows = await loadPageObjects(client, page.page_id) *)
SaveRead(s) ==
    /\ tx[s].pc = "read"
    /\ tx' = [tx EXCEPT ![s].pc = "commit", ![s].seen = LoadPageObjects(tx[s].page)]
    /\ UNCHANGED <<pages, objects, pageVersions, objectVersions, used, locked, view>>

(* What the save does with object o, decided from the rows it read.        *)
ChangedIfNew(t, o) == t.want[o] # None /\ t.seen[o] = None
Changed(t, o) == t.want[o] # None /\ (t.seen[o] = None \/ t.seen[o].content # t.want[o])
Removed(t, o) == t.want[o] = None /\ t.seen[o] # None
Touched(t) == {o \in Objects : Changed(t, o) \/ Removed(t, o)}

(* SELECT COALESCE(MAX(version), 0) over the page's history of an object. *)
Recorded(p, o) == {r.version : r \in {q \in objectVersions : q.page = p /\ q.object = o}}
LatestForgotten(p, o) == IF o \in Objects /\ p \in PageIds THEN 0 ELSE None
Latest(p, o) ==
    IF Recorded(p, o) = {} THEN 0
    ELSE CHOOSE v \in Recorded(p, o) : \A w \in Recorded(p, o) : w <= v

NextObjectVersion(t, o) ==
    IF t.seen[o] # None THEN t.seen[o].version + 1 ELSE Latest(t.page, o) + 1

VersionRowStale(t, o) ==
    [page |-> t.page, object |-> o,
     version |-> IF t.seen[o] # None THEN t.seen[o].version ELSE Latest(t.page, o) + 1,
     operation |-> IF Removed(t, o) THEN "delete"
                   ELSE IF t.seen[o] # None THEN "update" ELSE "create",
     content |-> IF Removed(t, o) THEN t.seen[o].content ELSE t.want[o]]
VersionRow(t, o) ==
    [page |-> t.page, object |-> o, version |-> NextObjectVersion(t, o),
     operation |-> IF Removed(t, o) THEN "delete"
                   ELSE IF t.seen[o] # None THEN "update" ELSE "create",
     content |-> IF Removed(t, o) THEN t.seen[o].content ELSE t.want[o]]

(* dashboard_objects after the upserts and the deletes.  Both go by object *)
(* id alone: the upsert moves a row that belongs to another page, and the  *)
(* delete removes it.                                                      *)
WrittenObjects(t) ==
    [o \in Objects |->
        IF Changed(t, o)
        THEN [page |-> t.page, version |-> NextObjectVersion(t, o), content |-> t.want[o]]
        ELSE IF Removed(t, o) THEN None ELSE objects[o]]

ManifestOfAll(p, rows) ==
    [o \in Objects |-> IF rows[o] # None /\ p \in PageIds THEN rows[o].version ELSE 0]
Manifest(p, rows) ==
    [o \in Objects |-> IF rows[o] # None /\ rows[o].page = p THEN rows[o].version ELSE 0]

BaseVersion(t) == IF t.fresh THEN 0 ELSE pages[t.page].version
NeedsVersion(t) == Touched(t) # {} \/ (BaseVersion(t) = 0 /\ t.seen = Blank)

(* The end of a save: the transaction is closed and the tab rebases on the *)
(* version the server returned.                                            *)
Finish(s, version) ==
    /\ tx' = [tx EXCEPT ![s] = IdleTx]
    /\ locked' = locked \ {tx[s].page}
    /\ view' = [view EXCEPT ![s] = [key |-> tx[s].key, page |-> tx[s].page,
                                    base |-> version, borrowed |-> view[s].borrowed]]

SaveCommit(s) ==
    LET t == tx[s]
        next == BaseVersion(t) + 1
        rows == WrittenObjects(t)
    IN /\ t.pc = "commit" /\ NeedsVersion(t)
       /\ objects' = rows
       /\ objectVersions' = objectVersions \cup {VersionRow(t, o) : o \in Touched(t)}
       /\ pages' = [pages EXCEPT ![t.page] =
                       [key |-> t.key, version |-> next,
                        template |-> IF t.fresh THEN FALSE ELSE pages[t.page].template]]
       /\ pageVersions' = pageVersions \cup
              {[page |-> t.page, version |-> next, manifest |-> Manifest(t.page, rows)]}
       /\ Finish(s, next)
       /\ UNCHANGED used

(* Nothing differs from the stored rows: COMMIT without a new version. *)
SaveUnchanged(s) ==
    /\ tx[s].pc = "commit" /\ ~NeedsVersion(tx[s])
    /\ Finish(s, BaseVersion(tx[s]))
    /\ UNCHANGED <<pages, objects, pageVersions, objectVersions, used>>

(* ROLLBACK in the catch branch. *)
SaveAbort(s) ==
    /\ tx[s].pc # "idle"
    /\ tx' = [tx EXCEPT ![s] = IdleTx]
    /\ locked' = locked \ {tx[s].page}
    /\ UNCHANGED <<pages, objects, pageVersions, objectVersions, used, view>>

-----------------------------------------------------------------------------
(* Single-statement handlers.                                              *)

(* DELETE FROM dashboard_pages; the foreign keys cascade to the objects    *)
(* and to both version tables.                                             *)
DeletePage(s, k) ==
    /\ MayUse(s, k)
    /\ \E p \in Saved(k) :
          /\ RowFree(p)
          /\ pages' = [pages EXCEPT ![p] = None]
          /\ objects' = [o \in Objects |-> IF o \in ObjectsOn(p) THEN None ELSE objects[o]]
          /\ pageVersions' = {r \in pageVersions : r.page # p}
          /\ objectVersions' = {r \in objectVersions : r.page # p}
    /\ UNCHANGED <<used, locked, tx, view>>

SetTemplate(s, k, flag) ==
    /\ Owner(k) = UserOf[s] /\ ScopeIn(k) = HQ /\ ScopeOf[UserOf[s]] = HQ
    /\ NameIn(k) \in TemplateNames
    /\ \E p \in Saved(k) : RowFree(p) /\ pages' = [pages EXCEPT ![p].template = flag]
    /\ UNCHANGED <<objects, pageVersions, objectVersions, used, locked, tx, view>>

-----------------------------------------------------------------------------
Init ==
    /\ pages = [p \in PageIds |-> None]
    /\ objects = Blank
    /\ pageVersions = {} /\ objectVersions = {}
    /\ used = {} /\ locked = {}
    /\ tx = [s \in Sessions |-> IdleTx]
    /\ view = [s \in Sessions |-> EmptyView]

(* What a session does other than deleting a page, which Deployments extends. *)
Edit(s) ==
    \/ \E k \in Keys : Load(s, k)
    \/ \E p \in PageIds : LoadTemplate(s, p)
    \/ \E k \in Keys : \E d \in Drafts(s, k) : SaveBegin(s, k, d)
    \/ SaveInsert(s)
    \/ SaveRead(s)
    \/ SaveCommit(s)
    \/ SaveUnchanged(s)
    \/ SaveAbort(s)
    \/ \E k \in Keys, flag \in BOOLEAN : SetTemplate(s, k, flag)

Next == \E s \in Sessions : Edit(s) \/ \E k \in Keys : DeletePage(s, k)

Spec == Init /\ [][Next]_vars
-----------------------------------------------------------------------------
(* The history behind the tables.  loadPageObjectsAtVersion: what the      *)
(* manifest of a version names, joined with the snapshots; an entry without *)
(* a snapshot is dropped.                                                  *)
SnapshotsFor(p, v, o) ==
    {h \in objectVersions :
        /\ h.page = p /\ h.object = o /\ h.operation # "delete"
        /\ \E r \in pageVersions : r.page = p /\ r.version = v /\ r.manifest[o] = h.version}
OneOf(rows) == CHOOSE h \in rows : TRUE
Restored(p, v) ==
    [o \in Objects |-> IF SnapshotsFor(p, v, o) = {} THEN None
                       ELSE OneOf(SnapshotsFor(p, v, o)).content]

(* A page of the book: all its versions as they would be restored today.   *)
PageOfBook(p) ==
    IF pages[p] = None THEN [key |-> None, last |-> 0, drafts |-> <<>>]
    ELSE [key |-> pages[p].key, last |-> pages[p].version,
          drafts |-> [v \in 1 .. pages[p].version |-> Restored(p, v)]]
Book == [p \in PageIds |-> PageOfBook(p)]
Opened == [s \in Sessions |-> [page |-> view[s].page, version |-> view[s].base]]

History == INSTANCE PageHistory WITH book <- Book, opened <- Opened

-----------------------------------------------------------------------------
(* Properties.                                                             *)

(* The rows on a page are exactly the objects, at the versions, that the   *)
(* manifest of its current version lists (handleSaveSavedPage writes both  *)
(* and nothing else may move a row): what the editor reopens is what the   *)
(* page's version says was saved.                                          *)
WorkingSetMatchesManifest ==
    \A p \in Live : \E r \in pageVersions :
        /\ r.page = p /\ r.version = pages[p].version
        /\ \A o \in Objects :
              r.manifest[o] = IF o \in ObjectsOn(p) THEN objects[o].version ELSE 0

(* Every version a page ever had can be restored in full: each entry of    *)
(* its manifest still has a snapshot that is not a deletion, which is what *)
(* loadPageObjectsAtVersion joins on (a missing one is dropped silently).  *)
RestorableHistory ==
    \A r \in pageVersions, o \in Objects : r.manifest[o] # 0 =>
        \E h \in objectVersions :
            /\ h.page = r.page /\ h.object = o /\ h.version = r.manifest[o]
            /\ h.operation # "delete"

(* No two rows share a primary key of the version tables, whether objects  *)
(* leave a page and come back or a save runs on stale rows: a clash would  *)
(* make the page impossible to save.                                       *)
VersionKeysUnique ==
    /\ \A g, h \in objectVersions :
          g.page = h.page /\ g.object = h.object /\ g.version = h.version => g = h
    /\ \A q, r \in pageVersions : q.page = r.page /\ q.version = r.version => q = r

(* A user has one page per scope and name, however many tabs create it. *)
OnePagePerKey == \A p, q \in Live : pages[p].key = pages[q].key => p = q

(* A tab that has page p open never overwrites a version of p it has not   *)
(* seen: the base version is compared under the row lock that is held to   *)
(* the commit.                                                             *)
NoLostUpdate ==
    [][\A p \in Live : pages'[p] # None /\ pages'[p].version # pages[p].version =>
          \E s \in Sessions :
              /\ tx[s].pc = "commit" /\ tx[s].page = p /\ tx'[s].pc = "idle"
              /\ view[s].page = p => view[s].base = pages[p].version]_vars

(* A save that answers 200 leaves on the page exactly the widgets that     *)
(* were sent.                                                              *)
SavedDraftIsStored ==
    [][\A s \in Sessions : SaveCommit(s) \/ SaveUnchanged(s) =>
          \A o \in Objects :
              LET stored == objects'[o] # None /\ objects'[o].page = tx[s].page
              IN IF tx[s].want[o] = None THEN ~stored
                 ELSE stored /\ objects'[o].content = tx[s].want[o]]_vars

(* The tables implement PageHistory: whatever the interleaving of saves,   *)
(* and although object rows move between pages, a page has one history,    *)
(* each version restores to the same widgets for ever, and a version is    *)
(* added only on top of the last one.                                      *)
KeepsHistory == History!HSpec

(* The server-enforced limit of saved pages per user and scope             *)
(* (DashboardStateContext.jsx, line 10).                                   *)
PageLimit ==
    \A u \in Users, sc \in Scopes : Cardinality(OwnedBy(u, sc)) <= MaxSavedPages

(* A published template keeps its widgets until its owner saves it: any    *)
(* dealer may load it (comment of handleListTemplates).                    *)
TemplateStaysWhole ==
    [][\A p \in Live :
          pages[p].template /\ pages'[p] # None /\ pages'[p].version = pages[p].version
          => \A o \in ObjectsOn(p) : objects'[o] = objects[o]]_vars
=============================================================================
