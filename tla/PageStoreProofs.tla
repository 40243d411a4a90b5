--------------------------- MODULE PageStoreProofs ---------------------------
(***************************************************************************)
(* Proofs about PageStore and Deployments, which extends it, for every     *)
(* value of their constants: any number of users, colleagues, tabs, pages, *)
(* objects and log rows, shared object ids and templates included.         *)
(*                                                                         *)
(* First the store alone: its types and locks, its history and the book it *)
(* implements, and pages whose widgets are their own.  Then what a shared  *)
(* tab shows, and for how long.                                            *)
(***************************************************************************)
EXTENDS Deployments, FiniteSetTheorems, TLAPS

(* A session that holds the row of its page: past the lock or the insert. *)
Held(s) == tx[s].pc \in {"read", "commit"}

(* The history of an object on a page has a largest version, so Latest is  *)
(* a number: what SELECT MAX returns.                                      *)
HasLargest(S) == S = {} \/ \E m \in S : \A w \in S : w <= m
LatestExists == \A p \in PageIds, o \in Objects : HasLargest(Recorded(p, o))

(* Row locks are exclusive, a locked page cannot disappear, and a page     *)
(* that is being inserted is visible to nobody.                            *)
LockInv ==
    /\ locked \subseteq used /\ Live \subseteq used
    /\ \A s \in Sessions : Held(s) =>
          /\ tx[s].page \in locked
          /\ tx[s].fresh <=> tx[s].page \notin Live
    /\ \A s \in Sessions : ~Held(s) => tx[s].page = None
    /\ \A s, t \in Sessions : s # t /\ Held(s) /\ Held(t) => tx[s].page # tx[t].page

Core == TypeOK /\ LatestExists /\ LockInv

(* The base version an open save of an existing page was checked against   *)
(* is still the page's version.                                            *)
BaseSeen ==
    \A s \in Sessions : Held(s) /\ ~tx[s].fresh =>
        /\ view[s].base = pages[tx[s].page].version
        /\ tx[s].key = pages[tx[s].page].key

(* Every object row has the snapshot its version number names. *)
RowHasSnapshot ==
    \A o \in Objects : objects[o] # None =>
        \E h \in objectVersions :
            /\ h.page = objects[o].page /\ h.object = o /\ h.version = objects[o].version
            /\ h.operation # "delete"

(* A page that is being inserted is the only one of its key, visible or not. *)
KeyInv ==
    /\ \A s \in Sessions : Held(s) /\ tx[s].fresh =>
          \A p \in Live : pages[p].key # tx[s].key
    /\ \A s, t \in Sessions :
          s # t /\ Held(s) /\ Held(t) /\ tx[s].fresh /\ tx[t].fresh => tx[s].key # tx[t].key

(* Versions only grow: an object's row carries the largest version its     *)
(* page has recorded, so do the rows an open save read, and a page is at   *)
(* the largest version of its history.                                     *)
RowIsLatest ==
    \A o \in Objects : objects[o] # None =>
        \A v \in Recorded(objects[o].page, o) : v <= objects[o].version
SeenIsLatest ==
    \A s \in Sessions, o \in Objects : tx[s].pc = "commit" /\ tx[s].seen[o] # None =>
        \A v \in Recorded(tx[s].page, o) : v <= tx[s].seen[o].version
PageIsLatest ==
    \A r \in pageVersions : r.page \in Live /\ r.version <= pages[r.page].version
Monotone == RowIsLatest /\ SeenIsLatest /\ PageIsLatest

-----------------------------------------------------------------------------
(* A set of numbers keeps a largest member when one number joins it. *)
LEMMA LargestAfterAdding ==
    ASSUME NEW S \in SUBSET Nat, HasLargest(S), NEW n \in Nat
    PROVE  HasLargest(S \cup {n})
<1>1. CASE S = {}
  BY <1>1 DEF HasLargest
<1>2. CASE S # {}
  <2>1. PICK m \in S : \A w \in S : w <= m
    BY <1>2 DEF HasLargest
  <2>2. CASE n <= m
    BY <2>1, <2>2 DEF HasLargest
  <2>3. CASE ~(n <= m)
    <3>1. \A w \in S \cup {n} : w <= n
      BY <2>1, <2>3
    <3>2. QED BY <3>1 DEF HasLargest
  <2>4. QED BY <2>2, <2>3
<1>3. QED BY <1>1, <1>2

(* The versions the history records of an object are numbers. *)
LEMMA RecordedIsNat ==
    ASSUME TypeOK, NEW p \in PageIds, NEW o \in Objects
    PROVE  Recorded(p, o) \in SUBSET Nat
BY DEF TypeOK, Recorded, ObjectVersionRow

(* Latest is what SELECT COALESCE(MAX(version), 0) returns: no recorded     *)
(* version is above it.                                                    *)
LEMMA LatestIsLargest ==
    ASSUME Core, NEW p \in PageIds, NEW o \in Objects
    PROVE  Latest(p, o) \in Nat /\ \A w \in Recorded(p, o) : w <= Latest(p, o)
<1>1. CASE Recorded(p, o) = {}
  BY <1>1 DEF Latest
<1>2. CASE Recorded(p, o) # {}
  <2>1. \E v \in Recorded(p, o) : \A w \in Recorded(p, o) : w <= v
    BY <1>2 DEF Core, LatestExists, HasLargest
  <2>2. /\ Latest(p, o) \in Recorded(p, o)
        /\ \A w \in Recorded(p, o) : w <= Latest(p, o)
    BY <1>2, <2>1 DEF Latest
  <2>3. QED BY <2>2, RecordedIsNat DEF Core
<1>3. QED BY <1>1, <1>2

(* What a save computes is well typed. *)
LEMMA CommitTypes ==
    ASSUME Core, NEW s \in Sessions, tx[s].pc = "commit"
    PROVE  /\ BaseVersion(tx[s]) \in Nat
           /\ \A o \in Objects : NextObjectVersion(tx[s], o) \in Nat
           /\ WrittenObjects(tx[s]) \in [Objects -> ObjectRow \cup {None}]
           /\ \A o \in Touched(tx[s]) : VersionRow(tx[s], o) \in ObjectVersionRow
           /\ Manifest(tx[s].page, WrittenObjects(tx[s])) \in [Objects -> Nat]
<1> DEFINE t == tx[s]
<1>1. /\ t \in Tx /\ t.page \in PageIds /\ t.key \in Keys
      /\ t.want \in Draft /\ t.seen \in [Objects -> StoredObject \cup {None}]
      /\ ~t.fresh => pages[t.page] \in PageRow
  <2>1. t \in Tx /\ t.page \in PageIds /\ t.key \in Keys
    BY DEF Core, TypeOK
  <2>2. ~t.fresh => pages[t.page] # None
    BY <2>1 DEF Core, LockInv, Held, Live
  <2>3. QED BY <2>1, <2>2 DEF Core, TypeOK, Tx
<1>2. BaseVersion(t) \in Nat
  BY <1>1 DEF BaseVersion, PageRow
<1>3. \A o \in Objects : NextObjectVersion(t, o) \in Nat
  BY <1>1, LatestIsLargest DEF NextObjectVersion, StoredObject
<1>4. \A o \in Objects : Changed(t, o) => t.want[o] \in Contents
  BY <1>1 DEF Changed, Draft
<1>5. WrittenObjects(t) \in [Objects -> ObjectRow \cup {None}]
  <2>1. objects \in [Objects -> ObjectRow \cup {None}]
    BY DEF Core, TypeOK
  <2>2. \A o \in Objects : Changed(t, o) =>
           [page |-> t.page, version |-> NextObjectVersion(t, o), content |-> t.want[o]]
              \in ObjectRow
    BY <1>1, <1>3, <1>4 DEF ObjectRow
  <2>3. QED BY <2>1, <2>2 DEF WrittenObjects
<1>6. \A o \in Touched(t) : VersionRow(t, o) \in ObjectVersionRow
  <2> SUFFICES ASSUME NEW o \in Touched(t)
               PROVE  VersionRow(t, o) \in ObjectVersionRow
    OBVIOUS
  <2>1. o \in Objects /\ (Changed(t, o) \/ Removed(t, o))
    BY DEF Touched
  <2>2. CASE Removed(t, o)
    BY <1>1, <1>3, <2>1, <2>2
    DEF Removed, VersionRow, ObjectVersionRow, Operations, StoredObject
  <2>3. CASE ~Removed(t, o)
    BY <1>1, <1>3, <1>4, <2>1, <2>3 DEF VersionRow, ObjectVersionRow, Operations
  <2>4. QED BY <2>2, <2>3
<1>7. Manifest(t.page, WrittenObjects(t)) \in [Objects -> Nat]
  BY <1>5 DEF Manifest, ObjectRow
<1>8. QED BY <1>2, <1>3, <1>5, <1>6, <1>7

-----------------------------------------------------------------------------
(* Core is inductive: types, one proof step per action.                    *)

(* The tables start empty and no save is open. *)
LEMMA CoreInit == Init => Core
<1> SUFFICES ASSUME Init PROVE Core
  OBVIOUS
<1>1. TypeOK
  BY ConstantsAssumption
  DEF Init, TypeOK, IdleTx, EmptyView, Tx, View, Draft, Blank
<1>2. LatestExists
  BY DEF Init, LatestExists, HasLargest, Recorded
<1>3. LockInv
  BY DEF Init, LockInv, Held, IdleTx, Live
<1>4. QED BY <1>1, <1>2, <1>3 DEF Core

(* Every step keeps the types. *)
LEMMA TypeStep ==
    ASSUME Core, Next
    PROVE  TypeOK'
<1>0. TypeOK /\ LockInv
  BY DEF Core
<1>1. PICK s \in Sessions :
          \/ \E k \in Keys : Load(s, k)
          \/ \E p \in PageIds : LoadTemplate(s, p)
          \/ \E k \in Keys : \E d \in Drafts(s, k) : SaveBegin(s, k, d)
          \/ SaveInsert(s) \/ SaveRead(s) \/ SaveCommit(s) \/ SaveUnchanged(s)
          \/ SaveAbort(s)
          \/ \E k \in Keys : DeletePage(s, k)
          \/ \E k \in Keys, on \in BOOLEAN : SetTemplate(s, k, on)
  BY DEF Next, Edit
<1>2. ASSUME NEW k \in Keys, Load(s, k) PROVE TypeOK'
  <2>1. \A p \in Saved(k) : [key |-> k, page |-> p, base |-> pages[p].version,
                               borrowed |-> {}] \in View
    BY <1>0 DEF TypeOK, View, Saved, Live, PageRow
  <2>2. [EmptyView EXCEPT !.key = k] \in View
    BY DEF View, EmptyView
  <2>3. view' \in [Sessions -> View]
    BY <1>0, <1>2, <2>1, <2>2 DEF Load, TypeOK
  <2>4. QED BY <1>0, <1>2, <2>3 DEF Load, TypeOK
<1>3. ASSUME NEW p \in PageIds, LoadTemplate(s, p) PROVE TypeOK'
  <2>1. view' \in [Sessions -> View]
    BY <1>0, <1>3 DEF LoadTemplate, TypeOK, View, EmptyView, ObjectsOn
  <2>2. QED BY <1>0, <1>3, <2>1 DEF LoadTemplate, TypeOK
<1>4. ASSUME NEW k \in Keys, NEW d \in Drafts(s, k), SaveBegin(s, k, d) PROVE TypeOK'
  <2>1. d \in Draft
    BY DEF Drafts
  <2>2. IdleTx \in Tx
    BY DEF IdleTx, Tx, Draft, Blank
  <2>3. \A p \in PageIds :
           [IdleTx EXCEPT !.pc = "read", !.key = k, !.page = p, !.want = d] \in Tx
    BY <2>1, <2>2 DEF Tx
  <2>4. [IdleTx EXCEPT !.pc = "insert", !.key = k, !.want = d] \in Tx
    BY <2>1, <2>2 DEF Tx
  <2>5. CASE \E p \in PageIds :
                /\ tx' = [tx EXCEPT ![s] = [IdleTx EXCEPT !.pc = "read", !.key = k,
                                                          !.page = p, !.want = d]]
                /\ locked' = locked \cup {p}
    <3>1. PICK p \in PageIds :
              /\ tx' = [tx EXCEPT ![s] = [IdleTx EXCEPT !.pc = "read", !.key = k,
                                                        !.page = p, !.want = d]]
              /\ locked' = locked \cup {p}
      BY <2>5
    <3>2. tx' \in [Sessions -> Tx] /\ locked' \in SUBSET PageIds
      BY <1>0, <2>3, <3>1 DEF TypeOK
    <3>3. \A r \in Sessions :
             /\ tx'[r].pc # "idle" => tx'[r].key \in Keys
             /\ tx'[r].pc \in {"read", "commit"} => tx'[r].page \in PageIds
      BY <1>0, <3>1 DEF TypeOK, IdleTx
    <3>4. QED BY <1>0, <1>4, <3>2, <3>3 DEF SaveBegin, TypeOK
  <2>6. CASE /\ tx' = [tx EXCEPT ![s] = [IdleTx EXCEPT !.pc = "insert", !.key = k,
                                                       !.want = d]]
             /\ UNCHANGED locked
    <3>1. tx' \in [Sessions -> Tx]
      BY <1>0, <2>4, <2>6 DEF TypeOK
    <3>2. \A r \in Sessions :
             /\ tx'[r].pc # "idle" => tx'[r].key \in Keys
             /\ tx'[r].pc \in {"read", "commit"} => tx'[r].page \in PageIds
      BY <1>0, <2>6 DEF TypeOK, IdleTx
    <3>3. QED BY <1>0, <1>4, <2>6, <3>1, <3>2 DEF SaveBegin, TypeOK
  <2>7. QED BY <1>4, <2>5, <2>6 DEF SaveBegin, Saved, Live
<1>5. CASE SaveInsert(s)
  <2>1. PICK p \in PageIds \ used :
            /\ used' = used \cup {p} /\ locked' = locked \cup {p}
            /\ tx' = [tx EXCEPT ![s] = [tx[s] EXCEPT !.pc = "read", !.page = p,
                                                     !.fresh = TRUE]]
    BY <1>0, <1>5 DEF SaveInsert, TypeOK, Tx
  <2>2. [tx[s] EXCEPT !.pc = "read", !.page = p, !.fresh = TRUE] \in Tx
    BY <1>0 DEF TypeOK, Tx
  <2>3. tx' \in [Sessions -> Tx] /\ locked' \in SUBSET PageIds /\ used' \in SUBSET PageIds
    BY <1>0, <2>1, <2>2 DEF TypeOK
  <2>4. \A r \in Sessions :
           /\ tx'[r].pc # "idle" => tx'[r].key \in Keys
           /\ tx'[r].pc \in {"read", "commit"} => tx'[r].page \in PageIds
    BY <1>0, <1>5, <2>1 DEF SaveInsert, TypeOK, Tx
  <2>5. QED BY <1>0, <1>5, <2>3, <2>4 DEF SaveInsert, TypeOK
<1>6. CASE SaveRead(s)
  <2>1. LoadPageObjects(tx[s].page) \in [Objects -> StoredObject \cup {None}]
    BY <1>0 DEF TypeOK, LoadPageObjects, ObjectsOn, StoredObject, ObjectRow
  <2>2. tx' = [tx EXCEPT ![s] = [tx[s] EXCEPT !.pc = "commit",
                                              !.seen = LoadPageObjects(tx[s].page)]]
    BY <1>0, <1>6 DEF SaveRead, TypeOK, Tx
  <2>3. [tx[s] EXCEPT !.pc = "commit", !.seen = LoadPageObjects(tx[s].page)] \in Tx
    BY <1>0, <2>1 DEF TypeOK, Tx
  <2>4. tx' \in [Sessions -> Tx]
    BY <1>0, <2>2, <2>3 DEF TypeOK
  <2>5. \A r \in Sessions :
           /\ tx'[r].pc # "idle" => tx'[r].key \in Keys
           /\ tx'[r].pc \in {"read", "commit"} => tx'[r].page \in PageIds
    BY <1>0, <1>6, <2>2 DEF SaveRead, TypeOK, Tx
  <2>6. QED BY <1>0, <1>6, <2>4, <2>5 DEF SaveRead, TypeOK
<1>7. ASSUME NEW v \in Nat, Finish(s, v), tx[s].pc = "commit"
      PROVE  /\ tx' \in [Sessions -> Tx] /\ locked' \in SUBSET PageIds
             /\ view' \in [Sessions -> View]
             /\ \A r \in Sessions : tx'[r].pc # "idle" => tx'[r].key \in Keys
             /\ \A r \in Sessions : tx'[r].pc \in {"read", "commit"} => tx'[r].page \in PageIds
  BY <1>0, <1>7 DEF Finish, TypeOK, Tx, View, IdleTx, Draft, Blank
<1>8. CASE SaveCommit(s)
  <2>1. tx[s].pc = "commit" /\ BaseVersion(tx[s]) + 1 \in Nat /\ Finish(s, BaseVersion(tx[s]) + 1)
    BY <1>8, CommitTypes DEF SaveCommit
  <2>2. tx[s].page \in PageIds /\ tx[s].key \in Keys
    BY <1>0, <2>1 DEF TypeOK
  <2>3. objects' \in [Objects -> ObjectRow \cup {None}]
    BY <1>8, <2>1, CommitTypes DEF SaveCommit
  <2>4. objectVersions' \in SUBSET ObjectVersionRow
    BY <1>0, <1>8, <2>1, CommitTypes DEF SaveCommit, TypeOK
  <2>5. pageVersions' \in SUBSET PageVersionRow
    BY <1>0, <1>8, <2>1, <2>2, CommitTypes DEF SaveCommit, TypeOK, PageVersionRow
  <2>6. pages' \in [PageIds -> PageRow \cup {None}]
    <3>1. ~tx[s].fresh => pages[tx[s].page] \in PageRow
      BY <1>0, <2>1, <2>2 DEF LockInv, Held, Live, TypeOK
    <3>2. QED BY <1>0, <1>8, <2>1, <2>2, <3>1 DEF SaveCommit, TypeOK, PageRow
  <2>7. QED BY <1>0, <1>7, <1>8, <2>1, <2>3, <2>4, <2>5, <2>6 DEF SaveCommit, TypeOK
<1>9. CASE SaveUnchanged(s)
  <2>1. tx[s].pc = "commit" /\ BaseVersion(tx[s]) \in Nat /\ Finish(s, BaseVersion(tx[s]))
    BY <1>9, CommitTypes DEF SaveUnchanged
  <2>2. QED BY <1>0, <1>7, <1>9, <2>1 DEF SaveUnchanged, TypeOK
<1>10. CASE SaveAbort(s)
  <2>1. /\ tx' \in [Sessions -> Tx] /\ locked' \in SUBSET PageIds
        /\ \A r \in Sessions : tx'[r].pc # "idle" => tx'[r].key \in Keys
        /\ \A r \in Sessions : tx'[r].pc \in {"read", "commit"} => tx'[r].page \in PageIds
    BY <1>0, <1>10 DEF SaveAbort, TypeOK, Tx, IdleTx, Draft, Blank
  <2>2. QED BY <1>0, <1>10, <2>1 DEF SaveAbort, TypeOK
<1>11. ASSUME NEW k \in Keys, DeletePage(s, k) PROVE TypeOK'
  <2>1. PICK p \in Saved(k) :
           /\ pages' = [pages EXCEPT ![p] = None]
           /\ objects' = [o \in Objects |-> IF o \in ObjectsOn(p) THEN None ELSE objects[o]]
           /\ pageVersions' = {r \in pageVersions : r.page # p}
           /\ objectVersions' = {r \in objectVersions : r.page # p}
    BY <1>11 DEF DeletePage
  <2>2. QED BY <1>0, <1>11, <2>1 DEF DeletePage, TypeOK
<1>12. ASSUME NEW k \in Keys, NEW on \in BOOLEAN, SetTemplate(s, k, on) PROVE TypeOK'
  <2>1. pages' \in [PageIds -> PageRow \cup {None}]
    BY <1>0, <1>12 DEF SetTemplate, TypeOK, PageRow, Saved, Live
  <2>2. QED BY <1>0, <1>12, <2>1 DEF SetTemplate, TypeOK
<1>13. QED
  BY <1>1, <1>2, <1>3, <1>4, <1>5, <1>6, <1>8, <1>9, <1>10, <1>11, <1>12

(* The tables after a save: which rows join the history. *)
LEMMA CommitHistory ==
    ASSUME Core, NEW s \in Sessions, SaveCommit(s), NEW p \in PageIds, NEW o \in Objects
    PROVE  Recorded(p, o)' =
              IF p = tx[s].page /\ o \in Touched(tx[s])
              THEN Recorded(p, o) \cup {NextObjectVersion(tx[s], o)}
              ELSE Recorded(p, o)
<1>1. objectVersions' = objectVersions \cup {VersionRow(tx[s], q) : q \in Touched(tx[s])}
  BY DEF SaveCommit
<1>2. \A q \in Objects :
         /\ VersionRow(tx[s], q).page = tx[s].page
         /\ VersionRow(tx[s], q).object = q
         /\ VersionRow(tx[s], q).version = NextObjectVersion(tx[s], q)
  BY DEF VersionRow
<1>3. Touched(tx[s]) \subseteq Objects
  BY DEF Touched
<1>4. QED BY <1>1, <1>2, <1>3 DEF Recorded

(* Histories keep a largest version: nothing but a save adds to them. *)
LEMMA LatestStep ==
    ASSUME Core, Next
    PROVE  LatestExists'
<1> SUFFICES ASSUME NEW p \in PageIds, NEW o \in Objects
             PROVE  HasLargest(Recorded(p, o)')
  BY DEF LatestExists, HasLargest
<1>1. HasLargest(Recorded(p, o))
  BY DEF Core, LatestExists
<1>2. ASSUME UNCHANGED objectVersions PROVE HasLargest(Recorded(p, o)')
  BY <1>1, <1>2 DEF Recorded
<1>3. ASSUME NEW s \in Sessions, SaveCommit(s) PROVE HasLargest(Recorded(p, o)')
  <2>1. NextObjectVersion(tx[s], o) \in Nat
    BY <1>3, CommitTypes DEF SaveCommit
  <2>2. Recorded(p, o) \in SUBSET Nat
    BY RecordedIsNat DEF Core
  <2>3. HasLargest(Recorded(p, o) \cup {NextObjectVersion(tx[s], o)})
    BY <1>1, <2>1, <2>2, LargestAfterAdding
  <2>4. QED BY <1>1, <1>3, <2>3, CommitHistory
<1>4. ASSUME NEW s \in Sessions, NEW k \in Keys, DeletePage(s, k)
      PROVE  HasLargest(Recorded(p, o)')
  <2>1. PICK q \in PageIds : objectVersions' = {r \in objectVersions : r.page # q}
    BY <1>4 DEF DeletePage, Saved, Live
  <2>2. CASE p = q
    BY <2>1, <2>2 DEF Recorded, HasLargest
  <2>3. CASE p # q
    <3>1. Recorded(p, o)' = Recorded(p, o)
      BY <2>1, <2>3 DEF Recorded
    <3>2. QED BY <1>1, <3>1
  <2>4. QED BY <2>2, <2>3
<1>5. QED
  BY <1>2, <1>3, <1>4
  DEF Next, Edit, Load, LoadTemplate, SaveBegin, SaveInsert, SaveRead, SaveUnchanged,
      SaveAbort,
      SetTemplate

(* Closing a save frees its page and leaves every other lock in place. *)
LEMMA LockAfterClose ==
    ASSUME Core, NEW s \in Sessions, UNCHANGED <<used>>,
           tx' = [tx EXCEPT ![s] = IdleTx], locked' = locked \ {tx[s].page},
           Live' \subseteq used,
           \A p \in PageIds : p # tx[s].page \/ ~Held(s) => (p \in Live' <=> p \in Live)
    PROVE  LockInv'
<1>1. \A r \in Sessions : Held(r)' => r # s /\ Held(r) /\ tx'[r] = tx[r]
  BY DEF Core, TypeOK, Held, IdleTx
<1>2. \A r \in Sessions : Held(r)' => tx[r].page \in PageIds /\ tx[r].page # tx[s].page
  <2> SUFFICES ASSUME NEW r \in Sessions, Held(r)'
               PROVE  tx[r].page \in PageIds /\ tx[r].page # tx[s].page
    OBVIOUS
  <2>1. r # s /\ Held(r) /\ tx[r].page \in PageIds
    BY <1>1 DEF Core, TypeOK, Held
  <2>2. CASE Held(s)
    BY <2>1, <2>2 DEF Core, LockInv
  <2>3. CASE ~Held(s)
    BY <2>1, <2>3, ConstantsAssumption DEF Core, LockInv
  <2>4. QED BY <2>1, <2>2, <2>3
<1>3. \A r \in Sessions : ~Held(r)' => tx'[r].page = None
  BY DEF Core, TypeOK, LockInv, Held, IdleTx
<1>4. QED BY <1>1, <1>2, <1>3 DEF Core, LockInv

(* Row locks stay exclusive, one proof step per action. *)
LEMMA LockStep ==
    ASSUME Core, Next
    PROVE  LockInv'
<1>0. TypeOK /\ LockInv
  BY DEF Core
<1>1. ASSUME UNCHANGED <<used, locked, tx>>, Live' = Live PROVE LockInv'
  BY <1>0, <1>1 DEF LockInv, Held
<1>2. ASSUME NEW s \in Sessions, NEW k \in Keys, NEW d \in Drafts(s, k), SaveBegin(s, k, d)
      PROVE  LockInv'
  <2>1. used' = used /\ Live' = Live
    BY <1>2 DEF SaveBegin, Live
  <2>2. CASE \E p \in Saved(k) : RowFree(p) /\ locked' = locked \cup {p} /\
              tx' = [tx EXCEPT ![s] = [IdleTx EXCEPT !.pc = "read", !.key = k,
                                                     !.page = p, !.want = d]]
    <3>1. PICK p \in Live : p \notin locked /\ locked' = locked \cup {p} /\
              tx' = [tx EXCEPT ![s] = [IdleTx EXCEPT !.pc = "read", !.key = k,
                                                     !.page = p, !.want = d]]
      BY <2>2 DEF Saved, RowFree
    <3>2. tx'[s].page = p /\ tx'[s].fresh = FALSE /\ Held(s)'
      BY <1>0, <3>1 DEF TypeOK, IdleTx, Held
    <3>3. \A r \in Sessions \ {s} : tx'[r] = tx[r] /\ (Held(r)' <=> Held(r))
      BY <1>0, <3>1 DEF TypeOK, Held
    <3>4. QED BY <1>0, <2>1, <3>1, <3>2, <3>3 DEF LockInv
  <2>3. CASE locked' = locked /\
              tx' = [tx EXCEPT ![s] = [IdleTx EXCEPT !.pc = "insert", !.key = k,
                                                     !.want = d]]
    <3>1. \A r \in Sessions : Held(r)' => r # s /\ Held(r) /\ tx'[r] = tx[r]
      BY <1>0, <2>3 DEF TypeOK, IdleTx, Held
    <3>2. \A r \in Sessions : ~Held(r)' => tx'[r].page = None
      BY <1>0, <1>2, <2>3 DEF TypeOK, LockInv, Held, IdleTx, SaveBegin
    <3>3. QED BY <1>0, <2>1, <2>3, <3>1, <3>2 DEF LockInv
  <2>4. QED BY <1>2, <2>2, <2>3 DEF SaveBegin
<1>3. ASSUME NEW s \in Sessions, SaveInsert(s) PROVE LockInv'
  <2>1. PICK p \in PageIds \ used :
            /\ used' = used \cup {p} /\ locked' = locked \cup {p}
            /\ tx' = [tx EXCEPT ![s] = [tx[s] EXCEPT !.pc = "read", !.page = p,
                                                     !.fresh = TRUE]]
    BY <1>0, <1>3 DEF SaveInsert, TypeOK, Tx
  <2>2. Live' = Live
    BY <1>3 DEF SaveInsert, Live
  <2>3. tx'[s].page = p /\ tx'[s].fresh = TRUE /\ Held(s)'
    BY <1>0, <2>1 DEF TypeOK, Tx, Held
  <2>4. \A r \in Sessions \ {s} : tx'[r] = tx[r] /\ (Held(r)' <=> Held(r))
    BY <1>0, <2>1 DEF TypeOK, Held
  <2>5. QED BY <1>0, <2>1, <2>2, <2>3, <2>4 DEF LockInv
<1>4. ASSUME NEW s \in Sessions, SaveRead(s) PROVE LockInv'
  <2>1. Live' = Live /\ used' = used /\ locked' = locked
    BY <1>4 DEF SaveRead, Live
  <2>2. \A r \in Sessions : /\ Held(r)' <=> Held(r)
                            /\ tx'[r].page = tx[r].page /\ tx'[r].fresh = tx[r].fresh
    BY <1>0, <1>4 DEF SaveRead, TypeOK, Tx, Held
  <2>3. QED BY <1>0, <2>1, <2>2 DEF LockInv
<1>5. ASSUME NEW s \in Sessions, SaveCommit(s) PROVE LockInv'
  <2>1. Held(s) /\ tx[s].page \in PageIds /\ tx[s].page \in used
    BY <1>0, <1>5 DEF SaveCommit, Held, TypeOK, LockInv
  <2>2. Live' = Live \cup {tx[s].page}
    <3>1. pages'[tx[s].page] \in PageRow
      <4>1. ~tx[s].fresh => pages[tx[s].page] \in PageRow
        BY <1>0, <2>1 DEF LockInv, Live, TypeOK
      <4>2. tx[s].key \in Keys /\ BaseVersion(tx[s]) \in Nat /\ tx[s].fresh \in BOOLEAN
        BY <1>0, <1>5, CommitTypes DEF SaveCommit, TypeOK, Tx
      <4>3. [key |-> tx[s].key, version |-> BaseVersion(tx[s]) + 1,
             template |-> IF tx[s].fresh THEN FALSE ELSE pages[tx[s].page].template]
               \in PageRow
        <5>1. CASE tx[s].fresh
          BY <4>2, <5>1 DEF PageRow
        <5>2. CASE ~tx[s].fresh
          BY <4>1, <4>2, <5>2 DEF PageRow
        <5>3. QED BY <5>1, <5>2
      <4>4. QED BY <1>0, <1>5, <2>1, <4>3 DEF SaveCommit, TypeOK
    <3>2. \A p \in PageIds : p # tx[s].page => pages'[p] = pages[p]
      BY <1>0, <1>5 DEF SaveCommit, TypeOK
    <3>3. QED BY <2>1, <3>1, <3>2, ConstantsAssumption DEF Live
  <2>3. QED BY <1>0, <1>5, <2>1, <2>2, LockAfterClose DEF SaveCommit, Finish, LockInv
<1>6. ASSUME NEW s \in Sessions, SaveUnchanged(s) PROVE LockInv'
  <2>1. Live' = Live
    BY <1>6 DEF SaveUnchanged, Live
  <2>2. QED BY <1>0, <1>6, <2>1, LockAfterClose DEF SaveUnchanged, Finish, LockInv
<1>7. ASSUME NEW s \in Sessions, SaveAbort(s) PROVE LockInv'
  <2>1. Live' = Live
    BY <1>7 DEF SaveAbort, Live
  <2>2. QED BY <1>0, <1>7, <2>1, LockAfterClose DEF SaveAbort, LockInv
<1>8. ASSUME NEW s \in Sessions, NEW k \in Keys, DeletePage(s, k) PROVE LockInv'
  <2>1. PICK p \in Live : p \notin locked /\ pages' = [pages EXCEPT ![p] = None]
    BY <1>8 DEF DeletePage, Saved, RowFree
  <2>2. Live' = Live \ {p} /\ UNCHANGED <<used, locked, tx>>
    BY <1>0, <1>8, <2>1 DEF TypeOK, Live, DeletePage
  <2>3. QED BY <1>0, <2>1, <2>2 DEF LockInv, Held
<1>9. ASSUME NEW s \in Sessions, NEW k \in Keys, NEW on \in BOOLEAN, SetTemplate(s, k, on)
      PROVE  LockInv'
  <2>1. PICK p \in Live : pages' = [pages EXCEPT ![p].template = on]
    BY <1>9 DEF SetTemplate, Saved
  <2>2. pages[p] \in PageRow /\ pages'[p] \in PageRow
    BY <1>0, <2>1 DEF TypeOK, Live, PageRow
  <2>3. Live' = Live
    BY <1>0, <2>1, <2>2, ConstantsAssumption DEF TypeOK, Live
  <2>4. QED BY <1>1, <1>9, <2>3 DEF SetTemplate
<1>10. ASSUME UNCHANGED <<pages, used, locked, tx>> PROVE LockInv'
  BY <1>1, <1>10 DEF Live
<1>11. QED
  BY <1>2, <1>3, <1>4, <1>5, <1>6, <1>7, <1>8, <1>9, <1>10 DEF Next, Edit, Load, LoadTemplate

(* Core is kept by every step and by stuttering. *)
LEMMA CoreStep == Core /\ [Next]_vars => Core'
<1> SUFFICES ASSUME Core, [Next]_vars PROVE Core'
  OBVIOUS
<1>1. CASE Next
  BY <1>1, TypeStep, LatestStep, LockStep DEF Core
<1>2. CASE UNCHANGED vars
  BY <1>2
  DEF vars, Core, TypeOK, LatestExists, HasLargest, Recorded, LockInv, Held, Live
<1>3. QED BY <1>1, <1>2

(* The types, the existence of a latest version and the row locks hold in  *)
(* every reachable state.                                                  *)
THEOREM CoreHolds == Spec => []Core
BY CoreInit, CoreStep, PTL DEF Spec

(* Every reachable state of the tables, of the open saves and of the       *)
(* editors is well typed: an open save of handleSaveSavedPage past its     *)
(* SELECT or INSERT always has a page to write to.                         *)
THEOREM TypeCorrect == Spec => []TypeOK
<1>1. Core => TypeOK
  BY DEF Core
<1>2. QED BY <1>1, CoreHolds, PTL

-----------------------------------------------------------------------------
(* The optimistic lock.                                                    *)

(* An open save of an existing page keeps the base version it was checked  *)
(* against, because nobody else can write the locked row.                  *)
LEMMA BaseStep ==
    ASSUME Core, BaseSeen, [Next]_vars
    PROVE  BaseSeen'
<1>0. TypeOK /\ LockInv /\ TypeOK' /\ LockInv'
  BY CoreStep DEF Core
<1>2. ASSUME NEW s \in Sessions, NEW k \in Keys, NEW d \in Drafts(s, k), SaveBegin(s, k, d)
      PROVE  BaseSeen'
  <2>1. CASE \E p \in Saved(k) : view[s].base = pages[p].version /\
              tx' = [tx EXCEPT ![s] = [IdleTx EXCEPT !.pc = "read", !.key = k,
                                                     !.page = p, !.want = d]]
    <3>1. PICK p \in Saved(k) : view[s].base = pages[p].version /\
              tx' = [tx EXCEPT ![s] = [IdleTx EXCEPT !.pc = "read", !.key = k,
                                                     !.page = p, !.want = d]]
      BY <2>1
    <3>2. tx'[s].page = p /\ tx'[s].key = k /\ pages[p].key = k
      BY <1>0, <3>1 DEF TypeOK, IdleTx, Saved
    <3>3. UNCHANGED <<pages, view>>
      BY <1>2 DEF SaveBegin
    <3>4. \A r \in Sessions \ {s} : tx'[r] = tx[r]
      BY <1>0, <3>1 DEF TypeOK
    <3>5. QED BY <3>1, <3>2, <3>3, <3>4 DEF BaseSeen, Held
  <2>2. CASE tx' = [tx EXCEPT ![s] = [IdleTx EXCEPT !.pc = "insert", !.key = k, !.want = d]]
    <3>1. \A r \in Sessions : Held(r)' => r # s /\ tx'[r] = tx[r]
      BY <1>0, <2>2 DEF TypeOK, IdleTx, Held
    <3>2. UNCHANGED <<pages, view>>
      BY <1>2 DEF SaveBegin
    <3>3. QED BY <3>1, <3>2 DEF BaseSeen, Held
  <2>3. QED BY <1>2, <2>1, <2>2 DEF SaveBegin, BaseIsCurrent
<1>3. ASSUME NEW s \in Sessions, SaveInsert(s) PROVE BaseSeen'
  <2>1. PICK p \in PageIds \ used :
            tx' = [tx EXCEPT ![s] = [tx[s] EXCEPT !.pc = "read", !.page = p, !.fresh = TRUE]]
    BY <1>0, <1>3 DEF SaveInsert, TypeOK, Tx
  <2>2. tx'[s].fresh = TRUE /\ \A r \in Sessions \ {s} : tx'[r] = tx[r]
    BY <1>0, <2>1 DEF TypeOK, Tx
  <2>3. UNCHANGED <<pages, view>>
    BY <1>3 DEF SaveInsert
  <2>4. \A r \in Sessions : Held(r)' /\ ~tx'[r].fresh =>
           Held(r) /\ ~tx[r].fresh /\ tx'[r] = tx[r]
    BY <2>2 DEF Held
  <2>5. QED BY <2>3, <2>4 DEF BaseSeen
<1>4. ASSUME NEW s \in Sessions, SaveRead(s) PROVE BaseSeen'
  <2>1. \A r \in Sessions : /\ Held(r)' => Held(r) /\ tx'[r].key = tx[r].key
                            /\ tx'[r].page = tx[r].page /\ tx'[r].fresh = tx[r].fresh
    BY <1>0, <1>4 DEF SaveRead, TypeOK, Tx, Held
  <2>2. QED BY <1>4, <2>1 DEF SaveRead, BaseSeen
<1>5. ASSUME NEW s \in Sessions, tx' = [tx EXCEPT ![s] = IdleTx],
             \A r \in Sessions \ {s} : view'[r] = view[r],
             \A p \in Live : p # tx[s].page \/ ~Held(s) =>
                pages'[p].version = pages[p].version /\ pages'[p].key = pages[p].key
      PROVE  BaseSeen'
  <2>1. \A r \in Sessions : Held(r)' => r # s /\ Held(r) /\ tx'[r] = tx[r]
    BY <1>0, <1>5 DEF TypeOK, IdleTx, Held
  <2>2. \A r \in Sessions : Held(r)' /\ ~tx'[r].fresh =>
           tx[r].page \in Live /\ (tx[r].page # tx[s].page \/ ~Held(s))
    BY <1>0, <2>1 DEF LockInv, TypeOK, Held, Live
  <2>3. QED BY <1>5, <2>1, <2>2 DEF BaseSeen
<1>6. ASSUME NEW s \in Sessions, SaveCommit(s) PROVE BaseSeen'
  <2>1. Held(s) /\ \A p \in PageIds : p # tx[s].page => pages'[p] = pages[p]
    BY <1>0, <1>6 DEF SaveCommit, TypeOK, Held
  <2>2. \A r \in Sessions \ {s} : view'[r] = view[r]
    BY <1>0, <1>6 DEF SaveCommit, Finish, TypeOK
  <2>3. QED BY <1>5, <1>6, <2>1, <2>2 DEF SaveCommit, Finish, Live
<1>7. ASSUME NEW s \in Sessions, SaveUnchanged(s) \/ SaveAbort(s) PROVE BaseSeen'
  <2>1. pages' = pages /\ tx' = [tx EXCEPT ![s] = IdleTx]
    BY <1>7 DEF SaveUnchanged, SaveAbort, Finish
  <2>2. \A r \in Sessions \ {s} : view'[r] = view[r]
    BY <1>0, <1>7 DEF SaveUnchanged, SaveAbort, Finish, TypeOK
  <2>3. QED BY <1>5, <2>1, <2>2
<1>8. ASSUME NEW s \in Sessions, NEW k \in Keys, DeletePage(s, k) PROVE BaseSeen'
  <2>1. PICK p \in PageIds \ locked : pages' = [pages EXCEPT ![p] = None]
    BY <1>8 DEF DeletePage, Saved, RowFree, Live
  <2>2. UNCHANGED <<tx, view>>
    BY <1>8 DEF DeletePage
  <2>3. \A r \in Sessions : Held(r) => tx[r].page # p /\ pages'[tx[r].page] = pages[tx[r].page]
    BY <1>0, <2>1 DEF LockInv, TypeOK, Held
  <2>4. QED BY <2>2, <2>3 DEF BaseSeen, Held
<1>9. ASSUME NEW s \in Sessions, NEW k \in Keys, NEW on \in BOOLEAN, SetTemplate(s, k, on)
      PROVE  BaseSeen'
  <2>1. PICK p \in PageIds \ locked : pages' = [pages EXCEPT ![p].template = on]
    BY <1>9 DEF SetTemplate, Saved, RowFree, Live
  <2>2. UNCHANGED <<tx, view>>
    BY <1>9 DEF SetTemplate
  <2>3. \A r \in Sessions : Held(r) => pages'[tx[r].page] = pages[tx[r].page]
    BY <1>0, <2>1 DEF LockInv, TypeOK, Held
  <2>4. QED BY <2>2, <2>3 DEF BaseSeen, Held
<1>10. ASSUME NEW s \in Sessions, tx[s].pc = "idle", UNCHANGED <<pages, tx>>,
              \A r \in Sessions \ {s} : view'[r] = view[r]
       PROVE  BaseSeen'
  BY <1>10 DEF BaseSeen, Held
<1>11. ASSUME NEW s \in Sessions, NEW k \in Keys, Load(s, k) PROVE BaseSeen'
  BY <1>0, <1>10, <1>11 DEF Load, TypeOK
<1>12. ASSUME NEW s \in Sessions, NEW p \in PageIds, LoadTemplate(s, p) PROVE BaseSeen'
  BY <1>0, <1>10, <1>12 DEF LoadTemplate, TypeOK
<1>13. CASE UNCHANGED vars
  BY <1>13 DEF vars, BaseSeen, Held
<1>14. QED
  BY <1>2, <1>3, <1>4, <1>6, <1>7, <1>8, <1>9, <1>11, <1>12, <1>13 DEF Next, Edit

(* Open saves keep the base version they checked. *)
THEOREM BaseHolds == Spec => []BaseSeen
<1>1. Init => BaseSeen
  BY DEF Init, BaseSeen, Held, IdleTx
<1>2. Core /\ BaseSeen /\ [Next]_vars => BaseSeen'
  BY BaseStep
<1>3. QED BY <1>1, <1>2, CoreHolds, PTL DEF Spec

(* No lost update: whatever the interleaving of the tabs, a new version of *)
(* a page is written by a save whose base version is the version replaced. *)
THEOREM UpdatesAreNotLost == Spec => NoLostUpdate
<1>1. ASSUME Core, BaseSeen, [Next]_vars
      PROVE  [\A p \in Live : pages'[p] # None /\ pages'[p].version # pages[p].version =>
                 \E s \in Sessions :
                     /\ tx[s].pc = "commit" /\ tx[s].page = p /\ tx'[s].pc = "idle"
                     /\ view[s].page = p => view[s].base = pages[p].version]_vars
  <2> SUFFICES ASSUME Next, NEW p \in Live, pages'[p] # None,
                      pages'[p].version # pages[p].version
               PROVE  \E s \in Sessions :
                          /\ tx[s].pc = "commit" /\ tx[s].page = p /\ tx'[s].pc = "idle"
                          /\ view[s].page = p => view[s].base = pages[p].version
    BY <1>1
  <2>0. TypeOK /\ LockInv
    BY <1>1 DEF Core
  <2>1. \E s \in Sessions : SaveCommit(s) /\ tx[s].page = p
    <3>1. ASSUME NEW s \in Sessions, NEW k \in Keys, NEW on \in BOOLEAN,
                 SetTemplate(s, k, on)
          PROVE  FALSE
      BY <2>0, <3>1 DEF SetTemplate, TypeOK, PageRow, Saved, Live
    <3>2. ASSUME NEW s \in Sessions, NEW k \in Keys, DeletePage(s, k) PROVE FALSE
      BY <2>0, <3>2 DEF DeletePage, TypeOK, Live, Saved
    <3>3. ASSUME NEW s \in Sessions, SaveCommit(s), tx[s].page # p PROVE FALSE
      BY <2>0, <3>3 DEF SaveCommit, TypeOK, Live
    <3>4. QED
      BY <3>1, <3>2, <3>3
      DEF Next, Edit, Load, LoadTemplate, SaveBegin, SaveInsert, SaveRead, SaveUnchanged,
      SaveAbort
  <2>2. PICK s \in Sessions : SaveCommit(s) /\ tx[s].page = p
    BY <2>1
  <2>3. tx[s].pc = "commit" /\ tx'[s].pc = "idle"
    BY <2>0, <2>2 DEF SaveCommit, Finish, TypeOK, IdleTx
  <2>4. view[s].base = pages[p].version
    BY <1>1, <2>0, <2>2, <2>3 DEF BaseSeen, Held, LockInv
  <2>5. QED BY <2>2, <2>3, <2>4
<1>2. QED BY <1>1, CoreHolds, BaseHolds, PTL DEF Spec, NoLostUpdate

-----------------------------------------------------------------------------
(* The history of a page.                                                  *)

(* A save only adds to the history; the rows it writes are in it.          *)
LEMMA CommitRows ==
    ASSUME Core, NEW s \in Sessions, SaveCommit(s)
    PROVE  /\ objectVersions \subseteq objectVersions'
           /\ \A o \in Touched(tx[s]) : VersionRow(tx[s], o) \in objectVersions'
           /\ \A o \in Objects :
                 objects'[o] = IF Changed(tx[s], o)
                               THEN [page |-> tx[s].page,
                                     version |-> NextObjectVersion(tx[s], o),
                                     content |-> tx[s].want[o]]
                               ELSE IF Removed(tx[s], o) THEN None ELSE objects[o]
BY DEF SaveCommit, WrittenObjects

(* Every row, and so every manifest entry, has its snapshot.               *)
LEMMA SnapshotStep ==
    ASSUME Core, RowHasSnapshot, RestorableHistory, [Next]_vars
    PROVE  RowHasSnapshot' /\ RestorableHistory'
<1>0. TypeOK /\ LockInv
  BY DEF Core
<1>1. ASSUME UNCHANGED <<objects, pageVersions, objectVersions>>
      PROVE  RowHasSnapshot' /\ RestorableHistory'
  BY <1>1 DEF RowHasSnapshot, RestorableHistory
<1>2. ASSUME NEW s \in Sessions, SaveCommit(s) PROVE RowHasSnapshot' /\ RestorableHistory'
  <2> DEFINE t == tx[s]
  <2>1. RowHasSnapshot'
    <3> SUFFICES ASSUME NEW o \in Objects, objects'[o] # None
                 PROVE  \E h \in objectVersions' :
                           /\ h.page = objects'[o].page /\ h.object = o
                           /\ h.version = objects'[o].version /\ h.operation # "delete"
      BY DEF RowHasSnapshot
    <3>1. CASE Changed(t, o)
      <4>1. ~Removed(t, o) /\ o \in Touched(t)
        BY <3>1 DEF Changed, Removed, Touched
      <4>2. VersionRow(t, o) \in objectVersions'
        BY <1>2, <4>1 DEF SaveCommit
      <4>3. /\ VersionRow(t, o).page = t.page /\ VersionRow(t, o).object = o
            /\ VersionRow(t, o).version = NextObjectVersion(t, o)
            /\ VersionRow(t, o).operation # "delete"
        BY <4>1 DEF VersionRow
      <4>4. objects'[o].page = t.page /\ objects'[o].version = NextObjectVersion(t, o)
        <5>1. objects'[o] = [page |-> t.page, version |-> NextObjectVersion(t, o),
                             content |-> t.want[o]]
          BY <1>2, <3>1, CommitRows
        <5>2. QED BY <5>1
      <4>5. QED BY <4>2, <4>3, <4>4
    <3>2. CASE ~Changed(t, o)
      <4>1. objects'[o] = objects[o]
        BY <1>2, <3>2, CommitRows
      <4>2. QED BY <1>2, <4>1, CommitRows DEF RowHasSnapshot
    <3>3. QED BY <3>1, <3>2
  <2>2. RestorableHistory'
    <3> SUFFICES ASSUME NEW r \in pageVersions', NEW o \in Objects, r.manifest[o] # 0
                 PROVE  \E h \in objectVersions' :
                           /\ h.page = r.page /\ h.object = o
                           /\ h.version = r.manifest[o] /\ h.operation # "delete"
      BY DEF RestorableHistory
    <3>1. CASE r \in pageVersions
      BY <1>2, <3>1, CommitRows DEF RestorableHistory
    <3>2. CASE r \notin pageVersions
      <4>1. /\ r.page = t.page
            /\ r.manifest = Manifest(t.page, objects')
        BY <1>2, <3>2 DEF SaveCommit
      <4>2. objects'[o] # None /\ objects'[o].page = r.page
            /\ objects'[o].version = r.manifest[o]
        BY <4>1 DEF Manifest
      <4>3. QED BY <2>1, <4>2 DEF RowHasSnapshot
    <3>3. QED BY <3>1, <3>2
  <2>3. QED BY <2>1, <2>2
<1>3. ASSUME NEW s \in Sessions, NEW k \in Keys, DeletePage(s, k)
      PROVE  RowHasSnapshot' /\ RestorableHistory'
  <2>1. PICK p \in Saved(k) :
           /\ objects' = [o \in Objects |-> IF o \in ObjectsOn(p) THEN None ELSE objects[o]]
           /\ pageVersions' = {r \in pageVersions : r.page # p}
           /\ objectVersions' = {r \in objectVersions : r.page # p}
    BY <1>3 DEF DeletePage
  <2>2. \A o \in Objects : objects'[o] # None =>
           objects'[o] = objects[o] /\ objects[o].page # p
    BY <2>1 DEF ObjectsOn
  <2>3. RowHasSnapshot'
    BY <2>1, <2>2 DEF RowHasSnapshot
  <2>4. RestorableHistory'
    BY <2>1 DEF RestorableHistory
  <2>5. QED BY <2>3, <2>4
<1>4. CASE UNCHANGED vars
  BY <1>1, <1>4 DEF vars
<1>5. QED
  BY <1>1, <1>2, <1>3, <1>4
  DEF Next, Edit, Load, LoadTemplate, SaveBegin, SaveInsert, SaveRead, SaveUnchanged,
      SaveAbort,
      SetTemplate

(* Every version of every page can be restored in full, although drafts    *)
(* made from templates move object rows between pages.                     *)
THEOREM HistoryIsRestorable == Spec => []RestorableHistory
<1>1. Init => RowHasSnapshot /\ RestorableHistory
  BY DEF Init, RowHasSnapshot, RestorableHistory, Blank
<1>2. Core /\ RowHasSnapshot /\ RestorableHistory /\ [Next]_vars
      => RowHasSnapshot' /\ RestorableHistory'
  BY SnapshotStep
<1>3. QED BY <1>1, <1>2, CoreHolds, PTL DEF Spec

-----------------------------------------------------------------------------
(* The unique index.                                                       *)

(* The insert's check of the unique index covers rows that are still       *)
(* invisible, and a save never renames its page.                           *)
LEMMA KeyStep ==
    ASSUME Core, BaseSeen, KeyInv, OnePagePerKey, [Next]_vars
    PROVE  KeyInv' /\ OnePagePerKey'
<1>0. TypeOK /\ LockInv
  BY DEF Core
<1>1. ASSUME \A p \in PageIds : p \in Live' => p \in Live /\ pages'[p].key = pages[p].key,
             \A s \in Sessions : Held(s)' => /\ Held(s) /\ tx'[s].fresh = tx[s].fresh
                                             /\ tx'[s].key = tx[s].key
      PROVE  KeyInv' /\ OnePagePerKey'
  <2>1. OnePagePerKey'
    BY <1>1 DEF OnePagePerKey, Live
  <2>2. KeyInv'
    BY <1>1 DEF KeyInv, Live
  <2>3. QED BY <2>1, <2>2
<1>2. ASSUME NEW s \in Sessions, NEW k \in Keys, NEW d \in Drafts(s, k), SaveBegin(s, k, d)
      PROVE  KeyInv' /\ OnePagePerKey'
  <2>1. pages' = pages /\ Live' = Live
    BY <1>2 DEF SaveBegin, Live
  <2>2. ~tx'[s].fresh /\ \A r \in Sessions \ {s} : tx'[r] = tx[r]
    <3>1. ASSUME NEW p, tx' = [tx EXCEPT ![s] = [IdleTx EXCEPT !.pc = "read", !.key = k,
                                                               !.page = p, !.want = d]]
          PROVE  ~tx'[s].fresh /\ \A r \in Sessions \ {s} : tx'[r] = tx[r]
      BY <1>0, <3>1 DEF IdleTx, TypeOK
    <3>2. ASSUME tx' = [tx EXCEPT ![s] = [IdleTx EXCEPT !.pc = "insert", !.key = k,
                                                        !.want = d]]
          PROVE  ~tx'[s].fresh /\ \A r \in Sessions \ {s} : tx'[r] = tx[r]
      BY <1>0, <3>2 DEF IdleTx, TypeOK
    <3>3. QED BY <1>2, <3>1, <3>2 DEF SaveBegin
  <2>3. \A r \in Sessions : Held(r)' /\ tx'[r].fresh => r # s /\ Held(r) /\ tx'[r] = tx[r]
    BY <2>2 DEF Held
  <2>4. QED BY <2>1, <2>3 DEF KeyInv, OnePagePerKey
<1>3. ASSUME NEW s \in Sessions, SaveInsert(s) PROVE KeyInv' /\ OnePagePerKey'
  <2>1. pages' = pages /\ Live' = Live
    BY <1>3 DEF SaveInsert, Live
  <2>2. PICK p \in PageIds : tx' = [tx EXCEPT ![s] = [tx[s] EXCEPT !.pc = "read", !.page = p,
                                                              !.fresh = TRUE]]
    BY <1>0, <1>3 DEF SaveInsert, TypeOK, Tx
  <2>3. tx'[s].key = tx[s].key
    BY <1>0, <2>2 DEF TypeOK, Tx
  <2>4. \A r \in Sessions \ {s} : tx'[r] = tx[r] /\ (Held(r)' <=> Held(r))
    BY <1>0, <2>2 DEF TypeOK, Held
  <2>5. Saved(tx[s].key) = {} /\ \A r \in Sessions \ {s} : ~(tx[r].fresh /\ tx[r].key = tx[s].key)
    BY <1>3 DEF SaveInsert, KeyFree
  <2>6. QED BY <2>1, <2>3, <2>4, <2>5 DEF KeyInv, OnePagePerKey, Saved
<1>4. ASSUME NEW s \in Sessions, SaveCommit(s) PROVE KeyInv' /\ OnePagePerKey'
  <2> DEFINE t == tx[s]
  <2>1. Held(s) /\ t.page \in PageIds /\ t.key \in Keys
    BY <1>0, <1>4 DEF SaveCommit, Held, TypeOK
  <2>2. \A p \in PageIds : p # t.page => pages'[p] = pages[p]
    BY <1>0, <1>4 DEF SaveCommit, TypeOK
  <2>3. pages'[t.page].key = t.key
    BY <1>0, <1>4, <2>1 DEF SaveCommit, TypeOK
  <2>4. \A p \in Live : p # t.page => pages[p].key # t.key
    <3>1. CASE t.fresh
      BY <2>1, <3>1 DEF KeyInv
    <3>2. CASE ~t.fresh
      <4>1. t.page \in Live /\ pages[t.page].key = t.key
        BY <1>0, <2>1, <3>2 DEF BaseSeen, LockInv
      <4>2. QED BY <4>1 DEF OnePagePerKey
    <3>3. QED BY <3>1, <3>2
  <2>5. OnePagePerKey'
    BY <2>1, <2>2, <2>3, <2>4 DEF OnePagePerKey, Live
  <2>6. \A r \in Sessions : Held(r)' => r # s /\ Held(r) /\ tx'[r] = tx[r]
    BY <1>0, <1>4 DEF SaveCommit, Finish, TypeOK, IdleTx, Held
  <2>7. ASSUME NEW r \in Sessions, Held(r)', tx'[r].fresh
        PROVE  \A p \in Live' : pages'[p].key # tx'[r].key
    <3>1. r # s /\ Held(r) /\ tx'[r] = tx[r]
      BY <2>6, <2>7
    <3>2. \A p \in Live : pages[p].key # tx[r].key
      BY <2>7, <3>1 DEF KeyInv
    <3>3. t.key # tx[r].key
      <4>1. CASE t.fresh
        BY <2>1, <2>7, <3>1, <4>1 DEF KeyInv
      <4>2. CASE ~t.fresh
        <5>1. t.page \in Live /\ pages[t.page].key = t.key
          BY <1>0, <2>1, <4>2 DEF BaseSeen, LockInv
        <5>2. QED BY <3>2, <5>1
      <4>3. QED BY <4>1, <4>2
    <3>4. QED BY <2>2, <2>3, <3>1, <3>2, <3>3 DEF Live
  <2>8. \A r, q \in Sessions :
           r # q /\ Held(r)' /\ Held(q)' /\ tx'[r].fresh /\ tx'[q].fresh
           => tx'[r].key # tx'[q].key
    BY <2>6 DEF KeyInv
  <2>9. QED BY <2>5, <2>7, <2>8 DEF KeyInv
<1>5. ASSUME NEW s \in Sessions, SaveRead(s) PROVE KeyInv' /\ OnePagePerKey'
  <2>1. \A r \in Sessions : Held(r)' => /\ Held(r) /\ tx'[r].fresh = tx[r].fresh
                                        /\ tx'[r].key = tx[r].key
    BY <1>0, <1>5 DEF SaveRead, TypeOK, Tx, Held
  <2>2. QED BY <1>1, <1>5, <2>1 DEF SaveRead, Live
<1>6. ASSUME NEW s \in Sessions, SaveUnchanged(s) \/ SaveAbort(s)
      PROVE  KeyInv' /\ OnePagePerKey'
  <2>1. pages' = pages /\ tx' = [tx EXCEPT ![s] = IdleTx]
    BY <1>6 DEF SaveUnchanged, SaveAbort, Finish
  <2>2. \A r \in Sessions : Held(r)' => Held(r) /\ tx'[r] = tx[r]
    BY <1>0, <2>1 DEF TypeOK, IdleTx, Held
  <2>3. QED BY <1>1, <2>1, <2>2 DEF Live
<1>7. ASSUME NEW s \in Sessions, NEW k \in Keys, DeletePage(s, k)
      PROVE  KeyInv' /\ OnePagePerKey'
  <2>1. PICK p \in PageIds : pages' = [pages EXCEPT ![p] = None]
    BY <1>7 DEF DeletePage, Saved, Live
  <2>2. \A q \in PageIds : q \in Live' => q \in Live /\ pages'[q].key = pages[q].key
    BY <1>0, <2>1 DEF TypeOK, Live
  <2>3. tx' = tx
    BY <1>7 DEF DeletePage
  <2>4. QED BY <1>1, <2>2, <2>3 DEF Held
<1>8. ASSUME NEW s \in Sessions, NEW k \in Keys, NEW on \in BOOLEAN, SetTemplate(s, k, on)
      PROVE  KeyInv' /\ OnePagePerKey'
  <2>1. PICK p \in Live : pages' = [pages EXCEPT ![p].template = on]
    BY <1>8 DEF SetTemplate, Saved
  <2>2. pages[p] \in PageRow
    BY <1>0, <2>1 DEF TypeOK, Live
  <2>3. \A q \in PageIds : q \in Live' => q \in Live /\ pages'[q].key = pages[q].key
    BY <1>0, <2>1, <2>2 DEF TypeOK, Live, PageRow
  <2>4. tx' = tx
    BY <1>8 DEF SetTemplate
  <2>5. QED BY <1>1, <2>3, <2>4 DEF Held
<1>9. ASSUME UNCHANGED <<pages, tx>> PROVE KeyInv' /\ OnePagePerKey'
  BY <1>1, <1>9 DEF Live, Held
<1>10. QED
  BY <1>2, <1>3, <1>4, <1>5, <1>6, <1>7, <1>8, <1>9 DEF Next, Edit, Load, LoadTemplate, vars

(* A user never has two pages of one name in a scope, however many tabs    *)
(* create it at once.                                                      *)
THEOREM PagesAreUnique == Spec => []OnePagePerKey
<1>1. Init => KeyInv /\ OnePagePerKey
  BY DEF Init, KeyInv, OnePagePerKey, Held, IdleTx, Live
<1>2. Core /\ BaseSeen /\ KeyInv /\ OnePagePerKey /\ [Next]_vars => KeyInv' /\ OnePagePerKey'
  BY KeyStep
<1>3. QED BY <1>1, <1>2, CoreHolds, BaseHolds, PTL DEF Spec

-----------------------------------------------------------------------------
(* Primary keys of the version tables.                                     *)

(* A save numbers every version it writes above all that the page has.     *)
LEMMA NewVersionIsLarger ==
    ASSUME Core, Monotone, NEW s \in Sessions, tx[s].pc = "commit", NEW o \in Objects
    PROVE  \A v \in Recorded(tx[s].page, o) : v < NextObjectVersion(tx[s], o)
<1>1. tx[s].page \in PageIds /\ tx[s].seen \in [Objects -> StoredObject \cup {None}]
  BY DEF Core, TypeOK, Tx
<1>2. Recorded(tx[s].page, o) \in SUBSET Nat
  BY <1>1, RecordedIsNat DEF Core
<1>3. CASE tx[s].seen[o] # None
  <2>1. tx[s].seen[o].version \in Nat
    BY <1>1, <1>3 DEF StoredObject
  <2>2. \A v \in Recorded(tx[s].page, o) : v <= tx[s].seen[o].version
    BY <1>3 DEF Monotone, SeenIsLatest
  <2>3. QED BY <1>2, <1>3, <2>1, <2>2 DEF NextObjectVersion
<1>4. CASE tx[s].seen[o] = None
  BY <1>1, <1>2, <1>4, LatestIsLargest DEF NextObjectVersion
<1>5. QED BY <1>3, <1>4

(* Version numbers only grow, one proof step per action. *)
LEMMA MonotoneStep ==
    ASSUME Core, Monotone, [Next]_vars
    PROVE  Monotone'
<1>0. TypeOK /\ LockInv /\ TypeOK'
  BY CoreStep DEF Core
<1>1. ASSUME UNCHANGED <<objects, objectVersions>> PROVE RowIsLatest'
  BY <1>1 DEF Monotone, RowIsLatest, Recorded
<1>2. ASSUME UNCHANGED pageVersions,
             \A p \in Live : p \in Live' /\ pages'[p].version = pages[p].version
      PROVE  PageIsLatest'
  BY <1>2 DEF Monotone, PageIsLatest, Live
<1>3. ASSUME UNCHANGED objectVersions,
             \A r \in Sessions : tx'[r].pc = "commit" => tx'[r] = tx[r]
      PROVE  SeenIsLatest'
  BY <1>3 DEF Monotone, SeenIsLatest, Recorded
<1>4. ASSUME NEW s \in Sessions, NEW k \in Keys, NEW d \in Drafts(s, k), SaveBegin(s, k, d)
      PROVE  Monotone'
  <2>1. tx'[s].pc # "commit" /\ \A r \in Sessions \ {s} : tx'[r] = tx[r]
    <3>1. ASSUME NEW p, tx' = [tx EXCEPT ![s] = [IdleTx EXCEPT !.pc = "read", !.key = k,
                                                               !.page = p, !.want = d]]
          PROVE  tx'[s].pc # "commit" /\ \A r \in Sessions \ {s} : tx'[r] = tx[r]
      BY <1>0, <3>1 DEF IdleTx, TypeOK
    <3>2. ASSUME tx' = [tx EXCEPT ![s] = [IdleTx EXCEPT !.pc = "insert", !.key = k,
                                                        !.want = d]]
          PROVE  tx'[s].pc # "commit" /\ \A r \in Sessions \ {s} : tx'[r] = tx[r]
      BY <1>0, <3>2 DEF IdleTx, TypeOK
    <3>3. QED BY <1>4, <3>1, <3>2 DEF SaveBegin
  <2>2. UNCHANGED <<pages, objects, objectVersions, pageVersions>>
    BY <1>4 DEF SaveBegin
  <2>3. QED BY <1>1, <1>2, <1>3, <2>1, <2>2 DEF Monotone, Live
<1>5. ASSUME NEW s \in Sessions, SaveInsert(s) PROVE Monotone'
  <2>1. PICK p \in PageIds : tx' = [tx EXCEPT ![s] = [tx[s] EXCEPT !.pc = "read", !.page = p,
                                                              !.fresh = TRUE]]
    BY <1>0, <1>5 DEF SaveInsert, TypeOK, Tx
  <2>2. tx'[s].pc # "commit" /\ \A r \in Sessions \ {s} : tx'[r] = tx[r]
    BY <1>0, <2>1 DEF TypeOK, Tx
  <2>3. UNCHANGED <<pages, objects, objectVersions, pageVersions>>
    BY <1>5 DEF SaveInsert
  <2>4. QED BY <1>1, <1>2, <1>3, <2>2, <2>3 DEF Monotone, Live
<1>6. ASSUME NEW s \in Sessions, SaveRead(s) PROVE Monotone'
  <2>1. UNCHANGED <<pages, objects, objectVersions, pageVersions>>
    BY <1>6 DEF SaveRead
  <2>2. /\ tx'[s].page = tx[s].page /\ tx'[s].seen = LoadPageObjects(tx[s].page)
        /\ \A r \in Sessions \ {s} : tx'[r] = tx[r]
    BY <1>0, <1>6 DEF SaveRead, TypeOK, Tx
  <2>3. \A o \in Objects : LoadPageObjects(tx[s].page)[o] # None =>
           /\ objects[o] # None /\ objects[o].page = tx[s].page
           /\ LoadPageObjects(tx[s].page)[o].version = objects[o].version
    BY DEF LoadPageObjects, ObjectsOn
  <2>4. SeenIsLatest'
    <3> SUFFICES ASSUME NEW r \in Sessions, NEW o \in Objects, tx'[r].pc = "commit",
                        tx'[r].seen[o] # None
                 PROVE  \A v \in Recorded(tx'[r].page, o) : v <= tx'[r].seen[o].version
      BY <2>1 DEF SeenIsLatest, Recorded
    <3>1. CASE r = s
      BY <2>2, <2>3, <3>1 DEF Monotone, RowIsLatest
    <3>2. CASE r # s
      BY <2>2, <3>2 DEF Monotone, SeenIsLatest
    <3>3. QED BY <3>1, <3>2
  <2>5. QED BY <1>1, <1>2, <2>1, <2>4 DEF Monotone, Live
<1>7. ASSUME NEW s \in Sessions, SaveCommit(s) PROVE Monotone'
  <2> DEFINE t == tx[s]
  <2>1. t.pc = "commit" /\ Held(s) /\ t.page \in PageIds
    BY <1>0, <1>7 DEF SaveCommit, Held, TypeOK
  <2>2. \A o \in Objects : NextObjectVersion(t, o) \in Nat
    BY <2>1, CommitTypes
  <2>3. RowIsLatest'
    <3> SUFFICES ASSUME NEW o \in Objects, objects'[o] # None
                 PROVE  \A v \in Recorded(objects[o].page, o)' : v <= objects'[o].version
      BY DEF RowIsLatest
    <3>0. objects'[o] \in ObjectRow /\ objects'[o].page \in PageIds
      BY <1>0 DEF TypeOK, ObjectRow
    <3>1. Recorded(objects[o].page, o)' =
             IF objects'[o].page = t.page /\ o \in Touched(t)
             THEN Recorded(objects'[o].page, o) \cup {NextObjectVersion(t, o)}
             ELSE Recorded(objects'[o].page, o)
      <4> DEFINE q == objects'[o].page
      <4>1. ASSUME NEW p \in PageIds
            PROVE  Recorded(p, o)' = IF p = t.page /\ o \in Touched(t)
                                     THEN Recorded(p, o) \cup {NextObjectVersion(t, o)}
                                     ELSE Recorded(p, o)
        BY <1>7, CommitHistory
      <4>2. Recorded(objects[o].page, o)' =
               {r.version : r \in {x \in objectVersions' : x.page = q /\ x.object = o}}
        BY DEF Recorded
      <4>3. \A p \in PageIds : Recorded(p, o)' =
               {r.version : r \in {x \in objectVersions' : x.page = p /\ x.object = o}}
        BY DEF Recorded
      <4>4. QED BY <3>0, <4>1, <4>2, <4>3
    <3>2. CASE Changed(t, o)
      <4>1. objects'[o].page = t.page /\ objects'[o].version = NextObjectVersion(t, o)
        <5>1. objects'[o] = [page |-> t.page, version |-> NextObjectVersion(t, o),
                             content |-> t.want[o]]
          BY <1>7, <3>2, CommitRows
        <5>2. QED BY <5>1
      <4>2. \A v \in Recorded(t.page, o) : v \in Nat /\ v < NextObjectVersion(t, o)
        BY <1>0, <2>1, NewVersionIsLarger, RecordedIsNat
      <4>3. QED BY <2>2, <3>1, <4>1, <4>2
    <3>3. CASE ~Changed(t, o)
      <4>1. objects'[o] = objects[o] /\ o \notin Touched(t)
        BY <1>7, <3>3, CommitRows DEF Touched
      <4>2. QED BY <3>1, <4>1 DEF Monotone, RowIsLatest
    <3>4. QED BY <3>2, <3>3
  <2>4. SeenIsLatest'
    <3> SUFFICES ASSUME NEW r \in Sessions, NEW o \in Objects, tx'[r].pc = "commit",
                        tx'[r].seen[o] # None
                 PROVE  \A v \in Recorded(tx[r].page, o)' : v <= tx'[r].seen[o].version
      BY DEF SeenIsLatest
    <3>1. r # s /\ tx'[r] = tx[r] /\ Held(r) /\ tx[r].page \in PageIds
      BY <1>0, <1>7 DEF SaveCommit, Finish, TypeOK, IdleTx, Held
    <3>2. tx[r].page # t.page
      BY <1>0, <2>1, <3>1 DEF LockInv
    <3>3. Recorded(tx[r].page, o)' = Recorded(tx[r].page, o)
      <4>1. ASSUME NEW p \in PageIds, p # t.page PROVE Recorded(p, o)' = Recorded(p, o)
        BY <1>7, <4>1, CommitHistory
      <4>2. Recorded(tx[r].page, o)' =
               {x.version : x \in {y \in objectVersions' : y.page = tx[r].page /\ y.object = o}}
        BY <3>1 DEF Recorded
      <4>3. \A p \in PageIds : Recorded(p, o)' =
               {x.version : x \in {y \in objectVersions' : y.page = p /\ y.object = o}}
        BY DEF Recorded
      <4>4. QED BY <3>1, <3>2, <4>1, <4>2, <4>3
    <3>4. QED BY <3>1, <3>3 DEF Monotone, SeenIsLatest
  <2>5. PageIsLatest'
    <3> SUFFICES ASSUME NEW r \in pageVersions'
                 PROVE  r.page \in Live' /\ r.version <= pages'[r.page].version
      BY DEF PageIsLatest
    <3>1. BaseVersion(t) \in Nat
      BY <2>1, CommitTypes
    <3>2. pages'[t.page] \in PageRow /\ pages'[t.page].version = BaseVersion(t) + 1
      <4>1. pages'[t.page] = [key |-> t.key, version |-> BaseVersion(t) + 1,
                              template |-> IF t.fresh THEN FALSE ELSE pages[t.page].template]
        BY <1>0, <1>7, <2>1 DEF SaveCommit, TypeOK
      <4>2. pages'[t.page] \in PageRow \cup {None} /\ pages'[t.page] # None
        <5>1. t.page \in Live'
          <6>1. t.fresh \in BOOLEAN /\ t.key \in Keys
            BY <1>0, <2>1 DEF TypeOK, Tx
          <6>2. CASE t.fresh
            <7>1. pages'[t.page] = [key |-> t.key, version |-> BaseVersion(t) + 1,
                                    template |-> FALSE]
              BY <4>1, <6>2
            <7>2. pages'[t.page] \in PageRow
              BY <3>1, <6>1, <7>1 DEF PageRow
            <7>3. QED BY <2>1, <7>2, ConstantsAssumption DEF Live
          <6>3. CASE ~t.fresh
            <7>1. pages[t.page] \in PageRow
              BY <1>0, <2>1, <6>3 DEF LockInv, Live, TypeOK
            <7>2. pages'[t.page] \in PageRow
              BY <3>1, <4>1, <6>1, <6>3, <7>1 DEF PageRow
            <7>3. QED BY <2>1, <7>2, ConstantsAssumption DEF Live
          <6>4. QED BY <6>1, <6>2, <6>3
        <5>2. QED BY <1>0, <2>1, <5>1 DEF TypeOK, Live
      <4>3. pages'[t.page].version = BaseVersion(t) + 1
        BY <4>1
      <4>4. QED BY <4>2, <4>3
    <3>3. \A p \in PageIds : p # t.page => pages'[p] = pages[p]
      BY <1>0, <1>7 DEF SaveCommit, TypeOK
    <3>4. CASE r \in pageVersions
      <4>1. r.page \in Live /\ r.version <= pages[r.page].version /\ r.version \in Nat
        BY <1>0, <3>4 DEF Monotone, PageIsLatest, TypeOK, PageVersionRow
      <4>2. CASE r.page # t.page
        BY <3>3, <4>1, <4>2 DEF Live
      <4>3. CASE r.page = t.page
        <5>1. BaseVersion(t) = pages[t.page].version
          BY <1>0, <2>1, <4>1, <4>3 DEF LockInv, BaseVersion
        <5>2. QED BY <2>1, <3>1, <3>2, <4>1, <4>3, <5>1, ConstantsAssumption DEF Live
      <4>4. QED BY <4>2, <4>3
    <3>5. CASE r \notin pageVersions
      <4>1. r.page = t.page /\ r.version = BaseVersion(t) + 1
        BY <1>7, <3>5 DEF SaveCommit
      <4>2. QED BY <2>1, <3>1, <3>2, <4>1, ConstantsAssumption DEF Live
    <3>6. QED BY <3>4, <3>5
  <2>6. QED BY <2>3, <2>4, <2>5 DEF Monotone
<1>8. ASSUME NEW s \in Sessions, SaveUnchanged(s) \/ SaveAbort(s) PROVE Monotone'
  <2>1. UNCHANGED <<pages, objects, objectVersions, pageVersions>>
    BY <1>8 DEF SaveUnchanged, SaveAbort
  <2>2. tx' = [tx EXCEPT ![s] = IdleTx]
    BY <1>8 DEF SaveUnchanged, SaveAbort, Finish
  <2>3. \A r \in Sessions : tx'[r].pc = "commit" => tx'[r] = tx[r]
    BY <1>0, <2>2 DEF TypeOK, IdleTx
  <2>4. QED BY <1>1, <1>2, <1>3, <2>1, <2>3 DEF Monotone, Live
<1>9. ASSUME NEW s \in Sessions, NEW k \in Keys, DeletePage(s, k) PROVE Monotone'
  <2>1. PICK p \in PageIds \ locked :
           /\ pages' = [pages EXCEPT ![p] = None]
           /\ objects' = [o \in Objects |-> IF o \in ObjectsOn(p) THEN None ELSE objects[o]]
           /\ pageVersions' = {r \in pageVersions : r.page # p}
           /\ objectVersions' = {r \in objectVersions : r.page # p}
    BY <1>9 DEF DeletePage, Saved, Live, RowFree
  <2>2. tx' = tx
    BY <1>9 DEF DeletePage
  <2>3. RowIsLatest'
    BY <2>1 DEF Monotone, RowIsLatest, Recorded, ObjectsOn
  <2>4. SeenIsLatest'
    BY <2>1, <2>2 DEF Monotone, SeenIsLatest, Recorded
  <2>5. PageIsLatest'
    BY <1>0, <2>1 DEF Monotone, PageIsLatest, Live, TypeOK
  <2>6. QED BY <2>3, <2>4, <2>5 DEF Monotone
<1>10. ASSUME NEW s \in Sessions, NEW k \in Keys, NEW on \in BOOLEAN, SetTemplate(s, k, on)
       PROVE  Monotone'
  <2>1. PICK p \in Live : pages' = [pages EXCEPT ![p].template = on]
    BY <1>10 DEF SetTemplate, Saved
  <2>2. pages[p] \in PageRow /\ pages'[p] \in PageRow /\ pages'[p].version = pages[p].version
    BY <1>0, <2>1 DEF TypeOK, Live, PageRow
  <2>3. \A q \in Live : q \in Live' /\ pages'[q].version = pages[q].version
    BY <1>0, <2>1, <2>2, ConstantsAssumption DEF TypeOK, Live
  <2>4. UNCHANGED <<objects, objectVersions, pageVersions, tx>>
    BY <1>10 DEF SetTemplate
  <2>5. QED BY <1>1, <1>2, <1>3, <2>3, <2>4 DEF Monotone
<1>11. ASSUME UNCHANGED <<pages, objects, objectVersions, pageVersions, tx>> PROVE Monotone'
  BY <1>1, <1>2, <1>3, <1>11 DEF Monotone, Live
<1>12. QED
  BY <1>4, <1>5, <1>6, <1>7, <1>8, <1>9, <1>10, <1>11 DEF Next, Edit, Load, LoadTemplate, vars

(* A save never writes a version row whose key exists. *)
LEMMA KeysStep ==
    ASSUME Core, Monotone, VersionKeysUnique, [Next]_vars
    PROVE  VersionKeysUnique'
<1>0. TypeOK /\ LockInv
  BY DEF Core
<1>1. ASSUME objectVersions' \subseteq objectVersions, pageVersions' \subseteq pageVersions
      PROVE  VersionKeysUnique'
  BY <1>1 DEF VersionKeysUnique
<1>2. ASSUME NEW s \in Sessions, SaveCommit(s) PROVE VersionKeysUnique'
  <2> DEFINE t == tx[s]
  <2>1. t.pc = "commit" /\ Held(s) /\ t.page \in PageIds /\ Touched(t) \subseteq Objects
    BY <1>0, <1>2 DEF SaveCommit, Held, TypeOK, Touched
  <2>2. \A g \in objectVersions' : g \in objectVersions \/
           \E o \in Touched(t) : g = VersionRow(t, o)
    BY <1>2 DEF SaveCommit
  <2>3. \A o \in Objects : /\ VersionRow(t, o).page = t.page /\ VersionRow(t, o).object = o
                           /\ VersionRow(t, o).version = NextObjectVersion(t, o)
    BY DEF VersionRow
  <2>4. \A g \in objectVersions, o \in Objects :
           g.page = t.page /\ g.object = o => g.version # NextObjectVersion(t, o)
    <3> SUFFICES ASSUME NEW g \in objectVersions, NEW o \in Objects,
                        g.page = t.page, g.object = o
                 PROVE  g.version # NextObjectVersion(t, o)
      OBVIOUS
    <3>1. g.version \in Recorded(t.page, o)
      BY DEF Recorded
    <3>2. g.version < NextObjectVersion(t, o) /\ g.version \in Nat
      BY <1>0, <2>1, <3>1, NewVersionIsLarger, RecordedIsNat
    <3>3. NextObjectVersion(t, o) \in Nat
      BY <2>1, CommitTypes
    <3>4. QED BY <3>2, <3>3
  <2>5. \A g, h \in objectVersions' :
           g.page = h.page /\ g.object = h.object /\ g.version = h.version => g = h
    BY <2>1, <2>2, <2>3, <2>4 DEF VersionKeysUnique
  <2>6. \A r \in pageVersions : r.page = t.page => r.version # BaseVersion(t) + 1
    <3> SUFFICES ASSUME NEW r \in pageVersions, r.page = t.page
                 PROVE  r.version # BaseVersion(t) + 1
      OBVIOUS
    <3>1. t.page \in Live /\ r.version <= pages[t.page].version /\ r.version \in Nat
      BY <1>0 DEF Monotone, PageIsLatest, TypeOK, PageVersionRow
    <3>2. BaseVersion(t) = pages[t.page].version /\ BaseVersion(t) \in Nat
      BY <1>0, <2>1, <3>1, CommitTypes DEF LockInv, BaseVersion
    <3>3. QED BY <3>1, <3>2
  <2>7. \A r \in pageVersions' : r \in pageVersions \/
           r = [page |-> t.page, version |-> BaseVersion(t) + 1,
                manifest |-> Manifest(t.page, WrittenObjects(t))]
    BY <1>2 DEF SaveCommit
  <2>8. \A q, r \in pageVersions' : q.page = r.page /\ q.version = r.version => q = r
    BY <2>6, <2>7 DEF VersionKeysUnique
  <2>9. QED BY <2>5, <2>8 DEF VersionKeysUnique
<1>3. ASSUME NEW s \in Sessions, NEW k \in Keys, DeletePage(s, k) PROVE VersionKeysUnique'
  BY <1>1, <1>3 DEF DeletePage
<1>4. QED
  BY <1>1, <1>2, <1>3
  DEF Next, Edit, Load, LoadTemplate, SaveBegin, SaveInsert, SaveRead, SaveUnchanged,
      SaveAbort,
      SetTemplate, vars

(* The version tables never refuse a save: the numbers it computes from    *)
(* rows it read before are still new when it writes them.                  *)
THEOREM VersionsAreNew == Spec => []VersionKeysUnique
<1>1. Init => Monotone /\ VersionKeysUnique
  BY DEF Init, Monotone, RowIsLatest, SeenIsLatest, PageIsLatest, VersionKeysUnique,
         IdleTx, Blank
<1>2. Core /\ Monotone /\ VersionKeysUnique /\ [Next]_vars => Monotone' /\ VersionKeysUnique'
  BY MonotoneStep, KeysStep
<1>3. QED BY <1>1, <1>2, CoreHolds, PTL DEF Spec
-----------------------------------------------------------------------------
(* The tables implement PageHistory.                                       *)

(* Only existing pages have objects, so that a page that is being inserted *)
(* has none; a page that others see has a version.                         *)
ObjectsAreLive == \A o \in Objects : objects[o] # None => objects[o].page \in Live
NewPageIsBlank ==
    \A s \in Sessions : tx[s].pc = "commit" /\ tx[s].fresh => tx[s].seen = Blank
Placed == ObjectsAreLive /\ NewPageIsBlank

(* All that a step of the book relies on. *)
Sound ==
    /\ Core /\ BaseSeen /\ KeyInv /\ Monotone /\ VersionKeysUnique
    /\ RestorableHistory /\ Placed

(* A save that commits leaves its page, at the next version, and no other. *)
LEMMA CommittedPage ==
    ASSUME Core, NEW s \in Sessions, SaveCommit(s)
    PROVE  /\ tx[s].page \in PageIds /\ tx[s].key \in Keys /\ BaseVersion(tx[s]) \in Nat
           /\ \A p \in PageIds : p # tx[s].page => pages'[p] = pages[p]
           /\ pages'[tx[s].page] # None
           /\ pages'[tx[s].page].key = tx[s].key
           /\ pages'[tx[s].page].version = BaseVersion(tx[s]) + 1
<1>0. TypeOK /\ LockInv
  BY DEF Core
<1>1. /\ tx[s].pc = "commit" /\ tx[s].page \in PageIds /\ tx[s].key \in Keys
      /\ BaseVersion(tx[s]) \in Nat
  BY <1>0, CommitTypes DEF SaveCommit, TypeOK
<1>2. /\ \A p \in PageIds : p # tx[s].page => pages'[p] = pages[p]
      /\ pages'[tx[s].page] = [key |-> tx[s].key, version |-> BaseVersion(tx[s]) + 1,
                template |-> IF tx[s].fresh THEN FALSE ELSE pages[tx[s].page].template]
  BY <1>0, <1>1 DEF SaveCommit, TypeOK
<1>3. ~tx[s].fresh => pages[tx[s].page] \in PageRow
  BY <1>0, <1>1 DEF LockInv, Held, Live, TypeOK
<1>4. /\ pages'[tx[s].page] \in PageRow
      /\ pages'[tx[s].page].key = tx[s].key
      /\ pages'[tx[s].page].version = BaseVersion(tx[s]) + 1
  <2>1. CASE tx[s].fresh
    BY <1>1, <1>2, <2>1 DEF PageRow
  <2>2. CASE ~tx[s].fresh
    BY <1>1, <1>2, <1>3, <2>2 DEF PageRow
  <2>3. QED BY <2>1, <2>2
<1>5. None \notin PageRow
  BY ConstantsAssumption
<1>6. QED BY <1>1, <1>2, <1>4, <1>5

(* No page loses its place under its objects. *)
LEMMA PlacedStep == Core /\ Placed /\ [Next]_vars => Placed'
<1> SUFFICES ASSUME Core, Placed, [Next]_vars PROVE Placed'
  OBVIOUS
<1>0. TypeOK /\ LockInv /\ TypeOK' /\ LockInv'
  BY CoreStep DEF Core
<1>1. ASSUME UNCHANGED <<pages, objects>>,
             \A s \in Sessions : tx'[s].pc = "commit" => tx'[s] = tx[s]
      PROVE  Placed'
  BY <1>1 DEF Placed, ObjectsAreLive, NewPageIsBlank, Live
<1>2. ASSUME NEW s \in Sessions, SaveRead(s) PROVE Placed'
  <2>1. UNCHANGED <<pages, objects>>
    BY <1>2 DEF SaveRead
  <2>2. /\ tx'[s].fresh = tx[s].fresh /\ tx'[s].seen = LoadPageObjects(tx[s].page)
        /\ \A r \in Sessions \ {s} : tx'[r] = tx[r]
    BY <1>0, <1>2 DEF SaveRead, TypeOK, Tx
  <2>3. tx[s].fresh => LoadPageObjects(tx[s].page) = Blank
    BY <1>0, <1>2 DEF SaveRead, LockInv, Held, Placed, ObjectsAreLive, LoadPageObjects,
                      ObjectsOn, Blank
  <2>5. NewPageIsBlank'
    BY <2>2, <2>3 DEF Placed, NewPageIsBlank, Blank
  <2>6. QED BY <2>1, <2>5 DEF Placed, ObjectsAreLive, Live
<1>3. ASSUME NEW s \in Sessions, SaveCommit(s) PROVE Placed'
  <2>1. /\ tx[s].pc = "commit" /\ tx[s].page \in PageIds
        /\ objects' = WrittenObjects(tx[s])
        /\ \A p \in PageIds : p # tx[s].page => pages'[p] = pages[p]
        /\ pages'[tx[s].page] # None
        /\ \A r \in Sessions : tx'[r] = IF r = s THEN IdleTx ELSE tx[r]
    BY <1>0, <1>3, CommittedPage DEF SaveCommit, Finish, TypeOK
  <2>3. Live \subseteq Live' /\ tx[s].page \in Live'
    BY <2>1 DEF Live
  <2>4. ObjectsAreLive'
    <3> SUFFICES ASSUME NEW o \in Objects, objects'[o] # None PROVE objects'[o].page \in Live'
      BY DEF ObjectsAreLive
    <3>1. CASE Changed(tx[s], o)
      BY <2>1, <2>3, <3>1 DEF WrittenObjects
    <3>2. CASE ~Changed(tx[s], o)
      BY <2>1, <2>3, <3>2 DEF WrittenObjects, Placed, ObjectsAreLive
    <3>3. QED BY <3>1, <3>2
  <2>5. NewPageIsBlank'
    BY <2>1 DEF Placed, NewPageIsBlank, IdleTx
  <2>6. QED BY <2>4, <2>5 DEF Placed
<1>4. ASSUME NEW s \in Sessions, NEW k \in Keys, DeletePage(s, k) PROVE Placed'
  <2>1. PICK p \in Saved(k) :
           /\ pages' = [pages EXCEPT ![p] = None]
           /\ objects' = [o \in Objects |-> IF o \in ObjectsOn(p) THEN None ELSE objects[o]]
    BY <1>4 DEF DeletePage
  <2>2. ObjectsAreLive'
    BY <1>0, <2>1 DEF Placed, ObjectsAreLive, ObjectsOn, Live, TypeOK
  <2>3. NewPageIsBlank'
    BY <1>4 DEF DeletePage, Placed, NewPageIsBlank
  <2>4. QED BY <2>2, <2>3 DEF Placed
<1>5. ASSUME NEW s \in Sessions, NEW k \in Keys, NEW on \in BOOLEAN, SetTemplate(s, k, on)
      PROVE  Placed'
  <2>1. PICK p \in Saved(k) : pages' = [pages EXCEPT ![p].template = on]
    BY <1>5 DEF SetTemplate
  <2>2. p \in PageIds /\ pages[p] # None /\ pages[p] \in PageRow
    BY <1>0, <2>1 DEF Saved, Live, TypeOK
  <2>3. pages'[p] # None /\ \A q \in PageIds : q # p => pages'[q] = pages[q]
    BY <1>0, <2>1, <2>2, ConstantsAssumption DEF TypeOK, PageRow
  <2>4. Live' = Live
    BY <2>2, <2>3 DEF Live
  <2>5. QED BY <1>5, <2>4 DEF SetTemplate, Placed, ObjectsAreLive, NewPageIsBlank
<1>6. ASSUME NEW s \in Sessions, tx'[s].pc # "commit", UNCHANGED <<pages, objects>>,
             \A r \in Sessions \ {s} : tx'[r] = tx[r]
      PROVE  Placed'
  BY <1>1, <1>6
<1>7. ASSUME NEW s \in Sessions, Edit(s) PROVE Placed'
  <2>1. ASSUME NEW k \in Keys, Load(s, k) PROVE Placed'
    BY <1>1, <2>1 DEF Load
  <2>2. ASSUME NEW p \in PageIds, LoadTemplate(s, p) PROVE Placed'
    BY <1>1, <2>2 DEF LoadTemplate
  <2>3. ASSUME NEW k \in Keys, NEW d \in Drafts(s, k), SaveBegin(s, k, d) PROVE Placed'
    <3>1. \E u \in Tx : u.pc # "commit" /\ tx' = [tx EXCEPT ![s] = u]
      <4>1. /\ tx' \in [Sessions -> Tx]
            /\ \A r \in Sessions \ {s} : tx'[r] = tx[r]
            /\ tx'[s].pc # "commit"
        BY <1>0, <2>3 DEF SaveBegin, IdleTx, TypeOK
      <4>2. tx' = [tx EXCEPT ![s] = tx'[s]]
        BY <1>0, <4>1 DEF TypeOK
      <4>3. QED BY <4>1, <4>2
    <3>2. QED BY <1>0, <1>6, <2>3, <3>1 DEF SaveBegin, TypeOK
  <2>4. CASE SaveInsert(s)
    BY <1>0, <1>6, <2>4 DEF SaveInsert, TypeOK, Tx
  <2>5. CASE SaveUnchanged(s)
    BY <1>0, <1>6, <2>5 DEF SaveUnchanged, Finish, IdleTx, TypeOK
  <2>6. CASE SaveAbort(s)
    BY <1>0, <1>6, <2>6 DEF SaveAbort, IdleTx, TypeOK
  <2>7. QED BY <1>2, <1>3, <1>5, <1>7, <2>1, <2>2, <2>3, <2>4, <2>5, <2>6 DEF Edit
<1>8. QED BY <1>1, <1>4, <1>7 DEF Next, vars

(* Everything the book relies on holds in every reachable state. *)
THEOREM SoundHolds == Spec => []Sound
<1>1. Init => Placed
  BY DEF Init, Placed, ObjectsAreLive, NewPageIsBlank, Blank, IdleTx
<1>2. Core /\ Placed /\ [Next]_vars => Placed'
  BY PlacedStep
<1>3. Init => KeyInv /\ OnePagePerKey /\ Monotone
  BY DEF Init, KeyInv, OnePagePerKey, Live, IdleTx, Held, Monotone, RowIsLatest, SeenIsLatest, PageIsLatest, Blank
<1>4. Core /\ BaseSeen /\ KeyInv /\ OnePagePerKey /\ [Next]_vars => KeyInv' /\ OnePagePerKey'
  BY KeyStep
<1>5. Core /\ Monotone /\ [Next]_vars => Monotone'
  BY MonotoneStep
<1>6. QED
  BY <1>1, <1>2, <1>3, <1>4, <1>5, CoreHolds, BaseHolds, HistoryIsRestorable, VersionsAreNew,
     PTL DEF Spec, Sound

-----------------------------------------------------------------------------
(* What is restored is a draft. *)
LEMMA RestoredIsDraft ==
    ASSUME TypeOK', NEW p \in PageIds, NEW v \in Nat
    PROVE  Restored(p, v)' \in Draft
<1>1. \A o \in Objects : SnapshotsFor(p, v, o)' # {} =>
         OneOf(SnapshotsFor(p, v, o)') \in objectVersions'
  BY DEF SnapshotsFor, OneOf
<1>2. \A h \in objectVersions' : h.content \in Contents
  BY DEF TypeOK, ObjectVersionRow
<1>3. Restored(p, v)' = [o \in Objects |->
             IF SnapshotsFor(p, v, o)' = {} THEN None
             ELSE OneOf(SnapshotsFor(p, v, o)').content]
  BY DEF Restored
<1>4. \A o \in Objects :
         (IF SnapshotsFor(p, v, o)' = {} THEN None
          ELSE OneOf(SnapshotsFor(p, v, o)').content) \in Contents \cup {None}
  BY <1>1, <1>2
<1>5. QED BY <1>3, <1>4 DEF Draft

(* A save adds snapshots, and none of those an old manifest names. *)
LEMMA SnapshotsStay ==
    ASSUME Sound, NEW s \in Sessions, SaveCommit(s),
           NEW p \in Live, NEW v \in Nat, v <= pages[p].version
    PROVE  \A o \in Objects : SnapshotsFor(p, v, o)' = SnapshotsFor(p, v, o)
<1> DEFINE t == tx[s]
           row == [page |-> t.page, version |-> BaseVersion(t) + 1,
                   manifest |-> Manifest(t.page, WrittenObjects(t))]
<1>0. TypeOK /\ LockInv
  BY DEF Sound, Core
<1>1. /\ t.pc = "commit" /\ t.page \in PageIds /\ Held(s) /\ Touched(t) \subseteq Objects
      /\ pageVersions' = pageVersions \cup {row}
      /\ objectVersions' = objectVersions \cup {VersionRow(t, o) : o \in Touched(t)}
  BY <1>0 DEF SaveCommit, Held, TypeOK, Touched
<1>2. p \in PageIds /\ pages[p] \in PageRow
  BY <1>0 DEF TypeOK, Live
<1>3. p = t.page => BaseVersion(t) = pages[p].version
  BY <1>0, <1>1 DEF LockInv, BaseVersion
<1>4. row.page = p => row.version # v
  <2>1. pages[p].version \in Nat
    BY <1>2 DEF PageRow
  <2>2. BaseVersion(t) = pages[p].version => BaseVersion(t) + 1 # v
    BY <2>1
  <2>3. QED BY <1>3, <2>2
<1>5. ASSUME NEW o \in Objects, NEW h \in SnapshotsFor(p, v, o)'
      PROVE  h \in SnapshotsFor(p, v, o)
  <2>1. PICK r \in pageVersions' : r.page = p /\ r.version = v /\ r.manifest[o] = h.version
    BY <1>5 DEF SnapshotsFor
  <2>2. r \in pageVersions
    BY <1>1, <1>4, <2>1
  <2>3. h \in objectVersions' /\ h.page = p /\ h.object = o /\ h.operation # "delete"
    BY <1>5 DEF SnapshotsFor
  <2>4. ASSUME NEW q \in Touched(t), h = VersionRow(t, q) PROVE FALSE
    <3>1. t.page = p /\ q = o /\ h.version = NextObjectVersion(t, o)
      BY <2>3, <2>4 DEF VersionRow
    <3>2. /\ NextObjectVersion(t, o) \in Nat
          /\ \A w \in Recorded(t.page, o) : w < NextObjectVersion(t, o)
          /\ NextObjectVersion(t, o) # 0
      <4>1. /\ NextObjectVersion(t, o) \in Nat
            /\ \A w \in Recorded(t.page, o) : w < NextObjectVersion(t, o)
        BY <1>1, CommitTypes, NewVersionIsLarger DEF Sound
      <4>2. t.seen[o] # None => t.seen[o].version \in Nat
        <5>1. t \in Tx
          BY <1>0 DEF TypeOK
        <5>2. t.seen[o] \in StoredObject \cup {None}
          BY <5>1 DEF Tx
        <5>3. QED BY <5>2 DEF StoredObject
      <4>3. Latest(t.page, o) \in Nat
        BY <1>1, LatestIsLargest DEF Sound
      <4>4. QED BY <4>1, <4>2, <4>3 DEF NextObjectVersion
    <3>3. PICK g \in objectVersions : g.page = p /\ g.object = o /\ g.version = r.manifest[o]
      BY <2>1, <2>2, <3>1, <3>2 DEF Sound, RestorableHistory
    <3>4. g.version \in Recorded(t.page, o)
      BY <3>1, <3>3 DEF Recorded
    <3>5. QED BY <2>1, <3>1, <3>2, <3>3, <3>4
  <2>5. h \in objectVersions
    BY <1>1, <2>3, <2>4
  <2>6. QED BY <2>1, <2>2, <2>3, <2>5 DEF SnapshotsFor
<1>6. \A o \in Objects : SnapshotsFor(p, v, o) \subseteq SnapshotsFor(p, v, o)'
  BY <1>1 DEF SnapshotsFor
<1>7. QED BY <1>5, <1>6

(* A version that others can see restores to the same widgets after any     *)
(* save.                                                                   *)
LEMMA VersionsStay ==
    ASSUME Sound, NEW s \in Sessions, SaveCommit(s),
           NEW p \in Live, NEW v \in 1 .. pages[p].version
    PROVE  Restored(p, v)' = Restored(p, v)
BY SnapshotsStay DEF Restored

-----------------------------------------------------------------------------
(* The book changes only when a save commits or a page is deleted. *)
LEMMA BookStays ==
    ASSUME UNCHANGED <<pageVersions, objectVersions>>,
           \A p \in PageIds :
              /\ pages'[p] = None <=> pages[p] = None
              /\ pages[p] # None => /\ pages'[p].key = pages[p].key
                                    /\ pages'[p].version = pages[p].version
    PROVE  Book' = Book
<1>1. \A p, v, o : SnapshotsFor(p, v, o)' = SnapshotsFor(p, v, o)
  BY DEF SnapshotsFor
<1>2. \A p, v : Restored(p, v)' = Restored(p, v)
  BY <1>1 DEF Restored
<1>3. \A p \in PageIds : PageOfBook(p)' = PageOfBook(p)
  BY <1>2 DEF PageOfBook
<1>4. QED BY <1>3 DEF Book

(* What the book shows of a page that exists, and of one that does not. *)
LEMMA WrittenIsLive ==
    ASSUME TypeOK
    PROVE  /\ History!Written = Live
           /\ \A p \in Live : /\ Book[p].key = pages[p].key
                              /\ Book[p].last = pages[p].version
BY ConstantsAssumption DEF History!Written, Book, PageOfBook, Live, TypeOK, PageRow

(* A tab that opens a page, or nothing, reads. *)
LEMMA ReadStep ==
    ASSUME TypeOK, Book' = Book, NEW s \in Sessions, NEW w \in View,
           view' = [view EXCEPT ![s] = w],
           \/ w.page \in Live /\ w.base = pages[w.page].version
           \/ w.page = None /\ w.base = 0
    PROVE  History!Read(s)
<1>1. Opened' = [Opened EXCEPT ![s] = [page |-> w.page, version |-> w.base]]
  BY DEF Opened, TypeOK
<1>2. CASE w.page \in Live /\ w.base = pages[w.page].version
  BY <1>1, <1>2, WrittenIsLive DEF History!Read, History!OpenAt
<1>3. CASE w.page = None /\ w.base = 0
  BY <1>1, <1>3 DEF History!Read, History!Nothing
<1>4. QED BY <1>2, <1>3

(* A save that commits creates the page, or adds a version to the one its  *)
(* tab had open at the last.                                               *)
LEMMA CommitStep ==
    ASSUME Sound, Sound', NEW s \in Sessions, SaveCommit(s),
           NEW p \in PageIds, p = tx[s].page, NEW n \in Nat, n = BaseVersion(tx[s]) + 1
    PROVE  History!Append(s, p) \/ \E k \in Keys : History!Create(s, p, k)
<1> DEFINE t == tx[s]
<1>0. TypeOK /\ LockInv /\ TypeOK'
  BY DEF Sound, Core
<1>1. /\ t.pc = "commit" /\ t.key \in Keys /\ Held(s)
  BY <1>0, CommitTypes DEF SaveCommit, Held, TypeOK, Sound
<1>2. /\ \A q \in PageIds : q # p => pages'[q] = pages[q]
      /\ pages'[p].key = t.key /\ pages'[p].version = n /\ pages'[p] # None
  BY CommittedPage DEF Sound
<1>3. Opened' = [Opened EXCEPT ![s] = [page |-> p, version |-> n]]
  BY <1>0 DEF SaveCommit, Finish, Opened, TypeOK
<1>4. \A q \in Live, v \in Nat : v \in 1 .. pages[q].version => Restored(q, v)' = Restored(q, v)
  BY VersionsStay
<1>5. ASSUME NEW q \in PageIds, q # p PROVE PageOfBook(q)' = PageOfBook(q)
  <2>1. pages'[q] = pages[q]
    BY <1>2, <1>5
  <2>2. CASE pages[q] = None
    BY <2>1, <2>2 DEF PageOfBook
  <2>3. CASE pages[q] # None
    <3>1. q \in Live /\ pages[q].version \in Nat
      BY <1>0, <2>3 DEF Live, TypeOK, PageRow
    <3>2. \A v \in 1 .. pages[q].version : Restored(q, v)' = Restored(q, v)
      BY <1>4, <3>1
    <3>3. QED BY <2>1, <3>2 DEF PageOfBook
  <2>4. QED BY <2>2, <2>3
<1>6. PageOfBook(p)' = [key |-> t.key, last |-> n, drafts |-> [v \in 1 .. n |-> Restored(p, v)']]
  BY <1>2 DEF PageOfBook
<1>7. Restored(p, n)' \in Draft
  BY <1>0, <1>1, RestoredIsDraft
<1>8. CASE t.fresh
  <2>1. p \notin Live /\ n = 1
    BY <1>0, <1>1, <1>8 DEF LockInv, BaseVersion
  <2>2. ~History!HasKey(t.key)
    BY <1>0, <1>1, <1>8, WrittenIsLive DEF History!HasKey, Sound, KeyInv
  <2>3. Book' = [Book EXCEPT ![p] =
            [key |-> t.key, last |-> 1, drafts |-> [v \in 1 .. 1 |-> Restored(p, n)']]]
    <3>1. [v \in 1 .. n |-> Restored(p, v)'] = [v \in 1 .. 1 |-> Restored(p, n)']
      BY <2>1
    <3>2. QED BY <1>5, <1>6, <2>1, <3>1 DEF Book
  <2>4. History!Create(s, p, t.key)
    BY <1>0, <1>3, <1>7, <2>1, <2>2, <2>3, WrittenIsLive DEF History!Create, History!OpenAt
  <2>5. QED BY <1>1, <2>4
<1>9. CASE ~t.fresh
  <2>1. /\ p \in Live /\ BaseVersion(t) = pages[p].version /\ view[s].base = pages[p].version
        /\ t.key = pages[p].key
    BY <1>0, <1>1, <1>9 DEF LockInv, BaseVersion, Sound, BaseSeen
  <2>2. Book[p].last + 1 = n /\ Book[p].key = t.key
    BY <1>0, <2>1, WrittenIsLive
  <2>3. \A v \in 1 .. n : v # n => Restored(p, v)' = Book[p].drafts[v]
    <3>1. pages[p].version \in Nat /\ n = pages[p].version + 1
      BY <1>0, <2>1 DEF TypeOK, Live, PageRow
    <3>2. \A v \in 1 .. n : v # n => v \in 1 .. pages[p].version
      BY <3>1
    <3>3. Book[p].drafts = [v \in 1 .. pages[p].version |-> Restored(p, v)]
      BY <2>1 DEF Book, PageOfBook, Live
    <3>4. QED BY <1>4, <2>1, <3>2, <3>3
  <2>4. [v \in 1 .. n |-> Restored(p, v)'] =
        [v \in 1 .. n |-> IF v = n THEN Restored(p, n)' ELSE Book[p].drafts[v]]
    BY <2>3
  <2>5. PageOfBook(p)' = History!Longer(Book[p], Restored(p, n)')
    BY <1>6, <2>2, <2>4 DEF History!Longer
  <2>6. Book' = [Book EXCEPT ![p] = History!Longer(Book[p], Restored(p, n)')]
    BY <1>5, <2>5 DEF Book
  <2>7. p \in History!Written /\ Opened[s].version = Book[p].last
    BY <1>0, <2>1, WrittenIsLive DEF Opened
  <2>8. Opened' = [Opened EXCEPT ![s] = History!OpenAt(p, Book[p].last + 1)]
    BY <1>3, <2>2 DEF History!OpenAt
  <2>9. QED BY <1>7, <2>6, <2>7, <2>8 DEF History!Append
<1>10. QED BY <1>8, <1>9

(* A deletion takes the page out of the book and touches no other. *)
LEMMA DeleteStep ==
    ASSUME TypeOK, NEW s \in Sessions, NEW k \in Keys, DeletePage(s, k)
    PROVE  \E p \in PageIds : History!Remove(p)
<1>1. PICK p \in Saved(k) :
         /\ pages' = [pages EXCEPT ![p] = None]
         /\ pageVersions' = {r \in pageVersions : r.page # p}
         /\ objectVersions' = {r \in objectVersions : r.page # p}
  BY DEF DeletePage
<1>2. p \in PageIds /\ p \in Live
  BY DEF Saved, Live
<1>3. /\ pages'[p] = None
      /\ \A q \in PageIds : q # p => pages'[q] = pages[q]
  BY <1>1, <1>2 DEF TypeOK
<1>4. \A q \in PageIds : \A v, o : q # p => SnapshotsFor(q, v, o)' = SnapshotsFor(q, v, o)
  BY <1>1 DEF SnapshotsFor
<1>5. \A q \in PageIds : \A v : q # p => Restored(q, v)' = Restored(q, v)
  BY <1>4 DEF Restored
<1>6. \A q \in PageIds : q # p => PageOfBook(q)' = PageOfBook(q)
  BY <1>3, <1>5 DEF PageOfBook
<1>7. PageOfBook(p)' = History!Absent
  BY <1>2, <1>3 DEF PageOfBook, History!Absent
<1>8. Book' = [Book EXCEPT ![p] = History!Absent]
  BY <1>6, <1>7 DEF Book
<1>9. Opened' = Opened
  BY DEF DeletePage, Opened
<1>10. p \in History!Written
  BY <1>2, WrittenIsLive
<1>11. QED BY <1>2, <1>8, <1>9, <1>10 DEF History!Remove

(* One step of the tables is one step of the book or none. *)
LEMMA BookStep ==
    ASSUME Sound, Sound', [Next]_vars
    PROVE  [History!HNext]_(History!hvars)
<1>0. TypeOK /\ LockInv /\ TypeOK'
  BY DEF Sound, Core
<1>1. ASSUME UNCHANGED <<pages, pageVersions, objectVersions, view>>
      PROVE  UNCHANGED History!hvars
  BY <1>1, BookStays DEF History!hvars, Opened
<1>2. ASSUME NEW s \in Sessions, NEW k \in Keys, Load(s, k) PROVE History!Read(s)
  <2>1. Book' = Book
    BY <1>2, BookStays DEF Load
  <2>2. CASE \E p \in Saved(k) :
                view' = [view EXCEPT ![s] = [key |-> k, page |-> p,
                                             base |-> pages[p].version, borrowed |-> {}]]
    <3>1. PICK p \in Saved(k) :
                view' = [view EXCEPT ![s] = [key |-> k, page |-> p,
                                             base |-> pages[p].version, borrowed |-> {}]]
      BY <2>2
    <3>2. /\ p \in Live
          /\ [key |-> k, page |-> p, base |-> pages[p].version, borrowed |-> {}] \in View
      BY <1>0 DEF Saved, Live, TypeOK, PageRow, View
    <3>3. QED BY <1>0, <2>1, <3>1, <3>2, ReadStep
  <2>3. CASE view' = [view EXCEPT ![s] = [EmptyView EXCEPT !.key = k]]
    <3>1. /\ [EmptyView EXCEPT !.key = k] \in View
          /\ [EmptyView EXCEPT !.key = k].page = None /\ [EmptyView EXCEPT !.key = k].base = 0
      BY DEF EmptyView, View
    <3>2. QED BY <1>0, <2>1, <2>3, <3>1, ReadStep
  <2>4. QED BY <1>2, <2>2, <2>3 DEF Load
<1>3. ASSUME NEW s \in Sessions, NEW p \in PageIds, LoadTemplate(s, p) PROVE History!Read(s)
  <2>1. Book' = Book
    BY <1>3, BookStays DEF LoadTemplate
  <2>2. /\ [EmptyView EXCEPT !.borrowed = ObjectsOn(p)] \in View
        /\ [EmptyView EXCEPT !.borrowed = ObjectsOn(p)].page = None
        /\ [EmptyView EXCEPT !.borrowed = ObjectsOn(p)].base = 0
    BY DEF EmptyView, View, ObjectsOn
  <2>3. view' = [view EXCEPT ![s] = [EmptyView EXCEPT !.borrowed = ObjectsOn(p)]]
    BY <1>3 DEF LoadTemplate
  <2>4. QED BY <1>0, <2>1, <2>2, <2>3, ReadStep
<1>4. ASSUME NEW s \in Sessions, SaveUnchanged(s) PROVE History!Read(s)
  <2>1. Book' = Book
    BY <1>4, BookStays DEF SaveUnchanged
  <2>2. tx[s].pc = "commit" /\ Held(s) /\ tx[s].page \in PageIds /\ tx[s].key \in Keys
    BY <1>0, <1>4 DEF SaveUnchanged, Held, TypeOK
  <2>3. ~tx[s].fresh
    BY <1>4, <2>2 DEF SaveUnchanged, NeedsVersion, BaseVersion, Sound, Placed, NewPageIsBlank
  <2>4. tx[s].page \in Live /\ BaseVersion(tx[s]) = pages[tx[s].page].version
    BY <1>0, <2>2, <2>3 DEF LockInv, BaseVersion
  <2>5. view' = [view EXCEPT ![s] = [key |-> tx[s].key, page |-> tx[s].page,
                      base |-> BaseVersion(tx[s]), borrowed |-> view[s].borrowed]]
    BY <1>4 DEF SaveUnchanged, Finish
  <2>6. [key |-> tx[s].key, page |-> tx[s].page,
         base |-> BaseVersion(tx[s]), borrowed |-> view[s].borrowed] \in View
    BY <1>0, <2>2, CommitTypes DEF TypeOK, View, Sound
  <2>7. QED BY <1>0, <2>1, <2>4, <2>5, <2>6, ReadStep
<1>5. ASSUME NEW s \in Sessions, NEW k \in Keys, NEW on \in BOOLEAN, SetTemplate(s, k, on)
      PROVE  UNCHANGED History!hvars
  <2>1. PICK p \in Saved(k) : pages' = [pages EXCEPT ![p].template = on]
    BY <1>5 DEF SetTemplate
  <2>2. p \in PageIds /\ pages[p] # None /\ pages[p] \in PageRow
    BY <1>0 DEF Saved, Live, TypeOK
  <2>3. /\ pages'[p] \in PageRow /\ pages'[p].key = pages[p].key
        /\ pages'[p].version = pages[p].version
        /\ \A q \in PageIds : q # p => pages'[q] = pages[q]
    BY <1>0, <2>1, <2>2 DEF TypeOK, PageRow
  <2>4. pages'[p] # None
    BY <2>3, ConstantsAssumption
  <2>5. Book' = Book
    BY <1>5, <2>2, <2>3, <2>4, BookStays DEF SetTemplate
  <2>6. QED BY <1>5, <2>5 DEF SetTemplate, Opened, History!hvars
<1>6. ASSUME NEW s \in Sessions, SaveCommit(s)
      PROVE  \E p \in PageIds : History!Append(s, p) \/ \E k \in Keys : History!Create(s, p, k)
  <2>1. tx[s].page \in PageIds /\ BaseVersion(tx[s]) + 1 \in Nat
    BY <1>6, CommittedPage DEF Sound
  <2>2. QED BY <1>6, <2>1, CommitStep
<1>7. ASSUME NEW s \in Sessions, NEW k \in Keys, DeletePage(s, k)
      PROVE  \E p \in PageIds : History!Remove(p)
  BY <1>0, <1>7, DeleteStep
<1>8. CASE UNCHANGED vars
  BY <1>1, <1>8 DEF vars
<1>9. ASSUME NEW s \in Sessions, Edit(s) PROVE [History!HNext]_(History!hvars)
  <2>1. ASSUME NEW k \in Keys, NEW d \in Drafts(s, k), SaveBegin(s, k, d)
        PROVE  UNCHANGED History!hvars
    BY <1>1, <2>1 DEF SaveBegin
  <2>2. CASE SaveInsert(s) \/ SaveRead(s) \/ SaveAbort(s)
    BY <1>1, <2>2 DEF SaveInsert, SaveRead, SaveAbort
  <2>3. QED
    BY <1>2, <1>3, <1>4, <1>5, <1>6, <1>9, <2>1, <2>2 DEF Edit, History!HNext
<1>10. QED BY <1>7, <1>8, <1>9 DEF Next, History!HNext

(* Every save, delete and load of the handlers is a step of the abstract   *)
(* book of pages: histories only grow at their end, every version restores *)
(* to the same widgets for ever, and nothing is added but on top of the    *)
(* last version.                                                           *)
THEOREM TablesKeepHistory == Spec => KeepsHistory
<1>1. Init => History!HInit
  BY DEF Init, History!HInit, Book, PageOfBook, Opened, EmptyView, History!Absent,
         History!Nothing
<1>2. Sound /\ Sound' /\ [Next]_vars => [History!HNext]_(History!hvars)
  BY BookStep
<1>3. QED BY <1>1, <1>2, SoundHolds, PTL DEF Spec, KeepsHistory, History!HSpec

-----------------------------------------------------------------------------
(* The limit on saved pages.  The pages a user has and the pages the user's *)
(* tabs are creating, all of which passed the count: each tab can bring one *)
(* more than the others have left room for.                                *)
TabsOf(u) == {s \in Sessions : UserOf[s] = u}
Opening(t) == t.pc = "insert" \/ (t.pc \in {"read", "commit"} /\ t.fresh)
Creating(u, sc) == {s \in TabsOf(u) : Opening(tx[s]) /\ ScopeIn(tx[s].key) = sc}
RoomFor(pagesOfUser, creating, tabs) ==
    /\ IsFiniteSet(pagesOfUser) /\ creating \subseteq tabs
    /\ Cardinality(pagesOfUser) + Cardinality(creating) < MaxSavedPages + Cardinality(tabs)
RoomInv ==
    /\ \A s \in Sessions : tx[s].pc # "idle" => Owner(tx[s].key) = UserOf[s]
    /\ \A u \in Users, sc \in Scopes : RoomFor(OwnedBy(u, sc), Creating(u, sc), TabsOf(u))

LEMMA RoomSizes ==
    ASSUME NEW owned, NEW creating, NEW tabs, IsFiniteSet(tabs)
    PROVE  /\ creating \subseteq tabs => IsFiniteSet(creating) /\ Cardinality(creating) \in Nat
                                         /\ Cardinality(creating) <= Cardinality(tabs)
           /\ IsFiniteSet(owned) => Cardinality(owned) \in Nat
           /\ Cardinality(tabs) \in Nat /\ MaxSavedPages \in Nat \ {0}
  BY FS_Subset, FS_CardinalityType, ConstantsAssumption

(* No page more, no creation more. *)
LEMMA RoomStays ==
    ASSUME NEW owned, NEW creating, NEW tabs, IsFiniteSet(tabs), RoomFor(owned, creating, tabs),
           NEW owned2 \in SUBSET owned, NEW creating2 \in SUBSET creating
    PROVE  RoomFor(owned2, creating2, tabs)
<1>1. IsFiniteSet(owned) /\ creating \subseteq tabs /\ IsFiniteSet(creating)
  BY FS_Subset DEF RoomFor
<1>2. /\ IsFiniteSet(owned2) /\ Cardinality(owned2) <= Cardinality(owned)
      /\ Cardinality(creating2) <= Cardinality(creating)
  BY <1>1, FS_Subset
<1>3. /\ Cardinality(owned) \in Nat /\ Cardinality(owned2) \in Nat /\ Cardinality(tabs) \in Nat
      /\ Cardinality(creating) \in Nat /\ Cardinality(creating2) \in Nat /\ MaxSavedPages \in Nat
  BY <1>1, <1>2, RoomSizes
<1>4. QED BY <1>1, <1>2, <1>3 DEF RoomFor

(* A creation that passed the count. *)
LEMMA RoomCounted ==
    ASSUME NEW owned, NEW creating, NEW tabs, IsFiniteSet(tabs), IsFiniteSet(owned),
           Cardinality(owned) < MaxSavedPages, creating \subseteq tabs
    PROVE  RoomFor(owned, creating, tabs)
  BY RoomSizes DEF RoomFor

(* A creation that commits. *)
LEMMA RoomFilled ==
    ASSUME NEW owned, NEW creating, NEW tabs, IsFiniteSet(tabs), RoomFor(owned, creating, tabs),
           NEW p, NEW s \in creating
    PROVE  RoomFor(owned \cup {p}, creating \ {s}, tabs)
<1>1. IsFiniteSet(owned) /\ creating \subseteq tabs /\ IsFiniteSet(creating)
  BY FS_Subset DEF RoomFor
<1>2. IsFiniteSet(owned \cup {p}) /\ Cardinality(owned \cup {p}) <= Cardinality(owned) + 1
  <2>1. Cardinality(owned) \in Nat
    BY <1>1, FS_CardinalityType
  <2>2. /\ IsFiniteSet(owned \cup {p})
        /\ Cardinality(owned \cup {p}) =
              IF p \in owned THEN Cardinality(owned) ELSE Cardinality(owned) + 1
    BY <1>1, FS_AddElement
  <2>3. QED BY <2>1, <2>2
<1>3. Cardinality(creating \ {s}) = Cardinality(creating) - 1
  BY <1>1, FS_RemoveElement
<1>4. /\ Cardinality(owned) \in Nat /\ Cardinality(owned \cup {p}) \in Nat
      /\ Cardinality(tabs) \in Nat /\ Cardinality(creating) \in Nat /\ MaxSavedPages \in Nat
  BY <1>1, <1>2, RoomSizes
<1>5. QED BY <1>1, <1>2, <1>3, <1>4 DEF RoomFor

LEMMA TabsAreFinite ==
    ASSUME IsFiniteSet(Sessions), NEW u
    PROVE  IsFiniteSet(TabsOf(u))
  BY FS_Subset DEF TabsOf

LEMMA RoomStep ==
    ASSUME IsFiniteSet(Sessions), Core, BaseSeen, RoomInv, [Next]_vars
    PROVE  RoomInv'
<1>0. TypeOK /\ LockInv
  BY DEF Core
<1>tabs. \A u : TabsOf(u)' = TabsOf(u)
  BY DEF TabsOf
<1>1. ASSUME \A u \in Users, sc \in Scopes : /\ OwnedBy(u, sc)' \subseteq OwnedBy(u, sc)
                                            /\ Creating(u, sc)' \subseteq Creating(u, sc),
             \A s \in Sessions : tx'[s].pc # "idle" => Owner(tx'[s].key) = UserOf[s]
      PROVE  RoomInv'
  <2>1. ASSUME NEW u \in Users, NEW sc \in Scopes
        PROVE  RoomFor(OwnedBy(u, sc)', Creating(u, sc)', TabsOf(u))
    BY <1>1, RoomStays, TabsAreFinite DEF RoomInv
  <2>2. QED BY <1>1, <1>tabs, <2>1 DEF RoomInv, RoomFor
<1>2. ASSUME pages' = pages, \A s \in Sessions : tx'[s].pc = "idle" \/
                /\ tx'[s].key = tx[s].key /\ tx[s].pc # "idle"
                /\ Opening(tx'[s]) => Opening(tx[s])
      PROVE  RoomInv'
  <2>1. \A u, sc : OwnedBy(u, sc)' = OwnedBy(u, sc)
    BY <1>2 DEF OwnedBy, Live
  <2>2. \A u, sc : Creating(u, sc)' \subseteq Creating(u, sc)
    BY <1>2 DEF Creating, TabsOf, Opening
  <2>3. \A s \in Sessions : tx'[s].pc # "idle" => Owner(tx'[s].key) = UserOf[s]
    BY <1>2 DEF RoomInv
  <2>4. QED BY <1>1, <2>1, <2>2, <2>3
<1>3. ASSUME NEW s \in Sessions, NEW k \in Keys, NEW d \in Drafts(s, k), SaveBegin(s, k, d)
      PROVE  RoomInv'
  <2>0. pages' = pages /\ MayUse(s, k)
    BY <1>3 DEF SaveBegin
  <2>1. \A r \in Sessions \ {s} : tx'[r] = tx[r]
    BY <1>0, <1>3 DEF SaveBegin, TypeOK
  <2>2. /\ tx'[s].key = k /\ tx'[s].pc \in {"read", "insert"}
        /\ tx'[s].pc = "read" => ~tx'[s].fresh
    <3>1. \/ \E p \in Saved(k) : tx' = [tx EXCEPT ![s] = [IdleTx EXCEPT !.pc = "read", !.key = k,
                                                             !.page = p, !.want = d]]
          \/ tx' = [tx EXCEPT ![s] = [IdleTx EXCEPT !.pc = "insert", !.key = k, !.want = d]]
      BY <1>3 DEF SaveBegin
    <3>2. CASE \E p \in Saved(k) :
                 tx' = [tx EXCEPT ![s] = [IdleTx EXCEPT !.pc = "read", !.key = k,
                                                        !.page = p, !.want = d]]
      BY <1>0, <3>2 DEF TypeOK, IdleTx
    <3>3. CASE tx' = [tx EXCEPT ![s] = [IdleTx EXCEPT !.pc = "insert", !.key = k, !.want = d]]
      BY <1>0, <3>3 DEF TypeOK, IdleTx
    <3>4. QED BY <3>1, <3>2, <3>3
  <2>3. \A r \in Sessions : tx'[r].pc # "idle" => Owner(tx'[r].key) = UserOf[r]
    BY <2>0, <2>1, <2>2 DEF RoomInv, MayUse
  <2>4. \A u, sc : OwnedBy(u, sc)' = OwnedBy(u, sc)
    BY <2>0 DEF OwnedBy, Live
  <2>5. ASSUME NEW u \in Users, NEW sc \in Scopes
        PROVE  RoomFor(OwnedBy(u, sc)', Creating(u, sc)', TabsOf(u))
    <3>1. CASE Creating(u, sc)' \subseteq Creating(u, sc)
      BY <2>4, <3>1, RoomStays, TabsAreFinite DEF RoomInv
    <3>2. CASE ~(Creating(u, sc)' \subseteq Creating(u, sc))
      <4>1. UserOf[s] = u /\ ScopeIn(k) = sc /\ tx'[s].pc = "insert"
        BY <2>1, <2>2, <3>2 DEF Creating, TabsOf, Opening
      <4>2. Cardinality(OwnedBy(u, sc)) < MaxSavedPages
        BY <1>0, <1>3, <4>1 DEF SaveBegin, TypeOK, IdleTx
      <4>3. Creating(u, sc)' \subseteq TabsOf(u)
        BY DEF Creating, TabsOf
      <4>4. IsFiniteSet(OwnedBy(u, sc))
        BY DEF RoomInv, RoomFor
      <4>5. QED BY <2>4, <4>2, <4>3, <4>4, RoomCounted, TabsAreFinite
    <3>3. QED BY <3>1, <3>2
  <2>6. QED BY <1>tabs, <2>3, <2>5 DEF RoomInv, RoomFor
<1>4. ASSUME NEW s \in Sessions, SaveCommit(s)
      PROVE  RoomInv'
  <2> DEFINE p == tx[s].page
  <2>1. /\ tx[s].pc = "commit" /\ p \in PageIds /\ pages'[p].key = tx[s].key
        /\ \A q \in PageIds : q # p => pages'[q] = pages[q]
        /\ tx' = [tx EXCEPT ![s] = IdleTx]
    BY <1>4, CommittedPage DEF SaveCommit, Finish
  <2>2. tx'[s] = IdleTx /\ \A r \in Sessions \ {s} : tx'[r] = tx[r]
    BY <1>0, <2>1 DEF TypeOK
  <2>3. \A r \in Sessions : tx'[r].pc # "idle" => Owner(tx'[r].key) = UserOf[r]
    BY <2>2 DEF RoomInv, IdleTx
  <2>4. \A u, sc : Creating(u, sc)' = Creating(u, sc) \ {s}
    BY <2>2 DEF Creating, TabsOf, Opening, IdleTx
  <2>5. CASE tx[s].fresh
    <3>1. ASSUME NEW u \in Users, NEW sc \in Scopes
          PROVE  RoomFor(OwnedBy(u, sc)', Creating(u, sc)', TabsOf(u))
      <4>1. CASE s \in Creating(u, sc)
        <5>1. OwnedBy(u, sc)' \in SUBSET (OwnedBy(u, sc) \cup {p})
          BY <2>1 DEF OwnedBy, Live
        <5>2. RoomFor(OwnedBy(u, sc) \cup {p}, Creating(u, sc) \ {s}, TabsOf(u))
          BY <4>1, RoomFilled, TabsAreFinite DEF RoomInv
        <5>3. QED BY <2>4, <5>1, <5>2, RoomStays, TabsAreFinite
      <4>2. CASE s \notin Creating(u, sc)
        <5>1. Owner(tx[s].key) # u \/ ScopeIn(tx[s].key) # sc
          BY <2>1, <2>5, <4>2 DEF Creating, TabsOf, Opening, RoomInv
        <5>2. OwnedBy(u, sc)' \subseteq OwnedBy(u, sc)
          BY <2>1, <5>1 DEF OwnedBy, Live
        <5>3. QED BY <2>4, <5>2, RoomStays, TabsAreFinite DEF RoomInv
      <4>3. QED BY <4>1, <4>2
    <3>2. QED BY <1>tabs, <2>3, <3>1 DEF RoomInv, RoomFor
  <2>6. CASE ~tx[s].fresh
    <3>1. p \in Live /\ pages[p].key = tx[s].key
      BY <1>0, <2>1, <2>6 DEF LockInv, BaseSeen, Held
    <3>2. \A u, sc : OwnedBy(u, sc)' \subseteq OwnedBy(u, sc)
      BY <2>1, <3>1 DEF OwnedBy, Live
    <3>3. QED BY <1>1, <2>3, <2>4, <3>2
  <2>7. QED BY <2>5, <2>6
<1>5. ASSUME NEW s \in Sessions, SaveInsert(s)
      PROVE  RoomInv'
  <2>1. /\ tx'[s].key = tx[s].key /\ tx[s].pc = "insert"
        /\ \A r \in Sessions \ {s} : tx'[r] = tx[r]
    BY <1>0, <1>5 DEF SaveInsert, TypeOK, Tx
  <2>2. QED BY <1>2, <1>5, <2>1 DEF SaveInsert, Opening
<1>6. ASSUME NEW s \in Sessions, SaveRead(s)
      PROVE  RoomInv'
  <2>1. /\ tx'[s].key = tx[s].key /\ tx[s].pc = "read" /\ tx'[s].fresh = tx[s].fresh
        /\ tx'[s].pc = "commit" /\ \A r \in Sessions \ {s} : tx'[r] = tx[r]
    BY <1>0, <1>6 DEF SaveRead, TypeOK, Tx
  <2>2. QED BY <1>2, <1>6, <2>1 DEF SaveRead, Opening
<1>7. ASSUME NEW s \in Sessions, SaveUnchanged(s) \/ SaveAbort(s)
      PROVE  RoomInv'
  <2>1. pages' = pages /\ tx'[s].pc = "idle" /\ \A r \in Sessions \ {s} : tx'[r] = tx[r]
    BY <1>0, <1>7 DEF SaveUnchanged, SaveAbort, Finish, TypeOK, IdleTx
  <2>2. QED BY <1>2, <2>1
<1>8. ASSUME NEW s \in Sessions, NEW k \in Keys, DeletePage(s, k)
      PROVE  RoomInv'
  <2>1. tx' = tx /\ \A p \in PageIds : pages'[p] # None => pages'[p] = pages[p]
    BY <1>0, <1>8 DEF DeletePage, TypeOK
  <2>2. \A u, sc : /\ OwnedBy(u, sc)' \subseteq OwnedBy(u, sc)
                   /\ Creating(u, sc)' = Creating(u, sc)
    BY <2>1 DEF OwnedBy, Live, Creating, TabsOf
  <2>3. QED BY <1>1, <2>1, <2>2 DEF RoomInv
<1>9. ASSUME NEW s \in Sessions, NEW k \in Keys, NEW on \in BOOLEAN, SetTemplate(s, k, on)
      PROVE  RoomInv'
  <2>1. tx' = tx
    BY <1>9 DEF SetTemplate
  <2>2. PICK q \in Saved(k) : pages' = [pages EXCEPT ![q].template = on]
    BY <1>9 DEF SetTemplate
  <2>3. q \in PageIds /\ pages[q] # None /\ pages[q] \in PageRow
    BY <1>0, <2>2 DEF Saved, Live, TypeOK
  <2>4. /\ pages'[q].key = pages[q].key
        /\ \A p \in PageIds : p # q => pages'[p] = pages[p]
    BY <1>0, <2>2, <2>3 DEF TypeOK, PageRow
  <2>5. \A u, sc : /\ OwnedBy(u, sc)' \subseteq OwnedBy(u, sc)
                   /\ Creating(u, sc)' = Creating(u, sc)
    BY <2>1, <2>3, <2>4 DEF OwnedBy, Live, Creating, TabsOf
  <2>6. QED BY <1>1, <2>1, <2>5 DEF RoomInv
<1>10. CASE UNCHANGED <<pages, tx>>
  BY <1>2, <1>10
<1>11. ASSUME NEW s \in Sessions, \/ \E k \in Keys : Load(s, k)
                                  \/ \E p \in PageIds : LoadTemplate(s, p)
       PROVE  RoomInv'
  BY <1>10, <1>11 DEF Load, LoadTemplate
<1>12. UNCHANGED vars => RoomInv'
  BY <1>10 DEF vars
<1>13. QED
  BY <1>3, <1>4, <1>5, <1>6, <1>7, <1>8, <1>9, <1>11, <1>12 DEF Next, Edit

LEMMA RoomInit == ASSUME IsFiniteSet(Sessions), Init PROVE RoomInv
<1>1. \A s \in Sessions : tx[s].pc = "idle"
  BY DEF Init, IdleTx
<1>2. ASSUME NEW u \in Users, NEW sc \in Scopes
      PROVE  RoomFor(OwnedBy(u, sc), Creating(u, sc), TabsOf(u))
  <2>1. OwnedBy(u, sc) = {} /\ Creating(u, sc) = {}
    BY <1>1 DEF Init, OwnedBy, Live, Creating, TabsOf, Opening
  <2>2. Cardinality(OwnedBy(u, sc)) < MaxSavedPages /\ IsFiniteSet(OwnedBy(u, sc))
    BY <2>1, FS_EmptySet, ConstantsAssumption
  <2>3. QED BY <2>1, <2>2, RoomCounted, TabsAreFinite
<1>3. QED BY <1>1, <1>2 DEF RoomInv

(* The count and the insert of handleSaveSavedPage are two statements, and  *)
(* two creations may both see the last free place.  Still the limit can be  *)
(* passed only by creations that were open at once: a user never has more   *)
(* pages in a scope than the limit and one for every tab but the first,     *)
(* where a tab has one save open at a time.                                 *)
NearlyPageLimit ==
    \A u \in Users, sc \in Scopes :
        Cardinality(OwnedBy(u, sc)) < MaxSavedPages + Cardinality(TabsOf(u))
THEOREM TabsPassTheLimitByOneEach ==
    ASSUME IsFiniteSet(Sessions)
    PROVE  Spec => []NearlyPageLimit
<1>1. RoomInv => NearlyPageLimit
  <2> SUFFICES ASSUME RoomInv, NEW u \in Users, NEW sc \in Scopes
               PROVE  Cardinality(OwnedBy(u, sc)) < MaxSavedPages + Cardinality(TabsOf(u))
    BY DEF NearlyPageLimit
  <2>1. RoomFor(OwnedBy(u, sc), Creating(u, sc), TabsOf(u))
    BY DEF RoomInv
  <2>2. /\ Cardinality(OwnedBy(u, sc)) \in Nat /\ Cardinality(Creating(u, sc)) \in Nat
        /\ Cardinality(TabsOf(u)) \in Nat /\ MaxSavedPages \in Nat
    BY <2>1, RoomSizes, TabsAreFinite DEF RoomFor
  <2>3. QED BY <2>1, <2>2 DEF RoomFor
<1>2. Init => RoomInv
  BY RoomInit
<1>3. Core /\ BaseSeen /\ RoomInv /\ [Next]_vars => RoomInv'
  BY RoomStep
<1>4. QED BY <1>1, <1>2, <1>3, CoreHolds, BaseHolds, PTL DEF Spec

(* With one tab per user the limit of the code is exact. *)
THEOREM OneTabKeepsTheLimit ==
    ASSUME IsFiniteSet(Sessions), \A r, s \in Sessions : UserOf[r] = UserOf[s] => r = s
    PROVE  Spec => []PageLimit
<1>1. NearlyPageLimit /\ RoomInv => PageLimit
  <2> SUFFICES ASSUME NearlyPageLimit, RoomInv, NEW u \in Users, NEW sc \in Scopes
               PROVE  Cardinality(OwnedBy(u, sc)) <= MaxSavedPages
    BY DEF PageLimit
  <2>1. Cardinality(TabsOf(u)) <= 1 /\ Cardinality(TabsOf(u)) \in Nat
    <3>1. CASE TabsOf(u) = {}
      BY <3>1, FS_EmptySet
    <3>2. CASE TabsOf(u) # {}
      <4>1. PICK s \in Sessions : TabsOf(u) = {s}
        BY <3>2 DEF TabsOf
      <4>2. QED BY <4>1, FS_Singleton
    <3>3. QED BY <3>1, <3>2
  <2>2. Cardinality(OwnedBy(u, sc)) \in Nat /\ MaxSavedPages \in Nat
    BY RoomSizes, TabsAreFinite DEF RoomInv, RoomFor
  <2>3. QED BY <2>1, <2>2 DEF NearlyPageLimit
<1>2. Init => RoomInv
  BY RoomInit
<1>3. Core /\ BaseSeen /\ RoomInv /\ [Next]_vars => RoomInv'
  BY RoomStep
<1>4. QED
  BY <1>1, <1>2, <1>3, CoreHolds, BaseHolds, TabsPassTheLimitByOneEach, PTL DEF Spec

-----------------------------------------------------------------------------
(* Pages whose widgets are their own.                                      *)

(* randomUUID gives no id twice. *)
OwnIdsApart == \A j, k \in Keys : j # k => ClientIds[j] \cap ClientIds[k] = {}

(* No open save brings a template's widgets along: those keep the ids they  *)
(* have on the template's page, and the save would move them.              *)
OwnDrafts ==
    \A s \in Sessions : tx[s].pc # "idle" =>
        \A o \in Objects : tx[s].want[o] # None => o \in ClientIds[tx[s].key]

(* The rows on a page are of the page's own widgets, and while a save holds *)
(* the page they are what it read.                                         *)
OwnObjects ==
    \A o \in Objects : objects[o] # None => o \in ClientIds[pages[objects[o].page].key]
SeenIsCurrent ==
    \A s \in Sessions : tx[s].pc = "commit" => tx[s].seen = LoadPageObjects(tx[s].page)
OwnInv == OwnObjects /\ SeenIsCurrent /\ WorkingSetMatchesManifest

(* What a step leaves on page p. *)
SameRows(p) ==
    \A o \in Objects : /\ o \in ObjectsOn(p)' <=> o \in ObjectsOn(p)
                       /\ o \in ObjectsOn(p) => objects'[o] = objects[o]

LEMMA RowsRead ==
    ASSUME NEW p \in PageIds, SameRows(p)
    PROVE  LoadPageObjects(p)' = LoadPageObjects(p)
<1>1. ASSUME NEW o \in Objects
      PROVE  (IF o \in ObjectsOn(p)'
              THEN [version |-> objects'[o].version, content |-> objects'[o].content] ELSE None)
             = (IF o \in ObjectsOn(p)
                THEN [version |-> objects[o].version, content |-> objects[o].content] ELSE None)
  BY DEF SameRows
<1>2. QED BY <1>1 DEF LoadPageObjects

(* What a save read is on its page, and what it did not read is not. *)
LEMMA SeenOnPage ==
    ASSUME Core, SeenIsCurrent, NEW s \in Sessions, tx[s].pc = "commit", NEW o \in Objects
    PROVE  /\ tx[s].seen[o] # None <=> o \in ObjectsOn(tx[s].page)
           /\ tx[s].seen[o] # None => tx[s].seen[o].content = objects[o].content
<1>1. tx[s].seen = LoadPageObjects(tx[s].page)
  BY DEF SeenIsCurrent
<1>2. tx[s].seen[o] = IF o \in ObjectsOn(tx[s].page)
                      THEN [version |-> objects[o].version, content |-> objects[o].content]
                      ELSE None
  BY <1>1 DEF LoadPageObjects
<1>3. tx[s].seen \in [Objects -> StoredObject \cup {None}]
  BY DEF Core, TypeOK, Tx
<1>4. CASE o \in ObjectsOn(tx[s].page)
  <2>1. objects[o] \in ObjectRow
    BY <1>4 DEF ObjectsOn, Core, TypeOK
  <2>2. [version |-> objects[o].version, content |-> objects[o].content] \in StoredObject
    BY <2>1 DEF ObjectRow, StoredObject
  <2>3. tx[s].seen[o] # None
    BY <1>2, <1>4, <2>2, ConstantsAssumption
  <2>4. QED BY <1>2, <1>4, <2>3
<1>5. CASE o \notin ObjectsOn(tx[s].page)
  BY <1>2, <1>5
<1>6. QED BY <1>4, <1>5

(* A save changes only rows of its own page: those it read, and those of    *)
(* widgets that are on no page.                                            *)
LEMMA SaveStaysHome ==
    ASSUME OwnIdsApart, Sound, OnePagePerKey, OwnDrafts, OwnObjects, SeenIsCurrent,
           NEW s \in Sessions, SaveCommit(s), NEW p \in PageIds, p # tx[s].page
    PROVE  SameRows(p)
<1> DEFINE t == tx[s]
<1>0. /\ Core /\ TypeOK /\ LockInv /\ t.pc = "commit" /\ Held(s)
      /\ t.page \in PageIds /\ t.key \in Keys
  BY DEF Sound, Core, SaveCommit, Held, TypeOK
<1>1. ASSUME NEW o \in Objects, objects[o] # None, objects[o].page # t.page
      PROVE  ~Changed(t, o) /\ ~Removed(t, o)
  <2>1. t.seen[o] = None
    BY <1>0, <1>1, SeenOnPage DEF ObjectsOn
  <2>2. CASE t.want[o] = None
    BY <2>1, <2>2 DEF Changed, Removed
  <2>3. CASE t.want[o] # None
    <3> DEFINE q == objects[o].page
    <3>1. q \in Live /\ pages[q] \in PageRow /\ pages[q].key \in Keys
      BY <1>0, <1>1 DEF Sound, Placed, ObjectsAreLive, Live, TypeOK, PageRow
    <3>2. o \in ClientIds[pages[q].key] /\ o \in ClientIds[t.key]
      BY <1>0, <1>1, <2>3 DEF OwnObjects, OwnDrafts
    <3>3. pages[q].key = t.key
      BY <1>0, <3>1, <3>2 DEF OwnIdsApart
    <3>4. CASE t.fresh
      BY <1>0, <3>1, <3>3, <3>4 DEF Sound, KeyInv
    <3>5. CASE ~t.fresh
      <4>1. t.page \in Live /\ t.key = pages[t.page].key
        BY <1>0, <3>5 DEF LockInv, Sound, BaseSeen
      <4>2. q = t.page
        BY <3>1, <3>3, <4>1 DEF OnePagePerKey
      <4>3. QED BY <1>1, <4>2
    <3>6. QED BY <3>4, <3>5
  <2>4. QED BY <2>2, <2>3
<1>2. SUFFICES ASSUME NEW o \in Objects
               PROVE  /\ o \in ObjectsOn(p)' <=> o \in ObjectsOn(p)
                      /\ o \in ObjectsOn(p) => objects'[o] = objects[o]
  BY DEF SameRows
<1>3. CASE Changed(t, o)
  <2>1. objects'[o].page = t.page
    <3>1. objects'[o] = [page |-> t.page, version |-> NextObjectVersion(t, o),
                         content |-> t.want[o]]
      BY <1>0, <1>3, CommitRows
    <3>2. QED BY <3>1
  <2>2. o \notin ObjectsOn(p)
    BY <1>1, <1>3 DEF ObjectsOn
  <2>3. QED BY <2>1, <2>2 DEF ObjectsOn
<1>4. CASE ~Changed(t, o) /\ Removed(t, o)
  <2>1. objects'[o] = None
    BY <1>0, <1>4, CommitRows
  <2>2. o \notin ObjectsOn(p)
    BY <1>1, <1>4 DEF ObjectsOn
  <2>3. QED BY <2>1, <2>2 DEF ObjectsOn
<1>5. CASE ~Changed(t, o) /\ ~Removed(t, o)
  <2>1. objects'[o] = objects[o]
    BY <1>0, <1>5, CommitRows
  <2>2. QED BY <2>1 DEF ObjectsOn
<1>6. QED BY <1>3, <1>4, <1>5

LEMMA DeleteStaysHome ==
    ASSUME NEW q \in PageIds, NEW p \in PageIds, p # q,
           objects' = [o \in Objects |-> IF o \in ObjectsOn(q) THEN None ELSE objects[o]]
    PROVE  SameRows(p)
  BY DEF SameRows, ObjectsOn

(* A page whose rows and whose versions stay still has its manifest. *)
PageMatches(p) ==
    \E r \in pageVersions :
        /\ r.page = p /\ r.version = pages[p].version
        /\ \A o \in Objects :
              r.manifest[o] = IF o \in ObjectsOn(p) THEN objects[o].version ELSE 0

LEMMA StillMatches ==
    ASSUME NEW p \in PageIds, PageMatches(p), SameRows(p), pages'[p].version = pages[p].version,
           \A r \in pageVersions : r.page = p => r \in pageVersions'
    PROVE  PageMatches(p)'
<1>1. PICK r \in pageVersions :
         /\ r.page = p /\ r.version = pages[p].version
         /\ \A o \in Objects :
               r.manifest[o] = IF o \in ObjectsOn(p) THEN objects[o].version ELSE 0
  BY DEF PageMatches
<1>2. r \in pageVersions' /\ r.version = pages'[p].version
  BY <1>1
<1>3. \A o \in Objects : r.manifest[o] = IF o \in ObjectsOn(p)' THEN objects'[o].version ELSE 0
  BY <1>1 DEF SameRows
<1>4. QED BY <1>1, <1>2, <1>3 DEF PageMatches

LEMMA OwnCommit ==
    ASSUME OwnIdsApart, Sound, OnePagePerKey, OwnDrafts, OwnInv, NEW s \in Sessions, SaveCommit(s)
    PROVE  OwnInv'
<1> DEFINE t == tx[s]
<1>0. /\ Core /\ TypeOK /\ LockInv /\ t.pc = "commit" /\ Held(s)
      /\ t.page \in PageIds /\ t.key \in Keys
  BY DEF Sound, Core, SaveCommit, Held, TypeOK
<1>1. /\ \A p \in PageIds : p # t.page => pages'[p] = pages[p] /\ SameRows(p)
      /\ pages'[t.page].key = t.key
  BY <1>0, CommittedPage, SaveStaysHome DEF OwnInv
<1>2. OwnObjects'
  <2> SUFFICES ASSUME NEW o \in Objects, objects'[o] # None
               PROVE  o \in ClientIds[pages'[objects'[o].page].key]
    BY DEF OwnObjects
  <2>1. CASE Changed(t, o)
    <3>1. objects'[o].page = t.page
      <4>1. objects'[o] = [page |-> t.page, version |-> NextObjectVersion(t, o),
                           content |-> t.want[o]]
        BY <1>0, <2>1, CommitRows
      <4>2. QED BY <4>1
    <3>2. QED BY <1>0, <1>1, <2>1, <3>1 DEF Changed, OwnDrafts
  <2>2. CASE ~Changed(t, o)
    <3>1. objects'[o] = objects[o] /\ objects[o] # None
      BY <1>0, <2>2, CommitRows
    <3>2. objects[o].page \in Live
      BY <3>1 DEF Sound, Placed, ObjectsAreLive
    <3>3. pages'[objects[o].page].key = pages[objects[o].page].key
      <4>1. CASE objects[o].page = t.page
        BY <1>0, <1>1, <3>2, <4>1 DEF LockInv, Sound, BaseSeen
      <4>2. CASE objects[o].page # t.page
        BY <1>1, <3>2, <4>2 DEF Live
      <4>3. QED BY <4>1, <4>2
    <3>4. QED BY <3>1, <3>3 DEF OwnInv, OwnObjects
  <2>3. QED BY <2>1, <2>2
<1>3. SeenIsCurrent'
  <2> SUFFICES ASSUME NEW r \in Sessions, tx'[r].pc = "commit", NEW p, p = tx'[r].page
               PROVE  tx'[r].seen = LoadPageObjects(p)'
    BY DEF SeenIsCurrent
  <2>1. r # s /\ tx'[r] = tx[r]
    BY <1>0 DEF SaveCommit, Finish, IdleTx, TypeOK
  <2>2. p \in PageIds /\ p # t.page
    BY <1>0, <2>1 DEF LockInv, Held, TypeOK
  <2>3. LoadPageObjects(p)' = LoadPageObjects(p)
    BY <1>1, <2>2, RowsRead
  <2>4. QED BY <2>1, <2>3 DEF OwnInv, SeenIsCurrent
<1>4. WorkingSetMatchesManifest'
  <2> SUFFICES ASSUME NEW p \in Live' PROVE PageMatches(p)'
    BY DEF WorkingSetMatchesManifest, PageMatches
  <2>1. p \in PageIds
    BY DEF Live
  <2>2. CASE p = t.page
    <3> DEFINE r == [page |-> p, version |-> BaseVersion(t) + 1, manifest |-> Manifest(p, objects')]
    <3>1. r \in pageVersions' /\ pages'[p].version = BaseVersion(t) + 1
      BY <1>0, <2>2, CommittedPage DEF SaveCommit
    <3>2. \A o \in Objects : r.manifest[o] = IF o \in ObjectsOn(p)' THEN objects'[o].version ELSE 0
      BY <3>1 DEF Manifest, ObjectsOn
    <3>3. QED BY <3>1, <3>2 DEF PageMatches
  <2>3. CASE p # t.page
    <3>1. p \in Live /\ pages'[p] = pages[p] /\ SameRows(p)
      BY <1>1, <2>1, <2>3 DEF Live
    <3>2. \A r \in pageVersions : r \in pageVersions'
      BY DEF SaveCommit
    <3>3. PageMatches(p)
      BY <3>1 DEF OwnInv, WorkingSetMatchesManifest, PageMatches
    <3>4. QED BY <2>1, <3>1, <3>2, <3>3, StillMatches
  <2>4. QED BY <2>2, <2>3
<1>5. QED BY <1>2, <1>3, <1>4 DEF OwnInv

LEMMA OwnDelete ==
    ASSUME Sound, OwnInv, NEW s \in Sessions, NEW k \in Keys, DeletePage(s, k)
    PROVE  OwnInv'
<1>0. TypeOK /\ LockInv
  BY DEF Sound, Core
<1>1. PICK q \in Saved(k) :
         /\ RowFree(q)
         /\ pages' = [pages EXCEPT ![q] = None]
         /\ objects' = [o \in Objects |-> IF o \in ObjectsOn(q) THEN None ELSE objects[o]]
         /\ pageVersions' = {r \in pageVersions : r.page # q}
  BY DEF DeletePage
<1>2. q \in PageIds /\ UNCHANGED tx
  BY DEF Saved, Live, DeletePage
<1>3. \A p \in PageIds : p # q => SameRows(p) /\ pages'[p] = pages[p]
  BY <1>0, <1>1, <1>2, DeleteStaysHome DEF TypeOK
<1>4. pages'[q] = None
  BY <1>0, <1>1, <1>2 DEF TypeOK
<1>5. OwnObjects'
  <2> SUFFICES ASSUME NEW o \in Objects, objects'[o] # None
               PROVE  o \in ClientIds[pages'[objects'[o].page].key]
    BY DEF OwnObjects
  <2>1. objects'[o] = objects[o] /\ objects[o].page # q
    BY <1>1 DEF ObjectsOn
  <2>2. objects[o].page \in PageIds
    BY <2>1 DEF Sound, Placed, ObjectsAreLive, Live
  <2>3. QED BY <1>3, <2>1, <2>2 DEF OwnInv, OwnObjects
<1>6. SeenIsCurrent'
  <2> SUFFICES ASSUME NEW r \in Sessions, tx[r].pc = "commit", NEW p, p = tx[r].page
               PROVE  tx[r].seen = LoadPageObjects(p)'
    BY <1>2 DEF SeenIsCurrent
  <2>1. p \in PageIds /\ p # q
    BY <1>0, <1>1 DEF LockInv, Held, TypeOK, RowFree
  <2>2. LoadPageObjects(p)' = LoadPageObjects(p)
    BY <1>3, <2>1, RowsRead
  <2>3. QED BY <2>2 DEF OwnInv, SeenIsCurrent
<1>7. WorkingSetMatchesManifest'
  <2> SUFFICES ASSUME NEW p \in Live' PROVE PageMatches(p)'
    BY DEF WorkingSetMatchesManifest, PageMatches
  <2>1. p \in PageIds /\ p # q
    BY <1>4 DEF Live
  <2>2. p \in Live /\ SameRows(p) /\ pages'[p] = pages[p]
    BY <1>3, <2>1 DEF Live
  <2>3. PageMatches(p)
    BY <2>2 DEF OwnInv, WorkingSetMatchesManifest, PageMatches
  <2>4. QED BY <1>1, <2>1, <2>2, <2>3, StillMatches
<1>8. QED BY <1>5, <1>6, <1>7 DEF OwnInv

(* The other steps write no object and no version. *)
LEMMA OwnQuiet ==
    ASSUME Sound, OwnInv, UNCHANGED <<objects, pageVersions>>,
           \A p \in PageIds : /\ p \in Live' <=> p \in Live
                              /\ pages'[p].key = pages[p].key /\ pages'[p].version = pages[p].version,
           \A r \in Sessions : tx'[r].pc = "commit" =>
              tx'[r] = tx[r] \/ tx'[r].seen = LoadPageObjects(tx'[r].page)
    PROVE  OwnInv'
<1>1. \A p : ObjectsOn(p)' = ObjectsOn(p)
  BY DEF ObjectsOn
<1>2. OwnObjects'
  BY DEF OwnInv, OwnObjects, Sound, Placed, ObjectsAreLive, Live
<1>3. SeenIsCurrent'
  <2> SUFFICES ASSUME NEW r \in Sessions, tx'[r].pc = "commit", NEW p, p = tx'[r].page
               PROVE  tx'[r].seen = LoadPageObjects(p)'
    BY DEF SeenIsCurrent
  <2>1. tx'[r].seen = LoadPageObjects(p)
    BY DEF OwnInv, SeenIsCurrent
  <2>2. QED BY <2>1, <1>1 DEF LoadPageObjects
<1>4. WorkingSetMatchesManifest'
  <2> SUFFICES ASSUME NEW p \in Live' PROVE PageMatches(p)'
    BY DEF WorkingSetMatchesManifest, PageMatches
  <2>1. p \in PageIds /\ p \in Live
    BY DEF Live
  <2>2. PageMatches(p) /\ SameRows(p)
    BY <1>1, <2>1 DEF OwnInv, WorkingSetMatchesManifest, PageMatches, SameRows
  <2>3. QED BY <2>1, <2>2, StillMatches
<1>5. QED BY <1>2, <1>3, <1>4 DEF OwnInv

LEMMA OwnStep ==
    ASSUME OwnIdsApart, Sound, OnePagePerKey, OwnDrafts, OwnInv, [Next]_vars
    PROVE  OwnInv'
<1>0. TypeOK
  BY DEF Sound, Core
<1>1. ASSUME UNCHANGED <<pages, objects, pageVersions>>,
             \A r \in Sessions : tx'[r].pc = "commit" =>
                tx'[r] = tx[r] \/ tx'[r].seen = LoadPageObjects(tx'[r].page)
      PROVE  OwnInv'
  BY <1>1, OwnQuiet DEF Live
<1>2. ASSUME NEW s \in Sessions, Edit(s) PROVE OwnInv'
  <2>1. ASSUME NEW k \in Keys, Load(s, k) PROVE OwnInv'
    BY <1>1, <2>1 DEF Load
  <2>2. ASSUME NEW p \in PageIds, LoadTemplate(s, p) PROVE OwnInv'
    BY <1>1, <2>2 DEF LoadTemplate
  <2>3. ASSUME NEW k \in Keys, NEW d \in Drafts(s, k), SaveBegin(s, k, d) PROVE OwnInv'
    <3>1. \A r \in Sessions : tx'[r].pc = "commit" => tx'[r] = tx[r]
      BY <1>0, <2>3 DEF SaveBegin, IdleTx, TypeOK
    <3>2. QED BY <1>1, <2>3, <3>1 DEF SaveBegin
  <2>4. CASE SaveInsert(s)
    <3>1. \A r \in Sessions : tx'[r].pc = "commit" => tx'[r] = tx[r]
      BY <1>0, <2>4 DEF SaveInsert, TypeOK, Tx
    <3>2. QED BY <1>1, <2>4, <3>1 DEF SaveInsert
  <2>5. CASE SaveRead(s)
    <3>1. \A r \in Sessions : tx'[r].pc = "commit" =>
             tx'[r] = tx[r] \/ tx'[r].seen = LoadPageObjects(tx'[r].page)
      BY <1>0, <2>5 DEF SaveRead, TypeOK, Tx
    <3>2. QED BY <1>1, <2>5, <3>1 DEF SaveRead
  <2>6. CASE SaveCommit(s)
    BY <2>6, OwnCommit
  <2>7. CASE SaveUnchanged(s)
    <3>1. \A r \in Sessions : tx'[r].pc = "commit" => tx'[r] = tx[r]
      BY <1>0, <2>7 DEF SaveUnchanged, Finish, IdleTx, TypeOK
    <3>2. QED BY <1>1, <2>7, <3>1 DEF SaveUnchanged
  <2>8. CASE SaveAbort(s)
    <3>1. \A r \in Sessions : tx'[r].pc = "commit" => tx'[r] = tx[r]
      BY <1>0, <2>8 DEF SaveAbort, IdleTx, TypeOK
    <3>2. QED BY <1>1, <2>8, <3>1 DEF SaveAbort
  <2>9. ASSUME NEW k \in Keys, NEW on \in BOOLEAN, SetTemplate(s, k, on) PROVE OwnInv'
    <3>1. PICK p \in Saved(k) : pages' = [pages EXCEPT ![p].template = on]
      BY <2>9 DEF SetTemplate
    <3>2. p \in PageIds /\ pages[p] # None /\ pages[p] \in PageRow
      BY <1>0, <3>1 DEF Saved, Live, TypeOK
    <3>3. /\ pages'[p] # None /\ pages'[p].key = pages[p].key
          /\ pages'[p].version = pages[p].version
          /\ \A q \in PageIds : q # p => pages'[q] = pages[q]
      BY <1>0, <3>1, <3>2, ConstantsAssumption DEF TypeOK, PageRow
    <3>4. UNCHANGED <<objects, pageVersions, tx>>
      BY <2>9 DEF SetTemplate
    <3>5. QED BY <3>2, <3>3, <3>4, OwnQuiet DEF Live
  <2>10. QED BY <1>2, <2>1, <2>2, <2>3, <2>4, <2>5, <2>6, <2>7, <2>8, <2>9 DEF Edit
<1>3. CASE UNCHANGED vars
  BY <1>1, <1>3 DEF vars
<1>4. QED BY <1>2, <1>3, OwnDelete DEF Next

LEMMA OwnHolds ==
    ASSUME OwnIdsApart
    PROVE  Spec /\ []OwnDrafts => []OwnInv
<1>1. Init => OwnInv
  BY DEF Init, OwnInv, OwnObjects, SeenIsCurrent, WorkingSetMatchesManifest, Live, IdleTx, Blank
<1>2. Sound /\ OnePagePerKey /\ OwnDrafts /\ OwnInv /\ [Next]_vars => OwnInv'
  BY OwnStep
<1>3. QED BY <1>1, <1>2, SoundHolds, PagesAreUnique, PTL DEF Spec

(* While every save brings only widgets made on its own canvas, a page shows *)
(* what the manifest of its version lists, whoever saves, publishes or       *)
(* deletes what.  A draft made from a template is the one thing that breaks  *)
(* this: it takes the rows of the template's page along.                     *)
THEOREM OwnPagesMatchTheirManifest ==
    ASSUME OwnIdsApart
    PROVE  Spec /\ []OwnDrafts => []WorkingSetMatchesManifest
<1>1. OwnInv => WorkingSetMatchesManifest
  BY DEF OwnInv
<1>2. QED BY <1>1, OwnHolds, PTL

(* Nor can a save then leave on its page anything but what was sent: what it *)
(* read under the row lock is what is there when it writes.                  *)
THEOREM OwnDraftsAreStored ==
    ASSUME OwnIdsApart
    PROVE  Spec /\ []OwnDrafts => SavedDraftIsStored
<1>1. ASSUME Core, OwnInv, NEW s \in Sessions, SaveCommit(s) \/ SaveUnchanged(s), NEW o \in Objects
      PROVE  LET stored == objects'[o] # None /\ objects'[o].page = tx[s].page
             IN IF tx[s].want[o] = None THEN ~stored
                ELSE stored /\ objects'[o].content = tx[s].want[o]
  <2> DEFINE t == tx[s]
  <2>1. t.pc = "commit" /\ t.page \in PageIds
    BY <1>1 DEF SaveCommit, SaveUnchanged, Core, TypeOK
  <2>2. /\ t.seen[o] # None <=> objects[o] # None /\ objects[o].page = t.page
        /\ t.seen[o] # None => t.seen[o].content = objects[o].content
    BY <1>1, <2>1, SeenOnPage DEF OwnInv, ObjectsOn
  <2>3. CASE Changed(t, o)
    <3>1. SaveCommit(s)
      BY <1>1, <2>3 DEF SaveUnchanged, NeedsVersion, Touched
    <3>2. objects'[o] = [page |-> t.page, version |-> NextObjectVersion(t, o), content |-> t.want[o]]
          /\ objects' \in [Objects -> ObjectRow \cup {None}]
      BY <1>1, <2>1, <2>3, <3>1, CommitRows, CommitTypes DEF SaveCommit
    <3>3. objects'[o] # None
      <4>1. NextObjectVersion(t, o) \in Nat /\ t.want[o] \in Contents
        BY <1>1, <2>1, <2>3, CommitTypes DEF Changed, Core, TypeOK, Tx, Draft
      <4>2. objects'[o] \in ObjectRow
        BY <2>1, <3>2, <4>1 DEF ObjectRow
      <4>3. QED BY <4>2, ConstantsAssumption
    <3>4. QED BY <2>3, <3>2, <3>3 DEF Changed
  <2>4. CASE ~Changed(t, o) /\ Removed(t, o)
    <3>1. SaveCommit(s)
      BY <1>1, <2>4 DEF SaveUnchanged, NeedsVersion, Touched
    <3>2. objects'[o] = None
      BY <1>1, <2>4, <3>1, CommitRows
    <3>3. QED BY <2>4, <3>2 DEF Removed
  <2>5. CASE ~Changed(t, o) /\ ~Removed(t, o)
    <3>1. objects'[o] = objects[o]
      <4>1. CASE SaveCommit(s)
        BY <1>1, <2>5, <4>1, CommitRows
      <4>2. CASE SaveUnchanged(s)
        BY <4>2 DEF SaveUnchanged
      <4>3. QED BY <1>1, <4>1, <4>2
    <3>2. QED BY <2>2, <2>5, <3>1 DEF Changed, Removed
  <2>6. QED BY <2>3, <2>4, <2>5
<1>2. Core /\ OwnInv /\ [Next]_vars
      => [\A s \in Sessions : SaveCommit(s) \/ SaveUnchanged(s) =>
             \A o \in Objects :
                 LET stored == objects'[o] # None /\ objects'[o].page = tx[s].page
                 IN IF tx[s].want[o] = None THEN ~stored
                    ELSE stored /\ objects'[o].content = tx[s].want[o]]_vars
  BY <1>1
<1>3. QED BY <1>2, OwnHolds, CoreHolds, PTL DEF Spec, SavedDraftIsStored

(* The draft made from a template is also all that can take widgets from a   *)
(* published page: without one, a template keeps its widgets until its owner *)
(* saves it.                                                                 *)
THEOREM TemplatesKeepTheirWidgets ==
    ASSUME OwnIdsApart
    PROVE  Spec /\ []OwnDrafts => TemplateStaysWhole
<1>1. ASSUME Sound, OnePagePerKey, OwnDrafts, OwnInv, [Next]_vars,
             NEW p \in Live, pages'[p] # None, pages'[p].version = pages[p].version,
             NEW o \in ObjectsOn(p)
      PROVE  objects'[o] = objects[o]
  <2>0. Core /\ TypeOK /\ LockInv /\ p \in PageIds /\ o \in Objects
    BY <1>1 DEF Sound, Core, Live, ObjectsOn
  <2>1. CASE UNCHANGED objects
    BY <2>1
  <2>2. ASSUME NEW s \in Sessions, SaveCommit(s) PROVE objects'[o] = objects[o]
    <3>1. CASE p = tx[s].page
      <4>1. ~tx[s].fresh
        BY <1>1, <2>0, <2>2, <3>1 DEF SaveCommit, LockInv, Held
      <4>2. BaseVersion(tx[s]) = pages[p].version /\ BaseVersion(tx[s]) \in Nat
        BY <2>0, <2>2, <3>1, <4>1, CommittedPage DEF BaseVersion
      <4>3. pages'[p].version = BaseVersion(tx[s]) + 1
        BY <2>0, <2>2, <3>1, CommittedPage
      <4>4. QED BY <1>1, <4>2, <4>3
    <3>2. CASE p # tx[s].page
      <4>1. SameRows(p)
        BY <1>1, <2>0, <2>2, <3>2, SaveStaysHome DEF OwnInv
      <4>2. QED BY <1>1, <2>0, <4>1 DEF SameRows
    <3>3. QED BY <3>1, <3>2
  <2>3. ASSUME NEW s \in Sessions, NEW k \in Keys, DeletePage(s, k) PROVE objects'[o] = objects[o]
    <3>1. PICK q \in Saved(k) :
             /\ pages' = [pages EXCEPT ![q] = None]
             /\ objects' = [x \in Objects |-> IF x \in ObjectsOn(q) THEN None ELSE objects[x]]
      BY <2>3 DEF DeletePage
    <3>2. p # q
      BY <1>1, <2>0, <3>1 DEF TypeOK
    <3>3. QED BY <1>1, <2>0, <3>1, <3>2 DEF ObjectsOn
  <2>4. QED BY <1>1, <2>1, <2>2, <2>3
             DEF Next, Edit, vars, Load, LoadTemplate, SaveBegin, SaveInsert, SaveRead,
                 SaveUnchanged, SaveAbort, SetTemplate
<1>2. Sound /\ OnePagePerKey /\ OwnDrafts /\ OwnInv /\ [Next]_vars
      => [\A p \in Live :
             pages[p].template /\ pages'[p] # None /\ pages'[p].version = pages[p].version
             => \A o \in ObjectsOn(p) : objects'[o] = objects[o]]_vars
  BY <1>1
<1>3. QED BY <1>2, OwnHolds, SoundHolds, PagesAreUnique, PTL DEF Spec, TemplateStaysWhole

(* Where headquarters publishes nothing, every draft is of its own widgets. *)
NothingPublished == TemplateNames = {} \/ \A s \in Sessions : ScopeOf[UserOf[s]] # HQ
NothingBorrowed ==
    /\ \A p \in Live : ~pages[p].template
    /\ \A s \in Sessions : view[s].borrowed = {}

LEMMA NothingBorrowedStep ==
    ASSUME NothingPublished, Core, NothingBorrowed, OwnDrafts, [Next]_vars
    PROVE  NothingBorrowed' /\ OwnDrafts'
<1>0. TypeOK /\ LockInv
  BY DEF Core
<1>1. ASSUME UNCHANGED pages, NEW s \in Sessions,
             \A r \in Sessions \ {s} : tx'[r] = tx[r] /\ view'[r] = view[r],
             view'[s].borrowed = {},
             tx'[s].pc # "idle" => \/ tx'[s].want = tx[s].want /\ tx'[s].key = tx[s].key
                                      /\ tx[s].pc # "idle"
                                   \/ \A o \in Objects :
                                         tx'[s].want[o] # None => o \in ClientIds[tx'[s].key]
      PROVE  NothingBorrowed' /\ OwnDrafts'
  <2>1. NothingBorrowed'
    BY <1>1 DEF NothingBorrowed, Live
  <2>2. OwnDrafts'
    <3> SUFFICES ASSUME NEW r \in Sessions, tx'[r].pc # "idle", NEW o \in Objects, tx'[r].want[o] # None
                 PROVE  o \in ClientIds[tx'[r].key]
      BY DEF OwnDrafts
    <3>1. CASE r = s
      BY <1>1, <3>1 DEF OwnDrafts
    <3>2. CASE r # s
      BY <1>1, <3>2 DEF OwnDrafts
    <3>3. QED BY <3>1, <3>2
  <2>3. QED BY <2>1, <2>2
<1>2. ASSUME NEW s \in Sessions, Edit(s) PROVE NothingBorrowed' /\ OwnDrafts'
  <2>1. ASSUME NEW k \in Keys, Load(s, k) PROVE NothingBorrowed' /\ OwnDrafts'
    <3>1. view'[s].borrowed = {} /\ \A r \in Sessions \ {s} : view'[r] = view[r]
      BY <1>0, <2>1 DEF Load, EmptyView, TypeOK
    <3>2. QED BY <1>1, <2>1, <3>1 DEF Load
  <2>2. ASSUME NEW p \in PageIds, LoadTemplate(s, p) PROVE FALSE
    BY <2>2 DEF LoadTemplate, NothingBorrowed
  <2>3. ASSUME NEW k \in Keys, NEW d \in Drafts(s, k), SaveBegin(s, k, d)
        PROVE  NothingBorrowed' /\ OwnDrafts'
    <3>1. \A o \in Objects : d[o] # None => o \in ClientIds[k]
      BY DEF Drafts, NothingBorrowed
    <3>2. /\ tx'[s].want = d /\ tx'[s].key = k
          /\ \A r \in Sessions \ {s} : tx'[r] = tx[r]
      BY <1>0, <2>3 DEF SaveBegin, IdleTx, TypeOK
    <3>3. UNCHANGED <<pages, view>>
      BY <2>3 DEF SaveBegin
    <3>4. QED BY <1>1, <3>1, <3>2, <3>3 DEF NothingBorrowed
  <2>4. CASE SaveInsert(s) \/ SaveRead(s)
    <3>1. /\ tx'[s].want = tx[s].want /\ tx'[s].key = tx[s].key /\ tx[s].pc # "idle"
          /\ \A r \in Sessions \ {s} : tx'[r] = tx[r]
      <4>1. CASE SaveInsert(s)
        BY <1>0, <4>1 DEF SaveInsert, TypeOK, Tx
      <4>2. CASE SaveRead(s)
        BY <1>0, <4>2 DEF SaveRead, TypeOK, Tx
      <4>3. QED BY <2>4, <4>1, <4>2
    <3>2. UNCHANGED <<pages, view>>
      BY <2>4 DEF SaveInsert, SaveRead
    <3>3. QED BY <1>1, <3>1, <3>2 DEF NothingBorrowed
  <2>5. CASE SaveUnchanged(s) \/ SaveAbort(s)
    <3>1. /\ tx'[s].pc = "idle" /\ \A r \in Sessions \ {s} : tx'[r] = tx[r]
          /\ view'[s].borrowed = view[s].borrowed
          /\ \A r \in Sessions \ {s} : view'[r] = view[r]
      BY <1>0, <2>5 DEF SaveUnchanged, SaveAbort, Finish, IdleTx, TypeOK, View
    <3>2. UNCHANGED pages
      BY <2>5 DEF SaveUnchanged, SaveAbort
    <3>3. QED BY <1>1, <3>1, <3>2 DEF NothingBorrowed
  <2>6. CASE SaveCommit(s)
    <3> DEFINE t == tx[s]
    <3>1. /\ tx'[s].pc = "idle" /\ view'[s].borrowed = {}
          /\ \A r \in Sessions \ {s} : tx'[r] = tx[r] /\ view'[r] = view[r]
      BY <1>0, <2>6 DEF SaveCommit, Finish, IdleTx, TypeOK, NothingBorrowed
    <3>2. t.page \in PageIds /\ \A p \in PageIds : p # t.page => pages'[p] = pages[p]
      BY <2>6, CommittedPage
    <3>3. ~pages'[t.page].template
      <4>1. pages'[t.page] = [key |-> t.key, version |-> BaseVersion(t) + 1,
               template |-> IF t.fresh THEN FALSE ELSE pages[t.page].template]
        BY <1>0, <2>6, <3>2 DEF SaveCommit, TypeOK
      <4>2. ~t.fresh => t.page \in Live
        BY <1>0, <2>6 DEF SaveCommit, LockInv, Held
      <4>3. QED BY <4>1, <4>2 DEF NothingBorrowed
    <3>4. NothingBorrowed'
      BY <3>1, <3>2, <3>3 DEF NothingBorrowed, Live
    <3>5. OwnDrafts'
      BY <3>1 DEF OwnDrafts
    <3>6. QED BY <3>4, <3>5
  <2>7. ASSUME NEW k \in Keys, NEW on \in BOOLEAN, SetTemplate(s, k, on) PROVE FALSE
    BY <2>7 DEF SetTemplate, NothingPublished
  <2>8. QED BY <1>2, <2>1, <2>2, <2>3, <2>4, <2>5, <2>6, <2>7 DEF Edit
<1>3. ASSUME NEW s \in Sessions, NEW k \in Keys, DeletePage(s, k)
      PROVE  NothingBorrowed' /\ OwnDrafts'
  <2>1. \A p \in Live' : p \in Live /\ pages'[p] = pages[p]
    BY <1>0, <1>3 DEF DeletePage, Live, Saved, TypeOK
  <2>2. UNCHANGED <<tx, view>>
    BY <1>3 DEF DeletePage
  <2>3. QED BY <2>1, <2>2 DEF NothingBorrowed, OwnDrafts
<1>4. CASE UNCHANGED vars
  BY <1>4 DEF vars, NothingBorrowed, OwnDrafts, Live
<1>5. QED BY <1>2, <1>3, <1>4 DEF Next

LEMMA OwnUnlessPublished ==
    ASSUME NothingPublished
    PROVE  Spec => []OwnDrafts
<1>1. Init => NothingBorrowed /\ OwnDrafts
  BY DEF Init, NothingBorrowed, OwnDrafts, Live, IdleTx, EmptyView
<1>2. Core /\ NothingBorrowed /\ OwnDrafts /\ [Next]_vars => NothingBorrowed' /\ OwnDrafts'
  BY NothingBorrowedStep
<1>3. QED BY <1>1, <1>2, CoreHolds, PTL DEF Spec

-----------------------------------------------------------------------------
(* Deployments.                                                            *)

(* What a page deployed at a place needs for ever: to exist, in the scope   *)
(* of the place, with the manifest of the version that is shown.            *)
Kept(p, place, v) == p \in Live /\ ScopeIn(pages[p].key) = place[1] /\ HasManifest(p, v)

(* A deleted page: its id is not handed out again.                          *)
Gone(p) == p \in used /\ p \notin Live /\ p \notin locked

(* A page that others see lists its own version.                            *)
CurrentIsListed == \A p \in Live : HasManifest(p, pages[p].version)
Store == Sound /\ OnePagePerKey /\ CurrentIsListed

(* An open deploy t can publish what it promised, unless it is a pin whose  *)
(* page was deleted before it got hold of the row; a rollback holds the row *)
(* it removes, with the flag that belongs to it; a transaction that has set *)
(* its flag finds no other.                                                *)
Flagging(t) == t.pc = "publish" /\ t.op # "rollback"
Promise(t) ==
    t.pc # "idle" /\ t.op \in {"deploy", "replace"} =>
        /\ t.removed = None /\ t.page \in PageIds
        /\ \/ Kept(t.page, t.place, t.version)
           \/ t.op = "replace" /\ t.pc # "publish" /\ Gone(t.page)
TakesBack(t) ==
    t.removed # None =>
        /\ t.op = "rollback" /\ deployments[t.place] = t.removed
        /\ t.pc = "wait" => t.target = t.removed.page
        /\ t.pc \in {"set", "publish"} => FlaggedAt(t.place) \subseteq {t.target}
Ready(t) ==
    /\ t.pc = "idle" => t = IdleDtx
    /\ t.pc # "idle" => t.place \in Places /\ t.op \in {"deploy", "replace", "rollback"}
    /\ Promise(t) /\ TakesBack(t)
    /\ Flagging(t) => FlaggedAt(t.place) \subseteq {t.page, t.target}
EachIsReady == \A s \in Sessions, t \in Dtx : dtx[s] = t => Ready(t)

(* Two transactions remove the row of a place, or flag a page for it, only  *)
(* one after the other.                                                    *)
Apart(t, u) ==
    t.place = u.place => /\ t.removed = None \/ u.removed = None
                         /\ ~Flagging(t) \/ ~Flagging(u)
EachIsApart == \A r, s \in Sessions : r # s => Apart(dtx[r], dtx[s])

LogsAreKept ==
    \A l \in logs : l.action # "rollback" =>
        Kept(l.page, l.place, l.version) \/ Gone(l.page)
FlagIsShown ==
    \A p \in PageIds, place \in Places :
        p \in FlaggedAt(place) => deployments[place] # None /\ deployments[place].page = p

DInv ==
    /\ DeploymentsTypeOK /\ EachIsReady /\ EachIsApart
    /\ LogsAreKept /\ DeploymentIsRestorable /\ FlagIsShown

-----------------------------------------------------------------------------
(* The page store under the deployments.                                   *)

(* Every step of the deployments is one of the page store, or leaves its    *)
(* tables alone.                                                           *)
LEMMA StoreSteps == [DNext]_allvars => [Next]_vars
<1>1. ASSUME NEW s \in Sessions, Deploying(s) PROVE UNCHANGED vars
  BY <1>1 DEF Deploying, DeployBegin, PinBegin, RollbackBegin, ClearFlag, ClearAfterWait,
              SetFlag, Publish, Withdraw, DeployAbort
<1>2. ASSUME NEW s \in Sessions, EditUnderDeploys(s) PROVE Next
  BY <1>2 DEF EditUnderDeploys, Next
<1>3. ASSUME NEW s \in Sessions, NEW k \in Keys, DeleteUnderDeploys(s, k) PROVE Next
  BY <1>3 DEF DeleteUnderDeploys, Next
<1>4. QED BY <1>1, <1>2, <1>3 DEF DNext, allvars

LEMMA StoreUnder == DSpec => Spec
<1>1. DInit => Init
  BY DEF DInit
<1>2. QED BY <1>1, StoreSteps, PTL DEF DSpec, Spec

(* What a step of the page store does to a page others know of: it keeps    *)
(* its key and its manifests, or is gone for good.                          *)
PageKeeps(p) ==
    /\ p \in Live /\ p \in Live' => pages'[p].key = pages[p].key
    /\ p \in Live /\ p \notin Live' => Gone(p)'
    /\ Gone(p) => Gone(p)'
    /\ (p \in Live => p \in Live') => \A v : HasManifest(p, v) => HasManifest(p, v)'
    /\ p \in Live' => HasManifest(p, pages[p].version)'

LEMMA PagesKeep ==
    ASSUME Store, [Next]_vars, NEW p \in PageIds
    PROVE  PageKeeps(p)
<1>0. TypeOK /\ LockInv /\ BaseSeen /\ CurrentIsListed
  BY DEF Store, Sound, Core
<1>1. ASSUME \A q \in PageIds : /\ pages'[q] = None <=> pages[q] = None
                                /\ pages[q] # None => /\ pages'[q].key = pages[q].key
                                                      /\ pages'[q].version = pages[q].version,
             UNCHANGED pageVersions, used \subseteq used',
             p \in locked' => p \in locked \/ p \in Live \/ p \notin used
      PROVE  PageKeeps(p)
  <2>1. p \in Live' <=> p \in Live
    BY <1>1 DEF Live
  <2>2. Gone(p) => Gone(p)'
    BY <1>1, <2>1 DEF Gone
  <2>3. \A v : HasManifest(p, v) => HasManifest(p, v)'
    BY <1>1 DEF HasManifest
  <2>4. p \in Live' => HasManifest(p, pages[p].version)'
    BY <1>0, <1>1, <2>1 DEF HasManifest, CurrentIsListed, Live
  <2>5. QED BY <1>1, <2>1, <2>2, <2>3, <2>4 DEF PageKeeps, Live
<1>2. ASSUME NEW s \in Sessions, SaveCommit(s) PROVE PageKeeps(p)
  <2> DEFINE t == tx[s]
  <2>1. /\ t.pc = "commit" /\ t.page \in locked /\ t.page \in PageIds
        /\ t.fresh <=> t.page \notin Live
        /\ ~t.fresh => t.key = pages[t.page].key
    BY <1>0, <1>2 DEF SaveCommit, LockInv, Held, BaseSeen, TypeOK
  <2>2. /\ \A q \in PageIds : q # t.page => pages'[q] = pages[q]
        /\ pages'[t.page] # None /\ pages'[t.page].key = t.key
        /\ pages'[t.page].version = BaseVersion(t) + 1
    BY <1>2, CommittedPage DEF Store, Sound
  <2>3. /\ used' = used /\ locked' = locked \ {t.page} /\ pageVersions \subseteq pageVersions'
        /\ \E r \in pageVersions' : r.page = t.page /\ r.version = BaseVersion(t) + 1
    <3>1. /\ used' = used /\ locked' = locked \ {t.page}
          /\ pageVersions' = pageVersions \cup
                {[page |-> t.page, version |-> BaseVersion(t) + 1,
                  manifest |-> Manifest(t.page, WrittenObjects(t))]}
      BY <1>2 DEF SaveCommit, Finish
    <3>2. \A m : LET r == [page |-> t.page, version |-> BaseVersion(t) + 1, manifest |-> m]
                 IN r.page = t.page /\ r.version = BaseVersion(t) + 1
      OBVIOUS
    <3>3. QED BY <3>1, <3>2
  <2>4. \A v : HasManifest(p, v) => HasManifest(p, v)'
    BY <2>3 DEF HasManifest
  <2>5. CASE p = t.page
    <3>1. p \in Live' /\ ~Gone(p) /\ (p \in Live => pages'[p].key = pages[p].key)
      BY <2>1, <2>2, <2>5 DEF Live, Gone
    <3>2. HasManifest(p, pages[p].version)'
      BY <2>2, <2>3, <2>5 DEF HasManifest
    <3>3. QED BY <2>4, <3>1, <3>2 DEF PageKeeps
  <2>6. CASE p # t.page
    <3>1. pages'[p] = pages[p] /\ (p \in Live' <=> p \in Live)
      BY <2>2, <2>6 DEF Live
    <3>2. Gone(p) => Gone(p)'
      BY <2>3, <3>1 DEF Gone
    <3>3. p \in Live' => HasManifest(p, pages[p].version)'
      BY <1>0, <2>3, <3>1 DEF HasManifest, CurrentIsListed
    <3>4. QED BY <2>4, <3>1, <3>2, <3>3 DEF PageKeeps
  <2>7. QED BY <2>5, <2>6
<1>3. ASSUME NEW s \in Sessions, NEW k \in Keys, DeletePage(s, k) PROVE PageKeeps(p)
  <2>1. PICK q \in Saved(k) :
           /\ q \notin locked /\ pages' = [pages EXCEPT ![q] = None]
           /\ pageVersions' = {r \in pageVersions : r.page # q}
    BY <1>3 DEF DeletePage, RowFree
  <2>2. q \in Live /\ q \in used /\ used' = used /\ locked' = locked
    BY <1>0, <1>3 DEF Saved, LockInv, DeletePage
  <2>3. CASE p = q
    <3>1. p \notin Live' /\ Gone(p)' /\ p \in Live
      BY <1>0, <2>1, <2>2, <2>3 DEF Live, Gone, TypeOK
    <3>2. QED BY <3>1 DEF PageKeeps
  <2>4. CASE p # q
    <3>1. pages'[p] = pages[p] /\ (p \in Live' <=> p \in Live)
      BY <1>0, <2>1, <2>4 DEF Live, TypeOK
    <3>2. Gone(p) => Gone(p)'
      BY <2>2, <3>1 DEF Gone
    <3>3. \A v : HasManifest(p, v) => HasManifest(p, v)'
      BY <2>1, <2>4 DEF HasManifest
    <3>4. p \in Live' => HasManifest(p, pages[p].version)'
      BY <1>0, <2>1, <2>4, <3>1 DEF HasManifest, CurrentIsListed
    <3>5. QED BY <3>1, <3>2, <3>3, <3>4 DEF PageKeeps
  <2>5. QED BY <2>3, <2>4
<1>4. ASSUME NEW s \in Sessions, NEW k \in Keys, NEW b \in BOOLEAN, SetTemplate(s, k, b)
      PROVE  PageKeeps(p)
  <2>1. PICK q \in Live : pages' = [pages EXCEPT ![q].template = b]
    BY <1>4 DEF SetTemplate, Saved
  <2>2. pages[q] \in PageRow /\ q \in PageIds
    BY <1>0, <2>1 DEF TypeOK, Live
  <2>3. /\ pages'[q] # None /\ pages'[q].key = pages[q].key /\ pages'[q].version = pages[q].version
        /\ \A x \in PageIds : x # q => pages'[x] = pages[x]
    BY <1>0, <2>1, <2>2, ConstantsAssumption DEF TypeOK, PageRow
  <2>4. UNCHANGED <<pageVersions, used, locked>>
    BY <1>4 DEF SetTemplate
  <2>5. QED BY <1>1, <2>1, <2>3, <2>4 DEF Live
<1>5. ASSUME NEW s \in Sessions, SaveInsert(s) PROVE PageKeeps(p)
  <2>1. PICK q \in PageIds \ used : used' = used \cup {q} /\ locked' = locked \cup {q}
    BY <1>5 DEF SaveInsert
  <2>2. QED BY <1>1, <1>5, <2>1 DEF SaveInsert
<1>6. ASSUME NEW s \in Sessions, NEW k \in Keys, NEW d \in Drafts(s, k), SaveBegin(s, k, d)
      PROVE  PageKeeps(p)
  <2>1. UNCHANGED <<pages, pageVersions, used>>
    BY <1>6 DEF SaveBegin
  <2>2. p \in locked' => p \in locked \/ p \in Live
    BY <1>6 DEF SaveBegin, Saved
  <2>3. QED BY <1>1, <2>1, <2>2
<1>7. ASSUME NEW s \in Sessions, SaveUnchanged(s) \/ SaveAbort(s) PROVE PageKeeps(p)
  BY <1>1, <1>7 DEF SaveUnchanged, SaveAbort, Finish
<1>8. ASSUME UNCHANGED <<pages, pageVersions, used, locked>> PROVE PageKeeps(p)
  BY <1>1, <1>8
<1>9. QED
  BY <1>2, <1>3, <1>4, <1>5, <1>6, <1>7, <1>8
  DEF Next, Edit, Load, LoadTemplate, SaveRead, vars

(* All that the deployments rely on holds in every reachable state.         *)
LEMMA StoreHolds == Spec => []Store
<1>1. Init => CurrentIsListed
  BY DEF Init, CurrentIsListed, Live
<1>2. Sound /\ OnePagePerKey /\ CurrentIsListed /\ [Next]_vars => CurrentIsListed'
  BY PagesKeep DEF Store, PageKeeps, CurrentIsListed, HasManifest, Live
<1>3. QED BY <1>1, <1>2, SoundHolds, PagesAreUnique, PTL DEF Spec, Store

-----------------------------------------------------------------------------
(* One transaction moves.                                                  *)

(* What open deploys are made of: the provers need not look into the sets.  *)
Pcs == {"idle", "clear", "wait", "set", "publish"}
Ops == {"deploy", "replace", "rollback", None}
SomePlace == Places \cup {None}
SomePage == PageIds \cup {None}
SomeDeployed == Deployed \cup {None}

LEMMA DtxShape ==
    /\ Dtx = [pc: Pcs, op: Ops, place: SomePlace, page: SomePage, version: Nat,
              target: SomePage, removed: SomeDeployed]
    /\ "idle" \in Pcs /\ "clear" \in Pcs /\ "wait" \in Pcs /\ "set" \in Pcs /\ "publish" \in Pcs
    /\ "deploy" \in Ops /\ "replace" \in Ops /\ "rollback" \in Ops /\ None \in Ops
    /\ None \in SomePlace /\ None \in SomePage /\ None \in SomeDeployed
    /\ \A x \in Places : x \in SomePlace
    /\ \A p \in PageIds : p \in SomePage
    /\ \A d \in Deployed : d \in SomeDeployed
  BY DEF Dtx, Pcs, Ops, SomePlace, SomePage, SomeDeployed

(* While only transactions move, everything known of the tables stays.      *)
LEMMA TablesStay ==
    ASSUME UNCHANGED <<vars, flag, deployments>>
    PROVE  /\ \A p, x, v : Kept(p, x, v)' <=> Kept(p, x, v)
           /\ \A p : Gone(p)' <=> Gone(p)
           /\ \A x : FlaggedAt(x)' = FlaggedAt(x)
           /\ \A t : Ready(t)' <=> Ready(t)
<1>1. Live' = Live
  BY DEF Live, vars
<1>2. /\ \A p, x, v : Kept(p, x, v)' <=> Kept(p, x, v)
      /\ \A p : Gone(p)' <=> Gone(p)
      /\ \A x : FlaggedAt(x)' = FlaggedAt(x)
  BY <1>1 DEF Kept, Gone, FlaggedAt, PlaceOf, HasManifest, vars
<1>3. ASSUME NEW t PROVE Ready(t)' <=> Ready(t)
  BY <1>2 DEF Ready, Promise, TakesBack
<1>4. QED BY <1>2, <1>3

LEMMA OneMoves ==
    ASSUME DInv, UNCHANGED <<vars, flag, deployments, logs>>,
           NEW s \in Sessions, NEW u \in Dtx, dtx' = [dtx EXCEPT ![s] = u], Ready(u),
           \A r \in Sessions \ {s} : Apart(dtx[r], u) /\ Apart(u, dtx[r])
    PROVE  DInv'
<1>0. /\ DeploymentsTypeOK /\ EachIsReady /\ EachIsApart
      /\ LogsAreKept /\ DeploymentIsRestorable /\ FlagIsShown
  BY DEF DInv
<1>1. dtx'[s] = u /\ \A r \in Sessions \ {s} : dtx'[r] = dtx[r]
  BY <1>0 DEF DeploymentsTypeOK
<1>2. DeploymentsTypeOK'
  BY <1>0 DEF DeploymentsTypeOK, vars
<1>3. EachIsReady'
  BY <1>0, <1>1, TablesStay DEF EachIsReady
<1>4. EachIsApart'
  BY <1>0, <1>1 DEF EachIsApart
<1>5. LogsAreKept'
  BY <1>0, TablesStay DEF LogsAreKept
<1>6. DeploymentIsRestorable'
  BY <1>0 DEF DeploymentIsRestorable, HasManifest, WasDeployedHere, Live, vars
<1>7. FlagIsShown'
  BY <1>0, TablesStay DEF FlagIsShown
<1>8. QED BY <1>2, <1>3, <1>4, <1>5, <1>6, <1>7 DEF DInv

(* The transaction of session s, as the steps find it.                      *)
LEMMA OpenDeploy ==
    ASSUME DInv, NEW s \in Sessions
    PROVE  /\ dtx[s] \in Dtx /\ Ready(dtx[s])
           /\ \A r \in Sessions \ {s} : Apart(dtx[r], dtx[s]) /\ Apart(dtx[s], dtx[r])
BY DEF DInv, DeploymentsTypeOK, EachIsReady, EachIsApart

LEMMA IdleIsReady ==
    /\ IdleDtx \in Dtx /\ Ready(IdleDtx)
    /\ \A t : Apart(t, IdleDtx) /\ Apart(IdleDtx, t)
<1>1. IdleDtx \in Dtx
  BY DtxShape DEF IdleDtx
<1>2. IdleDtx.pc = "idle" /\ IdleDtx.removed = None
  BY DEF IdleDtx
<1>3. Ready(IdleDtx)
  BY <1>2 DEF Ready, Promise, TakesBack, Flagging
<1>4. QED BY <1>1, <1>2, <1>3 DEF Apart, Flagging

LEMMA DInvInit == DInit => DInv
<1> SUFFICES ASSUME DInit PROVE DInv
  OBVIOUS
<1>1. DeploymentsTypeOK
  BY IdleIsReady DEF DInit, DeploymentsTypeOK
<1>2. EachIsReady /\ EachIsApart
  BY IdleIsReady DEF DInit, EachIsReady, EachIsApart
<1>3. LogsAreKept /\ DeploymentIsRestorable
  BY DEF DInit, LogsAreKept, DeploymentIsRestorable
<1>4. FlagIsShown
  BY DEF DInit, FlagIsShown, FlaggedAt, Live
<1>5. QED BY <1>1, <1>2, <1>3, <1>4 DEF DInv

(* A deploy starts with a page of its own, whose current version is listed. *)
LEMMA DeployBeginKeeps ==
    ASSUME Store, DInv, NEW s \in Sessions, NEW k \in Keys, NEW tab \in Tabs,
           DeployBegin(s, k, tab)
    PROVE  DInv'
<1>1. PICK p \in Saved(k) :
         dtx' = [dtx EXCEPT ![s] = [IdleDtx EXCEPT !.pc = "clear", !.op = "deploy",
                                      !.place = <<ScopeIn(k), tab>>,
                                      !.page = p, !.version = pages[p].version]]
  BY DEF DeployBegin
<1> DEFINE place == <<ScopeIn(k), tab>>
           u == [IdleDtx EXCEPT !.pc = "clear", !.op = "deploy", !.place = place,
                                !.page = p, !.version = pages[p].version]
<1>2. p \in Live /\ p \in PageIds /\ pages[p].key = k /\ pages[p].version \in Nat
  BY DEF Saved, Live, Store, Sound, Core, TypeOK, PageRow
<1>3. place \in Places /\ place[1] = ScopeIn(k)
  BY DEF Places, Keys, ScopeIn
<1>4. Kept(p, place, pages[p].version)
  BY <1>2, <1>3 DEF Kept, Store, CurrentIsListed
<1> HIDE DEF place
<1>5. /\ u \in Dtx /\ u.pc = "clear" /\ u.op = "deploy" /\ u.place = place
      /\ u.page = p /\ u.version = pages[p].version /\ u.removed = None
  BY <1>2, <1>3, DtxShape DEF IdleDtx
<1> HIDE DEF u
<1>6. Ready(u) /\ \A t : Apart(t, u) /\ Apart(u, t)
  BY <1>2, <1>3, <1>4, <1>5 DEF Ready, Promise, TakesBack, Flagging, Apart
<1>7. UNCHANGED <<vars, flag, deployments, logs>> /\ dtx' = [dtx EXCEPT ![s] = u]
  BY <1>1 DEF DeployBegin, u, place
<1>8. QED BY <1>5, <1>6, <1>7, OneMoves

(* A pin starts from a row of the log.                                      *)
LEMMA PinBeginKeeps ==
    ASSUME Store, DInv, NEW s \in Sessions, NEW place \in Places, NEW l \in logs,
           PinBegin(s, place, l.page, l.version)
    PROVE  DInv'
<1> DEFINE u == [IdleDtx EXCEPT !.pc = "clear", !.op = "replace",
                                !.place = place, !.page = l.page, !.version = l.version]
<1>1. l.page \in PageIds /\ l.version \in Nat
  BY DEF DInv, DeploymentsTypeOK, Release
<1>2. PICK e \in logs : /\ e.place = place /\ e.page = l.page /\ e.version = l.version
                        /\ e.action \in {"deploy", "replace"}
  BY DEF PinBegin, WasDeployedHere
<1>3. Kept(l.page, place, l.version) \/ Gone(l.page)
  BY <1>2 DEF DInv, LogsAreKept
<1>4. /\ u \in Dtx /\ u.pc = "clear" /\ u.op = "replace" /\ u.place = place
      /\ u.page = l.page /\ u.version = l.version /\ u.removed = None
  BY <1>1, DtxShape DEF IdleDtx
<1>5. UNCHANGED <<vars, flag, deployments, logs>> /\ dtx' = [dtx EXCEPT ![s] = u]
  BY DEF PinBegin
<1> HIDE DEF u
<1>6. Ready(u) /\ \A t : Apart(t, u) /\ Apart(u, t)
  BY <1>1, <1>3, <1>4 DEF Ready, Promise, TakesBack, Flagging, Apart
<1>7. QED BY <1>4, <1>5, <1>6, OneMoves

(* A rollback that removes a row finds nobody at it.                        *)
LEMMA RollbackBeginKeeps ==
    ASSUME DInv, NEW s \in Sessions, NEW place \in Places, RollbackBegin(s, place)
    PROVE  DInv'
<1> DEFINE u == [IdleDtx EXCEPT !.pc = "clear", !.op = "rollback",
                                !.place = place, !.removed = deployments[place]]
<1>1. deployments[place] \in SomeDeployed
  BY DEF DInv, DeploymentsTypeOK, SomeDeployed
<1>2. /\ u \in Dtx /\ u.pc = "clear" /\ u.op = "rollback" /\ u.place = place
      /\ u.removed = deployments[place]
  BY <1>1, DtxShape DEF IdleDtx
<1>3. UNCHANGED <<vars, flag, deployments, logs>> /\ dtx' = [dtx EXCEPT ![s] = u]
  BY DEF RollbackBegin
<1>4. deployments[place] # None =>
         \A r \in Sessions : dtx[r].removed # None => dtx[r].place # place
  BY DEF RollbackBegin, PlaceRowFree
<1> HIDE DEF u
<1>5. Ready(u)
  BY <1>2 DEF Ready, Promise, TakesBack, Flagging
<1>6. \A r \in Sessions : Apart(dtx[r], u) /\ Apart(u, dtx[r])
  BY <1>2, <1>4 DEF Flagging, Apart
<1>7. QED BY <1>2, <1>3, <1>5, <1>6, OneMoves

(* The page flagged at the place of a rollback is the one it removes.       *)
LEMMA FlagOfRemoved ==
    ASSUME DInv, NEW s \in Sessions, dtx[s].removed # None
    PROVE  FlaggedAt(dtx[s].place) \subseteq {dtx[s].removed.page}
<1>1. dtx[s].pc # "idle" /\ dtx[s].place \in Places /\ deployments[dtx[s].place] = dtx[s].removed
  BY OpenDeploy DEF Ready, TakesBack, IdleDtx
<1>2. FlaggedAt(dtx[s].place) \subseteq PageIds
  BY DEF FlaggedAt, Live
<1>3. QED BY <1>1, <1>2 DEF DInv, FlagIsShown

LEMMA ClearFlagKeeps ==
    ASSUME DInv, NEW s \in Sessions, ClearFlag(s)
    PROVE  DInv'
<1> DEFINE t == dtx[s]
<1>0. /\ t \in Dtx /\ Ready(t) /\ t.pc = "clear"
      /\ \A r \in Sessions \ {s} : Apart(dtx[r], t) /\ Apart(t, dtx[r])
  BY OpenDeploy DEF ClearFlag
<1>1. AfterClear(s) \in Pcs /\ (AfterClear(s) = "publish" => t.op = "rollback")
      /\ AfterClear(s) \in {"set", "publish"}
  BY DEF AfterClear, Pcs
<1>2. UNCHANGED <<vars, flag, deployments, logs>>
  BY DEF ClearFlag
<1>3. CASE FlaggedAt(t.place) = {} /\ dtx' = [dtx EXCEPT ![s].pc = AfterClear(s)]
  <2> DEFINE u == [t EXCEPT !.pc = AfterClear(s)]
  <2>1. /\ u \in Dtx /\ u.pc = AfterClear(s) /\ u.op = t.op /\ u.place = t.place /\ u.page = t.page
        /\ u.version = t.version /\ u.target = t.target /\ u.removed = t.removed
    BY <1>0, <1>1, DtxShape
  <2>2. dtx' = [dtx EXCEPT ![s] = u]
    BY <1>3
  <2> HIDE DEF u
  <2>3. Ready(u)
    BY <1>0, <1>1, <1>3, <2>1 DEF Ready, Promise, TakesBack, Flagging
  <2>4. \A r \in Sessions \ {s} : Apart(dtx[r], u) /\ Apart(u, dtx[r])
    BY <1>0, <1>1, <2>1 DEF Apart, Flagging
  <2>5. QED BY <1>2, <2>1, <2>2, <2>3, <2>4, OneMoves
<1>4. ASSUME NEW p \in FlaggedAt(t.place),
             dtx' = [dtx EXCEPT ![s].target = p,
                       ![s].pc = IF RowFreeFor(s, p) THEN AfterClear(s) ELSE "wait"]
      PROVE  DInv'
  <2> DEFINE pc == IF RowFreeFor(s, p) THEN AfterClear(s) ELSE "wait"
             u == [t EXCEPT !.target = p, !.pc = pc]
  <2>0. pc \in Pcs /\ pc \in {"wait", "set", "publish"} /\ (pc = "publish" => t.op = "rollback")
    BY <1>1, DtxShape
  <2>1. p \in PageIds
    BY DEF FlaggedAt, Live
  <2>2. dtx' = [dtx EXCEPT ![s] = u]
    <3>1. dtx \in [Sessions -> Dtx]
      BY DEF DInv, DeploymentsTypeOK
    <3>2. QED BY <1>0, <1>4, <3>1, DtxShape
  <2> HIDE DEF pc
  <2>3. /\ u \in Dtx /\ u.pc = pc /\ u.op = t.op /\ u.place = t.place /\ u.page = t.page
        /\ u.version = t.version /\ u.target = p /\ u.removed = t.removed
    BY <1>0, <2>0, <2>1, DtxShape
  <2> HIDE DEF u
  <2>4. t.removed # None => p = t.removed.page /\ FlaggedAt(t.place) \subseteq {p}
    BY <1>4, FlagOfRemoved
  <2>5. Ready(u)
    BY <1>0, <2>0, <2>3, <2>4 DEF Ready, Promise, TakesBack, Flagging
  <2>6. \A r \in Sessions \ {s} : Apart(dtx[r], u) /\ Apart(u, dtx[r])
    BY <1>0, <2>0, <2>3 DEF Apart, Flagging
  <2>7. QED BY <1>2, <2>2, <2>3, <2>5, <2>6, OneMoves
<1>5. QED BY <1>3, <1>4 DEF ClearFlag

LEMMA ClearAfterWaitKeeps ==
    ASSUME DInv, NEW s \in Sessions, ClearAfterWait(s)
    PROVE  DInv'
<1> DEFINE t == dtx[s]
           target == IF t.target \in FlaggedAt(t.place) THEN t.target ELSE None
           u == [t EXCEPT !.pc = AfterClear(s), !.target = target]
<1>0. /\ t \in Dtx /\ Ready(t) /\ t.pc = "wait"
      /\ \A r \in Sessions \ {s} : Apart(dtx[r], t) /\ Apart(t, dtx[r])
  BY OpenDeploy DEF ClearAfterWait
<1>1. /\ AfterClear(s) \in Pcs /\ (AfterClear(s) = "publish" => t.op = "rollback")
      /\ AfterClear(s) \in {"set", "publish"}
  BY DEF AfterClear, Pcs
<1>2. UNCHANGED <<vars, flag, deployments, logs>>
  BY DEF ClearAfterWait
<1>3. target \in SomePage
  BY <1>0, DtxShape DEF FlaggedAt, Live
<1>4. dtx' = [dtx EXCEPT ![s] = u]
  <2>1. dtx \in [Sessions -> Dtx]
    BY DEF DInv, DeploymentsTypeOK
  <2>2. QED BY <1>0, <2>1, DtxShape DEF ClearAfterWait
<1>5. t.removed # None => FlaggedAt(t.place) \subseteq {target}
  BY <1>0, FlagOfRemoved DEF Ready, TakesBack
<1> HIDE DEF target
<1>6. /\ u \in Dtx /\ u.pc = AfterClear(s) /\ u.op = t.op /\ u.place = t.place /\ u.page = t.page
      /\ u.version = t.version /\ u.target = target /\ u.removed = t.removed
  BY <1>0, <1>1, <1>3, DtxShape
<1> HIDE DEF u
<1>7. Ready(u)
  BY <1>0, <1>1, <1>5, <1>6 DEF Ready, Promise, TakesBack, Flagging
<1>8. \A r \in Sessions \ {s} : Apart(dtx[r], u) /\ Apart(u, dtx[r])
  BY <1>0, <1>1, <1>6 DEF Apart, Flagging
<1>9. QED BY <1>2, <1>4, <1>6, <1>7, <1>8, OneMoves

(* The unique index lets one transaction at a time flag a page for a place, *)
(* and only when the page flagged until now has been cleared.  The page is  *)
(* locked from here on: a pin that gets it has what it promised.            *)
LEMMA SetFlagKeeps ==
    ASSUME DInv, NEW s \in Sessions, SetFlag(s)
    PROVE  DInv'
<1> DEFINE t == dtx[s]
           u == [t EXCEPT !.pc = "publish"]
<1>0. /\ t \in Dtx /\ Ready(t) /\ t.pc = "set"
      /\ \A r \in Sessions \ {s} : Apart(dtx[r], t) /\ Apart(t, dtx[r])
  BY OpenDeploy DEF SetFlag
<1>1. ~Gone(t.page)
  BY DEF SetFlag, Gone
<1>2. /\ FlaggedAt(t.place) \subseteq {t.page, t.target}
      /\ \A r \in Sessions \ {s} : dtx[r].place = t.place => ~Flagging(dtx[r])
  BY DEF SetFlag, IndexFree, Flagging
<1>3. UNCHANGED <<vars, flag, deployments, logs>> /\ dtx' = [dtx EXCEPT ![s] = u]
  BY DEF SetFlag
<1>4. /\ u \in Dtx /\ u.pc = "publish" /\ u.op = t.op /\ u.place = t.place /\ u.page = t.page
      /\ u.version = t.version /\ u.target = t.target /\ u.removed = t.removed
  BY <1>0, DtxShape
<1> HIDE DEF u
<1>5. Ready(u)
  BY <1>0, <1>1, <1>2, <1>4 DEF Ready, Promise, TakesBack
<1>6. \A r \in Sessions \ {s} : Apart(dtx[r], u) /\ Apart(u, dtx[r])
  BY <1>0, <1>2, <1>4 DEF Apart
<1>7. QED BY <1>3, <1>4, <1>5, <1>6, OneMoves

LEMMA DeployAbortKeeps ==
    ASSUME DInv, NEW s \in Sessions, DeployAbort(s)
    PROVE  DInv'
BY IdleIsReady, OneMoves DEF DeployAbort

-----------------------------------------------------------------------------
(* The commits.                                                            *)

(* A transaction r still has what it relies on when the row of its place    *)
(* and the flags there are left alone, or lose some.                        *)
LEMMA StaysReady ==
    ASSUME DInv, UNCHANGED vars, NEW t \in Dtx, Ready(t),
           t.removed # None => deployments'[t.place] = deployments[t.place],
           t.removed # None \/ Flagging(t) =>
              \A x : x = t.place => FlaggedAt(x)' \subseteq FlaggedAt(x)
    PROVE  Ready(t)'
<1>1. Live' = Live
  BY DEF Live, vars
<1>2. /\ \A p, x, v : Kept(p, x, v)' <=> Kept(p, x, v)
      /\ \A p : Gone(p)' <=> Gone(p)
  BY <1>1 DEF Kept, Gone, HasManifest, vars
<1>3. \A x : FlaggedAt(x)' = {p \in Live' : flag'[p] # None /\ PlaceOf(p)' = x}
  BY DEF FlaggedAt
<1>4. t.removed # None \/ Flagging(t) => FlaggedAt(t.place)' \subseteq FlaggedAt(t.place)
  OBVIOUS
<1>5. QED BY <1>2, <1>4 DEF Ready, Promise, TakesBack

(* The deployment of a page: its flag is the only one at its place.         *)
LEMMA PublishKeeps ==
    ASSUME DInv, NEW s \in Sessions, Publish(s)
    PROVE  DInv'
<1> DEFINE t == dtx[s]
           log == [place |-> t.place, page |-> t.page, version |-> t.version, action |-> t.op]
           d == [page |-> t.page, version |-> t.version]
<1>0. /\ DeploymentsTypeOK /\ EachIsReady /\ EachIsApart
      /\ LogsAreKept /\ DeploymentIsRestorable /\ FlagIsShown
  BY DEF DInv
<1>1. /\ t \in Dtx /\ Ready(t) /\ t.pc = "publish" /\ t.op # "rollback" /\ Flagging(t)
      /\ \A r \in Sessions \ {s} : Apart(dtx[r], t) /\ Apart(t, dtx[r])
  BY OpenDeploy DEF Publish, Flagging
<1>2. /\ t.op \in {"deploy", "replace"} /\ t.page \in PageIds /\ t.place \in Places
      /\ Kept(t.page, t.place, t.version) /\ t.version \in Nat
      /\ FlaggedAt(t.place) \subseteq {t.page, t.target}
  BY <1>1, DtxShape DEF Ready, Promise
<1>3. /\ UNCHANGED vars /\ dtx' = [dtx EXCEPT ![s] = IdleDtx]
      /\ deployments' = [deployments EXCEPT ![t.place] = d] /\ logs' = logs \cup {log}
      /\ flag' = [Cleared(t) EXCEPT ![t.page] = t.place[2]]
      /\ \A r \in Sessions : dtx[r].removed # None => dtx[r].place # t.place
  BY DEF Publish, PlaceRowFree
<1>4. Live' = Live /\ d \in Deployed /\ log \in Release /\ t.place[2] \in Tabs
  BY <1>2, <1>3 DEF Live, vars, Deployed, Release, Places
<1>5. flag' \in [PageIds -> Tabs \cup {None}] /\ flag'[t.page] = t.place[2]
      /\ \A p \in PageIds \ {t.page} : flag'[p] = IF p = t.target THEN None ELSE flag[p]
  BY <1>0, <1>2, <1>3, <1>4 DEF DeploymentsTypeOK, Cleared
<1>6. DeploymentsTypeOK'
  <2>1. \A p \in PageIds : pages'[p] = None => flag'[p] = None
    BY <1>0, <1>2, <1>3, <1>5 DEF DeploymentsTypeOK, Kept, Live, vars
  <2>2. dtx' \in [Sessions -> Dtx]
    BY <1>0, <1>3, IdleIsReady DEF DeploymentsTypeOK
  <2>3. deployments' \in [Places -> Deployed \cup {None}] /\ logs' \in SUBSET Release
    BY <1>0, <1>3, <1>4 DEF DeploymentsTypeOK
  <2>4. QED BY <1>5, <2>1, <2>2, <2>3 DEF DeploymentsTypeOK
<1>7. \A p \in Live : flag'[p] # None =>
         IF p = t.page THEN PlaceOf(p)' = t.place
         ELSE flag[p] # None /\ PlaceOf(p)' = PlaceOf(p) /\ p # t.target
  <2>1. <<ScopeIn(pages[t.page].key), t.place[2]>> = t.place
    BY <1>2 DEF Kept, Places
  <2>2. QED BY <1>3, <1>5, <2>1 DEF PlaceOf, Live, vars
<1>8. \A x : FlaggedAt(x)' \subseteq IF x = t.place THEN {t.page} ELSE FlaggedAt(x)
  <2> SUFFICES ASSUME NEW x, NEW p \in FlaggedAt(x)'
               PROVE  IF x = t.place THEN p = t.page ELSE p \in FlaggedAt(x)
    OBVIOUS
  <2>1. p \in Live /\ flag'[p] # None /\ PlaceOf(p)' = x
    BY <1>4 DEF FlaggedAt
  <2>2. CASE p = t.page
    BY <1>7, <2>1, <2>2
  <2>3. CASE p # t.page
    <3>1. p \in FlaggedAt(x) /\ p # t.target
      BY <1>7, <2>1, <2>3 DEF FlaggedAt
    <3>2. QED BY <1>2, <2>3, <3>1
  <2>4. QED BY <2>2, <2>3
<1>9. EachIsReady'
  <2> SUFFICES ASSUME NEW r \in Sessions, NEW u \in Dtx, dtx'[r] = u PROVE Ready(u)'
    BY DEF EachIsReady
  <2>1. CASE r = s
    BY <1>0, <1>3, <2>1, IdleIsReady DEF DeploymentsTypeOK, Ready, Promise, TakesBack,
                                         Flagging, IdleDtx
  <2>2. CASE r # s
    <3>1. dtx[r] = u /\ Ready(u) /\ Apart(u, t)
      BY <1>0, <1>1, <1>3, <2>2 DEF DeploymentsTypeOK, EachIsReady
    <3>2. u.removed # None \/ Flagging(u) => u.place # t.place
      BY <1>1, <1>3, <3>1 DEF Apart
    <3>3. u.removed # None => u.place \in Places
      BY <3>1 DEF Ready, IdleDtx
    <3>4. u.removed # None => deployments'[u.place] = deployments[u.place]
      BY <1>0, <1>3, <3>2, <3>3 DEF DeploymentsTypeOK
    <3>5. QED BY <1>3, <1>8, <3>1, <3>2, <3>4, StaysReady
  <2>3. QED BY <2>1, <2>2
<1>10. EachIsApart'
  BY <1>0, <1>3, IdleIsReady DEF DeploymentsTypeOK, EachIsApart
<1>11. LogsAreKept'
  <2>1. \A p, x, v : Kept(p, x, v) => Kept(p, x, v)'
    BY <1>3, <1>4 DEF Kept, HasManifest, vars
  <2>2. \A p : Gone(p) => Gone(p)'
    BY <1>3, <1>4 DEF Gone, vars
  <2>3. QED BY <1>0, <1>2, <1>3, <2>1, <2>2 DEF LogsAreKept
<1>12. DeploymentIsRestorable'
  <2> SUFFICES ASSUME NEW x \in Places, deployments'[x] # None
               PROVE  /\ deployments'[x].page \in Live
                      /\ \E r \in pageVersions : /\ r.page = deployments'[x].page
                                                 /\ r.version = deployments'[x].version
                      /\ \E l \in logs' : /\ l.place = x /\ l.page = deployments'[x].page
                                          /\ l.version = deployments'[x].version
                                          /\ l.action \in {"deploy", "replace"}
    BY <1>3, <1>4 DEF DeploymentIsRestorable, HasManifest, WasDeployedHere, vars
  <2>1. CASE x = t.place
    <3>1. deployments'[x].page = t.page /\ deployments'[x].version = t.version
      BY <1>0, <1>3, <2>1 DEF DeploymentsTypeOK
    <3>2. log.place = x /\ log.page = t.page /\ log.version = t.version /\ log.action = t.op
      BY <2>1
    <3>3. QED BY <1>2, <1>3, <3>1, <3>2 DEF Kept, HasManifest
  <2>2. CASE x # t.place
    <3>1. deployments'[x] = deployments[x]
      BY <1>0, <1>3, <2>2 DEF DeploymentsTypeOK
    <3>2. QED BY <1>0, <1>3, <3>1 DEF DeploymentIsRestorable, HasManifest, WasDeployedHere
  <2>3. QED BY <2>1, <2>2
<1>13. FlagIsShown'
  <2> SUFFICES ASSUME NEW p \in PageIds, NEW x \in Places, p \in FlaggedAt(x)'
               PROVE  deployments'[x] # None /\ deployments'[x].page = p
    BY DEF FlagIsShown
  <2>1. CASE x = t.place
    <3>1. p = t.page /\ deployments'[x] = d
      BY <1>0, <1>3, <1>8, <2>1 DEF DeploymentsTypeOK
    <3>2. None \notin Deployed
      BY DeploymentAssumption
    <3>3. QED BY <1>4, <3>1, <3>2
  <2>2. CASE x # t.place
    BY <1>0, <1>3, <1>8, <2>2 DEF DeploymentsTypeOK, FlagIsShown
  <2>3. QED BY <2>1, <2>2
<1>14. QED BY <1>6, <1>9, <1>10, <1>11, <1>12, <1>13 DEF DInv

(* The end of a rollback: nothing is flagged where nothing is shown.        *)
LEMMA WithdrawKeeps ==
    ASSUME DInv, NEW s \in Sessions, Withdraw(s)
    PROVE  DInv'
<1> DEFINE t == dtx[s]
           log == [place |-> t.place, page |-> t.removed.page, version |-> t.removed.version,
                   action |-> "rollback"]
<1>0. /\ DeploymentsTypeOK /\ EachIsReady /\ EachIsApart
      /\ LogsAreKept /\ DeploymentIsRestorable /\ FlagIsShown
  BY DEF DInv
<1>1. /\ t \in Dtx /\ Ready(t) /\ t.pc = "publish" /\ t.place \in Places
      /\ \A r \in Sessions \ {s} : Apart(dtx[r], t) /\ Apart(t, dtx[r])
  BY OpenDeploy DEF Withdraw, Ready
<1>2. /\ UNCHANGED vars /\ dtx' = [dtx EXCEPT ![s] = IdleDtx] /\ flag' = Cleared(t)
      /\ t.removed = None => UNCHANGED <<deployments, logs>>
      /\ t.removed # None => /\ deployments' = [deployments EXCEPT ![t.place] = None]
                             /\ logs' = logs \cup {log}
  BY DEF Withdraw
<1>3. Live' = Live
  BY <1>2 DEF Live, vars
<1>4. t.removed # None => /\ log \in Release /\ FlaggedAt(t.place) \subseteq {t.target}
  <2>1. t.removed # None => t.removed \in Deployed
    BY <1>1, DtxShape DEF SomeDeployed
  <2>2. QED BY <1>1, <2>1 DEF Ready, TakesBack, Release, Deployed
<1>5. /\ flag' \in [PageIds -> Tabs \cup {None}]
      /\ \A p \in PageIds : flag'[p] = IF p = t.target THEN None ELSE flag[p]
  BY <1>0, <1>2 DEF DeploymentsTypeOK, Cleared
<1>6. DeploymentsTypeOK'
  <2>1. \A p \in PageIds : pages'[p] = None => flag'[p] = None
    BY <1>0, <1>2, <1>5 DEF DeploymentsTypeOK, vars
  <2>2. dtx' \in [Sessions -> Dtx]
    BY <1>0, <1>2, IdleIsReady DEF DeploymentsTypeOK
  <2>3. deployments' \in [Places -> Deployed \cup {None}] /\ logs' \in SUBSET Release
    BY <1>0, <1>2, <1>4 DEF DeploymentsTypeOK
  <2>4. QED BY <1>5, <2>1, <2>2, <2>3 DEF DeploymentsTypeOK
<1>7. \A x : FlaggedAt(x)' \subseteq FlaggedAt(x) \ {t.target}
  BY <1>2, <1>3, <1>5 DEF FlaggedAt, PlaceOf, Live, vars
<1>8. EachIsReady'
  <2> SUFFICES ASSUME NEW r \in Sessions, NEW u \in Dtx, dtx'[r] = u PROVE Ready(u)'
    BY DEF EachIsReady
  <2>1. CASE r = s
    BY <1>0, <1>2, <2>1, IdleIsReady DEF DeploymentsTypeOK, Ready, Promise, TakesBack,
                                         Flagging, IdleDtx
  <2>2. CASE r # s
    <3>1. dtx[r] = u /\ Ready(u) /\ Apart(u, t)
      BY <1>0, <1>1, <1>2, <2>2 DEF DeploymentsTypeOK, EachIsReady
    <3>2. u.removed # None => u.place \in Places
      BY <3>1 DEF Ready, IdleDtx
    <3>3. u.removed # None => deployments'[u.place] = deployments[u.place]
      BY <1>0, <1>2, <3>1, <3>2 DEF DeploymentsTypeOK, Apart
    <3>4. QED BY <1>2, <1>7, <3>1, <3>3, StaysReady
  <2>3. QED BY <2>1, <2>2
<1>9. EachIsApart'
  BY <1>0, <1>2, IdleIsReady DEF DeploymentsTypeOK, EachIsApart
<1>10. LogsAreKept'
  <2>1. \A p, x, v : Kept(p, x, v) => Kept(p, x, v)'
    BY <1>2, <1>3 DEF Kept, HasManifest, vars
  <2>2. \A p : Gone(p) => Gone(p)'
    BY <1>2, <1>3 DEF Gone, vars
  <2>3. QED BY <1>0, <1>2, <2>1, <2>2 DEF LogsAreKept
<1>11. \A x \in Places : deployments'[x] # None => deployments'[x] = deployments[x]
  BY <1>0, <1>2 DEF DeploymentsTypeOK
<1>12. DeploymentIsRestorable'
  BY <1>0, <1>2, <1>3, <1>11 DEF DeploymentIsRestorable, HasManifest, WasDeployedHere, vars
<1>13. FlagIsShown'
  <2> SUFFICES ASSUME NEW p \in PageIds, NEW x \in Places, p \in FlaggedAt(x)'
               PROVE  deployments'[x] # None /\ deployments'[x].page = p
    BY DEF FlagIsShown
  <2>1. p \in FlaggedAt(x) /\ p # t.target /\ deployments[x] # None /\ deployments[x].page = p
    BY <1>0, <1>7 DEF FlagIsShown
  <2>2. t.removed # None => x # t.place
    BY <1>4, <2>1
  <2>3. deployments'[x] = deployments[x]
    BY <1>0, <1>2, <2>2 DEF DeploymentsTypeOK
  <2>4. QED BY <2>1, <2>3
<1>14. QED BY <1>6, <1>8, <1>9, <1>10, <1>12, <1>13 DEF DInv

-----------------------------------------------------------------------------
(* The page store moves.                                                   *)

(* A session that edits deletes nothing.                                    *)
LEMMA EditsKeepPages ==
    ASSUME Store, NEW s \in Sessions, Edit(s)
    PROVE  Live \subseteq Live'
<1>0. TypeOK /\ Core
  BY DEF Store, Sound, Core
<1>1. CASE SaveCommit(s)
  BY <1>0, <1>1, CommittedPage DEF Live
<1>2. ASSUME NEW k \in Keys, NEW b \in BOOLEAN, SetTemplate(s, k, b) PROVE Live \subseteq Live'
  <2>1. PICK q \in Live : pages' = [pages EXCEPT ![q].template = b]
    BY <1>2 DEF SetTemplate, Saved
  <2>2. pages[q] \in PageRow /\ q \in PageIds
    BY <1>0, <2>1 DEF TypeOK, Live
  <2>3. pages'[q] # None /\ \A x \in PageIds : x # q => pages'[x] = pages[x]
    BY <1>0, <2>1, <2>2, ConstantsAssumption DEF TypeOK, PageRow
  <2>4. QED BY <2>3 DEF Live
<1>3. ASSUME UNCHANGED pages PROVE Live \subseteq Live'
  BY <1>3 DEF Live
<1>4. QED
  BY <1>1, <1>2, <1>3
  DEF Edit, Load, LoadTemplate, SaveBegin, SaveInsert, SaveRead, SaveUnchanged, SaveAbort

(* What a step of the page store means for deployments, as far as it leaves *)
(* their pages.                                                            *)
LEMMA KeptStays ==
    ASSUME Store, [Next]_vars, NEW p \in PageIds
    PROVE  /\ \A x, v : Kept(p, x, v) => IF p \in Live' THEN Kept(p, x, v)' ELSE Gone(p)'
           /\ Gone(p) => Gone(p)'
BY PagesKeep DEF PageKeeps, Kept

LEMMA EditKeeps ==
    ASSUME Store, DInv, NEW s \in Sessions, EditUnderDeploys(s)
    PROVE  DInv'
<1>0. /\ DeploymentsTypeOK /\ EachIsReady /\ EachIsApart
      /\ LogsAreKept /\ DeploymentIsRestorable /\ FlagIsShown
  BY DEF DInv
<1>1. Live \subseteq Live' /\ [Next]_vars /\ UNCHANGED <<flag, deployments, logs, dtx>>
  BY EditsKeepPages DEF EditUnderDeploys, Next, dvars
<1>2. /\ \A p \in PageIds : \A x, v : Kept(p, x, v) => Kept(p, x, v)'
      /\ \A p \in PageIds : Gone(p) => Gone(p)'
  BY <1>1, KeptStays DEF Kept
<1>3. \A x : FlaggedAt(x)' = FlaggedAt(x)
  <2>1. \A p \in PageIds : p \notin Live => flag[p] = None
    BY <1>0 DEF DeploymentsTypeOK, Live
  <2>2. \A p \in Live : p \in Live' /\ pages'[p].key = pages[p].key
    BY <1>1, PagesKeep DEF PageKeeps, Live
  <2>3. QED BY <1>1, <2>1, <2>2 DEF FlaggedAt, PlaceOf, Live
<1>4. DeploymentsTypeOK'
  BY <1>0, <1>1 DEF DeploymentsTypeOK, Live
<1>5. EachIsReady'
  <2> SUFFICES ASSUME NEW t \in Dtx, Ready(t) PROVE Ready(t)'
    BY <1>0, <1>1 DEF EachIsReady
  <2>1. Promise(t)'
    BY <1>2 DEF Ready, Promise
  <2>2. QED BY <1>1, <1>3, <2>1 DEF Ready, TakesBack
<1>6. EachIsApart' /\ LogsAreKept'
  BY <1>0, <1>1, <1>2 DEF EachIsApart, LogsAreKept, DeploymentsTypeOK, Release
<1>7. DeploymentIsRestorable'
  <2>1. \A p \in Live : p \in Live' /\ \A v : HasManifest(p, v) => HasManifest(p, v)'
    BY <1>1, PagesKeep DEF PageKeeps, Live
  <2>2. QED BY <1>0, <1>1, <2>1 DEF DeploymentIsRestorable, WasDeployedHere, HasManifest
<1>8. FlagIsShown'
  BY <1>0, <1>1, <1>3 DEF FlagIsShown
<1>9. QED BY <1>4, <1>5, <1>6, <1>7, <1>8 DEF DInv

(* A deletion takes the deployments of its page along, and waits for whoever *)
(* has locked that page or holds a row of its deployments.                   *)
LEMMA DeleteKeeps ==
    ASSUME Store, DInv, NEW s \in Sessions, NEW k \in Keys, DeleteUnderDeploys(s, k)
    PROVE  DInv'
<1>0. /\ DeploymentsTypeOK /\ EachIsReady /\ EachIsApart /\ OnePagePerKey
      /\ LogsAreKept /\ DeploymentIsRestorable /\ FlagIsShown /\ TypeOK
  BY DEF DInv, Store, Sound, Core
<1>1. PICK q \in Saved(k) : pages' = [pages EXCEPT ![q] = None]
  BY DEF DeleteUnderDeploys, DeletePage
<1>2. Saved(k) = {q} /\ q \in PageIds /\ q \in Live
  BY <1>0 DEF Saved, OnePagePerKey, Live
<1>3. /\ pages'[q] = None /\ Live' = Live \ {q}
      /\ \A p \in PageIds : p # q => pages'[p] = pages[p]
  BY <1>0, <1>1, <1>2 DEF TypeOK, Live
<1>4. /\ [Next]_vars /\ UNCHANGED <<logs, dtx>>
      /\ \A p \in HeldByDeploys : pages'[p] = pages[p]
      /\ \A x \in Places : CascadeOf(k, deployments[x]) # deployments[x] => PlaceRowFree(x)
      /\ deployments' = [x \in Places |-> CascadeOf(k, deployments[x])]
      /\ flag' = [p \in PageIds |-> IF p = q THEN None ELSE flag[p]]
  BY <1>2 DEF DeleteUnderDeploys, WaitsForDeploys, Next
<1>5. q \notin HeldByDeploys
  BY <1>2, <1>3, <1>4 DEF Live
<1>6. \A x \in Places : deployments'[x] = IF deployments[x] # None /\ deployments[x].page = q
                                          THEN None ELSE deployments[x]
  BY <1>2, <1>4 DEF CascadeOf
<1>7. \A x : FlaggedAt(x)' \subseteq FlaggedAt(x) \ {q}
  BY <1>2, <1>3, <1>4 DEF FlaggedAt, PlaceOf, Live
<1>8. DeploymentsTypeOK'
  <2>1. deployments' \in [Places -> Deployed \cup {None}]
    BY <1>0, <1>4, <1>6 DEF DeploymentsTypeOK
  <2>2. QED BY <1>0, <1>2, <1>3, <1>4, <2>1 DEF DeploymentsTypeOK
<1>9. EachIsReady'
  <2> SUFFICES ASSUME NEW r \in Sessions, NEW t \in Dtx, dtx[r] = t PROVE Ready(t)'
    BY <1>4 DEF EachIsReady
  <2>0. Ready(t)
    BY <1>0 DEF EachIsReady
  <2>1. Promise(t)'
    <3> SUFFICES ASSUME t.pc # "idle", t.op \in {"deploy", "replace"}
                 PROVE  \/ Kept(t.page, t.place, t.version)'
                        \/ t.op = "replace" /\ t.pc # "publish" /\ Gone(t.page)'
      BY <2>0 DEF Ready, Promise
    <3>1. t.page \in PageIds
      BY <2>0 DEF Ready, Promise
    <3>2. CASE Kept(t.page, t.place, t.version) /\ t.page # q
      BY <1>2, <1>3, <1>4, <3>1, <3>2, KeptStays DEF Kept
    <3>3. CASE Kept(t.page, t.place, t.version) /\ t.page = q
      <4>1. q \notin HeldBy(r)
        BY <1>5 DEF HeldByDeploys
      <4>2. t.op # "deploy" /\ t.pc # "publish"
        BY <1>2, <3>3, <4>1 DEF HeldBy
      <4>3. Gone(q)'
        BY <1>2, <1>3, <1>4, PagesKeep DEF PageKeeps
      <4>4. QED BY <3>3, <4>2, <4>3
    <3>4. CASE t.op = "replace" /\ t.pc # "publish" /\ Gone(t.page)
      BY <1>4, <3>1, <3>4, KeptStays
    <3>5. QED BY <2>0, <3>2, <3>3, <3>4 DEF Ready, Promise
  <2>2. t.removed # None => deployments'[t.place] = deployments[t.place]
    <3> SUFFICES ASSUME t.removed # None PROVE deployments'[t.place] = deployments[t.place]
      OBVIOUS
    <3>1. t.place \in Places
      BY <2>0 DEF Ready, IdleDtx
    <3>2. ~PlaceRowFree(t.place)
      BY DEF PlaceRowFree
    <3>3. QED BY <1>4, <3>1, <3>2
  <2>3. FlaggedAt(t.place)' \subseteq FlaggedAt(t.place)
    BY <1>7
  <2>4. QED BY <2>0, <2>1, <2>2, <2>3 DEF Ready, TakesBack
<1>10. EachIsApart'
  BY <1>0, <1>4 DEF EachIsApart
<1>11. LogsAreKept'
  BY <1>0, <1>4, KeptStays DEF LogsAreKept, DeploymentsTypeOK, Release
<1>12. DeploymentIsRestorable'
  <2>1. \A p \in Live : p # q => p \in Live' /\ \A v : HasManifest(p, v) => HasManifest(p, v)'
    BY <1>3, <1>4, PagesKeep DEF PageKeeps, Live
  <2>2. QED BY <1>0, <1>4, <1>6, <2>1 DEF DeploymentIsRestorable, WasDeployedHere, HasManifest
<1>13. FlagIsShown'
  BY <1>0, <1>6, <1>7 DEF FlagIsShown
<1>14. QED BY <1>8, <1>9, <1>10, <1>11, <1>12, <1>13 DEF DInv

-----------------------------------------------------------------------------
(* What the deployments keep.                                              *)

LEMMA DStep == Store /\ DInv /\ [DNext]_allvars => DInv'
<1> SUFFICES ASSUME Store, DInv, [DNext]_allvars PROVE DInv'
  OBVIOUS
<1>1. ASSUME NEW s \in Sessions, Deploying(s) PROVE DInv'
  BY <1>1, DeployBeginKeeps, PinBeginKeeps, RollbackBeginKeeps, ClearFlagKeeps,
     ClearAfterWaitKeeps, SetFlagKeeps, PublishKeeps, WithdrawKeeps, DeployAbortKeeps
  DEF Deploying
<1>2. CASE UNCHANGED allvars
  <2>1. UNCHANGED <<vars, flag, deployments, logs>> /\ dtx' = dtx
    BY <1>2 DEF allvars, dvars
  <2>2. DeploymentsTypeOK' /\ EachIsApart'
    BY <2>1 DEF DInv, DeploymentsTypeOK, EachIsApart, vars
  <2>3. EachIsReady' /\ LogsAreKept' /\ FlagIsShown'
    BY <2>1, TablesStay DEF DInv, EachIsReady, LogsAreKept, FlagIsShown
  <2>4. DeploymentIsRestorable'
    BY <2>1 DEF DInv, DeploymentIsRestorable, HasManifest, WasDeployedHere, Live, vars
  <2>5. QED BY <2>2, <2>3, <2>4 DEF DInv
<1>3. QED BY <1>1, <1>2, EditKeeps, DeleteKeeps DEF DNext

LEMMA DInvHolds == DSpec => [](Store /\ DInv)
<1>1. DSpec => []Store
  BY StoreUnder, StoreHolds, PTL
<1>2. DInit => DInv
  BY DInvInit
<1>3. Store /\ DInv /\ [DNext]_allvars => DInv'
  BY DStep
<1>4. QED BY <1>1, <1>2, <1>3, PTL DEF DSpec

(* Types of the flags, the deployments, the log and the open deploys.       *)
THEOREM DeploymentsAreTyped == DSpec => []DeploymentsTypeOK
<1>1. DInv => DeploymentsTypeOK
  BY DEF DInv
<1>2. QED BY <1>1, DInvHolds, PTL

(* Whatever is deployed exists, with the manifest of the version shown, and *)
(* the log of the tab lists it, whoever deletes, pins or rolls back at the  *)
(* same time.                                                              *)
THEOREM DeployedIsRestorable == DSpec => []DeploymentIsRestorable
<1>1. DInv => DeploymentIsRestorable
  BY DEF DInv
<1>2. QED BY <1>1, DInvHolds, PTL

(* A flagged page is what its tab shows, and the only one flagged there.    *)
THEOREM FlagsAreShown == DSpec => []FlaggedPageIsShown
<1>1. Store /\ DInv => FlaggedPageIsShown
  <2> SUFFICES ASSUME Store, DInv, NEW p \in Live, flag[p] # None
               PROVE  /\ deployments[PlaceOf(p)] # None /\ deployments[PlaceOf(p)].page = p
                      /\ FlaggedAt(PlaceOf(p)) = {p}
    BY DEF FlaggedPageIsShown
  <2>1. p \in PageIds /\ pages[p].key \in Keys /\ flag[p] \in Tabs
    BY DEF Store, Sound, Core, TypeOK, Live, PageRow, DInv, DeploymentsTypeOK
  <2>2. PlaceOf(p) \in Places /\ p \in FlaggedAt(PlaceOf(p))
    BY <2>1 DEF PlaceOf, Places, Keys, ScopeIn, FlaggedAt
  <2>3. \A q \in FlaggedAt(PlaceOf(p)) : q \in PageIds
    BY DEF FlaggedAt, Live
  <2>4. QED BY <2>2, <2>3 DEF DInv, FlagIsShown
<1>2. QED BY <1>1, DInvHolds, PTL

(* What a rollback removes and logs is what the tab shows when it commits.  *)
THEOREM RollbacksTakeEffect == DSpec => RollbackTakesEffect
<1>1. DInv => \A s \in Sessions : dtx[s].removed # None /\ Withdraw(s) =>
                 deployments[dtx[s].place] = dtx[s].removed
  BY OpenDeploy DEF Ready, TakesBack
<1>2. QED BY <1>1, DInvHolds, PTL DEF DSpec, RollbackTakesEffect

(* No save changes the snapshots that a version which others can see names. *)
LEMMA ShownStays ==
    ASSUME Store, NEW s \in Sessions, Edit(s), NEW p \in Live, NEW v, HasManifest(p, v)
    PROVE  Snapshot(p, v)' = Snapshot(p, v)
<1>0. TypeOK
  BY DEF Store, Sound, Core
<1>1. PICK r \in pageVersions : r.page = p /\ r.version = v
  BY DEF HasManifest
<1>2. v \in Nat /\ v <= pages[p].version
  BY <1>0, <1>1 DEF Store, Sound, Monotone, PageIsLatest, TypeOK, PageVersionRow
<1>3. CASE SaveCommit(s)
  <2>1. \A o \in Objects : SnapshotsFor(p, v, o)' = SnapshotsFor(p, v, o)
    BY <1>2, <1>3, SnapshotsStay DEF Store
  <2>2. \A h : h \in Snapshot(p, v) <=> h \in SnapshotsFor(p, v, h.object)
    BY DEF Snapshot, SnapshotsFor
  <2>3. \A h : h \in Snapshot(p, v)' <=> \E o : o = h.object /\ h \in SnapshotsFor(p, v, o)'
    BY DEF Snapshot, SnapshotsFor
  <2>4. \A h \in objectVersions \cup objectVersions' : h.object \in Objects
    BY <1>0, CoreStep DEF TypeOK, ObjectVersionRow, Store, Sound, Core, Next
  <2>5. QED BY <2>1, <2>2, <2>3, <2>4 DEF Snapshot
<1>4. CASE UNCHANGED <<objectVersions, pageVersions>>
  BY <1>4 DEF Snapshot
<1>5. QED
  BY <1>3, <1>4
  DEF Edit, Load, LoadTemplate, SaveBegin, SaveInsert, SaveRead, SaveUnchanged, SaveAbort,
      SetTemplate

(* A release changes what its own tab shows, and no other.                  *)
LEMMA ReleaseShows ==
    ASSUME DInv, NEW s \in Sessions, Deploying(s), NEW place \in Places,
           Shown(place)' # Shown(place)
    PROVE  dtx[s].pc = "publish" /\ dtx[s].place = place /\ dtx'[s].pc = "idle"
<1>1. UNCHANGED vars
  BY DEF Deploying, DeployBegin, PinBegin, RollbackBegin, ClearFlag, ClearAfterWait,
         SetFlag, Publish, Withdraw, DeployAbort
<1>2. deployments'[place] # deployments[place]
  BY <1>1 DEF Shown, Snapshot, vars
<1>3. Publish(s) \/ Withdraw(s)
  BY <1>2 DEF Deploying, DeployBegin, PinBegin, RollbackBegin, ClearFlag, ClearAfterWait,
              SetFlag, DeployAbort
<1>4. dtx[s].pc = "publish" /\ dtx' = [dtx EXCEPT ![s] = IdleDtx]
  BY <1>3 DEF Publish, Withdraw
<1>5. dtx'[s].pc = "idle"
  BY <1>4 DEF DInv, DeploymentsTypeOK, IdleDtx
<1>6. dtx[s].place = place
  BY <1>2, <1>3 DEF Publish, Withdraw, DInv, DeploymentsTypeOK
<1>7. QED BY <1>4, <1>5, <1>6

(* A deletion changes what a tab shows only by taking the page away.        *)
LEMMA DeletionShows ==
    ASSUME Store, DInv, NEW s \in Sessions, NEW k \in Keys, DeleteUnderDeploys(s, k),
           NEW place \in Places, Shown(place)' # Shown(place)
    PROVE  deployments[place].page \in Saved(k)
<1> DEFINE d == deployments[place]
<1>1. deployments'[place] = CascadeOf(k, d) /\ DeletePage(s, k)
  BY DEF DeleteUnderDeploys
<1>2. PICK q \in Saved(k) :
         /\ pageVersions' = {r \in pageVersions : r.page # q}
         /\ objectVersions' = {h \in objectVersions : h.page # q}
  BY <1>1 DEF DeletePage
<1>3. ASSUME d.page \notin Saved(k) PROVE FALSE
  <2>1. deployments'[place] = d /\ d.page # q
    BY <1>1, <1>2, <1>3 DEF CascadeOf
  <2>2. Snapshot(d.page, d.version)' = Snapshot(d.page, d.version)
    BY <1>2, <2>1 DEF Snapshot
  <2>3. QED BY <2>1, <2>2 DEF Shown
<1>4. QED BY <1>3

(* What a tab shows changes only by a release of that tab or the deletion   *)
(* of its page: no save shows through, whoever makes it.                    *)
THEOREM ShownOnlyByRelease == DSpec => PublicViewIsStable
<1> DEFINE Cause(place) ==
       \E s \in Sessions :
           \/ dtx[s].pc = "publish" /\ dtx[s].place = place /\ dtx'[s].pc = "idle"
           \/ \E k \in Keys : DeletePage(s, k) /\ deployments[place].page \in Saved(k)
<1>1. ASSUME Store, DInv, DNext, NEW place \in Places, Shown(place)' # Shown(place)
      PROVE  Cause(place)
  <2>1. ASSUME NEW s \in Sessions, Deploying(s) PROVE Cause(place)
    BY <1>1, <2>1, ReleaseShows
  <2>2. ASSUME NEW s \in Sessions, NEW k \in Keys, DeleteUnderDeploys(s, k)
        PROVE  Cause(place)
    BY <1>1, <2>2, DeletionShows DEF DeleteUnderDeploys
  <2>3. ASSUME NEW s \in Sessions, EditUnderDeploys(s) PROVE FALSE
    <3> DEFINE d == deployments[place]
    <3>1. Edit(s) /\ deployments'[place] = d
      BY <2>3 DEF EditUnderDeploys, dvars
    <3>2. ASSUME d # None PROVE Snapshot(d.page, d.version)' = Snapshot(d.page, d.version)
      <4>1. d.page \in Live /\ HasManifest(d.page, d.version)
        BY <1>1, <3>2 DEF DInv, DeploymentIsRestorable
      <4>2. QED BY <1>1, <3>1, <4>1, ShownStays
    <3>3. QED BY <1>1, <3>1, <3>2 DEF Shown
  <2>4. QED BY <1>1, <2>1, <2>2, <2>3 DEF DNext
<1>2. Store /\ DInv /\ [DNext]_allvars =>
         [\A place \in Places : Shown(place)' # Shown(place) =>
             \E s \in Sessions :
                 \/ dtx[s].pc = "publish" /\ dtx[s].place = place /\ dtx'[s].pc = "idle"
                 \/ \E k \in Keys : /\ DeletePage(s, k)
                                    /\ deployments[place].page \in Saved(k)]_allvars
  BY <1>1
<1>3. QED BY <1>2, DInvHolds, PTL DEF DSpec, PublicViewIsStable
=============================================================================
