----------------------------- MODULE Deployments -----------------------------
(***************************************************************************)
(* Deploying saved pages to the shared tabs of a scope: handleDeployPage,  *)
(* handlePinDeployVersion, handleRollbackPage and what a deletion does to  *)
(* the deployments (service/backend/dashboardPagesHandler.js).             *)
(*                                                                         *)
(* Each handler is one transaction at READ COMMITTED.  It is split where   *)
(* another transaction can come between its statements: its BEGIN with the *)
(* row it locks, the statement that clears the flag of the page shown      *)
(* until now, the statement that sets the flag, and the rest up to the     *)
(* commit.  Its writes are visible to others only at the commit.  A        *)
(* statement that meets the lock of another transaction waits; a           *)
(* transaction may be rolled back at any point, which is how a broken      *)
(* unique index, a broken foreign key and a deadlock end.                  *)
(***************************************************************************)
EXTENDS PageStore

CONSTANTS
    Tabs,            \* target page keys: the shared tabs of a scope
    RoleOf,          \* RoleOf[u] is "viewer", "user" or "admin"
    MaxReleases      \* bound on the rows of the log: no handler starts beyond it

Places == Scopes \X Tabs
Deployed == [page: PageIds, version: Nat]
Release == [place: Places, page: PageIds, version: Nat,
            action: {"deploy", "replace", "rollback"}]

ASSUME DeploymentAssumption ==
    /\ RoleOf \in [Users -> {"viewer", "user", "admin"}]
    /\ MaxReleases \in Nat
    /\ None \notin Places /\ None \notin Deployed

VARIABLES
    flag,            \* dashboard_pages: target_page_key while is_deployed, or None
    deployments,     \* dashboard_deployments: place -> page and version, or None
    logs,            \* rows of dashboard_deployment_logs
    dtx              \* the open deploy, pin or rollback of each session

dvars == <<flag, deployments, logs, dtx>>
allvars == <<vars, dvars>>

IdleDtx == [pc |-> "idle", op |-> None, place |-> None, page |-> None,
            version |-> 0, target |-> None, removed |-> None]
Dtx == [pc: {"idle", "clear", "wait", "set", "publish"},
        op: {"deploy", "replace", "rollback", None}, place: Places \cup {None},
        page: PageIds \cup {None}, version: Nat,
        target: PageIds \cup {None}, removed: Deployed \cup {None}]

(* Types of the flags, of the deployments, of the log and of the open        *)
(* transactions; a flag is a column of a page's row and goes with it.       *)
DeploymentsTypeOK ==
    /\ flag \in [PageIds -> Tabs \cup {None}]
    /\ deployments \in [Places -> Deployed \cup {None}]
    /\ logs \in SUBSET Release
    /\ dtx \in [Sessions -> Dtx]
    /\ \A p \in PageIds : pages[p] = None => flag[p] = None

-----------------------------------------------------------------------------
(* Rows and locks.                                                         *)

PlaceOf(p) == <<ScopeIn(pages[p].key), flag[p]>>
FlaggedAt(place) == {p \in Live : flag[p] # None /\ PlaceOf(p) = place}

(* Page rows the open deploys hold: the page selected FOR UPDATE, the page *)
(* whose flag was cleared (dtx.target past "wait"), the page flagged.      *)
HeldByNoPin(s) ==
    {p \in PageIds :
        \/ dtx[s].op = "deploy" /\ p = dtx[s].page
        \/ dtx[s].pc \in {"set", "publish"} /\ p = dtx[s].target}
HeldBy(s) ==
    {p \in PageIds :
        \/ dtx[s].op = "deploy" /\ p = dtx[s].page
        \/ dtx[s].op = "replace" /\ dtx[s].pc = "publish" /\ p = dtx[s].page
        \/ dtx[s].pc \in {"set", "publish"} /\ p = dtx[s].target}
HeldByDeploys == UNION {HeldBy(s) : s \in Sessions}
RowFreeFor(s, p) == RowFree(p) /\ \A r \in Sessions \ {s} : p \notin HeldBy(r)

(* A rollback that has deleted the row of a place holds it to its commit. *)
PlaceRowFreeAlways(place) == place \in Places
PlaceRowFree(place) ==
    \A s \in Sessions : dtx[s].removed # None => dtx[s].place # place

CanPin(u, sc) ==
    /\ RoleOf[u] \in {"user", "admin"}
    /\ ScopeOf[u] = sc \/ (ScopeOf[u] = HQ /\ RoleOf[u] = "admin")

(* loadPageObjectsAtVersion answers null when the version has no manifest. *)
HasManifest(p, v) == \E r \in pageVersions : r.page = p /\ r.version = v
SnapshotOfLatest(p, v) ==
    {h \in objectVersions : h.page = p /\ h.operation # "delete" /\ v \in Nat /\
        \E r \in pageVersions : r.page = p /\ r.version = pages[p].version
                                /\ r.manifest[h.object] = h.version}
Snapshot(p, v) ==
    {h \in objectVersions : h.page = p /\ h.operation # "delete" /\
        \E r \in pageVersions : r.page = p /\ r.version = v /\ r.manifest[h.object] = h.version}

WasDeployedHere(place, p, v) ==
    \E l \in logs : /\ l.place = place /\ l.page = p /\ l.version = v
                    /\ l.action \in {"deploy", "replace"}

-----------------------------------------------------------------------------
MayStart(s) ==
    /\ tx[s].pc = "idle" /\ dtx[s].pc = "idle"
    /\ Cardinality(logs) < MaxReleases

(* BEGIN and SELECT page_id, version ... FOR UPDATE on one's own page.     *)
(* Another tab's save has committed or not begun: the version is the one   *)
(* that is stored.                                                         *)
DeployBegin(s, k, tab) ==
    /\ MayStart(s) /\ Owner(k) = UserOf[s] /\ CanPin(UserOf[s], ScopeIn(k))
    /\ \E p \in Saved(k) :
          /\ RowFreeFor(s, p)
          /\ dtx' = [dtx EXCEPT ![s] = [IdleDtx EXCEPT !.pc = "clear", !.op = "deploy",
                                          !.place = <<ScopeIn(k), tab>>,
                                          !.page = p, !.version = pages[p].version]]
    /\ UNCHANGED <<vars, flag, deployments, logs>>

(* BEGIN, wasDeployedHere and loadPageObjectsAtVersion: a version that was *)
(* never shown here, or whose manifest is gone, changes nothing.  The page *)
(* row is not locked yet.                                                  *)
PinBegin(s, place, p, v) ==
    /\ MayStart(s) /\ CanPin(UserOf[s], place[1])
    /\ WasDeployedHere(place, p, v) /\ HasManifest(p, v)
    /\ dtx' = [dtx EXCEPT ![s] = [IdleDtx EXCEPT !.pc = "clear", !.op = "replace",
                                    !.place = place, !.page = p, !.version = v]]
    /\ UNCHANGED <<vars, flag, deployments, logs>>

(* BEGIN and DELETE FROM dashboard_deployments ... RETURNING. *)
RollbackBegin(s, place) ==
    /\ MayStart(s) /\ CanPin(UserOf[s], place[1])
    /\ deployments[place] # None => PlaceRowFree(place)
    /\ dtx' = [dtx EXCEPT ![s] = [IdleDtx EXCEPT !.pc = "clear", !.op = "rollback",
                                    !.place = place, !.removed = deployments[place]]]
    /\ UNCHANGED <<vars, flag, deployments, logs>>

AfterClear(s) == IF dtx[s].op = "rollback" THEN "publish" ELSE "set"

(* UPDATE dashboard_pages SET is_deployed = false ... AND is_deployed.  It *)
(* waits for the row it found in its snapshot when that row is locked.     *)
ClearFlag(s) ==
    /\ dtx[s].pc = "clear"
    /\ \/ /\ FlaggedAt(dtx[s].place) = {}
          /\ dtx' = [dtx EXCEPT ![s].pc = AfterClear(s)]
       \/ \E p \in FlaggedAt(dtx[s].place) :
             dtx' = [dtx EXCEPT ![s].target = p,
                                ![s].pc = IF RowFreeFor(s, p) THEN AfterClear(s) ELSE "wait"]
    /\ UNCHANGED <<vars, flag, deployments, logs>>

(* The lock is released: the row is cleared if it still matches, and a row *)
(* flagged in the meantime is not looked for.                              *)
ClearAfterWait(s) ==
    /\ dtx[s].pc = "wait" /\ RowFreeFor(s, dtx[s].target)
    /\ dtx' = [dtx EXCEPT ![s].pc = AfterClear(s),
                          ![s].target = IF @ \in FlaggedAt(dtx[s].place) THEN @ ELSE None]
    /\ UNCHANGED <<vars, flag, deployments, logs>>

(* UPDATE dashboard_pages SET is_deployed = true.  The partial unique      *)
(* index on (scope, tab) refuses a second flagged page and waits for one   *)
(* that is not committed.                                                  *)
IndexFreeUnchecked(s) == dtx[s].place # None
IndexFree(s) ==
    /\ FlaggedAt(dtx[s].place) \subseteq {dtx[s].page, dtx[s].target}
    /\ \A r \in Sessions \ {s} : ~ (/\ dtx[r].pc = "publish" /\ dtx[r].op # "rollback"
                                    /\ dtx[r].place = dtx[s].place)
SetFlag(s) ==
    /\ dtx[s].pc = "set" /\ dtx[s].page \in Live
    /\ RowFreeFor(s, dtx[s].page) /\ IndexFree(s)
    /\ dtx' = [dtx EXCEPT ![s].pc = "publish"]
    /\ UNCHANGED <<vars, flag, deployments, logs>>

Cleared(t) == [p \in PageIds |-> IF p = t.target THEN None ELSE flag[p]]

(* INSERT ... ON CONFLICT DO UPDATE on the place, the log row, COMMIT. *)
Publish(s) ==
    LET t == dtx[s] IN
    /\ t.pc = "publish" /\ t.op # "rollback" /\ PlaceRowFree(t.place)
    /\ flag' = [Cleared(t) EXCEPT ![t.page] = t.place[2]]
    /\ deployments' = [deployments EXCEPT ![t.place] = [page |-> t.page, version |-> t.version]]
    /\ logs' = logs \cup {[place |-> t.place, page |-> t.page, version |-> t.version,
                           action |-> t.op]}
    /\ dtx' = [dtx EXCEPT ![s] = IdleDtx]
    /\ UNCHANGED vars

(* The log row when a deployment was deleted, COMMIT. *)
Withdraw(s) ==
    LET t == dtx[s] IN
    /\ t.pc = "publish" /\ t.op = "rollback"
    /\ flag' = Cleared(t)
    /\ IF t.removed = None THEN UNCHANGED <<deployments, logs>>
       ELSE /\ deployments' = [deployments EXCEPT ![t.place] = None]
            /\ logs' = logs \cup {[place |-> t.place, page |-> t.removed.page,
                                   version |-> t.removed.version, action |-> "rollback"]}
    /\ dtx' = [dtx EXCEPT ![s] = IdleDtx]
    /\ UNCHANGED vars

DeployAbort(s) ==
    /\ dtx[s].pc # "idle"
    /\ dtx' = [dtx EXCEPT ![s] = IdleDtx]
    /\ UNCHANGED <<vars, flag, deployments, logs>>

Deploying(s) ==
    \/ \E k \in Keys, tab \in Tabs : DeployBegin(s, k, tab)
    \/ \E place \in Places, l \in logs : PinBegin(s, place, l.page, l.version)
    \/ \E place \in Places : RollbackBegin(s, place)
    \/ ClearFlag(s) \/ ClearAfterWait(s) \/ SetFlag(s)
    \/ Publish(s) \/ Withdraw(s) \/ DeployAbort(s)

-----------------------------------------------------------------------------
(* The page store under deployments.                                       *)

(* Its statements wait for the rows that open deploys hold. *)
WaitsForDeploys ==
    /\ locked' \cap HeldByDeploys \subseteq locked
    /\ \A p \in HeldByDeploys : pages'[p] = pages[p]

EditUnderDeploys(s) ==
    /\ dtx[s].pc = "idle" /\ Edit(s) /\ WaitsForDeploys
    /\ UNCHANGED dvars

(* The deletion cascades to the deployments of the page, and waits for a   *)
(* rollback that holds one of their rows; the logs stay.                   *)
CascadeKept(k, d) == IF k \in Keys THEN d ELSE None
CascadeOf(k, d) ==
    IF d # None /\ d.page \in Saved(k) THEN None ELSE d
DeleteUnderDeploys(s, k) ==
    /\ dtx[s].pc = "idle" /\ DeletePage(s, k) /\ WaitsForDeploys
    /\ \A place \in Places : CascadeOf(k, deployments[place]) # deployments[place] =>
          PlaceRowFree(place)
    /\ deployments' = [place \in Places |-> CascadeOf(k, deployments[place])]
    /\ flag' = [p \in PageIds |-> IF p \in Saved(k) THEN None ELSE flag[p]]
    /\ UNCHANGED <<logs, dtx>>

DInit ==
    /\ Init
    /\ flag = [p \in PageIds |-> None]
    /\ deployments = [place \in Places |-> None]
    /\ logs = {} /\ dtx = [s \in Sessions |-> IdleDtx]

DNext ==
    \E s \in Sessions :
        \/ Deploying(s)
        \/ EditUnderDeploys(s)
        \/ \E k \in Keys : DeleteUnderDeploys(s, k)

DSpec == DInit /\ [][DNext]_allvars
-----------------------------------------------------------------------------
(* Properties.                                                             *)

(* Whatever is deployed can be shown as it was deployed, and the history   *)
(* of the tab lists it as the current and restorable entry                 *)
(* (handleListDeployHistory): handleGetDeployedPage never falls back to    *)
(* the working copy.                                                       *)
DeploymentIsRestorable ==
    \A place \in Places : deployments[place] # None =>
        LET d == deployments[place] IN
        /\ d.page \in Live /\ HasManifest(d.page, d.version)
        /\ WasDeployedHere(place, d.page, d.version)

(* A page flagged as deployed to a tab is what that tab shows, and a tab   *)
(* has one flagged page: the badge of the editor never names a tab that    *)
(* shows another page.                                                     *)
FlaggedPageIsShown ==
    \A p \in Live : flag[p] # None =>
        /\ deployments[PlaceOf(p)] # None /\ deployments[PlaceOf(p)].page = p
        /\ FlaggedAt(PlaceOf(p)) = {p}

Shown(place) ==
    IF deployments[place] = None THEN {}
    ELSE Snapshot(deployments[place].page, deployments[place].version)

(* What a shared tab shows changes only when a deploy, a pin or a rollback *)
(* of that tab commits or its page is deleted: no save of any page, of the *)
(* deployed one or of one that shares its objects, shows through.          *)
PublicViewIsStable ==
    [][\A place \in Places : Shown(place)' # Shown(place) =>
          \E s \in Sessions :
              \/ dtx[s].pc = "publish" /\ dtx[s].place = place /\ dtx'[s].pc = "idle"
              \/ \E k \in Keys : /\ DeletePage(s, k)
                                 /\ deployments[place].page \in Saved(k)]_allvars

(* What a rollback removes and logs is still what the tab shows when it    *)
(* commits: no deploy or pin that was under way has replaced it.           *)
RollbackTakesEffect ==
    [][\A s \in Sessions : dtx[s].removed # None /\ Withdraw(s) =>
          deployments[dtx[s].place] = dtx[s].removed]_allvars
=============================================================================
