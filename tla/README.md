# A TLA+ verification project for the KTWS dashboard service

The repository holds a dashboard product in two halves: a *service* (React
frontend, Node backend in `service/`) and an *admin* (FastAPI and React in
`admin/`), over one Postgres database (`db/`), with Redis between the app
workers and Microsoft Fabric as the data source. The part with behaviour that is
hard to test is the service's dashboard core: several tabs, people and worker
processes act on the same pages, locks and permits, and requests fail, cross and
arrive late. Around it stand the chat that proposes changes to a dashboard, the
pipeline that turns questions into queries and stored widgets, and the accounts of
the admin. This project models these, checks them with TLC and proves part of
what it checks with TLAPS.

All paths below are relative to the repository's root (`src/` in `PROJECT.json`).

## 1. Inventory

| Component | State it keeps | Operations | What is hard, what makes it correct |
|---|---|---|---|
| **Saved pages** `service/backend/dashboardPagesHandler.js`, `db/service/005`, `007` | `dashboard_pages`, `dashboard_objects`, `dashboard_page_versions`, `dashboard_object_versions` | load, save, delete, set template, load template, list | a save is ~10 statements at READ COMMITTED; optimistic base version; object ids are global. No lost update, rows agree with the manifest, every version restorable, no key clash, limit of pages |
| **Deployments** (same file) | `is_deployed`/`target_page_key` on pages, `dashboard_deployments`, `dashboard_deployment_logs` | deploy, pin a version, rollback, history, preview, show | the flag and the deployment row say one thing twice; a pin locks no page; deletions cascade. A deployed version can be shown, edits do not show through |
| **Dashboard editor** `service/frontend/src/context/DashboardStateContext.jsx` | canvas with undo history, open name, dirty mark, last stored ids, layout timer | edit, move, undo, redo, open, new, save, autosave, delete, load template | answers arrive after the user has gone on. Nothing is marked saved that is not; autosave stores no new widget, removes none and sends no page to another |
| **Runtime store** `service/backend/cache/runtimeStore.js` | Redis keys, one memory store per worker, the time of the last Redis error | get, set, lock, semaphore | every call may fall back to memory, also after Redis applied it |
| **Result cache** `service/backend/dashboardResultCache.js` | per key: an entry, a lock | execute, refresh | stale-while-revalidate, single flight over workers, waiters, a last resort without a lock |
| **Fabric gate** `service/backend/fabricConcurrency.js` | permits of a semaphore | run with a permit | permits expire, are lost with Redis, and must neither leak nor be exceeded |
| Fabric client `fabricClient.js` | connection pools | query | a failed connect stays cached; 60 s request timeout |
| **Watermark freshness** `dashboardDataFreshness.js` | per source: a cached watermark, a lock | resolve a fingerprint, plain or forced | its lock is shorter than a query may take; a forced check shares the query of another but never what was known before |
| **Query bundle and object execution** `dashboardQueryBundle.js`, `dashboardObjectExecution.js`, `agentic-bi/mergeMetricRows.js` | none of its own | open a stored widget: key, cache, queries side by side, merge, derive, transform | data loaded between the queries of one result; the numbers of the answer computed a second time from what was stored |
| **Agentic BI and certified reports** `agenticBiPipeline.js`, `reports/*`, `agentic-bi/*` | none shared | route a question, run a query or a report, propose or answer | five guards and retries around a model that may answer anything: one ending, no endless handing on, a report that has what was named |
| **Chat and dashboard proposals** `ChatPanel.jsx`, `dashboardPipeline.js`, `chatHandler.js`, `applyDashboardPatch.js` | messages, canvas, history | ask, stream, apply, cancel, undo, clear | a proposal is made for a snapshot and applied to whatever canvas is there later; streams break |
| Authentication `auth.js`, `frontend/src/auth/*` | tokens, 30 s cooldown of the admin service | identify, authorise | a fallback by HTTP when a token cannot be verified here |
| Dealer funnel, dynamic queries, RAG, model adapters | none shared | build SQL, call a model, stream | text and data transformations |
| Widgets and pages of the frontend | view state | render, lay out the grid | late answers in shared tabs |
| **Admin accounts** `admin/backend/internal/interfaces` (users, ad_users, companies), `infrastructure/cache` | `User_master`, `User_AD_master`, `CompanyInfo_master`, one cached list per kind of account | create, read, update, delete, change password, delete a company | handlers write into the objects of the shared cached list before the database; failed writes, and writes that do not invalidate |
| Admin backend (the rest) and frontend | roles, groups, notices, agents | CRUD | single statements |

**How they interact.** The editor sends a page with the version it was loaded at
(`baseVersion`); the page handler compares it under the row lock, writes the
version tables and answers with the new version. A deploy pins page and version;
shared tabs read the pinned snapshot from the version tables. For every widget
shown, the backend resolves a watermark, asks the result cache with a key made
from query, parameters, fingerprint and access scope, and the cache's loader runs
its queries through the Fabric gate. Watermarks, cache and gate live in the runtime
store, which is Redis for all workers or, in an outage, each worker's memory. A
question to the chat carries a snapshot of the canvas; the backend answers with
a proposal, which the panel applies to the canvas of that moment, and a proposed
widget carries the bundle of queries from which it is computed whenever it is
opened again.

`PROJECT.json` lists every component with its status, and under `hazards` the
places in the code where something could go wrong that a test would hardly reach,
each with the properties that watch it.

## 2. Modules

| Module | Models | State and actions |
|---|---|---|
| `PageStore` | the page handlers and their tables | tables as variables; `tx[s]` is the open save of tab `s`, `locked` the rows under FOR UPDATE, `view[s]` what the tab has open. `Load`, `LoadTemplate`, `SaveBegin`, `SaveInsert`, `SaveRead`, `SaveCommit`, `SaveUnchanged`, `SaveAbort`, `DeletePage`, `SetTemplate` |
| `Deployments` (EXTENDS `PageStore`) | deploy, pin, rollback and deletion on top of it | `flag`, `deployments`, `logs`, and `dtx[s]`, the open transaction. `DeployBegin`, `PinBegin`, `RollbackBegin`, `ClearFlag`, `ClearAfterWait`, `SetFlag`, `Publish`, `Withdraw`, `DeployAbort`; every page-store action conjoined with the waiting for the rows that deploys hold |
| `RuntimeStore` | where a call of the store goes | `cooldown[w]`; `At(w)`, `Mirrored(w)`, `Torn(w)` |
| `ResultCache` (EXTENDS `RuntimeStore`) | one key of the cache | `entries`, `locks` per place, `req[r]`. One action per stretch between two awaits |
| `FabricGate` (EXTENDS `RuntimeStore`) | `runWithFabricConcurrency` | `permits` per place, `call[c]` |
| `DashboardEditor` | one tab, with the server as it sees it | the context's state and refs, `saves`/`load`/`deletion` in flight. One action per callback, timer and answer |
| `PageHistory` | what the saved pages promise, without tables or transactions | `book`: a key and drafts by version for each page; `opened[s]`. `Read`, `Create`, `Append`, `Remove`. `PageStore!KeepsHistory` maps the tables to it: the drafts are restored from manifests and snapshots as `loadPageObjectsAtVersion` does |
| `Freshness` (EXTENDS `RuntimeStore`) | `loadWatermark` of one source | `marks`, `locks` per place, `check[r]`, `outlived`: a query ran on after its lock expired |
| `MetricRows` | merge, ratio, cumulation and change of metric rows; what an answer shows, what the stored widget keeps and what it shows | operators, no variables |
| `WidgetReplay` (EXTENDS `MetricRows`) | `executeCachedQueryBundle` and `executeQueryBundle` beside the ETL | `loads`, `mark` per source, `cache` by fingerprint, `request[r]`. `Open`, `Known`, `AskSource`, `Lookup`, `Settle`, `Finish`, `Close`, `Load`, `ExpireMark`, `ExpireResult` |
| `CertifiedReports` | routing, retrying, running and proposing a certified report | one turn: `at`, `question`, `report`, `llm`, `said`. `Route`, `Retry`, `Month`, `Names`, `Run`, `Narrow`, `Shape`, `Emit` |
| `AgenticTurn` (EXTENDS `CertifiedReports`) | `runAgenticBiQuery` around it | the selection of a tool, the guards on columns, rates and weeks, the checks, the metrics, the three renderers |
| `ChatTurns` | the chat panel, its endpoints and the canvas | `canvas`, `past`, `chat`, `msg`, `loading`, `job` at the backend, `wire`. The user's acts, the stages of `runDashboardPipeline` and of the chat handler, streams that end or break |
| `AdminAccounts` | account handlers and repositories of the admin backend | `users`, `companies`, `cached`, `req[r]`. One action per stretch between two waits for the database |
| `MC*` | instances for TLC | model values and functions for the constants |
| `PageStoreProofs` (also of `Deployments`), `DashboardEditorProofs`, `FabricGateProofs`, `ResultCacheProofs`, `FreshnessProofs` (also of `WidgetReplay`), `AgenticTurnProofs`, `ChatTurnsProofs`, `AdminAccountsProofs` | theorems | see section 5 |

Modelling decisions that a reader should know:

- **Transactions.** A save's writes become visible at its commit, so all of them
  are one action (`SaveCommit`); its reads and locks come before, as actions of
  their own, wherever another transaction can come between. Reads that only
  concern rows the save itself has locked (the MAX over its page's history, the
  final manifest) belong to the commit. A rollback is possible at every point,
  which stands for errors, deadlocks, lost connections and crashes at once.
- **Contents.** A stored record is one member of `Contents`: equal contents mean
  equal fingerprints, sort order included.
- **Time.** `RuntimeStore` counts in ticks that are long against one call of the
  store and the poll interval of 100 ms. What has a TTL carries the ticks it has
  left, so that time needs no bound.
- **A call that fails after Redis applied it.** A lock or permit is then asked
  for again in memory, and memory's answer counts (`AcquireTorn`); a write or a
  release does in memory what it did in Redis.
- **The cached list of accounts** holds the very objects that handlers change. An
  update that waits for its transaction refers to the object, not to a copy; when
  the list leaves the cache the object stays with the request (`Detached`).
- **The language model** may give any answer of the right form, or none. What a
  question names (columns, a month) is drawn at random; whether a guard matches a
  text is a choice where the properties do not depend on it.
- **Numbers.** A column is a function from rows to fractions; the data of the
  `widgets` instance has rows that one query lacks, zero denominators, two months
  and loads that change values.
- **The editor's server** is the page store reduced to what a tab can observe:
  pages with a version, base check, object ids that belong to one page. The layout
  of a canvas is one value for all its widgets, and so are their titles and specs
  (`content`), which `Edit` changes: the edit dialog and the chat's updates. Four
  variables only record what happened, for the properties: `committed`, the widgets
  that were stored at the start or saved by hand; `origin`, the page that the stored
  version and ids of the tab are of; `persistedContent`, the titles and specs that
  went with them, which a save carries along as `was`; `silent`, that a page was deleted or robbed of
  widgets, so that its version no longer tells its contents.
- **Mutants.** An operator whose name is that of the next one with an ending
  (`BaseNotAhead` before `BaseIsCurrent`) is a plausible bug that `PROJECT.json`
  names; no action uses it. Each property has one that breaks it.

## 3. Runs

| Run | Instance | Properties |
|---|---|---|
| `two_tabs` | 2 tabs of one user, 2 names, 2 object ids and 2 contents, 3 page ids, versions to 3 | `WorkingSetMatchesManifest`, `OnePagePerKey`, `NoLostUpdate`, `SavedDraftIsStored` |
| `templates` | a headquarters tab and a dealer tab, templates, versions to 2 | `RestorableHistory`, `VersionKeysUnique`, `KeepsHistory` (refinement) |
| `colleagues` | 2 colleagues with a page each, two shared tabs, 3 log rows, versions to 2 | `DeploymentIsRestorable`, `FlaggedPageIsShown`, `PublicViewIsStable`, `RollbackTakesEffect` |
| `cache` | a request slot on each of 2 workers, soft TTL 1, hard TTL 2, lock TTL 2, loads to 1 tick | `OneLoadPerLock`, `SingleFlight`, `EveryRequestEnds` |
| `gate_failover` | 3 calls on 2 workers, 1 permit of 2 ticks, queue of 2 ticks, queries to 1 tick | `LimitPerPlace`, `GlobalLimit`, `PermitsMatchCalls`, `EveryCallEnds` |
| `editor_pages` | 2 stored pages, 4 ids, 2 layouts and 2 contents, a template, 5 acts of the user, 2 saves in flight | `NewWidgetsNeedASave`, `OwnLayoutSaveKeepsWidgets`, `CleanIsSaved` |
| `accounts` | 2 requests, an account of each kind, 2 companies and passwords | `PasswordOnlyByRequest`, `DeletedStaysDeleted`, `ListsSettle` |
| `agentic_turn` | 3 reports with 4 columns, two of them telling, a dashboard of 0 to 2 widgets or none, stack of 3 calls | `OneOutcome`, `AskBudget`, `ReportFitsQuestion`, `ProposalFits`, `TurnEnds` |
| `chat` | 2 questions, 3 widgets of which 2 fit, one step of undo | `OnlyTheCurrentStreams`, `ProposalFitsSnapshot`, `LateProposalKeepsTheRest`, `QuestionSettles` |
| `freshness` | a check slot on each of 2 workers, entries of 2 ticks, locks of 1, queries to 1 | `OneCheckPerLock`, `ForcedCheckIsNew`, `EveryCheckEnds` |
| `widgets` | 2 requests, one source with one more load, 3 days in 2 months, 2 dealers, 8 questions | `CurrentKeyIsCurrent`, `PlainReplayIsTheAnswer`, `CumulatedIsTheTotal` |

`TypeOK` of the page store is checked in `two_tabs` and proved. The other type
invariants are definitions beside the models; those of the deployments, the gate, the
cache, the editor and the chat panel are proved, and the proofs about the watermarks,
the turn and the accounts carry as much of theirs as they need. One run
shows a disagreement between the code and what the repository says of it (quoted
under `findings`): in `template_theft` a dealer's save of a draft made from a
template moves the template's rows to the dealer's page, since object ids are
kept and the upsert goes by id.

**Known not to hold.** These definitions stand in the modules with the comment of
the code they contradict; none of the runs checks them, and putting one in place
of the properties of the named configuration gives a trace:

| Definition | Configuration | What the trace shows |
|---|---|---|
| `PageStore!PageLimit` | `two_tabs` with `MaxSavedPages = 1` | two tabs that create a page at once exceed the limit "enforced by the server". The proofs bound by how much: one page for every tab but the first |
| `ResultCache!RefreshIsNew` | `cache` with `Watched = {r1, r3}` | a manual refresh that has to wait for another load gets the old entry back after 100 ms |
| `DashboardEditor!NewerEditStaysDirty` | `editor_pages` | a save answered after undo and another edit clears the dirty mark of that edit: both canvases have the same version number |
| `DashboardEditor!LayoutSaveOnlyMoves` | `editor_pages` | a title or spec that was edited and not saved is stored by the autosave of the next move: the guard compares ids (`DashboardStateContext.jsx:131-137`) and the save sends the whole canvas (283), where the comments at 15-17 and 322 say that it carries moves and resizes only. Also: a move between opening a page and its answer sends the old page's canvas as the new page's; so does a move after the late answer of a save of the page one has left, which puts that page's name and version beside the canvas of the other |
| `Freshness!OneCheckAtATime` | `freshness` | a forced check waits for an entry that nobody is going to store, and then asks beside another |
| `CertifiedReports!SwapsOnce` | `agentic_turn` | two reports with a telling column each swap until the stack ends |
| `WidgetReplay!ReplayIsTheAnswer` | `widgets` with `YearlyParts`, `OneRate` of the MC module | the yearly rate per month is answered with cumulated parts and replayed with plain ones. Several cumulated metrics, of which one lacks a row, disagree too: the answer cumulates each and then fills what it lacks with 0 (`agenticBiPipeline.js:3791`, `mergeMetricRows`), the widget fills and then cumulates (`dashboardQueryBundle.js:170-180`) |
| `AdminAccounts!DeletedCompanyIsEmpty` | `accounts` | a company is deleted that has accounts |

**What these mean for the passing runs.** `WorkingSetMatchesManifest` and
`SavedDraftIsStored` are checked where the tabs use their own object ids (`ClientIds`);
with templates the first fails, as `template_theft` shows from the side of the
documented promise. The proofs make this exact: both hold, and a template stays whole,
in every behaviour whose saves bring only widgets of their own page (`OwnDrafts`), with
templates or without: what breaks them is a save with ids of another page, be its draft
made from a template or opened and saved under another name. `RestorableHistory` and
`VersionKeysUnique`, on the other hand, are checked and proved *with* such drafts: the
version tables survive what happens to the working rows. `OwnLayoutSaveKeepsWidgets` and
`CleanIsSaved` are what remains true of the editor once the situations above are set
aside, each by a condition in the property itself: the first speaks of layout saves
whose base was loaded or saved for the page they go to (`s.for = s.target`), and lets
titles and specs change when the canvas has others than the tab last loaded or saved
(`s.was`). It therefore does not say that such a save only moves.
`OneCheckPerLock` and `PlainReplayIsTheAnswer` do the same for the watermarks and the
widgets: the first counts the checks that hold the lock, the second speaks of the
questions whose stored form keeps what their numbers depend on, on the data at hand
(`KeepsAll`).

**Bounds and why they suffice.** Lost updates, doubled pages, key clashes and
flags that disagree need two transactions on one or two pages; the instances
have two sessions, and enough versions that a page is edited, deleted, recreated
and edited again. Two shared tabs and three log rows let each colleague's page be shown
on a tab and both deploy to the other's at once, which locks the rows crosswise. `PageIds` bounds how many pages are ever created, `MaxVersion`
the versions of a page, `MaxReleases` the log: each is a guard that only stops
new work. In the cache and the gate, slots are reused, so any number of requests
follow each other, and TTLs are the smallest that keep the order of the code's
(`MaxLoad < LockTtl`: 180 s against 65 min; `SoftTtl < HardTtl <= LockTtl`;
`MaxRun < PermitTtl`: 60 s against 90 s). With one permit in the gate, every
pair of calls competes. In the editor five acts are enough for: open, edit, save,
undo, edit. A watermark's lock ends under a query of the same length (`MaxQuery =
LockTtl`: 180 s against 30 s). `Stamps` are enough for every entry that is held
somewhere. In the chat, two questions and three widgets let a proposal meet a
canvas that was edited, emptied and filled up (with one content, which `LateProposalKeepsTheRest` is
proved beyond); `MaxHistory = 1` makes undo run
out. Two telling columns in two reports are what a question needs to be handed
to and fro, a third report what a retry needs to go elsewhere. `MaxAccounts` and
`OneKind` keep `accounts` to one account at a time, of one kind, which the
handlers never compare with one of the other. `CHECK_DEADLOCK FALSE` stands where
the users have a bounded number of acts and may stop (`editor_pages`) or no further
request has to come (`accounts`); in all other passing runs deadlock is checked.

**Symmetry** is used for page ids, contents and tabs of one user in the page
store, for the shared tabs and for the two colleagues together with everything that is
theirs, for the two pages of the editor, each with its widget, and for the two requests
in `widgets`. TLC applies a symmetry set only when it is built from `Permutations`, so
those that move several things at once are filtered from one. None is used where liveness is checked.

**Fairness.** `CacheSpec`, `GateSpec` and `FreshSpec` ask for weak fairness of time and
of each request's own steps: a call of the store settles (Redis has timeouts and a
fallback), a load ends (the driver has a request timeout), timers fire. `Spec` of
`AgenticTurn` and of `ChatTurns` ask it of the backend's work on a question and of the
reading of its stream: every await there is a model call or a query with a
timeout. `AccountsSpec` asks it of each request's statements and of the expiry of a
cached list. No failure is under fairness: nothing waits for a crash, an outage or
a failing load to happen, nor are they ever excluded; nor is anything a user does.
The page store, the deployments, the editor and the widgets have only safety
properties and no fairness.

## 4. Hazards

`PROJECT.json` lists forty, each at its line. Where a property keeps only part of one out, the note
says which part is left. Those without a property say why: the
code does not keep what one would state (section 3), or the behaviour is in the
model but the repository makes no statement about it. Not in the list, for lack of
room, but known: a page deleted in one tab is created again by a save in another; the
two statements of a load outside a transaction; late answers that bring the user back to
a page just left; a Fabric connection that failed to open stays in the map of
pools; a shared tab that asks for widgets and data in two requests around a deploy;
the deployment history ordered by the start of transactions; `mom_change_pct`,
which compares with the row before and not with the month before.

## 5. Proofs

The theorems hold for any number of users, tabs, pages, objects, workers, calls,
requests, questions, widgets, reports and accounts, under the assumptions the
modules name, which TLC evaluates in every run. Beside types these are: `QueriesEndInTime`
(a query ends before its permit), `CacheAssumption` (a load ends before its lock),
`OnePagePerWidget` (the primary key of the stored objects: at the start no id is on two
pages), `RowsOfASource` (a query returns finitely many rows of the dimensions asked for, each
with a number), `PeriodsInOrder` (dates are compared as texts, and a period is a
date's first characters, so that periods follow each other as dates do), and that `None`
and the like are no data (`NoneIsNoData`, `NoneIsNoLock`, `NoneIsNoRow`). All theorems are
about the specifications the runs check; where a property cannot be carried from step
to step by itself, the strengthening is named below. Two hypotheses stand in theorems and
not in the modules: `OwnIdsApart` with `OwnDrafts` (item 8 of the page store), and that
the tabs are finitely many, of which `OneTabKeepsTheLimit` gives each user one (item 5).

**`PageStoreProofs`.** None of the invariants is inductive alone. The proof goes
in layers, each an invariant shown with one step per action:

1. `Core`: types; `LatestExists` (each object's history has a largest version, so
   that the MAX of the code is a number); `LockInv` (two open saves never hold the
   same page, a held page exists unless its save inserted it). Theorems
   `CoreHolds` and `TypeCorrect`.
2. `BaseSeen`: while a save holds its page, the page's version is still the one
   its tab had as base. From it, `UpdatesAreNotLost`.
3. `RowHasSnapshot`: every row of `dashboard_objects`, whichever page it moved to,
   has the snapshot its version names; hence a new manifest only names existing
   snapshots, and `HistoryIsRestorable`.
4. `KeyInv`: a page that is being inserted is the only one of its key, visible or
   not. From it, `PagesAreUnique`.
5. `RoomInv`: the limit on pages is counted without a lock, and `PageLimit` fails. What holds
   relates two sets: the pages a user has in a scope, and the user's tabs that are about
   to create one there and have passed the count. A creation passes only while there
   are fewer pages than the limit, and its commit moves it from the second set to the first
   (`RoomFilled`), so pages and creations together stay below the limit plus the number of the
   user's tabs (`RoomStep`): `TabsPassTheLimitByOneEach`, and with one tab per user
   `OneTabKeepsTheLimit`. A tab of the model has one save open at a time. TLC confirms the
   bound, and that one less would be wrong, on `two_tabs` with 3 names and
   `MaxSavedPages = 1`.
6. `Monotone`: rows, and the rows an open save has read, carry the largest version
   their page's history has for them, and a page is at the largest version of its own.
   Hence every number a save computes is new: `VersionsAreNew`.
7. `Placed`: every row belongs to a page that exists, and a page being inserted starts
   with none. `Sound` is all of them together. Then a draft restored from the manifest
   and the snapshots at a version is the draft that was saved as that version
   (`RestoredIsDraft`), what is stored under a version never changes (`SnapshotsStay`,
   `VersionsStay`), and each action of the tables is a step of the abstract history or
   leaves it alone (`ReadStep`, `CommitStep`, `DeleteStep`, `BookStep`):
   `TablesKeepHistory`.
8. `OwnInv`: rows are on the page their widget was made for (`OwnObjects`), what a save
   read under its lock is still on its page when it writes (`SeenIsCurrent`), and
   `WorkingSetMatchesManifest`. It is inductive if the ids made on two pages differ
   (`OwnIdsApart`: the browser draws them with `randomUUID`) and every open save brings
   only ids of its own page (`OwnDrafts`), since such a save leaves all other pages their
   rows (`SaveStaysHome`). Hence, for `Spec /\ []OwnDrafts`:
   `OwnPagesMatchTheirManifest`, `OwnDraftsAreStored`, `TemplatesKeepTheirWidgets`. The
   condition on the behaviour is no empty one: `OwnUnlessPublished` shows that every
   behaviour meets it where headquarters publishes no template, as in `two_tabs`.

The deployments, in the same module: every step under deployments is a step of the page store or
leaves its tables alone (`StoreSteps`), so its invariants carry over (`StoreUnder`). A
page keeps its key and its manifests, or is gone for good (`PagesKeep`). `DInv` adds,
per open transaction: a deploy can publish what it promised, unless it is a pin whose
page was deleted before the pin had locked it (`Promise`); a rollback still holds the
row it removes and waits for the flag that belongs to it (`TakesBack`); one transaction
at a time removes the row of a place, or has flagged a page for it (`Apart`). The log
names pages that can be shown or are gone, and only what is shown is flagged. From it
`DeployedIsRestorable`, `FlagsAreShown` and `RollbacksTakeEffect`. `ShownOnlyByRelease`
needs in addition that the snapshots behind a manifest never change (`ShownStays`).

**`DashboardEditorProofs`.** `EditorInv` has four parts. The types, with `HistoryFits`:
past and future together hold at most `MaxHistory` canvases, without which a redo could
make the past too long. `CommittedInv`: whatever may still become the content of a page,
be it on the server, on its way to it or from it, or remembered as stored, is there by
hand; a layout save is only sent for a canvas with the stored ids and so brings nothing
else: `NewWidgetsWaitForASave`. `GrownInv`: as long as the canvas was not put back
(`rewound`), its version is ahead of every save in flight, or equal with the same
content; hence an answer that finds its own version finds its own canvas:
`CleanCanvasIsSaved`. `SnapshotInv`: until a page is deleted or loses widgets to another
(`silent`), a page's version tells which widgets it has, and their titles and specs, for
what the tab remembers, for what a load brings and for the base of a layout save. A layout
save that the base check lets through then has the page's own widgets, no page shares them,
and its titles and specs are the page's unless the canvas has others than the tab last
loaded or saved: `OwnLayoutSavesKeepWidgets`.
`origin` came out of this proof. Without it the property spoke of the name a save was
scheduled for, and the late answer of a save of a page one has left was a counterexample
outside the bounds of the run (section 3).

**`FabricGateProofs`.** `GateInv` adds to the types: a place never has more holders
than the limit; a running query's permit has at least as many ticks left as the
query may take (`permits + clock >= PermitTtl`); with no failure so far all
permits are at Redis. With `MaxRun < PermitTtl` a running query is then a holder,
so the runs are at most the holders: `EachPlaceIsLimited`, `FabricIsLimited`.
The step that needs care is the acquisition that Redis applied and memory
answered (`AskStep`), which leaves a holder without a query.

`Matched` adds that, with nothing failed, the holders at Redis are exactly the calls
that run or release: `PermitsAreAccounted`.

**`ResultCacheProofs`.** `HoldsItsLock`: a request that loads with a lock owns it
at the place that gave it, and `left + clock >= LockTtl`: a load of at most
`MaxLoad < LockTtl` never sees its lock expire. This holds under outages, restarts,
crashes and torn acquisitions, and gives `LoadsAreExclusive`. `Calm` is about the
time before the first failure: the lock's owner is at work or has stored its
value, and whoever waits has waited no longer than the load has run, or finds an
entry at its next look. So a waiter never gives up while another loads, which is
what `FlightIsSingle` needs.

**`FreshnessProofs`.** A watermark's lock is shorter than its query may be, so
ownership is only kept while `outlived` is false; the tick that would lose the lock
sets it. `Orderly`: until then everything is at Redis, and who works under the lock
owns it. `QueriesUnderLockAreExclusive` follows. Most steps move one check and
either keep the lock or change only their own (`OneMoves`), or have failed
(`AfterFailure`).

`ForcedInv` follows what a forced check may share: as long as nothing was disturbed, the
mark at Redis is the one that the check saw when it began, or was stored for it
(`SeenOrNew`), and no forced check has an old answer. From it `ForcedChecksAreNew`.

For the widgets, `ReplayInv` is types and `InOrder`: no mark and no fingerprint is ahead
of its source, and what a query reads is not before the fingerprint of its request. So
an entry whose fingerprint is still current was read from what is there now:
`KeptResultsAreCurrent`.
What a request shows is then computed from data of one read per query, and what is left is
a statement about the operators of `MetricRows`, for all tables and questions. Two lemmas
give it its induction: `NumberInduction` and `SetInduction` state a property of a number or
of a finite set as a *set*, the set of those that have it, and follow from the well-founded
order of the naturals, so that no operator has to be instantiated. With them:

- `SortedRows`: `Sorted`, which picks row `i` by the number of rows before it, is a
  sequence of all rows in which each is before the next.
- `LoopStates`: the fold of `Cumulative` goes through one state per row, each made
  by `AddRow` from the one before, as in the loop of the code.
- `Totals`: there is a summing up of every finite set of rows; the order in
  which rows are taken out of it does not matter (`TotalRemove`, from `PlusSwaps`).
- `RunningTotal`: after each row, the loop's sum of a partition is the total of that
  partition's rows so far in the period of the last one. The reset is sound since a period
  that was left does not come again, which is where `PeriodsInOrder` is needed.

Hence `CumulatedRowsAreTotals`: a cumulated row is the sum of its dealer's rows of the period
up to it.
`ReplayShowsTheAnswer` then compares the two computations operator by operator: merging,
filling, ratios and transforms agree on a question that keeps all its numbers depend on
(`KeepsAll`). For one cumulated metric both sides cumulate the same column. For
several, the answer cumulates each before the merge and the widget after it; the running
sums have a number in every row, again by `RunningTotal`, so that merging changes neither
them nor the columns they are made from (`SeveralCumulated`). A first form of
the property, without the condition on equal rows, turned out to be false there (section 3).

**`AgenticTurnProofs`.** `Budget` gives, for each place of a turn, how often the
model can have been asked on the way to it; a retry must leave room for the place
it resumes at, and a report that is selected again was the first. `OnTrack`: past
the check of its route, or of its month, a chosen report answers what was named.
`SaysOnce`: nothing is said before the end. From these `ModelIsAskedFourTimes`,
`ChosenReportFits`, `TurnEndsOnce`; `ProposalFitsDashboard` from `Emit` and the
renderers, each of which checks the room itself.

**`ChatTurnsProofs`.** Ids are drawn one after another, so everything is typed over
the set `minted` of those that exist. `Aims`: what a job works on and proposes fits the
snapshot that its question was sent with, at each stage. `Streams`: a message that
shows itself as being answered belongs to the current question, and an event for
it is still to come, from the job or on the wire. `LateProposalsAreLocal` is about
single steps: only `Apply` makes a pending card applied (`OnlyApplying`).

**`AdminAccountsProofs`.** `Knows`: an update has an object to write, its own or the one
in the cached list, and it keeps it whatever happens to the list (`DetachedKnows`).
Whichever assignments that object carries, what a write stores as the password is
the row's own or the one its request names, and only a creation stores a row where
there was none (`RowsWritten`). From these `PasswordsAreAskedFor` and `DeletionsHold`.

**Only model-checked.** The six liveness properties (`EveryRequestEnds`, `EveryCallEnds`,
`EveryCheckEnds`, `TurnEnds`, `QuestionSettles`, `ListsSettle`), since liveness under
fairness is out of the prover's reach. Every other property of the passing runs is stated
by a theorem.

## 6. Not modelled

Of the page handlers: lists and their order, the 200-row limit and the time stamps of
the deployment history. Of the queries: SQL generation, the access context in the
keys of the cache, aligning of rows to a metric id, roll-up and projection of a
report's rows. Of the pipelines: prompts, tools and the adapters of the language models,
whose answers are any of the right form. Of the browser: rendering, the grid's
packing, the history panel. Of the admin backend: login and tokens, and the masters
(roles, groups, notices, files) that are single statements. Beyond that everything that
`PROJECT.json` marks `not_modelled`: generated or literal data (SQL fragments,
query patterns, the mock API), schema scripts and UI components, which hold no
protocol and have no state that two actors share.

## 7. Plan

Done: the page store with its abstract history and the refinement, the
deployments, the runtime store with cache, gate and watermarks, the editor, the
numbers of metrics and their replay, certified reports and the agentic turn, the
chat panel, the accounts; the proofs of section 5.

Left, in this order:

1. The abstract history in place of the editor's reduced server.
2. `ConnectionPools` of the Fabric client; the sessions of `Authentication` with the
   admin fallback and its cooldown.
3. The operators of the patch and of the grid against reference definitions; the
   projection of reports.

## 8. Running it

In this directory, with TLC and TLAPS installed:

    tlc -workers 2 -config PageStore_two_tabs.cfg MCPageStore
    tlapm PageStoreProofs.tla

The other runs are called the same way, with the module and the configuration
that `PROJECT.json` names. The longest runs take about two minutes.
