------------------------------ MODULE Freshness ------------------------------
(***************************************************************************)
(* The watermark of one source in dashboardDataFreshness.js: the latest    *)
(* ETL_TIMESTAMP of a table, asked of Fabric, kept in the runtime store    *)
(* and part of the key under which results are cached.                     *)
(*                                                                         *)
(* A check is split at its awaits.  Unlike a load of the result cache, a   *)
(* query may outlive its lock: the lock lives 30 s, a query may queue for   *)
(* 120 s and run for 60 s (fabricConcurrency.js, fabricClient.js).  Stamps *)
(* are the values of checkedAt that are still held somewhere; a new one is *)
(* always different from those.                                            *)
(***************************************************************************)
EXTENDS RuntimeStore

CONSTANTS
    Checks,      \* slots for calls of loadWatermark
    WorkerOf,    \* WorkerOf[r]: the worker that serves slot r
    Stamps,      \* numbers that tell entries apart, more than are held at a time
    EntryTtl,    \* watermarkTtlSeconds, 1 h in the code
    LockTtl,     \* DATA_SOURCE_WATERMARK_LOCK_TTL_SECONDS, 30 s in the code
    MaxQuery     \* ticks a query takes at most

VARIABLES
    marks,       \* the entry at each place
    locks,       \* the lock of the source at each place
    check,       \* what each check is doing
    outlived     \* history: a query ran on after its lock had expired

fvars == <<cooldown, disturbed, marks, locks, check, outlived>>

ASSUME FreshAssumption ==
    /\ WorkerOf \in [Checks -> Workers]
    /\ EntryTtl \in Nat \ {0} /\ LockTtl \in Nat \ {0} /\ MaxQuery \in Nat
    /\ Stamps \subseteq Nat /\ None \notin Stamps

Mark == [stamp: Stamps, left: 1 .. EntryTtl, for: SUBSET Checks]
Lock == [owner: Checks, left: 1 .. LockTtl]
ASSUME NoneIsNoLock == None \notin Lock
Check == [pc: {"idle", "get", "acquire", "reread", "query", "release", "wait", "done"},
          force: BOOLEAN, prior: Stamps \cup {None}, clock: Nat, locked: BOOLEAN,
          got: {"nothing", "old", "new"}]
IdleCheck == [pc |-> "idle", force |-> FALSE, prior |-> None, clock |-> 0,
              locked |-> FALSE, got |-> "nothing"]

(* Types of the entries, of the locks and of the checks' progress.          *)
FreshTypeOK ==
    /\ StoreTypeOK
    /\ marks \in [Places -> Mark \cup {None}] /\ locks \in [Places -> Lock \cup {None}]
    /\ check \in [Checks -> Check] /\ outlived \in BOOLEAN

Seen(r) == marks[At(WorkerOf[r])]
StampOf(m) == IF m = None THEN None ELSE m.stamp
Active(r) == check[r].pc \notin {"idle", "done"}
Querying == {r \in Checks : check[r].pc = "query"}

(* A mark is for those that were there when it was stored (a ghost): what   *)
(* they get is new, what anybody else gets is what was known before.        *)
Reply(r, m) == [IdleCheck EXCEPT !.pc = "done", !.force = check[r].force,
                                 !.got = IF r \in m.for THEN "new" ELSE "old"]
Unavailable(r) == [IdleCheck EXCEPT !.pc = "done", !.force = check[r].force]
Releasing(r, reply) == [reply EXCEPT !.pc = "release", !.locked = check[r].locked]

-----------------------------------------------------------------------------
(* A slot is used again once no lock and no mark bears its name.            *)
Ask(r, force) ==
    /\ check[r].pc = "idle"
    /\ \A p \in Places : (locks[p] # None => locks[p].owner # r)
                         /\ (marks[p] # None => r \notin marks[p].for)
    /\ check' = [check EXCEPT ![r] = [IdleCheck EXCEPT !.pc = "get", !.force = force]]
    /\ UNCHANGED <<cooldown, disturbed, marks, locks, outlived>>

(* const initial = parseWatermarkEntry(await store.get(cacheKey))           *)
Get(r) ==
    /\ check[r].pc = "get"
    /\ check' = [check EXCEPT ![r] =
           IF Seen(r) # None /\ ~check[r].force THEN Reply(r, Seen(r))
           ELSE [check[r] EXCEPT !.pc = "acquire", !.prior = StampOf(Seen(r))]]
    /\ UNCHANGED <<cooldown, disturbed, marks, locks, outlived>>

TakeAlways(r, ps) ==
    [p \in Places |-> IF p \in ps THEN [owner |-> r, left |-> LockTtl] ELSE locks[p]]
Take(r, ps) ==
    [p \in Places |-> IF p \in ps /\ locks[p] = None
                      THEN [owner |-> r, left |-> LockTtl] ELSE locks[p]]
AskLock(r, ps, p) ==
    /\ check[r].pc = "acquire"
    /\ locks' = Take(r, ps)
    /\ check' = [check EXCEPT ![r] =
           IF locks'[p] # locks[p] THEN [@ EXCEPT !.pc = "reread", !.locked = TRUE]
           ELSE [@ EXCEPT !.pc = "wait", !.clock = 0]]
    /\ UNCHANGED <<marks, outlived>>
Acquire(r) ==
    AskLock(r, {At(WorkerOf[r])}, At(WorkerOf[r])) /\ UNCHANGED <<cooldown, disturbed>>
AcquireTorn(r) ==
    /\ cooldown[WorkerOf[r]] = 0
    /\ AskLock(r, Torn(WorkerOf[r]), WorkerOf[r]) /\ Offline(WorkerOf[r])

(* An entry that came while the lock was asked for is shared, by a forced   *)
(* check only when it is another one than before.                           *)
SharesUnforced(r, m) == m # None
Shares(r, m) == m # None /\ (~check[r].force \/ m.stamp # check[r].prior)
Query(r) == [check[r] EXCEPT !.pc = "query", !.clock = 0, !.prior = None]
Reread(r) ==
    /\ check[r].pc = "reread"
    /\ check' = [check EXCEPT ![r] =
           IF Shares(r, Seen(r)) THEN Releasing(r, Reply(r, Seen(r))) ELSE Query(r)]
    /\ UNCHANGED <<cooldown, disturbed, marks, locks, outlived>>

(* A check without the lock polls for an entry other than the one it saw,   *)
(* for as long as a lock lives, and then asks Fabric itself.                *)
Differs(r, m) == m # None /\ m.stamp # check[r].prior
Poll(r) ==
    /\ check[r].pc = "wait" /\ Differs(r, Seen(r))
    /\ check' = [check EXCEPT ![r] = Reply(r, Seen(r))]
    /\ UNCHANGED <<cooldown, disturbed, marks, locks, outlived>>
WaitedNever(r) == check[r].clock > LockTtl
Waited(r) == check[r].clock >= LockTtl
GiveUp(r) ==
    /\ check[r].pc = "wait" /\ Waited(r)
    /\ check' = [check EXCEPT ![r] = Query(r)]
    /\ UNCHANGED <<cooldown, disturbed, marks, locks, outlived>>

(* The answer of Fabric is stored, here and in memory; an error makes the   *)
(* source 'unavailable' and is not stored.  Only a lock is released.        *)
Held ==
    {StampOf(marks[p]) : p \in Places} \cup {check[r].prior : r \in Checks}
NewStamp == CHOOSE s \in Stamps \ Held : \A t \in Stamps \ Held : s <= t
Ended(r, reply) == IF check[r].locked THEN Releasing(r, reply) ELSE reply
Store(r) ==
    /\ check[r].pc = "query"
    /\ Stamps \ Held # {}
    /\ LET m == [stamp |-> NewStamp, left |-> EntryTtl, for |-> {q \in Checks : Active(q)}]
       IN /\ marks' = [p \in Places |-> IF p \in Mirrored(WorkerOf[r]) THEN m ELSE marks[p]]
          /\ check' = [check EXCEPT ![r] = Ended(r, Reply(r, m))]
    /\ UNCHANGED <<cooldown, disturbed, locks, outlived>>
QueryFails(r) ==
    /\ check[r].pc = "query"
    /\ check' = [check EXCEPT ![r] = Ended(r, Unavailable(r))]
    /\ disturbed' = TRUE
    /\ UNCHANGED <<cooldown, marks, locks, outlived>>
Released(r) ==
    [p \in Places |-> IF p \in Mirrored(WorkerOf[r]) /\ locks[p] # None /\ locks[p].owner = r
                      THEN None ELSE locks[p]]
Release(r) ==
    /\ check[r].pc = "release"
    /\ locks' = Released(r)
    /\ check' = [check EXCEPT ![r] = [@ EXCEPT !.pc = "done", !.locked = FALSE]]
    /\ UNCHANGED <<cooldown, disturbed, marks, outlived>>

-----------------------------------------------------------------------------
(* Around the checks: the store fails over, forgets and restarts, workers   *)
(* die, time passes.                                                        *)

LoseRedis(w) ==
    /\ cooldown[w] = 0 /\ Offline(w)
    /\ UNCHANGED <<marks, locks, check, outlived>>
RedisRestart ==
    /\ \A w \in Workers : cooldown[w] = 0
    /\ marks' = [marks EXCEPT ![Redis] = None] /\ locks' = [locks EXCEPT ![Redis] = None]
    /\ cooldown' = [w \in Workers |-> Cooldown] /\ disturbed' = TRUE
    /\ UNCHANGED <<check, outlived>>
WorkerCrash(w) ==
    /\ \E r \in Checks : WorkerOf[r] = w /\ Active(r)
    /\ marks' = [marks EXCEPT ![w] = None] /\ locks' = [locks EXCEPT ![w] = None]
    /\ cooldown' = [cooldown EXCEPT ![w] = 0] /\ disturbed' = TRUE
    /\ check' = [r \in Checks |-> IF WorkerOf[r] = w
                                  THEN [IdleCheck EXCEPT !.pc = "done"] ELSE check[r]]
    /\ UNCHANGED outlived
Trim(w) ==
    /\ marks[w] # None /\ marks' = [marks EXCEPT ![w] = None]
    /\ UNCHANGED <<cooldown, disturbed, locks, check, outlived>>

Older(x) == IF x = None \/ x.left = 1 THEN None ELSE [x EXCEPT !.left = @ - 1]
MayTick(r) ==
    \/ ~Active(r)
    \/ check[r].pc = "query" /\ check[r].clock < MaxQuery
    \/ check[r].pc = "wait" /\ ~Differs(r, Seen(r)) /\ check[r].clock < LockTtl
LosesLock(r) ==
    /\ check[r].pc = "query" /\ check[r].locked
    /\ \A p \in Places : locks[p] # None /\ locks[p].owner = r => locks[p].left = 1
Tick ==
    /\ \A r \in Checks : MayTick(r)
    /\ marks' = [p \in Places |-> IF Older(marks[p]) = None THEN None
                                  ELSE [Older(marks[p]) EXCEPT !.for = {r \in @ : Active(r)}]]
    /\ locks' = [p \in Places |-> Older(locks[p])]
    /\ check' = [r \in Checks |-> IF Active(r) THEN [check[r] EXCEPT !.clock = @ + 1]
                                  ELSE IdleCheck]
    /\ outlived' = (outlived \/ \E r \in Checks : LosesLock(r))
    /\ CoolDown

Step(r) ==
    \/ Get(r) \/ Acquire(r) \/ Reread(r) \/ Poll(r) \/ GiveUp(r) \/ Store(r) \/ Release(r)
FreshInit ==
    /\ StoreInit
    /\ marks = [p \in Places |-> None] /\ locks = [p \in Places |-> None]
    /\ check = [r \in Checks |-> IdleCheck] /\ outlived = FALSE
FreshNext ==
    \/ \E r \in Checks : Step(r) \/ AcquireTorn(r) \/ QueryFails(r)
                         \/ \E force \in BOOLEAN : Ask(r, force)
    \/ \E w \in Workers : LoseRedis(w) \/ WorkerCrash(w) \/ Trim(w)
    \/ RedisRestart
    \/ Tick

(* As for the result cache: awaits settle and time goes on.                 *)
FreshSpec ==
    /\ FreshInit /\ [][FreshNext]_fvars
    /\ WF_fvars(Tick) /\ \A r \in Checks : WF_fvars(Step(r))

-----------------------------------------------------------------------------
(* Properties.                                                              *)

(* The widgets of a page that share a source ask Fabric for its watermark   *)
(* once (comment at dashboardDataFreshness.js:143-145), even when nothing   *)
(* failed and no query was slower than its lock.  The code does not keep it: *)
(* a forced check that reads an entry just stored, and meets the lock not   *)
(* yet released, waits for an entry that nobody is going to store, and then *)
(* asks without the lock.                                                   *)
OneCheckAtATime == ~disturbed /\ ~outlived => Cardinality(Querying) <= 1

(* What the lock does give: one query under it at a time, and a second one  *)
(* next to it only for a check that has waited for as long as a lock lives. *)
OneCheckPerLock ==
    ~disturbed /\ ~outlived => Cardinality({r \in Querying : check[r].locked}) <= 1

(* A forced check never answers with what was known before the user asked,  *)
(* although it shares the query of another: what it gets was stored after.  *)
(* Only a store that failed over may bring an older entry back.             *)
ForcedCheckIsNew ==
    ~disturbed => \A r \in Checks : check[r].force => check[r].got # "old"

(* A dead owner of the lock, a slow query or a failing store never stop a   *)
(* dashboard: every check ends.                                             *)
EveryCheckEnds == \A r \in Checks : Active(r) ~> ~Active(r)
==============================================================================
