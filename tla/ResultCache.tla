----------------------------- MODULE ResultCache -----------------------------
(***************************************************************************)
(* One key of service/backend/dashboardResultCache.js: entries with a soft *)
(* and a hard TTL, a lock that merges concurrent loads, waiters that poll, *)
(* and the last resort of a load without a lock.                           *)
(*                                                                         *)
(* A request is split at its awaits.  Calls of the store take no time on   *)
(* the scale of a tick; a load takes up to MaxLoad ticks.  What a value is *)
(* has no part here; a refresh cares whether its load ended after or before *)
(* the user asked.                                                         *)
(***************************************************************************)
EXTENDS RuntimeStore

CONSTANTS
    Requests,    \* request slots
    WorkerOf,    \* WorkerOf[r]: the worker that serves slot r
    SoftTtl, HardTtl, LockTtl, MaxLoad,
    Watched      \* slots whose forced refreshes are told from older loads

VARIABLES
    entries,     \* the entry of the key at each place
    locks,       \* the lock of the key at each place
    req          \* what each request is doing

cvars == <<cooldown, disturbed, entries, locks, req>>

ASSUME CacheAssumption ==
    /\ WorkerOf \in [Requests -> Workers]
    /\ SoftTtl \in Nat \ {0} /\ HardTtl \in Nat /\ HardTtl > SoftTtl
    /\ LockTtl \in Nat /\ LockTtl >= HardTtl
    /\ MaxLoad \in Nat /\ MaxLoad < LockTtl
    /\ Watched \subseteq Requests

Entry == [left: 1 .. HardTtl, new: SUBSET Watched]
Lock == [owner: Requests, left: 1 .. LockTtl]
Request == [pc: {"idle", "done", "lookup", "acquire", "reread", "load", "release", "wait"},
            force: BOOLEAN, attempt: 1 .. 3, clock: 0 .. LockTtl,
            at: Places \cup {None}, old: BOOLEAN]
ASSUME NoneIsNoData == None \notin Entry /\ None \notin Lock

IdleRequest == [pc |-> "idle", force |-> FALSE, attempt |-> 1, clock |-> 0,
                at |-> None, old |-> FALSE]

(* Types of the entries, of the locks and of the requests' progress. *)
CacheTypeOK ==
    /\ StoreTypeOK
    /\ entries \in [Places -> Entry \cup {None}]
    /\ locks \in [Places -> Lock \cup {None}]
    /\ req \in [Requests -> Request]

Visible(r) == entries[At(WorkerOf[r])]
Fresh(e) == e # None /\ e.left > HardTtl - SoftTtl
Active(r) == req[r].pc \notin {"idle", "done"}
Loading == {r \in Requests : req[r].pc = "load"}

(* Two ghosts.  e.new: the watched requests that were there to force a      *)
(* refresh when e was stored.  old: a request that forced got another entry. *)
Finished(old) == [IdleRequest EXCEPT !.pc = "done", !.old = old]
Releasing(r) == [IdleRequest EXCEPT !.pc = "release", !.at = req[r].at]

-----------------------------------------------------------------------------
(* execute.  A slot is used again in a later tick, once no lock bears its   *)
(* old token: each tick has room for finitely many requests.                *)
Arrive(r, force) ==
    /\ req[r].pc = "idle"
    /\ \A p \in Places : locks[p] # None => locks[p].owner # r
    /\ req' = [req EXCEPT ![r] = [IdleRequest EXCEPT !.force = force,
                                   !.pc = IF force THEN "acquire" ELSE "lookup"]]
    /\ UNCHANGED <<cooldown, disturbed, entries, locks>>

(* A fresh entry is the reply.  A stale one is the reply too, but the slot   *)
(* goes on: its refresh in the background is that of a miss.                *)
Lookup(r) ==
    /\ req[r].pc = "lookup"
    /\ \/ /\ Fresh(Visible(r))
          /\ req' = [req EXCEPT ![r] = Finished(FALSE)]
       \/ /\ ~Fresh(Visible(r))
          /\ req' = [req EXCEPT ![r].pc = "acquire"]
    /\ UNCHANGED <<cooldown, disturbed, entries, locks>>

(* acquireLock: asked of the places ps, answered by p.  The attempts are     *)
(* counted for those who are refused.                                       *)
TakeAlways(r, ps) ==
    [p \in Places |-> IF p \in ps THEN [owner |-> r, left |-> LockTtl] ELSE locks[p]]
Take(r, ps) ==
    [p \in Places |-> IF p \in ps /\ locks[p] = None
                      THEN [owner |-> r, left |-> LockTtl] ELSE locks[p]]
AskLock(r, ps, p) ==
    /\ req[r].pc = "acquire"
    /\ locks' = Take(r, ps)
    /\ \/ /\ locks'[p] # locks[p]
          /\ req' = [req EXCEPT ![r].pc = "reread", ![r].at = p, ![r].attempt = 1]
       \/ /\ locks'[p] = locks[p]
          /\ req' = [req EXCEPT ![r].pc = "wait", ![r].clock = 0]
    /\ UNCHANGED entries
Acquire(r) ==
    /\ AskLock(r, {At(WorkerOf[r])}, At(WorkerOf[r]))
    /\ UNCHANGED <<cooldown, disturbed>>
AcquireTorn(r) ==
    /\ cooldown[WorkerOf[r]] = 0
    /\ AskLock(r, Torn(WorkerOf[r]), WorkerOf[r])
    /\ Offline(WorkerOf[r])

Load(r, attempt) ==
    [req[r] EXCEPT !.pc = "load", !.clock = 0, !.attempt = attempt]

(* The second look under the lock: a load that was awaited may be done.     *)
SpareLoad(r) == ~req[r].force /\ Fresh(Visible(r))
Reread(r) ==
    /\ req[r].pc = "reread"
    /\ \/ /\ SpareLoad(r)
          /\ req' = [req EXCEPT ![r] = Releasing(r)]
       \/ /\ ~SpareLoad(r)
          /\ req' = [req EXCEPT ![r] = Load(r, req[r].attempt)]
    /\ UNCHANGED <<cooldown, disturbed, entries, locks>>

(* A load under the lock releases it however it ends; one made as the last  *)
(* resort (attempt 3) has no lock to release.                               *)
AfterLoad(r) == IF req[r].attempt = 3 THEN Finished(FALSE) ELSE Releasing(r)
Store(r) ==
    /\ req[r].pc = "load"
    /\ entries' = [p \in Places |->
                     IF p \in Mirrored(WorkerOf[r])
                     THEN [left |-> HardTtl,
                           new |-> {q \in Watched : req[q].force /\ Active(q)}]
                     ELSE entries[p]]
    /\ req' = [req EXCEPT ![r] = AfterLoad(r)]
    /\ UNCHANGED <<cooldown, disturbed, locks>>
LoadFails(r) ==
    /\ req[r].pc = "load"
    /\ req' = [req EXCEPT ![r] = AfterLoad(r)]
    /\ disturbed' = TRUE
    /\ UNCHANGED <<cooldown, entries, locks>>

(* releaseLock deletes the lock only under its own token.                   *)
ReleasedAny(r) ==
    [p \in Places |-> IF p \in Mirrored(WorkerOf[r]) THEN None ELSE locks[p]]
Released(r) ==
    [p \in Places |-> IF p \in Mirrored(WorkerOf[r]) /\ locks[p] # None /\ locks[p].owner = r
                      THEN None ELSE locks[p]]
Release(r) ==
    /\ req[r].pc = "release"
    /\ locks' = Released(r)
    /\ req' = [req EXCEPT ![r] = Finished(FALSE)]
    /\ UNCHANGED <<cooldown, disturbed, entries>>

(* waitForEntry takes any entry there is; out of time, a request asks for   *)
(* the lock once more and then loads without it.                            *)
Poll(r) ==
    /\ req[r].pc = "wait" /\ Visible(r) # None
    /\ req' = [req EXCEPT ![r] = Finished(req[r].force /\ r \in Watched \ Visible(r).new)]
    /\ UNCHANGED <<cooldown, disturbed, entries, locks>>
WaitedNever(r) == req[r].clock > LockTtl
Waited(r) == req[r].clock >= LockTtl
GiveUp(r) ==
    /\ req[r].pc = "wait" /\ Waited(r)
    /\ req' = [req EXCEPT ![r] =
                 IF req[r].attempt = 1 THEN [req[r] EXCEPT !.pc = "acquire", !.attempt = 2, !.clock = 0]
                 ELSE Load(r, 3)]
    /\ UNCHANGED <<cooldown, disturbed, entries, locks>>

-----------------------------------------------------------------------------
(* What happens around the requests.                                        *)

LoseRedis(w) ==
    /\ cooldown[w] = 0
    /\ Offline(w)
    /\ UNCHANGED <<entries, locks, req>>

(* Redis keeps nothing over a restart, and every worker loses it.  A holder *)
(* of its lock works on without one.                                        *)
RedisRestart ==
    /\ \A w \in Workers : cooldown[w] = 0
    /\ entries' = [entries EXCEPT ![Redis] = None]
    /\ locks' = [locks EXCEPT ![Redis] = None]
    /\ cooldown' = [w \in Workers |-> Cooldown]
    /\ disturbed' = TRUE
    /\ req' = [r \in Requests |-> IF req[r].at = Redis THEN [req[r] EXCEPT !.at = None]
                                  ELSE req[r]]

(* A worker dies with its memory and its requests; what it has in Redis,    *)
(* its locks included, stays.                                               *)
WorkerCrash(w) ==
    /\ \E r \in Requests : WorkerOf[r] = w /\ Active(r)
    /\ entries' = [entries EXCEPT ![w] = None]
    /\ locks' = [locks EXCEPT ![w] = None]
    /\ cooldown' = [cooldown EXCEPT ![w] = 0]
    /\ disturbed' = TRUE
    /\ req' = [r \in Requests |-> IF WorkerOf[r] = w
                                  THEN Finished(FALSE) ELSE req[r]]

(* Other keys push this one out of a worker's bounded memory.               *)
Trim(w) ==
    /\ entries[w] # None
    /\ entries' = [entries EXCEPT ![w] = None]
    /\ UNCHANGED <<cooldown, disturbed, locks, req>>

(* A tick is long against a call of the store and against the poll interval *)
(* of 100 ms: no request is between two calls, no waiter has an entry to    *)
(* see or its time up, and no load is over its limit.                       *)
OlderByOne(x) == IF x = None \/ x.left = 0 THEN None ELSE [x EXCEPT !.left = @ - 1]
Older(x) == IF x = None \/ x.left = 1 THEN None ELSE [x EXCEPT !.left = @ - 1]
MayTick(r) ==
    \/ ~Active(r)
    \/ req[r].pc = "load" /\ req[r].clock < MaxLoad
    \/ req[r].pc = "wait" /\ Visible(r) = None /\ req[r].clock < LockTtl
Tick ==
    /\ \A r \in Requests : MayTick(r)
    /\ entries' = [p \in Places |-> IF Older(entries[p]) = None THEN None
                                    ELSE [Older(entries[p]) EXCEPT
                                            !.new = {r \in @ : Active(r)}]]
    /\ locks' = [p \in Places |-> Older(locks[p])]
    /\ req' = [r \in Requests |-> IF Active(r) THEN [req[r] EXCEPT !.clock = @ + 1]
                                  ELSE IdleRequest]
    /\ CoolDown

Step(r) ==
    \/ Lookup(r) \/ Acquire(r) \/ Reread(r) \/ Store(r)
    \/ Release(r) \/ Poll(r) \/ GiveUp(r)
Fail(r) == AcquireTorn(r) \/ LoadFails(r)
CacheInit ==
    /\ StoreInit
    /\ entries = [p \in Places |-> None] /\ locks = [p \in Places |-> None]
    /\ req = [r \in Requests |-> IdleRequest]
CacheNext ==
    \/ \E r \in Requests : Step(r) \/ Fail(r) \/ \E force \in BOOLEAN : Arrive(r, force)
    \/ \E w \in Workers : LoseRedis(w) \/ WorkerCrash(w) \/ Trim(w)
    \/ RedisRestart
    \/ Tick

(* Every await settles and time goes on, whatever else happens meanwhile:   *)
(* a driver's call has its own timeout, and the poll loop a timer.  No       *)
(* failure is ever counted on to happen.                                    *)
CacheSpec ==
    /\ CacheInit /\ [][CacheNext]_cvars
    /\ WF_cvars(Tick) /\ \A r \in Requests : WF_cvars(Step(r))

-----------------------------------------------------------------------------
(* Properties.                                                              *)

(* However often Redis comes and goes: at most one load runs under the lock *)
(* of each place, since only its owner can take a lock away.                *)
OneLoadPerLock ==
    \A r, q \in Loading : r # q /\ req[r].at # None => req[r].at # req[q].at

(* Requests for the same key at the same time use one execution of the     *)
(* loader (dashboardResultCache.test.js, the cache policy's section on the *)
(* lock), as long as no load failed and neither Redis nor a worker did.     *)
SingleFlight == ~disturbed => Cardinality(Loading) <= 1

(* Nobody waits for ever: not for the owner of a lock that failed, crashed *)
(* or was cut off from the store with the lock in it.                       *)
EveryRequestEnds == \A r \in Requests : Active(r) ~> ~Active(r)

(* docs/dashboard-cache-policy.ko.md:31: a manual refresh waits for a new   *)
(* value, one whose load ended after the user asked.                        *)
RefreshIsNew == \A r \in Requests : ~req[r].old
==============================================================================
