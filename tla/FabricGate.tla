----------------------------- MODULE FabricGate ------------------------------
(***************************************************************************)
(* runWithFabricConcurrency of service/backend/fabricConcurrency.js: every *)
(* query of Fabric runs under a permit of a semaphore in the runtime       *)
(* store.  Permits have a TTL that nobody renews, so that one whose        *)
(* release never reached its place comes back by itself; a call that gets  *)
(* none in time is refused.                                                *)
(***************************************************************************)
EXTENDS RuntimeStore

CONSTANTS
    Calls,          \* call slots
    WorkerOf,       \* WorkerOf[c]: the worker that serves slot c
    Limit,          \* DASHBOARD_GLOBAL_MAX_CONCURRENCY, 8 in the code
    PermitTtl,      \* ticks a permit lives, 90 s in the code
    QueueTimeout,   \* ticks a call waits for one, 120 s in the code
    MaxRun          \* ticks a query takes at most: 60 s by the driver's timeout

VARIABLES
    permits,        \* permits[p][c]: ticks left of call c's permit at place p
    call

gvars == <<cooldown, disturbed, permits, call>>

ASSUME GateAssumption ==
    /\ WorkerOf \in [Calls -> Workers]
    /\ Limit \in Nat \ {0} /\ PermitTtl \in Nat \ {0}
    /\ QueueTimeout \in Nat /\ MaxRun \in Nat
    /\ IsFiniteSet(Calls)
(* The driver ends a query (requestTimeout, 60 s) before its permit ends.   *)
ASSUME QueriesEndInTime == MaxRun < PermitTtl

Call == [pc: {"idle", "done", "queue", "run", "release"}, clock: Nat,
         at: Places \cup {None}]
IdleCall == [pc |-> "idle", clock |-> 0, at |-> None]
DoneCall == [IdleCall EXCEPT !.pc = "done"]

(* Types of the permits and of the calls; no clock runs past its limit. *)
GateTypeOK ==
    /\ StoreTypeOK
    /\ permits \in [Places -> [Calls -> 0 .. PermitTtl]]
    /\ call \in [Calls -> Call]
    /\ \A c \in Calls : /\ call[c].pc = "run" => call[c].clock <= MaxRun
                        /\ call[c].pc = "queue" => call[c].clock <= QueueTimeout

Active(c) == call[c].pc \notin {"idle", "done"}
Running == {c \in Calls : call[c].pc = "run"}
RunningAt(p) == {c \in Running : call[c].at = p}
Holders(p) == {c \in Calls : permits[p][c] > 0}

-----------------------------------------------------------------------------
(* A call joins the queue with a token of its own: the slot is used again   *)
(* in a later tick, once its old token is nowhere.                          *)
Join(c) ==
    /\ call[c].pc = "idle"
    /\ \A p \in Places : permits[p][c] = 0
    /\ call' = [call EXCEPT ![c].pc = "queue"]
    /\ UNCHANGED <<cooldown, disturbed, permits>>

(* acquireSemaphore: asked of the places ps, answered by p. *)
HasRoomForOneMore(p) == Cardinality(Holders(p)) <= Limit
HasRoom(p) == Cardinality(Holders(p)) < Limit
AskPermit(c, ps, p) ==
    /\ call[c].pc = "queue"
    /\ permits' = [q \in Places |-> IF q \in ps /\ HasRoom(q)
                                    THEN [permits[q] EXCEPT ![c] = PermitTtl]
                                    ELSE permits[q]]
    /\ call' = IF HasRoom(p)
               THEN [call EXCEPT ![c] = [pc |-> "run", clock |-> 0, at |-> p]] ELSE call

Acquire(c) ==
    /\ HasRoom(At(WorkerOf[c]))
    /\ AskPermit(c, {At(WorkerOf[c])}, At(WorkerOf[c]))
    /\ UNCHANGED <<cooldown, disturbed>>
AcquireTorn(c) ==
    /\ cooldown[WorkerOf[c]] = 0
    /\ AskPermit(c, Torn(WorkerOf[c]), WorkerOf[c])
    /\ Offline(WorkerOf[c])

TimedOutNever(c) == call[c].clock > QueueTimeout
TimedOut(c) == call[c].clock >= QueueTimeout
Refuse(c) ==
    /\ call[c].pc = "queue" /\ TimedOut(c)
    /\ ~HasRoom(At(WorkerOf[c]))
    /\ call' = [call EXCEPT ![c] = DoneCall]
    /\ UNCHANGED <<cooldown, disturbed, permits>>

(* The query ends, in success or in an error: the permit goes back either way. *)
Return(c) ==
    /\ call[c].pc = "run"
    /\ call' = [call EXCEPT ![c].pc = "release", ![c].clock = 0]
    /\ UNCHANGED <<cooldown, disturbed, permits>>

ReturnedNowhere(c) == permits
Returned(c) ==
    [p \in Places |-> IF p \in Mirrored(WorkerOf[c]) THEN [permits[p] EXCEPT ![c] = 0]
                      ELSE permits[p]]
Release(c) ==
    /\ call[c].pc = "release"
    /\ permits' = Returned(c)
    /\ call' = [call EXCEPT ![c] = DoneCall]
    /\ UNCHANGED <<cooldown, disturbed>>

-----------------------------------------------------------------------------
LoseRedis(w) ==
    /\ cooldown[w] = 0
    /\ Offline(w)
    /\ UNCHANGED <<permits, call>>

(* Redis keeps nothing over a restart: what runs under its permits goes on. *)
RedisRestart ==
    /\ \A w \in Workers : cooldown[w] = 0
    /\ permits' = [permits EXCEPT ![Redis] = [c \in Calls |-> 0]]
    /\ cooldown' = [w \in Workers |-> Cooldown]
    /\ disturbed' = TRUE
    /\ call' = [c \in Calls |-> IF call[c].at = Redis THEN [call[c] EXCEPT !.at = None]
                                ELSE call[c]]

WorkerCrash(w) ==
    /\ \E c \in Calls : WorkerOf[c] = w /\ Active(c)
    /\ permits' = [permits EXCEPT ![w] = [c \in Calls |-> 0]]
    /\ cooldown' = [cooldown EXCEPT ![w] = 0]
    /\ disturbed' = TRUE
    /\ call' = [c \in Calls |-> IF WorkerOf[c] = w THEN DoneCall ELSE call[c]]

(* A tick is long against a call of the store and against the poll interval *)
(* of 100 ms, and no query runs longer than the driver lets it.             *)
MayTick(c) ==
    \/ ~Active(c)
    \/ call[c].pc = "run" /\ call[c].clock < MaxRun
    \/ /\ call[c].pc = "queue" /\ ~HasRoom(At(WorkerOf[c]))
       /\ call[c].clock < QueueTimeout
Tick ==
    /\ \A c \in Calls : MayTick(c)
    /\ permits' = [p \in Places |-> [c \in Calls |-> Less(permits[p][c])]]
    /\ call' = [c \in Calls |-> IF Active(c) THEN [call[c] EXCEPT !.clock = @ + 1]
                                ELSE IdleCall]
    /\ CoolDown

Step(c) == Acquire(c) \/ Refuse(c) \/ Return(c) \/ Release(c)
GateInit ==
    /\ StoreInit
    /\ permits = [p \in Places |-> [c \in Calls |-> 0]]
    /\ call = [c \in Calls |-> IdleCall]
GateNext ==
    \/ \E c \in Calls : Join(c) \/ Step(c) \/ AcquireTorn(c)
    \/ \E w \in Workers : LoseRedis(w) \/ WorkerCrash(w)
    \/ RedisRestart
    \/ Tick

(* Queries settle, the store answers, the queue's timer fires, time goes on. *)
(* No failure is ever counted on to happen.                                 *)
GateSpec ==
    /\ GateInit /\ [][GateNext]_gvars
    /\ WF_gvars(Tick) /\ \A c \in Calls : WF_gvars(Step(c))

-----------------------------------------------------------------------------
(* Properties.                                                              *)

(* The comment on runWithFabricConcurrency: all of Fabric's callers together *)
(* stay within the limit.  Redis and each worker's memory are counted apart, *)
(* whatever fails, because a query ends before its permit does.              *)
LimitPerPlace == \A p \in Places : Cardinality(RunningAt(p)) <= Limit

(* With nothing failing, all workers together stay within the limit. *)
GlobalLimit == ~disturbed => Cardinality(Running) <= Limit

(* With nothing failing, the permits are those of the calls that run or are *)
(* giving theirs back: none is leaked to a call that ended or still queues,  *)
(* and none runs out under a query.                                          *)
PermitsMatchCalls ==
    ~disturbed => Holders(Redis) = {c \in Calls : call[c].pc \in {"run", "release"}}

(* Every call runs or is refused in the end. *)
EveryCallEnds == \A c \in Calls : Active(c) ~> ~Active(c)
==============================================================================
