---------------------------- MODULE RuntimeStore ----------------------------
(***************************************************************************)
(* service/backend/cache/runtimeStore.js: the store that the result cache  *)
(* and the Fabric gate keep their entries, locks and permits in.           *)
(*                                                                         *)
(* Every call goes to Redis, which all app workers share, or, while Redis  *)
(* is out of reach for this worker, to the worker's own memory.  A place   *)
(* is one of these stores.  Time passes in ticks: whatever has a TTL keeps *)
(* the ticks it has left, so time itself needs no bound.                   *)
(***************************************************************************)
EXTENDS Integers, FiniteSets

CONSTANTS
    Workers,     \* app worker processes
    Redis,       \* the place they share
    Cooldown,    \* ticks a worker stays away from Redis after an error
    None

VARIABLES
    cooldown,    \* ticks until a worker tries Redis again (redisUnavailableUntil)
    disturbed    \* history: something has failed since the start

Places == Workers \cup {Redis}

ASSUME StoreAssumption ==
    Redis \notin Workers /\ None \notin Places /\ Cooldown \in Nat \ {0}

LessOne(n) == n - 1
Less(n) == IF n = 0 THEN 0 ELSE n - 1

(* withRedis: the place that answers a call of worker w. *)
At(w) == IF cooldown[w] = 0 THEN Redis ELSE w

(* set and releaseLock and releaseSemaphore do in memory what they did in  *)
(* Redis, so an error after Redis applied them changes nothing more than   *)
(* the loss of Redis right after the call does.                            *)
Mirrored(w) == {At(w), w}

(* An acquire that Redis applied but whose answer was lost is made again   *)
(* in memory, and memory decides.                                          *)
Torn(w) == {Redis, w}

Offline(w) == cooldown' = [cooldown EXCEPT ![w] = Cooldown] /\ disturbed' = TRUE

StoreTypeOK == cooldown \in [Workers -> 0 .. Cooldown] /\ disturbed \in BOOLEAN
StoreInit == cooldown = [w \in Workers |-> 0] /\ disturbed = FALSE
CoolDown == cooldown' = [w \in Workers |-> Less(cooldown[w])] /\ UNCHANGED disturbed
=============================================================================
