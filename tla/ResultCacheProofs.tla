-------------------------- MODULE ResultCacheProofs --------------------------
(***************************************************************************)
(* Proofs about ResultCache for any number of workers and requests: one    *)
(* load under each lock whatever fails, and one load in all while nothing  *)
(* has failed.                                                             *)
(***************************************************************************)
EXTENDS ResultCache, FiniteSetTheorems, TLAPS

(* What is known of request r in state q, with the locks lk: a load owns    *)
(* the lock it was given, and has less time left than the lock.             *)
Keeps(r, q, lk) ==
    /\ q.pc \notin {"reread", "load", "release"} => q.at = None
    /\ q.at \in {None, Redis, WorkerOf[r]}
    /\ q.pc \in {"lookup", "acquire", "reread"} => q.clock = 0
    /\ q.pc = "load" => q.clock <= MaxLoad
    /\ q.pc \in {"reread", "load"} /\ q.at # None =>
          /\ q.attempt = 1
          /\ lk[q.at] # None /\ lk[q.at].owner = r
          /\ lk[q.at].left + q.clock >= LockTtl

HoldsItsLock == \A r \in Requests : Keeps(r, req[r], locks)

(* While nothing has failed everything is at Redis, the lock's owner is at *)
(* work or has stored its value, and whoever waits waits for an owner that *)
(* has been loading for as long, or has an entry to see.                   *)
Owner == locks[Redis].owner
Busy == locks[Redis] # None /\ req[Owner].pc \in {"reread", "load"}
Calm ==
    ~disturbed =>
        /\ \A w \in Workers : cooldown[w] = 0
        /\ \A r \in Requests :
              req[r].pc \in {"reread", "load", "release"} => req[r].at = Redis
        /\ locks[Redis] # None => Busy \/ (req[Owner].pc = "release" /\ entries[Redis] # None)
        /\ \A r \in Requests : req[r].pc = "wait" =>
              /\ req[r].clock <= MaxLoad
              /\ entries[Redis] # None \/ (Busy /\ req[r].clock <= req[Owner].clock)

CacheInv == CacheTypeOK /\ HoldsItsLock /\ Calm

(* Numbers and places, as the proofs need them. *)
LEMMA CacheConstants ==
    /\ SoftTtl \in Nat /\ HardTtl \in Nat /\ LockTtl \in Nat /\ MaxLoad \in Nat /\ Cooldown \in Nat
    /\ HardTtl >= 1 /\ LockTtl >= 1 /\ MaxLoad < LockTtl
    /\ \A r \in Requests : WorkerOf[r] \in Workers
    /\ \A w \in Workers : w \in Places /\ w # Redis /\ w # None
    /\ Redis \in Places /\ Redis # None
  BY CacheAssumption, StoreAssumption DEF Places

(* The sets that a request's fields are from, under names: the provers do   *)
(* better on a set they need not look into.                                *)
Pcs == {"idle", "done", "lookup", "acquire", "reread", "load", "release", "wait"}
Attempts == 1 .. 3
Clocks == 0 .. LockTtl
Ats == Places \cup {None}
Shape == [pc: Pcs, force: BOOLEAN, attempt: Attempts, clock: Clocks, at: Ats, old: BOOLEAN]

LEMMA RequestShape ==
    /\ Request = Shape
    /\ {"idle", "done", "lookup", "acquire", "reread", "load", "release", "wait"} = Pcs
    /\ "idle" \in Pcs /\ "done" \in Pcs /\ "lookup" \in Pcs /\ "acquire" \in Pcs
    /\ "reread" \in Pcs /\ "load" \in Pcs /\ "release" \in Pcs /\ "wait" \in Pcs
    /\ 1 \in Attempts /\ 2 \in Attempts /\ 3 \in Attempts /\ 0 \in Clocks
    /\ None \in Ats /\ \A p \in Places : p \in Ats
    /\ \A c \in Clocks : c \in Nat /\ (c < LockTtl => c + 1 \in Clocks)
    /\ \A p \in Ats : p # None => p \in Places
<1>1. \A c \in Clocks : c \in Nat /\ (c < LockTtl => c + 1 \in Clocks)
  BY CacheConstants DEF Clocks
<1>2. 1 \in Attempts /\ 2 \in Attempts /\ 3 \in Attempts /\ 0 \in Clocks
  BY CacheConstants DEF Attempts, Clocks
<1>3. /\ None \in Ats /\ \A p \in Places : p \in Ats
      /\ \A p \in Ats : p # None => p \in Places
  BY DEF Ats
<1>4. Request = Shape
  BY DEF Request, Shape, Pcs, Attempts, Clocks, Ats
<1>5. QED BY <1>1, <1>2, <1>3, <1>4 DEF Pcs

(* What the steps make of a request. *)
LEMMA RequestMoves ==
    ASSUME NEW q \in Request
    PROVE  /\ \A p \in Places :
                 [q EXCEPT !.pc = "reread", !.at = p, !.attempt = 1] \in Request
           /\ [q EXCEPT !.pc = "wait", !.clock = 0] \in Request
           /\ [q EXCEPT !.pc = "acquire"] \in Request
           /\ [q EXCEPT !.pc = "acquire", !.attempt = 2, !.clock = 0] \in Request
           /\ \A a \in {q.attempt, 3} :
                 [q EXCEPT !.pc = "load", !.clock = 0, !.attempt = a] \in Request
           /\ [q EXCEPT !.at = None] \in Request
           /\ q.clock < LockTtl => [q EXCEPT !.clock = @ + 1] \in Request
           /\ \A at \in Ats : [q EXCEPT !.pc = "release", !.at = at] \in Request
           /\ \A old \in BOOLEAN : [q EXCEPT !.pc = "done", !.old = old] \in Request
           /\ \A force \in BOOLEAN, pc \in Pcs :
                 [q EXCEPT !.force = force, !.pc = pc] \in Request
<1>1. q \in Shape
  BY RequestShape
<1>2. q.attempt \in Attempts /\ q.clock \in Clocks
  BY <1>1 DEF Shape
<1>3. \A p \in Places : [q EXCEPT !.pc = "reread", !.at = p, !.attempt = 1] \in Shape
  BY <1>1, RequestShape DEF Shape
<1>4. [q EXCEPT !.pc = "wait", !.clock = 0] \in Shape
  BY <1>1, RequestShape DEF Shape
<1>5. [q EXCEPT !.pc = "acquire"] \in Shape
  BY <1>1, RequestShape DEF Shape
<1>6. [q EXCEPT !.pc = "acquire", !.attempt = 2, !.clock = 0] \in Shape
  BY <1>1, RequestShape DEF Shape
<1>7. \A a \in {q.attempt, 3} : [q EXCEPT !.pc = "load", !.clock = 0, !.attempt = a] \in Shape
  BY <1>1, <1>2, RequestShape DEF Shape
<1>8. [q EXCEPT !.at = None] \in Shape
  BY <1>1, RequestShape DEF Shape
<1>9. q.clock < LockTtl => [q EXCEPT !.clock = @ + 1] \in Shape
  <2>1. q.clock < LockTtl => q.clock + 1 \in Clocks
    BY <1>2, RequestShape
  <2>2. \A c \in Clocks : [q EXCEPT !.clock = c] \in Shape
    BY <1>1 DEF Shape
  <2>3. QED BY <2>1, <2>2
<1>10. \A at \in Ats : [q EXCEPT !.pc = "release", !.at = at] \in Shape
  BY <1>1, RequestShape DEF Shape
<1>11. \A old \in BOOLEAN : [q EXCEPT !.pc = "done", !.old = old] \in Shape
  BY <1>1, RequestShape DEF Shape
<1>12. \A force \in BOOLEAN, pc \in Pcs : [q EXCEPT !.force = force, !.pc = pc] \in Shape
  BY <1>1, RequestShape DEF Shape
<1>13. Request = Shape
  BY RequestShape
<1>14. QED BY <1>3, <1>4, <1>5, <1>6, <1>7, <1>8, <1>9, <1>10, <1>11, <1>12, <1>13

(* Records of requests that are not at work. *)
LEMMA RestingRequests ==
    /\ IdleRequest \in Request /\ IdleRequest.pc = "idle" /\ IdleRequest.at = None
    /\ IdleRequest.clock = 0
    /\ \A old \in BOOLEAN : /\ Finished(old) \in Request
                            /\ Finished(old).pc = "done" /\ Finished(old).at = None
<1>1. IdleRequest \in Shape
  BY RequestShape DEF IdleRequest, Shape
<1>2. IdleRequest \in Request
  BY <1>1, RequestShape
<1>3. \A old \in BOOLEAN : Finished(old) \in Request
  BY <1>2, RequestMoves DEF Finished
<1>4. QED BY <1>2, <1>3 DEF IdleRequest, Finished

(* A request that lets its lock go. *)
LEMMA ReleasingRequest ==
    ASSUME NEW r \in Requests, req[r] \in Request
    PROVE  /\ Releasing(r) \in Request
           /\ Releasing(r).pc = "release" /\ Releasing(r).at = req[r].at
<1>1. req[r].at \in Ats
  BY RequestShape DEF Shape
<1>2. Releasing(r) \in Request
  BY <1>1, RestingRequests, RequestMoves DEF Releasing
<1>3. QED BY <1>2 DEF Releasing, IdleRequest

(* A call of the store goes to Redis or to the worker's own memory. *)
LEMMA AtIsAPlace == \A w \in Workers : At(w) \in {Redis, w} /\ w \in Mirrored(w)
  BY DEF At, Mirrored

(* The invariant holds to begin with. *)
LEMMA CacheInvInit == CacheInit => CacheInv
<1> SUFFICES ASSUME CacheInit PROVE CacheInv
  OBVIOUS
<1> USE CacheConstants
<1>1. CacheTypeOK
  <2>1. StoreTypeOK
    <3>1. 0 \in 0 .. Cooldown
      BY CacheConstants
    <3>2. QED BY <3>1, Zenon DEF CacheInit, StoreInit, StoreTypeOK
  <2>2. QED BY <2>1, RestingRequests DEF CacheInit, CacheTypeOK
<1>2. HoldsItsLock
  BY RestingRequests DEF CacheInit, HoldsItsLock, Keeps
<1>3. Calm
  BY RestingRequests DEF CacheInit, StoreInit, Calm
<1>4. QED BY <1>1, <1>2, <1>3 DEF CacheInv

(* The locks are safe when every request keeps its state and its locks, or *)
(* gets a state that is safe.                                              *)
LEMMA LocksStaySafe ==
    ASSUME HoldsItsLock,
           \A r \in Requests :
              \/ /\ req'[r] = req[r]
                 /\ \A p \in {Redis, WorkerOf[r]} :
                       locks[p] # None /\ locks[p].owner = r => locks'[p] = locks[p]
              \/ Keeps(r, req'[r], locks')
    PROVE  HoldsItsLock'
<1> SUFFICES ASSUME NEW r \in Requests PROVE Keeps(r, req'[r], locks')
  BY DEF HoldsItsLock
<1>1. Keeps(r, req[r], locks)
  BY DEF HoldsItsLock
<1>2. CASE /\ req'[r] = req[r]
           /\ \A p \in {Redis, WorkerOf[r]} :
                 locks[p] # None /\ locks[p].owner = r => locks'[p] = locks[p]
  BY <1>1, <1>2 DEF Keeps
<1>3. QED BY <1>2

(* Asking for the lock: what becomes of the lock and of the caller. *)
LEMMA AskLockEffect ==
    ASSUME CacheInv, NEW r \in Requests, NEW ps \in SUBSET Places, NEW p \in ps,
           p \in {Redis, WorkerOf[r]}, AskLock(r, ps, p)
    PROVE  /\ entries' = entries
           /\ locks' \in [Places -> Lock \cup {None}]
           /\ req' \in [Requests -> Request]
           /\ \A q \in Requests \ {r} : req'[q] = req[q]
           /\ \A x \in Places : locks[x] # None => locks'[x] = locks[x]
           /\ \A x \in Places \ ps : locks'[x] = locks[x]
           /\ req[r].pc = "acquire"
           /\ \/ /\ locks[p] = None /\ locks'[p] # None /\ locks'[p].owner = r
                 /\ req'[r].pc = "reread" /\ req'[r].at = p
              \/ /\ locks'[p] = locks[p] /\ locks[p] # None
                 /\ req'[r].pc = "wait" /\ req'[r].at = None /\ req'[r].clock = 0
           /\ HoldsItsLock'
<1> USE CacheConstants
<1>0. /\ CacheTypeOK /\ HoldsItsLock /\ Keeps(r, req[r], locks)
      /\ req \in [Requests -> Request] /\ locks \in [Places -> Lock \cup {None}]
      /\ p \in Places
  BY DEF CacheInv, CacheTypeOK, HoldsItsLock
<1>1. /\ req[r].pc = "acquire" /\ req[r].at = None /\ req[r].clock = 0
      /\ entries' = entries /\ locks' = Take(r, ps)
  BY <1>0 DEF AskLock, Keeps
<1>2. [owner |-> r, left |-> LockTtl] \in Lock
  BY DEF Lock
<1>3. locks' \in [Places -> Lock \cup {None}]
  BY <1>0, <1>1, <1>2 DEF Take
<1>4. /\ \A x \in Places : locks[x] # None => locks'[x] = locks[x]
      /\ \A x \in Places \ ps : locks'[x] = locks[x]
  BY <1>1 DEF Take
<1>5. CASE locks'[p] # locks[p]
  <2>1. req' = [req EXCEPT ![r] = [req[r] EXCEPT !.pc = "reread", !.at = p, !.attempt = 1]]
    BY <1>0, <1>5 DEF AskLock
  <2>2. /\ req'[r] = [req[r] EXCEPT !.pc = "reread", !.at = p, !.attempt = 1]
        /\ \A q \in Requests \ {r} : req'[q] = req[q]
    BY <1>0, <2>1
  <2>0. [req[r] EXCEPT !.pc = "reread", !.at = p, !.attempt = 1] \in Request
    BY <1>0, RequestMoves
  <2>3. req' \in [Requests -> Request] /\ req'[r].pc = "reread" /\ req'[r].at = p
        /\ req'[r].clock = 0 /\ req'[r].attempt = 1
    BY <1>0, <1>1, <2>1, <2>2, <2>0 DEF Request
  <2>4. locks[p] = None /\ locks'[p] = [owner |-> r, left |-> LockTtl] /\ locks'[p] # None
    BY <1>0, <1>1, <1>5 DEF Take
  <2>5. Keeps(r, req'[r], locks')
    BY <2>3, <2>4 DEF Keeps
  <2>6. \A q \in Requests \ {r} : \A x \in {Redis, WorkerOf[q]} :
           locks[x] # None => locks'[x] = locks[x]
    BY <1>4
  <2>7. HoldsItsLock'
    BY <1>0, <2>2, <2>5, <2>6, LocksStaySafe
  <2>8. QED BY <1>1, <1>3, <1>4, <2>2, <2>3, <2>4, <2>7
<1>6. CASE locks'[p] = locks[p]
  <2>1. req' = [req EXCEPT ![r] = [req[r] EXCEPT !.pc = "wait", !.clock = 0]]
    BY <1>0, <1>6 DEF AskLock
  <2>2. /\ req'[r] = [req[r] EXCEPT !.pc = "wait", !.clock = 0]
        /\ \A q \in Requests \ {r} : req'[q] = req[q]
    BY <1>0, <2>1
  <2>0. [req[r] EXCEPT !.pc = "wait", !.clock = 0] \in Request
    BY <1>0, RequestMoves
  <2>3. req' \in [Requests -> Request] /\ req'[r].pc = "wait" /\ req'[r].at = None
        /\ req'[r].clock = 0
    BY <1>0, <1>1, <2>1, <2>2, <2>0 DEF Request
  <2>4. Keeps(r, req'[r], locks')
    BY <2>3 DEF Keeps
  <2>5. \A q \in Requests \ {r} : \A x \in {Redis, WorkerOf[q]} :
           locks[x] # None => locks'[x] = locks[x]
    BY <1>4
  <2>6. HoldsItsLock'
    BY <1>0, <2>2, <2>4, <2>5, LocksStaySafe
  <2>7. locks[p] # None
    BY <1>0, <1>1, <1>2, <1>6, NoneIsNoData DEF Take
  <2>8. QED BY <1>1, <1>3, <1>4, <1>6, <2>2, <2>3, <2>6, <2>7
<1>7. QED BY <1>5, <1>6

(* One request moves on and the locks stay as they are. *)
LEMMA OneMoves ==
    ASSUME CacheInv, NEW r \in Requests, NEW q \in Request,
           req' = [req EXCEPT ![r] = q], locks' = locks, Keeps(r, q, locks)
    PROVE  /\ req' \in [Requests -> Request] /\ locks' \in [Places -> Lock \cup {None}]
           /\ req'[r] = q /\ \A x \in Requests \ {r} : req'[x] = req[x]
           /\ HoldsItsLock'
<1>1. /\ req \in [Requests -> Request] /\ locks \in [Places -> Lock \cup {None}]
      /\ HoldsItsLock
  BY DEF CacheInv, CacheTypeOK
<1>2. req'[r] = q /\ \A x \in Requests \ {r} : req'[x] = req[x]
  BY <1>1
<1>3. HoldsItsLock'
  BY <1>1, <1>2, LocksStaySafe
<1>4. QED BY <1>1, <1>2, <1>3

(* While nothing has failed, a request that does not hold the lock may move *)
(* on to any place but a wait.                                             *)
LEMMA CalmGoesOn ==
    ASSUME CacheInv, NEW r \in Requests,
           UNCHANGED <<cooldown, disturbed>>, entries' = entries, locks' = locks,
           req' \in [Requests -> Request],
           \A x \in Requests \ {r} : req'[x] = req[x],
           ~disturbed /\ locks[Redis] # None => Owner # r,
           req'[r].pc \in {"reread", "load", "release"} => req'[r].at = Redis,
           req'[r].pc # "wait"
    PROVE  Calm'
<1> SUFFICES ASSUME ~disturbed PROVE Calm'
  BY DEF Calm
<1> USE CacheConstants
<1>1. Calm /\ locks \in [Places -> Lock \cup {None}]
  BY DEF CacheInv, CacheTypeOK
<1>2. locks[Redis] # None => Owner \in Requests \ {r}
  BY <1>1 DEF Owner, Lock
<1>3. Owner' = Owner
  BY DEF Owner
<1>4. Busy <=> Busy'
  BY <1>2, <1>3 DEF Busy
<1>5. \A w \in Workers : cooldown'[w] = 0
  BY <1>1 DEF Calm
<1>6. \A x \in Requests : req'[x].pc \in {"reread", "load", "release"} => req'[x].at = Redis
  BY <1>1 DEF Calm
<1>7. locks'[Redis] # None =>
         Busy' \/ (req'[Owner'].pc = "release" /\ entries'[Redis] # None)
  BY <1>1, <1>2, <1>3, <1>4 DEF Calm
<1>8. \A x \in Requests : req'[x].pc = "wait" =>
         /\ req'[x].clock <= MaxLoad
         /\ entries'[Redis] # None \/ (Busy' /\ req'[x].clock <= req'[Owner'].clock)
  <2> SUFFICES ASSUME NEW x \in Requests, req'[x].pc = "wait"
               PROVE  /\ req'[x].clock <= MaxLoad
                      /\ entries'[Redis] # None
                            \/ (Busy' /\ req'[x].clock <= req'[Owner'].clock)
    OBVIOUS
  <2>1. x # r /\ req'[x] = req[x]
    OBVIOUS
  <2>2. /\ req[x].clock <= MaxLoad
        /\ entries[Redis] # None \/ (Busy /\ req[x].clock <= req[Owner].clock)
    BY <1>1, <2>1 DEF Calm
  <2>3. Busy => req'[Owner] = req[Owner]
    BY <1>2 DEF Busy
  <2>4. QED BY <1>3, <1>4, <2>1, <2>2, <2>3
<1>9. QED BY <1>5, <1>6, <1>7, <1>8 DEF Calm

(* Who holds the lock while nothing has failed. *)
LEMMA OwnerAtWork ==
    ASSUME CacheInv, NEW r \in Requests, ~disturbed, locks[Redis] # None,
           req[r].pc \notin {"reread", "load", "release"}
    PROVE  Owner # r
  BY DEF CacheInv, Calm, Busy

-----------------------------------------------------------------------------
(* One lemma for each action: it keeps the invariant.                      *)

LEMMA ArriveKeeps ==
    ASSUME CacheInv, NEW r \in Requests, NEW force \in BOOLEAN, Arrive(r, force)
    PROVE  CacheInv'
<1> DEFINE q == [IdleRequest EXCEPT !.force = force,
                                    !.pc = IF force THEN "acquire" ELSE "lookup"]
<1>1. q \in Request /\ q.pc \in {"acquire", "lookup"} /\ q.at = None /\ q.clock = 0
  <2>1. (IF force THEN "acquire" ELSE "lookup") \in Pcs
    BY RequestShape
  <2>2. q \in Request
    BY <2>1, RestingRequests, RequestMoves
  <2>3. QED BY <2>2 DEF IdleRequest
<1>2. req' = [req EXCEPT ![r] = q] /\ UNCHANGED <<cooldown, disturbed, entries, locks>>
  BY DEF Arrive
<1> HIDE DEF q
<1>3. Keeps(r, q, locks)
  BY <1>1 DEF Keeps
<1>4. /\ req' \in [Requests -> Request] /\ locks' \in [Places -> Lock \cup {None}]
      /\ req'[r] = q /\ (\A x \in Requests \ {r} : req'[x] = req[x]) /\ HoldsItsLock'
  BY <1>1, <1>2, <1>3, OneMoves
<1>5. CacheTypeOK'
  BY <1>2, <1>4 DEF CacheInv, CacheTypeOK, StoreTypeOK
<1>6. locks[Redis] # None => Owner # r
  BY CacheConstants DEF Arrive, Owner
<1>7. Calm'
  BY <1>1, <1>2, <1>4, <1>6, CalmGoesOn
<1>8. QED BY <1>4, <1>5, <1>7 DEF CacheInv

LEMMA LookupKeeps ==
    ASSUME CacheInv, NEW r \in Requests, Lookup(r)
    PROVE  CacheInv'
<1>1. /\ req \in [Requests -> Request] /\ req[r] \in Request /\ Keeps(r, req[r], locks)
  BY DEF CacheInv, CacheTypeOK, HoldsItsLock
<1>2. PICK q \in Request :
         /\ req' = [req EXCEPT ![r] = q] /\ q.pc \in {"done", "acquire"}
         /\ q.at = None
         /\ q.pc = "acquire" => q.clock = 0
  <2>1. CASE req' = [req EXCEPT ![r] = Finished(FALSE)]
    BY <2>1, RestingRequests
  <2>2. CASE req' = [req EXCEPT ![r].pc = "acquire"]
    <3>1. req' = [req EXCEPT ![r] = [req[r] EXCEPT !.pc = "acquire"]]
      BY <1>1, <2>2
    <3>2. [req[r] EXCEPT !.pc = "acquire"] \in Request
      BY <1>1, RequestMoves
    <3>3. req[r].at = None /\ req[r].clock = 0
      BY <1>1 DEF Lookup, Keeps
    <3>4. /\ [req[r] EXCEPT !.pc = "acquire"].pc = "acquire"
          /\ [req[r] EXCEPT !.pc = "acquire"].at = None
          /\ [req[r] EXCEPT !.pc = "acquire"].clock = 0
      BY <1>1, <3>3 DEF Request
    <3>5. QED BY <3>1, <3>2, <3>4
  <2>3. QED BY <2>1, <2>2 DEF Lookup
<1>3. UNCHANGED <<cooldown, disturbed, entries, locks>>
  BY DEF Lookup
<1>4. Keeps(r, q, locks)
  BY <1>2 DEF Keeps
<1>5. /\ req' \in [Requests -> Request] /\ locks' \in [Places -> Lock \cup {None}]
      /\ req'[r] = q /\ (\A x \in Requests \ {r} : req'[x] = req[x]) /\ HoldsItsLock'
  BY <1>2, <1>3, <1>4, OneMoves
<1>6. CacheTypeOK'
  BY <1>3, <1>5 DEF CacheInv, CacheTypeOK, StoreTypeOK
<1>7. ~disturbed /\ locks[Redis] # None => Owner # r
  BY OwnerAtWork DEF Lookup
<1>8. Calm'
  BY <1>2, <1>3, <1>5, <1>7, CalmGoesOn
<1>9. QED BY <1>5, <1>6, <1>8 DEF CacheInv

LEMMA AcquireKeeps ==
    ASSUME CacheInv, NEW r \in Requests, Acquire(r)
    PROVE  CacheInv'
<1> USE CacheConstants
<1> DEFINE p == At(WorkerOf[r])
<1>1. /\ p \in {Redis, WorkerOf[r]} /\ {p} \in SUBSET Places /\ p \in {p}
      /\ AskLock(r, {p}, p) /\ UNCHANGED <<cooldown, disturbed>>
  BY AtIsAPlace DEF Acquire
<1>2. ~disturbed => p = Redis
  BY DEF CacheInv, Calm, At
<1> HIDE DEF p
<1>3. /\ entries' = entries /\ locks' \in [Places -> Lock \cup {None}]
      /\ req' \in [Requests -> Request] /\ \A q \in Requests \ {r} : req'[q] = req[q]
      /\ req[r].pc = "acquire"
      /\ \/ /\ locks[p] = None /\ locks'[p] # None /\ locks'[p].owner = r
            /\ req'[r].pc = "reread" /\ req'[r].at = p
         \/ /\ locks'[p] = locks[p] /\ locks[p] # None
            /\ req'[r].pc = "wait" /\ req'[r].at = None /\ req'[r].clock = 0
      /\ HoldsItsLock'
  BY <1>1, AskLockEffect
<1>4. CacheTypeOK'
  BY <1>1, <1>3 DEF CacheInv, CacheTypeOK, StoreTypeOK
<1>5. ASSUME ~disturbed PROVE Calm'
  <2>1. Calm /\ locks \in [Places -> Lock \cup {None}] /\ req \in [Requests -> Request]
    BY DEF CacheInv, CacheTypeOK
  <2>2. \A w \in Workers : cooldown'[w] = 0
    BY <1>1, <1>5, <2>1 DEF Calm
  <2>3. \A x \in Requests : req'[x].pc \in {"reread", "load", "release"} => req'[x].at = Redis
    BY <1>2, <1>3, <1>5, <2>1 DEF Calm
  <2>4. CASE /\ locks[Redis] = None /\ locks'[Redis] # None /\ locks'[Redis].owner = r
             /\ req'[r].pc = "reread"
    <3>1. Busy'
      BY <2>4 DEF Busy, Owner
    <3>2. \A x \in Requests : req'[x].pc = "wait" =>
             req'[x].clock <= MaxLoad /\ entries'[Redis] # None
      BY <1>3, <1>5, <2>1, <2>4 DEF Calm, Busy
    <3>3. QED BY <2>2, <2>3, <3>1, <3>2 DEF Calm
  <2>5. CASE /\ locks'[Redis] = locks[Redis] /\ locks[Redis] # None
             /\ req'[r].pc = "wait" /\ req'[r].clock = 0
    <3>1. Owner' = Owner /\ Owner \in Requests
      BY <2>1, <2>5 DEF Owner, Lock
    <3>2. Owner # r
      BY <1>3, <1>5, <2>5, OwnerAtWork
    <3>3. Busy' <=> Busy
      BY <1>3, <2>5, <3>1, <3>2 DEF Busy
    <3>4. Busy' \/ (req'[Owner'].pc = "release" /\ entries'[Redis] # None)
      BY <1>3, <1>5, <2>1, <2>5, <3>1, <3>2, <3>3 DEF Calm
    <3>5. req[Owner].clock >= 0
      BY <2>1, <3>1, RequestShape DEF Shape
    <3>6. \A x \in Requests : req'[x].pc = "wait" =>
             /\ req'[x].clock <= MaxLoad
             /\ entries'[Redis] # None \/ (Busy' /\ req'[x].clock <= req'[Owner'].clock)
      <4>1. entries'[Redis] # None \/ Busy'
        BY <3>4
      <4>2. req'[Owner'] = req[Owner]
        BY <1>3, <3>1, <3>2
      <4>3. \A x \in Requests \ {r} : req'[x].pc = "wait" =>
               /\ req'[x].clock <= MaxLoad
               /\ entries'[Redis] # None \/ (Busy' /\ req'[x].clock <= req'[Owner'].clock)
        BY <1>3, <1>5, <2>1, <3>3, <4>2 DEF Calm
      <4>4. QED BY <2>5, <3>5, <4>1, <4>2, <4>3
    <3>7. QED BY <2>2, <2>3, <3>4, <3>6 DEF Calm
  <2>6. QED BY <1>2, <1>3, <1>5, <2>4, <2>5
<1>6. Calm'
  BY <1>1, <1>5 DEF Calm
<1>7. QED BY <1>3, <1>4, <1>6 DEF CacheInv

LEMMA AcquireTornKeeps ==
    ASSUME CacheInv, NEW r \in Requests, AcquireTorn(r)
    PROVE  CacheInv'
<1> USE CacheConstants
<1>1. /\ WorkerOf[r] \in Torn(WorkerOf[r]) /\ Torn(WorkerOf[r]) \in SUBSET Places
      /\ AskLock(r, Torn(WorkerOf[r]), WorkerOf[r]) /\ Offline(WorkerOf[r])
  BY DEF AcquireTorn, Torn
<1>2. /\ entries' = entries /\ locks' \in [Places -> Lock \cup {None}]
      /\ req' \in [Requests -> Request] /\ HoldsItsLock'
  BY <1>1, AskLockEffect
<1>3. StoreTypeOK'
  BY <1>1 DEF CacheInv, CacheTypeOK, StoreTypeOK, Offline
<1>4. CacheTypeOK'
  BY <1>2, <1>3 DEF CacheInv, CacheTypeOK
<1>5. Calm'
  BY <1>1 DEF Calm, Offline
<1>6. QED BY <1>2, <1>4, <1>5 DEF CacheInv

LEMMA RereadKeeps ==
    ASSUME CacheInv, NEW r \in Requests, Reread(r)
    PROVE  CacheInv'
<1> USE CacheConstants
<1>1. /\ req \in [Requests -> Request] /\ req[r] \in Request /\ Keeps(r, req[r], locks)
      /\ req[r].pc = "reread" /\ UNCHANGED <<cooldown, disturbed, entries, locks>>
      /\ Calm /\ locks \in [Places -> Lock \cup {None}]
  BY DEF CacheInv, CacheTypeOK, HoldsItsLock, Reread
<1>2. ~disturbed => /\ req[r].at = Redis /\ locks[Redis] # None /\ Owner = r
                    /\ At(WorkerOf[r]) = Redis
  BY <1>1 DEF Calm, Keeps, Owner, At
<1>3. CASE SpareLoad(r) /\ req' = [req EXCEPT ![r] = Releasing(r)]
  <2>1. /\ Releasing(r) \in Request /\ Releasing(r).pc = "release"
        /\ Releasing(r).at = req[r].at
    BY <1>1, ReleasingRequest
  <2>2. Keeps(r, Releasing(r), locks)
    BY <1>1, <2>1 DEF Keeps
  <2>3. /\ req' \in [Requests -> Request] /\ locks' \in [Places -> Lock \cup {None}]
        /\ req'[r] = Releasing(r) /\ (\A x \in Requests \ {r} : req'[x] = req[x])
        /\ HoldsItsLock'
    BY <1>1, <1>3, <2>1, <2>2, OneMoves
  <2>4. ASSUME ~disturbed PROVE Calm'
    <3>1. entries'[Redis] # None
      BY <1>1, <1>2, <1>3, <2>4 DEF SpareLoad, Fresh, Visible
    <3>2. \A x \in Requests : req'[x].pc \in {"reread", "load", "release"} => req'[x].at = Redis
      BY <1>1, <1>2, <2>1, <2>3, <2>4 DEF Calm
    <3>3. \A x \in Requests : req'[x].pc = "wait" => req'[x].clock <= MaxLoad
      BY <1>1, <2>1, <2>3, <2>4 DEF Calm
    <3>4. Owner' = r /\ req'[Owner'].pc = "release"
      BY <1>1, <1>2, <2>1, <2>3, <2>4 DEF Owner
    <3>5. QED BY <1>1, <2>4, <3>1, <3>2, <3>3, <3>4 DEF Calm
  <2>5. QED BY <1>1, <2>3, <2>4 DEF CacheInv, CacheTypeOK, StoreTypeOK, Calm
<1>4. CASE req' = [req EXCEPT ![r] = Load(r, req[r].attempt)]
  <2> DEFINE q == [req[r] EXCEPT !.pc = "load", !.clock = 0, !.attempt = req[r].attempt]
  <2>1. q \in Request /\ req' = [req EXCEPT ![r] = q]
    BY <1>1, <1>4, RequestMoves DEF Load
  <2>2. q.pc = "load" /\ q.clock = 0 /\ q.at = req[r].at /\ q.attempt = req[r].attempt
    BY <1>1 DEF Request
  <2> HIDE DEF q
  <2>3. Keeps(r, q, locks)
    BY <1>1, <2>2 DEF Keeps
  <2>4. /\ req' \in [Requests -> Request] /\ locks' \in [Places -> Lock \cup {None}]
        /\ req'[r] = q /\ (\A x \in Requests \ {r} : req'[x] = req[x])
        /\ HoldsItsLock'
    BY <1>1, <2>1, <2>3, OneMoves
  <2>5. ASSUME ~disturbed PROVE Calm'
    <3>1. Busy' /\ Owner' = r
      BY <1>1, <1>2, <2>2, <2>4, <2>5 DEF Busy, Owner
    <3>2. \A x \in Requests : req'[x].pc \in {"reread", "load", "release"} => req'[x].at = Redis
      BY <1>1, <1>2, <2>2, <2>4, <2>5 DEF Calm
    <3>3. req[r].clock = 0
      BY <1>1 DEF Keeps
    <3>4. \A x \in Requests : req'[x].pc = "wait" =>
             /\ req'[x].clock <= MaxLoad
             /\ entries'[Redis] # None \/ (Busy' /\ req'[x].clock <= req'[Owner'].clock)
      BY <1>1, <1>2, <2>2, <2>4, <2>5, <3>1, <3>3 DEF Calm
    <3>5. QED BY <1>1, <2>5, <3>1, <3>2, <3>4 DEF Calm
  <2>6. QED BY <1>1, <2>4, <2>5 DEF CacheInv, CacheTypeOK, StoreTypeOK, Calm
<1>5. QED BY <1>3, <1>4 DEF Reread

(* A load that is over, stored or not. *)
LEMMA LoadEnds ==
    ASSUME CacheInv, NEW r \in Requests, req[r].pc = "load",
           req' = [req EXCEPT ![r] = AfterLoad(r)], locks' = locks
    PROVE  /\ req' \in [Requests -> Request] /\ locks' \in [Places -> Lock \cup {None}]
           /\ \A x \in Requests \ {r} : req'[x] = req[x]
           /\ req'[r].pc \in {"done", "release"}
           /\ req'[r].pc = "release" => req'[r].at = req[r].at
           /\ req[r].at # None => req'[r].pc = "release"
           /\ HoldsItsLock'
<1> USE CacheConstants
<1>1. req[r] \in Request /\ Keeps(r, req[r], locks)
  BY DEF CacheInv, CacheTypeOK, HoldsItsLock
<1>2. CASE req[r].attempt = 3
  <2>1. req' = [req EXCEPT ![r] = Finished(FALSE)]
    BY <1>2 DEF AfterLoad
  <2>2. /\ Finished(FALSE) \in Request /\ Finished(FALSE).pc = "done"
        /\ Finished(FALSE).at = None
    BY RestingRequests
  <2>3. Keeps(r, Finished(FALSE), locks)
    BY <2>2 DEF Keeps
  <2>4. req[r].at = None
    BY <1>1, <1>2 DEF Keeps
  <2>5. QED BY <2>1, <2>2, <2>3, <2>4, OneMoves
<1>3. CASE req[r].attempt # 3
  <2>1. req' = [req EXCEPT ![r] = Releasing(r)]
    BY <1>3 DEF AfterLoad
  <2>2. /\ Releasing(r) \in Request /\ Releasing(r).pc = "release"
        /\ Releasing(r).at = req[r].at
    BY <1>1, ReleasingRequest
  <2>3. Keeps(r, Releasing(r), locks)
    BY <1>1, <2>2 DEF Keeps
  <2>4. QED BY <2>1, <2>2, <2>3, OneMoves
<1>4. QED BY <1>2, <1>3

LEMMA StoreKeeps ==
    ASSUME CacheInv, NEW r \in Requests, Store(r)
    PROVE  CacheInv'
<1> USE CacheConstants
<1> DEFINE e == [left |-> HardTtl, new |-> {q \in Watched : req[q].force /\ Active(q)}]
<1>1. /\ req[r].pc = "load" /\ req' = [req EXCEPT ![r] = AfterLoad(r)]
      /\ entries' = [p \in Places |-> IF p \in Mirrored(WorkerOf[r]) THEN e ELSE entries[p]]
      /\ UNCHANGED <<cooldown, disturbed, locks>>
  BY DEF Store
<1>2. e \in Entry /\ e # None
  <2>1. HardTtl \in 1 .. HardTtl /\ {q \in Watched : req[q].force /\ Active(q)} \in SUBSET Watched
    OBVIOUS
  <2>2. e \in Entry
    BY <2>1, Zenon DEF Entry
  <2>3. QED BY <2>2, NoneIsNoData
<1> HIDE DEF e
<1>3. /\ req' \in [Requests -> Request] /\ locks' \in [Places -> Lock \cup {None}]
      /\ \A x \in Requests \ {r} : req'[x] = req[x]
      /\ req'[r].pc \in {"done", "release"}
      /\ req'[r].pc = "release" => req'[r].at = req[r].at
      /\ req[r].at # None => req'[r].pc = "release"
      /\ HoldsItsLock'
  BY <1>1, LoadEnds
<1>4. entries' \in [Places -> Entry \cup {None}]
  BY <1>1, <1>2 DEF CacheInv, CacheTypeOK
<1>5. CacheTypeOK'
  BY <1>1, <1>3, <1>4 DEF CacheInv, CacheTypeOK, StoreTypeOK
<1>6. ASSUME ~disturbed PROVE Calm'
  <2>1. Calm /\ Keeps(r, req[r], locks) /\ locks \in [Places -> Lock \cup {None}]
    BY DEF CacheInv, CacheTypeOK, HoldsItsLock
  <2>2. req[r].at = Redis /\ locks[Redis] # None /\ Owner = r /\ At(WorkerOf[r]) = Redis
    BY <1>1, <1>6, <2>1 DEF Calm, Keeps, Owner, At
  <2>3. entries'[Redis] # None
    BY <1>1, <1>2, <2>2 DEF Mirrored
  <2>4. Owner' = r /\ req'[Owner'].pc = "release" /\ req'[r].at = Redis
    BY <1>1, <1>3, <2>2 DEF Owner
  <2>5. \A x \in Requests : req'[x].pc \in {"reread", "load", "release"} => req'[x].at = Redis
    BY <1>3, <1>6, <2>1, <2>4 DEF Calm
  <2>6. \A x \in Requests : req'[x].pc = "wait" => req'[x].clock <= MaxLoad
    BY <1>3, <1>6, <2>1 DEF Calm
  <2>7. \A w \in Workers : cooldown'[w] = 0
    BY <1>1, <1>6, <2>1 DEF Calm
  <2>8. QED BY <2>3, <2>4, <2>5, <2>6, <2>7 DEF Calm
<1>7. Calm'
  BY <1>1, <1>6 DEF Calm
<1>8. QED BY <1>3, <1>5, <1>7 DEF CacheInv

LEMMA LoadFailsKeeps ==
    ASSUME CacheInv, NEW r \in Requests, LoadFails(r)
    PROVE  CacheInv'
<1>1. /\ req[r].pc = "load" /\ req' = [req EXCEPT ![r] = AfterLoad(r)] /\ disturbed'
      /\ UNCHANGED <<cooldown, entries, locks>>
  BY DEF LoadFails
<1>2. /\ req' \in [Requests -> Request] /\ locks' \in [Places -> Lock \cup {None}]
      /\ HoldsItsLock'
  BY <1>1, LoadEnds
<1>3. StoreTypeOK'
  BY <1>1, Zenon DEF CacheInv, CacheTypeOK, StoreTypeOK, LoadFails
<1>4. CacheTypeOK'
  BY <1>1, <1>2, <1>3 DEF CacheInv, CacheTypeOK
<1>5. QED BY <1>1, <1>2, <1>4 DEF CacheInv, Calm

LEMMA ReleaseKeeps ==
    ASSUME CacheInv, NEW r \in Requests, Release(r)
    PROVE  CacheInv'
<1> USE CacheConstants
<1>1. /\ req[r].pc = "release" /\ locks' = Released(r)
      /\ req' = [req EXCEPT ![r] = Finished(FALSE)]
      /\ UNCHANGED <<cooldown, disturbed, entries>>
      /\ Calm /\ locks \in [Places -> Lock \cup {None}] /\ req \in [Requests -> Request]
      /\ HoldsItsLock
  BY DEF Release, CacheInv, CacheTypeOK
<1>2. /\ req' \in [Requests -> Request] /\ req'[r] = Finished(FALSE)
      /\ Finished(FALSE).pc = "done" /\ Finished(FALSE).at = None
      /\ \A x \in Requests \ {r} : req'[x] = req[x]
  BY <1>1, RestingRequests
<1>3. locks' \in [Places -> Lock \cup {None}]
  BY <1>1 DEF Released
<1>4. \A p \in Places : locks[p] # None /\ locks[p].owner # r => locks'[p] = locks[p]
  BY <1>1 DEF Released
<1>5. \A p \in Places : locks'[p] # None => locks'[p] = locks[p]
  BY <1>1 DEF Released
<1>6. HoldsItsLock'
  <2>1. Keeps(r, req'[r], locks')
    BY <1>2 DEF Keeps
  <2>2. \A x \in Requests \ {r} : \A p \in {Redis, WorkerOf[x]} :
           locks[p] # None /\ locks[p].owner = x => locks'[p] = locks[p]
    BY <1>4
  <2>3. QED BY <1>1, <1>2, <2>1, <2>2, LocksStaySafe
<1>7. CacheTypeOK'
  BY <1>1, <1>2, <1>3 DEF CacheInv, CacheTypeOK, StoreTypeOK
<1>8. ASSUME ~disturbed PROVE Calm'
  <2>1. \A w \in Workers : cooldown'[w] = 0
    BY <1>1, <1>8 DEF Calm
  <2>2. \A x \in Requests : req'[x].pc \in {"reread", "load", "release"} => req'[x].at = Redis
    BY <1>1, <1>2, <1>8 DEF Calm
  <2>3. At(WorkerOf[r]) = Redis
    BY <1>1, <1>8 DEF Calm, At
  <2>4. locks[Redis] # None /\ Owner = r => locks'[Redis] = None
    BY <1>1, <2>3 DEF Released, Owner, Mirrored
  <2>5. locks'[Redis] # None => /\ Owner \in Requests \ {r} /\ Owner' = Owner
                               /\ locks[Redis] # None /\ req'[Owner] = req[Owner]
    BY <1>1, <1>2, <1>5, <2>4 DEF Owner, Lock
  <2>6. locks'[Redis] # None =>
           Busy' \/ (req'[Owner'].pc = "release" /\ entries'[Redis] # None)
    BY <1>1, <1>8, <2>5 DEF Calm, Busy
  <2>7. Busy => /\ locks'[Redis] # None
    BY <1>1, <1>4 DEF Busy, Owner
  <2>8. Busy => Busy' /\ req'[Owner'] = req[Owner]
    BY <2>5, <2>7 DEF Busy
  <2>9. \A x \in Requests : req'[x].pc = "wait" =>
           /\ req'[x].clock <= MaxLoad
           /\ entries'[Redis] # None \/ (Busy' /\ req'[x].clock <= req'[Owner'].clock)
    BY <1>1, <1>2, <1>8, <2>8 DEF Calm
  <2>10. QED BY <2>1, <2>2, <2>6, <2>9 DEF Calm
<1>9. Calm'
  BY <1>1, <1>8 DEF Calm
<1>10. QED BY <1>6, <1>7, <1>9 DEF CacheInv

LEMMA PollKeeps ==
    ASSUME CacheInv, NEW r \in Requests, Poll(r)
    PROVE  CacheInv'
<1> DEFINE old == req[r].force /\ r \in Watched \ Visible(r).new
<1>1. /\ req[r].pc = "wait" /\ req' = [req EXCEPT ![r] = Finished(old)]
      /\ UNCHANGED <<cooldown, disturbed, entries, locks>>
  BY DEF Poll
<1>2. old \in BOOLEAN
  OBVIOUS
<1> HIDE DEF old
<1>3. Finished(old) \in Request /\ Finished(old).pc = "done" /\ Finished(old).at = None
  BY <1>2, RestingRequests
<1>4. Keeps(r, Finished(old), locks)
  BY <1>3 DEF Keeps
<1>5. /\ req' \in [Requests -> Request] /\ locks' \in [Places -> Lock \cup {None}]
      /\ req'[r] = Finished(old) /\ (\A x \in Requests \ {r} : req'[x] = req[x])
      /\ HoldsItsLock'
  BY <1>1, <1>3, <1>4, OneMoves
<1>6. CacheTypeOK'
  BY <1>1, <1>5 DEF CacheInv, CacheTypeOK, StoreTypeOK
<1>7. ~disturbed /\ locks[Redis] # None => Owner # r
  BY <1>1, OwnerAtWork
<1>8. Calm'
  BY <1>1, <1>3, <1>5, <1>7, CalmGoesOn
<1>9. QED BY <1>5, <1>6, <1>8 DEF CacheInv

(* Only after a failure does anybody wait so long as to give up. *)
LEMMA GiveUpKeeps ==
    ASSUME CacheInv, NEW r \in Requests, GiveUp(r)
    PROVE  CacheInv'
<1> USE CacheConstants
<1>1. /\ req[r].pc = "wait" /\ req[r].clock >= LockTtl
      /\ req \in [Requests -> Request] /\ req[r] \in Request /\ Keeps(r, req[r], locks)
      /\ UNCHANGED <<cooldown, disturbed, entries, locks>>
  BY DEF GiveUp, Waited, CacheInv, CacheTypeOK, HoldsItsLock
<1>2. req[r].clock \in Nat /\ req[r].at = None
  BY <1>1, RequestShape DEF Shape, Keeps
<1>3. disturbed
  BY <1>1, <1>2 DEF CacheInv, Calm
<1>4. PICK q \in Request :
         /\ req' = [req EXCEPT ![r] = q] /\ q.pc \in {"acquire", "load"}
         /\ q.clock = 0 /\ q.at = None
  <2>1. CASE req[r].attempt = 1
    <3>1. req' = [req EXCEPT ![r] = [req[r] EXCEPT !.pc = "acquire", !.attempt = 2, !.clock = 0]]
      BY <2>1 DEF GiveUp
    <3>2. [req[r] EXCEPT !.pc = "acquire", !.attempt = 2, !.clock = 0] \in Request
      BY <1>1, RequestMoves
    <3>3. /\ [req[r] EXCEPT !.pc = "acquire", !.attempt = 2, !.clock = 0].pc = "acquire"
          /\ [req[r] EXCEPT !.pc = "acquire", !.attempt = 2, !.clock = 0].clock = 0
          /\ [req[r] EXCEPT !.pc = "acquire", !.attempt = 2, !.clock = 0].at = None
      BY <1>1, <1>2 DEF Request
    <3>4. QED BY <3>1, <3>2, <3>3
  <2>2. CASE req[r].attempt # 1
    <3>1. req' = [req EXCEPT ![r] = [req[r] EXCEPT !.pc = "load", !.clock = 0, !.attempt = 3]]
      BY <2>2 DEF GiveUp, Load
    <3>2. [req[r] EXCEPT !.pc = "load", !.clock = 0, !.attempt = 3] \in Request
      BY <1>1, RequestMoves
    <3>3. /\ [req[r] EXCEPT !.pc = "load", !.clock = 0, !.attempt = 3].pc = "load"
          /\ [req[r] EXCEPT !.pc = "load", !.clock = 0, !.attempt = 3].clock = 0
          /\ [req[r] EXCEPT !.pc = "load", !.clock = 0, !.attempt = 3].at = None
      BY <1>1, <1>2 DEF Request
    <3>4. QED BY <3>1, <3>2, <3>3
  <2>3. QED BY <2>1, <2>2
<1>5. Keeps(r, q, locks)
  BY <1>4 DEF Keeps
<1>6. /\ req' \in [Requests -> Request] /\ locks' \in [Places -> Lock \cup {None}]
      /\ HoldsItsLock'
  BY <1>1, <1>4, <1>5, OneMoves
<1>7. CacheTypeOK'
  BY <1>1, <1>6 DEF CacheInv, CacheTypeOK, StoreTypeOK
<1>8. Calm'
  BY <1>1, <1>3 DEF Calm
<1>9. QED BY <1>6, <1>7, <1>8 DEF CacheInv

LEMMA LoseRedisKeeps ==
    ASSUME CacheInv, NEW w \in Workers, LoseRedis(w)
    PROVE  CacheInv'
<1> USE CacheConstants
<1>1. UNCHANGED <<entries, locks, req>> /\ Offline(w)
  BY DEF LoseRedis
<1>2. StoreTypeOK'
  BY <1>1 DEF CacheInv, CacheTypeOK, StoreTypeOK, Offline
<1>3. CacheTypeOK' /\ HoldsItsLock'
  BY <1>1, <1>2 DEF CacheInv, CacheTypeOK, HoldsItsLock, Keeps
<1>4. Calm'
  BY <1>1 DEF Offline, Calm
<1>5. QED BY <1>3, <1>4 DEF CacheInv

LEMMA RedisRestartKeeps ==
    ASSUME CacheInv, RedisRestart
    PROVE  CacheInv'
<1> USE CacheConstants
<1>1. /\ entries \in [Places -> Entry \cup {None}] /\ locks \in [Places -> Lock \cup {None}]
      /\ req \in [Requests -> Request] /\ HoldsItsLock
  BY DEF CacheInv, CacheTypeOK
<1>2. /\ entries' \in [Places -> Entry \cup {None}] /\ locks' \in [Places -> Lock \cup {None}]
      /\ \A p \in Workers : locks'[p] = locks[p]
  BY <1>1 DEF RedisRestart
<1>3. ASSUME NEW r \in Requests PROVE req'[r] \in Request /\ Keeps(r, req'[r], locks')
  <2>1. req[r] \in Request /\ Keeps(r, req[r], locks)
    BY <1>1 DEF HoldsItsLock
  <2>2. CASE req[r].at = Redis
    <3>1. req'[r] = [req[r] EXCEPT !.at = None]
      BY <2>2 DEF RedisRestart
    <3>2. [req[r] EXCEPT !.at = None] \in Request
      BY <2>1, RequestMoves
    <3>3. req'[r].at = None /\ req'[r].pc = req[r].pc /\ req'[r].clock = req[r].clock
      BY <2>1, <3>1 DEF Request
    <3>4. QED BY <2>1, <3>1, <3>2, <3>3 DEF Keeps
  <2>3. CASE req[r].at # Redis
    <3>1. req'[r] = req[r]
      BY <2>3 DEF RedisRestart
    <3>2. QED BY <1>2, <2>1, <2>3, <3>1 DEF Keeps
  <2>4. QED BY <2>2, <2>3
<1>4. req' \in [Requests -> Request]
  BY <1>3 DEF RedisRestart
<1>5. StoreTypeOK'
  <2>1. cooldown' \in [Workers -> 0 .. Cooldown]
    BY DEF RedisRestart
  <2>2. disturbed' \in BOOLEAN
    BY Zenon DEF RedisRestart
  <2>3. QED BY <2>1, <2>2 DEF StoreTypeOK
<1>6. QED BY <1>2, <1>3, <1>4, <1>5 DEF CacheInv, CacheTypeOK, HoldsItsLock, Calm, RedisRestart

LEMMA WorkerCrashKeeps ==
    ASSUME CacheInv, NEW w \in Workers, WorkerCrash(w)
    PROVE  CacheInv'
<1> USE CacheConstants
<1>1. /\ entries \in [Places -> Entry \cup {None}] /\ locks \in [Places -> Lock \cup {None}]
      /\ req \in [Requests -> Request] /\ HoldsItsLock /\ StoreTypeOK
  BY DEF CacheInv, CacheTypeOK
<1>2. /\ entries' \in [Places -> Entry \cup {None}] /\ locks' \in [Places -> Lock \cup {None}]
      /\ \A p \in Places : p # w => locks'[p] = locks[p]
  BY <1>1 DEF WorkerCrash
<1>3. ASSUME NEW r \in Requests PROVE req'[r] \in Request /\ Keeps(r, req'[r], locks')
  <2>1. req[r] \in Request /\ Keeps(r, req[r], locks)
    BY <1>1 DEF HoldsItsLock
  <2>2. CASE WorkerOf[r] = w
    <3>1. req'[r] = Finished(FALSE)
      BY <2>2 DEF WorkerCrash
    <3>2. QED BY <3>1, RestingRequests DEF Keeps
  <2>3. CASE WorkerOf[r] # w
    <3>1. req'[r] = req[r]
      BY <2>3 DEF WorkerCrash
    <3>2. QED BY <1>2, <2>1, <2>3, <3>1 DEF Keeps
  <2>4. QED BY <2>2, <2>3
<1>4. req' \in [Requests -> Request]
  BY <1>3 DEF WorkerCrash
<1>5. StoreTypeOK'
  <2>1. cooldown' \in [Workers -> 0 .. Cooldown]
    BY <1>1 DEF WorkerCrash, StoreTypeOK
  <2>2. disturbed' \in BOOLEAN
    BY Zenon DEF WorkerCrash
  <2>3. QED BY <2>1, <2>2 DEF StoreTypeOK
<1>6. QED BY <1>2, <1>3, <1>4, <1>5 DEF CacheInv, CacheTypeOK, HoldsItsLock, Calm, WorkerCrash

LEMMA TrimKeeps ==
    ASSUME CacheInv, NEW w \in Workers, Trim(w)
    PROVE  CacheInv'
<1> USE CacheConstants
<1>1. /\ UNCHANGED <<cooldown, disturbed, locks, req>>
      /\ entries' = [entries EXCEPT ![w] = None]
      /\ entries \in [Places -> Entry \cup {None}]
  BY DEF Trim, CacheInv, CacheTypeOK
<1>2. entries' \in [Places -> Entry \cup {None}] /\ entries'[Redis] = entries[Redis]
  BY <1>1
<1>3. CacheTypeOK' /\ HoldsItsLock'
  BY <1>1, <1>2 DEF CacheInv, CacheTypeOK, StoreTypeOK, HoldsItsLock, Keeps
<1>4. Owner' = Owner /\ (Busy' <=> Busy)
  BY <1>1 DEF Owner, Busy
<1>5. Calm'
  BY <1>1, <1>2, <1>4 DEF CacheInv, Calm
<1>6. QED BY <1>3, <1>5 DEF CacheInv

LEMMA MakeEntry ==
    ASSUME NEW left \in 1 .. HardTtl, NEW new \in SUBSET Watched
    PROVE  [left |-> left, new |-> new] \in Entry
  BY Zenon DEF Entry

(* A tick takes as much from a lock as it gives to the load under it, and  *)
(* none is let through that would take a load beyond its limit.            *)
LEMMA TickKeeps ==
    ASSUME CacheInv, Tick
    PROVE  CacheInv'
<1> USE CacheConstants
<1>1. /\ entries \in [Places -> Entry \cup {None}] /\ locks \in [Places -> Lock \cup {None}]
      /\ req \in [Requests -> Request] /\ HoldsItsLock /\ StoreTypeOK /\ Calm
      /\ \A r \in Requests : MayTick(r)
  BY DEF CacheInv, CacheTypeOK, Tick
<1>2. ASSUME NEW p \in Places
      PROVE  /\ locks'[p] \in Lock \cup {None}
             /\ locks'[p] # None => locks[p] # None
             /\ locks[p] # None /\ locks[p].left > 1 =>
                   /\ locks'[p] # None /\ locks'[p].owner = locks[p].owner
                   /\ locks'[p].left = locks[p].left - 1
             /\ locks'[p] # None => locks'[p].owner = locks[p].owner
  <2>1. locks'[p] = Older(locks[p]) /\ locks[p] \in Lock \cup {None}
    BY <1>1 DEF Tick
  <2>2. CASE locks[p] = None \/ locks[p].left = 1
    BY <2>1, <2>2 DEF Older
  <2>3. CASE locks[p] # None /\ locks[p].left # 1
    <3>1. locks'[p] = [locks[p] EXCEPT !.left = locks[p].left - 1] /\ locks[p] \in Lock
      BY <2>1, <2>3 DEF Older
    <3>2. locks[p].left \in 1 .. LockTtl /\ locks[p].left - 1 \in 1 .. LockTtl
      BY <2>3, <3>1 DEF Lock
    <3>3. [locks[p] EXCEPT !.left = locks[p].left - 1] \in Lock
      BY <3>1, <3>2 DEF Lock
    <3>4. locks'[p].owner = locks[p].owner /\ locks'[p].left = locks[p].left - 1
      BY <3>1 DEF Lock
    <3>5. QED BY <2>3, <3>1, <3>3, <3>4, NoneIsNoData
  <2>4. QED BY <2>2, <2>3
<1>3. locks' \in [Places -> Lock \cup {None}]
  BY <1>2 DEF Tick
<1>4. ASSUME NEW p \in Places
      PROVE  entries'[p] \in Entry \cup {None} /\ (entries[p] = None => entries'[p] = None)
  <2>1. entries[p] \in Entry \cup {None}
    BY <1>1
  <2>2. CASE Older(entries[p]) = None
    BY <2>2 DEF Tick
  <2>3. CASE Older(entries[p]) # None
    <3>1. entries[p] \in Entry /\ entries[p].left # 1 /\ entries[p] # None
      BY <2>1, <2>3 DEF Older
    <3>2. entries[p].left \in 1 .. HardTtl /\ entries[p].new \in SUBSET Watched
      BY <3>1 DEF Entry
    <3>3. entries'[p] = [left |-> entries[p].left - 1, new |-> {r \in entries[p].new : Active(r)}]
      BY <2>3, <3>1 DEF Tick, Older, Entry
    <3>4. entries[p].left - 1 \in 1 .. HardTtl
      BY <3>1, <3>2
    <3>5. {r \in entries[p].new : Active(r)} \in SUBSET Watched
      BY <3>2
    <3>6. entries'[p] \in Entry
      BY <3>3, <3>4, <3>5, MakeEntry, Zenon
    <3>7. QED BY <3>1, <3>6
  <2>4. QED BY <2>2, <2>3
<1>5. entries' \in [Places -> Entry \cup {None}]
  BY <1>4 DEF Tick
<1>6. ASSUME NEW r \in Requests
      PROVE  /\ req'[r] \in Request /\ Keeps(r, req'[r], locks')
             /\ Active(r) => /\ req[r].pc \in {"load", "wait"} /\ req'[r].pc = req[r].pc
                             /\ req'[r].clock = req[r].clock + 1 /\ req'[r].at = req[r].at
             /\ ~Active(r) => req'[r].pc = "idle"
  <2>1. req[r] \in Request /\ Keeps(r, req[r], locks) /\ MayTick(r)
    BY <1>1 DEF HoldsItsLock
  <2>2. CASE ~Active(r)
    <3>1. req'[r] = IdleRequest
      BY <2>2 DEF Tick
    <3>2. QED BY <2>2, <3>1, RestingRequests DEF Keeps
  <2>3. CASE Active(r)
    <3>1. /\ req'[r] = [req[r] EXCEPT !.clock = @ + 1]
          /\ req[r].clock < LockTtl /\ req[r].clock \in Nat /\ req[r].pc \in {"load", "wait"}
          /\ req[r].pc = "load" => req[r].clock < MaxLoad
      BY <2>1, <2>3, RequestShape DEF Tick, MayTick, Shape
    <3>2. req'[r] \in Request
      BY <2>1, <3>1, RequestMoves
    <3>3. /\ req'[r].pc = req[r].pc /\ req'[r].clock = req[r].clock + 1
          /\ req'[r].at = req[r].at /\ req'[r].attempt = req[r].attempt
      BY <2>1, <3>1 DEF Request
    <3>4. CASE req[r].pc = "load" /\ req[r].at # None
      <4>1. /\ req[r].at \in Places /\ locks[req[r].at] # None
            /\ locks[req[r].at].owner = r /\ locks[req[r].at].left + req[r].clock >= LockTtl
            /\ req[r].attempt = 1
        BY <2>1, <3>4 DEF Keeps
      <4>2. locks[req[r].at].left \in Nat
        BY <1>1, <4>1 DEF Lock
      <4>3. locks[req[r].at].left > 1
        BY <3>1, <3>4, <4>1, <4>2
      <4>4. /\ locks'[req[r].at] # None /\ locks'[req[r].at].owner = r
            /\ locks'[req[r].at].left = locks[req[r].at].left - 1
        BY <1>2, <4>1, <4>3
      <4>5. Keeps(r, req'[r], locks')
        BY <2>1, <3>1, <3>3, <3>4, <4>1, <4>2, <4>4 DEF Keeps
      <4>6. QED BY <2>3, <3>1, <3>2, <3>3, <4>5
    <3>5. CASE req[r].pc = "load" /\ req[r].at = None
      <4>1. Keeps(r, req'[r], locks')
        BY <2>1, <3>1, <3>3, <3>5 DEF Keeps
      <4>2. QED BY <2>3, <3>1, <3>2, <3>3, <4>1
    <3>6. CASE req[r].pc = "wait"
      <4>1. Keeps(r, req'[r], locks')
        BY <2>1, <3>3, <3>6 DEF Keeps
      <4>2. QED BY <2>3, <3>1, <3>2, <3>3, <4>1
    <3>7. QED BY <3>1, <3>4, <3>5, <3>6
  <2>4. QED BY <2>2, <2>3
<1>7. req' \in [Requests -> Request]
  BY <1>6 DEF Tick
<1>8. StoreTypeOK' /\ UNCHANGED disturbed /\ \A w \in Workers : cooldown[w] = 0 => cooldown'[w] = 0
  <2>0. \A n \in 0 .. Cooldown : Less(n) \in 0 .. Cooldown
    BY DEF Less
  <2>1. cooldown' \in [Workers -> 0 .. Cooldown]
    BY <1>1, <2>0 DEF Tick, CoolDown, StoreTypeOK
  <2>2. UNCHANGED disturbed /\ \A w \in Workers : cooldown[w] = 0 => cooldown'[w] = 0
    BY DEF Tick, CoolDown, Less
  <2>3. QED BY <1>1, <2>1, <2>2 DEF StoreTypeOK
<1>9. CacheTypeOK' /\ HoldsItsLock'
  BY <1>3, <1>5, <1>6, <1>7, <1>8 DEF CacheTypeOK, HoldsItsLock
<1>10. ASSUME ~disturbed PROVE Calm'
  <2>1. \A w \in Workers : cooldown[w] = 0 /\ cooldown'[w] = 0
    BY <1>1, <1>8, <1>10 DEF Calm
  <2>2. \A r \in Requests : req'[r].pc \in {"reread", "load", "release"} => req'[r].at = Redis
    BY <1>1, <1>6, <1>10 DEF Calm
  <2>3. locks[Redis] # None => /\ Busy /\ Owner \in Requests /\ req[Owner].pc = "load"
                              /\ req[Owner].clock < MaxLoad
    <3>1. locks[Redis] # None => Owner \in Requests
      BY <1>1 DEF Owner, Lock
    <3>2. QED BY <1>1, <1>10, <3>1 DEF Calm, Busy, MayTick, Active
  <2>4. locks[Redis] # None => /\ locks'[Redis] # None /\ Owner' = Owner
                              /\ req'[Owner].pc = "load"
                              /\ req'[Owner].clock = req[Owner].clock + 1
    <3>1. ASSUME locks[Redis] # None PROVE locks[Redis].left > 1
      <4>1. req[Owner].at = Redis /\ Keeps(Owner, req[Owner], locks) /\ req[Owner].clock < MaxLoad
        BY <1>1, <1>10, <2>3, <3>1 DEF Calm, HoldsItsLock
      <4>2. req[Owner].clock \in Nat /\ locks[Redis].left \in Nat
        BY <1>1, <2>3, <3>1, RequestShape DEF Shape, Lock
      <4>3. locks[Redis].left + req[Owner].clock >= LockTtl
        BY <2>3, <3>1, <4>1 DEF Keeps
      <4>4. QED BY <4>1, <4>2, <4>3
    <3>2. locks[Redis] # None => locks'[Redis] # None /\ Owner' = Owner
      BY <1>2, <3>1 DEF Owner
    <3>3. QED BY <1>6, <2>3, <3>2 DEF Active
  <2>5. locks'[Redis] # None => Busy'
    BY <1>2, <2>4 DEF Busy
  <2>6. ASSUME NEW r \in Requests, req'[r].pc = "wait"
        PROVE  /\ req'[r].clock <= MaxLoad
               /\ Busy' /\ req'[r].clock <= req'[Owner'].clock
    <3>1. req[r].pc = "wait" /\ req'[r].clock = req[r].clock + 1 /\ Visible(r) = None
      BY <1>1, <1>6, <2>6 DEF Active, MayTick
    <3>2. entries[Redis] = None
      BY <2>1, <3>1 DEF Visible, At
    <3>3. Busy /\ req[r].clock <= req[Owner].clock
      BY <1>1, <1>10, <3>1, <3>2 DEF Calm
    <3>4. locks[Redis] # None
      BY <3>3 DEF Busy
    <3>5. req[Owner].clock \in Nat /\ req[r].clock \in Nat
      BY <1>1, <2>3, <3>4, RequestShape DEF Shape
    <3>6. QED BY <2>3, <2>4, <2>5, <3>1, <3>3, <3>4, <3>5
  <2>7. QED BY <2>1, <2>2, <2>5, <2>6 DEF Calm
<1>11. Calm'
  BY <1>8, <1>10 DEF Calm
<1>12. QED BY <1>9, <1>11 DEF CacheInv

-----------------------------------------------------------------------------
(* Every step keeps the invariant. *)
LEMMA CacheStep == CacheInv /\ [CacheNext]_cvars => CacheInv'
<1> SUFFICES ASSUME CacheInv, [CacheNext]_cvars PROVE CacheInv'
  OBVIOUS
<1>1. ASSUME NEW r \in Requests, Step(r) PROVE CacheInv'
  BY <1>1, LookupKeeps, AcquireKeeps, RereadKeeps, StoreKeeps, ReleaseKeeps, PollKeeps, GiveUpKeeps
     DEF Step
<1>2. ASSUME NEW r \in Requests, Fail(r) PROVE CacheInv'
  BY <1>2, AcquireTornKeeps, LoadFailsKeeps DEF Fail
<1>3. CASE UNCHANGED cvars
  BY <1>3 DEF cvars, CacheInv, CacheTypeOK, StoreTypeOK, HoldsItsLock, Keeps, Calm, Busy, Owner
<1>4. QED
  BY <1>1, <1>2, <1>3, ArriveKeeps, LoseRedisKeeps, WorkerCrashKeeps, TrimKeeps,
     RedisRestartKeeps, TickKeeps DEF CacheNext

(* Types of the entries, of the locks and of the requests' progress, and   *)
(* what is known of each load and its lock.                                *)
THEOREM CacheInvariant == CacheSpec => []CacheInv
<1>1. CacheInit => CacheInv
  BY CacheInvInit
<1>2. QED BY <1>1, CacheStep, PTL DEF CacheSpec

(* At most one load runs under the lock of each place, however often Redis *)
(* and the workers fail and however many requests there are.               *)
THEOREM LoadsAreExclusive == CacheSpec => []OneLoadPerLock
<1>1. CacheInv => OneLoadPerLock
  BY DEF CacheInv, HoldsItsLock, Keeps, OneLoadPerLock, Loading
<1>2. QED BY <1>1, CacheInvariant, PTL

(* Requests for a key at the same time use one execution of the loader, as *)
(* long as nothing failed: a miss, a forced refresh, a refresh of a stale  *)
(* entry and whoever gave up waiting included.                             *)
THEOREM FlightIsSingle == CacheSpec => []SingleFlight
<1>1. CacheInv => SingleFlight
  <2> SUFFICES ASSUME CacheInv, ~disturbed PROVE Cardinality(Loading) <= 1
    BY DEF SingleFlight
  <2>1. \A r \in Loading : r = Owner
    BY CacheConstants DEF CacheInv, Calm, HoldsItsLock, Keeps, Owner, Loading
  <2>2. CASE Loading = {}
    BY <2>2, FS_EmptySet
  <2>3. CASE Loading # {}
    <3>1. Loading = {Owner}
      BY <2>1, <2>3
    <3>2. QED BY <3>1, FS_Singleton
  <2>4. QED BY <2>2, <2>3
<1>2. QED BY <1>1, CacheInvariant, PTL

=============================================================================
