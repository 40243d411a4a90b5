--------------------------- MODULE FreshnessProofs ---------------------------
(***************************************************************************)
(* Proofs about the age of what a dashboard shows.  Of Freshness, for any  *)
(* number of workers and checks: what the lock of a source gives while no  *)
(* query is slower than it lives, and what a forced check may share.  Of   *)
(* WidgetReplay, for any sources, metrics and questions: which results are *)
(* found under the current watermarks, and the numbers of stored widgets.  *)
(***************************************************************************)
EXTENDS Freshness, WidgetReplay, FiniteSetTheorems, TLAPS

(* A check is a record whose stamp and clock do not matter here. *)
Pcs == {"idle", "get", "acquire", "reread", "query", "release", "wait", "done"}
Answers == {"nothing", "old", "new"}
Shape(P, C) == [pc: Pcs, force: BOOLEAN, prior: P, clock: C, locked: BOOLEAN, got: Answers]
Shaped(q) == \E P, C : q \in Shape(P, C)

UnderLock(r) == check[r].pc \in {"reread", "query"} /\ check[r].locked

(* While nothing failed and no lock ran out on its query, everything is at  *)
(* Redis, and who works under the lock owns it.                            *)
Orderly ==
    ~disturbed /\ ~outlived =>
        /\ \A w \in Workers : cooldown[w] = 0 /\ locks[w] = None
        /\ \A r \in Checks : UnderLock(r) => locks[Redis] # None /\ locks[Redis].owner = r

FreshInv ==
    /\ locks = [p \in Places |-> locks[p]] /\ \A p \in Places : locks[p] \in Lock \cup {None}
    /\ check = [r \in Checks |-> check[r]] /\ \A r \in Checks : Shaped(check[r])
    /\ \A r \in Checks : check[r].pc \in {"get", "acquire", "wait"} => ~check[r].locked
    /\ Orderly

LEMMA FreshConstants ==
    /\ \A r \in Checks : WorkerOf[r] \in Workers
    /\ \A w \in Workers : w \in Places /\ w # Redis
    /\ Redis \in Places /\ Places = Workers \cup {Redis} /\ LockTtl \in Nat /\ LockTtl >= 1
  BY FreshAssumption, StoreAssumption DEF Places

LEMMA Names ==
    /\ "idle" \in Pcs /\ "get" \in Pcs /\ "acquire" \in Pcs /\ "reread" \in Pcs
    /\ "query" \in Pcs /\ "release" \in Pcs /\ "wait" \in Pcs /\ "done" \in Pcs
    /\ "nothing" \in Answers /\ "old" \in Answers /\ "new" \in Answers
  BY DEF Pcs, Answers

(* What the steps make of a check. *)
LEMMA CheckMoves ==
    ASSUME NEW q, Shaped(q)
    PROVE  /\ \A pc \in Pcs : \A x, y :
                 /\ Shaped([q EXCEPT !.pc = pc, !.prior = x])
                 /\ Shaped([q EXCEPT !.pc = pc, !.clock = x])
                 /\ Shaped([q EXCEPT !.pc = pc, !.clock = x, !.prior = y])
                 /\ Shaped([q EXCEPT !.clock = x])
           /\ \A pc \in Pcs : \A b \in BOOLEAN : Shaped([q EXCEPT !.pc = pc, !.locked = b])
           /\ q.pc \in Pcs /\ q.locked \in BOOLEAN /\ q.force \in BOOLEAN
<1>1. PICK P, C : q \in Shape(P, C)
  BY DEF Shaped
<1>2. \A pc \in Pcs : \A x : [q EXCEPT !.pc = pc, !.prior = x] \in Shape({x}, C)
  BY <1>1 DEF Shape
<1>3. \A pc \in Pcs : \A x : [q EXCEPT !.pc = pc, !.clock = x] \in Shape(P, {x})
  BY <1>1 DEF Shape
<1>4. \A pc \in Pcs : \A x, y :
         [q EXCEPT !.pc = pc, !.clock = x, !.prior = y] \in Shape({y}, {x})
  BY <1>1 DEF Shape
<1>5. \A pc \in Pcs : \A b \in BOOLEAN : [q EXCEPT !.pc = pc, !.locked = b] \in Shape(P, C)
  BY <1>1 DEF Shape
<1>6. \A x : [q EXCEPT !.clock = x] \in Shape(P, {x})
  BY <1>1 DEF Shape
<1>7. q.pc \in Pcs /\ q.locked \in BOOLEAN /\ q.force \in BOOLEAN
  BY <1>1 DEF Shape
<1>8. \A pc \in Pcs : \A x, y :
         /\ Shaped([q EXCEPT !.pc = pc, !.prior = x])
         /\ Shaped([q EXCEPT !.pc = pc, !.clock = x])
         /\ Shaped([q EXCEPT !.pc = pc, !.clock = x, !.prior = y])
         /\ Shaped([q EXCEPT !.clock = x])
  BY <1>2, <1>3, <1>4, <1>6, Zenon DEF Shaped
<1>9. \A pc \in Pcs : \A b \in BOOLEAN : Shaped([q EXCEPT !.pc = pc, !.locked = b])
  BY <1>5, Zenon DEF Shaped
<1>10. QED BY <1>7, <1>8, <1>9, Zenon

(* The same for each of the steps, with the place it leads to and the lock. *)
LEMMA AcquireShape ==
    ASSUME NEW q, Shaped(q), NEW x
    PROVE  /\ Shaped([q EXCEPT !.pc = "acquire", !.prior = x])
           /\ [q EXCEPT !.pc = "acquire", !.prior = x].pc = "acquire"
           /\ [q EXCEPT !.pc = "acquire", !.prior = x].locked <=> q.locked
<1>1. PICK P, C : q \in Shape(P, C)
  BY DEF Shaped
<1>2. Shaped([q EXCEPT !.pc = "acquire", !.prior = x])
  BY Names, CheckMoves, Zenon
<1>3. [q EXCEPT !.pc = "acquire", !.prior = x].pc = "acquire"
  BY <1>1 DEF Shape
<1>4. [q EXCEPT !.pc = "acquire", !.prior = x].locked <=> q.locked
  BY <1>1 DEF Shape
<1>5. QED BY <1>2, <1>3, <1>4, Zenon

LEMMA RereadShape ==
    ASSUME NEW q, Shaped(q)
    PROVE  /\ Shaped([q EXCEPT !.pc = "reread", !.locked = TRUE])
           /\ [q EXCEPT !.pc = "reread", !.locked = TRUE].pc = "reread"
<1>1. PICK P, C : q \in Shape(P, C)
  BY DEF Shaped
<1>2. Shaped([q EXCEPT !.pc = "reread", !.locked = TRUE])
  BY Names, CheckMoves, Zenon
<1>3. [q EXCEPT !.pc = "reread", !.locked = TRUE].pc = "reread"
  BY <1>1 DEF Shape
<1>4. QED BY <1>2, <1>3, Zenon

LEMMA WaitShape ==
    ASSUME NEW q, Shaped(q)
    PROVE  /\ Shaped([q EXCEPT !.pc = "wait", !.clock = 0])
           /\ [q EXCEPT !.pc = "wait", !.clock = 0].pc = "wait"
           /\ [q EXCEPT !.pc = "wait", !.clock = 0].locked <=> q.locked
<1>1. PICK P, C : q \in Shape(P, C)
  BY DEF Shaped
<1>2. Shaped([q EXCEPT !.pc = "wait", !.clock = 0])
  BY Names, CheckMoves, Zenon
<1>3. [q EXCEPT !.pc = "wait", !.clock = 0].pc = "wait"
  BY <1>1 DEF Shape
<1>4. [q EXCEPT !.pc = "wait", !.clock = 0].locked <=> q.locked
  BY <1>1 DEF Shape
<1>5. QED BY <1>2, <1>3, <1>4, Zenon

LEMMA QueryShape ==
    ASSUME NEW q, Shaped(q)
    PROVE  /\ Shaped([q EXCEPT !.pc = "query", !.clock = 0, !.prior = None])
           /\ [q EXCEPT !.pc = "query", !.clock = 0, !.prior = None].pc = "query"
           /\ [q EXCEPT !.pc = "query", !.clock = 0, !.prior = None].locked <=> q.locked
<1>1. PICK P, C : q \in Shape(P, C)
  BY DEF Shaped
<1>2. Shaped([q EXCEPT !.pc = "query", !.clock = 0, !.prior = None])
  BY Names, CheckMoves, Zenon
<1>3. [q EXCEPT !.pc = "query", !.clock = 0, !.prior = None].pc = "query"
  BY <1>1 DEF Shape
<1>4. [q EXCEPT !.pc = "query", !.clock = 0, !.prior = None].locked <=> q.locked
  BY <1>1 DEF Shape
<1>5. QED BY <1>2, <1>3, <1>4, Zenon

LEMMA ReleaseShape ==
    ASSUME NEW q, Shaped(q), NEW b \in BOOLEAN
    PROVE  /\ Shaped([q EXCEPT !.pc = "release", !.locked = b])
           /\ [q EXCEPT !.pc = "release", !.locked = b].pc = "release"
<1>1. PICK P, C : q \in Shape(P, C)
  BY DEF Shaped
<1>2. Shaped([q EXCEPT !.pc = "release", !.locked = b])
  BY Names, CheckMoves, Zenon
<1>3. [q EXCEPT !.pc = "release", !.locked = b].pc = "release"
  BY <1>1 DEF Shape
<1>4. QED BY <1>2, <1>3, Zenon

LEMMA DoneShape ==
    ASSUME NEW q, Shaped(q)
    PROVE  /\ Shaped([q EXCEPT !.pc = "done", !.locked = FALSE])
           /\ [q EXCEPT !.pc = "done", !.locked = FALSE].pc = "done"
<1>1. PICK P, C : q \in Shape(P, C)
  BY DEF Shaped
<1>2. Shaped([q EXCEPT !.pc = "done", !.locked = FALSE])
  BY Names, CheckMoves, Zenon
<1>3. [q EXCEPT !.pc = "done", !.locked = FALSE].pc = "done"
  BY <1>1 DEF Shape
<1>4. QED BY <1>2, <1>3, Zenon

LEMMA AgedShape ==
    ASSUME NEW q, Shaped(q)
    PROVE  /\ Shaped([q EXCEPT !.clock = @ + 1])
           /\ [q EXCEPT !.clock = @ + 1].pc = q.pc
           /\ [q EXCEPT !.clock = @ + 1].locked <=> q.locked
<1>1. PICK P, C : q \in Shape(P, C)
  BY DEF Shaped
<1>2. Shaped([q EXCEPT !.clock = @ + 1])
  BY Names, CheckMoves, Zenon
<1>3. [q EXCEPT !.clock = @ + 1].pc = q.pc
  BY <1>1 DEF Shape
<1>4. [q EXCEPT !.clock = @ + 1].locked <=> q.locked
  BY <1>1 DEF Shape
<1>5. QED BY <1>2, <1>3, <1>4, Zenon

LEMMA NewChecks ==
    /\ Shaped(IdleCheck) /\ IdleCheck.pc = "idle" /\ ~IdleCheck.locked
    /\ \A force \in BOOLEAN :
          /\ Shaped([IdleCheck EXCEPT !.pc = "get", !.force = force])
          /\ [IdleCheck EXCEPT !.pc = "get", !.force = force].pc = "get"
          /\ ~[IdleCheck EXCEPT !.pc = "get", !.force = force].locked
    /\ Shaped([IdleCheck EXCEPT !.pc = "done"]) /\ [IdleCheck EXCEPT !.pc = "done"].pc = "done"
    /\ \A r \in Checks : \A m : Shaped(check[r]) =>
          /\ Shaped(Reply(r, m)) /\ Reply(r, m).pc = "done"
          /\ Shaped(Unavailable(r)) /\ Unavailable(r).pc = "done"
<1>1. IdleCheck \in Shape({None}, {0})
  BY Names DEF IdleCheck, Shape
<1>2. \A pc \in Pcs : \A force \in BOOLEAN :
         [IdleCheck EXCEPT !.pc = pc, !.force = force] \in Shape({None}, {0})
  BY <1>1 DEF Shape
<1>3. \A force \in BOOLEAN : \A got \in Answers :
         [IdleCheck EXCEPT !.pc = "done", !.force = force, !.got = got] \in Shape({None}, {0})
  BY <1>1, Names DEF Shape
<1>4. [IdleCheck EXCEPT !.pc = "done"] \in Shape({None}, {0})
  BY <1>1, Names DEF Shape
<1>5. /\ IdleCheck.pc = "idle" /\ ~IdleCheck.locked
      /\ [IdleCheck EXCEPT !.pc = "done"].pc = "done"
  BY DEF IdleCheck
<1>6. \A force \in BOOLEAN : /\ [IdleCheck EXCEPT !.pc = "get", !.force = force].pc = "get"
                             /\ ~[IdleCheck EXCEPT !.pc = "get", !.force = force].locked
  BY DEF IdleCheck
<1>7. ASSUME NEW r \in Checks, NEW m, Shaped(check[r])
      PROVE  /\ Shaped(Reply(r, m)) /\ Reply(r, m).pc = "done"
             /\ Shaped(Unavailable(r)) /\ Unavailable(r).pc = "done"
  <2>1. check[r].force \in BOOLEAN
    BY <1>7, CheckMoves
  <2>2. (IF r \in m.for THEN "new" ELSE "old") \in Answers
    BY Names
  <2>3. Reply(r, m) \in Shape({None}, {0})
    BY <1>3, <2>1, <2>2 DEF Reply
  <2>4. Unavailable(r) \in Shape({None}, {0})
    BY <1>2, <2>1, Names DEF Unavailable
  <2>5. Reply(r, m).pc = "done" /\ Unavailable(r).pc = "done"
    BY DEF Reply, Unavailable, IdleCheck
  <2>6. QED BY <2>3, <2>4, <2>5 DEF Shaped
<1>8. QED BY <1>1, <1>2, <1>4, <1>5, <1>6, <1>7, Names DEF Shaped

LEMMA FreshInvInit == FreshInit => FreshInv
  BY NewChecks, FreshConstants DEF FreshInit, StoreInit, FreshInv, Orderly, UnderLock

-----------------------------------------------------------------------------
(* One check moves on, and the locks stay: under a lock only if it was.     *)
LEMMA OneMoves ==
    ASSUME FreshInv, NEW r \in Checks, NEW q, Shaped(q), check' = [check EXCEPT ![r] = q],
           UNCHANGED <<cooldown, disturbed, locks, outlived>>,
           q.pc \in {"get", "acquire", "wait"} => ~q.locked,
           q.pc \in {"reread", "query"} /\ q.locked => UnderLock(r)
    PROVE  FreshInv'
<1>1. /\ check'[r] = q /\ (\A x \in Checks \ {r} : check'[x] = check[x])
      /\ check' = [x \in Checks |-> check'[x]]
  BY DEF FreshInv
<1>2. Orderly'
  BY <1>1 DEF FreshInv, Orderly, UnderLock
<1>3. QED BY <1>1, <1>2 DEF FreshInv

(* The same once something has failed, with locks of whatever kind. *)
LEMMA AfterFailure ==
    ASSUME FreshInv, disturbed',
           locks' = [p \in Places |-> locks'[p]], \A p \in Places : locks'[p] \in Lock \cup {None},
           check' = [r \in Checks |-> check'[r]], \A r \in Checks : Shaped(check'[r]),
           \A r \in Checks : check'[r].pc \in {"get", "acquire", "wait"} => ~check'[r].locked
    PROVE  FreshInv'
  BY DEF FreshInv, Orderly

LEMMA AskKeeps ==
    ASSUME FreshInv, NEW r \in Checks, NEW force \in BOOLEAN, Ask(r, force)
    PROVE  FreshInv'
<1> DEFINE q == [IdleCheck EXCEPT !.pc = "get", !.force = force]
<1>1. Shaped(q) /\ q.pc = "get" /\ ~q.locked
  BY NewChecks
<1>2. check' = [check EXCEPT ![r] = q] /\ UNCHANGED <<cooldown, disturbed, locks, outlived>>
  BY DEF Ask
<1> HIDE DEF q
<1>3. QED BY <1>1, <1>2, OneMoves

LEMMA GetKeeps ==
    ASSUME FreshInv, NEW r \in Checks, Get(r)
    PROVE  FreshInv'
<1>1. /\ Shaped(check[r]) /\ check[r].pc = "get" /\ ~check[r].locked
      /\ UNCHANGED <<cooldown, disturbed, locks, outlived>>
  BY DEF FreshInv, Get
<1>2. CASE check' = [check EXCEPT ![r] = Reply(r, Seen(r))]
  BY <1>1, <1>2, NewChecks, OneMoves
<1>3. CASE check' = [check EXCEPT ![r] =
                       [check[r] EXCEPT !.pc = "acquire", !.prior = StampOf(Seen(r))]]
  <2> DEFINE q == [check[r] EXCEPT !.pc = "acquire", !.prior = StampOf(Seen(r))]
  <2>1. Shaped(q) /\ q.pc = "acquire" /\ ~q.locked
    BY <1>1, AcquireShape, Zenon
  <2>2. check' = [check EXCEPT ![r] = q]
    BY <1>3
  <2> HIDE DEF q
  <2>3. QED BY <1>1, <2>1, <2>2, OneMoves
<1>4. QED BY <1>2, <1>3 DEF Get

(* Asking for the lock. *)
LEMMA AskLockEffect ==
    ASSUME FreshInv, NEW r \in Checks, NEW ps \in SUBSET Places, NEW p \in ps, AskLock(r, ps, p)
    PROVE  /\ locks' = [x \in Places |-> locks'[x]]
           /\ \A x \in Places : locks'[x] \in Lock \cup {None}
           /\ check' = [x \in Checks |-> check'[x]] /\ \A x \in Checks : Shaped(check'[x])
           /\ \A x \in Checks : check'[x].pc \in {"get", "acquire", "wait"} => ~check'[x].locked
           /\ \A x \in Checks \ {r} : check'[x] = check[x]
           /\ \A x \in Places : locks[x] # None \/ x \notin ps => locks'[x] = locks[x]
           /\ check'[r].pc = "reread" => locks[p] = None /\ locks'[p] # None /\ locks'[p].owner = r
           /\ check'[r].pc \in {"reread", "wait"}
<1>1. /\ Shaped(check[r]) /\ check[r].pc = "acquire" /\ ~check[r].locked
      /\ locks' = Take(r, ps)
  BY DEF FreshInv, AskLock
<1>2. [owner |-> r, left |-> LockTtl] \in Lock
  <2>1. LockTtl \in 1 .. LockTtl
    BY FreshConstants
  <2>2. QED BY <2>1, Zenon DEF Lock
<1>3. /\ locks' = [x \in Places |-> locks'[x]]
      /\ \A x \in Places : locks'[x] \in Lock \cup {None}
      /\ \A x \in Places : locks[x] # None \/ x \notin ps => locks'[x] = locks[x]
  BY <1>1, <1>2 DEF FreshInv, Take
<1>4. CASE locks'[p] # locks[p]
  <2> DEFINE q == [check[r] EXCEPT !.pc = "reread", !.locked = TRUE]
  <2>1. check' = [check EXCEPT ![r] = q]
    BY <1>4 DEF AskLock, FreshInv
  <2>2. Shaped(q) /\ q.pc = "reread"
    BY <1>1, RereadShape, Zenon
  <2>3. locks[p] = None /\ locks'[p] = [owner |-> r, left |-> LockTtl] /\ locks'[p] # None
    BY <1>1, <1>4 DEF Take
  <2> HIDE DEF q
  <2>4. QED BY <1>3, <2>1, <2>2, <2>3 DEF FreshInv
<1>5. CASE locks'[p] = locks[p]
  <2> DEFINE q == [check[r] EXCEPT !.pc = "wait", !.clock = 0]
  <2>1. check' = [check EXCEPT ![r] = q]
    BY <1>5 DEF AskLock, FreshInv
  <2>2. Shaped(q) /\ q.pc = "wait" /\ ~q.locked
    BY <1>1, WaitShape, Zenon
  <2> HIDE DEF q
  <2>3. QED BY <1>3, <2>1, <2>2 DEF FreshInv
<1>6. QED BY <1>4, <1>5

LEMMA AcquireKeeps ==
    ASSUME FreshInv, NEW r \in Checks, Acquire(r)
    PROVE  FreshInv'
<1> DEFINE p == At(WorkerOf[r])
<1>1. /\ p \in Places /\ {p} \in SUBSET Places /\ p \in {p} /\ AskLock(r, {p}, p)
      /\ UNCHANGED <<cooldown, disturbed>> /\ outlived' = outlived
  BY FreshConstants DEF Acquire, AskLock, At
<1>2. ~disturbed /\ ~outlived => p = Redis
  BY FreshConstants DEF FreshInv, Orderly, At
<1> HIDE DEF p
<1>3. /\ locks' = [x \in Places |-> locks'[x]]
      /\ \A x \in Places : locks'[x] \in Lock \cup {None}
      /\ check' = [x \in Checks |-> check'[x]] /\ \A x \in Checks : Shaped(check'[x])
      /\ \A x \in Checks : check'[x].pc \in {"get", "acquire", "wait"} => ~check'[x].locked
      /\ \A x \in Checks \ {r} : check'[x] = check[x]
      /\ \A x \in Places : locks[x] # None \/ x \notin {p} => locks'[x] = locks[x]
      /\ check'[r].pc = "reread" => locks[p] = None /\ locks'[p] # None /\ locks'[p].owner = r
      /\ check'[r].pc \in {"reread", "wait"}
  BY <1>1, AskLockEffect
<1>4. Orderly'
  <2> SUFFICES ASSUME ~disturbed, ~outlived
               PROVE  /\ \A w \in Workers : cooldown'[w] = 0 /\ locks'[w] = None
                      /\ \A x \in Checks : UnderLock(x)' =>
                            locks'[Redis] # None /\ locks'[Redis].owner = x
    BY <1>1 DEF Orderly
  <2>1. ASSUME NEW w \in Workers
        PROVE  cooldown'[w] = 0 /\ locks'[w] = None
    <3>1. w \in Places /\ w \notin {p} /\ cooldown[w] = 0 /\ locks[w] = None
      BY <1>2, FreshConstants DEF FreshInv, Orderly
    <3>2. locks'[w] = locks[w]
      BY <1>3, <3>1
    <3>3. QED BY <1>1, <3>1, <3>2
  <2>2. ASSUME NEW x \in Checks \ {r}, UnderLock(x)'
        PROVE  locks'[Redis] # None /\ locks'[Redis].owner = x
    BY <1>3, <2>2, FreshConstants DEF FreshInv, Orderly, UnderLock
  <2>3. UnderLock(r)' => locks'[Redis] # None /\ locks'[Redis].owner = r
    BY <1>2, <1>3 DEF UnderLock
  <2>4. QED BY <2>1, <2>2, <2>3
<1>5. QED BY <1>3, <1>4 DEF FreshInv

LEMMA AcquireTornKeeps ==
    ASSUME FreshInv, NEW r \in Checks, AcquireTorn(r)
    PROVE  FreshInv'
<1>1. /\ Torn(WorkerOf[r]) \in SUBSET Places /\ WorkerOf[r] \in Torn(WorkerOf[r])
      /\ AskLock(r, Torn(WorkerOf[r]), WorkerOf[r]) /\ disturbed'
  BY FreshConstants DEF AcquireTorn, Torn, Offline
<1>2. QED BY <1>1, AskLockEffect, AfterFailure

LEMMA RereadKeeps ==
    ASSUME FreshInv, NEW r \in Checks, Reread(r)
    PROVE  FreshInv'
<1>1. /\ Shaped(check[r]) /\ check[r].pc = "reread"
      /\ UNCHANGED <<cooldown, disturbed, locks, outlived>>
  BY DEF FreshInv, Reread
<1>2. CASE check' = [check EXCEPT ![r] = Releasing(r, Reply(r, Seen(r)))]
  <2> DEFINE q == [Reply(r, Seen(r)) EXCEPT !.pc = "release", !.locked = check[r].locked]
  <2>1. Shaped(Reply(r, Seen(r))) /\ check[r].locked \in BOOLEAN
    BY <1>1, NewChecks, CheckMoves
  <2> DEFINE old == Reply(r, Seen(r))
             b == check[r].locked
  <2>2. /\ Shaped([old EXCEPT !.pc = "release", !.locked = b])
        /\ [old EXCEPT !.pc = "release", !.locked = b].pc = "release"
    <3>1. Shaped(old) /\ b \in BOOLEAN
      BY <2>1
    <3> HIDE DEF old, b
    <3>2. QED BY <3>1, ReleaseShape, Zenon
  <2>3. check' = [check EXCEPT ![r] = q]
    BY <1>2 DEF Releasing
  <2>4. Shaped(q) /\ q.pc = "release"
    BY <2>2
  <2> HIDE DEF q
  <2>5. /\ q.pc \in {"get", "acquire", "wait"} => ~q.locked
        /\ q.pc \in {"reread", "query"} /\ q.locked => UnderLock(r)
    BY <2>4
  <2>6. QED BY <1>1, <2>3, <2>4, <2>5, OneMoves, Zenon
<1>3. CASE check' = [check EXCEPT ![r] = Query(r)]
  <2> DEFINE q == [check[r] EXCEPT !.pc = "query", !.clock = 0, !.prior = None]
  <2>1. Shaped(q) /\ q.pc = "query" /\ (q.locked <=> check[r].locked)
    BY <1>1, QueryShape, Zenon
  <2>2. check' = [check EXCEPT ![r] = q]
    BY <1>3 DEF Query
  <2> HIDE DEF q
  <2>3. QED BY <1>1, <2>1, <2>2, OneMoves DEF UnderLock
<1>4. QED BY <1>2, <1>3 DEF Reread

LEMMA PollKeeps ==
    ASSUME FreshInv, NEW r \in Checks, Poll(r)
    PROVE  FreshInv'
<1>1. /\ Shaped(check[r]) /\ check' = [check EXCEPT ![r] = Reply(r, Seen(r))]
      /\ UNCHANGED <<cooldown, disturbed, locks, outlived>>
  BY DEF FreshInv, Poll
<1>2. QED BY <1>1, NewChecks, OneMoves

LEMMA GiveUpKeeps ==
    ASSUME FreshInv, NEW r \in Checks, GiveUp(r)
    PROVE  FreshInv'
<1> DEFINE q == [check[r] EXCEPT !.pc = "query", !.clock = 0, !.prior = None]
<1>1. /\ Shaped(check[r]) /\ ~check[r].locked
      /\ UNCHANGED <<cooldown, disturbed, locks, outlived>>
  BY DEF FreshInv, GiveUp
<1>2. Shaped(q) /\ q.pc = "query" /\ ~q.locked
  BY <1>1, QueryShape, Zenon
<1>3. check' = [check EXCEPT ![r] = q]
  BY DEF GiveUp, Query
<1> HIDE DEF q
<1>4. QED BY <1>1, <1>2, <1>3, OneMoves

(* A query ends, with an answer or without. *)
LEMMA EndedEffect ==
    ASSUME FreshInv, NEW r \in Checks, NEW reply, Shaped(reply), reply.pc = "done"
    PROVE  Shaped(Ended(r, reply)) /\ Ended(r, reply).pc \in {"done", "release"}
<1>1. check[r].locked \in BOOLEAN
  BY CheckMoves DEF FreshInv
<1> DEFINE b == check[r].locked
<1>2. /\ Shaped([reply EXCEPT !.pc = "release", !.locked = b])
      /\ [reply EXCEPT !.pc = "release", !.locked = b].pc = "release"
  <2>1. b \in BOOLEAN
    BY <1>1
  <2> HIDE DEF b
  <2>2. QED BY <2>1, ReleaseShape, Zenon
<1>3. QED BY <1>2 DEF Ended, Releasing

LEMMA StoreKeeps ==
    ASSUME FreshInv, NEW r \in Checks, Store(r)
    PROVE  FreshInv'
<1>1. PICK m : check' = [check EXCEPT ![r] = Ended(r, Reply(r, m))]
  BY DEF Store
<1>2. UNCHANGED <<cooldown, disturbed, locks, outlived>> /\ Shaped(check[r])
  BY DEF Store, FreshInv
<1>3. QED BY <1>1, <1>2, NewChecks, EndedEffect, OneMoves

LEMMA QueryFailsKeeps ==
    ASSUME FreshInv, NEW r \in Checks, QueryFails(r)
    PROVE  FreshInv'
<1>1. /\ check' = [check EXCEPT ![r] = Ended(r, Unavailable(r))] /\ disturbed'
      /\ UNCHANGED locks /\ Shaped(check[r])
  BY DEF QueryFails, FreshInv
<1>2. /\ Shaped(Ended(r, Unavailable(r))) /\ Ended(r, Unavailable(r)).pc \in {"done", "release"}
  BY <1>1, NewChecks, EndedEffect
<1>3. QED BY <1>1, <1>2, AfterFailure DEF FreshInv

LEMMA ReleaseKeeps ==
    ASSUME FreshInv, NEW r \in Checks, Release(r)
    PROVE  FreshInv'
<1> DEFINE q == [check[r] EXCEPT !.pc = "done", !.locked = FALSE]
<1>1. Shaped(check[r]) /\ check[r].pc = "release" /\ UNCHANGED <<cooldown, disturbed, outlived>>
  BY DEF FreshInv, Release
<1>2. Shaped(q) /\ q.pc = "done"
  BY <1>1, DoneShape, Zenon
<1>3. check' = [check EXCEPT ![r] = q]
  BY DEF Release, FreshInv
<1> HIDE DEF q
<1>4. /\ locks' = [p \in Places |-> locks'[p]]
      /\ \A p \in Places : locks'[p] \in Lock \cup {None}
      /\ \A p \in Places : \/ locks'[p] = locks[p]
                           \/ locks'[p] = None /\ locks[p] # None /\ locks[p].owner = r
  <2>1. locks' = Released(r) /\ \A p \in Places : locks[p] \in Lock \cup {None}
    BY DEF FreshInv, Release
  <2>2. locks' = [p \in Places |-> locks'[p]]
    BY <2>1 DEF Released
  <2>3. ASSUME NEW p \in Places
        PROVE  \/ locks'[p] = locks[p]
               \/ locks'[p] = None /\ locks[p] # None /\ locks[p].owner = r
    <3>1. locks'[p] = IF p \in Mirrored(WorkerOf[r]) /\ locks[p] # None /\ locks[p].owner = r
                      THEN None ELSE locks[p]
      BY <2>1 DEF Released
    <3>2. QED BY <3>1
  <2>4. QED BY <2>1, <2>2, <2>3
<1>5. /\ check'[r].pc = "done" /\ (\A x \in Checks \ {r} : check'[x] = check[x])
      /\ check' = [x \in Checks |-> check'[x]] /\ \A x \in Checks : Shaped(check'[x])
      /\ \A x \in Checks : check'[x].pc \in {"get", "acquire", "wait"} => ~check'[x].locked
  BY <1>2, <1>3 DEF FreshInv
<1>6. Orderly'
  <2> SUFFICES ASSUME ~disturbed, ~outlived
               PROVE  /\ \A w \in Workers : cooldown'[w] = 0 /\ locks'[w] = None
                      /\ \A x \in Checks : UnderLock(x)' =>
                            locks'[Redis] # None /\ locks'[Redis].owner = x
    BY <1>1 DEF Orderly
  <2>1. \A w \in Workers : cooldown'[w] = 0 /\ locks'[w] = None
    BY <1>1, <1>4, FreshConstants DEF FreshInv, Orderly
  <2>2. ASSUME NEW x \in Checks, UnderLock(x)'
        PROVE  locks'[Redis] # None /\ locks'[Redis].owner = x
    <3>1. x # r /\ UnderLock(x)
      BY <1>5, <2>2 DEF UnderLock
    <3>2. locks[Redis] # None /\ locks[Redis].owner = x
      BY <3>1 DEF FreshInv, Orderly
    <3>3. QED BY <1>4, <3>1, <3>2, FreshConstants
  <2>3. QED BY <2>1, <2>2
<1>7. QED BY <1>4, <1>5, <1>6 DEF FreshInv

LEMMA StoreFailures ==
    ASSUME FreshInv, \/ \E w \in Workers : LoseRedis(w) \/ WorkerCrash(w) \/ Trim(w)
                     \/ RedisRestart
    PROVE  FreshInv'
<1>1. ASSUME NEW w \in Workers, LoseRedis(w) PROVE FreshInv'
  <2>1. disturbed' /\ UNCHANGED <<locks, check>>
    BY <1>1 DEF LoseRedis, Offline
  <2>2. QED BY <2>1, AfterFailure DEF FreshInv
<1>2. ASSUME NEW w \in Workers, WorkerCrash(w) PROVE FreshInv'
  <2>1. disturbed' /\ locks' = [locks EXCEPT ![w] = None]
    BY <1>2 DEF WorkerCrash
  <2>2. ASSUME NEW r \in Checks
        PROVE  /\ Shaped(check'[r])
               /\ check'[r].pc \in {"get", "acquire", "wait"} => ~check'[r].locked
    <3>1. check'[r] = [IdleCheck EXCEPT !.pc = "done"] \/ check'[r] = check[r]
      BY <1>2 DEF WorkerCrash
    <3>2. QED BY <3>1, NewChecks DEF FreshInv
  <2>3. check' = [r \in Checks |-> check'[r]]
    BY <1>2 DEF WorkerCrash
  <2>4. QED BY <2>1, <2>2, <2>3, AfterFailure DEF FreshInv
<1>3. ASSUME NEW w \in Workers, Trim(w) PROVE FreshInv'
  <2>1. UNCHANGED <<cooldown, disturbed, locks, check, outlived>>
    BY <1>3 DEF Trim
  <2>2. QED BY <2>1 DEF FreshInv, Orderly, UnderLock
<1>4. ASSUME RedisRestart PROVE FreshInv'
  <2>1. disturbed' /\ locks' = [locks EXCEPT ![Redis] = None] /\ UNCHANGED check
    BY <1>4 DEF RedisRestart
  <2>2. QED BY <2>1, AfterFailure DEF FreshInv
<1>5. QED BY <1>1, <1>2, <1>3, <1>4

LEMMA TickKeeps ==
    ASSUME FreshInv, Tick
    PROVE  FreshInv'
<1> USE FreshConstants
<1>1. ASSUME NEW p \in Places
      PROVE  /\ locks'[p] \in Lock \cup {None}
             /\ locks[p] = None => locks'[p] = None
             /\ locks[p] # None /\ locks[p].left # 1 =>
                   locks'[p] # None /\ locks'[p].owner = locks[p].owner
  <2>1. locks'[p] = Older(locks[p]) /\ locks[p] \in Lock \cup {None}
    BY DEF Tick, FreshInv
  <2>2. CASE locks[p] = None \/ locks[p].left = 1
    BY <2>1, <2>2 DEF Older
  <2>3. CASE locks[p] # None /\ locks[p].left # 1
    <3>1. locks'[p] = [locks[p] EXCEPT !.left = locks[p].left - 1] /\ locks[p] \in Lock
      BY <2>1, <2>3 DEF Older
    <3>2. locks[p].left \in 1 .. LockTtl /\ locks[p].left - 1 \in 1 .. LockTtl
      BY <2>3, <3>1 DEF Lock
    <3>3. [locks[p] EXCEPT !.left = locks[p].left - 1] \in Lock
      BY <3>1, <3>2 DEF Lock
    <3>4. locks'[p].owner = locks[p].owner
      BY <3>1 DEF Lock
    <3>5. QED BY <2>3, <3>1, <3>3, <3>4, NoneIsNoLock
  <2>4. QED BY <2>2, <2>3
<1>2. locks' = [p \in Places |-> locks'[p]] /\ check' = [r \in Checks |-> check'[r]]
  BY DEF Tick
<1>3. ASSUME NEW r \in Checks
      PROVE  /\ Shaped(check'[r])
             /\ check'[r].pc \in {"get", "acquire", "wait"} => ~check'[r].locked
             /\ UnderLock(r)' => check[r].pc = "query" /\ check[r].locked
  <2>1. CASE ~Active(r)
    <3>1. check'[r] = IdleCheck
      BY <2>1 DEF Tick
    <3>2. QED BY <3>1, NewChecks DEF UnderLock
  <2>2. CASE Active(r)
    <3>1. check'[r] = [check[r] EXCEPT !.clock = @ + 1]
      BY <2>2 DEF Tick
    <3>2. Shaped(check[r]) /\ MayTick(r)
      BY DEF FreshInv, Tick
    <3>3. /\ Shaped([check[r] EXCEPT !.clock = @ + 1])
          /\ [check[r] EXCEPT !.clock = @ + 1].pc = check[r].pc
          /\ [check[r] EXCEPT !.clock = @ + 1].locked <=> check[r].locked
      BY <3>2, AgedShape, Zenon
    <3>4. check[r].pc \in {"query", "wait"}
      BY <2>2, <3>2 DEF MayTick
    <3>5. QED BY <3>1, <3>3, <3>4 DEF UnderLock, FreshInv
  <2>3. QED BY <2>1, <2>2
<1>4. Orderly'
  <2> SUFFICES ASSUME ~disturbed', ~outlived'
               PROVE  /\ \A w \in Workers : cooldown'[w] = 0 /\ locks'[w] = None
                      /\ \A r \in Checks : UnderLock(r)' =>
                            locks'[Redis] # None /\ locks'[Redis].owner = r
    BY DEF Orderly
  <2>1. /\ ~disturbed /\ ~outlived /\ \A r \in Checks : ~LosesLock(r)
        /\ \A w \in Workers : cooldown[w] = 0 /\ locks[w] = None
    BY DEF Tick, CoolDown, FreshInv, Orderly
  <2>2. \A w \in Workers : cooldown'[w] = 0 /\ locks'[w] = None
    BY <1>1, <2>1 DEF Tick, CoolDown, Less
  <2>3. ASSUME NEW r \in Checks, UnderLock(r)'
        PROVE  locks'[Redis] # None /\ locks'[Redis].owner = r
    <3>1. check[r].pc = "query" /\ check[r].locked
      BY <1>3, <2>3
    <3>2. PICK p \in Places : locks[p] # None /\ locks[p].owner = r /\ locks[p].left # 1
      BY <2>1, <3>1 DEF LosesLock
    <3>3. p = Redis
      BY <2>1, <3>2
    <3>4. QED BY <1>1, <3>2, <3>3
  <2>4. QED BY <2>2, <2>3
<1>5. QED BY <1>1, <1>2, <1>3, <1>4 DEF FreshInv

LEMMA FreshStep == FreshInv /\ [FreshNext]_fvars => FreshInv'
<1> SUFFICES ASSUME FreshInv, [FreshNext]_fvars PROVE FreshInv'
  OBVIOUS
<1>1. CASE UNCHANGED fvars
  BY <1>1 DEF fvars, FreshInv, Orderly, UnderLock
<1>2. ASSUME NEW r \in Checks, Step(r) PROVE FreshInv'
  BY <1>2, GetKeeps, AcquireKeeps, RereadKeeps, PollKeeps, GiveUpKeeps, StoreKeeps, ReleaseKeeps
     DEF Step
<1>3. ASSUME NEW r \in Checks, AcquireTorn(r) \/ QueryFails(r) PROVE FreshInv'
  BY <1>3, AcquireTornKeeps, QueryFailsKeeps
<1>4. ASSUME NEW r \in Checks, NEW force \in BOOLEAN, Ask(r, force) PROVE FreshInv'
  BY <1>4, AskKeeps
<1>5. CASE \/ \E w \in Workers : LoseRedis(w) \/ WorkerCrash(w) \/ Trim(w)
           \/ RedisRestart
  BY <1>5, StoreFailures
<1>6. CASE Tick
  BY <1>6, TickKeeps
<1>7. QED BY <1>1, <1>2, <1>3, <1>4, <1>5, <1>6 DEF FreshNext

(* The lock of a source lets one query through at a time, while nothing    *)
(* fails and no query is slower than its lock, for any number of workers   *)
(* and checks: each query under the lock owns the one that Redis holds.    *)
THEOREM QueriesUnderLockAreExclusive == FreshSpec => []OneCheckPerLock
<1>1. FreshInit => FreshInv
  BY FreshInvInit
<1>2. FreshInv => OneCheckPerLock
  <2> DEFINE S == {r \in Querying : check[r].locked}
  <2> SUFFICES ASSUME FreshInv, ~disturbed, ~outlived PROVE Cardinality(S) <= 1
    BY DEF OneCheckPerLock
  <2>1. \A r \in S : r = locks[Redis].owner
    BY DEF FreshInv, Orderly, UnderLock, Querying
  <2> HIDE DEF S
  <2>2. CASE S = {}
    BY <2>2, FS_EmptySet
  <2>3. CASE S # {}
    <3>1. PICK o : o \in S
      BY <2>3
    <3>2. S = {o}
      BY <2>1, <3>1
    <3>3. QED BY <3>2, FS_Singleton
  <2>4. QED BY <2>2, <2>3
<1>3. QED BY <1>1, <1>2, FreshStep, PTL DEF FreshSpec

-----------------------------------------------------------------------------
(* What a forced check may share.                                          *)

(* A mark is a record whose stamp does not matter here. *)
MarkShape(S) == [stamp: S, left: Nat \ {0}, for: SUBSET Checks]
Marked(m) == \E S : m \in MarkShape(S)

(* What Redis holds is what check r saw at first, or was stored for it. *)
SeenOrNew(r) ==
    marks[Redis] # None /\ marks[Redis].stamp # check[r].prior => r \in marks[Redis].for
Sharing == {"acquire", "reread", "wait"}
Informed(r) ==
    check[r].force => check[r].got # "old" /\ (check[r].pc \in Sharing => SeenOrNew(r))
ForcedInv ==
    /\ marks = [p \in Places |-> marks[p]]
    /\ \A p \in Places : marks[p] = None \/ Marked(marks[p])
    /\ ~disturbed => /\ \A w \in Workers : cooldown[w] = 0
                     /\ \A r \in Checks : Informed(r)

LEMMA Replies ==
    ASSUME NEW r \in Checks, NEW m
    PROVE  /\ Reply(r, m).pc = "done" /\ Reply(r, m).force = check[r].force
           /\ r \in m.for => Reply(r, m).got = "new"
           /\ Unavailable(r).pc = "done" /\ Unavailable(r).got = "nothing"
  BY DEF Reply, Unavailable, IdleCheck

LEMMA ForcedInit == FreshInit => ForcedInv
  BY DEF FreshInit, StoreInit, ForcedInv, Informed, IdleCheck

(* One check moves on, and the marks stay. *)
LEMMA OneInformed ==
    ASSUME FreshInv, ForcedInv, NEW r \in Checks, NEW q, check' = [check EXCEPT ![r] = q],
           UNCHANGED <<cooldown, disturbed, marks>>,
           ~disturbed /\ q.force =>
              /\ q.got # "old"
              /\ q.pc \in Sharing =>
                    (marks[Redis] # None /\ marks[Redis].stamp # q.prior
                     => r \in marks[Redis].for)
    PROVE  ForcedInv'
<1>1. check'[r] = q /\ \A x \in Checks \ {r} : check'[x] = check[x]
  BY DEF FreshInv
<1>2. ASSUME ~disturbed, NEW x \in Checks PROVE Informed(x)'
  <2>1. CASE x = r
    BY <1>1, <1>2, <2>1 DEF Informed, SeenOrNew
  <2>2. CASE x # r
    BY <1>1, <1>2, <2>2 DEF Informed, SeenOrNew, ForcedInv
  <2>3. QED BY <2>1, <2>2
<1>3. QED BY <1>2 DEF ForcedInv

(* After a failure only the shape of the marks is left to see to. *)
LEMMA ForcedAfterFailure ==
    ASSUME disturbed', marks' = [p \in Places |-> marks'[p]],
           \A p \in Places : marks'[p] = None \/ Marked(marks'[p])
    PROVE  ForcedInv'
  BY DEF ForcedInv

LEMMA AskInforms ==
    ASSUME FreshInv, ForcedInv, NEW r \in Checks, NEW force \in BOOLEAN, Ask(r, force)
    PROVE  ForcedInv'
<1> DEFINE q == [IdleCheck EXCEPT !.pc = "get", !.force = force]
<1>1. q.pc = "get" /\ q.got = "nothing"
  BY DEF IdleCheck
<1>2. check' = [check EXCEPT ![r] = q] /\ UNCHANGED <<cooldown, disturbed, marks>>
  BY DEF Ask
<1> HIDE DEF q
<1>3. QED BY <1>1, <1>2, OneInformed DEF Sharing

(* Everybody asks Redis. *)
LEMMA SeesRedis ==
    ASSUME ForcedInv, ~disturbed, NEW r \in Checks
    PROVE  Seen(r) = marks[Redis]
  BY FreshConstants DEF ForcedInv, Seen, At

LEMMA GetInforms ==
    ASSUME FreshInv, ForcedInv, NEW r \in Checks, Get(r)
    PROVE  ForcedInv'
<1>1. /\ Shaped(check[r]) /\ check[r].pc = "get" /\ UNCHANGED <<cooldown, disturbed, marks>>
      /\ check[r].force \in BOOLEAN
  BY CheckMoves DEF FreshInv, Get
<1>2. CASE ~check[r].force /\ check' = [check EXCEPT ![r] = Reply(r, Seen(r))]
  BY <1>1, <1>2, Replies, OneInformed DEF Sharing
<1>3. CASE check' = [check EXCEPT ![r] =
                       [check[r] EXCEPT !.pc = "acquire", !.prior = StampOf(Seen(r))]]
  <2> DEFINE q == [check[r] EXCEPT !.pc = "acquire", !.prior = StampOf(Seen(r))]
  <2>1. q.force = check[r].force /\ q.got = check[r].got /\ q.prior = StampOf(Seen(r))
    <3>1. PICK P, C : check[r] \in Shape(P, C)
      BY <1>1 DEF Shaped
    <3>2. QED BY <3>1 DEF Shape
  <2>2. check' = [check EXCEPT ![r] = q]
    BY <1>3
  <2> HIDE DEF q
  <2>3. ~disturbed /\ check[r].force => check[r].got # "old"
    BY DEF ForcedInv, Informed
  <2>4. ~disturbed => (marks[Redis] # None => marks[Redis].stamp = q.prior)
    BY <2>1, SeesRedis DEF StampOf
  <2>5. QED BY <1>1, <2>1, <2>2, <2>3, <2>4, OneInformed
<1>4. QED BY <1>1, <1>2, <1>3 DEF Get

LEMMA AskLockInforms ==
    ASSUME FreshInv, ForcedInv, NEW r \in Checks, NEW ps, NEW p, AskLock(r, ps, p),
           UNCHANGED <<cooldown, disturbed>>
    PROVE  ForcedInv'
<1>1. /\ Shaped(check[r]) /\ check[r].pc = "acquire" /\ marks' = marks
  BY DEF FreshInv, AskLock
<1>2. ~disturbed => Informed(r)
  BY DEF ForcedInv
<1>3. CASE locks'[p] # locks[p]
  <2> DEFINE q == [check[r] EXCEPT !.pc = "reread", !.locked = TRUE]
  <2>1. q.force = check[r].force /\ q.got = check[r].got /\ q.prior = check[r].prior
    <3>1. PICK P, C : check[r] \in Shape(P, C)
      BY <1>1 DEF Shaped
    <3>2. QED BY <3>1 DEF Shape
  <2>2. check' = [check EXCEPT ![r] = q]
    BY <1>3 DEF AskLock, FreshInv
  <2> HIDE DEF q
  <2>3. QED BY <1>1, <1>2, <2>1, <2>2, OneInformed DEF Informed, SeenOrNew, Sharing
<1>4. CASE locks'[p] = locks[p]
  <2> DEFINE q == [check[r] EXCEPT !.pc = "wait", !.clock = 0]
  <2>1. q.force = check[r].force /\ q.got = check[r].got /\ q.prior = check[r].prior
    <3>1. PICK P, C : check[r] \in Shape(P, C)
      BY <1>1 DEF Shaped
    <3>2. QED BY <3>1 DEF Shape
  <2>2. check' = [check EXCEPT ![r] = q]
    BY <1>4 DEF AskLock, FreshInv
  <2> HIDE DEF q
  <2>3. QED BY <1>1, <1>2, <2>1, <2>2, OneInformed DEF Informed, SeenOrNew, Sharing
<1>5. QED BY <1>3, <1>4

(* What a check shares with another is new to it. *)
LEMMA SharedIsNew ==
    ASSUME FreshInv, ForcedInv, ~disturbed, NEW r \in Checks, check[r].force,
           check[r].pc \in Sharing, Seen(r) # None, Seen(r).stamp # check[r].prior
    PROVE  Reply(r, Seen(r)).got = "new"
<1>1. r \in Seen(r).for
  BY SeesRedis DEF ForcedInv, Informed, SeenOrNew
<1>2. QED BY <1>1, Replies

LEMMA RereadInforms ==
    ASSUME FreshInv, ForcedInv, NEW r \in Checks, Reread(r)
    PROVE  ForcedInv'
<1>1. /\ Shaped(check[r]) /\ check[r].pc = "reread" /\ UNCHANGED <<cooldown, disturbed, marks>>
  BY DEF FreshInv, Reread
<1>2. CASE Shares(r, Seen(r)) /\ check' = [check EXCEPT ![r] = Releasing(r, Reply(r, Seen(r)))]
  <2> DEFINE old == Reply(r, Seen(r))
             q == [old EXCEPT !.pc = "release", !.locked = check[r].locked]
  <2>1. Shaped(old) /\ old.force = check[r].force
    BY <1>1, NewChecks, Replies
  <2>2. ~disturbed /\ old.force => old.got = "new"
    BY <1>1, <1>2, <2>1, SharedIsNew DEF Sharing, Shares
  <2>3. check' = [check EXCEPT ![r] = q]
    BY <1>2 DEF Releasing
  <2> HIDE DEF old
  <2>4. q.force = old.force /\ q.got = old.got /\ q.pc = "release"
    <3>1. PICK P, C : old \in Shape(P, C)
      BY <2>1 DEF Shaped
    <3>2. QED BY <3>1 DEF Shape
  <2> HIDE DEF q
  <2>5. QED BY <1>1, <2>2, <2>3, <2>4, OneInformed DEF Sharing
<1>3. CASE check' = [check EXCEPT ![r] = Query(r)]
  <2> DEFINE q == [check[r] EXCEPT !.pc = "query", !.clock = 0, !.prior = None]
  <2>1. q.force = check[r].force /\ q.got = check[r].got /\ q.pc = "query"
    <3>1. PICK P, C : check[r] \in Shape(P, C)
      BY <1>1 DEF Shaped
    <3>2. QED BY <3>1 DEF Shape
  <2>2. check' = [check EXCEPT ![r] = q]
    BY <1>3 DEF Query
  <2> HIDE DEF q
  <2>3. ~disturbed /\ check[r].force => check[r].got # "old"
    BY DEF ForcedInv, Informed
  <2>4. QED BY <1>1, <2>1, <2>2, <2>3, OneInformed DEF Sharing
<1>4. QED BY <1>2, <1>3 DEF Reread

LEMMA PollInforms ==
    ASSUME FreshInv, ForcedInv, NEW r \in Checks, Poll(r)
    PROVE  ForcedInv'
<1>1. /\ Shaped(check[r]) /\ check[r].pc = "wait" /\ UNCHANGED <<cooldown, disturbed, marks>>
      /\ Seen(r) # None /\ Seen(r).stamp # check[r].prior
      /\ check' = [check EXCEPT ![r] = Reply(r, Seen(r))]
  BY DEF FreshInv, Poll, Differs
<1>2. /\ Reply(r, Seen(r)).pc = "done" /\ Reply(r, Seen(r)).force = check[r].force
  BY Replies
<1>3. ~disturbed /\ check[r].force => Reply(r, Seen(r)).got = "new"
  BY <1>1, SharedIsNew DEF Sharing
<1>4. QED BY <1>1, <1>2, <1>3, OneInformed DEF Sharing

LEMMA GiveUpInforms ==
    ASSUME FreshInv, ForcedInv, NEW r \in Checks, GiveUp(r)
    PROVE  ForcedInv'
<1> DEFINE q == [check[r] EXCEPT !.pc = "query", !.clock = 0, !.prior = None]
<1>1. Shaped(check[r]) /\ UNCHANGED <<cooldown, disturbed, marks>>
  BY DEF FreshInv, GiveUp
<1>2. q.force = check[r].force /\ q.got = check[r].got /\ q.pc = "query"
  <2>1. PICK P, C : check[r] \in Shape(P, C)
    BY <1>1 DEF Shaped
  <2>2. QED BY <2>1 DEF Shape
<1>3. check' = [check EXCEPT ![r] = q]
  BY DEF GiveUp, Query
<1> HIDE DEF q
<1>4. ~disturbed /\ check[r].force => check[r].got # "old"
  BY DEF ForcedInv, Informed
<1>5. QED BY <1>1, <1>2, <1>3, <1>4, OneInformed DEF Sharing

(* A query ends: the answer is what it was before the lock is released. *)
LEMMA EndedAnswer ==
    ASSUME FreshInv, NEW r \in Checks, NEW reply, Shaped(reply), reply.pc = "done"
    PROVE  /\ Ended(r, reply).force = reply.force /\ Ended(r, reply).got = reply.got
           /\ Ended(r, reply).pc \notin Sharing
<1> DEFINE q == [reply EXCEPT !.pc = "release", !.locked = check[r].locked]
<1>1. q.force = reply.force /\ q.got = reply.got /\ q.pc = "release"
  <2>1. PICK P, C : reply \in Shape(P, C)
    BY DEF Shaped
  <2>2. QED BY <2>1 DEF Shape
<1>2. Ended(r, reply) = q \/ Ended(r, reply) = reply
  BY DEF Ended, Releasing
<1> HIDE DEF q
<1>3. QED BY <1>1, <1>2 DEF Sharing

LEMMA StoreInforms ==
    ASSUME FreshInv, ForcedInv, NEW r \in Checks, Store(r)
    PROVE  ForcedInv'
<1> DEFINE m == [stamp |-> NewStamp, left |-> EntryTtl, for |-> {q \in Checks : Active(q)}]
<1>1. /\ marks' = [p \in Places |-> IF p \in Mirrored(WorkerOf[r]) THEN m ELSE marks[p]]
      /\ check' = [check EXCEPT ![r] = Ended(r, Reply(r, m))]
      /\ UNCHANGED <<cooldown, disturbed>> /\ check[r].pc = "query"
  BY DEF Store
<1>2. Marked(m) /\ m.for = {q \in Checks : Active(q)}
  <2>1. m \in MarkShape({NewStamp})
    BY FreshAssumption DEF MarkShape
  <2>2. QED BY <2>1 DEF Marked
<1> HIDE DEF m
<1>3. /\ marks' = [p \in Places |-> marks'[p]]
      /\ \A p \in Places : marks'[p] = None \/ Marked(marks'[p])
  BY <1>1, <1>2 DEF ForcedInv
<1>4. /\ \A x \in Checks \ {r} : check'[x] = check[x]
      /\ check'[r] = Ended(r, Reply(r, m)) /\ Shaped(check[r])
  BY <1>1 DEF FreshInv
<1>5. check'[r].got = "new" /\ check'[r].pc \notin Sharing
  <2>1. r \in m.for
    BY <1>1, <1>2 DEF Active
  <2>2. /\ Shaped(Reply(r, m)) /\ Reply(r, m).pc = "done" /\ Reply(r, m).got = "new"
    BY <1>4, <2>1, NewChecks, Replies
  <2>3. QED BY <1>4, <2>2, EndedAnswer
<1>6. ASSUME ~disturbed, NEW x \in Checks PROVE Informed(x)'
  <2>1. CASE x = r
    BY <1>5, <2>1 DEF Informed
  <2>2. CASE x # r
    <3>1. Informed(x) /\ check'[x] = check[x]
      BY <1>4, <1>6, <2>2 DEF ForcedInv
    <3>2. marks'[Redis] = m
      BY <1>1, <1>6, FreshConstants DEF Mirrored, At, ForcedInv
    <3>3. check[x].pc \in Sharing => x \in m.for
      BY <1>2 DEF Sharing, Active
    <3>4. QED BY <3>1, <3>2, <3>3 DEF Informed, SeenOrNew
  <2>3. QED BY <2>1, <2>2
<1>7. QED BY <1>1, <1>3, <1>6 DEF ForcedInv

LEMMA ReleaseInforms ==
    ASSUME FreshInv, ForcedInv, NEW r \in Checks, Release(r)
    PROVE  ForcedInv'
<1> DEFINE q == [check[r] EXCEPT !.pc = "done", !.locked = FALSE]
<1>1. Shaped(check[r]) /\ UNCHANGED <<cooldown, disturbed, marks>>
  BY DEF FreshInv, Release
<1>2. q.force = check[r].force /\ q.got = check[r].got /\ q.pc = "done"
  <2>1. PICK P, C : check[r] \in Shape(P, C)
    BY <1>1 DEF Shaped
  <2>2. QED BY <2>1 DEF Shape
<1>3. check' = [check EXCEPT ![r] = q]
  BY DEF Release, FreshInv
<1> HIDE DEF q
<1>4. ~disturbed /\ check[r].force => check[r].got # "old"
  BY DEF ForcedInv, Informed
<1>5. QED BY <1>1, <1>2, <1>3, <1>4, OneInformed DEF Sharing

LEMMA FailuresInform ==
    ASSUME FreshInv, ForcedInv,
           \/ \E r \in Checks : AcquireTorn(r) \/ QueryFails(r)
           \/ \E w \in Workers : LoseRedis(w) \/ WorkerCrash(w)
           \/ RedisRestart
    PROVE  ForcedInv'
<1>1. disturbed'
  BY DEF AcquireTorn, QueryFails, LoseRedis, WorkerCrash, RedisRestart, Offline
<1>2. marks' = marks \/ \E p : marks' = [marks EXCEPT ![p] = None]
  BY DEF AcquireTorn, AskLock, QueryFails, LoseRedis, WorkerCrash, RedisRestart
<1>3. /\ marks' = [p \in Places |-> marks'[p]]
      /\ \A p \in Places : marks'[p] = None \/ Marked(marks'[p])
  <2>1. CASE marks' = marks
    BY <2>1 DEF ForcedInv
  <2>2. CASE \E p : marks' = [marks EXCEPT ![p] = None]
    BY <2>2 DEF ForcedInv
  <2>3. QED BY <1>2, <2>1, <2>2
<1>4. QED BY <1>1, <1>3, ForcedAfterFailure

LEMMA TrimInforms ==
    ASSUME ForcedInv, NEW w \in Workers, Trim(w)
    PROVE  ForcedInv'
<1>1. /\ marks' = [marks EXCEPT ![w] = None] /\ UNCHANGED <<cooldown, disturbed, check>>
      /\ w # Redis
  BY FreshConstants DEF Trim
<1>2. /\ marks' = [p \in Places |-> marks'[p]] /\ marks'[Redis] = marks[Redis]
      /\ \A p \in Places : marks'[p] = None \/ Marked(marks'[p])
  BY <1>1, FreshConstants DEF ForcedInv
<1>3. \A r \in Checks : Informed(r) => Informed(r)'
  BY <1>1, <1>2 DEF Informed, SeenOrNew
<1>4. QED BY <1>1, <1>2, <1>3 DEF ForcedInv

(* A mark grows old: it stays the mark it was, for those still at it. *)
LEMMA MarkAges ==
    ASSUME NEW p \in Places, marks[p] = None \/ Marked(marks[p]), Tick
    PROVE  \/ marks'[p] = None
           \/ /\ marks[p] # None /\ Marked(marks'[p])
              /\ marks'[p].stamp = marks[p].stamp
              /\ marks'[p].for = {r \in marks[p].for : Active(r)}
<1> DEFINE m == marks[p]
           aged == [m EXCEPT !.left = m.left - 1]
           mine == {r \in aged.for : Active(r)}
<1>1. CASE Older(m) = None
  BY <1>1 DEF Tick
<1>2. CASE Older(m) # None
  <2>1. m # None /\ Marked(m) /\ m.left # 1 /\ Older(m) = aged
    BY <1>2 DEF Older
  <2>2. marks'[p] = [aged EXCEPT !.for = mine]
    BY <1>2, <2>1 DEF Tick
  <2>3. PICK S : m \in MarkShape(S)
    BY <2>1 DEF Marked
  <2>4. m.left - 1 \in Nat \ {0}
    BY <2>1, <2>3 DEF MarkShape
  <2>5. aged \in MarkShape(S) /\ aged.stamp = m.stamp /\ aged.for = m.for
    BY <2>3, <2>4 DEF MarkShape
  <2>6. mine = {r \in m.for : Active(r)} /\ mine \in SUBSET Checks
    BY <2>3, <2>5 DEF MarkShape
  <2> HIDE DEF aged, mine
  <2>7. /\ marks'[p] \in MarkShape(S) /\ marks'[p].stamp = aged.stamp
        /\ marks'[p].for = mine
    BY <2>2, <2>5, <2>6 DEF MarkShape
  <2>8. QED BY <2>1, <2>5, <2>6, <2>7 DEF Marked
<1>3. QED BY <1>1, <1>2

LEMMA TickInforms ==
    ASSUME FreshInv, ForcedInv, Tick
    PROVE  ForcedInv'
<1>1. /\ marks' = [p \in Places |-> marks'[p]]
      /\ \A p \in Places : marks'[p] = None \/ Marked(marks'[p])
  <2>1. marks' = [p \in Places |-> marks'[p]]
    BY DEF Tick
  <2>2. QED BY <2>1, MarkAges DEF ForcedInv
<1>2. disturbed' = disturbed /\ (~disturbed => \A w \in Workers : cooldown'[w] = 0)
  BY DEF Tick, CoolDown, Less, ForcedInv
<1>3. ASSUME ~disturbed, NEW r \in Checks PROVE Informed(r)'
  <2>1. CASE ~Active(r)
    BY <2>1 DEF Tick, Informed, IdleCheck
  <2>2. CASE Active(r)
    <3>1. Shaped(check[r]) /\ check'[r] = [check[r] EXCEPT !.clock = check[r].clock + 1]
      BY <2>2 DEF Tick, FreshInv
    <3>2. /\ check'[r].force = check[r].force /\ check'[r].got = check[r].got
          /\ check'[r].prior = check[r].prior /\ check'[r].pc = check[r].pc
      <4>1. PICK P, C : check[r] \in Shape(P, C)
        BY <3>1 DEF Shaped
      <4>2. QED BY <3>1, <4>1 DEF Shape
    <3>3. \/ marks'[Redis] = None
          \/ /\ marks[Redis] # None /\ marks'[Redis].stamp = marks[Redis].stamp
             /\ r \in marks[Redis].for => r \in marks'[Redis].for
      BY <2>2, MarkAges, FreshConstants DEF ForcedInv
    <3>4. Informed(r)
      BY <1>3 DEF ForcedInv
    <3>5. QED BY <3>2, <3>3, <3>4 DEF Informed, SeenOrNew
  <2>3. QED BY <2>1, <2>2
<1>4. QED BY <1>1, <1>2, <1>3 DEF ForcedInv

LEMMA ForcedStep == FreshInv /\ ForcedInv /\ [FreshNext]_fvars => ForcedInv'
<1> SUFFICES ASSUME FreshInv, ForcedInv, [FreshNext]_fvars PROVE ForcedInv'
  OBVIOUS
<1>1. CASE UNCHANGED fvars
  BY <1>1 DEF fvars, ForcedInv, Informed, SeenOrNew
<1>2. ASSUME NEW r \in Checks, Step(r) PROVE ForcedInv'
  <2>1. Acquire(r) => ForcedInv'
    BY AskLockInforms DEF Acquire
  <2>2. QED BY <1>2, <2>1, GetInforms, RereadInforms, PollInforms, GiveUpInforms, StoreInforms,
               ReleaseInforms DEF Step
<1>3. ASSUME NEW r \in Checks, NEW force \in BOOLEAN, Ask(r, force) PROVE ForcedInv'
  BY <1>3, AskInforms
<1>4. ASSUME NEW w \in Workers, Trim(w) PROVE ForcedInv'
  BY <1>4, TrimInforms
<1>5. CASE Tick
  BY <1>5, TickInforms
<1>6. QED BY <1>1, <1>2, <1>3, <1>4, <1>5, FailuresInform DEF FreshNext

(* Whatever checks share a query, with or without the lock and however      *)
(* long the query takes: the answer of a forced check was stored after the  *)
(* check was asked for, as long as the store did not fail over.             *)
THEOREM ForcedChecksAreNew == FreshSpec => []ForcedCheckIsNew
<1>1. FreshInit => FreshInv /\ ForcedInv
  BY FreshInvInit, ForcedInit
<1>2. FreshInv /\ ForcedInv => ForcedCheckIsNew
  BY DEF ForcedInv, Informed, ForcedCheckIsNew
<1>3. QED BY <1>1, <1>2, FreshStep, ForcedStep, PTL DEF FreshSpec

-----------------------------------------------------------------------------
(***************************************************************************)
(* WidgetReplay: what is kept under a fingerprint.  A load only adds to a   *)
(* source, so the numbers of loads are in the order of the reads: a mark is *)
(* no newer than its source, and a query that runs after the fingerprint    *)
(* was resolved reads at least what the fingerprint says.                   *)
(***************************************************************************)

Prints == [Dependencies -> Loads \cup {Absent, NoWatermark}]
Reads == [Bundle -> Loads \cup {Absent, Failed}]
Request == [pc: {"idle", "check", "run", "shown"}, force: BOOLEAN,
            print: Prints \cup {<<>>}, read: Reads \cup {<<>>}]

(* Types of the loads, the marks, the results and the requests. *)
ReplayTypes ==
    /\ loads \in [Sources -> Loads] /\ mark \in [Sources -> Loads \cup {Absent}]
    /\ cache \subseteq [print: Prints, read: Reads]
    /\ request \in [Requests -> Request]
    /\ \A r \in Requests : /\ request[r].pc \in {"check", "run"} => request[r].print \in Prints
                           /\ request[r].pc = "run" => request[r].read \in Reads

KnownBefore(print) == \A s \in Dependencies : print[s] \in Loads => s \in Sources /\ print[s] <= loads[s]
ReadAfter(print, read) ==
    \A q \in Bundle : read[q] \in Loads =>
        /\ q \in Base /\ read[q] <= loads[SourceOf[q]]
        /\ print[SourceOf[q]] \in Loads => print[SourceOf[q]] <= read[q]
InOrder ==
    /\ \A s \in Sources : mark[s] \in Loads => mark[s] <= loads[s]
    /\ \A r \in Requests :
          /\ request[r].pc \in {"check", "run"} => KnownBefore(request[r].print)
          /\ request[r].pc = "run" => ReadAfter(request[r].print, request[r].read)
    /\ \A e \in cache : ReadAfter(e.print, e.read) /\ \A q \in Bundle : e.read[q] \in Loads

ReplayInv == ReplayTypes /\ InOrder

LEMMA Numbers ==
    /\ Loads \subseteq Nat /\ 0 \in Loads /\ MaxLoads \in Nat
    /\ Absent \notin Loads /\ NoWatermark \notin Loads /\ Failed \notin Loads
    /\ \A n \in Loads : n < MaxLoads => n + 1 \in Loads
    /\ \A q \in Base : SourceOf[q] \in Sources
    /\ \A q \in Bundle : SourceOf[q] \in Dependencies
  BY ReplayAssumption DEF Loads, Dependencies

(* A step leaves the question alone, and so all that depends on it. *)
LEMMA SameQuestion ==
    ASSUME UNCHANGED question
    PROVE  /\ Bundle' = Bundle /\ Dependencies' = Dependencies
           /\ Prints' = Prints /\ Reads' = Reads /\ Request' = Request
  BY DEF Bundle, Dependencies, Prints, Reads, Request

LEMMA ReplayStarts == ReplayInit => ReplayInv
<1> SUFFICES ASSUME ReplayInit PROVE ReplayInv
  OBVIOUS
<1>1. Idle \in Request /\ Idle.pc = "idle"
  BY DEF Idle, Request
<1>2. ReplayTypes
  BY <1>1, Numbers DEF ReplayInit, ReplayTypes
<1>3. InOrder
  BY <1>1, Numbers DEF ReplayInit, InOrder
<1>4. QED BY <1>2, <1>3 DEF ReplayInv

(* One request moves on. *)
LEMMA OneRequest ==
    ASSUME ReplayInv, NEW r \in Requests, NEW q, request' = [request EXCEPT ![r] = q],
           q \in Request, UNCHANGED <<question, loads, mark, cache>>,
           q.pc \in {"check", "run"} => q.print \in Prints /\ KnownBefore(q.print),
           q.pc = "run" => q.read \in Reads /\ ReadAfter(q.print, q.read)
    PROVE  ReplayInv'
<1> USE SameQuestion
<1>1. request'[r] = q /\ \A x \in Requests \ {r} : request'[x] = request[x]
  BY DEF ReplayInv, ReplayTypes
<1>2. ReplayTypes'
  <2>1. request' \in [Requests -> Request]
    BY DEF ReplayInv, ReplayTypes
  <2>2. /\ loads' \in [Sources -> Loads] /\ mark' \in [Sources -> Loads \cup {Absent}]
        /\ cache' \subseteq [print: Prints, read: Reads]
    BY DEF ReplayInv, ReplayTypes
  <2>3. \A x \in Requests :
           /\ request'[x].pc \in {"check", "run"} => request'[x].print \in Prints
           /\ request'[x].pc = "run" => request'[x].read \in Reads
    BY <1>1 DEF ReplayInv, ReplayTypes
  <2>4. QED BY <2>1, <2>2, <2>3 DEF ReplayTypes
<1>3. InOrder'
  <2>1. \A print, read : /\ KnownBefore(print)' = KnownBefore(print)
                         /\ ReadAfter(print, read)' = ReadAfter(print, read)
    BY DEF KnownBefore, ReadAfter
  <2>2. \A x \in Requests :
           /\ request'[x].pc \in {"check", "run"} => KnownBefore(request'[x].print)
           /\ request'[x].pc = "run" => ReadAfter(request'[x].print, request'[x].read)
    BY <1>1 DEF ReplayInv, InOrder
  <2>3. QED BY <2>1, <2>2 DEF ReplayInv, InOrder
<1>4. QED BY <1>2, <1>3 DEF ReplayInv

LEMMA OpenOrdered ==
    ASSUME ReplayInv, NEW r \in Requests, NEW force \in BOOLEAN, Open(r, force)
    PROVE  ReplayInv'
<1> DEFINE print == [s \in Dependencies |-> Absent]
           q == [Idle EXCEPT !.pc = "check", !.force = force, !.print = print]
<1>1. print \in Prints /\ KnownBefore(print)
  BY Numbers DEF Prints, KnownBefore
<1>2. request' = [request EXCEPT ![r] = q] /\ UNCHANGED <<question, loads, mark, cache>>
  BY DEF Open
<1> HIDE DEF print
<1>3. q \in Request /\ q.pc = "check" /\ q.print = print
  BY <1>1 DEF Idle, Request
<1> HIDE DEF q
<1>4. QED BY <1>1, <1>2, <1>3, OneRequest

(* One entry of a fingerprint becomes known. *)
LEMMA PrintEntry ==
    ASSUME ReplayInv, NEW r \in Requests, request[r].pc = "check",
           NEW s \in Sources, NEW x \in Loads \cup {NoWatermark, Absent}, x \in Loads => x <= loads[s],
           request' = [request EXCEPT ![r].print[s] = x], UNCHANGED <<question, loads, mark, cache>>
    PROVE  ReplayInv'
<1> DEFINE old == request[r].print
           print == [old EXCEPT ![s] = x]
           q == [request[r] EXCEPT !.print = print]
<1>1. request' = [request EXCEPT ![r] = q]
  BY DEF ReplayInv, ReplayTypes
<1>2. request[r] \in Request /\ old \in Prints /\ KnownBefore(old)
  BY DEF ReplayInv, ReplayTypes, InOrder
<1>3. print \in Prints
  BY <1>2 DEF Prints
<1>4. KnownBefore(print)
  BY <1>2 DEF Prints, KnownBefore
<1> HIDE DEF old, print
<1>5. q \in Request /\ q.pc = "check" /\ q.print = print
  BY <1>2, <1>3 DEF Request
<1> HIDE DEF q
<1>6. QED BY <1>1, <1>3, <1>4, <1>5, OneRequest

LEMMA KnownOrdered ==
    ASSUME ReplayInv, NEW r \in Requests, NEW s \in Sources, Known(r, s)
    PROVE  ReplayInv'
<1>1. mark[s] \in Loads \cup {Absent} /\ (mark[s] \in Loads => mark[s] <= loads[s])
  BY DEF ReplayInv, ReplayTypes, InOrder
<1>2. QED BY <1>1, PrintEntry DEF Known

(* A mark that is no newer than its source. *)
LEMMA NewMark ==
    ASSUME ReplayInv, NEW s \in Sources, NEW x \in Loads \cup {Absent}, x \in Loads => x <= loads[s],
           mark' = [mark EXCEPT ![s] = x], UNCHANGED <<question, loads, cache, request>>
    PROVE  ReplayInv'
<1> USE SameQuestion
<1>1. ReplayTypes'
  BY DEF ReplayInv, ReplayTypes
<1>2. \A print, read : /\ KnownBefore(print)' = KnownBefore(print)
                       /\ ReadAfter(print, read)' = ReadAfter(print, read)
  BY DEF KnownBefore, ReadAfter
<1>3. \A t \in Sources : mark'[t] \in Loads => mark'[t] <= loads[t]
  BY DEF ReplayInv, ReplayTypes, InOrder
<1>4. QED BY <1>1, <1>2, <1>3 DEF ReplayInv, InOrder

LEMMA AskOrdered ==
    ASSUME ReplayInv, NEW r \in Requests, NEW s \in Sources, AskSource(r, s)
    PROVE  ReplayInv'
<1>1. loads[s] \in Loads /\ loads[s] <= loads[s] /\ request[r].pc = "check"
      /\ UNCHANGED <<question, loads, cache>>
  BY Numbers DEF ReplayInv, ReplayTypes, AskSource
<1>2. CASE request' = [request EXCEPT ![r].print[s] = NoWatermark] /\ UNCHANGED mark
  BY <1>1, <1>2, Numbers, PrintEntry
<1>3. CASE /\ request' = [request EXCEPT ![r].print[s] = loads[s]]
           /\ mark' = [mark EXCEPT ![s] = loads[s]]
  <2> DEFINE print == [request[r].print EXCEPT ![s] = loads[s]]
             q == [request[r] EXCEPT !.print = print]
  <2>1. request' = [request EXCEPT ![r] = q]
    BY <1>3 DEF ReplayInv, ReplayTypes
  <2>2. request[r] \in Request /\ request[r].print \in Prints /\ KnownBefore(request[r].print)
    BY <1>1 DEF ReplayInv, ReplayTypes, InOrder
  <2>3. print \in Prints /\ KnownBefore(print)
    BY <1>1, <2>2 DEF Prints, KnownBefore
  <2> HIDE DEF print
  <2>4. q \in Request /\ q.pc = "check" /\ q.print = print
    BY <1>1, <2>2, <2>3 DEF Request
  <2> HIDE DEF q
  <2> USE SameQuestion
  <2>5. /\ request'[r] = q /\ (\A x \in Requests \ {r} : request'[x] = request[x])
        /\ request' \in [Requests -> Request]
    BY <2>1, <2>4 DEF ReplayInv, ReplayTypes
  <2>6. /\ mark' \in [Sources -> Loads \cup {Absent}]
        /\ \A t \in Sources : mark'[t] \in Loads => mark'[t] <= loads[t]
    BY <1>1, <1>3 DEF ReplayInv, ReplayTypes, InOrder
  <2>7. \A p, d : KnownBefore(p)' = KnownBefore(p) /\ ReadAfter(p, d)' = ReadAfter(p, d)
    BY <1>1 DEF KnownBefore, ReadAfter
  <2>8. ReplayTypes'
    BY <1>1, <2>3, <2>4, <2>5, <2>6 DEF ReplayInv, ReplayTypes
  <2>9. InOrder'
    BY <1>1, <2>3, <2>4, <2>5, <2>6, <2>7 DEF ReplayInv, InOrder
  <2>10. QED BY <2>8, <2>9 DEF ReplayInv
<1>4. QED BY <1>2, <1>3 DEF AskSource

LEMMA LookupOrdered ==
    ASSUME ReplayInv, NEW r \in Requests, Lookup(r)
    PROVE  ReplayInv'
<1>1. /\ request[r] \in Request /\ request[r].print \in Prints /\ KnownBefore(request[r].print)
      /\ request[r].pc = "check" /\ UNCHANGED <<question, loads, mark, cache>>
  BY DEF ReplayInv, ReplayTypes, InOrder, Lookup
<1>2. CASE request' = [request EXCEPT ![r].pc = "run", ![r].read = [q \in Bundle |-> Absent]]
  <2> DEFINE read == [q \in Bundle |-> Absent]
             new == [request[r] EXCEPT !.pc = "run", !.read = read]
  <2>1. request' = [request EXCEPT ![r] = new]
    BY <1>2 DEF ReplayInv, ReplayTypes
  <2>2. read \in Reads /\ \A print : ReadAfter(print, read)
    BY Numbers DEF Reads, ReadAfter
  <2> HIDE DEF read
  <2>3. new \in Request /\ new.print = request[r].print /\ new.read = read
    BY <1>1, <2>2 DEF Request
  <2> HIDE DEF new
  <2>4. QED BY <1>1, <2>1, <2>2, <2>3, OneRequest
<1>3. CASE \E e \in Entries(request[r].print) :
              request' = [request EXCEPT ![r].pc = "shown", ![r].read = e.read]
  <2>1. PICK e \in cache : request' = [request EXCEPT ![r].pc = "shown", ![r].read = e.read]
    BY <1>3 DEF Entries
  <2> DEFINE new == [request[r] EXCEPT !.pc = "shown", !.read = e.read]
  <2>2. request' = [request EXCEPT ![r] = new]
    BY <2>1 DEF ReplayInv, ReplayTypes
  <2>3. e.read \in Reads
    BY DEF ReplayInv, ReplayTypes
  <2>4. new \in Request /\ new.pc = "shown"
    BY <1>1, <2>3 DEF Request
  <2> HIDE DEF new
  <2>5. QED BY <1>1, <2>2, <2>4, OneRequest
<1>4. QED BY <1>2, <1>3 DEF Lookup

LEMMA SettleOrdered ==
    ASSUME ReplayInv, NEW r \in Requests, NEW q \in Base, Settle(r, q)
    PROVE  ReplayInv'
<1>1. PICK outcome \in {loads[SourceOf[q]], Failed} :
         request' = [request EXCEPT ![r].read[q] = outcome]
  BY DEF Settle
<1>2. /\ request[r] \in Request /\ request[r].print \in Prints /\ request[r].read \in Reads
      /\ request[r].pc = "run" /\ q \in Bundle /\ UNCHANGED <<question, loads, mark, cache>>
      /\ KnownBefore(request[r].print) /\ ReadAfter(request[r].print, request[r].read)
  BY DEF ReplayInv, ReplayTypes, InOrder, Settle
<1>3. /\ SourceOf[q] \in Sources /\ SourceOf[q] \in Dependencies
      /\ loads[SourceOf[q]] \in Loads /\ outcome \in Loads \cup {Failed}
  BY <1>2, Numbers DEF ReplayInv, ReplayTypes
<1> DEFINE read == [request[r].read EXCEPT ![q] = outcome]
           new == [request[r] EXCEPT !.read = read]
<1>4. request' = [request EXCEPT ![r] = new]
  BY <1>1 DEF ReplayInv, ReplayTypes
<1>5. read \in Reads
  BY <1>2, <1>3 DEF Reads
<1>6. ReadAfter(request[r].print, read)
  <2> SUFFICES ASSUME NEW x \in Bundle, read[x] \in Loads
               PROVE  /\ x \in Base /\ read[x] <= loads[SourceOf[x]]
                      /\ request[r].print[SourceOf[x]] \in Loads
                            => request[r].print[SourceOf[x]] <= read[x]
    BY DEF ReadAfter
  <2>1. CASE x = q
    <3>1. read[x] = loads[SourceOf[q]]
      BY <1>2, <1>3, <2>1, Numbers DEF Reads
    <3>2. loads[SourceOf[q]] <= loads[SourceOf[q]]
      <4>1. loads[SourceOf[q]] \in Nat
        BY <1>3, Numbers, Zenon
      <4>2. QED BY <4>1
    <3>3. QED BY <1>2, <1>3, <2>1, <3>1, <3>2 DEF KnownBefore
  <2>2. CASE x # q
    <3>1. read[x] = request[r].read[x]
      BY <1>2, <2>2 DEF Reads
    <3>2. QED BY <1>2, <3>1 DEF ReadAfter
  <2>3. QED BY <2>1, <2>2
<1> HIDE DEF read
<1>7. new \in Request /\ new.pc = "run" /\ new.print = request[r].print /\ new.read = read
  BY <1>2, <1>5 DEF Request
<1> HIDE DEF new
<1>8. QED BY <1>2, <1>4, <1>5, <1>6, <1>7, OneRequest

(* Back to the start, or on to the end of the request. *)
LEMMA EndedOrdered ==
    ASSUME ReplayInv, NEW r \in Requests, UNCHANGED <<question, loads, mark, cache>>,
           \/ request' = [request EXCEPT ![r] = Idle]
           \/ request' = [request EXCEPT ![r].pc = "shown"]
    PROVE  ReplayInv'
<1>1. CASE request' = [request EXCEPT ![r] = Idle]
  <2>1. Idle \in Request /\ Idle.pc = "idle"
    BY DEF Idle, Request
  <2>2. QED BY <1>1, <2>1, OneRequest
<1>2. CASE request' = [request EXCEPT ![r].pc = "shown"]
  <2> DEFINE new == [request[r] EXCEPT !.pc = "shown"]
  <2>1. request' = [request EXCEPT ![r] = new]
    BY <1>2 DEF ReplayInv, ReplayTypes
  <2>2. new \in Request /\ new.pc = "shown"
    BY DEF ReplayInv, ReplayTypes, Request
  <2> HIDE DEF new
  <2>3. QED BY <2>1, <2>2, OneRequest
<1>3. QED BY <1>1, <1>2

(* A result is kept, or dropped. *)
LEMMA NewResults ==
    ASSUME ReplayInv, UNCHANGED <<question, loads, mark, request>>,
           \A e \in cache' \ cache :
              /\ e \in [print: Prints, read: Reads] /\ ReadAfter(e.print, e.read)
              /\ \A q \in Bundle : e.read[q] \in Loads
    PROVE  ReplayInv'
<1> USE SameQuestion
<1>1. ReplayTypes'
  BY DEF ReplayInv, ReplayTypes
<1>2. \A p, d : KnownBefore(p)' = KnownBefore(p) /\ ReadAfter(p, d)' = ReadAfter(p, d)
  BY DEF KnownBefore, ReadAfter
<1>3. QED BY <1>1, <1>2 DEF ReplayInv, InOrder

LEMMA FinishOrdered ==
    ASSUME ReplayInv, NEW r \in Requests, Finish(r)
    PROVE  ReplayInv'
<1>1. /\ request[r].print \in Prints /\ request[r].read \in Reads
      /\ ReadAfter(request[r].print, request[r].read)
      /\ UNCHANGED <<question, loads, mark>>
      /\ \A q \in Bundle : request[r].read[q] # Absent
  BY DEF ReplayInv, ReplayTypes, InOrder, Finish
<1>2. CASE request' = [request EXCEPT ![r] = Idle] /\ UNCHANGED cache
  BY <1>1, <1>2, EndedOrdered
<1>3. CASE /\ Failures(r) = {} /\ request' = [request EXCEPT ![r].pc = "shown"]
           /\ cache' = (cache \ Entries(PrintOf(r)))
                          \cup {[print |-> PrintOf(r), read |-> request[r].read]}
  <2> DEFINE new == [request[r] EXCEPT !.pc = "shown"]
             entry == [print |-> request[r].print, read |-> request[r].read]
  <2>1. /\ request' = [request EXCEPT ![r] = new] /\ new \in Request /\ new.pc = "shown"
    BY <1>3 DEF ReplayInv, ReplayTypes, Request
  <2>2. /\ entry \in [print: Prints, read: Reads] /\ ReadAfter(entry.print, entry.read)
        /\ \A q \in Bundle : entry.read[q] \in Loads
    BY <1>1, <1>3 DEF Failures, Reads
  <2>3. cache' \subseteq cache \cup {entry}
    BY <1>3 DEF PrintOf
  <2> HIDE DEF new, entry
  <2> USE SameQuestion
  <2>4. /\ request'[r] = new /\ (\A x \in Requests \ {r} : request'[x] = request[x])
        /\ request' \in [Requests -> Request]
    BY <2>1 DEF ReplayInv, ReplayTypes
  <2>5. \A p, d : KnownBefore(p)' = KnownBefore(p) /\ ReadAfter(p, d)' = ReadAfter(p, d)
    BY <1>1 DEF KnownBefore, ReadAfter
  <2>6. ReplayTypes'
    BY <1>1, <2>1, <2>2, <2>3, <2>4 DEF ReplayInv, ReplayTypes
  <2>7. InOrder'
    BY <1>1, <2>1, <2>2, <2>3, <2>4, <2>5 DEF ReplayInv, InOrder
  <2>8. QED BY <2>6, <2>7 DEF ReplayInv
<1>4. QED BY <1>2, <1>3 DEF Finish

(* A source only ever has more loads. *)
LEMMA LoadOrdered ==
    ASSUME ReplayInv, NEW s \in Sources, Load(s)
    PROVE  ReplayInv'
<1> USE SameQuestion, Numbers
<1>1. /\ loads \in [Sources -> Loads] /\ loads' = [loads EXCEPT ![s] = @ + 1]
      /\ loads[s] < MaxLoads /\ UNCHANGED <<question, mark, cache, request>>
  BY DEF ReplayInv, ReplayTypes, Load
<1>2. loads' \in [Sources -> Loads] /\ \A t \in Sources : loads[t] <= loads'[t]
  <2>1. \A t \in Sources : loads'[t] = IF t = s THEN loads[s] + 1 ELSE loads[t]
    BY <1>1
  <2>2. loads[s] + 1 \in Loads
    BY <1>1
  <2>3. ASSUME NEW t \in Sources PROVE loads'[t] \in Loads /\ loads[t] <= loads'[t]
    <3>1. loads[t] \in Nat /\ loads[t] \in Loads
      BY <1>1, Numbers
    <3>2. loads[t] <= loads[t] /\ loads[t] <= loads[t] + 1
      BY <3>1
    <3>3. QED BY <2>1, <2>2, <3>1, <3>2
  <2>4. QED BY <1>1, <2>3
<1>3. ReplayTypes'
  BY <1>1, <1>2 DEF ReplayInv, ReplayTypes
<1>4. \A n \in Loads, t \in Sources : n <= loads[t] => n <= loads'[t]
  <2>1. ASSUME NEW n \in Loads, NEW t \in Sources, n <= loads[t] PROVE n <= loads'[t]
    <3>1. n \in Nat /\ loads[t] \in Nat /\ loads'[t] \in Nat /\ loads[t] <= loads'[t]
      BY <1>1, <1>2
    <3>2. QED BY <2>1, <3>1
  <2>2. QED BY <2>1
<1>5. ASSUME NEW p, NEW d
      PROVE  /\ KnownBefore(p) => KnownBefore(p)'
             /\ ReadAfter(p, d) => ReadAfter(p, d)'
  BY <1>1, <1>4 DEF KnownBefore, ReadAfter
<1>6. InOrder'
  BY <1>1, <1>4, <1>5 DEF ReplayInv, InOrder
<1>7. QED BY <1>3, <1>6 DEF ReplayInv

LEMMA ReplayStep == ReplayInv /\ [ReplayNext]_wvars => ReplayInv'
<1> SUFFICES ASSUME ReplayInv, [ReplayNext]_wvars PROVE ReplayInv'
  OBVIOUS
<1>1. CASE UNCHANGED wvars
  BY <1>1, NewResults DEF wvars
<1>2. ASSUME NEW r \in Requests,
             \/ \E force \in BOOLEAN : Open(r, force)
             \/ \E s \in Sources : Known(r, s) \/ AskSource(r, s)
             \/ Lookup(r)
             \/ \E q \in Base : Settle(r, q)
             \/ Finish(r) \/ Close(r)
      PROVE  ReplayInv'
  <2>1. Close(r) => ReplayInv'
    BY EndedOrdered DEF Close
  <2>2. QED BY <1>2, <2>1, OpenOrdered, KnownOrdered, AskOrdered, LookupOrdered, SettleOrdered,
               FinishOrdered
<1>3. ASSUME NEW s \in Sources, Load(s) \/ ExpireMark(s) PROVE ReplayInv'
  <2>1. ExpireMark(s) => ReplayInv'
    BY Numbers, NewMark DEF ExpireMark
  <2>2. QED BY <1>3, <2>1, LoadOrdered
<1>4. ASSUME NEW e \in cache, ExpireResult(e) PROVE ReplayInv'
  BY <1>4, NewResults DEF ExpireResult
<1>5. QED BY <1>1, <1>2, <1>3, <1>4 DEF ReplayNext

(* For any sources, questions and requests: a result that is found under    *)
(* the watermarks the sources have now was read from what they hold now.    *)
(* It lies between the print, which is no newer, and the loads.             *)
THEOREM KeptResultsAreCurrent == ReplaySpec => []CurrentKeyIsCurrent
<1>1. ReplayInv => CurrentKeyIsCurrent
  <2> SUFFICES ASSUME ReplayInv, NEW e \in cache,
                      \A s \in DOMAIN e.print : e.print[s] = loads[s],
                      NEW q \in DOMAIN e.read
               PROVE  e.read[q] = loads[SourceOf[q]]
    BY DEF CurrentKeyIsCurrent
  <2>1. q \in Bundle /\ DOMAIN e.print = Dependencies
    BY DEF ReplayInv, ReplayTypes, Prints, Reads
  <2>2. /\ e.read[q] \in Loads /\ q \in Base /\ e.read[q] <= loads[SourceOf[q]]
        /\ e.print[SourceOf[q]] \in Loads => e.print[SourceOf[q]] <= e.read[q]
    BY <2>1 DEF ReplayInv, InOrder, ReadAfter
  <2>3. e.print[SourceOf[q]] = loads[SourceOf[q]] /\ loads[SourceOf[q]] \in Loads
    BY <2>1, <2>2, Numbers DEF ReplayInv, ReplayTypes
  <2>4. e.read[q] \in Nat /\ loads[SourceOf[q]] \in Nat
    BY <2>2, <2>3, Numbers, Zenon
  <2>5. loads[SourceOf[q]] <= e.read[q] /\ e.read[q] <= loads[SourceOf[q]]
    BY <2>2, <2>3
  <2>6. QED BY <2>4, <2>5
<1>2. QED BY <1>1, ReplayStarts, ReplayStep, PTL DEF ReplaySpec

-----------------------------------------------------------------------------
(* WidgetReplay: the numbers of a stored widget.  A running sum is looked    *)
(* into by induction over the rows; where the answer and the widget apply   *)
(* the same operators to the same columns, that is not needed.              *)

(* Induction, over numbers and over finite sets, with the statement as a    *)
(* set: what is to be shown of the members of P.                           *)

LEMMA Smallest ==
    ASSUME NEW S \in SUBSET Nat, S # {}
    PROVE  \E n \in S : \A m \in S : n <= m
<1> DEFINE R == {ss \in Nat \X Nat : ss[1] < ss[2]}
<1>1. IsWellFoundedOn(R, Nat)
  BY NatLessThanWellFounded DEF OpToRel
<1> HIDE DEF R
<1>2. \E x \in S : \A y \in S : <<y, x>> \notin R
  BY <1>1, WFMin
<1>3. ASSUME NEW x \in S, NEW y \in S, <<y, x>> \notin R
      PROVE  x <= y
  BY <1>3 DEF R
<1>4. QED BY <1>2, <1>3

LEMMA NumberInduction ==
    ASSUME NEW P, 0 \in P, \A n \in Nat : n \in P => n + 1 \in P
    PROVE  Nat \subseteq P
<1> SUFFICES ASSUME Nat \ P # {} PROVE FALSE
  OBVIOUS
<1>1. PICK n \in Nat \ P : \A m \in Nat \ P : n <= m
  BY Smallest
<1>2. n # 0 /\ n - 1 \in Nat /\ n - 1 \in P
  BY <1>1
<1>3. QED BY <1>1, <1>2

LEMMA SetInduction ==
    ASSUME NEW S, IsFiniteSet(S), NEW P,
           \A T \in SUBSET S : (\A x \in T : T \ {x} \in P) => T \in P
    PROVE  SUBSET S \subseteq P
<1> DEFINE bad == {T \in SUBSET S : T \notin P}
           sizes == {Cardinality(T) : T \in bad}
<1> SUFFICES ASSUME bad # {} PROVE FALSE
  OBVIOUS
<1>1. \A T \in SUBSET S : IsFiniteSet(T) /\ Cardinality(T) \in Nat
  BY FS_Subset, FS_CardinalityType
<1>2. sizes \in SUBSET Nat /\ sizes # {}
  BY <1>1
<1>3. PICK n \in sizes : \A m \in sizes : n <= m
  <2> HIDE DEF sizes
  <2>1. QED BY <1>2, Smallest
<1>4. PICK T \in bad : Cardinality(T) = n
  BY <1>3
<1>5. ASSUME NEW x \in T
      PROVE  T \ {x} \in P
  <2>1. Cardinality(T \ {x}) = n - 1 /\ n \in Nat
    BY <1>1, <1>4, FS_RemoveElement
  <2>2. T \ {x} \notin bad
    BY <1>3, <2>1
  <2>3. QED BY <1>4, <2>2
<1>6. QED BY <1>4, <1>5

-----------------------------------------------------------------------------
(* Fractions with a value.                                                 *)

Fractions == Int \X (Nat \ {0})

LEMMA PlusType == \A x, y \in Fractions : Plus(x, y) \in Fractions
<1> SUFFICES ASSUME NEW x \in Fractions, NEW y \in Fractions PROVE Plus(x, y) \in Fractions
  OBVIOUS
<1> DEFINE b == x[2]
           d == y[2]
<1>1. b \in Nat \ {0} /\ d \in Nat \ {0} /\ x[1] \in Int /\ y[1] \in Int
  BY DEF Fractions
<1>2. b * d \in Nat \ {0}
  <2> HIDE DEF b, d
  <2>1. b \in Int /\ d \in Int /\ b > 0 /\ d > 0
    BY <1>1
  <2>2. b * d \in Int /\ b * d > 0
    BY <2>1
  <2>3. QED BY <2>2
<1>3. x[1] * y[2] + y[1] * x[2] \in Int
  BY <1>1
<1>4. QED BY <1>2, <1>3 DEF Plus, Fractions

LEMMA PlusSwaps == \A x, y, z \in Fractions : Plus(Plus(x, y), z) = Plus(Plus(x, z), y)
<1>1. ASSUME NEW a \in Int, NEW b \in Int, NEW c \in Int, NEW d \in Int, NEW e \in Int, NEW f \in Int
      PROVE  /\ (a * d + c * b) * f + e * (b * d) = (a * f + e * b) * d + c * (b * f)
             /\ (b * d) * f = (b * f) * d
  OBVIOUS
<1>2. ASSUME NEW x \in Fractions, NEW y \in Fractions, NEW z \in Fractions
      PROVE  Plus(Plus(x, y), z) = Plus(Plus(x, z), y)
  <2>1. /\ x[1] \in Int /\ x[2] \in Int /\ y[1] \in Int /\ y[2] \in Int /\ z[1] \in Int /\ z[2] \in Int
    BY DEF Fractions
  <2>2. QED BY <1>1, <2>1 DEF Plus
<1>3. QED BY <1>2

LEMMA FractionsCount == \A x \in Fractions : x # Null /\ Numeric(x) = x /\ Same(x, x)
  BY DEF Fractions, Null, Numeric, Same

LEMMA ZeroCounts == Zero \in Fractions
  BY DEF Zero, Fractions

-----------------------------------------------------------------------------
(* The total of a column over a finite set of rows, taken in any order.     *)

TotalStep(g, s, column) ==
    IF s = {} THEN Zero
    ELSE Plus(g[s \ {CHOOSE x \in s : TRUE}], column[CHOOSE x \in s : TRUE])
Totals(g, S, column) == g = [s \in SUBSET S |-> TotalStep(g, s, column)]

LEMMA TotalUnfolds ==
    ASSUME NEW column, NEW S
    PROVE  Total(column, S) = (CHOOSE g : Totals(g, S, column))[S]
  BY DEF Total, FoldSet, MapThenFoldSet, Totals, TotalStep

LEMMA TotalsExist ==
    ASSUME NEW column, NEW S, IsFiniteSet(S)
    PROVE  \E g : Totals(g, S, column)
<1> DEFINE Small(n) == {s \in SUBSET S : Cardinality(s) <= n}
           P == {n \in Nat : \E g : g = [s \in Small(n) |-> TotalStep(g, s, column)]}
<1>1. \A s \in SUBSET S : IsFiniteSet(s) /\ Cardinality(s) \in Nat /\ Cardinality(s) <= Cardinality(S)
  BY FS_Subset, FS_CardinalityType
<1>2. \A s \in SUBSET S : \A x \in s : s \ {x} \in SUBSET S /\ Cardinality(s \ {x}) = Cardinality(s) - 1
  BY <1>1, FS_RemoveElement
<1>3. \A s \in SUBSET S : Cardinality(s) = 0 <=> s = {}
  BY <1>1, FS_EmptySet
<1>4. 0 \in P
  <2> DEFINE g == [s \in Small(0) |-> Zero]
  <2>1. \A s \in Small(0) : s = {}
    BY <1>1, <1>3
  <2>2. g = [s \in Small(0) |-> TotalStep(g, s, column)]
    BY <2>1 DEF TotalStep
  <2> HIDE DEF g
  <2>3. QED BY <2>2
<1>5. ASSUME NEW n \in Nat, n \in P
      PROVE  n + 1 \in P
  <2>1. PICK g : g = [s \in Small(n) |-> TotalStep(g, s, column)]
    BY <1>5
  <2> DEFINE h == [s \in Small(n + 1) |-> IF s \in Small(n) THEN g[s] ELSE TotalStep(g, s, column)]
  <2>2. ASSUME NEW s \in Small(n + 1)
        PROVE  h[s] = TotalStep(h, s, column)
    <3> DEFINE x == CHOOSE y \in s : TRUE
    <3>1. h[s] = TotalStep(g, s, column)
      BY <2>1
    <3>2. CASE s = {}
      BY <3>1, <3>2 DEF TotalStep
    <3>3. CASE s # {}
      <4>1. x \in s
        BY <3>3
      <4>2. s \in SUBSET S /\ Cardinality(s) <= n + 1 /\ Cardinality(s) \in Nat
        BY <1>1
      <4>3. s \ {x} \in Small(n)
        <5> HIDE DEF x
        <5>1. QED BY <1>2, <4>1, <4>2
      <4>4. s \ {x} \in Small(n + 1)
        <5> HIDE DEF x
        <5>1. QED BY <1>1, <4>3
      <4>5. h[s \ {x}] = g[s \ {x}]
        BY <4>3, <4>4
      <4>6. QED BY <3>1, <3>3, <4>5 DEF TotalStep
    <3>4. QED BY <3>2, <3>3
  <2>3. h = [s \in Small(n + 1) |-> TotalStep(h, s, column)]
    <3> DEFINE D == Small(n + 1)
    <3>1. DOMAIN h = D /\ h = [s \in D |-> h[s]]
      OBVIOUS
    <3>2. \A s \in D : h[s] = TotalStep(h, s, column)
      BY <2>2
    <3> HIDE DEF h, D
    <3>3. h = [s \in D |-> TotalStep(h, s, column)]
      BY <3>1, <3>2
    <3>4. QED BY <3>3 DEF D
  <2> HIDE DEF h
  <2>4. QED BY <2>3
<1>6. Nat \subseteq P
  <2> HIDE DEF P
  <2>1. QED BY <1>4, <1>5, NumberInduction
<1>7. Cardinality(S) \in Nat /\ Small(Cardinality(S)) = SUBSET S
  BY <1>1
<1>8. QED BY <1>6, <1>7 DEF Totals

LEMMA TotalsAgree ==
    ASSUME NEW column, NEW S, NEW T, NEW g, NEW h, IsFiniteSet(S),
           Totals(g, S, column), Totals(h, T, column), NEW s \in SUBSET S, s \in SUBSET T
    PROVE  g[s] = h[s]
<1> DEFINE P == {u \in SUBSET S : u \in SUBSET T => g[u] = h[u]}
<1>1. ASSUME NEW u \in SUBSET S, \A x \in u : u \ {x} \in P
      PROVE  u \in P
  <2>1. SUFFICES ASSUME u \in SUBSET T PROVE g[u] = h[u]
    BY DEF P
  <2>2. g[u] = TotalStep(g, u, column) /\ h[u] = TotalStep(h, u, column)
    BY <2>1 DEF Totals
  <2>3. CASE u = {}
    BY <2>2, <2>3 DEF TotalStep
  <2>4. CASE u # {}
    <3> DEFINE x == CHOOSE y \in u : TRUE
    <3>1. x \in u
      BY <2>4
    <3>2. u \ {x} \in P /\ u \ {x} \in SUBSET T
      BY <1>1, <2>1, <3>1
    <3>3. g[u \ {x}] = h[u \ {x}]
      BY <3>2
    <3>4. QED BY <2>2, <2>4, <3>3 DEF TotalStep
  <2>5. QED BY <2>3, <2>4
<1>2. SUBSET S \subseteq P
  <2> HIDE DEF P
  <2>1. QED BY <1>1, SetInduction
<1>3. QED BY <1>2

LEMMA TotalIs ==
    ASSUME NEW column, NEW S, IsFiniteSet(S), NEW g, Totals(g, S, column), NEW s \in SUBSET S
    PROVE  Total(column, s) = g[s]
<1>1. IsFiniteSet(s)
  BY FS_Subset
<1>2. Totals(CHOOSE h : Totals(h, s, column), s, column)
  BY <1>1, TotalsExist
<1> DEFINE h == CHOOSE f : Totals(f, s, column)
<1>3. Total(column, s) = h[s] /\ Totals(h, s, column)
  BY <1>2, TotalUnfolds
<1> HIDE DEF h
<1>4. s \in SUBSET s
  OBVIOUS
<1>5. QED BY <1>1, <1>3, <1>4, TotalsAgree

LEMMA TotalEmpty == \A column : Total(column, {}) = Zero
<1> SUFFICES ASSUME NEW column PROVE Total(column, {}) = Zero
  OBVIOUS
<1>1. PICK g : Totals(g, {}, column)
  BY FS_EmptySet, TotalsExist
<1>2. Total(column, {}) = g[{}]
  BY <1>1, FS_EmptySet, TotalIs
<1>3. QED BY <1>1, <1>2 DEF Totals, TotalStep

LEMMA TotalChosen ==
    ASSUME NEW column, NEW S, IsFiniteSet(S), S # {}
    PROVE  \E x \in S : Total(column, S) = Plus(Total(column, S \ {x}), column[x])
<1>1. PICK g : Totals(g, S, column)
  BY TotalsExist
<1> DEFINE x == CHOOSE y \in S : TRUE
<1>2. x \in S
  OBVIOUS
<1>3. Total(column, S) = g[S] /\ Total(column, S \ {x}) = g[S \ {x}]
  <2> HIDE DEF x
  <2>1. S \in SUBSET S /\ S \ {x} \in SUBSET S
    OBVIOUS
  <2>2. QED BY <1>1, <2>1, TotalIs
<1>4. g[S] = Plus(g[S \ {x}], column[x])
  <2>1. g[S] = TotalStep(g, S, column)
    BY <1>1 DEF Totals
  <2>2. QED BY <2>1 DEF TotalStep
<1> HIDE DEF x
<1>5. QED BY <1>2, <1>3, <1>4

LEMMA TotalType ==
    ASSUME NEW column, NEW S, IsFiniteSet(S), \A k \in S : column[k] \in Fractions
    PROVE  Total(column, S) \in Fractions
<1> DEFINE P == {T \in SUBSET S : Total(column, T) \in Fractions}
<1>1. ASSUME NEW T \in SUBSET S, \A x \in T : T \ {x} \in P
      PROVE  T \in P
  <2>1. IsFiniteSet(T)
    BY FS_Subset
  <2>2. CASE T = {}
    BY <2>2, TotalEmpty, ZeroCounts
  <2>3. CASE T # {}
    <3>1. PICK x \in T : Total(column, T) = Plus(Total(column, T \ {x}), column[x])
      BY <2>1, <2>3, TotalChosen
    <3>2. QED BY <1>1, <3>1, PlusType
  <2>4. QED BY <2>2, <2>3
<1>2. SUBSET S \subseteq P
  <2> HIDE DEF P
  <2>1. QED BY <1>1, SetInduction
<1>3. QED BY <1>2

(* Whichever row is taken out first. *)
LEMMA TotalRemove ==
    ASSUME NEW column, NEW S, IsFiniteSet(S), \A k \in S : column[k] \in Fractions, NEW y \in S
    PROVE  Total(column, S) = Plus(Total(column, S \ {y}), column[y])
<1> DEFINE P == {T \in SUBSET S :
                    \A z \in T : Total(column, T) = Plus(Total(column, T \ {z}), column[z])}
<1>1. ASSUME NEW T \in SUBSET S, \A x \in T : T \ {x} \in P
      PROVE  T \in P
  <2> SUFFICES ASSUME NEW z \in T
               PROVE  Total(column, T) = Plus(Total(column, T \ {z}), column[z])
    OBVIOUS
  <2>1. IsFiniteSet(T)
    BY FS_Subset
  <2>2. PICK x \in T : Total(column, T) = Plus(Total(column, T \ {x}), column[x])
    BY <2>1, TotalChosen
  <2>3. CASE x = z
    BY <2>2, <2>3
  <2>4. CASE x # z
    <3> DEFINE rest == T \ {x, z}
    <3>1. (T \ {x}) \ {z} = rest /\ (T \ {z}) \ {x} = rest
      OBVIOUS
    <3>2. Total(column, T \ {x}) = Plus(Total(column, rest), column[z])
      <4>1. T \ {x} \in P /\ z \in T \ {x}
        BY <1>1, <2>4
      <4>2. QED BY <3>1, <4>1
    <3>3. Total(column, T \ {z}) = Plus(Total(column, rest), column[x])
      <4>1. T \ {z} \in P /\ x \in T \ {z}
        BY <1>1, <2>4
      <4>2. QED BY <3>1, <4>1
    <3>4. /\ Total(column, rest) \in Fractions
          /\ column[x] \in Fractions /\ column[z] \in Fractions
      <4>1. IsFiniteSet(rest) /\ \A k \in rest : column[k] \in Fractions
        BY FS_Subset
      <4> HIDE DEF rest
      <4>2. QED BY <4>1, TotalType
    <3>5. QED BY <2>2, <3>2, <3>3, <3>4, PlusSwaps
  <2>5. QED BY <2>3, <2>4
<1>2. SUBSET S \subseteq P
  <2> HIDE DEF P
  <2>1. QED BY <1>1, SetInduction
<1>3. S \in P
  BY <1>2
<1>4. QED BY <1>3

-----------------------------------------------------------------------------
(* The order of the rows.                                                  *)

LEMMA RowTypes ==
    \A k \in Rows : /\ k = <<k[1], k[2]>> /\ k[1] \in Times /\ k[1] \in Nat /\ k[2] \in Nat
                    /\ k[2] \in Dealers \cup {0}
  BY MetricAssumption DEF Rows

LEMMA RowsEqual == \A k, l \in Rows : k[1] = l[1] /\ k[2] = l[2] => k = l
<1> SUFFICES ASSUME NEW k \in Rows, NEW l \in Rows, k[1] = l[1], k[2] = l[2] PROVE k = l
  OBVIOUS
<1>1. k = <<k[1], k[2]>> /\ l = <<l[1], l[2]>>
  BY RowTypes
<1>2. QED BY <1>1

LEMMA BeforeOrders ==
    ASSUME NEW b \in BOOLEAN, NEW k \in Rows, NEW l \in Rows, NEW m \in Rows
    PROVE  /\ ~Before(k, k, b)
           /\ k = l \/ Before(k, l, b) \/ Before(l, k, b)
           /\ Before(k, l, b) /\ Before(l, m, b) => Before(k, m, b)
<1>1. /\ k[1] \in Nat /\ k[2] \in Nat /\ l[1] \in Nat /\ l[2] \in Nat
      /\ m[1] \in Nat /\ m[2] \in Nat
      /\ k[1] = l[1] /\ k[2] = l[2] => k = l
  BY RowTypes, RowsEqual
<1>2. /\ ~Before(k, k, TRUE)
      /\ k = l \/ Before(k, l, TRUE) \/ Before(l, k, TRUE)
      /\ Before(k, l, TRUE) /\ Before(l, m, TRUE) => Before(k, m, TRUE)
  BY <1>1 DEF Before
<1>3. /\ ~Before(k, k, FALSE)
      /\ k = l \/ Before(k, l, FALSE) \/ Before(l, k, FALSE)
      /\ Before(k, l, FALSE) /\ Before(l, m, FALSE) => Before(k, m, FALSE)
  BY <1>1 DEF Before
<1>4. CASE b = TRUE
  BY <1>2, <1>4, Zenon
<1>5. CASE b = FALSE
  BY <1>3, <1>5, Zenon
<1>6. QED BY <1>4, <1>5

(* Within a partition the order is that of time. *)
LEMMA BeforeInPartition ==
    ASSUME NEW b \in BOOLEAN, NEW k \in Rows, NEW l \in Rows,
           Partition(k, b) = Partition(l, b), Before(l, k, b)
    PROVE  l[1] <= k[1]
<1>1. k[1] \in Nat /\ k[2] \in Nat /\ l[1] \in Nat /\ l[2] \in Nat
  BY RowTypes
<1>2. CASE b = TRUE
  <2>1. Before(l, k, TRUE) /\ Partition(k, TRUE) = Partition(l, TRUE)
    BY <1>2, Zenon
  <2>2. QED BY <1>1, <2>1 DEF Before, Partition
<1>3. CASE b = FALSE
  <2>1. Before(l, k, FALSE)
    BY <1>3, Zenon
  <2>2. QED BY <1>1, <2>1 DEF Before
<1>4. QED BY <1>2, <1>3

LEMMA PeriodGrows ==
    ASSUME NEW reset \in {"none", "year", "month"}, NEW t \in Times, NEW u \in Times, t <= u
    PROVE  /\ Period(reset, t) \in Nat /\ Period(reset, u) \in Nat
           /\ Period(reset, t) <= Period(reset, u)
<1>1. CASE reset = "none"
  BY <1>1 DEF Period
<1>2. CASE reset # "none"
  BY <1>2, MetricAssumption, PeriodsInOrder DEF Period
<1>3. QED BY <1>1, <1>2

(* Every row has its own number of rows before it, so Sorted lists each row  *)
(* once, in order.                                                         *)
LEMMA SortedRows ==
    ASSUME NEW K \in SUBSET Rows, IsFiniteSet(K), NEW b \in BOOLEAN
    PROVE  LET seq == Sorted(K, b)
               n == Cardinality(K)
           IN  /\ n \in Nat /\ DOMAIN seq = 1 .. n
               /\ \A i \in 1 .. n : seq[i] \in K
               /\ \A k \in K : \E i \in 1 .. n : k = seq[i]
               /\ \A i, j \in 1 .. n : Before(seq[i], seq[j], b) <=> i < j
<1> DEFINE n == Cardinality(K)
           Below(k) == {l \in K : Before(l, k, b)}
           rank == [k \in K |-> Cardinality(Below(k))]
           seq == Sorted(K, b)
<1>1. n \in Nat
  BY FS_CardinalityType
<1>2. ASSUME NEW k \in K
      PROVE  IsFiniteSet(Below(k)) /\ rank[k] \in 0 .. n - 1
  <2>1. Below(k) \subseteq K \ {k}
    BY BeforeOrders
  <2>2. IsFiniteSet(K \ {k}) /\ Cardinality(K \ {k}) = n - 1
    BY FS_RemoveElement
  <2>3. IsFiniteSet(Below(k)) /\ Cardinality(Below(k)) <= n - 1 /\ Cardinality(Below(k)) \in Nat
    <3> DEFINE B == Below(k)
    <3> HIDE DEF B
    <3>1. IsFiniteSet(B) /\ Cardinality(B) <= n - 1 /\ Cardinality(B) \in Nat
      BY <2>1, <2>2, FS_Subset, FS_CardinalityType DEF B
    <3>2. QED BY <3>1 DEF B
  <2>4. QED BY <1>1, <2>3
<1>3. ASSUME NEW k \in K, NEW l \in K, Before(k, l, b)
      PROVE  rank[k] < rank[l]
  <2>1. Below(k) \subseteq Below(l) /\ k \in Below(l) /\ k \notin Below(k)
    BY <1>3, BeforeOrders
  <2>2. /\ IsFiniteSet(Below(l)) /\ rank[k] = Cardinality(Below(k)) /\ rank[l] = Cardinality(Below(l))
    BY <1>2
  <2>3. rank[k] \in 0 .. n - 1 /\ rank[l] \in 0 .. n - 1
    BY <1>2
  <2> HIDE DEF Below, rank
  <2>4. Cardinality(Below(k)) <= Cardinality(Below(l)) /\ Cardinality(Below(k)) # Cardinality(Below(l))
    BY <2>1, <2>2, FS_Subset
  <2>5. QED BY <1>1, <2>2, <2>3, <2>4
<1>4. \A k, l \in K : (Before(k, l, b) <=> rank[k] < rank[l]) /\ (rank[k] = rank[l] => k = l)
  <2> SUFFICES ASSUME NEW k \in K, NEW l \in K
               PROVE  (Before(k, l, b) <=> rank[k] < rank[l]) /\ (rank[k] = rank[l] => k = l)
    OBVIOUS
  <2>1. rank[k] \in 0 .. n - 1 /\ rank[l] \in 0 .. n - 1
    BY <1>2
  <2>2. k = l \/ Before(k, l, b) \/ Before(l, k, b)
    BY BeforeOrders
  <2> HIDE DEF rank
  <2>3. QED BY <1>1, <1>3, <2>1, <2>2
<1>5. rank \in Injection(K, 0 .. n - 1)
  <2>1. rank \in [K -> 0 .. n - 1]
    BY <1>2
  <2> HIDE DEF rank
  <2>2. QED BY <1>4, <2>1 DEF Injection, IsInjective
<1>6. rank \in Surjection(K, 0 .. n - 1)
  <2>1. IsFiniteSet(0 .. n - 1) /\ Cardinality(0 .. n - 1) = n
    <3>1. 0 \in Int /\ n - 1 \in Int
      BY <1>1
    <3>2. IsFiniteSet(0 .. n - 1) /\ Cardinality(0 .. n - 1) = IF 0 > n - 1 THEN 0 ELSE n - 1 - 0 + 1
      BY <3>1, FS_Interval
    <3>3. QED BY <1>1, <3>2
  <2> HIDE DEF rank
  <2>2. QED BY <1>5, <2>1, FS_Injection
<1>7. /\ DOMAIN seq = 1 .. n
      /\ \A i \in 1 .. n : seq[i] = CHOOSE k \in K : Cardinality(Below(k)) = i - 1
  BY DEF Sorted
<1>8. ASSUME NEW i \in 1 .. n
      PROVE  seq[i] \in K /\ rank[seq[i]] = i - 1
  <2>1. \E k \in K : rank[k] = i - 1
    <3> HIDE DEF rank
    <3>1. i - 1 \in 0 .. n - 1
      BY <1>1
    <3>2. QED BY <1>6, <3>1 DEF Surjection
  <2>2. \E k \in K : Cardinality(Below(k)) = i - 1
    BY <2>1
  <2> DEFINE x == CHOOSE k \in K : Cardinality(Below(k)) = i - 1
  <2>3. x \in K /\ Cardinality(Below(x)) = i - 1
    BY <2>2
  <2>4. seq[i] = x
    BY <1>7
  <2> HIDE DEF x, seq
  <2>5. QED BY <2>3, <2>4
<1> HIDE DEF rank
<1>9. ASSUME NEW k \in K
      PROVE  \E i \in 1 .. n : k = seq[i]
  <2>1. rank[k] \in 0 .. n - 1
    BY <1>5 DEF Injection
  <2> DEFINE i == rank[k] + 1
  <2>2. i \in 1 .. n /\ i - 1 = rank[k]
    BY <1>1, <2>1
  <2> HIDE DEF i
  <2>3. seq[i] \in K /\ rank[seq[i]] = rank[k]
    <3>1. seq[i] \in K /\ rank[seq[i]] = i - 1
      BY <1>8, <2>2
    <3>2. QED BY <2>2, <3>1
  <2> HIDE DEF seq
  <2>4. seq[i] = k
    BY <1>4, <2>3
  <2>5. QED BY <2>2, <2>4
<1>10. \A i, j \in 1 .. n : Before(seq[i], seq[j], b) <=> i < j
  <2> HIDE DEF seq
  <2>1. QED BY <1>1, <1>4, <1>8
<1>11. QED BY <1>1, <1>7, <1>8, <1>9, <1>10

-----------------------------------------------------------------------------
(* The loop of a cumulation, as the states of its accumulator.              *)

LEMMA Largest ==
    ASSUME NEW n \in Nat, NEW s \in SUBSET (1 .. n), s # {}
    PROVE  Max(s) \in s /\ \A m \in s : m <= Max(s)
<1> DEFINE above == {n - m : m \in s}
<1>1. above \in SUBSET Nat /\ above # {}
  <2>1. \A m \in s : n - m \in Nat
    OBVIOUS
  <2>2. QED BY <2>1
<1>2. PICK d \in above : \A e \in above : d <= e
  <2> HIDE DEF above
  <2>1. QED BY <1>1, Smallest
<1>3. PICK x \in s : d = n - x
  BY <1>2
<1>4. \A m \in s : m <= x
  BY <1>2, <1>3
<1>5. \E y \in s : \A m \in s : y >= m
  BY <1>4
<1>6. QED BY <1>5 DEF Max

Loops(g, i, seq, column, reset, b) ==
    g = [s \in SUBSET (1 .. i) |->
            IF s = {} THEN NoRow(column)
            ELSE AddRow(g[s \ {Max(s)}], seq[Max(s)], column, reset, b)]

LEMMA LoopUnfolds ==
    ASSUME NEW column, NEW reset, NEW b, NEW seq, NEW n \in Nat, DOMAIN seq = 1 .. n,
           seq = Sorted(DOMAIN column, b)
    PROVE  Cumulative(column, reset, b) = (CHOOSE g : Loops(g, n, seq, column, reset, b))[1 .. n].out
  BY DEF Cumulative, FoldLeft, MapThenFoldSet, Loops

LEMMA LoopsExist ==
    ASSUME NEW column, NEW reset, NEW b, NEW seq, NEW n \in Nat
    PROVE  \E g : Loops(g, n, seq, column, reset, b)
<1> DEFINE P == {i \in Nat : \E g : Loops(g, i, seq, column, reset, b)}
           Turn(g, s) == AddRow(g[s \ {Max(s)}], seq[Max(s)], column, reset, b)
<1>1. 0 \in P
  <2> DEFINE g == [s \in SUBSET (1 .. 0) |-> NoRow(column)]
  <2>1. \A s \in SUBSET (1 .. 0) : s = {}
    OBVIOUS
  <2>2. g = [s \in SUBSET (1 .. 0) |-> IF s = {} THEN NoRow(column) ELSE Turn(g, s)]
    BY <2>1
  <2> HIDE DEF g
  <2>3. QED BY <2>2 DEF Loops
<1>2. ASSUME NEW i \in Nat, i \in P
      PROVE  i + 1 \in P
  <2>1. PICK g : Loops(g, i, seq, column, reset, b)
    BY <1>2
  <2> DEFINE j == i + 1
             D == SUBSET (1 .. j)
             h == [s \in D |-> IF s = {} THEN NoRow(column) ELSE Turn(g, s)]
  <2>0. j \in Nat /\ \A m \in 1 .. j : m = j \/ m \in 1 .. i
    OBVIOUS
  <2> HIDE DEF j
  <2>2. ASSUME NEW s \in D, s # {}
        PROVE  h[s] = Turn(h, s)
    <3> DEFINE rest == s \ {Max(s)}
    <3>1. Max(s) \in s /\ \A m \in s : m <= Max(s)
      BY <2>0, <2>2, Largest
    <3>2. rest \in SUBSET (1 .. i) /\ rest \in D
      <4>1. ASSUME NEW m \in rest PROVE m \in 1 .. i
        <5>1. m \in 1 .. j /\ Max(s) \in 1 .. j /\ m <= Max(s) /\ m # Max(s)
          BY <3>1
        <5>2. m = j => FALSE
          BY <2>0, <5>1
        <5>3. QED BY <2>0, <5>1, <5>2
      <4>2. QED BY <4>1
    <3>3. g[rest] = IF rest = {} THEN NoRow(column) ELSE Turn(g, rest)
      <4> HIDE DEF rest
      <4>1. QED BY <2>1, <3>2 DEF Loops
    <3>4. h[rest] = IF rest = {} THEN NoRow(column) ELSE Turn(g, rest)
      <4> HIDE DEF rest, Turn
      <4>1. QED BY <3>2
    <3>5. h[rest] = g[rest]
      BY <3>3, <3>4, Zenon
    <3>6. h[s] = Turn(g, s)
      <4> HIDE DEF Turn
      <4>1. QED BY <2>2
    <3> HIDE DEF h
    <3>7. QED BY <3>5, <3>6
  <2>3. h = [s \in D |-> IF s = {} THEN NoRow(column) ELSE Turn(h, s)]
    <3>1. DOMAIN h = D /\ h = [s \in D |-> h[s]]
      OBVIOUS
    <3>2. \A s \in D : h[s] = IF s = {} THEN NoRow(column) ELSE Turn(h, s)
      <4>1. \A s \in D : s = {} => h[s] = NoRow(column)
        OBVIOUS
      <4> HIDE DEF h, D, Turn
      <4>2. QED BY <2>2, <4>1
    <3> HIDE DEF h, D, Turn
    <3>3. QED BY <3>1, <3>2
  <2> HIDE DEF h
  <2>4. Loops(h, j, seq, column, reset, b)
    BY <2>3 DEF Loops
  <2>5. QED BY <2>4 DEF j
<1>3. Nat \subseteq P
  <2> HIDE DEF P
  <2>1. QED BY <1>1, <1>2, NumberInduction
<1>4. QED BY <1>3

LEMMA LoopStates ==
    ASSUME NEW column, NEW reset, NEW b, NEW seq, NEW n \in Nat, DOMAIN seq = 1 .. n,
           seq = Sorted(DOMAIN column, b)
    PROVE  \E run :
             /\ run[0] = NoRow(column)
             /\ \A i \in 1 .. n : run[i] = AddRow(run[i - 1], seq[i], column, reset, b)
             /\ Cumulative(column, reset, b) = run[n].out
<1> DEFINE g == CHOOSE h : Loops(h, n, seq, column, reset, b)
           run == [i \in 0 .. n |-> g[1 .. i]]
           Turn(s) == AddRow(g[s \ {Max(s)}], seq[Max(s)], column, reset, b)
<1>1. Loops(g, n, seq, column, reset, b)
  BY LoopsExist
<1>2. Cumulative(column, reset, b) = g[1 .. n].out
  BY LoopUnfolds
<1> HIDE DEF g
<1>3. \A s \in SUBSET (1 .. n) : g[s] = IF s = {} THEN NoRow(column) ELSE Turn(s)
  BY <1>1 DEF Loops
<1>4. run[0] = NoRow(column) /\ run[n] = g[1 .. n]
  <2>1. 1 .. 0 = {} /\ {} \in SUBSET (1 .. n) /\ 0 \in 0 .. n /\ n \in 0 .. n
    OBVIOUS
  <2>2. QED BY <1>3, <2>1
<1>5. ASSUME NEW i \in 1 .. n
      PROVE  run[i] = AddRow(run[i - 1], seq[i], column, reset, b)
  <2> DEFINE s == 1 .. i
  <2>1. s \in SUBSET (1 .. n) /\ s # {} /\ i \in s
    OBVIOUS
  <2>2. Max(s) = i
    <3>1. Max(s) \in s /\ i <= Max(s)
      BY <2>1, Largest
    <3>2. QED BY <3>1
  <2>3. s \ {Max(s)} = 1 .. (i - 1)
    BY <2>2
  <2>4. run[i] = g[s] /\ run[i - 1] = g[1 .. (i - 1)]
    OBVIOUS
  <2>5. g[s] = AddRow(g[s \ {Max(s)}], seq[Max(s)], column, reset, b)
    <3> HIDE DEF s
    <3>1. QED BY <1>3, <2>1
  <2> HIDE DEF s, run
  <2>6. QED BY <2>2, <2>3, <2>4, <2>5
<1> HIDE DEF run
<1>6. QED BY <1>2, <1>4, <1>5

-----------------------------------------------------------------------------
(* The rows that a cumulated row is the total of: those of its partition and *)
(* period that are not after it.                                           *)
Sofar(k, K, reset, b) ==
    {l \in K : /\ Partition(l, b) = Partition(k, b)
               /\ Period(reset, l[1]) = Period(reset, k[1]) /\ ~Before(k, l, b)}
InOrderOf(seq, n, K, reset, b) ==
    /\ n \in Nat /\ \A i \in 1 .. n : seq[i] \in K /\ Partition(seq[i], b) \in Dealers \cup {0}
    /\ \A k \in K : \E i \in 1 .. n : k = seq[i]
    /\ \A i, j \in 1 .. n : Before(seq[i], seq[j], b) <=> i < j
    /\ \A i, j \in 1 .. n : i < j /\ Partition(seq[i], b) = Partition(seq[j], b) =>
          /\ Period(reset, seq[i][1]) \in Nat /\ Period(reset, seq[j][1]) \in Nat
          /\ Period(reset, seq[i][1]) <= Period(reset, seq[j][1])
LastOf(p, i, j, seq, b) ==
    /\ j \in 1 .. i /\ Partition(seq[j], b) = p
    /\ \A h \in 1 .. i : j < h => Partition(seq[h], b) # p
Summed(acc, i, seq, K, column, reset, b) ==
    /\ DOMAIN acc.sum = Dealers \cup {0} /\ DOMAIN acc.period = Dealers \cup {0}
    /\ DOMAIN acc.out = K
    /\ \A j \in 1 .. i : acc.out[seq[j]] = Total(column, Sofar(seq[j], K, reset, b))
    /\ \A p \in Dealers \cup {0} :
          \/ acc.sum[p] = Zero /\ \A j \in 1 .. i : Partition(seq[j], b) # p
          \/ \E j \in 1 .. i : /\ LastOf(p, i, j, seq, b)
                               /\ acc.sum[p] = Total(column, Sofar(seq[j], K, reset, b))
                               /\ acc.period[p] = Period(reset, seq[j][1])

FirstOfPeriod(i, seq, n, reset, b) ==
    \A j \in 1 .. n : j < i /\ Partition(seq[j], b) = Partition(seq[i], b)
                        => Period(reset, seq[j][1]) # Period(reset, seq[i][1])
Follows(i, j, seq, n, b) ==
    /\ j < i /\ Partition(seq[j], b) = Partition(seq[i], b)
    /\ \A h \in 1 .. n : h < i /\ j < h => Partition(seq[h], b) # Partition(seq[i], b)

LEMMA PartitionType ==
    \A b \in BOOLEAN : \A k \in Rows : Partition(k, b) \in Dealers \cup {0}
  BY RowTypes DEF Partition

(* Nothing of the row's partition and period came before it. *)
LEMMA SofarFirst ==
    ASSUME NEW K, NEW b, NEW reset, NEW seq, NEW n,
           InOrderOf(seq, n, K, reset, b), NEW i \in 1 .. n, FirstOfPeriod(i, seq, n, reset, b)
    PROVE  Sofar(seq[i], K, reset, b) \ {seq[i]} = {}
<1> SUFFICES ASSUME NEW l \in Sofar(seq[i], K, reset, b), l # seq[i] PROVE FALSE
  OBVIOUS
<1>1. PICK j \in 1 .. n : l = seq[j]
  BY DEF InOrderOf, Sofar
<1>2. n \in Nat /\ i # j /\ ~Before(seq[i], seq[j], b)
  BY <1>1 DEF InOrderOf, Sofar
<1>3. ~(i < j)
  BY <1>2 DEF InOrderOf
<1>4. j < i
  BY <1>2, <1>3
<1>5. QED BY <1>1, <1>4 DEF Sofar, FirstOfPeriod

(* The last row of the partition before it is of the same period. *)
LEMMA SofarNext ==
    ASSUME NEW K, NEW b, NEW reset, NEW seq, NEW n, InOrderOf(seq, n, K, reset, b), NEW i \in 1 .. n, NEW j \in 1 .. n,
           Follows(i, j, seq, n, b), Period(reset, seq[j][1]) = Period(reset, seq[i][1])
    PROVE  Sofar(seq[i], K, reset, b) \ {seq[i]} = Sofar(seq[j], K, reset, b)
<1>1. /\ n \in Nat /\ j < i /\ Partition(seq[j], b) = Partition(seq[i], b)
      /\ \A h \in 1 .. n : h < i /\ j < h => Partition(seq[h], b) # Partition(seq[i], b)
  BY DEF InOrderOf, Follows
<1>2. ASSUME NEW l \in Sofar(seq[i], K, reset, b), l # seq[i]
      PROVE  l \in Sofar(seq[j], K, reset, b)
  <2>1. PICK h \in 1 .. n : l = seq[h]
    BY DEF InOrderOf, Sofar
  <2>2. i # h /\ ~Before(seq[i], seq[h], b) /\ Partition(seq[h], b) = Partition(seq[i], b)
    BY <1>2, <2>1 DEF Sofar
  <2>3. ~(i < h)
    BY <2>2 DEF InOrderOf
  <2>4. ~(j < h)
    BY <1>1, <2>2, <2>3
  <2>5. ~Before(seq[j], seq[h], b)
    BY <2>4 DEF InOrderOf
  <2>6. QED BY <1>1, <2>1, <2>5 DEF Sofar
<1>3. ASSUME NEW l \in Sofar(seq[j], K, reset, b)
      PROVE  l \in Sofar(seq[i], K, reset, b) /\ l # seq[i]
  <2>1. PICK h \in 1 .. n : l = seq[h]
    BY DEF InOrderOf, Sofar
  <2>2. ~Before(seq[j], seq[h], b)
    BY <2>1 DEF Sofar
  <2>3. ~(j < h)
    BY <2>2 DEF InOrderOf
  <2>4. ~(i < h) /\ h < i
    BY <1>1, <2>3
  <2>5. ~Before(seq[i], seq[h], b) /\ Before(seq[h], seq[i], b) /\ ~Before(seq[i], seq[i], b)
    BY <1>1, <2>4 DEF InOrderOf
  <2>6. seq[h] # seq[i]
    BY <2>5
  <2>7. QED BY <1>1, <2>1, <2>5, <2>6 DEF Sofar
<1>4. QED BY <1>2, <1>3

(* The last row of the partition before it is of another period, and so are *)
(* the earlier ones.                                                       *)
LEMMA SofarNew ==
    ASSUME NEW K, NEW b, NEW reset, NEW seq, NEW n, InOrderOf(seq, n, K, reset, b), NEW i \in 1 .. n, NEW j \in 1 .. n,
           Follows(i, j, seq, n, b), Period(reset, seq[j][1]) # Period(reset, seq[i][1])
    PROVE  Sofar(seq[i], K, reset, b) \ {seq[i]} = {}
<1>0. /\ j < i /\ Partition(seq[j], b) = Partition(seq[i], b)
      /\ \A h \in 1 .. n : h < i /\ j < h => Partition(seq[h], b) # Partition(seq[i], b)
  BY DEF Follows
<1>1. n \in Nat
  BY DEF InOrderOf
<1>2. ASSUME NEW g \in 1 .. n, NEW h \in 1 .. n, g < h, Partition(seq[g], b) = Partition(seq[h], b)
      PROVE  /\ Period(reset, seq[g][1]) \in Nat /\ Period(reset, seq[h][1]) \in Nat
             /\ Period(reset, seq[g][1]) <= Period(reset, seq[h][1])
  BY <1>2 DEF InOrderOf
<1>3. ASSUME NEW h \in 1 .. n, h < i, Partition(seq[h], b) = Partition(seq[i], b)
      PROVE  Period(reset, seq[h][1]) # Period(reset, seq[i][1])
  <2>1. CASE h = j
    BY <2>1
  <2>2. CASE h # j
    <3>1. h < j
      BY <1>0, <1>1, <1>3, <2>2
    <3>2. Period(reset, seq[h][1]) <= Period(reset, seq[j][1])
          /\ Period(reset, seq[h][1]) \in Nat /\ Period(reset, seq[j][1]) \in Nat
      BY <1>0, <1>2, <1>3, <3>1
    <3>3. Period(reset, seq[j][1]) <= Period(reset, seq[i][1]) /\ Period(reset, seq[i][1]) \in Nat
      BY <1>0, <1>2
    <3>4. QED BY <3>2, <3>3
  <2>3. QED BY <2>1, <2>2
<1>4. FirstOfPeriod(i, seq, n, reset, b)
  BY <1>3 DEF FirstOfPeriod
<1>5. QED BY <1>4, SofarFirst

LEMMA SumStep ==
    ASSUME NEW K, IsFiniteSet(K), NEW column \in [K -> Fractions],
           NEW b, NEW reset,
           NEW seq, NEW n, InOrderOf(seq, n, K, reset, b), NEW i \in Nat, i + 1 \in 1 .. n,
           NEW acc, Summed(acc, i, seq, K, column, reset, b)
    PROVE  Summed(AddRow(acc, seq[i + 1], column, reset, b), i + 1, seq, K, column, reset, b)
<1> DEFINE next == i + 1
           k == seq[next]
           p == Partition(k, b)
           period == Period(reset, k[1])
           start == IF acc.period[p] # period THEN Zero ELSE acc.sum[p]
           T(j) == Total(column, Sofar(seq[j], K, reset, b))
           sum == Plus(start, Numeric(column[k]))
           new == AddRow(acc, k, column, reset, b)
<1>0. /\ next \in Nat /\ next \in 1 .. n /\ n \in Nat /\ 1 .. i \subseteq 1 .. n
      /\ \A j \in 1 .. next : j = next \/ j \in 1 .. i
      /\ \A j \in 1 .. i : j < next /\ j \in 1 .. next /\ \A h \in 1 .. n : h < next => h \in 1 .. i
      /\ next \in 1 .. next
  BY DEF InOrderOf
<1>1. k \in K /\ p \in Dealers \cup {0} /\ ~Before(k, k, b)
  BY <1>0 DEF InOrderOf
<1>2. column[k] \in Fractions /\ Numeric(column[k]) = column[k]
  BY <1>1, FractionsCount
<1>3. start = Total(column, Sofar(k, K, reset, b) \ {k})
  <2>1. CASE acc.sum[p] = Zero /\ \A j \in 1 .. i : Partition(seq[j], b) # p
    <3>1. FirstOfPeriod(next, seq, n, reset, b)
      BY <1>0, <2>1 DEF FirstOfPeriod
    <3>2. Sofar(k, K, reset, b) \ {k} = {}
      <4> HIDE DEF next
      <4>1. QED BY <1>0, <3>1, SofarFirst
    <3>3. QED BY <2>1, <3>2, TotalEmpty
  <2>2. ASSUME NEW j \in 1 .. i, LastOf(p, i, j, seq, b), acc.sum[p] = T(j),
               acc.period[p] = Period(reset, seq[j][1])
        PROVE  start = Total(column, Sofar(k, K, reset, b) \ {k})
    <3>1. j \in 1 .. n /\ Follows(next, j, seq, n, b)
      BY <1>0, <2>2 DEF LastOf, Follows
    <3>2. CASE acc.period[p] = period
      <4>1. Period(reset, seq[j][1]) = Period(reset, seq[next][1])
        BY <2>2, <3>2
      <4> HIDE DEF next
      <4>2. Sofar(seq[next], K, reset, b) \ {seq[next]} = Sofar(seq[j], K, reset, b)
        BY <1>0, <3>1, <4>1, SofarNext
      <4>3. start = T(j)
        BY <2>2, <3>2
      <4>4. QED BY <4>2, <4>3
    <3>3. CASE acc.period[p] # period
      <4>1. Period(reset, seq[j][1]) # Period(reset, seq[next][1])
        BY <2>2, <3>3
      <4> HIDE DEF next
      <4>2. Sofar(seq[next], K, reset, b) \ {seq[next]} = {}
        BY <1>0, <3>1, <4>1, SofarNew
      <4>3. start = Zero
        BY <3>3
      <4>4. QED BY <4>2, <4>3, TotalEmpty
    <3>4. QED BY <3>2, <3>3
  <2> HIDE DEF start, p, k
  <2>3. QED BY <1>1, <2>1, <2>2 DEF Summed
<1>4. sum = T(next)
  <2> DEFINE S == Sofar(k, K, reset, b)
  <2>1. IsFiniteSet(S) /\ \A l \in S : column[l] \in Fractions
    BY FS_Subset DEF Sofar
  <2>2. k \in S
    BY <1>1 DEF Sofar
  <2>3. Total(column, S) = Plus(Total(column, S \ {k}), column[k])
    <3> HIDE DEF S, k
    <3>1. QED BY <2>1, <2>2, TotalRemove
  <2>4. QED BY <1>2, <1>3, <2>3
<1>5. /\ new.sum = [acc.sum EXCEPT ![p] = sum] /\ new.period = [acc.period EXCEPT ![p] = period]
      /\ new.out = [acc.out EXCEPT ![k] = sum]
  BY DEF AddRow
<1>6. \A j \in 1 .. i : seq[j] # k
  <2>2. \A j \in 1 .. i : Before(seq[j], k, b)
    BY <1>0 DEF InOrderOf
  <2>3. QED BY <1>1, <2>2
<1> HIDE DEF next, k, p, period, start, sum, new
<1>7. /\ DOMAIN new.sum = Dealers \cup {0} /\ DOMAIN new.period = Dealers \cup {0}
      /\ DOMAIN new.out = K
  BY <1>5 DEF Summed
<1>8. ASSUME NEW j \in 1 .. next
      PROVE  new.out[seq[j]] = T(j)
  <2>1. CASE j = next
    BY <1>1, <1>4, <1>5, <2>1 DEF Summed, k
  <2>2. CASE j \in 1 .. i
    <3>1. acc.out[seq[j]] = T(j)
      BY <2>2 DEF Summed
    <3>2. seq[j] # k /\ seq[j] \in K
      BY <1>0, <1>6, <2>2 DEF InOrderOf
    <3>3. QED BY <1>5, <3>1, <3>2 DEF Summed
  <2>3. QED BY <1>0, <2>1, <2>2
<1>9. ASSUME NEW q \in Dealers \cup {0}
      PROVE  \/ new.sum[q] = Zero /\ \A j \in 1 .. next : Partition(seq[j], b) # q
             \/ \E j \in 1 .. next : /\ LastOf(q, next, j, seq, b)
                                     /\ new.sum[q] = T(j)
                                     /\ new.period[q] = Period(reset, seq[j][1])
  <2>1. CASE q = p
    <3>1. LastOf(q, next, next, seq, b)
      BY <1>0, <2>1 DEF LastOf, p, k
    <3>2. new.sum[q] = T(next) /\ new.period[q] = Period(reset, seq[next][1])
      BY <1>1, <1>4, <1>5, <2>1 DEF Summed, k, period
    <3>3. QED BY <1>0, <3>1, <3>2
  <2>2. CASE q # p
    <3>1. new.sum[q] = acc.sum[q] /\ new.period[q] = acc.period[q]
      BY <1>5, <2>2 DEF Summed
    <3>2. Partition(seq[next], b) # q
      BY <2>2 DEF p, k
    <3>3. CASE acc.sum[q] = Zero /\ \A j \in 1 .. i : Partition(seq[j], b) # q
      BY <1>0, <3>1, <3>2, <3>3
    <3>4. ASSUME NEW j \in 1 .. i, LastOf(q, i, j, seq, b), acc.sum[q] = T(j),
                 acc.period[q] = Period(reset, seq[j][1])
          PROVE  \E h \in 1 .. next : /\ LastOf(q, next, h, seq, b)
                                      /\ new.sum[q] = T(h)
                                      /\ new.period[q] = Period(reset, seq[h][1])
      <4>1. LastOf(q, next, j, seq, b)
        BY <1>0, <3>2, <3>4 DEF LastOf
      <4>2. QED BY <1>0, <3>1, <3>4, <4>1
    <3>5. QED BY <3>3, <3>4 DEF Summed
  <2>3. QED BY <2>1, <2>2
<1>10. Summed(new, next, seq, K, column, reset, b)
  BY <1>7, <1>8, <1>9 DEF Summed
<1>11. QED BY <1>10 DEF new, k, next

(* A cumulated column: each row is the total of the rows of its partition    *)
(* and period up to it.                                                    *)
LEMMA RunningTotal ==
    ASSUME NEW K \in SUBSET Rows, IsFiniteSet(K), NEW column \in [K -> Fractions],
           NEW b \in BOOLEAN, NEW reset \in {"none", "year", "month"}
    PROVE  /\ DOMAIN Cumulative(column, reset, b) = K
           /\ \A k \in K : Cumulative(column, reset, b)[k] = Total(column, Sofar(k, K, reset, b))
<1> DEFINE seq == Sorted(K, b)
           n == Cardinality(K)
           C == Cumulative(column, reset, b)
<1>1. n \in Nat /\ DOMAIN seq = 1 .. n /\ InOrderOf(seq, n, K, reset, b)
  <2>1. /\ n \in Nat /\ DOMAIN seq = 1 .. n
        /\ \A i \in 1 .. n : seq[i] \in K
        /\ \A k \in K : \E i \in 1 .. n : k = seq[i]
        /\ \A i, j \in 1 .. n : Before(seq[i], seq[j], b) <=> i < j
    BY SortedRows
  <2> HIDE DEF seq, n
  <2>2. \A i \in 1 .. n : seq[i][1] \in Times /\ Partition(seq[i], b) \in Dealers \cup {0}
    BY <2>1, RowTypes, PartitionType
  <2>3. \A i, j \in 1 .. n : i < j /\ Partition(seq[i], b) = Partition(seq[j], b) =>
          /\ Period(reset, seq[i][1]) \in Nat /\ Period(reset, seq[j][1]) \in Nat
          /\ Period(reset, seq[i][1]) <= Period(reset, seq[j][1])
    <3> SUFFICES ASSUME NEW i \in 1 .. n, NEW j \in 1 .. n, i < j,
                        Partition(seq[i], b) = Partition(seq[j], b)
                 PROVE  /\ Period(reset, seq[i][1]) \in Nat /\ Period(reset, seq[j][1]) \in Nat
                        /\ Period(reset, seq[i][1]) <= Period(reset, seq[j][1])
      OBVIOUS
    <3>1. seq[i] \in Rows /\ seq[j] \in Rows /\ Before(seq[i], seq[j], b)
      BY <2>1
    <3>2. seq[i][1] <= seq[j][1]
      BY <3>1, BeforeInPartition
    <3>3. QED BY <2>2, <3>2, PeriodGrows
  <2>4. QED BY <2>1, <2>2, <2>3 DEF InOrderOf
<1>2. seq = Sorted(DOMAIN column, b)
  OBVIOUS
<1> HIDE DEF seq, n
<1>3. PICK run : /\ run[0] = NoRow(column)
                 /\ \A i \in 1 .. n : run[i] = AddRow(run[i - 1], seq[i], column, reset, b)
                 /\ C = run[n].out
  BY <1>1, <1>2, LoopStates
<1> HIDE DEF C
<1> DEFINE P == {i \in Nat : i <= n => Summed(run[i], i, seq, K, column, reset, b)}
<1>4. 0 \in P
  <2>1. Summed(NoRow(column), 0, seq, K, column, reset, b)
    BY DEF Summed, NoRow
  <2>2. QED BY <1>3, <2>1
<1>5. ASSUME NEW i \in Nat, i \in P
      PROVE  i + 1 \in P
  <2> SUFFICES ASSUME i + 1 <= n PROVE Summed(run[i + 1], i + 1, seq, K, column, reset, b)
    OBVIOUS
  <2>1. i + 1 \in 1 .. n /\ i <= n /\ (i + 1) - 1 = i
    BY <1>1
  <2>2. run[i + 1] = AddRow(run[i], seq[i + 1], column, reset, b)
    BY <1>3, <2>1
  <2>3. Summed(run[i], i, seq, K, column, reset, b)
    BY <1>5, <2>1
  <2>4. QED BY <1>1, <2>1, <2>2, <2>3, SumStep
<1>6. n \in P
  <2> HIDE DEF P
  <2>1. QED BY <1>1, <1>4, <1>5, NumberInduction
<1>7. Summed(run[n], n, seq, K, column, reset, b)
  BY <1>1, <1>6
<1>8. QED BY <1>1, <1>3, <1>7 DEF Summed, InOrderOf, C

-----------------------------------------------------------------------------
QuestionsAsked == [metrics: Seq(Base \cup DOMAIN Ratio), byDealer: BOOLEAN,
                   transform: {"none", "cumulative", "mom_change_pct"}]

LEMMA Transforms ==
    ASSUME NEW column, NEW reset, NEW b
    PROVE  /\ applyTimeSeriesTransform(column, "none", reset, b) = column
           /\ applyTimeSeriesTransform(column, "cumulative", reset, b) = Cumulative(column, reset, b)
           /\ applyTimeSeriesTransform(column, "mom_change_pct", reset, b) = Change(column, b)
  BY DEF applyTimeSeriesTransform

(* The rows that a row of a cumulated metric is the total of, said as the   *)
(* property says it.                                                       *)
LEMMA SofarIsUpTo ==
    ASSUME NEW K \in SUBSET Rows, NEW b \in BOOLEAN, NEW m, PeriodReset(m) # "none",
           b \/ \A k \in K : k[2] = 0, NEW k \in K
    PROVE  Sofar(k, K, PeriodReset(m), b) = UpTo(m, k, K)
<1> DEFINE g == PeriodReset(m)
<1>1. ASSUME NEW l \in K
      PROVE  Period(g, l[1]) = PeriodOf[g][l[1]] /\ l[1] \in Nat /\ l[2] \in Nat
  BY RowTypes DEF Period
<1>2. ASSUME b, NEW l \in K, l[2] = k[2]
      PROVE  ~Before(k, l, b) <=> l[1] <= k[1]
  BY <1>1, <1>2 DEF Before
<1>3. ASSUME ~b, NEW l \in K, l[2] = k[2]
      PROVE  ~Before(k, l, b) <=> l[1] <= k[1]
  BY <1>1, <1>3 DEF Before
<1>4. \A l \in K : Partition(l, b) = Partition(k, b) <=> l[2] = k[2]
  BY DEF Partition
<1> HIDE DEF g
<1>5. ASSUME NEW l \in K
      PROVE  l \in Sofar(k, K, g, b) <=> l \in UpTo(m, k, K)
  BY <1>1, <1>2, <1>3, <1>4 DEF Sofar, UpTo, g
<1>6. QED BY <1>5 DEF Sofar, UpTo, g

(* What a query returns is a number per row. *)
Result(column) ==
    /\ DOMAIN column \in SUBSET Rows /\ IsFiniteSet(DOMAIN column)
    /\ column \in [DOMAIN column -> Fractions]
NoDealers(column) == \A k \in DOMAIN column : k[2] = 0

LEMMA GroupedIsResult ==
    ASSUME NEW q \in Base, NEW v \in Loads, NEW b \in BOOLEAN
    PROVE  LET column == Grouped(Table[q][v], b)
           IN Result(column) /\ (b \/ NoDealers(column))
<1> DEFINE table == Table[q][v]
           K == DOMAIN table
           at(t) == {k \in K : k[1] = t}
           times == {l[1] : l \in K}
           rows == {<<t, 0>> : t \in times}
           column == Grouped(table, b)
<1>1. K \subseteq Times \X Dealers /\ IsFiniteSet(K) /\ table \in [K -> Fractions]
  BY RowsOfASource DEF Fractions
<1>2. CASE b
  BY <1>1, <1>2 DEF Grouped, Result, Rows
<1>3. CASE ~b
  <2>1. column = [k \in rows |-> Total(table, at(k[1]))]
    BY <1>3 DEF Grouped
  <2>2. rows \subseteq Rows
    BY <1>1 DEF Rows
  <2>3. IsFiniteSet(rows)
    <3>1. rows = {<<k[1], 0>> : k \in K}
      OBVIOUS
    <3> DEFINE row == [k \in K |-> <<k[1], 0>>]
    <3>2. row \in Surjection(K, rows)
      BY <3>1 DEF Surjection
    <3> HIDE DEF row, rows, K
    <3>3. QED BY <1>1, <3>2, FS_Surjection
  <2>4. \A t \in times : Total(table, at(t)) \in Fractions
    <3> SUFFICES ASSUME NEW t \in times PROVE Total(table, at(t)) \in Fractions
      OBVIOUS
    <3> DEFINE S == at(t)
    <3>1. IsFiniteSet(S) /\ \A k \in S : table[k] \in Fractions
      BY <1>1, FS_Subset
    <3> HIDE DEF S
    <3>2. Total(table, S) \in Fractions
      BY <3>1, TotalType
    <3>3. QED BY <3>2 DEF S
  <2>5. \A k \in rows : k[1] \in times /\ k[2] = 0
    OBVIOUS
  <2>6. column \in [rows -> Fractions] /\ DOMAIN column = rows
    <3> HIDE DEF column, rows, times, at
    <3>1. QED BY <2>1, <2>4, <2>5
  <2> HIDE DEF column, rows, times, at
  <2>7. QED BY <2>2, <2>3, <2>5, <2>6 DEF Result, NoDealers, column
<1>4. QED BY <1>2, <1>3

(* What a request shows has been read from loads, one for each query. *)
ShownIsRead ==
    /\ question \in Questions
    /\ \A r \in Requests : request[r].pc = "shown" =>
          request[r].read \in Reads /\ \A q \in Bundle : request[r].read[q] \in Loads

FromLoads(read) == read \in Reads /\ \A q \in Bundle : read[q] \in Loads

LEMMA OneShown ==
    ASSUME ReplayInv, ShownIsRead, UNCHANGED question, NEW r \in Requests, NEW new,
           request' = [request EXCEPT ![r] = new], new.pc = "shown" => FromLoads(new.read)
    PROVE  ShownIsRead'
<1>1. Bundle' = Bundle /\ Reads' = Reads /\ question' \in Questions
  BY SameQuestion DEF ShownIsRead
<1>2. request'[r] = new /\ \A x \in Requests \ {r} : request'[x] = request[x]
  BY DEF ReplayInv, ReplayTypes
<1>3. \A x \in Requests : request'[x].pc = "shown" =>
          request'[x].read \in Reads /\ \A q \in Bundle : request'[x].read[q] \in Loads
  BY <1>2 DEF ShownIsRead, FromLoads
<1>4. QED BY <1>1, <1>3 DEF ShownIsRead

LEMMA ShownStep == ReplayInv /\ ShownIsRead /\ [ReplayNext]_wvars => ShownIsRead'
<1> SUFFICES ASSUME ReplayInv, ShownIsRead, [ReplayNext]_wvars PROVE ShownIsRead'
  OBVIOUS
<1>1. CASE UNCHANGED <<question, request>>
  BY <1>1, SameQuestion DEF ShownIsRead
<1>2. ASSUME NEW r \in Requests, NEW force \in BOOLEAN, Open(r, force)
      PROVE  ShownIsRead'
  <2> DEFINE new == [Idle EXCEPT !.pc = "check", !.force = force,
                                 !.print = [s \in Dependencies |-> Absent]]
  <2>1. new.pc = "check" /\ request' = [request EXCEPT ![r] = new] /\ UNCHANGED question
    BY <1>2 DEF Open, Idle
  <2> HIDE DEF new
  <2>2. QED BY <2>1, OneShown
<1>3. ASSUME NEW r \in Requests, NEW s \in Sources, Known(r, s) \/ AskSource(r, s)
      PROVE  ShownIsRead'
  <2>1. PICK x : request' = [request EXCEPT ![r].print[s] = x] /\ request[r].pc = "check" /\ UNCHANGED question
    BY <1>3 DEF Known, AskSource
  <2> DEFINE new == [request[r] EXCEPT !.print[s] = x]
  <2>2. new.pc = "check" /\ request' = [request EXCEPT ![r] = new]
    BY <2>1 DEF ReplayInv, ReplayTypes, Request
  <2> HIDE DEF new
  <2>3. QED BY <2>1, <2>2, OneShown
<1>4. ASSUME NEW r \in Requests, Lookup(r)
      PROVE  ShownIsRead'
  <2>1. UNCHANGED question /\ request[r] \in Request
    BY <1>4 DEF Lookup, ReplayInv, ReplayTypes
  <2>2. CASE request' = [request EXCEPT ![r].pc = "run", ![r].read = [q \in Bundle |-> Absent]]
    <3> DEFINE new == [request[r] EXCEPT !.pc = "run", !.read = [q \in Bundle |-> Absent]]
    <3>1. new.pc = "run" /\ request' = [request EXCEPT ![r] = new]
      BY <2>1, <2>2 DEF ReplayInv, ReplayTypes, Request
    <3> HIDE DEF new
    <3>2. QED BY <2>1, <3>1, OneShown
  <2>3. ASSUME NEW e \in Entries(request[r].print),
               request' = [request EXCEPT ![r].pc = "shown", ![r].read = e.read]
        PROVE  ShownIsRead'
    <3> DEFINE new == [request[r] EXCEPT !.pc = "shown", !.read = e.read]
    <3>1. new.read = e.read /\ request' = [request EXCEPT ![r] = new]
      BY <2>1, <2>3 DEF ReplayInv, ReplayTypes, Request
    <3>2. FromLoads(e.read)
      BY DEF FromLoads, Entries, ReplayInv, ReplayTypes, InOrder
    <3> HIDE DEF new
    <3>3. QED BY <2>1, <3>1, <3>2, OneShown
  <2>4. QED BY <1>4, <2>2, <2>3 DEF Lookup
<1>5. ASSUME NEW r \in Requests, NEW q \in Base, Settle(r, q)
      PROVE  ShownIsRead'
  <2>1. PICK x : request' = [request EXCEPT ![r].read[q] = x]
    BY <1>5 DEF Settle
  <2> DEFINE new == [request[r] EXCEPT !.read[q] = x]
  <2>2. new.pc = "run" /\ request' = [request EXCEPT ![r] = new] /\ UNCHANGED question
    BY <1>5, <2>1 DEF ReplayInv, ReplayTypes, Request, Settle
  <2> HIDE DEF new
  <2>3. QED BY <2>2, OneShown
<1>6. ASSUME NEW r \in Requests, Finish(r)
      PROVE  ShownIsRead'
  <2>1. CASE request' = [request EXCEPT ![r] = Idle]
    <3>1. Idle.pc = "idle" /\ UNCHANGED question
      BY <1>6 DEF Idle, Finish
    <3>2. QED BY <2>1, <3>1, OneShown
  <2>2. CASE Failures(r) = {} /\ request' = [request EXCEPT ![r].pc = "shown"]
    <3> DEFINE new == [request[r] EXCEPT !.pc = "shown"]
    <3>1. new.read = request[r].read /\ request' = [request EXCEPT ![r] = new] /\ UNCHANGED question
      BY <1>6, <2>2 DEF ReplayInv, ReplayTypes, Request, Finish
    <3>2. FromLoads(request[r].read)
      <4>1. request[r].read \in Reads /\ \A q \in Bundle : request[r].read[q] # Absent
        BY <1>6 DEF Finish, ReplayInv, ReplayTypes
      <4>2. \A q \in Bundle : request[r].read[q] # Failed
        BY <2>2 DEF Failures
      <4>3. QED BY <4>1, <4>2 DEF FromLoads, Reads
    <3> HIDE DEF new
    <3>3. QED BY <3>1, <3>2, OneShown
  <2>3. QED BY <1>6, <2>1, <2>2 DEF Finish
<1>7. ASSUME NEW r \in Requests, Close(r)
      PROVE  ShownIsRead'
  <2>1. Idle.pc = "idle" /\ request' = [request EXCEPT ![r] = Idle] /\ UNCHANGED question
    BY <1>7 DEF Idle, Close
  <2>2. QED BY <2>1, OneShown
<1>8. QED BY <1>1, <1>2, <1>3, <1>4, <1>5, <1>6, <1>7
          DEF ReplayNext, wvars, Load, ExpireMark, ExpireResult

LEMMA ShownStarts == ReplayInit => ShownIsRead
  BY DEF ReplayInit, ShownIsRead, Idle

(* So the columns of a widget that is shown are results of its queries. *)
LEMMA ShownResults ==
    ASSUME ShownIsRead, NEW r \in Requests, request[r].pc = "shown", NEW q \in Bundle
    PROVE  LET column == Data(question, request[r].read)[q]
           IN Result(column) /\ (question.byDealer \/ NoDealers(column))
<1>1. question \in QuestionsAsked
  BY ReplayAssumption DEF ShownIsRead, QuestionsAsked
<1>2. q \in Base
  <2>1. \A m \in Asked(question) : m \in Base \cup DOMAIN Ratio
    BY <1>1 DEF QuestionsAsked, Asked
  <2>2. \A m \in Asked(question) : QueriesFor(m) \subseteq Base
    BY <2>1, MetricAssumption DEF QueriesFor, IsRatio
  <2>3. QED BY <2>2 DEF Bundle, Stored
<1>3. DOMAIN request[r].read = Bundle /\ request[r].read[q] \in Loads
  BY DEF ShownIsRead, Reads
<1>4. Data(question, request[r].read)[q] = Grouped(Table[q][request[r].read[q]], question.byDealer)
  BY <1>3 DEF Data
<1>5. question.byDealer \in BOOLEAN
  BY <1>1 DEF QuestionsAsked
<1>6. QED BY <1>2, <1>3, <1>4, <1>5, GroupedIsResult

(* One metric that is cumulated within its period: the widget and the       *)
(* answer cumulate the column of its query.                                *)
LEMMA SingleCumulated ==
    ASSUME NEW about \in QuestionsAsked, NEW data, NEW m, Asked(about) = {m}, Single(about),
           ~IsRatio(m), PeriodReset(m) # "none", about.transform # "mom_change_pct"
    PROVE  /\ Replay(about, data)[m] = Cumulative(data[m], PeriodReset(m), about.byDealer)
           /\ Answer(about, data)[m] = Cumulative(data[m], PeriodReset(m), about.byDealer)
<1> DEFINE g == PeriodReset(m)
           b == about.byDealer
           column == Cumulative(data[m], g, b)
<1>1. Resets(about) = {g} /\ Cardinality(Resets(about)) = 1
  <2>1. Resets(about) = {g}
    BY DEF Resets
  <2> HIDE DEF g
  <2>2. QED BY <2>1, FS_Singleton
<1>2. (CHOOSE r \in Resets(about) : TRUE) = g
  BY <1>1
<1>3. Stored(about).transform = "cumulative" /\ Stored(about).reset = g
  BY <1>1, <1>2 DEF Stored
<1>4. Answer(about, data)[m] = applyTimeSeriesTransform(column, "none", "none", FALSE)
  <2>1. resolveMetricRows(m, about, data) = column
    BY DEF resolveMetricRows, AutoCumulated
  <2>2. about.transform \in {"none", "cumulative"} /\ b \in BOOLEAN
    BY DEF QuestionsAsked
  <2>3. QED BY <1>1, <2>1, <2>2 DEF Answer
<1>5. Replay(about, data)[m] = applyTimeSeriesTransform(data[m], "cumulative", g, b)
  <2>1. /\ Stored(about).queries = {m} /\ Stored(about).derivations = {}
        /\ Cardinality({m}) = 1
    BY FS_Singleton DEF Stored, QueriesFor
  <2>2. QED BY <1>3, <2>1 DEF Replay
<1> HIDE DEF column
<1>6. applyTimeSeriesTransform(column, "none", "none", FALSE) = column
  BY Transforms
<1>7. applyTimeSeriesTransform(data[m], "cumulative", g, b) = Cumulative(data[m], g, b)
  <2> HIDE DEF g, b
  <2>1. QED BY Transforms
<1>8. QED BY <1>4, <1>5, <1>6, <1>7 DEF column

(* For any tables, calendars and loads: a metric that is kept per month or  *)
(* year and shown on a finer axis has in each row the total of that         *)
(* dealer's rows of the period up to it, wherever the period starts anew    *)
(* and whichever days have no row.                                         *)
THEOREM CumulatedRowsAreTotals == ReplaySpec => []CumulatedIsTheTotal
<1>1. ShownIsRead => CumulatedIsTheTotal
  <2> SUFFICES ASSUME ShownIsRead, AutoCumulates, NEW r \in Requests, request[r].pc = "shown",
                      NEW m \in Asked(question),
                      NEW k \in DOMAIN Data(question, request[r].read)[m]
               PROVE  LET data == Data(question, request[r].read)
                      IN Same(Replay(question, data)[m][k],
                              Total(data[m], UpTo(m, k, DOMAIN data[m])))
    BY DEF CumulatedIsTheTotal
  <2> DEFINE data == Data(question, request[r].read)
             column == data[m]
             K == DOMAIN column
             g == PeriodReset(m)
             b == question.byDealer
  <2>1. question \in QuestionsAsked /\ b \in BOOLEAN
    BY ReplayAssumption DEF ShownIsRead, QuestionsAsked
  <2>2. Single(question) /\ Resets(question) # {} /\ question.transform # "mom_change_pct"
    BY DEF AutoCumulates
  <2>3. Asked(question) = {m}
    <3>1. DOMAIN question.metrics = {1}
      BY <2>1, <2>2 DEF QuestionsAsked, Single
    <3>2. QED BY <3>1 DEF Asked
  <2>4. ~IsRatio(m) /\ g \in {"year", "month"}
    <3>1. g # "none"
      BY <2>2, <2>3 DEF Resets
    <3>2. ~IsRatio(m) /\ m \in Additive /\ g = Grain[m]
      BY <3>1 DEF PeriodReset
    <3>3. QED BY <3>1, <3>2, MetricAssumption
  <2>5. m \in Bundle
    BY <2>3, <2>4 DEF Bundle, Stored, QueriesFor
  <2>6. Result(column) /\ (b \/ NoDealers(column))
    BY <2>5, ShownResults
  <2>7. Replay(question, data)[m] = Cumulative(column, g, b)
    <3> HIDE DEF data
    <3>1. QED BY <2>1, <2>2, <2>3, <2>4, SingleCumulated
  <2> HIDE DEF data, column
  <2>8. K \in SUBSET Rows /\ IsFiniteSet(K) /\ column \in [K -> Fractions]
    BY <2>6 DEF Result
  <2>9. b \/ \A l \in K : l[2] = 0
    BY <2>6 DEF NoDealers
  <2> HIDE DEF K, b
  <2>10. Cumulative(column, g, b)[k] = Total(column, Sofar(k, K, g, b))
    <3>1. k \in K
      BY DEF K, column, data
    <3> HIDE DEF g
    <3>2. QED BY <2>1, <2>4, <2>8, <3>1, RunningTotal
  <2>11. Sofar(k, K, g, b) = UpTo(m, k, K)
    <3>1. k \in K
      BY DEF K, column, data
    <3>2. QED BY <2>1, <2>4, <2>8, <2>9, <3>1, SofarIsUpTo
  <2>12. Replay(question, data)[m][k] = Total(column, UpTo(m, k, K))
    BY <2>7, <2>10, <2>11
  <2>13. QED BY <2>12 DEF Same, K, column, data
<1>2. QED BY <1>1, ReplayStarts, ReplayStep, ShownStarts, ShownStep, PTL DEF ReplaySpec

-----------------------------------------------------------------------------
(* The widget against the answer. *)

(* One metric with a query of its own. *)
LEMMA SingleBase ==
    ASSUME NEW about \in QuestionsAsked, NEW data, KeepsAll(about, data),
           NEW m, Asked(about) = {m}, Single(about), ~IsRatio(m)
    PROVE  Replay(about, data)[m] = Answer(about, data)[m]
<1> DEFINE g == PeriodReset(m)
           b == about.byDealer
           tr == about.transform
<1>1. /\ Stored(about).queries = {m} /\ Stored(about).derivations = {}
      /\ Cardinality({m}) = 1
  BY FS_Singleton DEF Stored, QueriesFor
<1>2. Replay(about, data)[m] =
         applyTimeSeriesTransform(data[m], Stored(about).transform, Stored(about).reset, b)
  BY <1>1 DEF Replay
<1>3. tr \in {"none", "cumulative", "mom_change_pct"} /\ b \in BOOLEAN
  BY DEF QuestionsAsked
<1>4. CASE g = "none"
  <2>1. Resets(about) = {} /\ Cardinality(Resets(about)) = 0
    BY <1>4, FS_EmptySet DEF Resets
  <2>2. Stored(about).transform = tr /\ Stored(about).reset = "none"
    BY <2>1 DEF Stored
  <2>3. Answer(about, data)[m] = applyTimeSeriesTransform(data[m], tr, "none", FALSE)
    BY <1>4, <2>1 DEF Answer, resolveMetricRows, AutoCumulated
  <2>4. tr # "none" => b = FALSE
    BY <1>3, <2>1 DEF KeepsAll
  <2>5. CASE tr = "none"
    <3>1. applyTimeSeriesTransform(data[m], "none", "none", b) = data[m]
      BY Transforms
    <3>2. applyTimeSeriesTransform(data[m], "none", "none", FALSE) = data[m]
      BY Transforms
    <3>3. QED BY <1>2, <2>2, <2>3, <2>5, <3>1, <3>2
  <2>6. CASE tr # "none"
    BY <1>2, <2>2, <2>3, <2>4, <2>6
  <2>7. QED BY <2>5, <2>6
<1>5. CASE g # "none" /\ tr = "mom_change_pct"
  <2>1. Stored(about).transform = tr
    BY <1>5 DEF Stored
  <2>2. Answer(about, data)[m] = applyTimeSeriesTransform(data[m], tr, "none", FALSE)
    BY <1>5 DEF Answer, resolveMetricRows, AutoCumulated
  <2>3. b = FALSE
    BY <1>3, <1>5 DEF KeepsAll
  <2>4. applyTimeSeriesTransform(data[m], "mom_change_pct", Stored(about).reset, b) = Change(data[m], b)
    BY Transforms
  <2>5. applyTimeSeriesTransform(data[m], "mom_change_pct", "none", FALSE) = Change(data[m], FALSE)
    BY Transforms
  <2>6. QED BY <1>2, <1>5, <2>1, <2>2, <2>3, <2>4, <2>5
<1>6. CASE g # "none" /\ tr # "mom_change_pct"
  BY <1>6, SingleCumulated
<1>7. QED BY <1>4, <1>5, <1>6

(* A row that is filled in before a ratio is taken counts as it did.        *)
LEMMA FilledTwice == \A x : Numeric(Numeric(x)) = Numeric(x)
  BY DEF Numeric, Null, Zero

(* One ratio, whose parts are not cumulated. *)
LEMMA SingleRatio ==
    ASSUME NEW about \in QuestionsAsked, NEW data, KeepsAll(about, data),
           NEW m, Asked(about) = {m}, Single(about), IsRatio(m)
    PROVE  Replay(about, data)[m] = Answer(about, data)[m]
<1> DEFINE parts == {Ratio[m][1], Ratio[m][2]}
           columns == [q \in parts |-> data[q]]
           b == about.byDealer
           tr == about.transform
<1>1. Stored(about).queries = parts /\ Stored(about).derivations = {m}
  BY DEF Stored, QueriesFor
<1>2. Resets(about) = {} /\ Cardinality(Resets(about)) = 0
  BY FS_EmptySet DEF Resets, PeriodReset
<1>3. Stored(about).transform = tr /\ Stored(about).reset = "none"
  BY <1>2 DEF Stored
<1>4. tr \in {"none", "cumulative", "mom_change_pct"} /\ b \in BOOLEAN
  BY DEF QuestionsAsked
<1>5. tr # "none" => b = FALSE
  BY <1>2, <1>4 DEF KeepsAll
<1>6. resolveMetricRows(m, about, data) = applyRatioDerivation(m, mergeMetricRows(columns))
  <2>1. \A q \in parts : AutoCumulated(q, about, data) = data[q]
    BY DEF KeepsAll, QueriesFor, AutoCumulated
  <2>2. [q \in QueriesFor(m) |-> AutoCumulated(q, about, data)] = columns
    BY <2>1 DEF QueriesFor
  <2>3. QED BY <2>2 DEF resolveMetricRows
<1>7. Answer(about, data)[m] =
         applyTimeSeriesTransform(resolveMetricRows(m, about, data), tr, "none", FALSE)
  BY <1>2 DEF Answer
<1>8. applyRatioDerivation(m, IF Cardinality(parts) = 1 THEN columns ELSE mergeMetricRows(columns))
         = applyRatioDerivation(m, mergeMetricRows(columns))
  <2>1. CASE Cardinality(parts) # 1
    BY <2>1
  <2>2. CASE Ratio[m][1] = Ratio[m][2]
    <3> DEFINE q == Ratio[m][1]
    <3>1. columns[q] = data[q] /\ DOMAIN columns = {q}
      BY <2>2
    <3>2. mergeMetricRows(columns)[q] = [k \in DOMAIN data[q] |-> Numeric(data[q][k])]
      BY <3>1 DEF mergeMetricRows, Filled
    <3>3. applyRatioDerivation(m, columns) = applyRatioDerivation(m, mergeMetricRows(columns))
      BY <2>2, <3>1, <3>2, FilledTwice DEF applyRatioDerivation
    <3>4. QED BY <3>3
  <2>3. CASE Ratio[m][1] # Ratio[m][2] /\ Cardinality(parts) = 1
    <3>1. IsFiniteSet(parts)
      <4>1. parts = {Ratio[m][1]} \cup {Ratio[m][2]}
        OBVIOUS
      <4>2. IsFiniteSet({Ratio[m][1]}) /\ IsFiniteSet({Ratio[m][2]})
        BY FS_Singleton
      <4> DEFINE one == {Ratio[m][1]}
                 two == {Ratio[m][2]}
      <4> HIDE DEF one, two
      <4>3. IsFiniteSet(one) /\ IsFiniteSet(two)
        BY <4>2 DEF one, two
      <4>4. IsFiniteSet(one \cup two)
        BY <4>3, FS_Union
      <4>5. QED BY <4>1, <4>4 DEF one, two
    <3>2. PICK x : parts = {x}
      BY <2>3, <3>1, FS_Singleton
    <3>3. QED BY <2>3, <3>2
  <2>4. QED BY <2>1, <2>2, <2>3
<1>9. Replay(about, data)[m] =
         applyTimeSeriesTransform(
             applyRatioDerivation(m, IF Cardinality(parts) = 1 THEN columns
                                     ELSE mergeMetricRows(columns)), tr, "none", b)
  BY <1>1, <1>3 DEF Replay
<1> DEFINE rate == applyRatioDerivation(m, mergeMetricRows(columns))
<1>10. /\ Replay(about, data)[m] = applyTimeSeriesTransform(rate, tr, "none", b)
       /\ Answer(about, data)[m] = applyTimeSeriesTransform(rate, tr, "none", FALSE)
  BY <1>6, <1>7, <1>8, <1>9
<1> HIDE DEF rate
<1>11. CASE tr = "none"
  <2>1. applyTimeSeriesTransform(rate, "none", "none", b) = rate
    BY Transforms
  <2>2. applyTimeSeriesTransform(rate, "none", "none", FALSE) = rate
    BY Transforms
  <2>3. QED BY <1>10, <1>11, <2>1, <2>2
<1>12. CASE tr # "none"
  BY <1>5, <1>10, <1>12
<1>13. QED BY <1>11, <1>12

(* Filling the gaps of a column that has none. *)
LEMMA FilledAlready ==
    ASSUME NEW K, NEW column, DOMAIN column = K, \A k \in K : column[k] \in Fractions
    PROVE  Filled(column, K) = [k \in K |-> column[k]]
  BY FractionsCount DEF Filled

LEMMA SameColumns ==
    ASSUME NEW K, NEW c, NEW d, DOMAIN c = K, DOMAIN d = K, \A k \in K : c[k] = d[k]
    PROVE  SameColumn(c, d)
  BY DEF SameColumn, Same

(* Merging columns over the same rows. *)
LEMMA MergedAlready ==
    ASSUME NEW S, NEW columns, DOMAIN columns = S, NEW K, NEW m \in S,
           \A q \in S : DOMAIN columns[q] = K
    PROVE  mergeMetricRows(columns)[m] = Filled(columns[m], K)
<1>1. UNION {DOMAIN columns[q] : q \in DOMAIN columns} = K
  BY Zenon
<1>2. QED BY <1>1 DEF mergeMetricRows

(* Several metrics and nothing cumulated by itself. *)
LEMMA SeveralPlain ==
    ASSUME NEW about \in QuestionsAsked, NEW data, KeepsAll(about, data), ~Single(about),
           Resets(about) = {} \/ about.transform = "mom_change_pct",
           NEW m \in Asked(about), \A q \in Asked(about) : Result(data[q])
    PROVE  Replay(about, data)[m] = Answer(about, data)[m]
<1> DEFINE S == Asked(about)
           columns == [q \in S |-> data[q]]
           tr == about.transform
           stored == IF Cardinality(S) = 1 THEN columns ELSE mergeMetricRows(columns)
<1>1. \A q \in S : ~IsRatio(q) /\ QueriesFor(q) = {q}
  BY DEF KeepsAll, QueriesFor
<1>2. Stored(about).queries = S /\ Stored(about).derivations = {}
  <2>1. UNION {QueriesFor(q) : q \in S} = S
    BY <1>1
  <2>2. QED BY <1>1, <2>1 DEF Stored
<1>3. stored[m] = mergeMetricRows(columns)[m]
  <2>1. CASE Cardinality(S) # 1
    BY <2>1
  <2>2. CASE Cardinality(S) = 1
    <3>1. IsFiniteSet(S)
      <4> DEFINE n == Len(about.metrics)
      <4>1. about.metrics \in Seq(Base \cup DOMAIN Ratio)
        BY DEF QuestionsAsked
      <4>2. n \in Nat /\ DOMAIN about.metrics = 1 .. n
        BY <4>1
      <4>3. about.metrics \in Surjection(1 .. n, S)
        BY <4>1, <4>2 DEF Asked, Surjection
      <4>4. IsFiniteSet(1 .. n)
        <5>1. 1 \in Int /\ n \in Int
          BY <4>2
        <5> HIDE DEF n
        <5>2. QED BY <5>1, FS_Interval
      <4> HIDE DEF n, S
      <4>5. QED BY <4>3, <4>4, FS_Surjection
    <3>2. S = {m}
      <4>1. PICK x : S = {x}
        <5> HIDE DEF S
        <5>1. QED BY <2>2, <3>1, FS_Singleton
      <4>2. QED BY <4>1
    <3>3. mergeMetricRows(columns)[m] = Filled(data[m], DOMAIN data[m])
      <4>1. DOMAIN columns = S /\ columns[m] = data[m] /\ \A q \in S : DOMAIN columns[q] = DOMAIN data[m]
        BY <3>2
      <4> HIDE DEF columns, S
      <4>2. QED BY <4>1, MergedAlready DEF S
    <3>4. Filled(data[m], DOMAIN data[m]) = [k \in DOMAIN data[m] |-> data[m][k]]
      BY FilledAlready DEF Result
    <3>5. [k \in DOMAIN data[m] |-> data[m][k]] = data[m]
      BY DEF Result
    <3>6. QED BY <2>2, <3>3, <3>4, <3>5
  <2>3. QED BY <2>1, <2>2
<1>4. \A q \in S : resolveMetricRows(q, about, data) = data[q]
  BY <1>1 DEF Resets, resolveMetricRows, AutoCumulated
<1>5. /\ Stored(about).transform = tr
      /\ tr = "cumulative" => Resets(about) = {} /\ Stored(about).reset = "none"
  <2>1. Resets(about) = {} => Cardinality(Resets(about)) = 0
    BY FS_EmptySet
  <2>2. QED BY <2>1 DEF Stored
<1>6. Answer(about, data)[m] =
         applyTimeSeriesTransform(mergeMetricRows(columns)[m], tr, "none", about.byDealer)
  <2>1. [q \in S |-> resolveMetricRows(q, about, data)] = columns
    BY <1>4
  <2>2. (IF tr = "cumulative" /\ Resets(about) # {} THEN "none" ELSE tr) = tr
    BY <1>5
  <2>3. (about.byDealer /\ ~Single(about)) = about.byDealer
    BY DEF QuestionsAsked
  <2>4. QED BY <2>1, <2>2, <2>3 DEF Answer
<1>7. Replay(about, data)[m] =
         applyTimeSeriesTransform(stored[m], tr, Stored(about).reset, about.byDealer)
  BY <1>2, <1>5 DEF Replay
<1>8. tr \in {"none", "cumulative", "mom_change_pct"}
  BY DEF QuestionsAsked
<1> HIDE DEF stored
<1>9. QED BY <1>3, <1>5, <1>6, <1>7, <1>8, Transforms

(* Several metrics that are cumulated alike, over the same rows: the answer *)
(* cumulates each column and has nothing to fill, the widget has nothing to *)
(* fill and cumulates each column.                                         *)
LEMMA SeveralCumulated ==
    ASSUME NEW about \in QuestionsAsked, NEW data, KeepsAll(about, data), ~Single(about),
           Resets(about) # {}, about.transform # "mom_change_pct",
           NEW m \in Asked(about), \A q \in Asked(about) : Result(data[q])
    PROVE  SameColumn(Replay(about, data)[m], Answer(about, data)[m])
<1> DEFINE S == Asked(about)
           columns == [q \in S |-> data[q]]
           tr == about.transform
           stored == IF Cardinality(S) = 1 THEN columns ELSE mergeMetricRows(columns)
           g == PeriodReset(m)
           b == about.byDealer
           K == DOMAIN data[m]
           C(q) == Cumulative(data[q], g, b)
           cumulated == [q \in S |-> C(q)]
<1>1. \A q \in S : ~IsRatio(q) /\ QueriesFor(q) = {q} /\ PeriodReset(q) = g /\ g # "none"
  <2>1. \A q \in S : PeriodReset(q) = g
    BY DEF KeepsAll
  <2>2. g # "none"
    BY <2>1 DEF Resets
  <2>3. QED BY <2>1, <2>2 DEF QueriesFor, PeriodReset
<1>2. Stored(about).queries = S /\ Stored(about).derivations = {}
  <2>1. UNION {QueriesFor(q) : q \in S} = S
    BY <1>1
  <2>2. QED BY <1>1, <2>1 DEF Stored
<1>3. Stored(about).transform = "cumulative" /\ Stored(about).reset = g
  <2>1. Resets(about) = {g}
    BY <1>1 DEF Resets
  <2>2. Cardinality(Resets(about)) = 1
    <3> HIDE DEF g
    <3>1. QED BY <2>1, FS_Singleton
  <2>3. (CHOOSE r \in Resets(about) : TRUE) = g
    BY <2>1
  <2>4. QED BY <2>2, <2>3 DEF Stored
<1>4. \A q \in S : DOMAIN data[q] = K
  BY DEF KeepsAll
<1>5. b \in BOOLEAN /\ tr \in {"none", "cumulative"} /\ g \in {"none", "year", "month"}
  <2>1. b \in BOOLEAN /\ tr \in {"none", "cumulative"}
    BY DEF QuestionsAsked
  <2>2. g \in {"none", "year", "month"}
    <3>1. g = "none" \/ (m \in Additive /\ g = Grain[m])
      BY DEF PeriodReset
    <3>2. QED BY <3>1, MetricAssumption
  <2>3. QED BY <2>1, <2>2
<1>6. \A q \in S : DOMAIN C(q) = K /\ \A k \in K : C(q)[k] \in Fractions
  <2> SUFFICES ASSUME NEW q \in S PROVE DOMAIN C(q) = K /\ \A k \in K : C(q)[k] \in Fractions
    OBVIOUS
  <2>1. K \in SUBSET Rows /\ IsFiniteSet(K) /\ data[q] \in [K -> Fractions]
    BY <1>4 DEF Result
  <2> HIDE DEF K, g, b
  <2>2. DOMAIN C(q) = K /\ \A k \in K : C(q)[k] = Total(data[q], Sofar(k, K, g, b))
    BY <1>5, <2>1, RunningTotal
  <2>3. ASSUME NEW k \in K
        PROVE  Total(data[q], Sofar(k, K, g, b)) \in Fractions
    <3>1. IsFiniteSet(Sofar(k, K, g, b)) /\ \A l \in Sofar(k, K, g, b) : data[q][l] \in Fractions
      BY <2>1, FS_Subset DEF Sofar
    <3>2. QED BY <3>1, TotalType
  <2>4. QED BY <2>2, <2>3
<1>7. stored[m] = data[m]
  <2>1. CASE Cardinality(S) = 1
    BY <2>1
  <2>2. CASE Cardinality(S) # 1
    <3>1. DOMAIN columns = S /\ columns[m] = data[m] /\ \A q \in S : DOMAIN columns[q] = K
      BY <1>4
    <3>2. mergeMetricRows(columns)[m] = Filled(data[m], K)
      <4> HIDE DEF columns, S, K
      <4>1. QED BY <3>1, MergedAlready DEF S
    <3>3. Filled(data[m], K) = [k \in K |-> data[m][k]]
      BY FilledAlready DEF Result
    <3>4. [k \in K |-> data[m][k]] = data[m]
      BY DEF Result
    <3>5. QED BY <2>2, <3>2, <3>3, <3>4
  <2>3. QED BY <2>1, <2>2
<1>8. Replay(about, data)[m] = C(m)
  <2>1. Replay(about, data)[m] = applyTimeSeriesTransform(stored[m], "cumulative", g, b)
    BY <1>2, <1>3 DEF Replay
  <2> HIDE DEF stored, g, b
  <2>2. QED BY <1>7, <2>1, Transforms
<1>9. Answer(about, data)[m] = mergeMetricRows(cumulated)[m]
  <2>1. \A q \in S : resolveMetricRows(q, about, data) = C(q)
    BY <1>1 DEF resolveMetricRows, AutoCumulated
  <2>2. [q \in S |-> resolveMetricRows(q, about, data)] = cumulated
    BY <2>1
  <2>3. (IF tr = "cumulative" /\ Resets(about) # {} THEN "none" ELSE tr) = "none"
    BY <1>5
  <2>4. Answer(about, data)[m] =
           applyTimeSeriesTransform(mergeMetricRows(cumulated)[m], "none", "none", b /\ ~Single(about))
    BY <2>2, <2>3 DEF Answer
  <2> HIDE DEF cumulated
  <2>5. QED BY <2>4, Transforms
<1>10. mergeMetricRows(cumulated)[m] = [k \in K |-> C(m)[k]]
  <2>1. DOMAIN cumulated = S /\ cumulated[m] = C(m) /\ \A q \in S : DOMAIN cumulated[q] = K
    BY <1>6
  <2>2. mergeMetricRows(cumulated)[m] = Filled(C(m), K)
    <3> HIDE DEF cumulated, S, K, C
    <3>1. QED BY <2>1, MergedAlready DEF S
  <2>3. Filled(C(m), K) = [k \in K |-> C(m)[k]]
    <3>1. DOMAIN C(m) = K /\ \A k \in K : C(m)[k] \in Fractions
      BY <1>6
    <3> HIDE DEF C, K
    <3>2. QED BY <3>1, FilledAlready
  <2>4. QED BY <2>2, <2>3
<1>11. DOMAIN C(m) = K
  BY <1>6
<1> HIDE DEF C, K
<1>12. SameColumn(C(m), [k \in K |-> C(m)[k]])
  BY <1>11, SameColumns
<1>13. QED BY <1>8, <1>9, <1>10, <1>12

(* On whatever tables and at whatever reads: a stored widget that keeps all *)
(* its numbers depend on shows what the question is answered with on the   *)
(* same data, however many metrics it has and whichever are cumulated.      *)
THEOREM ReplayShowsTheAnswer == ReplaySpec => []PlainReplayIsTheAnswer
<1>1. ShownIsRead => PlainReplayIsTheAnswer
  <2> SUFFICES ASSUME ShownIsRead, NEW r \in Requests, request[r].pc = "shown",
                      KeepsAll(question, Data(question, request[r].read))
               PROVE  Agrees(question, Data(question, request[r].read))
    BY DEF PlainReplayIsTheAnswer
  <2> DEFINE data == Data(question, request[r].read)
  <2>1. question \in QuestionsAsked
    BY ReplayAssumption DEF ShownIsRead, QuestionsAsked
  <2>2. ASSUME NEW m \in Asked(question), Single(question)
        PROVE  Replay(question, data)[m] = Answer(question, data)[m]
    <3>1. Asked(question) = {m}
      <4>1. DOMAIN question.metrics = {1}
        BY <2>1, <2>2 DEF QuestionsAsked, Single
      <4>2. QED BY <4>1 DEF Asked
    <3>2. QED BY <2>1, <2>2, <3>1, SingleBase, SingleRatio
  <2>3. ASSUME NEW m \in Asked(question), ~Single(question)
        PROVE  SameColumn(Replay(question, data)[m], Answer(question, data)[m])
    <3>1. \A q \in Asked(question) : q \in Bundle
      BY <2>3 DEF KeepsAll, Bundle, Stored, QueriesFor
    <3>2. \A q \in Asked(question) : Result(data[q])
      BY <3>1, ShownResults
    <3>3. KeepsAll(question, data)
      OBVIOUS
    <3> HIDE DEF data
    <3>4. CASE Resets(question) = {} \/ question.transform = "mom_change_pct"
      <4>1. Replay(question, data)[m] = Answer(question, data)[m]
        BY <2>1, <2>3, <3>2, <3>3, <3>4, SeveralPlain
      <4>2. QED BY <4>1 DEF SameColumn, Same
    <3>5. CASE Resets(question) # {} /\ question.transform # "mom_change_pct"
      BY <2>1, <2>3, <3>2, <3>3, <3>5, SeveralCumulated
    <3>6. QED BY <3>4, <3>5
  <2> HIDE DEF data
  <2>4. \A m \in Asked(question) : SameColumn(Replay(question, data)[m], Answer(question, data)[m])
    BY <2>2, <2>3 DEF SameColumn, Same
  <2>5. QED BY <2>4 DEF Agrees, data
<1>2. QED BY <1>1, ReplayStarts, ReplayStep, ShownStarts, ShownStep, PTL DEF ReplaySpec
=============================================================================
