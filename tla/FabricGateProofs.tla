--------------------------- MODULE FabricGateProofs ---------------------------
(***************************************************************************)
(* Proofs about FabricGate for any number of workers, calls and permits    *)
(* and whatever fails: the limit of each store, and of all of Fabric while *)
(* nothing has failed.                                                     *)
(***************************************************************************)
EXTENDS FabricGate, FiniteSetTheorems, TLAPS

(* The number of permits of a place never passes the limit. *)
PermitsBounded == \A p \in Places : Cardinality(Holders(p)) <= Limit

(* A query runs under a permit of its worker or of Redis, with at least as *)
(* many ticks left as the query may still take.                            *)
PermitOutlivesRun ==
    \A c \in Running :
        /\ call[c].at \in {None, Redis, WorkerOf[c]}
        /\ call[c].at # None => permits[call[c].at][c] + call[c].clock >= PermitTtl

(* As long as nothing has failed, every query runs under a permit of Redis. *)
AllOnRedis ==
    ~disturbed => /\ \A w \in Workers : cooldown[w] = 0
                  /\ \A c \in Running : call[c].at = Redis

(* The clock of a call that joins the queue starts at zero. *)
IdleAtZero == \A c \in Calls : call[c].pc = "idle" => call[c].clock = 0

GateInv == GateTypeOK /\ PermitsBounded /\ PermitOutlivesRun /\ AllOnRedis /\ IdleAtZero

(* A call of the store goes to Redis or to the worker's own memory. *)
LEMMA AtIsAPlace == \A w \in Workers : At(w) \in {Redis, w} /\ {Redis, w} \subseteq Places
  BY DEF At, Places

(* The holders of a place are finitely many. *)
LEMMA HoldersAreFinite ==
    \A p : IsFiniteSet(Holders(p)) /\ Cardinality(Holders(p)) \in Nat
<1>1. \A p : Holders(p) \in SUBSET Calls
  BY DEF Holders
<1>2. QED BY <1>1, FS_Subset, FS_CardinalityType, GateAssumption

(* Permits that end or go back leave at most as many holders. *)
LEMMA FewerHolders ==
    ASSUME PermitsBounded,
           \A p \in Places : Holders(p)' \subseteq Holders(p)
    PROVE  PermitsBounded'
<1> SUFFICES ASSUME NEW p \in Places PROVE Cardinality(Holders(p)') <= Limit
  BY DEF PermitsBounded, Holders
<1>1. IsFiniteSet(Holders(p)) /\ Cardinality(Holders(p)) \in Nat
  BY HoldersAreFinite
<1>2. Holders(p)' \in SUBSET Holders(p)
  OBVIOUS
<1>3. Cardinality(Holders(p)') <= Cardinality(Holders(p)) /\ IsFiniteSet(Holders(p)')
  BY <1>1, <1>2, FS_Subset
<1>4. Cardinality(Holders(p)') \in Nat
  BY <1>3, FS_CardinalityType
<1>5. QED BY <1>1, <1>3, <1>4, GateAssumption DEF PermitsBounded

(* A permit is only given where there is room for it. *)
LEMMA AskStaysBounded ==
    ASSUME GateTypeOK, PermitsBounded, NEW c \in Calls, NEW ps, NEW p \in Places,
           AskPermit(c, ps, p)
    PROVE  PermitsBounded'
<1> SUFFICES ASSUME NEW q \in Places PROVE Cardinality(Holders(q)') <= Limit
  BY DEF PermitsBounded, Holders
<1>1. IsFiniteSet(Holders(q)) /\ Cardinality(Holders(q)) \in Nat /\ Limit \in Nat
  BY HoldersAreFinite, GateAssumption
<1>2. CASE q \in ps /\ HasRoom(q)
  <2>1. permits'[q] = [permits[q] EXCEPT ![c] = PermitTtl]
    BY <1>2 DEF AskPermit
  <2>2. Holders(q)' = Holders(q) \cup {c}
    BY <2>1, GateAssumption DEF Holders, GateTypeOK
  <2>3. Cardinality(Holders(q)) < Limit
    BY <1>2 DEF HasRoom
  <2>4. Cardinality(Holders(q)') <= Cardinality(Holders(q)) + 1
    <3>1. Cardinality(Holders(q) \cup {c}) =
             IF c \in Holders(q) THEN Cardinality(Holders(q)) ELSE Cardinality(Holders(q)) + 1
      BY <1>1, FS_AddElement
    <3>2. QED BY <1>1, <2>2, <3>1
  <2>5. IsFiniteSet(Holders(q)')
    BY <1>1, <2>2, FS_AddElement
  <2>6. Cardinality(Holders(q)') \in Nat
    BY <2>5, FS_CardinalityType
  <2>7. QED BY <1>1, <2>3, <2>4, <2>6
<1>3. CASE ~(q \in ps /\ HasRoom(q))
  <2>1. permits'[q] = permits[q]
    BY <1>3 DEF AskPermit
  <2>2. Holders(q)' = Holders(q)
    BY <2>1 DEF Holders
  <2>3. QED BY <2>2 DEF PermitsBounded
<1>4. QED BY <1>2, <1>3

(* What asking for a permit at Redis or in the worker's memory leaves: the *)
(* caller runs under a whole permit of the place that answered, or queues  *)
(* on; no other call is touched.                                           *)
LEMMA AskEffect ==
    ASSUME GateInv, NEW c \in Calls, NEW ps \in SUBSET Places, NEW p \in ps,
           p \in {Redis, WorkerOf[c]}, AskPermit(c, ps, p)
    PROVE  /\ permits' \in [Places -> [Calls -> 0 .. PermitTtl]]
           /\ call' \in [Calls -> Call]
           /\ \A d \in Calls \ {c} : call'[d] = call[d]
           /\ \A d \in Calls \ {c}, q \in Places : permits'[q][d] = permits[q][d]
           /\ call'[c].pc = "run" =>
                 call'[c].clock = 0 /\ call'[c].at = p /\ permits'[p][c] = PermitTtl
           /\ call'[c].pc # "run" => call'[c] = call[c]
<1>0. GateTypeOK /\ PermitTtl \in Nat /\ PermitTtl > 0
  BY GateAssumption DEF GateInv
<1>1. permits' \in [Places -> [Calls -> 0 .. PermitTtl]]
  BY <1>0 DEF AskPermit, GateTypeOK
<1>2. \A d \in Calls \ {c}, q \in Places : permits'[q][d] = permits[q][d]
  BY <1>0 DEF AskPermit, GateTypeOK
<1>3. CASE HasRoom(p)
  <2>1. call' = [call EXCEPT ![c] = [pc |-> "run", clock |-> 0, at |-> p]]
    BY <1>3 DEF AskPermit
  <2>2. call' \in [Calls -> Call] /\ \A d \in Calls \ {c} : call'[d] = call[d]
    BY <1>0, <2>1 DEF GateTypeOK, Call
  <2>3. call'[c] = [pc |-> "run", clock |-> 0, at |-> p]
    BY <1>0, <2>1 DEF GateTypeOK
  <2>4. permits'[p] = [permits[p] EXCEPT ![c] = PermitTtl]
    BY <1>3 DEF AskPermit
  <2>5. permits'[p][c] = PermitTtl
    BY <1>0, <2>4 DEF GateTypeOK
  <2>6. QED BY <1>1, <1>2, <2>2, <2>3, <2>5
<1>4. CASE ~HasRoom(p)
  <2>1. call' = call /\ call[c].pc = "queue"
    BY <1>4 DEF AskPermit
  <2>2. QED BY <1>0, <1>1, <1>2, <2>1 DEF GateTypeOK
<1>5. QED BY <1>3, <1>4

(* Asking for a permit keeps what is known of the permits and the queries. *)
LEMMA AskStep ==
    ASSUME GateInv, NEW c \in Calls, NEW ps \in SUBSET Places, NEW p \in ps,
           p \in {Redis, WorkerOf[c]}, AskPermit(c, ps, p)
    PROVE  /\ permits' \in [Places -> [Calls -> 0 .. PermitTtl]]
           /\ call' \in [Calls -> Call]
           /\ \A d \in Calls : /\ call'[d].pc = "run" => call'[d].clock <= MaxRun
                               /\ call'[d].pc = "queue" => call'[d].clock <= QueueTimeout
           /\ PermitsBounded' /\ PermitOutlivesRun' /\ IdleAtZero'
<1>0. /\ GateTypeOK /\ PermitsBounded /\ PermitOutlivesRun
      /\ PermitTtl \in Nat /\ MaxRun \in Nat /\ p \in Places
  BY GateAssumption DEF GateInv
<1>1. /\ permits' \in [Places -> [Calls -> 0 .. PermitTtl]]
      /\ call' \in [Calls -> Call]
      /\ \A d \in Calls \ {c} : call'[d] = call[d]
      /\ \A d \in Calls \ {c}, q \in Places : permits'[q][d] = permits[q][d]
      /\ call'[c].pc = "run" =>
            call'[c].clock = 0 /\ call'[c].at = p /\ permits'[p][c] = PermitTtl
      /\ call'[c].pc # "run" => call'[c] = call[c]
  BY AskEffect
<1>2. PermitsBounded'
  BY <1>0, AskStaysBounded
<1>3. ASSUME NEW d \in Calls
      PROVE  /\ call'[d].pc = "run" => call'[d].clock <= MaxRun
             /\ call'[d].pc = "queue" => call'[d].clock <= QueueTimeout
  BY <1>0, <1>1 DEF GateTypeOK
<1>4. ASSUME NEW d \in Calls, call'[d].pc = "run"
      PROVE  /\ call'[d].at \in {None, Redis, WorkerOf[d]}
             /\ call'[d].at # None => permits'[call'[d].at][d] + call'[d].clock >= PermitTtl
  <2>1. CASE d = c
    BY <1>0, <1>1, <1>4, <2>1
  <2>2. CASE d # c
    <3>1. d \in Running /\ call'[d] = call[d]
      BY <1>1, <1>4, <2>2 DEF Running
    <3>2. call[d].at # None => call[d].at \in Places
      BY <1>0, <3>1, GateAssumption DEF PermitOutlivesRun, Places
    <3>3. QED BY <1>0, <1>1, <2>2, <3>1, <3>2 DEF PermitOutlivesRun
  <2>3. QED BY <2>1, <2>2
<1>5. PermitOutlivesRun'
  BY <1>4 DEF PermitOutlivesRun, Running
<1>6. IdleAtZero'
  BY <1>1 DEF GateInv, IdleAtZero
<1>7. QED BY <1>1, <1>2, <1>3, <1>5, <1>6

(* The invariant holds to begin with. *)
LEMMA GateInvInit == GateInit => GateInv
<1> SUFFICES ASSUME GateInit PROVE GateInv
  OBVIOUS
<1>1. PermitTtl \in Nat /\ Limit \in Nat
  BY GateAssumption
<1>2. GateTypeOK
  <2>1. StoreTypeOK
    <3>1. 0 \in 0 .. Cooldown
      BY StoreAssumption
    <3>2. QED BY <3>1 DEF GateInit, StoreInit, StoreTypeOK
  <2>2. permits \in [Places -> [Calls -> 0 .. PermitTtl]]
    BY <1>1 DEF GateInit
  <2>3. IdleCall \in Call /\ IdleCall.pc = "idle"
    BY DEF IdleCall, Call
  <2>4. call \in [Calls -> Call] /\ \A c \in Calls : call[c].pc = "idle"
    BY <2>3 DEF GateInit
  <2>5. QED BY <2>1, <2>2, <2>4 DEF GateTypeOK
<1>3. PermitsBounded
  <2>1. \A p \in Places : Holders(p) = {}
    BY DEF GateInit, Holders
  <2>2. QED BY <1>1, <2>1, FS_EmptySet DEF PermitsBounded
<1>4. Running = {}
  BY DEF GateInit, Running, IdleCall
<1>5. AllOnRedis
  BY <1>4 DEF AllOnRedis, GateInit, StoreInit
<1>6. IdleAtZero
  BY DEF GateInit, IdleCall, IdleAtZero
<1>7. QED BY <1>2, <1>3, <1>4, <1>5, <1>6 DEF GateInv, PermitOutlivesRun

(* Nothing is disturbed by calls that stop running, as long as no permit is *)
(* made and the others keep their state and the permits they run under.     *)
LEMMA OthersRunOn ==
    ASSUME GateInv,
           permits' \in [Places -> [Calls -> 0 .. PermitTtl]],
           call' \in [Calls -> Call],
           \A d \in Calls :
              \/ call'[d].pc \notin {"run", "queue", "idle"}
              \/ /\ call'[d] = call[d]
                 /\ \A q \in {Redis, WorkerOf[d]} : permits'[q][d] = permits[q][d]
              \/ call'[d].pc = "queue" /\ call'[d].clock <= QueueTimeout,
           \A d \in Calls, q \in Places : permits'[q][d] > 0 => permits[q][d] > 0,
           cooldown' \in [Workers -> 0 .. Cooldown], disturbed' \in BOOLEAN,
           ~disturbed' => ~disturbed /\ cooldown' = cooldown
    PROVE  GateInv'
<1>0. GateTypeOK /\ PermitsBounded /\ PermitOutlivesRun /\ AllOnRedis /\ IdleAtZero
  BY DEF GateInv
<1>1. GateTypeOK'
  BY <1>0 DEF GateTypeOK, StoreTypeOK
<1>2. PermitsBounded'
  <2>1. \A p \in Places : Holders(p)' \subseteq Holders(p)
    BY DEF Holders
  <2>2. QED BY <1>0, <2>1, FewerHolders
<1>3. ASSUME NEW d \in Calls, call'[d].pc = "run"
      PROVE  d \in Running /\ call'[d] = call[d]
             /\ \A q \in {Redis, WorkerOf[d]} : permits'[q][d] = permits[q][d]
  BY <1>3 DEF Running
<1>4. PermitOutlivesRun'
  <2> SUFFICES ASSUME NEW d \in Calls, call'[d].pc = "run"
               PROVE  /\ call'[d].at \in {None, Redis, WorkerOf[d]}
                      /\ call'[d].at # None =>
                            permits'[call'[d].at][d] + call'[d].clock >= PermitTtl
    BY DEF PermitOutlivesRun, Running
  <2>1. QED BY <1>0, <1>3 DEF PermitOutlivesRun
<1>5. AllOnRedis'
  BY <1>0, <1>3 DEF AllOnRedis, Running
<1>6. IdleAtZero'
  BY <1>0 DEF IdleAtZero
<1>7. QED BY <1>1, <1>2, <1>4, <1>5, <1>6 DEF GateInv

(* Every step keeps the invariant, one proof step per action. *)
LEMMA GateStep == GateInv /\ [GateNext]_gvars => GateInv'
<1> SUFFICES ASSUME GateInv, [GateNext]_gvars PROVE GateInv'
  OBVIOUS
<1>0. /\ GateTypeOK /\ PermitsBounded /\ PermitOutlivesRun /\ AllOnRedis /\ IdleAtZero
      /\ permits \in [Places -> [Calls -> 0 .. PermitTtl]]
      /\ call \in [Calls -> Call]
      /\ cooldown \in [Workers -> 0 .. Cooldown] /\ disturbed \in BOOLEAN
      /\ PermitTtl \in Nat /\ MaxRun \in Nat /\ QueueTimeout \in Nat
      /\ Cooldown \in Nat /\ [c \in Calls |-> 0] \in [Calls -> 0 .. PermitTtl]
  BY GateAssumption, StoreAssumption DEF GateInv, GateTypeOK, StoreTypeOK
<1>1. DoneCall \in Call /\ DoneCall.pc = "done" /\ IdleCall \in Call /\ IdleCall.pc = "idle"
  BY DEF DoneCall, IdleCall, Call
<1>2. ASSUME NEW c \in Calls, Join(c) PROVE GateInv'
  <2>0. call[c].clock = 0
    BY <1>0, <1>2 DEF Join, IdleAtZero
  <2>1. /\ call' = [call EXCEPT ![c] = [call[c] EXCEPT !.pc = "queue"]]
        /\ UNCHANGED <<cooldown, disturbed, permits>>
    BY <1>0, <1>2 DEF Join
  <2>2. call' \in [Calls -> Call] /\ call'[c].pc = "queue" /\ call'[c].clock = call[c].clock
        /\ \A d \in Calls \ {c} : call'[d] = call[d]
    BY <1>0, <2>1 DEF Call
  <2>3. QED BY <1>0, <2>0, <2>1, <2>2, OthersRunOn
<1>3. ASSUME NEW c \in Calls, Acquire(c) PROVE GateInv'
  <2> DEFINE p == At(WorkerOf[c])
  <2>1. WorkerOf[c] \in Workers /\ p \in {Redis, WorkerOf[c]} /\ {p} \subseteq Places
    BY AtIsAPlace, GateAssumption
  <2>2. AskPermit(c, {p}, p) /\ UNCHANGED <<cooldown, disturbed>>
    BY <1>3 DEF Acquire
  <2>3. /\ permits' \in [Places -> [Calls -> 0 .. PermitTtl]]
        /\ call' \in [Calls -> Call]
        /\ \A d \in Calls : /\ call'[d].pc = "run" => call'[d].clock <= MaxRun
                            /\ call'[d].pc = "queue" => call'[d].clock <= QueueTimeout
        /\ PermitsBounded' /\ PermitOutlivesRun' /\ IdleAtZero'
    BY <2>1, <2>2, AskStep
  <2>4. GateTypeOK'
    BY <1>0, <2>2, <2>3 DEF GateTypeOK, StoreTypeOK
  <2>5. AllOnRedis'
    <3> SUFFICES ASSUME ~disturbed, NEW d \in Calls, call'[d].pc = "run"
                 PROVE  call'[d].at = Redis
      BY <1>0, <2>2 DEF AllOnRedis, Running
    <3>1. p = Redis
      BY <1>0, <2>1 DEF AllOnRedis, At
    <3>2. /\ \A e \in Calls \ {c} : call'[e] = call[e]
          /\ call'[c].pc = "run" => call'[c].at = p
      BY <2>1, <2>2, AskEffect
    <3>3. QED BY <1>0, <3>1, <3>2 DEF AllOnRedis, Running
  <2>6. QED BY <2>3, <2>4, <2>5 DEF GateInv
<1>4. ASSUME NEW c \in Calls, AcquireTorn(c) PROVE GateInv'
  <2> DEFINE w == WorkerOf[c]
  <2>1. w \in Workers /\ Torn(w) \subseteq Places /\ w \in Torn(w)
    BY AtIsAPlace, GateAssumption DEF Torn
  <2>2. AskPermit(c, Torn(w), w) /\ Offline(w)
    BY <1>4 DEF AcquireTorn
  <2>3. /\ permits' \in [Places -> [Calls -> 0 .. PermitTtl]]
        /\ call' \in [Calls -> Call]
        /\ \A d \in Calls : /\ call'[d].pc = "run" => call'[d].clock <= MaxRun
                            /\ call'[d].pc = "queue" => call'[d].clock <= QueueTimeout
        /\ PermitsBounded' /\ PermitOutlivesRun' /\ IdleAtZero'
    BY <2>1, <2>2, AskStep
  <2>4. GateTypeOK'
    BY <1>0, <2>1, <2>2, <2>3 DEF GateTypeOK, StoreTypeOK, Offline
  <2>5. QED BY <2>2, <2>3, <2>4 DEF GateInv, AllOnRedis, Offline
<1>5. ASSUME NEW c \in Calls, Refuse(c) PROVE GateInv'
  <2>1. call' = [call EXCEPT ![c] = DoneCall] /\ UNCHANGED <<cooldown, disturbed, permits>>
    BY <1>5 DEF Refuse
  <2>2. call' \in [Calls -> Call] /\ call'[c] = DoneCall
        /\ \A d \in Calls \ {c} : call'[d] = call[d]
    BY <1>0, <1>1, <2>1
  <2>3. QED BY <1>0, <1>1, <2>1, <2>2, OthersRunOn
<1>6. ASSUME NEW c \in Calls, Return(c) PROVE GateInv'
  <2>1. /\ call' = [call EXCEPT ![c] = [call[c] EXCEPT !.pc = "release", !.clock = 0]]
        /\ UNCHANGED <<cooldown, disturbed, permits>>
    BY <1>0, <1>6 DEF Return
  <2>2. call' \in [Calls -> Call] /\ call'[c].pc = "release"
        /\ \A d \in Calls \ {c} : call'[d] = call[d]
    BY <1>0, <2>1 DEF Call
  <2>3. QED BY <1>0, <2>1, <2>2, OthersRunOn
<1>7. ASSUME NEW c \in Calls, Release(c) PROVE GateInv'
  <2>1. /\ call' = [call EXCEPT ![c] = DoneCall] /\ permits' = Returned(c)
        /\ UNCHANGED <<cooldown, disturbed>>
    BY <1>7 DEF Release
  <2>2. call' \in [Calls -> Call] /\ call'[c] = DoneCall
        /\ \A d \in Calls \ {c} : call'[d] = call[d]
    BY <1>0, <1>1, <2>1
  <2>3. permits' \in [Places -> [Calls -> 0 .. PermitTtl]]
    BY <1>0, <2>1 DEF Returned
  <2>4. /\ \A d \in Calls \ {c}, q \in Places : permits'[q][d] = permits[q][d]
        /\ \A q \in Places : permits'[q][c] \in {0, permits[q][c]}
    BY <1>0, <2>1 DEF Returned
  <2>5. \A d \in Calls : {Redis, WorkerOf[d]} \subseteq Places
    BY GateAssumption DEF Places
  <2>6. \A d \in Calls, q \in Places : permits'[q][d] > 0 => permits[q][d] > 0
    BY <2>4
  <2>7. QED BY <1>0, <1>1, <2>1, <2>2, <2>3, <2>4, <2>5, <2>6, OthersRunOn
<1>8. ASSUME NEW w \in Workers, LoseRedis(w) PROVE GateInv'
  BY <1>0, <1>8, OthersRunOn DEF LoseRedis, Offline
<1>9. ASSUME NEW w \in Workers, WorkerCrash(w) PROVE GateInv'
  <2>1. /\ permits' = [permits EXCEPT ![w] = [c \in Calls |-> 0]]
        /\ cooldown' = [cooldown EXCEPT ![w] = 0] /\ disturbed' = TRUE
        /\ call' = [c \in Calls |-> IF WorkerOf[c] = w THEN DoneCall ELSE call[c]]
    BY <1>9 DEF WorkerCrash
  <2>2. w \in Places /\ w # Redis
    BY StoreAssumption DEF Places
  <2>3. permits' \in [Places -> [Calls -> 0 .. PermitTtl]]
    BY <1>0, <2>1
  <2>4. /\ call' \in [Calls -> Call]
        /\ \A d \in Calls : call'[d] = DoneCall \/ (WorkerOf[d] # w /\ call'[d] = call[d])
    BY <1>0, <1>1, <2>1
  <2>5. \A d \in Calls, q \in Places : permits'[q][d] \in {0, permits[q][d]}
                                       /\ (q # w => permits'[q][d] = permits[q][d])
    BY <1>0, <2>1, <2>2
  <2>6. \A d \in Calls : WorkerOf[d] # w =>
           \A q \in {Redis, WorkerOf[d]} : permits'[q][d] = permits[q][d]
    BY <2>2, <2>5, GateAssumption DEF Places
  <2>7. cooldown' \in [Workers -> 0 .. Cooldown]
    BY <1>0, <2>1
  <2>8. QED BY <1>1, <2>1, <2>3, <2>4, <2>5, <2>6, <2>7, OthersRunOn
<1>10. ASSUME RedisRestart PROVE GateInv'
  <2>1. /\ permits' = [permits EXCEPT ![Redis] = [c \in Calls |-> 0]]
        /\ cooldown' = [w \in Workers |-> Cooldown] /\ disturbed' = TRUE
        /\ call' = [c \in Calls |-> IF call[c].at = Redis THEN [call[c] EXCEPT !.at = None]
                                    ELSE call[c]]
    BY <1>10 DEF RedisRestart
  <2>2. /\ call' \in [Calls -> Call]
        /\ \A d \in Calls :
              /\ call'[d].pc = call[d].pc /\ call'[d].clock = call[d].clock
              /\ call'[d].at = IF call[d].at = Redis THEN None ELSE call[d].at
    BY <1>0, <2>1 DEF Call
  <2>3. permits' \in [Places -> [Calls -> 0 .. PermitTtl]]
        /\ \A d \in Calls, q \in Places : permits'[q][d] \in {0, permits[q][d]}
                                          /\ (q # Redis => permits'[q][d] = permits[q][d])
    BY <1>0, <2>1
  <2>4. GateTypeOK'
    BY <1>0, <2>1, <2>2, <2>3 DEF GateTypeOK, StoreTypeOK
  <2>5. PermitsBounded'
    <3>1. \A p \in Places : Holders(p)' \subseteq Holders(p)
      BY <1>0, <2>3 DEF Holders
    <3>2. QED BY <1>0, <3>1, FewerHolders
  <2>6. PermitOutlivesRun'
    <3> SUFFICES ASSUME NEW d \in Calls, call'[d].pc = "run"
                 PROVE  /\ call'[d].at \in {None, Redis, WorkerOf[d]}
                        /\ call'[d].at # None =>
                              permits'[call'[d].at][d] + call'[d].clock >= PermitTtl
      BY DEF PermitOutlivesRun, Running
    <3>1. d \in Running /\ WorkerOf[d] \in Places
      BY <2>2, GateAssumption DEF Running, Places
    <3>2. QED BY <1>0, <2>2, <2>3, <3>1 DEF PermitOutlivesRun
  <2>7. IdleAtZero'
    BY <1>0, <2>2 DEF IdleAtZero
  <2>8. QED BY <2>1, <2>4, <2>5, <2>6, <2>7 DEF GateInv, AllOnRedis
<1>11. ASSUME Tick PROVE GateInv'
  <2>1. /\ \A c \in Calls : MayTick(c)
        /\ permits' = [p \in Places |-> [c \in Calls |-> Less(permits[p][c])]]
        /\ call' = [c \in Calls |-> IF Active(c) THEN [call[c] EXCEPT !.clock = @ + 1]
                                    ELSE IdleCall]
        /\ cooldown' = [w \in Workers |-> Less(cooldown[w])] /\ disturbed' = disturbed
    BY <1>11 DEF Tick, CoolDown
  <2>2. /\ \A n \in 0 .. PermitTtl : Less(n) \in 0 .. PermitTtl
        /\ \A n \in 0 .. Cooldown : Less(n) \in 0 .. Cooldown
        /\ \A n \in Nat : Less(n) > 0 => n > 0
        /\ \A n \in Nat : n > 0 => Less(n) = n - 1
        /\ Less(0) = 0
    BY <1>0 DEF Less
  <2>3. permits' \in [Places -> [Calls -> 0 .. PermitTtl]]
        /\ \A d \in Calls, q \in Places : permits'[q][d] = Less(permits[q][d])
    BY <1>0, <2>1, <2>2
  <2>4. \A d \in Calls : call[d].clock \in Nat /\ call[d] \in Call
    BY <1>0 DEF Call
  <2>5. \A d \in Calls :
           /\ call'[d] \in Call
           /\ call'[d].pc \in {"run", "queue"} =>
                 /\ call'[d].pc = call[d].pc /\ call'[d].at = call[d].at
                 /\ call'[d].clock = call[d].clock + 1
    BY <1>1, <2>1, <2>4 DEF Call
  <2>6. call' \in [Calls -> Call]
    BY <2>1, <2>5
  <2>7. \A d \in Calls : /\ call'[d].pc = "run" => call[d].clock < MaxRun
                         /\ call'[d].pc = "queue" => call[d].clock < QueueTimeout
    BY <2>1, <2>5 DEF MayTick, Active
  <2>8. GateTypeOK'
    <3>1. \A d \in Calls : /\ call'[d].pc = "run" => call'[d].clock <= MaxRun
                           /\ call'[d].pc = "queue" => call'[d].clock <= QueueTimeout
      BY <1>0, <2>4, <2>5, <2>7
    <3>2. cooldown' \in [Workers -> 0 .. Cooldown]
      BY <1>0, <2>1, <2>2
    <3>3. QED BY <1>0, <2>1, <2>3, <2>6, <3>1, <3>2 DEF GateTypeOK, StoreTypeOK
  <2>9. PermitsBounded'
    <3>1. \A p \in Places : Holders(p)' \subseteq Holders(p)
      BY <1>0, <2>2, <2>3 DEF Holders
    <3>2. QED BY <1>0, <3>1, FewerHolders
  <2>10. PermitOutlivesRun'
    <3> SUFFICES ASSUME NEW d \in Calls, call'[d].pc = "run"
                 PROVE  /\ call'[d].at \in {None, Redis, WorkerOf[d]}
                        /\ call'[d].at # None =>
                              permits'[call'[d].at][d] + call'[d].clock >= PermitTtl
      BY DEF PermitOutlivesRun, Running
    <3>1. /\ d \in Running /\ call[d].clock \in Nat /\ call[d].clock < MaxRun
          /\ call'[d].at = call[d].at /\ call'[d].clock = call[d].clock + 1
      BY <2>4, <2>5, <2>7 DEF Running
    <3>2. CASE call[d].at # None
      <4>1. call[d].at \in Places /\ permits[call[d].at][d] \in Nat
        BY <1>0, <3>1, <3>2, GateAssumption DEF PermitOutlivesRun, Places
      <4>2. permits[call[d].at][d] + call[d].clock >= PermitTtl
        BY <1>0, <3>1, <3>2 DEF PermitOutlivesRun
      <4>3. permits'[call[d].at][d] = permits[call[d].at][d] - 1
        BY <1>0, <2>2, <2>3, <3>1, <4>1, <4>2, QueriesEndInTime
      <4>4. QED BY <1>0, <3>1, <4>1, <4>2, <4>3 DEF PermitOutlivesRun
    <3>3. CASE call[d].at = None
      BY <3>1, <3>3
    <3>4. QED BY <3>2, <3>3
  <2>11. AllOnRedis'
    <3> SUFFICES ASSUME ~disturbed
                 PROVE  /\ \A w \in Workers : cooldown'[w] = 0
                        /\ \A d \in Calls : call'[d].pc = "run" => call'[d].at = Redis
      BY <2>1 DEF AllOnRedis, Running
    <3>1. \A w \in Workers : cooldown'[w] = 0
      BY <1>0, <2>1, <2>2 DEF AllOnRedis
    <3>2. QED BY <1>0, <2>5, <3>1 DEF AllOnRedis, Running
  <2>12. IdleAtZero'
    BY <2>1, <2>4 DEF IdleAtZero, IdleCall, Active
  <2>13. QED BY <2>8, <2>9, <2>10, <2>11, <2>12 DEF GateInv
<1>12. ASSUME UNCHANGED gvars PROVE GateInv'
  BY <1>0, <1>12, OthersRunOn DEF gvars
<1>13. QED
  BY <1>2, <1>3, <1>4, <1>5, <1>6, <1>7, <1>8, <1>9, <1>10, <1>11, <1>12
  DEF GateNext, Step

(* The invariant holds for ever. *)
LEMMA GateInvHolds == GateSpec => []GateInv
<1>1. GateInit => GateInv
  BY GateInvInit
<1>2. GateInv /\ [GateNext]_gvars => GateInv'
  BY GateStep
<1>3. QED BY <1>1, <1>2, PTL DEF GateSpec

(* The gate's types, and that no call queues or runs past its time. *)
THEOREM GateTypeCorrect == GateSpec => []GateTypeOK
<1>1. GateInv => GateTypeOK
  BY DEF GateInv
<1>2. QED BY <1>1, GateInvHolds, PTL

(* A query that runs under a permit of a place is among its holders.       *)
LEMMA RunningHold ==
    ASSUME GateInv, NEW p \in Places
    PROVE  RunningAt(p) \subseteq Holders(p)
<1> SUFFICES ASSUME NEW c \in RunningAt(p) PROVE c \in Holders(p)
  OBVIOUS
<1>1. c \in Running /\ call[c].at = p /\ c \in Calls /\ call[c].pc = "run"
  BY DEF RunningAt, Running
<1>2. permits[p][c] \in Nat /\ call[c].clock \in Nat /\ call[c].clock <= MaxRun
  BY <1>1 DEF GateInv, GateTypeOK, Call
<1>3. p # None
  BY StoreAssumption
<1>4. permits[p][c] + call[c].clock >= PermitTtl
  BY <1>1, <1>3 DEF GateInv, PermitOutlivesRun
<1>5. permits[p][c] > 0
  BY <1>2, <1>4, GateAssumption, QueriesEndInTime
<1>6. QED BY <1>1, <1>5 DEF Holders

(* Each place has at most as many running queries as permits.              *)
LEMMA BoundedRuns == GateInv => LimitPerPlace
<1> SUFFICES ASSUME GateInv, NEW p \in Places PROVE Cardinality(RunningAt(p)) <= Limit
  BY DEF LimitPerPlace
<1>1. RunningAt(p) \in SUBSET Holders(p)
  BY RunningHold
<1>2. IsFiniteSet(Holders(p)) /\ Cardinality(Holders(p)) \in Nat
  BY HoldersAreFinite
<1>3. Cardinality(RunningAt(p)) <= Cardinality(Holders(p)) /\ IsFiniteSet(RunningAt(p))
  BY <1>1, <1>2, FS_Subset
<1>4. Cardinality(RunningAt(p)) \in Nat
  BY <1>3, FS_CardinalityType
<1>5. Cardinality(Holders(p)) <= Limit /\ Limit \in Nat
  BY GateAssumption DEF GateInv, PermitsBounded
<1>6. QED BY <1>2, <1>3, <1>4, <1>5

(* Whatever fails, the queries that run under the permits of one store stay *)
(* within the limit: a permit outlives its query.                           *)
THEOREM EachPlaceIsLimited == GateSpec => []LimitPerPlace
<1>1. QED BY BoundedRuns, GateInvHolds, PTL

(* Until something fails, all the workers' queries together stay within the *)
(* limit: they all run under permits of Redis.                              *)
THEOREM FabricIsLimited == GateSpec => []GlobalLimit
<1>1. GateInv => GlobalLimit
  <2> SUFFICES ASSUME GateInv, ~disturbed PROVE Cardinality(Running) <= Limit
    BY DEF GlobalLimit
  <2>1. Running = RunningAt(Redis)
    BY DEF GateInv, AllOnRedis, RunningAt, Running
  <2>2. Redis \in Places
    BY DEF Places
  <2>3. QED BY <2>1, <2>2, BoundedRuns DEF LimitPerPlace
<1>2. QED BY <1>1, GateInvHolds, PTL

(* The permits of Redis, one call at a time.                                *)
Holds(c) == call[c].pc \in {"run", "release"}
Matched == ~disturbed => \A c \in Calls : permits[Redis][c] > 0 <=> Holds(c)

LEMMA MatchedCalls == Matched <=> PermitsMatchCalls
  BY DEF Matched, Holds, PermitsMatchCalls, Holders

(* One call that moves on leaves the permits of the others alone.           *)
LEMMA OneMatched ==
    ASSUME Matched, NEW c \in Calls,
           \A d \in Calls \ {c} : call'[d] = call[d] /\ permits'[Redis][d] = permits[Redis][d],
           ~disturbed' => ~disturbed /\ (permits'[Redis][c] > 0 <=> Holds(c)')
    PROVE  Matched'
  BY DEF Matched, Holds

LEMMA MatchedStep ==
    ASSUME GateInv, Matched, [GateNext]_gvars
    PROVE  Matched'
<1> USE DEF Holds
<1>1. /\ GateTypeOK /\ Redis \in Places /\ PermitTtl \in Nat \ {0}
      /\ permits[Redis] \in [Calls -> 0 .. PermitTtl]
  BY GateAssumption DEF GateInv, GateTypeOK, Places
<1>2. CASE UNCHANGED gvars
  BY <1>2 DEF gvars, Matched
<1>3. ASSUME NEW c \in Calls, Join(c) PROVE Matched'
  <2>1. call'[c].pc = "queue" /\ \A d \in Calls \ {c} : call'[d] = call[d]
    BY <1>1, <1>3 DEF Join, GateTypeOK, Call
  <2>2. permits'[Redis][c] = 0 /\ UNCHANGED <<permits, disturbed>>
    BY <1>1, <1>3 DEF Join
  <2>3. QED BY <2>1, <2>2, OneMatched
<1>4. ASSUME NEW c \in Calls, Acquire(c) PROVE Matched'
  <2> DEFINE p == At(WorkerOf[c])
  <2>1. /\ WorkerOf[c] \in Workers /\ p \in {Redis, WorkerOf[c]} /\ p \in Places
        /\ AskPermit(c, {p}, p) /\ HasRoom(p) /\ UNCHANGED disturbed
    BY <1>4, AtIsAPlace, GateAssumption DEF Acquire
  <2>2. ~disturbed => p = Redis
    BY <2>1 DEF GateInv, AllOnRedis, At
  <2>3. call'[c] = [pc |-> "run", clock |-> 0, at |-> p]
    BY <1>1, <2>1 DEF AskPermit, GateTypeOK
  <2> HIDE DEF p
  <2>4. /\ \A d \in Calls \ {c} : call'[d] = call[d]
        /\ \A d \in Calls \ {c} : permits'[Redis][d] = permits[Redis][d]
        /\ permits'[p][c] = PermitTtl
    BY <1>1, <2>1, <2>3, AskEffect
  <2>5. QED BY <1>1, <2>1, <2>2, <2>3, <2>4, OneMatched
<1>5. ASSUME NEW c \in Calls, Refuse(c) PROVE Matched'
  <2>1. /\ call'[c].pc = "done" /\ call[c].pc = "queue" /\ UNCHANGED <<permits, disturbed>>
        /\ \A d \in Calls \ {c} : call'[d] = call[d]
    BY <1>1, <1>5 DEF Refuse, DoneCall, IdleCall, GateTypeOK
  <2>2. QED BY <2>1, OneMatched DEF Matched
<1>6. ASSUME NEW c \in Calls, Return(c) PROVE Matched'
  <2>1. /\ call'[c].pc = "release" /\ call[c].pc = "run" /\ UNCHANGED <<permits, disturbed>>
        /\ \A d \in Calls \ {c} : call'[d] = call[d]
    BY <1>1, <1>6 DEF Return, GateTypeOK, Call
  <2>2. QED BY <2>1, OneMatched DEF Matched
<1>7. ASSUME NEW c \in Calls, Release(c) PROVE Matched'
  <2>1. /\ call'[c].pc = "done" /\ UNCHANGED disturbed /\ permits' = Returned(c)
        /\ \A d \in Calls \ {c} : call'[d] = call[d]
    BY <1>1, <1>7 DEF Release, DoneCall, IdleCall, GateTypeOK
  <2>2. /\ \A d \in Calls \ {c} : permits'[Redis][d] = permits[Redis][d]
        /\ Redis \in Mirrored(WorkerOf[c]) => permits'[Redis][c] = 0
    BY <1>1, <2>1 DEF Returned
  <2>3. ~disturbed => Redis \in Mirrored(WorkerOf[c])
    BY GateAssumption DEF GateInv, AllOnRedis, Mirrored, At
  <2>4. QED BY <2>1, <2>2, <2>3, OneMatched
<1>8. CASE Tick
  <2> SUFFICES ASSUME ~disturbed', NEW c \in Calls
               PROVE  permits'[Redis][c] > 0 <=> Holds(c)'
    BY DEF Matched
  <2>1. /\ ~disturbed /\ MayTick(c) /\ permits'[Redis][c] = Less(permits[Redis][c])
        /\ permits[Redis][c] \in Nat /\ (permits[Redis][c] > 0 <=> Holds(c))
        /\ call'[c] = IF Active(c) THEN [call[c] EXCEPT !.clock = @ + 1] ELSE IdleCall
        /\ call[c] \in Call
    BY <1>1, <1>8 DEF Tick, CoolDown, Matched, GateTypeOK
  <2>2. CASE call[c].pc = "run"
    <3>1. /\ call[c].at = Redis /\ permits[Redis][c] + call[c].clock >= PermitTtl
          /\ call[c].clock < MaxRun /\ call[c].clock \in Nat /\ MaxRun < PermitTtl
          /\ MaxRun \in Nat
      <4>1. c \in Running /\ Redis # None
        BY <1>1, <2>2, StoreAssumption DEF Running
      <4>2. call[c].clock < MaxRun /\ call[c].clock \in Nat
        BY <2>1, <2>2 DEF MayTick, Active, Call
      <4>3. QED BY <2>1, <4>1, <4>2, GateAssumption, QueriesEndInTime
                DEF GateInv, AllOnRedis, PermitOutlivesRun
    <3>2. permits'[Redis][c] > 0
      BY <1>1, <2>1, <3>1 DEF Less
    <3>3. call'[c].pc = "run"
      BY <2>1, <2>2 DEF Active, Call
    <3>4. QED BY <3>2, <3>3
  <2>3. CASE call[c].pc # "run"
    <3>1. ~Holds(c) /\ permits[Redis][c] = 0
      BY <2>1, <2>3 DEF MayTick, Active
    <3>2. permits'[Redis][c] = 0
      BY <2>1, <3>1 DEF Less
    <3>3. ~Holds(c)'
      BY <2>1, <3>1 DEF IdleCall, Call
    <3>4. QED BY <3>2, <3>3
  <2>4. QED BY <2>2, <2>3
<1>9. ASSUME \/ \E c \in Calls : AcquireTorn(c)
             \/ \E w \in Workers : LoseRedis(w) \/ WorkerCrash(w)
             \/ RedisRestart
      PROVE  Matched'
  BY <1>9 DEF AcquireTorn, LoseRedis, WorkerCrash, RedisRestart, Offline, Matched
<1>10. QED BY <1>2, <1>3, <1>4, <1>5, <1>6, <1>7, <1>8, <1>9 DEF GateNext, Step

(* Until something fails, the permits are those of the calls that run or    *)
(* are giving theirs back: none leaks and none runs out under its query.    *)
THEOREM PermitsAreAccounted == GateSpec => []PermitsMatchCalls
<1>1. GateInit => Matched
  BY DEF GateInit, Matched, Holds, IdleCall, Places
<1>2. GateInv /\ Matched /\ [GateNext]_gvars => Matched'
  BY MatchedStep
<1>3. GateSpec => []Matched
  BY <1>1, <1>2, GateInvHolds, PTL DEF GateSpec
<1>4. QED BY <1>3, MatchedCalls, PTL
=============================================================================
