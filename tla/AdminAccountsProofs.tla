------------------------- MODULE AdminAccountsProofs -------------------------
(***************************************************************************)
(* Proofs about AdminAccounts, for any number of requests, accounts and    *)
(* forms: what the writes of old objects may not do to the stored rows.    *)
(***************************************************************************)
EXTENDS AdminAccounts, TLAPS

(* What is known of a request in state q while c is cached: an update has   *)
(* an object to write, its own one or the cached one.                      *)
Knows(q, c) ==
    /\ q \in Progress
    /\ q.pc # "idle" /\ q.op # "close" => q.id \in Ids
    /\ q.pc \in {"select", "fill", "begin", "forget"} => q.op # "close"
    /\ q.pc = "fill" => q.rows \in List(Kind(q.id))
    /\ q.pc = "begin" => q.op = "update"
    /\ q.pc = "begin" /\ q.own = None =>
          c[Kind(q.id)] # None /\ c[Kind(q.id)][q.id] # None
    /\ q.pc = "execute" /\ q.op = "update" => q.own \in Row
    /\ q.op = "create" => q.want.email # None /\ q.want.company # None
    /\ q.op = "password" => q.want.password # None

AccountsInv ==
    /\ users \in [Ids -> Row \cup {None}]
    /\ cached = [k \in Kinds |-> cached[k]]
    /\ \A k \in Kinds : cached[k] \in List(k) \cup {None}
    /\ req = [r \in Requests |-> req[r]]
    /\ \A r \in Requests : Knows(req[r], cached)

LEMMA KindsOfIds ==
    /\ \A u \in Ids : Kind(u) \in Kinds /\ u \in Members(Kind(u))
    /\ \A u \in Ids, k \in Kinds : u \in Members(k) <=> Kind(u) = k
    /\ \A k \in Kinds : None \notin List(k)
    /\ None \notin Ids /\ None \notin Row
  BY AccountsAssumption, NoneIsNoRow DEF Ids, Kinds, Kind, Members

LEMMA NothingAsked ==
    /\ Nothing \in Want
    /\ Idle \in Progress /\ Idle.pc = "idle" /\ Idle.own = None /\ Idle.op = "read"
  BY DEF Nothing, Want, Idle, Progress

LEMMA AssignedIsARow ==
    ASSUME NEW row \in Row, NEW want \in Want
    PROVE  Assigned(row, want) \in Row
<1>1. /\ want.email \in Emails \cup {None} /\ want.company \in Companies \cup {None}
      /\ row.email \in Emails /\ row.company \in Companies /\ row.password \in Passwords \cup {None}
  BY DEF Want, Row
<1>2. \A e \in Emails, c \in Companies : [row EXCEPT !.email = e, !.company = c] \in Row
  BY DEF Row
<1>3. /\ (IF want.email = None THEN row.email ELSE want.email) \in Emails
      /\ (IF want.company = None THEN row.company ELSE want.company) \in Companies
  BY <1>1
<1>4. QED BY <1>2, <1>3 DEF Assigned

(* A request that has the list in hand: what becomes of the list, and of it. *)
LEMMA ListedIsAList ==
    ASSUME NEW q \in Progress, q.id \in Ids, NEW list \in List(Kind(q.id))
    PROVE  /\ Listed(q, list) \in List(Kind(q.id))
           /\ \A u \in Members(Kind(q.id)) : list[u] # None => Listed(q, list)[u] # None
<1>1. CASE q.op = "update" /\ ~Refused(q, list)
  <2>1. list[q.id] # None
    BY <1>1 DEF Refused
  <2>2. list[q.id] \in Row /\ q.want \in Want
    BY <2>1, KindsOfIds DEF List, Progress
  <2>3. Listed(q, list) = [list EXCEPT ![q.id] = Assigned(list[q.id], q.want)]
    BY <1>1 DEF Listed
  <2>4. Assigned(list[q.id], q.want) \in Row
    BY <2>2, AssignedIsARow
  <2>5. QED BY <2>3, <2>4, KindsOfIds DEF List
<1>2. CASE ~(q.op = "update" /\ ~Refused(q, list))
  BY <1>2 DEF Listed
<1>3. QED BY <1>1, <1>2

LEMMA OnwardsKnows ==
    ASSUME NEW q \in Progress, q.id \in Ids, q.op # "close",
           q.op = "create" => q.want.email # None /\ q.want.company # None,
           q.op = "password" => q.want.password # None,
           NEW list \in List(Kind(q.id)), NEW c, c[Kind(q.id)] = Listed(q, list)
    PROVE  Knows(Onwards(q, list), c)
<1>1. CASE Onwards(q, list) = Idle
  BY <1>1, NothingAsked DEF Knows
<1>2. CASE Onwards(q, list) # Idle
  <2> DEFINE o == [q EXCEPT !.rows = None, !.pc = IF q.op = "update" THEN "begin" ELSE "execute"]
  <2>1. ~Refused(q, list) /\ Onwards(q, list) = o
    BY <1>2 DEF Onwards
  <2>2. /\ o \in Progress /\ o.id = q.id /\ o.op = q.op /\ o.own = q.own /\ o.want = q.want
        /\ o.pc = IF q.op = "update" THEN "begin" ELSE "execute"
    BY DEF Progress
  <2>3. q.op = "update" => /\ Listed(q, list) # None
                           /\ Listed(q, list)[q.id] # None
    <3>1. q.op = "update" => list[q.id] # None
      BY <2>1 DEF Refused
    <3>2. QED BY <3>1, ListedIsAList, KindsOfIds
  <2> HIDE DEF o
  <2>4. QED BY <2>1, <2>2, <2>3 DEF Knows
<1>3. QED BY <1>1, <1>2

(* A list that leaves the cache leaves its objects to those who hold them. *)
LEMMA DetachedKnows ==
    ASSUME AccountsInv, NEW k \in Kinds, NEW c,
           \A j \in Kinds \ {k} : c[j] = cached[j]
    PROVE  /\ Detached(k) = [r \in Requests |-> Detached(k)[r]]
           /\ \A r \in Requests : Knows(Detached(k)[r], c)
<1>1. ASSUME NEW r \in Requests PROVE Knows(Detached(k)[r], c)
  <2>1. Knows(req[r], cached) /\ req[r] \in Progress
    BY DEF AccountsInv, Knows
  <2>2. CASE Holding(r, k)
    <3>1. Detached(k)[r] = [req[r] EXCEPT !.own = cached[k][req[r].id]]
      BY <2>2 DEF Detached
    <3>2. req[r].id \in Ids /\ Kind(req[r].id) = k /\ cached[k] # None /\ req[r].pc = "begin"
          /\ req[r].own = None
      BY <2>1, <2>2, KindsOfIds DEF Holding, Ours, Knows
    <3>3. cached[k][req[r].id] \in Row
      BY <2>1, <3>2, KindsOfIds DEF Knows, AccountsInv, List
    <3>4. /\ Detached(k)[r] \in Progress /\ Detached(k)[r].pc = "begin"
          /\ Detached(k)[r].id = req[r].id /\ Detached(k)[r].op = req[r].op
          /\ Detached(k)[r].own # None /\ Detached(k)[r].want = req[r].want
      BY <2>1, <3>1, <3>2, <3>3, KindsOfIds DEF Progress
    <3>5. QED BY <2>1, <3>2, <3>4 DEF Knows
  <2>3. CASE ~Holding(r, k)
    <3>1. Detached(k)[r] = req[r]
      BY <2>3 DEF Detached
    <3>2. req[r].pc = "begin" /\ req[r].own = None => Kind(req[r].id) # k
      BY <2>1, <2>3, KindsOfIds DEF Holding, Ours, Knows
    <3>3. req[r].pc = "begin" /\ req[r].own = None => Kind(req[r].id) \in Kinds
      BY <2>1, KindsOfIds DEF Knows
    <3>4. QED BY <2>1, <3>1, <3>2, <3>3 DEF Knows
  <2>4. QED BY <2>2, <2>3
<1>2. QED BY <1>1 DEF Detached

-----------------------------------------------------------------------------
(* The invariant: to begin with, and after each action.                     *)

LEMMA AccountsInvInit == AccountsInit => AccountsInv
  BY NothingAsked DEF AccountsInit, AccountsInv, Knows

(* One request gets another state, and the rows and the lists stay. *)
LEMMA OneRequestMoves ==
    ASSUME AccountsInv, NEW r \in Requests, NEW q, Knows(q, cached),
           req' = [req EXCEPT ![r] = q], UNCHANGED cached,
           users' \in [Ids -> Row \cup {None}]
    PROVE  AccountsInv'
  BY DEF AccountsInv

LEMMA AskKeeps ==
    ASSUME AccountsInv, NEW r \in Requests, NEW u \in Ids, NEW want \in Forms,
           NEW op \in {"read", "create", "update", "delete", "password"},
           Ask(r, op, u, want)
    PROVE  AccountsInv'
<1> DEFINE k == Kind(u)
           q == [Idle EXCEPT !.op = op, !.id = u, !.want = want]
<1>1. /\ q \in Progress /\ q.id = u /\ q.op = op /\ q.pc = "idle" /\ k \in Kinds
      /\ q.want = want
  BY FormsAssumption, NothingAsked, KindsOfIds DEF Progress
<1>5. /\ op = "create" => want.email # None /\ want.company # None
      /\ op = "password" => want.password # None
  BY DEF Ask, Sensible
<1>2. CASE /\ cached[k] # None /\ cached' = [cached EXCEPT ![k] = Listed(q, @)]
           /\ req' = [req EXCEPT ![r] = Onwards(q, cached[k])] /\ UNCHANGED users
  <2>1. cached[k] \in List(k)
    BY <1>1, <1>2 DEF AccountsInv
  <2>2. /\ cached'[k] = Listed(q, cached[k]) /\ \A j \in Kinds \ {k} : cached'[j] = cached[j]
        /\ cached' = [j \in Kinds |-> cached'[j]]
    BY <1>1, <1>2 DEF AccountsInv
  <2>3. /\ Listed(q, cached[k]) \in List(k)
        /\ \A v \in Members(k) : cached[k][v] # None => Listed(q, cached[k])[v] # None
    BY <1>1, <2>1, ListedIsAList
  <2>4. Knows(Onwards(q, cached[k]), cached')
    <3>1. /\ q.op = "create" => q.want.email # None /\ q.want.company # None
          /\ q.op = "password" => q.want.password # None
      BY <1>1, <1>5
    <3>2. q.id \in Ids /\ q.op # "close" /\ Kind(q.id) = k
      BY <1>1
    <3> HIDE DEF q, k
    <3>3. QED BY <1>1, <2>1, <2>2, <3>1, <3>2, OnwardsKnows
  <2>5. \A x \in Requests \ {r} : req'[x] = req[x] /\ Knows(req'[x], cached')
    <3> SUFFICES ASSUME NEW x \in Requests \ {r}
                 PROVE  req'[x] = req[x] /\ Knows(req'[x], cached')
      OBVIOUS
    <3>1. req'[x] = req[x] /\ Knows(req[x], cached)
      BY <1>2 DEF AccountsInv
    <3>2. req[x].pc = "begin" => /\ Kind(req[x].id) \in Kinds
                                /\ req[x].id \in Members(Kind(req[x].id))
      BY <3>1, KindsOfIds DEF Knows
    <3>3. Listed(q, cached[k]) # None
      BY <1>1, <2>3, KindsOfIds
    <3>4. QED BY <2>2, <2>3, <3>1, <3>2, <3>3 DEF Knows
  <2>6. req' = [x \in Requests |-> req'[x]] /\ req'[r] = Onwards(q, cached[k])
    BY <1>2 DEF AccountsInv
  <2>7. QED BY <1>2, <2>2, <2>3, <2>4, <2>5, <2>6 DEF AccountsInv
<1>3. CASE req' = [req EXCEPT ![r] = [q EXCEPT !.pc = "select"]] /\ UNCHANGED <<users, cached>>
  <2>1. /\ [q EXCEPT !.pc = "select"] \in Progress /\ [q EXCEPT !.pc = "select"].pc = "select"
        /\ [q EXCEPT !.pc = "select"].id = u /\ [q EXCEPT !.pc = "select"].op = op
        /\ [q EXCEPT !.pc = "select"].want = want
    BY <1>1 DEF Progress
  <2>2. Knows([q EXCEPT !.pc = "select"], cached)
    BY <1>5, <2>1 DEF Knows
  <2>3. QED BY <1>3, <2>2, OneRequestMoves DEF AccountsInv
<1>4. QED BY <1>2, <1>3 DEF Ask

LEMMA SelectKeeps ==
    ASSUME AccountsInv, NEW r \in Requests, Select(r)
    PROVE  AccountsInv'
<1> DEFINE q == [req[r] EXCEPT !.pc = "fill", !.rows = Stored(Kind(req[r].id))]
<1>1. /\ Knows(req[r], cached) /\ req[r] \in Progress /\ req[r].op # "close" /\ req[r].id \in Ids
      /\ UNCHANGED <<users, companies, cached>>
  BY DEF AccountsInv, Select, Knows
<1>2. req' = [req EXCEPT ![r] = q]
  BY DEF Select, AccountsInv
<1>3. Stored(Kind(req[r].id)) \in List(Kind(req[r].id))
  BY <1>1 DEF Stored, List, Members, Ids, AccountsInv
<1>4. List(Kind(req[r].id)) \subseteq List("local") \cup List("ad")
  BY DEF Kind
<1>5. q \in Progress /\ q.pc = "fill" /\ q.id = req[r].id /\ q.op = req[r].op
      /\ q.rows = Stored(Kind(req[r].id)) /\ q.want = req[r].want
  BY <1>1, <1>3, <1>4 DEF Progress
<1> HIDE DEF q
<1>6. Knows(q, cached)
  BY <1>1, <1>3, <1>5 DEF Knows
<1>7. QED BY <1>1, <1>2, <1>6, OneRequestMoves DEF AccountsInv

LEMMA FillKeeps ==
    ASSUME AccountsInv, NEW r \in Requests, Fill(r)
    PROVE  AccountsInv'
<1> DEFINE k == Kind(req[r].id)
           rows == req[r].rows
<1>1. /\ req[r] \in Progress /\ req[r].op # "close" /\ req[r].id \in Ids /\ rows \in List(k)
      /\ k \in Kinds /\ Knows(req[r], cached)
  BY KindsOfIds DEF AccountsInv, Fill, Knows
<1>2. /\ cached' = [cached EXCEPT ![k] = Listed(req[r], rows)]
      /\ req' = [Detached(k) EXCEPT ![r] = Onwards(req[r], rows)] /\ UNCHANGED users
  BY DEF Fill
<1>3. /\ cached'[k] = Listed(req[r], rows) /\ \A j \in Kinds \ {k} : cached'[j] = cached[j]
      /\ cached' = [j \in Kinds |-> cached'[j]]
  BY <1>1, <1>2 DEF AccountsInv
<1>4. Listed(req[r], rows) \in List(k)
  BY <1>1, ListedIsAList
<1>5. Knows(Onwards(req[r], rows), cached')
  BY <1>1, <1>3, OnwardsKnows DEF Knows
<1>6. /\ Detached(k) = [x \in Requests |-> Detached(k)[x]]
      /\ \A x \in Requests : Knows(Detached(k)[x], cached')
  BY <1>1, <1>3, DetachedKnows
<1> HIDE DEF rows, k
<1>7. /\ req' = [x \in Requests |-> req'[x]] /\ req'[r] = Onwards(req[r], rows)
      /\ \A x \in Requests \ {r} : req'[x] = Detached(k)[x]
  BY <1>2, <1>6
<1>8. \A x \in Requests : Knows(req'[x], cached')
  BY <1>5, <1>6, <1>7
<1>9. \A j \in Kinds : cached'[j] \in List(j) \cup {None}
  BY <1>3, <1>4 DEF AccountsInv
<1>10. QED BY <1>2, <1>3, <1>7, <1>8, <1>9 DEF AccountsInv

LEMMA BeginKeeps ==
    ASSUME AccountsInv, NEW r \in Requests, Begin(r)
    PROVE  AccountsInv'
<1> DEFINE q == [req[r] EXCEPT !.pc = "execute", !.own = ObjectOf(r)]
<1>1. /\ Knows(req[r], cached) /\ req[r] \in Progress /\ req[r].pc = "begin"
      /\ req[r].op = "update" /\ req[r].id \in Ids /\ UNCHANGED <<users, companies, cached>>
  BY DEF AccountsInv, Begin, Knows
<1>2. req' = [req EXCEPT ![r] = q]
  BY DEF Begin, AccountsInv
<1>3. ObjectOf(r) \in Row
  <2>1. CASE req[r].own # None
    BY <1>1, <2>1 DEF ObjectOf, Progress
  <2>2. CASE req[r].own = None
    BY <1>1, <2>2, KindsOfIds DEF ObjectOf, Knows, AccountsInv, List
  <2>3. QED BY <2>1, <2>2
<1>4. q \in Progress /\ q.pc = "execute" /\ q.id = req[r].id /\ q.own = ObjectOf(r)
      /\ q.op = req[r].op
  BY <1>1, <1>3 DEF Progress
<1> HIDE DEF q
<1>5. Knows(q, cached)
  BY <1>1, <1>3, <1>4 DEF Knows
<1>6. QED BY <1>1, <1>2, <1>5, OneRequestMoves DEF AccountsInv

(* After its write a request is idle, or forgets the cached list. *)
LEMMA WrittenKnows ==
    ASSUME AccountsInv, NEW r \in Requests, req[r].pc = "execute", req[r].op # "close"
    PROVE  Knows(Written(req[r]), cached) /\ Knows(Idle, cached)
<1>1. req[r].id \in Ids
  BY DEF AccountsInv, Knows
<1>2. /\ [Idle EXCEPT !.pc = "forget", !.id = req[r].id] \in Progress
      /\ [Idle EXCEPT !.pc = "forget", !.id = req[r].id].pc = "forget"
      /\ [Idle EXCEPT !.pc = "forget", !.id = req[r].id].id = req[r].id
      /\ [Idle EXCEPT !.pc = "forget", !.id = req[r].id].op = "read"
  BY <1>1, NothingAsked DEF Idle, Progress
<1>3. QED BY <1>1, <1>2, NothingAsked DEF Written, Knows

(* What a write makes of the stored rows: rows, the same but for the        *)
(* account of the request.                                                 *)
LEMMA RowsWritten ==
    ASSUME AccountsInv, NEW r \in Requests,
           Insert(r) \/ Update(r) \/ Delete(r) \/ ChangePassword(r)
    PROVE  /\ users' \in [Ids -> Row \cup {None}]
           /\ req[r].pc = "execute" /\ req[r].op # "close" /\ req[r].id \in Ids
           /\ \A u \in Ids \ {req[r].id} : users'[u] = users[u]
           /\ users[req[r].id] = None /\ users'[req[r].id] # None => req[r].op = "create"
           /\ users[req[r].id] # None /\ users'[req[r].id] # None =>
                 users'[req[r].id].password \in {users[req[r].id].password, req[r].want.password}
           /\ req' = [req EXCEPT ![r] = Written(req[r])] /\ UNCHANGED cached
<1> DEFINE id == req[r].id
<1>1. /\ req[r].pc = "execute" /\ req[r].op # "close" /\ id \in Ids /\ req[r].want \in Want
      /\ users \in [Ids -> Row \cup {None}] /\ Knows(req[r], cached)
      /\ req' = [req EXCEPT ![r] = Written(req[r])] /\ UNCHANGED cached
  BY DEF AccountsInv, Insert, Update, Delete, ChangePassword, Knows, Progress
<1>2. CASE Insert(r)
  <2> DEFINE row == [email |-> req[r].want.email, company |-> req[r].want.company,
                     password |-> req[r].want.password]
  <2>1. users' = [users EXCEPT ![id] = row] /\ users[id] = None /\ req[r].op = "create"
    BY <1>2 DEF Insert, Store
  <2>2. /\ req[r].want.email \in Emails /\ req[r].want.company \in Companies
        /\ req[r].want.password \in Passwords \cup {None}
    BY <1>1, <2>1 DEF Knows, Want
  <2>3. row \in Row
    BY <2>2 DEF Row
  <2> HIDE DEF row
  <2>4. QED BY <1>1, <2>1, <2>3
<1>3. CASE Update(r)
  <2> DEFINE row == [req[r].own EXCEPT !.password = NewPassword(id, req[r])]
  <2>1. CASE users[id] = None
    BY <1>1, <1>3, <2>1 DEF Update, UpdateRow
  <2>2. CASE users[id] # None
    <3>1. users' = [users EXCEPT ![id] = row] /\ req[r].own \in Row /\ users[id] \in Row
      BY <1>1, <1>3, <2>2 DEF Update, UpdateRow, Store, Knows
    <3>2. /\ NewPassword(id, req[r]) \in Passwords \cup {None}
          /\ NewPassword(id, req[r]) \in {users[id].password, req[r].want.password}
      BY <1>1, <3>1 DEF NewPassword, Want, Row
    <3>3. row \in Row /\ row.password = NewPassword(id, req[r])
      BY <3>1, <3>2 DEF Row
    <3> HIDE DEF row
    <3>4. QED BY <1>1, <2>2, <3>1, <3>2, <3>3
  <2>3. QED BY <2>1, <2>2
<1>4. CASE Delete(r)
  BY <1>1, <1>4 DEF Delete
<1>5. CASE ChangePassword(r)
  <2> DEFINE row == [users[id] EXCEPT !.password = req[r].want.password]
  <2>1. users' = [users EXCEPT ![id] = IF users[id] = None THEN None ELSE row]
    BY <1>1, <1>5 DEF ChangePassword
  <2>2. CASE users[id] = None
    BY <1>1, <2>1, <2>2
  <2>3. CASE users[id] # None
    <3>1. row \in Row /\ row.password = req[r].want.password
      BY <1>1, <2>3 DEF Row, Want
    <3> HIDE DEF row
    <3>2. QED BY <1>1, <2>1, <2>3, <3>1
  <2>4. QED BY <2>2, <2>3
<1>6. QED BY <1>2, <1>3, <1>4, <1>5

LEMMA WriteKeeps ==
    ASSUME AccountsInv, NEW r \in Requests,
           Insert(r) \/ Update(r) \/ Delete(r) \/ ChangePassword(r)
    PROVE  AccountsInv'
  BY RowsWritten, WrittenKnows, OneRequestMoves

LEMMA ForgetKeeps ==
    ASSUME AccountsInv, NEW r \in Requests, Forget(r)
    PROVE  AccountsInv'
<1> DEFINE k == Kind(req[r].id)
<1>1. k \in Kinds
  BY KindsOfIds DEF Forget, AccountsInv, Knows
<1>2. /\ cached' = [cached EXCEPT ![k] = None] /\ req' = [Detached(k) EXCEPT ![r] = Idle]
      /\ UNCHANGED users
  BY DEF Forget
<1> HIDE DEF k
<1>3. \A j \in Kinds \ {k} : cached'[j] = cached[j]
  BY <1>1, <1>2 DEF AccountsInv
<1>4. /\ Detached(k) = [x \in Requests |-> Detached(k)[x]]
      /\ \A x \in Requests : Knows(Detached(k)[x], cached')
  BY <1>1, <1>3, DetachedKnows
<1>5. Knows(Idle, cached')
  BY NothingAsked DEF Knows
<1>6. QED BY <1>1, <1>2, <1>4, <1>5 DEF AccountsInv

LEMMA ExpireKeeps ==
    ASSUME AccountsInv, NEW k \in Kinds, Expire(k)
    PROVE  AccountsInv'
<1>1. /\ cached' = [cached EXCEPT ![k] = None] /\ req' = Detached(k) /\ UNCHANGED users
  BY DEF Expire
<1>2. \A j \in Kinds \ {k} : cached'[j] = cached[j]
  BY <1>1 DEF AccountsInv
<1>3. /\ Detached(k) = [x \in Requests |-> Detached(k)[x]]
      /\ \A x \in Requests : Knows(Detached(k)[x], cached')
  BY <1>2, DetachedKnows
<1>4. QED BY <1>1, <1>3 DEF AccountsInv

LEMMA IdleAgainKeeps ==
    ASSUME AccountsInv, NEW r \in Requests, Fail(r) \/ Close(r)
    PROVE  AccountsInv'
<1>1. Knows(Idle, cached)
  BY NothingAsked DEF Knows
<1>2. req' = [req EXCEPT ![r] = Idle] /\ UNCHANGED <<users, cached>>
  BY DEF Fail, Close
<1>3. QED BY <1>1, <1>2, OneRequestMoves DEF AccountsInv

LEMMA CloseBeginKeeps ==
    ASSUME AccountsInv, NEW r \in Requests, NEW c \in Companies, CloseBegin(r, c)
    PROVE  AccountsInv'
<1> DEFINE w == [Nothing EXCEPT !.company = c]
           q == [Idle EXCEPT !.pc = "execute", !.op = "close", !.want = w]
<1>1. w \in Want
  BY NothingAsked DEF Want
<1>2. q \in Progress /\ q.pc = "execute" /\ q.op = "close"
  BY <1>1, NothingAsked DEF Progress
<1>3. req' = [req EXCEPT ![r] = q] /\ UNCHANGED <<users, cached>>
  BY DEF CloseBegin
<1> HIDE DEF q
<1>4. Knows(q, cached)
  BY <1>2 DEF Knows
<1>5. QED BY <1>3, <1>4, OneRequestMoves DEF AccountsInv

LEMMA AccountsStep == AccountsInv /\ [AccountsNext]_avars => AccountsInv'
<1> SUFFICES ASSUME AccountsInv, [AccountsNext]_avars PROVE AccountsInv'
  OBVIOUS
<1>1. ASSUME NEW r \in Requests, Advance(r) PROVE AccountsInv'
  BY <1>1, SelectKeeps, FillKeeps, BeginKeeps, WriteKeeps, ForgetKeeps, IdleAgainKeeps DEF Advance
<1>2. CASE UNCHANGED avars
  BY <1>2 DEF avars, AccountsInv
<1>3. QED
  BY <1>1, <1>2, AskKeeps, CloseBeginKeeps, ExpireKeeps DEF AccountsNext

LEMMA AccountsInvariant == AccountsSpec => []AccountsInv
  BY AccountsInvInit, AccountsStep, PTL DEF AccountsSpec

(* Steps other than the four writes leave the rows as they are. *)
LEMMA OnlyWritesWrite ==
    ASSUME AccountsNext, users' # users
    PROVE  \E r \in Requests : Insert(r) \/ Update(r) \/ Delete(r) \/ ChangePassword(r)
<1>1. \A r \in Requests : Select(r) \/ Fill(r) \/ Begin(r) \/ Forget(r) \/ Close(r) \/ Fail(r)
                            => UNCHANGED users
  BY DEF Select, Fill, Begin, Forget, Close, Fail
<1>2. \A k \in Kinds : Expire(k) => UNCHANGED users
  BY DEF Expire
<1>3. CASE \E r \in Requests : Advance(r)
  BY <1>1, <1>3 DEF Advance
<1>4. ~\E r \in Requests : \E u \in Ids, want \in Forms :
         \E op \in {"read", "create", "update", "delete", "password"} : Ask(r, op, u, want)
  BY DEF Ask
<1>5. ~\E r \in Requests : \E c \in Companies : CloseBegin(r, c)
  BY DEF CloseBegin
<1>6. QED BY <1>2, <1>3, <1>4, <1>5 DEF AccountsNext

-----------------------------------------------------------------------------
(* However old the object an update was made from, and whatever others have *)
(* assigned to it: a stored password changes only to the one that a request *)
(* on that account names.                                                  *)
THEOREM PasswordsAreAskedFor == AccountsSpec => PasswordOnlyByRequest
<1> DEFINE Asked == \A u \in Ids : users[u] # None /\ users'[u] # None
                       /\ users'[u].password # users[u].password
                       => \E r \in Requests : /\ req[r].pc = "execute" /\ req[r].id = u
                                              /\ req[r].want.password = users'[u].password
<1>1. AccountsInv /\ [AccountsNext]_avars => [Asked]_avars
  <2> SUFFICES ASSUME AccountsInv, AccountsNext PROVE Asked
    OBVIOUS
  <2> SUFFICES ASSUME users' # users PROVE Asked
    OBVIOUS
  <2>1. PICK r \in Requests : Insert(r) \/ Update(r) \/ Delete(r) \/ ChangePassword(r)
    BY OnlyWritesWrite
  <2>2. QED BY <2>1, RowsWritten
<1>2. QED BY <1>1, AccountsInvariant, PTL DEF AccountsSpec, PasswordOnlyByRequest

(* A row comes back only by a request that creates the account: an update   *)
(* or a change of password that crosses a deletion writes nothing.          *)
THEOREM DeletionsHold == AccountsSpec => DeletedStaysDeleted
<1> DEFINE Created == \A u \in Ids : users[u] = None /\ users'[u] # None
                       => \E r \in Requests : req[r].pc = "execute" /\ req[r].id = u
                                              /\ req[r].op = "create"
<1>1. AccountsInv /\ [AccountsNext]_avars => [Created]_avars
  <2> SUFFICES ASSUME AccountsInv, AccountsNext PROVE Created
    OBVIOUS
  <2> SUFFICES ASSUME users' # users PROVE Created
    OBVIOUS
  <2>1. PICK r \in Requests : Insert(r) \/ Update(r) \/ Delete(r) \/ ChangePassword(r)
    BY OnlyWritesWrite
  <2>2. QED BY <2>1, RowsWritten
<1>2. QED BY <1>1, AccountsInvariant, PTL DEF AccountsSpec, DeletedStaysDeleted

=============================================================================
