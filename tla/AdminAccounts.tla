---------------------------- MODULE AdminAccounts ----------------------------
(***************************************************************************)
(* The accounts of the admin backend (FastAPI, one process): the tables     *)
(* User_master and User_AD_master, the company of each account, and the     *)
(* list of all accounts of a kind that the repositories keep in AsyncCache. *)
(*                                                                         *)
(* Handlers look accounts up in that list, and an update writes its fields  *)
(* into the list's own objects before it writes the database.  A request is *)
(* split where its coroutine waits for the database; the cache itself never *)
(* makes it wait.                                                          *)
(***************************************************************************)
EXTENDS Naturals, FiniteSets

CONSTANTS
    Requests,        \* request slots
    Local, Ad,       \* ids of credential accounts and of Microsoft accounts
    Emails, Companies, Passwords,
    Forms,           \* what the admins' requests ask for
    MaxAccounts,     \* bound: accounts at a time
    None

VARIABLES
    users,           \* the stored row of each account
    companies,       \* "live" or (softly) "deleted"
    cached,          \* the cached list of each kind, or None
    req              \* what each request is doing

avars == <<users, companies, cached, req>>

Ids == Local \cup Ad
Kinds == {"local", "ad"}
Kind(u) == IF u \in Local THEN "local" ELSE "ad"
Members(k) == IF k = "local" THEN Local ELSE Ad

ASSUME AccountsAssumption ==
    /\ Local \cap Ad = {}
    /\ None \notin Ids \cup Emails \cup Companies \cup Passwords

Row == [email: Emails, company: Companies, password: Passwords \cup {None}]
List(k) == [Members(k) -> Row \cup {None}]
ASSUME NoneIsNoRow == None \notin Row \cup List("local") \cup List("ad")

(* What a request asks for; a field that is None is left as it is.          *)
Want == [email: Emails \cup {None}, company: Companies \cup {None},
         password: Passwords \cup {None}, old: Passwords \cup {None},
         workspaces: {"none", "empty", "some"}]
ASSUME FormsAssumption == Forms \subseteq Want
Nothing == [email |-> None, company |-> None, password |-> None, old |-> None,
            workspaces |-> "none"]

(* own: the object a request works on, once it is not the cached one any    *)
(* more; after "begin" the values it has read from it.  rows: a list that   *)
(* has been selected but not cached yet.                                   *)
Progress == [pc: {"idle", "select", "fill", "begin", "execute", "forget"},
             op: {"read", "create", "update", "delete", "password", "close"},
             id: Ids \cup {None}, want: Want, own: Row \cup {None},
             rows: List("local") \cup List("ad") \cup {None}]
Idle == [pc |-> "idle", op |-> "read", id |-> None, want |-> Nothing,
         own |-> None, rows |-> None]

(* Types of the tables, of the cached lists and of the requests.            *)
AccountsTypeOK ==
    /\ users \in [Ids -> Row \cup {None}]
    /\ companies \in [Companies -> {"live", "deleted"}]
    /\ cached \in [Kinds -> List("local") \cup List("ad") \cup {None}]
    /\ \A k \in Kinds : cached[k] \in List(k) \cup {None}
    /\ req \in [Requests -> Progress]
    /\ \A r \in Requests : (req[r].pc # "idle" /\ req[r].op # "close") => req[r].id \in Ids

Stored(k) == [u \in Members(k) |-> users[u]]
Ours(r, k) == req[r].id \in Members(k) /\ req[r].op # "close"

(* An update that waits holds an object of the cached list.  When the list  *)
(* leaves the cache the object stays the request's alone: nobody writes to  *)
(* an object that is not in the cache.                                      *)
Holding(r, k) ==
    Ours(r, k) /\ req[r].pc = "begin" /\ req[r].own = None /\ cached[k] # None
Detached(k) ==
    [r \in Requests |-> IF Holding(r, k)
                        THEN [req[r] EXCEPT !.own = cached[k][req[r].id]] ELSE req[r]]

-----------------------------------------------------------------------------
(* The handlers up to their first write.                                    *)

(* The look-ups of the handlers: a create is refused by e-mail, in the case *)
(* of a Microsoft account by id, the others when the account is not listed, *)
(* and a change of password when the old one does not fit the listed hash.  *)
Refused(q, list) ==
    CASE q.op = "read" -> TRUE
      [] q.op = "create" /\ q.id \in Local ->
            \E u \in Local : list[u] # None /\ list[u].email = q.want.email
      [] q.op = "create" /\ q.id \in Ad -> list[q.id] # None
      [] q.op = "password" -> list[q.id] = None \/ list[q.id].password # q.want.old
      [] OTHER -> list[q.id] = None

Assigned(row, want) ==
    [row EXCEPT !.email = IF want.email = None THEN @ ELSE want.email,
                !.company = IF want.company = None THEN @ ELSE want.company]

(* What a request does with the list in hand, in one go: an update assigns  *)
(* to the listed object.  Microsoft accounts still have their workspaces    *)
(* looked up, in a repository that is gone: that raises after the objects   *)
(* were assigned.                                                          *)
Listed(q, list) ==
    IF q.op = "update" /\ ~Refused(q, list)
    THEN [list EXCEPT ![q.id] = Assigned(@, q.want)] ELSE list
Onwards(q, list) ==
    IF Refused(q, list) \/ (q.op = "update" /\ q.id \in Ad /\ q.want.workspaces = "some")
    THEN Idle
    ELSE [q EXCEPT !.rows = None, !.pc = IF q.op = "update" THEN "begin" ELSE "execute"]

(* A new account has an id of its own: uuid4, or the one Microsoft gave it. *)
Unused(u) ==
    /\ users[u] = None
    /\ \A r \in Requests : req[r].id # u
    /\ \A k \in Kinds : (cached[k] # None /\ u \in Members(k)) => cached[k][u] = None
Sensible(op, u, want) ==
    CASE op = "read" -> want = Nothing
      [] op = "delete" -> want = Nothing
      [] op = "create" ->
            /\ want.email # None /\ want.company # None /\ want.old = None
            /\ want.workspaces = "none" /\ (want.password = None <=> u \in Ad)
            /\ (u \in Local => Unused(u))
            /\ Cardinality({v \in Ids : users[v] # None}
                  \cup {req[r].id : r \in {s \in Requests : req[s].op = "create"}}) < MaxAccounts
      [] op = "update" ->
            /\ want.old = None
            /\ (u \in Local => want.workspaces = "none")
            /\ (u \in Ad => want.password = None)
      [] op = "password" ->
            /\ u \in Local /\ want.password # None /\ want.old # None
            /\ want.email = None /\ want.company = None /\ want.workspaces = "none"
      [] OTHER -> FALSE

(* Bound: requests on accounts of the two kinds do not overlap.  They share *)
(* no table and no cache entry.                                            *)
OneKind(k) ==
    /\ \A r \in Requests : req[r].id \in Ids => Kind(req[r].id) = k
    /\ \A j \in Kinds \ {k} : cached[j] = None

Ask(r, op, u, want) ==
    LET k == Kind(u)
        q == [Idle EXCEPT !.op = op, !.id = u, !.want = want]
    IN /\ req[r].pc = "idle" /\ Sensible(op, u, want) /\ OneKind(k)
       /\ \/ /\ cached[k] # None
             /\ cached' = [cached EXCEPT ![k] = Listed(q, @)]
             /\ req' = [req EXCEPT ![r] = Onwards(q, cached[k])]
          \/ /\ cached[k] = None
             /\ req' = [req EXCEPT ![r] = [q EXCEPT !.pc = "select"]]
             /\ UNCHANGED cached
       /\ UNCHANGED <<users, companies>>

(* getAllUsers, getAllADUsers on a miss: the rows are selected, and cached  *)
(* only when the coroutine goes on.                                         *)
Select(r) ==
    /\ req[r].pc = "select"
    /\ req' = [req EXCEPT ![r].pc = "fill", ![r].rows = Stored(Kind(req[r].id))]
    /\ UNCHANGED <<users, companies, cached>>
Fill(r) ==
    LET k == Kind(req[r].id)
    IN /\ req[r].pc = "fill"
       /\ cached' = [cached EXCEPT ![k] = Listed(req[r], req[r].rows)]
       /\ req' = [Detached(k) EXCEPT ![r] = Onwards(req[r], req[r].rows)]
       /\ UNCHANGED <<users, companies>>

-----------------------------------------------------------------------------
(* The repositories' writes.                                                *)

(* The values of an update are read from the object when the transaction    *)
(* has begun, with what others have assigned to it by then.                 *)
ObjectOf(r) == IF req[r].own # None THEN req[r].own ELSE cached[Kind(req[r].id)][req[r].id]
Begin(r) ==
    /\ req[r].pc = "begin"
    /\ req' = [req EXCEPT ![r].pc = "execute", ![r].own = ObjectOf(r)]
    /\ UNCHANGED <<users, companies, cached>>

(* uq_user_email, uq_user_ad_email.  The foreign key is satisfied by a      *)
(* company that is deleted softly.                                         *)
Storable(u, row) ==
    \A v \in Members(Kind(u)) \ {u} : users[v] # None => users[v].email # row.email
Store(u, row) ==
    /\ Storable(u, row)
    /\ users' = [users EXCEPT ![u] = row]

(* Every column is written but the password, unless a new one is given: the *)
(* object may be older than the row.                                        *)
PasswordRewritten(u, q) == IF q.want.password # None THEN q.want.password ELSE q.own.password
NewPassword(u, q) == IF q.want.password # None THEN q.want.password ELSE users[u].password

(* updatePassword does not invalidate; a Microsoft account's write is       *)
(* followed by one to User_Assignment, a table that is gone, so the request *)
(* fails before it could.                                                  *)
Invalidates(q) ==
    /\ q.op # "password"
    /\ ~(q.id \in Ad /\ (q.op = "create" \/ q.want.workspaces = "empty"))
Written(q) ==
    IF Invalidates(q) THEN [Idle EXCEPT !.pc = "forget", !.id = q.id] ELSE Idle

Insert(r) ==
    LET q == req[r]
    IN /\ q.pc = "execute" /\ q.op = "create" /\ users[q.id] = None
       /\ Store(q.id, [email |-> q.want.email, company |-> q.want.company,
                       password |-> q.want.password])
       /\ req' = [req EXCEPT ![r] = Written(req[r])]
       /\ UNCHANGED <<companies, cached>>
UpsertRow(u, row) == Store(u, row)
UpdateRow(u, row) == IF users[u] = None THEN UNCHANGED users ELSE Store(u, row)
Update(r) ==
    LET q == req[r]
    IN /\ q.pc = "execute" /\ q.op = "update"
       /\ UpdateRow(q.id, IF users[q.id] = None THEN q.own
                          ELSE [q.own EXCEPT !.password = NewPassword(q.id, q)])
       /\ req' = [req EXCEPT ![r] = Written(req[r])]
       /\ UNCHANGED <<companies, cached>>
Delete(r) ==
    /\ req[r].pc = "execute" /\ req[r].op = "delete"
    /\ users' = [users EXCEPT ![req[r].id] = None]
    /\ req' = [req EXCEPT ![r] = Written(req[r])]
    /\ UNCHANGED <<companies, cached>>
ChangePassword(r) ==
    LET q == req[r]
    IN /\ q.pc = "execute" /\ q.op = "password"
       /\ users' = [users EXCEPT ![q.id] = IF @ = None THEN None
                                           ELSE [@ EXCEPT !.password = q.want.password]]
       /\ req' = [req EXCEPT ![r] = Written(req[r])]
       /\ UNCHANGED <<companies, cached>>

Forget(r) ==
    LET k == Kind(req[r].id)
    IN /\ req[r].pc = "forget"
       /\ req' = [Detached(k) EXCEPT ![r] = Idle]
       /\ cached' = [cached EXCEPT ![k] = None]
       /\ UNCHANGED <<users, companies>>

(* A statement fails: by a constraint, or with the connection.              *)
Fail(r) ==
    /\ req[r].pc \in {"select", "begin", "execute"}
    /\ req' = [req EXCEPT ![r] = Idle]
    /\ UNCHANGED <<users, companies, cached>>

-----------------------------------------------------------------------------
(* Companies, and time.                                                     *)

(* deleteCompany looks for accounts in one transaction, Microsoft accounts  *)
(* left out, and marks the company in another.                              *)
CloseBegin(r, c) ==
    /\ req[r].pc = "idle"
    /\ ~\E u \in Local : users[u] # None /\ users[u].company = c
    /\ req' = [req EXCEPT ![r] = [Idle EXCEPT !.pc = "execute", !.op = "close",
                                              !.want = [Nothing EXCEPT !.company = c]]]
    /\ UNCHANGED <<users, companies, cached>>
Close(r) ==
    /\ req[r].pc = "execute" /\ req[r].op = "close"
    /\ companies' = [companies EXCEPT ![req[r].want.company] = "deleted"]
    /\ req' = [req EXCEPT ![r] = Idle]
    /\ UNCHANGED <<users, cached>>

(* CACHE_TTL_SECONDS have passed since the list was cached.                 *)
ExpireNever(k) == FALSE /\ UNCHANGED avars
Expire(k) ==
    /\ cached[k] # None
    /\ req' = Detached(k)
    /\ cached' = [cached EXCEPT ![k] = None]
    /\ UNCHANGED <<users, companies>>

Advance(r) ==
    \/ Select(r) \/ Fill(r) \/ Begin(r) \/ Insert(r) \/ Update(r) \/ Delete(r)
    \/ ChangePassword(r) \/ Forget(r) \/ Close(r) \/ Fail(r)
AccountsInit ==
    /\ users = [u \in Ids |-> None]
    /\ companies = [c \in Companies |-> "live"]
    /\ cached = [k \in Kinds |-> None]
    /\ req = [r \in Requests |-> Idle]
AccountsNext ==
    \/ \E r \in Requests :
          \/ Advance(r)
          \/ \E u \in Ids, want \in Forms :
                \E op \in {"read", "create", "update", "delete", "password"} :
                   Ask(r, op, u, want)
          \/ \E c \in Companies : CloseBegin(r, c)
    \/ \E k \in Kinds : Expire(k)

(* A statement ends, in one way or the other, and a cached list gets old.   *)
AccountsSpec ==
    /\ AccountsInit /\ [][AccountsNext]_avars
    /\ \A r \in Requests : WF_avars(Advance(r))
    /\ \A k \in Kinds : WF_avars(Expire(k))

-----------------------------------------------------------------------------
(* Properties.                                                              *)

(* "Left empty, the password is not changed" (UsersEdit.tsx): however old   *)
(* the object an update was made from, a password changes only by a request *)
(* that names the new one.                                                  *)
PasswordOnlyByRequest ==
    [][\A u \in Ids : users[u] # None /\ users'[u] # None
          /\ users'[u].password # users[u].password
          => \E r \in Requests : /\ req[r].pc = "execute" /\ req[r].id = u
                                 /\ req[r].want.password = users'[u].password]_avars

(* An update that crosses a deletion does not bring the account back.       *)
DeletedStaysDeleted ==
    [][\A u \in Ids : users[u] = None /\ users'[u] # None
          => \E r \in Requests : req[r].pc = "execute" /\ req[r].id = u
                                 /\ req[r].op = "create"]_avars

(* Once the admins only look, the lists come to show what is stored,        *)
(* whatever updates have failed, crossed or forgotten to invalidate.        *)
OnlyLooking ==
    \/ \E r \in Requests : \E u \in Ids : Ask(r, "read", u, Nothing)
    \/ \E r \in Requests : req[r].op = "read" /\ Advance(r)
    \/ \E k \in Kinds : Expire(k)
Agrees == \A k \in Kinds : cached[k] # None => cached[k] = Stored(k)
ListsSettle == <>[][OnlyLooking]_avars => <>[]Agrees

(* company_repository.py:111: a company with accounts is not deleted.       *)
DeletedCompanyIsEmpty ==
    [][\A c \in Companies : companies[c] = "live" /\ companies'[c] = "deleted"
          => \A u \in Ids : users[u] # None => users[u].company # c]_avars
=============================================================================
