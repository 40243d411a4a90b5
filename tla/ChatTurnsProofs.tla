--------------------------- MODULE ChatTurnsProofs ---------------------------
(***************************************************************************)
(* Proofs about ChatTurns, for any number of questions and widgets: which  *)
(* message is being answered, and what a proposal does to the canvas.      *)
(***************************************************************************)
EXTENDS ChatTurns, FiniteSetTheorems, SequenceTheorems, TLAPS

States == {"pending", "applied", "discarded"}
Types == {"patch_ready", "rejected", "error", "done"}
Stages == {"none", "intent", "query", "topic", "build", "patch", "review",
           "chat", "live", "last", "closed"}

(* What names only widgets that were given an id so far, the set M.         *)
Boards(M) == {c \in Canvas : On(c) \subseteq M}
Props(M) == {p \in Proposal : p.names \subseteq M} \cup {None}
Messages(M) == [streaming: BOOLEAN, failed: BOOLEAN, proposal: Props(M), status: States]
Events(M) == [type: Types, proposal: Props(M)]

(* A job knows its widget, and its proposal fits its snapshot.              *)
Fits(p, c) ==
    IF p.kind = "add"
    THEN p.names \cap On(c) = {} /\ Cardinality(p.names \cup On(c)) <= MaxWidgets
    ELSE p.names \subseteq On(c)
Aims(j) ==
    /\ j.at \in {"query", "topic", "build", "patch"} /\ j.kind # "add" =>
          j.target \in On(j.snapshot)
    /\ j.at = "patch" => j.kind # "add"
    /\ j.at = "review" => j.proposal # None
    /\ j.proposal # None => Fits(j.proposal, j.snapshot)
Work(M) == [at: Stages, kind: Kinds, snapshot: Boards(M), target: Widgets \cup {None},
            proposal: Props(M)]
Jobs(M) == {j \in Work(M) : Aims(j)}

(* Whoever is being answered is the current question, and an event is still *)
(* to come for it: from the backend, or on the wire.                        *)
Streams(t) ==
    t \in chat /\ msg[t].streaming =>
        /\ loading /\ t = Current
        /\ job[t].at = "closed" => wire[t] # <<>>

ChatInv ==
    /\ minted \subseteq Widgets /\ canvas \in Boards(minted)
    /\ past \in Seq(Boards(minted)) /\ Len(past) <= MaxHistory
    /\ chat \subseteq Turns /\ asked \in Seq(Turns) /\ loading \in BOOLEAN
    /\ msg \in [Turns -> Messages(minted)]
    /\ job \in [Turns -> Jobs(minted)]
    /\ wire \in [Turns -> Seq(Events(minted))]
    /\ \A t \in Turns : Streams(t)

LEMMA Names ==
    /\ "pending" \in States /\ "applied" \in States /\ "discarded" \in States
    /\ "patch_ready" \in Types /\ "rejected" \in Types /\ "error" \in Types /\ "done" \in Types
    /\ "none" \in Stages /\ "intent" \in Stages /\ "query" \in Stages /\ "topic" \in Stages
    /\ "build" \in Stages /\ "patch" \in Stages /\ "review" \in Stages /\ "chat" \in Stages
    /\ "live" \in Stages /\ "last" \in Stages /\ "closed" \in Stages
    /\ "add" \in Kinds
  BY DEF States, Types, Stages, Kinds

LEMMA NothingProposed == \A M : None \in Props(M)
  BY DEF Props

(* More ids only make more of everything known.                             *)
LEMMA Grows ==
    ASSUME NEW M, NEW N, M \subseteq N
    PROVE  /\ Boards(M) \subseteq Boards(N) /\ Props(M) \subseteq Props(N)
           /\ Messages(M) \subseteq Messages(N) /\ Events(M) \subseteq Events(N)
           /\ Jobs(M) \subseteq Jobs(N)
           /\ Seq(Boards(M)) \subseteq Seq(Boards(N)) /\ Seq(Events(M)) \subseteq Seq(Events(N))
<1>1. Boards(M) \subseteq Boards(N) /\ Props(M) \subseteq Props(N)
  BY DEF Boards, Props
<1>2. Messages(M) \subseteq Messages(N)
  BY <1>1 DEF Messages
<1>3. Events(M) \subseteq Events(N)
  BY <1>1 DEF Events
<1>4. Work(M) \subseteq Work(N)
  BY <1>1 DEF Work
<1>5. Jobs(M) \subseteq Jobs(N)
  BY <1>4 DEF Jobs
<1>6. Seq(Boards(M)) \subseteq Seq(Boards(N)) /\ Seq(Events(M)) \subseteq Seq(Events(N))
  BY <1>1, <1>3, SeqMonotonic
<1>7. QED BY <1>1, <1>2, <1>3, <1>5, <1>6

(* The canvas and its history.                                              *)
LEMMA EmptyBoard == \A M : Blank \in Boards(M)
  BY DEF Blank, Boards, Canvas, On

LEMMA Trimmed ==
    ASSUME NEW S, NEW q \in Seq(S), Len(q) <= MaxHistory, NEW x \in S
    PROVE  LastFew(Append(q, x)) \in Seq(S) /\ Len(LastFew(Append(q, x))) <= MaxHistory
<1>1. MaxHistory \in Nat /\ MaxHistory >= 1
  BY ChatAssumption
<1>2. Append(q, x) \in Seq(S) /\ Len(Append(q, x)) = Len(q) + 1 /\ Len(q) \in Nat
  OBVIOUS
<1>3. CASE Len(Append(q, x)) > MaxHistory
  <2>1. LastFew(Append(q, x)) = Tail(Append(q, x))
    BY <1>3 DEF LastFew
  <2>2. Tail(Append(q, x)) \in Seq(S) /\ Len(Tail(Append(q, x))) = Len(q)
    BY <1>2
  <2>3. QED BY <2>1, <2>2
<1>4. CASE ~(Len(Append(q, x)) > MaxHistory)
  BY <1>1, <1>2, <1>4 DEF LastFew
<1>5. QED BY <1>3, <1>4

LEMMA UndoneKeeps ==
    ASSUME ChatInv, Undone
    PROVE  /\ canvas' \in Boards(minted) /\ past' \in Seq(Boards(minted))
           /\ Len(past') <= MaxHistory
<1>1. MaxHistory \in Nat /\ canvas \in Boards(minted)
      /\ past \in Seq(Boards(minted)) /\ Len(past) <= MaxHistory
  BY ChatAssumption DEF ChatInv
<1>2. CASE past = <<>>
  BY <1>1, <1>2 DEF Undone, board
<1>3. CASE past # <<>>
  <2>1. canvas' = past[Len(past)] /\ past' = SubSeq(past, 1, Len(past) - 1)
    BY <1>3 DEF Undone, Last, Front
  <2>2. Len(past) \in Nat /\ Len(past) # 0
    BY <1>1, <1>3
  <2>3. past[Len(past)] \in Boards(minted)
    BY <1>1, <2>2, ElementOfSeq
  <2>4. SubSeq(past, 1, Len(past) - 1) \in Seq(Boards(minted))
        /\ Len(SubSeq(past, 1, Len(past) - 1)) = Len(past) - 1
    <3> DEFINE n == Len(past) - 1
    <3>1. n \in Int /\ 1 \in Int /\ n >= 0
      BY <2>2
    <3>2. \A i \in 1 .. n : past[i] \in Boards(minted)
      BY <1>1, <2>2, ElementOfSeq
    <3> HIDE DEF n
    <3>3. SubSeq(past, 1, n) \in Seq(Boards(minted)) /\ Len(SubSeq(past, 1, n)) = n
      BY <3>1, <3>2, SubSeqProperties
    <3>4. QED BY <3>3 DEF n
  <2>5. QED BY <1>1, <2>1, <2>2, <2>3, <2>4
<1>4. QED BY <1>2, <1>3

(* Only a pending proposal is put on the canvas.                            *)
LEMMA PatchedKeeps ==
    ASSUME NEW M \in SUBSET Widgets, NEW c \in Boards(M), NEW p \in Props(M), p # None
    PROVE  /\ Patched(c, p) \in Boards(M)
           /\ \A w \in Widgets : Patched(c, p)[w] # c[w] =>
                 w \in p.names /\ (c[w] = None => p.kind = "add")
<1>1. p \in Proposal /\ p.names \subseteq M /\ p.content \in Contents /\ p.kind \in Kinds
  BY DEF Props, Proposal
<1>2. c \in [Widgets -> Contents \cup {None}] /\ \A w \in Widgets : c[w] # None => w \in M
  BY DEF Boards, Canvas, On
<1>3. ASSUME NEW w \in Widgets
      PROVE  /\ Patched(c, p)[w] \in Contents \cup {None}
             /\ Patched(c, p)[w] # None => w \in M
             /\ Patched(c, p)[w] # c[w] => w \in p.names /\ (c[w] = None => p.kind = "add")
  <2>1. CASE w \notin p.names
    <3>1. Patched(c, p)[w] = c[w]
      BY <2>1 DEF Patched
    <3>2. QED BY <1>2, <3>1
  <2>2. CASE w \in p.names
    <3>1. /\ p.kind = "add" => Patched(c, p)[w] = p.content
          /\ p.kind = "update" => Patched(c, p)[w] = IF c[w] = None THEN None ELSE p.content
          /\ p.kind = "remove" => Patched(c, p)[w] = None
          /\ p.kind = "move" => Patched(c, p)[w] = c[w]
      BY <2>2 DEF Patched
    <3>2. QED BY <1>1, <1>2, <2>2, <3>1 DEF Kinds
  <2>3. QED BY <2>1, <2>2
<1>4. Patched(c, p) = [w \in Widgets |-> Patched(c, p)[w]]
  <2> DEFINE X(w) == IF w \notin p.names THEN c[w]
                     ELSE CASE p.kind = "add" -> p.content
                            [] p.kind = "update" -> IF c[w] = None THEN None ELSE p.content
                            [] p.kind = "remove" -> None
                            [] p.kind = "move" -> c[w]
  <2>1. Patched(c, p) = [w \in Widgets |-> X(w)]
    BY Zenon DEF Patched
  <2> HIDE DEF X
  <2>2. QED BY <2>1
<1>5. QED BY <1>3, <1>4 DEF Boards, Canvas, On

(* The messages of the panel.                                              *)
LEMMA NewMessages ==
    ASSUME NEW M
    PROVE  /\ Unseen \in Messages(M) /\ ~Unseen.streaming /\ Unseen.status = "pending"
           /\ NewMessage \in Messages(M) /\ NewMessage.status = "pending"
  BY Names, NothingProposed DEF Unseen, NewMessage, Messages

LEMMA StatusChanges ==
    ASSUME NEW M, NEW m \in Messages(M), NEW s \in States
    PROVE  /\ [m EXCEPT !.status = s] \in Messages(M)
           /\ [m EXCEPT !.status = s].streaming <=> m.streaming
           /\ [m EXCEPT !.status = s].status = s
  BY DEF Messages

LEMMA MessageEnds ==
    ASSUME NEW M, NEW m \in Messages(M)
    PROVE  /\ Broken(m) \in Messages(M) /\ ~Broken(m).streaming /\ Broken(m).status = m.status
           /\ \A e \in Events(M) :
                 /\ Told(m, e) \in Messages(M) /\ ~Told(m, e).streaming
                 /\ Told(m, e).status \in {m.status, "pending"}
<1>1. Broken(m) \in Messages(M) /\ ~Broken(m).streaming /\ Broken(m).status = m.status
  BY DEF Broken, Messages
<1>2. ASSUME NEW e \in Events(M)
      PROVE  /\ Told(m, e) \in Messages(M) /\ ~Told(m, e).streaming
             /\ Told(m, e).status \in {m.status, "pending"}
  <2>1. e.proposal \in Props(M)
    BY DEF Events
  <2>2. CASE e.type = "patch_ready"
    <3>1. Told(m, e) = [m EXCEPT !.streaming = FALSE, !.proposal = e.proposal,
                                 !.status = "pending"]
      BY <2>2 DEF Told
    <3>2. QED BY <2>1, <3>1, Names DEF Messages
  <2>3. CASE e.type = "error"
    <3>1. Told(m, e) = Broken(m)
      BY <2>3 DEF Told, Broken
    <3>2. QED BY <1>1, <3>1
  <2>4. CASE e.type \notin {"patch_ready", "error"}
    <3>1. Told(m, e) = [m EXCEPT !.streaming = FALSE]
      BY <2>4 DEF Told
    <3>2. QED BY <3>1 DEF Messages
  <2>5. QED BY <2>2, <2>3, <2>4
<1>3. QED BY <1>1, <1>2

LEMMA ChatInvInit == Init => ChatInv
<1> SUFFICES ASSUME Init PROVE ChatInv
  OBVIOUS
<1>1. minted = Start /\ minted \subseteq Widgets /\ MaxHistory \in Nat
  BY ChatAssumption DEF Init
<1>2. canvas \in Boards(minted)
  BY <1>1 DEF Init, Boards, Canvas, On
<1>3. past \in Seq(Boards(minted)) /\ Len(past) <= MaxHistory
  BY <1>1 DEF Init
<1>4. NoJob \in Jobs(minted)
  <2>1. NoJob \in Work(minted)
    BY Names, EmptyBoard, NothingProposed DEF NoJob, Work
  <2>2. Aims(NoJob)
    BY DEF NoJob, Aims
  <2>3. QED BY <2>1, <2>2 DEF Jobs
<1>5. /\ msg \in [Turns -> Messages(minted)] /\ job \in [Turns -> Jobs(minted)]
      /\ wire \in [Turns -> Seq(Events(minted))]
  BY <1>4, NewMessages DEF Init
<1>6. chat = {} /\ asked \in Seq(Turns) /\ loading \in BOOLEAN
  BY EmptySeq DEF Init
<1>7. \A t \in Turns : Streams(t)
  BY <1>6 DEF Streams
<1>8. QED BY <1>1, <1>2, <1>3, <1>5, <1>6, <1>7 DEF ChatInv

-----------------------------------------------------------------------------
(* The user's own steps, which bring no new message.                        *)
LEMMA BoardMoves ==
    ASSUME ChatInv, canvas' \in Boards(minted), past' \in Seq(Boards(minted)),
           Len(past') <= MaxHistory, UNCHANGED <<minted, chat, asked, loading, job, wire>>,
           msg' \in [Turns -> Messages(minted)],
           \A t \in Turns : msg'[t].streaming => msg[t].streaming
    PROVE  ChatInv'
<1>1. \A t \in Turns : Streams(t)'
  BY DEF ChatInv, Streams, Current
<1>2. QED BY <1>1 DEF ChatInv

LEMMA ShowKeeps ==
    ASSUME ChatInv, NEW c \in Boards(minted), Show(c)
    PROVE  /\ canvas' \in Boards(minted) /\ past' \in Seq(Boards(minted))
           /\ Len(past') <= MaxHistory
<1>1. /\ canvas' = c /\ past' = LastFew(Append(past, canvas))
      /\ past \in Seq(Boards(minted)) /\ Len(past) <= MaxHistory /\ canvas \in Boards(minted)
  BY DEF Show, ChatInv
<1>2. QED BY <1>1, Trimmed

LEMMA EditKeeps ==
    ASSUME ChatInv, NEW w \in Widgets, NEW x \in Contents \cup {None}, Edit(w, x)
    PROVE  ChatInv'
<1>1. [canvas EXCEPT ![w] = x] \in Boards(minted)
  BY DEF ChatInv, Edit, Boards, Canvas, On
<1>2. Show([canvas EXCEPT ![w] = x]) /\ UNCHANGED <<minted, chat, asked, loading, job, wire, msg>>
  BY DEF Edit, panel
<1>3. QED BY <1>1, <1>2, ShowKeeps, BoardMoves DEF ChatInv

LEMMA UndoKeeps ==
    ASSUME ChatInv, Undo \/ OpenPage
    PROVE  ChatInv'
<1>1. UNCHANGED <<minted, chat, asked, loading, job, wire, msg>>
  BY DEF Undo, OpenPage, panel
<1>2. CASE Undo
  BY <1>1, <1>2, UndoneKeeps, BoardMoves DEF Undo, ChatInv
<1>3. CASE OpenPage
  <2>1. canvas' = Blank /\ past' = <<>> /\ MaxHistory \in Nat
    BY <1>3, ChatAssumption DEF OpenPage
  <2>2. past' \in Seq(Boards(minted)) /\ Len(past') <= MaxHistory
    BY <2>1
  <2>3. QED BY <1>1, <2>1, <2>2, EmptyBoard, BoardMoves DEF ChatInv
<1>4. QED BY <1>2, <1>3

LEMMA CardKeeps ==
    ASSUME ChatInv, NEW t \in Turns, ApplyPatch(t) \/ CancelPatch(t) \/ UndoPatch(t)
    PROVE  ChatInv'
<1>1. \E s \in States : msg' = [msg EXCEPT ![t].status = s]
  BY Names DEF ApplyPatch, CancelPatch, UndoPatch
<1>2. msg' \in [Turns -> Messages(minted)] /\ \A u \in Turns : msg'[u].streaming => msg[u].streaming
  <2>1. PICK s \in States : msg' = [msg EXCEPT ![t].status = s]
    BY <1>1
  <2>2. msg'[t] = [msg[t] EXCEPT !.status = s] /\ \A u \in Turns \ {t} : msg'[u] = msg[u]
    BY <2>1 DEF ChatInv
  <2>3. msg'[t] \in Messages(minted) /\ (msg'[t].streaming <=> msg[t].streaming)
    BY <2>2, StatusChanges DEF ChatInv
  <2>4. QED BY <2>1, <2>2, <2>3 DEF ChatInv
<1>3. UNCHANGED <<minted, chat, asked, loading, job, wire>>
  BY DEF ApplyPatch, CancelPatch, UndoPatch
<1>4. canvas' \in Boards(minted) /\ past' \in Seq(Boards(minted)) /\ Len(past') <= MaxHistory
  <2>1. CASE ApplyPatch(t)
    <3>1. Show(Patched(canvas, msg[t].proposal)) /\ msg[t].proposal # None
      BY <2>1 DEF ApplyPatch, MayApply, Pending
    <3>2. msg[t].proposal \in Props(minted) /\ canvas \in Boards(minted)
          /\ minted \in SUBSET Widgets
      BY DEF ChatInv, Messages
    <3>3. Patched(canvas, msg[t].proposal) \in Boards(minted)
      BY <3>1, <3>2, PatchedKeeps
    <3>4. QED BY <3>1, <3>3, ShowKeeps
  <2>2. CASE CancelPatch(t)
    BY <2>2 DEF CancelPatch, board, ChatInv
  <2>3. CASE UndoPatch(t)
    BY <2>3, UndoneKeeps DEF UndoPatch
  <2>4. QED BY <2>1, <2>2, <2>3
<1>5. QED BY <1>2, <1>3, <1>4, BoardMoves

(* The jobs of the backend.                                                *)
LEMMA SmallJobs ==
    ASSUME NEW M
    PROVE  /\ Closed \in Jobs(M) /\ [NoJob EXCEPT !.at = "last"] \in Jobs(M)
           /\ [NoJob EXCEPT !.at = "last"].at = "last"
           /\ \A c \in Boards(M), endpoint \in {"intent", "chat"} :
                 /\ [NoJob EXCEPT !.at = endpoint, !.snapshot = c] \in Jobs(M)
                 /\ [NoJob EXCEPT !.at = endpoint, !.snapshot = c].at = endpoint
<1>1. NoJob \in Work(M) /\ NoJob.proposal = None
  BY Names, EmptyBoard, NothingProposed DEF NoJob, Work
<1>2. Closed \in Jobs(M)
  <2>1. Closed \in Work(M) /\ Closed.at = "closed" /\ Closed.proposal = None
    BY <1>1, Names DEF Closed, Work
  <2>2. QED BY <2>1 DEF Jobs, Aims
<1>3. [NoJob EXCEPT !.at = "last"] \in Jobs(M) /\ [NoJob EXCEPT !.at = "last"].at = "last"
  <2> DEFINE j == [NoJob EXCEPT !.at = "last"]
  <2>1. j \in Work(M) /\ j.at = "last" /\ j.proposal = None
    BY <1>1, Names DEF Work
  <2>2. QED BY <2>1 DEF Jobs, Aims
<1>4. ASSUME NEW c \in Boards(M), NEW endpoint \in {"intent", "chat"}
      PROVE  /\ [NoJob EXCEPT !.at = endpoint, !.snapshot = c] \in Jobs(M)
             /\ [NoJob EXCEPT !.at = endpoint, !.snapshot = c].at = endpoint
  <2> DEFINE j == [NoJob EXCEPT !.at = endpoint, !.snapshot = c]
  <2>1. endpoint \in Stages
    BY Names
  <2>2. j \in Work(M) /\ j.at = endpoint /\ j.proposal = None
    BY <1>1, <2>1 DEF Work
  <2>3. QED BY <2>2 DEF Jobs, Aims
<1>5. QED BY <1>2, <1>3, <1>4

LEMMA JobGoes ==
    ASSUME NEW M, NEW j \in Jobs(M), NEW s \in Stages, s \notin {"patch", "review"},
           s \in {"query", "topic", "build"} => j.at \in {"query", "topic", "build", "patch"}
    PROVE  [j EXCEPT !.at = s] \in Jobs(M) /\ [j EXCEPT !.at = s].at = s
<1> DEFINE k == [j EXCEPT !.at = s]
<1>1. k \in Work(M) /\ k.at = s /\ k.kind = j.kind /\ k.snapshot = j.snapshot
      /\ k.target = j.target /\ k.proposal = j.proposal
  BY DEF Jobs, Work
<1>2. Aims(j)
  BY DEF Jobs
<1> HIDE DEF k
<1>3. Aims(k)
  BY <1>1, <1>2 DEF Aims
<1>4. k \in Jobs(M)
  BY <1>1, <1>3 DEF Jobs
<1>5. QED BY <1>1, <1>4 DEF k

LEMMA JobAdds ==
    ASSUME NEW M, NEW j \in Jobs(M)
    PROVE  /\ [j EXCEPT !.at = "query", !.kind = "add"] \in Jobs(M)
           /\ [j EXCEPT !.at = "query", !.kind = "add"].at = "query"
<1> DEFINE k == [j EXCEPT !.at = "query", !.kind = "add"]
<1>1. j \in Work(M) /\ Aims(j)
  BY DEF Jobs
<1>2. /\ k \in Work(M) /\ k.at = "query" /\ k.kind = "add" /\ k.snapshot = j.snapshot
      /\ k.proposal = j.proposal
  BY <1>1, Names DEF Work
<1> HIDE DEF k
<1>3. k \in Jobs(M)
  BY <1>1, <1>2 DEF Jobs, Aims
<1>4. QED BY <1>2, <1>3 DEF k

LEMMA JobProposes ==
    ASSUME NEW M, NEW j \in Jobs(M), NEW p \in Props(M), p # None, Fits(p, j.snapshot)
    PROVE  /\ [j EXCEPT !.at = "review", !.proposal = p] \in Jobs(M)
           /\ [j EXCEPT !.at = "review", !.proposal = p].at = "review"
<1> DEFINE k == [j EXCEPT !.at = "review", !.proposal = p]
<1>1. k \in Work(M) /\ k.at = "review" /\ k.snapshot = j.snapshot /\ k.proposal = p
  BY Names DEF Jobs, Work
<1> HIDE DEF k
<1>2. k \in Jobs(M)
  BY <1>1 DEF Jobs, Aims
<1>3. QED BY <1>1, <1>2 DEF k

(* One stage of the work on a question.                                    *)
LEMMA OneServed ==
    ASSUME ChatInv, NEW t \in Turns, minted \subseteq minted', minted' \subseteq Widgets,
           NEW j \in Jobs(minted'), job' = [job EXCEPT ![t] = j], UNCHANGED <<board, panel>>,
           \/ j.at # "closed" /\ UNCHANGED wire
           \/ \E e \in Events(minted') : wire' = [wire EXCEPT ![t] = Append(@, e)]
    PROVE  ChatInv'
<1>1. /\ canvas \in Boards(minted') /\ past \in Seq(Boards(minted'))
      /\ msg \in [Turns -> Messages(minted')] /\ job \in [Turns -> Jobs(minted')]
      /\ wire \in [Turns -> Seq(Events(minted'))]
  BY Grows DEF ChatInv
<1>2. job' \in [Turns -> Jobs(minted')] /\ job'[t] = j
      /\ \A u \in Turns \ {t} : job'[u] = job[u]
  BY <1>1
<1>3. /\ wire' \in [Turns -> Seq(Events(minted'))]
      /\ \A u \in Turns \ {t} : wire'[u] = wire[u]
      /\ j.at = "closed" => wire'[t] # <<>>
  <2>1. CASE j.at # "closed" /\ UNCHANGED wire
    BY <1>1, <2>1
  <2>2. ASSUME NEW e \in Events(minted'), wire' = [wire EXCEPT ![t] = Append(@, e)]
        PROVE  /\ wire' \in [Turns -> Seq(Events(minted'))]
               /\ \A u \in Turns \ {t} : wire'[u] = wire[u]
               /\ j.at = "closed" => wire'[t] # <<>>
    <3>1. wire[t] \in Seq(Events(minted'))
      BY <1>1
    <3>2. Append(wire[t], e) \in Seq(Events(minted')) /\ Append(wire[t], e) # <<>>
      BY <3>1
    <3>3. wire'[t] = Append(wire[t], e) /\ \A u \in Turns \ {t} : wire'[u] = wire[u]
      BY <1>1, <2>2
    <3>4. wire' \in [Turns -> Seq(Events(minted'))]
      BY <1>1, <2>2, <3>2
    <3>5. QED BY <3>2, <3>3, <3>4
  <2>3. QED BY <2>1, <2>2
<1>4. \A u \in Turns : Streams(u)'
  BY <1>2, <1>3 DEF ChatInv, Streams, Current, panel
<1>5. QED BY <1>1, <1>2, <1>3, <1>4 DEF ChatInv, board, panel

LEMMA EventsSent ==
    ASSUME NEW M
    PROVE  /\ \A type \in Types, p \in Props(M) : [type |-> type, proposal |-> p] \in Events(M)
           /\ \A p \in Props(M) : p # None =>
                 \A b \in BOOLEAN : [p EXCEPT !.blocked = b] \in Props(M)
<1>1. \A type \in Types, p \in Props(M) : [type |-> type, proposal |-> p] \in Events(M)
  BY DEF Events
<1>2. ASSUME NEW p \in Props(M), p # None, NEW b \in BOOLEAN
      PROVE  [p EXCEPT !.blocked = b] \in Props(M)
  <2>1. p \in Proposal /\ p.names \subseteq M
    BY <1>2 DEF Props
  <2>2. [p EXCEPT !.blocked = b] \in Proposal /\ [p EXCEPT !.blocked = b].names = p.names
    BY <2>1 DEF Proposal
  <2>3. QED BY <2>1, <2>2 DEF Props
<1>3. QED BY <1>1, <1>2

(* A stage that ends the work, or moves on, and gives no widget an id.      *)
LEMMA EndsKeep ==
    ASSUME ChatInv, NEW t \in Turns, UNCHANGED <<board, panel, minted>>,
           Fail(t) \/ Refuse(t) \/ Return(t) \/ Answered(t)
    PROVE  ChatInv'
<1>1. minted \subseteq minted' /\ minted' \subseteq Widgets
  BY DEF ChatInv
<1>2. \A type \in Types : [type |-> type, proposal |-> None] \in Events(minted')
  BY EventsSent, NothingProposed
<1>3. CASE Return(t)
  BY <1>1, <1>3, SmallJobs, OneServed DEF Return
<1>4. CASE Fail(t)
  BY <1>1, <1>2, <1>4, Names, SmallJobs, OneServed DEF Fail, Emit
<1>5. CASE Refuse(t)
  BY <1>1, <1>2, <1>5, Names, SmallJobs, OneServed DEF Refuse, Emit
<1>6. CASE Answered(t)
  BY <1>1, <1>2, <1>6, Names, SmallJobs, OneServed DEF Answered, Emit
<1>7. QED BY <1>3, <1>4, <1>5, <1>6

LEMMA GoKeeps ==
    ASSUME ChatInv, NEW t \in Turns, UNCHANGED <<board, panel, minted>>,
           NEW s \in {"build", "topic", "live"}, Go(t, s),
           s # "live" => job[t].at \in {"query", "topic"}
    PROVE  ChatInv'
<1> DEFINE j == [job[t] EXCEPT !.at = s]
<1>1. job[t] \in Jobs(minted) /\ minted' = minted /\ minted \subseteq Widgets
  BY DEF ChatInv
<1>2. s \in Stages /\ s \notin {"patch", "review"}
  BY Names
<1>3. j \in Jobs(minted) /\ j.at = s
  BY <1>1, <1>2, JobGoes
<1>4. job' = [job EXCEPT ![t] = j] /\ UNCHANGED wire
  BY DEF Go
<1> HIDE DEF j
<1>5. QED BY <1>1, <1>3, <1>4, OneServed

LEMMA IntentKeeps ==
    ASSUME ChatInv, NEW t \in Turns, UNCHANGED <<board, panel>>, Intent(t)
    PROVE  ChatInv'
<1>1. /\ job[t] \in Jobs(minted) /\ job[t].at = "intent"
      /\ minted' = minted /\ minted \subseteq Widgets
  BY DEF ChatInv, Intent, At
<1>2. CASE Fail(t) \/ Refuse(t)
  BY <1>1, <1>2, EndsKeep
<1>3. CASE /\ job' = [job EXCEPT ![t] = [@ EXCEPT !.at = "query", !.kind = "add"]]
           /\ UNCHANGED wire
  <2> DEFINE j == [job[t] EXCEPT !.at = "query", !.kind = "add"]
  <2>1. j \in Jobs(minted) /\ j.at = "query"
    BY <1>1, JobAdds
  <2>2. job' = [job EXCEPT ![t] = j]
    BY <1>3
  <2> HIDE DEF j
  <2>3. QED BY <1>1, <1>3, <2>1, <2>2, OneServed
<1>4. ASSUME NEW w \in Widgets, NEW k \in Kinds \ {"add"}, NEW next \in {"query", "patch"},
             ValidTarget(job[t].snapshot, w),
             job' = [job EXCEPT ![t] = [@ EXCEPT !.at = next, !.kind = k, !.target = w]],
             UNCHANGED wire
      PROVE  ChatInv'
  <2> DEFINE j == [job[t] EXCEPT !.at = next, !.kind = k, !.target = w]
  <2>1. /\ w \in On(job[t].snapshot) /\ w \in Widgets \cup {None} /\ next \in Stages
        /\ job[t] \in Work(minted) /\ Aims(job[t])
    BY <1>1, <1>4, Names DEF ValidTarget, Jobs
  <2>2. /\ j \in Work(minted) /\ j.at = next /\ j.kind = k /\ j.target = w
        /\ j.snapshot = job[t].snapshot /\ j.proposal = job[t].proposal
    BY <1>4, <2>1 DEF Work
  <2>3. job' = [job EXCEPT ![t] = j]
    BY <1>4
  <2> HIDE DEF j
  <2>4. Aims(j)
    BY <1>4, <2>1, <2>2 DEF Aims
  <2>5. j \in Jobs(minted)
    BY <2>2, <2>4 DEF Jobs
  <2>6. QED BY <1>1, <1>4, <2>2, <2>3, <2>5, OneServed
<1>5. QED BY <1>2, <1>3, <1>4 DEF Intent

(* Three ways to a proposal: new widgets, another query, a patch.           *)
LEMMA ProposeKeeps ==
    ASSUME ChatInv, NEW t \in Turns, UNCHANGED <<board, panel, wire>>,
           minted \subseteq minted', minted' \subseteq Widgets,
           NEW names \in SUBSET minted', NEW x \in Contents, Propose(t, names, x),
           IF job[t].kind = "add"
           THEN /\ names \cap On(job[t].snapshot) = {}
                /\ Cardinality(names \cup On(job[t].snapshot)) <= MaxWidgets
           ELSE names \subseteq On(job[t].snapshot)
    PROVE  ChatInv'
<1> DEFINE p == [kind |-> job[t].kind, names |-> names, content |-> x, blocked |-> FALSE]
           j == [job[t] EXCEPT !.at = "review", !.proposal = p]
<1>1. job[t] \in Jobs(minted') /\ job[t].kind \in Kinds
  BY Grows DEF ChatInv, Jobs, Work
<1>2. p \in Proposal /\ p.names \subseteq minted' /\ p # None
  <2>1. names \in SUBSET Widgets
    OBVIOUS
  <2>2. p \in Proposal
    BY <1>1, <2>1 DEF Proposal
  <2>3. None \notin Proposal
    BY ChatAssumption
  <2>4. QED BY <2>2, <2>3
<1>3. p \in Props(minted') /\ Fits(p, job[t].snapshot)
  BY <1>2 DEF Props, Fits
<1>4. job' = [job EXCEPT ![t] = j]
  BY DEF Propose
<1>5. j \in Jobs(minted') /\ j.at = "review"
  <2> HIDE DEF p
  <2>1. QED BY <1>1, <1>2, <1>3, JobProposes
<1> HIDE DEF j
<1>6. QED BY <1>4, <1>5, OneServed

LEMMA BuildKeeps ==
    ASSUME ChatInv, NEW t \in Turns, UNCHANGED <<board, panel>>, Build(t)
    PROVE  ChatInv'
<1>1. /\ job[t] \in Jobs(minted) /\ job[t].at = "build" /\ minted \subseteq Widgets
      /\ job[t].snapshot \in Boards(minted) /\ Aims(job[t])
  BY DEF ChatInv, Build, At, Jobs, Work
<1>2. CASE Fail(t) /\ UNCHANGED minted
  BY <1>2, EndsKeep
<1>3. ASSUME job[t].kind = "add", NEW names \in SUBSET Fresh, NEW x \in Contents,
             names # {}, Cardinality(names) <= Slots(job[t].snapshot),
             Propose(t, names, x), minted' = minted \cup names, UNCHANGED wire
      PROVE  ChatInv'
  <2> DEFINE there == On(job[t].snapshot)
  <2>1. names \cap there = {} /\ there \subseteq Widgets /\ names \subseteq Widgets
    BY <1>1 DEF Fresh, Boards, On
  <2>2. IsFiniteSet(names) /\ IsFiniteSet(there)
    BY <2>1, ChatAssumption, FS_Subset
  <2>3. Cardinality(names) \in Nat /\ Cardinality(there) \in Nat /\ MaxWidgets \in Nat
    BY <2>2, FS_CardinalityType, ChatAssumption
  <2>4. Cardinality(names \cup there) = Cardinality(names) + Cardinality(there)
    <3>1. Cardinality(names \cup there)
            = Cardinality(names) + Cardinality(there) - Cardinality(names \cap there)
      BY <2>2, FS_Union
    <3>2. Cardinality(names \cap there) = 0
      BY <2>1, FS_EmptySet
    <3>3. QED BY <2>3, <3>1, <3>2
  <2>5. Cardinality(names) # 0
    BY <1>3, <2>2, FS_EmptySet
  <2>6. Cardinality(names \cup there) <= MaxWidgets
    BY <1>3, <2>3, <2>4, <2>5 DEF Slots
  <2>7. minted \subseteq minted' /\ minted' \subseteq Widgets /\ names \in SUBSET minted'
    BY <1>1, <1>3, <2>1
  <2>8. QED BY <1>3, <2>1, <2>6, <2>7, ProposeKeeps
<1>4. ASSUME job[t].kind = "update", NEW x \in Contents, Propose(t, {job[t].target}, x),
             UNCHANGED <<wire, minted>>
      PROVE  ChatInv'
  <2>1. job[t].target \in On(job[t].snapshot)
    BY <1>1, <1>4 DEF Aims
  <2>2. {job[t].target} \in SUBSET minted'
    BY <1>1, <1>4, <2>1 DEF Boards
  <2>3. QED BY <1>1, <1>4, <2>1, <2>2, ProposeKeeps
<1>5. QED BY <1>2, <1>3, <1>4 DEF Build

LEMMA PatchKeeps ==
    ASSUME ChatInv, NEW t \in Turns, UNCHANGED <<board, panel>>, Patch(t)
    PROVE  ChatInv'
<1>1. /\ job[t].at = "patch" /\ minted \subseteq Widgets /\ minted' = minted
      /\ job[t].snapshot \in Boards(minted) /\ Aims(job[t])
  BY DEF ChatInv, Patch, At, Jobs, Work
<1>2. CASE Fail(t)
  BY <1>1, <1>2, EndsKeep
<1>3. ASSUME NEW x \in Contents, Propose(t, {job[t].target}, x), UNCHANGED wire
      PROVE  ChatInv'
  <2>1. job[t].kind # "add" /\ job[t].target \in On(job[t].snapshot)
    BY <1>1 DEF Aims
  <2>2. {job[t].target} \in SUBSET minted'
    BY <1>1, <2>1 DEF Boards
  <2>3. QED BY <1>1, <1>3, <2>1, <2>2, ProposeKeeps
<1>4. QED BY <1>2, <1>3 DEF Patch

LEMMA ReviewKeeps ==
    ASSUME ChatInv, NEW t \in Turns, UNCHANGED <<board, panel>>, Review(t)
    PROVE  ChatInv'
<1>1. /\ minted \subseteq Widgets /\ minted' = minted
      /\ job[t].proposal \in Props(minted) /\ job[t].proposal # None
  BY DEF ChatInv, Review, At, Jobs, Work, Aims
<1>2. CASE Fail(t)
  BY <1>1, <1>2, EndsKeep
<1>3. ASSUME NEW b \in BOOLEAN, Emit(t, "patch_ready", [job[t].proposal EXCEPT !.blocked = b]),
             job' = [job EXCEPT ![t] = [NoJob EXCEPT !.at = "last"]]
      PROVE  ChatInv'
  <2>1. [job[t].proposal EXCEPT !.blocked = b] \in Props(minted')
    BY <1>1, EventsSent
  <2>2. [type |-> "patch_ready", proposal |-> [job[t].proposal EXCEPT !.blocked = b]]
          \in Events(minted')
    BY <2>1, EventsSent, Names
  <2>3. QED BY <1>1, <1>3, <2>2, SmallJobs, OneServed DEF Emit
<1>4. QED BY <1>2, <1>3 DEF Review

LEMMA ChatKeeps ==
    ASSUME ChatInv, NEW t \in Turns, UNCHANGED <<board, panel>>, Chat(t) \/ Live(t) \/ Close(t)
    PROVE  ChatInv'
<1>1. minted' = minted /\ minted \subseteq Widgets
  BY DEF ChatInv, Chat, Live, Close
<1>2. CASE Fail(t) \/ Return(t) \/ Answered(t)
  BY <1>1, <1>2, EndsKeep
<1>3. CASE Go(t, "live")
  BY <1>1, <1>3, GoKeeps
<1>4. CASE job' = [job EXCEPT ![t] = Closed] /\ Emit(t, "error", None)
  <2>1. [type |-> "error", proposal |-> None] \in Events(minted')
    BY EventsSent, NothingProposed, Names
  <2>2. QED BY <1>1, <1>4, <2>1, SmallJobs, OneServed DEF Emit
<1>5. QED BY <1>2, <1>3, <1>4 DEF Chat, Live, Close

LEMMA QueryKeeps ==
    ASSUME ChatInv, NEW t \in Turns, UNCHANGED <<board, panel>>, Query(t) \/ Topic(t)
    PROVE  ChatInv'
<1>1. minted' = minted /\ job[t].at \in {"query", "topic"}
  BY DEF Query, Topic, At
<1>2. CASE Fail(t) \/ Return(t) \/ Refuse(t)
  BY <1>1, <1>2, EndsKeep
<1>3. CASE Go(t, "build") \/ Go(t, "topic")
  BY <1>1, <1>3, GoKeeps
<1>4. QED BY <1>2, <1>3 DEF Query, Topic

LEMMA ServeKeeps ==
    ASSUME ChatInv, NEW t \in Turns, Serve(t)
    PROVE  ChatInv'
  BY IntentKeeps, QueryKeeps, BuildKeeps, PatchKeeps, ReviewKeeps, ChatKeeps DEF Serve

(* The panel: a question is sent, its stream is read, ends or breaks.       *)
LEMMA SendKeeps ==
    ASSUME ChatInv, NEW t \in Turns, NEW endpoint \in {"intent", "chat"}, Send(t, endpoint)
    PROVE  ChatInv'
<1> DEFINE j == [NoJob EXCEPT !.at = endpoint, !.snapshot = canvas]
<1>1. /\ ~loading /\ asked' = Append(asked, t) /\ chat' = chat \cup {t} /\ loading'
      /\ msg' = [msg EXCEPT ![t] = NewMessage] /\ job' = [job EXCEPT ![t] = j]
      /\ UNCHANGED <<canvas, past, minted, wire>>
  BY DEF Send, Idle, board
<1>2. j \in Jobs(minted) /\ j.at = endpoint
  BY SmallJobs DEF ChatInv
<1> HIDE DEF j
<1>3. /\ msg' \in [Turns -> Messages(minted)] /\ job' \in [Turns -> Jobs(minted)]
      /\ job'[t].at # "closed" /\ \A u \in Turns \ {t} : msg'[u] = msg[u]
  BY <1>1, <1>2, NewMessages DEF ChatInv
<1>4. asked' \in Seq(Turns) /\ Current' = t
  BY <1>1 DEF ChatInv, Current, Last
<1>5. ASSUME NEW u \in Turns PROVE Streams(u)'
  <2>1. CASE u = t
    BY <1>1, <1>3, <1>4, <2>1 DEF Streams
  <2>2. CASE u # t
    BY <1>1, <1>3, <2>2 DEF ChatInv, Streams
  <2>3. QED BY <2>1, <2>2
<1>6. QED BY <1>1, <1>3, <1>4, <1>5 DEF ChatInv

LEMMA ClearKeeps ==
    ASSUME ChatInv, ClearChat
    PROVE  ChatInv'
<1>1. /\ chat' = {} /\ msg' = [t \in Turns |-> Unseen]
      /\ UNCHANGED <<canvas, past, minted, asked, loading, job, wire>>
  BY DEF ClearChat, board
<1>2. msg' \in [Turns -> Messages(minted)]
  BY <1>1, NewMessages
<1>3. \A t \in Turns : Streams(t)'
  BY <1>1 DEF Streams
<1>4. QED BY <1>1, <1>2, <1>3 DEF ChatInv

LEMMA ReceiveKeeps ==
    ASSUME ChatInv, NEW t \in Turns, Receive(t)
    PROVE  ChatInv'
<1>1. /\ wire[t] # <<>> /\ wire' = [wire EXCEPT ![t] = Tail(@)]
      /\ msg' = IF t \in chat THEN [msg EXCEPT ![t] = Told(@, Head(wire[t]))] ELSE msg
      /\ UNCHANGED <<canvas, past, minted, chat, asked, loading, job>>
  BY DEF Receive, board
<1>2. wire[t] \in Seq(Events(minted)) /\ msg[t] \in Messages(minted)
  BY DEF ChatInv
<1>3. Head(wire[t]) \in Events(minted) /\ Tail(wire[t]) \in Seq(Events(minted))
  BY <1>1, <1>2
<1>4. /\ Told(msg[t], Head(wire[t])) \in Messages(minted)
      /\ ~Told(msg[t], Head(wire[t])).streaming
  BY <1>2, <1>3, MessageEnds
<1>5. /\ msg' \in [Turns -> Messages(minted)] /\ wire' \in [Turns -> Seq(Events(minted))]
      /\ t \in chat => ~msg'[t].streaming
      /\ \A u \in Turns \ {t} : msg'[u] = msg[u] /\ wire'[u] = wire[u]
  BY <1>1, <1>3, <1>4 DEF ChatInv
<1>6. \A u \in Turns : Streams(u)'
  BY <1>1, <1>5 DEF ChatInv, Streams, Current
<1>7. QED BY <1>1, <1>5, <1>6 DEF ChatInv

LEMMA StreamEndsKeeps ==
    ASSUME ChatInv, NEW t \in Turns, StreamEnds(t)
    PROVE  ChatInv'
<1>1. /\ t = Current /\ wire[t] = <<>> /\ job[t].at = "closed" /\ loading' = FALSE
      /\ UNCHANGED <<canvas, past, minted, chat, asked, msg, job, wire>>
  BY DEF StreamEnds, Reading, board
<1>2. \A u \in Turns : Streams(u)'
  BY <1>1 DEF ChatInv, Streams
<1>3. QED BY <1>1, <1>2 DEF ChatInv

LEMMA BreakKeeps ==
    ASSUME ChatInv, NEW t \in Turns, Break(t)
    PROVE  ChatInv'
<1>1. /\ t = Current /\ loading' = FALSE /\ wire' = [wire EXCEPT ![t] = <<>>]
      /\ msg' = IF t \in chat THEN [msg EXCEPT ![t] = Broken(@)] ELSE msg
      /\ job' = [job EXCEPT ![t] = Closed]
      /\ UNCHANGED <<canvas, past, minted, chat, asked>>
  BY DEF Break, Reading, board
<1>2. msg[t] \in Messages(minted) /\ Closed \in Jobs(minted)
  BY SmallJobs DEF ChatInv
<1>3. Broken(msg[t]) \in Messages(minted) /\ ~Broken(msg[t]).streaming
  BY <1>2, MessageEnds
<1>4. /\ msg' \in [Turns -> Messages(minted)] /\ job' \in [Turns -> Jobs(minted)]
      /\ t \in chat => ~msg'[t].streaming
      /\ \A u \in Turns \ {t} : msg'[u] = msg[u]
  BY <1>1, <1>2, <1>3 DEF ChatInv
<1>5. wire' \in [Turns -> Seq(Events(minted))]
  BY <1>1, EmptySeq DEF ChatInv
<1>6. \A u \in Turns : Streams(u)'
  BY <1>1, <1>4 DEF ChatInv, Streams
<1>7. QED BY <1>1, <1>4, <1>5, <1>6 DEF ChatInv

LEMMA ChatStep == ChatInv /\ [Next]_chatVars => ChatInv'
<1> SUFFICES ASSUME ChatInv, [Next]_chatVars PROVE ChatInv'
  OBVIOUS
<1>1. CASE UNCHANGED chatVars
  BY <1>1 DEF chatVars, board, panel, ChatInv, Streams, Current
<1>2. ASSUME NEW w \in Widgets, NEW x \in Contents, Edit(w, x) PROVE ChatInv'
  BY <1>2, EditKeeps
<1>3. ASSUME NEW w \in Widgets, RemoveWidget(w) PROVE ChatInv'
  BY <1>3, EditKeeps DEF RemoveWidget
<1>4. ASSUME NEW t \in Turns, Send(t, "intent") \/ Send(t, "chat") PROVE ChatInv'
  BY <1>4, SendKeeps
<1>5. ASSUME NEW t \in Turns, ApplyPatch(t) \/ CancelPatch(t) \/ UndoPatch(t) PROVE ChatInv'
  BY <1>5, CardKeeps
<1>6. ASSUME NEW t \in Turns, Answer(t) \/ Break(t) PROVE ChatInv'
  BY <1>6, ServeKeeps, ReceiveKeeps, StreamEndsKeeps, BreakKeeps DEF Answer
<1>7. CASE Undo \/ OpenPage \/ ClearChat
  BY <1>7, UndoKeeps, ClearKeeps
<1>8. QED BY <1>1, <1>2, <1>3, <1>4, <1>5, <1>6, <1>7 DEF Next, UserActs

LEMMA ChatInvariant == Spec => []ChatInv
  BY ChatInvInit, ChatStep, PTL DEF Spec

-----------------------------------------------------------------------------
(* Types of the panel, the backend's jobs and the canvas; undo goes back at *)
(* most MaxHistory canvases.                                               *)
THEOREM PanelIsTyped == Spec => []ChatTypeOK
<1>1. ASSUME ChatInv PROVE ChatTypeOK
  <2>1. Boards(minted) \subseteq Canvas /\ Props(minted) \subseteq Proposal \cup {None}
    BY DEF Boards, Props
  <2>2. Messages(minted) \subseteq Message /\ Events(minted) \subseteq Event
    BY <2>1 DEF Messages, Message, States, Events, Event, Types
  <2>3. Work(minted) \subseteq Job
    BY <2>1 DEF Work, Job, Stages
  <2>4. Jobs(minted) \subseteq Job
    BY <2>3 DEF Jobs
  <2>5. Seq(Boards(minted)) \subseteq Seq(Canvas) /\ Seq(Events(minted)) \subseteq Seq(Event)
    BY <2>1, <2>2, SeqMonotonic
  <2>6. QED BY <1>1, <2>1, <2>2, <2>4, <2>5 DEF ChatInv, ChatTypeOK
<1>2. QED BY <1>1, ChatInvariant, PTL

(* Only the current question's message shows that it is being answered,    *)
(* and only while its stream is read, for any number of questions.         *)
THEOREM MessagesStopStreaming == Spec => []OnlyTheCurrentStreams
<1>1. ChatInv => OnlyTheCurrentStreams
  BY DEF ChatInv, Streams, OnlyTheCurrentStreams
<1>2. QED BY <1>1, ChatInvariant, PTL

(* Every proposal fits the canvas its question came with: its widgets are  *)
(* new and there is room, or the widget it names was there.                *)
THEOREM ProposalsFit == Spec => []ProposalFitsSnapshot
<1>1. ChatInv => ProposalFitsSnapshot
  BY DEF ChatInv, Jobs, Aims, Fits, ProposalFitsSnapshot
<1>2. QED BY <1>1, ChatInvariant, PTL

(* Only the apply button makes a pending proposal an applied one.           *)
LEMMA OnlyApplying ==
    ASSUME ChatInv, [Next]_chatVars, NEW t \in Turns,
           msg[t].status = "pending", msg'[t].status = "applied"
    PROVE  ApplyPatch(t)
<1> USE DEF ChatInv
<1>1. msg'[t] # msg[t] /\ msg[t] \in Messages(minted)
  OBVIOUS
<1>2. CASE UNCHANGED msg
  BY <1>1, <1>2
<1>3. ASSUME NEW u \in Turns, Send(u, "intent") \/ Send(u, "chat") PROVE FALSE
  <2>1. msg'[t] = NewMessage
    BY <1>1, <1>3 DEF Send
  <2>2. QED BY <2>1, NewMessages
<1>4. ASSUME ClearChat PROVE FALSE
  <2>1. msg'[t] = Unseen
    BY <1>4 DEF ClearChat
  <2>2. QED BY <2>1, NewMessages
<1>5. ASSUME NEW u \in Turns, ApplyPatch(u) PROVE ApplyPatch(t)
  <2>1. u = t
    BY <1>1, <1>5 DEF ApplyPatch
  <2>2. QED BY <1>5, <2>1
<1>6. ASSUME NEW u \in Turns, CancelPatch(u) \/ UndoPatch(u) PROVE FALSE
  <2>1. msg'[t] = [msg[t] EXCEPT !.status = "discarded"]
    BY <1>1, <1>6 DEF CancelPatch, UndoPatch
  <2>2. QED BY <1>1, <2>1, Names, StatusChanges
<1>7. ASSUME NEW u \in Turns, Receive(u) PROVE FALSE
  <2>1. /\ wire[u] # <<>> /\ wire[u] \in Seq(Events(minted)) /\ u = t
        /\ msg'[t] = Told(msg[t], Head(wire[t]))
    BY <1>1, <1>7 DEF Receive
  <2>2. Head(wire[t]) \in Events(minted)
    BY <2>1
  <2>3. Told(msg[t], Head(wire[t])).status \in {msg[t].status, "pending"}
    BY <1>1, <2>2, MessageEnds
  <2>4. QED BY <2>1, <2>3
<1>8. ASSUME NEW u \in Turns, Break(u) PROVE FALSE
  <2>1. msg'[t] = Broken(msg[t])
    BY <1>1, <1>8 DEF Break
  <2>2. QED BY <1>1, <2>1, MessageEnds
<1>9. ASSUME NEW u \in Turns, Serve(u) \/ StreamEnds(u) PROVE UNCHANGED msg
  BY <1>9 DEF Serve, StreamEnds, panel
<1>10. ASSUME NEW w \in Widgets, NEW x, Edit(w, x) PROVE UNCHANGED msg
  BY <1>10 DEF Edit, panel
<1>11. CASE Undo \/ OpenPage \/ UNCHANGED chatVars
  BY <1>2, <1>11 DEF Undo, OpenPage, panel, chatVars
<1>12. QED BY <1>2, <1>3, <1>4, <1>5, <1>6, <1>7, <1>8, <1>9, <1>10, <1>11
         DEF Next, UserActs, Answer, RemoveWidget

(* A proposal applied late, on whatever canvas, touches only what it names, *)
(* brings nothing back and was approved by the reviewing model.            *)
THEOREM LateProposalsAreLocal == Spec => LateProposalKeepsTheRest
<1>1. ASSUME ChatInv, [Next]_chatVars, NEW t \in Turns,
             msg[t].status = "pending", msg'[t].status = "applied"
      PROVE  /\ ~msg[t].proposal.blocked
             /\ \A w \in Widgets : canvas'[w] # canvas[w] =>
                   /\ w \in msg[t].proposal.names
                   /\ canvas[w] = None => msg[t].proposal.kind = "add"
  <2>1. /\ MayApply(t) /\ canvas' = Patched(canvas, msg[t].proposal)
        /\ msg[t].proposal # None
    BY <1>1, OnlyApplying DEF ApplyPatch, Show, MayApply, Pending
  <2>2. msg[t].proposal \in Props(minted) /\ canvas \in Boards(minted) /\ minted \in SUBSET Widgets
    BY <1>1 DEF ChatInv, Messages
  <2>3. QED BY <2>1, <2>2, PatchedKeeps DEF MayApply
<1>2. ChatInv /\ [Next]_chatVars =>
        [\A t \in Turns :
           msg[t].status = "pending" /\ msg'[t].status = "applied" =>
             LET p == msg[t].proposal
             IN /\ ~p.blocked
                /\ \A w \in Widgets : canvas'[w] # canvas[w] =>
                      w \in p.names /\ (canvas[w] = None => p.kind = "add")]_chatVars
  BY <1>1
<1>3. QED BY <1>2, ChatInvariant, PTL DEF Spec, LateProposalKeepsTheRest

=============================================================================
