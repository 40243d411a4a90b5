----------------------------- MODULE PageHistory -----------------------------
(***************************************************************************)
(* What the saved pages promise, without tables, transactions or locks: a  *)
(* book of pages, each with a key of its own and a history of drafts that  *)
(* only grows at its end.  A session adds to a page what it drew on the    *)
(* version it has open, and only when that is the last one.                *)
(***************************************************************************)
EXTENDS Naturals

CONSTANTS PageIds, Keys, Sessions, Draft, None

VARIABLES
    book,       \* page id -> key and drafts by version, or Absent
    opened      \* session -> the page and the version it has open

hvars == <<book, opened>>

Absent == [key |-> None, last |-> 0, drafts |-> <<>>]
Nothing == [page |-> None, version |-> 0]
OpenAt(p, n) == [page |-> p, version |-> n]
Written == {p \in PageIds : book[p].key # None}
HasKey(k) == \E p \in Written : book[p].key = k

Read(s) ==
    /\ \/ \E p \in Written : opened' = [opened EXCEPT ![s] = OpenAt(p, book[p].last)]
       \/ opened' = [opened EXCEPT ![s] = Nothing]
    /\ UNCHANGED book

(* The first version of a page that nobody has. *)
Create(s, p, k) ==
    /\ p \notin Written /\ ~HasKey(k)
    /\ opened' = [opened EXCEPT ![s] = OpenAt(p, 1)]
    /\ \E d \in Draft :
          book' = [book EXCEPT ![p] = [key |-> k, last |-> 1, drafts |-> [v \in 1 .. 1 |-> d]]]

(* The next version of page p.  Versions are compared by number: a session *)
(* that has another page open at the same number gets through, one that    *)
(* has an older version of p does not.                                     *)
Longer(page, d) ==
    LET n == page.last + 1
    IN [key |-> page.key, last |-> n,
        drafts |-> [v \in 1 .. n |-> IF v = n THEN d ELSE page.drafts[v]]]
Append(s, p) ==
    /\ p \in Written /\ opened[s].version = book[p].last
    /\ opened' = [opened EXCEPT ![s] = OpenAt(p, book[p].last + 1)]
    /\ \E d \in Draft : book' = [book EXCEPT ![p] = Longer(@, d)]

Remove(p) ==
    /\ p \in Written
    /\ book' = [book EXCEPT ![p] = Absent]
    /\ UNCHANGED opened

HInit == book = [p \in PageIds |-> Absent] /\ opened = [s \in Sessions |-> Nothing]

HNext ==
    \/ \E s \in Sessions :
          \/ Read(s)
          \/ \E p \in PageIds : Append(s, p) \/ \E k \in Keys : Create(s, p, k)
    \/ \E p \in PageIds : Remove(p)

HSpec == HInit /\ [][HNext]_hvars
=============================================================================
