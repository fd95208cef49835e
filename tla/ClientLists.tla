---------------------------- MODULE ClientLists ----------------------------
(***************************************************************************)
(* The singly linked lists dwm keeps its clients in (Client.next and       *)
(* Client.snext), as sequences.  The operators are the loops of dwm.c that *)
(* search, unlink and link; they know nothing of windows or monitors.      *)
(* They are written without RECURSIVE operators so that the lemmas of      *)
(* ClientListsProofs apply to the very definitions that TLC evaluates.     *)
(***************************************************************************)
EXTENDS Integers, FiniteSets, SequencesExt

\* The position of c in q, a list that holds c.
Index(q, c) == CHOOSE i \in DOMAIN q : q[i] = c

(***************************************************************************)
(* for (tc = &head; *tc && *tc != c; tc = &( *tc)->next); *tc = c->next;   *)
(* A client that is in no list has a null next: it unlinks nothing.        *)
(***************************************************************************)
Without(q, c) == IF c \in Range(q) THEN RemoveAt(q, Index(q, c)) ELSE q

\* The clients of q behind c, and those in front of it: none, and all, when
\* c is not in q.
Behind(q, c) ==
    IF c \in Range(q) THEN SubSeq(q, Index(q, c) + 1, Len(q)) ELSE << >>
InFront(q, c) ==
    IF c \in Range(q) THEN SubSeq(q, 1, Index(q, c) - 1) ELSE q

\* The first and the last client of q that are in the set S.
First(q, S) ==
    q[CHOOSE i \in DOMAIN q : q[i] \in S /\ \A j \in 1..(i - 1) : q[j] \notin S]
FirstOr(q, S, none) == IF Range(q) \cap S = {} THEN none ELSE First(q, S)
LastOr(q, S, none) == FirstOr(Reverse(q), S, none)

(***************************************************************************)
(* The clients of q that are in S, in the order of q: what a loop over the *)
(* list collects.  The k-th of them is the one with k of them at or before *)
(* its position.                                                           *)
(***************************************************************************)
Rank(I, i) == Cardinality({j \in I : j <= i})
Keep(q, S) ==
    LET I == {i \in DOMAIN q : q[i] \in S}
    IN  [k \in 1..Cardinality(I) |-> q[CHOOSE i \in I : Rank(I, i) = k]]

\* Two orders agree on the clients of S.
SameOrder(q, r, S) ==
    \A c, d \in S \cap Range(q) \cap Range(r) :
        Index(q, c) < Index(q, d) <=> Index(r, c) < Index(r, d)
=============================================================================
