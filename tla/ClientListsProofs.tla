------------------------- MODULE ClientListsProofs -------------------------
(***************************************************************************)
(* What the list operators of ClientLists do to the type, the members and  *)
(* the distinctness of a list: all that the proofs about Dwm need of them. *)
(***************************************************************************)
EXTENDS ClientLists, SequenceTheorems, FiniteSetTheorems, WellFoundedInduction, TLAPS

\* A list of distinct clients of S.
Distinct(S) == {q \in Seq(S) : IsInjective(q)}

-----------------------------------------------------------------------------
(* Positions.                                                              *)

\* A nonempty set of naturals has a least element.
LEMMA LeastNatural ==
    ASSUME NEW T, T \subseteq Nat, T # {}
    PROVE  \E x \in T : \A y \in T : x <= y
<1> DEFINE Upto(n) == 0..n
           W == {Upto(n) : n \in T}
<1>1. \A n \in Nat : IsFiniteSet(Upto(n)) /\ Upto(n) \in SUBSET Nat
  BY FS_Interval
<1>2. W # {} /\ W \subseteq FiniteSubsetsOf(Nat)
  BY <1>1 DEF FiniteSubsetsOf
<1>3. PICK X \in W : \A Y \in W : ~ (<<Y, X>> \in StrictSubsetOrdering(Nat))
  BY <1>2, WFMin, FS_StrictSubsetOrderingWellFounded
<1>4. PICK x \in T : X = Upto(x)
  BY <1>3
<1>5. ASSUME NEW y \in T, y < x
      PROVE  FALSE
  <2>1. Upto(y) \subseteq Upto(x) /\ Upto(y) # Upto(x)
    BY <1>5
  <2>2. <<Upto(y), X>> \in StrictSubsetOrdering(Nat)
    BY <1>2, <1>4, <2>1 DEF StrictSubsetOrdering, FiniteSubsetsOf
  <2> QED  BY <1>3, <2>2
<1> QED  BY <1>5

\* The members of a list are at the positions of its domain.
LEMMA RangeIs ==
    ASSUME NEW S, NEW q \in Seq(S)
    PROVE  /\ DOMAIN q = 1..Len(q) /\ Len(q) \in Nat
           /\ Range(q) \subseteq S
           /\ \A c : c \in Range(q) <=> \E i \in 1..Len(q) : q[i] = c
BY LenProperties, RangeOfSeq DEF Range

\* Index finds the client in a list that holds it.
LEMMA IndexIn ==
    ASSUME NEW S, NEW q \in Seq(S), NEW c \in Range(q)
    PROVE  Index(q, c) \in 1..Len(q) /\ q[Index(q, c)] = c
BY RangeIs DEF Index

\* A list that has a member of S has a first one.
LEMMA FirstOrSome ==
    ASSUME NEW U, NEW q \in Seq(U), NEW S, Range(q) \cap S # {}, NEW none
    PROVE  FirstOr(q, S, none) \in Range(q) \cap S
<1> DEFINE T == {i \in 1..Len(q) : q[i] \in S}
<1>1. T # {} /\ T \subseteq Nat
  BY RangeIs
<1>2. PICK i \in T : \A j \in T : i <= j
  BY <1>1, LeastNatural
<1>3. i \in DOMAIN q /\ q[i] \in S /\ \A j \in 1..(i - 1) : q[j] \notin S
  BY <1>2, RangeIs
<1>4. First(q, S) \in Range(q) \cap S
  BY <1>3, RangeIs DEF First
<1> QED  BY <1>4 DEF FirstOr

\* First finds a member of S in a list that has one.
LEMMA FirstOrIn ==
    ASSUME NEW U, NEW q \in Seq(U), NEW S, NEW none
    PROVE  FirstOr(q, S, none) \in (Range(q) \cap S) \cup {none}
<1>1. CASE Range(q) \cap S = {}
  BY <1>1 DEF FirstOr
<1>2. CASE Range(q) \cap S # {}
  BY <1>2, FirstOrSome
<1> QED  BY <1>1, <1>2

\* The same from the other end: LastOr searches the list reversed.
LEMMA ReverseIs ==
    ASSUME NEW U, NEW q \in Seq(U)
    PROVE  /\ Reverse(q) \in Seq(U)
           /\ Range(Reverse(q)) = Range(q)
           /\ IsInjective(q) => IsInjective(Reverse(q))
<1>1. Reverse(q) \in [1..Len(q) -> U] /\ DOMAIN Reverse(q) = 1..Len(q)
  BY RangeIs, ElementOfSeq DEF Reverse
<1>2. Reverse(q) \in Seq(U)
  BY <1>1, RangeIs, SeqDef
<1>3. \A i \in 1..Len(q) :
          /\ (Len(q) - i) + 1 \in 1..Len(q)
          /\ Reverse(q)[i] = q[(Len(q) - i) + 1]
          /\ q[i] = Reverse(q)[(Len(q) - i) + 1]
  BY RangeIs DEF Reverse
<1>4. Range(Reverse(q)) = Range(q)
  <2>1. ASSUME NEW c \in Range(Reverse(q))
        PROVE  c \in Range(q)
    BY <1>1, <1>3, RangeIs DEF Range
  <2>2. ASSUME NEW c \in Range(q)
        PROVE  c \in Range(Reverse(q))
    BY <1>1, <1>3, RangeIs DEF Range
  <2> QED  BY <2>1, <2>2
<1>5. IsInjective(q) => IsInjective(Reverse(q))
  BY <1>1, <1>3, RangeIs DEF IsInjective
<1> QED  BY <1>2, <1>4, <1>5

\* The last match is found in the list as well.
LEMMA LastOrIn ==
    ASSUME NEW U, NEW q \in Seq(U), NEW S, NEW none
    PROVE  LastOr(q, S, none) \in (Range(q) \cap S) \cup {none}
BY ReverseIs, FirstOrIn DEF LastOr

-----------------------------------------------------------------------------
(* Linking and unlinking.                                                  *)

\* Two lists without a common member, one after the other.
LEMMA ConcatDistinct ==
    ASSUME NEW S, NEW q \in Distinct(S), NEW r \in Distinct(S),
           Range(q) \cap Range(r) = {}
    PROVE  q \o r \in Distinct(S) /\ Range(q \o r) = Range(q) \cup Range(r)
<1>1. q \in Seq(S) /\ r \in Seq(S)
  BY DEF Distinct
<1>2. q \o r \in Seq(S) /\ Range(q \o r) = Range(q) \cup Range(r)
  BY <1>1, ConcatProperties, RangeConcatenation
<1> DEFINE t == q \o r
           k == Len(q)
<1>3. /\ k \in Nat /\ Len(r) \in Nat
      /\ DOMAIN q = 1..k /\ DOMAIN r = 1..Len(r) /\ DOMAIN t = 1..(k + Len(r))
      /\ \A i \in 1..k : t[i] = q[i] /\ q[i] \in Range(q)
      /\ \A i \in k + 1..k + Len(r) :
             i - k \in 1..Len(r) /\ t[i] = r[i - k] /\ r[i - k] \in Range(r)
  <2>1. /\ k \in Nat /\ Len(r) \in Nat
        /\ DOMAIN q = 1..k /\ DOMAIN r = 1..Len(r) /\ DOMAIN t = 1..(k + Len(r))
    BY <1>1, <1>2, RangeIs, ConcatProperties
  <2>2. \A i \in 1..(k + Len(r)) : t[i] = IF i <= k THEN q[i] ELSE r[i - k]
    BY <1>1, ConcatProperties
  <2> HIDE DEF t, k
  <2>3. \A i \in 1..k : t[i] = q[i] /\ q[i] \in Range(q)
    BY <1>1, <2>1, <2>2, RangeIs
  <2>4. ASSUME NEW i \in k + 1..k + Len(r)
        PROVE  i - k \in 1..Len(r) /\ t[i] = r[i - k] /\ r[i - k] \in Range(r)
    <3>1. i - k \in 1..Len(r) /\ i \in 1..(k + Len(r)) /\ ~(i <= k)
      BY <2>1
    <3> QED  BY <1>1, <2>2, <3>1, RangeIs
  <2> QED  BY <2>1, <2>3, <2>4
<1> HIDE DEF t, k
<1>4. ASSUME NEW i \in 1..(k + Len(r)), NEW j \in 1..(k + Len(r)), t[i] = t[j]
      PROVE  i = j
  <2>1. CASE i \in 1..k /\ j \in 1..k
    BY <1>3, <1>4, <2>1 DEF Distinct, IsInjective
  <2>2. CASE i \in k + 1..k + Len(r) /\ j \in k + 1..k + Len(r)
    <3>1. r[i - k] = r[j - k] /\ i - k \in DOMAIN r /\ j - k \in DOMAIN r
      BY <1>3, <1>4, <2>2
    <3>2. i - k = j - k
      BY <3>1 DEF Distinct, IsInjective
    <3> QED  BY <1>3, <3>2
  <2>3. CASE i \in 1..k /\ j \in k + 1..k + Len(r)
    BY <1>3, <1>4, <2>3
  <2>4. CASE i \in k + 1..k + Len(r) /\ j \in 1..k
    BY <1>3, <1>4, <2>4
  <2> QED  BY <1>3, <2>1, <2>2, <2>3, <2>4
<1>5. IsInjective(t)
  BY <1>3, <1>4 DEF IsInjective
<1> QED  BY <1>2, <1>5 DEF Distinct, t

\* A list of one client.
LEMMA SingletonDistinct ==
    ASSUME NEW S, NEW c \in S
    PROVE  <<c>> \in Distinct(S) /\ Range(<<c>>) = {c}
<1>1. <<c>> \in Seq(S) /\ DOMAIN <<c>> = 1..1 /\ <<c>>[1] = c
  OBVIOUS
<1> QED  BY <1>1 DEF Distinct, IsInjective, Range

\* A part of a list.
LEMMA SubSeqDistinct ==
    ASSUME NEW S, NEW q \in Distinct(S), NEW m \in 1..(Len(q) + 1), NEW n \in 0..Len(q)
    PROVE  /\ SubSeq(q, m, n) \in Distinct(S)
           /\ \A c : c \in Range(SubSeq(q, m, n)) <=> \E i \in m..n : q[i] = c
<1>1. q \in Seq(S) /\ Len(q) \in Nat /\ DOMAIN q = 1..Len(q)
  BY RangeIs DEF Distinct
<1> DEFINE r == SubSeq(q, m, n)
<1>2. \A i \in m..n : i \in 1..Len(q) /\ q[i] \in S
  BY <1>1, ElementOfSeq
<1>3. /\ r \in Seq(S)
      /\ Len(r) = IF m <= n THEN n - m + 1 ELSE 0
      /\ \A i \in 1..(n - m + 1) : r[i] = q[m + i - 1]
  BY <1>1, <1>2, SubSeqProperties
<1> HIDE DEF r
<1>4. DOMAIN r = 1..(n - m + 1) /\ Len(r) \in Nat /\ DOMAIN r = 1..Len(r)
  BY <1>1, <1>3, RangeIs
<1>5. IsInjective(r)
  <2> SUFFICES ASSUME NEW i \in 1..(n - m + 1), NEW j \in 1..(n - m + 1), r[i] = r[j]
               PROVE  i = j
    BY <1>4 DEF IsInjective
  <2>1. m + i - 1 \in DOMAIN q /\ m + j - 1 \in DOMAIN q
    BY <1>1
  <2>2. q[m + i - 1] = q[m + j - 1]
    BY <1>3
  <2>3. m + i - 1 = m + j - 1
    BY <2>1, <2>2 DEF Distinct, IsInjective
  <2> QED  BY <1>1, <2>3
<1>6. ASSUME NEW c
      PROVE  c \in Range(r) <=> \E i \in m..n : q[i] = c
  <2>1. ASSUME NEW i \in 1..(n - m + 1), r[i] = c
        PROVE  \E j \in m..n : q[j] = c
    <3>1. m + i - 1 \in m..n
      BY <1>1
    <3> QED  BY <1>3, <2>1, <3>1
  <2>2. ASSUME NEW i \in m..n, q[i] = c
        PROVE  \E j \in 1..(n - m + 1) : r[j] = c
    <3>1. i - m + 1 \in 1..(n - m + 1) /\ m + (i - m + 1) - 1 = i
      BY <1>1
    <3> QED  BY <1>3, <2>2, <3>1
  <2> QED  BY <1>4, <2>1, <2>2 DEF Range
<1> QED  BY <1>3, <1>5, <1>6 DEF Distinct, r

\* attach and attachstack: a new first member.
LEMMA ConsDistinct ==
    ASSUME NEW S, NEW q \in Distinct(S), NEW c \in S, c \notin Range(q)
    PROVE  Cons(c, q) \in Distinct(S) /\ Range(Cons(c, q)) = {c} \cup Range(q)
BY SingletonDistinct, ConcatDistinct DEF Cons

\* A member of S at the head of a list is the first of it.
LEMMA FirstOrCons ==
    ASSUME NEW U, NEW q \in Seq(U), NEW c \in U, NEW S, c \in S, NEW none
    PROVE  FirstOr(Cons(c, q), S, none) = c
<1> DEFINE r == Cons(c, q)
           Is(i) == r[i] \in S /\ \A j \in 1..(i - 1) : r[j] \notin S
<1>1. /\ Len(q) \in Nat /\ DOMAIN r = 1..(Len(q) + 1) /\ r[1] = c
      /\ r \in Seq(U)
  <2>1. <<c>> \in Seq(U) /\ Len(<<c>>) = 1 /\ <<c>>[1] = c /\ Len(q) \in Nat
    BY RangeIs
  <2> DEFINE one == <<c>>
  <2>2. r = one \o q
    BY DEF Cons
  <2> HIDE DEF one, r
  <2>3. r \in Seq(U) /\ Len(r) = 1 + Len(q) /\ r[1] = one[1]
    BY <2>1, <2>2, ConcatProperties DEF one
  <2> QED  BY <2>1, <2>3, RangeIs DEF one
<1> HIDE DEF r
<1>2. 1 \in DOMAIN r /\ Is(1)
  BY <1>1
<1>3. \A i \in DOMAIN r : Is(i) => i = 1
  BY <1>1
<1>4. (CHOOSE i \in DOMAIN r : Is(i)) = 1
  BY <1>2, <1>3
<1>5. First(r, S) = c
  BY <1>1, <1>4 DEF First
<1>6. c \in Range(r)
  BY <1>1, <1>2 DEF Range
<1> QED  BY <1>5, <1>6 DEF FirstOr, r

\* enqueue and enqueuestack: a new last member.
LEMMA AppendDistinct ==
    ASSUME NEW S, NEW q \in Distinct(S), NEW c \in S, c \notin Range(q)
    PROVE  /\ Append(q, c) \in Distinct(S)
           /\ Range(Append(q, c)) = Range(q) \cup {c}
<1>1. Append(q, c) = q \o <<c>>
  BY AppendIsConcat DEF Distinct
<1> QED  BY <1>1, SingletonDistinct, ConcatDistinct

\* A list cut in two.
LEMMA CutDistinct ==
    ASSUME NEW S, NEW q \in Distinct(S), NEW k \in 0..Len(q), NEW n \in k + 1..Len(q) + 1
    PROVE  /\ SubSeq(q, 1, k) \in Distinct(S)
           /\ SubSeq(q, n, Len(q)) \in Distinct(S)
           /\ Range(SubSeq(q, 1, k)) \cap Range(SubSeq(q, n, Len(q))) = {}
           /\ \A c : c \in Range(SubSeq(q, 1, k)) \cup Range(SubSeq(q, n, Len(q)))
                 <=> \E i \in (1..k) \cup (n..Len(q)) : q[i] = c
<1>1. q \in Seq(S) /\ Len(q) \in Nat /\ DOMAIN q = 1..Len(q)
  BY RangeIs DEF Distinct
<1>2. /\ 1 \in 1..(Len(q) + 1) /\ k \in 0..Len(q)
      /\ n \in 1..(Len(q) + 1) /\ Len(q) \in 0..Len(q)
  BY <1>1
<1>3. /\ SubSeq(q, 1, k) \in Distinct(S)
      /\ \A c : c \in Range(SubSeq(q, 1, k)) <=> \E i \in 1..k : q[i] = c
  BY <1>2, SubSeqDistinct
<1>4. /\ SubSeq(q, n, Len(q)) \in Distinct(S)
      /\ \A c : c \in Range(SubSeq(q, n, Len(q))) <=> \E i \in n..Len(q) : q[i] = c
  BY <1>2, SubSeqDistinct
<1>5. ASSUME NEW i \in 1..k, NEW j \in n..Len(q)
      PROVE  q[i] # q[j]
  <2>1. i \in DOMAIN q /\ j \in DOMAIN q /\ i # j
    BY <1>1
  <2> QED  BY <2>1 DEF Distinct, IsInjective
<1> QED  BY <1>3, <1>4, <1>5

\* Linking at a position.
LEMMA InsertAtDistinct ==
    ASSUME NEW S, NEW q \in Distinct(S), NEW c \in S, c \notin Range(q),
           NEW i \in 1..(Len(q) + 1)
    PROVE  /\ InsertAt(q, i, c) \in Distinct(S)
           /\ Range(InsertAt(q, i, c)) = Range(q) \cup {c}
<1>1. q \in Seq(S) /\ Len(q) \in Nat
  BY RangeIs DEF Distinct
<1> DEFINE a == SubSeq(q, 1, i - 1)
           b == SubSeq(q, i, Len(q))
<1>2. i - 1 \in 0..Len(q) /\ i \in (i - 1) + 1..Len(q) + 1
  BY <1>1
<1>3. /\ a \in Distinct(S) /\ b \in Distinct(S) /\ Range(a) \cap Range(b) = {}
      /\ \A d : d \in Range(a) \cup Range(b)
            <=> \E j \in (1..(i - 1)) \cup (i..Len(q)) : q[j] = d
  BY <1>2, CutDistinct
<1>4. (1..(i - 1)) \cup (i..Len(q)) = 1..Len(q)
  BY <1>1
<1>5. Range(a) \cup Range(b) = Range(q)
  BY <1>1, <1>3, <1>4, RangeIs
<1> HIDE DEF a, b
<1>6. a \o <<c>> \in Distinct(S) /\ Range(a \o <<c>>) = Range(a) \cup {c}
  BY SMTT(30), <1>3, <1>5, SingletonDistinct, ConcatDistinct
<1>7. /\ (a \o <<c>>) \o b \in Distinct(S)
      /\ Range((a \o <<c>>) \o b) = Range(a) \cup {c} \cup Range(b)
  BY <1>3, <1>5, <1>6, ConcatDistinct
<1> QED  BY <1>5, <1>7 DEF InsertAt, a, b

\* detach and detachstack: the client goes, the others stay.
LEMMA WithoutDistinct ==
    ASSUME NEW S, NEW q \in Distinct(S), NEW c
    PROVE  Without(q, c) \in Distinct(S) /\ Range(Without(q, c)) = Range(q) \ {c}
<1>1. CASE c \notin Range(q)
  BY <1>1 DEF Without
<1>2. CASE c \in Range(q)
  <2>1. q \in Seq(S) /\ Len(q) \in Nat /\ DOMAIN q = 1..Len(q)
    BY RangeIs DEF Distinct
  <2> DEFINE k == Index(q, c)
  <2>2. k \in 1..Len(q) /\ q[k] = c
    BY <1>2, <2>1, IndexIn
  <2> HIDE DEF k
  <2> DEFINE a == SubSeq(q, 1, k - 1)
             b == SubSeq(q, k + 1, Len(q))
  <2>3. k - 1 \in 0..Len(q) /\ k + 1 \in (k - 1) + 1..Len(q) + 1
    BY <2>1, <2>2
  <2>4. /\ a \in Distinct(S) /\ b \in Distinct(S) /\ Range(a) \cap Range(b) = {}
        /\ \A d : d \in Range(a) \cup Range(b)
              <=> \E j \in (1..(k - 1)) \cup (k + 1..Len(q)) : q[j] = d
    BY <2>3, CutDistinct
  <2>5. (1..(k - 1)) \cup (k + 1..Len(q)) = (1..Len(q)) \ {k}
    BY <2>1, <2>2
  <2>6. \A j \in 1..Len(q) : q[j] = c => j = k
    BY <2>1, <2>2 DEF Distinct, IsInjective
  <2>7. \A d : d \in Range(q) <=> \E j \in 1..Len(q) : q[j] = d
    BY <2>1, RangeIs
  <2>8. Range(a) \cup Range(b) = Range(q) \ {c}
    BY <2>2, <2>4, <2>5, <2>6, <2>7
  <2> HIDE DEF a, b
  <2>9. a \o b \in Distinct(S) /\ Range(a \o b) = Range(q) \ {c}
    BY <2>4, <2>8, ConcatDistinct
  <2> QED  BY <1>2, <2>9 DEF Without, RemoveAt, a, b, k
<1> QED  BY <1>1, <1>2

-----------------------------------------------------------------------------
(* Walking along a list.                                                   *)

\* What is behind and in front of a client in a list is in the list.
LEMMA AroundIn ==
    ASSUME NEW S, NEW q \in Seq(S), NEW c
    PROVE  /\ Behind(q, c) \in Seq(S) /\ Range(Behind(q, c)) \subseteq Range(q)
           /\ InFront(q, c) \in Seq(S) /\ Range(InFront(q, c)) \subseteq Range(q)
<1>1. CASE c \notin Range(q)
  BY <1>1, EmptySeq DEF Behind, InFront, Range
<1>2. CASE c \in Range(q)
  <2>1. Len(q) \in Nat /\ DOMAIN q = 1..Len(q)
    BY RangeIs
  <2> DEFINE k == Index(q, c)
  <2>2. k \in 1..Len(q)
    BY <1>2, IndexIn
  <2> HIDE DEF k
  <2>3. ASSUME NEW m \in 1..(Len(q) + 1), NEW n \in 0..Len(q)
        PROVE  SubSeq(q, m, n) \in Seq(S) /\ Range(SubSeq(q, m, n)) \subseteq Range(q)
    <3>1. \A i \in m..n : i \in 1..Len(q) /\ q[i] \in S /\ q[i] \in Range(q)
      BY <2>1, ElementOfSeq, RangeIs
    <3>2. SubSeq(q, m, n) \in Seq(S)
      BY <3>1, SubSeqProperties
    <3>3. SubSeq(q, m, n) \in Seq(Range(q))
      BY <3>1, SubSeqProperties
    <3> QED  BY <3>2, <3>3, RangeOfSeq
  <2>4. k + 1 \in 1..(Len(q) + 1) /\ Len(q) \in 0..Len(q)
    BY <2>1, <2>2
  <2>5. 1 \in 1..(Len(q) + 1) /\ k - 1 \in 0..Len(q)
    BY <2>1, <2>2
  <2>6. /\ SubSeq(q, k + 1, Len(q)) \in Seq(S)
        /\ Range(SubSeq(q, k + 1, Len(q))) \subseteq Range(q)
    BY <2>3, <2>4
  <2>7. /\ SubSeq(q, 1, k - 1) \in Seq(S)
        /\ Range(SubSeq(q, 1, k - 1)) \subseteq Range(q)
    BY <2>3, <2>5
  <2> QED  BY <1>2, <2>6, <2>7 DEF Behind, InFront, k
<1> QED  BY <1>1, <1>2

\* Each position of a finite set of positions has a rank of its own, and
\* every number up to the size of the set is the rank of one.
LEMMA RankBijective ==
    ASSUME NEW n \in Nat, NEW I \in SUBSET (1..n)
    PROVE  /\ Cardinality(I) \in Nat
           /\ \A i \in I : Rank(I, i) \in 1..Cardinality(I)
           /\ \A i, j \in I : Rank(I, i) = Rank(I, j) => i = j
           /\ \A k \in 1..Cardinality(I) : \E i \in I : Rank(I, i) = k
<1>1. IsFiniteSet(I) /\ Cardinality(I) \in Nat
  <2>1. IsFiniteSet(1..n)
    BY FS_Interval
  <2>2. IsFiniteSet(I)
    BY <2>1, FS_Subset
  <2> QED  BY <2>2, FS_CardinalityType
<1> DEFINE B(i) == {j \in I : j <= i}
<1>2. ASSUME NEW i \in I
      PROVE  /\ IsFiniteSet(B(i)) /\ Cardinality(B(i)) \in Nat
             /\ Cardinality(B(i)) <= Cardinality(I) /\ Cardinality(B(i)) >= 1
  <2>1. B(i) \in SUBSET I /\ i \in B(i)
    OBVIOUS
  <2>2. IsFiniteSet(B(i)) /\ Cardinality(B(i)) <= Cardinality(I)
    BY <1>1, <2>1, FS_Subset
  <2>3. Cardinality(B(i)) \in Nat /\ Cardinality(B(i)) # 0
    BY <2>1, <2>2, FS_CardinalityType, FS_EmptySet
  <2> QED  BY <2>2, <2>3
<1>3. ASSUME NEW i \in I, NEW j \in I, i < j
      PROVE  Cardinality(B(i)) # Cardinality(B(j))
  <2>1. \A h \in I : h \in Int
    OBVIOUS
  <2>2. B(i) \in SUBSET B(j)
    <3>1. \A h \in I : h <= i => h <= j
      BY <1>3, <2>1
    <3> QED  BY <3>1
  <2>3. j \in B(j)
    BY <2>1
  <2>4. j \notin B(i)
    BY <1>3, <2>1
  <2> QED  BY <1>2, <2>2, <2>3, <2>4, FS_Subset
<1>4. \A i, j \in I : Cardinality(B(i)) = Cardinality(B(j)) => i = j
  <2> SUFFICES ASSUME NEW i \in I, NEW j \in I, Cardinality(B(i)) = Cardinality(B(j))
               PROVE  i = j
    OBVIOUS
  <2>1. i < j \/ j < i \/ i = j
    OBVIOUS
  <2> QED  BY <1>3, <2>1
<1> DEFINE f == [i \in I |-> Cardinality(B(i))]
<1>5. f \in Injection(I, 1..Cardinality(I))
  <2>1. f \in [I -> 1..Cardinality(I)]
    BY <1>1, <1>2
  <2>2. IsInjective(f)
    BY <1>4 DEF IsInjective
  <2> QED  BY <2>1, <2>2 DEF Injection
<1>6. IsFiniteSet(1..Cardinality(I)) /\ Cardinality(1..Cardinality(I)) = Cardinality(I)
  BY <1>1, FS_Interval
<1>7. f \in Surjection(I, 1..Cardinality(I))
  BY <1>5, <1>6, FS_Injection
<1>8. \A k \in 1..Cardinality(I) : \E i \in I : Cardinality(B(i)) = k
  BY <1>7 DEF Surjection
<1>9. \A i : Rank(I, i) = Cardinality(B(i))
  BY DEF Rank
<1> HIDE DEF B
<1> QED  BY <1>1, <1>2, <1>4, <1>8, <1>9

\* A loop that collects the clients of a list that are in S has all of them
\* at the end, each once.
LEMMA KeepDistinct ==
    ASSUME NEW U, NEW q \in Distinct(U), NEW S
    PROVE  Keep(q, S) \in Distinct(U) /\ Range(Keep(q, S)) = Range(q) \cap S
<1>1. q \in Seq(U) /\ Len(q) \in Nat /\ DOMAIN q = 1..Len(q)
  BY RangeIs DEF Distinct
<1> DEFINE I == {i \in DOMAIN q : q[i] \in S}
           n == Cardinality(I)
           at(k) == CHOOSE i \in I : Rank(I, i) = k
           r == [k \in 1..n |-> q[at(k)]]
<1>2. I \in SUBSET (1..Len(q))
  BY <1>1
<1>3. /\ n \in Nat
      /\ \A i \in I : Rank(I, i) \in 1..n
      /\ \A i, j \in I : Rank(I, i) = Rank(I, j) => i = j
      /\ \A k \in 1..n : \E i \in I : Rank(I, i) = k
  BY <1>1, <1>2, RankBijective
<1>4. /\ \A k \in 1..n : at(k) \in I /\ Rank(I, at(k)) = k
      /\ \A i \in I : at(Rank(I, i)) = i
  BY <1>3
<1>5. \A i \in I : i \in 1..Len(q) /\ q[i] \in S /\ q[i] \in U /\ q[i] \in Range(q)
  BY <1>1, <1>2, ElementOfSeq, RangeIs
<1>6. \A c \in Range(q) \cap S : \E i \in I : q[i] = c
  BY <1>1, RangeIs
<1>7. \A i, j \in I : q[i] = q[j] => i = j
  BY <1>1, <1>2 DEF Distinct, IsInjective
<1>8. Keep(q, S) = r
  BY DEF Keep
<1> HIDE DEF I, n, at
<1>9. r \in [1..n -> U] /\ DOMAIN r = 1..n
  BY <1>4, <1>5
<1>10. r \in Seq(U)
  BY <1>3, <1>9, SeqDef
<1>11. IsInjective(r)
  BY <1>4, <1>7 DEF IsInjective
<1>12. Range(r) = Range(q) \cap S
  <2>1. ASSUME NEW c \in Range(r)
        PROVE  c \in Range(q) \cap S
    BY <1>4, <1>5, <1>9 DEF Range
  <2>2. ASSUME NEW c \in Range(q) \cap S
        PROVE  c \in Range(r)
    <3>1. PICK i \in I : q[i] = c
      BY <1>6
    <3>2. Rank(I, i) \in DOMAIN r /\ r[Rank(I, i)] = c
      BY <1>3, <1>4, <3>1
    <3> QED  BY <3>2 DEF Range
  <2> QED  BY <2>1, <2>2
<1> QED  BY <1>8, <1>10, <1>11, <1>12 DEF Distinct

\* A loop collects as many clients as there are positions that hold one.
LEMMA KeepLength ==
    ASSUME NEW U, NEW q \in Seq(U), NEW S
    PROVE  Len(Keep(q, S)) = Cardinality({i \in DOMAIN q : q[i] \in S})
<1> DEFINE I == {i \in DOMAIN q : q[i] \in S}
           n == Cardinality(I)
           at(k) == q[CHOOSE i \in I : Rank(I, i) = k]
<1>1. DOMAIN q = 1..Len(q) /\ Len(q) \in Nat
  BY RangeIs
<1>2. I \in SUBSET (1..Len(q))
  BY <1>1
<1>3. n \in Nat
  BY <1>1, <1>2, RankBijective
<1>4. Keep(q, S) = [k \in 1..n |-> at(k)]
  BY DEF Keep
<1> HIDE DEF n, at
<1>5. Len([k \in 1..n |-> at(k)]) = n
  BY <1>3
<1> QED  BY <1>4, <1>5 DEF n

-----------------------------------------------------------------------------
(* The order of a list.                                                    *)

\* A client of a list without repetitions is where Index says, only there.
LEMMA IndexIs ==
    ASSUME NEW S, NEW q \in Distinct(S), NEW i \in 1..Len(q)
    PROVE  q[i] \in Range(q) /\ Index(q, q[i]) = i
<1>1. q \in Seq(S) /\ DOMAIN q = 1..Len(q) /\ IsInjective(q)
  BY RangeIs DEF Distinct
<1>2. q[i] \in Range(q)
  BY <1>1, RangeIs
<1>3. Index(q, q[i]) \in 1..Len(q) /\ q[Index(q, q[i])] = q[i]
  BY <1>1, <1>2, IndexIn
<1> QED  BY <1>1, <1>2, <1>3 DEF IsInjective

\* One direction is enough, as of two clients one is in front.
LEMMA SameOrderFrom ==
    ASSUME NEW U, NEW q \in Distinct(U), NEW r \in Distinct(U), NEW S,
           \A c, d \in S \cap Range(q) \cap Range(r) :
               Index(q, c) < Index(q, d) => Index(r, c) < Index(r, d)
    PROVE  SameOrder(q, r, S)
<1>1. q \in Seq(U) /\ r \in Seq(U) /\ Len(q) \in Nat /\ Len(r) \in Nat
  BY RangeIs DEF Distinct
<1> SUFFICES ASSUME NEW c \in S \cap Range(q) \cap Range(r),
                    NEW d \in S \cap Range(q) \cap Range(r)
             PROVE  Index(q, c) < Index(q, d) <=> Index(r, c) < Index(r, d)
  BY DEF SameOrder
<1>2. /\ Index(q, c) \in 1..Len(q) /\ q[Index(q, c)] = c
      /\ Index(q, d) \in 1..Len(q) /\ q[Index(q, d)] = d
      /\ Index(r, c) \in 1..Len(r) /\ Index(r, d) \in 1..Len(r)
  BY <1>1, IndexIn
<1>3. /\ Index(q, c) < Index(q, d) => Index(r, c) < Index(r, d)
      /\ Index(q, d) < Index(q, c) => Index(r, d) < Index(r, c)
  OBVIOUS
<1>4. CASE Index(q, c) = Index(q, d)
  <2>1. c = d
    BY <1>2, <1>4
  <2> QED  BY <1>1, <1>2, <2>1
<1>5. CASE Index(q, c) # Index(q, d)
  BY <1>1, <1>2, <1>3, <1>5
<1> QED  BY <1>4, <1>5

\* One change of the order after the other.
LEMMA SameOrderTransitive ==
    ASSUME NEW p, NEW q, NEW r, NEW S, SameOrder(p, q, S), SameOrder(q, r, S),
           S \cap Range(p) \cap Range(r) \subseteq Range(q)
    PROVE  SameOrder(p, r, S)
BY DEF SameOrder

LEMMA SameOrderItself ==
    ASSUME NEW q, NEW S
    PROVE  SameOrder(q, q, S)
BY DEF SameOrder

LEMMA SameOrderFewer ==
    ASSUME NEW q, NEW r, NEW S, NEW T, SameOrder(q, r, S), T \subseteq S
    PROVE  SameOrder(q, r, T)
BY DEF SameOrder

\* A new first member moves the others back by one.
LEMMA ConsIndex ==
    ASSUME NEW U, NEW q \in Distinct(U), NEW c \in U, c \notin Range(q)
    PROVE  /\ Index(Cons(c, q), c) = 1
           /\ \A d \in Range(q) : Index(Cons(c, q), d) = Index(q, d) + 1
<1> DEFINE r == Cons(c, q)
<1>1. q \in Seq(U) /\ Len(q) \in Nat /\ DOMAIN q = 1..Len(q)
  BY RangeIs DEF Distinct
<1>2. r \in Distinct(U)
  BY ConsDistinct
<1>3. Len(r) = Len(q) + 1 /\ r[1] = c /\ \A i \in 1..Len(q) : r[i + 1] = q[i]
  <2> DEFINE one == <<c>>
  <2>1. one \in Seq(U) /\ Len(one) = 1 /\ one[1] = c
    OBVIOUS
  <2>2. r = one \o q
    BY DEF Cons
  <2> HIDE DEF one, r
  <2>3. /\ Len(r) = 1 + Len(q)
        /\ \A i \in 1..(1 + Len(q)) : r[i] = IF i <= 1 THEN one[i] ELSE q[i - 1]
    BY <1>1, <2>1, <2>2, ConcatProperties
  <2>4. ASSUME NEW i \in 1..Len(q)
        PROVE  r[i + 1] = q[i]
    <3>1. i + 1 \in 1..(1 + Len(q)) /\ ~(i + 1 <= 1) /\ (i + 1) - 1 = i
      BY <1>1
    <3> QED  BY <2>3, <3>1
  <2> QED  BY <1>1, <2>1, <2>3, <2>4
<1> HIDE DEF r
<1>4. Index(r, c) = 1
  BY <1>1, <1>2, <1>3, IndexIs
<1>5. ASSUME NEW d \in Range(q)
      PROVE  Index(r, d) = Index(q, d) + 1
  <2>1. Index(q, d) \in 1..Len(q) /\ q[Index(q, d)] = d
    BY <1>1, IndexIn
  <2>2. Index(q, d) + 1 \in 1..Len(r) /\ r[Index(q, d) + 1] = d
    BY <1>1, <1>3, <2>1
  <2> QED  BY <1>2, <2>2, IndexIs
<1> QED  BY <1>4, <1>5 DEF r

\* Without one client those behind it move up by one.
LEMMA WithoutIndex ==
    ASSUME NEW U, NEW q \in Distinct(U), NEW c \in Range(q), NEW d \in Range(q), d # c
    PROVE  Index(Without(q, c), d) =
               IF Index(q, d) < Index(q, c) THEN Index(q, d) ELSE Index(q, d) - 1
<1> DEFINE k == Index(q, c)
           i == Index(q, d)
           a == SubSeq(q, 1, k - 1)
           b == SubSeq(q, k + 1, Len(q))
           r == Without(q, c)
<1>1. q \in Seq(U) /\ Len(q) \in Nat /\ DOMAIN q = 1..Len(q)
  BY RangeIs DEF Distinct
<1>2. k \in 1..Len(q) /\ q[k] = c /\ i \in 1..Len(q) /\ q[i] = d /\ i # k
  BY <1>1, IndexIn
<1>3. r \in Distinct(U)
  BY WithoutDistinct
<1>4. r = a \o b
  BY DEF Without, RemoveAt
<1> HIDE DEF k, i, r
<1>5. \A j \in 1..Len(q) : q[j] \in U
  BY <1>1, ElementOfSeq
<1>6. /\ a \in Seq(U) /\ Len(a) = k - 1
      /\ \A j \in 1..(k - 1) : a[j] = q[j]
  <2>1. \A j \in 1..(k - 1) : j \in 1..Len(q) /\ 1 + j - 1 = j
    BY <1>1, <1>2
  <2>2. \A j \in 1..(k - 1) : q[j] \in U
    BY <1>5, <2>1
  <2>3. k - 1 \in 0..Len(q) /\ 1 \in 1..(Len(q) + 1)
    BY <1>1, <1>2
  <2>4. /\ SubSeq(q, 1, k - 1) \in Seq(U)
        /\ Len(SubSeq(q, 1, k - 1)) = IF 1 <= k - 1 THEN (k - 1) - 1 + 1 ELSE 0
        /\ \A j \in 1..((k - 1) - 1 + 1) : SubSeq(q, 1, k - 1)[j] = q[1 + j - 1]
    BY <1>1, <2>2, <2>3, SubSeqProperties
  <2>5. (k - 1) - 1 + 1 = k - 1
    BY <1>1, <1>2
  <2> QED  BY <1>1, <1>2, <2>1, <2>4, <2>5
<1>7. /\ b \in Seq(U) /\ Len(b) = Len(q) - k
      /\ \A j \in 1..(Len(q) - k) : b[j] = q[k + j]
  <2>1. \A j \in k + 1..Len(q) : q[j] \in U
    BY <1>1, <1>2, <1>5
  <2>2. k + 1 \in 1..(Len(q) + 1) /\ Len(q) \in 0..Len(q)
    BY <1>1, <1>2
  <2>3. /\ b \in Seq(U)
        /\ Len(b) = IF k + 1 <= Len(q) THEN Len(q) - (k + 1) + 1 ELSE 0
        /\ \A j \in 1..(Len(q) - (k + 1) + 1) : b[j] = q[(k + 1) + j - 1]
    BY <1>1, <2>1, <2>2, SubSeqProperties
  <2> HIDE DEF b
  <2>4. Len(q) - (k + 1) + 1 = Len(q) - k
    BY <1>1, <1>2
  <2>5. \A j \in 1..(Len(q) - k) : (k + 1) + j - 1 = k + j
    BY <1>1, <1>2
  <2>6. b \in Seq(U) /\ Len(b) = Len(q) - k
    <3>1. \A n \in Nat : \A j \in 1..n : (IF j + 1 <= n THEN n - (j + 1) + 1 ELSE 0) = n - j
      OBVIOUS
    <3>2. Len(q) \in Nat /\ k \in 1..Len(q)
      BY <1>1, <1>2
    <3> QED  BY <2>3, <3>1, <3>2, Zenon
  <2>7. \A j \in 1..(Len(q) - k) : b[j] = q[(k + 1) + j - 1]
    BY <2>3, <2>4
  <2>8. \A j \in 1..(Len(q) - k) : b[j] = q[k + j]
    BY <2>5, <2>7
  <2> QED  BY <2>6, <2>8
<1> HIDE DEF a, b
<1>8. /\ Len(r) = Len(q) - 1
      /\ \A j \in 1..(Len(q) - 1) : r[j] = IF j <= k - 1 THEN a[j] ELSE b[j - (k - 1)]
  <2>1. Len(a) + Len(b) = Len(q) - 1
    BY <1>1, <1>2, <1>6, <1>7
  <2> QED  BY <1>4, <1>6, <1>7, <2>1, ConcatProperties
<1>9. CASE i < k
  <2>1. i \in 1..(Len(q) - 1) /\ i \in 1..(k - 1) /\ i <= k - 1
    BY <1>1, <1>2, <1>9
  <2>2. i \in 1..Len(r) /\ r[i] = d
    BY <1>2, <1>6, <1>8, <2>1
  <2>3. Index(r, d) = i
    BY <1>3, <2>2, IndexIs
  <2> QED  BY <1>9, <2>3 DEF i, k, r
<1>10. CASE ~(i < k)
  <2>1. /\ i - 1 \in 1..(Len(q) - 1) /\ ~(i - 1 <= k - 1)
        /\ (i - 1) - (k - 1) \in 1..(Len(q) - k) /\ k + ((i - 1) - (k - 1)) = i
    BY <1>1, <1>2, <1>10
  <2>2. i - 1 \in 1..Len(r) /\ r[i - 1] = d
    BY <1>2, <1>7, <1>8, <2>1
  <2>3. Index(r, d) = i - 1
    BY <1>3, <2>2, IndexIs
  <2> QED  BY <1>10, <2>3 DEF i, k, r
<1> QED  BY <1>9, <1>10

\* The first member of a list is in front of all others.
LEMMA HeadFirst ==
    ASSUME NEW U, NEW q \in Distinct(U), NEW c, NEW p \in Seq(U), q = Cons(c, p)
    PROVE  /\ c \in Range(q) /\ Index(q, c) = 1
           /\ \A d \in Range(q) \ {c} : Index(q, d) \in Nat /\ 1 < Index(q, d)
<1>1. q \in Seq(U)
  BY DEF Distinct
<1> DEFINE one == <<c>>
<1>2. q = one \o p
  BY DEF Cons
<1>3. one = <<c>> /\ one[1] = c /\ one \in Seq({c}) /\ Len(one) = 1
  OBVIOUS
<1> HIDE DEF one
<1>4. one \in Seq(U \cup {c}) /\ p \in Seq(U \cup {c})
  BY <1>3
<1>5. Len(q) = 1 + Len(p) /\ Len(p) \in Nat /\ q[1] = c
  <2>1. Len(one \o p) = Len(one) + Len(p)
    BY <1>4, ConcatProperties
  <2>2. \A i \in 1..(Len(one) + Len(p)) :
            (one \o p)[i] = IF i <= Len(one) THEN one[i] ELSE p[i - Len(one)]
    BY <1>4, ConcatProperties
  <2>3. Len(p) \in Nat
    OBVIOUS
  <2> QED  BY <1>2, <1>3, <2>1, <2>2, <2>3
<1>6. 1 \in 1..Len(q)
  BY <1>5
<1>7. c \in Range(q) /\ Index(q, c) = 1
  BY <1>5, <1>6, IndexIs
<1>8. ASSUME NEW d \in Range(q) \ {c}
      PROVE  Index(q, d) \in Nat /\ 1 < Index(q, d)
  <2>1. Index(q, d) \in 1..Len(q) /\ q[Index(q, d)] = d
    BY <1>1, IndexIn
  <2> QED  BY <1>5, <2>1
<1> QED  BY <1>7, <1>8

\* attachstack leaves the order of the others.
LEMMA ConsOrder ==
    ASSUME NEW U, NEW q \in Distinct(U), NEW c \in U, c \notin Range(q), NEW S
    PROVE  SameOrder(q, Cons(c, q), S)
<1>1. Cons(c, q) \in Distinct(U)
  BY ConsDistinct
<1>2. q \in Seq(U) /\ Len(q) \in Nat
  BY RangeIs DEF Distinct
<1>3. ASSUME NEW d \in Range(q), NEW e \in Range(q), Index(q, d) < Index(q, e)
      PROVE  Index(Cons(c, q), d) < Index(Cons(c, q), e)
  <2>1. Index(q, d) \in 1..Len(q) /\ Index(q, e) \in 1..Len(q)
    BY <1>2, IndexIn
  <2>2. Index(Cons(c, q), d) = Index(q, d) + 1 /\ Index(Cons(c, q), e) = Index(q, e) + 1
    BY ConsIndex
  <2> QED  BY <1>2, <1>3, <2>1, <2>2
<1> QED  BY <1>1, <1>3, SameOrderFrom

\* detachstack too.
LEMMA WithoutOrder ==
    ASSUME NEW U, NEW q \in Distinct(U), NEW c, NEW S
    PROVE  SameOrder(q, Without(q, c), S)
<1>1. CASE c \notin Range(q)
  BY <1>1, SameOrderItself DEF Without
<1>2. CASE c \in Range(q)
  <2>1. Without(q, c) \in Distinct(U) /\ Range(Without(q, c)) = Range(q) \ {c}
    BY WithoutDistinct
  <2>2. q \in Seq(U) /\ Len(q) \in Nat
    BY RangeIs DEF Distinct
  <2>3. ASSUME NEW d \in Range(q) \ {c}, NEW e \in Range(q) \ {c}, Index(q, d) < Index(q, e)
        PROVE  Index(Without(q, c), d) < Index(Without(q, c), e)
    <3>1. /\ Index(q, d) \in 1..Len(q) /\ q[Index(q, d)] = d
          /\ Index(q, e) \in 1..Len(q) /\ q[Index(q, e)] = e
          /\ Index(q, c) \in 1..Len(q) /\ q[Index(q, c)] = c
      BY <1>2, <2>2, IndexIn
    <3>2. /\ Index(Without(q, c), d) =
                IF Index(q, d) < Index(q, c) THEN Index(q, d) ELSE Index(q, d) - 1
          /\ Index(Without(q, c), e) =
                IF Index(q, e) < Index(q, c) THEN Index(q, e) ELSE Index(q, e) - 1
      BY <1>2, WithoutIndex
    <3>3. Index(q, d) # Index(q, c)
      BY <3>1
    <3> QED  BY <2>2, <2>3, <3>1, <3>2, <3>3
  <2> QED  BY <2>1, <2>3, SameOrderFrom
<1> QED  BY <1>1, <1>2

\* The first client of q in S is in front of the others.
LEMMA FirstOrBefore ==
    ASSUME NEW U, NEW q \in Distinct(U), NEW S, NEW none, NEW d \in Range(q) \cap S,
           d # FirstOr(q, S, none)
    PROVE  Index(q, FirstOr(q, S, none)) < Index(q, d)
<1> DEFINE T == {i \in 1..Len(q) : q[i] \in S}
           Is(i) == q[i] \in S /\ \A j \in 1..(i - 1) : q[j] \notin S
           k == CHOOSE i \in DOMAIN q : Is(i)
<1>1. q \in Seq(U) /\ Len(q) \in Nat /\ DOMAIN q = 1..Len(q)
  BY RangeIs DEF Distinct
<1>2. Index(q, d) \in 1..Len(q) /\ q[Index(q, d)] = d
  BY <1>1, IndexIn
<1>3. T # {} /\ T \subseteq Nat
  BY <1>1, <1>2
<1>4. PICK i \in T : \A j \in T : i <= j
  BY <1>3, LeastNatural
<1>5. i \in DOMAIN q /\ Is(i)
  BY <1>1, <1>4
<1>6. k \in DOMAIN q /\ Is(k)
  BY <1>5
<1>7. FirstOr(q, S, none) = q[k]
  BY DEF FirstOr, First
<1> HIDE DEF k
<1>8. ~(Index(q, d) \in 1..(k - 1)) /\ Index(q, d) # k
  BY <1>2, <1>6, <1>7
<1>9. Index(q, q[k]) = k
  BY <1>1, <1>6, IndexIs
<1> QED  BY <1>1, <1>2, <1>6, <1>7, <1>8, <1>9

\* focus takes a client to the top.  The others keep their order, and so
\* does the client itself among those of S when it was the first of S.
LEMMA RaisedOrder ==
    ASSUME NEW U, NEW q \in Distinct(U), NEW c \in U, NEW r, r = Cons(c, Without(q, c))
    PROVE  /\ r \in Distinct(U) /\ Range(r) = Range(q) \cup {c}
           /\ \A d \in Range(r) \ {c} : Index(r, c) < Index(r, d)
           /\ \A S : c \notin S => SameOrder(q, r, S)
           /\ \A S, V, none :
                  /\ c = FirstOr(q, V, none) /\ c \in Range(q)
                  /\ S \cap Range(q) \subseteq V
                  => SameOrder(q, r, S)
<1> DEFINE p == Without(q, c)
<1>1. p \in Distinct(U) /\ Range(p) = Range(q) \ {c}
  BY WithoutDistinct
<1>2. r = Cons(c, p)
  OBVIOUS
<1> HIDE DEF p
<1>3. r \in Distinct(U) /\ Range(r) = Range(q) \cup {c}
  BY <1>1, <1>2, ConsDistinct
<1>4. Len(p) \in Nat /\ p \in Seq(U) /\ Len(q) \in Nat /\ q \in Seq(U)
  BY <1>1, RangeIs DEF Distinct
<1>5. /\ Index(r, c) = 1
      /\ \A d \in Range(p) : Index(p, d) \in Nat \ {0} /\ Index(r, d) = Index(p, d) + 1
  BY <1>1, <1>2, <1>4, ConsIndex, IndexIn
<1>6. \A d \in Range(r) \ {c} : Index(r, c) < Index(r, d)
  <2>1. \A d \in Range(r) \ {c} : d \in Range(p)
    BY <1>1, <1>3
  <2> QED  BY <1>5, <2>1
<1>7. ASSUME NEW S, c \notin S
      PROVE  SameOrder(q, r, S)
  <2>1. SameOrder(q, p, S) /\ SameOrder(p, r, S)
    BY <1>1, <1>2, WithoutOrder, ConsOrder DEF p
  <2> QED  BY <1>1, <1>3, <1>7, <2>1, SameOrderTransitive
<1>8. ASSUME NEW S, NEW V, NEW none, c = FirstOr(q, V, none), c \in Range(q),
             S \cap Range(q) \subseteq V
      PROVE  SameOrder(q, r, S)
  <2>1. SameOrder(q, r, S \ {c})
    BY <1>7
  <2>2. ASSUME NEW d \in S \cap Range(q) \cap Range(r), NEW e \in S \cap Range(q) \cap Range(r),
               Index(q, d) < Index(q, e)
        PROVE  Index(r, d) < Index(r, e)
    <3>1. CASE d # c /\ e # c
      BY <2>1, <2>2, <3>1 DEF SameOrder
    <3>2. CASE e = c
      <4>1. d # c
        <5>1. Index(q, c) \in 1..Len(q)
          BY <1>4, <1>8, IndexIn
        <5> QED  BY <1>4, <2>2, <3>2, <5>1
      <4>2. Index(q, c) < Index(q, d)
        BY <1>8, <4>1, FirstOrBefore
      <4>3. Index(q, c) \in 1..Len(q) /\ Index(q, d) \in 1..Len(q)
        BY <1>4, <1>8, IndexIn
      <4> QED  BY <1>4, <2>2, <3>2, <4>2, <4>3
    <3>3. CASE d = c /\ e # c
      BY <1>6, <3>3
    <3> QED  BY <3>1, <3>2, <3>3
  <2> QED  BY <1>3, <2>2, SameOrderFrom
<1> QED  BY <1>3, <1>6, <1>7, <1>8

\* Finding a client with all before it outside S is finding the first of S.
LEMMA FirstOrIs ==
    ASSUME NEW U, NEW q \in Seq(U), NEW S, NEW none, NEW i \in 1..Len(q),
           q[i] \in S, \A j \in 1..(i - 1) : q[j] \notin S
    PROVE  FirstOr(q, S, none) = q[i]
<1> DEFINE Is(k) == q[k] \in S /\ \A j \in 1..(k - 1) : q[j] \notin S
<1>1. DOMAIN q = 1..Len(q) /\ Len(q) \in Nat /\ q[i] \in Range(q)
  BY RangeIs
<1>2. i \in DOMAIN q /\ Is(i)
  BY <1>1
<1>3. ASSUME NEW k \in DOMAIN q, Is(k)
      PROVE  k = i
  BY <1>1, <1>2, <1>3
<1>4. (CHOOSE k \in DOMAIN q : Is(k)) = i
  BY <1>2, <1>3
<1>5. First(q, S) = q[i]
  BY <1>4 DEF First
<1> QED  BY <1>1, <1>5 DEF FirstOr

\* The first client depends on which clients of the list are looked for.
LEMMA FirstOrSame ==
    ASSUME NEW U, NEW q \in Seq(U), NEW S, NEW R, NEW none,
           \A d \in Range(q) : d \in R <=> d \in S
    PROVE  FirstOr(q, R, none) = FirstOr(q, S, none)
<1>1. /\ Len(q) \in Nat
      /\ \A d : d \in Range(q) <=> \E j \in 1..Len(q) : q[j] = d
  BY RangeIs
<1>2. CASE Range(q) \cap S = {}
  <2>1. Range(q) \cap R = {}
    BY <1>2
  <2> QED  BY <1>2, <2>1 DEF FirstOr
<1>3. CASE Range(q) \cap S # {}
  <2> DEFINE T == {j \in 1..Len(q) : q[j] \in S}
  <2>1. T # {} /\ T \subseteq Nat
    BY <1>1, <1>3
  <2>2. PICK k \in T : \A j \in T : k <= j
    BY <2>1, LeastNatural
  <2>3. /\ k \in 1..Len(q) /\ q[k] \in S
        /\ \A j \in 1..(k - 1) : j \in 1..Len(q) /\ q[j] \notin S
    BY <1>1, <2>2
  <2>4. q[k] \in R /\ \A j \in 1..(k - 1) : q[j] \notin R
    BY <1>1, <2>3
  <2> QED  BY <2>3, <2>4, FirstOrIs
<1> QED  BY <1>2, <1>3

\* c is linked into q at the position i, and r is the list then.
Inserted(q, r, i, c) ==
    /\ Len(r) = Len(q) + 1 /\ r[i] = c
    /\ \A j \in 1..(i - 1) : r[j] = q[j]
    /\ \A j \in i..Len(q) : r[j + 1] = q[j]

LEMMA InsertAtInserts ==
    ASSUME NEW U, NEW q \in Seq(U), NEW c \in U, NEW i \in 1..(Len(q) + 1)
    PROVE  /\ InsertAt(q, i, c) \in Seq(U)
           /\ Inserted(q, InsertAt(q, i, c), i, c)
<1> DEFINE a == SubSeq(q, 1, i - 1)
           one == <<c>>
           b == SubSeq(q, i, Len(q))
<1>1. Len(q) \in Nat /\ DOMAIN q = 1..Len(q)
  BY RangeIs
<1>2. /\ \A j \in 1..(i - 1) : j \in DOMAIN q
      /\ \A j \in i..Len(q) : j \in DOMAIN q
      /\ 1 <= (i - 1) + 1 /\ i <= Len(q) + 1
  BY <1>1
<1>3. /\ a \in Seq(U) /\ Len(a) = i - 1
      /\ \A j \in 1..(i - 1) : a[j] = q[j]
  <2>1. a = [j \in 1..(i - 1) |-> q[j]]
    BY <1>1 DEF SubSeq
  <2>2. \A j \in 1..(i - 1) : q[j] \in U
    BY <1>1, <1>2, ElementOfSeq
  <2>3. i - 1 \in Nat
    BY <1>1
  <2> HIDE DEF a
  <2>4. a \in [1..(i - 1) -> U]
    BY <2>1, <2>2
  <2> QED  BY <2>1, <2>3, <2>4, SeqDef, LenProperties
<1>4. /\ b \in Seq(U) /\ Len(b) = Len(q) - i + 1
      /\ \A j \in 1..(Len(q) - i + 1) : b[j] = q[j + i - 1]
  <2>1. b = [j \in 1..(Len(q) - i + 1) |-> q[j + i - 1]]
    BY <1>1 DEF SubSeq
  <2>2. \A j \in 1..(Len(q) - i + 1) : q[j + i - 1] \in U
    BY <1>1, <1>2, ElementOfSeq
  <2>3. Len(q) - i + 1 \in Nat
    BY <1>1
  <2> HIDE DEF b
  <2>4. b \in [1..(Len(q) - i + 1) -> U]
    BY <2>1, <2>2
  <2> QED  BY <2>1, <2>3, <2>4, SeqDef, LenProperties
<1>5. one \in Seq(U) /\ Len(one) = 1 /\ one[1] = c
  OBVIOUS
<1> HIDE DEF a, b, one
<1>6. /\ a \o one \in Seq(U) /\ Len(a \o one) = i
      /\ (a \o one)[i] = c
      /\ \A j \in 1..(i - 1) : (a \o one)[j] = q[j]
  <2>1. /\ a \o one \in Seq(U) /\ Len(a \o one) = Len(a) + Len(one)
        /\ \A j \in 1..Len(a) + Len(one) :
              (a \o one)[j] = IF j <= Len(a) THEN a[j] ELSE one[j - Len(a)]
    BY <1>3, <1>5, ConcatProperties
  <2>2. /\ i \in 1..Len(a) + Len(one) /\ ~(i <= Len(a)) /\ i - Len(a) = 1
        /\ \A j \in 1..(i - 1) : j \in 1..Len(a) + Len(one) /\ j <= Len(a)
    BY <1>1, <1>3, <1>5
  <2>3. (a \o one)[i] = one[1]
    BY <2>1, <2>2
  <2>4. \A j \in 1..(i - 1) : (a \o one)[j] = a[j]
    BY <2>1, <2>2
  <2> QED  BY <1>1, <1>3, <1>5, <2>1, <2>3, <2>4
<1> DEFINE ac == a \o one
<1> HIDE DEF ac
<1>7. /\ ac \in Seq(U) /\ Len(ac) = i /\ ac[i] = c
      /\ \A j \in 1..(i - 1) : ac[j] = q[j]
  BY <1>6 DEF ac
<1>8. /\ ac \o b \in Seq(U) /\ Len(ac \o b) = Len(q) + 1
      /\ (ac \o b)[i] = c
      /\ \A j \in 1..(i - 1) : (ac \o b)[j] = q[j]
      /\ \A j \in i..Len(q) : (ac \o b)[j + 1] = q[j]
  <2>1. /\ ac \o b \in Seq(U) /\ Len(ac \o b) = Len(ac) + Len(b)
        /\ \A j \in 1..Len(ac) + Len(b) :
              (ac \o b)[j] = IF j <= Len(ac) THEN ac[j] ELSE b[j - Len(ac)]
    BY <1>4, <1>7, ConcatProperties
  <2>2. ASSUME NEW j \in i..Len(q)
        PROVE  (ac \o b)[j + 1] = q[j]
    <3>1. j + 1 \in 1..Len(ac) + Len(b) /\ ~(j + 1 <= Len(ac))
      BY <1>1, <1>4, <1>7
    <3>2. (ac \o b)[j + 1] = b[j + 1 - i]
      BY <1>7, <2>1, <3>1
    <3>3. j + 1 - i \in 1..(Len(q) - i + 1) /\ (j + 1 - i) + i - 1 = j
      BY <1>1
    <3> QED  BY <1>4, <3>2, <3>3
  <2> QED  BY <1>1, <1>4, <1>7, <2>1, <2>2
<1>9. InsertAt(q, i, c) = ac \o b
  BY DEF InsertAt, a, b, one, ac
<1> QED  BY <1>8, <1>9 DEF Inserted

LEMMA ConsInserts ==
    ASSUME NEW U, NEW q \in Seq(U), NEW c \in U
    PROVE  Cons(c, q) \in Seq(U) /\ Inserted(q, Cons(c, q), 1, c)
<1> DEFINE one == <<c>>
<1>1. one \in Seq(U) /\ Len(one) = 1 /\ one[1] = c /\ Len(q) \in Nat
  BY RangeIs
<1> HIDE DEF one
<1>2. /\ one \o q \in Seq(U) /\ Len(one \o q) = 1 + Len(q)
      /\ \A j \in 1..(1 + Len(q)) :
            (one \o q)[j] = IF j <= 1 THEN one[j] ELSE q[j - 1]
  <2>1. /\ one \o q \in Seq(U) /\ Len(one \o q) = Len(one) + Len(q)
        /\ \A j \in 1..Len(one) + Len(q) :
              (one \o q)[j] = IF j <= Len(one) THEN one[j] ELSE q[j - Len(one)]
    BY <1>1, ConcatProperties
  <2> QED  BY <1>1, <2>1
<1>3. Cons(c, q) = one \o q
  BY DEF Cons, one
<1>4. \A j \in 1..Len(q) : j + 1 \in 1..(1 + Len(q)) /\ ~(j + 1 <= 1) /\ (j + 1) - 1 = j
  BY <1>1
<1>5. \A j \in 1..Len(q) : (one \o q)[j + 1] = q[j]
  BY <1>2, <1>4
<1> QED  BY <1>1, <1>2, <1>3, <1>5 DEF Inserted

\* The first client stays the first when one is linked in that is none of
\* them, or is linked in somewhere behind the first.
LEMMA FirstOrInserted ==
    ASSUME NEW U, NEW q \in Seq(U), NEW c \in U, NEW i \in 1..(Len(q) + 1),
           NEW r \in Seq(U), Inserted(q, r, i, c),
           NEW S, NEW R, \A d \in Range(q) : d \in R <=> d \in S,
           c \notin R \/ \E j \in 1..(i - 1) : q[j] \in S,
           NEW none
    PROVE  FirstOr(r, R, none) = FirstOr(q, S, none)
<1>1. /\ Len(q) \in Nat /\ DOMAIN q = 1..Len(q) /\ Len(r) = Len(q) + 1
      /\ \A d : d \in Range(q) <=> \E j \in 1..Len(q) : q[j] = d
      /\ \A d : d \in Range(r) <=> \E j \in 1..Len(r) : r[j] = d
  BY RangeIs DEF Inserted
<1>2. /\ r[i] = c
      /\ \A j \in 1..(i - 1) : r[j] = q[j]
      /\ \A j \in i..Len(q) : r[j + 1] = q[j]
  BY DEF Inserted
<1>3. \A j \in 1..Len(q) : q[j] \in R <=> q[j] \in S
  BY <1>1
<1>4. CASE Range(q) \cap S = {}
  <2>1. \A j \in 1..Len(q) : q[j] \notin S
    BY <1>1, <1>4
  <2>2. c \notin R
    BY <1>1, <2>1
  <2>3. ASSUME NEW j \in 1..Len(r)
        PROVE  r[j] \notin R
    <3>1. CASE j < i
      BY <1>1, <1>2, <1>3, <2>1, <3>1
    <3>2. CASE j = i
      BY <1>2, <2>2, <3>2
    <3>3. CASE j > i
      <4>1. j - 1 \in i..Len(q) /\ j - 1 \in 1..Len(q) /\ (j - 1) + 1 = j
        BY <1>1, <3>3
      <4> QED  BY <1>2, <1>3, <2>1, <4>1
    <3> QED  BY <3>1, <3>2, <3>3
  <2>4. Range(r) \cap R = {}
    BY <1>1, <2>3
  <2> QED  BY <1>4, <2>4 DEF FirstOr
<1>5. CASE Range(q) \cap S # {}
  <2> DEFINE T == {j \in 1..Len(q) : q[j] \in S}
  <2>1. T # {} /\ T \subseteq Nat
    BY <1>1, <1>5
  <2>2. PICK k \in T : \A j \in T : k <= j
    BY <2>1, LeastNatural
  <2>3. /\ k \in 1..Len(q) /\ q[k] \in S
        /\ \A j \in 1..(k - 1) : j \in 1..Len(q) /\ q[j] \notin S
    BY <1>1, <2>2
  <2> HIDE DEF T
  <2>4. FirstOr(q, S, none) = q[k]
    BY <2>3, FirstOrIs
  <2>5. CASE k < i
    <3>1. k \in 1..Len(r) /\ r[k] = q[k]
      BY <1>1, <1>2, <2>3, <2>5
    <3>2. \A j \in 1..(k - 1) : r[j] = q[j]
      BY <1>1, <1>2, <2>3, <2>5
    <3>3. r[k] \in R /\ \A j \in 1..(k - 1) : r[j] \notin R
      BY <1>3, <2>3, <3>1, <3>2
    <3>4. FirstOr(r, R, none) = r[k]
      BY <3>1, <3>3, FirstOrIs
    <3> QED  BY <2>4, <3>1, <3>4
  <2>6. CASE k >= i
    <3>1. k + 1 \in 1..Len(r) /\ r[k + 1] = q[k]
      BY <1>1, <1>2, <2>3, <2>6
    <3>2. c \notin R
      BY <1>1, <2>3, <2>6
    <3>3. ASSUME NEW j \in 1..((k + 1) - 1)
          PROVE  r[j] \notin R
      <4>1. CASE j < i
        BY <1>1, <1>2, <1>3, <2>3, <2>6, <4>1
      <4>2. CASE j = i
        BY <1>2, <3>2, <4>2
      <4>3. CASE j > i
        <5>1. j - 1 \in i..Len(q) /\ j - 1 \in 1..(k - 1) /\ (j - 1) + 1 = j
          BY <1>1, <2>3, <4>3
        <5> QED  BY <1>2, <1>3, <2>3, <5>1
      <4> QED  BY <4>1, <4>2, <4>3
    <3>4. r[k + 1] \in R
      BY <1>3, <2>3, <3>1
    <3>5. FirstOr(r, R, none) = r[k + 1]
      BY <3>1, <3>3, <3>4, FirstOrIs
    <3> QED  BY <2>4, <3>1, <3>5
  <2> QED  BY <1>1, <2>3, <2>5, <2>6
<1> QED  BY <1>4, <1>5

\* A part of a list, position by position.
LEMMA SubSeqIs ==
    ASSUME NEW U, NEW q \in Seq(U), NEW i \in 1..(Len(q) + 1), NEW k \in (i - 1)..Len(q)
    PROVE  /\ SubSeq(q, i, k) \in Seq(U) /\ Len(SubSeq(q, i, k)) = k - i + 1
           /\ \A j \in 1..(k - i + 1) : SubSeq(q, i, k)[j] = q[i + j - 1]
<1> DEFINE a == SubSeq(q, i, k)
           n == k - i + 1
<1>1. Len(q) \in Nat /\ DOMAIN q = 1..Len(q) /\ n \in Nat
  BY RangeIs
<1>2. a = [j \in 1..n |-> q[i + j - 1]]
  BY <1>1 DEF SubSeq
<1>3. \A j \in 1..n : q[i + j - 1] \in U
  <2>1. \A j \in 1..n : i + j - 1 \in 1..Len(q)
    BY <1>1
  <2> QED  BY <1>1, <2>1, ElementOfSeq
<1> HIDE DEF a, n
<1>4. a \in [1..n -> U]
  BY <1>2, <1>3
<1>5. a \in Seq(U) /\ Len(a) = n
  BY <1>1, <1>4, SeqDef, LenProperties
<1> QED  BY <1>2, <1>5 DEF a, n

\* Later positions have higher ranks.
LEMMA RankOrder ==
    ASSUME NEW n \in Nat, NEW I \in SUBSET (1..n), NEW i \in I, NEW j \in I, i < j
    PROVE  Rank(I, i) < Rank(I, j)
<1> DEFINE B(k) == {l \in I : l <= k}
<1>1. IsFiniteSet(1..n)
  BY FS_Interval
<1>2. IsFiniteSet(B(j))
  BY <1>1, FS_Subset
<1>3. B(i) \in SUBSET B(j) /\ j \in B(j) /\ j \notin B(i)
  <2>1. \A l \in I : l \in Nat
    OBVIOUS
  <2>2. j <= j /\ ~(j <= i) /\ \A l \in I : l <= i => l <= j
    BY <2>1
  <2> QED  BY <2>2
<1>4. Rank(I, i) = Cardinality(B(i)) /\ Rank(I, j) = Cardinality(B(j))
  BY DEF Rank
<1> HIDE DEF B
<1>5. IsFiniteSet(B(i))
  BY <1>2, <1>3, FS_Subset
<1>6. Cardinality(B(i)) \in Nat /\ Cardinality(B(j)) \in Nat
  BY <1>2, <1>5, FS_CardinalityType
<1>7. Cardinality(B(i)) <= Cardinality(B(j)) /\ Cardinality(B(j)) # Cardinality(B(i))
  BY <1>2, <1>3, FS_Subset
<1> QED  BY <1>4, <1>6, <1>7

\* r are the members of S in q, in the order of q; at tells where they are.
Listing(q, S, r, at) ==
    /\ at \in [1..Len(r) -> 1..Len(q)]
    /\ \A k \in 1..Len(r) : r[k] = q[at[k]] /\ r[k] \in S
    /\ \A k, l \in 1..Len(r) : k < l => at[k] < at[l]
    /\ \A i \in 1..Len(q) : q[i] \in S => \E k \in 1..Len(r) : at[k] = i

LEMMA KeepRing ==
    ASSUME NEW U, NEW q \in Distinct(U), NEW S
    PROVE  \E at : Listing(q, S, Keep(q, S), at)
<1> DEFINE I == {i \in DOMAIN q : q[i] \in S}
           n == Cardinality(I)
           at == [k \in 1..n |-> CHOOSE i \in I : Rank(I, i) = k]
           r == Keep(q, S)
<1>1. q \in Seq(U) /\ Len(q) \in Nat /\ DOMAIN q = 1..Len(q)
  BY RangeIs DEF Distinct
<1>2. I \in SUBSET (1..Len(q))
  BY <1>1
<1>3. /\ n \in Nat
      /\ \A i \in I : Rank(I, i) \in 1..n
      /\ \A i, j \in I : Rank(I, i) = Rank(I, j) => i = j
      /\ \A k \in 1..n : \E i \in I : Rank(I, i) = k
  BY <1>1, <1>2, RankBijective
<1>4. \A k \in 1..n : at[k] \in I /\ Rank(I, at[k]) = k
  BY <1>3
<1>5. \A i \in I : at[Rank(I, i)] = i
  BY <1>3
<1>6. r = [k \in 1..n |-> q[at[k]]]
  BY DEF Keep
<1>7. Len(r) = n
  BY <1>1, KeepLength
<1>8. \A i \in I : i \in 1..Len(q) /\ q[i] \in S
  BY <1>1
<1>9. \A i \in 1..Len(q) : q[i] \in S => i \in I
  BY <1>1
<1>10. DOMAIN at = 1..n /\ at = [k \in 1..n |-> at[k]]
  OBVIOUS
<1> HIDE DEF I, n, at, r
<1>11. at \in [1..Len(r) -> 1..Len(q)]
  BY <1>4, <1>7, <1>8, <1>10
<1>12. \A k \in 1..Len(r) : r[k] = q[at[k]] /\ r[k] \in S
  BY <1>4, <1>6, <1>7, <1>8
<1>13. ASSUME NEW k \in 1..Len(r), NEW l \in 1..Len(r), k < l
       PROVE  at[k] < at[l]
  <2>1. /\ at[k] \in I /\ at[l] \in I /\ Rank(I, at[k]) = k /\ Rank(I, at[l]) = l
        /\ at[k] \in Nat /\ at[l] \in Nat
    BY <1>1, <1>4, <1>7, <1>8
  <2>2. at[k] # at[l]
    BY <1>13, <2>1
  <2>3. CASE at[l] < at[k]
    <3>1. Rank(I, at[l]) < Rank(I, at[k])
      BY <1>1, <1>2, <2>1, <2>3, RankOrder
    <3> QED  BY <1>3, <1>7, <1>13, <2>1, <3>1
  <2> QED  BY <2>1, <2>2, <2>3
<1>14. \A i \in 1..Len(q) : q[i] \in S => \E k \in 1..Len(r) : at[k] = i
  BY <1>3, <1>5, <1>7, <1>9
<1>15. Listing(q, S, r, at)
  BY <1>11, <1>12, <1>13, <1>14 DEF Listing
<1> QED  BY <1>15 DEF r

\* The next one round the ring, and the one before.
Following(n, k) == IF k < n THEN k + 1 ELSE 1
Preceding(n, k) == IF k > 1 THEN k - 1 ELSE n

\* What is behind a member of a list, and what is in front of it.
LEMMA AroundIs ==
    ASSUME NEW U, NEW q \in Distinct(U), NEW p \in 1..Len(q), NEW c, c = q[p]
    PROVE  /\ Behind(q, c) \in Seq(U) /\ Len(Behind(q, c)) = Len(q) - p
           /\ \A j \in 1..(Len(q) - p) : Behind(q, c)[j] = q[p + j]
           /\ InFront(q, c) \in Seq(U) /\ Len(InFront(q, c)) = p - 1
           /\ \A j \in 1..(p - 1) : InFront(q, c)[j] = q[j]
<1>1. q \in Seq(U) /\ Len(q) \in Nat
  BY RangeIs DEF Distinct
<1>2. c \in Range(q) /\ Index(q, c) = p
  BY IndexIs
<1>3. Behind(q, c) = SubSeq(q, p + 1, Len(q)) /\ InFront(q, c) = SubSeq(q, 1, p - 1)
  BY <1>2 DEF Behind, InFront
<1>4. /\ p + 1 \in 1..(Len(q) + 1) /\ Len(q) \in ((p + 1) - 1)..Len(q)
      /\ 1 \in 1..(Len(q) + 1) /\ p - 1 \in (1 - 1)..Len(q)
      /\ Len(q) - (p + 1) + 1 = Len(q) - p /\ (p - 1) - 1 + 1 = p - 1
      /\ \A j \in 1..(Len(q) - p) : (p + 1) + j - 1 = p + j
      /\ \A j \in 1..(p - 1) : 1 + j - 1 = j
  BY <1>1
<1>5. /\ SubSeq(q, p + 1, Len(q)) \in Seq(U)
      /\ Len(SubSeq(q, p + 1, Len(q))) = Len(q) - p
      /\ \A j \in 1..(Len(q) - p) : SubSeq(q, p + 1, Len(q))[j] = q[p + j]
  <2> DEFINE i == p + 1
             L == Len(q)
  <2>1. i \in 1..(Len(q) + 1) /\ L \in (i - 1)..Len(q)
    BY <1>4
  <2> HIDE DEF i, L
  <2>2. /\ SubSeq(q, i, L) \in Seq(U) /\ Len(SubSeq(q, i, L)) = L - i + 1
        /\ \A j \in 1..(L - i + 1) : SubSeq(q, i, L)[j] = q[i + j - 1]
    BY <1>1, <2>1, SubSeqIs
  <2> QED  BY <1>4, <2>2 DEF i, L
<1>6. /\ SubSeq(q, 1, p - 1) \in Seq(U)
      /\ Len(SubSeq(q, 1, p - 1)) = p - 1
      /\ \A j \in 1..(p - 1) : SubSeq(q, 1, p - 1)[j] = q[j]
  <2> DEFINE i == 1
             k == p - 1
  <2>1. i \in 1..(Len(q) + 1) /\ k \in (i - 1)..Len(q)
    BY <1>4
  <2> HIDE DEF i, k
  <2>2. /\ SubSeq(q, i, k) \in Seq(U) /\ Len(SubSeq(q, i, k)) = k - i + 1
        /\ \A j \in 1..(k - i + 1) : SubSeq(q, i, k)[j] = q[i + j - 1]
    BY <1>1, <2>1, SubSeqIs
  <2> QED  BY <1>4, <2>2 DEF i, k
<1> QED  BY <1>3, <1>5, <1>6

\* Members that are neighbours in the ring have none between them.
LEMMA RingGap ==
    ASSUME NEW U, NEW q \in Seq(U), NEW S, NEW r \in Seq(U), NEW at, Listing(q, S, r, at),
           NEW k \in 1..Len(r), NEW i \in 1..Len(q),
           k < Len(r) => i < at[k + 1], at[k] < i
    PROVE  q[i] \notin S
<1> SUFFICES ASSUME q[i] \in S
             PROVE  FALSE
  OBVIOUS
<1>1. Len(r) \in Nat /\ Len(q) \in Nat
  BY RangeIs
<1>2. PICK l \in 1..Len(r) : at[l] = i
  BY DEF Listing
<1>3. \A j, m \in 1..Len(r) : at[j] \in Nat /\ (j < m => at[j] < at[m])
  BY SMTT(30), <1>1 DEF Listing
<1>4. ~(l < k) /\ l # k
  BY <1>1, <1>2, <1>3
<1>5. k < Len(r) /\ k + 1 \in 1..Len(r)
  BY <1>1, <1>4
<1>6. ~(k + 1 < l) /\ l # k + 1
  BY <1>2, <1>3, <1>5
<1> QED  BY <1>1, <1>4, <1>5, <1>6

\* And none is in front of the first, or behind the last.
LEMMA RingEnds ==
    ASSUME NEW U, NEW q \in Seq(U), NEW S, NEW r \in Seq(U), NEW at, Listing(q, S, r, at),
           NEW i \in 1..Len(q), Len(r) > 0
    PROVE  /\ i < at[1] => q[i] \notin S
           /\ at[Len(r)] < i => q[i] \notin S
<1> SUFFICES ASSUME q[i] \in S
             PROVE  ~(i < at[1]) /\ ~(at[Len(r)] < i)
  OBVIOUS
<1>1. Len(r) \in Nat /\ Len(q) \in Nat /\ 1 \in 1..Len(r) /\ Len(r) \in 1..Len(r)
  BY RangeIs
<1>2. PICK l \in 1..Len(r) : at[l] = i
  BY DEF Listing
<1>3. \A j, m \in 1..Len(r) : at[j] \in Nat /\ (j < m => at[j] < at[m])
  BY SMTT(30), <1>1 DEF Listing
<1>4. l = 1 \/ 1 < l
  BY <1>1
<1>5. l = Len(r) \/ l < Len(r)
  BY <1>1
<1> QED  BY <1>1, <1>2, <1>3, <1>4, <1>5

\* w is q from behind the position p to its end, and then all of q; or q
\* backwards, from in front of p round to p.
Ahead(q, p, w) ==
    /\ Len(w) = (Len(q) - p) + Len(q)
    /\ \A j \in 1..(Len(q) - p) : w[j] = q[p + j]
    /\ \A j \in 1..Len(q) : w[(Len(q) - p) + j] = q[j]
Back(q, p, w) ==
    /\ Len(w) = Len(q)
    /\ \A j \in 1..(p - 1) : w[j] = q[p - j]
    /\ \A j \in p..Len(q) : w[j] = q[p + Len(q) - j]

\* The position of z in what goes backwards round to p.
LEMMA BackRound ==
    ASSUME NEW L \in Nat, NEW p \in 1..L, NEW z \in 1..L, p <= z
    PROVE  p + L - z \in 1..L /\ p + L - z \in p..L /\ p + L - (p + L - z) = z
OBVIOUS

\* And that of what is behind p and then all.
LEMMA AheadRound ==
    ASSUME NEW L \in Nat, NEW p \in 1..L, NEW z \in 1..L, NEW j \in Nat,
           L - p < j, j < (L - p) + z
    PROVE  /\ j - (L - p) \in 1..L /\ j - (L - p) < z
           /\ (L - p) + (j - (L - p)) = j
OBVIOUS

\* Positions between p and z, going one way or the other from p.
LEMMA Between ==
    ASSUME NEW L \in Nat, NEW p \in 1..L, NEW z \in 1..L, NEW j \in Nat, j > 0
    PROVE  /\ p < z /\ j < z - p => /\ j \in 1..(L - p) /\ p + j \in 1..L
                                    /\ p < p + j /\ p + j < z
           /\ z < p /\ j < p - z => /\ j \in 1..(p - 1) /\ p - j \in 1..L
                                    /\ z < p - j /\ p - j < p
           /\ p <= z /\ p <= j /\ j < p + L - z => /\ j \in p..L /\ p + L - j \in 1..L
                                                    /\ z < p + L - j
OBVIOUS

\* A search that starts behind a member and goes round comes to the next.
LEMMA RingAhead ==
    ASSUME NEW U, NEW q \in Seq(U), NEW S, NEW r \in Seq(U), NEW at, Listing(q, S, r, at),
           NEW k \in 1..Len(r), NEW w \in Seq(U), NEW none, Ahead(q, at[k], w)
    PROVE  FirstOr(w, S, none) = r[Following(Len(r), k)]
<1> DEFINE L == Len(q)
           n == Len(r)
           p == at[k]
<1> SUFFICES FirstOr(w, S, none) = r[Following(n, k)]
  OBVIOUS
<1>a. L = Len(q) /\ n = Len(r) /\ k \in 1..n /\ p = at[k] /\ Ahead(q, p, w)
  OBVIOUS
<1> HIDE DEF L, n, p
<1> USE <1>a
<1>1. L \in Nat /\ n \in Nat /\ n > 0
  BY RangeIs
<1>2. /\ \A l \in 1..n : at[l] \in 1..L /\ r[l] = q[at[l]] /\ r[l] \in S
      /\ \A l, m \in 1..n : l < m => at[l] < at[m]
  BY DEF Listing
<1>3. p \in 1..L
  BY <1>2
<1>0. Len(w) = (L - p) + L
  BY DEF Ahead
<1>4. /\ \A j \in 1..(L - p) : w[j] = q[p + j]
      /\ \A j \in 1..L : w[(L - p) + j] = q[j]
  BY DEF Ahead
<1>5. CASE k < n
  <2> DEFINE z == at[k + 1]
             x == z - p
  <2>1. k + 1 \in 1..n /\ k < k + 1
    BY <1>1, <1>5
  <2>2. z \in 1..L /\ p < z /\ r[k + 1] = q[z] /\ q[z] \in S
    BY <1>2, <2>1
  <2> HIDE DEF z
  <2>3. x \in 1..(L - p) /\ p + x = z /\ x \in 1..Len(w)
    BY <1>0, <1>1, <1>3, <2>2
  <2>4. w[x] = q[z]
    BY <1>4, <2>3
  <2>5. ASSUME NEW j \in 1..(x - 1)
        PROVE  w[j] \notin S
    <3> DEFINE i == p + j
    <3>0. j \in Nat /\ j > 0 /\ j < z - p
      BY <1>1, <1>3, <2>2
    <3>1. j \in 1..(L - p) /\ i \in 1..L /\ p < i /\ i < z
      BY <1>1, <1>3, <2>2, <3>0, Between
    <3>2. w[j] = q[i]
      BY <1>4, <3>1
    <3> HIDE DEF i
    <3>3. i \in 1..Len(q) /\ k \in 1..Len(r) /\ (k < Len(r) => i < at[k + 1]) /\ at[k] < i
      BY <3>1 DEF z
    <3>4. q[i] \notin S
      BY <3>3, RingGap
    <3> QED  BY <3>2, <3>4
  <2> HIDE DEF x
  <2>6. w[x] \in S
    BY <2>2, <2>4
  <2>7. FirstOr(w, S, none) = w[x]
    BY <2>3, <2>5, <2>6, FirstOrIs
  <2> QED  BY <1>5, <2>2, <2>4, <2>7 DEF Following
<1>6. CASE k = n
  <2> DEFINE z == at[1]
             x == (L - p) + z
  <2>1. 1 \in 1..n
    BY <1>1
  <2>2. z \in 1..L /\ r[1] = q[z] /\ q[z] \in S
    BY <1>2, <2>1
  <2> HIDE DEF z
  <2>3. x \in 1..Len(w)
    BY <1>0, <1>1, <1>3, <2>2
  <2>4. w[x] = q[z]
    BY <1>4, <2>2
  <2>5. ASSUME NEW j \in 1..(x - 1)
        PROVE  w[j] \notin S
    <3>1. CASE j <= L - p
      <4> DEFINE i == p + j
      <4>1. j \in 1..(L - p) /\ i \in 1..L /\ p < i
        BY SMTT(30), <1>1, <1>3, <2>2, <3>1
      <4>2. w[j] = q[i]
        BY <1>4, <4>1
      <4> HIDE DEF i
      <4>3. i \in 1..Len(q) /\ Len(r) > 0 /\ at[Len(r)] < i
        BY <1>1, <1>6, <4>1
      <4>4. q[i] \notin S
        BY <4>3, RingEnds
      <4> QED  BY <4>2, <4>4
    <3>2. CASE ~(j <= L - p)
      <4> DEFINE i == j - (L - p)
      <4>0. j \in Nat /\ j > 0 /\ L - p < j /\ j < (L - p) + z
        BY <1>1, <1>3, <2>2, <3>2
      <4>1. i \in 1..L /\ i < z /\ (L - p) + i = j
        BY ZenonT(40), <1>1, <1>3, <2>2, <4>0, AheadRound
      <4> HIDE DEF i
      <4>2. w[j] = q[i]
        BY <1>4, <4>1
      <4>3. i \in 1..Len(q) /\ Len(r) > 0 /\ i < at[1]
        BY <1>1, <4>1 DEF z
      <4>4. q[i] \notin S
        BY <4>3, RingEnds
      <4> QED  BY <4>2, <4>4
    <3> QED  BY <3>1, <3>2
  <2> HIDE DEF x
  <2>6. w[x] \in S
    BY <2>2, <2>4
  <2>7. FirstOr(w, S, none) = w[x]
    BY <2>3, <2>5, <2>6, FirstOrIs
  <2> QED  BY <1>1, <1>6, <2>2, <2>4, <2>7 DEF Following
<1> QED  BY <1>1, <1>5, <1>6

\* Backwards, it comes to the one before, and to itself when there is no
\* other.
LEMMA RingBack ==
    ASSUME NEW U, NEW q \in Seq(U), NEW S, NEW r \in Seq(U), NEW at, Listing(q, S, r, at),
           NEW k \in 1..Len(r), NEW w \in Seq(U), NEW none, Back(q, at[k], w)
    PROVE  FirstOr(w, S, none) = r[Preceding(Len(r), k)]
<1> DEFINE L == Len(q)
           n == Len(r)
           p == at[k]
<1> SUFFICES FirstOr(w, S, none) = r[Preceding(n, k)]
  OBVIOUS
<1>a. L = Len(q) /\ n = Len(r) /\ k \in 1..n /\ p = at[k] /\ Back(q, p, w)
  OBVIOUS
<1> HIDE DEF L, n, p
<1> USE <1>a
<1>1. L \in Nat /\ n \in Nat /\ n > 0
  BY RangeIs
<1>2. /\ \A l \in 1..n : at[l] \in 1..L /\ r[l] = q[at[l]] /\ r[l] \in S
      /\ \A l, m \in 1..n : l < m => at[l] < at[m]
  BY DEF Listing
<1>3. p \in 1..L
  BY <1>2
<1>0. Len(w) = L
  BY DEF Back
<1>4. /\ \A j \in 1..(p - 1) : w[j] = q[p - j]
      /\ \A j \in p..L : w[j] = q[p + L - j]
  BY DEF Back
<1>5. CASE k > 1
  <2> DEFINE h == k - 1
             z == at[h]
             x == p - z
  <2>1. h \in 1..n /\ h < k /\ h + 1 = k
    BY <1>1, <1>5
  <2> HIDE DEF h
  <2>2. z \in 1..L /\ z < p /\ r[h] = q[z] /\ q[z] \in S
    BY <1>2, <2>1
  <2> HIDE DEF z
  <2>3. x \in 1..(p - 1) /\ p - x = z /\ x \in 1..Len(w)
    BY <1>0, <1>1, <1>3, <2>2
  <2>4. w[x] = q[z]
    BY <1>4, <2>3
  <2>5. ASSUME NEW j \in 1..(x - 1)
        PROVE  w[j] \notin S
    <3> DEFINE i == p - j
    <3>0. j \in Nat /\ j > 0 /\ j < p - z
      BY <1>1, <1>3, <2>2
    <3>1. j \in 1..(p - 1) /\ i \in 1..L /\ z < i /\ i < p
      BY <1>1, <1>3, <2>2, <3>0, Between
    <3>2. w[j] = q[i]
      BY <1>4, <3>1
    <3> HIDE DEF i
    <3>3. i \in 1..Len(q) /\ h \in 1..Len(r) /\ (h < Len(r) => i < at[h + 1]) /\ at[h] < i
      BY <2>1, <3>1 DEF z
    <3>4. q[i] \notin S
      BY <3>3, RingGap
    <3> QED  BY <3>2, <3>4
  <2> HIDE DEF x
  <2>6. w[x] \in S
    BY <2>2, <2>4
  <2>7. FirstOr(w, S, none) = w[x]
    BY <2>3, <2>5, <2>6, FirstOrIs
  <2> QED  BY <1>5, <2>2, <2>4, <2>7 DEF Preceding, h
<1>6. CASE k = 1
  <2> DEFINE z == at[n]
             x == p + L - z
  <2>1. n \in 1..n /\ 1 \in 1..n
    BY <1>1
  <2>2. z \in 1..L /\ r[n] = q[z] /\ q[z] \in S /\ p <= z
    <3>1. p <= z
      <4>1. CASE n = 1
        BY <1>3, <1>6, <4>1 DEF z
      <4>2. CASE n # 1
        <5>1. 1 < n
          BY <1>1, <4>2
        <5>2. at[1] < at[n]
          BY <1>2, <2>1, <5>1
        <5>3. at[1] \in 1..L /\ at[n] \in 1..L
          BY <1>2, <2>1
        <5> QED  BY <1>6, <5>2, <5>3 DEF z
      <4> QED  BY <4>1, <4>2
    <3> QED  BY <1>2, <2>1, <3>1
  <2> HIDE DEF z
  <2>3. x \in 1..Len(w) /\ x \in p..L /\ p + L - x = z
    <3>1. x \in 1..L /\ x \in p..L /\ p + L - x = z
      BY <1>1, <1>3, <2>2, BackRound
    <3> QED  BY <1>0, <3>1
  <2>4. w[x] = q[z]
    BY <1>4, <2>3
  <2>5. ASSUME NEW j \in 1..(x - 1)
        PROVE  w[j] \notin S
    <3>1. CASE j < p
      <4> DEFINE i == p - j
      <4>1. j \in 1..(p - 1) /\ i \in 1..L /\ i < p
        BY SMTT(30), <1>1, <1>3, <2>2, <3>1
      <4>2. w[j] = q[i]
        BY <1>4, <4>1
      <4> HIDE DEF i
      <4>3. i \in 1..Len(q) /\ Len(r) > 0 /\ i < at[1]
        BY <1>1, <1>6, <4>1
      <4>4. q[i] \notin S
        BY <4>3, RingEnds
      <4> QED  BY <4>2, <4>4
    <3>2. CASE ~(j < p)
      <4> DEFINE i == p + L - j
      <4>0. j \in Nat /\ j > 0 /\ p <= j /\ j < p + L - z
        BY <1>1, <1>3, <2>2, <3>2
      <4>1. j \in p..L /\ i \in 1..L /\ z < i
        BY <1>1, <1>3, <2>2, <4>0, Between
      <4>2. w[j] = q[i]
        BY <1>4, <4>1
      <4> HIDE DEF i
      <4>3. i \in 1..Len(q) /\ Len(r) > 0 /\ at[Len(r)] < i
        BY <1>1, <4>1 DEF z
      <4>4. q[i] \notin S
        BY <4>3, RingEnds
      <4> QED  BY <4>2, <4>4
    <3> QED  BY <3>1, <3>2
  <2> HIDE DEF x
  <2>6. w[x] \in S
    BY <2>2, <2>4
  <2>7. FirstOr(w, S, none) = w[x]
    BY <2>3, <2>5, <2>6, FirstOrIs
  <2> QED  BY <1>1, <1>6, <2>2, <2>4, <2>7 DEF Preceding
<1> QED  BY <1>1, <1>5, <1>6

\* Two lists, one after the other, position by position.
LEMMA ConcatIs ==
    ASSUME NEW U, NEW a \in Seq(U), NEW b \in Seq(U)
    PROVE  /\ a \o b \in Seq(U) /\ Len(a \o b) = Len(a) + Len(b)
           /\ \A j \in 1..Len(a) : (a \o b)[j] = a[j]
           /\ \A j \in 1..Len(b) : (a \o b)[Len(a) + j] = b[j]
<1> DEFINE w == a \o b
<1>1. /\ w \in Seq(U) /\ Len(w) = Len(a) + Len(b)
      /\ \A j \in 1..Len(a) + Len(b) : w[j] = IF j <= Len(a) THEN a[j] ELSE b[j - Len(a)]
  BY ConcatProperties
<1>2. Len(a) \in Nat /\ Len(b) \in Nat
  BY RangeIs
<1> HIDE DEF w
<1>3. \A j \in 1..Len(a) : j \in 1..Len(a) + Len(b) /\ j <= Len(a)
  BY <1>2
<1>4. \A j \in 1..Len(b) : /\ Len(a) + j \in 1..Len(a) + Len(b) /\ ~(Len(a) + j <= Len(a))
                           /\ (Len(a) + j) - Len(a) = j
  BY <1>2
<1>5. \A j \in 1..Len(a) : w[j] = a[j]
  BY <1>1, <1>3
<1>6. \A j \in 1..Len(b) : w[Len(a) + j] = b[j]
  BY <1>1, <1>4
<1> QED  BY <1>1, <1>5, <1>6 DEF w

\* Where focusstack looks, forwards.
LEMMA AheadIs ==
    ASSUME NEW U, NEW q \in Distinct(U), NEW p \in 1..Len(q), NEW c, c = q[p]
    PROVE  Behind(q, c) \o q \in Seq(U) /\ Ahead(q, p, Behind(q, c) \o q)
<1> DEFINE b == Behind(q, c)
           w == b \o q
<1>1. q \in Seq(U)
  BY DEF Distinct
<1>2. b \in Seq(U) /\ Len(b) = Len(q) - p /\ \A j \in 1..(Len(q) - p) : b[j] = q[p + j]
  BY AroundIs
<1> HIDE DEF b
<1>a. b \in Seq(U)
  BY <1>2
<1>3. /\ w \in Seq(U) /\ Len(w) = Len(b) + Len(q)
      /\ \A j \in 1..Len(b) : w[j] = b[j]
      /\ \A j \in 1..Len(q) : w[Len(b) + j] = q[j]
  BY <1>1, <1>a, ConcatIs, SMTT(60)
<1> HIDE DEF w
<1>4. w \in Seq(U) /\ Ahead(q, p, w)
  BY <1>2, <1>3 DEF Ahead
<1> QED  BY <1>4 DEF w, b

\* And backwards.
LEMMA BackIs ==
    ASSUME NEW U, NEW q \in Distinct(U), NEW p \in 1..Len(q), NEW c \in U, c = q[p]
    PROVE  LET w == Cons(c, Behind(q, c)) \o InFront(q, c)
           IN  w \in Seq(U) /\ Reverse(w) \in Seq(U) /\ Back(q, p, Reverse(w))
<1> DEFINE b == Behind(q, c)
           f == InFront(q, c)
           a == Cons(c, b)
           w == a \o f
           L == Len(q)
<1>1. q \in Seq(U) /\ L \in Nat
  BY RangeIs DEF Distinct
<1>2. /\ b \in Seq(U) /\ Len(b) = L - p /\ \A j \in 1..(L - p) : b[j] = q[p + j]
      /\ f \in Seq(U) /\ Len(f) = p - 1 /\ \A j \in 1..(p - 1) : f[j] = q[j]
  BY AroundIs
<1> HIDE DEF b, f
<1>a. b \in Seq(U)
  BY <1>2
<1>b. a \in Seq(U) /\ Inserted(b, a, 1, c)
  BY <1>a, ConsInserts
<1> HIDE DEF a
<1>3. /\ a \in Seq(U) /\ Len(a) = Len(b) + 1 /\ a[1] = c
      /\ \A j \in 1..Len(b) : a[j + 1] = b[j]
  BY <1>a, <1>b, RangeIs DEF Inserted
<1>c. a \in Seq(U) /\ f \in Seq(U)
  BY <1>2, <1>b
<1>4. /\ w \in Seq(U) /\ Len(w) = Len(a) + Len(f)
      /\ \A j \in 1..Len(a) : w[j] = a[j]
      /\ \A j \in 1..Len(f) : w[Len(a) + j] = f[j]
  BY <1>c, ConcatIs, SMTT(60)
<1> HIDE DEF w
<1>5. Len(w) = L /\ Len(a) = (L - p) + 1 /\ p \in 1..L
  BY <1>1, <1>2, <1>3, <1>4
<1>6. DOMAIN Reverse(w) = 1..L /\ \A j \in 1..L : Reverse(w)[j] = w[(L - j) + 1]
  BY <1>5 DEF Reverse
<1>7. Reverse(w) \in Seq(U)
  BY <1>4, ReverseIs
<1>8. Len(Reverse(w)) = L
  BY <1>1, <1>6, <1>7, RangeIs
<1> HIDE DEF L
<1>9. ASSUME NEW j \in 1..(p - 1)
      PROVE  Reverse(w)[j] = q[p - j]
  <2> DEFINE i == p - j
  <2>1. j \in 1..L /\ i \in 1..(p - 1) /\ (L - j) + 1 = ((L - p) + 1) + i
    BY <1>1, <1>5
  <2> HIDE DEF i
  <2>2. Reverse(w)[j] = w[((L - p) + 1) + i]
    BY <1>6, <2>1
  <2>3. w[((L - p) + 1) + i] = f[i]
    BY <1>2, <1>4, <1>5, <2>1
  <2> QED  BY <1>2, <2>1, <2>2, <2>3 DEF i
<1>10. ASSUME NEW j \in p..L
       PROVE  Reverse(w)[j] = q[p + L - j]
  <2>1. j \in 1..L
    BY <1>1, <1>5
  <2>2. CASE j = L
    <3>1. (L - j) + 1 = 1 /\ 1 \in 1..((L - p) + 1) /\ p + L - j = p
      BY <1>1, <1>5, <2>2
    <3>2. Reverse(w)[j] = w[1]
      BY <1>6, <2>1, <3>1
    <3>3. w[1] = a[1]
      BY <1>4, <1>5, <3>1
    <3> QED  BY <1>3, <3>1, <3>2, <3>3
  <2>3. CASE j # L
    <3> DEFINE i == L - j
    <3>1. i \in 1..(L - p) /\ i + 1 \in 1..((L - p) + 1) /\ p + L - j = p + i
      BY <1>1, <1>5, <2>1, <2>3
    <3> HIDE DEF i
    <3>2. Reverse(w)[j] = w[i + 1]
      BY <1>6, <2>1 DEF i
    <3>3. w[i + 1] = a[i + 1]
      BY <1>4, <1>5, <3>1
    <3>4. a[i + 1] = b[i] /\ b[i] = q[p + i]
      BY <1>2, <1>3, <3>1
    <3> QED  BY <3>1, <3>2, <3>3, <3>4
  <2> QED  BY <2>2, <2>3
<1>11. Back(q, p, Reverse(w))
  BY <1>8, <1>9, <1>10 DEF Back, L
<1> QED  BY <1>4, <1>7, <1>11 DEF w, a, b, f

\* What focusstack finds: the next of the visible clients, in the order of
\* the list, or the one before.
LEMMA RingNext ==
    ASSUME NEW U, NEW q \in Distinct(U), NEW S, NEW r, r = Keep(q, S),
           NEW k \in 1..Len(r), NEW c, c = r[k], NEW none
    PROVE  /\ FirstOr(Behind(q, c) \o q, S, none) = r[Following(Len(r), k)]
           /\ LastOr(Cons(c, Behind(q, c)) \o InFront(q, c), S, none)
                  = r[Preceding(Len(r), k)]
<1>a. PICK at : Listing(q, S, r, at)
  BY KeepRing
<1>b. r \in Seq(U)
  BY KeepDistinct DEF Distinct
<1> DEFINE p == at[k]
           v == Behind(q, c) \o q
           w == Reverse(Cons(c, Behind(q, c)) \o InFront(q, c))
<1>1. q \in Seq(U) /\ p \in 1..Len(q) /\ c = q[p] /\ c \in U
  <2>1. p \in 1..Len(q) /\ c = q[p]
    BY <1>a DEF Listing
  <2> QED  BY <2>1, ElementOfSeq DEF Distinct
<1> HIDE DEF p
<1>3. v \in Seq(U) /\ Ahead(q, p, v)
  BY <1>1, AheadIs
<1>4. w \in Seq(U) /\ Back(q, p, w)
  BY <1>1, BackIs
<1> HIDE DEF v, w
<1>5. FirstOr(v, S, none) = r[Following(Len(r), k)]
  BY <1>1, <1>3, <1>a, <1>b, RingAhead DEF p
<1>6. FirstOr(w, S, none) = r[Preceding(Len(r), k)]
  BY <1>1, <1>4, <1>a, <1>b, RingBack DEF p
<1> QED  BY <1>5, <1>6 DEF v, w, LastOr

\* A list without repetitions is as long as the set of its members is large.
LEMMA DistinctLength ==
    ASSUME NEW U, NEW r \in Distinct(U)
    PROVE  Cardinality(Range(r)) = Len(r)
<1>1. r \in Seq(U) /\ IsInjective(r) /\ DOMAIN r = 1..Len(r) /\ Len(r) \in Nat
  BY RangeIs DEF Distinct
<1>2. IsFiniteSet(1..Len(r)) /\ Cardinality(1..Len(r)) = Len(r)
  BY SMTT(30), <1>1, FS_Interval
<1>3. \A c : c \in Range(r) <=> \E i \in 1..Len(r) : r[i] = c
  BY <1>1, RangeIs
<1>4. r \in [1..Len(r) -> Range(r)]
  <2>1. r \in [1..Len(r) -> U]
    BY <1>1, ElementOfSeq, SeqDef, LenProperties
  <2> QED  BY <1>1, <1>3, <2>1
<1>5. r \in Bijection(1..Len(r), Range(r))
  BY <1>1, <1>3, <1>4 DEF Bijection, Injection, Surjection, IsInjective
<1>6. ExistsBijection(1..Len(r), Range(r))
  BY <1>5 DEF ExistsBijection
<1> QED  BY <1>2, <1>6, FS_Bijection

\* The n-th after the k-th, round the ring, and every one is reached.
Round(n, k, i) == IF k + i <= n THEN k + i ELSE (k + i) - n

LEMMA RoundIs ==
    ASSUME NEW n \in Nat, NEW k \in 1..n
    PROVE  /\ Round(n, k, 0) = k
           /\ \A i \in 0..n : Round(n, k, i) \in 1..n
           /\ \A i \in 1..n : Following(n, Round(n, k, i - 1)) = Round(n, k, i)
           /\ \A j \in 1..n : \E i \in 1..n : Round(n, k, i) = j
           /\ Following(n, k) \in 1..n /\ Preceding(n, k) \in 1..n
           /\ Preceding(n, Following(n, k)) = k
<1>1. /\ Round(n, k, 0) = k
      /\ \A i \in 0..n : Round(n, k, i) \in 1..n
  BY DEF Round
<1>2. ASSUME NEW i \in 1..n
      PROVE  Following(n, Round(n, k, i - 1)) = Round(n, k, i)
  <2>1. CASE k + i < n + 1
    BY <2>1 DEF Round, Following
  <2>2. CASE k + i = n + 1
    BY <2>2 DEF Round, Following
  <2>3. CASE k + i > n + 1
    BY <2>3 DEF Round, Following
  <2> QED  BY <2>1, <2>2, <2>3
<1>3. ASSUME NEW j \in 1..n
      PROVE  \E i \in 1..n : Round(n, k, i) = j
  <2>1. CASE j > k
    <3>1. j - k \in 1..n /\ Round(n, k, j - k) = j
      BY <2>1 DEF Round
    <3> QED  BY <3>1
  <2>2. CASE j <= k
    <3>1. (j - k) + n \in 1..n /\ Round(n, k, (j - k) + n) = j
      BY <2>2 DEF Round
    <3> QED  BY <3>1
  <2> QED  BY <2>1, <2>2
<1>4. /\ Following(n, k) \in 1..n /\ Preceding(n, k) \in 1..n
      /\ Preceding(n, Following(n, k)) = k
  BY DEF Following, Preceding
<1> QED  BY <1>1, <1>2, <1>3, <1>4
=============================================================================
