------------------------ MODULE WarpScheduler_proofs ------------------------
(***************************************************************************)
(* Proofs about the warp schedulers, for any number of warps, blocks and   *)
(* nodes and whatever the other units decide.                              *)
(*                                                                         *)
(* QInv is the invariant behind all of them: the queues list exactly the   *)
(* nodes that may issue (Entries), which needs that a node that waits has  *)
(* issued nothing (Started) and that no warp resides while its block waits *)
(* (Residence).  It has no hypothesis, and gives EntriesExact.             *)
(*                                                                         *)
(* NoReturn needs one more for each policy.  With round robin a warp that  *)
(* was passed is looked at before the one it lost its turn to (RoundInv).  *)
(* With greedy-then-oldest it has issued longer ago (GreedyInv), provided  *)
(* that no group issue gives warps of one scheduler equal last issue       *)
(* cycles (Untied).                                                        *)
(*                                                                         *)
(* CoIssue is inductive with QInv and splits in its halves (Even and       *)
(* Together): the heads that are taken are of one instruction because what *)
(* precedes a head is finished in all four warps.  NeverStuck follows from *)
(* CoInv and from the order in which blocks are dispatched (Dispatched):   *)
(* of the unfinished nodes in resident blocks, take one of lowest rank.    *)
(***************************************************************************)
EXTENDS WarpScheduler, TLAPS, FiniteSetTheorems, FunctionTheorems

---------------------------------------------------------------------------
(* Sequences                                                               *)

Distinct(s) == \A i, j \in DOMAIN s : s[i] = s[j] => i = j

LEMMA Listed ==
    ASSUME NEW S, NEW n \in Nat, NEW s \in [1..n -> S]
    PROVE  s \in Seq(S) /\ Len(s) = n /\ DOMAIN s = 1..n
OBVIOUS

LEMMA Widened ==
    ASSUME NEW S, NEW T, S \subseteq T, NEW s \in Seq(S)
    PROVE  s \in Seq(T)
<1>1. Len(s) \in Nat /\ s \in [1..Len(s) -> S]
  OBVIOUS
<1>2. s \in [1..Len(s) -> T]
  BY <1>1
<1> QED BY <1>1, <1>2, Listed

LEMMA Places ==
    ASSUME NEW S, NEW s \in Seq(S)
    PROVE  /\ DOMAIN s = 1..Len(s) /\ Len(s) \in Nat
           /\ \A i \in DOMAIN s : s[i] \in S /\ s[i] \in Elems(s)
           /\ (s = <<>> <=> Elems(s) = {}) /\ Elems(s) \subseteq S
           /\ \A x \in Elems(s) : \E i \in DOMAIN s : s[i] = x
<1>1. DOMAIN s = 1..Len(s) /\ Len(s) \in Nat /\ \A i \in DOMAIN s : s[i] \in S
  OBVIOUS
<1>2. Elems(<<>>) = {}
  BY DEF Elems
<1>3. s # <<>> => 1 \in DOMAIN s
  OBVIOUS
<1> QED BY <1>1, <1>2, <1>3 DEF Elems

LEMMA Appended ==
    ASSUME NEW S, NEW s \in Seq(S), NEW e \in S
    PROVE  /\ Append(s, e) \in Seq(S)
           /\ Elems(Append(s, e)) = Elems(s) \union {e}
           /\ Distinct(s) /\ e \notin Elems(s) => Distinct(Append(s, e))
<1>1. /\ Append(s, e) \in Seq(S) /\ Len(Append(s, e)) = Len(s) + 1
      /\ DOMAIN Append(s, e) = DOMAIN s \union {Len(s) + 1} /\ Len(s) + 1 \notin DOMAIN s
      /\ \A i \in DOMAIN s : Append(s, e)[i] = s[i]
      /\ Append(s, e)[Len(s) + 1] = e
  OBVIOUS
<1> HIDE DEF Append
<1> QED BY <1>1 DEF Elems, Distinct

LEMMA Joined ==
    ASSUME NEW S, NEW s \in Seq(S), NEW t \in Seq(S)
    PROVE  /\ s \o t \in Seq(S)
           /\ Elems(s \o t) = Elems(s) \union Elems(t)
           /\ Distinct(s) /\ Distinct(t) /\ Elems(s) \cap Elems(t) = {} => Distinct(s \o t)
<1>1. /\ s \o t \in Seq(S)
      /\ \A i \in DOMAIN s : i \in DOMAIN (s \o t) /\ (s \o t)[i] = s[i]
      /\ \A i \in DOMAIN t :
            Len(s) + i \in DOMAIN (s \o t) /\ (s \o t)[Len(s) + i] = t[i]
  OBVIOUS
<1>2. \A i \in DOMAIN (s \o t) : 
           \/ i \in DOMAIN s /\ (s \o t)[i] = s[i]
           \/ i - Len(s) \in DOMAIN t /\ (s \o t)[i] = t[i - Len(s)]
  OBVIOUS
<1>3. Elems(s \o t) \subseteq Elems(s) \union Elems(t)
  BY <1>2 DEF Elems
<1>4. Elems(s) \union Elems(t) \subseteq Elems(s \o t)
  BY <1>1 DEF Elems
<1>5. ASSUME Distinct(s), Distinct(t), Elems(s) \cap Elems(t) = {},
             NEW i \in DOMAIN (s \o t), NEW j \in DOMAIN (s \o t), (s \o t)[i] = (s \o t)[j]
      PROVE  i = j
  <2>1. i \in Int /\ j \in Int /\ Len(s) \in Int
    <3>1. DOMAIN (s \o t) \subseteq Int
      OBVIOUS
    <3> QED BY <3>1
  <2>2. CASE i \in DOMAIN s /\ (s \o t)[i] = s[i] /\ j \in DOMAIN s /\ (s \o t)[j] = s[j]
    BY <1>5, <2>2 DEF Distinct
  <2>3. CASE /\ i - Len(s) \in DOMAIN t /\ (s \o t)[i] = t[i - Len(s)]
             /\ j - Len(s) \in DOMAIN t /\ (s \o t)[j] = t[j - Len(s)]
    <3>1. i - Len(s) = j - Len(s)
      BY <1>5, <2>3 DEF Distinct
    <3> QED BY <2>1, <3>1
  <2>4. CASE i \in DOMAIN s /\ (s \o t)[i] = s[i] /\ j - Len(s) \in DOMAIN t /\ (s \o t)[j] = t[j - Len(s)]
    BY <1>5, <2>4 DEF Elems
  <2>5. CASE j \in DOMAIN s /\ (s \o t)[j] = s[j] /\ i - Len(s) \in DOMAIN t /\ (s \o t)[i] = t[i - Len(s)]
    BY <1>5, <2>5 DEF Elems
  <2> QED BY <1>2, <2>2, <2>3, <2>4, <2>5
<1>6. Distinct(s) /\ Distinct(t) /\ Elems(s) \cap Elems(t) = {} => Distinct(s \o t)
  BY <1>5 DEF Distinct
<1> QED BY <1>1, <1>3, <1>4, <1>6

\* Taking entry i out of a queue leaves the others, in their order.
LEMMA Taken ==
    ASSUME NEW S, NEW s \in Seq(S), NEW i \in DOMAIN s
    PROVE  /\ TakenOut(s, i) \in Seq(S)
           /\ Distinct(s) => /\ Distinct(TakenOut(s, i))
                             /\ Elems(TakenOut(s, i)) = Elems(s) \ {s[i]}
<1> DEFINE t == TakenOut(s, i)  n == Len(s) - 1
           old(k) == IF k < i THEN k ELSE k + 1
<1>1. n \in Nat /\ DOMAIN s = 1..(n + 1) /\ i \in 1..(n + 1) /\ t = [k \in 1..n |-> s[old(k)]]
  BY DEF TakenOut
<1>2. \A k \in 1..n : old(k) \in 1..(n + 1) /\ old(k) # i
  BY <1>1
<1>3. \A k, l \in 1..n : old(k) = old(l) => k = l
  BY <1>1
<1>4. \A m \in 1..(n + 1) : m # i => \E k \in 1..n : old(k) = m
  <2>1. SUFFICES ASSUME NEW m \in 1..(n + 1), m # i PROVE \E k \in 1..n : old(k) = m
    OBVIOUS
  <2>2. CASE m < i
    <3>1. m \in 1..n /\ old(m) = m
      BY <1>1, <2>1, <2>2
    <3> QED BY <3>1
  <2>3. CASE m > i
    <3>1. m - 1 \in 1..n /\ old(m - 1) = m
      BY <1>1, <2>1, <2>3
    <3> QED BY <3>1
  <2> QED BY <1>1, <2>1, <2>2, <2>3
<1>5. t \in [1..n -> S] /\ \A k \in 1..n : t[k] = s[old(k)]
  <2>1. \A k \in 1..(n + 1) : s[k] \in S
    BY <1>1
  <2> HIDE DEF t, old
  <2> QED BY <1>1, <1>2, <2>1
<1>6. t \in Seq(S) /\ DOMAIN t = 1..n
  <2> HIDE DEF t, n, old
  <2> QED BY <1>1, <1>5, Listed
<1>7. ASSUME Distinct(s) PROVE Distinct(t)
  <2> HIDE DEF t, n, old
  <2> QED BY <1>1, <1>2, <1>3, <1>5, <1>6, <1>7 DEF Distinct
<1>8. ASSUME Distinct(s) PROVE Elems(t) = Elems(s) \ {s[i]}
  <2>1. Elems(t) \subseteq Elems(s) \ {s[i]}
    <3> HIDE DEF t, n, old
    <3> QED BY <1>1, <1>2, <1>5, <1>6, <1>8 DEF Distinct, Elems
  <2>2. Elems(s) \ {s[i]} \subseteq Elems(t)
    <3>1. SUFFICES ASSUME NEW m \in DOMAIN s, s[m] # s[i] PROVE s[m] \in Elems(t)
      BY DEF Elems
    <3>2. PICK k \in 1..n : old(k) = m
      <4> HIDE DEF t, n, old
      <4> QED BY <1>1, <1>4, <3>1
    <3> HIDE DEF t, n, old
    <3> QED BY <1>5, <1>6, <3>2 DEF Elems
  <2> QED BY <2>1, <2>2
<1> QED BY <1>6, <1>7, <1>8
---------------------------------------------------------------------------
(* A set of numbers as a sequence                                          *)

Before(key, m, n) == key[m] < key[n] \/ (key[m] = key[n] /\ m < n)

\* Arranged lists each element of a finite set of numbers once, in the order of the
\* keys and, where they are equal, of the numbers.
LEMMA Arrangement ==
    ASSUME NEW S \in SUBSET Nat, IsFiniteSet(S), NEW key, \A n \in S : key[n] \in Int
    PROVE  /\ Cardinality(S) \in Nat /\ DOMAIN Arranged(S, key) = 1..Cardinality(S)
           /\ Arranged(S, key) \in Seq(S) /\ Len(Arranged(S, key)) = Cardinality(S)
           /\ \A k \in 1..Cardinality(S) : Cardinality(UpTo(S, key, Arranged(S, key)[k])) = k
           /\ Elems(Arranged(S, key)) = S /\ Distinct(Arranged(S, key))
           /\ \A k, l \in 1..Cardinality(S) :
                 k < l => Before(key, Arranged(S, key)[k], Arranged(S, key)[l])
<1> DEFINE upTo(i) == UpTo(S, key, i)  c == Cardinality(S)  a == Arranged(S, key)
           rank == [i \in S |-> Cardinality(upTo(i))]
<1>0. \A i \in S : i \in Nat /\ key[i] \in Int
  OBVIOUS
<1>1. c \in Nat
  BY FS_CardinalityType
<1>2. \A i \in S : IsFiniteSet(upTo(i)) /\ rank[i] \in Nat /\ rank[i] <= c /\ rank[i] >= 1
  <2>1. SUFFICES ASSUME NEW i \in S PROVE IsFiniteSet(upTo(i)) /\ rank[i] \in Nat /\ rank[i] <= c /\ rank[i] >= 1
    OBVIOUS
  <2>2. upTo(i) \subseteq S /\ i \in upTo(i)
    BY <1>0 DEF UpTo
  <2>3. IsFiniteSet(upTo(i)) /\ Cardinality(upTo(i)) <= c
    BY <1>1, <2>2, FS_Subset
  <2>4. Cardinality(upTo(i)) \in Nat /\ Cardinality(upTo(i)) # 0
    BY <2>2, <2>3, FS_CardinalityType, FS_EmptySet
  <2> HIDE DEF upTo, c
  <2> QED BY <2>3, <2>4
<1>3. ASSUME NEW i \in S, NEW j \in S, Before(key, i, j) PROVE rank[i] < rank[j]
  <2>1. upTo(i) \subseteq upTo(j)
    <3>1. SUFFICES ASSUME NEW m \in S, key[m] < key[i] \/ (key[m] = key[i] /\ m <= i)
                   PROVE  key[m] < key[j] \/ (key[m] = key[j] /\ m <= j)
      BY DEF UpTo
    <3>2. /\ m \in Nat /\ i \in Nat /\ j \in Nat /\ key[m] \in Int /\ key[i] \in Int /\ key[j] \in Int
          /\ key[i] < key[j] \/ (key[i] = key[j] /\ i < j)
      BY <1>0, <1>3 DEF Before
    <3> QED BY <3>1, <3>2
  <2>2. j \in upTo(j) /\ j \notin upTo(i)
    <3>1. /\ i \in Nat /\ j \in Nat /\ key[i] \in Int /\ key[j] \in Int
          /\ key[i] < key[j] \/ (key[i] = key[j] /\ i < j)
      BY <1>0, <1>3 DEF Before
    <3>2. ~(key[j] < key[i] \/ (key[j] = key[i] /\ j <= i)) /\ j <= j
      BY <3>1
    <3> QED BY <3>2 DEF UpTo
  <2>3. rank[i] = Cardinality(upTo(i)) /\ rank[j] = Cardinality(upTo(j))
    OBVIOUS
  <2> HIDE DEF upTo
  <2>4. Cardinality(upTo(i)) <= Cardinality(upTo(j)) /\ Cardinality(upTo(i)) # Cardinality(upTo(j))
    BY <1>2, <2>1, <2>2, FS_Subset
  <2> HIDE DEF rank
  <2> QED BY <1>2, <2>3, <2>4
<1>4. \A i, j \in S : i = j \/ Before(key, i, j) \/ Before(key, j, i)
  <2>1. SUFFICES ASSUME NEW i \in S, NEW j \in S PROVE i = j \/ Before(key, i, j) \/ Before(key, j, i)
    OBVIOUS
  <2>2. i \in Nat /\ j \in Nat /\ key[i] \in Int /\ key[j] \in Int
    BY <1>0
  <2> QED BY <2>2 DEF Before
<1>5. rank \in Injection(S, 1..c)
  <2>1. rank \in [S -> 1..c]
    <3>1. ASSUME NEW i \in S PROVE rank[i] \in 1..c
      <4>1. rank[i] \in Nat /\ rank[i] <= c /\ rank[i] >= 1 /\ c \in Nat
        BY <1>1, <1>2
      <4> HIDE DEF rank, c
      <4> QED BY <4>1
    <3> QED BY <3>1
  <2>2. ASSUME NEW i \in S, NEW j \in S, rank[i] = rank[j] PROVE i = j
    <3>1. rank[i] \in Nat
      BY <1>2
    <3> HIDE DEF rank
    <3> QED BY <1>3, <1>4, <2>2, <3>1
  <2> HIDE DEF rank, c
  <2> QED BY <2>1, <2>2, Fun_IsInj
<1>6. \A k \in 1..c : \E i \in S : rank[i] = k
  <2>1. IsFiniteSet(1..c) /\ Cardinality(1..c) = c
    BY <1>1, FS_Interval
  <2>2. rank \in Surjection(S, 1..c)
    <3> HIDE DEF rank
    <3> QED BY <1>5, <2>1, FS_Injection
  <2> HIDE DEF rank, c
  <2> QED BY <2>2 DEF Surjection
<1>7. DOMAIN a = 1..c /\ \A k \in 1..c : a[k] \in S /\ rank[a[k]] = k
  <2>1. a = [k \in 1..c |-> CHOOSE n \in S : Cardinality(UpTo(S, key, n)) = k]
    BY DEF Arranged
  <2>2. SUFFICES ASSUME NEW k \in 1..c PROVE a[k] \in S /\ rank[a[k]] = k
    BY <2>1
  <2>3. a[k] = CHOOSE n \in S : Cardinality(UpTo(S, key, n)) = k
    BY <2>1
  <2>4. \E i \in S : Cardinality(UpTo(S, key, i)) = k
    BY <1>6
  <2>5. a[k] \in S /\ Cardinality(UpTo(S, key, a[k])) = k
    <3> HIDE DEF a
    <3> QED BY <2>3, <2>4
  <2> QED BY <2>5
<1>8. ASSUME NEW i \in S PROVE \E k \in 1..c : a[k] = i
  <2> HIDE DEF a, rank, c
  <2>1. rank[i] \in 1..c
    BY <1>5 DEF Injection
  <2>2. a[rank[i]] \in S /\ rank[a[rank[i]]] = rank[i]
    BY <1>7, <2>1
  <2>3. a[rank[i]] = i
    BY <1>5, <2>2 DEF Injection, IsInjective
  <2> QED BY <2>1, <2>3
<1>9. ASSUME NEW k \in 1..c, NEW l \in 1..c, k < l PROVE Before(key, a[k], a[l])
  <2>0. k \in Nat /\ l \in Nat
    BY <1>1
  <2> HIDE DEF a, rank, c
  <2>1. a[k] \in S /\ rank[a[k]] = k /\ a[l] \in S /\ rank[a[l]] = l
    BY <1>7
  <2>2. a[k] # a[l] /\ ~Before(key, a[l], a[k])
    <3>1. Before(key, a[l], a[k]) => rank[a[l]] < rank[a[k]]
      BY <1>3, <2>1
    <3>2. ~(l < k) /\ k # l
      BY <1>9, <2>0
    <3> QED BY <2>1, <3>1, <3>2
  <2> QED BY <1>4, <2>1, <2>2
<1>10. a \in Seq(S) /\ Len(a) = c
  <2> HIDE DEF a, rank, c
  <2>1. a \in [1..c -> S]
    <3>1. a = [k \in 1..c |-> a[k]]
      BY <1>7 DEF a, Arranged
    <3> QED BY <1>7, <3>1
  <2> QED BY <1>1, <2>1, Listed
<1>11. Elems(a) = S /\ Distinct(a)
  <2>1. Elems(a) = S
    <3> HIDE DEF a, rank, c
    <3> QED BY <1>7, <1>8 DEF Elems
  <2>2. Distinct(a)
    <3> HIDE DEF a, rank, c
    <3> QED BY <1>7 DEF Distinct
  <2> QED BY <2>1, <2>2
<1>12. \A k \in 1..c : Cardinality(UpTo(S, key, a[k])) = k
  <2>1. SUFFICES ASSUME NEW k \in 1..c PROVE Cardinality(UpTo(S, key, a[k])) = k
    OBVIOUS
  <2>2. a[k] \in S /\ rank[a[k]] = k
    BY <1>7
  <2> HIDE DEF a
  <2> QED BY <2>2
<1> QED BY <1>1, <1>7, <1>9, <1>10, <1>11, <1>12

\* Equal keys leave the numbers in their order.
LEMMA Ascending ==
    ASSUME NEW S \in SUBSET Nat, IsFiniteSet(S)
    PROVE  /\ InOrder(S) \in Seq(S) /\ Elems(InOrder(S)) = S /\ Distinct(InOrder(S))
           /\ Cardinality(S) \in Nat /\ Len(InOrder(S)) = Cardinality(S)
           /\ \A k, l \in DOMAIN InOrder(S) : k < l => InOrder(S)[k] < InOrder(S)[l]
<1> DEFINE key == [n \in S |-> 0]  a == InOrder(S)
<1>1. \A n \in S : key[n] = 0
  OBVIOUS
<1>2. a = Arranged(S, key)
  BY DEF InOrder
<1> HIDE DEF key, a
<1>3. \A n \in S : key[n] \in Int
  BY <1>1
<1>4. /\ a \in Seq(S) /\ Elems(a) = S /\ Distinct(a) /\ DOMAIN a = 1..Cardinality(S)
      /\ Cardinality(S) \in Nat /\ Len(a) = Cardinality(S)
      /\ \A k, l \in 1..Cardinality(S) : k < l => Before(key, a[k], a[l])
  BY <1>2, <1>3, Arrangement
<1>5. \A k, l \in DOMAIN a : k < l => a[k] < a[l]
  <2>1. \A k \in DOMAIN a : a[k] \in S
    BY <1>4, Places
  <2>2. SUFFICES ASSUME NEW k \in DOMAIN a, NEW l \in DOMAIN a, k < l PROVE a[k] < a[l]
    OBVIOUS
  <2>3. Before(key, a[k], a[l]) /\ key[a[k]] = 0 /\ key[a[l]] = 0
    BY <1>1, <1>4, <2>1, <2>2
  <2> QED BY <2>3 DEF Before
<1> QED BY <1>4, <1>5 DEF a

\* A finite set has a member with the least key, and one with the greatest.
LEMMA Extremes ==
    ASSUME NEW S \in SUBSET Nat, IsFiniteSet(S), S # {}, NEW key, \A n \in S : key[n] \in Int
    PROVE  /\ \E m \in S : \A n \in S : key[m] <= key[n]
           /\ \E m \in S : \A n \in S : key[n] <= key[m]
<1> DEFINE a == Arranged(S, key)  c == Cardinality(S)
<1>1. /\ c \in Nat /\ DOMAIN a = 1..c /\ a \in Seq(S) /\ Elems(a) = S
      /\ \A k, l \in 1..c : k < l => Before(key, a[k], a[l])
  BY Arrangement
<1>2. c # 0
  BY FS_EmptySet
<1> HIDE DEF a, c
<1>3. \A k \in 1..c : a[k] \in S
  BY <1>1, Places
<1>4. \A n \in S : \E k \in 1..c : a[k] = n
  BY <1>1, Places
<1>5. 1 \in 1..c /\ c \in 1..c
  BY <1>1, <1>2
<1>6. \A k, l \in 1..c : k <= l => key[a[k]] <= key[a[l]]
  <2>1. SUFFICES ASSUME NEW k \in 1..c, NEW l \in 1..c, k <= l PROVE key[a[k]] <= key[a[l]]
    OBVIOUS
  <2>2. key[a[k]] \in Int /\ key[a[l]] \in Int /\ k \in Int /\ l \in Int
    <3>1. a[k] \in S /\ a[l] \in S
      BY <1>3
    <3>2. k \in Int /\ l \in Int
      BY <1>1
    <3> QED BY <3>1, <3>2
  <2>3. CASE k = l
    BY <2>2, <2>3
  <2>4. CASE k < l
    <3>1. key[a[k]] < key[a[l]] \/ key[a[k]] = key[a[l]]
      BY <1>1, <2>4 DEF Before
    <3> QED BY <2>2, <3>1
  <2> QED BY <2>1, <2>2, <2>3, <2>4
<1>7. \A n \in S : key[a[1]] <= key[n] /\ key[n] <= key[a[c]]
  <2>1. SUFFICES ASSUME NEW k \in 1..c PROVE key[a[1]] <= key[a[k]] /\ key[a[k]] <= key[a[c]]
    BY <1>4
  <2>2. 1 <= k /\ k <= c
    BY <1>1
  <2> QED BY <1>5, <1>6, <2>2
<1> QED BY <1>3, <1>5, <1>7

\* First and Last are the least and the greatest member.
LEMMA Ends ==
    ASSUME NEW S \in SUBSET Nat, IsFiniteSet(S), S # {}
    PROVE  /\ First(S) \in S /\ \A j \in S : First(S) <= j
           /\ Last(S) \in S /\ \A j \in S : j <= Last(S)
<1> DEFINE key == [n \in Nat |-> n]
<1>1. \A n \in S : key[n] = n /\ n \in Int
  OBVIOUS
<1> HIDE DEF key
<1>2. \A n \in S : key[n] \in Int
  BY <1>1
<1>3. /\ \E m \in S : \A n \in S : key[m] <= key[n]
      /\ \E m \in S : \A n \in S : key[n] <= key[m]
  BY <1>2, Extremes
<1>4. /\ \E m \in S : \A n \in S : m <= n
      /\ \E m \in S : \A n \in S : n <= m
  BY <1>1, <1>3
<1> QED BY <1>4 DEF First, Last

\* The places of a sequence, in order, are the numbers from one on.
LEMMA PlacesInOrder ==
    ASSUME NEW c \in Nat
    PROVE  Len(InOrder(1..c)) = c /\ \A k \in 1..c : InOrder(1..c)[k] = k
<1> DEFINE S == 1..c  key == [n \in S |-> 0]  a == InOrder(S)
<1>1. \A n \in S : key[n] = 0
  OBVIOUS
<1>2. a = Arranged(S, key)
  BY DEF InOrder
<1>3. IsFiniteSet(S) /\ Cardinality(S) = c /\ S \in SUBSET Nat
  BY FS_Interval
<1> HIDE DEF a, key
<1>4. \A n \in S : key[n] \in Int
  BY <1>1
<1>5. /\ DOMAIN a = 1..Cardinality(S) /\ Len(a) = Cardinality(S) /\ a \in Seq(S)
      /\ \A k \in 1..Cardinality(S) : Cardinality(UpTo(S, key, a[k])) = k
  <2> HIDE DEF S
  <2> QED BY <1>2, <1>3, <1>4, Arrangement
<1>6. ASSUME NEW k \in 1..c PROVE a[k] = k
  <2>1. a[k] \in 1..c /\ Cardinality(UpTo(S, key, a[k])) = k
    BY <1>3, <1>5
  <2>2. UpTo(S, key, a[k]) = 1..a[k]
    BY <1>1, <2>1 DEF UpTo
  <2>3. Cardinality(1..a[k]) = a[k]
    BY <2>1, FS_Interval
  <2> QED BY <2>1, <2>2, <2>3
<1> QED BY <1>3, <1>5, <1>6 DEF a

\* The lowest k of a finite set are k, or the whole set, and none is below them.
LEMMA LowestOnes ==
    ASSUME NEW S \in SUBSET Nat, IsFiniteSet(S), NEW k \in Nat
    PROVE  /\ Lowest(S, k) \subseteq S /\ IsFiniteSet(Lowest(S, k))
           /\ Cardinality(Lowest(S, k)) \in Nat /\ Cardinality(Lowest(S, k)) <= k
           /\ Cardinality(Lowest(S, k)) = k \/ Lowest(S, k) = S
           /\ \A b \in Lowest(S, k), c \in S : c < b => c \in Lowest(S, k)
<1> DEFINE T == Lowest(S, k)  c == Cardinality(S)  key == [n \in S |-> 0]
           a == InOrder(S)  below(b) == {d \in S : d < b}  m == IF k <= c THEN k ELSE c
<1>1. /\ a \in Seq(S) /\ Elems(a) = S /\ Distinct(a) /\ c \in Nat /\ Len(a) = c
      /\ \A i, j \in DOMAIN a : i < j => a[i] < a[j]
  BY Ascending
<1>2. /\ DOMAIN a = 1..c /\ \A i \in 1..c : a[i] \in S /\ a[i] \in Nat
      /\ \A b \in S : \E i \in 1..c : a[i] = b
  <2> HIDE DEF a, c
  <2>1. /\ DOMAIN a = 1..Len(a) /\ \A i \in DOMAIN a : a[i] \in S
        /\ \A x \in Elems(a) : \E i \in DOMAIN a : a[i] = x
    BY <1>1, Places
  <2>2. DOMAIN a = 1..c
    BY <1>1, <2>1
  <2>3. \A i \in 1..c : a[i] \in S
    BY <2>1, <2>2
  <2>4. \A b \in S : \E i \in 1..c : a[i] = b
    BY <1>1, <2>1, <2>2
  <2> QED BY <2>2, <2>3, <2>4
<1>3. T \subseteq S /\ IsFiniteSet(T) /\ Cardinality(T) \in Nat
  <2>1. T \subseteq S
    BY DEF Lowest
  <2> QED BY <2>1, FS_Subset, FS_CardinalityType
<1>4. ASSUME NEW i \in 1..c PROVE Cardinality(below(a[i])) = i - 1
  <2>1. Cardinality(UpTo(S, key, a[i])) = i
    <3>1. \A n \in S : key[n] \in Int
      OBVIOUS
    <3>2. a = Arranged(S, key)
      BY DEF InOrder
    <3> HIDE DEF key, a
    <3> QED BY <3>1, <3>2, Arrangement
  <2>2. UpTo(S, key, a[i]) = below(a[i]) \union {a[i]}
    <3>1. a[i] \in S /\ \A d \in S : d \in Nat /\ a[i] \in Nat
      BY <1>2
    <3>2. \A d \in S : key[d] = 0
      OBVIOUS
    <3>3. \A d \in S : (key[d] < key[a[i]] \/ (key[d] = key[a[i]] /\ d <= a[i])) <=> d < a[i] \/ d = a[i]
      <4>1. SUFFICES ASSUME NEW d \in S
                     PROVE (key[d] < key[a[i]] \/ (key[d] = key[a[i]] /\ d <= a[i])) <=> d < a[i] \/ d = a[i]
        OBVIOUS
      <4>2. key[d] = 0 /\ key[a[i]] = 0 /\ d \in Nat /\ a[i] \in Nat
        BY <3>1, <3>2
      <4> HIDE DEF key, a
      <4> QED BY <4>2
    <3> HIDE DEF key, a
    <3> QED BY <3>1, <3>3 DEF UpTo
  <2>3. a[i] \notin below(a[i])
    <3>1. a[i] \in Nat
      BY <1>2
    <3> HIDE DEF a
    <3> QED BY <3>1
  <2>4. IsFiniteSet(below(a[i]))
    <3>1. below(a[i]) \subseteq S
      OBVIOUS
    <3> QED BY <3>1, FS_Subset
  <2> HIDE DEF below, key, a
  <2>5. Cardinality(below(a[i]) \union {a[i]}) = Cardinality(below(a[i])) + 1
    BY <2>3, <2>4, FS_AddElement
  <2>6. Cardinality(below(a[i])) \in Nat
    BY <2>4, FS_CardinalityType
  <2> QED BY <2>1, <2>2, <2>5, <2>6
<1>5. \A i \in 1..c : a[i] \in T <=> i <= k
  <2>1. SUFFICES ASSUME NEW i \in 1..c PROVE a[i] \in T <=> i <= k
    OBVIOUS
  <2>2. a[i] \in S /\ Cardinality(below(a[i])) = i - 1 /\ i \in Nat
    BY <1>1, <1>2, <1>4
  <2>3. a[i] \in T <=> i - 1 < k
    BY <2>2 DEF Lowest
  <2> HIDE DEF a, T, below
  <2> QED BY <2>2, <2>3
<1>6. ASSUME NEW b \in T, NEW d \in S, d < b PROVE d \in T
  <2>1. PICK i \in 1..c : a[i] = b
    BY <1>2, <1>3
  <2>2. PICK j \in 1..c : a[j] = d
    BY <1>2
  <2> HIDE DEF a, T
  <2>3. b \in Nat /\ d \in Nat /\ i \in Nat /\ j \in Nat /\ k \in Nat
    BY <1>1, <1>3
  <2>4. ~(i < j)
    <3>1. i < j => b < d
      BY <1>1, <1>2, <2>1, <2>2
    <3> QED BY <1>6, <2>3, <3>1
  <2>5. j <= i /\ i <= k
    BY <1>5, <2>1, <2>3, <2>4
  <2>6. j <= k
    BY <2>3, <2>5
  <2> QED BY <1>5, <2>2, <2>6
<1>7. m \in Nat /\ m <= k /\ (m = k \/ m = c) /\ \A i \in 1..c : i \in 1..m <=> i <= k
  BY <1>1
<1>8. Cardinality(T) = m
  <2> DEFINE f == [i \in 1..m |-> a[i]]
  <2>1. IsFiniteSet(1..m) /\ Cardinality(1..m) = m
    <3> HIDE DEF m
    <3> QED BY <1>7, FS_Interval
  <2>2. 1..m \subseteq 1..c
    BY <1>1
  <2>3. \A i \in 1..m : f[i] = a[i] /\ f[i] \in T
    <3> HIDE DEF m, T, a
    <3>1. SUFFICES ASSUME NEW i \in 1..m PROVE a[i] \in T
      OBVIOUS
    <3> QED BY <1>5, <1>7, <2>2
  <2>4. \A b \in T : \E i \in 1..m : f[i] = b
    <3>1. SUFFICES ASSUME NEW b \in T PROVE \E i \in 1..m : f[i] = b
      OBVIOUS
    <3>2. PICK i \in 1..c : a[i] = b
      BY <1>2, <1>3
    <3> HIDE DEF m, T, a, f
    <3>3. i \in 1..m
      BY <1>5, <1>7, <3>1, <3>2
    <3> QED BY <2>3, <3>2, <3>3
  <2>5. \A i, j \in 1..m : f[i] = f[j] => i = j
    <3> HIDE DEF m, T, a, f
    <3> QED BY <1>1, <1>2, <2>2, <2>3 DEF Distinct
  <2>6. f \in [1..m -> T]
    <3> HIDE DEF m, T, a
    <3> QED BY <2>3
  <2> HIDE DEF m, T, a, f
  <2>7. f \in Bijection(1..m, T)
    BY <2>4, <2>5, <2>6 DEF Bijection, Injection, Surjection, IsInjective
  <2> QED BY <2>1, <2>7, FS_Bijection DEF ExistsBijection
<1>9. Cardinality(T) <= k /\ (Cardinality(T) = k \/ T = S)
  <2>1. m = c => T = S
    <3> HIDE DEF m, T
    <3> QED BY <1>3, <1>8, FS_Subset
  <2> HIDE DEF m, T
  <2> QED BY <1>7, <1>8, <2>1
<1> QED BY <1>3, <1>6, <1>9
---------------------------------------------------------------------------
(* The invariant                                                           *)

Startable(n) == Live(n) /\ Unmet(n, finished, IssueDone) = {}
LaneWarps(l) == {w \in Warp : LaneOf(w) = l}

Typed ==
    /\ setup \in Setup /\ turn \in 0..4 /\ ready \in [Warp -> Seq(Node)]
    /\ sub \in [Node -> Nat] /\ \A n \in Node : sub[n] <= dag[n].subops
    /\ early \subseteq Node /\ finished \subseteq IssueDone

TypedPolicy ==
    /\ lastWarp \in [Lane -> Warp \union {NoWarp}] /\ lastIssue \in [Warp -> 0..Now]
    /\ lastPipe \in [Warp -> {dag[n].pipe : n \in Node} \union {NoPipe}]
    /\ cursor \in [Lane -> Nat] /\ \A l \in Lane : cursor[l] <= Cardinality(LaneWarps(l))
    /\ tmaWait \in [Warp -> 0..setup.tmaInterval]
    /\ holder \in [Lane -> Warp \union {NoWarp}] /\ passed \in [Warp -> SUBSET Warp]

\* A node that waits for another has issued nothing.
Started == \A n \in Node : sub[n] > 0 => Unmet(n, finished, IssueDone) = {}

\* The queue of a warp lists its nodes that may issue, each once.
Entries ==
    \A w \in Warp : /\ Distinct(ready[w])
                    /\ Elems(ready[w]) = {n \in Node : dag[n].warp = w /\ Startable(n)}

\* No warp resides while its block is waiting.
Residence ==
    /\ resident \in [Lane -> Seq(Warp)] /\ waiting \subseteq Blocks
    /\ \A l \in Lane : Distinct(resident[l]) /\ Elems(resident[l]) \subseteq LaneWarps(l)
    /\ \A w \in Warp : Residing(w) => BlockOf[w] \notin waiting

Queued == Typed /\ Started /\ Entries
QInv == Queued /\ TypedPolicy /\ Residence /\ Cardinality(ResidentBlocks) <= setup.maxResident

LEMMA Given ==
    ASSUME setup \in Setup
    PROVE  /\ Warp \subseteq Nat /\ IsFiniteSet(Warp) /\ Node \subseteq Nat /\ IsFiniteSet(Node)
           /\ BlockOf \in [Warp -> Nat] /\ setup.maxResident \in Nat \ {0} /\ setup.tmaInterval \in Nat
           /\ \A n \in Node : /\ dag[n].warp \in Warp /\ dag[n].pipe # NoPipe
                              /\ dag[n].subops \in Nat \ {0}
                              /\ dag[n].deps \subseteq Node /\ dag[n].issueDeps \subseteq Node
           /\ \A w \in Warp : LaneOf(w) \in Lane
<1>1. Warp \subseteq Nat /\ IsFiniteSet(Warp) /\ Node \subseteq Nat /\ IsFiniteSet(Node)
      /\ BlockOf \in [Warp -> Nat] /\ setup.maxResident \in Nat \ {0} /\ setup.tmaInterval \in Nat
  BY SetupAssumption DEF Warp, Node, dag, BlockOf
<1>2. ASSUME NEW n \in Node
      PROVE  /\ dag[n].warp \in Warp /\ dag[n].pipe # NoPipe
             /\ dag[n].subops \in Nat \ {0}
             /\ dag[n].deps \subseteq Node /\ dag[n].issueDeps \subseteq Node
  BY GraphAssumption DEF Warp, Node, dag
<1>3. \A w \in Warp : LaneOf(w) \in Lane
  BY <1>1 DEF LaneOf, Lane
<1> QED BY <1>1, <1>2, <1>3

LEMMA GivenBlocks ==
    ASSUME setup \in Setup
    PROVE  Blocks \subseteq Nat /\ IsFiniteSet(Blocks) /\ \A w \in Warp : BlockOf[w] \in Blocks
<1>1. Warp \subseteq Nat /\ IsFiniteSet(Warp) /\ BlockOf \in [Warp -> Nat]
  BY Given
<1>2. Blocks \subseteq Nat /\ \A w \in Warp : BlockOf[w] \in Blocks
  BY <1>1 DEF Blocks
<1>3. BlockOf \in Surjection(Warp, Blocks)
  BY <1>1 DEF Blocks, Surjection
<1> QED BY <1>1, <1>2, <1>3, FS_Surjection

\* What does not change while setup does not.
LEMMA Fixed ==
    ASSUME setup' = setup
    PROVE  /\ Warp' = Warp /\ dag' = dag /\ Node' = Node /\ BlockOf' = BlockOf /\ Blocks' = Blocks
           /\ Now' = Now /\ \A l \in Lane : LaneWarps(l)' = LaneWarps(l)
BY DEF Warp, dag, Node, BlockOf, Blocks, Now, LaneWarps, LaneOf

\* Every entry is live: the whole queue is what its warp offers from.
LEMMA AllLive ==
    ASSUME Queued, NEW w \in Warp
    PROVE  Queue(w) = ready[w] /\ ready[w] \in Seq(Node)
<1>1. ready[w] \in Seq(Node) /\ \A i \in DOMAIN ready[w] : Live(ready[w][i])
  <2>1. ready[w] \in Seq(Node)
    BY DEF Queued, Typed
  <2>2. \A i \in DOMAIN ready[w] : ready[w][i] \in Elems(ready[w])
    BY DEF Elems
  <2> QED BY <2>1, <2>2 DEF Queued, Entries, Startable
<1>2. {i \in DOMAIN ready[w] : Live(ready[w][i])} = DOMAIN ready[w]
  BY <1>1
<1>3. CASE ready[w] = <<>>
  <2>1. DOMAIN ready[w] = {}
    BY <1>3
  <2> QED BY <1>1, <1>2, <1>3, <2>1 DEF Queue
<1>4. CASE ready[w] # <<>>
  <2> DEFINE q == ready[w]
  <2>1. q \in Seq(Node) /\ DOMAIN q = 1..Len(q) /\ Len(q) \in Nat /\ DOMAIN q # {}
    BY <1>1, <1>4
  <2>2. First(DOMAIN q) = 1
    <3>1. IsFiniteSet(1..Len(q)) /\ 1..Len(q) \in SUBSET Nat
      BY <2>1, FS_Interval
    <3> HIDE DEF q
    <3>2. First(DOMAIN q) \in DOMAIN q /\ \A j \in DOMAIN q : First(DOMAIN q) <= j
      BY <2>1, <3>1, Ends
    <3>3. 1 \in DOMAIN q /\ \A k \in DOMAIN q : k \in Nat /\ 1 <= k
      BY <2>1
    <3>4. First(DOMAIN q) \in Nat /\ First(DOMAIN q) <= 1 /\ 1 <= First(DOMAIN q)
      BY <3>2, <3>3
    <3> QED BY <3>4
  <2>3. Queue(w) = SubSeq(q, 1, Len(q))
    BY <1>2, <2>1, <2>2 DEF Queue
  <2>4. SubSeq(q, 1, Len(q)) = q
    <3> HIDE DEF q
    <3> QED BY <2>1
  <2> QED BY <1>1, <2>3, <2>4
<1> QED BY <1>3, <1>4

LEMMA FirstOf ==
    ASSUME NEW n \in Nat, NEW S \in SUBSET (0..n), S # {}
    PROVE  First(S) \in S /\ \A j \in S : First(S) <= j
<1>1. IsFiniteSet(0..n) /\ S \in SUBSET Nat
  BY FS_Interval
<1>2. IsFiniteSet(S)
  BY <1>1, FS_Subset
<1> QED BY <1>1, <1>2, Ends

\* What a warp offers is an entry of its queue that is ready, and the warp resides.
LEMMA OfferedEntry ==
    ASSUME Queued, NEW w \in Warp, NEW able, Offers(w, able)
    PROVE  /\ First(Offer(w, able)) \in DOMAIN ready[w]
           /\ IsReady(ready[w][First(Offer(w, able))])
           /\ Residing(w)
<1> DEFINE q == Queue(w)  o == Offer(w, able)  m == First(o)
<1>1. q = ready[w] /\ q \in Seq(Node) /\ Queue(w) = ready[w]
  BY AllLive
<1>2. DOMAIN q = 1..Len(q) /\ Len(q) \in Nat
  <2> HIDE DEF q
  <2> QED BY <1>1, Places
<1>3. \A n : HeadIssues(n, able) => IsReady(n)
  BY DEF HeadIssues, HasPipe
<1>4. Behind(w, able) \subseteq 2..Len(q) /\ \A i \in Behind(w, able) : IsReady(q[i])
  BY DEF Behind, HasPipe
<1>5. m \in DOMAIN q /\ IsReady(q[m])
  <2>1. CASE q # <<>> /\ HeadIssues(q[1], able)
    <3>1. o = {1}
      BY <2>1 DEF Offer
    <3>2. m = 1
      BY <3>1 DEF First
    <3>3. 1 \in DOMAIN q
      <4> HIDE DEF q
      <4> QED BY <1>1, <2>1
    <3> QED BY <1>3, <2>1, <3>2, <3>3
  <2>2. CASE q # <<>> /\ ~HeadIssues(q[1], able) /\ Behind(w, able) # {}
             /\ o = {First(Behind(w, able))}
    <3>1. m = First(Behind(w, able))
      BY <2>2 DEF First
    <3>2. First(Behind(w, able)) \in Behind(w, able)
      <4>1. 2..Len(q) \subseteq 0..Len(q)
        <5> HIDE DEF q
        <5> QED BY <1>2
      <4> HIDE DEF q
      <4> QED BY <1>2, <1>4, <2>2, <4>1, FirstOf
    <3>3. 2..Len(q) \subseteq DOMAIN q
      <4> HIDE DEF q
      <4> QED BY <1>2
    <3> HIDE DEF q, o, m
    <3> QED BY <1>4, <3>1, <3>2, <3>3
  <2> QED BY <2>1, <2>2 DEF Offers, Offer
<1>6. q[m] \in Elems(ready[w])
  <2> HIDE DEF q, m
  <2> QED BY <1>1, <1>5 DEF Elems
<1>7. dag[q[m]].warp = w
  BY <1>6 DEF Queued, Entries
<1> QED BY <1>1, <1>5, <1>7 DEF IsReady

\* A scheduler gives its turn to a warp of its own that offers an entry.
LEMMA TurnOf ==
    ASSUME Queued, TypedPolicy, Residence, NEW l \in Lane, NEW able, NEW w \in Turns(l, able)
    PROVE  w \in Elems(resident[l]) /\ w \in LaneWarps(l) /\ Offers(w, able)
<1>1. w \in Elems(resident[l]) /\ Offers(w, able)
  <2>1. CASE setup.policy # "RR"
    BY <2>1 DEF Turns, GreedyThenOldest
  <2>2. CASE setup.policy = "RR"
    <3> DEFINE count == Len(resident[l])
               after(k) == resident[l][(((cursor[l] % count) + k) % count) + 1]
               turns == {k \in 0..count - 1 : Offers(after(k), able)}
    <3>1. w \in RoundRobin(l, able)
      BY <2>2 DEF Turns
    <3>2. count # 0 /\ turns # {} /\ w = after(First(turns))
      BY <3>1 DEF RoundRobin
    <3>3. count \in Nat /\ DOMAIN resident[l] = 1..count
      BY DEF Residence
    <3>4. First(turns) \in turns
      <4>1. turns \subseteq 0..(count - 1) /\ count - 1 \in Nat
        BY <3>2, <3>3
      <4> HIDE DEF turns, count
      <4> QED BY <3>2, <4>1, FirstOf
    <3>5. Offers(w, able)
      BY <3>2, <3>4
    <3>6. (((cursor[l] % count) + First(turns)) % count) + 1 \in DOMAIN resident[l]
      <4>1. First(turns) \in Nat
        BY <3>3, <3>4
      <4> DEFINE s == (cursor[l] % count) + First(turns)
      <4>2. CASE s \in Int
        <5>1. count \in Nat \ {0}
          BY <3>2, <3>3
        <5> HIDE DEF turns, count, s
        <5>2. s % count \in 0..(count - 1)
          BY <4>2, <5>1
        <5>3. (s % count) + 1 \in 1..count
          BY <5>1, <5>2
        <5>4. s = (cursor[l] % count) + First(turns)
          BY DEF s
        <5> QED BY <3>3, <5>3, <5>4
      <4>3. s \in Int
        <5>1. cursor[l] \in Nat /\ count \in Nat \ {0}
          BY <3>2, <3>3 DEF TypedPolicy
        <5> HIDE DEF turns, count
        <5> QED BY <4>1, <5>1
      <4> QED BY <4>2, <4>3
    <3> HIDE DEF turns, count
    <3> QED BY <3>2, <3>5, <3>6 DEF Elems
  <2> QED BY <2>1, <2>2
<1> QED BY <1>1 DEF Residence
---------------------------------------------------------------------------
(* The queues                                                              *)

Own(C, w) == {n \in C : dag[n].warp = w}

LEMMA PutInto ==
    ASSUME setup \in Setup, NEW q \in [Warp -> Seq(Node)], NEW C \in SUBSET Node,
           NEW by, \A n \in C : by[n] \in Int, NEW w \in Warp
    PROVE  /\ PutIn(q, C, by)[w] \in Seq(Node)
           /\ Elems(PutIn(q, C, by)[w]) = Elems(q[w]) \union Own(C, w)
           /\ Distinct(q[w]) /\ Elems(q[w]) \cap C = {} => Distinct(PutIn(q, C, by)[w])
<1> DEFINE own == {n \in C : dag[n].warp = w}  a == Arranged(own, by)
<1>1. own \in SUBSET Nat /\ own \subseteq Node /\ own \subseteq C /\ IsFiniteSet(own)
  <2>1. Node \subseteq Nat /\ IsFiniteSet(Node)
    BY Given
  <2> QED BY <2>1, FS_Subset
<1>2. a \in Seq(own) /\ Elems(a) = own /\ Distinct(a)
  <2>1. \A n \in own : by[n] \in Int
    BY <1>1
  <2> HIDE DEF own
  <2> QED BY <1>1, <2>1, Arrangement
<1>3. a \in Seq(Node)
  <2> HIDE DEF own, a
  <2> QED BY <1>1, <1>2, Widened
<1>4. PutIn(q, C, by)[w] = q[w] \o a
  BY DEF PutIn
<1> HIDE DEF own, a
<1>5. /\ q[w] \o a \in Seq(Node) /\ Elems(q[w] \o a) = Elems(q[w]) \union own
      /\ Distinct(q[w]) /\ Elems(q[w]) \cap own = {} => Distinct(q[w] \o a)
  BY <1>2, <1>3, Joined
<1>6. own = Own(C, w)
  BY DEF own, Own
<1> QED BY <1>1, <1>4, <1>5, <1>6

\* An issue takes its nodes out, puts those with sub-ops left back and appends what
\* it releases; the queues stay exact.
LEMMA IssueQueues ==
    ASSUME Queued, NEW W \in SUBSET Warp, NEW at, \A w \in W : at[w] \in DOMAIN ready[w],
           Issue(W, at), turn' \in 0..4
    PROVE  /\ Queued'
           /\ \A n \in Node : sub'[n] = IF \E w \in W : n = ready[w][at[w]]
                                        THEN sub[n] + 1 ELSE sub[n]
<1> DEFINE node(w) == Queue(w)[at[w]]
           nodes == {node(w) : w \in W}
           last(n) == sub[n] + 1 >= dag[n].subops
           done == {n \in nodes : last(n)}
           taken == [w \in Warp |->
                       IF w \notin W THEN ready[w]
                       ELSE IF last(node(w)) THEN TakenOut(Queue(w), at[w])
                       ELSE Append(TakenOut(Queue(w), at[w]), node(w))]
           C == Released(finished, IssueDone, finished, IssueDone \union done)
           by == [n \in C |-> Last({w \in W : last(node(w)) /\ node(w) \in dag[n].issueDeps})]
<1>1. /\ ready' = PutIn(taken, C, by) /\ early' = early \union C \union nodes
      /\ sub' = [n \in Node |-> IF n \in nodes THEN sub[n] + 1 ELSE sub[n]]
      /\ setup' = setup /\ finished' = finished
  BY DEF Issue
<1>2. setup \in Setup /\ ready \in [Warp -> Seq(Node)] /\ sub \in [Node -> Nat]
      /\ (\A n \in Node : sub[n] <= dag[n].subops) /\ early \subseteq Node /\ finished \subseteq IssueDone
  BY DEF Queued, Typed
<1>3. /\ Warp' = Warp /\ dag' = dag /\ Node' = Node
      /\ Warp \subseteq Nat /\ IsFiniteSet(Warp)
      /\ \A n \in Node : dag[n].subops \in Nat \ {0} /\ dag[n].warp \in Warp
  BY <1>1, <1>2, Fixed, Given
<1>4. \A w \in Warp : Queue(w) = ready[w] /\ Distinct(ready[w]) /\ ready[w] \in Seq(Node)
  BY <1>2, AllLive DEF Queued, Entries
<1>5. \A w \in W : /\ node(w) = ready[w][at[w]] /\ node(w) \in Node /\ dag[node(w)].warp = w
                   /\ node(w) \in Elems(ready[w]) /\ Startable(node(w))
  <2>1. SUFFICES ASSUME NEW w \in W
                 PROVE  /\ node(w) = ready[w][at[w]] /\ node(w) \in Node /\ dag[node(w)].warp = w
                        /\ node(w) \in Elems(ready[w]) /\ Startable(node(w))
    OBVIOUS
  <2>2. node(w) = ready[w][at[w]]
    BY <1>4
  <2>3. ready[w][at[w]] \in Elems(ready[w])
    BY DEF Elems
  <2> QED BY <2>2, <2>3 DEF Queued, Entries
<1>6. nodes \subseteq Node /\ \A n \in nodes : Startable(n) /\ sub[n] < dag[n].subops /\ n \notin finished
  BY <1>5 DEF Startable, Live
<1>7. IssueDone' = IssueDone \union done
  <2>1. IssueDone' = {n \in Node : sub'[n] >= dag[n].subops}
    BY <1>3 DEF IssueDone
  <2>2. \A n \in Node : sub'[n] >= dag[n].subops <=> sub[n] >= dag[n].subops \/ n \in done
    <3>1. SUFFICES ASSUME NEW n \in Node
                   PROVE  sub'[n] >= dag[n].subops <=> sub[n] >= dag[n].subops \/ n \in done
      OBVIOUS
    <3>2. sub[n] \in Nat /\ dag[n].subops \in Nat
      BY <1>2, <1>3
    <3>3. CASE n \in nodes
      <4>1. sub'[n] = sub[n] + 1 /\ (n \in done <=> sub[n] + 1 >= dag[n].subops)
        BY <1>1, <3>3
      <4>2. sub[n] < dag[n].subops
        BY <1>6, <3>3
      <4> QED BY <3>2, <4>1, <4>2
    <3>4. CASE n \notin nodes
      <4>1. sub'[n] = sub[n] /\ n \notin done
        BY <1>1, <3>4
      <4> QED BY <4>1
    <3> QED BY <3>3, <3>4
  <2>3. done \subseteq Node
    BY <1>6
  <2> QED BY <2>1, <2>2, <2>3 DEF IssueDone
<1>8. C \subseteq Node /\ C \cap nodes = {} /\ \A n \in C : Unmet(n, finished, IssueDone) # {} /\ sub[n] = 0 /\ n \notin finished
  <2>1. C \subseteq Node /\ \A n \in C : Unmet(n, finished, IssueDone) # {}
    BY DEF Released
  <2>2. \A n \in C : sub[n] = 0
    <3>1. \A n \in Node : sub[n] \in Nat /\ (sub[n] > 0 => Unmet(n, finished, IssueDone) = {})
      BY <1>2 DEF Queued, Started
    <3> HIDE DEF C
    <3>2. SUFFICES ASSUME NEW n \in C PROVE sub[n] = 0
      OBVIOUS
    <3>3. sub[n] \in Nat /\ ~(sub[n] > 0)
      BY <2>1, <3>1
    <3> QED BY <3>3
  <2>3. \A n \in C : n \notin finished
    BY <1>2, <1>3, <2>1, <2>2 DEF IssueDone
  <2>4. C \cap nodes = {}
    BY <1>6, <2>1 DEF Startable
  <2> QED BY <2>1, <2>2, <2>3, <2>4
<1>9. \A n \in C : by[n] \in Int
  <2>1. SUFFICES ASSUME NEW n \in C PROVE by[n] \in Int
    OBVIOUS
  <2> DEFINE V == {w \in W : last(node(w)) /\ node(w) \in dag[n].issueDeps}
  <2>2. by[n] = Last(V)
    OBVIOUS
  <2>3. V \in SUBSET Nat /\ IsFiniteSet(V)
    BY <1>3, FS_Subset
  <2>4. V # {}
    <3>1. Unmet(n, finished, IssueDone) # {} /\ Unmet(n, finished, IssueDone \union done) = {}
      BY DEF Released
    <3>2. done \cap dag[n].issueDeps # {}
      <4> HIDE DEF done
      <4> QED BY <3>1 DEF Unmet
    <3> QED BY <3>2
  <2> HIDE DEF V, by
  <2>5. Last(V) \in V
    BY <2>3, <2>4, Ends
  <2> QED BY <2>2, <2>3, <2>5
<1>10. ASSUME NEW w \in Warp
       PROVE  /\ taken[w] \in Seq(Node) /\ Distinct(taken[w])
              /\ Elems(taken[w]) = Elems(ready[w]) \ done
  <2>1. CASE w \notin W
    <3>1. taken[w] = ready[w]
      BY <2>1
    <3>2. \A n \in Elems(ready[w]) : n \notin nodes
      <4>1. \A n \in Elems(ready[w]) : dag[n].warp = w
        BY DEF Queued, Entries
      <4> QED BY <1>5, <2>1, <4>1
    <3> QED BY <1>4, <3>1, <3>2
  <2>2. CASE w \in W
    <3> DEFINE t == TakenOut(ready[w], at[w])
    <3>1. t \in Seq(Node) /\ Distinct(t) /\ Elems(t) = Elems(ready[w]) \ {node(w)}
      <4>1. ready[w][at[w]] = node(w)
        BY <1>5, <2>2
      <4> HIDE DEF t, node
      <4> QED BY <1>4, <2>2, <4>1, Taken DEF t
    <3>2. \A n \in Elems(ready[w]) : n \in done => n = node(w)
      <4>1. \A n \in Elems(ready[w]) : dag[n].warp = w
        BY DEF Queued, Entries
      <4> QED BY <1>5, <4>1
    <3>3. CASE last(node(w))
      <4>1. taken[w] = t
        BY <1>4, <2>2, <3>3
      <4>2. node(w) \in done
        BY <2>2, <3>3
      <4> HIDE DEF t, done, taken, node
      <4> QED BY <3>1, <3>2, <4>1, <4>2
    <3>4. CASE ~last(node(w))
      <4>1. taken[w] = Append(t, node(w))
        BY <1>4, <2>2, <3>4
      <4>2. node(w) \notin done /\ node(w) \in Node /\ node(w) \in Elems(ready[w])
        BY <1>5, <2>2, <3>4
      <4> HIDE DEF t, done, taken, node
      <4>3. /\ Append(t, node(w)) \in Seq(Node)
            /\ Elems(Append(t, node(w))) = Elems(t) \union {node(w)}
            /\ Distinct(Append(t, node(w)))
        BY <3>1, <4>2, Appended
      <4> QED BY <3>1, <3>2, <4>1, <4>2, <4>3
    <3> QED BY <3>3, <3>4
  <2> QED BY <2>1, <2>2
<1>11. \A n : Unmet(n, finished', IssueDone') = Unmet(n, finished, IssueDone \union done)
  BY <1>1, <1>7
<1>11a. \A n : Unmet(n, finished, IssueDone)' = Unmet(n, finished', IssueDone')
  BY <1>3 DEF Unmet
<1>12. \A n \in Node : /\ sub'[n] = IF n \in nodes THEN sub[n] + 1 ELSE sub[n]
                       /\ n \in nodes => (n \in done <=> ~(sub'[n] < dag[n].subops))
  BY <1>1, <1>2, <1>3
<1>13. ASSUME NEW n \in Node
       PROVE  /\ Startable(n)' <=> (Startable(n) /\ n \notin done) \/ n \in C
              /\ sub'[n] > 0 => Unmet(n, finished, IssueDone \union done) = {}
              /\ sub'[n] \in Nat /\ sub'[n] <= dag[n].subops
  <2>1. sub[n] \in Nat /\ dag[n].subops \in Nat \ {0} /\ sub[n] <= dag[n].subops
    BY <1>2, <1>3
  <2>2. Startable(n)' <=> n \notin finished /\ sub'[n] < dag[n].subops
                          /\ Unmet(n, finished, IssueDone \union done) = {}
    BY <1>1, <1>3, <1>11, <1>11a DEF Startable, Live
  <2>3. Startable(n) <=> n \notin finished /\ sub[n] < dag[n].subops
                         /\ Unmet(n, finished, IssueDone) = {}
    BY DEF Startable, Live
  <2>4. Unmet(n, finished, IssueDone) = {} => Unmet(n, finished, IssueDone \union done) = {}
    BY DEF Unmet
  <2>5. n \in C <=> Unmet(n, finished, IssueDone) # {} /\ Unmet(n, finished, IssueDone \union done) = {}
    BY DEF Released
  <2>6. CASE n \in nodes
    <3>1. Startable(n) /\ n \notin C /\ sub'[n] = sub[n] + 1 /\ sub[n] < dag[n].subops
      BY <1>6, <1>8, <1>12, <2>6
    <3>2. sub'[n] \in Nat /\ sub'[n] <= dag[n].subops
      BY <2>1, <3>1
    <3>3. n \in done <=> ~(sub'[n] < dag[n].subops)
      BY <1>12, <2>6
    <3> HIDE DEF C, done, nodes
    <3> QED BY <2>2, <2>3, <2>4, <3>1, <3>2, <3>3
  <2>7. CASE n \notin nodes
    <3>1. n \notin done /\ sub'[n] = sub[n]
      BY <1>12, <2>7
    <3>2. n \in C => sub[n] = 0 /\ n \notin finished
      BY <1>8
    <3>3. sub[n] > 0 => Unmet(n, finished, IssueDone) = {}
      BY DEF Queued, Started
    <3>4. n \in C => sub'[n] < dag[n].subops /\ n \notin finished
      BY <2>1, <3>1, <3>2
    <3> HIDE DEF C, done, nodes
    <3>5. Startable(n)' <=> (Startable(n) /\ n \notin done) \/ n \in C
      BY <2>2, <2>3, <2>4, <2>5, <3>1, <3>4
    <3> QED BY <2>1, <2>4, <3>1, <3>3, <3>5
  <2> QED BY <2>6, <2>7
<1>14. ASSUME NEW w \in Warp
       PROVE  /\ ready'[w] \in Seq(Node) /\ Distinct(ready'[w])
              /\ Elems(ready'[w]) = {n \in Node : dag[n].warp = w /\ Startable(n)'}
  <2>1. taken \in [Warp -> Seq(Node)]
    <3>1. taken = [v \in Warp |-> taken[v]]
      OBVIOUS
    <3> HIDE DEF taken
    <3> QED BY <1>10, <3>1
  <2>2. Elems(taken[w]) \cap C = {}
    <3>1. \A n \in Elems(ready[w]) : Startable(n)
      BY DEF Queued, Entries
    <3>2. \A n \in Elems(ready[w]) : n \notin C
      <4> HIDE DEF C
      <4> QED BY <1>8, <3>1 DEF Startable
    <3> HIDE DEF C, taken
    <3> QED BY <1>10, <3>2
  <2>3. Elems(ready[w]) = {n \in Node : dag[n].warp = w /\ Startable(n)}
    BY DEF Queued, Entries
  <2> HIDE DEF taken, C, by, done
  <2>4. /\ ready'[w] \in Seq(Node) /\ Distinct(ready'[w])
        /\ Elems(ready'[w]) = Elems(taken[w]) \union {n \in C : dag[n].warp = w}
    <3> DEFINE p == PutIn(taken, C, by)
    <3>1. C \in SUBSET Node /\ setup \in Setup /\ Distinct(taken[w])
      BY <1>2, <1>8, <1>10
    <3>2. /\ p[w] \in Seq(Node) /\ Distinct(p[w])
          /\ Elems(p[w]) = Elems(taken[w]) \union Own(C, w)
      BY <1>9, <2>1, <2>2, <3>1, PutInto
    <3>3. ready' = p
      BY <1>1
    <3> HIDE DEF p
    <3> QED BY <3>2, <3>3 DEF Own
  <2> QED BY <1>8, <1>10, <1>13, <2>3, <2>4
<1>15. ready' \in [Warp -> Seq(Node)]
  <2>1. ready' = [w \in Warp |-> ready'[w]]
    BY <1>1 DEF PutIn
  <2> QED BY <1>14, <2>1
<1>16. Typed'
  <2>1. finished' \subseteq IssueDone'
    BY <1>1, <1>2, <1>7
  <2>2. sub' \in [Node -> Nat] /\ \A n \in Node : sub'[n] <= dag[n].subops
    <3>1. sub' = [n \in Node |-> sub'[n]]
      BY <1>1
    <3> QED BY <1>13, <3>1
  <2>3. early' \subseteq Node
    <3> HIDE DEF C, nodes
    <3> QED BY <1>1, <1>2, <1>6, <1>8
  <2> HIDE DEF nodes, C, taken, by
  <2> QED BY <1>1, <1>2, <1>3, <1>15, <2>1, <2>2, <2>3 DEF Typed
<1>17. Started'
  <2> HIDE DEF done, C
  <2> QED BY <1>3, <1>11, <1>11a, <1>13 DEF Started
<1>18. Entries'
  <2> HIDE DEF done, C, taken, by, nodes
  <2>1. \A n : dag[n]' = dag'[n]
    OBVIOUS
  <2> QED BY <1>3, <1>14 DEF Entries
<1>19. \A n \in Node : sub'[n] = IF \E w \in W : n = ready[w][at[w]] THEN sub[n] + 1 ELSE sub[n]
  BY <1>5, <1>12
<1> QED BY <1>16, <1>17, <1>18, <1>19 DEF Queued

\* A completed node leaves no entry, as it has been issued in full.
LEMMA FinishQueues ==
    ASSUME Queued, NEW x \in Node, Finish(x)
    PROVE  Queued'
<1> DEFINE C == Released(finished, IssueDone, finished \union {x}, IssueDone)
           zero == [c \in C |-> 0]
<1>1. /\ x \in IssueDone /\ x \notin finished /\ setup' = setup /\ sub' = sub /\ turn' = turn
      /\ ready' = PutIn(ready, C, zero) /\ early' = early \union C /\ finished' = finished \union {x}
  BY DEF Finish
<1>2. setup \in Setup /\ ready \in [Warp -> Seq(Node)] /\ sub \in [Node -> Nat] /\ turn \in 0..4
      /\ (\A n \in Node : sub[n] <= dag[n].subops) /\ early \subseteq Node /\ finished \subseteq IssueDone
  BY DEF Queued, Typed
<1>3. /\ Warp' = Warp /\ dag' = dag /\ Node' = Node
      /\ \A n \in Node : dag[n].subops \in Nat \ {0} /\ dag[n].warp \in Warp
  BY <1>1, <1>2, Fixed, Given
<1>4. IssueDone' = IssueDone
  BY <1>1, <1>3 DEF IssueDone
<1>5. C \subseteq Node /\ \A n \in C : Unmet(n, finished, IssueDone) # {} /\ sub[n] = 0
  <2>1. C \subseteq Node /\ \A n \in C : Unmet(n, finished, IssueDone) # {}
    BY DEF Released
  <2>2. \A n \in Node : sub[n] \in Nat /\ (sub[n] > 0 => Unmet(n, finished, IssueDone) = {})
    BY <1>2 DEF Queued, Started
  <2> HIDE DEF C
  <2>3. SUFFICES ASSUME NEW n \in C PROVE sub[n] = 0
    BY <2>1
  <2>4. sub[n] \in Nat /\ ~(sub[n] > 0)
    BY <2>1, <2>2
  <2> QED BY <2>4
<1>6. \A n \in C : zero[n] \in Int
  BY <1>5
<1>7. \A n : Unmet(n, finished, IssueDone)' = Unmet(n, finished \union {x}, IssueDone)
  BY <1>1, <1>3, <1>4 DEF Unmet
<1>8. ASSUME NEW n \in Node
      PROVE  /\ Startable(n)' <=> Startable(n) \/ n \in C
             /\ sub[n] > 0 => Unmet(n, finished \union {x}, IssueDone) = {}
  <2>1. sub[n] \in Nat /\ dag[n].subops \in Nat \ {0}
    BY <1>2, <1>3
  <2>2. Startable(n)' <=> n \notin finished \union {x} /\ sub[n] < dag[n].subops
                          /\ Unmet(n, finished \union {x}, IssueDone) = {}
    BY <1>1, <1>3, <1>7 DEF Startable, Live
  <2>3. Startable(n) <=> n \notin finished /\ sub[n] < dag[n].subops
                         /\ Unmet(n, finished, IssueDone) = {}
    BY DEF Startable, Live
  <2>4. Unmet(n, finished, IssueDone) = {} => Unmet(n, finished \union {x}, IssueDone) = {}
    BY DEF Unmet
  <2>5. n \in C <=> Unmet(n, finished, IssueDone) # {} /\ Unmet(n, finished \union {x}, IssueDone) = {}
    BY DEF Released
  <2>6. n = x \/ n \in finished => ~(sub[n] < dag[n].subops)
    <3>1. n = x \/ n \in finished => n \in IssueDone
      BY <1>1, <1>2
    <3>2. n \in IssueDone => sub[n] >= dag[n].subops
      BY DEF IssueDone
    <3> QED BY <2>1, <3>1, <3>2
  <2>7. n \in C => sub[n] < dag[n].subops
    <3>1. n \in C => sub[n] = 0
      BY <1>5
    <3> HIDE DEF C
    <3> QED BY <2>1, <3>1
  <2>8. sub[n] > 0 => Unmet(n, finished, IssueDone) = {}
    BY DEF Queued, Started
  <2> HIDE DEF C
  <2> QED BY <2>2, <2>3, <2>4, <2>5, <2>6, <2>7, <2>8
<1>9. ASSUME NEW w \in Warp
      PROVE  /\ ready'[w] \in Seq(Node) /\ Distinct(ready'[w])
             /\ Elems(ready'[w]) = {n \in Node : dag[n].warp = w /\ Startable(n)'}
  <2>1. Distinct(ready[w]) /\ Elems(ready[w]) = {n \in Node : dag[n].warp = w /\ Startable(n)}
    BY DEF Queued, Entries
  <2>2. Elems(ready[w]) \cap C = {}
    <3> HIDE DEF C
    <3> QED BY <1>5, <2>1 DEF Startable
  <2> HIDE DEF C, zero
  <2> DEFINE p == PutIn(ready, C, zero)
  <2>3. p[w] \in Seq(Node) /\ Distinct(p[w]) /\ Elems(p[w]) = Elems(ready[w]) \union Own(C, w)
    <3>1. C \in SUBSET Node /\ setup \in Setup /\ Distinct(ready[w]) /\ ready \in [Warp -> Seq(Node)]
      BY <1>2, <1>5, <2>1
    <3> QED BY <1>6, <2>2, <3>1, PutInto
  <2>4. ready' = p
    BY <1>1
  <2> HIDE DEF p
  <2>5. ready'[w] \in Seq(Node) /\ Distinct(ready'[w]) /\ Elems(ready'[w]) = Elems(ready[w]) \union Own(C, w)
    BY <2>3, <2>4
  <2> QED BY <1>5, <1>8, <2>1, <2>5 DEF Own
<1>10. ready' \in [Warp -> Seq(Node)]
  <2>1. ready' = [w \in Warp |-> ready'[w]]
    BY <1>1 DEF PutIn
  <2> QED BY <1>9, <2>1
<1>11. Typed'
  <2>1. early' \subseteq Node /\ finished' \subseteq IssueDone' /\ turn' \in 0..4
    <3> HIDE DEF C
    <3> QED BY <1>1, <1>2, <1>4, <1>5
  <2> HIDE DEF C, zero
  <2> QED BY <1>1, <1>2, <1>3, <1>10, <2>1 DEF Typed
<1>12. Started' /\ Entries'
  <2> HIDE DEF C, zero
  <2>1. Started'
    BY <1>1, <1>3, <1>7, <1>8 DEF Started
  <2>2. \A n : dag[n]' = dag'[n]
    OBVIOUS
  <2>3. Entries'
    BY <1>3, <1>9, <2>2 DEF Entries
  <2> QED BY <2>1, <2>3
<1> QED BY <1>11, <1>12 DEF Queued

\* Steps that touch no queue.
LEMMA SameQueues ==
    ASSUME Queued, UNCHANGED <<setup, ready, sub, finished>>, early' \subseteq Node, turn' \in 0..4
    PROVE  Queued'
<1>1. setup' = setup /\ ready' = ready /\ sub' = sub /\ finished' = finished
  OBVIOUS
<1>2. Warp' = Warp /\ dag' = dag /\ Node' = Node
  BY <1>1, Fixed
<1>3. IssueDone' = IssueDone
  BY <1>1, <1>2 DEF IssueDone
<1>4. \A n : Unmet(n, finished, IssueDone)' = Unmet(n, finished, IssueDone)
  BY <1>1, <1>2, <1>3 DEF Unmet
<1>5. \A n : Startable(n)' <=> Startable(n)
  BY <1>1, <1>2, <1>4 DEF Startable, Live
<1>6. Typed'
  BY <1>1, <1>2, <1>3 DEF Queued, Typed
<1>7. Started'
  BY <1>1, <1>2, <1>4 DEF Queued, Started
<1>8. Entries'
  <2>1. \A w \in Warp : Distinct(ready[w]) /\ Elems(ready[w]) = {n \in Node : dag[n].warp = w /\ Startable(n)'}
    BY <1>5 DEF Queued, Entries
  <2>2. \A n : dag[n]' = dag'[n]
    OBVIOUS
  <2> QED BY <1>1, <1>2, <2>1, <2>2 DEF Entries
<1> QED BY <1>6, <1>7, <1>8 DEF Queued

LEMMA InitQueues ==
    ASSUME Init
    PROVE  Queued
<1>1. /\ setup \in Setup /\ turn = 0 /\ sub = [n \in Node |-> 0] /\ early = {} /\ finished = {}
      /\ ready = [w \in Warp |-> InOrder({n \in Node : dag[n].warp = w /\ Unmet(n, {}, {}) = {}})]
  BY DEF Init
<1>2. Node \subseteq Nat /\ IsFiniteSet(Node) /\ \A n \in Node : dag[n].subops \in Nat \ {0}
  BY <1>1, Given
<1>3. IssueDone = {} /\ sub \in [Node -> Nat] /\ \A n \in Node : sub[n] <= dag[n].subops
  <2>1. \A n \in Node : sub[n] = 0
    BY <1>1
  <2>2. \A n \in Node : ~(sub[n] >= dag[n].subops) /\ sub[n] <= dag[n].subops
    BY <1>2, <2>1
  <2> QED BY <1>1, <2>2 DEF IssueDone
<1>4. \A n \in Node : Startable(n) <=> Unmet(n, {}, {}) = {}
  BY <1>1, <1>2, <1>3 DEF Startable, Live
<1>5. ASSUME NEW w \in Warp
      PROVE  /\ ready[w] \in Seq(Node) /\ Distinct(ready[w])
             /\ Elems(ready[w]) = {n \in Node : dag[n].warp = w /\ Startable(n)}
  <2> DEFINE S == {n \in Node : dag[n].warp = w /\ Unmet(n, {}, {}) = {}}
  <2>1. S \in SUBSET Nat /\ S \subseteq Node /\ IsFiniteSet(S)
    BY <1>2, FS_Subset
  <2>2. ready[w] = InOrder(S) /\ S = {n \in Node : dag[n].warp = w /\ Startable(n)}
    BY <1>1, <1>4
  <2> HIDE DEF S
  <2>3. InOrder(S) \in Seq(S) /\ Elems(InOrder(S)) = S /\ Distinct(InOrder(S))
    BY <2>1, Ascending
  <2>4. InOrder(S) \in Seq(Node)
    BY <2>1, <2>3, Widened
  <2> QED BY <2>2, <2>3, <2>4
<1>6. ready \in [Warp -> Seq(Node)]
  <2>1. ready = [w \in Warp |-> ready[w]]
    BY <1>1
  <2> QED BY <1>5, <2>1
<1>7. Typed
  BY <1>1, <1>2, <1>3, <1>6 DEF Typed
<1>8. Started
  BY <1>1 DEF Started
<1>9. Entries
  BY <1>5 DEF Entries
<1> QED BY <1>7, <1>8, <1>9 DEF Queued
---------------------------------------------------------------------------
(* The warps of the schedulers                                             *)

LEMMA DistinctLength ==
    ASSUME NEW S, NEW s \in Seq(S), Distinct(s), NEW T, IsFiniteSet(T), Elems(s) \subseteq T
    PROVE  Len(s) \in Nat /\ Cardinality(T) \in Nat /\ Len(s) <= Cardinality(T)
<1>1. Len(s) \in Nat /\ DOMAIN s = 1..Len(s) /\ s \in [1..Len(s) -> S]
  OBVIOUS
<1>2. \A i \in 1..Len(s) : s[i] \in T
  BY <1>1 DEF Elems
<1>3. s \in [1..Len(s) -> T]
  BY <1>1, <1>2
<1>4. s \in Injection(1..Len(s), T)
  BY <1>1, <1>3, Fun_IsInj DEF Distinct
<1>5. Cardinality(1..Len(s)) <= Cardinality(T)
  BY <1>4, FS_Injection
<1>6. Cardinality(1..Len(s)) = Len(s)
  BY <1>1, FS_Interval
<1> QED BY <1>1, <1>5, <1>6, FS_CardinalityType

Coming(B, l) == {w \in Warp : BlockOf[w] \in B /\ LaneOf(w) = l}
Staying(l, gone) == {w \in Elems(resident[l]) : BlockOf[w] \notin gone}

LEMMA WarpsComing ==
    ASSUME setup \in Setup, NEW B, NEW l
    PROVE  /\ WarpsOf(B, l) \in Seq(Warp) /\ Distinct(WarpsOf(B, l))
           /\ Elems(WarpsOf(B, l)) = Coming(B, l)
           /\ B = {} => WarpsOf(B, l) = <<>>
<1>1. Coming(B, l) \in SUBSET Nat /\ Coming(B, l) \subseteq Warp /\ IsFiniteSet(Coming(B, l))
  <2>1. Warp \subseteq Nat /\ IsFiniteSet(Warp)
    BY Given
  <2> QED BY <2>1, FS_Subset DEF Coming
<1>2. WarpsOf(B, l) = InOrder(Coming(B, l))
  BY DEF WarpsOf, Coming
<1>3. /\ WarpsOf(B, l) \in Seq(Coming(B, l)) /\ Distinct(WarpsOf(B, l))
      /\ Elems(WarpsOf(B, l)) = Coming(B, l)
  BY <1>1, <1>2, Ascending
<1>4. WarpsOf(B, l) \in Seq(Warp)
  BY <1>1, <1>3, Widened
<1>5. B = {} => Coming(B, l) = {}
  BY DEF Coming
<1> QED BY <1>3, <1>4, <1>5, Places

LEMMA WarpsStaying ==
    ASSUME setup \in Setup, Residence, NEW l \in Lane, NEW gone
    PROVE  /\ Kept(l, gone) \in Seq(Warp) /\ Distinct(Kept(l, gone))
           /\ Elems(Kept(l, gone)) = Staying(l, gone)
           /\ gone = {} => Kept(l, gone) = resident[l]
<1> DEFINE r == resident[l]  I == {i \in DOMAIN r : BlockOf[r[i]] \notin gone}
           stay == InOrder(I)  k == Kept(l, gone)
<1>1. r \in Seq(Warp) /\ DOMAIN r = 1..Len(r) /\ Len(r) \in Nat /\ Distinct(r)
  BY DEF Residence
<1>2. k = [i \in DOMAIN stay |-> r[stay[i]]]
  BY DEF Kept
<1>3. I \in SUBSET Nat /\ I \subseteq DOMAIN r /\ IsFiniteSet(I)
  <2>1. I \subseteq DOMAIN r
    OBVIOUS
  <2> HIDE DEF r, I
  <2>2. IsFiniteSet(1..Len(r)) /\ 1..Len(r) \in SUBSET Nat
    BY <1>1, FS_Interval
  <2>3. I \in SUBSET (1..Len(r))
    BY <1>1, <2>1
  <2> QED BY <2>1, <2>2, <2>3, FS_Subset
<1>4. stay \in Seq(I) /\ Elems(stay) = I /\ Distinct(stay)
  <2> HIDE DEF I
  <2> QED BY <1>3, Ascending
<1>5. /\ DOMAIN stay = 1..Len(stay) /\ Len(stay) \in Nat
      /\ \A i \in DOMAIN stay : stay[i] \in I
      /\ \A x \in I : \E i \in DOMAIN stay : stay[i] = x
  <2> HIDE DEF I, stay
  <2> QED BY <1>4, Places
<1>6. \A i \in DOMAIN stay : stay[i] \in DOMAIN r /\ r[stay[i]] \in Warp /\ r[stay[i]] \in Elems(r)
  <2>1. \A i \in DOMAIN r : r[i] \in Warp /\ r[i] \in Elems(r)
    <3> HIDE DEF r
    <3> QED BY <1>1, Places
  <2> HIDE DEF r, stay, I
  <2> QED BY <1>3, <1>5, <2>1
<1>7. k \in Seq(Warp) /\ DOMAIN k = DOMAIN stay /\ \A i \in DOMAIN k : k[i] = r[stay[i]]
  <2>1. DOMAIN k = DOMAIN stay /\ \A i \in DOMAIN k : k[i] = r[stay[i]]
    <3> HIDE DEF k, stay, r
    <3> QED BY <1>2
  <2>2. k \in [1..Len(stay) -> Warp]
    <3> HIDE DEF k, stay, r
    <3> QED BY <1>2, <1>5, <1>6
  <2> HIDE DEF k, stay, r
  <2> QED BY <1>5, <2>1, <2>2, Listed
<1>8. Distinct(k)
  <2> HIDE DEF k, stay, r, I
  <2> QED BY <1>1, <1>4, <1>6, <1>7 DEF Distinct
<1>9. Elems(k) = Staying(l, gone)
  <2>1. \A i \in DOMAIN k : k[i] \in Staying(l, gone)
    <3>1. \A i \in DOMAIN stay : BlockOf[r[stay[i]]] \notin gone
      <4>1. \A x \in I : BlockOf[r[x]] \notin gone
        OBVIOUS
      <4> HIDE DEF r, stay, I
      <4> QED BY <1>5, <4>1
    <3> HIDE DEF k, stay
    <3> QED BY <1>6, <1>7, <3>1 DEF Staying
  <2>2. \A w \in Staying(l, gone) : \E i \in DOMAIN k : k[i] = w
    <3>1. SUFFICES ASSUME NEW x \in DOMAIN r, r[x] \in Staying(l, gone) PROVE \E i \in DOMAIN k : k[i] = r[x]
      BY DEF Staying, Elems
    <3>2. x \in I
      BY <3>1 DEF Staying
    <3> HIDE DEF k, stay, r, I
    <3>3. PICK i \in DOMAIN stay : stay[i] = x
      BY <1>5, <3>2
    <3> QED BY <1>7, <3>3
  <2> HIDE DEF k
  <2> QED BY <2>1, <2>2 DEF Elems
<1>10. ASSUME gone = {} PROVE k = r
  <2>1. I = 1..Len(r)
    BY <1>1, <1>10
  <2>2. Len(stay) = Len(r) /\ \A i \in 1..Len(r) : stay[i] = i
    <3>1. stay = InOrder(1..Len(r))
      BY <2>1
    <3> HIDE DEF stay, r, I
    <3> QED BY <1>1, <3>1, PlacesInOrder
  <2> HIDE DEF k, stay, r, I
  <2>3. DOMAIN k = DOMAIN r /\ \A i \in DOMAIN r : k[i] = r[i]
    BY <1>1, <1>5, <1>7, <2>2
  <2> QED BY <1>1, <1>7, <2>3
<1> QED BY <1>7, <1>8, <1>9, <1>10

Homes == {BlockOf[w] : w \in {v \in Warp : Residing(v)}}

\* The blocks that are resident are those of the warps that are.
LEMMA ResidentOnes ==
    ASSUME setup \in Setup, Residence
    PROVE  ResidentBlocks = Homes /\ Homes \subseteq Blocks /\ Homes \cap waiting = {}
           /\ IsFiniteSet(Homes) /\ Cardinality(Homes) \in Nat
<1>1. Homes \subseteq Blocks /\ Homes \cap waiting = {}
  BY GivenBlocks DEF Homes, Residence
<1>2. ResidentBlocks = Homes
  BY <1>1 DEF ResidentBlocks, Homes
<1>3. IsFiniteSet(Blocks)
  BY GivenBlocks
<1> QED BY <1>1, <1>2, <1>3, FS_Subset, FS_CardinalityType

Leaving == {b \in ResidentBlocks : Complete(b)}
Entering == Lowest(waiting, Cardinality(Leaving))

\* The end of a cycle puts no more blocks in than have left.
LEMMA CycleResidence ==
    ASSUME Queued, Residence, EndCycle, Cardinality(ResidentBlocks) <= setup.maxResident
    PROVE  /\ Residence' /\ Cardinality(ResidentBlocks') <= setup'.maxResident
           /\ \/ UNCHANGED <<resident, waiting, holder, passed>>
              \/ holder' = [l \in Lane |-> NoWarp] /\ passed' = [w \in Warp |-> {}]
           /\ waiting' = waiting \ Entering
           /\ \A w \in Warp : Residing(w)' <=>
                 (Residing(w) /\ BlockOf[w] \notin Leaving) \/ BlockOf[w] \in Entering
<1> DEFINE gone == {b \in ResidentBlocks : Complete(b)}
           new == Lowest(waiting, Cardinality(gone))
<1>1. /\ setup' = setup /\ waiting' = waiting \ new
      /\ resident' = [l \in Lane |-> Kept(l, gone) \o WarpsOf(new, l)]
      /\ IF gone = {} THEN UNCHANGED history
         ELSE holder' = [l \in Lane |-> NoWarp] /\ passed' = [w \in Warp |-> {}]
  BY DEF EndCycle
<1>2. setup \in Setup /\ setup' \in Setup
  BY <1>1 DEF Queued, Typed
<1>3. Warp' = Warp /\ BlockOf' = BlockOf /\ Blocks' = Blocks /\ \A l \in Lane : LaneWarps(l)' = LaneWarps(l)
  BY <1>1, Fixed
<1>4. /\ ResidentBlocks = Homes /\ Homes \subseteq Blocks /\ Homes \cap waiting = {}
      /\ IsFiniteSet(Homes) /\ Cardinality(Homes) \in Nat
  BY <1>2, ResidentOnes
<1>5. /\ Blocks \subseteq Nat /\ IsFiniteSet(Blocks) /\ waiting \subseteq Blocks
      /\ \A w \in Warp : BlockOf[w] \in Blocks /\ LaneOf(w) \in Lane
  BY <1>2, Given, GivenBlocks DEF Residence
<1>6. waiting \in SUBSET Nat /\ IsFiniteSet(waiting) /\ gone \subseteq Homes /\ IsFiniteSet(gone)
      /\ Cardinality(gone) \in Nat
  BY <1>4, <1>5, FS_Subset, FS_CardinalityType
<1> HIDE DEF gone
<1>7. /\ new \subseteq waiting /\ IsFiniteSet(new) /\ Cardinality(new) \in Nat
      /\ Cardinality(new) <= Cardinality(gone)
  BY <1>6, LowestOnes
<1> HIDE DEF new
<1>8. ASSUME NEW l \in Lane
      PROVE  /\ resident'[l] \in Seq(Warp) /\ Distinct(resident'[l])
             /\ Elems(resident'[l]) = Staying(l, gone) \union Coming(new, l)
             /\ gone = {} => resident'[l] = resident[l]
  <2> DEFINE k == Kept(l, gone)  a == WarpsOf(new, l)
  <2>1. resident'[l] = k \o a
    BY <1>1
  <2>2. k \in Seq(Warp) /\ Distinct(k) /\ Elems(k) = Staying(l, gone) /\ (gone = {} => k = resident[l])
    BY <1>2, WarpsStaying
  <2>3. a \in Seq(Warp) /\ Distinct(a) /\ Elems(a) = Coming(new, l) /\ (new = {} => a = <<>>)
    BY <1>2, WarpsComing
  <2>4. Staying(l, gone) \cap Coming(new, l) = {}
    <3>1. \A w \in Staying(l, gone) : w \in Warp /\ Residing(w)
      BY DEF Residence, Staying, LaneWarps, Residing
    <3>2. \A w \in Staying(l, gone) : BlockOf[w] \notin new
      BY <1>7, <3>1 DEF Residence
    <3> QED BY <3>2 DEF Coming
  <2> HIDE DEF k, a
  <2>5. gone = {} => k \o a = resident[l]
    <3>1. SUFFICES ASSUME gone = {} PROVE k \o a = resident[l]
      OBVIOUS
    <3>2. new = {}
      <4>1. Cardinality(gone) = 0
        BY <3>1, FS_EmptySet
      <4>2. Cardinality(new) = 0
        BY <1>7, <4>1
      <4> QED BY <1>7, <4>2, FS_EmptySet
    <3>3. k = resident[l] /\ a = <<>>
      BY <2>2, <2>3, <3>1, <3>2
    <3> QED BY <2>2, <3>3
  <2> QED BY <2>1, <2>2, <2>3, <2>4, <2>5, Joined
<1>9. \A w \in Warp : Residing(w)' <=> (Residing(w) /\ BlockOf[w] \notin gone) \/ BlockOf[w] \in new
  <2>1. SUFFICES ASSUME NEW w \in Warp
                 PROVE  Residing(w)' <=> (Residing(w) /\ BlockOf[w] \notin gone) \/ BlockOf[w] \in new
    OBVIOUS
  <2>2. LaneOf(w)' = LaneOf(w) /\ LaneOf(w) \in Lane
    BY <1>5 DEF LaneOf
  <2>3. Residing(w)' <=> w \in Elems(resident'[LaneOf(w)])
    BY <2>2 DEF Residing, Elems
  <2> QED BY <1>8, <2>2, <2>3 DEF Staying, Coming, Residing
<1>10. Residence'
  <2>1. resident' \in [Lane -> Seq(Warp)]
    <3>1. resident' = [l \in Lane |-> resident'[l]]
      BY <1>1
    <3> QED BY <1>8, <3>1
  <2>2. waiting' \subseteq Blocks
    BY <1>1, <1>5
  <2>3. \A l \in Lane : Distinct(resident'[l]) /\ Elems(resident'[l]) \subseteq LaneWarps(l)
    <3>1. \A l \in Lane : Elems(resident[l]) \subseteq LaneWarps(l)
      BY DEF Residence
    <3> QED BY <1>8, <3>1 DEF Staying, Coming, LaneWarps
  <2>4. \A w \in Warp : Residing(w)' => BlockOf[w] \notin waiting'
    BY <1>1, <1>9 DEF Residence
  <2> QED BY <1>3, <2>1, <2>2, <2>3, <2>4 DEF Residence
<1>11. Homes' \subseteq (Homes \ gone) \union new
  <2>1. Homes' = {BlockOf[w] : w \in {v \in Warp : Residing(v)'}}
    BY <1>3 DEF Homes
  <2> QED BY <1>9, <2>1 DEF Homes
<1>12. Cardinality(Homes') <= Cardinality(Homes)
  <2>1. /\ IsFiniteSet(Homes \ gone) /\ Cardinality(Homes \ gone) = Cardinality(Homes) - Cardinality(Homes \cap gone)
        /\ Homes \cap gone = gone
    BY <1>4, <1>6, FS_Difference
  <2>2. /\ IsFiniteSet((Homes \ gone) \union new)
        /\ Cardinality((Homes \ gone) \union new) =
              Cardinality(Homes \ gone) + Cardinality(new) - Cardinality((Homes \ gone) \cap new)
        /\ (Homes \ gone) \cap new = {}
    BY <1>4, <1>7, <2>1, FS_Union
  <2>3. Cardinality((Homes \ gone) \cap new) = 0
    BY <2>2, FS_EmptySet
  <2>4. Cardinality((Homes \ gone) \union new) <= Cardinality(Homes)
    <3>1. /\ Cardinality(Homes \ gone) = Cardinality(Homes) - Cardinality(gone)
          /\ Cardinality((Homes \ gone) \union new) = Cardinality(Homes \ gone) + Cardinality(new) - 0
      BY <2>1, <2>2, <2>3
    <3> QED BY <1>4, <1>6, <1>7, <3>1
  <2>5. IsFiniteSet(Homes') /\ Cardinality(Homes') <= Cardinality((Homes \ gone) \union new)
    BY <1>11, <2>2, FS_Subset
  <2>6. Cardinality((Homes \ gone) \union new) \in Nat /\ Cardinality(Homes') \in Nat
    BY <2>2, <2>5, FS_CardinalityType
  <2> QED BY <1>4, <2>4, <2>5, <2>6
<1>13. ResidentBlocks' = Homes'
  <2>1. Homes' \subseteq Blocks' /\ Homes' \cap waiting' = {}
    <3>1. Homes' \subseteq Blocks /\ Homes' \cap (waiting \ new) = {}
      BY <1>4, <1>5, <1>7, <1>11
    <3> QED BY <1>1, <1>3, <3>1
  <2>2. Homes' = {BlockOf[w] : w \in {v \in Warp : Residing(v)'}}
    BY <1>3 DEF Homes
  <2>3. ResidentBlocks' = Blocks' \ (waiting' \union {b \in Blocks' : \A w \in Warp : BlockOf[w] = b => ~Residing(w)'})
    BY <1>3 DEF ResidentBlocks
  <2> QED BY <2>1, <2>2, <2>3
<1>14. setup.maxResident \in Nat
  BY <1>2, Given
<1>15. Cardinality(ResidentBlocks') <= setup'.maxResident
  <2>1. Cardinality(Homes') \in Nat
    <3>1. IsFiniteSet((Homes \ gone) \union new)
      BY <1>4, <1>7, FS_Difference, FS_Union
    <3> QED BY <1>11, <3>1, FS_Subset, FS_CardinalityType
  <2> QED BY <1>1, <1>4, <1>12, <1>13, <1>14, <2>1
<1>16. /\ waiting' = waiting \ Entering
       /\ \A w \in Warp : Residing(w)' <=>
             (Residing(w) /\ BlockOf[w] \notin Leaving) \/ BlockOf[w] \in Entering
  <2>1. gone = Leaving /\ new = Entering
    BY DEF gone, new, Leaving, Entering
  <2> QED BY <1>1, <1>9, <2>1
<1>17. CASE gone = {}
  <2>1. resident' = resident
    <3>1. resident' = [l \in Lane |-> resident'[l]] /\ resident = [l \in Lane |-> resident[l]]
      BY <1>1 DEF Residence
    <3> QED BY <1>8, <1>17, <3>1
  <2>2. new = {}
    <3>1. Cardinality(new) = 0
      BY <1>7, <1>17, FS_EmptySet
    <3> QED BY <1>7, <3>1, FS_EmptySet
  <2> QED BY <1>1, <1>10, <1>15, <1>16, <1>17, <2>1, <2>2 DEF history
<1> QED BY <1>1, <1>10, <1>15, <1>16, <1>17
---------------------------------------------------------------------------
(* The state of the policies                                               *)

\* A rank keeps the order within a scheduler, and stays below the current cycle.
LEMMA Ranking ==
    ASSUME setup \in Setup, lastIssue \in [Warp -> 0..Now], NEW w \in Warp
    PROVE  /\ Now \in Nat /\ Rank(w) \in Nat /\ Rank(w) < Now
           /\ \A v \in Warp : LaneOf(v) = LaneOf(w) /\ lastIssue[w] < lastIssue[v] => Rank(w) < Rank(v)
<1> DEFINE V(u) == {t \in Warp : LaneOf(t) = LaneOf(u) /\ lastIssue[t] < lastIssue[u]}
           R(u) == {lastIssue[v] : v \in V(u)}
<1>1. Warp \subseteq Nat /\ IsFiniteSet(Warp) /\ Now \in Nat /\ Now = Cardinality(Warp)
  <2>1. Warp \subseteq Nat /\ IsFiniteSet(Warp)
    BY Given
  <2> QED BY <2>1, FS_CardinalityType DEF Now
<1>2. \A u \in Warp : lastIssue[u] \in Nat
  BY <1>1
<1>3. ASSUME NEW u \in Warp
      PROVE  /\ IsFiniteSet(R(u)) /\ Rank(u) = Cardinality(R(u)) /\ Rank(u) \in Nat
             /\ Cardinality(R(u)) < Now
  <2> DEFINE f == [v \in V(u) |-> lastIssue[v]]
  <2>1. V(u) \subseteq Warp \ {u}
    BY <1>2
  <2>2. IsFiniteSet(Warp \ {u}) /\ Cardinality(Warp \ {u}) = Now - 1
    BY <1>1, FS_RemoveElement
  <2>3. IsFiniteSet(V(u)) /\ Cardinality(V(u)) <= Now - 1 /\ Cardinality(V(u)) \in Nat
    <3> HIDE DEF V
    <3> QED BY <2>1, <2>2, FS_Subset, FS_CardinalityType
  <2>4. f \in Surjection(V(u), R(u))
    BY DEF Surjection
  <2>5. Rank(u) = Cardinality(R(u))
    BY DEF Rank
  <2> HIDE DEF V, R, f
  <2>6. IsFiniteSet(R(u)) /\ Cardinality(R(u)) <= Cardinality(V(u))
    BY <2>3, <2>4, FS_Surjection
  <2>7. Cardinality(R(u)) \in Nat
    BY <2>6, FS_CardinalityType
  <2> QED BY <1>1, <2>3, <2>5, <2>6, <2>7
<1>4. ASSUME NEW v \in Warp, LaneOf(v) = LaneOf(w), lastIssue[w] < lastIssue[v]
      PROVE  Rank(w) < Rank(v)
  <2>1. R(w) \subseteq R(v)
    <3>1. SUFFICES ASSUME NEW t \in V(w) PROVE t \in V(v)
      OBVIOUS
    <3>2. t \in Warp /\ LaneOf(t) = LaneOf(v) /\ lastIssue[t] < lastIssue[w]
      BY <1>4
    <3> QED BY <1>2, <1>4, <3>2
  <2>2. lastIssue[w] \in R(v) /\ lastIssue[w] \notin R(w)
    <3>1. w \in V(v)
      BY <1>4
    <3>2. \A t \in V(w) : lastIssue[t] # lastIssue[w]
      BY <1>2
    <3> QED BY <3>1, <3>2
  <2> HIDE DEF R
  <2>3. Cardinality(R(w)) <= Cardinality(R(v)) /\ Cardinality(R(w)) # Cardinality(R(v))
    BY <1>3, <2>1, <2>2, FS_Subset
  <2> QED BY <1>3, <2>3
<1> QED BY <1>1, <1>3, <1>4

LEMMA NextPlace ==
    ASSUME setup \in Setup, Residence, NEW l \in Lane, NEW w \in Elems(resident[l])
    PROVE  /\ Len(resident[l]) \in Nat \ {0} /\ NextCursor(l, w) \in 0..(Len(resident[l]) - 1)
           /\ Len(resident[l]) <= Cardinality(LaneWarps(l)) /\ Cardinality(LaneWarps(l)) \in Nat
           /\ \E i \in DOMAIN resident[l] : resident[l][i] = w /\ NextCursor(l, w) = i % Len(resident[l])
<1> DEFINE r == resident[l]  i == CHOOSE i \in DOMAIN r : r[i] = w
<1>1. r \in Seq(Warp) /\ Distinct(r) /\ Elems(r) \subseteq LaneWarps(l)
  BY DEF Residence
<1>2. i \in DOMAIN r /\ r[i] = w
  <2>1. \E j \in DOMAIN r : r[j] = w
    BY DEF Elems
  <2> QED BY <2>1
<1>3. NextCursor(l, w) = i % Len(r)
  BY DEF NextCursor
<1>4. DOMAIN r = 1..Len(r) /\ Len(r) \in Nat
  <2> HIDE DEF r
  <2> QED BY <1>1, Places
<1>5. IsFiniteSet(LaneWarps(l))
  <2>1. LaneWarps(l) \subseteq Warp /\ IsFiniteSet(Warp)
    BY Given DEF LaneWarps
  <2> QED BY <2>1, FS_Subset
<1>6. Len(r) <= Cardinality(LaneWarps(l)) /\ Cardinality(LaneWarps(l)) \in Nat
  <2> HIDE DEF r
  <2> QED BY <1>1, <1>5, DistinctLength
<1> HIDE DEF r, i
<1>7. Len(r) \in Nat \ {0} /\ i \in Nat
  BY <1>2, <1>4
<1>8. i % Len(r) \in 0..(Len(r) - 1)
  BY <1>7
<1> QED BY <1>2, <1>3, <1>6, <1>7, <1>8 DEF r

LEMMA IssuePolicy ==
    ASSUME Queued, TypedPolicy, NEW W \in SUBSET Warp,
           NEW at, \A w \in W : at[w] \in DOMAIN ready[w], Issue(W, at)
    PROVE  /\ lastWarp' \in [Lane -> Warp \union {NoWarp}] /\ lastIssue' \in [Warp -> 0..Now]
           /\ lastPipe' \in [Warp -> {dag[n].pipe : n \in Node} \union {NoPipe}]
           /\ tmaWait' \in [Warp -> 0..setup.tmaInterval]
<1> DEFINE node(w) == Queue(w)[at[w]]
<1>1. /\ lastWarp' = [l \in Lane |-> IF \E w \in W : LaneOf(w) = l
                                     THEN CHOOSE w \in W : LaneOf(w) = l ELSE lastWarp[l]]
      /\ lastIssue' = [w \in Warp |-> IF w \in W THEN Now ELSE lastIssue[w]]
      /\ lastPipe' = [w \in Warp |-> IF w \in W THEN dag[node(w)].pipe ELSE lastPipe[w]]
      /\ tmaWait' = [w \in Warp |-> IF w \in W /\ dag[node(w)].op = "tma"
                                    THEN setup.tmaInterval ELSE tmaWait[w]]
  BY DEF Issue
<1>2. \A w \in W : node(w) \in Node
  <2>1. SUFFICES ASSUME NEW w \in W PROVE node(w) \in Node
    OBVIOUS
  <2>2. Queue(w) = ready[w] /\ ready[w] \in Seq(Node)
    BY AllLive
  <2> QED BY <2>2
<1>3. setup \in Setup
  BY DEF Queued, Typed
<1>4. Now \in Nat /\ setup.tmaInterval \in Nat
  BY <1>3, Given, FS_CardinalityType DEF Now
<1> HIDE DEF node
<1>5. lastWarp' \in [Lane -> Warp \union {NoWarp}]
  <2>1. \A l \in Lane : (\E w \in W : LaneOf(w) = l) => (CHOOSE w \in W : LaneOf(w) = l) \in W
    OBVIOUS
  <2> QED BY <1>1, <2>1 DEF TypedPolicy
<1>6. lastIssue' \in [Warp -> 0..Now]
  BY <1>1, <1>4 DEF TypedPolicy
<1>7. lastPipe' \in [Warp -> {dag[n].pipe : n \in Node} \union {NoPipe}]
  BY <1>1, <1>2 DEF TypedPolicy
<1>8. tmaWait' \in [Warp -> 0..setup.tmaInterval]
  BY <1>1, <1>4 DEF TypedPolicy
<1> QED BY <1>5, <1>6, <1>7, <1>8

LEMMA TypedPassed ==
    ASSUME TypedPolicy, NEW l \in Lane, NEW v, NEW able
    PROVE  PassedBy(l, v, able) \in [Warp -> SUBSET Warp]
<1>1. ASSUME NEW w \in Warp PROVE PassedBy(l, v, able)[w] \in SUBSET Warp
  <2>1. passed[w] \in SUBSET Warp /\ holder[l] \in Warp \union {NoWarp}
    BY DEF TypedPolicy
  <2> QED BY <2>1 DEF PassedBy
<1>2. PassedBy(l, v, able) = [w \in Warp |-> PassedBy(l, v, able)[w]]
  BY DEF PassedBy
<1> QED BY <1>1, <1>2
---------------------------------------------------------------------------
(* The steps                                                               *)

\* A group issue takes the heads of the queues of a group that is ready.
LEMMA GroupStep ==
    ASSUME Queued, Residence, NEW able, IssueGroup(able)
    PROVE  \E w \in Warp : /\ GroupReady(w, able) /\ w..w + 3 \in SUBSET Warp
                           /\ Issue(w..w + 3, [v \in w..w + 3 |-> 1])
                           /\ \A v \in w..w + 3 : [u \in w..w + 3 |-> 1][v] \in DOMAIN ready[v]
<1> DEFINE G == GroupTurns(able)  w == resident[0][First(G)]
<1>1. G # {} /\ Issue(w..w + 3, [v \in w..w + 3 |-> 1])
  BY DEF IssueGroup
<1>2. resident[0] \in Seq(Warp)
  BY DEF Residence, Lane
<1>3. First(G) \in G
  <2>1. G \subseteq 0..Len(resident[0]) /\ Len(resident[0]) \in Nat
    BY <1>2 DEF GroupTurns
  <2> HIDE DEF G
  <2> QED BY <1>1, <2>1, FirstOf
<1>4. w \in Warp /\ GroupReady(w, able)
  <2>1. First(G) \in DOMAIN resident[0] /\ GroupReady(w, able)
    BY <1>3 DEF GroupTurns
  <2> HIDE DEF G
  <2> QED BY <1>2, <2>1
<1> HIDE DEF w
<1>5. \A v \in w..w + 3 : v \in Warp /\ Queue(v) # <<>>
  BY <1>4 DEF GroupReady
<1>6. ASSUME NEW v \in w..w + 3 PROVE [u \in w..w + 3 |-> 1][v] \in DOMAIN ready[v]
  <2>1. v \in Warp /\ Queue(v) # <<>> /\ Queue(v) = ready[v] /\ ready[v] \in Seq(Node)
    BY <1>5, AllLive
  <2>2. 1 \in DOMAIN ready[v]
    BY <2>1
  <2> QED BY <2>2
<1> QED BY <1>1, <1>4, <1>5, <1>6

\* An issue of one warp takes an entry it offers.
LEMMA OneStep ==
    ASSUME Queued, TypedPolicy, Residence, NEW able, IssueOne(able)
    PROVE  \E w \in Turns(turn, able) :
              /\ w \in Warp /\ w \in LaneWarps(turn) /\ w \in Elems(resident[turn]) /\ Offers(w, able)
              /\ Issue({w}, [v \in {w} |-> First(Offer(w, able))])
              /\ \A v \in {w} : [u \in {w} |-> First(Offer(w, able))][v] \in DOMAIN ready[v]
              /\ cursor' = IF setup.policy = "RR"
                           THEN [cursor EXCEPT ![turn] = NextCursor(turn, w)] ELSE cursor
              /\ holder' = [holder EXCEPT ![turn] = w] /\ passed' = PassedBy(turn, w, able)
<1>1. turn \in Lane
  BY DEF IssueOne
<1>2. PICK w \in Turns(turn, able) :
         /\ Issue({w}, [v \in {w} |-> First(Offer(w, able))])
         /\ cursor' = IF setup.policy = "RR"
                      THEN [cursor EXCEPT ![turn] = NextCursor(turn, w)] ELSE cursor
         /\ holder' = [holder EXCEPT ![turn] = w] /\ passed' = PassedBy(turn, w, able)
  BY DEF IssueOne
<1>3. w \in Elems(resident[turn]) /\ w \in LaneWarps(turn) /\ Offers(w, able)
  BY <1>1, TurnOf
<1>4. w \in Warp
  BY <1>3 DEF LaneWarps
<1>5. First(Offer(w, able)) \in DOMAIN ready[w]
  BY <1>3, <1>4, OfferedEntry
<1> QED BY <1>2, <1>3, <1>4, <1>5

\* Blocks and warps stay where they are.
LEMMA SameResidence ==
    ASSUME Residence, Cardinality(ResidentBlocks) <= setup.maxResident,
           UNCHANGED <<setup, resident, waiting>>
    PROVE  Residence' /\ Cardinality(ResidentBlocks') <= setup'.maxResident
<1>1. Warp' = Warp /\ BlockOf' = BlockOf /\ Blocks' = Blocks /\ \A l \in Lane : LaneWarps(l)' = LaneWarps(l)
  BY Fixed
<1>2. \A w : Residing(w)' <=> Residing(w)
  BY DEF Residing, Elems, LaneOf
<1>3. ResidentBlocks' = ResidentBlocks
  BY <1>1, <1>2 DEF ResidentBlocks
<1>4. Residence'
  <2>1. \A l \in Lane : Distinct(resident'[l]) /\ Elems(resident'[l]) \subseteq LaneWarps(l)'
    BY <1>1 DEF Residence
  <2> QED BY <1>1, <1>2, <2>1 DEF Residence
<1> QED BY <1>3, <1>4

LEMMA InitRest ==
    ASSUME Init
    PROVE  /\ TypedPolicy /\ Residence /\ Cardinality(ResidentBlocks) <= setup.maxResident
           /\ \A w \in Warp : Residing(w) <=> BlockOf[w] \in Lowest(Blocks, setup.maxResident)
<1> DEFINE first == Lowest(Blocks, setup.maxResident)
<1>1. /\ setup \in Setup
      /\ lastWarp = [l \in Lane |-> NoWarp]
      /\ lastIssue = [w \in Warp |-> 0] /\ lastPipe = [w \in Warp |-> NoPipe]
      /\ cursor = [l \in Lane |-> 0] /\ tmaWait = [w \in Warp |-> 0]
      /\ resident = [l \in Lane |-> WarpsOf(first, l)] /\ waiting = Blocks \ first
      /\ holder = [l \in Lane |-> NoWarp] /\ passed = [w \in Warp |-> {}]
  BY DEF Init
<1>2. /\ Warp \subseteq Nat /\ IsFiniteSet(Warp) /\ setup.tmaInterval \in Nat /\ setup.maxResident \in Nat
      /\ \A w \in Warp : LaneOf(w) \in Lane
  BY <1>1, Given
<1>3. Now \in Nat /\ \A l \in Lane : Cardinality(LaneWarps(l)) \in Nat
  <2>1. \A l \in Lane : LaneWarps(l) \subseteq Warp
    BY DEF LaneWarps
  <2> QED BY <1>2, <2>1, FS_CardinalityType, FS_Subset DEF Now
<1>4. TypedPolicy
  BY <1>1, <1>2, <1>3 DEF TypedPolicy
<1>5. /\ first \subseteq Blocks /\ IsFiniteSet(first) /\ Cardinality(first) \in Nat
      /\ Cardinality(first) <= setup.maxResident
  <2>1. Blocks \in SUBSET Nat /\ IsFiniteSet(Blocks)
    BY <1>1, GivenBlocks
  <2> QED BY <1>2, <2>1, LowestOnes
<1> HIDE DEF first
<1>6. ASSUME NEW l \in Lane
      PROVE  resident[l] \in Seq(Warp) /\ Distinct(resident[l]) /\ Elems(resident[l]) = Coming(first, l)
  BY <1>1, WarpsComing
<1>7. \A w \in Warp : Residing(w) <=> BlockOf[w] \in first
  BY <1>2, <1>6 DEF Residing, Coming
<1>8. Residence
  <2>1. resident \in [Lane -> Seq(Warp)]
    <3>1. resident = [l \in Lane |-> resident[l]]
      BY <1>1
    <3> QED BY <1>6, <3>1
  <2> QED BY <1>1, <1>6, <1>7, <2>1 DEF Residence, Coming, LaneWarps
<1>9. Cardinality(ResidentBlocks) <= setup.maxResident
  <2>1. Homes \subseteq first
    BY <1>7 DEF Homes
  <2>2. ResidentBlocks = Homes /\ Cardinality(Homes) \in Nat
    BY <1>1, <1>8, ResidentOnes
  <2>3. Cardinality(Homes) <= Cardinality(first)
    BY <1>5, <2>1, FS_Subset
  <2> QED BY <1>2, <1>5, <2>2, <2>3
<1> QED BY <1>4, <1>7, <1>8, <1>9 DEF first

\* The queues stay exact, and the rest of the state what it should be.
LEMMA QStep ==
    ASSUME QInv, Next
    PROVE  QInv'
<1>1. Queued /\ TypedPolicy /\ Residence /\ Cardinality(ResidentBlocks) <= setup.maxResident
  BY DEF QInv
<1>2. setup \in Setup /\ turn \in 0..4
  BY <1>1 DEF Queued, Typed
<1>3. Now \in Nat
  BY <1>2, Given, FS_CardinalityType DEF Now
<1>4. ASSUME NEW able, IssueGroup(able) PROVE QInv'
  <2>1. PICK w \in Warp :
           /\ w..w + 3 \in SUBSET Warp
           /\ Issue(w..w + 3, [v \in w..w + 3 |-> 1])
           /\ \A v \in w..w + 3 : [u \in w..w + 3 |-> 1][v] \in DOMAIN ready[v]
    BY <1>1, <1>4, GroupStep
  <2>2. setup' = setup /\ resident' = resident /\ waiting' = waiting
    BY <2>1 DEF Issue, blockVars
  <2>3. /\ holder' = [l \in Lane |-> NoWarp] /\ passed' = [v \in Warp |-> {}] /\ turn' = 1 /\ cursor' = cursor
    BY <1>4 DEF IssueGroup
  <2> DEFINE W == w..w + 3  at == [v \in W |-> 1]
  <2>4. W \in SUBSET Warp /\ Issue(W, at) /\ \A v \in W : at[v] \in DOMAIN ready[v]
    BY <2>1
  <2> HIDE DEF W, at
  <2>5. Queued'
    BY <1>1, <2>3, <2>4, IssueQueues
  <2>6. /\ lastWarp' \in [Lane -> Warp \union {NoWarp}] /\ lastIssue' \in [Warp -> 0..Now]
        /\ lastPipe' \in [Warp -> {dag[n].pipe : n \in Node} \union {NoPipe}]
        /\ tmaWait' \in [Warp -> 0..setup.tmaInterval]
    BY <1>1, <2>4, IssuePolicy
  <2>7. TypedPolicy'
    <3>1. holder' \in [Lane -> Warp \union {NoWarp}] /\ passed' \in [Warp -> SUBSET Warp]
      BY <2>3
    <3>2. cursor' \in [Lane -> Nat] /\ \A l \in Lane : cursor'[l] <= Cardinality(LaneWarps(l))
      BY <1>1, <2>3 DEF TypedPolicy
    <3> QED BY <2>2, <2>6, <3>1, <3>2, Fixed DEF TypedPolicy
  <2>8. Residence' /\ Cardinality(ResidentBlocks') <= setup'.maxResident
    BY <1>1, <2>2, SameResidence
  <2> QED BY <2>5, <2>7, <2>8 DEF QInv
<1>5. ASSUME NEW able, IssueOne(able) PROVE QInv'
  <2>1. PICK w \in Turns(turn, able) :
           /\ w \in Warp /\ w \in Elems(resident[turn])
           /\ Issue({w}, [v \in {w} |-> First(Offer(w, able))])
           /\ \A v \in {w} : [u \in {w} |-> First(Offer(w, able))][v] \in DOMAIN ready[v]
           /\ cursor' = IF setup.policy = "RR"
                        THEN [cursor EXCEPT ![turn] = NextCursor(turn, w)] ELSE cursor
           /\ holder' = [holder EXCEPT ![turn] = w] /\ passed' = PassedBy(turn, w, able)
    BY <1>1, <1>5, OneStep
  <2>2. setup' = setup /\ resident' = resident /\ waiting' = waiting
    BY <2>1 DEF Issue, blockVars
  <2>3. turn \in Lane /\ turn' \in 0..4
    BY <1>5 DEF IssueOne, Lane
  <2> DEFINE W == {w}  at == [v \in W |-> First(Offer(w, able))]
  <2>4. W \in SUBSET Warp /\ Issue(W, at) /\ \A v \in W : at[v] \in DOMAIN ready[v]
    BY <2>1
  <2> HIDE DEF W, at
  <2>5. Queued'
    BY <1>1, <2>3, <2>4, IssueQueues
  <2>6. /\ lastWarp' \in [Lane -> Warp \union {NoWarp}] /\ lastIssue' \in [Warp -> 0..Now]
        /\ lastPipe' \in [Warp -> {dag[n].pipe : n \in Node} \union {NoPipe}]
        /\ tmaWait' \in [Warp -> 0..setup.tmaInterval]
    BY <1>1, <2>4, IssuePolicy
  <2>7. TypedPolicy'
    <3>1. holder' \in [Lane -> Warp \union {NoWarp}] /\ passed' \in [Warp -> SUBSET Warp]
      BY <1>1, <2>1, <2>3, TypedPassed DEF TypedPolicy
    <3>2. cursor' \in [Lane -> Nat] /\ \A l \in Lane : cursor'[l] <= Cardinality(LaneWarps(l))
      <4>1. cursor \in [Lane -> Nat] /\ \A l \in Lane : cursor[l] <= Cardinality(LaneWarps(l))
        BY <1>1 DEF TypedPolicy
      <4>2. /\ Len(resident[turn]) \in Nat /\ NextCursor(turn, w) \in 0..(Len(resident[turn]) - 1)
            /\ Len(resident[turn]) <= Cardinality(LaneWarps(turn)) /\ Cardinality(LaneWarps(turn)) \in Nat
        BY <1>1, <1>2, <2>1, <2>3, NextPlace
      <4>3. NextCursor(turn, w) \in Nat /\ NextCursor(turn, w) <= Cardinality(LaneWarps(turn))
        BY <4>2
      <4> QED BY <2>1, <2>3, <4>1, <4>3
    <3> QED BY <2>2, <2>6, <3>1, <3>2, Fixed DEF TypedPolicy
  <2>8. Residence' /\ Cardinality(ResidentBlocks') <= setup'.maxResident
    BY <1>1, <2>2, SameResidence
  <2> QED BY <2>5, <2>7, <2>8 DEF QInv
<1>6. ASSUME NEW able, Stall(able) PROVE QInv'
  <2>1. /\ turn \in Lane /\ turn' = turn + 1 /\ passed' = PassedBy(turn, NoWarp, able)
        /\ UNCHANGED <<setup, ready, sub, early, finished, lastWarp, lastIssue, lastPipe, cursor,
                       tmaWait, resident, waiting, holder>>
    BY <1>6 DEF Stall, nodeVars, policyVars, blockVars
  <2>2. turn' \in 0..4 /\ early' \subseteq Node
    BY <1>1, <2>1 DEF Lane, Queued, Typed
  <2>3. Queued'
    BY <1>1, <2>1, <2>2, SameQueues
  <2>4. TypedPolicy'
    BY <1>1, <2>1, TypedPassed, Fixed DEF TypedPolicy
  <2>5. Residence' /\ Cardinality(ResidentBlocks') <= setup'.maxResident
    BY <1>1, <2>1, SameResidence
  <2> QED BY <2>3, <2>4, <2>5 DEF QInv
<1>7. ASSUME NEW n \in Node, Finish(n) PROVE QInv'
  <2>1. /\ UNCHANGED <<setup, turn, sub, lastWarp, lastIssue, lastPipe, cursor,
                       tmaWait, resident, waiting, holder, passed>>
    BY <1>7 DEF Finish, policyVars, blockVars, history
  <2>2. Queued'
    BY <1>1, <1>7, FinishQueues
  <2>3. TypedPolicy'
    BY <1>1, <2>1, Fixed DEF TypedPolicy
  <2>4. Residence' /\ Cardinality(ResidentBlocks') <= setup'.maxResident
    BY <1>1, <2>1, SameResidence
  <2> QED BY <2>2, <2>3, <2>4 DEF QInv
<1>8. CASE EndCycle
  <2>1. /\ turn' = 0 /\ early' = {} /\ lastIssue' = [w \in Warp |-> Rank(w)]
        /\ tmaWait' = [w \in Warp |-> IF tmaWait[w] > 0 THEN tmaWait[w] - 1 ELSE 0]
        /\ UNCHANGED <<setup, ready, sub, finished, lastWarp, lastPipe, cursor>>
    BY <1>8 DEF EndCycle
  <2>2. Queued'
    BY <1>1, <2>1, SameQueues
  <2>3. /\ Residence' /\ Cardinality(ResidentBlocks') <= setup'.maxResident
        /\ \/ UNCHANGED <<resident, waiting, holder, passed>>
           \/ holder' = [l \in Lane |-> NoWarp] /\ passed' = [w \in Warp |-> {}]
    BY <1>1, <1>8, CycleResidence
  <2>4. holder' \in [Lane -> Warp \union {NoWarp}] /\ passed' \in [Warp -> SUBSET Warp]
    BY <1>1, <2>3 DEF TypedPolicy
  <2>5. lastIssue' \in [Warp -> 0..Now]
    <3>1. \A w \in Warp : Rank(w) \in 0..Now
      <4>1. SUFFICES ASSUME NEW w \in Warp PROVE Rank(w) \in 0..Now
        OBVIOUS
      <4>2. Rank(w) \in Nat /\ Rank(w) < Now
        BY <1>1, <1>2, Ranking DEF TypedPolicy
      <4> QED BY <1>3, <4>2
    <3> QED BY <2>1, <3>1
  <2>6. tmaWait' \in [Warp -> 0..setup.tmaInterval]
    <3>1. setup.tmaInterval \in Nat /\ tmaWait \in [Warp -> 0..setup.tmaInterval]
      BY <1>1, <1>2, Given DEF TypedPolicy
    <3> QED BY <2>1, <3>1
  <2>7. TypedPolicy'
    BY <1>1, <2>1, <2>4, <2>5, <2>6, Fixed DEF TypedPolicy
  <2> QED BY <2>2, <2>3, <2>7 DEF QInv
<1> QED BY <1>4, <1>5, <1>6, <1>7, <1>8 DEF Next, Turn

LEMMA QFixed ==
    ASSUME QInv, UNCHANGED vars
    PROVE  QInv'
<1>1. UNCHANGED <<setup, turn, ready, sub, early, finished, lastWarp, lastIssue, lastPipe, cursor,
                  tmaWait, resident, waiting, holder, passed>>
  BY DEF vars, nodeVars, policyVars, blockVars, history
<1>2. Queued'
  <2>1. Queued /\ early' \subseteq Node /\ turn' \in 0..4
    BY <1>1 DEF QInv, Queued, Typed
  <2> QED BY <1>1, <2>1, SameQueues
<1>3. TypedPolicy'
  BY <1>1, Fixed DEF QInv, TypedPolicy
<1>4. Residence' /\ Cardinality(ResidentBlocks') <= setup'.maxResident
  BY <1>1, SameResidence DEF QInv
<1> QED BY <1>2, <1>3, <1>4 DEF QInv

\* The invariant of the queues, the policies and the residency holds in every state.
THEOREM QueuesInvariant == Spec => []QInv
<1>1. Init => QInv
  BY InitQueues, InitRest DEF QInv
<1>2. QInv /\ [Next]_vars => QInv'
  BY QStep, QFixed
<1> QED BY <1>1, <1>2, PTL DEF Spec

LEMMA EntriesCounted ==
    ASSUME QInv
    PROVE  EntriesExact
<1>1. Queued /\ TypedPolicy /\ Residence /\ Cardinality(ResidentBlocks) <= setup.maxResident
  BY DEF QInv
<1>2. TypedPolicy /\ Typed
  BY <1>1 DEF Queued
<1>3. \A l \in Lane : resident[l] \in Seq({w \in Warp : LaneOf(w) = l})
  <2>1. SUFFICES ASSUME NEW l \in Lane PROVE resident[l] \in Seq(LaneWarps(l))
    BY DEF LaneWarps
  <2> DEFINE r == resident[l]
  <2>2. r \in Seq(Warp) /\ Elems(r) \subseteq LaneWarps(l)
    BY <1>1 DEF Residence
  <2>3. Len(r) \in Nat /\ DOMAIN r = 1..Len(r) /\ r = [i \in 1..Len(r) |-> r[i]]
    BY <2>2
  <2> HIDE DEF r
  <2>4. \A i \in 1..Len(r) : r[i] \in LaneWarps(l)
    BY <2>2, <2>3 DEF Elems
  <2>5. r \in [1..Len(r) -> LaneWarps(l)]
    BY <2>3, <2>4
  <2>6. r \in Seq(LaneWarps(l))
    BY <2>3, <2>5, Listed
  <2> QED BY <2>6 DEF r
<1>4. \A n \in Node : sub[n] \in 0..dag[n].subops
  <2>1. \A n \in Node : dag[n].subops \in Nat
    BY <1>2, Given DEF Typed
  <2> QED BY <1>2, <2>1 DEF Typed
<1>5. \A l \in Lane : cursor[l] \in 0..Cardinality({w \in Warp : LaneOf(w) = l})
  <2>1. SUFFICES ASSUME NEW l \in Lane PROVE cursor[l] \in 0..Cardinality(LaneWarps(l))
    BY DEF LaneWarps
  <2>2. IsFiniteSet(Warp) /\ LaneWarps(l) \subseteq Warp
    BY <1>2, Given DEF LaneWarps, Typed
  <2>3. Cardinality(LaneWarps(l)) \in Nat
    BY <2>2, FS_Subset, FS_CardinalityType
  <2> QED BY <1>2, <2>3 DEF TypedPolicy
<1>6. TypeOK
  BY <1>1, <1>2, <1>3, <1>4, <1>5 DEF TypeOK, Typed, TypedPolicy, Residence
<1>7. ASSUME NEW n \in Node, NEW w \in Warp
      PROVE  Cardinality({i \in DOMAIN ready[w] : ready[w][i] = n}) =
                IF dag[n].warp = w /\ Live(n) /\ Unmet(n, finished, IssueDone) = {} THEN 1 ELSE 0
  <2> DEFINE I == {i \in DOMAIN ready[w] : ready[w][i] = n}
  <2>1. Distinct(ready[w]) /\ Elems(ready[w]) = {m \in Node : dag[m].warp = w /\ Startable(m)}
    BY <1>1 DEF Queued, Entries
  <2>2. CASE n \in Elems(ready[w])
    <3>1. PICK i \in DOMAIN ready[w] : ready[w][i] = n
      BY <2>2 DEF Elems
    <3>2. I = {i}
      BY <2>1, <3>1 DEF Distinct
    <3>3. Cardinality(I) = 1
      BY <3>2, FS_Singleton
    <3> QED BY <2>1, <2>2, <3>3 DEF Startable
  <2>3. CASE n \notin Elems(ready[w])
    <3>1. I = {}
      BY <2>3 DEF Elems
    <3>2. Cardinality(I) = 0
      BY <3>1, FS_EmptySet
    <3> QED BY <2>1, <2>3, <3>2 DEF Startable
  <2> QED BY <2>2, <2>3
<1> QED BY <1>6, <1>7 DEF EntriesExact

\* Whatever the policy, the graph and the other units do, the queues hold each node that
\* may issue once, in its warp's, and no other node.
THEOREM OneEntryEach == Spec => []EntriesExact
BY QueuesInvariant, EntriesCounted, PTL
---------------------------------------------------------------------------
(* Round robin                                                             *)

\* How many places the scheduler looks at before place i, when it starts behind place c.
Ahead(c, n, i) == IF i > c THEN i - 1 - c ELSE i - 1 - c + n

LEMMA Around ==
    ASSUME NEW n \in Nat \ {0}, NEW s \in 0..(n - 1)
    PROVE  /\ \A k \in 0..(n - 1) : /\ ((s + k) % n) + 1 \in 1..n
                                    /\ Ahead(s, n, ((s + k) % n) + 1) = k
           /\ \A i \in 1..n : /\ Ahead(s, n, i) \in 0..(n - 1)
                              /\ ((s + Ahead(s, n, i)) % n) + 1 = i
           /\ \A i, j \in 1..n : Ahead(s, n, i) = Ahead(s, n, j) => i = j
<1>1. \A x \in 0..(n - 1) : x % n = x
  OBVIOUS
<1>2. \A x \in n..(2 * n - 1) : x % n = x - n
  OBVIOUS
<1>3. ASSUME NEW k \in 0..(n - 1)
      PROVE  ((s + k) % n) + 1 \in 1..n /\ Ahead(s, n, ((s + k) % n) + 1) = k
  <2>1. CASE s + k < n
    <3>1. (s + k) % n = s + k
      BY <1>1, <2>1
    <3> QED BY <2>1, <3>1 DEF Ahead
  <2>2. CASE s + k >= n
    <3>1. (s + k) % n = s + k - n
      BY <1>2, <2>2
    <3> QED BY <2>2, <3>1 DEF Ahead
  <2> QED BY <2>1, <2>2
<1>4. ASSUME NEW i \in 1..n
      PROVE  Ahead(s, n, i) \in 0..(n - 1) /\ ((s + Ahead(s, n, i)) % n) + 1 = i
  <2>1. CASE i > s
    <3>1. Ahead(s, n, i) = i - 1 - s
      BY <2>1 DEF Ahead
    <3>2. (i - 1) % n = i - 1
      BY <1>1
    <3>3. s + (i - 1 - s) = i - 1
      OBVIOUS
    <3> QED BY <2>1, <3>1, <3>2, <3>3
  <2>2. CASE ~(i > s)
    <3>1. Ahead(s, n, i) = i - 1 - s + n
      BY <2>2 DEF Ahead
    <3>2. (i - 1 + n) % n = i - 1
      BY <1>2
    <3>3. s + (i - 1 - s + n) = i - 1 + n
      OBVIOUS
    <3> QED BY <2>2, <3>1, <3>2, <3>3
  <2> QED BY <2>1, <2>2
<1>5. \A i, j \in 1..n : Ahead(s, n, i) = Ahead(s, n, j) => i = j
  BY <1>4 DEF Ahead
<1> QED BY <1>3, <1>4, <1>5

\* When place v has had its turn it is the last, and those behind it keep their order.
LEMMA Moved ==
    ASSUME NEW n \in Nat \ {0}, NEW s \in 0..(n - 1), NEW v \in 1..n
    PROVE  /\ v % n \in 0..(n - 1) /\ (v % n) % n = v % n
           /\ Ahead(v % n, n, v) = n - 1
           /\ \A i, j \in 1..n :
                 Ahead(s, n, v) < Ahead(s, n, i) /\ Ahead(s, n, i) < Ahead(s, n, j)
                 => Ahead(v % n, n, i) < Ahead(v % n, n, j)
<1>1. \A x \in 0..(n - 1) : x % n = x
  OBVIOUS
<1>2. n % n = 0
  OBVIOUS
<1>3. CASE v < n
  <2>1. v % n = v
    BY <1>1, <1>3
  <2> QED BY <1>3, <2>1 DEF Ahead
<1>4. CASE v = n
  <2>1. v % n = 0 /\ 0 % n = 0
    BY <1>1, <1>2, <1>4
  <2> QED BY <1>4, <2>1 DEF Ahead
<1> QED BY <1>3, <1>4

Start(l) == cursor[l] % Len(resident[l])
Wait(l, i) == Ahead(Start(l), Len(resident[l]), i)

LEMMA Starting ==
    ASSUME TypedPolicy, Residence, NEW l \in Lane, DOMAIN resident[l] # {}
    PROVE  /\ Len(resident[l]) \in Nat \ {0} /\ Start(l) \in 0..(Len(resident[l]) - 1)
           /\ DOMAIN resident[l] = 1..Len(resident[l])
<1>1. resident[l] \in Seq(Warp) /\ cursor[l] \in Nat
  BY DEF Residence, TypedPolicy
<1>2. DOMAIN resident[l] = 1..Len(resident[l]) /\ Len(resident[l]) \in Nat
  BY <1>1, Places
<1>3. Len(resident[l]) \in Nat \ {0}
  BY <1>2
<1> QED BY <1>1, <1>2, <1>3 DEF Start

\* The warp whose turn it is waits no longer than any other with something to offer.
LEMMA RoundRobinTurn ==
    ASSUME Queued, TypedPolicy, Residence, setup.policy = "RR", NEW l \in Lane, NEW able
    PROVE  /\ \A v \in Turns(l, able) : \E i \in DOMAIN resident[l] :
                 /\ resident[l][i] = v
                 /\ \A j \in DOMAIN resident[l] :
                       Offers(resident[l][j], able) => Wait(l, i) <= Wait(l, j)
           /\ Turns(l, able) = {} => \A j \in DOMAIN resident[l] : ~Offers(resident[l][j], able)
<1> DEFINE r == resident[l]  n == Len(r)  s == Start(l)
           after(k) == r[((s + k) % n) + 1]
           turns == {k \in 0..(n - 1) : Offers(after(k), able)}
<1>1. Turns(l, able) = IF n = 0 \/ turns = {} THEN {} ELSE {after(First(turns))}
  BY DEF Turns, RoundRobin, Start
<1>2. CASE DOMAIN r = {}
  <2>1. n = 0
    <3>1. r \in Seq(Warp)
      BY DEF Residence
    <3> HIDE DEF r
    <3> QED BY <1>2, <3>1
  <2> QED BY <1>1, <1>2, <2>1
<1>3. CASE DOMAIN r # {}
  <2>1. n \in Nat \ {0} /\ s \in 0..(n - 1) /\ DOMAIN r = 1..n
    BY <1>3, Starting
  <2>2. /\ \A k \in 0..(n - 1) : ((s + k) % n) + 1 \in 1..n /\ Ahead(s, n, ((s + k) % n) + 1) = k
        /\ \A i \in 1..n : Ahead(s, n, i) \in 0..(n - 1) /\ ((s + Ahead(s, n, i)) % n) + 1 = i
    <3> HIDE DEF n, s, r
    <3> QED BY <2>1, Around
  <2>3. \A j \in DOMAIN r : Offers(r[j], able) => Wait(l, j) \in turns
    <3>1. \A j \in DOMAIN r : Wait(l, j) = Ahead(s, n, j)
      BY DEF Wait
    <3>2. \A j \in DOMAIN r : Ahead(s, n, j) \in 0..(n - 1) /\ after(Ahead(s, n, j)) = r[j]
      <4> HIDE DEF n, s, r
      <4> QED BY <2>1, <2>2
    <3> HIDE DEF n, s, r, after
    <3> QED BY <3>1, <3>2
  <2>4. Turns(l, able) = {} => \A j \in DOMAIN r : ~Offers(r[j], able)
    <3>1. n # 0
      BY <2>1
    <3> HIDE DEF n, turns
    <3> QED BY <1>1, <2>3, <3>1
  <2>5. ASSUME NEW v \in Turns(l, able)
        PROVE  \E i \in DOMAIN r : /\ r[i] = v
                                   /\ \A j \in DOMAIN r : Offers(r[j], able) => Wait(l, i) <= Wait(l, j)
    <3>1. turns # {} /\ v = after(First(turns))
      <4> HIDE DEF n, turns, after
      <4> QED BY <1>1, <2>5
    <3>2. turns \in SUBSET (0..(n - 1)) /\ n - 1 \in Nat
      <4>1. turns \in SUBSET (0..(n - 1))
        OBVIOUS
      <4> HIDE DEF turns, n
      <4> QED BY <2>1, <4>1
    <3>3. First(turns) \in turns /\ \A k \in turns : First(turns) <= k
      <4> HIDE DEF turns, n
      <4> QED BY <3>1, <3>2, FirstOf
    <3> DEFINE f == First(turns)  i == ((s + f) % n) + 1
    <3>4. f \in 0..(n - 1)
      BY <3>3
    <3>5. i \in 1..n /\ Ahead(s, n, i) = f /\ r[i] = v
      <4>1. v = r[i]
        BY <3>1
      <4> HIDE DEF f, n, s, r
      <4> QED BY <2>2, <3>4, <4>1
    <3>6. Wait(l, i) = f
      BY <3>5 DEF Wait
    <3>7. \A j \in DOMAIN r : Offers(r[j], able) => f <= Wait(l, j)
      <4> HIDE DEF turns, n, r
      <4> QED BY <2>3, <3>3
    <3> HIDE DEF f, i, n, r, s, turns
    <3> QED BY <2>1, <3>5, <3>6, <3>7
  <2> QED BY <2>4, <2>5
<1> QED BY <1>2, <1>3

\* A warp that gave its turn away while w could issue is looked at after w; the one that
\* has just issued is the last of all.
InTurn(l, w, p) ==
    \E i, j \in DOMAIN resident[l] :
        resident[l][i] = w /\ resident[l][j] = p /\ Wait(l, i) < Wait(l, j)
RoundInv ==
    /\ \A w \in Warp : \A p \in passed[w] \ {w} : InTurn(LaneOf(w), w, p)
    /\ \A l \in Lane : holder[l] # NoWarp =>
          \E i \in DOMAIN resident[l] :
              resident[l][i] = holder[l] /\ cursor[l] = i % Len(resident[l])

LEMMA SameRounds ==
    ASSUME RoundInv, NoReturn, UNCHANGED <<setup, cursor, resident, holder, passed>>
    PROVE  RoundInv' /\ NoReturn'
<1>1. Warp' = Warp
  BY Fixed
<1>2. \A w : LaneOf(w)' = LaneOf(w)
  BY DEF LaneOf
<1>3. \A l, w, p : InTurn(l, w, p)' <=> InTurn(l, w, p)
  BY DEF InTurn, Wait, Start
<1>4. RoundInv'
  BY <1>1, <1>3 DEF RoundInv, LaneOf
<1>5. NoReturn'
  BY <1>1 DEF NoReturn, LaneOf
<1> QED BY <1>4, <1>5

LEMMA ResetHistory ==
    ASSUME Typed, setup' = setup, holder' = [l \in Lane |-> NoWarp], passed' = [w \in Warp |-> {}]
    PROVE  RoundInv' /\ NoReturn'
<1>1. Warp' = Warp /\ \A w \in Warp : LaneOf(w) \in Lane
  BY Fixed, Given DEF Typed
<1>2. \A w : LaneOf(w)' = LaneOf(w)
  BY DEF LaneOf
<1> QED BY <1>1, <1>2 DEF RoundInv, NoReturn

\* No warp of the scheduler has anything to offer: it can only be looked at again.
LEMMA IdleHistory ==
    ASSUME Queued, Residence, NEW l \in Lane, NEW able,
           \A w \in Elems(resident[l]) : ~Offers(w, able), NEW w \in Warp
    PROVE  PassedBy(l, NoWarp, able)[w] = IF LaneOf(w) = l THEN {} ELSE passed[w]
<1>1. LaneOf(w) = l => ~Offers(w, able)
  <2>1. Offers(w, able) => Residing(w)
    BY OfferedEntry
  <2> QED BY <2>1 DEF Residing
<1> QED BY <1>1 DEF PassedBy

LEMMA RoundStep ==
    ASSUME QInv, RoundInv, NoReturn, setup.policy = "RR", Next
    PROVE  RoundInv' /\ NoReturn'
<1>1. Queued /\ TypedPolicy /\ Residence /\ Cardinality(ResidentBlocks) <= setup.maxResident
  BY DEF QInv
<1>2. Typed /\ setup \in Setup
  BY <1>1 DEF Queued, Typed
<1>3. ASSUME NEW able, IssueGroup(able) PROVE RoundInv' /\ NoReturn'
  <2>1. setup' = setup /\ holder' = [l \in Lane |-> NoWarp] /\ passed' = [w \in Warp |-> {}]
    BY <1>3 DEF IssueGroup, Issue
  <2> QED BY <1>2, <2>1, ResetHistory
<1>4. ASSUME NEW able, IssueOne(able) PROVE RoundInv' /\ NoReturn'
  <2>1. PICK v \in Turns(turn, able) :
           /\ v \in Warp /\ v \in LaneWarps(turn) /\ v \in Elems(resident[turn])
           /\ Issue({v}, [u \in {v} |-> First(Offer(v, able))])
           /\ cursor' = [cursor EXCEPT ![turn] = NextCursor(turn, v)]
           /\ holder' = [holder EXCEPT ![turn] = v] /\ passed' = PassedBy(turn, v, able)
    BY <1>1, <1>4, OneStep
  <2>2. setup' = setup /\ resident' = resident /\ turn \in Lane
    BY <1>4, <2>1 DEF Issue, blockVars, IssueOne
  <2>0. PICK l \in Lane : l = turn
    BY <2>2
  <2> DEFINE r == resident[l]  n == Len(r)  s == Start(l)
  <2>3. PICK iv \in DOMAIN r :
           /\ r[iv] = v
           /\ \A j \in DOMAIN r : Offers(r[j], able) => Wait(l, iv) <= Wait(l, j)
    BY <1>1, <2>0, <2>1, RoundRobinTurn
  <2>4. n \in Nat \ {0} /\ s \in 0..(n - 1) /\ DOMAIN r = 1..n /\ iv \in 1..n /\ Distinct(r)
    BY <1>1, <2>3, Starting DEF Residence
  <2>5. \A i \in 1..n : Wait(l, i) = Ahead(s, n, i)
    BY DEF Wait
  <2>6. /\ \A i \in 1..n : Ahead(s, n, i) \in 0..(n - 1)
        /\ \A i, j \in 1..n : Ahead(s, n, i) = Ahead(s, n, j) => i = j
    <3> HIDE DEF n, s, r
    <3> QED BY <2>4, Around
  <2>7. /\ (iv % n) % n = iv % n
        /\ \A i, j \in 1..n :
              Ahead(s, n, iv) < Ahead(s, n, i) /\ Ahead(s, n, i) < Ahead(s, n, j)
              => Ahead(iv % n, n, i) < Ahead(iv % n, n, j)
    <3> HIDE DEF n, s, r
    <3> QED BY <2>4, Moved
  <2>8. NextCursor(l, v) = iv % n
    <3>1. PICK i \in DOMAIN r : r[i] = v /\ NextCursor(l, v) = i % n
      BY <1>1, <1>2, <2>0, <2>1, NextPlace
    <3>2. i = iv
      BY <2>3, <2>4, <3>1 DEF Distinct
    <3> QED BY <3>1, <3>2
  <2>9. cursor \in [Lane -> Nat] /\ holder \in [Lane -> Warp \union {NoWarp}]
    BY <1>1 DEF TypedPolicy
  <2>10. cursor'[l] = iv % n /\ holder'[l] = v
         /\ \A m \in Lane : m # l => cursor'[m] = cursor[m] /\ holder'[m] = holder[m]
    BY <2>0, <2>1, <2>8, <2>9
  <2>11. \A i \in 1..n : Wait(l, i)' = Ahead(iv % n, n, i)
    <3>1. Start(l)' = iv % n
      BY <2>2, <2>7, <2>10 DEF Start
    <3> QED BY <2>2, <3>1 DEF Wait
  <2>12. Warp' = Warp /\ \A w : LaneOf(w)' = LaneOf(w)
    BY <2>2, Fixed DEF LaneOf
  <2>13. \A m \in Lane : m # l => \A w, p : InTurn(m, w, p) => InTurn(m, w, p)'
    <3>1. SUFFICES ASSUME NEW m \in Lane, m # l, NEW w, NEW p, InTurn(m, w, p) PROVE InTurn(m, w, p)'
      OBVIOUS
    <3>2. \A i : Wait(m, i)' = Wait(m, i)
      BY <2>2, <2>10, <3>1 DEF Wait, Start
    <3> QED BY <2>2, <3>1, <3>2 DEF InTurn
  <2>14. LaneOf(v) = l
    BY <2>0, <2>1 DEF LaneWarps
  <2>15. ASSUME NEW w \in Warp, LaneOf(w) = l
         PROVE  v \notin passed'[w] /\ \A p \in passed'[w] \ {w} : InTurn(l, w, p)'
    <3>1. passed'[w] = IF w = v \/ ~Offers(w, able) THEN {}
                       ELSE passed[w] \union ({holder[l]} \ {v, NoWarp})
      BY <2>0, <2>1, <2>15 DEF PassedBy
    <3>2. CASE w = v \/ ~Offers(w, able)
      BY <3>1, <3>2
    <3>3. CASE w # v /\ Offers(w, able)
      <4>1. PICK iw \in DOMAIN r : r[iw] = w
        <5>1. Residing(w)
          BY <1>1, <3>3, OfferedEntry
        <5> QED BY <2>15, <5>1 DEF Residing, Elems
      <4> HIDE DEF n, s, r
      <4>2. Ahead(s, n, iv) < Ahead(s, n, iw)
        <5>1. iw # iv /\ Wait(l, iv) <= Wait(l, iw)
          BY <2>3, <3>3, <4>1
        <5>2. Ahead(s, n, iv) <= Ahead(s, n, iw) /\ Ahead(s, n, iv) # Ahead(s, n, iw)
          BY <2>4, <2>5, <2>6, <4>1, <5>1
        <5>3. Ahead(s, n, iv) \in 0..(n - 1) /\ Ahead(s, n, iw) \in 0..(n - 1)
          BY <2>4, <2>6, <4>1
        <5> QED BY <5>2, <5>3
      <4>3. ASSUME NEW p, NEW ip \in DOMAIN r, r[ip] = p, Ahead(s, n, iw) < Ahead(s, n, ip)
            PROVE  p # v /\ InTurn(l, w, p)'
        <5>1. Ahead(iv % n, n, iw) < Ahead(iv % n, n, ip)
          BY <2>4, <2>7, <4>1, <4>2, <4>3
        <5>2. InTurn(l, w, p)'
          <6>1. Wait(l, iw)' < Wait(l, ip)'
            BY <2>4, <2>11, <4>1, <4>3, <5>1
          <6>2. resident'[l] = r
            BY <2>2 DEF r
          <6> QED BY <4>1, <4>3, <6>1, <6>2 DEF InTurn
        <5>3. ip # iv
          <6>1. /\ Ahead(s, n, iv) \in 0..(n - 1) /\ Ahead(s, n, iw) \in 0..(n - 1)
                /\ Ahead(s, n, ip) \in 0..(n - 1) /\ n \in Nat
            BY <2>4, <2>6, <4>1
          <6> QED BY <4>2, <4>3, <6>1
        <5>4. p # v
          BY <2>3, <2>4, <4>3, <5>3 DEF Distinct
        <5> QED BY <5>2, <5>4
      <4>4. ASSUME NEW p \in passed[w] \ {w} PROVE p # v /\ InTurn(l, w, p)'
        <5>1. InTurn(l, w, p)
          BY <2>15, <4>4 DEF RoundInv
        <5>2. PICK i \in DOMAIN r, j \in DOMAIN r : r[i] = w /\ r[j] = p /\ Wait(l, i) < Wait(l, j)
          BY <5>1 DEF InTurn, r
        <5>3. i = iw
          BY <2>4, <4>1, <5>2 DEF Distinct
        <5>4. Ahead(s, n, iw) < Ahead(s, n, j)
          BY <2>4, <2>5, <4>1, <5>2, <5>3
        <5> QED BY <4>3, <5>2, <5>4
      <4>5. ASSUME NEW p \in {holder[l]} \ {v, NoWarp}, p # w PROVE InTurn(l, w, p)'
        <5>1. PICK ip \in DOMAIN r : r[ip] = p /\ cursor[l] = ip % n
          BY <4>5 DEF RoundInv, r, n
        <5>2. Ahead(s, n, ip) = n - 1
          <6>1. ip \in 1..n
            BY <2>4, <5>1
          <6>2. (ip % n) % n = ip % n /\ Ahead(ip % n, n, ip) = n - 1
            BY <2>4, <6>1, Moved
          <6>3. s = (ip % n) % n
            BY <5>1 DEF s, Start, n, r
          <6> QED BY <6>2, <6>3
        <5>3. ip # iw
          BY <4>1, <4>5, <5>1
        <5>4. Ahead(s, n, iw) < Ahead(s, n, ip)
          <6>1. Ahead(s, n, iw) # Ahead(s, n, ip) /\ Ahead(s, n, iw) \in 0..(n - 1)
            BY <2>4, <2>6, <4>1, <5>1, <5>3
          <6> QED BY <2>4, <5>2, <6>1
        <5> QED BY <4>3, <5>1, <5>4
      <4> QED BY <3>1, <3>3, <4>4, <4>5
    <3> QED BY <3>2, <3>3
  <2>16. \A w \in Warp : LaneOf(w) # l => passed'[w] = passed[w]
    BY <2>0, <2>1 DEF PassedBy
  <2>17. \A w \in Warp : LaneOf(w) \in Lane
    BY <1>2, Given
  <2>18. \A w \in Warp : \A p \in passed'[w] \ {w} : InTurn(LaneOf(w), w, p)'
    <3> QED BY <2>13, <2>15, <2>16, <2>17 DEF RoundInv
  <2>19. \A m \in Lane : holder'[m] # NoWarp =>
            \E i \in DOMAIN resident[m] : resident[m][i] = holder'[m] /\ cursor'[m] = i % Len(resident[m])
    BY <2>3, <2>10 DEF RoundInv
  <2>20. RoundInv'
    BY <2>2, <2>12, <2>18, <2>19 DEF RoundInv, LaneOf
  <2>21. \A w \in Warp : holder'[LaneOf(w)] \notin passed'[w]
    <3> QED BY <2>10, <2>15, <2>16, <2>17 DEF NoReturn
  <2>22. NoReturn'
    BY <2>12, <2>21 DEF NoReturn, LaneOf
  <2> QED BY <2>20, <2>22
<1>5. ASSUME NEW able, Stall(able) PROVE RoundInv' /\ NoReturn'
  <2>1. /\ turn \in Lane /\ Turns(turn, able) = {} /\ passed' = PassedBy(turn, NoWarp, able)
        /\ UNCHANGED <<setup, cursor, resident, holder>>
    BY <1>5 DEF Stall, policyVars, blockVars
  <2>2. \A w \in Elems(resident[turn]) : ~Offers(w, able)
    BY <1>1, <2>1, RoundRobinTurn DEF Elems
  <2>3. \A w \in Warp : passed'[w] = {} \/ passed'[w] = passed[w]
    BY <1>1, <2>1, <2>2, IdleHistory
  <2>4. Warp' = Warp /\ \A w : LaneOf(w)' = LaneOf(w)
    BY <2>1, Fixed DEF LaneOf
  <2>5. \A m, w, p : InTurn(m, w, p)' <=> InTurn(m, w, p)
    BY <2>1 DEF InTurn, Wait, Start
  <2>6. RoundInv'
    <3>1. \A w \in Warp : \A p \in passed'[w] \ {w} : InTurn(LaneOf(w), w, p)'
      BY <2>3, <2>5 DEF RoundInv
    <3> QED BY <2>1, <2>4, <3>1 DEF RoundInv, LaneOf
  <2>7. NoReturn'
    BY <2>1, <2>3, <2>4 DEF NoReturn, LaneOf
  <2> QED BY <2>6, <2>7
<1>6. ASSUME NEW n \in Node, Finish(n) PROVE RoundInv' /\ NoReturn'
  <2>1. UNCHANGED <<setup, cursor, resident, holder, passed>>
    BY <1>6 DEF Finish, policyVars, blockVars, history
  <2> QED BY <2>1, SameRounds
<1>7. CASE EndCycle
  <2>1. UNCHANGED <<setup, cursor>>
    BY <1>7 DEF EndCycle
  <2>2. \/ UNCHANGED <<resident, holder, passed>>
        \/ holder' = [l \in Lane |-> NoWarp] /\ passed' = [w \in Warp |-> {}]
    BY <1>1, <1>7, CycleResidence
  <2> QED BY <1>2, <2>1, <2>2, SameRounds, ResetHistory
<1> QED BY <1>3, <1>4, <1>5, <1>6, <1>7 DEF Next, Turn
---------------------------------------------------------------------------
(* Greedy then oldest                                                      *)

\* The holder issued last of its scheduler, and a warp that gave its turn away has issued
\* later than the one that could; the schedulers still to come have not issued yet.
GreedyInv ==
    /\ \A w \in Warp : LaneOf(w) >= turn => lastIssue[w] < Now
    /\ \A l \in Lane : holder[l] # NoWarp =>
          /\ lastWarp[l] = holder[l] /\ LaneOf(holder[l]) = l
          /\ \A w \in LaneWarps(l) \ {holder[l]} : lastIssue[w] < lastIssue[holder[l]]
    /\ \A l \in Lane : holder[l] = NoWarp => \A w \in LaneWarps(l) : passed[w] = {}
    /\ \A w \in Warp : \A p \in passed[w] :
          LaneOf(p) = LaneOf(w) /\ lastIssue[w] < lastIssue[p]

\* The hypotheses of the theorems, on every set-up.
AllUntied == \A u \in Setup : Untied(u)
AllGrouped == \A u \in Setup : WellGrouped(u)
AllMatched == \A u \in Setup : Matched(u)
AllResolvable == \A u \in Setup : \E rank \in [DOMAIN u.graph -> Nat] : Resolvable(u, rank)

LEMMA NoGroups ==
    ASSUME AllUntied, QInv, setup.policy # "RR", NEW able
    PROVE  ~IssueGroup(able)
<1>1. Queued /\ Residence /\ setup \in Setup
  BY DEF QInv, Queued, Typed
<1>2. SUFFICES ASSUME IssueGroup(able) PROVE FALSE
  OBVIOUS
<1>3. PICK w \in Warp : GroupReady(w, able)
  BY <1>1, <1>2, GroupStep
<1>4. Queue(w) # <<>> /\ IsGroup(Queue(w)[1]) /\ GroupSize(Queue(w)[1]) = 4
  BY <1>3 DEF GroupReady
<1>5. Queue(w)[1] \in Node
  <2>1. Queue(w) \in Seq(Node)
    BY <1>1, AllLive
  <2> QED BY <1>4, <2>1
<1> QED BY <1>1, <1>4, <1>5 DEF AllUntied, Untied, Mmas, IsGroup, GroupSize, dag, Node

LEMMA OldestTurn ==
    ASSUME QInv, setup.policy # "RR", NEW l \in Lane, NEW able
    PROVE  /\ \A v \in Turns(l, able) :
                 \/ v = lastWarp[l]
                 \/ \A w \in Elems(resident[l]) :
                       Offers(w, able) => w # lastWarp[l] /\ lastIssue[v] <= lastIssue[w]
           /\ Turns(l, able) = {} => \A w \in Elems(resident[l]) : ~Offers(w, able)
<1> DEFINE offering == {w \in Elems(resident[l]) : Offers(w, able)}
<1>1. Turns(l, able) = IF lastWarp[l] \in offering THEN {lastWarp[l]}
                       ELSE {w \in offering : \A v \in offering : lastIssue[w] <= lastIssue[v]}
  BY DEF Turns, GreedyThenOldest
<1>2. ASSUME NEW v \in Turns(l, able)
      PROVE  \/ v = lastWarp[l]
             \/ \A w \in Elems(resident[l]) :
                   Offers(w, able) => w # lastWarp[l] /\ lastIssue[v] <= lastIssue[w]
  BY <1>1, <1>2
<1>3. offering # {} => Turns(l, able) # {}
  <2>1. Warp \subseteq Nat /\ IsFiniteSet(Warp) /\ Now \in Nat
    <3>1. setup \in Setup
      BY DEF QInv, Queued, Typed
    <3> QED BY <3>1, Given, FS_CardinalityType DEF Now
  <2>2. offering \subseteq Warp
    BY Places DEF QInv, Residence
  <2>3. offering \in SUBSET Nat /\ IsFiniteSet(offering)
    <3> HIDE DEF offering
    <3> QED BY <2>1, <2>2, FS_Subset
  <2>4. \A w \in offering : lastIssue[w] \in Int
    <3>1. \A w \in Warp : lastIssue[w] \in 0..Now
      BY DEF QInv, TypedPolicy
    <3> HIDE DEF offering
    <3> QED BY <2>1, <2>2, <3>1
  <2> HIDE DEF offering
  <2>5. offering # {} => \E m \in offering : \A w \in offering : lastIssue[m] <= lastIssue[w]
    BY <2>3, <2>4, Extremes
  <2> QED BY <1>1, <2>5
<1> QED BY <1>2, <1>3

LEMMA GreedyStep ==
    ASSUME AllUntied, QInv, GreedyInv, NoReturn, setup.policy # "RR", Next
    PROVE  GreedyInv' /\ NoReturn'
<1>1. Queued /\ TypedPolicy /\ Residence /\ Cardinality(ResidentBlocks) <= setup.maxResident
  BY DEF QInv
<1>2. /\ Typed /\ setup \in Setup /\ Now \in Nat /\ \A w \in Warp : LaneOf(w) \in Lane /\ w \in Nat
      /\ lastIssue \in [Warp -> 0..Now] /\ \A w \in Warp : lastIssue[w] \in Nat
      /\ holder \in [Lane -> Warp \union {NoWarp}] /\ lastWarp \in [Lane -> Warp \union {NoWarp}]
      /\ passed \in [Warp -> SUBSET Warp]
  <2>1. Typed /\ setup \in Setup
    BY <1>1 DEF Queued, Typed
  <2>2. Now \in Nat /\ \A w \in Warp : LaneOf(w) \in Lane /\ w \in Nat
    BY <2>1, Given, FS_CardinalityType DEF Now
  <2>3. /\ lastIssue \in [Warp -> 0..Now] /\ holder \in [Lane -> Warp \union {NoWarp}]
        /\ lastWarp \in [Lane -> Warp \union {NoWarp}] /\ passed \in [Warp -> SUBSET Warp]
    BY <1>1 DEF TypedPolicy
  <2> QED BY <2>1, <2>2, <2>3
<1>3. ASSUME setup' = setup
      PROVE  Warp' = Warp /\ Now' = Now /\ (\A l \in Lane : LaneWarps(l)' = LaneWarps(l))
             /\ \A w : LaneOf(w)' = LaneOf(w)
  BY <1>3, Fixed DEF LaneOf
<1>4. ASSUME NEW able, IssueOne(able) PROVE GreedyInv' /\ NoReturn'
  <2>1. PICK v \in Turns(turn, able) :
           /\ v \in Warp /\ v \in LaneWarps(turn) /\ v \in Elems(resident[turn]) /\ Offers(v, able)
           /\ Issue({v}, [u \in {v} |-> First(Offer(v, able))])
           /\ holder' = [holder EXCEPT ![turn] = v] /\ passed' = PassedBy(turn, v, able)
    BY <1>1, <1>4, OneStep
  <2>2. PICK l \in Lane : l = turn
    BY <1>4 DEF IssueOne
  <2>3. setup' = setup /\ turn' = l + 1 /\ LaneOf(v) = l
        /\ lastWarp' = [m \in Lane |-> IF \E w \in {v} : LaneOf(w) = m
                                       THEN CHOOSE w \in {v} : LaneOf(w) = m ELSE lastWarp[m]]
        /\ lastIssue' = [w \in Warp |-> IF w \in {v} THEN Now ELSE lastIssue[w]]
    BY <1>4, <2>1, <2>2 DEF IssueOne, Issue, LaneWarps
  <2>4. /\ holder'[l] = v /\ lastWarp'[l] = v /\ lastIssue'[v] = Now
        /\ \A m \in Lane : m # l => holder'[m] = holder[m] /\ lastWarp'[m] = lastWarp[m]
        /\ \A w \in Warp : w # v => lastIssue'[w] = lastIssue[w]
    BY <1>2, <2>1, <2>2, <2>3
  <2>5. \/ v = lastWarp[l]
        \/ \A w \in Elems(resident[l]) :
              Offers(w, able) => w # lastWarp[l] /\ lastIssue[v] <= lastIssue[w]
    BY <2>1, <2>2, OldestTurn
  <2>6. ASSUME NEW w \in Warp, LaneOf(w) = l
        PROVE  v \notin passed'[w] /\ \A p \in passed'[w] : p \in Warp /\ LaneOf(p) = l /\ lastIssue[w] < lastIssue[p]
    <3>1. passed'[w] = IF w = v \/ ~Offers(w, able) THEN {}
                       ELSE passed[w] \union ({holder[l]} \ {v, NoWarp})
      BY <2>1, <2>2, <2>6 DEF PassedBy
    <3>2. CASE w = v \/ ~Offers(w, able)
      BY <3>1, <3>2
    <3>3. CASE w # v /\ Offers(w, able)
      <4>1. w \in Elems(resident[l])
        <5>1. Residing(w)
          BY <1>1, <3>3, OfferedEntry
        <5> QED BY <2>6, <5>1 DEF Residing
      <4>2. w \in LaneWarps(l)
        BY <2>6 DEF LaneWarps
      <4>3. holder[l] = NoWarp => passed[w] = {}
        BY <4>2 DEF GreedyInv
      <4>4. \A p \in passed[w] : p \in Warp /\ LaneOf(p) = l /\ lastIssue[w] < lastIssue[p]
        BY <1>2, <2>6 DEF GreedyInv
      <4>5. holder[l] \notin passed[w]
        BY <2>6 DEF NoReturn
      <4>6. CASE holder[l] = NoWarp
        BY <3>1, <3>3, <4>3, <4>6
      <4>7. CASE holder[l] # NoWarp /\ v = lastWarp[l]
        <5>1. holder[l] = v
          BY <4>7 DEF GreedyInv
        <5> QED BY <3>1, <3>3, <4>4, <4>5, <5>1
      <4>8. CASE holder[l] # NoWarp /\ v # lastWarp[l]
        <5>1. /\ lastWarp[l] = holder[l] /\ LaneOf(holder[l]) = l
              /\ \A u \in LaneWarps(l) \ {holder[l]} : lastIssue[u] < lastIssue[holder[l]]
          BY <4>8 DEF GreedyInv
        <5>2. w # holder[l] /\ lastIssue[v] <= lastIssue[w]
          BY <2>5, <3>3, <4>1, <4>8, <5>1
        <5>3. lastIssue[w] < lastIssue[holder[l]] /\ holder[l] \in Warp
          BY <1>2, <4>2, <4>8, <5>1, <5>2
        <5>4. v \notin passed[w]
          <6>1. \A p \in passed[w] : lastIssue[w] < lastIssue[p]
            BY <4>4
          <6>2. ~(lastIssue[w] < lastIssue[v])
            BY <1>2, <2>1, <5>2
          <6> QED BY <6>1, <6>2
        <5> QED BY <3>1, <3>3, <4>4, <5>1, <5>3, <5>4
      <4> QED BY <4>6, <4>7, <4>8
    <3> QED BY <3>2, <3>3
  <2>7. \A w \in Warp : LaneOf(w) # l => passed'[w] = passed[w] /\ w # v
    BY <2>1, <2>2, <2>3 DEF PassedBy
  <2>8. \A w \in Warp : LaneOf(w) >= l => lastIssue[w] < Now
    BY <2>2 DEF GreedyInv
  <2>9. \A w \in Warp : LaneOf(w) >= l + 1 => lastIssue'[w] < Now
    <3>1. SUFFICES ASSUME NEW w \in Warp, LaneOf(w) >= l + 1 PROVE lastIssue'[w] < Now
      OBVIOUS
    <3>2. LaneOf(w) \in Int /\ l \in Int
      BY <1>2 DEF Lane
    <3>3. w # v /\ LaneOf(w) >= l
      BY <2>3, <3>1, <3>2
    <3> QED BY <2>4, <2>8, <3>3
  <2>10. \A m \in Lane : holder'[m] # NoWarp =>
            /\ lastWarp'[m] = holder'[m] /\ LaneOf(holder'[m]) = m
            /\ \A w \in LaneWarps(m) \ {holder'[m]} : lastIssue'[w] < lastIssue'[holder'[m]]
    <3>1. SUFFICES ASSUME NEW m \in Lane, holder'[m] # NoWarp
                   PROVE  /\ lastWarp'[m] = holder'[m] /\ LaneOf(holder'[m]) = m
                          /\ \A w \in LaneWarps(m) \ {holder'[m]} : lastIssue'[w] < lastIssue'[holder'[m]]
      OBVIOUS
    <3>2. CASE m = l
      <4>1. \A w \in LaneWarps(l) : w \in Warp /\ LaneOf(w) >= l
        BY <1>2 DEF LaneWarps, Lane
      <4>2. \A w \in LaneWarps(l) \ {v} : lastIssue'[w] < lastIssue'[v]
        BY <2>4, <2>8, <4>1
      <4> QED BY <2>3, <2>4, <3>2, <4>2
    <3>3. CASE m # l
      <4>1. holder'[m] = holder[m] /\ lastWarp'[m] = lastWarp[m] /\ holder[m] # NoWarp
        BY <2>4, <3>1, <3>3
      <4>2. /\ lastWarp[m] = holder[m] /\ LaneOf(holder[m]) = m
            /\ \A w \in LaneWarps(m) \ {holder[m]} : lastIssue[w] < lastIssue[holder[m]]
        BY <4>1 DEF GreedyInv
      <4>3. holder[m] \in Warp /\ holder[m] # v /\ \A w \in LaneWarps(m) : w \in Warp /\ w # v
        BY <1>2, <2>3, <3>3, <4>1, <4>2 DEF LaneWarps
      <4>4. \A w \in LaneWarps(m) \ {holder[m]} : lastIssue'[w] < lastIssue'[holder[m]]
        BY <2>4, <4>2, <4>3
      <4> QED BY <4>1, <4>2, <4>4
    <3> QED BY <3>2, <3>3
  <2>11. \A m \in Lane : holder'[m] = NoWarp => \A w \in LaneWarps(m) : passed'[w] = {}
    <3>1. SUFFICES ASSUME NEW m \in Lane, holder'[m] = NoWarp, NEW w \in LaneWarps(m) PROVE passed'[w] = {}
      OBVIOUS
    <3>2. m # l
      <4>1. v # NoWarp
        BY <1>2, <2>1 DEF NoWarp
      <4> QED BY <2>4, <3>1, <4>1
    <3>3. holder[m] = NoWarp /\ w \in Warp /\ LaneOf(w) = m
      BY <2>4, <3>1, <3>2 DEF LaneWarps
    <3>4. passed[w] = {}
      BY <3>1, <3>3 DEF GreedyInv
    <3> QED BY <2>7, <3>2, <3>3, <3>4
  <2>12. \A w \in Warp : \A p \in passed'[w] : LaneOf(p) = LaneOf(w) /\ lastIssue'[w] < lastIssue'[p]
    <3>1. SUFFICES ASSUME NEW w \in Warp, NEW p \in passed'[w]
                   PROVE  LaneOf(p) = LaneOf(w) /\ lastIssue'[w] < lastIssue'[p]
      OBVIOUS
    <3>2. CASE LaneOf(w) = l
      <4>1. v \notin passed'[w] /\ p \in Warp /\ LaneOf(p) = l /\ lastIssue[w] < lastIssue[p]
        BY <2>6, <3>1, <3>2
      <4>2. w # v
        <5>1. passed'[v] = {}
          BY <2>1, <2>2, <2>3 DEF PassedBy
        <5> QED BY <3>1, <5>1
      <4> QED BY <2>4, <3>1, <3>2, <4>1, <4>2
    <3>3. CASE LaneOf(w) # l
      <4>1. p \in passed[w] /\ w # v
        BY <2>7, <3>1, <3>3
      <4>2. p \in Warp /\ LaneOf(p) = LaneOf(w) /\ lastIssue[w] < lastIssue[p]
        BY <1>2, <4>1 DEF GreedyInv
      <4>3. p # v
        BY <2>3, <3>3, <4>2
      <4> QED BY <2>4, <4>1, <4>2, <4>3
    <3> QED BY <3>2, <3>3
  <2>13. GreedyInv'
    BY <1>3, <2>3, <2>9, <2>10, <2>11, <2>12 DEF GreedyInv, LaneOf
  <2>14. \A w \in Warp : holder'[LaneOf(w)] \notin passed'[w]
    BY <1>2, <2>4, <2>6, <2>7 DEF NoReturn
  <2>15. NoReturn'
    BY <1>3, <2>3, <2>14 DEF NoReturn, LaneOf
  <2> QED BY <2>13, <2>15
<1>5. ASSUME NEW able, Stall(able) PROVE GreedyInv' /\ NoReturn'
  <2>1. /\ turn \in Lane /\ turn' = turn + 1 /\ Turns(turn, able) = {} /\ passed' = PassedBy(turn, NoWarp, able)
        /\ UNCHANGED <<setup, lastWarp, lastIssue, holder>>
    BY <1>5 DEF Stall, policyVars, blockVars
  <2>2. \A w \in Elems(resident[turn]) : ~Offers(w, able)
    BY <2>1, OldestTurn
  <2>3. \A w \in Warp : passed'[w] = {} \/ passed'[w] = passed[w]
    BY <1>1, <2>1, <2>2, IdleHistory
  <2>4. \A w \in Warp : LaneOf(w) >= turn' => lastIssue[w] < Now
    <3>1. \A w \in Warp : LaneOf(w) \in Int /\ turn \in Int
      BY <1>2, <2>1 DEF Lane
    <3>2. \A w \in Warp : LaneOf(w) >= turn + 1 => LaneOf(w) >= turn
      BY <3>1
    <3> QED BY <2>1, <3>2 DEF GreedyInv
  <2>5. GreedyInv'
    <3>1. \A l \in Lane : holder[l] = NoWarp => \A w \in LaneWarps(l) : passed'[w] = {}
      BY <2>3 DEF GreedyInv, LaneWarps
    <3>2. \A w \in Warp : \A p \in passed'[w] : LaneOf(p) = LaneOf(w) /\ lastIssue[w] < lastIssue[p]
      BY <2>3 DEF GreedyInv
    <3>3. \A l \in Lane : holder[l] # NoWarp =>
             /\ lastWarp[l] = holder[l] /\ LaneOf(holder[l]) = l
             /\ \A w \in LaneWarps(l) \ {holder[l]} : lastIssue[w] < lastIssue[holder[l]]
      BY DEF GreedyInv
    <3> QED BY <1>3, <2>1, <2>4, <3>1, <3>2, <3>3 DEF GreedyInv, LaneOf
  <2>6. NoReturn'
    BY <1>3, <2>1, <2>3 DEF NoReturn, LaneOf
  <2> QED BY <2>5, <2>6
<1>6. ASSUME NEW n \in Node, Finish(n) PROVE GreedyInv' /\ NoReturn'
  <2>1. UNCHANGED <<setup, turn, lastWarp, lastIssue, holder, passed>>
    BY <1>6 DEF Finish, policyVars, blockVars, history
  <2> QED BY <1>3, <2>1 DEF GreedyInv, NoReturn, LaneOf
<1>7. CASE EndCycle
  <2>1. turn' = 0 /\ setup' = setup /\ lastWarp' = lastWarp /\ lastIssue' = [w \in Warp |-> Rank(w)]
    BY <1>7 DEF EndCycle
  <2>2. \/ UNCHANGED <<holder, passed>>
        \/ holder' = [l \in Lane |-> NoWarp] /\ passed' = [w \in Warp |-> {}]
    BY <1>1, <1>7, CycleResidence
  <2>3. /\ \A w \in Warp : lastIssue'[w] < Now
        /\ \A w, p \in Warp : LaneOf(p) = LaneOf(w) /\ lastIssue[w] < lastIssue[p]
                              => lastIssue'[w] < lastIssue'[p]
    <3>1. \A w \in Warp : /\ Rank(w) < Now
                          /\ \A p \in Warp : LaneOf(p) = LaneOf(w) /\ lastIssue[w] < lastIssue[p] => Rank(w) < Rank(p)
      BY <1>2, Ranking
    <3> QED BY <2>1, <3>1
  <2>4. CASE UNCHANGED <<holder, passed>>
    <3>1. \A l \in Lane : holder[l] # NoWarp =>
             /\ lastWarp[l] = holder[l] /\ LaneOf(holder[l]) = l
             /\ \A w \in LaneWarps(l) \ {holder[l]} : lastIssue'[w] < lastIssue'[holder[l]]
      <4>1. SUFFICES ASSUME NEW l \in Lane, holder[l] # NoWarp
                     PROVE  /\ lastWarp[l] = holder[l] /\ LaneOf(holder[l]) = l
                            /\ \A w \in LaneWarps(l) \ {holder[l]} : lastIssue'[w] < lastIssue'[holder[l]]
        OBVIOUS
      <4>2. /\ lastWarp[l] = holder[l] /\ LaneOf(holder[l]) = l /\ holder[l] \in Warp
            /\ \A w \in LaneWarps(l) \ {holder[l]} : lastIssue[w] < lastIssue[holder[l]]
        BY <1>2, <4>1 DEF GreedyInv
      <4> QED BY <2>3, <4>2 DEF LaneWarps
    <3>2. \A w \in Warp : \A p \in passed[w] : LaneOf(p) = LaneOf(w) /\ lastIssue'[w] < lastIssue'[p]
      <4>1. \A w \in Warp : \A p \in passed[w] : p \in Warp
        BY <1>2
      <4> QED BY <2>3, <4>1 DEF GreedyInv
    <3>3. \A l \in Lane : holder[l] = NoWarp => \A w \in LaneWarps(l) : passed[w] = {}
      BY DEF GreedyInv
    <3>4. GreedyInv'
      BY <1>3, <2>1, <2>3, <2>4, <3>1, <3>2, <3>3 DEF GreedyInv, LaneOf
    <3>5. NoReturn'
      BY <1>3, <2>1, <2>4 DEF NoReturn, LaneOf
    <3> QED BY <3>4, <3>5
  <2>5. CASE holder' = [l \in Lane |-> NoWarp] /\ passed' = [w \in Warp |-> {}]
    <3>1. NoReturn'
      BY <1>2, <2>1, <2>5, ResetHistory
    <3>2. \A l \in Lane : holder'[l] = NoWarp
      BY <2>5
    <3>3. \A w \in Warp : passed'[w] = {}
      BY <2>5
    <3>4. GreedyInv'
      BY <1>3, <2>1, <2>3, <3>2, <3>3 DEF GreedyInv, LaneOf, LaneWarps
    <3> QED BY <3>1, <3>4
  <2> QED BY <2>2, <2>4, <2>5
<1> QED BY <1>4, <1>5, <1>6, <1>7, NoGroups DEF Next, Turn

TurnInv == QInv /\ NoReturn /\ (IF setup.policy = "RR" THEN RoundInv ELSE GreedyInv)

\* With round robin, and with greedy-then-oldest where every operation is issued by its own
\* scheduler, a warp that gave its turn away does not have it back before a warp that could
\* issue all along, for any number of warps and whatever the units refuse.
THEOREM NoneOvertakenTwice ==
    ASSUME AllUntied
    PROVE  Spec => []NoReturn
<1>1. Init => TurnInv
  <2>1. SUFFICES ASSUME Init PROVE TurnInv
    OBVIOUS
  <2>2. QInv
    BY <2>1, InitQueues, InitRest DEF QInv
  <2>3. setup \in Setup /\ holder = [l \in Lane |-> NoWarp] /\ passed = [w \in Warp |-> {}]
        /\ lastIssue = [w \in Warp |-> 0]
    BY <2>1 DEF Init
  <2>4. Now \in Nat /\ IsFiniteSet(Warp) /\ \A w \in Warp : LaneOf(w) \in Lane
    BY <2>3, Given, FS_CardinalityType DEF Now
  <2>5. \A w \in Warp : 0 < Now
    BY <2>4, FS_EmptySet DEF Now
  <2>6. NoReturn /\ RoundInv
    BY <2>3, <2>4 DEF NoReturn, RoundInv
  <2>7. GreedyInv
    <3>1. \A w \in Warp : lastIssue[w] < Now /\ passed[w] = {}
      BY <2>3, <2>5
    <3>2. \A l \in Lane : holder[l] = NoWarp
      BY <2>3
    <3> QED BY <3>1, <3>2 DEF GreedyInv, LaneWarps
  <2> QED BY <2>2, <2>6, <2>7 DEF TurnInv
<1>2. TurnInv /\ [Next]_vars => TurnInv'
  <2>1. ASSUME TurnInv, Next PROVE TurnInv'
    <3>1. QInv' /\ setup' = setup
      <4>1. setup' = setup
        BY <2>1 DEF Next, Turn, IssueGroup, IssueOne, Stall, Finish, EndCycle, Issue
      <4> QED BY <2>1, <4>1, QStep DEF TurnInv
    <3>2. CASE setup.policy = "RR"
      BY <2>1, <3>1, <3>2, RoundStep DEF TurnInv
    <3>3. CASE setup.policy # "RR"
      BY <2>1, <3>1, <3>3, GreedyStep DEF TurnInv
    <3> QED BY <3>2, <3>3
  <2>2. ASSUME TurnInv, UNCHANGED vars PROVE TurnInv'
    <3>1. UNCHANGED <<setup, turn, ready, sub, early, finished, lastWarp, lastIssue, lastPipe, cursor,
                      tmaWait, resident, waiting, holder, passed>>
      BY <2>2 DEF vars, nodeVars, policyVars, blockVars, history
    <3>2. QInv'
      BY <2>2, QFixed DEF TurnInv
    <3>3. setup.policy = "RR" => RoundInv' /\ NoReturn'
      BY <2>2, <3>1, SameRounds DEF TurnInv
    <3>4. setup.policy # "RR" => GreedyInv' /\ NoReturn'
      <4>1. \A w : LaneOf(w)' = LaneOf(w)
        BY DEF LaneOf
      <4> QED BY <2>2, <3>1, <4>1, Fixed DEF TurnInv, GreedyInv, NoReturn, LaneOf
    <3> QED BY <3>1, <3>2, <3>3, <3>4 DEF TurnInv
  <2> QED BY <2>1, <2>2
<1>3. TurnInv => NoReturn
  BY DEF TurnInv
<1> QED BY <1>1, <1>2, <1>3, PTL DEF Spec
---------------------------------------------------------------------------
(* Warp groups                                                             *)

Even ==
    \A w \in Nat : w % 4 = 0 => \A op \in GroupOps : \A v \in w..w + 3 :
        Cardinality(GroupSubops(v, op)) = Cardinality(GroupSubops(w, op))
Together ==
    setup \in Chained => \A n, m \in Node :
        IsGroup(n) /\ IsGroup(m) /\ dag[n].mma = dag[m].mma => sub[n] = sub[m]

LEMMA SubopPairs ==
    ASSUME NEW v, NEW op, NEW x
    PROVE  x \in GroupSubops(v, op) <=>
             \E n \in Node : /\ dag[n].warp = v /\ dag[n].op = op
                             /\ \E k \in 1..sub[n] : x = <<n, k>>
BY DEF GroupSubops

LEMMA FewSubops ==
    ASSUME Typed, NEW v, NEW op
    PROVE  IsFiniteSet(GroupSubops(v, op))
<1> DEFINE S == {m \in Node : dag[m].warp = v /\ dag[m].op = op}
           P(n) == {n} \X (1..sub[n])
<1>1. IsFiniteSet(Node) /\ sub \in [Node -> Nat]
  BY Given DEF Typed
<1>2. IsFiniteSet(S)
  BY <1>1, FS_Subset
<1>3. \A n \in S : IsFiniteSet(P(n))
  <2>1. SUFFICES ASSUME NEW n \in S PROVE IsFiniteSet(P(n))
    OBVIOUS
  <2>2. sub[n] \in Int
    BY <1>1
  <2>3. IsFiniteSet(1..sub[n])
    BY <2>2, FS_Interval
  <2>4. IsFiniteSet({n})
    <3>1. IsFiniteSet({} \union {n})
      BY FS_EmptySet, FS_AddElement
    <3> QED BY <3>1
  <2> QED BY <2>3, <2>4, FS_Product
<1>4. IsFiniteSet({P(n) : n \in S})
  <2> DEFINE f == [n \in S |-> P(n)]
  <2>1. f \in Surjection(S, {P(n) : n \in S})
    BY DEF Surjection
  <2> HIDE DEF f, S, P
  <2> QED BY <1>2, <2>1, FS_Surjection
<1>5. \A Q \in {P(n) : n \in S} : IsFiniteSet(Q)
  BY <1>3
<1>6. GroupSubops(v, op) = UNION {P(n) : n \in S}
  BY DEF GroupSubops
<1> HIDE DEF S, P
<1> QED BY <1>4, <1>5, <1>6, FS_UNION

LEMMA OneMore ==
    ASSUME Typed, setup' = setup, NEW v, NEW op, NEW n \in Node, dag[n].warp = v, dag[n].op = op,
           sub'[n] = sub[n] + 1,
           \A m \in Node : dag[m].warp = v /\ dag[m].op = op /\ m # n => sub'[m] = sub[m]
    PROVE  Cardinality(GroupSubops(v, op)') = Cardinality(GroupSubops(v, op)) + 1
<1>1. Node' = Node /\ dag' = dag /\ sub \in [Node -> Nat]
  BY Fixed DEF Typed
<1> DEFINE x == <<n, sub[n] + 1>>
<1>2. x \notin GroupSubops(v, op)
  <2>1. SUFFICES ASSUME x \in GroupSubops(v, op) PROVE FALSE
    OBVIOUS
  <2>2. PICK m \in Node : \E k \in 1..sub[m] : x = <<m, k>>
    BY <2>1, SubopPairs
  <2>3. PICK k \in 1..sub[m] : x = <<m, k>>
    BY <2>2
  <2>4. m = n /\ k = sub[n] + 1 /\ sub[n] \in Nat
    BY <1>1, <2>3
  <2> QED BY <2>3, <2>4
<1>3. 1..sub'[n] = (1..sub[n]) \union {sub[n] + 1}
  <2>1. sub[n] \in Nat
    BY <1>1
  <2> QED BY <2>1
<1>4. ASSUME NEW y PROVE y \in GroupSubops(v, op)' <=> y \in GroupSubops(v, op) \union {x}
  <2>1. y \in GroupSubops(v, op)' <=>
          \E m \in Node : /\ dag[m].warp = v /\ dag[m].op = op
                          /\ \E k \in 1..sub'[m] : y = <<m, k>>
    BY <1>1 DEF GroupSubops
  <2>2. ASSUME y \in GroupSubops(v, op)' PROVE y \in GroupSubops(v, op) \union {x}
    <3>1. PICK m \in Node : /\ dag[m].warp = v /\ dag[m].op = op
                            /\ \E k \in 1..sub'[m] : y = <<m, k>>
      BY <2>1, <2>2
    <3>2. PICK k \in 1..sub'[m] : y = <<m, k>>
      BY <3>1
    <3>3. CASE m # n
      BY <3>1, <3>2, <3>3, SubopPairs
    <3>4. CASE m = n
      <4>1. k \in 1..sub[n] \/ k = sub[n] + 1
        BY <1>3, <3>2, <3>4
      <4> QED BY <3>1, <3>2, <3>4, <4>1, SubopPairs
    <3> QED BY <3>3, <3>4
  <2>3. ASSUME y \in GroupSubops(v, op) PROVE y \in GroupSubops(v, op)'
    <3>1. PICK m \in Node : /\ dag[m].warp = v /\ dag[m].op = op
                            /\ \E k \in 1..sub[m] : y = <<m, k>>
      BY <2>3, SubopPairs
    <3>2. PICK k \in 1..sub[m] : y = <<m, k>>
      BY <3>1
    <3>3. k \in 1..sub'[m]
      BY <1>3, <3>1, <3>2
    <3> QED BY <2>1, <3>1, <3>2, <3>3
  <2>4. x \in GroupSubops(v, op)'
    <3>1. sub[n] + 1 \in 1..sub'[n]
      BY <1>3
    <3> QED BY <1>1, <3>1 DEF GroupSubops
  <2> HIDE DEF x
  <2> QED BY <2>2, <2>3, <2>4
<1>5. GroupSubops(v, op)' = GroupSubops(v, op) \union {x}
  BY <1>4
<1> HIDE DEF x
<1> QED BY <1>2, <1>5, FewSubops, FS_AddElement

LEMMA NoMore ==
    ASSUME setup' = setup, NEW v, NEW op,
           \A m \in Node : dag[m].warp = v /\ dag[m].op = op => sub'[m] = sub[m]
    PROVE  GroupSubops(v, op)' = GroupSubops(v, op)
<1>1. Node' = Node /\ dag' = dag
  BY Fixed
<1>2. ASSUME NEW y PROVE y \in GroupSubops(v, op)' <=> y \in GroupSubops(v, op)
  <2>1. y \in GroupSubops(v, op)' <=>
          \E m \in Node : /\ dag[m].warp = v /\ dag[m].op = op
                          /\ \E k \in 1..sub'[m] : y = <<m, k>>
    BY <1>1 DEF GroupSubops
  <2> QED BY <2>1, SubopPairs
<1> QED BY <1>2

\* A step that issues the four heads of the group led by warp w, MMAs of operation op.
TakesHeads(w, op, head) ==
    /\ w \in Warp /\ w % 4 = 0 /\ op \in GroupOps /\ head \in [w..w + 3 -> Node]
    /\ \A v \in w..w + 3 : /\ v \in Warp /\ head[v] = ready[v][1]
                           /\ dag[head[v]].warp = v /\ dag[head[v]].op = op
                           /\ Startable(head[v])
    /\ \A n \in Node : sub'[n] = IF \E v \in w..w + 3 : n = head[v]
                                 THEN sub[n] + 1 ELSE sub[n]

LEMMA GroupHeads ==
    ASSUME QInv, NEW able, IssueGroup(able)
    PROVE  \E w, op, head : TakesHeads(w, op, head)
<1>1. Queued /\ Residence
  BY DEF QInv
<1>2. PICK w \in Warp : /\ GroupReady(w, able) /\ w..w + 3 \in SUBSET Warp
                        /\ Issue(w..w + 3, [v \in w..w + 3 |-> 1])
                        /\ \A v \in w..w + 3 : [u \in w..w + 3 |-> 1][v] \in DOMAIN ready[v]
  BY <1>1, GroupStep
<1> DEFINE W == w..w + 3  at == [v \in W |-> 1]  head == [v \in W |-> ready[v][1]]
<1>3. turn' \in 0..4
  BY DEF IssueGroup
<1>4. /\ W \in SUBSET Warp /\ Issue(W, at) /\ \A v \in W : at[v] \in DOMAIN ready[v]
      /\ \A v \in W : at[v] = 1
  BY <1>2
<1>5. \A n \in Node : sub'[n] = IF \E v \in W : n = ready[v][at[v]] THEN sub[n] + 1 ELSE sub[n]
  <2> HIDE DEF W, at
  <2> QED BY <1>1, <1>3, <1>4, IssueQueues
<1>6. \A n \in Node : sub'[n] = IF \E v \in W : n = head[v] THEN sub[n] + 1 ELSE sub[n]
  <2>1. \A v \in W : head[v] = ready[v][at[v]]
    BY <1>4
  <2> HIDE DEF W, at, head
  <2> QED BY <1>5, <2>1
<1>7. \A v \in W : Queue(v)[1] = head[v] /\ v \in Warp
  <2>1. \A v \in W : v \in Warp /\ Queue(v) = ready[v]
    BY <1>1, <1>4, AllLive
  <2> QED BY <2>1
<1>8. ASSUME NEW v \in W
      PROVE  head[v] \in Node /\ dag[head[v]].warp = v /\ Startable(head[v])
  <2>1. v \in Warp /\ 1 \in DOMAIN ready[v] /\ head[v] = ready[v][1]
    BY <1>4
  <2>2. head[v] \in Elems(ready[v])
    BY <2>1 DEF Elems
  <2> HIDE DEF head
  <2> QED BY <1>1, <2>1, <2>2 DEF Queued, Entries
<1>9. PICK op \in GroupOps : \A v \in W : dag[head[v]].op = op
  <2>1. w \in W
    <3>1. w \in Nat
      BY <1>1, Given DEF Queued, Typed
    <3> QED BY <3>1
  <2>2. IsGroup(Queue(w)[1]) /\ \A v \in W : dag[Queue(v)[1]].op = dag[Queue(w)[1]].op
    BY <1>2 DEF GroupReady
  <2>3. dag[Queue(w)[1]].op \in GroupOps
    BY <2>2 DEF IsGroup
  <2>4. \A v \in W : dag[head[v]].op = dag[Queue(w)[1]].op
    BY <1>7, <2>2
  <2> QED BY <2>3, <2>4
<1>10. w % 4 = 0
  BY <1>2 DEF GroupReady
<1>11. head \in [W -> Node] /\ \A v \in W : head[v] = ready[v][1]
  BY <1>8
<1> HIDE DEF W, head
<1>12. \A v \in W : /\ v \in Warp /\ head[v] = ready[v][1]
                    /\ dag[head[v]].warp = v /\ dag[head[v]].op = op /\ Startable(head[v])
  BY <1>7, <1>8, <1>9, <1>11
<1>13. TakesHeads(w, op, head)
  BY <1>6, <1>9, <1>10, <1>11, <1>12 DEF W, TakesHeads
<1> QED BY <1>13

\* No scheduler issues an MMA of a group by itself.
LEMMA GroupsOnly ==
    ASSUME AllGrouped, QInv, NEW able, IssueOne(able)
    PROVE  \A n \in Node : IsGroup(n) => sub'[n] = sub[n]
<1>1. Queued /\ TypedPolicy /\ Residence /\ setup \in Setup
  BY DEF QInv, Queued, Typed
<1>2. PICK w \in Turns(turn, able) :
         /\ w \in Warp /\ Offers(w, able)
         /\ Issue({w}, [v \in {w} |-> First(Offer(w, able))])
         /\ \A v \in {w} : [u \in {w} |-> First(Offer(w, able))][v] \in DOMAIN ready[v]
  BY <1>1, OneStep
<1> DEFINE W == {w}  at == [v \in W |-> First(Offer(w, able))]  m == ready[w][at[w]]
<1>3. turn' \in 0..4
  BY DEF IssueOne, Lane
<1>4. W \in SUBSET Warp /\ Issue(W, at) /\ \A v \in W : at[v] \in DOMAIN ready[v]
  BY <1>2
<1>5. \A n \in Node : sub'[n] = IF \E v \in W : n = ready[v][at[v]] THEN sub[n] + 1 ELSE sub[n]
  <2> HIDE DEF W, at
  <2> QED BY <1>1, <1>3, <1>4, IssueQueues
<1>6. \A n \in Node : n # m => sub'[n] = sub[n]
  BY <1>5
<1>7. \A n \in Node : IsGroup(n) => ~setup.o2 /\ GroupSize(n) = 4
  BY <1>1 DEF AllGrouped, WellGrouped, Mmas, FirstOfFour, IsGroup, GroupSize, dag, Node
<1>8. ~IsGroup(m)
  <2>1. SUFFICES ASSUME IsGroup(m) PROVE FALSE
    OBVIOUS
  <2>2. m \in Node
    <3>1. ready[w] \in Seq(Node) /\ at[w] \in DOMAIN ready[w]
      BY <1>2, AllLive, <1>1
    <3> HIDE DEF at
    <3> QED BY <3>1
  <2>3. ~setup.o2 /\ GroupSize(m) = 4
    <3> HIDE DEF m
    <3> QED BY <1>7, <2>1, <2>2
  <2>4. Offer(w, able) = {1} /\ HeadIssues(Queue(w)[1], able)
    BY <1>2, <2>3 DEF Offers, Offer
  <2>5. First(Offer(w, able)) = 1
    BY <2>4 DEF First
  <2>6. at[w] = 1 /\ Queue(w) = ready[w]
    BY <1>1, <1>2, <2>5, AllLive
  <2>7. m = Queue(w)[1]
    BY <2>6
  <2>8. HeadIssues(m, able) /\ dag[m].op \in GroupOps
    <3> HIDE DEF m
    <3> QED BY <2>1, <2>4, <2>7 DEF IsGroup
  <2> HIDE DEF m
  <2> QED BY <2>1, <2>3, <2>8 DEF HeadIssues, GroupOps
<1> HIDE DEF m
<1> QED BY <1>6, <1>8

\* Where no MMA is issued the groups stay even.
LEMMA SameGroups ==
    ASSUME Even, Together, setup' = setup, \A n \in Node : IsGroup(n) => sub'[n] = sub[n]
    PROVE  Even' /\ Together'
<1>1. Node' = Node /\ dag' = dag
  BY Fixed
<1>2. ASSUME NEW v, NEW op \in GroupOps PROVE GroupSubops(v, op)' = GroupSubops(v, op)
  BY NoMore DEF IsGroup
<1>3. Even'
  <2>1. SUFFICES ASSUME NEW w \in Nat, w % 4 = 0, NEW op \in GroupOps, NEW v \in w..w + 3
                 PROVE  Cardinality(GroupSubops(v, op)') = Cardinality(GroupSubops(w, op)')
    BY DEF Even
  <2>2. Cardinality(GroupSubops(v, op)) = Cardinality(GroupSubops(w, op))
    BY <2>1 DEF Even
  <2> QED BY <1>2, <2>2
<1>4. Together'
  BY <1>1 DEF Together, IsGroup
<1> QED BY <1>3, <1>4

\* A group issue adds one to the count of each of the four warps.
LEMMA EvenStep ==
    ASSUME Typed, Even, setup' = setup, NEW w, NEW op, NEW head, TakesHeads(w, op, head)
    PROVE  Even'
<1> DEFINE W == w..w + 3
<1>1. /\ Node' = Node /\ dag' = dag /\ sub \in [Node -> Nat] /\ w \in Nat /\ w % 4 = 0
      /\ op \in GroupOps
  BY Fixed, Given DEF TakesHeads, Typed
<1>2. \A v \in W : head[v] \in Node /\ dag[head[v]].warp = v /\ dag[head[v]].op = op
  BY DEF TakesHeads
<1>3. \A n \in Node : sub'[n] = IF \E v \in W : n = head[v] THEN sub[n] + 1 ELSE sub[n]
  BY DEF TakesHeads
<1>4. ASSUME NEW v \in W
      PROVE  Cardinality(GroupSubops(v, op)') = Cardinality(GroupSubops(v, op)) + 1
  <2>1. sub'[head[v]] = sub[head[v]] + 1
    BY <1>2, <1>3
  <2>2. \A m \in Node : dag[m].warp = v /\ dag[m].op = op /\ m # head[v] => sub'[m] = sub[m]
    BY <1>2, <1>3
  <2> HIDE DEF W
  <2> QED BY <1>2, <2>1, <2>2, OneMore
<1>5. ASSUME NEW v, NEW o, v \notin W \/ o # op
      PROVE  GroupSubops(v, o)' = GroupSubops(v, o)
  <2>1. \A m \in Node : dag[m].warp = v /\ dag[m].op = o => sub'[m] = sub[m]
    BY <1>2, <1>3, <1>5
  <2> QED BY <2>1, NoMore
<1>6. ASSUME NEW u \in Nat, u % 4 = 0, NEW o \in GroupOps, NEW v \in u..u + 3
      PROVE  Cardinality(GroupSubops(v, o)') = Cardinality(GroupSubops(u, o)')
  <2>1. Cardinality(GroupSubops(v, o)) = Cardinality(GroupSubops(u, o))
    BY <1>6 DEF Even
  <2>2. u \in u..u + 3
    BY <1>6
  <2>3. CASE o = op /\ u = w
    BY <1>4, <2>1, <2>2, <2>3
  <2>4. CASE o # op
    BY <1>5, <2>1, <2>4
  <2>5. CASE u # w
    <3>1. v \notin W /\ u \notin W
      BY <1>1, <1>6, <2>5
    <3> QED BY <1>5, <2>1, <3>1
  <2> QED BY <2>3, <2>4, <2>5
<1>7. \A u \in Nat : (u % 4 = 0)' <=> u % 4 = 0
  OBVIOUS
<1> QED BY <1>6 DEF Even

\* What Matched says of the graph that is run.
LEMMA Members ==
    ASSUME AllMatched, setup \in Setup, NEW n \in Node, IsGroup(n)
    PROVE  /\ dag[n].warp \in Nat
           /\ \A v \in (dag[n].warp - (dag[n].warp % 4))..(dag[n].warp - (dag[n].warp % 4)) + 3 :
                 \E p \in Node : IsGroup(p) /\ dag[p].warp = v /\ dag[p].mma = dag[n].mma
           /\ \A m \in Node : IsGroup(m) =>
                 /\ dag[n].mma = dag[m].mma =>
                       /\ dag[n].op = dag[m].op /\ dag[n].subops = dag[m].subops
                       /\ dag[n].warp - (dag[n].warp % 4) = dag[m].warp - (dag[m].warp % 4)
                       /\ dag[n].warp = dag[m].warp => n = m
                 /\ \A p, q \in Node : IsGroup(p) /\ IsGroup(q)
                       /\ dag[p].mma = dag[n].mma /\ dag[q].mma = dag[m].mma
                       /\ dag[n].warp = dag[m].warp /\ dag[p].warp = dag[q].warp /\ n < m
                       => p < q
<1>1. Mmas(setup.graph) = {m \in Node : IsGroup(m)}
  BY DEF Mmas, Node, dag, IsGroup
<1>2. n \in Mmas(setup.graph)
  BY <1>1
<1>3. \A v \in (dag[n].warp - (dag[n].warp % 4))..(dag[n].warp - (dag[n].warp % 4)) + 3 :
         \E p \in Mmas(setup.graph) : dag[p].warp = v /\ dag[p].mma = dag[n].mma
  BY <1>2 DEF AllMatched, Matched, FirstOfFour, dag
<1>4. \A m \in Mmas(setup.graph) :
         dag[n].mma = dag[m].mma =>
            /\ dag[n].op = dag[m].op /\ dag[n].subops = dag[m].subops
            /\ dag[n].warp - (dag[n].warp % 4) = dag[m].warp - (dag[m].warp % 4)
            /\ dag[n].warp = dag[m].warp => n = m
  BY <1>2 DEF AllMatched, Matched, FirstOfFour, dag
<1>5. \A m, p, q \in Mmas(setup.graph) :
         /\ dag[p].mma = dag[n].mma /\ dag[q].mma = dag[m].mma
         /\ dag[n].warp = dag[m].warp /\ dag[p].warp = dag[q].warp /\ n < m
         => p < q
  BY <1>2 DEF AllMatched, Matched, FirstOfFour, dag
<1>6. dag[n].warp \in Nat
  BY Given
<1> QED BY <1>1, <1>3, <1>4, <1>5, <1>6

\* What has begun has all its dependencies finished, so a node that may issue has every
\* node that it waits for finished.
LEMMA Waited ==
    ASSUME Queued, NEW x \in Node, NEW y \in Node, WaitsFor(dag, y, x), Startable(y)
    PROVE  x \in finished
<1>1. setup \in Setup /\ finished \subseteq Node /\ finished \subseteq IssueDone /\ sub \in [Node -> Nat]
  BY DEF Queued, Typed, IssueDone
<1>2. ASSUME NEW k \in finished PROVE dag[k].deps \subseteq finished
  <2>1. k \in Node /\ sub[k] >= dag[k].subops /\ dag[k].subops \in Nat \ {0} /\ sub[k] \in Nat
    BY <1>1, <1>2, Given DEF IssueDone
  <2>2. sub[k] > 0
    BY <2>1
  <2> QED BY <2>1, <2>2 DEF Queued, Started, Unmet
<1>3. dag[y].deps \subseteq finished
  BY DEF Startable, Unmet
<1> QED BY <1>1, <1>2, <1>3 DEF WaitsFor, Node

LEMMA EarlierDone ==
    ASSUME Queued, setup \in Chained, NEW x \in Node, NEW y \in Node, IsGroup(x), IsGroup(y),
           dag[x].warp = dag[y].warp, x < y, Startable(y)
    PROVE  x \in finished
<1>1. WaitsFor(dag, y, x)
  BY DEF Chained, Mmas, IsGroup, dag, Node
<1> QED BY <1>1, Waited

\* Where each warp's MMAs wait for one another, the four heads of a group are the members
\* of one instruction: whatever comes before one of them is finished in all four warps.
LEMMA OneInstruction ==
    ASSUME AllMatched, Queued, Together, setup \in Chained, NEW w, NEW op, NEW head, TakesHeads(w, op, head),
           NEW v \in w..w + 3
    PROVE  dag[head[v]].mma = dag[head[w]].mma
<1>1. setup \in Setup /\ finished \subseteq IssueDone /\ Node \subseteq Nat /\ sub \in [Node -> Nat]
      /\ \A n \in Node : dag[n].subops \in Nat
  BY Given DEF Queued, Typed
<1>2. w \in Nat /\ w % 4 = 0 /\ w \in w..w + 3
  BY <1>1, Given DEF TakesHeads
<1> DEFINE h == head[w]  n == head[v]
<1>3. /\ h \in Node /\ dag[h].warp = w /\ Startable(h) /\ IsGroup(h)
      /\ n \in Node /\ dag[n].warp = v /\ Startable(n) /\ IsGroup(n)
  <2>1. \A u \in w..w + 3 : /\ head[u] \in Node /\ dag[head[u]].warp = u
                            /\ Startable(head[u]) /\ IsGroup(head[u])
    BY DEF TakesHeads, IsGroup
  <2> QED BY <1>2, <2>1
<1> HIDE DEF h, n
<1>4. v \in Nat /\ v % 4 \in 0..3 /\ v - (v % 4) = w
  BY <1>2
<1>5. PICK p \in Node : IsGroup(p) /\ dag[p].warp = v /\ dag[p].mma = dag[h].mma
  <2> DEFINE b == dag[h].warp - (dag[h].warp % 4)
  <2>1. b = w
    BY <1>2, <1>3
  <2>2. \A u \in b..b + 3 : \E p \in Node : IsGroup(p) /\ dag[p].warp = u /\ dag[p].mma = dag[h].mma
    BY <1>1, <1>3, Members
  <2> HIDE DEF b
  <2> QED BY <2>1, <2>2
<1>6. PICK r \in Node : IsGroup(r) /\ dag[r].warp = w /\ dag[r].mma = dag[n].mma
  <2>1. w \in (v - (v % 4))..((v - (v % 4)) + 3)
    BY <1>2, <1>4
  <2> QED BY <1>1, <1>3, <2>1, Members
<1>7. ASSUME NEW x \in Node, NEW y \in Node, IsGroup(x), IsGroup(y), dag[x].warp = dag[y].warp,
             x < y, Startable(y)
      PROVE  sub[x] >= dag[x].subops
  <2>1. x \in finished
    BY <1>7, EarlierDone
  <2> QED BY <1>1, <2>1 DEF IssueDone
<1>8. CASE p < n
  <2>1. sub[p] >= dag[p].subops
    BY <1>3, <1>5, <1>7, <1>8
  <2>2. sub[h] = sub[p]
    BY <1>3, <1>5 DEF Together
  <2>3. dag[h].subops = dag[p].subops
    BY <1>1, <1>3, <1>5, Members
  <2>4. sub[h] < dag[h].subops
    BY <1>3 DEF Startable, Live
  <2>5. sub[h] \in Nat /\ dag[h].subops \in Nat
    BY <1>1, <1>3
  <2> QED BY <2>1, <2>2, <2>3, <2>4, <2>5
<1>9. CASE n < p
  <2>1. r < h
    BY <1>1, <1>3, <1>5, <1>6, <1>9, Members
  <2>2. sub[r] >= dag[r].subops
    BY <1>3, <1>6, <1>7, <2>1
  <2>3. sub[n] = sub[r]
    BY <1>3, <1>6 DEF Together
  <2>4. dag[n].subops = dag[r].subops
    BY <1>1, <1>3, <1>6, Members
  <2>5. sub[n] < dag[n].subops
    BY <1>3 DEF Startable, Live
  <2>6. sub[n] \in Nat /\ dag[n].subops \in Nat
    BY <1>1, <1>3
  <2> QED BY <2>2, <2>3, <2>4, <2>5, <2>6
<1>10. CASE p = n
  BY <1>5, <1>10 DEF h, n
<1>11. p \in Nat /\ n \in Nat
  BY <1>1, <1>3, <1>5
<1> QED BY <1>8, <1>9, <1>10, <1>11

LEMMA TogetherStep ==
    ASSUME AllMatched, Queued, Together, setup' = setup, NEW w, NEW op, NEW head, TakesHeads(w, op, head)
    PROVE  Together'
<1>1. Node' = Node /\ dag' = dag /\ setup \in Setup
  BY Fixed DEF Queued, Typed
<1>2. SUFFICES ASSUME setup \in Chained, NEW n \in Node, NEW m \in Node, IsGroup(n), IsGroup(m),
                      dag[n].mma = dag[m].mma
               PROVE  sub'[n] = sub'[m]
  BY <1>1 DEF Together, IsGroup
<1> DEFINE Taken4(x) == \E v \in w..w + 3 : x = head[v]
<1>3. sub'[n] = (IF Taken4(n) THEN sub[n] + 1 ELSE sub[n])
      /\ sub'[m] = (IF Taken4(m) THEN sub[m] + 1 ELSE sub[m])
  BY DEF TakesHeads
<1>4. sub[n] = sub[m]
  BY <1>2 DEF Together
<1>5. ASSUME NEW x \in Node, NEW y \in Node, IsGroup(x), IsGroup(y), dag[x].mma = dag[y].mma,
             Taken4(x)
      PROVE  Taken4(y)
  <2>1. PICK v \in w..w + 3 : x = head[v]
    BY <1>5
  <2>2. w \in Nat /\ w % 4 = 0
    BY <1>1, Given DEF TakesHeads
  <2>3. dag[x].warp = v /\ dag[x].mma = dag[head[w]].mma
    <3>1. dag[head[v]].warp = v
      BY DEF TakesHeads
    <3>2. dag[head[v]].mma = dag[head[w]].mma
      BY <1>2, OneInstruction
    <3> QED BY <2>1, <3>1, <3>2
  <2>4. dag[x].warp - (dag[x].warp % 4) = dag[y].warp - (dag[y].warp % 4) /\ dag[y].warp \in Nat
    BY <1>1, <1>5, Members
  <2>5. dag[y].warp \in w..w + 3
    <3>1. v \in Nat /\ v - (v % 4) = w
      BY <2>2
    <3>2. dag[y].warp - (dag[y].warp % 4) = w
      BY <2>3, <2>4, <3>1
    <3> DEFINE u == dag[y].warp
    <3>3. u \in Nat /\ u - (u % 4) = w
      BY <2>4, <3>2
    <3> HIDE DEF u
    <3>4. u % 4 \in 0..3
      BY <3>3
    <3>5. u \in w..w + 3
      BY <2>2, <3>3, <3>4
    <3> QED BY <3>5 DEF u
  <2> DEFINE u == dag[y].warp
  <2>6. head[u] \in Node /\ dag[head[u]].warp = u /\ IsGroup(head[u])
    BY <2>5 DEF TakesHeads, IsGroup
  <2>7. dag[head[u]].mma = dag[head[w]].mma
    BY <1>2, <2>5, OneInstruction
  <2>8. head[u] = y
    <3>1. dag[head[u]].mma = dag[y].mma
      BY <1>5, <2>3, <2>7
    <3> HIDE DEF u
    <3>2. u = dag[y].warp
      BY DEF u
    <3> QED BY <1>1, <1>5, <2>6, <3>1, <3>2, Members
  <2> QED BY <2>5, <2>8
<1>6. Taken4(n) <=> Taken4(m)
  BY <1>2, <1>5
<1> HIDE DEF Taken4
<1> QED BY <1>3, <1>4, <1>6

CoInv == QInv /\ Even /\ Together

LEMMA CoStep ==
    ASSUME AllGrouped, AllMatched, CoInv, [Next]_vars
    PROVE  CoInv'
<1>1. QInv /\ Queued /\ Typed /\ Even /\ Together /\ \A n \in Node : sub[n] \in Nat
  BY DEF CoInv, QInv, Queued, Typed
<1>2. QInv'
  BY <1>1, QStep, QFixed
<1>3. setup' = setup
  BY DEF vars, Next, Turn, IssueGroup, IssueOne, Stall, Finish, EndCycle, Issue
<1>4. ASSUME NEW able, IssueGroup(able) PROVE CoInv'
  <2>1. PICK w, op, head : TakesHeads(w, op, head)
    BY <1>1, <1>4, GroupHeads
  <2> QED BY <1>1, <1>2, <1>3, <2>1, EvenStep, TogetherStep DEF CoInv
<1>5. ASSUME NEW able, IssueOne(able) PROVE CoInv'
  <2>1. \A n \in Node : IsGroup(n) => sub'[n] = sub[n]
    BY <1>1, <1>5, GroupsOnly
  <2> QED BY <1>1, <1>2, <1>3, <2>1, SameGroups DEF CoInv
<1>6. ASSUME sub' = sub PROVE CoInv'
  BY <1>1, <1>2, <1>3, <1>6, SameGroups DEF CoInv
<1>7. ASSUME NEW able, Stall(able) PROVE sub' = sub
  BY <1>7 DEF Stall, nodeVars
<1>8. ASSUME NEW n \in Node, Finish(n) PROVE sub' = sub
  BY <1>8 DEF Finish
<1>9. CASE EndCycle
  BY <1>6, <1>9 DEF EndCycle
<1>10. CASE UNCHANGED vars
  BY <1>6, <1>10 DEF vars, nodeVars
<1> QED BY <1>4, <1>5, <1>6, <1>7, <1>8, <1>9, <1>10 DEF Next, Turn

LEMMA InitCo ==
    ASSUME Init
    PROVE  CoInv
<1>1. QInv
  BY InitQueues, InitRest DEF QInv
<1>2. \A n \in Node : sub[n] = 0
  BY DEF Init
<1>3. \A v, op : GroupSubops(v, op) = {}
  <2>1. SUFFICES ASSUME NEW v, NEW op, NEW x \in GroupSubops(v, op) PROVE FALSE
    OBVIOUS
  <2>2. PICK n \in Node : \E k \in 1..sub[n] : x = <<n, k>>
    BY <2>1, SubopPairs
  <2>3. PICK k \in 1..sub[n] : x = <<n, k>>
    BY <2>2
  <2> QED BY <1>2, <2>3
<1>4. Even
  BY <1>3 DEF Even
<1>5. Together
  BY <1>2 DEF Together
<1> QED BY <1>1, <1>4, <1>5 DEF CoInv

\* Where every MMA is issued by a group of four and its instructions are numbered alike in
\* the four warps, no warp of a group is ever ahead of another, and the four MMAs of a step
\* are the members of one instruction, although only the queue heads are compared.
THEOREM FourAtATime ==
    ASSUME AllGrouped, AllMatched
    PROVE  Spec => []CoIssue
<1>1. Init => CoInv
  BY InitCo
<1>2. CoInv /\ [Next]_vars => CoInv'
  BY CoStep
<1>3. CoInv => CoIssue
  <2>1. SUFFICES ASSUME CoInv PROVE CoIssue
    OBVIOUS
  <2>2. setup \in Setup /\ Even /\ Together
    BY <2>1 DEF CoInv, QInv, Queued, Typed
  <2>3. ASSUME NEW n \in Node, IsGroup(n), GroupSize(n) = 4, NEW v \in Leader(n)..Leader(n) + 3
        PROVE  Cardinality(GroupSubops(v, dag[n].op)) = Cardinality(GroupSubops(dag[n].warp, dag[n].op))
    <3> DEFINE w == dag[n].warp  b == w - (w % 4)
    <3>1. w \in Nat
      BY <2>2, Given
    <3>2. b \in Nat /\ b % 4 = 0 /\ w \in b..b + 3
      BY <3>1
    <3>3. Leader(n) = b
      <4>1. dag[n].leader \in {None, b}
        BY <2>2, <2>3 DEF AllGrouped, WellGrouped, Mmas, FirstOfFour, IsGroup, dag, Node
      <4> QED BY <2>3, <4>1 DEF Leader
    <3>4. dag[n].op \in GroupOps
      BY <2>3 DEF IsGroup
    <3> HIDE DEF w, b
    <3>5. Cardinality(GroupSubops(w, dag[n].op)) = Cardinality(GroupSubops(b, dag[n].op))
      BY <2>2, <3>2, <3>4 DEF Even
    <3>6. Cardinality(GroupSubops(v, dag[n].op)) = Cardinality(GroupSubops(b, dag[n].op))
      BY <2>2, <2>3, <3>2, <3>3, <3>4 DEF Even
    <3> QED BY <3>5, <3>6 DEF w
  <2> QED BY <2>2, <2>3 DEF CoIssue, Together
<1> QED BY <1>1, <1>2, <1>3, PTL DEF Spec
---------------------------------------------------------------------------
(* Progress                                                                *)

\* The blocks leave the waiting line in order, and not all at once while one waits; one that
\* has left it resides, all its warps, until it is complete.
Dispatched ==
    /\ \A b \in waiting : \A c \in Blocks : b < c => c \in waiting
    /\ \A b \in Lowest(Blocks, setup.maxResident) : b \notin waiting
    /\ waiting # {} => \E w \in Warp : Residing(w)
    /\ \A w \in Warp : BlockOf[w] \in waiting \/ Residing(w) \/ Complete(BlockOf[w])

LEMMA InitDispatched ==
    ASSUME Init
    PROVE  Dispatched
<1> DEFINE first == Lowest(Blocks, setup.maxResident)
<1>1. setup \in Setup /\ waiting = Blocks \ first
  BY DEF Init
<1>2. \A w \in Warp : Residing(w) <=> BlockOf[w] \in first
  BY InitRest
<1>3. Blocks \in SUBSET Nat /\ IsFiniteSet(Blocks) /\ \A w \in Warp : BlockOf[w] \in Blocks
  BY <1>1, GivenBlocks
<1>4. setup.maxResident \in Nat \ {0}
  BY <1>1, Given
<1>5. /\ first \subseteq Blocks /\ IsFiniteSet(first)
      /\ Cardinality(first) = setup.maxResident \/ first = Blocks
      /\ \A b \in first, c \in Blocks : c < b => c \in first
  BY <1>3, <1>4, LowestOnes
<1> HIDE DEF first
<1>6. \A b \in waiting : \A c \in Blocks : b < c => c \in waiting
  BY <1>1, <1>5
<1>7. waiting # {} => \E w \in Warp : Residing(w)
  <2>1. SUFFICES ASSUME waiting # {} PROVE \E w \in Warp : Residing(w)
    OBVIOUS
  <2>2. Cardinality(first) = setup.maxResident
    BY <1>1, <1>5, <2>1
  <2>3. first # {}
    BY <1>4, <2>2, FS_EmptySet
  <2>4. PICK b \in first : TRUE
    BY <2>3
  <2>5. PICK w \in Warp : BlockOf[w] = b
    BY <1>5, <2>4 DEF Blocks
  <2> QED BY <1>2, <2>4, <2>5
<1>8. \A b \in first : b \notin waiting
  BY <1>1
<1>9. \A w \in Warp : BlockOf[w] \in waiting \/ Residing(w)
  BY <1>1, <1>2, <1>3
<1> QED BY <1>6, <1>7, <1>8, <1>9 DEF Dispatched, first

LEMMA SameDispatched ==
    ASSUME Dispatched, setup' = setup, resident' = resident, waiting' = waiting, finished \subseteq finished'
    PROVE  Dispatched'
<1>1. /\ Warp' = Warp /\ Node' = Node /\ dag' = dag /\ BlockOf' = BlockOf /\ Blocks' = Blocks
  BY Fixed
<1>2. \A w : Residing(w)' <=> Residing(w)
  BY DEF Residing, Elems, LaneOf
<1>3. Lowest(Blocks, setup.maxResident)' = Lowest(Blocks, setup.maxResident)
  BY <1>1 DEF Lowest
<1>4. \A w \in Warp : \/ BlockOf[w] \in waiting \/ Residing(w)'
                     \/ \A n \in Node : BlockOf[dag[n].warp] = BlockOf[w] => n \in finished'
  BY <1>2 DEF Dispatched, Complete
<1> QED BY <1>1, <1>2, <1>3, <1>4 DEF Dispatched, Complete

LEMMA CycleDispatched ==
    ASSUME Dispatched, Queued, Residence, Cardinality(ResidentBlocks) <= setup.maxResident, EndCycle
    PROVE  Dispatched'
<1>1. setup' = setup /\ finished' = finished /\ setup \in Setup
  BY DEF EndCycle, Queued, Typed
<1>2. /\ Warp' = Warp /\ Node' = Node /\ dag' = dag /\ BlockOf' = BlockOf /\ Blocks' = Blocks
  BY <1>1, Fixed
<1>3. /\ waiting' = waiting \ Entering
      /\ \A w \in Warp : Residing(w)' <=>
            (Residing(w) /\ BlockOf[w] \notin Leaving) \/ BlockOf[w] \in Entering
  BY CycleResidence
<1>4. /\ waiting \in SUBSET Nat /\ IsFiniteSet(waiting) /\ waiting \subseteq Blocks
      /\ Blocks \subseteq Nat /\ IsFiniteSet(Blocks) /\ \A w \in Warp : BlockOf[w] \in Blocks
  <2>1. /\ waiting \subseteq Blocks /\ Blocks \subseteq Nat /\ IsFiniteSet(Blocks)
        /\ \A w \in Warp : BlockOf[w] \in Blocks
    BY <1>1, GivenBlocks DEF Residence
  <2> QED BY <2>1, FS_Subset
<1>5. IsFiniteSet(Leaving) /\ Cardinality(Leaving) \in Nat
  <2>1. Leaving \subseteq Blocks
    BY DEF Leaving, ResidentBlocks
  <2> QED BY <1>4, <2>1, FS_Subset, FS_CardinalityType
<1>6. /\ Entering \subseteq waiting /\ IsFiniteSet(Entering)
      /\ Cardinality(Entering) = Cardinality(Leaving) \/ Entering = waiting
      /\ \A b \in Entering, c \in waiting : c < b => c \in Entering
  BY <1>4, <1>5, LowestOnes DEF Entering
<1>7. \A b \in waiting' : \A c \in Blocks : b < c => c \in waiting'
  BY <1>3, <1>6 DEF Dispatched
<1>8. \A b \in Lowest(Blocks, setup.maxResident) : b \notin waiting'
  BY <1>3 DEF Dispatched
<1>9. waiting' # {} => \E w \in Warp : Residing(w)'
  <2>1. SUFFICES ASSUME waiting' # {} PROVE \E w \in Warp : Residing(w)'
    OBVIOUS
  <2>2. PICK w \in Warp : Residing(w)
    BY <1>3, <2>1 DEF Dispatched
  <2>3. CASE BlockOf[w] \notin Leaving
    BY <1>3, <2>2, <2>3
  <2>4. CASE BlockOf[w] \in Leaving
    <3>1. Cardinality(Leaving) # 0
      BY <1>5, <2>4, FS_EmptySet
    <3>2. Entering # {}
      <4>1. Cardinality(Entering) = Cardinality(Leaving)
        BY <1>3, <1>6, <2>1
      <4> QED BY <3>1, <4>1, FS_EmptySet
    <3>3. PICK b \in Entering : TRUE
      BY <3>2
    <3>4. PICK v \in Warp : BlockOf[v] = b
      BY <1>4, <1>6, <3>3 DEF Blocks
    <3> QED BY <1>3, <3>3, <3>4
  <2> QED BY <2>3, <2>4
<1>10. \A b : Complete(b)' <=> Complete(b)
  BY <1>1, <1>2 DEF Complete
<1>11. \A w \in Warp : BlockOf[w] \in waiting' \/ Residing(w)' \/ Complete(BlockOf[w])
  <2>1. \A w \in Warp : BlockOf[w] \in Leaving => Complete(BlockOf[w])
    BY DEF Leaving
  <2> QED BY <1>3, <2>1 DEF Dispatched
<1>12. Lowest(Blocks, setup.maxResident)' = Lowest(Blocks, setup.maxResident)
  BY <1>1, <1>2 DEF Lowest
<1> QED BY <1>1, <1>2, <1>7, <1>8, <1>9, <1>11, <1>12 DEF Dispatched, Complete

LEMMA NoTurn ==
    ASSUME QInv, NEW able, NEW w \in Warp, Residing(w), Turns(LaneOf(w), able) = {}
    PROVE  ~Offers(w, able)
<1> DEFINE l == LaneOf(w)
<1>1. Queued /\ TypedPolicy /\ Residence /\ l \in Lane
  BY Given DEF QInv, Queued, Typed
<1>2. w \in Elems(resident[l]) /\ Turns(l, able) = {}
  BY DEF Residing
<1> HIDE DEF l
<1>3. CASE setup.policy # "RR"
  BY <1>1, <1>2, <1>3, OldestTurn
<1>4. CASE setup.policy = "RR"
  <2>1. \A j \in DOMAIN resident[l] : ~Offers(resident[l][j], able)
    BY <1>1, <1>2, <1>4, RoundRobinTurn
  <2> QED BY <1>2, <2>1 DEF Elems
<1> QED BY <1>3, <1>4

\* When every unit would take a sub-op and still no scheduler has a turn to give, a resident
\* warp with a node that may issue has an MMA of a group at the head of its queue.
LEMMA StalledHead ==
    ASSUME QInv, early = {}, \A v \in Warp : tmaWait[v] = 0, \A l \in Lane : Turns(l, Node) = {},
           NEW w \in Warp, Residing(w), NEW x \in Node, dag[x].warp = w, Startable(x)
    PROVE  \E h \in Node : /\ Queue(w) # <<>> /\ Queue(w)[1] = h /\ dag[h].warp = w
                           /\ Startable(h) /\ IsReady(h) /\ IsGroup(h)
<1>1. Queued /\ Entries /\ setup \in Setup /\ LaneOf(w) \in Lane
  BY Given DEF QInv, Queued, Typed
<1>2. Queue(w) = ready[w] /\ ready[w] \in Seq(Node)
  BY <1>1, AllLive
<1>3. x \in Elems(ready[w])
  BY <1>1 DEF Entries
<1>4. ready[w] # <<>> /\ 1 \in DOMAIN ready[w]
  <2>1. ready[w] # <<>>
    BY <1>2, <1>3, Places
  <2> QED BY <1>2, <2>1
<1>5. PICK h \in Node : h = ready[w][1]
  BY <1>2, <1>4
<1>6. h \in Elems(ready[w])
  BY <1>4, <1>5 DEF Elems
<1>7. dag[h].warp = w /\ Startable(h)
  BY <1>1, <1>6 DEF Entries
<1>8. IsReady(h)
  BY <1>7 DEF IsReady, Startable
<1>9. IsGroup(h)
  <2>1. SUFFICES ASSUME ~IsGroup(h) PROVE FALSE
    OBVIOUS
  <2>2. TmaReady(w)
    BY DEF TmaReady
  <2>3. HeadIssues(h, Node)
    <3>1. CASE dag[h].op = "tma"
      BY <1>7, <1>8, <2>1, <2>2, <3>1 DEF HeadIssues
    <3>2. CASE dag[h].op = "barrier"
      BY <1>8, <2>1, <3>2 DEF HeadIssues
    <3>3. CASE dag[h].op # "tma" /\ dag[h].op # "barrier"
      <4>1. HasPipe(h, Node)
        BY <1>8, <3>3 DEF HasPipe
      <4> QED BY <2>1, <3>3, <4>1 DEF HeadIssues
    <3> QED BY <3>1, <3>2, <3>3
  <2>4. Offer(w, Node) = {1}
    BY <1>2, <1>4, <1>5, <2>3 DEF Offer
  <2>5. Offers(w, Node)
    BY <2>4 DEF Offers
  <2> QED BY <1>1, <2>5, NoTurn
<1> QED BY <1>2, <1>4, <1>5, <1>7, <1>8, <1>9

\* Of the nodes that are not finished, in blocks that are not waiting, those of the lowest
\* rank may issue, and their warps reside.
LEMMA LowestReady ==
    ASSUME QInv, Dispatched, AllResolvable, finished = IssueDone,
           NEW rank, \A n \in Node : \A d \in dag[n].deps \union dag[n].issueDeps : rank[d] < rank[n],
           rank \in [Node -> Nat],
           NEW n \in Node, n \notin finished, BlockOf[dag[n].warp] \notin waiting,
           \A x \in Node : x \notin finished /\ BlockOf[dag[x].warp] \notin waiting => rank[n] <= rank[x]
    PROVE  Startable(n) /\ Residing(dag[n].warp) /\ dag[n].warp \in Warp
<1>1. /\ setup \in Setup /\ sub \in [Node -> Nat] /\ waiting \subseteq Blocks
  BY DEF QInv, Queued, Typed, Residence
<1>2. /\ Blocks \subseteq Nat /\ \A w \in Warp : BlockOf[w] \in Blocks
      /\ \A x \in Node : /\ dag[x].warp \in Warp /\ dag[x].subops \in Nat
                         /\ dag[x].deps \subseteq Node /\ dag[x].issueDeps \subseteq Node
  BY <1>1, Given, GivenBlocks
<1>3. Live(n)
  <2>1. n \notin IssueDone
    OBVIOUS
  <2>2. sub[n] \in Nat /\ dag[n].subops \in Nat
    BY <1>1, <1>2
  <2> QED BY <2>1, <2>2 DEF IssueDone, Live
<1>4. ASSUME NEW d \in dag[n].deps \union dag[n].issueDeps PROVE d \in finished
  <2>1. SUFFICES ASSUME d \notin finished PROVE FALSE
    OBVIOUS
  <2>2. d \in Node /\ rank[d] < rank[n] /\ rank[d] \in Nat /\ rank[n] \in Nat
    BY <1>2
  <2>3. BlockOf[dag[d].warp] \in waiting
    BY <2>1, <2>2
  <2> DEFINE b == BlockOf[dag[d].warp]  c == BlockOf[dag[n].warp]
  <2>4. b \in Nat /\ c \in Nat /\ c \in Blocks
    BY <1>2, <2>2
  <2>5. b <= c \/ b \in Lowest(Blocks, setup.maxResident)
    BY <1>1 DEF AllResolvable, Resolvable, Blocks, BlockOf, Warp, dag, Node
  <2>6. b # c
    BY <2>3
  <2> HIDE DEF b, c
  <2>7. CASE b < c
    <3>1. c \in waiting
      BY <2>3, <2>4, <2>7 DEF Dispatched, b
    <3> QED BY <3>1 DEF c
  <2>8. CASE b \in Lowest(Blocks, setup.maxResident)
    BY <2>3, <2>8 DEF Dispatched, b
  <2>9. b <= c => b < c
    BY <2>4, <2>6
  <2> QED BY <2>5, <2>7, <2>8, <2>9
<1>5. Unmet(n, finished, IssueDone) = {}
  BY <1>4 DEF Unmet
<1>6. Residing(dag[n].warp)
  <2>1. ~Complete(BlockOf[dag[n].warp])
    BY DEF Complete
  <2> QED BY <1>2, <2>1 DEF Dispatched
<1> QED BY <1>2, <1>3, <1>5, <1>6 DEF Startable

\* In a warp with an MMA that may issue nothing else may.
LEMMA OnlyOne ==
    ASSUME Queued, AllResolvable, NEW h \in Node, NEW x \in Node, IsGroup(h), Startable(h), Startable(x),
           dag[h].warp = dag[x].warp
    PROVE  x = h
<1>1. setup \in Setup /\ Node \subseteq Nat /\ setup \in Chained
  BY Given DEF Queued, Typed, AllResolvable, Resolvable
<1>2. h \notin finished /\ x \notin finished
  BY DEF Startable, Live
<1>3. CASE IsGroup(x)
  <2>1. ~(x < h) /\ ~(h < x)
    BY <1>1, <1>2, <1>3, EarlierDone
  <2> QED BY <1>1, <2>1
<1>4. CASE ~IsGroup(x)
  <2>1. h \in Mmas(dag) /\ x \in DOMAIN dag \ Mmas(dag)
    BY <1>4 DEF Mmas, IsGroup, Node
  <2>2. WaitsFor(dag, h, x) \/ WaitsFor(dag, x, h)
    BY <1>1, <2>1 DEF AllResolvable, Resolvable, dag
  <2> QED BY <1>2, <2>2, Waited
<1> QED BY <1>3, <1>4

LEMMA SomeTurn ==
    ASSUME AllGrouped, AllMatched, AllResolvable, CoInv, Dispatched, Quiet
    PROVE  GroupTurns(Node) # {} \/ \E l \in Lane : Turns(l, Node) # {}
<1>1. /\ QInv /\ Queued /\ Residence /\ Together /\ setup \in Setup /\ waiting \subseteq Blocks
      /\ finished \subseteq Node
  BY DEF CoInv, QInv, Queued, Typed, Residence, IssueDone
<1>2. /\ early = {} /\ IssueDone = finished /\ finished # Node /\ \A w \in Warp : tmaWait[w] = 0
      /\ \A b \in ResidentBlocks : ~Complete(b)
  BY DEF Quiet
<1>3. SUFFICES ASSUME \A l \in Lane : Turns(l, Node) = {} PROVE GroupTurns(Node) # {}
  OBVIOUS
<1>4. /\ Node \subseteq Nat /\ IsFiniteSet(Node) /\ Warp \subseteq Nat
      /\ \A x \in Node : dag[x].warp \in Warp
  BY <1>1, Given
<1>5. PICK rank \in [Node -> Nat] :
        /\ \A x \in Node : \A d \in dag[x].deps \union dag[x].issueDeps : rank[d] < rank[x]
        /\ \A x, y \in Mmas(dag) : dag[x].mma = dag[y].mma => rank[x] = rank[y]
  BY <1>1 DEF AllResolvable, Resolvable, Node, dag
<1> DEFINE K == {x \in Node : x \notin finished /\ BlockOf[dag[x].warp] \notin waiting}
\* Some node is left in a block that is not waiting.
<1>6. K # {}
  <2>1. PICK x \in Node : x \notin finished
    BY <1>1, <1>2
  <2>2. CASE waiting = {}
    BY <2>1, <2>2
  <2>3. CASE waiting # {}
    <3>1. PICK w \in Warp : Residing(w)
      BY <2>3 DEF Dispatched
    <3>2. BlockOf[w] \in Homes
      BY <3>1 DEF Homes
    <3>3. BlockOf[w] \in ResidentBlocks /\ BlockOf[w] \notin waiting
      BY <1>1, <3>2, ResidentOnes
    <3>4. PICK y \in Node : BlockOf[dag[y].warp] = BlockOf[w] /\ y \notin finished
      BY <1>2, <3>3 DEF Complete
    <3> QED BY <3>3, <3>4
  <2> QED BY <2>2, <2>3
<1>7. PICK n \in K : \A x \in K : rank[n] <= rank[x]
  <2>1. K \in SUBSET Nat /\ IsFiniteSet(K)
    BY <1>4, FS_Subset
  <2>2. \A x \in K : rank[x] \in Int
    BY <1>5
  <2> HIDE DEF K
  <2> QED BY <1>6, <2>1, <2>2, Extremes
<1>8. ASSUME NEW x \in K, rank[x] = rank[n]
      PROVE  Startable(x) /\ Residing(dag[x].warp) /\ dag[x].warp \in Warp
  <2>1. x \in Node /\ x \notin finished /\ BlockOf[dag[x].warp] \notin waiting
    OBVIOUS
  <2>2. \A y \in Node : y \notin finished /\ BlockOf[dag[y].warp] \notin waiting => rank[x] <= rank[y]
    BY <1>7, <1>8
  <2> HIDE DEF K
  <2> QED BY <1>1, <1>2, <1>5, <2>1, <2>2, LowestReady
\* It is alone in its queue: an MMA at the head that is not issued.
<1>9. ASSUME NEW x \in K, rank[x] = rank[n]
      PROVE  /\ Queue(dag[x].warp) # <<>> /\ Queue(dag[x].warp)[1] = x
             /\ IsReady(x) /\ IsGroup(x) /\ dag[x].warp \in Warp
  <2>1. Startable(x) /\ Residing(dag[x].warp) /\ dag[x].warp \in Warp /\ x \in Node
    BY <1>8, <1>9
  <2> DEFINE w == dag[x].warp
  <2>2. PICK h \in Node : /\ Queue(w) # <<>> /\ Queue(w)[1] = h /\ dag[h].warp = w
                          /\ Startable(h) /\ IsReady(h) /\ IsGroup(h)
    <3>1. w \in Warp /\ Residing(w) /\ dag[x].warp = w
      BY <2>1
    <3> HIDE DEF w, K
    <3> QED BY <1>1, <1>2, <1>3, <2>1, <3>1, StalledHead
  <2>3. x = h
    <3> HIDE DEF K
    <3> QED BY <1>1, <2>1, <2>2, OnlyOne
  <2> QED BY <2>1, <2>2, <2>3
<1> DEFINE a == dag[n].warp  b == a - (a % 4)
<1>10. n \in Node /\ n \notin finished /\ BlockOf[a] \notin waiting /\ IsGroup(n) /\ a \in Nat /\ a \in Warp
  BY <1>4, <1>7, <1>9
<1>11. ASSUME NEW v \in b..b + 3
       PROVE  \E p \in K : /\ rank[p] = rank[n] /\ dag[p].warp = v /\ dag[p].mma = dag[n].mma
                           /\ dag[p].op = dag[n].op /\ IsGroup(p)
  <2>1. PICK p \in Node : IsGroup(p) /\ dag[p].warp = v /\ dag[p].mma = dag[n].mma
    <3> HIDE DEF K
    <3> QED BY <1>1, <1>10, Members
  <2>2. dag[p].op = dag[n].op /\ dag[p].subops = dag[n].subops
    <3>1. dag[n].op = dag[p].op /\ dag[n].subops = dag[p].subops
      <4> HIDE DEF K, a, b
      <4> QED BY <1>1, <1>10, <2>1, Members
    <3> QED BY <3>1
  <2>3. p \in Mmas(dag) /\ n \in Mmas(dag)
    BY <1>10, <2>1 DEF Mmas, IsGroup, Node
  <2>4. rank[p] = rank[n]
    BY <1>5, <2>1, <2>3
  <2>5. BlockOf[dag[p].warp] = BlockOf[dag[n].warp]
    BY <1>1, <2>1, <2>3 DEF AllResolvable, Resolvable, BlockOf, dag
  <2>6. p \notin finished
    <3>1. sub[p] = sub[n]
      BY <1>1, <1>10, <2>1 DEF Together, AllResolvable, Resolvable
    <3>2. n \notin IssueDone
      BY <1>2, <1>10
    <3>3. p \notin IssueDone
      BY <1>10, <2>2, <3>1, <3>2 DEF IssueDone
    <3> QED BY <1>2, <3>3
  <2> QED BY <1>10, <2>1, <2>2, <2>4, <2>5, <2>6
<1>12. \A x \in Node : IsGroup(x) => GroupSize(x) = 4 /\ Leader(x) = dag[x].warp - (dag[x].warp % 4)
  <2>1. SUFFICES ASSUME NEW x \in Node, IsGroup(x)
                 PROVE  GroupSize(x) = 4 /\ Leader(x) = dag[x].warp - (dag[x].warp % 4)
    OBVIOUS
  <2>2. /\ dag[x].size = 4 \/ (dag[x].op = "wgmma" /\ dag[x].size = 0)
        /\ dag[x].leader \in {None, dag[x].warp - (dag[x].warp % 4)}
    BY <1>1, <2>1 DEF AllGrouped, WellGrouped, Mmas, FirstOfFour, IsGroup, dag, Node
  <2>3. GroupSize(x) = 4
    BY <2>2 DEF GroupSize
  <2> QED BY <2>2, <2>3 DEF Leader
<1>13. b \in Nat /\ b % 4 = 0 /\ b \in b..b + 3 /\ a \in b..b + 3
       /\ \A v \in b..b + 3 : v \in Nat /\ v - (v % 4) = b
  BY <1>10
<1> HIDE DEF K, a, b
<1>14. ASSUME NEW v \in b..b + 3
       PROVE  /\ v \in Warp /\ Queue(v) # <<>>
              /\ IsGroup(Queue(v)[1]) /\ GroupSize(Queue(v)[1]) = 4 /\ Leader(Queue(v)[1]) = b
              /\ dag[Queue(v)[1]].op = dag[n].op /\ HasPipe(Queue(v)[1], Node)
  <2>1. PICK p \in K : /\ rank[p] = rank[n] /\ dag[p].warp = v /\ dag[p].mma = dag[n].mma
                       /\ dag[p].op = dag[n].op /\ IsGroup(p)
    BY <1>11
  <2>2. Queue(v) # <<>> /\ Queue(v)[1] = p /\ IsReady(p) /\ v \in Warp
    BY <1>9, <2>1
  <2>3. p \in Node
    BY DEF K
  <2>4. GroupSize(p) = 4 /\ Leader(p) = b
    BY <1>12, <1>13, <2>1, <2>3
  <2>5. HasPipe(p, Node)
    <3>1. dag[p].op # "barrier"
      BY <2>1 DEF IsGroup, GroupOps
    <3> QED BY <2>2, <2>3, <3>1 DEF HasPipe
  <2> QED BY <2>1, <2>2, <2>4, <2>5
<1>15. GroupReady(b, Node)
  <2>1. dag[Queue(b)[1]].op = dag[n].op
    BY <1>13, <1>14
  <2> QED BY <1>13, <1>14, <2>1 DEF GroupReady
<1>16. \E i \in DOMAIN resident[0] : resident[0][i] = b
  <2>1. IsReady(Queue(b)[1]) /\ b \in Warp
    BY <1>13, <1>14 DEF HasPipe
  <2>2. PICK p \in K : rank[p] = rank[n] /\ dag[p].warp = b
    BY <1>11, <1>13
  <2>3. Residing(b)
    BY <1>8, <2>2
  <2>4. LaneOf(b) = 0
    BY <1>13 DEF LaneOf
  <2>5. b \in Elems(resident[0])
    BY <2>3, <2>4 DEF Residing
  <2> QED BY <2>5 DEF Elems
<1> QED BY <1>15, <1>16 DEF GroupTurns

\* Queues that wait for one another never stop the SM: in graphs like the GEMM's, when nothing
\* is under way and every unit would take a sub-op, a scheduler has a warp to issue from, or
\* scheduler 0 a group whose four members are all at the heads of their queues.
THEOREM SomeoneIssues ==
    ASSUME AllGrouped, AllMatched, AllResolvable
    PROVE  Spec => []NeverStuck
<1> DEFINE Inv == CoInv /\ Dispatched
<1>1. Init => Inv
  BY InitCo, InitDispatched
<1>2. Inv /\ [Next]_vars => Inv'
  <2>1. SUFFICES ASSUME Inv, [Next]_vars PROVE Inv'
    OBVIOUS
  <2>2. CoInv'
    BY <2>1, CoStep
  <2>3. Queued /\ Residence /\ Cardinality(ResidentBlocks) <= setup.maxResident
    BY <2>1 DEF CoInv, QInv
  <2>4. CASE EndCycle
    BY <2>1, <2>2, <2>3, <2>4, CycleDispatched
  <2>5. ASSUME setup' = setup, resident' = resident, waiting' = waiting, finished \subseteq finished'
        PROVE  Inv'
    BY <2>1, <2>2, <2>5, SameDispatched
  <2>6. ASSUME NEW able, Turn(able) PROVE Inv'
    <3>1. setup' = setup /\ resident' = resident /\ waiting' = waiting /\ finished' = finished
      BY <2>6 DEF Turn, IssueGroup, IssueOne, Stall, Issue, blockVars, nodeVars
    <3> QED BY <2>5, <3>1
  <2>7. ASSUME NEW n \in Node, Finish(n) PROVE Inv'
    <3>1. setup' = setup /\ resident' = resident /\ waiting' = waiting /\ finished \subseteq finished'
      BY <2>7 DEF Finish, blockVars
    <3> QED BY <2>5, <3>1
  <2>8. CASE UNCHANGED vars
    BY <2>5, <2>8 DEF vars, nodeVars, blockVars
  <2> QED BY <2>1, <2>4, <2>6, <2>7, <2>8 DEF Next
<1>3. Inv => NeverStuck
  BY SomeTurn DEF NeverStuck
<1> HIDE DEF Inv
<1> QED BY <1>1, <1>2, <1>3, PTL DEF Spec
===========================================================================
