--------------------------- MODULE NocRoute_proofs ---------------------------
(***************************************************************************)
(* Proofs about NocRoute, for every traffic, topology, depth and latency.   *)
(* The invariant says where each access is (Apart), which places follow     *)
(* from the access itself (Homes), what is on record (Records), which ports *)
(* have been served in this cycle (Served), and that what the destination   *)
(* refused still finds no room (Refusals).                                  *)
(***************************************************************************)
EXTENDS NocRoute, TLAPS, FiniteSetTheorems, FunctionTheorems

---------------------------------------------------------------------------
(* Sequences                                                               *)

LEMMA Listed ==
    ASSUME NEW S, NEW n \in Nat, NEW s \in [1..n -> S]
    PROVE  s \in Seq(S) /\ Len(s) = n /\ DOMAIN s = 1..n
OBVIOUS

LEMMA Appended ==
    ASSUME NEW S, NEW s \in Seq(S), NEW e \in S
    PROVE  /\ Append(s, e) \in Seq(S) /\ Len(Append(s, e)) = Len(s) + 1
           /\ DOMAIN Append(s, e) = DOMAIN s \union {Len(s) + 1} /\ Len(s) + 1 \notin DOMAIN s
           /\ \A i \in DOMAIN s : i < Len(s) + 1 /\ Append(s, e)[i] = s[i]
           /\ Append(s, e)[Len(s) + 1] = e
           /\ Elems(Append(s, e)) = Elems(s) \union {e}
<1>1. /\ Append(s, e) \in Seq(S) /\ Len(Append(s, e)) = Len(s) + 1
      /\ DOMAIN Append(s, e) = DOMAIN s \union {Len(s) + 1} /\ Len(s) + 1 \notin DOMAIN s
      /\ \A i \in DOMAIN s : i < Len(s) + 1 /\ Append(s, e)[i] = s[i]
      /\ Append(s, e)[Len(s) + 1] = e
  OBVIOUS
<1> HIDE DEF Append
<1> QED BY <1>1 DEF Elems

LEMMA Removed ==
    ASSUME NEW S, NEW s \in Seq(S), s # <<>>
    PROVE  /\ Tail(s) \in Seq(S) /\ Head(s) \in S /\ Len(Tail(s)) = Len(s) - 1
           /\ \A i \in DOMAIN Tail(s) : i + 1 \in DOMAIN s /\ Tail(s)[i] = s[i + 1]
           /\ 1 \in DOMAIN s /\ Head(s) = s[1]
           /\ \A i \in DOMAIN s : i = 1 \/ (i - 1 \in DOMAIN Tail(s) /\ s[i] = Tail(s)[i - 1])
           /\ Elems(s) = Elems(Tail(s)) \union {Head(s)}
<1>1. /\ Tail(s) \in Seq(S) /\ Head(s) \in S /\ Len(Tail(s)) = Len(s) - 1
      /\ \A i \in DOMAIN Tail(s) : i + 1 \in DOMAIN s /\ Tail(s)[i] = s[i + 1]
      /\ 1 \in DOMAIN s /\ Head(s) = s[1]
      /\ \A i \in DOMAIN s : i = 1 \/ (i - 1 \in DOMAIN Tail(s) /\ s[i] = Tail(s)[i - 1])
  OBVIOUS
<1>2. Elems(s) \subseteq Elems(Tail(s)) \union {Head(s)}
  <2>1. SUFFICES ASSUME NEW i \in DOMAIN s PROVE s[i] \in Elems(Tail(s)) \union {Head(s)}
    BY DEF Elems
  <2> QED BY <1>1 DEF Elems
<1>3. Elems(Tail(s)) \union {Head(s)} \subseteq Elems(s)
  BY <1>1 DEF Elems
<1> QED BY <1>1, <1>2, <1>3

LEMMA Joined ==
    ASSUME NEW S, NEW s \in Seq(S), NEW t \in Seq(S)
    PROVE  /\ s \o t \in Seq(S)
           /\ Elems(s \o t) = Elems(s) \union Elems(t)
           /\ \A i \in DOMAIN (s \o t) :
                 \/ i \in DOMAIN s /\ (s \o t)[i] = s[i]
                 \/ i \notin DOMAIN s /\ i - Len(s) \in DOMAIN t /\ (s \o t)[i] = t[i - Len(s)]
<1>1. /\ s \o t \in Seq(S)
      /\ \A i \in DOMAIN s : i \in DOMAIN (s \o t) /\ (s \o t)[i] = s[i]
      /\ \A i \in DOMAIN t :
            Len(s) + i \in DOMAIN (s \o t) /\ (s \o t)[Len(s) + i] = t[i]
  OBVIOUS
<1>2. \A i \in DOMAIN (s \o t) : 
           \/ i \in DOMAIN s /\ (s \o t)[i] = s[i]
           \/ i \notin DOMAIN s /\ i - Len(s) \in DOMAIN t /\ (s \o t)[i] = t[i - Len(s)]
  OBVIOUS
<1>3. Elems(s \o t) \subseteq Elems(s) \union Elems(t)
  BY <1>2 DEF Elems
<1>4. Elems(s) \union Elems(t) \subseteq Elems(s \o t)
  BY <1>1 DEF Elems
<1> QED BY <1>1, <1>2, <1>3, <1>4
---------------------------------------------------------------------------
(* Picking places of a sequence                                            *)

\* Counting from the lowest on gives each place of I a number of its own, from one to
\* the size of I.
LEMMA Ranks ==
    ASSUME NEW n \in Nat, NEW I \in SUBSET (1..n)
    PROVE  /\ IsFiniteSet(I) /\ Cardinality(I) \in Nat /\ Cardinality(I) <= n
           /\ \A k \in 1..Cardinality(I) :
                 Nth(I, k) \in I /\ Cardinality({j \in I : j <= Nth(I, k)}) = k
           /\ \A i \in I : \E k \in 1..Cardinality(I) : Nth(I, k) = i
           /\ \A k, l \in 1..Cardinality(I) : k < l => Nth(I, k) < Nth(I, l)
<1> DEFINE upTo(i) == {j \in I : j <= i}  c == Cardinality(I)  rank == [i \in I |-> Cardinality(upTo(i))]
<1>1. IsFiniteSet(I) /\ c \in Nat /\ c <= n
  <2>1. IsFiniteSet(1..n) /\ Cardinality(1..n) = n
    BY FS_Interval
  <2> QED BY <2>1, FS_Subset, FS_CardinalityType
<1>2. \A i \in I : IsFiniteSet(upTo(i)) /\ rank[i] \in Nat /\ rank[i] <= c /\ rank[i] >= 1
  <2>1. SUFFICES ASSUME NEW i \in I PROVE IsFiniteSet(upTo(i)) /\ rank[i] \in Nat /\ rank[i] <= c /\ rank[i] >= 1
    OBVIOUS
  <2>2. upTo(i) \subseteq I /\ i \in upTo(i)
    OBVIOUS
  <2>3. IsFiniteSet(upTo(i)) /\ Cardinality(upTo(i)) <= c
    BY <1>1, <2>2, FS_Subset
  <2>4. Cardinality(upTo(i)) \in Nat /\ Cardinality(upTo(i)) # 0
    BY <2>2, <2>3, FS_CardinalityType, FS_EmptySet
  <2> HIDE DEF upTo, c
  <2> QED BY <2>3, <2>4
<1>3. ASSUME NEW i \in I, NEW j \in I, i < j PROVE rank[i] < rank[j]
  <2>0. i \in Nat /\ j \in Nat
    OBVIOUS
  <2>1. upTo(i) \subseteq upTo(j) /\ j \in upTo(j) /\ j \notin upTo(i)
    <3>1. \A x \in I : x \in Nat
      OBVIOUS
    <3>2. \A x \in I : x <= i => x <= j
      BY <1>3, <2>0, <3>1
    <3>3. ~(j <= i) /\ j <= j
      BY <1>3, <2>0
    <3> QED BY <3>2, <3>3
  <2>2. rank[i] = Cardinality(upTo(i)) /\ rank[j] = Cardinality(upTo(j))
    OBVIOUS
  <2> HIDE DEF upTo
  <2>3. Cardinality(upTo(i)) <= Cardinality(upTo(j)) /\ Cardinality(upTo(i)) # Cardinality(upTo(j))
    BY <1>2, <2>1, FS_Subset
  <2> HIDE DEF rank
  <2> QED BY <1>2, <2>2, <2>3
<1>4. rank \in Injection(I, 1..c)
  <2>1. rank \in [I -> 1..c]
    <3>1. ASSUME NEW i \in I PROVE rank[i] \in 1..c
      <4>1. rank[i] \in Nat /\ rank[i] <= c /\ rank[i] >= 1 /\ c \in Nat
        BY <1>1, <1>2
      <4> HIDE DEF rank, c
      <4> QED BY <4>1
    <3> QED BY <3>1
  <2>2. ASSUME NEW i \in I, NEW j \in I, rank[i] = rank[j] PROVE i = j
    <3>1. i \in Nat /\ j \in Nat
      OBVIOUS
    <3>2. rank[i] \in Nat
      BY <1>2
    <3>3. ~(i < j)
      <4> HIDE DEF rank
      <4> QED BY <1>3, <2>2, <3>2
    <3>4. ~(j < i)
      <4> HIDE DEF rank
      <4> QED BY <1>3, <2>2, <3>2
    <3> QED BY <3>1, <3>3, <3>4
  <2> HIDE DEF rank, c
  <2> QED BY <2>1, <2>2, Fun_IsInj
<1>5. \A k \in 1..c : \E i \in I : rank[i] = k
  <2>1. IsFiniteSet(1..c) /\ Cardinality(1..c) = c
    BY <1>1, FS_Interval
  <2>2. rank \in Surjection(I, 1..c)
    <3> HIDE DEF rank
    <3> QED BY <1>4, <2>1, FS_Injection
  <2> HIDE DEF rank, c
  <2> QED BY <2>2 DEF Surjection
<1>6. \A k \in 1..c : Nth(I, k) \in I /\ rank[Nth(I, k)] = k
  <2>1. SUFFICES ASSUME NEW k \in 1..c PROVE Nth(I, k) \in I /\ rank[Nth(I, k)] = k
    OBVIOUS
  <2>2. \E i \in I : Cardinality({j \in I : j <= i}) = k
    BY <1>5
  <2>3. Nth(I, k) \in I /\ Cardinality({j \in I : j <= Nth(I, k)}) = k
    BY <2>2 DEF Nth
  <2> QED BY <2>3
<1>7. ASSUME NEW i \in I PROVE \E k \in 1..c : Nth(I, k) = i
  <2>1. rank[i] \in 1..c
    <3> HIDE DEF rank, c
    <3> QED BY <1>4 DEF Injection
  <2>2. Nth(I, rank[i]) \in I /\ rank[Nth(I, rank[i])] = rank[i]
    <3> HIDE DEF rank, c
    <3> QED BY <1>6, <2>1
  <2>3. Nth(I, rank[i]) = i
    <3> HIDE DEF rank, c
    <3> QED BY <1>4, <2>2 DEF Injection, IsInjective
  <2> HIDE DEF rank, c
  <2> QED BY <2>1, <2>3
<1>8. ASSUME NEW k \in 1..c, NEW l \in 1..c, k < l PROVE Nth(I, k) < Nth(I, l)
  <2>1. Nth(I, k) \in I /\ rank[Nth(I, k)] = k /\ Nth(I, l) \in I /\ rank[Nth(I, l)] = l
    <3> HIDE DEF rank, c
    <3> QED BY <1>6
  <2>2. k \in Nat /\ l \in Nat
    BY <1>1
  <2>3. \A x \in I : x \in Nat
    OBVIOUS
  <2>4. Nth(I, k) \in Nat /\ Nth(I, l) \in Nat
    <3> HIDE DEF rank, c
    <3> QED BY <2>1, <2>3
  <2>5. Nth(I, l) < Nth(I, k) => rank[Nth(I, l)] < rank[Nth(I, k)]
    <3> HIDE DEF rank, c
    <3> QED BY <1>3, <2>1
  <2> HIDE DEF rank, c
  <2> QED BY <1>8, <2>1, <2>2, <2>4, <2>5
<1>9. \A k \in 1..c : Cardinality({j \in I : j <= Nth(I, k)}) = k
  <2>1. SUFFICES ASSUME NEW k \in 1..c PROVE Cardinality({j \in I : j <= Nth(I, k)}) = k
    OBVIOUS
  <2>2. Nth(I, k) \in I /\ rank[Nth(I, k)] = k
    <3> HIDE DEF rank, c
    <3> QED BY <1>6
  <2> QED BY <2>2
<1> HIDE DEF rank
<1> QED BY <1>1, <1>6, <1>7, <1>8, <1>9

LEMMA Picks ==
    ASSUME NEW S, NEW s \in Seq(S), NEW I \in SUBSET (DOMAIN s)
    PROVE  /\ Picked(s, I) \in Seq(S) /\ Len(Picked(s, I)) = Cardinality(I)
           /\ Cardinality(I) \in Nat /\ Cardinality(I) <= Len(s)
           /\ \A k \in DOMAIN Picked(s, I) : Nth(I, k) \in I /\ Picked(s, I)[k] = s[Nth(I, k)]
           /\ \A k, l \in DOMAIN Picked(s, I) : k < l => Nth(I, k) < Nth(I, l)
           /\ Elems(Picked(s, I)) = {s[i] : i \in I}
<1> DEFINE c == Cardinality(I)  p == Picked(s, I)
<1>1. Len(s) \in Nat /\ I \in SUBSET (1..Len(s))
  OBVIOUS
<1>2. /\ c \in Nat /\ c <= Len(s)
      /\ \A k \in 1..c : Nth(I, k) \in I
      /\ \A i \in I : \E k \in 1..c : Nth(I, k) = i
      /\ \A k, l \in 1..c : k < l => Nth(I, k) < Nth(I, l)
  BY <1>1, Ranks
<1>3. DOMAIN p = 1..c /\ \A k \in 1..c : p[k] = s[Nth(I, k)]
  BY DEF Picked
<1>4. \A i \in I : s[i] \in S
  OBVIOUS
<1>5. p \in [1..c -> S]
  <2>1. p = [k \in 1..c |-> p[k]]
    BY DEF Picked
  <2>2. \A k \in 1..c : p[k] \in S
    <3> HIDE DEF p, c
    <3> QED BY <1>2, <1>3, <1>4
  <2> HIDE DEF p, c
  <2> QED BY <2>1, <2>2
<1>6. p \in Seq(S) /\ Len(p) = c
  <2> HIDE DEF p, c
  <2> QED BY <1>2, <1>5, Listed
<1>7. Elems(p) = {s[i] : i \in I}
  <2> HIDE DEF p, c
  <2>1. Elems(p) \subseteq {s[i] : i \in I}
    BY <1>2, <1>3 DEF Elems
  <2>2. ASSUME NEW i \in I PROVE s[i] \in Elems(p)
    <3>1. PICK k \in 1..c : Nth(I, k) = i
      BY <1>2
    <3> QED BY <1>3, <3>1 DEF Elems
  <2> QED BY <2>1, <2>2
<1>8. \A k \in DOMAIN p : Nth(I, k) \in I /\ p[k] = s[Nth(I, k)]
  <2> HIDE DEF p, c
  <2> QED BY <1>2, <1>3
<1>9. \A k, l \in DOMAIN p : k < l => Nth(I, k) < Nth(I, l)
  <2> HIDE DEF p, c
  <2> QED BY <1>2, <1>3
<1>10. p = Picked(s, I)
  OBVIOUS
<1> HIDE DEF p
<1> QED BY <1>2, <1>6, <1>7, <1>8, <1>9, <1>10
---------------------------------------------------------------------------
(* Sequences of accesses that hold each access once                        *)

Distinct(s) == \A i, j \in DOMAIN s : s[i] = s[j] => i = j

LEMMA AddsOne ==
    ASSUME NEW S, NEW s \in Seq(S), NEW e \in S, Distinct(s), e \notin Elems(s)
    PROVE  Distinct(Append(s, e))
<1> DEFINE t == Append(s, e)
<1>1. /\ DOMAIN t = DOMAIN s \union {Len(s) + 1} /\ Len(s) + 1 \notin DOMAIN s
      /\ \A i \in DOMAIN s : t[i] = s[i]
      /\ t[Len(s) + 1] = e
  BY Appended
<1>2. \A i \in DOMAIN s : s[i] # e
  BY DEF Elems
<1> HIDE DEF t
<1> QED BY <1>1, <1>2 DEF Distinct

LEMMA TakesOne ==
    ASSUME NEW S, NEW s \in Seq(S), s # <<>>, Distinct(s)
    PROVE  /\ Distinct(Tail(s)) /\ Head(s) \in Elems(s)
           /\ Elems(Tail(s)) = Elems(s) \ {Head(s)}
<1> DEFINE t == Tail(s)
<1>1. /\ \A i \in DOMAIN t : i + 1 \in DOMAIN s /\ t[i] = s[i + 1]
      /\ 1 \in DOMAIN s /\ Head(s) = s[1]
      /\ Elems(s) = Elems(t) \union {Head(s)} /\ t \in Seq(S)
  BY Removed
<1>2. \A i \in DOMAIN t : i \in Nat /\ i >= 1
  BY <1>1
<1>3. Head(s) \notin Elems(t)
  <2>1. SUFFICES ASSUME NEW i \in DOMAIN t, t[i] = s[1] PROVE FALSE
    BY <1>1 DEF Elems
  <2>2. i + 1 = 1
    <3> HIDE DEF t
    <3> QED BY <1>1, <2>1 DEF Distinct
  <2> HIDE DEF t
  <2> QED BY <1>2, <2>2
<1>4. Distinct(t)
  <2>1. SUFFICES ASSUME NEW i \in DOMAIN t, NEW j \in DOMAIN t, t[i] = t[j] PROVE i = j
    BY DEF Distinct
  <2>2. i + 1 = j + 1
    <3> HIDE DEF t
    <3> QED BY <1>1, <2>1 DEF Distinct
  <2> HIDE DEF t
  <2> QED BY <1>2, <2>2
<1>5. Head(s) \in Elems(s)
  BY <1>1 DEF Elems
<1>6. t = Tail(s)
  OBVIOUS
<1> HIDE DEF t
<1> QED BY <1>1, <1>3, <1>4, <1>5, <1>6

LEMMA Splits ==
    ASSUME NEW S, NEW s \in Seq(S), NEW I \in SUBSET (DOMAIN s), Distinct(s)
    PROVE  /\ Distinct(Picked(s, I)) /\ Elems(Picked(s, I)) \subseteq Elems(s)
           /\ Elems(Picked(s, DOMAIN s \ I)) = Elems(s) \ Elems(Picked(s, I))
<1> DEFINE p == Picked(s, I)
<1>1. /\ p \in Seq(S) /\ Elems(p) = {s[i] : i \in I}
      /\ \A k \in DOMAIN p : Nth(I, k) \in I /\ p[k] = s[Nth(I, k)]
      /\ \A k, l \in DOMAIN p : k < l => Nth(I, k) < Nth(I, l)
  BY Picks
<1>2. Elems(Picked(s, DOMAIN s \ I)) = {s[i] : i \in DOMAIN s \ I}
  BY Picks
<1>3. Distinct(p)
  <2>1. SUFFICES ASSUME NEW k \in DOMAIN p, NEW l \in DOMAIN p, p[k] = p[l] PROVE k = l
    BY DEF Distinct
  <2>2. Nth(I, k) = Nth(I, l) /\ Nth(I, k) \in I
    <3> HIDE DEF p
    <3> QED BY <1>1, <2>1 DEF Distinct
  <2>3. Nth(I, k) \in Nat
    <3>1. \A i \in I : i \in Nat
      OBVIOUS
    <3> QED BY <2>2, <3>1
  <2>4. k \in Nat /\ l \in Nat
    BY <1>1
  <2> HIDE DEF p
  <2>5. ~(k < l) /\ ~(l < k)
    BY <1>1, <2>2, <2>3
  <2> QED BY <2>4, <2>5
<1>4. Elems(s) = {s[i] : i \in DOMAIN s}
  BY DEF Elems
<1>5. p = Picked(s, I)
  OBVIOUS
<1> HIDE DEF p
<1>6. Elems(p) \subseteq Elems(s)
  BY <1>1, <1>4
<1>7. Elems(Picked(s, DOMAIN s \ I)) = Elems(s) \ Elems(p)
  <2>1. \A i \in DOMAIN s : s[i] \in Elems(p) <=> i \in I
    BY <1>1 DEF Distinct
  <2> QED BY <1>2, <1>4, <2>1
<1> QED BY <1>3, <1>5, <1>6, <1>7

LEMMA Counts ==
    ASSUME NEW S, NEW s \in Seq(S), Distinct(s)
    PROVE  IsFiniteSet(Elems(s)) /\ Cardinality(Elems(s)) = Len(s)
<1>1. Len(s) \in Nat /\ DOMAIN s = 1..Len(s)
  OBVIOUS
<1>2. s \in Bijection(1..Len(s), Elems(s))
  <2>1. s \in [1..Len(s) -> Elems(s)]
    BY DEF Elems
  <2>2. \A e \in Elems(s) : \E i \in 1..Len(s) : s[i] = e
    BY DEF Elems
  <2>3. \A i, j \in 1..Len(s) : s[i] = s[j] => i = j
    BY <1>1 DEF Distinct
  <2> QED BY <2>1, <2>2, <2>3, Fun_IsBij
<1>3. IsFiniteSet(1..Len(s)) /\ Cardinality(1..Len(s)) = Len(s)
  BY <1>1, FS_Interval
<1>4. ExistsBijection(1..Len(s), Elems(s))
  BY <1>2 DEF ExistsBijection
<1> QED BY <1>3, <1>4, FS_Bijection

\* The accesses that requests and entries of a queue carry.
Carried(s) == [i \in DOMAIN s |-> s[i].a]

LEMMA Carries ==
    ASSUME NEW R, NEW A, \A r \in R : r.a \in A, NEW s \in Seq(R)
    PROVE  /\ Carried(s) \in Seq(A) /\ Len(Carried(s)) = Len(s) /\ DOMAIN Carried(s) = DOMAIN s
           /\ \A i \in DOMAIN s : Carried(s)[i] = s[i].a
           /\ Elems(Carried(s)) = {e.a : e \in Elems(s)}
           /\ \A e \in R : Carried(Append(s, e)) = Append(Carried(s), e.a)
           /\ s # <<>> => /\ Carried(Tail(s)) = Tail(Carried(s))
                          /\ Head(Carried(s)) = Head(s).a /\ Carried(s) # <<>>
           /\ \A I \in SUBSET (DOMAIN s) : Carried(Picked(s, I)) = Picked(Carried(s), I)
<1> DEFINE c == Carried(s)
<1>1. \A i \in DOMAIN s : c[i] = s[i].a
  BY DEF Carried
<1>2. c \in [1..Len(s) -> A] /\ Len(s) \in Nat /\ DOMAIN s = 1..Len(s)
  BY DEF Carried
<1>3. c \in Seq(A) /\ Len(c) = Len(s) /\ DOMAIN c = DOMAIN s
  <2> HIDE DEF c
  <2> QED BY <1>2, Listed
<1>4. Elems(c) = {e.a : e \in Elems(s)}
  <2> HIDE DEF c
  <2> QED BY <1>1, <1>3 DEF Elems
<1>5. ASSUME NEW e \in R PROVE Carried(Append(s, e)) = Append(Carried(s), e.a)
  <2> DEFINE t == Append(s, e)  u == Append(c, e.a)
  <2>1. /\ DOMAIN t = DOMAIN s \union {Len(s) + 1} /\ t[Len(s) + 1] = e
        /\ \A i \in DOMAIN s : t[i] = s[i]
    BY Appended
  <2>2. /\ u \in Seq(A) /\ DOMAIN u = DOMAIN s \union {Len(s) + 1} /\ u[Len(s) + 1] = e.a
        /\ \A i \in DOMAIN s : u[i] = c[i]
    <3>1. /\ u \in Seq(A) /\ DOMAIN u = DOMAIN c \union {Len(c) + 1} /\ u[Len(c) + 1] = e.a
          /\ \A i \in DOMAIN c : u[i] = c[i]
      <4> HIDE DEF c
      <4> QED BY <1>3, Appended
    <3> HIDE DEF c, u
    <3> QED BY <1>3, <3>1
  <2>3. u = [i \in DOMAIN t |-> u[i]]
    <3>1. u = [i \in DOMAIN u |-> u[i]]
      <4> HIDE DEF c, u
      <4> QED BY <2>2
    <3> HIDE DEF c, u, t
    <3> QED BY <2>1, <2>2, <3>1
  <2>4. \A i \in DOMAIN t : u[i] = t[i].a
    <3> HIDE DEF c, u, t
    <3> QED BY <1>1, <2>1, <2>2
  <2> HIDE DEF t, u
  <2>5. Carried(t) = u
    BY <2>3, <2>4 DEF Carried
  <2> QED BY <2>5 DEF t, u
<1>6. ASSUME s # <<>>
      PROVE  /\ Carried(Tail(s)) = Tail(Carried(s))
             /\ Head(Carried(s)) = Head(s).a /\ Carried(s) # <<>>
  <2> DEFINE t == Tail(s)  u == Tail(c)
  <2>1. /\ t \in Seq(R) /\ Len(t) = Len(s) - 1 /\ 1 \in DOMAIN s /\ Head(s) = s[1]
        /\ \A i \in DOMAIN t : i + 1 \in DOMAIN s /\ t[i] = s[i + 1]
    BY <1>6, Removed
  <2>2. c # <<>>
    <3> HIDE DEF c
    <3> QED BY <1>3, <2>1
  <2>3. /\ u \in Seq(A) /\ Len(u) = Len(c) - 1 /\ Head(c) = c[1]
        /\ \A i \in DOMAIN u : i + 1 \in DOMAIN c /\ u[i] = c[i + 1]
    <3> HIDE DEF c
    <3> QED BY <1>3, <2>2, Removed
  <2>4. DOMAIN u = DOMAIN t
    <3> HIDE DEF c, u, t
    <3> QED BY <1>3, <2>1, <2>3
  <2>5. \A i \in DOMAIN t : u[i] = t[i].a
    <3> HIDE DEF c, u, t
    <3> QED BY <1>1, <2>1, <2>3, <2>4
  <2>6. u = [i \in DOMAIN u |-> u[i]]
    <3> HIDE DEF c, u
    <3> QED BY <2>3
  <2>7. Carried(t) = u
    <3> HIDE DEF c, u, t
    <3> QED BY <2>4, <2>5, <2>6 DEF Carried
  <2>8. Head(c) = Head(s).a
    <3> HIDE DEF c
    <3> QED BY <1>1, <2>1, <2>3
  <2> QED BY <2>2, <2>7, <2>8
<1>7. ASSUME NEW I \in SUBSET (DOMAIN s)
      PROVE  Carried(Picked(s, I)) = Picked(Carried(s), I)
  <2>1. /\ DOMAIN Picked(s, I) = 1..Cardinality(I)
        /\ \A k \in 1..Cardinality(I) : Picked(s, I)[k] = s[Nth(I, k)]
    BY DEF Picked
  <2>2. \A k \in 1..Cardinality(I) : Nth(I, k) \in DOMAIN s
    BY <1>2, Ranks
  <2>3. \A k \in 1..Cardinality(I) : Picked(s, I)[k].a = c[Nth(I, k)]
    <3> HIDE DEF c
    <3> QED BY <1>1, <2>1, <2>2
  <2>4. Carried(Picked(s, I)) = [k \in 1..Cardinality(I) |-> c[Nth(I, k)]]
    <3> HIDE DEF c
    <3> QED BY <2>1, <2>3 DEF Carried
  <2> QED BY <2>4 DEF Picked
<1> HIDE DEF c
<1>8. c = Carried(s)
  BY DEF c
<1> QED BY <1>1, <1>3, <1>4, <1>5, <1>6, <1>7, <1>8
---------------------------------------------------------------------------
(* The ports of the memories                                               *)

Request == [a : Accesses, back : BOOLEAN, wait : Nat]
Entry == [a : Accesses, wait : Nat]
Port == [queue : Seq(Entry), busy : Nat]

\* Port w of SM s: its accesses belong there, each is in its queue once, and their
\* transfers do not overlap.
PortGood(p, s, w) ==
    /\ p \in Port /\ Len(p.queue) <= MemoryDepth
    /\ Distinct(Carried(p.queue))
    /\ \A a \in Elems(Carried(p.queue)) : Dest(a) = s /\ a.write = w
    /\ NoOverlap(p)

\* Nothing in the queue is due.
Fresh(p) == \A i \in DOMAIN p.queue : p.queue[i].wait >= 1

LEMMA Access ==
    ASSUME NEW a \in Accesses
    PROVE  /\ a.src \in SM /\ Dest(a) \in SM /\ a.write \in BOOLEAN
           /\ a.transfer \in Nat /\ a.transfer >= 1
           /\ (Dest(a) # a.src => UsesNet(a)) /\ (~UsesNet(a) => Dest(a) = a.src)
<1>1. /\ a.src \in SM /\ a.target \in SM \union {-1} /\ {a.write, a.dsm} \subseteq BOOLEAN
      /\ a.transfer \in Nat \ {0}
  BY NocAssumption
<1>2. a.target >= 0 => a.target \in SM
  BY <1>1
<1> QED BY <1>1, <1>2 DEF Dest

\* Sequences without a common element, put together.
LEMMA JoinedApart ==
    ASSUME NEW S, NEW s \in Seq(S), NEW t \in Seq(S), Distinct(s), Distinct(t),
           Elems(s) \intersect Elems(t) = {}
    PROVE  Distinct(s \o t)
<1>1. \A i \in DOMAIN s : s[i] \in Elems(s) /\ i \in Int
  BY DEF Elems
<1>2. \A i \in DOMAIN t : t[i] \in Elems(t) /\ i \in Int
  BY DEF Elems
<1>3. Len(s) \in Int /\ \A i \in DOMAIN (s \o t) : i \in Int
  <2>1. s \o t \in Seq(S)
    OBVIOUS
  <2> QED BY <2>1
<1>4. \A i \in DOMAIN (s \o t) :
           \/ i \in DOMAIN s /\ (s \o t)[i] = s[i]
           \/ i \notin DOMAIN s /\ i - Len(s) \in DOMAIN t /\ (s \o t)[i] = t[i - Len(s)]
  BY Joined
<1> DEFINE u == s \o t
<1>5. SUFFICES ASSUME NEW i \in DOMAIN u, NEW j \in DOMAIN u, u[i] = u[j] PROVE i = j
  BY DEF Distinct
<1> HIDE DEF u
<1>6. CASE i \in DOMAIN s /\ j \in DOMAIN s
  BY <1>4, <1>5, <1>6 DEF Distinct, u
<1>7. CASE i \notin DOMAIN s /\ j \notin DOMAIN s
  <2>1. i - Len(s) = j - Len(s)
    BY <1>4, <1>5, <1>7 DEF Distinct, u
  <2> QED BY <2>1, <1>3 DEF u
<1>8. CASE (i \in DOMAIN s) # (j \in DOMAIN s)
  BY <1>1, <1>2, <1>4, <1>5, <1>8 DEF u
<1> QED BY <1>6, <1>7, <1>8

\* What the subpartitions of an SM send in turn are the accesses they keep, each once.
LEMMA TurnsTaken ==
    ASSUME NEW q \in Seq(Accesses), Distinct(q)
    PROVE  InTurn(q) \in Seq(Accesses) /\ Distinct(InTurn(q)) /\ Elems(InTurn(q)) = Elems(q)
<1>1. ASSUME NEW p \in Subpartition
      PROVE  /\ OfPart(q, p) \in Seq(Accesses) /\ Distinct(OfPart(q, p))
             /\ Elems(OfPart(q, p)) = {a \in Elems(q) : a.part = p}
  <2> DEFINE I == {i \in DOMAIN q : q[i].part = p}
  <2>1. I \in SUBSET (DOMAIN q)
    OBVIOUS
  <2>2. Picked(q, I) \in Seq(Accesses) /\ Elems(Picked(q, I)) = {q[i] : i \in I}
    BY <2>1, Picks
  <2>3. Distinct(Picked(q, I))
    BY <2>1, Splits
  <2>4. {q[i] : i \in I} = {a \in Elems(q) : a.part = p}
    BY DEF Elems
  <2> QED BY <2>2, <2>3, <2>4 DEF OfPart
<1>2. \A a \in Elems(q) : a.part \in Subpartition
  BY NocAssumption DEF Elems
<1> DEFINE a == OfPart(q, 0)  b == OfPart(q, 1)  c == OfPart(q, 2)  d == OfPart(q, 3)
<1>3. /\ a \in Seq(Accesses) /\ Distinct(a) /\ Elems(a) = {e \in Elems(q) : e.part = 0}
      /\ b \in Seq(Accesses) /\ Distinct(b) /\ Elems(b) = {e \in Elems(q) : e.part = 1}
      /\ c \in Seq(Accesses) /\ Distinct(c) /\ Elems(c) = {e \in Elems(q) : e.part = 2}
      /\ d \in Seq(Accesses) /\ Distinct(d) /\ Elems(d) = {e \in Elems(q) : e.part = 3}
  BY <1>1 DEF Subpartition
<1>4. InTurn(q) = ((a \o b) \o c) \o d
  BY DEF InTurn
<1> HIDE DEF a, b, c, d
<1>5. /\ a \o b \in Seq(Accesses) /\ Elems(a \o b) = Elems(a) \union Elems(b)
      /\ Distinct(a \o b)
  <2>1. Elems(a) \intersect Elems(b) = {}
    BY <1>3
  <2> QED BY <1>3, <2>1, Joined, JoinedApart
<1> DEFINE ab == a \o b
<1> HIDE DEF ab
<1>6. /\ ab \o c \in Seq(Accesses) /\ Elems(ab \o c) = Elems(ab) \union Elems(c)
      /\ Distinct(ab \o c)
  <2>1. Elems(ab) \intersect Elems(c) = {}
    BY <1>3, <1>5 DEF ab
  <2> QED BY <1>3, <1>5, <2>1, Joined, JoinedApart DEF ab
<1> DEFINE abc == ab \o c
<1> HIDE DEF abc
<1>7. /\ abc \o d \in Seq(Accesses) /\ Elems(abc \o d) = Elems(abc) \union Elems(d)
      /\ Distinct(abc \o d)
  <2>1. Elems(abc) \intersect Elems(d) = {}
    BY <1>3, <1>5, <1>6 DEF ab, abc
  <2> QED BY <1>3, <1>6, <2>1, Joined, JoinedApart DEF abc
<1>8. Elems(abc \o d) = Elems(q)
  <2>1. Elems(abc \o d) = Elems(a) \union Elems(b) \union Elems(c) \union Elems(d)
    BY <1>5, <1>6, <1>7 DEF ab, abc
  <2> QED BY <1>2, <1>3, <2>1 DEF Subpartition
<1> QED BY <1>4, <1>7, <1>8 DEF ab, abc

LEMMA Queue ==
    ASSUME NEW q \in Seq(Entry)
    PROVE  /\ Carried(q) \in Seq(Accesses) /\ DOMAIN Carried(q) = DOMAIN q
           /\ \A i \in DOMAIN q : /\ q[i].a \in Accesses /\ q[i].wait \in Nat /\ i \in Nat /\ i >= 1
                                  /\ q[i].a.transfer \in Nat /\ q[i].a.transfer >= 1
                                  /\ Carried(q)[i] = q[i].a
<1>1. \A e \in Entry : e.a \in Accesses /\ e.wait \in Nat
  BY DEF Entry
<1>2. Carried(q) \in Seq(Accesses) /\ DOMAIN Carried(q) = DOMAIN q
      /\ \A i \in DOMAIN q : Carried(q)[i] = q[i].a
  BY <1>1, Carries
<1>3. \A i \in DOMAIN q : q[i] \in Entry /\ i \in Nat /\ i >= 1
  OBVIOUS
<1> QED BY <1>1, <1>2, <1>3, Access

\* What taking an access, a cycle, and handing out what is due do to a port.
Took(p, a) == [queue |-> Append(p.queue, [a |-> a, wait |-> Begins(p) + a.transfer]),
               busy |-> Begins(p) + a.transfer]
Older(p) == [queue |-> [i \in DOMAIN p.queue |-> [p.queue[i] EXCEPT !.wait = Aged(@)]],
             busy |-> Aged(p.busy)]
Left(p) == [p EXCEPT !.queue = Picked(@, DOMAIN @ \ Due(@))]
Out(p) == Picked(p.queue, Due(p.queue))

LEMMA PortTakes ==
    ASSUME NEW s \in SM, NEW w \in BOOLEAN, NEW p, PortGood(p, s, w), ~(Len(p.queue) >= MemoryDepth),
           NEW a \in Accesses, Dest(a) = s, a.write = w, a \notin Elems(Carried(p.queue))
    PROVE  /\ PortGood(Took(p, a), s, w) /\ (Fresh(p) => Fresh(Took(p, a)))
           /\ Len(Took(p, a).queue) = Len(p.queue) + 1 /\ Len(p.queue) \in Nat
           /\ Elems(Carried(Took(p, a).queue)) = Elems(Carried(p.queue)) \union {a}
<1> DEFINE q == Took(p, a)
<1>0. q = Took(p, a)
  OBVIOUS
<1> DEFINE end == Begins(p) + a.transfer  e == [a |-> a, wait |-> end]
<1>1. /\ p.queue \in Seq(Entry) /\ p.busy \in Nat /\ Len(p.queue) \in Nat
      /\ \A i \in DOMAIN p.queue : p.queue[i].wait \in Nat /\ p.queue[i].wait <= p.busy
  <2>1. p.queue \in Seq(Entry) /\ p.busy \in Nat
    BY DEF PortGood, Port
  <2> QED BY <2>1, Queue DEF PortGood, NoOverlap
<1>2. a.transfer \in Nat /\ a.transfer >= 1
  BY Access
<1>3. end \in Nat /\ end >= 1 /\ end - p.busy >= a.transfer /\ end >= p.busy
  <2>1. Begins(p) \in Nat /\ Begins(p) >= p.busy
    BY <1>1, MemoryAssumption DEF Begins
  <2> QED BY <1>1, <1>2, <2>1
<1>4. e \in Entry /\ e.a = a /\ e.wait = end
  BY <1>3 DEF Entry
<1> HIDE DEF end, e
<1>5. q.queue = Append(p.queue, e) /\ q.busy = end /\ q = [queue |-> q.queue, busy |-> q.busy]
  BY DEF e, end, Took
<1> HIDE DEF q
<1>6. /\ q.queue \in Seq(Entry) /\ Len(q.queue) = Len(p.queue) + 1
      /\ DOMAIN q.queue = DOMAIN p.queue \union {Len(p.queue) + 1} /\ Len(p.queue) + 1 \notin DOMAIN p.queue
      /\ \A i \in DOMAIN p.queue : i < Len(p.queue) + 1 /\ q.queue[i] = p.queue[i]
      /\ q.queue[Len(p.queue) + 1] = e
  BY <1>1, <1>4, <1>5, Appended
<1>7. q \in Port
  BY <1>3, <1>5, <1>6 DEF Port
<1>8. /\ Carried(q.queue) = Append(Carried(p.queue), a) /\ Carried(p.queue) \in Seq(Accesses)
  <2>1. \A r \in Entry : r.a \in Accesses
    BY DEF Entry
  <2>2. Carried(Append(p.queue, e)) = Append(Carried(p.queue), e.a)
    <3> DEFINE t == p.queue
    <3>1. t \in Seq(Entry)
      BY <1>1
    <3> HIDE DEF t
    <3>2. \A r \in Entry : Carried(Append(t, r)) = Append(Carried(t), r.a)
      BY <2>1, <3>1, Carries
    <3>3. Carried(Append(t, e)) = Append(Carried(t), e.a)
      BY <1>4, <3>2
    <3> QED BY <3>3 DEF t
  <2>3. Carried(p.queue) \in Seq(Accesses)
    BY <1>1, Queue
  <2> QED BY <1>4, <1>5, <2>2, <2>3
<1>9. Elems(Carried(q.queue)) = Elems(Carried(p.queue)) \union {a}
  <2>1. Elems(Append(Carried(p.queue), a)) = Elems(Carried(p.queue)) \union {a}
    BY <1>8, Appended
  <2> QED BY <1>8, <2>1
<1>10. Distinct(Carried(q.queue))
  BY <1>8, AddsOne DEF PortGood
<1>11. NoOverlap(q)
  <2>1. SUFFICES ASSUME NEW i \in DOMAIN q.queue
                 PROVE  /\ q.queue[i].wait <= q.busy
                        /\ \A j \in 1..i - 1 :
                              q.queue[i].wait - q.queue[j].wait >= q.queue[i].a.transfer
    BY DEF NoOverlap
  <2>2. CASE i \in DOMAIN p.queue
    <3>1. \A j \in 1..i - 1 : j \in DOMAIN p.queue
      BY <1>1, <2>2
    <3>2. q.queue[i] = p.queue[i] /\ \A j \in 1..i - 1 : q.queue[j] = p.queue[j]
      BY <1>6, <2>2, <3>1
    <3>3. p.queue[i].wait <= end
      BY <1>1, <1>3, <2>2
    <3> QED BY <1>5, <2>2, <3>2, <3>3 DEF PortGood, NoOverlap
  <2>3. CASE i = Len(p.queue) + 1
    <3>1. \A j \in 1..i - 1 : j \in DOMAIN p.queue
      BY <1>1, <2>3
    <3>2. q.queue[i] = e /\ \A j \in 1..i - 1 : q.queue[j] = p.queue[j]
      BY <1>6, <2>3, <3>1
    <3>3. \A j \in 1..i - 1 : end - p.queue[j].wait >= a.transfer
      BY <1>1, <1>2, <1>3, <3>1
    <3> QED BY <1>3, <1>4, <1>5, <3>2, <3>3
  <2> QED BY <1>6, <2>2, <2>3
<1>12. Fresh(p) => Fresh(q)
  BY <1>3, <1>4, <1>6 DEF Fresh
<1>13. Len(q.queue) <= MemoryDepth
  BY <1>1, <1>6, MemoryAssumption
<1>14. \A b \in Elems(Carried(q.queue)) : Dest(b) = s /\ b.write = w
  BY <1>9 DEF PortGood
<1>15. PortGood(q, s, w)
  BY <1>7, <1>10, <1>11, <1>13, <1>14 DEF PortGood
<1> QED BY <1>0, <1>1, <1>6, <1>9, <1>12, <1>15

LEMMA PortAges ==
    ASSUME NEW s \in SM, NEW w \in BOOLEAN, NEW p, PortGood(p, s, w), Fresh(p)
    PROVE  PortGood(Older(p), s, w) /\ Carried(Older(p).queue) = Carried(p.queue)
<1> DEFINE q == Older(p)
<1>0. q = Older(p) /\ q = [queue |-> [i \in DOMAIN p.queue |-> [p.queue[i] EXCEPT !.wait = Aged(@)]],
                          busy |-> Aged(p.busy)]
  BY DEF Older
<1> HIDE DEF q
<1>1. /\ p.queue \in Seq(Entry) /\ p.busy \in Nat /\ Len(p.queue) \in Nat
      /\ DOMAIN p.queue = 1..Len(p.queue)
      /\ \A i \in DOMAIN p.queue : p.queue[i] \in Entry
  BY DEF PortGood, Port
<1>2. \A i \in DOMAIN p.queue :
          /\ p.queue[i].wait \in Nat /\ p.queue[i].wait <= p.busy /\ p.queue[i].wait >= 1
          /\ p.queue[i].a \in Accesses /\ p.queue[i].a.transfer \in Nat
  BY <1>1, Queue DEF PortGood, NoOverlap, Fresh
<1>3. /\ q.busy = Aged(p.busy) /\ DOMAIN q.queue = DOMAIN p.queue
      /\ \A i \in DOMAIN p.queue : q.queue[i] = [p.queue[i] EXCEPT !.wait = Aged(@)]
  BY <1>0
<1>4. \A i \in DOMAIN p.queue :
          /\ q.queue[i] \in Entry /\ q.queue[i].a = p.queue[i].a
          /\ q.queue[i].wait = p.queue[i].wait - 1
  <2>1. SUFFICES ASSUME NEW i \in DOMAIN p.queue
                 PROVE  /\ q.queue[i] \in Entry /\ q.queue[i].a = p.queue[i].a
                        /\ q.queue[i].wait = p.queue[i].wait - 1
    OBVIOUS
  <2>2. Aged(p.queue[i].wait) = p.queue[i].wait - 1 /\ p.queue[i].wait - 1 \in Nat
    BY <1>2 DEF Aged
  <2>3. q.queue[i] = [p.queue[i] EXCEPT !.wait = p.queue[i].wait - 1]
    BY <1>3, <2>2
  <2>4. p.queue[i] \in Entry
    BY <1>1
  <2> QED BY <2>2, <2>3, <2>4 DEF Entry
<1>5. q.queue \in Seq(Entry) /\ Len(q.queue) = Len(p.queue)
  <2>1. q.queue = [i \in 1..Len(p.queue) |-> q.queue[i]]
    BY <1>0, <1>1
  <2>2. q.queue \in [1..Len(p.queue) -> Entry]
    BY <1>1, <1>4, <2>1
  <2> QED BY <1>1, <2>2, Listed
<1>6. q \in Port
  <2>1. Aged(p.busy) \in Nat
    BY <1>1 DEF Aged
  <2>2. q = [queue |-> q.queue, busy |-> q.busy]
    BY <1>0
  <2> QED BY <1>3, <1>5, <2>1, <2>2 DEF Port
<1>7. Carried(q.queue) = Carried(p.queue)
  BY <1>3, <1>4 DEF Carried
<1>8. NoOverlap(q)
  <2>1. SUFFICES ASSUME NEW i \in DOMAIN p.queue
                 PROVE  /\ q.queue[i].wait <= q.busy
                        /\ \A j \in 1..i - 1 :
                              q.queue[i].wait - q.queue[j].wait >= q.queue[i].a.transfer
    BY <1>3 DEF NoOverlap
  <2>2. q.queue[i].wait <= q.busy
    BY <1>1, <1>2, <1>3, <1>4 DEF Aged
  <2>3. ASSUME NEW j \in 1..i - 1
        PROVE  q.queue[i].wait - q.queue[j].wait >= q.queue[i].a.transfer
    <3>1. j \in DOMAIN p.queue
      BY <1>1
    <3>2. p.queue[i].wait - p.queue[j].wait >= p.queue[i].a.transfer
      BY DEF PortGood, NoOverlap
    <3>3. /\ p.queue[i].wait \in Nat /\ p.queue[j].wait \in Nat /\ p.queue[i].a.transfer \in Nat
          /\ q.queue[i].wait = p.queue[i].wait - 1 /\ q.queue[j].wait = p.queue[j].wait - 1
          /\ q.queue[i].a = p.queue[i].a
      BY <1>2, <1>4, <3>1
    <3> QED BY <3>2, <3>3
  <2> QED BY <2>2, <2>3
<1> QED BY <1>0, <1>5, <1>6, <1>7, <1>8 DEF PortGood

LEMMA PortGives ==
    ASSUME NEW s \in SM, NEW w \in BOOLEAN, NEW p, PortGood(p, s, w)
    PROVE  /\ PortGood(Left(p), s, w) /\ Fresh(Left(p))
           /\ Out(p) \in Seq(Entry) /\ Distinct(Carried(Out(p)))
           /\ Elems(Carried(Out(p))) \subseteq Elems(Carried(p.queue))
           /\ Elems(Carried(Left(p).queue)) = Elems(Carried(p.queue)) \ Elems(Carried(Out(p)))
<1> DEFINE q == Left(p)  over == Out(p)
<1>0. /\ q = Left(p) /\ q = [p EXCEPT !.queue = Picked(@, DOMAIN @ \ Due(@))]
      /\ over = Out(p) /\ over = Picked(p.queue, Due(p.queue))
  BY DEF Left, Out
<1> HIDE DEF q, over
<1> DEFINE D == Due(p.queue)  K == DOMAIN p.queue \ D
<1>1. /\ p.queue \in Seq(Entry) /\ p.busy \in Nat /\ p = [queue |-> p.queue, busy |-> p.busy]
      /\ Len(p.queue) \in Nat
  BY DEF PortGood, Port
<1>2. D \in SUBSET (DOMAIN p.queue) /\ K \in SUBSET (DOMAIN p.queue)
  BY DEF Due
<1>3. q.queue = Picked(p.queue, K) /\ q = [queue |-> q.queue, busy |-> p.busy] /\ q.busy = p.busy
  BY <1>0, <1>1
<1>4. \A i \in K : p.queue[i].wait >= 1
  BY <1>1, Queue DEF Due
<1> HIDE DEF K
<1>5. /\ q.queue \in Seq(Entry) /\ Len(q.queue) <= Len(p.queue) /\ Len(q.queue) \in Nat
      /\ \A k \in DOMAIN q.queue : Nth(K, k) \in K /\ q.queue[k] = p.queue[Nth(K, k)]
      /\ \A k, l \in DOMAIN q.queue : k < l => Nth(K, k) < Nth(K, l)
  <2> DEFINE t == p.queue  u == Picked(t, K)
  <2>1. t \in Seq(Entry) /\ K \in SUBSET (DOMAIN t)
    BY <1>1, <1>2
  <2> HIDE DEF t
  <2>2. /\ u \in Seq(Entry) /\ Len(u) = Cardinality(K) /\ Cardinality(K) \in Nat
        /\ Cardinality(K) <= Len(t)
        /\ \A k \in DOMAIN u : Nth(K, k) \in K /\ u[k] = t[Nth(K, k)]
        /\ \A k, l \in DOMAIN u : k < l => Nth(K, k) < Nth(K, l)
    BY <2>1, Picks
  <2>3. q.queue = u /\ t = p.queue
    BY <1>3 DEF t
  <2> HIDE DEF u
  <2> QED BY <2>2, <2>3
<1> HIDE DEF D
<1>6. over \in Seq(Entry)
  BY <1>0, <1>1, <1>2, Picks DEF D
<1>7. /\ Carried(q.queue) = Picked(Carried(p.queue), K)
      /\ Carried(over) = Picked(Carried(p.queue), D)
      /\ Carried(p.queue) \in Seq(Accesses) /\ DOMAIN Carried(p.queue) = DOMAIN p.queue
  <2>1. \A r \in Entry : r.a \in Accesses
    BY DEF Entry
  <2>2. \A I \in SUBSET (DOMAIN p.queue) : Carried(Picked(p.queue, I)) = Picked(Carried(p.queue), I)
    BY <1>1, <2>1, Carries
  <2>3. over = Picked(p.queue, D)
    BY <1>0 DEF D
  <2> QED BY <1>1, <1>2, <1>3, <2>2, <2>3, Queue
<1>8. Distinct(Carried(p.queue))
  BY DEF PortGood
<1>9. /\ Distinct(Carried(over)) /\ Elems(Carried(over)) \subseteq Elems(Carried(p.queue))
      /\ Elems(Picked(Carried(p.queue), DOMAIN Carried(p.queue) \ D)) =
             Elems(Carried(p.queue)) \ Elems(Carried(over))
  <2> DEFINE c == Carried(p.queue)
  <2>1. c \in Seq(Accesses) /\ D \in SUBSET (DOMAIN c) /\ Distinct(c)
    BY <1>2, <1>7, <1>8
  <2> HIDE DEF c
  <2>2. /\ Distinct(Picked(c, D)) /\ Elems(Picked(c, D)) \subseteq Elems(c)
        /\ Elems(Picked(c, DOMAIN c \ D)) = Elems(c) \ Elems(Picked(c, D))
    BY <2>1, Splits
  <2>3. c = Carried(p.queue)
    BY DEF c
  <2> QED BY <1>7, <2>2, <2>3
<1>10. Elems(Carried(q.queue)) = Elems(Carried(p.queue)) \ Elems(Carried(over))
  BY <1>7, <1>9 DEF K
<1>11. Distinct(Carried(q.queue))
  <2> DEFINE c == Carried(p.queue)
  <2>1. c \in Seq(Accesses) /\ K \in SUBSET (DOMAIN c) /\ Distinct(c)
    BY <1>2, <1>7, <1>8
  <2> HIDE DEF c
  <2>2. Distinct(Picked(c, K))
    BY <2>1, Splits
  <2> QED BY <1>7, <2>2 DEF c
<1>12. q \in Port
  BY <1>1, <1>3, <1>5 DEF Port
<1>13. Fresh(q)
  BY <1>4, <1>5 DEF Fresh
<1>14. NoOverlap(q)
  <2>1. SUFFICES ASSUME NEW i \in DOMAIN q.queue
                 PROVE  /\ q.queue[i].wait <= q.busy
                        /\ \A j \in 1..i - 1 :
                              q.queue[i].wait - q.queue[j].wait >= q.queue[i].a.transfer
    BY DEF NoOverlap
  <2>2. Nth(K, i) \in DOMAIN p.queue /\ q.queue[i] = p.queue[Nth(K, i)]
    BY <1>2, <1>5
  <2>3. q.queue[i].wait <= q.busy
    BY <1>3, <2>2 DEF PortGood, NoOverlap
  <2>4. ASSUME NEW j \in 1..i - 1
        PROVE  q.queue[i].wait - q.queue[j].wait >= q.queue[i].a.transfer
    <3>1. j \in DOMAIN q.queue /\ j < i
      BY <1>5
    <3>2. Nth(K, j) \in DOMAIN p.queue /\ q.queue[j] = p.queue[Nth(K, j)] /\ Nth(K, j) < Nth(K, i)
      BY <1>2, <1>5, <3>1
    <3>3. Nth(K, j) \in 1..Nth(K, i) - 1
      <4>1. \A x \in DOMAIN p.queue : x \in Nat /\ x >= 1
        BY <1>1
      <4>2. Nth(K, j) \in Nat /\ Nth(K, i) \in Nat /\ Nth(K, j) >= 1
        BY <2>2, <3>2, <4>1
      <4> QED BY <3>2, <4>2
    <3> QED BY <2>2, <3>2, <3>3 DEF PortGood, NoOverlap
  <2> QED BY <2>3, <2>4
<1>15. Len(q.queue) <= MemoryDepth
  BY <1>1, <1>5, MemoryAssumption DEF PortGood
<1>16. \A a \in Elems(Carried(q.queue)) : Dest(a) = s /\ a.write = w
  BY <1>10 DEF PortGood
<1>17. PortGood(q, s, w)
  BY <1>11, <1>12, <1>14, <1>15, <1>16 DEF PortGood
<1> QED BY <1>0, <1>6, <1>9, <1>10, <1>13, <1>17
---------------------------------------------------------------------------
(* The memories                                                            *)

HeldAt(m, s, w) == Elems(Carried(m[s][w].queue))

MemoriesOK(m) ==
    /\ m \in [SM -> [BOOLEAN -> Port]]
    /\ \A s \in SM, w \in BOOLEAN : PortGood(m[s][w], s, w)

Held(s, w) == HeldAt(sram, s, w)
SramOK == MemoriesOK(sram)

\* Every access in a memory is at the port of its destination that it needs.
LEMMA HeldWhere ==
    ASSUME NEW m, MemoriesOK(m)
    PROVE  UNION {Contents(m[s]) : s \in SM} =
               {a \in Accesses : a \in HeldAt(m, Dest(a), a.write)}
<1>1. \A s \in SM, w \in BOOLEAN :
          /\ HeldAt(m, s, w) = {m[s][w].queue[i].a : i \in DOMAIN m[s][w].queue}
          /\ HeldAt(m, s, w) \subseteq Accesses
          /\ \A a \in HeldAt(m, s, w) : Dest(a) = s /\ a.write = w
  <2>1. SUFFICES ASSUME NEW s \in SM, NEW w \in BOOLEAN
                 PROVE  /\ HeldAt(m, s, w) = {m[s][w].queue[i].a : i \in DOMAIN m[s][w].queue}
                        /\ HeldAt(m, s, w) \subseteq Accesses
                        /\ \A a \in HeldAt(m, s, w) : Dest(a) = s /\ a.write = w
    OBVIOUS
  <2>2. PortGood(m[s][w], s, w) /\ m[s][w].queue \in Seq(Entry)
    BY DEF MemoriesOK, PortGood, Port
  <2>3. /\ DOMAIN Carried(m[s][w].queue) = DOMAIN m[s][w].queue
        /\ \A i \in DOMAIN m[s][w].queue :
              m[s][w].queue[i].a \in Accesses /\ Carried(m[s][w].queue)[i] = m[s][w].queue[i].a
    BY <2>2, Queue
  <2>4. HeldAt(m, s, w) = {m[s][w].queue[i].a : i \in DOMAIN m[s][w].queue}
    BY <2>3 DEF HeldAt, Elems
  <2>5. \A a \in HeldAt(m, s, w) : Dest(a) = s /\ a.write = w
    BY <2>2 DEF HeldAt, PortGood
  <2> QED BY <2>3, <2>4, <2>5
<1>2. \A s \in SM : Contents(m[s]) = UNION {HeldAt(m, s, w) : w \in BOOLEAN}
  BY <1>1 DEF Contents
<1>3. \A a : a \in UNION {Contents(m[s]) : s \in SM} <=> \E s \in SM : \E w \in BOOLEAN : a \in HeldAt(m, s, w)
  BY <1>2
<1>4. \A a \in Accesses : Dest(a) \in SM /\ a.write \in BOOLEAN
  BY Access
<1> QED BY <1>1, <1>3, <1>4

LEMMA WhereHeld ==
    /\ SramOK => InSram = {a \in Accesses : a \in Held(Dest(a), a.write)}
    /\ SramOK' => InSram' = {a \in Accesses : a \in Held(Dest(a), a.write)'}
BY HeldWhere DEF SramOK, InSram, Held

LEMMA SramTakes ==
    ASSUME SramOK, NEW a \in Accesses, a \notin InSram, NEW d, d = Dest(a),
           ~SramFull(d, a.write), sram' = [sram EXCEPT ![d] = Taken(@, a)]
    PROVE  /\ SramOK' /\ InSram' = InSram \union {a}
           /\ \A s \in SM, w \in BOOLEAN : /\ SramFull(s, w) => SramFull(s, w)'
                                           /\ Fresh(sram[s][w]) => Fresh(sram[s][w])'
<1>1. d \in SM /\ a.write \in BOOLEAN
  BY Access
<1> DEFINE p == sram[d][a.write]  q == Took(p, a)
<1>2. /\ sram' = [s \in SM |-> sram'[s]]
      /\ \A s \in SM : sram'[s] = [w \in BOOLEAN |-> sram'[s][w]]
      /\ sram'[d][a.write] = q
      /\ \A s \in SM, w \in BOOLEAN : s # d \/ w # a.write => sram'[s][w] = sram[s][w]
  <2>1. sram \in [SM -> [BOOLEAN -> Port]]
    BY DEF SramOK, MemoriesOK
  <2>2. sram'[d] = [sram[d] EXCEPT ![a.write] = q] /\ \A s \in SM : s # d => sram'[s] = sram[s]
    BY <1>1, <2>1 DEF Taken, Took
  <2> HIDE DEF q
  <2>3. \A s \in SM : sram'[s] = [w \in BOOLEAN |-> sram'[s][w]]
    BY <1>1, <2>1, <2>2
  <2>4. sram' = [s \in SM |-> sram'[s]]
    BY <2>1
  <2>5. sram'[d][a.write] = q
    BY <1>1, <2>1, <2>2
  <2>6. \A s \in SM, w \in BOOLEAN : s # d \/ w # a.write => sram'[s][w] = sram[s][w]
    BY <1>1, <2>1, <2>2
  <2> QED BY <2>3, <2>4, <2>5, <2>6
<1>3. PortGood(p, d, a.write) /\ ~(Len(p.queue) >= MemoryDepth) /\ a \notin Elems(Carried(p.queue))
  BY <1>1, WhereHeld DEF SramOK, MemoriesOK, SramFull, IsFull, Held, HeldAt
<1> HIDE DEF p
<1>4. /\ PortGood(q, d, a.write) /\ (Fresh(p) => Fresh(q))
      /\ Len(q.queue) = Len(p.queue) + 1 /\ Len(p.queue) \in Nat
      /\ Elems(Carried(q.queue)) = Elems(Carried(p.queue)) \union {a}
  BY <1>1, <1>3, PortTakes
<1> HIDE DEF q
<1>5. SramOK'
  <2>1. \A s \in SM, w \in BOOLEAN : PortGood(sram'[s][w], s, w)
    BY <1>1, <1>2, <1>4 DEF SramOK, MemoriesOK
  <2>2. \A s \in SM, w \in BOOLEAN : sram'[s][w] \in Port
    BY <2>1 DEF PortGood
  <2>3. sram' \in [SM -> [BOOLEAN -> Port]]
    BY <1>2, <2>2
  <2> QED BY <2>1, <2>3 DEF SramOK, MemoriesOK
<1>6. InSram' = InSram \union {a}
  <2>1. InSram' = {b \in Accesses : b \in Held(Dest(b), b.write)'}
    BY <1>5, WhereHeld
  <2>2. Held(d, a.write)' = Held(d, a.write) \union {a}
    BY <1>2, <1>4 DEF Held, HeldAt, p
  <2>3. \A s \in SM, w \in BOOLEAN : s # d \/ w # a.write => Held(s, w)' = Held(s, w)
    BY <1>2 DEF Held, HeldAt
  <2>4. \A b \in Accesses : b \in Held(Dest(b), b.write)' <=> b \in Held(Dest(b), b.write) \/ b = a
    <3>1. SUFFICES ASSUME NEW b \in Accesses
                   PROVE  b \in Held(Dest(b), b.write)' <=> b \in Held(Dest(b), b.write) \/ b = a
      OBVIOUS
    <3>2. Dest(b) \in SM /\ b.write \in BOOLEAN
      BY Access
    <3> QED BY <2>2, <2>3, <3>2
  <2> QED BY <2>1, <2>4, WhereHeld
<1>7. ASSUME NEW s \in SM, NEW w \in BOOLEAN
      PROVE  /\ SramFull(s, w) => SramFull(s, w)'
             /\ Fresh(sram[s][w]) => Fresh(sram[s][w])'
  <2>1. CASE s = d /\ w = a.write
    <3>1. sram[s][w] = p /\ sram'[s][w] = q
      BY <1>2, <2>1 DEF p
    <3>2. Len(p.queue) >= MemoryDepth => Len(q.queue) >= MemoryDepth
      BY <1>4, MemoryAssumption
    <3> QED BY <1>4, <3>1, <3>2 DEF SramFull, IsFull, Fresh
  <2>2. CASE s # d \/ w # a.write
    BY <1>2, <2>2 DEF SramFull, IsFull, Fresh
  <2> QED BY <2>1, <2>2
<1> QED BY <1>5, <1>6, <1>7

LEMMA SramAges ==
    ASSUME SramOK, \A s \in SM, w \in BOOLEAN : Fresh(sram[s][w]),
           sram' = [s \in SM |-> AgedMemory(sram[s])]
    PROVE  SramOK' /\ InSram' = InSram
<1>1. ASSUME NEW s \in SM, NEW w \in BOOLEAN
      PROVE  PortGood(sram'[s][w], s, w) /\ Held(s, w)' = Held(s, w)
  <2>1. sram'[s][w] = Older(sram[s][w])
    BY DEF AgedMemory, Older
  <2>2. PortGood(sram[s][w], s, w)
    BY DEF SramOK, MemoriesOK
  <2>3. PortGood(sram'[s][w], s, w) /\ Carried(sram'[s][w].queue) = Carried(sram[s][w].queue)
    BY <2>1, <2>2, PortAges
  <2> QED BY <2>3 DEF Held, HeldAt
<1>2. \A s \in SM : sram'[s] = [w \in BOOLEAN |-> sram'[s][w]]
  BY DEF AgedMemory
<1>3. \A s \in SM, w \in BOOLEAN : sram'[s][w] \in Port
  BY <1>1 DEF PortGood
<1>4. sram' \in [SM -> [BOOLEAN -> Port]]
  BY <1>2, <1>3
<1>5. SramOK'
  BY <1>1, <1>4 DEF SramOK, MemoriesOK
<1>6. InSram' = {b \in Accesses : b \in Held(Dest(b), b.write)'}
  BY <1>5, WhereHeld
<1>7. \A b \in Accesses : Held(Dest(b), b.write)' = Held(Dest(b), b.write)
  BY <1>1, Access
<1> QED BY <1>5, <1>6, <1>7, WhereHeld

LEMMA SramGives ==
    ASSUME SramOK, NEW d \in SM, sram' = [sram EXCEPT ![d] = Remaining(@)],
           NEW over, over = Completed(sram[d])
    PROVE  /\ SramOK' /\ InSram' = InSram \ Elems(Carried(over))
           /\ \A w \in BOOLEAN : Fresh(sram'[d][w])
           /\ \A s \in SM, w \in BOOLEAN : Fresh(sram[s][w]) => Fresh(sram'[s][w])
           /\ over \in Seq(Entry) /\ Distinct(Carried(over))
           /\ \A a \in Elems(Carried(over)) : a \in InSram /\ Dest(a) = d
<1> DEFINE out(w) == Out(sram[d][w])
<1>1. sram \in [SM -> [BOOLEAN -> Port]]
  BY DEF SramOK, MemoriesOK
<1>2. /\ \A s \in SM : s # d => sram'[s] = sram[s]
      /\ sram' = [s \in SM |-> sram'[s]]
      /\ sram'[d] = Remaining(sram[d])
  BY <1>1
<1>3. \A w \in BOOLEAN :
          sram'[d][w] = Left(sram[d][w])
  BY <1>2 DEF Remaining, Left
<1>4. ASSUME NEW w \in BOOLEAN
      PROVE  /\ PortGood(sram'[d][w], d, w) /\ Fresh(sram'[d][w])
             /\ out(w) \in Seq(Entry) /\ Distinct(Carried(out(w)))
             /\ Elems(Carried(out(w))) \subseteq Held(d, w)
             /\ Held(d, w)' = Held(d, w) \ Elems(Carried(out(w)))
  <2>1. PortGood(sram[d][w], d, w)
    BY DEF SramOK, MemoriesOK
  <2> DEFINE p == sram[d][w]  q == sram'[d][w]  o == out(w)
  <2>2. q = Left(p)
    BY <1>3
  <2>3. o = Out(p) /\ PortGood(p, d, w)
    BY <2>1
  <2> HIDE DEF p, q, o
  <2>4. /\ PortGood(q, d, w) /\ Fresh(q)
        /\ o \in Seq(Entry) /\ Distinct(Carried(o))
        /\ Elems(Carried(o)) \subseteq Elems(Carried(p.queue))
        /\ Elems(Carried(q.queue)) = Elems(Carried(p.queue)) \ Elems(Carried(o))
    BY <2>2, <2>3, PortGives
  <2>5. p = sram[d][w] /\ q = sram'[d][w] /\ o = out(w)
    BY DEF p, q, o
  <2>6. Held(d, w) = Elems(Carried(p.queue)) /\ Held(d, w)' = Elems(Carried(q.queue))
    BY DEF Held, HeldAt, p, q
  <2> HIDE DEF out
  <2> QED BY <2>4, <2>5, <2>6
<1>5. \A s \in SM, w \in BOOLEAN : s # d => Held(s, w)' = Held(s, w) /\ sram'[s][w] = sram[s][w]
  BY <1>2 DEF Held, HeldAt
<1>6. \A s \in SM, w \in BOOLEAN : PortGood(sram'[s][w], s, w)
  <2> HIDE DEF out
  <2> QED BY <1>4, <1>5 DEF SramOK, MemoriesOK
<1>7. SramOK'
  <2>1. \A s \in SM : sram'[s] = [w \in BOOLEAN |-> sram'[s][w]]
    BY <1>1, <1>2 DEF Remaining
  <2>2. \A s \in SM, w \in BOOLEAN : sram'[s][w] \in Port
    BY <1>6 DEF PortGood
  <2>3. sram' \in [SM -> [BOOLEAN -> Port]]
    BY <1>2, <2>1, <2>2
  <2> QED BY <1>6, <2>3 DEF SramOK, MemoriesOK
<1>8. over = out(FALSE) \o out(TRUE)
  BY DEF Completed, Out
<1> HIDE DEF out
<1>9. /\ \A w \in BOOLEAN : Carried(out(w)) \in Seq(Accesses) /\ DOMAIN Carried(out(w)) = DOMAIN out(w)
                            /\ \A i \in DOMAIN out(w) : Carried(out(w))[i] = out(w)[i].a
      /\ \A w \in BOOLEAN : \A a \in Elems(Carried(out(w))) : Dest(a) = d /\ a.write = w /\ a \in InSram
  <2>1. \A w \in BOOLEAN : Carried(out(w)) \in Seq(Accesses) /\ DOMAIN Carried(out(w)) = DOMAIN out(w)
                            /\ \A i \in DOMAIN out(w) : Carried(out(w))[i] = out(w)[i].a
    BY <1>4, Queue
  <2>2. ASSUME NEW w \in BOOLEAN, NEW a \in Elems(Carried(out(w)))
        PROVE  Dest(a) = d /\ a.write = w /\ a \in InSram
    <3>1. a \in Held(d, w) /\ a \in Accesses
      BY <1>4, <2>1, <2>2 DEF Elems
    <3>2. Dest(a) = d /\ a.write = w
      BY <3>1 DEF Held, HeldAt, SramOK, MemoriesOK, PortGood
    <3> QED BY <3>1, <3>2, WhereHeld
  <2> QED BY <2>1, <2>2
<1>9a. /\ out(FALSE) \in Seq(Entry) /\ out(TRUE) \in Seq(Entry)
       /\ DOMAIN Carried(out(FALSE)) = DOMAIN out(FALSE)
       /\ DOMAIN Carried(out(TRUE)) = DOMAIN out(TRUE)
       /\ \A i \in DOMAIN out(FALSE) : Carried(out(FALSE))[i] = out(FALSE)[i].a
       /\ \A i \in DOMAIN out(TRUE) : Carried(out(TRUE))[i] = out(TRUE)[i].a
  <2>1. FALSE \in BOOLEAN /\ TRUE \in BOOLEAN
    OBVIOUS
  <2> QED BY <1>4, <1>9, <2>1
<1>10. /\ over \in Seq(Entry)
       /\ \A i \in DOMAIN over :
             \/ i \in DOMAIN out(FALSE) /\ over[i] = out(FALSE)[i]
             \/ i \notin DOMAIN out(FALSE) /\ i - Len(out(FALSE)) \in DOMAIN out(TRUE)
                /\ over[i] = out(TRUE)[i - Len(out(FALSE))]
       /\ Elems(over) = Elems(out(FALSE)) \union Elems(out(TRUE))
  <2> DEFINE f == out(FALSE)  t == out(TRUE)
  <2>1. f \in Seq(Entry) /\ t \in Seq(Entry) /\ over = f \o t
    BY <1>8, <1>9a
  <2> HIDE DEF f, t
  <2>2. /\ over \in Seq(Entry) /\ Elems(over) = Elems(f) \union Elems(t)
        /\ \A i \in DOMAIN over :
              \/ i \in DOMAIN f /\ over[i] = f[i]
              \/ i \notin DOMAIN f /\ i - Len(f) \in DOMAIN t /\ over[i] = t[i - Len(f)]
    BY <2>1, Joined
  <2> QED BY <2>2 DEF f, t
<1>11. Elems(Carried(over)) = Elems(Carried(out(FALSE))) \union Elems(Carried(out(TRUE)))
  <2>1. \A r \in Entry : r.a \in Accesses
    BY DEF Entry
  <2>2. \A s \in Seq(Entry) : Elems(Carried(s)) = {e.a : e \in Elems(s)}
    BY <2>1, Carries
  <2>3. out(FALSE) \in Seq(Entry) /\ out(TRUE) \in Seq(Entry)
    BY <1>4
  <2> QED BY <1>10, <2>2, <2>3
<1>12. Distinct(Carried(over))
  <2> DEFINE g == out(FALSE)  h == out(TRUE)  n == Len(g)
  <2>0. /\ g \in Seq(Entry) /\ DOMAIN Carried(g) = DOMAIN g /\ DOMAIN Carried(h) = DOMAIN h
        /\ \A i \in DOMAIN g : Carried(g)[i] = g[i].a
        /\ \A i \in DOMAIN h : Carried(h)[i] = h[i].a
        /\ \A i \in DOMAIN over :
              \/ i \in DOMAIN g /\ over[i] = g[i]
              \/ i - n \in DOMAIN h /\ over[i] = h[i - n]
        /\ Distinct(Carried(g)) /\ Distinct(Carried(h))
        /\ \A a \in Elems(Carried(g)) : a.write = FALSE
        /\ \A a \in Elems(Carried(h)) : a.write = TRUE
    <3>1. FALSE \in BOOLEAN /\ TRUE \in BOOLEAN
      OBVIOUS
    <3>2. \A a \in Elems(Carried(g)) : a.write = FALSE
      BY <1>9, <3>1
    <3>3. \A a \in Elems(Carried(h)) : a.write = TRUE
      BY <1>9, <3>1
    <3>4. Distinct(Carried(g)) /\ Distinct(Carried(h))
      BY <1>4, <3>1
    <3> QED BY <1>9a, <1>10, <3>2, <3>3, <3>4
  <2> HIDE DEF g, h
  <2>1. /\ DOMAIN Carried(over) = DOMAIN over
        /\ \A i \in DOMAIN over : Carried(over)[i] = over[i].a /\ i \in Nat
    BY <1>10, Queue
  <2>2. n \in Nat
    BY <2>0
  <2>3. SUFFICES ASSUME NEW i \in DOMAIN over, NEW j \in DOMAIN over, over[i].a = over[j].a
                 PROVE  i = j
    BY <2>1 DEF Distinct
  <2> DEFINE f == Carried(g)  t == Carried(h)
  <2>4. \A k \in DOMAIN over :
           \/ k \in DOMAIN f /\ over[k].a = f[k] /\ over[k].a \in Elems(f)
           \/ k - n \in DOMAIN t /\ over[k].a = t[k - n] /\ over[k].a \in Elems(t)
    BY <2>0 DEF Elems
  <2>5. \A a \in Elems(f) : a.write = FALSE
    BY <2>0
  <2>6. \A a \in Elems(t) : a.write = TRUE
    BY <2>0
  <2>7. Distinct(f) /\ Distinct(t)
    BY <2>0
  <2> HIDE DEF f, t, n
  <2>8. i = j \/ i - n = j - n
    BY <2>3, <2>4, <2>5, <2>6, <2>7 DEF Distinct
  <2> QED BY <2>1, <2>2, <2>8
<1>13. InSram' = InSram \ Elems(Carried(over))
  <2>1. InSram' = {b \in Accesses : b \in Held(Dest(b), b.write)'}
    BY <1>7, WhereHeld
  <2>2. ASSUME NEW b \in Accesses
        PROVE  b \in Held(Dest(b), b.write)' <=>
                   b \in Held(Dest(b), b.write) /\ b \notin Elems(Carried(over))
    <3>1. Dest(b) \in SM /\ b.write \in BOOLEAN
      BY Access
    <3>2. CASE Dest(b) = d
      <4>1. b \in Elems(Carried(over)) <=> b \in Elems(Carried(out(b.write)))
        BY <1>9, <1>11, <3>1
      <4> QED BY <1>4, <3>1, <3>2, <4>1
    <3>3. CASE Dest(b) # d
      <4>1. b \notin Elems(Carried(over))
        BY <1>9, <1>11, <3>3
      <4> QED BY <1>5, <3>1, <3>3, <4>1
    <3> QED BY <3>2, <3>3
  <2> QED BY <2>1, <2>2, WhereHeld
<1>14. \A s \in SM, w \in BOOLEAN : Fresh(sram[s][w]) => Fresh(sram'[s][w])
  BY <1>4, <1>5
<1>15. \A a \in Elems(Carried(over)) : a \in InSram /\ Dest(a) = d
  BY <1>9, <1>11
<1> QED BY <1>4, <1>7, <1>10, <1>12, <1>13, <1>14, <1>15
---------------------------------------------------------------------------
(* The invariant                                                           *)

\* The accesses the running loop has still to look at.
OnHand == IF phase = "network" THEN Carried(todo) ELSE todo

\* The places of an access, as sets.
Waiting == UNION {Elems(waiting[s]) : s \in SM}
ToDo == Elems(OnHand)
OnNet == Elems(Carried(net))
Refused == Elems(arrivals)
Reported == Elems(unhandled)
Returning == Elems(returns)

Basics ==
    /\ topology \in Topologies /\ sm \in SM
    /\ phase \in {"start", "forward", "network", "return", "send", "unhandled"}
    /\ IsFiniteSet(issued) /\ issued \subseteq Accesses

TodoOK ==
    /\ todo \in IF phase = "network" THEN Seq(Request) ELSE Seq(Accesses)
    /\ Distinct(OnHand)
    /\ phase = "start" => todo = <<>>
    /\ phase = "forward" => \A a \in ToDo : UsesNet(a)
    /\ phase = "network" => \A e \in Elems(todo) : ~e.back => UsesNet(e.a)
    /\ phase = "send" => \A a \in ToDo : a.src = sm

WaitOK ==
    /\ waiting \in [SM -> Seq(Accesses)]
    /\ \A s \in SM : Distinct(waiting[s]) /\ \A a \in Elems(waiting[s]) : a.src = s

NetOK ==
    /\ net \in Seq(Request) /\ Len(net) <= NetDepth
    /\ Distinct(Carried(net))
    /\ \A e \in Elems(net) : ~e.back => UsesNet(e.a)

ArrivalsOK ==
    /\ arrivals \in Seq(Accesses) /\ Distinct(arrivals)
    /\ \A a \in Refused : UsesNet(a)

ReturnsOK == returns \in Seq(Accesses) /\ Distinct(returns)

ReportsOK ==
    /\ unhandled \in Seq(Accesses) /\ Distinct(unhandled)
    /\ phase # "send" => unhandled = <<>>

Separate(A, B, C, D, E, F, G, H) ==
    /\ A \cap (B \union C \union D \union E \union F \union G \union H) = {}
    /\ B \cap (C \union D \union E \union F \union G \union H) = {}
    /\ C \cap (D \union E \union F \union G \union H) = {}
    /\ D \cap (E \union F \union G \union H) = {}
    /\ E \cap (F \union G \union H) = {}
    /\ F \cap (G \union H) = {}
    /\ G \cap H = {}

\* Every access that was issued is in exactly one place.
Apart ==
    /\ issued = Waiting \union ToDo \union OnNet \union Refused \union InSram
                    \union Reported \union Returning \union done
    /\ Separate(Waiting, ToDo, OnNet, Refused, InSram, Reported, Returning, done)

\* Accesses from the network are on record from the moment a memory takes them until
\* the completion is handled.  Those of an SM to itself stay on record.
Records ==
    /\ pending \subseteq issued
    /\ \A a \in InSram : UsesNet(a) => a \in pending
    /\ Reported \subseteq pending
    /\ phase = "unhandled" => ToDo \subseteq pending
    /\ \A a \in pending :
          /\ UsesNet(a)
          /\ \/ Dest(a) = a.src \/ a \in InSram \/ a \in Reported
             \/ phase = "unhandled" /\ a \in ToDo

Refusals ==
    phase \in {"forward", "network", "return"} =>
        \A a \in Refused : SramFull(Dest(a), a.write)

\* The SMs that have stepped in this cycle have handed out what was due.
Served ==
    \A s \in SM : (phase = "start" \/ (phase \in {"send", "unhandled"} /\ s <= sm)) =>
        \A w \in BOOLEAN : Fresh(sram[s][w])

Inv ==
    /\ Basics /\ TodoOK /\ WaitOK /\ NetOK /\ ArrivalsOK /\ ReturnsOK /\ ReportsOK /\ SramOK
    /\ Apart /\ Records /\ Refusals /\ Served
---------------------------------------------------------------------------
(* Queues that gain or lose an access                                      *)

LEMMA TodoTakes ==
    ASSUME Basics, TodoOK, todo # <<>>, todo' = Tail(todo), phase' = phase, sm' = sm
    PROVE  /\ TodoOK'
           /\ Head(OnHand) \in ToDo /\ Head(OnHand) \in Accesses /\ ToDo' = ToDo \ {Head(OnHand)}
           /\ phase # "network" => Head(todo) = Head(OnHand)
           /\ phase = "network" => /\ Head(todo) \in Request /\ Head(todo).a = Head(OnHand)
                                   /\ ~Head(todo).back => UsesNet(Head(todo).a)
<1>1. OnHand \in Seq(Accesses) /\ OnHand # <<>> /\ OnHand' = Tail(OnHand)
  <2>1. CASE phase # "network"
    BY <2>1 DEF OnHand, TodoOK
  <2>2. CASE phase = "network"
    <3>1. todo \in Seq(Request) /\ \A r \in Request : r.a \in Accesses
      BY <2>2 DEF TodoOK, Request
    <3> DEFINE t == todo
    <3>2. t \in Seq(Request) /\ t # <<>>
      BY <3>1
    <3> HIDE DEF t
    <3>3. /\ Carried(t) \in Seq(Accesses) /\ Carried(Tail(t)) = Tail(Carried(t))
          /\ Carried(t) # <<>>
      BY <3>1, <3>2, Carries
    <3> QED BY <2>2, <3>3 DEF OnHand, t
  <2> QED BY <2>1, <2>2
<1>2. /\ Distinct(Tail(OnHand)) /\ Head(OnHand) \in Elems(OnHand)
      /\ Elems(Tail(OnHand)) = Elems(OnHand) \ {Head(OnHand)}
  BY <1>1, TakesOne DEF TodoOK
<1>3. Head(OnHand) \in Accesses
  BY <1>1
<1>4. /\ phase # "network" => Head(todo) = Head(OnHand) /\ todo' \in Seq(Accesses)
      /\ phase = "network" => /\ Head(todo) \in Request /\ Head(todo).a = Head(OnHand)
                              /\ todo' \in Seq(Request)
                              /\ Elems(todo') \subseteq Elems(todo) /\ Head(todo) \in Elems(todo)
  <2>1. CASE phase # "network"
    BY <2>1 DEF OnHand, TodoOK
  <2>2. CASE phase = "network"
    <3>1. todo \in Seq(Request) /\ \A r \in Request : r.a \in Accesses
      BY <2>2 DEF TodoOK, Request
    <3> DEFINE t == todo
    <3>2. t \in Seq(Request) /\ t # <<>>
      BY <3>1
    <3> HIDE DEF t
    <3>3. Head(Carried(t)) = Head(t).a
      BY <3>1, <3>2, Carries
    <3>4. /\ Tail(t) \in Seq(Request) /\ Head(t) \in Request
          /\ Elems(t) = Elems(Tail(t)) \union {Head(t)}
      BY <3>2, Removed
    <3> QED BY <2>2, <3>3, <3>4 DEF OnHand, t
  <2> QED BY <2>1, <2>2
<1>5. ToDo' = ToDo \ {Head(OnHand)} /\ Head(OnHand) \in ToDo
  BY <1>1, <1>2 DEF ToDo
<1>6. TodoOK'
  <2>1. todo' \in IF phase' = "network" THEN Seq(Request) ELSE Seq(Accesses)
    BY <1>4
  <2>2. Distinct(OnHand')
    BY <1>1, <1>2
  <2>3. phase' # "start"
    <3>1. phase = "start" => todo = <<>>
      BY DEF TodoOK
    <3> QED BY <3>1
  <2>4. phase' = "forward" => \A a \in ToDo' : UsesNet(a)
    BY <1>5 DEF TodoOK
  <2>5. phase' = "network" => \A e \in Elems(todo') : ~e.back => UsesNet(e.a)
    BY <1>4 DEF TodoOK
  <2>6. phase' = "send" => \A a \in ToDo' : a.src = sm'
    BY <1>5 DEF TodoOK
  <2> QED BY <2>1, <2>2, <2>3, <2>4, <2>5, <2>6 DEF TodoOK
<1> QED BY <1>3, <1>4, <1>5, <1>6 DEF TodoOK

LEMMA WaitAdds ==
    ASSUME WaitOK, NEW a \in Accesses, a \notin Waiting, NEW s, s = a.src,
           waiting' = [waiting EXCEPT ![s] = Append(@, a)]
    PROVE  WaitOK' /\ Waiting' = Waiting \union {a}
<1>1. s \in SM /\ waiting \in [SM -> Seq(Accesses)]
  BY Access DEF WaitOK
<1> DEFINE q == waiting[s]
<1>2. q \in Seq(Accesses) /\ Distinct(q) /\ a \notin Elems(q)
  BY <1>1 DEF WaitOK, Waiting
<1> HIDE DEF q
<1>3. Append(q, a) \in Seq(Accesses) /\ Distinct(Append(q, a)) /\ Elems(Append(q, a)) = Elems(q) \union {a}
  BY <1>2, Appended, AddsOne
<1>4. waiting'[s] = Append(q, a) /\ \A t \in SM : t # s => waiting'[t] = waiting[t]
  BY <1>1 DEF q
<1>5. waiting' \in [SM -> Seq(Accesses)]
  BY <1>1, <1>3 DEF q
<1>6. ASSUME NEW t \in SM
      PROVE  Distinct(waiting'[t]) /\ \A b \in Elems(waiting'[t]) : b.src = t
  BY <1>3, <1>4 DEF WaitOK, q
<1>7. \A b : b \in Waiting' <=> b \in Waiting \/ b = a
  <2>1. Elems(waiting'[s]) = Elems(waiting[s]) \union {a}
    BY <1>3, <1>4 DEF q
  <2> QED BY <1>1, <1>4, <2>1 DEF Waiting
<1> QED BY <1>5, <1>6, <1>7 DEF WaitOK

LEMMA WaitGives ==
    ASSUME WaitOK, NEW s \in SM, waiting' = [waiting EXCEPT ![s] = <<>>]
    PROVE  WaitOK' /\ Waiting' = Waiting \ Elems(waiting[s])
<1>1. waiting \in [SM -> Seq(Accesses)]
  BY DEF WaitOK
<1>2. waiting'[s] = <<>> /\ \A t \in SM : t # s => waiting'[t] = waiting[t]
  BY <1>1
<1>3. waiting' \in [SM -> Seq(Accesses)]
  BY <1>1
<1>4. Elems(<<>>) = {} /\ Distinct(<<>>)
  BY DEF Elems, Distinct
<1>5. \A t \in SM : Distinct(waiting'[t]) /\ \A b \in Elems(waiting'[t]) : b.src = t
  BY <1>2, <1>4 DEF WaitOK
<1>6. \A b : b \in Waiting' <=> b \in Waiting /\ b \notin Elems(waiting[s])
  <2>1. \A t \in SM : \A b \in Elems(waiting[t]) : b.src = t
    BY DEF WaitOK
  <2>2. \A b : b \in Waiting' <=> \E t \in SM : b \in Elems(waiting'[t])
    BY DEF Waiting
  <2>3. \A b : b \in Waiting <=> \E t \in SM : b \in Elems(waiting[t])
    BY DEF Waiting
  <2> QED BY <1>2, <1>4, <2>1, <2>2, <2>3
<1> QED BY <1>3, <1>5, <1>6 DEF WaitOK

LEMMA LatencyType ==
    ASSUME NEW t \in Topologies, NEW s \in SM, NEW d \in SM
    PROVE  Latency(t, s, d) \in Nat
<1>1. /\ t.rows \in Nat /\ t.cols \in Nat /\ t.base \in Nat /\ t.hop \in Nat
      /\ t.places \in Seq(Nat) /\ (t.rows > 0 <=> t.cols > 0)
  BY NocAssumption DEF IsTopology
<1>2. ASSUME IsMesh(t) PROVE HopCount(t, s, d) \in Nat
  <2>1. t.cols \in Nat /\ t.cols > 0
    BY <1>1, <1>2 DEF IsMesh
  <2>2. \A x \in SM : Place(t, x) \in Nat
    BY <1>1, NocAssumption DEF Place, SM
  <2>3. \A x \in SM : RowOf(t, x) \in Int /\ ColOf(t, x) \in Int
    BY <2>1, <2>2 DEF RowOf, ColOf
  <2>4. \A x, y \in Int : Cardinality(Between(x, y)) \in Nat
    <3>1. SUFFICES ASSUME NEW x \in Int, NEW y \in Int PROVE Cardinality(Between(x, y)) \in Nat
      OBVIOUS
    <3>2. \A l, h \in Int : Cardinality(l..h) \in Nat
      BY FS_Interval, FS_CardinalityType
    <3>3. x - 1 \in Int /\ y - 1 \in Int
      OBVIOUS
    <3> QED BY <3>2, <3>3 DEF Between
  <2>5. Distance(t, s, d) \in Nat
    <3>1. Cardinality(Between(RowOf(t, s), RowOf(t, d))) \in Nat
      BY <2>3, <2>4
    <3>2. Cardinality(Between(ColOf(t, s), ColOf(t, d))) \in Nat
      BY <2>3, <2>4
    <3>3. \A m, n \in Nat : m + n \in Nat
      OBVIOUS
    <3> QED BY <3>1, <3>2, <3>3 DEF Distance
  <2> QED BY <2>5 DEF HopCount
<1>3. ASSUME IsMesh(t) PROVE t.base + HopCount(t, s, d) * t.hop \in Nat
  BY <1>1, <1>2, <1>3
<1> QED BY <1>1, <1>3 DEF Latency

LEMMA NetAdds ==
    ASSUME Basics, NetOK, NEW a \in Accesses, a \notin OnNet, ~NetFull, NEW b \in BOOLEAN,
           b \/ UsesNet(a), net' = Append(net, Sent(a, b))
    PROVE  NetOK' /\ OnNet' = OnNet \union {a}
<1>1. net \in Seq(Request) /\ Len(net) \in Nat
  BY DEF NetOK
<1>2. Sent(a, b) \in Request /\ Sent(a, b).a = a /\ Sent(a, b).back = b
  <2>1. From(a, b) \in SM /\ To(a, b) \in SM
    BY Access DEF From, To
  <2>2. Latency(topology, From(a, b), To(a, b)) \in Nat
    BY <2>1, LatencyType DEF Basics
  <2> QED BY <2>2 DEF Sent, Request
<1>3. \A r \in Request : r.a \in Accesses
  BY DEF Request
<1> DEFINE n == net  e == Sent(a, b)
<1>4. n \in Seq(Request) /\ e \in Request /\ Distinct(Carried(n)) /\ a \notin Elems(Carried(n)) /\ e.a = a
  BY <1>1, <1>2 DEF NetOK, OnNet
<1> HIDE DEF n, e
<1>5. Carried(n) \in Seq(Accesses) /\ Carried(Append(n, e)) = Append(Carried(n), a)
  <2>1. \A r \in Request : Carried(Append(n, r)) = Append(Carried(n), r.a)
    BY <1>3, <1>4, Carries
  <2>2. Carried(n) \in Seq(Accesses)
    BY <1>3, <1>4, Carries
  <2> QED BY <1>4, <2>1, <2>2
<1>6. /\ Elems(Append(Carried(n), a)) = Elems(Carried(n)) \union {a}
      /\ Distinct(Append(Carried(n), a))
  BY <1>4, <1>5, Appended, AddsOne
<1>7. /\ Append(n, e) \in Seq(Request) /\ Len(Append(n, e)) = Len(n) + 1
      /\ Elems(Append(n, e)) = Elems(n) \union {e}
  BY <1>4, Appended
<1>8. n = net /\ net' = Append(n, e)
  BY DEF n, e
<1>9. OnNet' = OnNet \union {a}
  BY <1>5, <1>6, <1>8 DEF OnNet
<1>10. Len(net') <= NetDepth
  BY <1>1, <1>7, <1>8, NocAssumption DEF NetFull
<1>11. \A r \in Elems(net') : ~r.back => UsesNet(r.a)
  <2>1. ~e.back => UsesNet(e.a)
    BY <1>2 DEF e
  <2> QED BY <1>7, <1>8, <2>1 DEF NetOK
<1> QED BY <1>5, <1>6, <1>7, <1>8, <1>9, <1>10, <1>11 DEF NetOK

\* What the destination does with a request that arrives for access a.
LEMMA Arrives ==
    ASSUME SramOK, ArrivalsOK, NEW a \in Accesses, UsesNet(a), a \notin InSram, a \notin Refused,
           Arrive(a)
    PROVE  /\ SramOK' /\ ArrivalsOK'
           /\ \/ InSram' = InSram \union {a} /\ arrivals' = arrivals /\ pending' = pending \union {a}
              \/ /\ sram' = sram /\ Refused' = Refused \union {a} /\ pending' = pending
                 /\ SramFull(Dest(a), a.write)
           /\ \A s \in SM, w \in BOOLEAN : /\ SramFull(s, w) => SramFull(s, w)'
                                           /\ Fresh(sram[s][w]) => Fresh(sram[s][w])'
<1>1. CASE SramFull(Dest(a), a.write)
  <2>1. arrivals' = Append(arrivals, a) /\ sram' = sram /\ pending' = pending
    BY <1>1 DEF Arrive, Recorded
  <2>2. /\ Append(arrivals, a) \in Seq(Accesses) /\ Distinct(Append(arrivals, a))
        /\ Elems(Append(arrivals, a)) = Elems(arrivals) \union {a}
    BY Appended, AddsOne DEF ArrivalsOK, Refused
  <2>3. ArrivalsOK' /\ Refused' = Refused \union {a}
    BY <2>1, <2>2 DEF ArrivalsOK, Refused
  <2>4. SramOK'
    BY <2>1 DEF SramOK
  <2> QED BY <1>1, <2>1, <2>3, <2>4 DEF SramFull
<1>2. CASE ~SramFull(Dest(a), a.write)
  <2>1. sram' = [sram EXCEPT ![Dest(a)] = Taken(@, a)] /\ arrivals' = arrivals
        /\ pending' = pending \union {a}
    BY <1>2 DEF Arrive, Recorded
  <2>2. /\ SramOK' /\ InSram' = InSram \union {a}
        /\ \A s \in SM, w \in BOOLEAN : /\ SramFull(s, w) => SramFull(s, w)'
                                        /\ Fresh(sram[s][w]) => Fresh(sram[s][w])'
    BY <1>2, <2>1, SramTakes
  <2>3. ArrivalsOK'
    BY <2>1 DEF ArrivalsOK, Refused
  <2> QED BY <2>1, <2>2, <2>3
<1> QED BY <1>1, <1>2

\* An access that starts its way back, or waits for room on the network.
LEMMA GoesBack ==
    ASSUME Basics, NetOK, ReturnsOK, NEW a \in Accesses, a \notin OnNet, a \notin Returning,
           GoBack(a)
    PROVE  /\ NetOK' /\ ReturnsOK'
           /\ \/ OnNet' = OnNet \union {a} /\ returns' = returns
              \/ net' = net /\ Returning' = Returning \union {a}
<1>1. CASE NetFull
  <2>1. returns' = Append(returns, a) /\ net' = net
    BY <1>1 DEF GoBack
  <2>2. /\ Append(returns, a) \in Seq(Accesses) /\ Distinct(Append(returns, a))
        /\ Elems(Append(returns, a)) = Elems(returns) \union {a}
    BY Appended, AddsOne DEF ReturnsOK, Returning
  <2> QED BY <2>1, <2>2 DEF ReturnsOK, Returning, NetOK
<1>2. CASE ~NetFull
  <2>1. net' = Append(net, Sent(a, TRUE)) /\ returns' = returns
    BY <1>2 DEF GoBack
  <2>2. NetOK' /\ OnNet' = OnNet \union {a}
    BY <1>2, <2>1, NetAdds
  <2> QED BY <2>1, <2>2 DEF ReturnsOK
<1> QED BY <1>1, <1>2

LEMMA None == Elems(<<>>) = {} /\ Distinct(<<>>) /\ Carried(<<>>) = <<>>
BY DEF Elems, Distinct, Carried
---------------------------------------------------------------------------
(* Initial states and steps                                                *)

LEMMA InitInv == Init => Inv
<1> SUFFICES ASSUME Init PROVE Inv
  OBVIOUS
<1>1. 0 \in SM
  BY NocAssumption DEF SM
<1>2. Basics
  BY <1>1, FS_EmptySet DEF Init, Basics
<1>3. OnHand = <<>> /\ ToDo = {} /\ OnNet = {} /\ Refused = {} /\ Reported = {} /\ Returning = {}
  BY None DEF Init, OnHand, ToDo, OnNet, Refused, Reported, Returning
<1>4. TodoOK /\ NetOK /\ ArrivalsOK /\ ReturnsOK /\ ReportsOK
  BY <1>3, None, NocAssumption DEF Init, TodoOK, NetOK, ArrivalsOK, ReturnsOK, ReportsOK
<1>5. WaitOK /\ Waiting = {}
  BY None DEF Init, WaitOK, Waiting
<1>6. \A s \in SM, w \in BOOLEAN : sram[s][w] = [queue |-> <<>>, busy |-> 0]
  BY DEF Init, EmptyMemory
<1>7. \A s \in SM, w \in BOOLEAN : PortGood(sram[s][w], s, w) /\ Fresh(sram[s][w])
  <2>1. [queue |-> <<>>, busy |-> 0] \in Port
    BY DEF Port
  <2> QED BY <1>6, <2>1, None, MemoryAssumption DEF PortGood, NoOverlap, Fresh
<1>8. SramOK
  <2>1. sram \in [SM -> [BOOLEAN -> Port]]
    <3>1. EmptyMemory \in [BOOLEAN -> Port]
      BY DEF EmptyMemory, Port
    <3> QED BY <3>1 DEF Init
  <2> QED BY <1>7, <2>1 DEF SramOK, MemoriesOK
<1>9. InSram = {}
  <2>1. \A s \in SM, w \in BOOLEAN : Held(s, w) = {}
    BY <1>6, None DEF Held, HeldAt
  <2>2. \A a \in Accesses : Held(Dest(a), a.write) = {}
    BY <2>1, Access
  <2> QED BY <1>8, <2>2, WhereHeld
<1>10. Apart
  BY <1>3, <1>5, <1>9 DEF Init, Apart, Separate
<1>11. Records /\ Refusals /\ Served
  BY <1>3, <1>7, <1>9 DEF Init, Records, Refusals, Served
<1> QED BY <1>2, <1>4, <1>5, <1>8, <1>10, <1>11 DEF Inv

\* Parts of the state that a step leaves alone.
LEMMA Still ==
    /\ waiting' = waiting => Waiting' = Waiting /\ (WaitOK => WaitOK')
    /\ net' = net => OnNet' = OnNet /\ (NetOK => NetOK')
    /\ arrivals' = arrivals => Refused' = Refused /\ (ArrivalsOK => ArrivalsOK')
    /\ returns' = returns => Returning' = Returning /\ (ReturnsOK => ReturnsOK')
    /\ unhandled' = unhandled => Reported' = Reported
    /\ unhandled' = unhandled /\ phase' = phase => (ReportsOK => ReportsOK')
    /\ sram' = sram => InSram' = InSram /\ (SramOK => SramOK')
    /\ todo' = todo /\ phase' = phase => ToDo' = ToDo
    /\ todo' = todo /\ phase' = phase /\ sm' = sm => (TodoOK => TodoOK')
    /\ sram' = sram /\ phase' = phase /\ sm' = sm => (Served => Served')
    /\ sram' = sram /\ arrivals' = arrivals /\ phase' = phase => (Refusals => Refusals')
<1>1. waiting' = waiting => Waiting' = Waiting /\ (WaitOK => WaitOK')
  BY DEF Waiting, WaitOK
<1>2. net' = net => OnNet' = OnNet /\ (NetOK => NetOK')
  BY DEF OnNet, NetOK
<1>3. arrivals' = arrivals => Refused' = Refused /\ (ArrivalsOK => ArrivalsOK')
  BY DEF Refused, ArrivalsOK
<1>4. returns' = returns => Returning' = Returning /\ (ReturnsOK => ReturnsOK')
  BY DEF Returning, ReturnsOK
<1>5. unhandled' = unhandled => Reported' = Reported
  BY DEF Reported
<1>6. unhandled' = unhandled /\ phase' = phase => (ReportsOK => ReportsOK')
  BY DEF ReportsOK
<1>7. sram' = sram => InSram' = InSram /\ (SramOK => SramOK')
  BY DEF InSram, SramOK
<1>8. todo' = todo /\ phase' = phase => ToDo' = ToDo
  BY DEF ToDo, OnHand
<1>9. todo' = todo /\ phase' = phase /\ sm' = sm => (TodoOK => TodoOK')
  BY <1>8 DEF TodoOK, OnHand
<1>10. sram' = sram /\ phase' = phase /\ sm' = sm => (Served => Served')
  BY DEF Served
<1>11. sram' = sram /\ arrivals' = arrivals /\ phase' = phase => (Refusals => Refusals')
  BY DEF Refusals, Refused, SramFull
<1> QED BY <1>1, <1>2, <1>3, <1>4, <1>5, <1>6, <1>7, <1>8, <1>9, <1>10, <1>11

LEMMA Emptied == todo = <<>> => ToDo = {}
BY None DEF ToDo, OnHand

\* A loop that starts outside the network goes through a list of accesses.
LEMMA Listing ==
    ASSUME phase' # "network"
    PROVE  OnHand' = todo' /\ ToDo' = Elems(todo')
BY DEF OnHand, ToDo

LEMMA IssueInv ==
    ASSUME Inv, NEW a \in Accesses, IssueAccess(a)
    PROVE  Inv'
<1> USE DEF Inv
<1>1. /\ phase = "start" /\ a \notin issued /\ issued' = issued \union {a}
      /\ waiting' = [waiting EXCEPT ![a.src] = Append(@, a)]
      /\ UNCHANGED <<topology, phase, sm, todo, net, arrivals, sram, pending, unhandled, returns, done>>
  BY DEF IssueAccess
<1>2. a \notin Waiting
  BY <1>1 DEF Apart
<1>3. WaitOK' /\ Waiting' = Waiting \union {a}
  BY <1>1, <1>2, WaitAdds
<1>4. /\ TodoOK' /\ NetOK' /\ ArrivalsOK' /\ ReturnsOK' /\ ReportsOK' /\ SramOK' /\ Refusals' /\ Served'
      /\ ToDo' = ToDo /\ OnNet' = OnNet /\ Refused' = Refused /\ InSram' = InSram
      /\ Reported' = Reported /\ Returning' = Returning
  BY <1>1, Still
<1>5. Basics'
  BY <1>1, FS_AddElement DEF Basics
<1>6. Apart'
  BY <1>1, <1>3, <1>4 DEF Apart, Separate
<1>7. Records'
  BY <1>1, <1>4 DEF Records
<1> QED BY <1>3, <1>4, <1>5, <1>6, <1>7

LEMMA StartInv ==
    ASSUME Inv, StartCycle, topology' = topology
    PROVE  Inv'
<1> USE DEF Inv
<1>1. /\ phase = "start" /\ phase' = "forward"
      /\ net' = [i \in DOMAIN net |-> [net[i] EXCEPT !.wait = Aged(@)]]
      /\ sram' = [s \in SM |-> AgedMemory(sram[s])]
      /\ todo' = arrivals
      /\ arrivals' = Picked(arrivals, {i \in DOMAIN arrivals : arrivals[i] \notin Elems(arrivals)})
      /\ UNCHANGED <<sm, issued, waiting, pending, unhandled, returns, done>>
  BY DEF StartCycle, RetriedFirst
<1>2. todo = <<>> /\ ToDo = {}
  BY <1>1, Emptied DEF TodoOK
<1>3. arrivals' = <<>>
  <2>1. {i \in DOMAIN arrivals : arrivals[i] \notin Elems(arrivals)} = {}
    BY DEF Elems
  <2>2. arrivals' = Picked(arrivals, {})
    BY <1>1, <2>1
  <2>3. Cardinality({}) = 0
    BY FS_EmptySet
  <2> QED BY <2>2, <2>3 DEF Picked
<1>4. ArrivalsOK' /\ Refused' = {}
  BY <1>3, None DEF ArrivalsOK, Refused
<1>5. ToDo' = Refused /\ OnHand' = arrivals
  BY <1>1, Listing DEF Refused
<1>6. TodoOK'
  BY <1>1, <1>5 DEF TodoOK, ArrivalsOK
<1>7. NetOK' /\ OnNet' = OnNet
  <2>1. net \in Seq(Request) /\ Len(net) \in Nat /\ DOMAIN net = 1..Len(net)
    BY DEF NetOK
  <2>2. \A i \in DOMAIN net : net[i] \in Request
    BY <2>1
  <2>3. \A i \in DOMAIN net :
           net'[i] \in Request /\ net'[i].a = net[i].a /\ net'[i].back = net[i].back
    <3>1. SUFFICES ASSUME NEW i \in DOMAIN net
                   PROVE  net'[i] \in Request /\ net'[i].a = net[i].a /\ net'[i].back = net[i].back
      OBVIOUS
    <3>2. net[i] \in Request /\ net'[i] = [net[i] EXCEPT !.wait = Aged(@)]
      BY <1>1, <2>2
    <3>3. Aged(net[i].wait) \in Nat
      BY <3>2 DEF Aged, Request
    <3> QED BY <3>2, <3>3 DEF Request
  <2>4. DOMAIN net' = DOMAIN net
    BY <1>1
  <2>5. net' \in Seq(Request) /\ Len(net') = Len(net)
    <3>1. net' = [i \in 1..Len(net) |-> net'[i]]
      BY <1>1, <2>1
    <3>2. net' \in [1..Len(net) -> Request]
      BY <2>1, <2>3, <3>1
    <3> QED BY <2>1, <3>2, Listed
  <2>6. Carried(net') = Carried(net)
    BY <2>3, <2>4 DEF Carried
  <2>7. \A e \in Elems(net') : ~e.back => UsesNet(e.a)
    <3>1. SUFFICES ASSUME NEW i \in DOMAIN net, ~net'[i].back PROVE UsesNet(net'[i].a)
      BY <2>4 DEF Elems
    <3>2. net[i] \in Elems(net)
      BY DEF Elems
    <3> QED BY <2>3, <3>1, <3>2 DEF NetOK
  <2> QED BY <2>5, <2>6, <2>7 DEF NetOK, OnNet
<1>8. SramOK' /\ InSram' = InSram
  <2>1. \A s \in SM, w \in BOOLEAN : Fresh(sram[s][w])
    BY <1>1 DEF Served
  <2> QED BY <1>1, <2>1, SramAges
<1>9. WaitOK' /\ Waiting' = Waiting /\ ReturnsOK' /\ Returning' = Returning /\ Reported' = Reported
  BY <1>1, Still
<1>10. ReportsOK' /\ Reported = {}
  BY <1>1, None DEF ReportsOK, Reported
<1>11. Basics'
  BY <1>1 DEF Basics
<1>12. Apart'
  BY <1>1, <1>2, <1>4, <1>5, <1>7, <1>8, <1>9 DEF Apart, Separate
<1>13. Records'
  BY <1>1, <1>8, <1>9 DEF Records
<1>14. Refusals' /\ Served'
  BY <1>1, <1>4 DEF Refusals, Served
<1> QED BY <1>4, <1>6, <1>7, <1>8, <1>9, <1>10, <1>11, <1>12, <1>13, <1>14

\* An access that arrives, from the list of refusals or from the network.
LEMMA ArriveInv ==
    ASSUME Inv, phase \in {"forward", "network"}, todo # <<>>, NEW a, a = Head(OnHand),
           UsesNet(a), Arrive(a), todo' = Tail(todo),
           UNCHANGED <<topology, phase, sm, issued, waiting, net, unhandled, returns, done>>
    PROVE  Inv'
<1> USE DEF Inv
<1>1. /\ TodoOK' /\ a \in ToDo /\ a \in Accesses /\ ToDo' = ToDo \ {a}
  BY TodoTakes
<1>2. a \notin InSram /\ a \notin Refused
  BY <1>1 DEF Apart, Separate
<1>3. /\ SramOK' /\ ArrivalsOK'
      /\ \/ InSram' = InSram \union {a} /\ arrivals' = arrivals /\ pending' = pending \union {a}
         \/ /\ sram' = sram /\ Refused' = Refused \union {a} /\ pending' = pending
            /\ SramFull(Dest(a), a.write)
      /\ \A s \in SM, w \in BOOLEAN : /\ SramFull(s, w) => SramFull(s, w)'
                                      /\ Fresh(sram[s][w]) => Fresh(sram[s][w])'
  BY <1>1, <1>2, Arrives
<1>4. /\ WaitOK' /\ Waiting' = Waiting /\ NetOK' /\ OnNet' = OnNet
      /\ ReturnsOK' /\ Returning' = Returning /\ ReportsOK' /\ Reported' = Reported
  BY Still
<1>5. \/ InSram' = InSram \union {a} /\ Refused' = Refused /\ pending' = pending \union {a}
      \/ /\ InSram' = InSram /\ Refused' = Refused \union {a} /\ pending' = pending
         /\ SramFull(Dest(a), a.write) /\ sram' = sram
  BY <1>3, Still
<1>6. Basics'
  BY DEF Basics
<1>7. Apart'
  BY <1>1, <1>4, <1>5 DEF Apart, Separate
<1>8. a \in issued
  BY <1>1 DEF Apart
<1>9. Records'
  BY <1>4, <1>5, <1>8 DEF Records
<1>10. Refusals'
  <2>1. SUFFICES ASSUME NEW b \in Refused' PROVE SramFull(Dest(b), b.write)'
    BY DEF Refusals
  <2>2. b \in Accesses
    BY <1>3, <2>1 DEF ArrivalsOK, Refused, Elems
  <2>3. SramFull(Dest(b), b.write)
    <3>1. b \in Refused => SramFull(Dest(b), b.write)
      BY DEF Refusals
    <3> QED BY <1>5, <2>1, <3>1
  <2> QED BY <1>3, <2>2, <2>3, Access
<1>11. Served'
  <2>1. phase' # "start" /\ phase' \notin {"send", "unhandled"}
    OBVIOUS
  <2> QED BY <2>1 DEF Served
<1> QED BY <1>1, <1>3, <1>4, <1>6, <1>7, <1>9, <1>10, <1>11

LEMMA RetryForwardInv ==
    ASSUME Inv, RetryForward, topology' = topology
    PROVE  Inv'
<1>1. /\ phase = "forward" /\ todo # <<>> /\ Arrive(Head(todo)) /\ todo' = Tail(todo)
      /\ UNCHANGED <<phase, sm, issued, waiting, net, unhandled, returns, done>>
  BY DEF RetryForward
<1>2. OnHand = todo
  BY <1>1 DEF OnHand
<1>3. UsesNet(Head(OnHand))
  <2>1. OnHand \in Seq(Accesses) /\ OnHand # <<>>
    BY <1>1, <1>2 DEF Inv, TodoOK
  <2>2. Head(OnHand) \in ToDo
    BY <2>1, Removed DEF ToDo
  <2> QED BY <1>1, <2>2 DEF Inv, TodoOK
<1> QED BY <1>1, <1>2, <1>3, ArriveInv

LEMMA StepNetworkInv ==
    ASSUME Inv, StepNetwork, topology' = topology
    PROVE  Inv'
<1> USE DEF Inv
<1>1. /\ phase = "forward" /\ todo = <<>> /\ phase' = "network"
      /\ todo' = Picked(net, Through)
      /\ net' = Picked(net, DOMAIN net \ Through)
      /\ UNCHANGED <<sm, issued, waiting, arrivals, sram, pending, unhandled, returns, done>>
  BY DEF StepNetwork
<1>2. Through \in SUBSET (DOMAIN net)
  BY DEF Through, GetThrough, Flight
<1>3. ToDo = {}
  BY <1>1, Emptied
<1> DEFINE n == net  I == Through  K == DOMAIN net \ Through
<1>4. /\ n \in Seq(Request) /\ Len(n) <= NetDepth /\ Distinct(Carried(n)) /\ Len(n) \in Nat
      /\ I \in SUBSET (DOMAIN n) /\ K \in SUBSET (DOMAIN n) /\ K = DOMAIN n \ I
      /\ \A e \in Elems(n) : ~e.back => UsesNet(e.a)
  BY <1>2 DEF NetOK
<1>5. todo' = Picked(n, I) /\ net' = Picked(n, K) /\ OnNet = Elems(Carried(n))
  BY <1>1 DEF OnNet
<1> HIDE DEF n, I, K
<1>6. \A r \in Request : r.a \in Accesses
  BY DEF Request
<1>7. /\ Picked(n, I) \in Seq(Request) /\ Picked(n, K) \in Seq(Request)
      /\ Len(Picked(n, K)) = Cardinality(K) /\ Cardinality(K) <= Len(n) /\ Cardinality(K) \in Nat
      /\ Elems(Picked(n, I)) \subseteq Elems(n) /\ Elems(Picked(n, K)) \subseteq Elems(n)
  <2>1. /\ Picked(n, I) \in Seq(Request) /\ Elems(Picked(n, I)) = {n[i] : i \in I}
    BY <1>4, Picks
  <2>2. /\ Picked(n, K) \in Seq(Request) /\ Elems(Picked(n, K)) = {n[i] : i \in K}
        /\ Len(Picked(n, K)) = Cardinality(K) /\ Cardinality(K) <= Len(n) /\ Cardinality(K) \in Nat
    BY <1>4, Picks
  <2> QED BY <1>4, <2>1, <2>2 DEF Elems
<1>8. /\ Carried(n) \in Seq(Accesses) /\ DOMAIN Carried(n) = DOMAIN n
      /\ Carried(Picked(n, I)) = Picked(Carried(n), I)
      /\ Carried(Picked(n, K)) = Picked(Carried(n), K)
  <2>1. /\ Carried(n) \in Seq(Accesses) /\ DOMAIN Carried(n) = DOMAIN n
        /\ \A J \in SUBSET (DOMAIN n) : Carried(Picked(n, J)) = Picked(Carried(n), J)
    BY <1>4, <1>6, Carries
  <2> QED BY <1>4, <2>1
<1>9. /\ Distinct(Picked(Carried(n), I)) /\ Distinct(Picked(Carried(n), K))
      /\ Elems(Picked(Carried(n), I)) \subseteq Elems(Carried(n))
      /\ Elems(Picked(Carried(n), K)) = Elems(Carried(n)) \ Elems(Picked(Carried(n), I))
  <2> DEFINE c == Carried(n)
  <2>1. c \in Seq(Accesses) /\ DOMAIN c = DOMAIN n /\ Distinct(c)
    BY <1>4, <1>8
  <2> HIDE DEF c
  <2>2. I \in SUBSET (DOMAIN c) /\ K \in SUBSET (DOMAIN c) /\ K = DOMAIN c \ I
    BY <1>4, <2>1
  <2>3. /\ Distinct(Picked(c, I)) /\ Elems(Picked(c, I)) \subseteq Elems(c)
        /\ Elems(Picked(c, DOMAIN c \ I)) = Elems(c) \ Elems(Picked(c, I))
    BY <2>1, <2>2, Splits
  <2>4. Distinct(Picked(c, K))
    BY <2>1, <2>2, Splits
  <2> QED BY <2>2, <2>3, <2>4 DEF c
<1>10. NetOK'
  <2>1. NetDepth \in Nat
    BY NocAssumption
  <2>2. Len(Picked(n, K)) <= NetDepth
    BY <1>4, <1>7, <2>1
  <2>3. net' \in Seq(Request) /\ Len(net') <= NetDepth
    BY <1>5, <1>7, <2>2
  <2>4. Distinct(Carried(net'))
    BY <1>5, <1>8, <1>9
  <2>5. \A e \in Elems(net') : ~e.back => UsesNet(e.a)
    BY <1>4, <1>5, <1>7
  <2> QED BY <2>3, <2>4, <2>5 DEF NetOK
<1>11. OnHand' = Carried(todo')
  BY <1>1 DEF OnHand
<1>12. TodoOK'
  BY <1>1, <1>4, <1>5, <1>7, <1>8, <1>9, <1>11 DEF TodoOK
<1>13. /\ OnNet = OnNet' \union ToDo' /\ OnNet' \cap ToDo' = {}
  BY <1>5, <1>8, <1>9, <1>11 DEF OnNet, ToDo
<1>14. /\ WaitOK' /\ Waiting' = Waiting /\ ArrivalsOK' /\ Refused' = Refused
       /\ ReturnsOK' /\ Returning' = Returning /\ Reported' = Reported
       /\ SramOK' /\ InSram' = InSram
  BY <1>1, Still
<1>15. ReportsOK'
  BY <1>1 DEF ReportsOK
<1>16. Basics'
  BY <1>1 DEF Basics
<1>17. Apart'
  BY <1>1, <1>3, <1>13, <1>14 DEF Apart, Separate
<1>18. Records'
  BY <1>1, <1>14 DEF Records
<1>19. Refusals' /\ Served'
  BY <1>1, <1>14 DEF Refusals, Served, SramFull
<1> QED BY <1>10, <1>12, <1>14, <1>15, <1>16, <1>17, <1>18, <1>19

LEMMA LeaveNetworkInv ==
    ASSUME Inv, LeaveNetwork, topology' = topology
    PROVE  Inv'
<1> USE DEF Inv
<1>1. /\ phase = "network" /\ todo # <<>> /\ todo' = Tail(todo)
      /\ IF Head(todo).back
           THEN done' = done \union {Head(todo).a} /\ UNCHANGED <<arrivals, sram, pending>>
           ELSE Arrive(Head(todo).a) /\ UNCHANGED done
      /\ UNCHANGED <<phase, sm, issued, waiting, net, unhandled, returns>>
  BY DEF LeaveNetwork
<1> DEFINE a == Head(OnHand)
<1>2. /\ TodoOK' /\ a \in ToDo /\ a \in Accesses /\ ToDo' = ToDo \ {a}
      /\ Head(todo).a = a /\ Head(todo) \in Request /\ (~Head(todo).back => UsesNet(a))
  BY <1>1, TodoTakes
<1>3. CASE ~Head(todo).back
  BY <1>1, <1>2, <1>3, ArriveInv
<1>4. CASE Head(todo).back
  <2>1. done' = done \union {a} /\ UNCHANGED <<arrivals, sram, pending>>
    BY <1>1, <1>2, <1>4
  <2> HIDE DEF a
  <2>2. /\ WaitOK' /\ Waiting' = Waiting /\ NetOK' /\ OnNet' = OnNet
        /\ ArrivalsOK' /\ Refused' = Refused /\ SramOK' /\ InSram' = InSram
        /\ ReturnsOK' /\ Returning' = Returning /\ ReportsOK' /\ Reported' = Reported
        /\ Served' /\ Refusals'
    BY <1>1, <2>1, Still
  <2>3. Basics'
    BY <1>1 DEF Basics
  <2>4. Apart'
    BY <1>1, <1>2, <2>1, <2>2 DEF Apart, Separate
  <2>5. Records'
    BY <1>1, <2>1, <2>2 DEF Records
  <2> QED BY <1>2, <2>2, <2>3, <2>4, <2>5
<1> QED BY <1>3, <1>4

LEMMA StartReturnsInv ==
    ASSUME Inv, StartReturns, topology' = topology
    PROVE  Inv'
<1> USE DEF Inv
<1>1. /\ phase = "network" /\ todo = <<>> /\ phase' = "return"
      /\ todo' = returns /\ returns' = <<>>
      /\ UNCHANGED <<sm, issued, waiting, net, arrivals, sram, pending, unhandled, done>>
  BY DEF StartReturns
<1>2. ToDo = {} /\ ToDo' = Returning /\ OnHand' = returns
  BY <1>1, Emptied, Listing DEF Returning
<1>3. TodoOK'
  BY <1>1, <1>2 DEF TodoOK, ReturnsOK
<1>4. ReturnsOK' /\ Returning' = {}
  BY <1>1, None DEF ReturnsOK, Returning
<1>5. /\ WaitOK' /\ Waiting' = Waiting /\ NetOK' /\ OnNet' = OnNet
      /\ ArrivalsOK' /\ Refused' = Refused /\ SramOK' /\ InSram' = InSram /\ Reported' = Reported
  BY <1>1, Still
<1>6. ReportsOK' /\ Basics'
  BY <1>1 DEF ReportsOK, Basics
<1>7. Apart'
  BY <1>1, <1>2, <1>4, <1>5 DEF Apart, Separate
<1>8. Records'
  BY <1>1, <1>5 DEF Records
<1>9. Refusals' /\ Served'
  BY <1>1, <1>5 DEF Refusals, Served, SramFull
<1> QED BY <1>3, <1>4, <1>5, <1>6, <1>7, <1>8, <1>9

LEMMA RetryReturnInv ==
    ASSUME Inv, RetryReturn, topology' = topology
    PROVE  Inv'
<1> USE DEF Inv
<1>1. /\ phase = "return" /\ todo # <<>>
      /\ GoBack(Head(todo)) /\ todo' = Tail(todo)
      /\ UNCHANGED <<phase, sm, issued, waiting, arrivals, sram, pending, unhandled, done>>
  BY DEF RetryReturn
<1> DEFINE a == Head(OnHand)
<1>2. /\ TodoOK' /\ a \in ToDo /\ a \in Accesses /\ ToDo' = ToDo \ {a} /\ Head(todo) = a
  BY <1>1, TodoTakes
<1> HIDE DEF a
<1>3. a \notin OnNet /\ a \notin Returning
  BY <1>2 DEF Apart, Separate
<1>4. /\ NetOK' /\ ReturnsOK'
      /\ \/ OnNet' = OnNet \union {a} /\ returns' = returns
         \/ net' = net /\ Returning' = Returning \union {a}
  BY <1>1, <1>2, <1>3, GoesBack
<1>5. \/ OnNet' = OnNet \union {a} /\ Returning' = Returning
      \/ OnNet' = OnNet /\ Returning' = Returning \union {a}
  BY <1>4, Still
<1>6. /\ WaitOK' /\ Waiting' = Waiting /\ ArrivalsOK' /\ Refused' = Refused
      /\ SramOK' /\ InSram' = InSram /\ ReportsOK' /\ Reported' = Reported /\ Refusals' /\ Served'
  BY <1>1, Still
<1>7. Basics'
  BY <1>1 DEF Basics
<1>8. Apart'
  BY <1>1, <1>2, <1>5, <1>6 DEF Apart, Separate
<1>9. Records'
  BY <1>1, <1>6 DEF Records
<1> QED BY <1>2, <1>4, <1>6, <1>7, <1>8, <1>9

LEMMA StepSMInv ==
    ASSUME Inv, NEW s \in SM, StepSM(s), todo = <<>>, topology' = topology,
           phase \in {"return", "unhandled"},
           \A t \in SM : t < s => \A w \in BOOLEAN : Fresh(sram[t][w])
    PROVE  Inv'
<1> USE DEF Inv
<1> DEFINE over == Completed(sram[s])
           others == Picked(over, {i \in DOMAIN over : over[i].a.src # s})
<1>1. /\ phase' = "send" /\ sm' = s
      /\ sram' = [sram EXCEPT ![s] = Remaining(@)]
      /\ done' = done \union {e.a : e \in {f \in Elems(over) : f.a.src = s}}
      /\ unhandled' = [i \in DOMAIN others |-> others[i].a]
      /\ todo' = InTurn(waiting[s]) /\ waiting' = [waiting EXCEPT ![s] = <<>>]
      /\ UNCHANGED <<issued, net, arrivals, pending, returns>>
  BY DEF StepSM
<1>2. over = Completed(sram[s])
  OBVIOUS
<1> DEFINE I == {i \in DOMAIN over : over[i].a.src # s}
<1>3. I \in SUBSET (DOMAIN over) /\ others = Picked(over, I)
  OBVIOUS
<1>4. \A i \in DOMAIN over : i \in I <=> over[i].a.src # s
  OBVIOUS
<1> HIDE DEF over, I
<1>5. /\ SramOK' /\ InSram' = InSram \ Elems(Carried(over))
      /\ \A w \in BOOLEAN : Fresh(sram'[s][w])
      /\ \A t \in SM, w \in BOOLEAN : Fresh(sram[t][w]) => Fresh(sram'[t][w])
      /\ over \in Seq(Entry) /\ Distinct(Carried(over))
      /\ \A a \in Elems(Carried(over)) : a \in InSram /\ Dest(a) = s
  BY <1>1, <1>2, SramGives
<1>6. /\ Carried(over) \in Seq(Accesses) /\ DOMAIN Carried(over) = DOMAIN over
      /\ \A i \in DOMAIN over : Carried(over)[i] = over[i].a
      /\ Carried(Picked(over, I)) = Picked(Carried(over), I)
      /\ Elems(Carried(over)) = {e.a : e \in Elems(over)}
  <2>1. \A r \in Entry : r.a \in Accesses
    BY DEF Entry
  <2>2. /\ Carried(over) \in Seq(Accesses) /\ DOMAIN Carried(over) = DOMAIN over
        /\ \A i \in DOMAIN over : Carried(over)[i] = over[i].a
        /\ Elems(Carried(over)) = {e.a : e \in Elems(over)}
        /\ \A J \in SUBSET (DOMAIN over) : Carried(Picked(over, J)) = Picked(Carried(over), J)
    BY <1>5, <2>1, Carries
  <2> QED BY <1>3, <2>2
<1> DEFINE c == Carried(over)
<1>7. unhandled' = Picked(c, I)
  <2>1. unhandled' = Carried(Picked(over, I))
    BY <1>1, <1>3 DEF Carried
  <2> QED BY <1>6, <2>1
<1>8. c \in Seq(Accesses) /\ I \in SUBSET (DOMAIN c) /\ Distinct(c)
  BY <1>3, <1>5, <1>6
<1>9. /\ \A i \in DOMAIN c : i \in I <=> c[i].src # s
      /\ Elems(c) = {c[i] : i \in DOMAIN c}
      /\ {e.a : e \in {f \in Elems(over) : f.a.src = s}} = {a \in Elems(c) : a.src = s}
  <2>1. \A i \in DOMAIN c : i \in I <=> c[i].src # s
    BY <1>4, <1>6
  <2>2. Elems(c) = {c[i] : i \in DOMAIN c}
    BY DEF Elems
  <2>3. {e.a : e \in {f \in Elems(over) : f.a.src = s}} = {a \in Elems(c) : a.src = s}
    BY <1>6
  <2> QED BY <2>1, <2>2, <2>3
<1>10. c = Carried(over)
  OBVIOUS
<1> HIDE DEF c
<1>11. /\ Picked(c, I) \in Seq(Accesses) /\ Distinct(Picked(c, I))
       /\ Elems(Picked(c, I)) = {a \in Elems(c) : a.src # s}
  <2>1. Picked(c, I) \in Seq(Accesses) /\ Elems(Picked(c, I)) = {c[i] : i \in I}
    BY <1>8, Picks
  <2>2. Distinct(Picked(c, I))
    BY <1>8, Splits
  <2> QED BY <1>8, <1>9, <2>1, <2>2
<1>12. /\ done' = done \union {a \in Elems(c) : a.src = s}
       /\ Reported' = {a \in Elems(c) : a.src # s}
       /\ ReportsOK'
  BY <1>1, <1>7, <1>9, <1>11 DEF Reported, ReportsOK
<1>13. ToDo = {} /\ Reported = {}
  <2>1. unhandled = <<>>
    BY DEF ReportsOK
  <2> QED BY <2>1, None, Emptied DEF Reported
<1>14. WaitOK' /\ Waiting' = Waiting \ Elems(waiting[s])
  BY <1>1, WaitGives
<1>15. OnHand' = InTurn(waiting[s]) /\ ToDo' = Elems(waiting[s])
  <2>1. waiting[s] \in Seq(Accesses) /\ Distinct(waiting[s])
    BY DEF WaitOK
  <2> QED BY <2>1, <1>1, Listing, TurnsTaken
<1>16. Elems(waiting[s]) \subseteq Waiting
  BY DEF Waiting
<1>17. TodoOK'
  <2>1. waiting[s] \in Seq(Accesses) /\ Distinct(waiting[s]) /\ \A a \in Elems(waiting[s]) : a.src = s
    BY DEF WaitOK
  <2>2. InTurn(waiting[s]) \in Seq(Accesses) /\ Distinct(InTurn(waiting[s]))
    BY <2>1, TurnsTaken
  <2> QED BY <1>1, <1>15, <2>1, <2>2 DEF TodoOK
<1>18. /\ NetOK' /\ OnNet' = OnNet /\ ArrivalsOK' /\ Refused' = Refused
       /\ ReturnsOK' /\ Returning' = Returning
  BY <1>1, Still
<1>19. Basics'
  BY <1>1 DEF Basics
<1>20. Elems(c) \subseteq InSram /\ InSram' = InSram \ Elems(c)
  BY <1>5, <1>10
<1>21. Apart'
  BY <1>1, <1>12, <1>13, <1>14, <1>15, <1>16, <1>18, <1>20 DEF Apart, Separate
<1>22. Records'
  <2>1. \A a \in Elems(c) : a \in Accesses /\ Dest(a) = s /\ a \in InSram
    BY <1>5, <1>8, <1>10 DEF Elems
  <2>2. \A a \in Elems(c) : a.src # s => UsesNet(a)
    BY <2>1, Access
  <2>3. pending \subseteq issued /\ \A a \in InSram : UsesNet(a) => a \in pending
    BY DEF Records
  <2>4. Reported' \subseteq pending'
    BY <1>1, <1>12, <2>1, <2>2, <2>3
  <2>5. \A a \in InSram' : UsesNet(a) => a \in pending'
    BY <1>1, <1>20, <2>3
  <2>6. \A a \in pending' :
            UsesNet(a) /\ (Dest(a) = a.src \/ a \in InSram' \/ a \in Reported')
    <3>1. SUFFICES ASSUME NEW a \in pending
                   PROVE  UsesNet(a) /\ (Dest(a) = a.src \/ a \in InSram' \/ a \in Reported')
      BY <1>1
    <3>2. UsesNet(a) /\ (Dest(a) = a.src \/ a \in InSram)
      BY <1>13 DEF Records
    <3>3. a \in Elems(c) => (Dest(a) = a.src \/ a \in Reported')
      BY <1>12, <2>1
    <3> QED BY <1>20, <3>2, <3>3
  <2>7. phase' # "unhandled"
    BY <1>1
  <2> QED BY <1>1, <2>3, <2>4, <2>5, <2>6, <2>7 DEF Records
<1>23. Refusals'
  BY <1>1 DEF Refusals
<1>24. Served'
  <2>1. SUFFICES ASSUME NEW t \in SM, t <= s, NEW w \in BOOLEAN PROVE Fresh(sram'[t][w])
    BY <1>1 DEF Served
  <2>2. t = s \/ t < s
    <3>1. t \in Int /\ s \in Int
      BY DEF SM
    <3> QED BY <2>1, <3>1
  <2> QED BY <1>5, <2>2
<1> QED BY <1>5, <1>12, <1>14, <1>17, <1>18, <1>19, <1>21, <1>22, <1>23, <1>24

LEMMA FirstSMInv ==
    ASSUME Inv, FirstSM, topology' = topology
    PROVE  Inv'
<1>1. phase = "return" /\ todo = <<>> /\ StepSM(0)
  BY DEF FirstSM
<1>2. 0 \in SM /\ \A t \in SM : ~(t < 0)
  BY NocAssumption DEF SM
<1> QED BY <1>1, <1>2, StepSMInv

LEMMA NextSMInv ==
    ASSUME Inv, NextSM, topology' = topology
    PROVE  Inv'
<1>1. phase = "unhandled" /\ todo = <<>> /\ sm < NumSMs - 1 /\ StepSM(sm + 1)
  BY DEF NextSM
<1>2. sm \in SM
  BY DEF Inv, Basics
<1>3. sm + 1 \in SM /\ \A t \in SM : t < sm + 1 => t <= sm
  BY <1>1, <1>2, NocAssumption DEF SM
<1>4. \A t \in SM : t < sm + 1 => \A w \in BOOLEAN : Fresh(sram[t][w])
  BY <1>1, <1>3 DEF Inv, Served
<1> QED BY <1>1, <1>3, <1>4, StepSMInv

LEMMA SendInv ==
    ASSUME Inv, Send, topology' = topology
    PROVE  Inv'
<1> USE DEF Inv
<1> DEFINE a == Head(todo)
<1>1. /\ phase = "send" /\ todo # <<>> /\ todo' = Tail(todo)
      /\ \/ Kept(a) /\ UNCHANGED <<net, sram>>
         \/ UsesNet(a) /\ ~NetFull /\ net' = Append(net, Sent(a, FALSE)) /\ UNCHANGED <<waiting, sram>>
         \/ /\ ~UsesNet(a) /\ ~SramFull(sm, a.write)
            /\ sram' = [sram EXCEPT ![sm] = Taken(@, a)] /\ UNCHANGED <<waiting, net>>
      /\ UNCHANGED <<phase, sm, issued, arrivals, pending, unhandled, returns, done>>
  BY DEF Send
<1>2. /\ TodoOK' /\ a \in ToDo /\ a \in Accesses /\ ToDo' = ToDo \ {a}
  BY <1>1, TodoTakes
<1> HIDE DEF a
<1>3. a.src = sm /\ a \notin Waiting /\ a \notin OnNet /\ a \notin InSram
  BY <1>1, <1>2 DEF Apart, Separate, TodoOK
<1>4. /\ ArrivalsOK' /\ Refused' = Refused /\ ReturnsOK' /\ Returning' = Returning
      /\ ReportsOK' /\ Reported' = Reported
  BY <1>1, Still
<1>5. Basics' /\ Refusals'
  BY <1>1 DEF Basics, Refusals
<1>6. CASE Kept(a) /\ UNCHANGED <<net, sram>>
  <2>1. WaitOK' /\ Waiting' = Waiting \union {a}
    BY <1>2, <1>3, <1>6, WaitAdds DEF Kept
  <2>2. NetOK' /\ OnNet' = OnNet /\ SramOK' /\ InSram' = InSram /\ Served'
    BY <1>1, <1>6, Still
  <2>3. Apart'
    BY <1>1, <1>2, <1>4, <2>1, <2>2 DEF Apart, Separate
  <2>4. Records'
    BY <1>1, <1>4, <2>2 DEF Records
  <2> QED BY <1>2, <1>4, <1>5, <2>1, <2>2, <2>3, <2>4
<1>7. CASE UsesNet(a) /\ ~NetFull /\ net' = Append(net, Sent(a, FALSE)) /\ UNCHANGED <<waiting, sram>>
  <2>1. NetOK' /\ OnNet' = OnNet \union {a}
    BY <1>2, <1>3, <1>7, NetAdds
  <2>2. WaitOK' /\ Waiting' = Waiting /\ SramOK' /\ InSram' = InSram /\ Served'
    BY <1>1, <1>7, Still
  <2>3. Apart'
    BY <1>1, <1>2, <1>4, <2>1, <2>2 DEF Apart, Separate
  <2>4. Records'
    BY <1>1, <1>4, <2>2 DEF Records
  <2> QED BY <1>2, <1>4, <1>5, <2>1, <2>2, <2>3, <2>4
<1>8. CASE /\ ~UsesNet(a) /\ ~SramFull(sm, a.write)
           /\ sram' = [sram EXCEPT ![sm] = Taken(@, a)] /\ UNCHANGED <<waiting, net>>
  <2>1. sm = Dest(a)
    BY <1>2, <1>3, <1>8, Access
  <2>2. /\ SramOK' /\ InSram' = InSram \union {a}
        /\ \A s \in SM, w \in BOOLEAN : Fresh(sram[s][w]) => Fresh(sram[s][w])'
    BY <1>2, <1>3, <1>8, <2>1, SramTakes
  <2>3. WaitOK' /\ Waiting' = Waiting /\ NetOK' /\ OnNet' = OnNet
    BY <1>8, Still
  <2>4. Apart'
    BY <1>1, <1>2, <1>4, <2>2, <2>3 DEF Apart, Separate
  <2>5. Records'
    BY <1>1, <1>4, <1>8, <2>2 DEF Records
  <2>6. Served'
    BY <1>1, <2>2 DEF Served, Fresh
  <2> QED BY <1>2, <1>4, <1>5, <2>2, <2>3, <2>4, <2>5, <2>6
<1> QED BY <1>1, <1>6, <1>7, <1>8 DEF a

LEMMA StartUnhandledInv ==
    ASSUME Inv, StartUnhandled, topology' = topology
    PROVE  Inv'
<1> USE DEF Inv
<1>1. /\ phase = "send" /\ todo = <<>> /\ phase' = "unhandled"
      /\ todo' = unhandled /\ unhandled' = <<>>
      /\ UNCHANGED <<sm, issued, waiting, net, arrivals, sram, pending, returns, done>>
  BY DEF StartUnhandled
<1>2. ToDo = {} /\ ToDo' = Reported /\ OnHand' = unhandled
  BY <1>1, Emptied, Listing DEF Reported
<1>3. TodoOK'
  BY <1>1, <1>2 DEF TodoOK, ReportsOK
<1>4. ReportsOK' /\ Reported' = {}
  BY <1>1, None DEF ReportsOK, Reported
<1>5. /\ WaitOK' /\ Waiting' = Waiting /\ NetOK' /\ OnNet' = OnNet
      /\ ArrivalsOK' /\ Refused' = Refused /\ SramOK' /\ InSram' = InSram
      /\ ReturnsOK' /\ Returning' = Returning
  BY <1>1, Still
<1>6. Basics'
  BY <1>1 DEF Basics
<1>7. Apart'
  BY <1>1, <1>2, <1>4, <1>5 DEF Apart, Separate
<1>8. Records'
  BY <1>1, <1>2, <1>4, <1>5 DEF Records
<1>9. Refusals' /\ Served'
  BY <1>1 DEF Refusals, Served
<1> QED BY <1>3, <1>4, <1>5, <1>6, <1>7, <1>8, <1>9

LEMMA HandleInv ==
    ASSUME Inv, Handle, topology' = topology
    PROVE  Inv'
<1> USE DEF Inv
<1> DEFINE a == Head(todo)
<1>1. /\ phase = "unhandled" /\ todo # <<>> /\ todo' = Tail(todo)
      /\ IF NeedsReturn(a) THEN GoBack(a) ELSE UNCHANGED <<net, returns>>
      /\ done' = IF AnsweredHere(a) THEN done \union {a} ELSE done
      /\ pending' = pending \ {a}
      /\ UNCHANGED <<phase, sm, issued, waiting, arrivals, sram, unhandled>>
  BY DEF Handle
<1>2. /\ TodoOK' /\ a \in ToDo /\ a \in Accesses /\ ToDo' = ToDo \ {a}
  BY <1>1, TodoTakes
<1> HIDE DEF a
<1>3. a \in pending /\ a \notin OnNet /\ a \notin Returning /\ a \notin InSram /\ a \notin Reported
  BY <1>1, <1>2 DEF Apart, Separate, Records
<1>4. /\ WaitOK' /\ Waiting' = Waiting /\ ArrivalsOK' /\ Refused' = Refused
      /\ SramOK' /\ InSram' = InSram /\ ReportsOK' /\ Reported' = Reported /\ Refusals' /\ Served'
  BY <1>1, Still
<1>5. Basics'
  BY <1>1 DEF Basics
<1>6. Records'
  BY <1>1, <1>2, <1>3, <1>4 DEF Records
<1>7. /\ NetOK' /\ ReturnsOK'
      /\ \/ OnNet' = OnNet \union {a} /\ Returning' = Returning /\ done' = done
         \/ OnNet' = OnNet /\ Returning' = Returning \union {a} /\ done' = done
         \/ OnNet' = OnNet /\ Returning' = Returning /\ done' = done \union {a}
  <2>1. CASE a.write
    <3>1. done' = done \union {a} /\ UNCHANGED <<net, returns>>
      BY <1>1, <1>3, <2>1 DEF NeedsReturn, AnsweredHere
    <3> QED BY <3>1, Still
  <2>2. CASE ~a.write
    <3>1. done' = done /\ GoBack(a)
      BY <1>1, <1>3, <2>2 DEF NeedsReturn, AnsweredHere
    <3>2. /\ NetOK' /\ ReturnsOK'
          /\ \/ OnNet' = OnNet \union {a} /\ returns' = returns
             \/ net' = net /\ Returning' = Returning \union {a}
      BY <1>2, <1>3, <3>1, GoesBack
    <3> QED BY <3>1, <3>2, Still
  <2> QED BY <2>1, <2>2
<1>8. Apart'
  BY <1>1, <1>2, <1>4, <1>7 DEF Apart, Separate
<1> QED BY <1>2, <1>4, <1>5, <1>6, <1>7, <1>8

LEMMA EndCycleInv ==
    ASSUME Inv, EndCycle, topology' = topology
    PROVE  Inv'
<1> USE DEF Inv
<1>1. /\ phase = "unhandled" /\ todo = <<>> /\ sm = NumSMs - 1
      /\ phase' = "start" /\ sm' = 0
      /\ UNCHANGED <<todo, issued, waiting, net, arrivals, sram, pending, unhandled, returns, done>>
  BY DEF EndCycle
<1>2. ToDo = {} /\ ToDo' = {} /\ OnHand' = <<>>
  BY <1>1, Emptied, Listing, None
<1>3. TodoOK'
  BY <1>1, <1>2, None DEF TodoOK
<1>4. /\ WaitOK' /\ Waiting' = Waiting /\ NetOK' /\ OnNet' = OnNet
      /\ ArrivalsOK' /\ Refused' = Refused /\ SramOK' /\ InSram' = InSram
      /\ ReturnsOK' /\ Returning' = Returning /\ Reported' = Reported
  BY <1>1, Still
<1>5. ReportsOK'
  BY <1>1 DEF ReportsOK
<1>6. Basics'
  BY <1>1, NocAssumption DEF Basics, SM
<1>7. Apart'
  BY <1>1, <1>2, <1>4 DEF Apart, Separate
<1>8. Records'
  BY <1>1, <1>2, <1>4 DEF Records
<1>9. Refusals'
  BY <1>1 DEF Refusals
<1>10. Served'
  <2>1. \A s \in SM : s <= sm
    BY <1>1, NocAssumption DEF SM
  <2> QED BY <1>1, <2>1 DEF Served, Fresh
<1> QED BY <1>3, <1>4, <1>5, <1>6, <1>7, <1>8, <1>9, <1>10

LEMMA StepInv ==
    ASSUME Inv, [Next]_vars
    PROVE  Inv'
<1>1. CASE UNCHANGED vars
  BY <1>1, Still DEF vars, Inv, Basics, Apart, Separate, Records
<1>2. ASSUME NEW a \in Accesses, IssueAccess(a) PROVE Inv'
  BY <1>2, IssueInv
<1>3. CASE Cycle
  BY <1>3, StartInv, RetryForwardInv, StepNetworkInv, LeaveNetworkInv, StartReturnsInv,
     RetryReturnInv, FirstSMInv, SendInv, StartUnhandledInv, HandleInv, NextSMInv, EndCycleInv
     DEF Cycle, Step
<1> QED BY <1>1, <1>2, <1>3 DEF Next
---------------------------------------------------------------------------
(* Theorems                                                                *)

LEMMA TypeHolds == Inv => TypeOK
<1> SUFFICES ASSUME Inv PROVE TypeOK
  OBVIOUS
<1> USE DEF Inv
<1>1. done \subseteq issued /\ pending \subseteq issued
  BY DEF Apart, Records
<1>2. \A s \in SM : Elems(waiting[s]) \subseteq issued
  BY DEF Apart, Waiting
<1>3. Elems(net) \subseteq [a : issued, back : BOOLEAN, wait : Nat]
  <2>1. SUFFICES ASSUME NEW i \in DOMAIN net PROVE net[i] \in [a : issued, back : BOOLEAN, wait : Nat]
    BY DEF Elems
  <2>2. net[i] \in Request
    BY DEF NetOK
  <2>3. net[i].a \in OnNet
    BY DEF OnNet, Elems, Carried
  <2>4. net[i].a \in issued
    BY <2>3 DEF Apart
  <2> QED BY <2>2, <2>4 DEF Request
<1>4. ASSUME NEW s \in SM
      PROVE  /\ Contents(sram[s]) \subseteq issued
             /\ \A w \in BOOLEAN : Len(sram[s][w].queue) <= MemoryDepth
  <2>1. Contents(sram[s]) \subseteq InSram
    BY DEF InSram
  <2>2. InSram \subseteq issued
    BY DEF Apart
  <2> QED BY <2>1, <2>2 DEF SramOK, MemoriesOK, PortGood
<1>5. Elems(arrivals) \union Elems(unhandled) \union Elems(returns) \subseteq issued
  BY DEF Apart, Refused, Reported, Returning
<1>6. Len(net) <= NetDepth /\ sm \in SM /\ issued \subseteq Accesses
      /\ phase \in {"start", "forward", "network", "return", "send", "unhandled"}
  BY DEF Basics, NetOK
<1> QED BY <1>1, <1>2, <1>3, <1>4, <1>5, <1>6 DEF TypeOK

LEMMA CountOfTwo ==
    ASSUME NEW A, NEW B, IsFiniteSet(A), IsFiniteSet(B), A \cap B = {}
    PROVE  /\ IsFiniteSet(A \union B)
           /\ Cardinality(A \union B) = Cardinality(A) + Cardinality(B)
           /\ Cardinality(A) \in Nat /\ Cardinality(B) \in Nat
<1>1. Cardinality(A \cap B) = 0
  BY FS_EmptySet
<1>2. Cardinality(A) \in Nat /\ Cardinality(B) \in Nat
  BY FS_CardinalityType
<1>3. /\ IsFiniteSet(A \union B)
      /\ Cardinality(A \union B) = Cardinality(A) + Cardinality(B) - Cardinality(A \cap B)
  BY FS_Union
<1> QED BY <1>1, <1>2, <1>3

LEMMA PlacesHold == Inv => EachInOnePlace
<1> SUFFICES ASSUME Inv, phase = "start"
             PROVE  /\ Located = issued
                    /\ Cardinality(issued) =
                          Cardinality(UNION {Elems(waiting[s]) : s \in SM}) + Len(net) + Len(arrivals)
                            + Cardinality(InSram) + Len(returns) + Cardinality(done)
  BY TypeHolds DEF EachInOnePlace
<1> USE DEF Inv
<1>1. ToDo = {} /\ Reported = {}
  BY Emptied, None DEF TodoOK, ReportsOK, Reported
<1>2. OnNet = {e.a : e \in Elems(net)} /\ Carried(net) \in Seq(Accesses) /\ Len(Carried(net)) = Len(net)
  <2>1. net \in Seq(Request) /\ \A r \in Request : r.a \in Accesses
    BY DEF NetOK, Request
  <2> QED BY <2>1, Carries DEF OnNet
<1>3. issued = Waiting \union OnNet \union Refused \union InSram \union Returning \union done
  BY <1>1 DEF Apart
<1>4. Located = issued
  BY <1>2, <1>3 DEF Located, Waiting, Refused, Returning
<1>5. /\ IsFiniteSet(Waiting) /\ IsFiniteSet(OnNet) /\ IsFiniteSet(Refused)
      /\ IsFiniteSet(InSram) /\ IsFiniteSet(Returning) /\ IsFiniteSet(done)
  <2>1. IsFiniteSet(issued)
    BY DEF Basics
  <2>2. \A X \in SUBSET issued : IsFiniteSet(X)
    BY <2>1, FS_Subset
  <2> QED BY <1>3, <2>2
<1>6. /\ Cardinality(OnNet) = Len(net) /\ Cardinality(Refused) = Len(arrivals)
      /\ Cardinality(Returning) = Len(returns)
  <2>1. Cardinality(Elems(Carried(net))) = Len(Carried(net))
    BY <1>2, Counts DEF NetOK
  <2>2. Cardinality(Elems(arrivals)) = Len(arrivals)
    BY Counts DEF ArrivalsOK
  <2>3. Cardinality(Elems(returns)) = Len(returns)
    BY Counts DEF ReturnsOK
  <2> QED BY <1>2, <2>1, <2>2, <2>3 DEF OnNet, Refused, Returning
<1> DEFINE P1 == Waiting \union OnNet  P2 == P1 \union Refused  P3 == P2 \union InSram
           P4 == P3 \union Returning
<1>7. /\ Waiting \cap OnNet = {} /\ P1 \cap Refused = {} /\ P2 \cap InSram = {}
      /\ P3 \cap Returning = {} /\ P4 \cap done = {}
  BY DEF Apart, Separate
<1>8. IsFiniteSet(P1) /\ Cardinality(P1) = Cardinality(Waiting) + Cardinality(OnNet)
      /\ Cardinality(Waiting) \in Nat /\ Cardinality(OnNet) \in Nat
  BY <1>5, <1>7, CountOfTwo
<1> HIDE DEF P1
<1>9. IsFiniteSet(P2) /\ Cardinality(P2) = Cardinality(P1) + Cardinality(Refused)
      /\ Cardinality(Refused) \in Nat
  BY <1>5, <1>7, <1>8, CountOfTwo
<1> HIDE DEF P2
<1>10. IsFiniteSet(P3) /\ Cardinality(P3) = Cardinality(P2) + Cardinality(InSram)
       /\ Cardinality(InSram) \in Nat
  BY <1>5, <1>7, <1>9, CountOfTwo
<1> HIDE DEF P3
<1>11. IsFiniteSet(P4) /\ Cardinality(P4) = Cardinality(P3) + Cardinality(Returning)
       /\ Cardinality(Returning) \in Nat
  BY <1>5, <1>7, <1>10, CountOfTwo
<1> HIDE DEF P4
<1>12. Cardinality(P4 \union done) = Cardinality(P4) + Cardinality(done) /\ Cardinality(done) \in Nat
  BY <1>5, <1>7, <1>11, CountOfTwo
<1>13. issued = P4 \union done
  BY <1>3 DEF P4, P3, P2, P1
<1>14. Cardinality(issued) = Cardinality(Waiting) + Len(net) + Len(arrivals)
                               + Cardinality(InSram) + Len(returns) + Cardinality(done)
  BY <1>6, <1>8, <1>9, <1>10, <1>11, <1>12, <1>13
<1> QED BY <1>4, <1>14 DEF Waiting

\* The reachable states satisfy the invariant.
LEMMA Reachable == Spec => []Inv
<1>1. Init => Inv
  BY InitInv
<1>2. Inv /\ [Next]_vars => Inv'
  BY StepInv
<1> QED BY <1>1, <1>2, PTL DEF Spec

\* No access is lost or answered twice by the retry queues of sender, destination and
\* way back, whatever is refused (noc.h, gpu.h, gpu.cpp), and no queue exceeds its depth.
THEOREM NoneLost == Spec => []EachInOnePlace
<1>1. Inv => EachInOnePlace
  BY PlacesHold
<1> QED BY <1>1, Reachable, PTL

\* A remote access is on record exactly while a memory holds it (gpu.h), provided no
\* SM sends itself an access over the network: such a record is never taken back.
THEOREM RecordsExact ==
    ASSUME \A a \in Accesses : UsesNet(a) => Dest(a) # a.src
    PROVE  Spec => []RecordsMatch
<1>1. Inv => RecordsMatch
  <2> SUFFICES ASSUME Inv, phase = "start" PROVE pending = {a \in InSram : UsesNet(a)}
    BY DEF RecordsMatch
  <2>1. Reported = {}
    BY None DEF Inv, ReportsOK, Reported
  <2>2. pending \subseteq Accesses
    BY DEF Inv, Records, Basics
  <2> QED BY <2>1, <2>2 DEF Inv, Records
<1> QED BY <1>1, Reachable, PTL

\* What arrives later at a full memory never overtakes what was refused (gpu.h).
THEOREM NoArrivalOvertakes == Spec => []ArrivalsInOrder
<1>1. Inv => ArrivalsInOrder
  BY DEF Inv, Refusals, ArrivalsInOrder, Refused
<1> QED BY <1>1, Reachable, PTL

\* The cycles a port fixes for its requests leave each the whole of its transfer
\* (memory.h), for any latency and any mix of local and remote accesses.
THEOREM TransfersSerial == Spec => []PortsSerial
<1>1. Inv => PortsSerial
  BY DEF Inv, SramOK, MemoriesOK, PortGood, PortsSerial
<1> QED BY <1>1, Reachable, PTL
---------------------------------------------------------------------------
(* Routes on the mesh                                                      *)

LEMMA Divided ==
    ASSUME NEW k \in Nat, k > 0, NEW r \in Nat, NEW c \in Nat, c < k
    PROVE  (r * k + c) \div k = r /\ (r * k + c) % k = c
<1> DEFINE x == r * k + c  q == x \div k  m == x % k
<1>1. x \in Nat
  OBVIOUS
<1>2. q \in Int /\ m \in Int /\ x = k * q + m /\ 0 <= m /\ m < k
  <2> HIDE DEF x
  <2> QED BY <1>1
<1>3. k * q - k * r = c - m
  BY <1>2
<1>4. k * (q - r) = k * q - k * r
  BY <1>2
<1> DEFINE d == q - r
<1>5. d \in Int /\ k * d < k /\ k * d > -k
  <2> HIDE DEF x, q, m
  <2> QED BY <1>2, <1>3, <1>4
<1>6. d >= 1 => k * d >= k
  <2> HIDE DEF d
  <2> QED BY <1>5
<1>7. d <= -1 => k * d <= -k
  <2> HIDE DEF d
  <2> QED BY <1>5
<1>8. d = 0
  <2> HIDE DEF d
  <2> QED BY <1>5, <1>6, <1>7
<1>9. q = r
  <2> HIDE DEF q
  <2> QED BY <1>2, <1>8
<1>10. m = c
  <2> HIDE DEF x, q, m
  <2> QED BY <1>2, <1>3, <1>9
<1> QED BY <1>9, <1>10

LEMMA Quotient ==
    ASSUME NEW p \in Nat, NEW k \in Nat, k > 0, NEW r \in Nat, p < r * k
    PROVE  p \div k \in 0..r - 1 /\ p % k \in 0..k - 1
<1> DEFINE q == p \div k  m == p % k
<1>1. q \in Int /\ m \in Int /\ p = k * q + m /\ 0 <= m /\ m < k
  OBVIOUS
<1> HIDE DEF q, m
<1>2. q >= 0
  <2>1. q <= -1 => k * q <= -k
    BY <1>1
  <2> QED BY <1>1, <2>1
<1>3. q < r
  <2>1. q >= r => k * q >= k * r
    BY <1>1
  <2>2. k * r = r * k
    OBVIOUS
  <2> QED BY <1>1, <2>1, <2>2
<1> QED BY <1>1, <1>2, <1>3 DEF q, m

Odd(S) == Cardinality(S) % 2 = 1

LEMMA Parity ==
    ASSUME NEW S, NEW A, NEW B, IsFiniteSet(A), IsFiniteSet(B),
           Cardinality(S) = Cardinality(A) + Cardinality(B)
    PROVE  Odd(S) <=> ~(Odd(A) <=> Odd(B))
<1> DEFINE h == Cardinality(A)  v == Cardinality(B)
<1>1. h \in Nat /\ v \in Nat
  BY FS_CardinalityType
<1> HIDE DEF h, v
<1>2. (h + v) % 2 = 1 <=> ~(h % 2 = 1 <=> v % 2 = 1)
  BY <1>1
<1> QED BY <1>2 DEF Odd, h, v

\* A mesh whose grid has a place for every SM.
Fits(t) == IsTopology(t) /\ IsMesh(t) /\ \A s \in SM : Place(t, s) < t.rows * t.cols

LEMMA OnGrid ==
    ASSUME NEW t, Fits(t), NEW s \in SM
    PROVE  /\ t.rows \in Nat /\ t.cols \in Nat /\ t.rows > 0 /\ t.cols > 0
           /\ RowOf(t, s) \in 0..t.rows - 1 /\ ColOf(t, s) \in 0..t.cols - 1
<1>1. /\ t.rows \in Nat /\ t.cols \in Nat /\ t.rows > 0 /\ t.cols > 0 /\ t.places \in Seq(Nat)
  BY DEF Fits, IsTopology, IsMesh
<1>2. Place(t, s) \in Nat /\ Place(t, s) < t.rows * t.cols
  BY <1>1, NocAssumption DEF Place, SM, Fits
<1> QED BY <1>1, <1>2, Quotient DEF RowOf, ColOf

\* A link joins the two places its name stands for.
LEMMA Across ==
    ASSUME NEW t, t.rows \in Nat, t.cols \in Nat, NEW r \in 0..t.rows - 1, NEW c \in Nat, c < t.cols - 1
    PROVE  /\ HLink(t, r, c) \in 0..HorizontalLinks(t) - 1
           /\ Joins(t, HLink(t, r, c)) = {<<r, c>>, <<r, c + 1>>}
<1> DEFINE k == t.cols - 1  n == t.rows
<1>1. k \in Nat /\ k > 0 /\ n \in Nat /\ r \in Nat /\ r <= n - 1 /\ c < k /\ c \in Nat
  OBVIOUS
<1>2. HLink(t, r, c) = r * k + c /\ HorizontalLinks(t) = n * k
  BY DEF HLink, HorizontalLinks
<1> HIDE DEF k, n
<1>3. r * k + c \in Nat /\ r * k + c < n * k
  <2>1. r * k <= (n - 1) * k
    BY <1>1
  <2>2. (n - 1) * k = n * k - k
    BY <1>1
  <2>3. r * k \in Nat /\ n * k \in Nat
    BY <1>1
  <2> QED BY <1>1, <2>1, <2>2, <2>3
<1>4. (r * k + c) \div k = r /\ (r * k + c) % k = c
  BY <1>1, Divided
<1>5. n * k \in Nat
  BY <1>1
<1>6. Joins(t, HLink(t, r, c)) = {<<r, c>>, <<r, c + 1>>}
  BY <1>2, <1>3, <1>4 DEF Joins, k
<1> QED BY <1>2, <1>3, <1>5, <1>6

LEMMA Down ==
    ASSUME NEW t, t.rows \in Nat, t.cols \in Nat, t.cols > 0, NEW r \in Nat, r < t.rows - 1,
           NEW c \in 0..t.cols - 1
    PROVE  /\ VLink(t, r, c) \in HorizontalLinks(t)..NumLinks(t) - 1
           /\ HorizontalLinks(t) \in Nat
           /\ Joins(t, VLink(t, r, c)) = {<<r, c>>, <<r + 1, c>>}
<1> DEFINE k == t.cols  n == t.rows - 1  h == HorizontalLinks(t)  i == r * k + c
<1>1. k \in Nat /\ k > 0 /\ n \in Nat /\ r <= n - 1 /\ c < k /\ c \in Nat
  OBVIOUS
<1>2. VLink(t, r, c) = h + r * k + c /\ NumLinks(t) = h + n * k
  BY DEF VLink, NumLinks
<1>3. h \in Nat
  <2>1. t.cols - 1 \in Nat
    OBVIOUS
  <2> QED BY <2>1 DEF HorizontalLinks
<1> HIDE DEF k, n, h
<1>4. i \in Nat /\ i < n * k /\ n * k \in Nat
  <2>1. r * k <= (n - 1) * k
    BY <1>1
  <2>2. (n - 1) * k = n * k - k
    BY <1>1
  <2>3. r * k \in Nat /\ n * k \in Nat
    BY <1>1
  <2> QED BY <1>1, <2>1, <2>2, <2>3
<1>5. i \div k = r /\ i % k = c
  BY <1>1, Divided
<1>6. VLink(t, r, c) = h + i
  <2>1. r * k \in Nat
    BY <1>1
  <2> QED BY <1>1, <1>2, <1>3, <2>1
<1> HIDE DEF i
<1>7. VLink(t, r, c) - h = i /\ ~(VLink(t, r, c) < h)
  BY <1>3, <1>4, <1>6
<1>8. Joins(t, VLink(t, r, c)) = {<<r, c>>, <<r + 1, c>>}
  BY <1>5, <1>7 DEF Joins, h, k
<1>9. VLink(t, r, c) \in h..NumLinks(t) - 1
  BY <1>2, <1>3, <1>4, <1>6
<1> QED BY <1>3, <1>8, <1>9 DEF h

\* Those of the gaps that are next to the coordinate y.
NextTo(gaps, y) == {c \in gaps : y = c \/ y = c + 1}

\* The gaps between two coordinates next to a third: one if it is one of two different
\* ends, none or two if not.
LEMMA Ends ==
    ASSUME NEW u \in Nat, NEW v \in Nat, NEW y \in Nat
    PROVE  /\ IsFiniteSet(NextTo(Between(u, v), y))
           /\ Odd(NextTo(Between(u, v), y)) <=> u # v /\ (y = u \/ y = v)
<1> DEFINE I == {c \in Between(u, v) : y = c \/ y = c + 1}
           below == y - 1 \in Between(u, v)
           above == y \in Between(u, v)
<1>1. I = (IF below THEN {y - 1} ELSE {}) \union (IF above THEN {y} ELSE {})
  <2>1. \A c \in Between(u, v) : c \in Int
    BY DEF Between
  <2>2. \A c \in I : (c = y - 1 /\ below) \/ (c = y /\ above)
    BY <2>1
  <2>3. below => y - 1 \in I
    OBVIOUS
  <2>4. above => y \in I
    OBVIOUS
  <2> HIDE DEF I, below, above
  <2> QED BY <2>2, <2>3, <2>4
<1>2. /\ above <=> ((u < v /\ u <= y /\ y < v) \/ (v <= u /\ v <= y /\ y < u))
      /\ below <=> ((u < v /\ u < y /\ y <= v) \/ (v <= u /\ v < y /\ y <= u))
  BY DEF Between
<1> HIDE DEF I, below, above
<1>3. /\ IsFiniteSet({}) /\ Cardinality({}) = 0
      /\ IsFiniteSet({y - 1}) /\ Cardinality({y - 1}) = 1
      /\ IsFiniteSet({y}) /\ Cardinality({y}) = 1
  BY FS_EmptySet, FS_Singleton
<1>4. IsFiniteSet({y - 1} \union {y}) /\ Cardinality({y - 1} \union {y}) = 2
  <2>1. y \notin {y - 1}
    OBVIOUS
  <2> QED BY <1>3, <2>1, FS_AddElement
<1>5. IsFiniteSet(I) /\ Cardinality(I) = (IF below THEN 1 ELSE 0) + (IF above THEN 1 ELSE 0)
  <2>1. CASE below /\ above
    BY <1>1, <1>4, <2>1
  <2>2. CASE below /\ ~above
    BY <1>1, <1>3, <2>2
  <2>3. CASE ~below /\ above
    BY <1>1, <1>3, <2>3
  <2>4. CASE ~below /\ ~above
    BY <1>1, <1>3, <2>4
  <2> QED BY <2>1, <2>2, <2>3, <2>4
<1>6. (below <=> ~above) <=> (u # v /\ (y = u \/ y = v))
  BY <1>2
<1>7. Cardinality(I) % 2 = 1 <=> u # v /\ (y = u \/ y = v)
  BY <1>5, <1>6
<1> QED BY <1>5, <1>7 DEF I, NextTo, Odd

\* The links of a row, or of a column, at the given gaps.
Along(t, r, I) == {HLink(t, r, c) : c \in I}
Downward(t, c, J) == {VLink(t, r, c) : r \in J}

LEMMA AlongCount ==
    ASSUME NEW t, t.rows \in Nat, t.cols \in Nat, NEW r \in Nat, NEW I \in SUBSET Nat, IsFiniteSet(I)
    PROVE  IsFiniteSet(Along(t, r, I)) /\ Cardinality(Along(t, r, I)) = Cardinality(I)
<1> DEFINE k == r * (t.cols - 1)
           f == [c \in I |-> HLink(t, r, c)]
<1>1. \A c \in I : HLink(t, r, c) = k + c
  BY DEF HLink
<1>2. k \in Int
  OBVIOUS
<1> HIDE DEF k
<1>3. \A c, d \in I : HLink(t, r, c) = HLink(t, r, d) => c = d
  BY <1>1, <1>2
<1>4. f \in Bijection(I, Along(t, r, I))
  BY <1>3 DEF Along, Bijection, Injection, Surjection, IsInjective
<1>5. ExistsBijection(I, Along(t, r, I))
  BY <1>4 DEF ExistsBijection
<1> QED BY <1>5, FS_Bijection

LEMMA DownwardCount ==
    ASSUME NEW t, t.rows \in Nat, t.cols \in Nat, t.cols > 0, NEW c \in Nat,
           NEW J \in SUBSET Nat, IsFiniteSet(J)
    PROVE  IsFiniteSet(Downward(t, c, J)) /\ Cardinality(Downward(t, c, J)) = Cardinality(J)
<1> DEFINE k == t.cols  h == HorizontalLinks(t)
           f == [r \in J |-> VLink(t, r, c)]
<1>1. \A r \in J : VLink(t, r, c) = h + r * k + c
  BY DEF VLink
<1>2. k \in Nat /\ k > 0 /\ h \in Int
  <2>1. t.cols - 1 \in Int
    OBVIOUS
  <2> QED BY <2>1 DEF HorizontalLinks
<1> HIDE DEF k, h
<1>3. ASSUME NEW r \in J, NEW s \in J, VLink(t, r, c) = VLink(t, s, c) PROVE r = s
  <2>1. r \in Nat /\ s \in Nat /\ r * k \in Nat /\ s * k \in Nat
    BY <1>2
  <2>2. h + r * k + c = h + s * k + c
    BY <1>1, <1>3
  <2>3. r * k = s * k
    BY <1>2, <2>1, <2>2
  <2>4. (r * k + 0) \div k = r /\ (s * k + 0) \div k = s
    BY <1>2, <2>1, Divided
  <2> QED BY <2>3, <2>4
<1>4. f \in Bijection(J, Downward(t, c, J))
  BY <1>3 DEF Downward, Bijection, Injection, Surjection, IsInjective
<1>5. ExistsBijection(J, Downward(t, c, J))
  BY <1>4 DEF ExistsBijection
<1> QED BY <1>5, FS_Bijection

\* A choice of links of one row and of one column: each of its gaps gives one link.
LEMMA LinkCount ==
    ASSUME NEW t, t.rows \in Nat, t.cols \in Nat, t.cols > 0,
           NEW r \in 0..t.rows - 1, NEW c \in 0..t.cols - 1,
           NEW I \in SUBSET (0..t.cols - 2), NEW J \in SUBSET (0..t.rows - 2),
           IsFiniteSet(I), IsFiniteSet(J)
    PROVE  LET L == Along(t, r, I) \union Downward(t, c, J)
           IN  /\ L \subseteq 0..NumLinks(t) - 1
               /\ Cardinality(L) = Cardinality(I) + Cardinality(J)
<1> DEFINE A == Along(t, r, I)  D == Downward(t, c, J)
<1>1. I \subseteq Nat /\ J \subseteq Nat /\ r \in Nat /\ c \in Nat
  OBVIOUS
<1>2. ASSUME NEW l \in A PROVE l \in 0..HorizontalLinks(t) - 1
  <2>1. PICK x \in I : l = HLink(t, r, x)
    BY DEF Along
  <2>2. x \in Nat /\ x < t.cols - 1
    OBVIOUS
  <2> QED BY <2>1, <2>2, Across
<1>3. ASSUME NEW l \in D PROVE l \in HorizontalLinks(t)..NumLinks(t) - 1
  <2>1. PICK x \in J : l = VLink(t, x, c)
    BY DEF Downward
  <2>2. x \in Nat /\ x < t.rows - 1
    OBVIOUS
  <2> QED BY <2>1, <2>2, Down
<1>4. HorizontalLinks(t) \in Int /\ NumLinks(t) \in Int /\ (t.rows > 0 => HorizontalLinks(t) \in Nat)
      /\ t.rows > 0 /\ NumLinks(t) >= HorizontalLinks(t)
  <2>1. t.cols - 1 \in Nat /\ t.rows > 0 /\ t.rows - 1 \in Nat
    OBVIOUS
  <2>2. HorizontalLinks(t) \in Nat
    BY <2>1 DEF HorizontalLinks
  <2>3. (t.rows - 1) * t.cols \in Nat
    BY <2>1
  <2> QED BY <2>1, <2>2, <2>3 DEF NumLinks
<1>5. A \cap D = {}
  BY <1>2, <1>3, <1>4
<1>6. A \union D \subseteq 0..NumLinks(t) - 1
  BY <1>2, <1>3, <1>4
<1>7. IsFiniteSet(A) /\ Cardinality(A) = Cardinality(I)
  BY <1>1, AlongCount
<1>8. IsFiniteSet(D) /\ Cardinality(D) = Cardinality(J)
  BY <1>1, DownwardCount
<1>9. Cardinality(A \union D) = Cardinality(A) + Cardinality(D)
  BY <1>5, <1>7, <1>8, CountOfTwo
<1> QED BY <1>6, <1>7, <1>8, <1>9

LEMMA Gaps ==
    ASSUME NEW n \in Nat, NEW u \in 0..n - 1, NEW v \in 0..n - 1
    PROVE  /\ Between(u, v) \subseteq 0..n - 2
           /\ IsFiniteSet(Between(u, v)) /\ Cardinality(Between(u, v)) \in Nat
<1>1. u \in Int /\ v \in Int /\ u - 1 \in Int /\ v - 1 \in Int
  OBVIOUS
<1>2. IsFiniteSet(u..v - 1) /\ IsFiniteSet(v..u - 1)
  BY <1>1, FS_Interval
<1>3. IsFiniteSet(Between(u, v))
  BY <1>2 DEF Between
<1>4. Between(u, v) \subseteq 0..n - 2
  BY DEF Between
<1> QED BY <1>3, <1>4, FS_CardinalityType

\* Those of the links that meet the place <<x, y>>.
Meeting(t, links, x, y) == {l \in links : <<x, y>> \in Joins(t, l)}

Beside(x, line, gaps, y) == IF x = line THEN NextTo(gaps, y) ELSE {}

\* The links of a route that meet a place are those at its gaps next to the place.
LEMMA Met ==
    ASSUME NEW t, t.rows \in Nat, t.cols \in Nat, t.cols > 0,
           NEW r \in 0..t.rows - 1, NEW c \in 0..t.cols - 1,
           NEW I \in SUBSET (0..t.cols - 2), NEW J \in SUBSET (0..t.rows - 2),
           NEW x, NEW y
    PROVE  Meeting(t, Along(t, r, I) \union Downward(t, c, J), x, y)
              = Along(t, r, Beside(x, r, I, y))
                \union Downward(t, c, Beside(y, c, J, x))
<1>1. ASSUME NEW g \in I
      PROVE  <<x, y>> \in Joins(t, HLink(t, r, g)) <=> x = r /\ (y = g \/ y = g + 1)
  <2>1. g \in Nat /\ g < t.cols - 1
    OBVIOUS
  <2>2. Joins(t, HLink(t, r, g)) = {<<r, g>>, <<r, g + 1>>}
    BY <2>1, Across
  <2> QED BY <2>2
<1>2. ASSUME NEW g \in J
      PROVE  <<x, y>> \in Joins(t, VLink(t, g, c)) <=> y = c /\ (x = g \/ x = g + 1)
  <2>1. g \in Nat /\ g < t.rows - 1
    OBVIOUS
  <2>2. Joins(t, VLink(t, g, c)) = {<<g, c>>, <<g + 1, c>>}
    BY <2>1, Down
  <2> QED BY <2>2
<1>3. {l \in Along(t, r, I) : <<x, y>> \in Joins(t, l)}
        = Along(t, r, Beside(x, r, I, y))
  BY <1>1 DEF Along, Beside, NextTo
<1>4. {l \in Downward(t, c, J) : <<x, y>> \in Joins(t, l)}
        = Downward(t, c, Beside(y, c, J, x))
  BY <1>2 DEF Downward, Beside, NextTo
<1> QED BY <1>3, <1>4 DEF Meeting

\* The links along row ra to column cb, then down it to row rb.
Way(t, ra, ca, rb, cb) ==
    Along(t, ra, Between(ca, cb)) \union Downward(t, cb, Between(ra, rb))

\* Such a way has a link for each gap, and only its two ends meet an odd number of them.
LEMMA RouteLinks ==
    ASSUME NEW t, t.rows \in Nat, t.cols \in Nat, t.cols > 0,
           NEW ra \in 0..t.rows - 1, NEW ca \in 0..t.cols - 1,
           NEW rb \in 0..t.rows - 1, NEW cb \in 0..t.cols - 1
    PROVE  /\ Way(t, ra, ca, rb, cb) \subseteq 0..NumLinks(t) - 1
           /\ Cardinality(Way(t, ra, ca, rb, cb))
                 = Cardinality(Between(ra, rb)) + Cardinality(Between(ca, cb))
           /\ \A x \in 0..t.rows - 1, y \in 0..t.cols - 1 :
                 Odd(Meeting(t, Way(t, ra, ca, rb, cb), x, y))
                    <=> /\ ra # rb \/ ca # cb
                        /\ (x = ra /\ y = ca) \/ (x = rb /\ y = cb)
<1> DEFINE I == Between(ca, cb)  J == Between(ra, rb)
           L == Along(t, ra, I) \union Downward(t, cb, J)
<1>1. /\ I \subseteq 0..t.cols - 2 /\ IsFiniteSet(I) /\ Cardinality(I) \in Nat
      /\ J \subseteq 0..t.rows - 2 /\ IsFiniteSet(J) /\ Cardinality(J) \in Nat
  BY Gaps
<1>2. L \subseteq 0..NumLinks(t) - 1 /\ Cardinality(L) = Cardinality(I) + Cardinality(J)
  <2> HIDE DEF I, J
  <2> QED BY <1>1, LinkCount
<1>3. ASSUME NEW x \in 0..t.rows - 1, NEW y \in 0..t.cols - 1
      PROVE  Odd(Meeting(t, L, x, y))
               <=> /\ ra # rb \/ ca # cb
                   /\ (x = ra /\ y = ca) \/ (x = rb /\ y = cb)
  <2> DEFINE A == Beside(x, ra, I, y)
             D == Beside(y, cb, J, x)
  <2>1. x \in Nat /\ y \in Nat /\ ra \in Nat /\ ca \in Nat /\ rb \in Nat /\ cb \in Nat
    OBVIOUS
  <2>2. IsFiniteSet({}) /\ ~Odd({})
    BY FS_EmptySet DEF Odd
  <2>3. /\ IsFiniteSet(NextTo(I, y))
        /\ Odd(NextTo(I, y)) <=> ca # cb /\ (y = ca \/ y = cb)
    BY <2>1, Ends
  <2>4. /\ IsFiniteSet(NextTo(J, x))
        /\ Odd(NextTo(J, x)) <=> ra # rb /\ (x = ra \/ x = rb)
    BY <2>1, Ends
  <2> HIDE DEF I, J
  <2>5. Meeting(t, L, x, y) = Along(t, ra, A) \union Downward(t, cb, D)
    BY <1>1, Met
  <2>6. /\ IsFiniteSet(A)
        /\ Odd(A) <=> x = ra /\ ca # cb /\ (y = ca \/ y = cb)
    BY <2>2, <2>3 DEF Beside
  <2>7. /\ IsFiniteSet(D)
        /\ Odd(D) <=> y = cb /\ ra # rb /\ (x = ra \/ x = rb)
    BY <2>2, <2>4 DEF Beside
  <2>8. A \in SUBSET (0..t.cols - 2) /\ D \in SUBSET (0..t.rows - 2)
    BY <1>1 DEF Beside, NextTo
  <2> HIDE DEF A, D, L
  <2>9. Cardinality(Along(t, ra, A) \union Downward(t, cb, D)) = Cardinality(A) + Cardinality(D)
    BY <2>6, <2>7, <2>8, LinkCount
  <2>10. Odd(Along(t, ra, A) \union Downward(t, cb, D)) <=> ~(Odd(A) <=> Odd(D))
    BY <2>6, <2>7, <2>9, Parity
  <2> QED BY <2>5, <2>6, <2>7, <2>10
<1>4. Cardinality(L) = Cardinality(J) + Cardinality(I)
  BY <1>1, <1>2
<1> QED BY <1>2, <1>3, <1>4 DEF Way

LEMMA RouteShortest ==
    ASSUME NEW t, Fits(t), NEW a \in SM, NEW b \in SM
    PROVE  IsShortestWay(t, Links(t, a, b), a, b)
<1> DEFINE ra == RowOf(t, a)  ca == ColOf(t, a)  rb == RowOf(t, b)  cb == ColOf(t, b)
           L == Links(t, a, b)
           ends == {<<ra, ca>>, <<rb, cb>>}
<1>1. /\ t.rows \in Nat /\ t.cols \in Nat /\ t.rows > 0 /\ t.cols > 0
      /\ ra \in 0..t.rows - 1 /\ ca \in 0..t.cols - 1
      /\ rb \in 0..t.rows - 1 /\ cb \in 0..t.cols - 1
  BY OnGrid
<1>2. L = Way(t, ra, ca, rb, cb)
  BY DEF Fits, Links, XYRoute, Way, Along, Downward
<1>3. Distance(t, a, b) = Cardinality(Between(ra, rb)) + Cardinality(Between(ca, cb))
  BY DEF Distance
<1>4. Cardinality(ends) = 2 <=> (ra # rb \/ ca # cb)
  <2>1. CASE ra = rb /\ ca = cb
    <3>1. ends = {<<ra, ca>>}
      BY <2>1
    <3>2. Cardinality(ends) = 1
      BY <3>1, FS_Singleton
    <3> QED BY <2>1, <3>2
  <2>2. CASE ra # rb \/ ca # cb
    <3> DEFINE p == <<ra, ca>>  q == <<rb, cb>>
    <3>1. q \notin {p} /\ IsFiniteSet({p}) /\ Cardinality({p}) = 1
      BY <2>2, FS_Singleton
    <3>2. ends = {p} \union {q}
      OBVIOUS
    <3> HIDE DEF p, q, ends
    <3>3. Cardinality({p} \union {q}) = 1 + 1
      BY <3>1, FS_AddElement
    <3> QED BY <2>2, <3>2, <3>3
  <2> QED BY <2>1, <2>2
<1>5. \A x, y : <<x, y>> \in ends <=> (x = ra /\ y = ca) \/ (x = rb /\ y = cb)
  OBVIOUS
<1>6. L \subseteq 0..NumLinks(t) - 1 /\ Cardinality(L) = Distance(t, a, b)
  <2> HIDE DEF L, ra, ca, rb, cb
  <2> QED BY <1>1, <1>2, <1>3, RouteLinks
<1>7. ASSUME NEW x \in 0..t.rows - 1, NEW y \in 0..t.cols - 1
      PROVE  Odd(Meeting(t, L, x, y))
               <=> Cardinality(ends) = 2 /\ <<x, y>> \in ends
  <2> HIDE DEF L, ra, ca, rb, cb, ends
  <2>1. Odd(Meeting(t, L, x, y))
          <=> /\ ra # rb \/ ca # cb
              /\ (x = ra /\ y = ca) \/ (x = rb /\ y = cb)
    BY <1>1, <1>2, RouteLinks
  <2> QED BY <1>4, <1>5, <2>1
<1>8. ASSUME NEW p \in (0..t.rows - 1) \X (0..t.cols - 1)
      PROVE  Cardinality({l \in L : p \in Joins(t, l)}) % 2
               = IF Cardinality(ends) = 2 /\ p \in ends THEN 1 ELSE 0
  <2> DEFINE M == {l \in L : p \in Joins(t, l)}
  <2>1. IsFiniteSet(L)
    <3>1. IsFiniteSet(0..NumLinks(t) - 1)
      <4>1. NumLinks(t) - 1 \in Int
        BY <1>1 DEF NumLinks, HorizontalLinks
      <4> QED BY <4>1, FS_Interval
    <3> QED BY <1>6, <3>1, FS_Subset
  <2>2. M \in SUBSET L
    OBVIOUS
  <2>3. Cardinality(M) \in Nat
    <3> HIDE DEF M, L
    <3> QED BY <2>1, <2>2, FS_Subset, FS_CardinalityType
  <2>4. Odd(M) <=> Cardinality(ends) = 2 /\ p \in ends
    <3>1. PICK x \in 0..t.rows - 1, y \in 0..t.cols - 1 : p = <<x, y>>
      OBVIOUS
    <3>2. M = Meeting(t, L, x, y)
      BY <3>1 DEF Meeting
    <3> HIDE DEF M, L, ends
    <3> QED BY <1>7, <3>1, <3>2
  <2> HIDE DEF M, L, ends
  <2>5. Cardinality(M) % 2 = IF Cardinality(ends) = 2 /\ p \in ends THEN 1 ELSE 0
    BY <2>3, <2>4 DEF Odd
  <2> QED BY <2>5 DEF M
<1> HIDE DEF L
<1> QED BY <1>6, <1>8 DEF IsShortestWay, L

\* Every request on a mesh is given a shortest way over links that exist (noc.h), if the
\* grid has a place for every SM, for any grid, placement and traffic.
THEOREM ShortestRoutes ==
    ASSUME \A t \in Topologies : IsMesh(t) => \A s \in SM : Place(t, s) < t.rows * t.cols
    PROVE  Spec => []RoutesShortest
<1>1. ASSUME Inv PROVE RoutesShortest
  <2> SUFFICES ASSUME IsMesh(topology), NEW i \in DOMAIN net
               PROVE  LET a == From(net[i].a, net[i].back)  b == To(net[i].a, net[i].back)
                      IN  IsShortestWay(topology, Links(topology, a, b), a, b)
    BY DEF RoutesShortest
  <2>1. topology \in Topologies /\ net[i] \in Request
    BY <1>1 DEF Inv, Basics, NetOK
  <2>2. Fits(topology)
    BY <2>1, NocAssumption DEF Fits
  <2>3. net[i].a \in Accesses
    BY <2>1 DEF Request
  <2>4. net[i].a.src \in SM /\ Dest(net[i].a) \in SM
    BY <2>3, NocAssumption DEF Dest, SM
  <2>5. From(net[i].a, net[i].back) \in SM /\ To(net[i].a, net[i].back) \in SM
    BY <2>4 DEF From, To
  <2> QED BY <2>2, <2>5, RouteShortest
<1> QED BY <1>1, Reachable, PTL
===========================================================================
