--------------------------- MODULE TmaUnit_proofs ---------------------------
(***************************************************************************)
(* Proofs about L2Cache, for every cache size, budget, latency and traffic, *)
(* and about the TMA units in front of it, for all units, commands, set-up  *)
(* times and rates.                                                         *)
(*                                                                          *)
(* The invariant of the cache says where each line request is (Requests),   *)
(* where each transaction is (Places), and how the DRAM queue is ordered    *)
(* (InOrder).  The steps that take transactions in are covered by Takes,    *)
(* which also describes what a TMA unit hands over in one cycle.            *)
(*                                                                          *)
(* The commands a unit has been given are those it has sent, then the one   *)
(* that is active, then the ready ones, then those being set up (InLine);   *)
(* the lines sent are the first ones of each command (SentLines).           *)
(***************************************************************************)
EXTENDS TmaUnit, TLAPS, FiniteSetTheorems

---------------------------------------------------------------------------
(* Sequences                                                               *)

LEMMA Appended ==
    ASSUME NEW S, NEW s \in Seq(S), NEW e \in S
    PROVE  /\ Append(s, e) \in Seq(S) /\ Len(Append(s, e)) = Len(s) + 1
           /\ DOMAIN Append(s, e) = DOMAIN s \union {Len(s) + 1} /\ Len(s) + 1 \notin DOMAIN s
           /\ \A i \in DOMAIN s : Append(s, e)[i] = s[i]
           /\ Append(s, e)[Len(s) + 1] = e
           /\ Elems(Append(s, e)) = Elems(s) \union {e}
<1>1. /\ Append(s, e) \in Seq(S) /\ Len(Append(s, e)) = Len(s) + 1
      /\ DOMAIN Append(s, e) = DOMAIN s \union {Len(s) + 1} /\ Len(s) + 1 \notin DOMAIN s
      /\ \A i \in DOMAIN s : Append(s, e)[i] = s[i]
      /\ Append(s, e)[Len(s) + 1] = e
  OBVIOUS
<1> HIDE DEF Append
<1> QED BY <1>1 DEF Elems

LEMMA Removed ==
    ASSUME NEW S, NEW s \in Seq(S), s # <<>>
    PROVE  /\ Tail(s) \in Seq(S) /\ Head(s) \in S /\ Len(Tail(s)) = Len(s) - 1 /\ Len(s) > 0
           /\ \A i \in DOMAIN Tail(s) : i + 1 \in DOMAIN s /\ Tail(s)[i] = s[i + 1]
           /\ 1 \in DOMAIN s /\ Head(s) = s[1]
           /\ \A i \in DOMAIN s : i = 1 \/ (i - 1 \in DOMAIN Tail(s) /\ s[i] = Tail(s)[i - 1])
           /\ Elems(s) = Elems(Tail(s)) \union {Head(s)}
<1>1. /\ Tail(s) \in Seq(S) /\ Head(s) \in S /\ Len(Tail(s)) = Len(s) - 1 /\ Len(s) > 0
      /\ \A i \in DOMAIN Tail(s) : i + 1 \in DOMAIN s /\ Tail(s)[i] = s[i + 1]
      /\ 1 \in DOMAIN s /\ Head(s) = s[1]
      /\ \A i \in DOMAIN s : i = 1 \/ (i - 1 \in DOMAIN Tail(s) /\ s[i] = Tail(s)[i - 1])
  OBVIOUS
<1>2. Elems(s) \subseteq Elems(Tail(s)) \union {Head(s)}
  <2>1. SUFFICES ASSUME NEW i \in DOMAIN s PROVE s[i] \in Elems(Tail(s)) \union {Head(s)}
    BY DEF Elems
  <2> QED BY <1>1 DEF Elems
<1>3. Elems(Tail(s)) \union {Head(s)} \subseteq Elems(s)
  BY <1>1 DEF Elems
<1> QED BY <1>1, <1>2, <1>3

LEMMA Joined ==
    ASSUME NEW S, NEW s \in Seq(S), NEW t \in Seq(S)
    PROVE  /\ s \o t \in Seq(S) /\ Len(s \o t) = Len(s) + Len(t)
           /\ \A i \in DOMAIN s : i \in DOMAIN (s \o t) /\ (s \o t)[i] = s[i]
           /\ \A i \in DOMAIN t :
                 Len(s) + i \in DOMAIN (s \o t) /\ (s \o t)[Len(s) + i] = t[i]
           /\ \A i \in DOMAIN (s \o t) : i \in DOMAIN s \/ i - Len(s) \in DOMAIN t
           /\ Elems(s \o t) = Elems(s) \union Elems(t)
<1>1. /\ s \o t \in Seq(S) /\ Len(s \o t) = Len(s) + Len(t)
      /\ \A i \in DOMAIN s : i \in DOMAIN (s \o t) /\ (s \o t)[i] = s[i]
      /\ \A i \in DOMAIN t :
            Len(s) + i \in DOMAIN (s \o t) /\ (s \o t)[Len(s) + i] = t[i]
      /\ \A i \in DOMAIN (s \o t) : i \in DOMAIN s \/ i - Len(s) \in DOMAIN t
  OBVIOUS
<1>2. \A i \in DOMAIN (s \o t) : i \notin DOMAIN s =>
          i - Len(s) \in DOMAIN t /\ (s \o t)[i] = t[i - Len(s)]
  OBVIOUS
<1>3. Elems(s \o t) \subseteq Elems(s) \union Elems(t)
  BY <1>1, <1>2 DEF Elems
<1>4. Elems(s) \union Elems(t) \subseteq Elems(s \o t)
  BY <1>1 DEF Elems
<1> QED BY <1>1, <1>3, <1>4

LEMMA Mapped ==
    ASSUME NEW S, NEW T, NEW s \in Seq(S), NEW t, DOMAIN t = DOMAIN s, t = [i \in DOMAIN s |-> t[i]],
           \A i \in DOMAIN s : t[i] \in T
    PROVE  t \in Seq(T) /\ Len(t) = Len(s)
<1>1. t \in [1..Len(s) -> T]
  OBVIOUS
<1> QED BY <1>1
---------------------------------------------------------------------------
(* The LRU list                                                            *)

\* The keys of the list in use, each at one place.
Distinct(s) == \A i, j \in DOMAIN s : s[i] = s[j] => i = j

\* A line that is touched moves to the front; the list keeps its lines.
LEMMA Touched ==
    ASSUME NEW k \in Cached, lru \in Seq(Key), Distinct(lru)
    PROVE  /\ MovedToFront(k) \in Seq(Key) /\ Len(MovedToFront(k)) = Len(lru)
           /\ Distinct(MovedToFront(k)) /\ Elems(MovedToFront(k)) = Cached
<1> DEFINE p == PositionOf(k)  m == MovedToFront(k)
<1>1. p \in DOMAIN lru /\ lru[p] = k
  BY DEF PositionOf, Cached, Elems
<1>2. \A i \in DOMAIN lru : m[i] = IF i = 1 THEN k ELSE IF i <= p THEN lru[i - 1] ELSE lru[i]
  BY DEF MovedToFront
<1>3. DOMAIN m = DOMAIN lru /\ m = [i \in DOMAIN lru |-> m[i]]
  BY DEF MovedToFront
<1>4. \A i \in DOMAIN lru : m[i] \in Cached
  <2>1. SUFFICES ASSUME NEW i \in DOMAIN lru PROVE m[i] \in Cached
    OBVIOUS
  <2>2. i # 1 => i - 1 \in DOMAIN lru
    OBVIOUS
  <2> HIDE DEF p, m
  <2> QED BY <1>1, <1>2, <2>2 DEF Cached, Elems
<1>5. Cached \subseteq Key
  BY DEF Cached, Elems
<1>6. m \in Seq(Key) /\ Len(m) = Len(lru)
  <2> HIDE DEF m
  <2> QED BY <1>3, <1>4, <1>5, Mapped
<1>7. ASSUME NEW i \in DOMAIN lru, NEW j \in DOMAIN lru, m[i] = m[j] PROVE i = j
  <2> DEFINE from(n) == IF n = 1 THEN p ELSE IF n <= p THEN n - 1 ELSE n
  <2>1. \A n \in DOMAIN lru : from(n) \in DOMAIN lru /\ m[n] = lru[from(n)]
    <3> HIDE DEF p, m
    <3> QED BY <1>1, <1>2
  <2>2. from(i) = from(j)
    <3> HIDE DEF p, m, from
    <3> QED BY <1>7, <2>1 DEF Distinct
  <2>3. i \in Nat /\ j \in Nat /\ i >= 1 /\ j >= 1 /\ p \in Nat
    <3> HIDE DEF p
    <3> QED BY <1>1
  <2> HIDE DEF p, m
  <2> QED BY <2>2, <2>3
<1>8. Cached \subseteq Elems(m)
  <2>1. SUFFICES ASSUME NEW i \in DOMAIN lru PROVE \E j \in DOMAIN lru : lru[i] = m[j]
    BY <1>3 DEF Cached, Elems
  <2>2. CASE i = p
    <3>1. 1 \in DOMAIN lru
      OBVIOUS
    <3> HIDE DEF p, m
    <3> QED BY <1>1, <1>2, <2>2, <3>1
  <2>3. CASE i < p
    <3>1. i + 1 \in DOMAIN lru /\ i + 1 # 1 /\ i + 1 <= p /\ (i + 1) - 1 = i
      <4> HIDE DEF p
      <4> QED BY <1>1, <2>3
    <3>2. m[i + 1] = lru[(i + 1) - 1]
      <4> HIDE DEF p, m
      <4> QED BY <1>2, <3>1
    <3> HIDE DEF p, m
    <3> QED BY <3>1, <3>2
  <2>4. CASE i > p
    <3>1. i # 1 /\ ~(i <= p)
      <4> HIDE DEF p
      <4> QED BY <1>1, <2>4
    <3> HIDE DEF p, m
    <3> QED BY <1>2, <3>1
  <2> HIDE DEF p
  <2> QED BY <1>1, <2>2, <2>3, <2>4
<1> HIDE DEF m
<1>9. Distinct(m)
  BY <1>3, <1>7 DEF Distinct
<1>10. Elems(m) = Cached
  BY <1>3, <1>4, <1>8 DEF Elems
<1> QED BY <1>6, <1>9, <1>10 DEF m

\* A line that is new takes the place of the least recently used one, if there is no
\* room for it.
LEMMA Entered ==
    ASSUME NEW k \in Key \ Cached, lru \in Seq(Key), Distinct(lru),
           CacheLines > 0, Len(lru) <= CacheLines,
           NEW new, new = <<k>> \o SubSeq(lru, 1, IF MustEvict THEN Len(lru) - 1 ELSE Len(lru))
    PROVE  /\ new \in Seq(Key) /\ Distinct(new) /\ Len(new) <= CacheLines
           /\ Elems(new) = {k} \union (Cached \ (IF MustEvict THEN {Victim} ELSE {}))
           /\ MustEvict => Victim \in Cached
<1> DEFINE n == IF MustEvict THEN Len(lru) - 1 ELSE Len(lru)
           old == SubSeq(lru, 1, n)
<1>1. n \in 0..Len(lru) /\ n + 1 <= CacheLines
  BY L2Assumption DEF MustEvict
<1>2. old \in Seq(Key) /\ Len(old) = n /\ DOMAIN old = 1..n /\ \A i \in 1..n : old[i] = lru[i]
  <2> HIDE DEF n
  <2> QED BY <1>1
<1> HIDE DEF old
<1>3. <<k>> \in Seq(Key) /\ Len(<<k>>) = 1 /\ DOMAIN <<k>> = {1} /\ <<k>>[1] = k
  OBVIOUS
<1>4. /\ new \in Seq(Key) /\ Len(new) = 1 + Len(old) /\ new[1] = k
      /\ \A i \in DOMAIN old : 1 + i \in DOMAIN new /\ new[1 + i] = old[i]
      /\ \A i \in DOMAIN new : i = 1 \/ i - 1 \in DOMAIN old
      /\ Elems(new) = {k} \union Elems(old)
  <2> DEFINE f == <<k>>
  <2>1. Elems(f) = {k}
    BY <1>3 DEF Elems
  <2>2. new = f \o old
    BY DEF old
  <2> HIDE DEF f
  <2>3. /\ f \o old \in Seq(Key) /\ Len(f \o old) = Len(f) + Len(old)
        /\ \A i \in DOMAIN f : i \in DOMAIN (f \o old) /\ (f \o old)[i] = f[i]
        /\ \A i \in DOMAIN old :
              Len(f) + i \in DOMAIN (f \o old) /\ (f \o old)[Len(f) + i] = old[i]
        /\ \A i \in DOMAIN (f \o old) : i \in DOMAIN f \/ i - Len(f) \in DOMAIN old
        /\ Elems(f \o old) = Elems(f) \union Elems(old)
    BY <1>2, <1>3, Joined DEF f
  <2>4. Len(f) = 1 /\ DOMAIN f = {1} /\ f[1] = k
    BY <1>3 DEF f
  <2>5. \A i \in DOMAIN new : i = 1 \/ i - 1 \in DOMAIN old
    BY <2>2, <2>3, <2>4
  <2>6. \A i \in DOMAIN old : 1 + i \in DOMAIN new /\ new[1 + i] = old[i]
    BY <2>2, <2>3, <2>4
  <2>7. new[1] = k
    BY <2>2, <2>3, <2>4
  <2> QED BY <2>1, <2>2, <2>3, <2>4, <2>5, <2>6, <2>7
<1>5. Len(new) <= CacheLines
  <2> HIDE DEF n
  <2> QED BY <1>1, <1>2, <1>4
<1>6. \A i \in DOMAIN new : i = 1 \/ (i - 1 \in DOMAIN lru /\ i - 1 \in 1..n /\ new[i] = lru[i - 1])
  <2>1. SUFFICES ASSUME NEW i \in DOMAIN new, i # 1
                 PROVE  i - 1 \in DOMAIN lru /\ i - 1 \in 1..n /\ new[i] = lru[i - 1]
    OBVIOUS
  <2>2. i - 1 \in 1..n
    <3> HIDE DEF n
    <3> QED BY <1>2, <1>4, <2>1
  <2>3. 1 + (i - 1) = i /\ i - 1 \in DOMAIN lru
    <3> HIDE DEF n
    <3> QED BY <1>1, <1>4, <2>2
  <2> HIDE DEF n
  <2> QED BY <1>2, <1>4, <2>2, <2>3
<1>7. Distinct(new)
  <2>1. SUFFICES ASSUME NEW i \in DOMAIN new, NEW j \in DOMAIN new, new[i] = new[j] PROVE i = j
    BY DEF Distinct
  <2>2. \A m \in DOMAIN lru : lru[m] # k
    BY DEF Cached, Elems
  <2>3. i # 1 /\ j # 1 => i - 1 = j - 1
    <3> HIDE DEF n
    <3> QED BY <1>6, <2>1 DEF Distinct
  <2>4. i = 1 <=> j = 1
    <3> HIDE DEF n
    <3> QED BY <1>4, <1>6, <2>1, <2>2
  <2>5. i \in Int /\ j \in Int
    BY <1>4
  <2> HIDE DEF n
  <2> QED BY <2>3, <2>4, <2>5
<1>8. Elems(old) = Cached \ (IF MustEvict THEN {Victim} ELSE {})
  <2>1. CASE ~MustEvict
    <3>1. n = Len(lru)
      BY <2>1
    <3>2. DOMAIN lru = 1..n
      <4> HIDE DEF n
      <4> QED BY <3>1
    <3> HIDE DEF n
    <3> QED BY <1>2, <2>1, <3>2 DEF Cached, Elems
  <2>2. CASE MustEvict
    <3>1. n = Len(lru) - 1
      BY <2>2
    <3>2. DOMAIN lru = 1..n \union {Len(lru)} /\ Len(lru) \notin 1..n
      <4>1. lru # <<>>
        BY <2>2 DEF MustEvict
      <4> HIDE DEF n
      <4> QED BY <3>1, <4>1
    <3> HIDE DEF n
    <3>3. \A i \in 1..n : lru[i] # Victim
      BY <3>2 DEF Distinct, Victim
    <3> QED BY <1>2, <2>2, <3>2, <3>3 DEF Cached, Elems, Victim
  <2> QED BY <2>1, <2>2
<1>9. MustEvict => Victim \in Cached
  <2>1. lru # <<>> => Len(lru) \in DOMAIN lru
    OBVIOUS
  <2> QED BY <2>1 DEF MustEvict, Victim, Cached, Elems
<1> QED BY <1>4, <1>5, <1>7, <1>8, <1>9
---------------------------------------------------------------------------
(* The DRAM queues                                                         *)

\* The keys of the lines a queue is to fetch, each at one place.
FetchedBy(s) == {s[i].key : i \in {j \in DOMAIN s : ~s[j].writeback}}
Sole(s) ==
    \A i, j \in DOMAIN s :
        ~s[i].writeback /\ ~s[j].writeback /\ s[i].key = s[j].key => i = j

\* a, ahead of b in a queue, is due no later, and is no fetch that overtook a
\* writeback of its line.
Ahead(a, b) ==
    /\ a.wait <= b.wait
    /\ ~(~a.writeback /\ b.writeback /\ a.key = b.key)
Sorted(s) == \A i, j \in DOMAIN s : i < j => Ahead(s[i], s[j])
Before(s, t) == \A i \in DOMAIN s : \A j \in DOMAIN t : Ahead(s[i], t[j])
WithinLatency(s) == \A i \in DOMAIN s : s[i].wait <= DramLatency

LEMMA AppendRequest ==
    ASSUME NEW s \in Seq(Request), NEW r \in Request, Sole(s),
           r.writeback \/ r.key \notin FetchedBy(s)
    PROVE  /\ Append(s, r) \in Seq(Request) /\ Sole(Append(s, r))
           /\ FetchedBy(Append(s, r)) =
                 FetchedBy(s) \union (IF r.writeback THEN {} ELSE {r.key})
           /\ \A k : WritebackPending(Append(s, r), k) <=>
                        WritebackPending(s, k) \/ (r.writeback /\ r.key = k)
<1> DEFINE t == Append(s, r)
<1>1. /\ t \in Seq(Request)
      /\ DOMAIN t = DOMAIN s \union {Len(s) + 1} /\ Len(s) + 1 \notin DOMAIN s
      /\ \A i \in DOMAIN s : t[i] = s[i]
      /\ t[Len(s) + 1] = r
  BY Appended
<1> HIDE DEF t
<1>2. Sole(t)
  BY <1>1 DEF Sole, FetchedBy
<1>3. FetchedBy(t) = FetchedBy(s) \union (IF r.writeback THEN {} ELSE {r.key})
  <2>1. FetchedBy(t) \subseteq FetchedBy(s) \union (IF r.writeback THEN {} ELSE {r.key})
    BY <1>1 DEF FetchedBy
  <2>2. FetchedBy(s) \union (IF r.writeback THEN {} ELSE {r.key}) \subseteq FetchedBy(t)
    BY <1>1 DEF FetchedBy
  <2> QED BY <2>1, <2>2
<1>4. \A k : WritebackPending(t, k) <=> WritebackPending(s, k) \/ (r.writeback /\ r.key = k)
  BY <1>1 DEF WritebackPending
<1> QED BY <1>1, <1>2, <1>3, <1>4 DEF t

\* The request that is appended has the whole latency to wait, and no fetch of its line
\* is ahead if it is a writeback.
LEMMA AppendSorted ==
    ASSUME NEW s \in Seq(Request), NEW r \in Request, Sorted(s), WithinLatency(s),
           r.wait = DramLatency, r.writeback => r.key \notin FetchedBy(s)
    PROVE  Sorted(Append(s, r)) /\ WithinLatency(Append(s, r))
<1> DEFINE t == Append(s, r)
<1>1. /\ t \in Seq(Request)
      /\ DOMAIN t = DOMAIN s \union {Len(s) + 1} /\ Len(s) + 1 \notin DOMAIN s
      /\ \A i \in DOMAIN s : t[i] = s[i]
      /\ t[Len(s) + 1] = r
  BY Appended
<1>2. \A i \in DOMAIN s : Ahead(s[i], r)
  BY DEF Ahead, WithinLatency, FetchedBy
<1>3. \A i \in DOMAIN s : i < Len(s) + 1 /\ ~(Len(s) + 1 < i)
  OBVIOUS
<1>4. Len(s) \in Nat
  OBVIOUS
<1> HIDE DEF t
<1>5. Sorted(t)
  BY <1>1, <1>2, <1>3, <1>4 DEF Sorted
<1>6. WithinLatency(t)
  BY <1>1, L2Assumption DEF WithinLatency
<1> QED BY <1>5, <1>6 DEF t

LEMMA RemoveRequest ==
    ASSUME NEW s \in Seq(Request), s # <<>>, Sole(s)
    PROVE  /\ Tail(s) \in Seq(Request) /\ Head(s) \in Request /\ Sole(Tail(s))
           /\ FetchedBy(s) =
                 FetchedBy(Tail(s)) \union (IF Head(s).writeback THEN {} ELSE {Head(s).key})
           /\ ~Head(s).writeback => Head(s).key \notin FetchedBy(Tail(s))
           /\ \A k : WritebackPending(Tail(s), k) => WritebackPending(s, k)
<1> DEFINE t == Tail(s)  h == Head(s)
<1>1. /\ t \in Seq(Request) /\ h \in Request
      /\ \A i \in DOMAIN t : i + 1 \in DOMAIN s /\ t[i] = s[i + 1]
      /\ 1 \in DOMAIN s /\ h = s[1]
      /\ \A i \in DOMAIN s : i = 1 \/ (i - 1 \in DOMAIN t /\ s[i] = t[i - 1])
  BY Removed
<1>2. \A i \in DOMAIN t : i \in Nat \ {0}
  BY <1>1
<1> HIDE DEF t, h
<1>3. Sole(t)
  <2>1. SUFFICES ASSUME NEW i \in DOMAIN t, NEW j \in DOMAIN t, ~t[i].writeback,
                        ~t[j].writeback, t[i].key = t[j].key
                 PROVE  i = j
    BY DEF Sole
  <2>2. i + 1 = j + 1
    BY <1>1, <2>1 DEF Sole
  <2> QED BY <1>2, <2>2
<1>4. FetchedBy(s) \subseteq FetchedBy(t) \union (IF h.writeback THEN {} ELSE {h.key})
  <2>1. SUFFICES ASSUME NEW i \in DOMAIN s, ~s[i].writeback
                 PROVE  s[i].key \in FetchedBy(t) \union (IF h.writeback THEN {} ELSE {h.key})
    BY DEF FetchedBy
  <2> QED BY <1>1, <2>1 DEF FetchedBy
<1>5. FetchedBy(t) \union (IF h.writeback THEN {} ELSE {h.key}) \subseteq FetchedBy(s)
  BY <1>1 DEF FetchedBy
<1>6. ~h.writeback => h.key \notin FetchedBy(t)
  <2>1. SUFFICES ASSUME ~h.writeback, NEW i \in DOMAIN t, ~t[i].writeback, t[i].key = h.key
                 PROVE  FALSE
    BY DEF FetchedBy
  <2>2. i + 1 = 1
    BY <1>1, <2>1 DEF Sole
  <2> QED BY <1>2, <2>2
<1>7. \A k : WritebackPending(t, k) => WritebackPending(s, k)
  BY <1>1 DEF WritebackPending
<1> QED BY <1>1, <1>3, <1>4, <1>5, <1>6, <1>7 DEF t, h

LEMMA RemoveSorted ==
    ASSUME NEW s \in Seq(Request), s # <<>>, Sorted(s), WithinLatency(s)
    PROVE  /\ Sorted(Tail(s)) /\ WithinLatency(Tail(s)) /\ Head(s).wait <= DramLatency
           /\ \A i \in DOMAIN Tail(s) : Ahead(Head(s), Tail(s)[i])
<1> DEFINE t == Tail(s)  h == Head(s)
<1>1. /\ t \in Seq(Request) /\ h \in Request
      /\ \A i \in DOMAIN t : i + 1 \in DOMAIN s /\ t[i] = s[i + 1]
      /\ 1 \in DOMAIN s /\ h = s[1]
  BY Removed
<1>2. \A i \in DOMAIN t : i \in Nat \ {0}
  BY <1>1
<1> HIDE DEF t, h
<1>3. Sorted(t)
  BY <1>1, <1>2 DEF Sorted
<1>4. WithinLatency(t) /\ h.wait <= DramLatency
  BY <1>1 DEF WithinLatency
<1>5. \A i \in DOMAIN t : Ahead(h, t[i])
  BY <1>1, <1>2 DEF Sorted
<1> QED BY <1>3, <1>4, <1>5 DEF t, h
---------------------------------------------------------------------------
(* The invariant of the lines                                              *)

\* What the phases of a cycle leave behind for the next one.
Quiet ==
    /\ phase # "dram" => remaining = <<>>
    /\ phase \notin {"dram", "fills"} => filled = <<>>
    /\ phase = "writes" => left <= WriteShare

LruOrder == Distinct(lru) /\ Len(lru) <= CacheLines /\ dirty \subseteq Cached

\* The keys with an MSHR entry are those of the fetches on their way, each of which is
\* in one place; none of them is cached.
MissingKeys == {k \in Key : mshr[k] # {}}
Requests ==
    /\ Sole(dram) /\ Sole(remaining) /\ Distinct(filled)
    /\ FetchedBy(dram) \intersect FetchedBy(remaining) = {}
    /\ (FetchedBy(dram) \union FetchedBy(remaining)) \intersect Elems(filled) = {}
    /\ FetchedBy(dram) \union FetchedBy(remaining) \union Elems(filled) = MissingKeys
    /\ MissingKeys \intersect Cached = {}

\* What the DRAM has put back, though it was due, could not be paid for.
DramOrder ==
    /\ Sorted(dram) /\ Sorted(remaining) /\ Before(remaining, dram)
    /\ WithinLatency(dram) /\ WithinLatency(remaining)
    /\ NoStaleFill
    /\ phase = "dram" /\ Affordable => \A i \in DOMAIN remaining : remaining[i].wait # 0

Accounted == accepted = Queuing \union Missing \union Leaving \union answered

LineInv == TypeOK /\ Quiet /\ LruOrder /\ Requests /\ DramOrder /\ Accounted

LEMMA EmptyQueues ==
    /\ Sole(<<>>) /\ Distinct(<<>>) /\ FetchedBy(<<>>) = {} /\ Elems(<<>>) = {}
    /\ Sorted(<<>>) /\ WithinLatency(<<>>) /\ \A s : Before(<<>>, s)
    /\ \A k : ~WritebackPending(<<>>, k)
BY DEF Sole, Distinct, FetchedBy, Elems, Sorted, WithinLatency, Before, WritebackPending

LEMMA InitLineInv == Init => LineInv
<1> SUFFICES ASSUME Init PROVE LineInv
  OBVIOUS
<1> USE L2Assumption DEF Init
<1>1. TypeOK
  BY DEF TypeOK
<1>2. Quiet /\ LruOrder
  BY EmptyQueues DEF Quiet, LruOrder, Cached
<1>3. Requests
  BY EmptyQueues DEF Requests, MissingKeys, Cached
<1>4. DramOrder
  BY EmptyQueues DEF DramOrder, NoStaleFill
<1>5. Accounted
  BY EmptyQueues DEF Accounted, Queuing, Missing, Leaving
<1> QED BY <1>1, <1>2, <1>3, <1>4, <1>5 DEF LineInv

\* Whatever is handed over between two cycles enters one of the queues: a line of a
\* sub-op, or the lines that a TMA unit sends.
Takes(lines, write) ==
    /\ phase = "open" /\ phase' = phase
    /\ lines \in Seq(Transaction) /\ Len(writeQ) + Len(readQ) + Len(lines) <= QueueDepth
    /\ \A i \in DOMAIN lines :
          lines[i].tx = Cardinality(accepted) + i /\ lines[i].write = write
    /\ IF write
         THEN writeQ' = writeQ \o lines /\ UNCHANGED readQ
         ELSE readQ' = readQ \o lines /\ UNCHANGED writeQ
    /\ accepted' = accepted \union Elems(lines)
    /\ UNCHANGED <<left, lru, dirty, mshr, answers, dram, remaining, filled, credit, answered>>

LEMMA NothingElse ==
    ASSUME LineInv, UNCHANGED <<lru, dirty, mshr, answers, dram, remaining, filled>>,
           Quiet', phase' = "dram" => remaining = <<>>
    PROVE  LruOrder' /\ Requests' /\ DramOrder' /\ Missing' = Missing /\ Leaving' = Leaving
<1>1. LruOrder'
  BY DEF LineInv, LruOrder, Cached
<1>2. Requests'
  BY DEF LineInv, Requests, MissingKeys, Cached
<1>3. DramOrder'
  BY EmptyQueues DEF LineInv, DramOrder, NoStaleFill, Affordable
<1>4. Missing' = Missing /\ Leaving' = Leaving
  BY DEF Missing, Leaving
<1> QED BY <1>1, <1>2, <1>3, <1>4

LEMMA TakesKeeps ==
    ASSUME LineInv, NEW lines, NEW write, Takes(lines, write) PROVE LineInv'
<1>1. writeQ \in Seq(Transaction) /\ readQ \in Seq(Transaction) /\ lines \in Seq(Transaction)
  BY DEF LineInv, TypeOK, Takes
<1>2. /\ writeQ' \in Seq(Transaction) /\ readQ' \in Seq(Transaction)
      /\ Len(writeQ') + Len(readQ') = Len(writeQ) + Len(readQ) + Len(lines)
      /\ Queuing' = Queuing \union Elems(lines)
  <2>1. CASE write
    <3>1. /\ writeQ' \in Seq(Transaction) /\ Len(writeQ') = Len(writeQ) + Len(lines)
          /\ Elems(writeQ') = Elems(writeQ) \union Elems(lines)
      <4>1. writeQ' = writeQ \o lines
        BY <2>1 DEF Takes
      <4> QED BY <1>1, <4>1, Joined
    <3> QED BY <1>1, <2>1, <3>1 DEF Takes, Queuing
  <2>2. CASE ~write
    <3>1. /\ readQ' \in Seq(Transaction) /\ Len(readQ') = Len(readQ) + Len(lines)
          /\ Elems(readQ') = Elems(readQ) \union Elems(lines)
      <4>1. readQ' = readQ \o lines
        BY <2>2 DEF Takes
      <4> QED BY <1>1, <4>1, Joined
    <3> QED BY <1>1, <2>2, <3>1 DEF Takes, Queuing
  <2> QED BY <2>1, <2>2
<1>3. Quiet'
  BY DEF LineInv, Quiet, Takes, WriteShare
<1>4. LruOrder' /\ Requests' /\ DramOrder' /\ Missing' = Missing /\ Leaving' = Leaving
  BY <1>3, NothingElse DEF Takes
<1>5. Accounted'
  BY <1>2, <1>4 DEF LineInv, Accounted, Takes
<1>6. TypeOK'
  <2>1. Elems(lines) \subseteq Transaction
    BY <1>1 DEF Elems
  <2> QED BY <1>2, <2>1 DEF LineInv, TypeOK, Takes
<1> QED BY <1>3, <1>4, <1>5, <1>6 DEF LineInv

LEMMA EnqueueTakes ==
    ASSUME LineInv, NEW k \in Key, NEW write \in BOOLEAN, Enqueue(k, write),
           Cardinality(accepted) \in Nat
    PROVE  \E lines : Takes(lines, write)
<1> DEFINE x == [tx |-> Cardinality(accepted) + 1, key |-> k, write |-> write]
<1>1. x \in Transaction
  BY DEF Transaction
<1>2. x.tx = Cardinality(accepted) + 1 /\ x.write = write
  OBVIOUS
<1>3. /\ phase = "open" /\ phase' = phase /\ Len(readQ) + Len(writeQ) < QueueDepth
      /\ IF write
           THEN writeQ' = Append(writeQ, x) /\ UNCHANGED readQ
           ELSE readQ' = Append(readQ, x) /\ UNCHANGED writeQ
      /\ accepted' = accepted \union {x}
      /\ UNCHANGED <<left, lru, dirty, mshr, answers, dram, remaining, filled, credit, answered>>
  BY DEF Enqueue, CanAccept
<1> HIDE DEF x
<1>4. /\ <<x>> \in Seq(Transaction) /\ Len(<<x>>) = 1 /\ DOMAIN <<x>> = {1} /\ <<x>>[1] = x
      /\ Elems(<<x>>) = {x}
  BY <1>1 DEF Elems
<1>5. writeQ \in Seq(Transaction) /\ readQ \in Seq(Transaction) /\ QueueDepth \in Nat
  BY L2Assumption DEF LineInv, TypeOK
<1>6. Append(writeQ, x) = writeQ \o <<x>> /\ Append(readQ, x) = readQ \o <<x>>
  BY <1>1, <1>5
<1>7. Len(writeQ) + Len(readQ) + Len(<<x>>) <= QueueDepth
  BY <1>3, <1>4, <1>5
<1>8. Takes(<<x>>, write)
  BY <1>2, <1>3, <1>4, <1>6, <1>7 DEF Takes
<1> QED BY <1>8

LEMMA AgedQueue ==
    ASSUME NEW s \in Seq(Request), NEW t, t = [i \in DOMAIN s |-> [s[i] EXCEPT !.wait = Aged(@)]]
    PROVE  /\ t \in Seq(Request) /\ FetchedBy(t) = FetchedBy(s)
           /\ Sole(s) => Sole(t)
           /\ Sorted(s) => Sorted(t)
           /\ WithinLatency(s) => WithinLatency(t)
<1>1. DOMAIN t = DOMAIN s /\ t = [i \in DOMAIN s |-> t[i]]
  OBVIOUS
<1>2. ASSUME NEW i \in DOMAIN s
      PROVE  /\ s[i] \in Request /\ t[i] \in Request
             /\ t[i].key = s[i].key /\ t[i].writeback = s[i].writeback
             /\ t[i].wait = Aged(s[i].wait)
  <2>1. s[i] \in Request /\ t[i] = [s[i] EXCEPT !.wait = Aged(@)]
    OBVIOUS
  <2> HIDE DEF Request
  <2>2. Aged(s[i].wait) \in Nat
    BY <2>1 DEF Aged, Request
  <2> QED BY <2>1, <2>2 DEF Request
<1>3. \A m, n \in Nat : (m <= n => Aged(m) <= Aged(n)) /\ Aged(m) <= m
  BY DEF Aged
<1>4. t \in Seq(Request)
  BY <1>1, <1>2, Mapped
<1>5. FetchedBy(t) = FetchedBy(s) /\ (Sole(s) => Sole(t))
  <2>1. \A i \in DOMAIN s : t[i].key = s[i].key /\ t[i].writeback = s[i].writeback
    BY <1>2
  <2>2. DOMAIN t = DOMAIN s
    BY <1>1
  <2>3. FetchedBy(t) \subseteq FetchedBy(s)
    BY <2>1, <2>2 DEF FetchedBy
  <2>4. FetchedBy(s) \subseteq FetchedBy(t)
    BY <2>1, <2>2 DEF FetchedBy
  <2>5. Sole(s) => Sole(t)
    BY <2>1, <2>2 DEF Sole
  <2> QED BY <2>3, <2>4, <2>5
<1>7. \A i \in DOMAIN s : s[i].wait \in Nat
  BY <1>2 DEF Request
<1>8. Sorted(s) => Sorted(t)
  BY <1>1, <1>2, <1>3, <1>7 DEF Sorted, Ahead
<1>9. WithinLatency(s) => WithinLatency(t)
  <2>1. SUFFICES ASSUME WithinLatency(s), NEW i \in DOMAIN s PROVE t[i].wait <= DramLatency
    BY <1>1 DEF WithinLatency
  <2>2. s[i].wait <= DramLatency /\ s[i].wait \in Nat
    BY <1>7, <2>1 DEF WithinLatency
  <2>3. t[i].wait = Aged(s[i].wait)
    BY <1>2
  <2> QED BY <2>2, <2>3, L2Assumption DEF Aged
<1> QED BY <1>4, <1>5, <1>8, <1>9

LEMMA BeginStepKeeps == LineInv /\ BeginStep => LineInv'
<1> SUFFICES ASSUME LineInv, BeginStep PROVE LineInv'
  OBVIOUS
<1>1. /\ phase = "open" /\ phase' = "writes" /\ left' = WriteShare
      /\ remaining = <<>> /\ remaining' = <<>> /\ filled = <<>> /\ filled' = <<>>
      /\ UNCHANGED <<writeQ, readQ, lru, dirty, mshr, credit, accepted>>
  BY DEF BeginStep, LineInv, Quiet
<1>2. dram \in Seq(Request) /\ dram' = [i \in DOMAIN dram |-> [dram[i] EXCEPT !.wait = Aged(@)]]
  BY DEF BeginStep, LineInv, TypeOK
<1>3. /\ dram' \in Seq(Request) /\ FetchedBy(dram') = FetchedBy(dram)
      /\ Sole(dram') /\ Sorted(dram') /\ WithinLatency(dram')
  BY <1>2, AgedQueue DEF LineInv, Requests, DramOrder
<1>4. Quiet'
  <2>1. WriteShare' = WriteShare /\ WriteShare \in 0..TotalBudget
    BY L2Assumption DEF WriteShare
  <2> QED BY <1>1, <2>1 DEF Quiet
<1>5. LruOrder'
  BY <1>1 DEF LineInv, LruOrder, Cached
<1>6. Requests'
  BY <1>1, <1>3 DEF LineInv, Requests, MissingKeys, Cached
<1>7. DramOrder'
  BY <1>1, <1>3, EmptyQueues DEF DramOrder, NoStaleFill
<1>8. /\ answers \subseteq [x : Transaction, wait : Nat]
      /\ answers' = {[a EXCEPT !.wait = Aged(a.wait)] : a \in {b \in answers : Aged(b.wait) > 0}}
      /\ answered' = answered \union {a.x : a \in {b \in answers : Aged(b.wait) = 0}}
  BY DEF LineInv, TypeOK, BeginStep
<1>9. ASSUME NEW a \in answers
      PROVE  /\ [a EXCEPT !.wait = Aged(a.wait)] \in [x : Transaction, wait : Nat]
             /\ [a EXCEPT !.wait = Aged(a.wait)].x = a.x
             /\ Aged(a.wait) > 0 \/ Aged(a.wait) = 0
  BY <1>8 DEF Aged
<1>10. answers' \subseteq [x : Transaction, wait : Nat]
  BY <1>8, <1>9
<1>11. Leaving' \union answered' = Leaving \union answered
  <2>1. Leaving' \subseteq Leaving
    BY <1>8, <1>9 DEF Leaving
  <2>2. answered' \subseteq Leaving \union answered
    BY <1>8 DEF Leaving
  <2>3. ASSUME NEW a \in answers PROVE a.x \in Leaving' \union answered'
    <3>1. CASE Aged(a.wait) > 0
      <4>1. [a EXCEPT !.wait = Aged(a.wait)] \in answers'
        BY <1>8, <3>1
      <4> QED BY <1>9, <4>1 DEF Leaving
    <3>2. CASE Aged(a.wait) = 0
      BY <1>8, <3>2
    <3> QED BY <1>9, <3>1, <3>2
  <2>4. answered \subseteq answered'
    BY <1>8
  <2> QED BY <2>1, <2>2, <2>3, <2>4 DEF Leaving
<1>12. Accounted'
  BY <1>1, <1>11 DEF LineInv, Accounted, Queuing, Missing
<1>13. TypeOK'
  <2>1. answered' \subseteq accepted'
    BY <1>1, <1>11, <1>12 DEF Accounted
  <2>2. left' \in 0..TotalBudget
    BY <1>1, L2Assumption DEF WriteShare
  <2> QED BY <1>1, <1>3, <1>10, <2>1, <2>2 DEF LineInv, TypeOK
<1> QED BY <1>4, <1>5, <1>6, <1>7, <1>12, <1>13 DEF LineInv

LEMMA PhaseKeeps == LineInv /\ (WritesDone \/ ReadsDone \/ EndStep) => LineInv'
<1> SUFFICES ASSUME LineInv, WritesDone \/ ReadsDone \/ EndStep PROVE LineInv'
  OBVIOUS
<1>1. /\ phase \in {"writes", "reads", "fills"} /\ phase' \in {"open", "reads", "dram"}
      /\ remaining = <<>> /\ (phase' # "dram" => filled = <<>>)
      /\ UNCHANGED <<writeQ, readQ, lru, dirty, mshr, answers, dram, remaining, filled,
                     accepted, answered>>
  BY DEF WritesDone, ReadsDone, EndStep, LineInv, Quiet
<1>2. Quiet'
  BY <1>1 DEF Quiet
<1>3. LruOrder' /\ Requests' /\ DramOrder' /\ Missing' = Missing /\ Leaving' = Leaving
  BY <1>1, <1>2, NothingElse
<1>4. Accounted'
  BY <1>1, <1>3 DEF LineInv, Accounted, Queuing
<1>5. left' \in 0..TotalBudget
  <2>1. left \in 0..TotalBudget /\ (phase = "writes" => left <= WriteShare)
    BY DEF LineInv, TypeOK, Quiet
  <2>2. WriteShare \in 0..TotalBudget
    BY L2Assumption DEF WriteShare
  <2> QED BY <2>1, <2>2, L2Assumption DEF WritesDone, ReadsDone, EndStep, ReadShare
<1>6. credit' \in 0..MaxCredit
  <2>1. credit \in 0..MaxCredit
    BY DEF LineInv, TypeOK
  <2> QED BY <2>1, L2Assumption DEF WritesDone, ReadsDone, EndStep
<1>7. TypeOK'
  BY <1>1, <1>5, <1>6 DEF LineInv, TypeOK
<1> QED BY <1>2, <1>3, <1>4, <1>7 DEF LineInv

\* A transaction that hits goes to the answers, one that misses to the entry of its line,
\* which is fetched if it is the first to wait for it.
LEMMA LookUpKeeps ==
    ASSUME LineInv, NEW x \in Transaction, Hit(x) \/ Miss(x),
           phase \in {"writes", "reads"}, UNCHANGED <<phase, remaining, filled, credit>>
    PROVE  /\ lru' \in Seq(Key) /\ dirty' \subseteq Key /\ mshr' \in [Key -> SUBSET Transaction]
           /\ answers' \subseteq [x : Transaction, wait : Nat] /\ dram' \in Seq(Request)
           /\ LruOrder' /\ Requests' /\ DramOrder'
           /\ Missing' \union Leaving' = Missing \union Leaving \union {x}
<1>0. /\ x.key \in Key /\ lru \in Seq(Key) /\ dirty \subseteq Key /\ Distinct(lru)
      /\ mshr \in [Key -> SUBSET Transaction]
      /\ answers \subseteq [x : Transaction, wait : Nat] /\ dram \in Seq(Request)
      /\ remaining = <<>> /\ filled = <<>> /\ remaining' = <<>> /\ filled' = <<>>
      /\ phase' # "dram"
  BY DEF LineInv, TypeOK, LruOrder, Transaction, Quiet
<1>1. CASE Hit(x)
  <2>1. /\ x.key \in Cached /\ lru' = MovedToFront(x.key) /\ UNCHANGED <<mshr, dram>>
        /\ dirty' = dirty \union (IF x.write THEN {x.key} ELSE {})
        /\ answers' = answers \union {Answer(x)}
    BY <1>1 DEF Hit, IsHit
  <2>2. /\ lru' \in Seq(Key) /\ Len(lru') = Len(lru) /\ Distinct(lru') /\ Elems(lru') = Cached
    BY <1>0, <2>1, Touched
  <2>3. Cached' = Cached
    BY <2>2 DEF Cached
  <2>4. LruOrder'
    BY <2>1, <2>2, <2>3 DEF LineInv, LruOrder
  <2>5. Requests' /\ DramOrder'
    <3>1. Requests'
      BY <1>0, <2>1, <2>3 DEF LineInv, Requests, MissingKeys
    <3>2. DramOrder'
      BY <1>0, <2>1 DEF LineInv, DramOrder, NoStaleFill
    <3> QED BY <3>1, <3>2
  <2>6. Answer(x) \in [x : Transaction, wait : Nat] /\ Answer(x).x = x
    BY L2Assumption DEF Answer
  <2>7. Missing' = Missing /\ Leaving' = Leaving \union {x}
    BY <2>1, <2>6 DEF Missing, Leaving
  <2> QED BY <1>0, <2>1, <2>2, <2>4, <2>5, <2>6, <2>7
<1>2. CASE Miss(x)
  <2> DEFINE r == [key |-> x.key, wait |-> DramLatency, writeback |-> FALSE]
  <2>1. /\ mshr' = [mshr EXCEPT ![x.key] = mshr[x.key] \union {x}]
        /\ IF mshr[x.key] = {} THEN dram' = Append(dram, r) ELSE UNCHANGED dram
        /\ UNCHANGED <<lru, dirty, answers>>
    BY <1>2 DEF Miss, Waiting, NeedsFetch
  <2>2. /\ r \in Request /\ r.key = x.key /\ r.wait = DramLatency /\ ~r.writeback
    BY <1>0, L2Assumption DEF Request
  <2> HIDE DEF r
  <2>3. /\ mshr' \in [Key -> SUBSET Transaction] /\ x \in mshr'[x.key]
        /\ \A k \in Key : k # x.key => mshr'[k] = mshr[k]
        /\ mshr'[x.key] = mshr[x.key] \union {x}
    BY <1>0, <2>1
  <2>4. MissingKeys' = MissingKeys \union {x.key}
    BY <1>0, <2>3 DEF MissingKeys
  <2>5. Missing' = Missing \union {x}
    <3>1. Missing' \subseteq Missing \union {x}
      BY <1>0, <2>3 DEF Missing
    <3>2. Missing \union {x} \subseteq Missing'
      BY <1>0, <2>3 DEF Missing
    <3> QED BY <3>1, <3>2
  <2>6. Cached' = Cached /\ x.key \notin Cached
    <3>1. Cached' = Cached
      BY <2>1 DEF Cached
    <3>2. x.key \in Cached => CacheLines > 0
      <4>1. x.key \in Cached => Len(lru) > 0
        BY <1>0 DEF Cached, Elems
      <4> QED BY <1>0, <4>1, L2Assumption DEF LineInv, LruOrder
    <3> QED BY <1>2, <3>1, <3>2 DEF Miss, IsHit
  <2>7. LruOrder'
    BY <2>1, <2>6 DEF LineInv, LruOrder
  <2>8. Leaving' = Leaving
    BY <2>1 DEF Leaving
  <2>9. dram' \in Seq(Request) /\ Requests' /\ DramOrder'
    <3>1. CASE mshr[x.key] = {}
      <4>1. dram' = Append(dram, r) /\ x.key \notin MissingKeys
        BY <2>1, <3>1 DEF MissingKeys
      <4>2. Sole(dram) /\ r.key \notin FetchedBy(dram)
        BY <2>2, <4>1 DEF LineInv, Requests
      <4>3. /\ dram' \in Seq(Request) /\ Sole(dram')
            /\ FetchedBy(dram') = FetchedBy(dram) \union {x.key}
        BY <1>0, <2>2, <4>1, <4>2, AppendRequest
      <4>4. Sorted(dram') /\ WithinLatency(dram')
        BY <1>0, <2>2, <4>1, AppendSorted DEF LineInv, DramOrder
      <4>5. Requests'
        BY <1>0, <2>4, <2>6, <4>3, EmptyQueues DEF LineInv, Requests
      <4>6. DramOrder'
        BY <1>0, <4>4, EmptyQueues DEF DramOrder, NoStaleFill
      <4> QED BY <4>3, <4>5, <4>6
    <3>2. CASE mshr[x.key] # {}
      <4>1. UNCHANGED dram /\ MissingKeys' = MissingKeys
        BY <1>0, <2>1, <2>4, <3>2 DEF MissingKeys
      <4>2. Requests'
        BY <1>0, <2>6, <4>1 DEF LineInv, Requests
      <4>3. DramOrder'
        BY <1>0, <4>1 DEF LineInv, DramOrder, NoStaleFill
      <4> QED BY <1>0, <4>1, <4>2, <4>3
    <3> QED BY <3>1, <3>2
  <2> QED BY <1>0, <2>1, <2>3, <2>5, <2>7, <2>8, <2>9
<1> QED BY <1>1, <1>2

LEMMA TakeKeeps == LineInv /\ (TakeWrite \/ TakeRead) => LineInv'
<1>1. ASSUME LineInv, TakeWrite PROVE LineInv'
  <2>1. /\ writeQ \in Seq(Transaction) /\ readQ \in Seq(Transaction) /\ writeQ # <<>>
        /\ phase = "writes" /\ left > 0 /\ left' = left - 1 /\ writeQ' = Tail(writeQ)
        /\ Hit(Head(writeQ)) \/ Miss(Head(writeQ))
        /\ UNCHANGED <<phase, readQ, remaining, filled, credit, accepted, answered>>
    BY <1>1 DEF TakeWrite, LineInv, TypeOK
  <2>2. /\ writeQ' \in Seq(Transaction) /\ Head(writeQ) \in Transaction
        /\ Len(writeQ') = Len(writeQ) - 1 /\ Elems(writeQ) = Elems(writeQ') \union {Head(writeQ)}
    BY <2>1, Removed
  <2>3. /\ lru' \in Seq(Key) /\ dirty' \subseteq Key /\ mshr' \in [Key -> SUBSET Transaction]
        /\ answers' \subseteq [x : Transaction, wait : Nat] /\ dram' \in Seq(Request)
        /\ LruOrder' /\ Requests' /\ DramOrder'
        /\ Missing' \union Leaving' = Missing \union Leaving \union {Head(writeQ)}
    BY <1>1, <2>1, <2>2, LookUpKeeps
  <2>4. Accounted'
    BY <1>1, <2>1, <2>2, <2>3 DEF LineInv, Accounted, Queuing
  <2>5. left \in 0..TotalBudget /\ Quiet
    BY <1>1 DEF LineInv, TypeOK
  <2>6. left' \in 0..TotalBudget
    BY <2>1, <2>5, L2Assumption
  <2>7. Quiet'
    <3>1. WriteShare' = WriteShare /\ WriteShare \in Nat
      BY L2Assumption DEF WriteShare
    <3> QED BY <2>1, <2>5, <3>1 DEF Quiet
  <2>8. TypeOK'
    BY <1>1, <2>1, <2>2, <2>3, <2>6, L2Assumption DEF LineInv, TypeOK
  <2> QED BY <2>3, <2>4, <2>7, <2>8 DEF LineInv
<1>2. ASSUME LineInv, TakeRead PROVE LineInv'
  <2>1. /\ writeQ \in Seq(Transaction) /\ readQ \in Seq(Transaction) /\ readQ # <<>>
        /\ phase = "reads" /\ left > 0 /\ left' = left - 1 /\ readQ' = Tail(readQ)
        /\ Hit(Head(readQ)) \/ Miss(Head(readQ))
        /\ UNCHANGED <<phase, writeQ, remaining, filled, credit, accepted, answered>>
    BY <1>2 DEF TakeRead, LineInv, TypeOK
  <2>2. /\ readQ' \in Seq(Transaction) /\ Head(readQ) \in Transaction
        /\ Len(readQ') = Len(readQ) - 1 /\ Elems(readQ) = Elems(readQ') \union {Head(readQ)}
    BY <2>1, Removed
  <2>3. /\ lru' \in Seq(Key) /\ dirty' \subseteq Key /\ mshr' \in [Key -> SUBSET Transaction]
        /\ answers' \subseteq [x : Transaction, wait : Nat] /\ dram' \in Seq(Request)
        /\ LruOrder' /\ Requests' /\ DramOrder'
        /\ Missing' \union Leaving' = Missing \union Leaving \union {Head(readQ)}
    BY <1>2, <2>1, <2>2, LookUpKeeps
  <2>4. Accounted'
    BY <1>2, <2>1, <2>2, <2>3 DEF LineInv, Accounted, Queuing
  <2>5. left \in 0..TotalBudget /\ Quiet
    BY <1>2 DEF LineInv, TypeOK
  <2>6. left' \in 0..TotalBudget
    BY <2>1, <2>5, L2Assumption
  <2>7. Quiet'
    BY <2>1, <2>5 DEF Quiet
  <2>8. TypeOK'
    BY <1>2, <2>1, <2>2, <2>3, <2>6, L2Assumption DEF LineInv, TypeOK
  <2> QED BY <2>3, <2>4, <2>7, <2>8 DEF LineInv
<1> QED BY <1>1, <1>2

\* The parts a step of the DRAM leaves alone.
LEMMA DramOnly ==
    ASSUME LineInv, credit' \in 0..MaxCredit, dram' \in Seq(Request),
           remaining' \in Seq(Request), filled' \in Seq(Key),
           UNCHANGED <<left, writeQ, readQ, lru, dirty, mshr, answers, accepted, answered>>,
           phase' \in {"dram", "fills"}
    PROVE  TypeOK' /\ LruOrder' /\ Accounted' /\ MissingKeys' = MissingKeys /\ Cached' = Cached
<1>1. TypeOK'
  BY DEF LineInv, TypeOK
<1>2. LruOrder'
  BY DEF LineInv, LruOrder, Cached
<1>3. Accounted'
  BY DEF LineInv, Accounted, Queuing, Missing, Leaving
<1>4. MissingKeys' = MissingKeys /\ Cached' = Cached
  BY DEF MissingKeys, Cached
<1> QED BY <1>1, <1>2, <1>3, <1>4

LEMMA ServeKeeps == LineInv /\ ServeRequest => LineInv'
<1> SUFFICES ASSUME LineInv, ServeRequest PROVE LineInv'
  OBVIOUS
<1> DEFINE r == Head(dram)
<1>1. /\ phase = "dram" /\ phase' = "dram" /\ dram # <<>> /\ dram' = Tail(dram)
      /\ UNCHANGED <<left, writeQ, readQ, lru, dirty, mshr, answers, accepted, answered>>
      /\ IF r.wait = 0 /\ Affordable
           THEN /\ credit' = credit - LineSize
                /\ filled' = IF r.writeback THEN filled ELSE Append(filled, r.key)
                /\ UNCHANGED remaining
           ELSE remaining' = Append(remaining, r) /\ UNCHANGED <<credit, filled>>
  BY DEF ServeRequest
<1>2. /\ dram \in Seq(Request) /\ remaining \in Seq(Request) /\ filled \in Seq(Key)
      /\ credit \in 0..MaxCredit /\ Requests /\ DramOrder
      /\ Sole(dram) /\ Sole(remaining) /\ Sorted(dram) /\ WithinLatency(dram)
  BY DEF LineInv, TypeOK, Requests, DramOrder
<1>3. /\ dram' \in Seq(Request) /\ r \in Request /\ Sole(dram')
      /\ FetchedBy(dram) = FetchedBy(dram') \union (IF r.writeback THEN {} ELSE {r.key})
      /\ ~r.writeback => r.key \notin FetchedBy(dram')
      /\ \A k : WritebackPending(dram', k) => WritebackPending(dram, k)
  BY <1>1, <1>2, RemoveRequest
<1>4. /\ Sorted(dram') /\ WithinLatency(dram') /\ r.wait <= DramLatency
      /\ \A i \in DOMAIN dram' : Ahead(r, dram'[i])
  BY <1>1, <1>2, RemoveSorted
<1>5. /\ \A i \in DOMAIN dram' : i + 1 \in DOMAIN dram /\ dram'[i] = dram[i + 1]
      /\ 1 \in DOMAIN dram /\ r = dram[1]
  BY <1>1, <1>2, Removed
<1> HIDE DEF r
<1>6. /\ Before(remaining, dram') /\ \A i \in DOMAIN remaining : Ahead(remaining[i], r)
  BY <1>2, <1>5 DEF DramOrder, Before
<1>7. r.key \in Key /\ r.wait \in Nat /\ r.writeback \in BOOLEAN
  BY <1>3 DEF Request
<1>8. CASE r.wait = 0 /\ Affordable
  <2>1. credit' = credit - LineSize /\ remaining' = remaining
        /\ filled' = IF r.writeback THEN filled ELSE Append(filled, r.key)
    BY <1>1, <1>8
  <2>2. credit' \in 0..MaxCredit /\ credit' <= credit
    BY <1>2, <1>8, <2>1, L2Assumption DEF Affordable
  <2>3. \A i \in DOMAIN remaining : remaining[i].wait # 0
    BY <1>1, <1>2, <1>8 DEF DramOrder
  <2>4. \A i \in DOMAIN remaining : remaining[i].wait \in Nat
    <3>1. \A i \in DOMAIN remaining : remaining[i] \in Request
      BY <1>2
    <3> QED BY <3>1 DEF Request
  <2>5. remaining = <<>>
    <3>1. \A i \in DOMAIN remaining : remaining[i].wait <= 0
      BY <1>6, <1>8 DEF Ahead
    <3>2. \A i \in DOMAIN remaining : FALSE
      BY <2>3, <2>4, <3>1
    <3>3. remaining # <<>> => 1 \in DOMAIN remaining
      BY <1>2
    <3> QED BY <3>2, <3>3
  <2>6. filled' \in Seq(Key) /\ Distinct(filled')
        /\ Elems(filled') = Elems(filled) \union (IF r.writeback THEN {} ELSE {r.key})
    <3>1. CASE r.writeback
      BY <1>2, <2>1, <3>1 DEF Requests
    <3>2. CASE ~r.writeback
      <4>1. filled' = Append(filled, r.key)
        BY <2>1, <3>2
      <4>2. /\ filled' \in Seq(Key) /\ Elems(filled') = Elems(filled) \union {r.key}
            /\ DOMAIN filled' = DOMAIN filled \union {Len(filled) + 1}
            /\ Len(filled) + 1 \notin DOMAIN filled
            /\ \A i \in DOMAIN filled : filled'[i] = filled[i]
            /\ filled'[Len(filled) + 1] = r.key
        BY <1>2, <1>7, <4>1, Appended
      <4>3. r.key \notin Elems(filled)
        BY <1>2, <1>3, <3>2 DEF Requests
      <4>4. Distinct(filled')
        BY <1>2, <4>2, <4>3 DEF Distinct, Requests, Elems
      <4> QED BY <3>2, <4>2, <4>4
    <3> QED BY <3>1, <3>2
  <2>7. /\ TypeOK' /\ LruOrder' /\ Accounted' /\ MissingKeys' = MissingKeys
        /\ Cached' = Cached
    BY <1>1, <1>2, <1>3, <2>1, <2>2, <2>6, DramOnly
  <2>8. Requests'
    BY <1>2, <1>3, <2>1, <2>5, <2>6, <2>7, EmptyQueues DEF Requests
  <2>9. NoStaleFill'
    <3>1. SUFFICES ASSUME NEW k \in Elems(filled'), WritebackPending(dram', k) PROVE FALSE
      BY <2>1, <2>5, EmptyQueues DEF NoStaleFill
    <3>2. k \notin Elems(filled)
      BY <1>2, <1>3, <3>1 DEF DramOrder, NoStaleFill
    <3>3. ~r.writeback /\ k = r.key
      BY <2>6, <3>1, <3>2
    <3> QED BY <1>4, <3>1, <3>3 DEF Ahead, WritebackPending
  <2>10. DramOrder'
    BY <1>2, <1>4, <2>1, <2>5, <2>9, EmptyQueues DEF DramOrder
  <2>11. Quiet'
    BY <1>1 DEF Quiet
  <2> QED BY <2>7, <2>8, <2>10, <2>11 DEF LineInv
<1>9. CASE ~(r.wait = 0 /\ Affordable)
  <2>1. remaining' = Append(remaining, r) /\ UNCHANGED <<credit, filled>>
    BY <1>1, <1>9
  <2>2. r.writeback \/ r.key \notin FetchedBy(remaining)
    BY <1>2, <1>3, <1>7 DEF Requests
  <2>3. /\ remaining' \in Seq(Request) /\ Sole(remaining')
        /\ FetchedBy(remaining') =
              FetchedBy(remaining) \union (IF r.writeback THEN {} ELSE {r.key})
        /\ \A k : WritebackPending(remaining', k) <=>
                     WritebackPending(remaining, k) \/ (r.writeback /\ r.key = k)
    BY <1>2, <1>3, <2>1, <2>2, AppendRequest
  <2>4. /\ DOMAIN remaining' = DOMAIN remaining \union {Len(remaining) + 1}
        /\ Len(remaining) + 1 \notin DOMAIN remaining
        /\ \A i \in DOMAIN remaining : remaining'[i] = remaining[i]
        /\ remaining'[Len(remaining) + 1] = r
    BY <1>2, <1>3, <2>1, Appended
  <2>5. \A i \in DOMAIN remaining : i < Len(remaining) + 1 /\ ~(Len(remaining) + 1 < i)
    BY <1>2
  <2>6. Sorted(remaining')
    <3>1. Len(remaining) \in Nat
      BY <1>2
    <3> QED BY <1>2, <1>6, <2>4, <2>5, <3>1 DEF Sorted, DramOrder
  <2>7. Before(remaining', dram') /\ WithinLatency(remaining')
    BY <1>2, <1>4, <1>6, <2>4 DEF Before, WithinLatency, DramOrder
  <2>8. /\ TypeOK' /\ LruOrder' /\ Accounted' /\ MissingKeys' = MissingKeys
        /\ Cached' = Cached
    BY <1>1, <1>2, <1>3, <2>1, <2>3, DramOnly
  <2>9. Requests'
    BY <1>2, <1>3, <2>1, <2>3, <2>8 DEF Requests
  <2>10. NoStaleFill'
    <3>1. ~(r.writeback /\ r.key \in Elems(filled))
      BY <1>2, <1>5 DEF DramOrder, NoStaleFill, WritebackPending
    <3> QED BY <1>2, <1>3, <2>1, <2>3, <3>1 DEF DramOrder, NoStaleFill
  <2>11. phase' = "dram" /\ Affordable' => \A i \in DOMAIN remaining' : remaining'[i].wait # 0
    BY <1>1, <1>2, <1>9, <2>1, <2>4 DEF DramOrder, Affordable
  <2>12. DramOrder'
    BY <1>4, <2>6, <2>7, <2>10, <2>11 DEF DramOrder
  <2>13. Quiet'
    BY <1>1 DEF Quiet
  <2> QED BY <2>8, <2>9, <2>12, <2>13 DEF LineInv
<1> QED BY <1>8, <1>9

LEMMA DramDoneKeeps == LineInv /\ DramDone => LineInv'
<1> SUFFICES ASSUME LineInv, DramDone PROVE LineInv'
  OBVIOUS
<1>1. /\ phase = "dram" /\ phase' = "fills" /\ dram = <<>> /\ dram' = remaining /\ remaining' = <<>>
      /\ UNCHANGED <<left, writeQ, readQ, lru, dirty, mshr, answers, filled, credit,
                     accepted, answered>>
  BY DEF DramDone
<1>2. /\ credit \in 0..MaxCredit /\ remaining \in Seq(Request) /\ filled \in Seq(Key)
      /\ <<>> \in Seq(Request)
  BY DEF LineInv, TypeOK
<1>3. /\ TypeOK' /\ LruOrder' /\ Accounted' /\ MissingKeys' = MissingKeys
      /\ Cached' = Cached
  BY <1>1, <1>2, DramOnly
<1>4. Requests'
  BY <1>1, <1>3, EmptyQueues DEF LineInv, Requests
<1>5. DramOrder'
  BY <1>1, EmptyQueues DEF LineInv, DramOrder, NoStaleFill
<1>6. Quiet'
  BY <1>1 DEF Quiet
<1> QED BY <1>3, <1>4, <1>5, <1>6 DEF LineInv

\* What a line that arrives does to the cache: it may push another one out, which is
\* written back if it is dirty.
LEMMA FillMoves ==
    ASSUME LineInv, Fill
    PROVE  /\ Head(filled) \in Key /\ Head(filled) \in MissingKeys /\ Head(filled) \notin Cached
           /\ lru' \in Seq(Key) /\ Distinct(lru') /\ Len(lru') <= CacheLines
           /\ Cached' \subseteq Cached \union {Head(filled)} /\ dirty' \subseteq Cached'
           /\ \/ dram' = dram /\ dirty \subseteq dirty'
              \/ \E v \in Cached : dram' = Append(dram, WriteBack(v)) /\ dirty \subseteq dirty' \union {v}
<1> DEFINE k == Head(filled)
<1>1. /\ filled \in Seq(Key) /\ filled # <<>> /\ lru \in Seq(Key) /\ Distinct(lru)
      /\ Len(lru) <= CacheLines /\ dirty \subseteq Cached
  BY DEF Fill, LineInv, TypeOK, LruOrder
<1>2. k \in Key /\ k \in Elems(filled)
  BY <1>1, Removed
<1>3. IF Inserts(k)
        THEN InsertLine(k, \E x \in mshr[k] : x.write)
        ELSE UNCHANGED <<lru, dirty, dram>>
  BY DEF Fill
<1> HIDE DEF k
<1>4. k \in MissingKeys /\ k \notin Cached
  BY <1>2 DEF LineInv, Requests
<1>5. CASE ~Inserts(k)
  <2>1. UNCHANGED <<lru, dirty, dram>>
    BY <1>3, <1>5
  <2>2. Cached' = Cached
    BY <2>1 DEF Cached
  <2> QED BY <1>1, <1>2, <1>4, <2>1, <2>2 DEF k
<1>6. CASE Inserts(k)
  <2> DEFINE add == IF \E x \in mshr[k] : x.write THEN {k} ELSE {}
             gone == IF MustEvict THEN {Victim} ELSE {}
  <2>1. /\ lru' = <<k>> \o SubSeq(lru, 1, IF MustEvict THEN Len(lru) - 1 ELSE Len(lru))
        /\ dirty' = (dirty \ gone) \union add
        /\ dram' = IF MustEvict THEN Queued(Victim) ELSE dram
    BY <1>3, <1>4, <1>6 DEF InsertLine
  <2>2. CacheLines > 0
    BY <1>6 DEF Inserts
  <2>3. /\ lru' \in Seq(Key) /\ Distinct(lru') /\ Len(lru') <= CacheLines
        /\ Elems(lru') = {k} \union (Cached \ gone)
        /\ MustEvict => Victim \in Cached
    BY <1>1, <1>2, <1>4, <2>1, <2>2, Entered
  <2>4. Cached' = Elems(lru')
    BY DEF Cached
  <2>5. dirty' \subseteq Cached'
    BY <1>1, <2>1, <2>3, <2>4
  <2>6. \/ dram' = dram /\ dirty \subseteq dirty'
        \/ \E v \in Cached : dram' = Append(dram, WriteBack(v)) /\ dirty \subseteq dirty' \union {v}
    <3>1. CASE MustEvict /\ Victim \in dirty
      <4>1. dram' = Append(dram, WriteBack(Victim)) /\ dirty \subseteq dirty' \union {Victim}
        BY <2>1, <3>1 DEF Queued
      <4> QED BY <2>3, <3>1, <4>1
    <3>2. CASE ~(MustEvict /\ Victim \in dirty)
      BY <2>1, <3>2 DEF Queued
    <3> QED BY <3>1, <3>2
  <2> HIDE DEF gone, add
  <2> QED BY <1>2, <1>4, <2>3, <2>4, <2>5, <2>6 DEF k
<1> QED BY <1>5, <1>6

LEMMA FillKeeps == LineInv /\ Fill => LineInv'
<1> SUFFICES ASSUME LineInv, Fill PROVE LineInv'
  OBVIOUS
<1> DEFINE k == Head(filled)
<1>1. /\ phase = "fills" /\ phase' = "fills" /\ filled # <<>> /\ filled' = Tail(filled)
      /\ answers' = answers \union {Answer(x) : x \in mshr[k]}
      /\ mshr' = [mshr EXCEPT ![k] = {}]
      /\ UNCHANGED <<left, writeQ, readQ, remaining, credit, accepted, answered>>
  BY DEF Fill
<1>2. /\ k \in Key /\ k \in MissingKeys /\ k \notin Cached
      /\ lru' \in Seq(Key) /\ Distinct(lru') /\ Len(lru') <= CacheLines
      /\ Cached' \subseteq Cached \union {k} /\ dirty' \subseteq Cached'
      /\ \/ dram' = dram
         \/ \E v \in Cached : dram' = Append(dram, WriteBack(v))
  BY FillMoves
<1>3. /\ filled \in Seq(Key) /\ dram \in Seq(Request) /\ mshr \in [Key -> SUBSET Transaction]
      /\ answers \subseteq [x : Transaction, wait : Nat] /\ remaining = <<>>
      /\ Requests /\ DramOrder
  BY <1>1 DEF LineInv, TypeOK, Quiet
<1>4. /\ filled' \in Seq(Key) /\ Elems(filled) = Elems(filled') \union {k}
      /\ \A i \in DOMAIN filled' : i + 1 \in DOMAIN filled /\ filled'[i] = filled[i + 1]
      /\ 1 \in DOMAIN filled /\ k = filled[1]
  BY <1>1, <1>3, Removed
<1>5. Cached \subseteq Key /\ Cached' \subseteq Key
  <2>1. lru \in Seq(Key)
    BY DEF LineInv, TypeOK
  <2>2. Cached \subseteq Key
    BY <2>1 DEF Cached, Elems
  <2> HIDE DEF k
  <2> QED BY <1>2, <2>2
<1> HIDE DEF k
<1>6. \A i \in DOMAIN filled' : i \in Nat \ {0}
  BY <1>4
<1>7. Distinct(filled') /\ k \notin Elems(filled')
  <2>1. ASSUME NEW i \in DOMAIN filled', NEW j \in DOMAIN filled', filled'[i] = filled'[j]
        PROVE  i = j
    <3>1. i + 1 = j + 1
      BY <1>3, <1>4, <2>1 DEF Requests, Distinct
    <3> QED BY <1>6, <3>1
  <2>2. ASSUME NEW i \in DOMAIN filled', filled'[i] = k PROVE FALSE
    <3>1. i + 1 = 1
      BY <1>3, <1>4, <2>2 DEF Requests, Distinct
    <3> QED BY <1>6, <3>1
  <2> QED BY <2>1, <2>2 DEF Distinct, Elems
<1>8. /\ mshr' \in [Key -> SUBSET Transaction] /\ mshr'[k] = {}
      /\ \A j \in Key : j # k => mshr'[j] = mshr[j]
  BY <1>1, <1>2, <1>3
<1>9. MissingKeys' = MissingKeys \ {k}
  BY <1>8 DEF MissingKeys
<1>10. \A x \in mshr[k] : Answer(x) \in [x : Transaction, wait : Nat] /\ Answer(x).x = x
  BY <1>2, <1>3, L2Assumption DEF Answer
<1>11. answers' \subseteq [x : Transaction, wait : Nat]
  BY <1>1, <1>3, <1>10
<1>12. Missing' \union Leaving' = Missing \union Leaving
  <2>1. Missing' \subseteq Missing
    BY <1>8 DEF Missing
  <2>2. Leaving' = Leaving \union mshr[k]
    <3>1. Leaving' \subseteq Leaving \union mshr[k]
      BY <1>1, <1>10 DEF Leaving
    <3>2. Leaving \union mshr[k] \subseteq Leaving'
      BY <1>1, <1>10 DEF Leaving
    <3> QED BY <3>1, <3>2
  <2>3. mshr[k] \subseteq Missing
    BY <1>2 DEF Missing
  <2>4. Missing \subseteq Missing' \union mshr[k]
    BY <1>8 DEF Missing
  <2> QED BY <2>1, <2>2, <2>3, <2>4
<1>13. /\ dram' \in Seq(Request) /\ Sole(dram') /\ FetchedBy(dram') = FetchedBy(dram)
       /\ Sorted(dram') /\ WithinLatency(dram')
       /\ \A j \in Elems(filled) : ~WritebackPending(dram', j)
  <2>1. CASE dram' = dram
    BY <1>3, <2>1 DEF Requests, DramOrder, NoStaleFill
  <2>2. CASE \E v \in Cached : dram' = Append(dram, WriteBack(v))
    <3>1. PICK v \in Cached : dram' = Append(dram, WriteBack(v))
      BY <2>2
    <3>2. /\ WriteBack(v) \in Request /\ WriteBack(v).key = v /\ WriteBack(v).writeback
          /\ WriteBack(v).wait = DramLatency
      BY <1>5, L2Assumption DEF WriteBack, Request
    <3>3. v \notin FetchedBy(dram) /\ v \notin Elems(filled)
      BY <1>3 DEF Requests
    <3> DEFINE w == WriteBack(v)
    <3> HIDE DEF w
    <3>4. /\ dram' = Append(dram, w) /\ w \in Request /\ w.key = v /\ w.writeback = TRUE
          /\ w.wait = DramLatency
      BY <3>1, <3>2 DEF w, WriteBack
    <3>5. Sole(dram) /\ Sorted(dram) /\ WithinLatency(dram)
      BY <1>3 DEF Requests, DramOrder
    <3>6. /\ dram' \in Seq(Request) /\ Sole(dram') /\ FetchedBy(dram') = FetchedBy(dram)
          /\ \A j : WritebackPending(dram', j) <=> WritebackPending(dram, j) \/ (w.writeback /\ w.key = j)
      BY <1>3, <3>4, <3>5, AppendRequest
    <3>7. Sorted(dram') /\ WithinLatency(dram')
      BY <1>3, <3>3, <3>4, <3>5, AppendSorted
    <3>8. \A j \in Elems(filled) : ~WritebackPending(dram', j)
      BY <1>3, <3>3, <3>4, <3>6 DEF DramOrder, NoStaleFill
    <3> QED BY <3>6, <3>7, <3>8
  <2> QED BY <1>2, <2>1, <2>2
<1>14. Requests'
  BY <1>1, <1>2, <1>3, <1>4, <1>7, <1>9, <1>13 DEF Requests
<1>15. DramOrder'
  BY <1>1, <1>3, <1>4, <1>13, EmptyQueues DEF DramOrder, NoStaleFill
<1>16. Accounted'
  BY <1>1, <1>12 DEF LineInv, Accounted, Queuing
<1>17. Quiet' /\ LruOrder'
  BY <1>1, <1>2, <1>3 DEF Quiet, LruOrder
<1>18. TypeOK'
  <2>1. dirty' \subseteq Key
    BY <1>2, <1>5
  <2>2. remaining' \in Seq(Request)
    BY <1>1 DEF LineInv, TypeOK
  <2> QED BY <1>1, <1>2, <1>4, <1>8, <1>11, <1>13, <2>1, <2>2 DEF LineInv, TypeOK
<1> QED BY <1>14, <1>15, <1>16, <1>17, <1>18 DEF LineInv

LEMMA StepKeepsLines == LineInv /\ Step => LineInv'
BY BeginStepKeeps, TakeKeeps, PhaseKeeps, ServeKeeps, DramDoneKeeps, FillKeeps DEF Step
---------------------------------------------------------------------------
(* The invariant of the transactions                                       *)

\* Transactions have different numbers, up to how many there are; the places they can
\* be in are disjoint, and none is there twice.
Places ==
    /\ IsFiniteSet(accepted)
    /\ \A x, y \in accepted : x.tx = y.tx => x = y
    /\ \A x \in accepted : x.tx <= Cardinality(accepted)
    /\ Distinct(writeQ) /\ Distinct(readQ) /\ Elems(writeQ) \intersect Elems(readQ) = {}
    /\ Queuing \intersect (Missing \union Leaving \union answered) = {}
    /\ Missing \intersect (Leaving \union answered) = {}
    /\ Leaving \intersect answered = {}
    /\ \A a, b \in answers : a.x = b.x => a = b
    /\ \A k \in Key : \A x \in mshr[k] : x.key = k

Inv == LineInv /\ Places

LEMMA InitInv == Init => Inv
<1> SUFFICES ASSUME Init PROVE Places
  BY InitLineInv DEF Inv
<1>1. Queuing = {} /\ Missing = {} /\ Leaving = {} /\ answered = {}
  BY EmptyQueues DEF Init, Queuing, Missing, Leaving
<1> QED BY <1>1, EmptyQueues, FS_EmptySet DEF Init, Places

\* A sequence without repetition has as many elements as it is long.
LEMMA ElemsCount ==
    ASSUME NEW S, NEW s \in Seq(S), Distinct(s)
    PROVE  IsFiniteSet(Elems(s)) /\ Cardinality(Elems(s)) = Len(s)
<1>1. IsFiniteSet(1..Len(s)) /\ Cardinality(1..Len(s)) = Len(s)
  <2>1. Len(s) \in Nat
    OBVIOUS
  <2> QED BY <2>1, FS_Interval
<1>2. s \in [1..Len(s) -> Elems(s)]
  BY DEF Elems
<1>3. s \in Bijection(1..Len(s), Elems(s))
  <2>1. \A i, j \in 1..Len(s) : s[i] = s[j] => i = j
    BY DEF Distinct
  <2>2. \A e \in Elems(s) : \E i \in 1..Len(s) : s[i] = e
    BY DEF Elems
  <2>3. DOMAIN s = 1..Len(s)
    OBVIOUS
  <2>4. IsInjective(s)
    BY <2>1, <2>3 DEF IsInjective
  <2> QED BY <1>2, <2>2, <2>4 DEF Bijection, Injection, Surjection
<1>4. ExistsBijection(1..Len(s), Elems(s))
  BY <1>3 DEF ExistsBijection
<1> QED BY <1>1, <1>4, FS_Bijection

LEMMA JoinedDistinct ==
    ASSUME NEW S, NEW s \in Seq(S), NEW t \in Seq(S), Distinct(s), Distinct(t),
           Elems(s) \intersect Elems(t) = {}
    PROVE  Distinct(s \o t)
<1> DEFINE n == Len(s)
<1>1. SUFFICES ASSUME NEW i \in DOMAIN (s \o t), NEW j \in DOMAIN (s \o t), (s \o t)[i] = (s \o t)[j]
               PROVE  i = j
  BY DEF Distinct
<1>2. ASSUME NEW m \in DOMAIN (s \o t)
      PROVE  \/ m \in DOMAIN s /\ (s \o t)[m] = s[m]
             \/ m - n \in DOMAIN t /\ (s \o t)[m] = t[m - n]
  OBVIOUS
<1>3. n \in Nat /\ i \in Nat /\ j \in Nat
  OBVIOUS
<1>4. \A m \in DOMAIN s : \A l \in DOMAIN t : s[m] # t[l]
  BY DEF Elems
<1> HIDE DEF n
<1>5. i \in DOMAIN s <=> j \in DOMAIN s
  BY <1>1, <1>2, <1>4
<1>6. i \in DOMAIN s => i = j
  BY <1>1, <1>2, <1>4, <1>5 DEF Distinct
<1>7. i \notin DOMAIN s => i - n = j - n
  BY <1>1, <1>2, <1>5 DEF Distinct
<1> QED BY <1>3, <1>6, <1>7

LEMMA RemovedDistinct ==
    ASSUME NEW S, NEW s \in Seq(S), s # <<>>, Distinct(s)
    PROVE  Distinct(Tail(s)) /\ Head(s) \notin Elems(Tail(s))
<1> DEFINE t == Tail(s)  h == Head(s)
<1>1. /\ \A i \in DOMAIN t : i + 1 \in DOMAIN s /\ t[i] = s[i + 1]
      /\ 1 \in DOMAIN s /\ h = s[1]
  BY Removed
<1>2. \A i \in DOMAIN t : i \in Nat \ {0}
  OBVIOUS
<1> HIDE DEF t, h
<1>3. ASSUME NEW i \in DOMAIN t, NEW j \in DOMAIN t, t[i] = t[j] PROVE i = j
  <2>1. i + 1 = j + 1
    BY <1>1, <1>3 DEF Distinct
  <2> QED BY <1>2, <2>1
<1>4. ASSUME NEW i \in DOMAIN t, t[i] = h PROVE FALSE
  <2>1. i + 1 = 1
    BY <1>1, <1>4 DEF Distinct
  <2> QED BY <1>2, <2>1
<1>5. Distinct(t)
  BY <1>3 DEF Distinct
<1>6. h \notin Elems(t)
  BY <1>4 DEF Elems
<1> QED BY <1>5, <1>6 DEF t, h

LEMMA TakesKeepsPlaces ==
    ASSUME Inv, NEW lines, NEW write, Takes(lines, write) PROVE Inv'
<1>1. /\ writeQ \in Seq(Transaction) /\ readQ \in Seq(Transaction) /\ lines \in Seq(Transaction)
      /\ accepted \subseteq Transaction /\ Places /\ Accounted
      /\ \A i \in DOMAIN lines : lines[i].tx = Cardinality(accepted) + i
      /\ accepted' = accepted \union Elems(lines)
      /\ UNCHANGED <<mshr, answers, answered>>
  BY DEF Inv, LineInv, TypeOK, Takes
<1>2. IsFiniteSet(accepted) /\ Cardinality(accepted) \in Nat
  BY <1>1, FS_CardinalityType DEF Places
<1> DEFINE n == Cardinality(accepted)
<1> HIDE DEF n
<1>3. n \in Nat /\ (\A i \in DOMAIN lines : lines[i].tx = n + i /\ i \in 1..Len(lines)) /\ Len(lines) \in Nat
  BY <1>1, <1>2 DEF n
<1>4. \A x \in accepted : x.tx <= n /\ x.tx \in Nat
  <2>1. \A x \in accepted : x.tx <= n
    BY <1>1 DEF n, Places
  <2>2. \A x \in Transaction : x.tx \in Nat
    BY DEF Transaction
  <2> QED BY <1>1, <2>1, <2>2
<1>5. \A x \in Elems(lines) : x.tx > n /\ x.tx <= n + Len(lines)
  BY <1>3 DEF Elems
<1>6. Elems(lines) \intersect accepted = {}
  BY <1>3, <1>4, <1>5
<1>7. Distinct(lines)
  <2>1. ASSUME NEW i \in DOMAIN lines, NEW j \in DOMAIN lines, lines[i] = lines[j] PROVE i = j
    <3>1. n + i = n + j
      BY <1>3, <2>1
    <3> QED BY <1>3, <3>1
  <2> QED BY <2>1 DEF Distinct
<1>8. IsFiniteSet(Elems(lines)) /\ Cardinality(Elems(lines)) = Len(lines)
  BY <1>1, <1>7, ElemsCount
<1>9. IsFiniteSet(accepted') /\ Cardinality(accepted') = n + Len(lines)
  <2>1. /\ IsFiniteSet(accepted')
        /\ Cardinality(accepted') =
              Cardinality(accepted) + Cardinality(Elems(lines)) - Cardinality(accepted \intersect Elems(lines))
    BY <1>1, <1>2, <1>8, FS_Union
  <2>2. Cardinality(accepted \intersect Elems(lines)) = 0
    <3>1. accepted \intersect Elems(lines) = {}
      BY <1>6
    <3> QED BY <3>1, FS_EmptySet
  <2> QED BY <1>3, <1>8, <2>1, <2>2 DEF n
<1>10. \A x \in accepted' : x.tx <= Cardinality(accepted')
  <2>1. \A x \in accepted : x.tx <= n + Len(lines)
    BY <1>3, <1>4
  <2> QED BY <1>1, <1>5, <1>9, <2>1
<1>11. \A x, y \in accepted' : x.tx = y.tx => x = y
  <2>1. \A x, y \in accepted : x.tx = y.tx => x = y
    BY <1>1 DEF Places
  <2>2. \A x, y \in Elems(lines) : x.tx = y.tx => x = y
    BY <1>3 DEF Elems
  <2>3. \A x \in accepted, y \in Elems(lines) : x.tx # y.tx
    BY <1>3, <1>4, <1>5
  <2> QED BY <1>1, <2>1, <2>2, <2>3
<1>12. /\ Distinct(writeQ') /\ Distinct(readQ') /\ Elems(writeQ') \intersect Elems(readQ') = {}
       /\ Queuing' = Queuing \union Elems(lines)
  <2>1. /\ Distinct(writeQ) /\ Distinct(readQ) /\ Elems(writeQ) \intersect Elems(readQ) = {}
        /\ Elems(writeQ) \subseteq accepted /\ Elems(readQ) \subseteq accepted
    BY <1>1 DEF Places, Accounted, Queuing
  <2>2. CASE write
    <3>1. writeQ' = writeQ \o lines /\ readQ' = readQ
      BY <2>2 DEF Takes
    <3>2. Elems(writeQ') = Elems(writeQ) \union Elems(lines)
      BY <1>1, <3>1, Joined
    <3>3. Distinct(writeQ')
      <4>1. Elems(writeQ) \intersect Elems(lines) = {}
        BY <1>6, <2>1
      <4> QED BY <1>1, <1>7, <2>1, <3>1, <4>1, JoinedDistinct
    <3> QED BY <1>6, <2>1, <3>1, <3>2, <3>3 DEF Queuing
  <2>3. CASE ~write
    <3>1. readQ' = readQ \o lines /\ writeQ' = writeQ
      BY <2>3 DEF Takes
    <3>2. Elems(readQ') = Elems(readQ) \union Elems(lines)
      BY <1>1, <3>1, Joined
    <3>3. Distinct(readQ')
      <4>1. Elems(readQ) \intersect Elems(lines) = {}
        BY <1>6, <2>1
      <4> QED BY <1>1, <1>7, <2>1, <3>1, <4>1, JoinedDistinct
    <3> QED BY <1>6, <2>1, <3>1, <3>2, <3>3 DEF Queuing
  <2> QED BY <2>2, <2>3
<1>13. Missing' = Missing /\ Leaving' = Leaving
  BY <1>1 DEF Missing, Leaving
<1>14. Queuing' \intersect (Missing' \union Leaving' \union answered') = {}
  BY <1>1, <1>6, <1>12, <1>13 DEF Places, Accounted
<1>15. Places'
  BY <1>1, <1>9, <1>10, <1>11, <1>12, <1>13, <1>14 DEF Places
<1> QED BY <1>15, TakesKeeps DEF Inv

\* A step takes nothing in; if it moves no transaction either, all stays in its place.
LEMMA StandStill ==
    ASSUME Places, UNCHANGED <<writeQ, readQ, mshr, answers, accepted, answered>>
    PROVE  Places'
BY DEF Places, Queuing, Missing, Leaving

LEMMA BeginStepPlaces == Inv /\ BeginStep => Places'
<1> SUFFICES ASSUME Inv, BeginStep PROVE Places'
  OBVIOUS
<1>1. /\ UNCHANGED <<writeQ, readQ, mshr, accepted>> /\ Places
      /\ answers \subseteq [x : Transaction, wait : Nat]
      /\ answers' = {[a EXCEPT !.wait = Aged(a.wait)] : a \in {b \in answers : Aged(b.wait) > 0}}
      /\ answered' = answered \union {a.x : a \in {b \in answers : Aged(b.wait) = 0}}
  BY DEF BeginStep, Inv, LineInv, TypeOK
<1>2. ASSUME NEW e \in answers'
      PROVE  \E a \in answers : /\ e = [a EXCEPT !.wait = Aged(a.wait)]
                                /\ e.x = a.x /\ Aged(a.wait) > 0
  <2>1. PICK a \in answers : e = [a EXCEPT !.wait = Aged(a.wait)] /\ Aged(a.wait) > 0
    BY <1>1, <1>2
  <2>2. e.x = a.x
    BY <1>1, <2>1
  <2> QED BY <2>1, <2>2
<1>3. \A a, b \in answers : a.x = b.x => a = b
  BY <1>1 DEF Places
<1>4. \A d, e \in answers' : d.x = e.x => d = e
  BY <1>2, <1>3
<1>5. Leaving' \subseteq Leaving
  BY <1>2 DEF Leaving
<1>6. answered' \subseteq answered \union Leaving
  BY <1>1 DEF Leaving
<1>7. Leaving' \intersect answered' = {}
  <2>1. SUFFICES ASSUME NEW e \in answers', e.x \in answered' PROVE FALSE
    BY DEF Leaving
  <2>2. PICK a \in answers : e.x = a.x /\ Aged(a.wait) > 0
    BY <1>2
  <2>3. e.x \notin answered
    BY <1>1, <2>2 DEF Places, Leaving
  <2>4. PICK b \in answers : e.x = b.x /\ Aged(b.wait) = 0
    BY <1>1, <2>1, <2>3
  <2>5. a = b
    BY <1>3, <2>2, <2>4
  <2>6. Aged(a.wait) = 0 /\ Aged(a.wait) > 0
    BY <2>2, <2>4, <2>5
  <2> QED BY <2>6
<1>8. Queuing' = Queuing /\ Missing' = Missing
  BY <1>1 DEF Queuing, Missing
<1> QED BY <1>1, <1>4, <1>5, <1>6, <1>7, <1>8 DEF Places

\* The transaction at the head of a queue goes where the look-up sends it.
LEMMA LookUpPlaces ==
    ASSUME Inv, NEW x \in Transaction, Hit(x) \/ Miss(x), x \in Queuing,
           Queuing' \subseteq Queuing, x \notin Queuing', UNCHANGED <<accepted, answered>>,
           Distinct(writeQ'), Distinct(readQ'), Elems(writeQ') \intersect Elems(readQ') = {}
    PROVE  Places'
<1>1. /\ Places /\ x.key \in Key /\ mshr \in [Key -> SUBSET Transaction]
      /\ x \notin Missing /\ x \notin Leaving /\ x \notin answered
  BY DEF Inv, LineInv, TypeOK, Places, Transaction
<1>2. CASE Hit(x)
  <2>1. UNCHANGED mshr /\ answers' = answers \union {Answer(x)} /\ Answer(x).x = x
    BY <1>2 DEF Hit, Answer
  <2>2. Missing' = Missing /\ Leaving' = Leaving \union {x}
    BY <2>1 DEF Missing, Leaving
  <2>3. \A a, b \in answers' : a.x = b.x => a = b
    <3>1. \A a \in answers : a.x # x
      BY <1>1 DEF Leaving
    <3> QED BY <1>1, <2>1, <3>1 DEF Places
  <2>4. \A k \in Key : \A y \in mshr'[k] : y.key = k
    BY <1>1, <2>1 DEF Places
  <2>5. Leaving' \intersect answered' = {} /\ Missing' \intersect (Leaving' \union answered') = {}
    BY <1>1, <2>2 DEF Places
  <2>6. Queuing' \intersect (Missing' \union Leaving' \union answered') = {}
    BY <1>1, <2>2 DEF Places
  <2> QED BY <1>1, <2>3, <2>4, <2>5, <2>6 DEF Places
<1>3. CASE Miss(x)
  <2>1. mshr' = [mshr EXCEPT ![x.key] = mshr[x.key] \union {x}] /\ UNCHANGED answers
    BY <1>3 DEF Miss, Waiting
  <2>2. /\ \A k \in Key : k # x.key => mshr'[k] = mshr[k]
        /\ mshr'[x.key] = mshr[x.key] \union {x}
    BY <1>1, <2>1
  <2>3. Missing' \subseteq Missing \union {x}
    BY <1>1, <2>2 DEF Missing
  <2>4. Leaving' = Leaving
    BY <2>1 DEF Leaving
  <2>5. \A k \in Key : \A y \in mshr'[k] : y.key = k
    BY <1>1, <2>2 DEF Places
  <2> QED BY <1>1, <2>1, <2>3, <2>4, <2>5 DEF Places
<1> QED BY <1>2, <1>3

LEMMA TakePlaces == Inv /\ (TakeWrite \/ TakeRead) => Places'
<1>1. ASSUME Inv, TakeWrite PROVE Places'
  <2>1. /\ writeQ \in Seq(Transaction) /\ writeQ # <<>> /\ writeQ' = Tail(writeQ)
        /\ Places /\ (Hit(Head(writeQ)) \/ Miss(Head(writeQ)))
        /\ UNCHANGED <<readQ, accepted, answered>>
    BY <1>1 DEF TakeWrite, Inv, LineInv, TypeOK
  <2>2. Head(writeQ) \in Transaction /\ Elems(writeQ) = Elems(writeQ') \union {Head(writeQ)}
    BY <2>1, Removed
  <2>3. Distinct(writeQ') /\ Head(writeQ) \notin Elems(writeQ')
    BY <2>1, RemovedDistinct DEF Places
  <2>4. /\ Elems(writeQ') \intersect Elems(readQ') = {} /\ Distinct(readQ')
        /\ Head(writeQ) \in Queuing /\ Head(writeQ) \notin Queuing' /\ Queuing' \subseteq Queuing
    BY <2>1, <2>2, <2>3 DEF Places, Queuing
  <2> QED BY <1>1, <2>1, <2>2, <2>3, <2>4, LookUpPlaces
<1>2. ASSUME Inv, TakeRead PROVE Places'
  <2>1. /\ readQ \in Seq(Transaction) /\ readQ # <<>> /\ readQ' = Tail(readQ)
        /\ Places /\ (Hit(Head(readQ)) \/ Miss(Head(readQ)))
        /\ UNCHANGED <<writeQ, accepted, answered>>
    BY <1>2 DEF TakeRead, Inv, LineInv, TypeOK
  <2>2. Head(readQ) \in Transaction /\ Elems(readQ) = Elems(readQ') \union {Head(readQ)}
    BY <2>1, Removed
  <2>3. Distinct(readQ') /\ Head(readQ) \notin Elems(readQ')
    BY <2>1, RemovedDistinct DEF Places
  <2>4. /\ Elems(writeQ') \intersect Elems(readQ') = {} /\ Distinct(writeQ')
        /\ Head(readQ) \in Queuing /\ Head(readQ) \notin Queuing' /\ Queuing' \subseteq Queuing
    BY <2>1, <2>2, <2>3 DEF Places, Queuing
  <2> QED BY <1>2, <2>1, <2>2, <2>3, <2>4, LookUpPlaces
<1> QED BY <1>1, <1>2

LEMMA FillPlaces == Inv /\ Fill => Places'
<1> SUFFICES ASSUME Inv, Fill PROVE Places'
  OBVIOUS
<1> DEFINE k == Head(filled)
<1>1. /\ Places /\ mshr \in [Key -> SUBSET Transaction]
      /\ answers' = answers \union {Answer(x) : x \in mshr[k]}
      /\ mshr' = [mshr EXCEPT ![k] = {}]
      /\ UNCHANGED <<writeQ, readQ, accepted, answered>>
  BY DEF Fill, Inv, LineInv, TypeOK
<1>2. k \in Key
  BY FillMoves DEF Inv
<1> HIDE DEF k
<1>3. mshr'[k] = {} /\ \A j \in Key : j # k => mshr'[j] = mshr[j]
  BY <1>1, <1>2
<1>4. \A x \in mshr[k] : Answer(x).x = x
  BY DEF Answer
<1>5. mshr[k] \subseteq Missing
  BY <1>2 DEF Missing
<1>6. Missing' \subseteq Missing /\ Missing' \intersect mshr[k] = {}
  <2>1. Missing' \subseteq Missing
    BY <1>3 DEF Missing
  <2>2. ASSUME NEW j \in Key, NEW x \in mshr'[j], x \in mshr[k] PROVE FALSE
    <3>1. x \in mshr[j] /\ j # k
      BY <1>3, <2>2
    <3> QED BY <1>1, <1>2, <2>2, <3>1 DEF Places
  <2> QED BY <2>1, <2>2 DEF Missing
<1>7. Leaving' \subseteq Leaving \union mshr[k]
  BY <1>1, <1>4 DEF Leaving
<1>8. \A a, b \in answers' : a.x = b.x => a = b
  <2>1. \A a \in answers : a.x \notin mshr[k]
    BY <1>1, <1>5 DEF Places, Leaving
  <2> QED BY <1>1, <1>4, <2>1 DEF Places
<1>9. \A j \in Key : \A x \in mshr'[j] : x.key = j
  BY <1>1, <1>3 DEF Places
<1>10. Queuing' = Queuing
  BY <1>1 DEF Queuing
<1>11. /\ Queuing' \intersect (Missing' \union Leaving' \union answered') = {}
       /\ Missing' \intersect (Leaving' \union answered') = {}
       /\ Leaving' \intersect answered' = {}
  BY <1>1, <1>5, <1>6, <1>7, <1>10 DEF Places
<1> QED BY <1>1, <1>8, <1>9, <1>11 DEF Places

LEMMA StepKeeps == Inv /\ Step => Inv'
<1> SUFFICES ASSUME Inv, Step PROVE Places'
  BY StepKeepsLines DEF Inv
<1>1. CASE WritesDone \/ ReadsDone \/ EndStep \/ ServeRequest \/ DramDone
  <2>1. UNCHANGED <<writeQ, readQ, mshr, answers, accepted, answered>>
    BY <1>1 DEF WritesDone, ReadsDone, EndStep, ServeRequest, DramDone
  <2> QED BY <2>1, StandStill DEF Inv
<1> QED BY <1>1, BeginStepPlaces, TakePlaces, FillPlaces DEF Step

LEMMA StutterKeeps == Inv /\ UNCHANGED vars => Inv'
<1> SUFFICES ASSUME Inv, UNCHANGED vars PROVE Inv'
  OBVIOUS
<1> USE DEF vars
<1>1. TypeOK'
  BY DEF Inv, LineInv, TypeOK
<1>2. Quiet' /\ LruOrder'
  BY DEF Inv, LineInv, Quiet, WriteShare, LruOrder, Cached
<1>3. Requests'
  BY DEF Inv, LineInv, Requests, MissingKeys, Cached
<1>4. DramOrder'
  BY DEF Inv, LineInv, DramOrder, NoStaleFill, Affordable
<1>5. Accounted'
  BY DEF Inv, LineInv, Accounted, Queuing, Missing, Leaving
<1>6. Places'
  BY StandStill DEF Inv
<1> QED BY <1>1, <1>2, <1>3, <1>4, <1>5, <1>6 DEF Inv, LineInv

LEMMA NextKeeps == Inv /\ [Next]_vars => Inv'
<1>1. ASSUME Inv, NEW k \in Key, NEW write \in BOOLEAN, Enqueue(k, write) PROVE Inv'
  <2>1. Cardinality(accepted) \in Nat
    BY <1>1, FS_CardinalityType DEF Inv, Places
  <2>2. PICK lines : Takes(lines, write)
    BY <1>1, <2>1, EnqueueTakes DEF Inv
  <2> QED BY <1>1, <2>2, TakesKeepsPlaces
<1> QED BY <1>1, StepKeeps, StutterKeeps DEF Next

LEMMA Invariance == Spec => []Inv
BY InitInv, NextKeeps, PTL DEF Spec
---------------------------------------------------------------------------
(* Theorems                                                                *)

LEMMA AtMostOne ==
    ASSUME NEW S, \A a, b \in S : a = b
    PROVE  IsFiniteSet(S) /\ Cardinality(S) = IF S = {} THEN 0 ELSE 1
<1>1. CASE S = {}
  BY <1>1, FS_EmptySet
<1>2. CASE S # {}
  <2>1. PICK a : S = {a}
    BY <1>2
  <2>2. IsFiniteSet({a}) /\ Cardinality({a}) = 1
    BY FS_Singleton
  <2> QED BY <1>2, <2>1, <2>2
<1> QED BY <1>1, <1>2

LEMMA CountFetches ==
    ASSUME NEW s, Sole(s), NEW k
    PROVE  Cardinality(Fetches(s, k)) = IF k \in FetchedBy(s) THEN 1 ELSE 0
<1>1. \A i, j \in Fetches(s, k) : i = j
  BY DEF Fetches, Sole
<1>2. Fetches(s, k) = {} <=> k \notin FetchedBy(s)
  BY DEF Fetches, FetchedBy
<1> HIDE DEF Fetches
<1> QED BY <1>1, <1>2, AtMostOne

LEMMA OneFetchHolds == Inv => OneFetchPerLine
<1> SUFFICES ASSUME Inv PROVE OneFetchPerLine
  OBVIOUS
<1>1. Requests /\ LruOrder /\ TypeOK
  BY DEF Inv, LineInv
<1>2. ASSUME NEW k \in Key
      PROVE  Fetching(k) = (IF mshr[k] = {} THEN 0 ELSE 1) /\ (k \in Cached => mshr[k] = {})
  <2>1. Cardinality(Fetches(dram, k)) = IF k \in FetchedBy(dram) THEN 1 ELSE 0
    BY <1>1, CountFetches DEF Requests
  <2>2. Cardinality(Fetches(remaining, k)) = IF k \in FetchedBy(remaining) THEN 1 ELSE 0
    BY <1>1, CountFetches DEF Requests
  <2>3. Cardinality({i \in DOMAIN filled : filled[i] = k}) = IF k \in Elems(filled) THEN 1 ELSE 0
    <3> DEFINE at == {i \in DOMAIN filled : filled[i] = k}
    <3>1. \A i, j \in at : i = j
      BY <1>1 DEF Requests, Distinct
    <3>2. at = {} <=> k \notin Elems(filled)
      BY DEF Elems
    <3> HIDE DEF at
    <3>3. Cardinality(at) = IF at = {} THEN 0 ELSE 1
      BY <3>1, AtMostOne
    <3>4. Cardinality(at) = IF k \in Elems(filled) THEN 1 ELSE 0
      BY <3>2, <3>3
    <3> QED BY <3>4 DEF at
  <2>4. mshr[k] = {} <=> k \notin MissingKeys
    BY DEF MissingKeys
  <2>5. /\ ~(k \in FetchedBy(dram) /\ k \in FetchedBy(remaining))
        /\ ~(k \in FetchedBy(dram) /\ k \in Elems(filled))
        /\ ~(k \in FetchedBy(remaining) /\ k \in Elems(filled))
        /\ k \in MissingKeys <=>
              k \in FetchedBy(dram) \/ k \in FetchedBy(remaining) \/ k \in Elems(filled)
        /\ k \in Cached => k \notin MissingKeys
    BY <1>1 DEF Requests
  <2> QED BY <2>1, <2>2, <2>3, <2>4, <2>5 DEF Fetching
<1>3. Cardinality(Cached) = Len(lru)
  BY <1>1, ElemsCount DEF LruOrder, TypeOK, Cached
<1> QED BY <1>1, <1>2, <1>3 DEF OneFetchPerLine, LruOrder

\* A line that several transactions miss is fetched once, and answered while its entry is
\* there: a fetch is under way exactly for the lines of the MSHR entries, and never for a
\* cached one; the LRU list names each cached line once, within the size of the cache.
THEOREM OneFetch == Spec => []OneFetchPerLine
<1>1. Inv => OneFetchPerLine
  BY OneFetchHolds
<1> QED BY <1>1, Invariance, PTL

\* A line is never read from the DRAM ahead of a writeback of it that was queued before:
\* requests wait equally long, and one that cannot be paid for holds up those behind it
\* that are due.
THEOREM NoFetchOvertakes == Spec => []NoStaleFill
<1>1. Inv => NoStaleFill
  BY DEF Inv, LineInv, DramOrder
<1> QED BY <1>1, Invariance, PTL

LEMMA CountAnswers ==
    ASSUME \A a, b \in answers : a.x = b.x => a = b, IsFiniteSet(Leaving)
    PROVE  IsFiniteSet(answers) /\ Cardinality(answers) = Cardinality(Leaving)
<1> DEFINE f == [y \in Leaving |-> CHOOSE a \in answers : a.x = y]
<1>1. ASSUME NEW y \in Leaving PROVE f[y] \in answers /\ f[y].x = y
  BY DEF Leaving
<1>2. f \in [Leaving -> answers]
  <2>1. f = [y \in Leaving |-> f[y]]
    OBVIOUS
  <2> HIDE DEF f
  <2> QED BY <1>1, <2>1
<1> HIDE DEF f
<1>3. IsInjective(f)
  BY <1>1, <1>2 DEF IsInjective
<1>4. \A a \in answers : \E y \in Leaving : f[y] = a
  <2>1. SUFFICES ASSUME NEW a \in answers PROVE f[a.x] = a /\ a.x \in Leaving
    OBVIOUS
  <2>2. a.x \in Leaving
    BY DEF Leaving
  <2>3. f[a.x] \in answers /\ f[a.x].x = a.x
    BY <1>1, <2>2
  <2> QED BY <2>2, <2>3
<1>5. ExistsBijection(Leaving, answers)
  BY <1>2, <1>3, <1>4 DEF ExistsBijection, Bijection, Injection, Surjection
<1> QED BY <1>5, FS_Bijection

LEMMA CountDisjoint ==
    ASSUME NEW S, NEW T, IsFiniteSet(S), IsFiniteSet(T), S \intersect T = {}
    PROVE  IsFiniteSet(S \union T) /\ Cardinality(S \union T) = Cardinality(S) + Cardinality(T)
<1>1. Cardinality(S \intersect T) = 0
  BY FS_EmptySet
<1>2. Cardinality(S) \in Nat /\ Cardinality(T) \in Nat
  BY FS_CardinalityType
<1>3. /\ IsFiniteSet(S \union T)
      /\ Cardinality(S \union T) = Cardinality(S) + Cardinality(T) - Cardinality(S \intersect T)
  BY FS_Union
<1> QED BY <1>1, <1>2, <1>3

LEMMA EachInOnePlaceHolds == Inv => EachInOnePlace
<1> SUFFICES ASSUME Inv PROVE EachInOnePlace
  OBVIOUS
<1>1. TypeOK /\ Accounted /\ Places
  BY DEF Inv, LineInv
<1>2. /\ IsFiniteSet(Elems(writeQ)) /\ Cardinality(Elems(writeQ)) = Len(writeQ)
      /\ IsFiniteSet(Elems(readQ)) /\ Cardinality(Elems(readQ)) = Len(readQ)
  BY <1>1, ElemsCount DEF TypeOK, Places
<1>3. IsFiniteSet(Queuing) /\ Cardinality(Queuing) = Len(writeQ) + Len(readQ)
  <2>1. Elems(writeQ) \intersect Elems(readQ) = {}
    BY <1>1 DEF Places
  <2> QED BY <1>2, <2>1, CountDisjoint DEF Queuing
<1>4. IsFiniteSet(Missing) /\ IsFiniteSet(Leaving) /\ IsFiniteSet(answered)
  BY <1>1, FS_Subset DEF Places, Accounted
<1>5. Cardinality(answers) = Cardinality(Leaving)
  BY <1>1, <1>4, CountAnswers DEF Places
<1> DEFINE a == Queuing \union Missing  b == a \union Leaving
<1>6. IsFiniteSet(a) /\ Cardinality(a) = Cardinality(Queuing) + Cardinality(Missing)
  BY <1>1, <1>3, <1>4, CountDisjoint DEF Places
<1>7. IsFiniteSet(b) /\ Cardinality(b) = Cardinality(a) + Cardinality(Leaving)
  BY <1>1, <1>4, <1>6, CountDisjoint DEF Places
<1>8. accepted = b \union answered /\ b \intersect answered = {}
  BY <1>1 DEF Places, Accounted
<1> HIDE DEF a, b
<1>9. Cardinality(accepted) = Cardinality(b) + Cardinality(answered)
  BY <1>4, <1>7, <1>8, CountDisjoint
<1>10. Cardinality(accepted) =
          Len(writeQ) + Len(readQ) + Cardinality(Missing) + Cardinality(answers)
              + Cardinality(answered)
  BY <1>3, <1>5, <1>6, <1>7, <1>9
<1> QED BY <1>1, <1>10 DEF EachInOnePlace, Accounted, Places

\* No transaction is lost or answered twice: each one that was accepted is in a queue, in
\* the MSHR entry of its line, among the answers under way or answered.
THEOREM NoneLost == Spec => []EachInOnePlace
<1>1. Inv => EachInOnePlace
  BY EachInOnePlaceHolds
<1> QED BY <1>1, Invariance, PTL

LEMMA StepWritesBack ==
    ASSUME Inv, Step, NEW k \in dirty
    PROVE  k \in dirty' \/ WritebackPending(dram', k)
<1>1. CASE Fill
  <2>1. \/ dram' = dram /\ dirty \subseteq dirty'
        \/ \E v \in Cached : dram' = Append(dram, WriteBack(v)) /\ dirty \subseteq dirty' \union {v}
    BY <1>1, FillMoves DEF Inv
  <2>2. SUFFICES ASSUME NEW v \in Cached, dram' = Append(dram, WriteBack(v)), k = v
                 PROVE  WritebackPending(dram', k)
    BY <2>1
  <2>3. dram \in Seq(Request) /\ v \in Key
    BY DEF Inv, LineInv, TypeOK, Cached, Elems
  <2> DEFINE w == WriteBack(v)
  <2>4. w \in Request /\ w.key = k /\ w.writeback
    BY <2>2, <2>3, L2Assumption DEF WriteBack, Request
  <2> HIDE DEF w
  <2>5. /\ DOMAIN Append(dram, w) = DOMAIN dram \union {Len(dram) + 1}
        /\ Append(dram, w)[Len(dram) + 1] = w
    BY <2>3, <2>4, Appended
  <2>6. dram' = Append(dram, w)
    BY <2>2 DEF w
  <2> QED BY <2>4, <2>5, <2>6 DEF WritebackPending
<1>2. CASE ~Fill
  BY <1>2 DEF Step, BeginStep, TakeWrite, WritesDone, TakeRead, ReadsDone, ServeRequest,
              DramDone, EndStep, Hit, Miss
<1> QED BY <1>1, <1>2

\* No write is lost when its line makes room for another one: the dirty line leaves the
\* cache in the step that queues its writeback.
THEOREM DirtyWrittenBack == Spec => DirtyLeavesByWriteback
<1>1. Inv /\ [Next]_vars => [\A k \in dirty : k \in dirty' \/ WritebackPending(dram', k)]_vars
  <2> SUFFICES ASSUME Inv, Next
               PROVE  \A k \in dirty : k \in dirty' \/ WritebackPending(dram', k)
    OBVIOUS
  <2>1. CASE Step
    BY <2>1, StepWritesBack
  <2>2. CASE \E k \in Key, write \in BOOLEAN : Enqueue(k, write)
    BY <2>2 DEF Enqueue
  <2> QED BY <2>1, <2>2 DEF Next
<1> QED BY <1>1, Invariance, PTL DEF Spec, DirtyLeavesByWriteback
---------------------------------------------------------------------------
(* The TMA units                                                           *)

Active == [cmd : Command, next : Nat, credit : Nat]
SettingUp == [cmd : Command, wait : Nat]
SentLine == [cmd : Command, line : Nat]

UnitTypes ==
    /\ settingUp \in [Unit -> Seq(SettingUp)] /\ ready \in [Unit -> Seq(Command)]
    /\ given \in [Unit -> Seq(Command)]
    /\ active \in [Unit -> Active \union {NoCommand}]
    /\ sent \in Seq(SentLine) /\ reported \subseteq Command

\* The commands of unit u that have become active so far.
Taken(u) == Len(given[u]) - Len(ready[u]) - Len(settingUp[u])

\* Behind them are the ready ones and those that are set up, in the order given.
InLine ==
    \A u \in Unit :
        /\ Distinct(given[u]) /\ \A c \in Elems(given[u]) : c.unit = u
        /\ Taken(u) >= 0
        /\ \A i \in DOMAIN ready[u] : ready[u][i] = given[u][Taken(u) + i]
        /\ \A i \in DOMAIN settingUp[u] :
              settingUp[u][i].cmd = given[u][Taken(u) + Len(ready[u]) + i]
        /\ IsActive(active[u]) =>
              /\ Taken(u) > 0 /\ active[u].cmd = given[u][Taken(u)]
              /\ active[u].next < Len(Keys[active[u].cmd])

\* The commands that are reported are those ahead of the active one.
Reported ==
    /\ \A c \in reported : c \in Elems(given[c.unit])
    /\ \A u \in Unit : \A p \in DOMAIN given[u] :
          given[u][p] \in reported <=>
              p < Taken(u) \/ (p = Taken(u) /\ ~IsActive(active[u]))

\* How many of its lines a command has sent.
Count(c) ==
    IF c \in reported THEN Len(Keys[c])
    ELSE IF active[c.unit].cmd = c THEN active[c.unit].next ELSE 0

SentLines ==
    /\ \A e \in Elems(sent) : e.line \in 1..Count(e.cmd)
    /\ \A c \in Command : \A n \in 1..Count(c) : [cmd |-> c, line |-> n] \in Elems(sent)
    /\ \A j \in DOMAIN sent : \A i \in 1..j - 1 :
          sent[i].cmd.unit = sent[j].cmd.unit => Earlier(sent[i], sent[j])

UnitInv == UnitTypes /\ InLine /\ Reported /\ SentLines
---------------------------------------------------------------------------
(* Commands and numbers                                                    *)

LEMMA CommandFacts ==
    ASSUME NEW c \in Command
    PROVE  /\ c.unit \in Unit /\ c.write \in BOOLEAN /\ c.setup \in Nat /\ c.rate \in Nat
           /\ Keys[c] \in Seq(Key) /\ Len(Keys[c]) \in Nat \ {0} /\ c # <<>>
<1>1. c \in [unit : Unit, tile : Tiles, write : BOOLEAN, setup : Nat, rate : Nat]
  BY TmaAssumption
<1>2. DOMAIN c # DOMAIN <<>>
  BY <1>1
<1>3. c # <<>>
  BY <1>2
<1>4. Keys[c] # <<>>
  BY DEF Keys, TmaLines, OrLineZero
<1>5. Keys[c] \in Seq(Key)
  BY TmaAssumption
<1>6. Len(Keys[c]) \in Nat \ {0}
  <2> DEFINE s == Keys[c]
  <2>1. s \in Seq(Key) /\ s # <<>>
    BY <1>4, <1>5
  <2> HIDE DEF s
  <2>2. Len(s) \in Nat \ {0}
    BY <2>1
  <2> QED BY <2>2 DEF s
<1> QED BY <1>1, <1>3, <1>5, <1>6

LEMMA Quotient ==
    ASSUME NEW x \in Nat, NEW g \in Nat \ {0}, NEW m \in Nat, x <= g * m
    PROVE  x \div g \in Nat /\ x \div g <= m /\ g * (x \div g) <= x
<1>1. x \div g \in Nat /\ x % g \in 0..g - 1 /\ x = g * (x \div g) + (x % g)
  OBVIOUS
<1> DEFINE q == x \div g
<1> HIDE DEF q
<1>2. q \in Nat /\ g * q <= x
  <2>1. q \in Nat /\ g * q \in Int /\ x % g \in Nat /\ x = g * q + (x % g)
    BY <1>1 DEF q
  <2> QED BY <2>1
<1>3. ~(m + 1 <= q)
  <2>1. SUFFICES ASSUME m + 1 <= q PROVE FALSE
    OBVIOUS
  <2>2. g * (m + 1) <= g * q
    BY <1>2, <2>1
  <2>3. g * (m + 1) = g * m + g
    OBVIOUS
  <2>4. g * q \in Int /\ g * m \in Int /\ g * (m + 1) \in Int
    BY <1>2
  <2> QED BY <1>2, <2>2, <2>3, <2>4
<1> QED BY <1>2, <1>3 DEF q

LEMMA Least ==
    ASSUME NEW T \in SUBSET Nat, T # {}
    PROVE  \E x \in T : \A y \in T : x <= y
<1>1. PICK x \in T : \A y \in T : ~(<<y, x>> \in OpToRel(<, Nat))
  BY WFMin, NatLessThanWellFounded, Zenon
<1>2. \A y \in T : ~(y < x)
  BY <1>1 DEF OpToRel
<1> QED BY <1>2

\* A set of numbers from 1 to n with all that are below one of it is an interval.
LEMMA Initial ==
    ASSUME NEW n \in Nat, NEW S \in SUBSET (1..n), \A i \in S : \A j \in 1..i : j \in S
    PROVE  \E m \in 0..n : S = 1..m /\ Cardinality(S) = m
<1>1. \E m \in 0..n : S = 1..m
  <2>1. CASE S = 1..n
    BY <2>1
  <2>2. CASE S # 1..n
    <3> DEFINE T == (1..n) \ S
    <3>1. T \in SUBSET Nat /\ T # {}
      <4>1. \A i \in 1..n : i \in Nat
        OBVIOUS
      <4> QED BY <2>2, <4>1
    <3>2. PICK x \in T : \A y \in T : x <= y
      BY <3>1, Least
    <3>3. x - 1 \in 0..n /\ x \in 1..n /\ x \notin S
      BY <3>2
    <3>4. \A i \in S : i < x
      BY <3>3
    <3>5. \A i \in 1..x - 1 : i \in S
      BY <3>2, <3>3
    <3>6. S = 1..x - 1
      <4>1. \A i \in S : i \in 1..n /\ i < x
        BY <3>4
      <4>2. \A i \in S : i \in 1..x - 1
        BY <3>3, <4>1
      <4> QED BY <3>5, <4>2
    <3> QED BY <3>3, <3>6
  <2> QED BY <2>1, <2>2
<1>2. PICK m \in 0..n : S = 1..m
  BY <1>1
<1>3. Cardinality(1..m) = m
  BY FS_Interval
<1> QED BY <1>2, <1>3
---------------------------------------------------------------------------
(* A command is given to its unit                                          *)

LEMMA UnitFacts ==
    ASSUME UnitInv, NEW u \in Unit
    PROVE  /\ settingUp[u] \in Seq(SettingUp) /\ ready[u] \in Seq(Command) /\ given[u] \in Seq(Command)
           /\ active[u] \in Active \union {NoCommand}
           /\ Len(settingUp[u]) \in Nat /\ Len(ready[u]) \in Nat /\ Len(given[u]) \in Nat
           /\ Taken(u) \in 0..Len(given[u]) /\ DOMAIN given[u] = 1..Len(given[u])
           /\ Taken(u) + Len(ready[u]) + Len(settingUp[u]) = Len(given[u])
           /\ Distinct(given[u]) /\ \A c \in Elems(given[u]) : c.unit = u
<1>1. /\ settingUp[u] \in Seq(SettingUp) /\ ready[u] \in Seq(Command) /\ given[u] \in Seq(Command)
      /\ active[u] \in Active \union {NoCommand}
  BY DEF UnitInv, UnitTypes
<1>2. /\ Len(settingUp[u]) \in Nat /\ Len(ready[u]) \in Nat /\ Len(given[u]) \in Nat
      /\ DOMAIN given[u] = 1..Len(given[u])
  BY <1>1
<1>3. Taken(u) >= 0 /\ Distinct(given[u]) /\ \A c \in Elems(given[u]) : c.unit = u
  BY DEF UnitInv, InLine
<1> DEFINE a == Len(given[u])  b == Len(ready[u])  d == Len(settingUp[u])  t == Taken(u)
<1>4. t \in 0..a /\ t + b + d = a
  <2>1. t = a - b - d
    BY DEF Taken
  <2>2. a \in Nat /\ b \in Nat /\ d \in Nat /\ t >= 0
    BY <1>2, <1>3
  <2> HIDE DEF a, b, d, t
  <2>3. t \in Int
    BY <2>1, <2>2
  <2> QED BY <2>1, <2>2, <2>3
<1> QED BY <1>1, <1>2, <1>3, <1>4

LEMMA EarlierKept ==
    ASSUME UnitInv, NEW e, NEW f, Earlier(e, f),
           \A u \in Unit : \A i \in DOMAIN given[u] : i \in DOMAIN given'[u] /\ given'[u][i] = given[u][i]
    PROVE  Earlier(e, f)'
<1>1. CASE e.cmd = f.cmd /\ e.line < f.line
  BY <1>1 DEF Earlier
<1>2. CASE ~(e.cmd = f.cmd /\ e.line < f.line)
  <2>0. PICK u \in Unit : \E j \in DOMAIN given[u] : \E i \in 1..j - 1 :
            given[u][i] = e.cmd /\ given[u][j] = f.cmd
    BY <1>2 DEF Earlier
  <2>1. PICK j \in DOMAIN given[u] : \E i \in 1..j - 1 :
            given[u][i] = e.cmd /\ given[u][j] = f.cmd
    BY <2>0
  <2>4. PICK i \in 1..j - 1 : given[u][i] = e.cmd /\ given[u][j] = f.cmd
    BY <2>1
  <2>2. i \in DOMAIN given[u]
    BY UnitFacts
  <2>3. given'[u][i] = e.cmd /\ given'[u][j] = f.cmd /\ j \in DOMAIN given'[u]
    BY <2>4, <2>2
  <2> QED BY <2>3 DEF Earlier
<1> QED BY <1>1, <1>2

LEMMA GiveKeeps ==
    ASSUME UnitInv, NEW c \in Command, GiveCommand(c) PROVE UnitInv'
<1> DEFINE u == c.unit  new == [cmd |-> c, wait |-> c.setup]
<1>1. /\ u \in Unit /\ new \in SettingUp /\ ~Contains(given[u], c) /\ new.cmd = c
      /\ settingUp' = [settingUp EXCEPT ![u] = Append(@, new)]
      /\ given' = [given EXCEPT ![u] = Append(@, c)]
      /\ UNCHANGED <<ready, active, sent, reported>>
  BY CommandFacts DEF GiveCommand, SettingUp
<1> HIDE DEF new
<1>2. UnitTypes
  BY DEF UnitInv
<1>3. /\ settingUp'[u] = Append(settingUp[u], new) /\ given'[u] = Append(given[u], c)
      /\ \A v \in Unit : v # u => settingUp'[v] = settingUp[v] /\ given'[v] = given[v]
      /\ settingUp' \in [Unit -> Seq(SettingUp)] /\ given' \in [Unit -> Seq(Command)]
  <2>1. Append(settingUp[u], new) \in Seq(SettingUp) /\ Append(given[u], c) \in Seq(Command)
    BY <1>1, UnitFacts, Appended
  <2> QED BY <1>1, <1>2, <2>1 DEF UnitTypes
<1>4. UnitTypes'
  BY <1>1, <1>2, <1>3 DEF UnitTypes
<1> DEFINE g == given[u]  h == given'[u]
<1>5. /\ h \in Seq(Command) /\ Len(h) = Len(g) + 1
      /\ DOMAIN h = DOMAIN g \union {Len(g) + 1} /\ Len(g) + 1 \notin DOMAIN g
      /\ \A i \in DOMAIN g : h[i] = g[i]
      /\ h[Len(g) + 1] = c /\ Elems(h) = Elems(g) \union {c}
  BY <1>1, <1>3, UnitFacts, Appended
<1>6. c \notin Elems(g)
  BY <1>1, UnitFacts DEF Contains, Elems
<1>7. \A v \in Unit : \A i \in DOMAIN given[v] : i \in DOMAIN given'[v] /\ given'[v][i] = given[v][i]
  BY <1>3, <1>5
<1>8. /\ Len(settingUp'[u]) = Len(settingUp[u]) + 1
      /\ DOMAIN settingUp'[u] = DOMAIN settingUp[u] \union {Len(settingUp[u]) + 1}
      /\ \A i \in DOMAIN settingUp[u] : settingUp'[u][i] = settingUp[u][i]
      /\ settingUp'[u][Len(settingUp[u]) + 1] = new
  BY <1>1, <1>3, UnitFacts, Appended
<1>9. \A v \in Unit : Taken(v)' = Taken(v)
  <2>1. Taken(u)' = Taken(u)
    <3>1. /\ Taken(u) = Len(given[u]) - Len(ready[u]) - Len(settingUp[u])
          /\ Taken(u)' = Len(given'[u]) - Len(ready[u]) - Len(settingUp'[u])
      BY <1>1 DEF Taken
    <3>2. Len(given[u]) \in Nat /\ Len(ready[u]) \in Nat /\ Len(settingUp[u]) \in Nat
      BY <1>1, UnitFacts
    <3>3. Len(given'[u]) = Len(given[u]) + 1 /\ Len(settingUp'[u]) = Len(settingUp[u]) + 1
      BY <1>5, <1>8
    <3> HIDE DEF u
    <3> QED BY <3>1, <3>2, <3>3
  <2>2. \A v \in Unit : v # u => Taken(v)' = Taken(v)
    BY <1>1, <1>3 DEF Taken
  <2> QED BY <2>1, <2>2
<1>10. InLine'
  <2>1. ASSUME NEW v \in Unit, v # u
        PROVE  /\ Distinct(given'[v]) /\ \A d \in Elems(given'[v]) : d.unit = v
               /\ Taken(v)' >= 0
               /\ \A i \in DOMAIN ready'[v] : ready'[v][i] = given'[v][Taken(v)' + i]
               /\ \A i \in DOMAIN settingUp'[v] :
                     settingUp'[v][i].cmd = given'[v][Taken(v)' + Len(ready'[v]) + i]
               /\ IsActive(active'[v]) =>
                     /\ Taken(v)' > 0 /\ active'[v].cmd = given'[v][Taken(v)']
                     /\ active'[v].next < Len(Keys[active'[v].cmd])
    BY <1>1, <1>3, <1>9, <2>1 DEF UnitInv, InLine
  <2>2. Distinct(h)
    <3>1. Distinct(g)
      BY <1>1, UnitFacts
    <3> QED BY <1>5, <1>6, <3>1 DEF Distinct, Elems
  <2>3. \A d \in Elems(h) : d.unit = u
    BY <1>1, <1>5, UnitFacts
  <2> DEFINE t == Taken(u)  r == ready[u]  s == settingUp[u]
  <2>4. /\ t \in 0..Len(g) /\ Len(r) \in Nat /\ Len(s) \in Nat /\ t + Len(r) + Len(s) = Len(g)
        /\ Len(g) \in Nat /\ DOMAIN g = 1..Len(g) /\ DOMAIN r = 1..Len(r) /\ DOMAIN s = 1..Len(s)
    <3>1. /\ t \in 0..Len(g) /\ Len(r) \in Nat /\ Len(s) \in Nat /\ t + Len(r) + Len(s) = Len(g)
          /\ Len(g) \in Nat /\ DOMAIN g = 1..Len(g)
      BY <1>1, UnitFacts
    <3>2. r \in Seq(Command) /\ s \in Seq(SettingUp)
      BY <1>1, UnitFacts
    <3> HIDE DEF r, s, g, t
    <3>3. DOMAIN r = 1..Len(r) /\ DOMAIN s = 1..Len(s)
      BY <3>2
    <3> QED BY <3>1, <3>3
  <2>5. /\ \A i \in DOMAIN r : r[i] = g[t + i]
        /\ \A i \in DOMAIN s : s[i].cmd = g[t + Len(r) + i]
        /\ IsActive(active[u]) =>
              /\ t > 0 /\ active[u].cmd = g[t] /\ active[u].next < Len(Keys[active[u].cmd])
    BY <1>1 DEF UnitInv, InLine
  <2> HIDE DEF t, r, s, g
  <2>6. \A i \in DOMAIN r : r[i] = h[t + i]
    BY <1>5, <2>4, <2>5
  <2>7. \A i \in DOMAIN s : s[i].cmd = h[t + Len(r) + i]
    BY <1>5, <2>4, <2>5
  <2>8. IsActive(active[u]) => t > 0 /\ active[u].cmd = h[t] /\ active[u].next < Len(Keys[active[u].cmd])
    BY <1>5, <2>4, <2>5
  <2>9. new.cmd = h[t + Len(r) + (Len(s) + 1)]
    <3>1. t + Len(r) + (Len(s) + 1) = Len(g) + 1
      BY <2>4
    <3> QED BY <1>1, <1>5, <3>1 DEF g
  <2>10. \A i \in DOMAIN settingUp'[u] : settingUp'[u][i].cmd = h[t + Len(r) + i]
    BY <1>8, <2>7, <2>9 DEF s
  <2>11. Taken(u)' = t /\ ready'[u] = r /\ active'[u] = active[u] /\ t >= 0
    BY <1>1, <1>9, <2>4 DEF t, r
  <2>12. /\ Distinct(given'[u]) /\ \A d \in Elems(given'[u]) : d.unit = u
         /\ Taken(u)' >= 0
         /\ \A i \in DOMAIN ready'[u] : ready'[u][i] = given'[u][Taken(u)' + i]
         /\ \A i \in DOMAIN settingUp'[u] :
               settingUp'[u][i].cmd = given'[u][Taken(u)' + Len(ready'[u]) + i]
         /\ IsActive(active'[u]) =>
               /\ Taken(u)' > 0 /\ active'[u].cmd = given'[u][Taken(u)']
               /\ active'[u].next < Len(Keys[active'[u].cmd])
    BY <2>2, <2>3, <2>6, <2>8, <2>10, <2>11
  <2> QED BY <2>1, <2>12 DEF InLine
<1>11. Reported'
  <2>1. Reported /\ \A d \in reported : d.unit \in Unit
    BY <1>2, CommandFacts DEF UnitInv, UnitTypes
  <2>2. \A d \in reported : d \in Elems(given'[d.unit])
    BY <1>3, <1>5, <2>1 DEF Reported
  <2>3. ASSUME NEW v \in Unit, NEW p \in DOMAIN given'[v]
        PROVE  given'[v][p] \in reported <=>
                   p < Taken(v) \/ (p = Taken(v) /\ ~IsActive(active[v]))
    <3>1. CASE p \in DOMAIN given[v]
      BY <1>7, <2>1, <3>1 DEF Reported
    <3>2. CASE p \notin DOMAIN given[v]
      <4>1. v = u /\ p = Len(g) + 1
        BY <1>3, <1>5, <3>2
      <4>2. given'[v][p] \notin reported
        BY <1>5, <1>6, <2>1, <4>1 DEF Reported
      <4>3. p > Taken(v)
        BY <1>1, <4>1, UnitFacts
      <4>4. Taken(v) \in Int /\ p \in Int
        BY <1>1, <4>1, UnitFacts
      <4> QED BY <4>2, <4>3, <4>4
    <3> QED BY <3>1, <3>2
  <2> QED BY <1>1, <1>9, <2>2, <2>3 DEF Reported
<1>12. \A d : Count(d)' = Count(d)
  BY <1>1 DEF Count
<1>13. SentLines'
  <2>1. SentLines
    BY DEF UnitInv
  <2>2. \A j \in DOMAIN sent : \A i \in 1..j - 1 :
            sent[i].cmd.unit = sent[j].cmd.unit => Earlier(sent[i], sent[j])'
    <3>1. SUFFICES ASSUME NEW j \in DOMAIN sent, NEW i \in 1..j - 1,
                          sent[i].cmd.unit = sent[j].cmd.unit
                   PROVE  Earlier(sent[i], sent[j])'
      OBVIOUS
    <3>2. Earlier(sent[i], sent[j])
      BY <2>1, <3>1 DEF SentLines
    <3> DEFINE e == sent[i]  f == sent[j]
    <3>3. e' = e /\ f' = f
      BY <1>1
    <3> QED BY <1>7, <3>2, <3>3, EarlierKept
  <2>3. sent' = sent
    BY <1>1
  <2> QED BY <1>12, <2>1, <2>2, <2>3 DEF SentLines
<1> QED BY <1>4, <1>10, <1>11, <1>13 DEF UnitInv
---------------------------------------------------------------------------
(* The first half of a unit's step: set-ups that are over, the next command *)

LEMMA Suffix ==
    ASSUME NEW S, NEW s \in Seq(S), NEW m \in 0..Len(s)
    PROVE  /\ SubSeq(s, m + 1, Len(s)) \in Seq(S) /\ Len(SubSeq(s, m + 1, Len(s))) = Len(s) - m
           /\ \A i \in 1..Len(s) - m : SubSeq(s, m + 1, Len(s))[i] = s[m + i]
<1> DEFINE n == Len(s)  t == SubSeq(s, m + 1, n)  f == [i \in 1..n - m |-> s[m + i]]
<1>1. n \in Nat /\ m \in 0..n /\ DOMAIN s = 1..n /\ \A i \in 1..n : s[i] \in S
  OBVIOUS
<1>2. n - m \in Nat /\ \A i \in 1..n - m : m + i \in 1..n
  <2> HIDE DEF n
  <2> QED BY <1>1
<1>3. f \in [1..n - m -> S]
  <2> HIDE DEF n
  <2> QED BY <1>1, <1>2
<1>4. f \in Seq(S) /\ Len(f) = n - m
  <2> HIDE DEF n, f
  <2> QED BY <1>2, <1>3
<1>5. t = f
  <2>1. t \in Seq(S) /\ Len(t) = n - m
    OBVIOUS
  <2>2. \A i \in 1..n - m : t[i] = f[i]
    OBVIOUS
  <2> HIDE DEF t, f, n
  <2> QED BY <1>3, <2>1, <2>2
<1> QED BY <1>4, <1>5

LEMMA SetUpFacts ==
    ASSUME NEW q \in Seq(SettingUp)
    PROVE  \E m \in 0..Len(q) :
               /\ SetUp(q).done \in Seq(Command) /\ Len(SetUp(q).done) = m
               /\ SetUp(q).left \in Seq(SettingUp) /\ Len(SetUp(q).left) = Len(q) - m
               /\ \A i \in 1..m : SetUp(q).done[i] = q[i].cmd
               /\ \A i \in 1..Len(q) - m : SetUp(q).left[i].cmd = q[m + i].cmd
<1> DEFINE aged == [i \in DOMAIN q |-> [q[i] EXCEPT !.wait = Aged(@)]]
           over == {i \in DOMAIN q : \A j \in 1..i : aged[j].wait = 0}
<1>1. SetUp(q).done = [i \in over |-> q[i].cmd]
  BY DEF SetUp
<1>2. SetUp(q).left = SubSeq(aged, Cardinality(over) + 1, Len(q))
  BY DEF SetUp
<1>3. Len(q) \in Nat /\ DOMAIN q = 1..Len(q) /\ \A i \in DOMAIN q : q[i] \in SettingUp
  OBVIOUS
<1>4. ASSUME NEW i \in DOMAIN q PROVE aged[i] \in SettingUp /\ aged[i].cmd = q[i].cmd
  <2>1. aged[i] = [q[i] EXCEPT !.wait = Aged(@)] /\ q[i] \in SettingUp
    BY <1>3
  <2> HIDE DEF aged
  <2>2. Aged(q[i].wait) \in Nat
    BY <2>1 DEF SettingUp, Aged
  <2> QED BY <2>1, <2>2 DEF SettingUp
<1>5. aged = [i \in DOMAIN q |-> aged[i]] /\ DOMAIN aged = DOMAIN q
  OBVIOUS
<1>6. over \in SUBSET (1..Len(q)) /\ \A i \in over : \A j \in 1..i : j \in over
  <2>1. over \in SUBSET (1..Len(q))
    BY <1>3
  <2>2. \A i \in over : \A j \in 1..i : j \in DOMAIN q /\ \A l \in 1..j : l \in 1..i
    BY <1>3
  <2> HIDE DEF aged
  <2> QED BY <2>1, <2>2
<1> HIDE DEF aged, over
<1>7. aged \in Seq(SettingUp) /\ Len(aged) = Len(q)
  BY <1>4, <1>5, Mapped
<1>8. PICK m \in 0..Len(q) : over = 1..m /\ Cardinality(over) = m
  BY <1>3, <1>6, Initial
<1>9. SetUp(q).left = SubSeq(aged, m + 1, Len(q)) /\ SetUp(q).done = [i \in 1..m |-> q[i].cmd]
  BY <1>1, <1>2, <1>8
<1>10. /\ SetUp(q).left \in Seq(SettingUp) /\ Len(SetUp(q).left) = Len(q) - m
       /\ \A i \in 1..Len(q) - m : SetUp(q).left[i] = aged[m + i]
  <2> DEFINE l == SubSeq(aged, m + 1, Len(q))
  <2>1. /\ l \in Seq(SettingUp) /\ Len(l) = Len(q) - m
        /\ \A i \in 1..Len(q) - m : l[i] = aged[m + i]
    <3>1. m \in 0..Len(aged) /\ l = SubSeq(aged, m + 1, Len(aged))
      BY <1>7
    <3> HIDE DEF l
    <3> QED BY <1>7, <3>1, Suffix
  <2> QED BY <1>9, <2>1
<1>11. \A i \in 1..Len(q) - m : SetUp(q).left[i].cmd = q[m + i].cmd
  <2>1. \A i \in 1..Len(q) - m : m + i \in DOMAIN q
    BY <1>3, <1>8
  <2> QED BY <1>4, <1>10, <2>1
<1>12. SetUp(q).done \in Seq(Command) /\ Len(SetUp(q).done) = m
  <2>1. \A i \in 1..m : q[i].cmd \in Command
    BY <1>3, <1>8 DEF SettingUp
  <2> DEFINE s == [i \in 1..m |-> q[i].cmd]
  <2>2. s \in [1..m -> Command]
    BY <2>1
  <2>3. s \in Seq(Command) /\ Len(s) = m
    BY <1>8, <2>2
  <2> QED BY <1>9, <2>3
<1>13. \A i \in 1..m : SetUp(q).done[i] = q[i].cmd
  BY <1>9
<1> QED BY <1>8, <1>10, <1>11, <1>12, <1>13

\* The commands that are ready, and the one that is active then.
Queue(u) == ready[u] \o SetUp(settingUp[u]).done
Now(u) == Activated(active[u], Queue(u))

\* What is left behind is still in the order given.
LEMMA Backlog ==
    ASSUME UnitInv, NEW u \in Unit, StepUnit(u)
    PROVE  /\ ready'[u] \in Seq(Command) /\ settingUp'[u] \in Seq(SettingUp)
           /\ ready' \in [Unit -> Seq(Command)] /\ settingUp' \in [Unit -> Seq(SettingUp)]
           /\ \A v \in Unit : v # u => ready'[v] = ready[v] /\ settingUp'[v] = settingUp[v]
           /\ given' = given /\ Taken(u)' \in 0..Len(given[u])
           /\ \A i \in DOMAIN ready'[u] : ready'[u][i] = given[u][Taken(u)' + i]
           /\ \A i \in DOMAIN settingUp'[u] :
                 settingUp'[u][i].cmd = given[u][Taken(u)' + Len(ready'[u]) + i]
           /\ Now(u) \in Active \union {NoCommand}
           /\ IF IsActive(active[u])
                THEN Now(u) = active[u] /\ Taken(u)' = Taken(u)
                ELSE IF IsActive(Now(u))
                THEN /\ Taken(u)' = Taken(u) + 1 /\ Now(u).next = 0 /\ Now(u).credit = 0
                     /\ Now(u).cmd = given[u][Taken(u)']
                ELSE Now(u) = active[u] /\ Taken(u)' = Taken(u)
<1> DEFINE q == settingUp[u]  g == given[u]  rd == ready[u]  t == Taken(u)
<1>1. /\ q \in Seq(SettingUp) /\ rd \in Seq(Command) /\ g \in Seq(Command)
      /\ Len(q) \in Nat /\ Len(rd) \in Nat /\ Len(g) \in Nat /\ DOMAIN g = 1..Len(g)
      /\ t \in 0..Len(g) /\ t + Len(rd) + Len(q) = Len(g)
      /\ active[u] \in Active \union {NoCommand}
  BY UnitFacts
<1>2. /\ \A i \in DOMAIN rd : rd[i] = g[t + i]
      /\ \A i \in DOMAIN q : q[i].cmd = g[t + Len(rd) + i]
  BY DEF UnitInv, InLine
<1> DEFINE done == SetUp(q).done  left1 == SetUp(q).left  all == Queue(u)  r == Now(u)
<1>3. /\ settingUp' = [settingUp EXCEPT ![u] = left1]
      /\ ready' = [ready EXCEPT ![u] = IF r # active[u] THEN Tail(all) ELSE all]
      /\ given' = given /\ all = rd \o done /\ r = Activated(active[u], all)
  BY DEF StepUnit, Queue, Now
<1>4. PICK m \in 0..Len(q) :
               /\ done \in Seq(Command) /\ Len(done) = m
               /\ left1 \in Seq(SettingUp) /\ Len(left1) = Len(q) - m
               /\ \A i \in 1..m : done[i] = q[i].cmd
               /\ \A i \in 1..Len(q) - m : left1[i].cmd = q[m + i].cmd
  BY <1>1, SetUpFacts
<1> HIDE DEF q, g, rd, t, done, left1, all, r
<1>5. DOMAIN rd = 1..Len(rd) /\ DOMAIN q = 1..Len(q) /\ DOMAIN done = 1..m /\ DOMAIN left1 = 1..Len(q) - m
  BY <1>1, <1>4
<1>6. /\ all \in Seq(Command) /\ Len(all) = Len(rd) + m
      /\ \A i \in DOMAIN rd : i \in DOMAIN all /\ all[i] = rd[i]
      /\ \A i \in DOMAIN done : all[Len(rd) + i] = done[i]
      /\ \A i \in DOMAIN all : i \in DOMAIN rd \/ i - Len(rd) \in DOMAIN done
  <2>1. /\ rd \o done \in Seq(Command) /\ Len(rd \o done) = Len(rd) + Len(done)
        /\ \A i \in DOMAIN rd : i \in DOMAIN (rd \o done) /\ (rd \o done)[i] = rd[i]
        /\ \A i \in DOMAIN done :
              Len(rd) + i \in DOMAIN (rd \o done) /\ (rd \o done)[Len(rd) + i] = done[i]
        /\ \A i \in DOMAIN (rd \o done) : i \in DOMAIN rd \/ i - Len(rd) \in DOMAIN done
    <3>1. rd \in Seq(Command) /\ done \in Seq(Command)
      BY <1>1, <1>4
    <3> QED BY <3>1, Joined
  <2> QED BY <1>3, <1>4, <2>1
<1>7. DOMAIN all = 1..Len(all) /\ Len(all) \in Nat
  BY <1>6
<1>8. \A i \in DOMAIN all : all[i] = g[t + i]
  <2>1. SUFFICES ASSUME NEW i \in DOMAIN all PROVE all[i] = g[t + i]
    OBVIOUS
  <2>2. CASE i \in DOMAIN rd
    BY <1>2, <1>6, <2>2
  <2>3. CASE i \notin DOMAIN rd
    <3> DEFINE j == i - Len(rd)
    <3>1. j \in 1..m /\ Len(rd) + j = i /\ t + Len(rd) + j = t + i /\ j \in DOMAIN q /\ j \in DOMAIN done
      <4>1. j \in DOMAIN done /\ j \in 1..m /\ i \in Nat
        BY <1>5, <1>6, <1>7, <2>3
      <4>2. j \in 1..Len(q)
        BY <1>1, <4>1
      <4> QED BY <1>1, <1>5, <4>1, <4>2
    <3> HIDE DEF j
    <3>2. all[i] = done[j] /\ done[j] = q[j].cmd /\ q[j].cmd = g[t + Len(rd) + j]
      BY <1>2, <1>4, <1>6, <3>1
    <3> QED BY <3>1, <3>2
  <2> QED BY <2>2, <2>3
<1>9. \A i \in DOMAIN left1 : left1[i].cmd = g[t + Len(all) + i]
  <2>1. SUFFICES ASSUME NEW i \in 1..Len(q) - m PROVE left1[i].cmd = g[t + Len(all) + i]
    BY <1>5
  <2>2. m + i \in DOMAIN q /\ t + Len(rd) + (m + i) = t + Len(all) + i
    BY <1>1, <1>4, <1>5, <1>6
  <2>3. q[m + i].cmd = g[t + Len(rd) + (m + i)]
    BY <1>2, <2>2
  <2> QED BY <1>4, <2>2, <2>3
<1>10. t + Len(all) + Len(left1) = Len(g)
  <2>1. Len(all) = Len(rd) + m /\ Len(left1) = Len(q) - m
    BY <1>4, <1>6
  <2>2. m \in Int
    BY <1>1
  <2>3. t \in Int
    BY <1>1
  <2>4. Len(rd) \in Int
    BY <1>1
  <2>5. Len(q) \in Int
    BY <1>1
  <2>6. t + Len(rd) + Len(q) = Len(g)
    BY <1>1
  <2> QED BY <2>1, <2>2, <2>3, <2>4, <2>5, <2>6
<1>11. /\ settingUp'[u] = left1 /\ settingUp' \in [Unit -> Seq(SettingUp)]
       /\ \A v \in Unit : v # u => settingUp'[v] = settingUp[v]
  BY <1>3, <1>4 DEF UnitInv, UnitTypes
<1>12. CASE IsActive(active[u]) \/ all = <<>>
  <2>1. r = active[u]
    BY <1>3, <1>12 DEF Activated
  <2>2. /\ ready'[u] = all /\ ready' \in [Unit -> Seq(Command)]
        /\ \A v \in Unit : v # u => ready'[v] = ready[v]
    BY <1>3, <1>6, <2>1 DEF UnitInv, UnitTypes
  <2>3. Taken(u)' = t
    <3>1. Taken(u)' = Len(g) - Len(all) - Len(left1)
      BY <1>3, <1>11, <2>2 DEF Taken, g
    <3> QED BY <1>1, <1>4, <1>7, <1>10, <3>1
  <2>4. ~IsActive(active[u]) => ~IsActive(r)
    BY <2>1
  <2>5. \A i \in DOMAIN ready'[u] : ready'[u][i] = g[Taken(u)' + i]
    BY <1>8, <2>2, <2>3
  <2>6. \A i \in DOMAIN settingUp'[u] : settingUp'[u][i].cmd = g[Taken(u)' + Len(ready'[u]) + i]
    BY <1>9, <1>11, <2>2, <2>3
  <2>7. /\ ready'[u] \in Seq(Command) /\ settingUp'[u] \in Seq(SettingUp)
        /\ Taken(u)' \in 0..Len(g) /\ r \in Active \union {NoCommand}
    BY <1>1, <1>4, <1>6, <1>11, <2>1, <2>2, <2>3
  <2> HIDE DEF Active, NoCommand
  <2> QED BY <1>3, <1>11, <2>1, <2>2, <2>3, <2>4, <2>5, <2>6, <2>7 DEF r, t, g
<1>13. CASE ~IsActive(active[u]) /\ all # <<>>
  <2>1. /\ Tail(all) \in Seq(Command) /\ Head(all) \in Command /\ Len(Tail(all)) = Len(all) - 1 /\ Len(all) > 0
        /\ \A i \in DOMAIN Tail(all) : i + 1 \in DOMAIN all /\ Tail(all)[i] = all[i + 1]
        /\ 1 \in DOMAIN all /\ Head(all) = all[1]
    BY <1>6, <1>13, Removed
  <2>2. r = [cmd |-> Head(all), next |-> 0, credit |-> 0]
    BY <1>3, <1>13 DEF Activated
  <2>3. r \in Active /\ IsActive(r) /\ r.next = 0 /\ r.credit = 0 /\ r.cmd = Head(all)
    BY <2>1, <2>2, CommandFacts DEF Active, IsActive
  <2>4. /\ ready'[u] = Tail(all) /\ ready' \in [Unit -> Seq(Command)]
        /\ \A v \in Unit : v # u => ready'[v] = ready[v]
    <3>1. r # active[u]
      BY <1>13, <2>3
    <3> QED BY <1>3, <2>1, <3>1 DEF UnitInv, UnitTypes
  <2> DEFINE tl == Tail(all)
  <2> HIDE DEF tl
  <2>5. /\ tl \in Seq(Command) /\ Len(tl) = Len(all) - 1 /\ ready'[u] = tl
        /\ \A i \in DOMAIN tl : i + 1 \in DOMAIN all /\ tl[i] = all[i + 1]
    BY <2>1, <2>4 DEF tl
  <2>6. Taken(u)' = t + 1
    <3>1. Taken(u)' = Len(g) - Len(tl) - Len(left1)
      BY <1>3, <1>11, <2>5 DEF Taken, g
    <3>2. /\ t \in Int /\ Len(g) \in Int /\ Len(all) \in Int /\ Len(left1) \in Int
          /\ Len(tl) = Len(all) - 1
      BY <1>1, <1>4, <1>7, <2>5
    <3> QED BY <1>10, <3>1, <3>2
  <2>7. \A i \in DOMAIN tl : tl[i] = g[(t + 1) + i]
    <3>1. SUFFICES ASSUME NEW i \in DOMAIN tl PROVE tl[i] = g[(t + 1) + i]
      OBVIOUS
    <3>2. i \in Nat /\ t + (i + 1) = (t + 1) + i
      <4>1. i \in Nat
        BY <2>5
      <4>2. t \in Int
        BY <1>1
      <4> QED BY <4>1, <4>2
    <3>3. tl[i] = g[t + (i + 1)]
      BY <1>8, <2>5
    <3> QED BY <3>2, <3>3
  <2>8. \A i \in DOMAIN left1 : left1[i].cmd = g[(t + 1) + Len(tl) + i]
    <3>1. \A i \in DOMAIN left1 : (t + 1) + Len(tl) + i = t + Len(all) + i
      BY <1>1, <1>5, <1>7, <2>5
    <3> QED BY <1>9, <3>1
  <2>9. t + 1 \in 0..Len(g) /\ r.cmd = g[t + 1]
    <3>1. r.cmd = all[1] /\ 1 \in DOMAIN all
      BY <2>1, <2>3
    <3> QED BY <1>1, <1>4, <1>7, <1>8, <1>10, <2>1, <3>1
  <2>10. \A i \in DOMAIN ready'[u] : ready'[u][i] = g[Taken(u)' + i]
    BY <2>5, <2>6, <2>7
  <2>11. \A i \in DOMAIN settingUp'[u] : settingUp'[u][i].cmd = g[Taken(u)' + Len(ready'[u]) + i]
    BY <1>11, <2>5, <2>6, <2>8
  <2>12. /\ ready'[u] \in Seq(Command) /\ settingUp'[u] \in Seq(SettingUp)
         /\ Taken(u)' \in 0..Len(g) /\ r \in Active \union {NoCommand}
    BY <1>4, <1>11, <2>3, <2>5, <2>6, <2>9
  <2> QED BY <1>3, <1>11, <1>13, <2>3, <2>4, <2>6, <2>9, <2>10, <2>11, <2>12 DEF r, t, g
<1> QED BY <1>12, <1>13
---------------------------------------------------------------------------
(* The second half: what the active command sends                          *)

\* What a unit sends: no more than the lines that are left, the room in the L2 and the
\* credit allow.
LEMMA SendFacts ==
    ASSUME Inv, NEW r \in Active, r.next < Len(Keys[r.cmd])
    PROVE  /\ Sendable(r) \in Nat /\ Len(writeQ) + Len(readQ) + Sendable(r) <= QueueDepth
           /\ NextLine(r) \in Nat /\ NextLine(r) <= Len(Keys[r.cmd])
           /\ Credited(r) - LineSize * Sendable(r) \in Nat
<1> DEFINE len == Len(Keys[r.cmd])  nx == r.next  cr == r.credit  rate == r.cmd.rate
<1>1. r.cmd \in Command /\ nx \in Nat /\ cr \in Nat /\ nx < len
  BY DEF Active
<1>2. len \in Nat /\ rate \in Nat
  BY <1>1, CommandFacts
<1>3. LineSize \in Nat \ {0} /\ QueueDepth \in Nat
  BY L2Assumption
<1>4. Room \in Nat /\ Len(writeQ) + Len(readQ) + Room = QueueDepth
  <2>1. writeQ \in Seq(Transaction) /\ readQ \in Seq(Transaction) /\ Len(writeQ) + Len(readQ) <= QueueDepth
    BY DEF Inv, LineInv, TypeOK
  <2>2. Len(writeQ) \in Nat /\ Len(readQ) \in Nat
    BY <2>1
  <2> QED BY <1>3, <2>1, <2>2 DEF Room
<1> DEFINE x == Credited(r)  more == len - nx
<1>5. more \in Nat
  <2> HIDE DEF len, nx
  <2> QED BY <1>1, <1>2
<1>6. x \in Nat /\ x <= LineSize * more
  <2> DEFINE most == LineSize * more
  <2>1. most \in Nat
    <3> HIDE DEF more
    <3> QED BY <1>3, <1>5
  <2>2. x = IF cr + rate > most THEN most ELSE cr + rate
    BY DEF Credited
  <2> HIDE DEF most, x, cr, rate
  <2> QED BY <1>1, <1>2, <2>1, <2>2 DEF most
<1> DEFINE n == Sendable(r)  d == x \div LineSize
<1> HIDE DEF more, x, len, nx
<1>7. d \in Nat /\ d <= more /\ LineSize * d <= x
  BY <1>3, <1>5, <1>6, Quotient
<1>8. n = IF d < Room THEN d ELSE Room
  BY DEF Sendable, Lesser, x
<1> HIDE DEF n, d
<1>9. n \in Nat /\ n <= d /\ n <= Room
  <2> HIDE DEF Room
  <2> QED BY <1>4, <1>7, <1>8
<1>10. x - LineSize * n \in Nat
  <2>1. LineSize * n <= LineSize * d
    BY <1>3, <1>7, <1>9
  <2>2. LineSize * n \in Nat /\ LineSize * d \in Nat
    BY <1>3, <1>7, <1>9
  <2> QED BY <1>6, <1>7, <2>1, <2>2
<1>11. nx + n \in Nat /\ nx + n <= len
  BY <1>1, <1>2, <1>5, <1>7, <1>9 DEF more
<1>12. Len(writeQ) + Len(readQ) + n <= QueueDepth
  <2>1. Len(writeQ) \in Nat /\ Len(readQ) \in Nat
    BY DEF Inv, LineInv, TypeOK
  <2> HIDE DEF Room
  <2> QED BY <1>3, <1>4, <1>9, <2>1
<1> QED BY <1>9, <1>10, <1>11, <1>12 DEF n, x, nx, len, NextLine

\* The command that is active when a unit sends: the next one in line, as far as it is sent.
LEMMA NowFacts ==
    ASSUME UnitInv, NEW u \in Unit, StepUnit(u), IsActive(Now(u))
    PROVE  /\ Now(u) \in Active /\ Now(u).cmd \in Command /\ Now(u).cmd.unit = u
           /\ Taken(u)' \in DOMAIN given[u] /\ Now(u).cmd = given[u][Taken(u)']
           /\ Now(u).next < Len(Keys[Now(u).cmd]) /\ Count(Now(u).cmd) = Now(u).next
           /\ \A p \in DOMAIN given[u] : given[u][p] \in reported <=> p < Taken(u)'
           /\ active[u].cmd = Now(u).cmd \/ ~IsActive(active[u])
<1> DEFINE r == Now(u)  g == given[u]  t == Taken(u)
<1>1. /\ t \in Int /\ t >= 0 /\ DOMAIN g = 1..Len(g) /\ Len(g) \in Nat /\ g \in Seq(Command)
      /\ \A c \in Elems(g) : c.unit = u
  BY UnitFacts
<1>2. /\ r \in Active \union {NoCommand} /\ IsActive(r) /\ Taken(u)' \in 0..Len(g)
      /\ IF IsActive(active[u])
           THEN r = active[u] /\ Taken(u)' = t
           ELSE Taken(u)' = t + 1 /\ r.next = 0 /\ r.cmd = g[Taken(u)']
  BY Backlog
<1>3. r \in Active /\ r.cmd \in Command
  <2>1. r \in Active
    BY <1>2 DEF IsActive, NoCommand
  <2> QED BY <2>1 DEF Active
<1>4. \A p \in DOMAIN g : g[p] \in reported <=> p < t \/ (p = t /\ ~IsActive(active[u]))
  BY DEF UnitInv, Reported
<1>5. IsActive(active[u]) => t > 0 /\ active[u].cmd = g[t] /\ active[u].next < Len(Keys[active[u].cmd])
  BY DEF UnitInv, InLine
<1>6. Len(Keys[r.cmd]) \in Nat \ {0} /\ r.cmd # <<>>
  BY <1>3, CommandFacts
<1> HIDE DEF r, g, t
<1> DEFINE s == Taken(u)'
<1> HIDE DEF s
<1>7. s \in 1..Len(g) /\ r.cmd = g[s] /\ r.next < Len(Keys[r.cmd])
  <2>1. CASE IsActive(active[u])
    <3>1. r = active[u] /\ s = t /\ s \in 0..Len(g)
      BY <1>2, <2>1 DEF s
    <3> QED BY <1>1, <1>5, <2>1, <3>1
  <2>2. CASE ~IsActive(active[u])
    <3>1. s = t + 1 /\ r.next = 0 /\ r.cmd = g[s] /\ s \in 0..Len(g)
      BY <1>2, <2>2 DEF s
    <3> QED BY <1>1, <1>6, <3>1
  <2> QED BY <2>1, <2>2
<1>8. \A p \in DOMAIN g : g[p] \in reported <=> p < s
  <2>1. SUFFICES ASSUME NEW p \in DOMAIN g PROVE g[p] \in reported <=> p < s
    OBVIOUS
  <2>2. p \in Nat
    BY <1>1
  <2>3. CASE IsActive(active[u])
    <3>1. s = t
      BY <1>2, <2>3 DEF s
    <3> QED BY <1>4, <2>3, <3>1
  <2>4. CASE ~IsActive(active[u])
    <3>1. s = t + 1
      BY <1>2, <2>4 DEF s
    <3>2. p < s <=> p < t \/ p = t
      BY <1>1, <2>2, <3>1
    <3> QED BY <1>4, <2>4, <3>2
  <2> QED BY <2>3, <2>4
<1>9. r.cmd.unit = u /\ r.cmd \notin reported
  <2>1. s \in DOMAIN g /\ r.cmd = g[s] /\ s \in Int
    BY <1>1, <1>7
  <2>2. ~(s < s)
    BY <2>1
  <2> QED BY <1>1, <1>8, <2>1, <2>2 DEF Elems
<1>10. active[u].cmd = r.cmd \/ ~IsActive(active[u])
  BY <1>2
<1>11. Count(r.cmd) = r.next
  <2>1. CASE IsActive(active[u])
    BY <1>2, <1>9, <2>1 DEF Count
  <2>2. CASE ~IsActive(active[u])
    BY <1>2, <1>6, <1>9, <2>2 DEF Count, IsActive
  <2> QED BY <2>1, <2>2
<1> QED BY <1>1, <1>3, <1>7, <1>8, <1>9, <1>10, <1>11 DEF r, g, s

LEMMA UnitTakes ==
    ASSUME Inv, UnitInv, NEW u \in Unit, StepUnit(u), IsActive(Now(u))
    PROVE  \E lines : Takes(lines, Now(u).cmd.write)
<1> DEFINE r == Now(u)  n == Sendable(r)  lines == Lines(r)  base == Cardinality(accepted)
<1>1. /\ r \in Active /\ r.cmd \in Command /\ r.next < Len(Keys[r.cmd]) /\ r.next \in Nat
  BY NowFacts DEF Active
<1>2. /\ n \in Nat /\ Len(writeQ) + Len(readQ) + n <= QueueDepth
      /\ r.next + n \in Nat /\ r.next + n <= Len(Keys[r.cmd])
  BY <1>1, SendFacts DEF NextLine
<1>3. r.cmd.write \in BOOLEAN /\ Keys[r.cmd] \in Seq(Key)
  BY <1>1, CommandFacts
<1>4. base \in Nat
  BY FS_CardinalityType DEF Inv, Places
<1>5. /\ phase = "open" /\ phase' = phase
      /\ IF r.cmd.write
           THEN writeQ' = writeQ \o lines /\ UNCHANGED readQ
           ELSE readQ' = readQ \o lines /\ UNCHANGED writeQ
      /\ accepted' = accepted \union Elems(lines)
      /\ UNCHANGED <<left, lru, dirty, mshr, answers, dram, remaining, filled, credit, answered>>
  BY DEF StepUnit, Now, Queue
<1>6. lines = [i \in 1..n |-> [tx |-> base + i, key |-> Keys[r.cmd][r.next + i], write |-> r.cmd.write]]
  BY DEF Lines
<1> HIDE DEF r, n, lines, base
<1>7. \A i \in 1..n : base + i \in Nat \ {0} /\ Keys[r.cmd][r.next + i] \in Key
  <2>1. SUFFICES ASSUME NEW i \in 1..n PROVE base + i \in Nat \ {0} /\ Keys[r.cmd][r.next + i] \in Key
    OBVIOUS
  <2>2. base + i \in Nat \ {0}
    BY <1>2, <1>4
  <2> DEFINE s == Keys[r.cmd]  nx == r.next
  <2>3. s \in Seq(Key) /\ nx \in Nat /\ nx + n <= Len(s)
    BY <1>1, <1>2, <1>3
  <2> HIDE DEF s, nx
  <2>4. nx + i \in 1..Len(s)
    BY <1>2, <2>3
  <2>5. s[nx + i] \in Key
    BY <2>3, <2>4
  <2> QED BY <2>2, <2>5 DEF s, nx
<1>8. /\ lines \in Seq(Transaction) /\ Len(lines) = n /\ DOMAIN lines = 1..n
      /\ \A i \in 1..n : lines[i].tx = base + i /\ lines[i].write = r.cmd.write
  <2>1. \A i \in 1..n : [tx |-> base + i, key |-> Keys[r.cmd][r.next + i], write |-> r.cmd.write] \in Transaction
    BY <1>3, <1>7 DEF Transaction
  <2>2. lines \in [1..n -> Transaction]
    BY <1>6, <2>1
  <2>3. lines \in Seq(Transaction) /\ Len(lines) = n
    BY <1>2, <2>2
  <2> QED BY <1>6, <2>3
<1>9. Takes(lines, r.cmd.write)
  BY <1>2, <1>5, <1>8 DEF Takes, base
<1> QED BY <1>9 DEF r

LEMMA UnitIdle ==
    ASSUME UnitInv, NEW u \in Unit, StepUnit(u), ~IsActive(Now(u))
    PROVE  UNCHANGED <<vars, sent, active, reported>> /\ Taken(u)' = Taken(u) /\ ~IsActive(active[u])
<1>1. UNCHANGED <<vars, sent, active, reported>>
  BY DEF StepUnit, Now, Queue, vars
<1>2. Taken(u)' = Taken(u) /\ ~IsActive(active[u])
  BY Backlog
<1> QED BY <1>1, <1>2

\* A step leaves the other units alone, and the commands behind the active one in line.
LEMMA OthersInLine ==
    ASSUME UnitInv, NEW u \in Unit, StepUnit(u),
           \A v \in Unit : v # u => active'[v] = active[v],
           IsActive(active'[u]) =>
              /\ Taken(u)' > 0 /\ active'[u].cmd = given[u][Taken(u)']
              /\ active'[u].next < Len(Keys[active'[u].cmd])
    PROVE  InLine' /\ \A v \in Unit : v # u => Taken(v)' = Taken(v)
<1>1. /\ \A v \in Unit : v # u => ready'[v] = ready[v] /\ settingUp'[v] = settingUp[v]
      /\ given' = given /\ Taken(u)' \in 0..Len(given[u])
      /\ \A i \in DOMAIN ready'[u] : ready'[u][i] = given[u][Taken(u)' + i]
      /\ \A i \in DOMAIN settingUp'[u] :
            settingUp'[u][i].cmd = given[u][Taken(u)' + Len(ready'[u]) + i]
  BY Backlog
<1>2. \A v \in Unit : v # u => Taken(v)' = Taken(v)
  BY <1>1 DEF Taken
<1>3. Taken(u)' >= 0
  <2> DEFINE t == Taken(u)'
  <2>1. t \in 0..Len(given[u])
    BY <1>1
  <2> HIDE DEF t
  <2>2. t >= 0
    BY <2>1
  <2> QED BY <2>2 DEF t
<1>4. Distinct(given[u]) /\ \A c \in Elems(given[u]) : c.unit = u
  BY DEF UnitInv, InLine
<1>5. /\ Distinct(given'[u]) /\ \A c \in Elems(given'[u]) : c.unit = u
      /\ Taken(u)' >= 0
      /\ \A i \in DOMAIN ready'[u] : ready'[u][i] = given'[u][Taken(u)' + i]
      /\ \A i \in DOMAIN settingUp'[u] :
            settingUp'[u][i].cmd = given'[u][Taken(u)' + Len(ready'[u]) + i]
      /\ IsActive(active'[u]) =>
            /\ Taken(u)' > 0 /\ active'[u].cmd = given'[u][Taken(u)']
            /\ active'[u].next < Len(Keys[active'[u].cmd])
  BY <1>1, <1>3, <1>4
<1>6. ASSUME NEW v \in Unit, v # u
      PROVE  /\ Distinct(given'[v]) /\ \A d \in Elems(given'[v]) : d.unit = v
             /\ Taken(v)' >= 0
             /\ \A i \in DOMAIN ready'[v] : ready'[v][i] = given'[v][Taken(v)' + i]
             /\ \A i \in DOMAIN settingUp'[v] :
                   settingUp'[v][i].cmd = given'[v][Taken(v)' + Len(ready'[v]) + i]
             /\ IsActive(active'[v]) =>
                   /\ Taken(v)' > 0 /\ active'[v].cmd = given'[v][Taken(v)']
                   /\ active'[v].next < Len(Keys[active'[v].cmd])
  BY <1>1, <1>2, <1>6 DEF UnitInv, InLine
<1> QED BY <1>2, <1>5, <1>6 DEF InLine

LEMMA Listed ==
    ASSUME NEW S, NEW n \in Nat, NEW s \in [1..n -> S]
    PROVE  s \in Seq(S) /\ Len(s) = n /\ DOMAIN s = 1..n
OBVIOUS

\* The lines that are sent follow those sent before.
LEMMA SentKeeps ==
    ASSUME UnitInv, NEW c \in Command, NEW more \in Seq(SentLine), Count(c) \in Nat,
           \A i \in 1..Len(more) : more[i] = [cmd |-> c, line |-> Count(c) + i],
           \A d \in Elems(given[c.unit]) : d \in reported =>
              \E j \in DOMAIN given[c.unit] : \E i \in 1..j - 1 :
                  given[c.unit][i] = d /\ given[c.unit][j] = c,
           active[c.unit].cmd \in {c, <<>>}
    PROVE  /\ Elems(sent) \subseteq Elems(sent \o more)
           /\ \A i \in 1..Len(more) : [cmd |-> c, line |-> Count(c) + i] \in Elems(sent \o more)
           /\ \A e \in Elems(sent \o more) : e \notin Elems(sent) =>
                 \E i \in 1..Len(more) : e = [cmd |-> c, line |-> Count(c) + i]
           /\ \A j \in DOMAIN (sent \o more) : \A i \in 1..j - 1 :
                 (sent \o more)[i].cmd.unit = (sent \o more)[j].cmd.unit =>
                     Earlier((sent \o more)[i], (sent \o more)[j])
<1> DEFINE m == Len(sent)  u == c.unit  a == Count(c)  n == Len(more)  q == sent \o more
<1>0. /\ a \in Nat /\ n \in Nat /\ DOMAIN more = 1..n
      /\ \A i \in 1..n : more[i] = [cmd |-> c, line |-> a + i]
      /\ \A d \in Elems(given[u]) : d \in reported =>
            \E j \in DOMAIN given[u] : \E i \in 1..j - 1 : given[u][i] = d /\ given[u][j] = c
      /\ active[u].cmd \in {c, <<>>}
  OBVIOUS
<1> HIDE DEF a, n
<1>1. sent \in Seq(SentLine) /\ m \in Nat /\ DOMAIN sent = 1..m
  BY DEF UnitInv, UnitTypes
<1>2. more \in Seq(SentLine) /\ Len(more) = n /\ DOMAIN more = 1..n
  BY <1>0 DEF n
<1>3. \A i \in 1..n : more[i] = [cmd |-> c, line |-> a + i]
  BY <1>0
<1>4. /\ \A i \in 1..n : [cmd |-> c, line |-> a + i] \in Elems(more)
      /\ \A e \in Elems(more) : \E i \in 1..n : e = [cmd |-> c, line |-> a + i]
  <2>1. \A i \in 1..n : more[i] \in Elems(more)
    BY <1>2 DEF Elems
  <2>2. \A e \in Elems(more) : \E i \in 1..n : e = more[i]
    BY <1>2 DEF Elems
  <2>3. \A i \in 1..n : [cmd |-> c, line |-> a + i] \in Elems(more)
    <3>1. SUFFICES ASSUME NEW i \in 1..n PROVE [cmd |-> c, line |-> a + i] \in Elems(more)
      OBVIOUS
    <3>2. more[i] = [cmd |-> c, line |-> a + i] /\ more[i] \in Elems(more)
      BY <1>3, <2>1
    <3> QED BY <3>2, Zenon
  <2>4. \A e \in Elems(more) : \E i \in 1..n : e = [cmd |-> c, line |-> a + i]
    <3>1. SUFFICES ASSUME NEW e \in Elems(more) PROVE \E i \in 1..n : e = [cmd |-> c, line |-> a + i]
      OBVIOUS
    <3>2. PICK i \in 1..n : e = more[i]
      BY <2>2
    <3>3. e = [cmd |-> c, line |-> a + i]
      BY <1>3, <3>2
    <3> QED BY <3>3
  <2> QED BY <2>3, <2>4
<1>5. q = sent \o more
  OBVIOUS
<1>5a. u \in Unit
  BY CommandFacts
<1> HIDE DEF q, u
<1>6. /\ Len(q) = m + n /\ DOMAIN q = 1..m + n /\ Elems(q) = Elems(sent) \union Elems(more)
      /\ \A i \in 1..m : q[i] = sent[i]
      /\ \A i \in 1..n : q[m + i] = more[i]
  <2>1. Elems(sent \o more) = Elems(sent) \union Elems(more) /\ Len(sent \o more) = m + n
    BY <1>1, <1>2, Joined
  <2>2. \A i \in DOMAIN sent : (sent \o more)[i] = sent[i]
    BY <1>1, <1>2, Joined
  <2>3. \A i \in DOMAIN more : (sent \o more)[m + i] = more[i]
    BY <1>1, <1>2, Joined
  <2>4. DOMAIN q = 1..Len(q)
    <3>1. q \in Seq(SentLine)
      BY <1>1, <1>2, <1>5, Joined
    <3> QED BY <3>1
  <2> HIDE DEF m
  <2> QED BY <1>1, <1>2, <1>5, <2>1, <2>2, <2>3, <2>4
<1> HIDE DEF m
<1>7. SentLines /\ \A e \in Elems(sent) : e \in SentLine
  BY <1>1 DEF UnitInv, Elems
\* What its unit has sent before comes earlier.
<1>8. ASSUME NEW e \in Elems(sent), e.cmd.unit = u, NEW k \in 1..n
      PROVE  Earlier(e, [cmd |-> c, line |-> a + k])
  <2>1. e.line \in 1..Count(e.cmd) /\ e.line \in Nat /\ e.cmd \in Command
    BY <1>7 DEF SentLines, SentLine
  <2>2. CASE e.cmd = c
    <3>1. e.line \in 1..a
      BY <2>1, <2>2 DEF a
    <3>2. e.line < a + k
      BY <1>0, <2>1, <3>1
    <3> QED BY <2>2, <3>2 DEF Earlier
  <2>3. CASE e.cmd # c
    <3>1. e.cmd \in reported
      <4>1. active[u].cmd # e.cmd
        BY <1>0, <2>1, <2>3, CommandFacts
      <4>2. CASE e.cmd \notin reported
        <5>1. Count(e.cmd) = 0
          BY <1>8, <4>1, <4>2 DEF Count
        <5> QED BY <2>1, <5>1
      <4> QED BY <4>2
    <3>2. e.cmd \in Elems(given[u])
      BY <1>8, <3>1 DEF UnitInv, Reported
    <3>3. \E j \in DOMAIN given[u] : \E i \in 1..j - 1 : given[u][i] = e.cmd /\ given[u][j] = c
      BY <1>0, <3>1, <3>2
    <3> DEFINE f == [cmd |-> c, line |-> a + k]
    <3>4. f.cmd = c
      OBVIOUS
    <3> HIDE DEF f
    <3>5. Earlier(e, f)
      BY <1>5a, <3>3, <3>4 DEF Earlier
    <3> QED BY <3>5 DEF f
  <2> QED BY <2>2, <2>3
<1>9. ASSUME NEW j \in DOMAIN q, NEW i \in 1..j - 1, q[i].cmd.unit = q[j].cmd.unit
      PROVE  Earlier(q[i], q[j])
  <2>1. i \in Nat /\ j \in Nat /\ i < j /\ 1 <= i /\ j <= m + n
    BY <1>1, <1>6
  <2>2. CASE j <= m
    <3>1. j \in DOMAIN sent /\ i \in 1..j - 1 /\ i \in 1..m /\ j \in 1..m
      BY <1>1, <2>1, <2>2
    <3>2. sent[i].cmd.unit = sent[j].cmd.unit => Earlier(sent[i], sent[j])
      BY <1>7, <3>1 DEF SentLines
    <3> QED BY <1>6, <1>9, <3>1, <3>2
  <2>3. CASE j > m
    <3> DEFINE k == j - m
    <3>1. k \in 1..n /\ j = m + k
      BY <1>0, <1>1, <2>1, <2>3
    <3> HIDE DEF k
    <3>2. q[j] = [cmd |-> c, line |-> a + k] /\ q[j].cmd.unit = u
      <4>1. q[m + k] = more[k] /\ more[k] = [cmd |-> c, line |-> a + k]
        BY <1>3, <1>6, <3>1
      <4>2. q[j] = [cmd |-> c, line |-> a + k]
        BY <3>1, <4>1
      <4> QED BY <4>2 DEF u
    <3>3. CASE i <= m
      <4>1. i \in 1..m
        BY <1>1, <2>1, <3>3
      <4>2. q[i] \in Elems(sent)
        BY <1>1, <1>6, <4>1 DEF Elems
      <4> QED BY <1>8, <1>9, <3>1, <3>2, <4>2
    <3>4. CASE i > m
      <4> DEFINE l == i - m
      <4>1. l \in 1..n /\ i = m + l /\ l < k
        <5>1. m \in Int /\ n \in Int /\ k \in Int /\ k <= n
          BY <1>0, <1>1, <3>1
        <5> QED BY <2>1, <3>1, <3>4, <5>1
      <4> HIDE DEF l
      <4>2. q[i] = [cmd |-> c, line |-> a + l]
        BY <1>3, <1>6, <4>1
      <4>3. a + l < a + k
        BY <1>0, <3>1, <4>1
      <4>4. q[i].cmd = q[j].cmd /\ q[i].line < q[j].line
        BY <3>2, <4>2, <4>3
      <4> QED BY <4>4 DEF Earlier
    <3> QED BY <1>1, <2>1, <3>3, <3>4
  <2> QED BY <1>1, <2>1, <2>2, <2>3
<1>10. /\ Elems(sent) \subseteq Elems(q)
       /\ \A i \in 1..n : [cmd |-> c, line |-> a + i] \in Elems(q)
       /\ \A e \in Elems(q) : e \notin Elems(sent) => \E i \in 1..n : e = [cmd |-> c, line |-> a + i]
  BY <1>4, <1>6
<1> QED BY <1>9, <1>10 DEF q, a, n

LEMMA UnitStepKeeps ==
    ASSUME Inv, UnitInv, NEW u \in Unit, StepUnit(u) PROVE Inv' /\ UnitInv'
<1> DEFINE r == Now(u)  s == Taken(u)'
<1>1. /\ given' = given /\ ready' \in [Unit -> Seq(Command)] /\ settingUp' \in [Unit -> Seq(SettingUp)]
      /\ s \in 0..Len(given[u])
  BY Backlog
<1>2. UnitTypes /\ InLine /\ Reported /\ SentLines
  BY DEF UnitInv
<1>3. CASE ~IsActive(r)
  <2>1. UNCHANGED <<vars, sent, active, reported>> /\ s = Taken(u) /\ ~IsActive(active[u])
    BY <1>3, UnitIdle
  <2>2. UnitTypes'
    BY <1>1, <1>2, <2>1 DEF UnitTypes
  <2>3. InLine' /\ \A v \in Unit : Taken(v)' = Taken(v)
    BY <2>1, OthersInLine
  <2>4. Reported'
    BY <1>1, <1>2, <2>1, <2>3 DEF Reported
  <2>5. SentLines'
    BY <1>1, <1>2, <2>1 DEF SentLines, Count, Earlier
  <2>6. Inv'
    BY <2>1, StutterKeeps
  <2> QED BY <2>2, <2>3, <2>4, <2>5, <2>6 DEF UnitInv
<1>4. CASE IsActive(r)
  <2> DEFINE c == r.cmd  a == r.next  n == Sendable(r)  g == given[u]  after == NextLine(r)
  <2>1. /\ r \in Active /\ c \in Command /\ c.unit = u /\ s \in DOMAIN g /\ c = g[s]
        /\ a < Len(Keys[c]) /\ Count(c) = a
        /\ \A p \in DOMAIN g : g[p] \in reported <=> p < s
        /\ active[u].cmd = c \/ ~IsActive(active[u])
    BY <1>4, NowFacts
  <2>2. /\ n \in Nat /\ after = a + n /\ after \in Nat /\ after <= Len(Keys[c]) /\ a \in Nat
        /\ Credited(r) - LineSize * n \in Nat /\ Len(Keys[c]) \in Nat /\ c # <<>>
    <3>1. a \in Nat /\ Len(Keys[c]) \in Nat /\ c # <<>>
      BY <2>1, CommandFacts DEF Active
    <3> QED BY <2>1, <3>1, SendFacts DEF NextLine
  <2> DEFINE keep == [r EXCEPT !.next = after, !.credit = Credited(r) - LineSize * n]
             over == AllSent(r)
  <2>3. /\ sent' = sent \o [i \in 1..n |-> [cmd |-> c, line |-> a + i]]
        /\ active' = [active EXCEPT ![u] = IF over THEN NoCommand ELSE keep]
        /\ reported' = IF over THEN reported \union {c} ELSE reported
    BY <1>4 DEF StepUnit, Now, Queue
  <2>4. over <=> after = Len(Keys[c])
    <3>1. over <=> after >= Len(Keys[c])
      BY DEF AllSent
    <3> HIDE DEF over, after
    <3> QED BY <2>2, <3>1
  <2>5. keep \in Active /\ keep.cmd = c /\ keep.next = after
    <3> DEFINE left1 == Credited(r) - LineSize * n
    <3>1. after \in Nat /\ left1 \in Nat /\ r \in Active
      BY <2>1, <2>2
    <3>2. keep = [r EXCEPT !.next = after, !.credit = left1]
      OBVIOUS
    <3> HIDE DEF left1, after, keep, r
    <3> QED BY <3>1, <3>2 DEF Active
  <2>6. \A d \in Elems(g) : d.unit = u
    BY <1>2 DEF InLine
  <2>7. Distinct(g) /\ s \in Nat /\ g \in Seq(Command) /\ DOMAIN g = 1..Len(g)
    <3>1. Distinct(g) /\ g \in Seq(Command) /\ DOMAIN g = 1..Len(g)
      BY UnitFacts
    <3> QED BY <1>1, <3>1
  <2> HIDE DEF r, s, c, a, n, g, after, keep, over
  <2>8. active'[u] = (IF over THEN NoCommand ELSE keep) /\ active' \in [Unit -> Active \union {NoCommand}]
        /\ \A v \in Unit : v # u => active'[v] = active[v]
    BY <1>2, <2>3, <2>5 DEF UnitTypes
  <2>9. IsActive(active'[u]) <=> ~over
    BY <2>2, <2>5, <2>8 DEF IsActive, NoCommand
  <2>10. \A d \in Elems(g) : d \in reported =>
            \E j \in DOMAIN g : \E i \in 1..j - 1 : g[i] = d /\ g[j] = c
    <3>1. SUFFICES ASSUME NEW p \in DOMAIN g, g[p] \in reported
                   PROVE  \E j \in DOMAIN g : \E i \in 1..j - 1 : g[i] = g[p] /\ g[j] = c
      BY DEF Elems
    <3>2. p \in 1..s - 1
      BY <2>1, <2>7, <3>1
    <3> QED BY <2>1, <3>2
  <2> DEFINE more == [i \in 1..n |-> [cmd |-> c, line |-> a + i]]
  <2>10a. /\ more \in Seq(SentLine) /\ Len(more) = n /\ sent' = sent \o more
          /\ \A i \in 1..n : more[i] = [cmd |-> c, line |-> a + i]
    <3>1. \A i \in 1..n : [cmd |-> c, line |-> a + i] \in SentLine
      BY <2>1, <2>2 DEF SentLine
    <3>2. more \in [1..n -> SentLine]
      BY <3>1
    <3>3. sent' = sent \o more /\ \A i \in 1..n : more[i] = [cmd |-> c, line |-> a + i]
      BY <2>3
    <3> HIDE DEF more
    <3>4. more \in Seq(SentLine) /\ Len(more) = n
      BY <2>2, <3>2, Listed
    <3> QED BY <3>3, <3>4
  <2> HIDE DEF more
  <2>11. sent' \in Seq(SentLine)
    BY <1>2, <2>10a, Joined DEF UnitTypes
  <2>12. UnitTypes'
    BY <1>1, <1>2, <2>1, <2>3, <2>8, <2>11 DEF UnitTypes
  <2>13. InLine' /\ \A v \in Unit : v # u => Taken(v)' = Taken(v)
    <3>1. IsActive(active'[u]) =>
              /\ Taken(u)' > 0 /\ active'[u].cmd = given[u][Taken(u)']
              /\ active'[u].next < Len(Keys[active'[u].cmd])
      <4>1. SUFFICES ASSUME ~over
                     PROVE  s > 0 /\ active'[u].cmd = g[s] /\ active'[u].next < Len(Keys[active'[u].cmd])
        BY <2>9 DEF s, g
      <4>2. active'[u] = keep
        BY <2>8, <4>1
      <4>3. s > 0
        BY <2>1, <2>7
      <4>4. after < Len(Keys[c])
        BY <2>2, <2>4, <4>1
      <4> QED BY <2>1, <2>5, <4>2, <4>3, <4>4
    <3> QED BY <2>8, <3>1, OthersInLine
  <2>14. Reported'
    <3>1. \A d \in reported' : d \in Elems(given'[d.unit])
      BY <1>1, <1>2, <2>1, <2>3 DEF Reported, Elems, g
    <3>2. ASSUME NEW v \in Unit, v # u, NEW p \in DOMAIN given'[v]
          PROVE  given'[v][p] \in reported' <=> p < Taken(v)' \/ (p = Taken(v)' /\ ~IsActive(active'[v]))
      <4>1. given[v][p] # c
        BY <1>1, <1>2, <2>1, <3>2 DEF InLine, Elems
      <4>2. given[v][p] \in reported <=> p < Taken(v) \/ (p = Taken(v) /\ ~IsActive(active[v]))
        BY <1>1, <1>2, <3>2 DEF Reported
      <4> QED BY <1>1, <2>3, <2>8, <2>13, <3>2, <4>1, <4>2
    <3>3. ASSUME NEW p \in DOMAIN g
          PROVE  g[p] \in reported' <=> p < s \/ (p = s /\ ~IsActive(active'[u]))
      <4>1. g[p] = c <=> p = s
        BY <2>1, <2>7 DEF Distinct
      <4>2. g[p] \in reported <=> p < s
        BY <2>1
      <4> QED BY <2>3, <2>9, <4>1, <4>2
    <3>4. \A p \in DOMAIN given'[u] :
              given'[u][p] \in reported' <=> p < Taken(u)' \/ (p = Taken(u)' /\ ~IsActive(active'[u]))
      BY <1>1, <3>3 DEF g, s
    <3> QED BY <3>1, <3>2, <3>4 DEF Reported
  <2>15. \A d \in Command : Count(d)' = IF d = c THEN after ELSE Count(d)
    <3>1. c \notin reported
      BY <2>1, <2>7
    <3>2. ASSUME NEW d \in Command, d = c PROVE Count(d)' = after
      <4>1. CASE over
        BY <2>3, <2>4, <3>2, <4>1 DEF Count
      <4>2. CASE ~over
        BY <2>1, <2>3, <2>5, <2>8, <3>1, <3>2, <4>2 DEF Count
      <4> QED BY <4>1, <4>2
    <3>3. ASSUME NEW d \in Command, d # c PROVE Count(d)' = Count(d)
      <4>1. d.unit \in Unit /\ d # <<>> /\ (d \in reported' <=> d \in reported)
        BY <2>3, <3>3, CommandFacts
      <4>2. CASE d.unit = u
        <5>1. active[u].cmd # d
          BY <2>1, <3>3, <4>1 DEF IsActive
        <5>2. active'[u].cmd # d
          BY <2>5, <2>8, <3>3, <4>1 DEF NoCommand
        <5> QED BY <4>1, <4>2, <5>1, <5>2 DEF Count
      <4>3. CASE d.unit # u
        BY <2>8, <4>1, <4>3 DEF Count
      <4> QED BY <4>2, <4>3
    <3> QED BY <3>2, <3>3
  <2>16. SentLines'
    <3> DEFINE q == sent'
    <3>1. /\ Elems(sent) \subseteq Elems(q)
          /\ \A i \in 1..n : [cmd |-> c, line |-> a + i] \in Elems(q)
          /\ \A e \in Elems(q) : e \notin Elems(sent) => \E i \in 1..n : e = [cmd |-> c, line |-> a + i]
          /\ \A j \in DOMAIN q : \A i \in 1..j - 1 :
                q[i].cmd.unit = q[j].cmd.unit => Earlier(q[i], q[j])
      <4>1. active[c.unit].cmd \in {c, <<>>}
        BY <2>1 DEF IsActive
      <4>2. \A d \in Elems(given[c.unit]) : d \in reported =>
               \E j \in DOMAIN given[c.unit] : \E i \in 1..j - 1 :
                   given[c.unit][i] = d /\ given[c.unit][j] = c
        BY <2>1, <2>10 DEF g
      <4>3. c \in Command /\ Count(c) = a /\ Count(c) \in Nat
        BY <2>1, <2>2
      <4>4. /\ more \in Seq(SentLine) /\ Len(more) = n /\ q = sent \o more
            /\ \A i \in 1..Len(more) : more[i] = [cmd |-> c, line |-> Count(c) + i]
        BY <2>10a, <4>3
      <4> HIDE DEF q
      <4>5. /\ Elems(sent) \subseteq Elems(sent \o more)
            /\ \A i \in 1..Len(more) : [cmd |-> c, line |-> Count(c) + i] \in Elems(sent \o more)
            /\ \A e \in Elems(sent \o more) : e \notin Elems(sent) =>
                  \E i \in 1..Len(more) : e = [cmd |-> c, line |-> Count(c) + i]
            /\ \A j \in DOMAIN (sent \o more) : \A i \in 1..j - 1 :
                  (sent \o more)[i].cmd.unit = (sent \o more)[j].cmd.unit =>
                      Earlier((sent \o more)[i], (sent \o more)[j])
        BY <4>1, <4>2, <4>3, <4>4, SentKeeps
      <4> QED BY <4>3, <4>4, <4>5
    <3>2. \A e \in Elems(sent) : e \in SentLine
      BY <1>2 DEF UnitTypes, Elems
    <3>3. ASSUME NEW e \in Elems(sent') PROVE e.line \in 1..(Count(e.cmd)')
      <4>1. CASE e \in Elems(sent)
        <5>1. e.line \in 1..Count(e.cmd) /\ e.cmd \in Command
          BY <1>2, <3>2, <4>1 DEF SentLines, SentLine
        <5>2. CASE e.cmd = c
          <6>1. e.line \in 1..a /\ Count(e.cmd)' = after
            BY <2>1, <2>15, <5>1, <5>2
          <6> QED BY <2>2, <6>1
        <5>3. CASE e.cmd # c
          BY <2>15, <5>1, <5>3
        <5> QED BY <5>2, <5>3
      <4>2. CASE e \notin Elems(sent)
        <5>1. PICK i \in 1..n : e = [cmd |-> c, line |-> a + i]
          BY <3>1, <4>2
        <5>2. a + i \in 1..after
          BY <2>2
        <5>3. e.cmd = c /\ e.line = a + i
          BY <5>1
        <5> QED BY <2>1, <2>15, <5>2, <5>3
      <4> QED BY <4>1, <4>2
    <3>4. ASSUME NEW d \in Command, NEW i \in 1..Count(d)' PROVE [cmd |-> d, line |-> i] \in Elems(sent')
      <4>1. CASE d # c
        BY <1>2, <2>15, <3>1, <3>4, <4>1 DEF SentLines
      <4>2. CASE d = c
        <5>1. i \in 1..after
          BY <2>15, <3>4, <4>2
        <5>2. CASE i <= a
          <6>1. i \in 1..Count(d)
            BY <2>1, <2>2, <4>2, <5>1, <5>2
          <6> QED BY <1>2, <3>1, <6>1 DEF SentLines
        <5>3. CASE i > a
          <6>1. i - a \in 1..n /\ a + (i - a) = i
            BY <2>2, <5>1, <5>3
          <6> QED BY <3>1, <4>2, <6>1
        <5> QED BY <2>2, <5>1, <5>2, <5>3
      <4> QED BY <4>1, <4>2
    <3>5. \A j \in DOMAIN sent' : \A i \in 1..j - 1 :
              sent'[i].cmd.unit = sent'[j].cmd.unit => Earlier(sent[i], sent[j])'
      BY <1>1, <3>1 DEF Earlier
    <3> QED BY <3>3, <3>4, <3>5 DEF SentLines
  <2>17. Inv'
    BY <1>4, UnitTakes, TakesKeepsPlaces DEF r
  <2> QED BY <2>12, <2>13, <2>14, <2>16, <2>17 DEF UnitInv
<1> QED BY <1>3, <1>4
---------------------------------------------------------------------------
(* Every step keeps both invariants                                        *)

TmaInv == Inv /\ UnitInv

LEMMA UnitsStill ==
    UnitInv /\ UNCHANGED <<settingUp, ready, active, given, sent, reported>> => UnitInv'
<1> SUFFICES ASSUME UnitInv, UNCHANGED <<settingUp, ready, active, given, sent, reported>>
             PROVE  UnitInv'
  OBVIOUS
<1>1. UnitTypes'
  BY DEF UnitInv, UnitTypes
<1>2. \A u \in Unit : Taken(u)' = Taken(u)
  BY DEF Taken
<1>3. InLine'
  BY <1>2 DEF UnitInv, InLine
<1>4. Reported'
  BY <1>2 DEF UnitInv, Reported
<1>5. SentLines'
  BY DEF UnitInv, SentLines, Count, Earlier
<1> QED BY <1>1, <1>3, <1>4, <1>5 DEF UnitInv

LEMMA InitTmaInv == TmaInit => TmaInv
<1> SUFFICES ASSUME TmaInit PROVE UnitInv
  BY InitInv DEF TmaInit, TmaInv
<1> USE DEF TmaInit
<1>1. UnitTypes
  BY DEF UnitTypes
<1>2. \A u \in Unit : Taken(u) = 0 /\ given[u] = <<>> /\ ready[u] = <<>> /\ settingUp[u] = <<>>
  <2>1. \A u \in Unit : given[u] = <<>> /\ ready[u] = <<>> /\ settingUp[u] = <<>>
    OBVIOUS
  <2>2. Len(<<>>) = 0
    OBVIOUS
  <2>3. 0 - 0 - 0 = 0
    OBVIOUS
  <2> QED BY <2>1, <2>2, <2>3 DEF Taken
<1>3. \A u \in Unit : active[u] = NoCommand /\ ~IsActive(active[u])
  BY DEF IsActive, NoCommand
<1>4. InLine
  BY <1>2, <1>3 DEF InLine, Distinct, Elems
<1>5. Reported
  BY <1>2 DEF Reported
<1>6. \A c \in Command : Count(c) = 0
  BY <1>3, CommandFacts DEF Count, NoCommand
<1>7. SentLines
  BY <1>6 DEF SentLines, Elems
<1> QED BY <1>1, <1>4, <1>5, <1>7 DEF UnitInv

LEMMA TmaNextKeeps == TmaInv /\ [TmaNext]_allVars => TmaInv'
<1> SUFFICES ASSUME TmaInv, [TmaNext]_allVars PROVE TmaInv'
  OBVIOUS
<1> USE DEF TmaInv
<1>1. CASE L2Step
  BY <1>1, StepKeeps, UnitsStill DEF L2Step
<1>2. ASSUME NEW u \in Unit, StepUnit(u) PROVE TmaInv'
  BY <1>2, UnitStepKeeps
<1>3. ASSUME NEW c \in Command, GiveCommand(c) PROVE TmaInv'
  <2>1. UNCHANGED vars
    BY <1>3 DEF GiveCommand
  <2> QED BY <1>3, <2>1, GiveKeeps, StutterKeeps
<1>4. ASSUME NEW k \in Key, NEW write \in BOOLEAN, EnqueueSubop(k, write) PROVE TmaInv'
  <2>1. Enqueue(k, write) /\ UNCHANGED tmaVars
    BY <1>4 DEF EnqueueSubop
  <2>2. Cardinality(accepted) \in Nat
    BY FS_CardinalityType DEF Inv, Places
  <2>3. PICK lines : Takes(lines, write)
    BY <2>1, <2>2, EnqueueTakes DEF Inv
  <2> QED BY <2>1, <2>3, TakesKeepsPlaces, UnitsStill DEF tmaVars
<1>5. CASE UNCHANGED allVars
  BY <1>5, StutterKeeps, UnitsStill DEF allVars, tmaVars
<1> QED BY <1>1, <1>2, <1>3, <1>4, <1>5 DEF TmaNext, TmaCycle

LEMMA TmaInvariance == TmaSpec => []TmaInv
BY InitTmaInv, TmaNextKeeps, PTL DEF TmaSpec
---------------------------------------------------------------------------
(* Theorems: the L2 with units in front of it                              *)

\* What a unit hands over in one cycle, many lines at once and as many as there is room
\* for, loses no transaction and leads to no second fetch and no stale one: the L2 keeps
\* its invariants whatever mix of units and sub-ops it serves.
THEOREM UnitsLoseNone == TmaSpec => [](EachInOnePlace /\ OneFetchPerLine /\ NoStaleFill)
<1>1. TmaInv => EachInOnePlace /\ OneFetchPerLine /\ NoStaleFill
  BY EachInOnePlaceHolds, OneFetchHolds DEF TmaInv, Inv, LineInv, DramOrder
<1> QED BY <1>1, TmaInvariance, PTL

\* No dirty line is dropped while units write.
THEOREM UnitsWriteBack == TmaSpec => DirtyLeavesByWriteback
<1>1. TmaInv /\ [TmaNext]_allVars => [\A k \in dirty : k \in dirty' \/ WritebackPending(dram', k)]_vars
  <2> SUFFICES ASSUME TmaInv, [TmaNext]_allVars, UNCHANGED vars \/ ~UNCHANGED vars
               PROVE  UNCHANGED vars \/ \A k \in dirty : k \in dirty' \/ WritebackPending(dram', k)
    OBVIOUS
  <2>1. CASE L2Step
    BY <2>1, StepWritesBack DEF L2Step, TmaInv
  <2>2. CASE ~L2Step
    <3>1. dirty' = dirty
      BY <2>2 DEF TmaNext, TmaCycle, StepUnit, GiveCommand, EnqueueSubop, Enqueue, allVars, vars
    <3> QED BY <3>1
  <2> QED BY <2>1, <2>2
<1> QED BY <1>1, TmaInvariance, PTL DEF TmaSpec, DirtyLeavesByWriteback
---------------------------------------------------------------------------
(* Theorems: the lines that are sent                                       *)

LEMMA EarlierStrict ==
    ASSUME UnitInv, NEW e \in SentLine, NEW f \in SentLine, Earlier(e, f)
    PROVE  ~Earlier(f, e) /\ e # f
<1>1. ASSUME NEW u \in Unit, NEW j \in DOMAIN given[u], NEW i \in 1..j - 1,
             NEW c, NEW d, given[u][i] = c, given[u][j] = d
      PROVE  i \in DOMAIN given[u] /\ i # j /\ i < j /\ c.unit = u /\ d.unit = u /\ c # d
  <2>1. DOMAIN given[u] = 1..Len(given[u]) /\ Distinct(given[u]) /\ \A b \in Elems(given[u]) : b.unit = u
    BY UnitFacts
  <2>2. i \in DOMAIN given[u] /\ i # j /\ i < j
    BY <2>1
  <2> QED BY <1>1, <2>1, <2>2 DEF Distinct, Elems
<1>2. e.line \in Nat /\ f.line \in Nat
  BY DEF SentLine
<1>3. CASE e.cmd = f.cmd
  <2>1. \A u \in Unit : \A j \in DOMAIN given[u] : \A i \in 1..j - 1 :
            given[u][i] = e.cmd => given[u][j] # f.cmd
    BY <1>1, <1>3
  <2>2. e.line < f.line
    BY <2>1 DEF Earlier
  <2>3. ~(f.line < e.line)
    BY <1>2, <2>2
  <2> QED BY <1>2, <1>3, <2>1, <2>2, <2>3 DEF Earlier
<1>4. CASE e.cmd # f.cmd
  <2>1. PICK u \in Unit : \E j \in DOMAIN given[u] : \E i \in 1..j - 1 :
            given[u][i] = e.cmd /\ given[u][j] = f.cmd
    BY <1>4 DEF Earlier
  <2>2. PICK j \in DOMAIN given[u] : \E i \in 1..j - 1 : given[u][i] = e.cmd /\ given[u][j] = f.cmd
    BY <2>1
  <2>3. PICK i \in 1..j - 1 : given[u][i] = e.cmd /\ given[u][j] = f.cmd
    BY <2>2
  <2>4. i \in DOMAIN given[u] /\ i < j /\ f.cmd.unit = u /\ Distinct(given[u])
    BY <1>1, <2>3, UnitFacts
  <2>5. ASSUME NEW v \in Unit, NEW q \in DOMAIN given[v], NEW p \in 1..q - 1,
               given[v][p] = f.cmd, given[v][q] = e.cmd
        PROVE  FALSE
    <3>1. v = u /\ p \in DOMAIN given[v] /\ p < q
      BY <1>1, <2>4, <2>5
    <3>2. p = j /\ q = i
      BY <2>3, <2>4, <2>5, <3>1 DEF Distinct
    <3>3. DOMAIN given[u] = 1..Len(given[u])
      BY UnitFacts
    <3> QED BY <2>4, <3>1, <3>2, <3>3
  <2> QED BY <1>4, <2>5 DEF Earlier
<1> QED BY <1>3, <1>4

\* A command that has sent something is the active one or ahead of it.
LEMMA SentAhead ==
    ASSUME UnitInv, NEW c \in Command, Count(c) # 0,
           NEW p \in DOMAIN given[c.unit], given[c.unit][p] = c
    PROVE  \A i \in 1..p - 1 : given[c.unit][i] \in reported
<1> DEFINE u == c.unit  g == given[u]  t == Taken(u)
<1>1. u \in Unit /\ c # <<>>
  BY CommandFacts
<1>2. t \in Int /\ DOMAIN g = 1..Len(g) /\ Len(g) \in Nat /\ Distinct(g)
  BY <1>1, UnitFacts
<1>3. \A q \in DOMAIN g : g[q] \in reported <=> q < t \/ (q = t /\ ~IsActive(active[u]))
  BY <1>1 DEF UnitInv, Reported
<1>4. active[u].cmd = c => t > 0 /\ c = g[t]
  BY <1>1 DEF UnitInv, InLine, IsActive
<1>5. c \in reported \/ active[u].cmd = c
  BY DEF Count
<1>6. t \in DOMAIN g \/ t = 0
  BY <1>1, <1>2, UnitFacts
<1> HIDE DEF t, g
<1>7. p \in 1..Len(g) /\ g[p] = c
  BY <1>2 DEF g
<1>8. p <= t
  <2>1. CASE c \in reported
    BY <1>2, <1>3, <1>7, <2>1
  <2>2. CASE active[u].cmd = c
    <3>1. t \in DOMAIN g /\ g[t] = g[p]
      BY <1>2, <1>4, <1>6, <1>7, <2>2
    <3>2. t = p
      BY <1>2, <1>7, <3>1 DEF Distinct
    <3> QED BY <1>2, <3>2
  <2> QED BY <1>5, <2>1, <2>2
<1>9. \A i \in 1..p - 1 : i \in DOMAIN g /\ i < t
  BY <1>2, <1>7, <1>8
<1> QED BY <1>3, <1>9 DEF g

LEMMA CountType ==
    ASSUME UnitInv, NEW c \in Command PROVE Count(c) \in Nat
<1>1. c.unit \in Unit /\ Len(Keys[c]) \in Nat
  BY CommandFacts
<1>2. active[c.unit] \in Active \union {NoCommand}
  BY <1>1, UnitFacts
<1>3. active[c.unit].next \in Nat
  BY <1>2 DEF Active, NoCommand
<1> QED BY <1>1, <1>3 DEF Count

\* What comes before a line that was sent has been sent.
LEMMA EarlierSent ==
    ASSUME UnitInv, NEW j \in DOMAIN sent, NEW c \in Elems(given[sent[j].cmd.unit]),
           NEW n \in DOMAIN Keys[c], Earlier([cmd |-> c, line |-> n], sent[j])
    PROVE  \E i \in 1..j - 1 : sent[i] = [cmd |-> c, line |-> n]
<1> DEFINE e == [cmd |-> c, line |-> n]  f == sent[j]  u == f.cmd.unit
<1>1. SentLines /\ sent \in Seq(SentLine) /\ DOMAIN sent = 1..Len(sent) /\ Len(sent) \in Nat
  BY DEF UnitInv, UnitTypes
<1>2. f \in SentLine /\ f \in Elems(sent) /\ f.cmd \in Command
  <2>1. f \in Elems(sent)
    BY DEF Elems
  <2>2. f \in SentLine
    BY <1>1
  <2> QED BY <2>1, <2>2 DEF SentLine
<1>3. u \in Unit /\ given[u] \in Seq(Command) /\ \A d \in Elems(given[u]) : d.unit = u
  BY <1>2, CommandFacts, UnitFacts
<1>4. c \in Command /\ c.unit = u
  BY <1>3 DEF Elems
<1>5. Keys[c] \in Seq(Key) /\ Len(Keys[c]) \in Nat
  BY <1>4, CommandFacts
<1>6. n \in 1..Len(Keys[c]) /\ e \in SentLine /\ e.cmd = c /\ e.line = n
  <2> DEFINE k == Keys[c]
  <2>1. k \in Seq(Key)
    BY <1>5
  <2> HIDE DEF k
  <2>2. DOMAIN k = 1..Len(k)
    BY <2>1
  <2>3. n \in 1..Len(Keys[c])
    BY <2>2 DEF k
  <2> QED BY <1>4, <1>5, <2>3 DEF SentLine
<1>7. f.line \in 1..Count(f.cmd)
  BY <1>1, <1>2 DEF SentLines
<1>8. Earlier(e, f)
  OBVIOUS
<1> HIDE DEF e, f, u
<1>9. n \in 1..Count(c)
  <2>1. CASE c = f.cmd
    <3>1. ~ \E v \in Unit : \E q \in DOMAIN given[v] : \E p \in 1..q - 1 :
              given[v][p] = c /\ given[v][q] = c
      <4>1. SUFFICES ASSUME NEW v \in Unit, NEW q \in DOMAIN given[v], NEW p \in 1..q - 1,
                            given[v][p] = c, given[v][q] = c
                     PROVE  FALSE
        OBVIOUS
      <4>2. DOMAIN given[v] = 1..Len(given[v]) /\ Distinct(given[v])
        BY UnitFacts
      <4>3. p \in DOMAIN given[v] /\ p # q
        BY <4>2
      <4> QED BY <4>1, <4>2, <4>3 DEF Distinct
    <3>2. n < f.line
      BY <1>6, <1>8, <2>1, <3>1 DEF Earlier
    <3>3. f.line \in 1..Count(c) /\ n \in Nat /\ n >= 1
      BY <1>6, <1>7, <2>1
    <3>4. Count(c) \in Int
      BY <1>4, CountType
    <3> QED BY <3>2, <3>3, <3>4
  <2>2. CASE c # f.cmd
    <3>1. PICK v \in Unit : \E q \in DOMAIN given[v] : \E p \in 1..q - 1 :
              given[v][p] = c /\ given[v][q] = f.cmd
      BY <1>6, <1>8, <2>2 DEF Earlier
    <3>2. PICK q \in DOMAIN given[v] : \E p \in 1..q - 1 : given[v][p] = c /\ given[v][q] = f.cmd
      BY <3>1
    <3>3. PICK p \in 1..q - 1 : given[v][p] = c /\ given[v][q] = f.cmd
      BY <3>2
    <3>4. f.cmd.unit = v
      <4>1. f.cmd \in Elems(given[v])
        BY <3>3 DEF Elems
      <4> QED BY <4>1, UnitFacts
    <3>5. Count(f.cmd) # 0
      BY <1>7
    <3>6. c \in reported
      BY <1>2, <3>3, <3>4, <3>5, SentAhead
    <3>7. Count(c) = Len(Keys[c])
      BY <3>6 DEF Count
    <3> QED BY <1>6, <3>7
  <2> QED BY <2>1, <2>2
<1>10. e \in Elems(sent)
  BY <1>1, <1>4, <1>9 DEF SentLines, e
<1>11. PICK i \in DOMAIN sent : sent[i] = e
  BY <1>10 DEF Elems
<1>12. i # j /\ ~(j < i)
  <2>1. e # f /\ ~Earlier(f, e)
    BY <1>2, <1>6, <1>8, EarlierStrict
  <2>2. i # j
    BY <1>11, <2>1 DEF f
  <2>3. ASSUME j < i PROVE FALSE
    <3>1. j \in 1..i - 1
      BY <1>1, <2>3
    <3>2. sent[j].cmd.unit = sent[i].cmd.unit
      BY <1>4, <1>6, <1>11 DEF f, u
    <3>3. Earlier(sent[j], sent[i])
      BY <1>1, <3>1, <3>2 DEF SentLines
    <3> QED BY <1>11, <2>1, <3>3 DEF f
  <2> QED BY <2>2, <2>3
<1>13. i \in 1..j - 1
  BY <1>1, <1>12
<1> QED BY <1>11, <1>13 DEF e

LEMMA ReportedSent ==
    ASSUME UnitInv
    PROVE  reported = {c \in Command : LinesOf(c) \subseteq Elems(sent)}
<1>1. SentLines /\ reported \subseteq Command
  BY DEF UnitInv, UnitTypes
<1>2. ASSUME NEW c \in Command PROVE DOMAIN Keys[c] = 1..Len(Keys[c]) /\ Len(Keys[c]) \in Nat \ {0}
  <2> DEFINE k == Keys[c]
  <2>1. k \in Seq(Key) /\ Len(k) \in Nat \ {0}
    BY CommandFacts
  <2> HIDE DEF k
  <2>2. DOMAIN k = 1..Len(k)
    BY <2>1
  <2> QED BY <2>1, <2>2 DEF k
<1>3. ASSUME NEW c \in reported PROVE LinesOf(c) \subseteq Elems(sent)
  <2>1. c \in Command /\ Count(c) = Len(Keys[c])
    BY <1>1 DEF Count
  <2>2. ASSUME NEW n \in DOMAIN Keys[c] PROVE [cmd |-> c, line |-> n] \in Elems(sent)
    <3>1. n \in 1..Count(c)
      BY <1>2, <2>1
    <3> QED BY <1>1, <2>1, <3>1 DEF SentLines
  <2> QED BY <2>2 DEF LinesOf
<1>4. ASSUME NEW c \in Command, c \notin reported PROVE ~(LinesOf(c) \subseteq Elems(sent))
  <2> DEFINE n == Len(Keys[c])  e == [cmd |-> c, line |-> n]
  <2>1. n \in Nat \ {0} /\ n \in DOMAIN Keys[c]
    BY <1>2
  <2>2. Count(c) < n
    <3>1. c.unit \in Unit /\ c # <<>>
      BY CommandFacts
    <3>2. CASE active[c.unit].cmd = c
      BY <1>4, <3>1, <3>2 DEF Count, UnitInv, InLine, IsActive
    <3>3. CASE active[c.unit].cmd # c
      <4>1. Count(c) = 0
        BY <1>4, <3>3 DEF Count
      <4> HIDE DEF n
      <4> QED BY <2>1, <4>1
    <3> QED BY <3>2, <3>3
  <2>3. e \in LinesOf(c) /\ e.cmd = c /\ e.line = n
    BY <2>1 DEF LinesOf
  <2> HIDE DEF e, n
  <2>4. e \notin Elems(sent)
    <3>1. SUFFICES ASSUME e \in Elems(sent) PROVE FALSE
      OBVIOUS
    <3>2. n \in 1..Count(c)
      BY <1>1, <2>3, <3>1 DEF SentLines
    <3> QED BY <2>1, <2>2, <3>2, CountType
  <2> QED BY <2>3, <2>4
<1> QED BY <1>1, <1>3, <1>4

LEMMA SentInOrderHolds == UnitInv => SentInOrder
<1> SUFFICES ASSUME UnitInv PROVE SentInOrder
  OBVIOUS
<1>1. \A j \in DOMAIN sent : \A i \in 1..j - 1 :
          sent[i].cmd.unit = sent[j].cmd.unit => Earlier(sent[i], sent[j])
  BY DEF UnitInv, SentLines
<1>2. ASSUME NEW j \in DOMAIN sent, NEW c \in Elems(given[sent[j].cmd.unit]), NEW e \in LinesOf(c),
             Earlier(e, sent[j])
      PROVE  \E i \in 1..j - 1 : sent[i] = e
  <2>1. PICK n \in DOMAIN Keys[c] : e = [cmd |-> c, line |-> n]
    BY DEF LinesOf
  <2>2. Earlier([cmd |-> c, line |-> n], sent[j])
    BY <1>2, <2>1
  <2>3. \E i \in 1..j - 1 : sent[i] = [cmd |-> c, line |-> n]
    BY <2>2, EarlierSent
  <2> QED BY <2>1, <2>3
<1>3. reported = {c \in Command : LinesOf(c) \subseteq Elems(sent)}
  BY ReportedSent
<1> QED BY <1>1, <1>2, <1>3 DEF SentInOrder

\* Whatever the L2 refuses and whichever set-up is over first, each unit sends the lines of
\* its commands once, in the order it was given the commands, and reports a command as
\* issued exactly when its last line has been taken.
THEOREM LinesInOrder == TmaSpec => []SentInOrder
<1>1. TmaInv => SentInOrder
  BY SentInOrderHolds DEF TmaInv
<1> QED BY <1>1, TmaInvariance, PTL

\* No line is sent twice.
LEMMA SentOnce ==
    ASSUME UnitInv, NEW i \in DOMAIN sent, NEW j \in DOMAIN sent, sent[i] = sent[j] PROVE i = j
<1>1. sent \in Seq(SentLine) /\ DOMAIN sent = 1..Len(sent) /\ Len(sent) \in Nat /\ SentLines
  BY DEF UnitInv, UnitTypes
<1>2. ASSUME NEW p \in DOMAIN sent, NEW q \in DOMAIN sent, p < q PROVE sent[p] # sent[q]
  <2>1. p \in 1..q - 1 /\ sent[p] \in SentLine /\ sent[q] \in SentLine
    BY <1>1, <1>2
  <2>2. sent[p].cmd.unit = sent[q].cmd.unit => Earlier(sent[p], sent[q])
    BY <1>1, <2>1 DEF SentLines
  <2>3. Earlier(sent[p], sent[q]) => sent[p] # sent[q]
    BY <2>1, EarlierStrict
  <2> QED BY <2>2, <2>3
<1>3. ~(i < j) /\ ~(j < i)
  BY <1>2
<1> QED BY <1>1, <1>3

LEMMA AllCounted ==
    ASSUME UnitInv, NEW c \in reported
    PROVE  Cardinality({i \in DOMAIN sent : sent[i].cmd = c}) = Len(Keys[c])
<1> DEFINE T == {i \in DOMAIN sent : sent[i].cmd = c}  n == Len(Keys[c])
           f == [k \in 1..n |-> CHOOSE i \in T : sent[i].line = k]
<1>1. /\ sent \in Seq(SentLine) /\ SentLines /\ c \in Command /\ Count(c) = n /\ n \in Nat
  BY CommandFacts DEF UnitInv, UnitTypes, Count
<1>2. ASSUME NEW k \in 1..n PROVE f[k] \in T /\ sent[f[k]].line = k
  <2>1. [cmd |-> c, line |-> k] \in Elems(sent)
    BY <1>1 DEF SentLines
  <2>2. PICK i \in DOMAIN sent : sent[i] = [cmd |-> c, line |-> k]
    BY <2>1 DEF Elems
  <2>3. i \in T /\ sent[i].line = k
    BY <2>2
  <2> HIDE DEF T
  <2> QED BY <2>3
<1>3. f \in [1..n -> T]
  <2>1. f = [k \in 1..n |-> f[k]]
    OBVIOUS
  <2> HIDE DEF f, T, n
  <2> QED BY <1>2, <2>1
<1>4. ASSUME NEW i \in T PROVE sent[i].line \in 1..n /\ f[sent[i].line] = i
  <2>1. i \in DOMAIN sent /\ sent[i].cmd = c /\ sent[i] \in Elems(sent) /\ sent[i] \in SentLine
    BY <1>1 DEF Elems
  <2>2. sent[i].line \in 1..n
    BY <1>1, <2>1 DEF SentLines
  <2> DEFINE j == f[sent[i].line]
  <2>3. j \in T /\ sent[j].line = sent[i].line
    BY <1>2, <2>2
  <2>4. j \in DOMAIN sent /\ sent[j].cmd = c /\ sent[j] \in SentLine
    BY <1>1, <2>3
  <2> HIDE DEF j
  <2>5. sent[i] = sent[j]
    BY <2>1, <2>3, <2>4 DEF SentLine
  <2>6. j = i
    BY <2>1, <2>4, <2>5, SentOnce
  <2> QED BY <2>2, <2>6 DEF j
<1> HIDE DEF f, T, n
<1>5. IsInjective(f)
  BY <1>2, <1>3 DEF IsInjective
<1>6. \A i \in T : \E k \in 1..n : f[k] = i
  BY <1>4
<1>7. ExistsBijection(1..n, T)
  BY <1>3, <1>5, <1>6 DEF ExistsBijection, Bijection, Injection, Surjection
<1>8. IsFiniteSet(1..n) /\ Cardinality(1..n) = n
  BY <1>1, FS_Interval
<1> QED BY <1>7, <1>8, FS_Bijection DEF T, n

\* The transactions that issue_node puts on record for a TMA node are those its unit sends,
\* if the record counts the lines of each tile.
THEOREM SendsAsRecorded == ASSUME TilesExact PROVE TmaSpec => []TransactionsExact
<1>1. TmaInv => TransactionsExact
  <2>1. SUFFICES ASSUME TmaInv, NEW c \in reported
                 PROVE  Cardinality({i \in DOMAIN sent : sent[i].cmd = c}) = TotalTransactions(c.tile)
    BY DEF TransactionsExact
  <2>2. c \in Command /\ c.tile \in Tiles
    BY <2>1, TmaAssumption DEF TmaInv, UnitInv, UnitTypes
  <2>3. Keys[c] = TmaLines(c.tile)
    BY <2>2 DEF Keys
  <2>4. Len(TmaLines(c.tile)) = TotalTransactions(c.tile)
    BY <2>2 DEF TilesExact, SendsMatchRecord
  <2> QED BY <2>1, <2>3, <2>4, AllCounted DEF TmaInv
<1> QED BY <1>1, TmaInvariance, PTL
=============================================================================
