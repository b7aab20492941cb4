--------------------------- MODULE Residency_proofs ---------------------------
(***************************************************************************)
(* Proofs about Residency, for every number of blocks and places and every *)
(* delay: a place is taken or has its delay on record, and no place stays  *)
(* empty after its delay while blocks wait.                                *)
(***************************************************************************)
EXTENDS Residency, FiniteSetTheorems, SequenceTheorems, TLAPS

\* The blocks that wait are the last ones, in order, and as long as some wait
\* all max_resident_tbs places exist.
WaitingIsTail ==
    /\ Len(waiting) <= NumTBs - Slots
    /\ \A i \in 1..Len(waiting) : waiting[i] = NumTBs - Len(waiting) + i
    /\ resident \subseteq 1..(NumTBs - Len(waiting))

\* The delays on record are in the order they end, and none was pushed later
\* than one that a block retiring now would push.
Sorted(s) == \A i, j \in 1..Len(s) : i <= j => s[i] <= s[j]
DelaysInOrder ==
    /\ Sorted(ready)
    /\ \A i \in 1..Len(ready) : ready[i] <= FreeFrom

IInv == TypeOK /\ WaitingIsTail /\ DelaysInOrder /\ PlacesConserved /\ NoPlaceIdle
-----------------------------------------------------------------------------
\* Slots is the smaller of the blocks and the places.
LEMMA SlotsBounds ==
    Slots \in Nat /\ Slots <= NumTBs /\ Slots <= MaxResident /\ NumTBs - Slots \in Nat
        /\ (Slots < NumTBs => Slots = MaxResident)
BY ResidencyAssumption DEF Slots

\* A delay ends now or later.
LEMMA FreeFromLater ==
    ASSUME TypeOK PROVE FreeFrom \in Nat /\ FreeFrom >= cycle
BY ResidencyAssumption DEF TypeOK, FreeFrom

\* The places are all taken in the first cycle, in the order of the ids.
LEMMA InitIInv == Init => IInv
<1> SUFFICES ASSUME Init PROVE IInv
  OBVIOUS
<1>1. /\ cycle = 1 /\ complete = {} /\ resident = 1..Slots /\ ready = <<>>
      /\ waiting = [i \in 1..(NumTBs - Slots) |-> Slots + i]
  BY DEF Init
<1>2. Slots \in Nat /\ Slots <= NumTBs /\ NumTBs - Slots \in Nat /\ NumTBs \in Nat
  BY SlotsBounds, ResidencyAssumption
<1>3. \A i \in 1..(NumTBs - Slots) : Slots + i \in TB
  BY <1>2 DEF TB
<1>4. waiting \in Seq(TB) /\ Len(waiting) = NumTBs - Slots
  <2> DEFINE m == NumTBs - Slots
  <2>1. waiting \in [1..m -> TB] /\ m \in Nat
    BY <1>1, <1>2, <1>3
  <2> HIDE DEF m
  <2>2. waiting \in Seq(TB) /\ DOMAIN waiting = 1..m
    BY <2>1
  <2>3. Len(waiting) = m
    BY <2>1, <2>2, LenProperties
  <2> QED BY <2>2, <2>3 DEF m
<1>5. TypeOK
  <2>1. resident \subseteq TB
    BY <1>1, <1>2 DEF TB
  <2>2. ready \in Seq(Nat)
    BY <1>1, EmptySeq
  <2> QED BY <1>1, <1>4, <2>1, <2>2 DEF TypeOK
<1>6. WaitingIsTail
  <2>1. NumTBs - Len(waiting) = Slots
    BY <1>2, <1>4
  <2>2. \A i \in 1..Len(waiting) : waiting[i] = NumTBs - Len(waiting) + i
    BY <1>1, <1>4, <2>1
  <2>3. resident \subseteq 1..(NumTBs - Len(waiting))
    BY <1>1, <2>1
  <2> QED BY <1>4, <1>2, <2>2, <2>3 DEF WaitingIsTail
<1>7. Len(ready) = 0 /\ DOMAIN ready = {}
  BY <1>1
<1>8. DelaysInOrder /\ NoPlaceIdle
  BY <1>7 DEF DelaysInOrder, Sorted, NoPlaceIdle
<1>9. PlacesConserved
  <2>1. Cardinality(1..Slots) = Slots
    BY <1>2, FS_Interval
  <2> QED BY <2>1, <1>1, <1>7, <1>2 DEF PlacesConserved
<1> QED BY <1>5, <1>6, <1>8, <1>9 DEF IInv

\* A block that completes keeps its place until the end of the cycle.
LEMMA FinishKeeps ==
    ASSUME IInv, NEW t \in TB, Finish(t)
    PROVE  IInv'
<1>1. UNCHANGED <<cycle, resident, waiting, ready>> /\ complete' = complete \union {t}
  BY DEF Finish
<1>2. TypeOK'
  BY <1>1 DEF IInv, TypeOK
<1> QED BY <1>1, <1>2 DEF IInv, WaitingIsTail, DelaysInOrder, FreeFrom,
                          PlacesConserved, NoPlaceIdle

\* The delays on record once the blocks that are complete have left: still in
\* order, and one more for each of the n blocks.
LEMMA PushedKeeps ==
    ASSUME IInv, NEW n \in Nat
    PROVE  LET r == ready \o Pushed(n)
           IN  /\ r \in Seq(Nat)
               /\ Len(r) = Len(ready) + n
               /\ Sorted(r)
               /\ \A i \in 1..Len(r) : r[i] \in Nat /\ r[i] <= FreeFrom
<1> DEFINE p == Pushed(n)
           r == ready \o p
<1>1. FreeFrom \in Nat
  BY FreeFromLater DEF IInv
<1>2. p \in [1..n -> Nat] /\ \A i \in 1..n : p[i] = FreeFrom
  BY <1>1 DEF Pushed
<1>3. p \in Seq(Nat) /\ Len(p) = n
  BY <1>2
<1>4. ready \in Seq(Nat) /\ Len(ready) \in Nat
  BY DEF IInv, TypeOK
<1>5. Sorted(ready) /\ \A i \in 1..Len(ready) : ready[i] <= FreeFrom
  BY DEF IInv, DelaysInOrder
<1> HIDE DEF p
<1>6. /\ r \in Seq(Nat)
      /\ Len(r) = Len(ready) + n
      /\ \A i \in 1..(Len(ready) + n) :
            r[i] = IF i <= Len(ready) THEN ready[i] ELSE p[i - Len(ready)]
  BY <1>3, <1>4, ConcatProperties
<1> HIDE DEF r
<1>7. \A i \in 1..Len(r) : r[i] \in Nat
  BY <1>6, ElementOfSeq
<1>8. \A i \in 1..Len(r) : i > Len(ready) => r[i] = FreeFrom
  <2> SUFFICES ASSUME NEW i \in 1..Len(r), i > Len(ready) PROVE r[i] = FreeFrom
    OBVIOUS
  <2>1. i - Len(ready) \in 1..n
    BY <1>4, <1>6
  <2>2. ~(i <= Len(ready))
    BY <1>4
  <2> QED BY <2>1, <2>2, <1>2, <1>6
<1>9. \A i \in 1..Len(r) : i <= Len(ready) => i \in 1..Len(ready) /\ r[i] = ready[i]
  BY <1>4, <1>6
<1>10. \A i \in 1..Len(r) : r[i] <= FreeFrom
  BY <1>1, <1>4, <1>5, <1>8, <1>9
<1>11. Sorted(r)
  <2> SUFFICES ASSUME NEW i \in 1..Len(r), NEW j \in 1..Len(r), i <= j
               PROVE  r[i] <= r[j]
    BY DEF Sorted
  <2>1. CASE j <= Len(ready)
    <3>1. i <= Len(ready)
      BY <2>1, <1>4, <1>6
    <3> QED BY <2>1, <3>1, <1>9, <1>5 DEF Sorted
  <2>2. CASE ~(j <= Len(ready))
    <3>1. r[j] = FreeFrom
      BY <2>2, <1>8, <1>4, <1>6
    <3> QED BY <3>1, <1>10
  <2> QED BY <2>1, <2>2
<1> QED BY <1>6, <1>7, <1>10, <1>11 DEF r, p

\* The number k of blocks that enter never exceeds the delays on record, because
\* the free places are exactly the ones with a delay as long as blocks wait.
LEMMA EnteringBounded ==
    ASSUME NEW r \in Seq(Nat), NEW free \in Int, NEW k \in 0..Len(waiting),
           waiting \in Seq(TB), 0 <= free, waiting # <<>> => free = Len(r),
           \A j \in 0..(k - 1) : ~Stops(j, r, free)
    PROVE  k <= Len(r) /\ k <= free
<1>1. Len(r) \in Nat /\ Len(waiting) \in Nat
  OBVIOUS
<1>2. ~(free \in 0..(k - 1))
  BY DEF Stops
<1>3. k <= free
  BY <1>1, <1>2
<1>4. CASE waiting = <<>>
  BY <1>1, <1>3, <1>4
<1>5. CASE waiting # <<>>
  BY <1>3, <1>5
<1> QED BY <1>4, <1>5

\* The end of a cycle: blocks leave, places free up in order, blocks enter.
LEMMA EndOfCycleKeeps ==
    ASSUME IInv, EndOfCycle
    PROVE  IInv'
<1> DEFINE done == resident \intersect complete
           staying == resident \ complete
           n == Cardinality(done)
           r == ready \o Pushed(n)
           free == MaxResident - Cardinality(staying)
<1>1. PICK k \in 0..Len(waiting) :
          /\ Stops(k, r, free)
          /\ \A j \in 0..(k - 1) : ~Stops(j, r, free)
          /\ resident' = staying \union {waiting[i] : i \in 1..k}
          /\ waiting' = SubSeq(waiting, k + 1, Len(waiting))
          /\ ready' = SubSeq(r, k + 1, Len(r))
          /\ cycle' = cycle + 1
          /\ UNCHANGED complete
  BY DEF EndOfCycle
<1> DEFINE entering == {waiting[i] : i \in 1..k}
<1>2. /\ cycle \in Nat /\ complete \subseteq TB /\ resident \subseteq TB
      /\ waiting \in Seq(TB) /\ Len(waiting) \in Nat
      /\ ready \in Seq(Nat) /\ Len(ready) \in Nat
  BY DEF IInv, TypeOK
<1>3. IsFiniteSet(resident)
  <2>1. IsFiniteSet(TB)
    BY ResidencyAssumption, FS_Interval DEF TB
  <2> QED BY <2>1, <1>2, FS_Subset
<1>4. /\ n \in Nat /\ Cardinality(staying) \in Nat /\ Cardinality(resident) \in Nat
      /\ IsFiniteSet(staying) /\ Cardinality(staying) = Cardinality(resident) - n
  BY <1>3, FS_Intersection, FS_Difference, FS_CardinalityType
<1>5. /\ r \in Seq(Nat) /\ Len(r) = Len(ready) + n /\ Sorted(r)
      /\ \A i \in 1..Len(r) : r[i] \in Nat /\ r[i] <= FreeFrom
  BY <1>4, PushedKeeps
<1>6. Cardinality(resident) + Len(ready) = Slots
  BY DEF IInv, PlacesConserved
<1>7. Cardinality(staying) + Len(r) = Slots
  BY <1>2, <1>4, <1>5, <1>6
<1>8. waiting # <<>> => free = Len(r)
  <2>1. waiting # <<>> => Len(waiting) > 0
    BY <1>2
  <2>2. Len(waiting) > 0 => Slots = MaxResident
    BY <1>2, SlotsBounds, ResidencyAssumption DEF IInv, WaitingIsTail
  <2> QED BY <2>1, <2>2, <1>4, <1>5, <1>7, ResidencyAssumption
<1>9. free \in Int /\ 0 <= free
  BY <1>4, <1>5, <1>7, SlotsBounds, ResidencyAssumption
<1>10. k <= Len(r) /\ k <= free
  <2> HIDE DEF r, free
  <2> QED BY <1>1, <1>2, <1>5, <1>8, <1>9, EnteringBounded
<1>11. k \in Nat /\ k <= Len(waiting)
  BY <1>2
<1> HIDE DEF done, staying, n, r, free
<1>12. /\ waiting' \in Seq(TB) /\ Len(waiting') = Len(waiting) - k
       /\ \A i \in 1..Len(waiting') : waiting'[i] = waiting[k + i]
  <2>1. \A i \in (k + 1)..Len(waiting) : waiting[i] \in TB
    BY <1>2, <1>11, ElementOfSeq
  <2>2. /\ SubSeq(waiting, k + 1, Len(waiting)) \in Seq(TB)
        /\ Len(SubSeq(waiting, k + 1, Len(waiting)))
              = IF k + 1 <= Len(waiting) THEN Len(waiting) - (k + 1) + 1 ELSE 0
        /\ \A i \in 1..(Len(waiting) - (k + 1) + 1) :
              SubSeq(waiting, k + 1, Len(waiting))[i] = waiting[k + 1 + i - 1]
    BY <2>1, <1>2, <1>11, SubSeqProperties
  <2>3. Len(waiting') = Len(waiting) - k
    BY <2>2, <1>1, <1>2, <1>11
  <2>4. \A i \in 1..Len(waiting') : waiting'[i] = waiting[k + i]
    <3> SUFFICES ASSUME NEW i \in 1..Len(waiting') PROVE waiting'[i] = waiting[k + i]
      OBVIOUS
    <3>1. i \in 1..(Len(waiting) - (k + 1) + 1) /\ k + 1 + i - 1 = k + i
      BY <2>3, <1>2, <1>11
    <3> QED BY <3>1, <2>2, <1>1
  <2> QED BY <1>1, <2>2, <2>3, <2>4
<1>13. /\ ready' \in Seq(Nat) /\ Len(ready') = Len(r) - k
       /\ \A i \in 1..Len(ready') : ready'[i] = r[k + i]
  <2>1. \A i \in (k + 1)..Len(r) : r[i] \in Nat
    BY <1>5, <1>11
  <2>2. /\ SubSeq(r, k + 1, Len(r)) \in Seq(Nat)
        /\ Len(SubSeq(r, k + 1, Len(r)))
              = IF k + 1 <= Len(r) THEN Len(r) - (k + 1) + 1 ELSE 0
        /\ \A i \in 1..(Len(r) - (k + 1) + 1) :
              SubSeq(r, k + 1, Len(r))[i] = r[k + 1 + i - 1]
    BY <2>1, <1>5, <1>11, SubSeqProperties
  <2>3. Len(ready') = Len(r) - k
    BY <2>2, <1>1, <1>5, <1>10, <1>11
  <2>4. \A i \in 1..Len(ready') : ready'[i] = r[k + i]
    <3> SUFFICES ASSUME NEW i \in 1..Len(ready') PROVE ready'[i] = r[k + i]
      OBVIOUS
    <3>1. i \in 1..(Len(r) - (k + 1) + 1) /\ k + 1 + i - 1 = k + i
      BY <2>3, <1>5, <1>11
    <3> QED BY <3>1, <2>2, <1>1
  <2> QED BY <1>1, <2>2, <2>3, <2>4
<1> DEFINE first == NumTBs - Len(waiting)
<1>14. /\ first \in Nat /\ Len(waiting) <= NumTBs - Slots /\ resident \subseteq 1..first
       /\ \A i \in 1..Len(waiting) : waiting[i] = first + i
  BY <1>2, SlotsBounds, ResidencyAssumption DEF IInv, WaitingIsTail
<1> HIDE DEF first
<1>15. entering = (first + 1)..(first + k)
  <2>1. \A i \in 1..k : waiting[i] = first + i
    BY <1>2, <1>11, <1>14
  <2>2. entering \subseteq (first + 1)..(first + k)
    BY <2>1, <1>11, <1>14
  <2>3. ASSUME NEW b \in (first + 1)..(first + k) PROVE b \in entering
    <3>1. b - first \in 1..k /\ first + (b - first) = b
      BY <1>11, <1>14
    <3> QED BY <3>1, <2>1
  <2> QED BY <2>2, <2>3
<1>16. IsFiniteSet(entering) /\ Cardinality(entering) = k
  <2>1. /\ IsFiniteSet((first + 1)..(first + k))
        /\ Cardinality((first + 1)..(first + k))
             = IF first + 1 > first + k THEN 0 ELSE (first + k) - (first + 1) + 1
    BY <1>11, <1>14, FS_Interval
  <2>2. (IF first + 1 > first + k THEN 0 ELSE (first + k) - (first + 1) + 1) = k
    BY <1>11, <1>14
  <2> QED BY <2>1, <2>2, <1>15
<1> HIDE DEF entering
<1>17. resident' = staying \union entering
  BY <1>1 DEF entering
<1>18. staying \intersect entering = {}
  BY <1>14, <1>15 DEF staying
<1>19. PlacesConserved'
  <2>1. Cardinality(staying \intersect entering) = 0
    BY <1>18, FS_EmptySet
  <2>2. Cardinality(staying \union entering) = Cardinality(staying) + k
    <3>1. Cardinality(staying \union entering)
            = Cardinality(staying) + Cardinality(entering)
                - Cardinality(staying \intersect entering)
      BY <1>4, <1>16, FS_Union
    <3>2. Cardinality(staying) \in Nat
      BY <1>4
    <3> QED BY <3>1, <3>2, <2>1, <1>16, <1>11
  <2>3. Cardinality(resident') + Len(ready') = Slots
    BY <2>2, <1>17, <1>13, <1>4, <1>5, <1>7, <1>11
  <2> QED BY <2>3 DEF PlacesConserved, Slots
<1>20. TypeOK'
  <2>1. entering \subseteq TB
    <3>1. \A i \in 1..k : waiting[i] \in TB
      BY <1>2, <1>11, ElementOfSeq
    <3> QED BY <3>1 DEF entering
  <2>2. resident' \subseteq TB
    BY <2>1, <1>2, <1>17 DEF staying
  <2> QED BY <2>2, <1>1, <1>2, <1>12, <1>13 DEF TypeOK, TB
<1>21. WaitingIsTail'
  <2>1. NumTBs - Len(waiting') = first + k
    BY <1>12, <1>2, <1>11, ResidencyAssumption DEF first
  <2>2. \A i \in 1..Len(waiting') : waiting'[i] = NumTBs - Len(waiting') + i
    <3> SUFFICES ASSUME NEW i \in 1..Len(waiting')
                 PROVE  waiting'[i] = (first + k) + i
      BY <2>1
    <3>1. k + i \in 1..Len(waiting)
      BY <1>12, <1>2, <1>11
    <3>2. waiting'[i] = first + (k + i)
      BY <3>1, <1>12, <1>14
    <3> QED BY <3>2, <1>14, <1>11
  <2>3. resident' \subseteq 1..(first + k)
    <3>1. 1..first \subseteq 1..(first + k) /\ (first + 1)..(first + k) \subseteq 1..(first + k)
      BY <1>14, <1>11
    <3>2. staying \subseteq 1..first
      BY <1>14 DEF staying
    <3> QED BY <3>1, <3>2, <1>17, <1>15
  <2>4. Len(waiting') <= NumTBs - Slots
    BY <1>12, <1>14, <1>11, <1>2, SlotsBounds, ResidencyAssumption
  <2>5. resident' \subseteq 1..(NumTBs - Len(waiting'))
    BY <2>1, <2>3
  <2> QED BY <2>2, <2>4, <2>5 DEF WaitingIsTail, Slots
<1>22. FreeFrom' = FreeFrom + 1 /\ FreeFrom \in Nat
  BY <1>1, <1>2, ResidencyAssumption DEF FreeFrom
<1>23. \A i \in 1..Len(ready') : k + i \in 1..Len(r)
  BY <1>13, <1>5, <1>11
<1>24. DelaysInOrder'
  <2>1. Sorted(ready')
    <3> SUFFICES ASSUME NEW i \in 1..Len(ready'), NEW j \in 1..Len(ready'), i <= j
                 PROVE  ready'[i] <= ready'[j]
      BY DEF Sorted
    <3>1. k + i \in 1..Len(r) /\ k + j \in 1..Len(r) /\ k + i <= k + j
      BY <1>23, <1>11
    <3> QED BY <3>1, <1>5, <1>13 DEF Sorted
  <2>2. \A i \in 1..Len(ready') : ready'[i] <= FreeFrom'
    BY <1>22, <1>23, <1>5, <1>13
  <2> QED BY <2>1, <2>2 DEF DelaysInOrder, Sorted
<1>25. NoPlaceIdle'
  <2> SUFFICES ASSUME waiting' # <<>>, NEW i \in DOMAIN ready'
               PROVE  ready'[i] >= cycle'
    BY DEF NoPlaceIdle
  <2>1. i \in 1..Len(ready') /\ k + i \in 1..Len(r) /\ ready'[i] = r[k + i]
    <3>1. i \in 1..Len(ready')
      BY <1>13
    <3> QED BY <3>1, <1>13, <1>23
  <2>2. k # Len(waiting) /\ waiting # <<>>
    <3>1. Len(waiting') # 0
      BY <1>12
    <3> QED BY <3>1, <1>12, <1>2, <1>11
  <2>3. k # free
    BY <2>1, <2>2, <1>8, <1>5, <1>11
  <2>4. k < Len(r) /\ cycle < r[k + 1]
    BY <2>2, <2>3, <1>1 DEF Stops
  <2>5. r[k + 1] <= r[k + i]
    <3>1. k + 1 \in 1..Len(r) /\ k + 1 <= k + i
      BY <2>1, <1>5, <1>11
    <3> QED BY <3>1, <2>1, <1>5 DEF Sorted
  <2>6. r[k + 1] \in Nat /\ r[k + i] \in Nat
    BY <2>1, <2>4, <1>5, <1>11
  <2>7. r[k + i] >= cycle + 1
    BY <2>4, <2>5, <2>6, <1>2
  <2> QED BY <2>1, <2>7, <1>1
<1> QED BY <1>19, <1>20, <1>21, <1>24, <1>25 DEF IInv

\* The inductive invariant holds in every state.
THEOREM Invariance == Spec => []IInv
<1>1. IInv /\ [Next]_vars => IInv'
  <2> SUFFICES ASSUME IInv, [Next]_vars PROVE IInv'
    OBVIOUS
  <2>1. CASE EndOfCycle
    BY <2>1, EndOfCycleKeeps
  <2>2. CASE \E t \in TB : Finish(t)
    BY <2>2, FinishKeeps
  <2>3. CASE UNCHANGED vars
    BY <2>3 DEF vars, IInv, TypeOK, WaitingIsTail, DelaysInOrder, FreeFrom,
                PlacesConserved, NoPlaceIdle
  <2> QED BY <2>1, <2>2, <2>3 DEF Next
<1> QED BY InitIInv, <1>1, PTL DEF Spec

\* Every variable of the SM's block scheduler keeps its type.
THEOREM TypeCorrect == Spec => []TypeOK
<1>1. IInv => TypeOK
  BY DEF IInv
<1> QED BY Invariance, <1>1, PTL

\* A place of the SM is either taken by a resident block or has its ready cycle
\* in tb_dispatch_ready, so at most max_resident_tbs blocks are ever resident.
THEOREM Conservation == Spec => []PlacesConserved
<1>1. IInv => PlacesConserved
  BY DEF IInv
<1> QED BY Invariance, <1>1, PTL

\* While blocks wait, no place stays empty after its delay.
THEOREM Promptness == Spec => []NoPlaceIdle
<1>1. IInv => NoPlaceIdle
  BY DEF IInv
<1> QED BY Invariance, <1>1, PTL
-----------------------------------------------------------------------------
\* As many blocks enter as delays end, as long as that many wait: those ahead in the
\* order are over, and the one behind the last that enters is not.
LEMMA EntersOnTime ==
    ASSUME IInv, EndOfCycle, waiting # <<>>
    PROVE  Cardinality(Entering) =
               IF DelaysOver < Len(waiting) THEN DelaysOver ELSE Len(waiting)
<1> DEFINE done == resident \intersect complete
           staying == resident \ complete
           n == Cardinality(done)
           r == ready \o Pushed(n)
           free == MaxResident - Cardinality(staying)
           now == {i \in DOMAIN ready : ready[i] = cycle}
<1>1. PICK k \in 0..Len(waiting) :
          /\ Stops(k, r, free)
          /\ \A j \in 0..(k - 1) : ~Stops(j, r, free)
          /\ resident' = staying \union {waiting[i] : i \in 1..k}
  BY DEF EndOfCycle
<1> DEFINE entering == {waiting[i] : i \in 1..k}
<1>2. /\ cycle \in Nat /\ complete \subseteq TB /\ resident \subseteq TB
      /\ waiting \in Seq(TB) /\ Len(waiting) \in Nat
      /\ ready \in Seq(Nat) /\ Len(ready) \in Nat /\ DOMAIN ready = 1..Len(ready)
  BY DEF IInv, TypeOK
<1>3. IsFiniteSet(resident)
  <2>1. IsFiniteSet(TB)
    BY ResidencyAssumption, FS_Interval DEF TB
  <2> QED BY <2>1, <1>2, FS_Subset
<1>4. /\ n \in Nat /\ Cardinality(staying) \in Nat /\ Cardinality(resident) \in Nat
      /\ Cardinality(staying) = Cardinality(resident) - n
  BY <1>3, FS_Intersection, FS_Difference, FS_CardinalityType
<1>5. /\ r \in Seq(Nat) /\ Len(r) = Len(ready) + n /\ Sorted(r)
      /\ \A i \in 1..Len(r) : r[i] \in Nat /\ r[i] <= FreeFrom
  BY <1>4, PushedKeeps
<1>6. free = Len(r) /\ free \in Nat
  <2>1. Cardinality(resident) + Len(ready) = Slots
    BY DEF IInv, PlacesConserved
  <2>2. Len(waiting) > 0
    BY <1>2
  <2>3. Slots = MaxResident
    BY <1>2, <2>2, SlotsBounds, ResidencyAssumption DEF IInv, WaitingIsTail
  <2> QED BY <1>2, <1>4, <1>5, <2>1, <2>3, ResidencyAssumption
<1>7. \A i \in 1..Len(ready) : r[i] = ready[i] /\ ready[i] >= cycle /\ ready[i] \in Nat
  <2>1. Pushed(n) \in Seq(Nat) /\ Len(Pushed(n)) = n
    <3> DEFINE p == Pushed(n)
    <3>1. p \in [1..n -> Nat]
      BY FreeFromLater DEF Pushed, IInv
    <3> HIDE DEF p, n
    <3>2. p \in Seq(Nat) /\ Len(p) = n
      BY <1>4, <3>1
    <3> QED BY <3>2 DEF p
  <2>2. \A i \in 1..Len(ready) : r[i] = ready[i]
    <3> DEFINE p == Pushed(n)
    <3>1. p \in Seq(Nat)
      BY <2>1
    <3> HIDE DEF p
    <3>2. \A i \in 1..Len(ready) : (ready \o p)[i] = ready[i]
      BY <1>2, <3>1
    <3> QED BY <3>2 DEF p
  <2>3. \A i \in 1..Len(ready) : ready[i] >= cycle
    BY <1>2 DEF IInv, NoPlaceIdle
  <2> QED BY <1>2, <2>2, <2>3
\* Those pushed in this cycle end in it only when there is no delay.
<1>8. \A i \in 1..Len(r) : i > Len(ready) => r[i] = FreeFrom
  <2> DEFINE p == Pushed(n)
  <2>1. p = [i \in 1..n |-> FreeFrom] /\ FreeFrom \in Nat
    BY FreeFromLater DEF Pushed, IInv
  <2> HIDE DEF p, n
  <2>2. p \in Seq(Nat) /\ Len(p) = n /\ \A i \in 1..n : p[i] = FreeFrom
    BY <1>4, <2>1
  <2>3. r = ready \o p
    BY DEF p
  <2> HIDE DEF r
  <2> SUFFICES ASSUME NEW i \in 1..Len(r), i > Len(ready) PROVE r[i] = FreeFrom
    OBVIOUS
  <2>4. i - Len(ready) \in 1..n
    BY <1>2, <1>4, <1>5
  <2>5. r[i] = p[i - Len(ready)]
    BY <1>2, <2>2, <2>3, <2>4
  <2> QED BY <2>2, <2>4, <2>5
<1> HIDE DEF done, staying, n, r, free, now
<1>9. k \in Nat /\ k <= Len(waiting) /\ k <= Len(r)
  <2>1. free \in Int /\ 0 <= free /\ (waiting # <<>> => free = Len(r))
    BY <1>6
  <2>2. k <= Len(r)
    BY <1>1, <1>2, <1>5, <2>1, EnteringBounded
  <2> QED BY <1>2, <2>2
<1>10. \A i \in 1..k : r[i] <= cycle
  <2> SUFFICES ASSUME NEW i \in 1..k PROVE r[i] <= cycle
    OBVIOUS
  <2>1. i - 1 \in 0..(k - 1) /\ i - 1 < Len(r) /\ (i - 1) + 1 = i /\ i \in 1..Len(r)
    BY <1>9, <1>5, <1>2
  <2>2. ~(cycle < r[(i - 1) + 1])
    BY <1>1, <2>1 DEF Stops
  <2> QED BY <1>2, <1>5, <2>1, <2>2
<1>11. \/ k = Len(waiting)
       \/ k = Len(r)
       \/ k < Len(r) /\ \A i \in 1..Len(r) : i > k => r[i] > cycle
  <2>1. CASE k < Len(r) /\ cycle < r[k + 1]
    <3>1. k + 1 \in 1..Len(r)
      BY <1>9, <1>5, <1>2, <2>1
    <3>2. ASSUME NEW i \in 1..Len(r), i > k PROVE r[i] > cycle
      <4>1. k + 1 <= i /\ r[k + 1] <= r[i]
        BY <1>5, <1>9, <3>1, <3>2 DEF Sorted
      <4> QED BY <1>2, <1>5, <2>1, <3>1, <4>1
    <3> QED BY <2>1, <3>2
  <2> QED BY <1>1, <1>6, <2>1 DEF Stops
<1>12. IsFiniteSet(now) /\ Cardinality(now) \in Nat
  <2>1. IsFiniteSet(1..Len(ready))
    BY <1>2, FS_Interval
  <2>2. now \subseteq 1..Len(ready)
    BY <1>2 DEF now
  <2> QED BY <2>1, <2>2, FS_Subset, FS_CardinalityType
<1>13. /\ Cardinality(1..k) = k /\ IsFiniteSet(1..k)
       /\ Cardinality(1..Len(ready)) = Len(ready)
  <2>1. ASSUME NEW i \in Nat PROVE Cardinality(1..i) = i /\ IsFiniteSet(1..i)
    <3>1. IsFiniteSet(1..i) /\ Cardinality(1..i) = IF 1 > i THEN 0 ELSE i - 1 + 1
      BY FS_Interval
    <3> QED BY <3>1
  <2> QED BY <1>2, <1>9, <2>1
<1>14. DelaysOver = Cardinality(now) + (IF Latency > 0 THEN 0 ELSE n)
  BY DEF DelaysOver, now, n, done
<1>15. k = IF DelaysOver < Len(waiting) THEN DelaysOver ELSE Len(waiting)
  <2>1. CASE Latency > 0
    <3>1. FreeFrom > cycle /\ FreeFrom \in Nat
      BY <1>2, <2>1, ResidencyAssumption DEF FreeFrom
    <3>2. \A i \in 1..k : i \in now
      <4> SUFFICES ASSUME NEW i \in 1..k PROVE i \in now
        OBVIOUS
      <4>1. i \in 1..Len(r) /\ r[i] <= cycle
        BY <1>5, <1>9, <1>10, <1>2
      <4>2. i <= Len(ready)
        BY <1>2, <1>8, <3>1, <4>1
      <4>3. i \in 1..Len(ready) /\ ready[i] = cycle
        BY <1>2, <1>7, <4>1, <4>2
      <4> QED BY <1>2, <4>3 DEF now
    <3>3. k <= Cardinality(now)
      <4>1. 1..k \subseteq now
        BY <3>2
      <4> QED BY <4>1, <1>12, <1>13, FS_Subset
    <3>4. k = Len(waiting) \/ Cardinality(now) = k
      <4>1. SUFFICES ASSUME k # Len(waiting) PROVE now \subseteq 1..k
        <5>1. 1..k \subseteq now
          BY <3>2
        <5> QED BY <4>1, <5>1, <1>13
      <4>2. ASSUME NEW i \in now PROVE i \in 1..k
        <5>1. i \in 1..Len(ready) /\ ready[i] = cycle /\ i \in 1..Len(r) /\ r[i] = cycle
          BY <1>2, <1>4, <1>5, <1>7 DEF now
        <5> QED BY <1>2, <1>9, <1>11, <4>1, <5>1
      <4> QED BY <4>2
    <3>5. DelaysOver = Cardinality(now)
      BY <1>12, <1>14, <2>1
    <3> QED BY <1>2, <1>9, <1>12, <3>3, <3>4, <3>5
  <2>2. CASE ~(Latency > 0)
    <3>1. FreeFrom = cycle
      BY <1>2, <2>2, ResidencyAssumption DEF FreeFrom
    <3>2. now = 1..Len(ready)
      <4> SUFFICES ASSUME NEW i \in 1..Len(ready) PROVE ready[i] = cycle
        BY <1>2 DEF now
      <4>1. i \in 1..Len(r) /\ r[i] = ready[i] /\ r[i] <= cycle /\ ready[i] >= cycle /\ ready[i] \in Nat
        BY <1>2, <1>4, <1>5, <1>7, <3>1
      <4> QED BY <1>2, <4>1
    <3>3. DelaysOver = Len(r)
      BY <1>13, <1>14, <1>5, <2>2, <3>2
    <3>4. k = Len(waiting) \/ k = Len(r)
      <4>1. ASSUME k < Len(r), \A i \in 1..Len(r) : i > k => r[i] > cycle PROVE FALSE
        <5>1. k + 1 \in 1..Len(r) /\ k + 1 > k
          BY <1>2, <1>5, <1>9, <4>1
        <5>2. r[k + 1] > cycle /\ r[k + 1] <= cycle /\ r[k + 1] \in Nat
          BY <1>5, <3>1, <4>1, <5>1
        <5> QED BY <1>2, <5>2
      <4> QED BY <1>11, <4>1
    <3> QED BY <1>2, <1>5, <1>9, <3>3, <3>4
  <2> QED BY <2>1, <2>2
<1>16. Entering = entering /\ Cardinality(entering) = k
  <2> DEFINE first == NumTBs - Len(waiting)
  <2>1. /\ first \in Nat /\ resident \subseteq 1..first
        /\ \A i \in 1..Len(waiting) : waiting[i] = first + i
    BY <1>2, SlotsBounds, ResidencyAssumption DEF IInv, WaitingIsTail
  <2> HIDE DEF first
  <2>2. entering = (first + 1)..(first + k)
    <3>1. \A i \in 1..k : waiting[i] = first + i /\ first + i \in (first + 1)..(first + k)
      BY <1>2, <1>9, <2>1
    <3>2. ASSUME NEW b \in (first + 1)..(first + k) PROVE b \in entering
      <4>1. b - first \in 1..k /\ first + (b - first) = b
        BY <1>9, <2>1
      <4> QED BY <3>1, <4>1
    <3> QED BY <3>1, <3>2
  <2>3. Cardinality((first + 1)..(first + k)) = k
    <3>1. Cardinality((first + 1)..(first + k))
             = IF first + 1 > first + k THEN 0 ELSE (first + k) - (first + 1) + 1
      BY <1>9, <2>1, FS_Interval
    <3> QED BY <1>9, <2>1, <3>1
  <2> HIDE DEF entering
  <2>4. resident' = staying \union entering /\ staying \subseteq resident
    BY <1>1 DEF entering, staying
  <2>5. entering \intersect resident = {}
    BY <1>9, <2>1, <2>2
  <2>6. Entering = entering
    BY <2>4, <2>5 DEF Entering
  <2> QED BY <2>2, <2>3, <2>6
<1> QED BY <1>15, <1>16

\* Every block enters in the cycle in which the delay of some place ends, neither before
\* nor later, for every delay, none and a negative one included.
THEOREM Punctual == Spec => DispatchOnTime
<1>1. IInv /\ [Next]_vars =>
        [cycle' = cycle \/ waiting = <<>> \/
            Cardinality(Entering) =
                IF DelaysOver < Len(waiting) THEN DelaysOver ELSE Len(waiting)]_vars
  <2> SUFFICES ASSUME IInv, Next
               PROVE  cycle' = cycle \/ waiting = <<>> \/
                        Cardinality(Entering) =
                            IF DelaysOver < Len(waiting) THEN DelaysOver ELSE Len(waiting)
    OBVIOUS
  <2>1. CASE EndOfCycle
    BY <2>1, EntersOnTime
  <2>2. CASE \E t \in TB : Finish(t)
    BY <2>2 DEF Finish
  <2> QED BY <2>1, <2>2 DEF Next
<1> QED BY <1>1, Invariance, PTL DEF Spec, DispatchOnTime
=============================================================================
