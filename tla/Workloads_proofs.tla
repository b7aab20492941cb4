--------------------------- MODULE Workloads_proofs ---------------------------
(***************************************************************************)
(* Proofs about Workloads, for every shape of both graphs: the dependencies *)
(* alone keep a block to one tile and to two stages of operands, keep the   *)
(* stages of FA3 in order, and never lead to a dead end.                    *)
(***************************************************************************)
EXTENDS Workloads, TLAPS, FiniteSetTheorems, WellFoundedInduction

\* What has been issued and not finished, and what it has waited for.
TypeOK ==
    /\ shape \in GemmShape \union Fa3Shape
    /\ running \subseteq Nodes /\ finished \subseteq Nodes

Ordered ==
    \A n \in issued : Deps[shape][n] \subseteq finished /\ IssueDeps[shape][n] \subseteq issued

\* The MMAs of a warp are executed one after the other, from round to round.
MmaChain ==
    IsGemm =>
        \A t \in Tiles(shape), k \in Round(shape), w \in Consumer, i \in 1..Steps :
            Mma(t, k, w, i) \in issued =>
                \A j \in Round(shape), h \in 1..Steps :
                    j < k \/ (j = k /\ h < i) => Mma(t, j, w, h) \in finished

\* An MMA waits for the stores of all earlier tiles of its block.
StoredBefore ==
    IsGemm =>
        \A t, u \in Tiles(shape) : t < u /\ BlockOf(shape, t) = BlockOf(shape, u) =>
            \A k \in Round(shape), w \in Consumer, i \in 1..Steps :
                Mma(u, k, w, i) \in issued => Outs(t) \subseteq finished

\* A load waits for the MMAs of all earlier tiles of its block and of all rounds
\* before the last.
StageFree ==
    IsGemm /\ UseLast(shape) =>
        \A u \in Tiles(shape), j \in Round(shape) : \A n \in Loads(u, j) : n \in issued =>
            /\ \A t \in Tiles(shape) : t < u /\ BlockOf(shape, t) = BlockOf(shape, u) =>
                  \A k \in Round(shape) : Mmas(t, k) \subseteq finished
            /\ \A k \in Round(shape) : k + 2 <= j => Mmas(u, k) \subseteq finished

\* The MMAs of a warp that multiply the same matrices are executed one after the other.
ProductChain ==
    ~IsGemm =>
        \A x \in {"SS", "RS"}, k \in Rounds(shape), w \in shape.warps, i \in 1..shape.steps :
            <<x, k, w, i>> \in issued =>
                \A j \in Rounds(shape), h \in 1..shape.steps :
                    j < k \/ (j = k /\ h < i) => <<x, j, w, h>> \in finished

\* What a warp has issued has all of the places before it behind it.
Before(w, p) == \A m \in OfWarp(shape, w) : Place(m) < p => m \in issued
InPlace ==
    ~IsGemm =>
        \A w \in shape.warps : \A n \in OfWarp(shape, w) : n \in issued => Before(w, Place(n))
-----------------------------------------------------------------------------
(* Numbers and sets                                                        *)

\* A set of natural numbers has a least element.
LEMMA Least ==
    ASSUME NEW T \in SUBSET Nat, T # {}
    PROVE  \E x \in T : \A y \in T : x <= y
<1>1. PICK x \in T : \A y \in T : ~(<<y, x>> \in OpToRel(<, Nat))
  BY WFMin, NatLessThanWellFounded, Zenon
<1>2. \A y \in T : ~(y < x)
  BY <1>1 DEF OpToRel
<1> QED BY <1>2

\* Division of natural numbers.
LEMMA DivMod ==
    ASSUME NEW x \in Nat, NEW g \in Nat \ {0}
    PROVE  x \div g \in Nat /\ x % g \in 0..g - 1 /\ x = g * (x \div g) + (x % g)
OBVIOUS

LEMMA TimesKeepsOrder ==
    ASSUME NEW a \in Int, NEW b \in Int, NEW g \in Nat, a <= b
    PROVE  g * a <= g * b
OBVIOUS

LEMMA DivModUnique ==
    ASSUME NEW q \in Int, NEW p \in Int, NEW g \in Nat \ {0}, NEW r \in 0..g - 1, NEW s \in 0..g - 1,
           g * q + r = g * p + s
    PROVE  q = p /\ r = s
<1>1. g * (q + 1) = g * q + g /\ g * (p + 1) = g * p + g
  OBVIOUS
<1>2. ~(q + 1 <= p) /\ ~(p + 1 <= q)
  BY <1>1, TimesKeepsOrder
<1> QED BY <1>2

\* A finite set without three different elements has at most two.
LEMMA AtMostTwo ==
    ASSUME NEW S, \A a, b, c \in S : a = b \/ b = c \/ a = c
    PROVE  IsFiniteSet(S) /\ Cardinality(S) <= 2
<1>1. CASE S = {}
  <2>1. IsFiniteSet({}) /\ Cardinality({}) = 0
    BY FS_EmptySet
  <2> QED BY <1>1, <2>1
<1>2. CASE S # {}
  <2>1. PICK a \in S : TRUE
    BY <1>2
  <2>2. CASE S = {a}
    <3>1. IsFiniteSet({a}) /\ Cardinality({a}) = 1
      BY FS_Singleton
    <3> QED BY <2>2, <3>1
  <2>3. CASE S # {a}
    <3>1. PICK b \in S : b # a
      BY <2>1, <2>3
    <3>2. S = {a} \union {b}
      BY <2>1, <3>1
    <3>3. IsFiniteSet({a}) /\ Cardinality({a}) = 1
      BY FS_Singleton
    <3> QED BY <3>1, <3>2, <3>3, FS_AddElement
  <2> QED BY <2>2, <2>3
<1> QED BY <1>1, <1>2
-----------------------------------------------------------------------------
(* Execution of a graph                                                    *)

\* A step finishes operations or issues one that has all it waits for.
LEMMA OneStep ==
    ASSUME [Next]_vars
    PROVE  /\ shape' = shape /\ finished \subseteq finished' /\ issued \subseteq issued'
           /\ \A n \in issued' \ issued :
                 /\ n \in Nodes /\ Deps[shape][n] \subseteq finished
                 /\ IssueDeps[shape][n] \subseteq issued
<1>1. CASE Issue
  BY <1>1 DEF Issue, Ready, issued
<1>2. CASE Finish
  BY <1>2 DEF Finish, issued
<1>3. CASE UNCHANGED vars
  BY <1>3 DEF vars, issued
<1> QED BY <1>1, <1>2, <1>3 DEF Next

LEMMA OrderKept == TypeOK /\ Ordered /\ [Next]_vars => TypeOK' /\ Ordered'
<1> SUFFICES ASSUME TypeOK, Ordered, [Next]_vars PROVE TypeOK' /\ Ordered'
  OBVIOUS
<1>1. TypeOK'
  BY DEF TypeOK, Next, Issue, Finish, Ready, vars, Nodes
<1>2. Ordered'
  BY OneStep DEF Ordered
<1> QED BY <1>1, <1>2
-----------------------------------------------------------------------------
(* The GEMM graph                                                          *)

LEMMA GemmGraphOf ==
    ASSUME IsGemm
    PROVE  /\ shape \in GemmShape /\ Nodes = GemmNodes(shape)
           /\ \A n \in Nodes : /\ Deps[shape][n] = GemmDeps(shape, n)
                               /\ IssueDeps[shape][n] = GemmIssueDeps(n)
BY DEF IsGemm, Nodes, Deps, IssueDeps

LEMMA GemmSizes ==
    ASSUME NEW s \in GemmShape
    PROVE  /\ s.k \in Nat \ {0} /\ 0 \in Round(s) /\ s.k - 1 \in Round(s)
           /\ Round(s) \subseteq Nat /\ Tiles(s) \subseteq Nat
           /\ Steps \in Nat \ {0} /\ 1 \in 1..Steps /\ Steps \in 1..Steps
<1>1. s.m \in Nat \ {0} /\ s.n \in Nat \ {0} /\ s.k \in Nat \ {0}
  BY ShapeAssumption
<1>2. Tiles(s) \subseteq Nat
  BY DEF Tiles
<1> QED BY <1>1, <1>2, GemmAssumption DEF Round

LEMMA GemmMembers ==
    ASSUME NEW s \in GemmShape, NEW t \in Tiles(s)
    PROVE  /\ Puts(t) \subseteq GemmNodes(s) /\ Outs(t) \subseteq GemmNodes(s)
           /\ \A k \in Round(s) : Loads(t, k) \subseteq GemmNodes(s) /\ Mmas(t, k) \subseteq GemmNodes(s)
BY DEF GemmNodes

LEMMA WaitsOfLoad ==
    ASSUME NEW s, NEW t, NEW k, NEW n \in Loads(t, k)
    PROVE  GemmDeps(s, n) = LoadDeps(s, t, k) /\ GemmIssueDeps(n) = {}
BY DEF Loads, GemmDeps, GemmIssueDeps

LEMMA WaitsOfMma ==
    ASSUME NEW s, NEW t, NEW k, NEW w, NEW i
    PROVE  /\ GemmDeps(s, Mma(t, k, w, i)) =
                 Loads(t, k) \union Preceding(t, k, w, i) \union PostStore(s, t, k)
           /\ GemmIssueDeps(Mma(t, k, w, i)) = {}
BY DEF Mma, GemmDeps, GemmIssueDeps

LEMMA WaitsOfPut ==
    ASSUME NEW s, NEW t, NEW n \in Puts(t)
    PROVE  GemmDeps(s, n) = Mmas(t, s.k - 1) /\ GemmIssueDeps(n) = {}
BY DEF Puts, GemmDeps, GemmIssueDeps

LEMMA WaitsOfOut ==
    ASSUME NEW s, NEW t, NEW c
    PROVE  /\ GemmDeps(s, Out(t, c)) = Puts(t)
           /\ GemmIssueDeps(Out(t, c)) = IF c > 1 THEN {Out(t, c - 1)} ELSE {}
BY DEF Out, GemmDeps, GemmIssueDeps

\* The tile that the block of u computed just before, if it has computed one.
LEMMA PreviousTile ==
    ASSUME NEW s \in GemmShape, NEW u \in Tiles(s), NEW t \in Tiles(s), t < u,
           BlockOf(s, t) = BlockOf(s, u)
    PROVE  \E p \in Previous(s, u) :
              p \in Tiles(s) /\ p < u /\ BlockOf(s, p) = BlockOf(s, u) /\ t <= p
<1> DEFINE Gaps == {u - v : v \in Earlier(s, u)}
<1>1. Earlier(s, u) \subseteq Nat /\ t \in Earlier(s, u) /\ u \in Nat
      /\ \A v \in Earlier(s, u) : v < u
  BY GemmSizes DEF Earlier
<1>2. Gaps \in SUBSET Nat /\ Gaps # {}
  BY <1>1
<1>3. PICK g \in Gaps : \A h \in Gaps : g <= h
  BY <1>2, Least
<1>4. PICK p \in Earlier(s, u) : g = u - p
  OBVIOUS
<1>5. \A v \in Earlier(s, u) : v <= p
  BY <1>1, <1>3, <1>4
<1> QED BY <1>1, <1>5 DEF Previous, Earlier

\* What a node of the GEMM graph has waited for when it has just been issued.
LEMMA GemmIssued ==
    ASSUME IsGemm, [Next]_vars, NEW t \in Tiles(shape), NEW k \in Round(shape)
    PROVE  /\ \A n \in Loads(t, k) : n \in issued' \ issued => LoadDeps(shape, t, k) \subseteq finished
           /\ \A w \in Consumer, i \in 1..Steps : Mma(t, k, w, i) \in issued' \ issued =>
                 Loads(t, k) \union Preceding(t, k, w, i) \union PostStore(shape, t, k) \subseteq finished
<1>1. shape \in GemmShape /\ Nodes = GemmNodes(shape)
      /\ \A n \in Nodes : Deps[shape][n] = GemmDeps(shape, n)
  BY GemmGraphOf
<1>2. \A n \in issued' \ issued : n \in Nodes /\ Deps[shape][n] \subseteq finished
  BY OneStep
<1>3. ASSUME NEW n \in Loads(t, k), n \in issued' \ issued
      PROVE  LoadDeps(shape, t, k) \subseteq finished
  BY <1>1, <1>2, <1>3, WaitsOfLoad
<1>4. ASSUME NEW w \in Consumer, NEW i \in 1..Steps, Mma(t, k, w, i) \in issued' \ issued
      PROVE  Loads(t, k) \union Preceding(t, k, w, i) \union PostStore(shape, t, k) \subseteq finished
  BY <1>1, <1>2, <1>4, WaitsOfMma
<1> QED BY <1>3, <1>4

LEMMA MmaChainKept == MmaChain /\ [Next]_vars => MmaChain'
<1> SUFFICES ASSUME MmaChain, [Next]_vars, IsGemm,
                    NEW t \in Tiles(shape), NEW k \in Round(shape), NEW w \in Consumer,
                    NEW i \in 1..Steps, Mma(t, k, w, i) \in issued',
                    NEW j \in Round(shape), NEW h \in 1..Steps, j < k \/ (j = k /\ h < i)
             PROVE  Mma(t, j, w, h) \in finished'
  BY OneStep DEF MmaChain, IsGemm
<1>1. shape \in GemmShape /\ finished \subseteq finished' /\ finished \subseteq issued
  BY OneStep DEF IsGemm, issued
<1>2. j \in Nat /\ k \in Nat /\ Steps \in 1..Steps /\ Round(shape) = 0..shape.k - 1
      /\ shape.k \in Nat
  BY <1>1, GemmSizes DEF Round
<1>3. CASE Mma(t, k, w, i) \in issued
  BY <1>1, <1>3 DEF MmaChain
<1>4. CASE Mma(t, k, w, i) \notin issued
  <2>1. Preceding(t, k, w, i) \subseteq finished
    BY <1>4, GemmIssued
  <2>2. CASE i > 1
    <3>1. Mma(t, k, w, i - 1) \in finished /\ i - 1 \in 1..Steps
      BY <2>1, <2>2, <1>2 DEF Preceding
    <3>2. j < k \/ (j = k /\ h < i - 1) \/ (j = k /\ h = i - 1)
      BY <1>2, <2>2
    <3> QED BY <3>1, <3>2, <1>1 DEF MmaChain
  <2>3. CASE i = 1
    <3>1. k > 0 /\ j < k
      BY <2>3, <1>2
    <3>2. Mma(t, k - 1, w, Steps) \in finished /\ k - 1 \in Round(shape)
      BY <2>1, <2>3, <3>1, <1>2 DEF Preceding
    <3>3. j < k - 1 \/ (j = k - 1 /\ h < Steps) \/ (j = k - 1 /\ h = Steps)
      BY <1>2, <3>1
    <3> QED BY <3>2, <3>3, <1>1, <1>2 DEF MmaChain
  <2> QED BY <2>2, <2>3
<1> QED BY <1>3, <1>4

\* When the stores of a tile are finished, so are all MMAs of its last round.
LEMMA StoresAreLast ==
    ASSUME IsGemm, TypeOK, Ordered, NEW t \in Tiles(shape), Outs(t) \subseteq finished
    PROVE  Mmas(t, shape.k - 1) \subseteq finished
<1>1. shape \in GemmShape /\ Nodes = GemmNodes(shape)
      /\ \A n \in Nodes : Deps[shape][n] = GemmDeps(shape, n)
  BY GemmGraphOf
<1>2. Puts(t) \subseteq Nodes /\ Outs(t) \subseteq Nodes
  BY <1>1, GemmMembers
<1>3. Out(t, 1) \in Outs(t)
  BY GemmAssumption DEF Outs
<1>4. Puts(t) \subseteq finished
  BY <1>1, <1>2, <1>3, WaitsOfOut DEF Ordered, issued
<1>5. CASE Consumer = {}
  BY <1>5 DEF Mmas
<1>6. CASE Consumer # {}
  <2>1. PICK n \in Puts(t) : TRUE
    <3>1. PICK w \in Consumer, p \in Put : TRUE
      BY <1>6, GemmAssumption
    <3>2. <<"put", t, 0, w, p>> \in Puts(t)
      BY DEF Puts
    <3> QED BY <3>2
  <2> QED BY <2>1, <1>1, <1>2, <1>4, WaitsOfPut DEF Ordered, issued
<1> QED BY <1>5, <1>6

LEMMA StoredBeforeKept ==
    TypeOK /\ Ordered /\ MmaChain /\ StoredBefore /\ [Next]_vars => StoredBefore'
<1> SUFFICES ASSUME TypeOK, Ordered, MmaChain, StoredBefore, [Next]_vars, IsGemm,
                    NEW t \in Tiles(shape), NEW u \in Tiles(shape), t < u,
                    BlockOf(shape, t) = BlockOf(shape, u),
                    NEW k \in Round(shape), NEW w \in Consumer, NEW i \in 1..Steps,
                    Mma(u, k, w, i) \in issued'
             PROVE  Outs(t) \subseteq finished'
  BY OneStep DEF StoredBefore, IsGemm
<1>1. shape \in GemmShape /\ finished \subseteq finished' /\ finished \subseteq issued
  BY OneStep DEF IsGemm, issued
<1>2. Round(shape) = 0..shape.k - 1 /\ shape.k \in Nat \ {0} /\ 1 \in 1..Steps /\ Steps \in 1..Steps
      /\ shape.k - 1 \in Round(shape)
  BY <1>1, GemmSizes DEF Round
<1>3. CASE Mma(u, k, w, i) \in issued
  BY <1>1, <1>3 DEF StoredBefore
<1>4. CASE Mma(u, k, w, i) \notin issued
  <2>1. Preceding(u, k, w, i) \union PostStore(shape, u, k) \subseteq finished
    BY <1>4, GemmIssued
  <2>2. CASE i > 1
    <3>1. Mma(u, k, w, i - 1) \in finished /\ i - 1 \in 1..Steps
      BY <2>1, <2>2, <1>2 DEF Preceding
    <3> QED BY <3>1, <1>1 DEF StoredBefore
  <2>3. CASE i = 1 /\ k > 0
    <3>1. Mma(u, k - 1, w, Steps) \in finished /\ k - 1 \in Round(shape)
      BY <2>1, <2>3, <1>2 DEF Preceding
    <3> QED BY <3>1, <1>1, <1>2 DEF StoredBefore
  <2>4. CASE k = 0
    <3>1. PICK p \in Previous(shape, u) :
             p \in Tiles(shape) /\ p < u /\ BlockOf(shape, p) = BlockOf(shape, u) /\ t <= p
      BY <1>1, PreviousTile
    <3>2. Outs(p) \subseteq finished
      BY <2>1, <2>4, <3>1 DEF PostStore
    <3>3. CASE p = t
      BY <3>2, <3>3, <1>1
    <3>4. CASE p # t
      <4>1. Mma(p, shape.k - 1, w, 1) \in finished
        BY <3>1, <3>2, <1>2, StoresAreLast DEF Mmas
      <4>2. t < p
        BY <3>1, <3>4, <1>1, GemmSizes
      <4> QED BY <4>1, <4>2, <3>1, <1>1, <1>2 DEF StoredBefore
    <3> QED BY <3>3, <3>4
  <2> QED BY <2>2, <2>3, <2>4, <1>2
<1> QED BY <1>3, <1>4

\* When the MMAs of the last round of a tile are finished, so are all of the tile.
LEMMA LastRoundIsLast ==
    ASSUME IsGemm, MmaChain, NEW t \in Tiles(shape), NEW r \in Round(shape),
           Mmas(t, r) \subseteq finished, NEW k \in Round(shape), k <= r
    PROVE  Mmas(t, k) \subseteq finished
<1>1. shape \in GemmShape /\ finished \subseteq issued /\ k \in Nat /\ r \in Nat /\ 1 \in 1..Steps
  BY GemmSizes DEF IsGemm, issued
<1>2. CASE k = r
  BY <1>2
<1>3. CASE k < r
  <2> SUFFICES ASSUME NEW w \in Consumer, NEW i \in 1..Steps PROVE Mma(t, k, w, i) \in finished
    BY DEF Mmas
  <2>1. Mma(t, r, w, 1) \in issued
    BY <1>1 DEF Mmas
  <2> QED BY <2>1, <1>1, <1>3 DEF MmaChain
<1> QED BY <1>1, <1>2, <1>3

LEMMA StageFreeKept == MmaChain /\ StageFree /\ [Next]_vars => StageFree'
<1> SUFFICES ASSUME MmaChain, StageFree, [Next]_vars, IsGemm, UseLast(shape),
                    NEW u \in Tiles(shape), NEW j \in Round(shape), NEW n \in Loads(u, j),
                    n \in issued'
             PROVE  /\ \A t \in Tiles(shape) : t < u /\ BlockOf(shape, t) = BlockOf(shape, u) =>
                          \A k \in Round(shape) : Mmas(t, k) \subseteq finished'
                    /\ \A k \in Round(shape) : k + 2 <= j => Mmas(u, k) \subseteq finished'
  BY OneStep DEF StageFree, IsGemm
<1>1. shape \in GemmShape /\ finished \subseteq finished' /\ finished \subseteq issued
  BY OneStep DEF IsGemm, issued
<1>2. Round(shape) = 0..shape.k - 1 /\ shape.k \in Nat \ {0} /\ shape.k - 1 \in Round(shape)
  BY <1>1, GemmSizes DEF Round
<1>3. \A t, k : \E l \in Loads(t, k) : TRUE
  BY GemmAssumption DEF Loads
<1>4. CASE n \in issued
  BY <1>1, <1>4 DEF StageFree
<1>5. CASE n \notin issued
  <2>1. LoadDeps(shape, u, j) \subseteq finished
    BY <1>5, GemmIssued
  <2>2. ASSUME NEW t \in Tiles(shape), t < u, BlockOf(shape, t) = BlockOf(shape, u),
               NEW k \in Round(shape)
        PROVE  Mmas(t, k) \subseteq finished
    <3>1. CASE j > 0
      <4>1. Loads(u, j - 1) \subseteq finished /\ j - 1 \in Round(shape)
        BY <2>1, <3>1, <1>2 DEF LoadDeps
      <4> QED BY <4>1, <2>2, <1>1, <1>3 DEF StageFree
    <3>2. CASE j = 0
      <4>1. PICK p \in Previous(shape, u) :
               p \in Tiles(shape) /\ p < u /\ BlockOf(shape, p) = BlockOf(shape, u) /\ t <= p
        BY <1>1, <2>2, PreviousTile
      <4>2. Loads(p, shape.k - 1) \subseteq finished /\ Mmas(p, shape.k - 1) \subseteq finished
        BY <2>1, <3>2, <4>1 DEF LoadDeps, CrossTile
      <4>3. CASE p = t
        BY <4>2, <4>3, <1>2, LastRoundIsLast
      <4>4. CASE p # t
        <5>1. t < p
          BY <4>1, <4>4, <1>1, GemmSizes
        <5> QED BY <5>1, <4>1, <4>2, <2>2, <1>1, <1>2, <1>3 DEF StageFree
      <4> QED BY <4>3, <4>4
    <3> QED BY <3>1, <3>2, <1>2
  <2>3. ASSUME NEW k \in Round(shape), k + 2 <= j
        PROVE  Mmas(u, k) \subseteq finished
    <3>1. j > 1 /\ j - 2 \in Round(shape) /\ k <= j - 2
      BY <2>3, <1>2
    <3>2. Mmas(u, j - 2) \subseteq finished
      BY <2>1, <3>1 DEF LoadDeps
    <3> QED BY <3>1, <3>2, LastRoundIsLast
  <2> QED BY <2>2, <2>3, <1>1
<1> QED BY <1>4, <1>5

\* Two rounds of a block that both have a buffer follow one another in one tile.
LEMMA Neighbours ==
    ASSUME IsGemm, UseLast(shape), StageFree,
           NEW t \in Tiles(shape), NEW k \in Round(shape), InUse(Loads(t, k), Mmas(t, k)),
           NEW u \in Tiles(shape), NEW j \in Round(shape), InUse(Loads(u, j), Mmas(u, j)),
           BlockOf(shape, t) = BlockOf(shape, u)
    PROVE  t = u /\ k - j \in -1..1
<1>1. shape \in GemmShape /\ t \in Int /\ u \in Int /\ k \in Int /\ j \in Int
  BY GemmSizes DEF IsGemm
<1>2. ~(Mmas(t, k) \subseteq finished) /\ ~(Mmas(u, j) \subseteq finished)
  BY DEF InUse
<1>3. (\E n \in Loads(t, k) : n \in issued) /\ (\E n \in Loads(u, j) : n \in issued)
  BY DEF InUse, issued
<1>4. ~(t < u) /\ ~(u < t)
  BY <1>2, <1>3 DEF StageFree
<1>5. t = u
  BY <1>1, <1>4
<1>6. ~(k + 2 <= j) /\ ~(j + 2 <= k)
  BY <1>2, <1>3, <1>5 DEF StageFree
<1> QED BY <1>1, <1>5, <1>6
-----------------------------------------------------------------------------
(* The FA3 graph                                                           *)

LEMMA FaGraphOf ==
    ASSUME TypeOK, ~IsGemm
    PROVE  /\ shape \in Fa3Shape /\ Nodes = FaNodes(shape)
           /\ \A n \in Nodes : /\ Deps[shape][n] = FaDeps(shape, n)
                               /\ IssueDeps[shape][n] = FaIssueDeps(shape, n)
BY DEF IsGemm, TypeOK, Nodes, Deps, IssueDeps

LEMMA FaSizes ==
    ASSUME NEW s \in Fa3Shape
    PROVE  /\ s.rounds \in Nat /\ Rounds(s) = 0..s.rounds - 1 /\ s.steps \in Nat \ {0}
           /\ 1 \in 1..s.steps /\ s.steps \in 1..s.steps /\ s.branches # {}
BY ShapeAssumption DEF IsFa3Shape, Rounds

\* The operations of a warp, by what they are.
Score(s, k, w) ==
    (UNION {All(s, x, k, w) : x \in Branched}) \union {One(x, k, w) : x \in Single \ {"acc_o_scale"}}

LEMMA WarpNodes ==
    ASSUME NEW s, NEW w
    PROVE  OfWarp(s, w) =
              UNION {Score(s, k, w) \union {One("acc_o_scale", k, w)}
                        \union Product(s, "SS", k, w) \union Product(s, "RS", k, w) : k \in Rounds(s)}
<1> DEFINE Parts(k) == (UNION {All(s, x, k, w) : x \in Branched}) \union {One(x, k, w) : x \in Single}
                          \union Product(s, "SS", k, w) \union Product(s, "RS", k, w)
           Stages(k) == Score(s, k, w) \union {One("acc_o_scale", k, w)}
                          \union Product(s, "SS", k, w) \union Product(s, "RS", k, w)
<1>1. ASSUME NEW k PROVE Parts(k) = Stages(k)
  <2>1. {One(x, k, w) : x \in Single} =
           {One(x, k, w) : x \in Single \ {"acc_o_scale"}} \union {One("acc_o_scale", k, w)}
    BY DEF Single
  <2> DEFINE branches == UNION {All(s, x, k, w) : x \in Branched}
             products == Product(s, "SS", k, w) \union Product(s, "RS", k, w)
             singles == {One(x, k, w) : x \in Single}
             scored == {One(x, k, w) : x \in Single \ {"acc_o_scale"}}
  <2>2. /\ Parts(k) = branches \union singles \union products
        /\ Stages(k) = branches \union scored \union {One("acc_o_scale", k, w)} \union products
    <3>1. Parts(k) = branches \union singles \union products
      <4>1. Parts(k) = branches \union singles \union Product(s, "SS", k, w) \union Product(s, "RS", k, w)
        BY Zenon
      <4> HIDE DEF Parts, branches, singles
      <4> QED BY <4>1
    <3>2. Stages(k) = branches \union scored \union {One("acc_o_scale", k, w)} \union products
      <4>1. Stages(k) = branches \union scored \union {One("acc_o_scale", k, w)}
                          \union Product(s, "SS", k, w) \union Product(s, "RS", k, w)
        BY Zenon DEF Score
      <4> HIDE DEF Stages, branches, scored
      <4> QED BY <4>1
    <3> QED BY <3>1, <3>2
  <2> HIDE DEF Parts, Stages, branches, products, singles, scored
  <2> QED BY <2>1, <2>2 DEF singles, scored
<1>2. OfWarp(s, w) = UNION {Parts(k) : k \in Rounds(s)}
  BY DEF OfWarp
<1> HIDE DEF Parts, Stages
<1>3. OfWarp(s, w) = UNION {Stages(k) : k \in Rounds(s)}
  BY <1>1, <1>2
<1> QED BY <1>3 DEF Stages

LEMMA FaMembers ==
    ASSUME NEW s
    PROVE  /\ \A w \in s.warps : OfWarp(s, w) \subseteq FaNodes(s)
           /\ LoadOf(s, "Q", 0) \subseteq FaNodes(s)
           /\ \A k \in Rounds(s) : LoadOf(s, "K", k) \union LoadOf(s, "V", k) \subseteq FaNodes(s)
           /\ Divs(s) \union FaPuts(s) \union FaOuts(s) \subseteq FaNodes(s)
<1> DEFINE operands == UNION {LoadOf(s, "K", j) \union LoadOf(s, "V", j) : j \in Rounds(s)}
           ofWarps == UNION {OfWarp(s, v) : v \in s.warps}
<1>1. FaNodes(s) = LoadOf(s, "Q", 0) \union operands \union ofWarps
                     \union Divs(s) \union FaPuts(s) \union FaOuts(s)
  BY Zenon DEF FaNodes
<1>2. ASSUME NEW w \in s.warps PROVE OfWarp(s, w) \subseteq ofWarps
  OBVIOUS
<1>3. ASSUME NEW k \in Rounds(s)
      PROVE  LoadOf(s, "K", k) \union LoadOf(s, "V", k) \subseteq operands
  OBVIOUS
<1> HIDE DEF operands, ofWarps
<1> QED BY <1>1, <1>2, <1>3

\* The places of the schedule.
LEMMA Places ==
    ASSUME NEW k, NEW w
    PROVE  /\ \A n \in Product(shape, "SS", k, w) : Place(n) = IF k = 0 THEN 0 ELSE 4 * k - 2
           /\ \A n \in Product(shape, "RS", k, w) : Place(n) = 4 * k + 4
           /\ \A n \in Score(shape, k, w) : Place(n) = 4 * k + 1
           /\ Place(One("acc_o_scale", k, w)) = IF k + 1 < shape.rounds THEN 4 * k + 3 ELSE 4 * k + 1
<1>1. \A n \in Product(shape, "SS", k, w) : n[1] = "SS" /\ n[2] = k
  BY DEF Product
<1>2. \A n \in Product(shape, "RS", k, w) : n[1] = "RS" /\ n[2] = k
  BY DEF Product
<1>3. \A n \in Score(shape, k, w) : n[1] \notin {"SS", "RS", "acc_o_scale"} /\ n[2] = k
  <2> SUFFICES ASSUME NEW n \in Score(shape, k, w)
               PROVE  n[1] \notin {"SS", "RS", "acc_o_scale"} /\ n[2] = k
    OBVIOUS
  <2>1. CASE n \in UNION {All(shape, x, k, w) : x \in Branched}
    <3>1. PICK x \in Branched : n \in All(shape, x, k, w)
      BY <2>1
    <3>2. n[1] = x /\ n[2] = k
      BY <3>1 DEF All
    <3> QED BY <3>2 DEF Branched
  <2>2. CASE n \in {One(x, k, w) : x \in Single \ {"acc_o_scale"}}
    <3>1. PICK x \in Single \ {"acc_o_scale"} : n = One(x, k, w)
      BY <2>2
    <3>2. n[1] = x /\ n[2] = k
      BY <3>1 DEF One
    <3> QED BY <3>2 DEF Single
  <2> QED BY <2>1, <2>2 DEF Score
<1>4. One("acc_o_scale", k, w)[1] = "acc_o_scale" /\ One("acc_o_scale", k, w)[2] = k
  BY DEF One
<1> QED BY <1>1, <1>2, <1>3, <1>4 DEF Place

\* What the operations of a warp wait for.
LEMMA WaitsOfProducts ==
    ASSUME NEW s, NEW k, NEW w, NEW i
    PROVE  /\ FaDeps(s, <<"SS", k, w, i>>) =
                 LoadOf(s, "Q", 0) \union LoadOf(s, "K", k) \union Chained(s, "SS", k, w, i)
           /\ FaDeps(s, <<"RS", k, w, i>>) =
                 LoadOf(s, "V", k) \union Chained(s, "RS", k, w, i)
                    \union {One(y, k, w) : y \in {"acc_s_cast", "acc_o_scale", "logsum"}}
           /\ FaIssueDeps(s, <<"SS", k, w, i>>) =
                 IF i = 1 /\ k > 0 THEN {One(y, k - 1, w) : y \in {"logsum", "acc_s_cast"}} ELSE {}
           /\ FaIssueDeps(s, <<"RS", k, w, i>>) = {}
BY DEF FaDeps, FaIssueDeps

LEMMA WaitsOfBranches ==
    ASSUME NEW s, NEW k, NEW w, NEW r
    PROVE  /\ FaDeps(s, <<"local_max", k, w, r>>) = {Last(s, "SS", k, w)}
           /\ FaDeps(s, <<"shfl_max", k, w, r>>) = {<<"local_max", k, w, r>>}
           /\ FaDeps(s, <<"reduce_max", k, w, r>>) = {<<"shfl_max", k, w, r>>}
           /\ FaDeps(s, <<"exp2", k, w, r>>) = {One("scores_scale", k, w)}
           /\ FaDeps(s, <<"local_sum", k, w, r>>) = {<<"exp2", k, w, r>>}
           /\ FaDeps(s, <<"shfl_sum", k, w, r>>) = {<<"local_sum", k, w, r>>}
           /\ FaDeps(s, <<"reduce_sum", k, w, r>>) = {<<"shfl_sum", k, w, r>>}
           /\ FaIssueDeps(s, <<"local_max", k, w, r>>) = ScoreWaits(s, k, w)
           /\ \A x \in Branched \ {"local_max"} : FaIssueDeps(s, <<x, k, w, r>>) = {}
BY DEF FaDeps, FaIssueDeps, Branched

LEMMA WaitsOfSingles ==
    ASSUME NEW s, NEW k, NEW w
    PROVE  /\ FaDeps(s, One("merge_max", k, w)) = All(s, "reduce_max", k, w)
           /\ FaDeps(s, One("scores_scale", k, w)) = {One("merge_max", k, w)}
           /\ FaDeps(s, One("acc_o_scale", k, w)) = {One("scores_scale", k, w)}
           /\ FaDeps(s, One("merge_sum", k, w)) = All(s, "reduce_sum", k, w)
           /\ FaDeps(s, One("logsum", k, w)) = {One("merge_sum", k, w), One("scores_scale", k, w)}
           /\ FaDeps(s, One("acc_s_cast", k, w)) = All(s, "exp2", k, w)
           /\ FaIssueDeps(s, One("acc_o_scale", k, w)) =
                 IF k + 1 < s.rounds THEN {Last(s, "SS", k + 1, w)} ELSE {}
           /\ \A x \in Single \ {"acc_o_scale"} : FaIssueDeps(s, One(x, k, w)) = {}
BY DEF FaDeps, FaIssueDeps, One, Single

LEMMA WaitsOfLoads ==
    ASSUME NEW s, NEW k
    PROVE  /\ \A n \in LoadOf(s, "Q", k) : FaDeps(s, n) = {} /\ FaIssueDeps(s, n) = {}
           /\ \A n \in LoadOf(s, "K", k) : FaDeps(s, n) = Consumed(s, "SS", k) /\ FaIssueDeps(s, n) = {}
           /\ \A n \in LoadOf(s, "V", k) : FaDeps(s, n) = Consumed(s, "RS", k) /\ FaIssueDeps(s, n) = {}
BY DEF LoadOf, FaDeps, FaIssueDeps

LEMMA WaitsAtTheEnd ==
    ASSUME NEW s
    PROVE  /\ \A w : FaDeps(s, One("acc_o_div", 0, w)) =
                       Products(s, "RS", s.rounds - 1) \union {One("logsum", s.rounds - 1, w)}
           /\ \A n \in FaPuts(s) : FaDeps(s, n) = Divs(s)
           /\ \A n \in FaOuts(s) : FaDeps(s, n) = FaPuts(s)
           /\ \A n \in Divs(s) \union FaPuts(s) \union FaOuts(s) : FaIssueDeps(s, n) = {}
BY DEF Divs, FaPuts, FaOuts, One, FaDeps, FaIssueDeps

LEMMA WarpMembers ==
    ASSUME NEW s, NEW k \in Rounds(s), NEW w
    PROVE  /\ Product(s, "SS", k, w) \union Product(s, "RS", k, w) \subseteq OfWarp(s, w)
           /\ Score(s, k, w) \subseteq OfWarp(s, w)
           /\ \A x \in Branched : All(s, x, k, w) \subseteq Score(s, k, w)
           /\ \A x \in Single \ {"acc_o_scale"} : One(x, k, w) \in Score(s, k, w)
           /\ One("acc_o_scale", k, w) \in OfWarp(s, w)
<1>1. \A x \in Branched : All(s, x, k, w) \subseteq Score(s, k, w)
  BY DEF Score
<1>2. \A x \in Single \ {"acc_o_scale"} : One(x, k, w) \in Score(s, k, w)
  BY DEF Score
<1> QED BY <1>1, <1>2, WarpNodes

\* The step of a graph of FA3, for the operations of a warp.
LEMMA FaIssued ==
    ASSUME TypeOK, ~IsGemm, [Next]_vars, NEW w \in shape.warps, NEW n \in OfWarp(shape, w),
           n \in issued' \ issued
    PROVE  FaDeps(shape, n) \subseteq finished /\ FaIssueDeps(shape, n) \subseteq issued
BY FaGraphOf, OneStep

LEMMA ProductChainKept == TypeOK /\ ProductChain /\ [Next]_vars => ProductChain'
<1> SUFFICES ASSUME TypeOK, ProductChain, [Next]_vars, ~IsGemm,
                    NEW x \in {"SS", "RS"}, NEW k \in Rounds(shape), NEW w \in shape.warps,
                    NEW i \in 1..shape.steps, <<x, k, w, i>> \in issued',
                    NEW j \in Rounds(shape), NEW h \in 1..shape.steps, j < k \/ (j = k /\ h < i)
             PROVE  <<x, j, w, h>> \in finished'
  BY OneStep DEF ProductChain, IsGemm
<1>1. shape \in Fa3Shape /\ finished \subseteq finished' /\ finished \subseteq issued
  BY OneStep, FaGraphOf DEF issued
<1>2. /\ shape.rounds \in Nat /\ Rounds(shape) = 0..shape.rounds - 1
      /\ shape.steps \in Nat /\ shape.steps \in 1..shape.steps /\ i \in Nat /\ h \in Nat
  BY <1>1, FaSizes
<1>3. CASE <<x, k, w, i>> \in issued
  BY <1>1, <1>3 DEF ProductChain
<1>4. CASE <<x, k, w, i>> \notin issued
  <2>1. Chained(shape, x, k, w, i) \subseteq finished
    <3>1. <<x, k, w, i>> \in OfWarp(shape, w)
      BY WarpMembers DEF Product
    <3>2. FaDeps(shape, <<x, k, w, i>>) \subseteq finished
      BY <3>1, <1>4, FaIssued
    <3>3. /\ Chained(shape, "SS", k, w, i) \subseteq FaDeps(shape, <<"SS", k, w, i>>)
          /\ Chained(shape, "RS", k, w, i) \subseteq FaDeps(shape, <<"RS", k, w, i>>)
      BY DEF FaDeps
    <3>4. Chained(shape, x, k, w, i) \subseteq FaDeps(shape, <<x, k, w, i>>)
      BY <3>3, Zenon
    <3> QED BY <3>2, <3>4
  <2>2. CASE i > 1
    <3>1. <<x, k, w, i - 1>> \in finished /\ i - 1 \in 1..shape.steps
      BY <2>1, <2>2, <1>2 DEF Chained
    <3>2. j < k \/ (j = k /\ h < i - 1) \/ (j = k /\ h = i - 1)
      BY <1>2, <2>2
    <3> QED BY <3>1, <3>2, <1>1 DEF ProductChain
  <2>3. CASE i = 1
    <3>1. k > 0 /\ j < k
      BY <2>3, <1>2
    <3>2. <<x, k - 1, w, shape.steps>> \in finished /\ k - 1 \in Rounds(shape)
      BY <2>1, <2>3, <3>1, <1>2 DEF Chained, Last
    <3>3. j < k - 1 \/ (j = k - 1 /\ h < shape.steps) \/ (j = k - 1 /\ h = shape.steps)
      BY <1>2, <3>1
    <3> QED BY <3>2, <3>3, <1>1, <1>2 DEF ProductChain
  <2> QED BY <2>2, <2>3, <1>2
<1> QED BY <1>3, <1>4

\* Two rounds that have a buffer for the same operand follow one another.
LEMMA FaNeighbours ==
    ASSUME TypeOK, Ordered, ~IsGemm, ProductChain,
           NEW x, NEW y, (x = "K" /\ y = "SS") \/ (x = "V" /\ y = "RS"),
           NEW k \in Rounds(shape), InUse(LoadOf(shape, x, k), Products(shape, y, k)),
           NEW j \in Rounds(shape), InUse(LoadOf(shape, x, j), Products(shape, y, j))
    PROVE  k - j \in -1..1
<1>1. /\ shape \in Fa3Shape /\ Nodes = FaNodes(shape)
      /\ \A n \in Nodes : Deps[shape][n] = FaDeps(shape, n)
  BY FaGraphOf
<1>2. Rounds(shape) \subseteq Nat /\ 1 \in 1..shape.steps /\ Rounds(shape) = 0..shape.rounds - 1
      /\ shape.rounds \in Nat
  BY <1>1, FaSizes
<1>3. ASSUME NEW a \in Rounds(shape), InUse(LoadOf(shape, x, a), Products(shape, y, a)),
             NEW b \in Rounds(shape), InUse(LoadOf(shape, x, b), Products(shape, y, b)),
             a + 2 <= b
      PROVE  FALSE
  <2>1. PICK n \in LoadOf(shape, x, b) : n \in issued
    BY <1>3 DEF InUse, issued
  <2>2. n \in Nodes
    BY <1>1, FaMembers
  <2>3. Deps[shape][n] = Consumed(shape, y, b)
    BY <1>1, <2>2, WaitsOfLoads
  <2>4. Products(shape, y, b - 2) \subseteq finished /\ b - 2 \in Rounds(shape)
    BY <2>1, <2>3, <1>2, <1>3 DEF Ordered, Consumed
  <2>5. ASSUME NEW w \in shape.warps, NEW i \in 1..shape.steps
        PROVE  <<y, a, w, i>> \in finished
    <3>1. <<y, b - 2, w, 1>> \in finished /\ <<y, b - 2, w, i>> \in finished
      BY <2>4, <1>2 DEF Products, Product
    <3>2. a < b - 2 \/ a = b - 2
      BY <1>2, <1>3
    <3> QED BY <3>1, <3>2, <2>4, <1>2 DEF ProductChain, issued
  <2>6. Products(shape, y, a) \subseteq finished
    BY <2>5 DEF Products, Product
  <2> QED BY <2>6, <1>3 DEF InUse
<1>4. ~(k + 2 <= j) /\ ~(j + 2 <= k)
  BY <1>3
<1> QED BY <1>2, <1>4

\* The places of a warp, one after the other.
LEMMA PlaceOf ==
    ASSUME ~IsGemm, TypeOK, NEW w, NEW m \in OfWarp(shape, w)
    PROVE  \E k \in Rounds(shape) :
              \/ m \in Product(shape, "SS", k, w) /\ Place(m) = IF k = 0 THEN 0 ELSE 4 * k - 2
              \/ m \in Score(shape, k, w) /\ Place(m) = 4 * k + 1
              \/ /\ m = One("acc_o_scale", k, w)
                 /\ Place(m) = IF k + 1 < shape.rounds THEN 4 * k + 3 ELSE 4 * k + 1
              \/ m \in Product(shape, "RS", k, w) /\ Place(m) = 4 * k + 4
<1>1. PICK k \in Rounds(shape) :
         \/ m \in Score(shape, k, w) \/ m = One("acc_o_scale", k, w)
         \/ m \in Product(shape, "SS", k, w) \/ m \in Product(shape, "RS", k, w)
  BY WarpNodes
<1> QED BY <1>1, Places

LEMMA AfterSS ==
    ASSUME ~IsGemm, TypeOK, ProductChain, NEW w \in shape.warps, NEW k \in Rounds(shape),
           Last(shape, "SS", k, w) \in issued, NEW p \in Int,
           p = IF k = 0 THEN 0 ELSE 4 * k - 2, Before(w, p)
    PROVE  Before(w, p + 1)
<1>1. /\ shape \in Fa3Shape /\ Rounds(shape) = 0..shape.rounds - 1 /\ shape.rounds \in Nat
      /\ shape.steps \in 1..shape.steps /\ finished \subseteq issued
  BY FaGraphOf, FaSizes DEF issued
<1> SUFFICES ASSUME NEW m \in OfWarp(shape, w), Place(m) < p + 1 PROVE m \in issued
  BY DEF Before
<1>2. PICK j \in Rounds(shape) :
         \/ m \in Product(shape, "SS", j, w) /\ Place(m) = IF j = 0 THEN 0 ELSE 4 * j - 2
         \/ m \in Score(shape, j, w) /\ Place(m) = 4 * j + 1
         \/ /\ m = One("acc_o_scale", j, w)
            /\ Place(m) = IF j + 1 < shape.rounds THEN 4 * j + 3 ELSE 4 * j + 1
         \/ m \in Product(shape, "RS", j, w) /\ Place(m) = 4 * j + 4
  BY PlaceOf
<1>3. CASE Place(m) < p
  BY <1>3 DEF Before
<1>4. CASE Place(m) = p
  <2>1. m \in Product(shape, "SS", k, w)
    BY <1>1, <1>2, <1>4
  <2>2. PICK i \in 1..shape.steps : m = <<"SS", k, w, i>>
    BY <2>1 DEF Product
  <2>3. CASE i = shape.steps
    BY <2>2, <2>3 DEF Last
  <2>4. CASE i < shape.steps
    BY <2>2, <2>4, <1>1 DEF ProductChain, Last
  <2> QED BY <2>3, <2>4, <1>1, FaSizes
<1>5. Place(m) \in Int
  BY <1>1, <1>2
<1> QED BY <1>3, <1>4, <1>5

LEMMA AfterRS ==
    ASSUME ~IsGemm, TypeOK, ProductChain, NEW w \in shape.warps, NEW k \in Rounds(shape),
           Last(shape, "RS", k, w) \in issued, Before(w, 4 * k + 4)
    PROVE  Before(w, 4 * k + 5)
<1>1. /\ shape \in Fa3Shape /\ Rounds(shape) = 0..shape.rounds - 1 /\ shape.rounds \in Nat
      /\ shape.steps \in 1..shape.steps /\ finished \subseteq issued
  BY FaGraphOf, FaSizes DEF issued
<1> SUFFICES ASSUME NEW m \in OfWarp(shape, w), Place(m) < 4 * k + 5 PROVE m \in issued
  BY DEF Before
<1>2. PICK j \in Rounds(shape) :
         \/ m \in Product(shape, "SS", j, w) /\ Place(m) = IF j = 0 THEN 0 ELSE 4 * j - 2
         \/ m \in Score(shape, j, w) /\ Place(m) = 4 * j + 1
         \/ /\ m = One("acc_o_scale", j, w)
            /\ Place(m) = IF j + 1 < shape.rounds THEN 4 * j + 3 ELSE 4 * j + 1
         \/ m \in Product(shape, "RS", j, w) /\ Place(m) = 4 * j + 4
  BY PlaceOf
<1>3. CASE Place(m) < 4 * k + 4
  BY <1>3 DEF Before
<1>4. CASE Place(m) = 4 * k + 4
  <2>1. m \in Product(shape, "RS", k, w)
    BY <1>1, <1>2, <1>4
  <2>2. PICK i \in 1..shape.steps : m = <<"RS", k, w, i>>
    BY <2>1 DEF Product
  <2>3. CASE i = shape.steps
    BY <2>2, <2>3 DEF Last
  <2>4. CASE i < shape.steps
    BY <2>2, <2>4, <1>1 DEF ProductChain, Last
  <2> QED BY <2>3, <2>4, <1>1, FaSizes
<1>5. Place(m) \in Int
  BY <1>1, <1>2
<1> QED BY <1>3, <1>4, <1>5, <1>1

\* The last two operations of a score: all of it has been issued before them.
LEMMA ScoreDone ==
    ASSUME ~IsGemm, TypeOK, Ordered, NEW w \in shape.warps, NEW k \in Rounds(shape),
           One("logsum", k, w) \in issued, One("acc_s_cast", k, w) \in issued
    PROVE  Score(shape, k, w) \subseteq issued
<1>1. /\ shape \in Fa3Shape /\ Nodes = FaNodes(shape) /\ finished \subseteq issued
      /\ \A n \in Nodes : Deps[shape][n] = FaDeps(shape, n)
  BY FaGraphOf DEF issued
<1>2. \A n \in Score(shape, k, w) : n \in issued => FaDeps(shape, n) \subseteq finished
  <2>1. Score(shape, k, w) \subseteq Nodes
    BY <1>1, WarpMembers, FaMembers
  <2> QED BY <2>1, <1>1 DEF Ordered
<1>3. \A x \in Branched, r \in shape.branches : <<x, k, w, r>> \in Score(shape, k, w)
  BY WarpMembers DEF All
<1>4. \A x \in Single \ {"acc_o_scale"} : One(x, k, w) \in Score(shape, k, w)
  BY WarpMembers
<1>5. One("merge_sum", k, w) \in finished /\ One("scores_scale", k, w) \in finished
  <2>1. One("logsum", k, w) \in Score(shape, k, w)
    BY <1>4 DEF Single
  <2>2. FaDeps(shape, One("logsum", k, w)) = {One("merge_sum", k, w), One("scores_scale", k, w)}
    BY WaitsOfSingles
  <2> QED BY <2>1, <2>2, <1>2
<1>6. All(shape, "reduce_sum", k, w) \subseteq finished
  <2>1. One("merge_sum", k, w) \in Score(shape, k, w)
    BY <1>4 DEF Single
  <2> QED BY <2>1, <1>1, <1>2, <1>5, WaitsOfSingles
<1>7. One("merge_max", k, w) \in finished
  <2>1. One("scores_scale", k, w) \in Score(shape, k, w)
    BY <1>4 DEF Single
  <2> QED BY <2>1, <1>1, <1>2, <1>5, WaitsOfSingles
<1>8. All(shape, "reduce_max", k, w) \subseteq finished
  <2>1. One("merge_max", k, w) \in Score(shape, k, w)
    BY <1>4 DEF Single
  <2> QED BY <2>1, <1>1, <1>2, <1>7, WaitsOfSingles
<1>9. ASSUME NEW r \in shape.branches
      PROVE  \A x \in Branched : <<x, k, w, r>> \in finished
  <2>1. \A x \in Branched : <<x, k, w, r>> \in issued => FaDeps(shape, <<x, k, w, r>>) \subseteq finished
    BY <1>2, <1>3
  <2>2. <<"reduce_sum", k, w, r>> \in finished /\ <<"reduce_max", k, w, r>> \in finished
    BY <1>6, <1>8 DEF All
  <2>6. /\ <<"shfl_sum", k, w, r>> \in FaDeps(shape, <<"reduce_sum", k, w, r>>)
        /\ <<"shfl_max", k, w, r>> \in FaDeps(shape, <<"reduce_max", k, w, r>>)
        /\ <<"local_sum", k, w, r>> \in FaDeps(shape, <<"shfl_sum", k, w, r>>)
        /\ <<"local_max", k, w, r>> \in FaDeps(shape, <<"shfl_max", k, w, r>>)
        /\ <<"exp2", k, w, r>> \in FaDeps(shape, <<"local_sum", k, w, r>>)
    BY DEF FaDeps
  <2>3. <<"shfl_sum", k, w, r>> \in finished /\ <<"shfl_max", k, w, r>> \in finished
    BY <2>1, <2>2, <2>6, <1>1 DEF Branched
  <2>4. <<"local_sum", k, w, r>> \in finished /\ <<"local_max", k, w, r>> \in finished
    BY <2>1, <2>3, <2>6, <1>1 DEF Branched
  <2>5. <<"exp2", k, w, r>> \in finished
    BY <2>1, <2>4, <2>6, <1>1 DEF Branched
  <2> QED BY <2>2, <2>3, <2>4, <2>5 DEF Branched
<1>10. ASSUME NEW n \in Score(shape, k, w) PROVE n \in issued
  <2>1. CASE n \in UNION {All(shape, x, k, w) : x \in Branched}
    BY <2>1, <1>1, <1>9 DEF All
  <2>2. CASE n \in {One(x, k, w) : x \in Single \ {"acc_o_scale"}}
    <3>1. PICK x \in Single \ {"acc_o_scale"} : n = One(x, k, w)
      BY <2>2
    <3> QED BY <3>1, <1>1, <1>5, <1>7 DEF Single
  <2> QED BY <2>1, <2>2 DEF Score
<1> QED BY <1>10

\* A score that has been issued but for the scaling of the accumulator: what follows
\* in the schedule is SS of the next round.
LEMMA AfterScore ==
    ASSUME ~IsGemm, TypeOK, Ordered, NEW w \in shape.warps, NEW k \in Rounds(shape),
           One("logsum", k, w) \in issued, One("acc_s_cast", k, w) \in issued,
           k + 1 < shape.rounds \/ One("acc_o_scale", k, w) \in issued,
           Before(w, 4 * k + 1)
    PROVE  /\ Before(w, 4 * k + 2)
           /\ k + 1 = shape.rounds => Before(w, 4 * k + 4)
<1>1. shape \in Fa3Shape /\ Rounds(shape) = 0..shape.rounds - 1 /\ shape.rounds \in Nat
  BY FaGraphOf, FaSizes
<1>2. Score(shape, k, w) \subseteq issued
  BY ScoreDone
<1>3. ASSUME NEW m \in OfWarp(shape, w),
             Place(m) < 4 * k + 2 \/ (k + 1 = shape.rounds /\ Place(m) < 4 * k + 4)
      PROVE  m \in issued
  <2>1. PICK j \in Rounds(shape) :
           \/ m \in Product(shape, "SS", j, w) /\ Place(m) = IF j = 0 THEN 0 ELSE 4 * j - 2
           \/ m \in Score(shape, j, w) /\ Place(m) = 4 * j + 1
           \/ /\ m = One("acc_o_scale", j, w)
              /\ Place(m) = IF j + 1 < shape.rounds THEN 4 * j + 3 ELSE 4 * j + 1
           \/ m \in Product(shape, "RS", j, w) /\ Place(m) = 4 * j + 4
    BY PlaceOf
  <2>2. CASE Place(m) < 4 * k + 1
    BY <2>2 DEF Before
  <2>3. CASE Place(m) >= 4 * k + 1
    <3>1. j = k /\ (m \in Score(shape, k, w) \/ (m = One("acc_o_scale", k, w) /\ k + 1 >= shape.rounds))
      BY <2>1, <2>3, <1>1, <1>3
    <3> QED BY <3>1, <1>1, <1>2
  <2> QED BY <2>1, <2>2, <2>3, <1>1
<1> QED BY <1>3 DEF Before

\* An operation that is issued has all of the places before its own behind it.
LEMMA NewInPlace ==
    ASSUME ~IsGemm, TypeOK, Ordered, ProductChain, InPlace, [Next]_vars,
           NEW w \in shape.warps, NEW n \in OfWarp(shape, w), n \in issued' \ issued
    PROVE  Before(w, Place(n))
<1>1. /\ shape \in Fa3Shape /\ Rounds(shape) = 0..shape.rounds - 1 /\ shape.rounds \in Nat
      /\ 1 \in 1..shape.steps /\ shape.steps \in Nat /\ finished \subseteq issued
  BY FaGraphOf, FaSizes DEF issued
<1>2. FaDeps(shape, n) \subseteq issued /\ FaIssueDeps(shape, n) \subseteq issued
  BY <1>1, FaIssued
<1>3. \A m \in OfWarp(shape, w) : m \in issued => Before(w, Place(m))
  BY DEF InPlace
<1>4. PICK k \in Rounds(shape) :
         \/ n \in Product(shape, "SS", k, w) /\ Place(n) = IF k = 0 THEN 0 ELSE 4 * k - 2
         \/ n \in Score(shape, k, w) /\ Place(n) = 4 * k + 1
         \/ /\ n = One("acc_o_scale", k, w)
            /\ Place(n) = IF k + 1 < shape.rounds THEN 4 * k + 3 ELSE 4 * k + 1
         \/ n \in Product(shape, "RS", k, w) /\ Place(n) = 4 * k + 4
  BY PlaceOf
<1>5. \A j \in Rounds(shape) : \A m \in Score(shape, j, w) :
         m \in issued => Before(w, 4 * j + 1)
  BY <1>3, WarpMembers, Places
<1>6. CASE n \in Product(shape, "SS", k, w)
  <2>1. PICK i \in 1..shape.steps : n = <<"SS", k, w, i>>
    BY <1>6 DEF Product
  <2>2. CASE i > 1
    <3>1. <<"SS", k, w, i - 1>> \in FaDeps(shape, n) /\ i - 1 \in 1..shape.steps
      BY <2>1, <2>2, <1>1 DEF FaDeps, Chained
    <3>2. <<"SS", k, w, i - 1>> \in Product(shape, "SS", k, w)
      BY <3>1 DEF Product
    <3> QED BY <3>1, <3>2, <1>2, <1>3, <1>6, WarpMembers, Places
  <2>3. CASE k = 0
    <3>1. Place(n) = 0
      BY <2>3, <1>6, Places
    <3>2. \A m \in OfWarp(shape, w) : ~(Place(m) < 0)
      <4> SUFFICES ASSUME NEW m \in OfWarp(shape, w) PROVE ~(Place(m) < 0)
        OBVIOUS
      <4> QED BY <1>1, PlaceOf
    <3> QED BY <3>1, <3>2 DEF Before
  <2>4. CASE i = 1 /\ k > 0
    <3>1. One("logsum", k - 1, w) \in issued /\ One("acc_s_cast", k - 1, w) \in issued
      BY <2>1, <2>4, <1>2 DEF FaIssueDeps
    <3>2. k - 1 \in Rounds(shape) /\ (k - 1) + 1 < shape.rounds
      BY <2>4, <1>1
    <3>3. Before(w, 4 * (k - 1) + 1)
      BY <3>1, <3>2, <1>5, WarpMembers DEF Single
    <3>4. Before(w, 4 * (k - 1) + 2)
      BY <3>1, <3>2, <3>3, AfterScore
    <3>5. Place(n) = 4 * (k - 1) + 2
      BY <1>1, <1>6, <2>4, Places
    <3> QED BY <3>4, <3>5
  <2> QED BY <2>2, <2>3, <2>4, <1>1
<1>7. CASE n = One("acc_o_scale", k, w)
  <2>1. CASE k + 1 < shape.rounds
    <3>1. Last(shape, "SS", k + 1, w) \in issued /\ k + 1 \in Rounds(shape)
      BY <1>1, <1>2, <1>7, <2>1, WaitsOfSingles
    <3>2. Last(shape, "SS", k + 1, w) \in Product(shape, "SS", k + 1, w)
      BY <1>1 DEF Last, Product
    <3>3. Before(w, 4 * (k + 1) - 2)
      <4>1. Place(Last(shape, "SS", k + 1, w)) = 4 * (k + 1) - 2
        BY <3>1, <3>2, <1>1, Places
      <4> QED BY <4>1, <3>1, <3>2, <1>3, WarpMembers
    <3>4. Before(w, 4 * (k + 1) - 2 + 1)
      BY <3>1, <3>3, <1>1, AfterSS
    <3>5. Place(n) = 4 * (k + 1) - 2 + 1
      BY <1>1, <1>7, <2>1, Places
    <3> QED BY <3>4, <3>5
  <2>2. CASE ~(k + 1 < shape.rounds)
    <3>1. One("scores_scale", k, w) \in issued
      BY <1>2, <1>7, WaitsOfSingles
    <3>2. Before(w, 4 * k + 1)
      BY <3>1, <1>5, WarpMembers DEF Single
    <3> QED BY <3>2, <2>2, <1>7, Places
  <2> QED BY <2>1, <2>2
<1>8. CASE n \in Product(shape, "RS", k, w)
  <2>1. PICK i \in 1..shape.steps : n = <<"RS", k, w, i>>
    BY <1>8 DEF Product
  <2>2. CASE i > 1
    <3>1. <<"RS", k, w, i - 1>> \in FaDeps(shape, n) /\ i - 1 \in 1..shape.steps
      BY <2>1, <2>2, <1>1 DEF FaDeps, Chained
    <3>2. <<"RS", k, w, i - 1>> \in Product(shape, "RS", k, w)
      BY <3>1 DEF Product
    <3> QED BY <3>1, <3>2, <1>2, <1>3, <1>8, WarpMembers, Places
  <2>3. CASE i = 1
    <3>1. /\ One("logsum", k, w) \in issued /\ One("acc_s_cast", k, w) \in issued
          /\ One("acc_o_scale", k, w) \in issued
      BY <2>1, <1>2 DEF FaDeps
    <3>2. Place(n) = 4 * k + 4
      BY <1>8, Places
    <3>3. CASE k + 1 < shape.rounds
      <4>1. Before(w, 4 * k + 3)
        BY <3>1, <3>3, <1>3, WarpMembers, Places
      <4> SUFFICES ASSUME NEW m \in OfWarp(shape, w), Place(m) < 4 * k + 4 PROVE m \in issued
        BY <3>2 DEF Before
      <4>2. CASE Place(m) < 4 * k + 3
        BY <4>1, <4>2 DEF Before
      <4>3. CASE ~(Place(m) < 4 * k + 3)
        <5>1. m = One("acc_o_scale", k, w)
          BY <4>3, <1>1, PlaceOf
        <5> QED BY <5>1, <3>1
      <4> QED BY <4>2, <4>3
    <3>4. CASE k + 1 = shape.rounds
      <4>1. Before(w, 4 * k + 1)
        BY <3>1, <1>5, WarpMembers DEF Single
      <4> QED BY <4>1, <3>1, <3>2, <3>4, AfterScore
    <3> QED BY <3>3, <3>4, <1>1
  <2> QED BY <2>2, <2>3, <1>1
<1>9. CASE n \in Score(shape, k, w)
  <2>1. Place(n) = 4 * k + 1
    BY <1>9, Places
  <2>2. CASE \E m \in Score(shape, k, w) : m \in FaDeps(shape, n)
    BY <2>1, <2>2, <1>2, <1>5
  <2>3. CASE \E r \in shape.branches : n = <<"local_max", k, w, r>>
    <3>1. PICK r \in shape.branches : n = <<"local_max", k, w, r>>
      BY <2>3
    <3>2. Last(shape, "SS", k, w) \in issued /\ ScoreWaits(shape, k, w) \subseteq issued
      <4>1. Last(shape, "SS", k, w) \in FaDeps(shape, n) /\ FaIssueDeps(shape, n) = ScoreWaits(shape, k, w)
        BY <3>1 DEF FaDeps, FaIssueDeps
      <4> QED BY <4>1, <1>2
    <3>3. CASE k = 0
      <4>1. Last(shape, "SS", k, w) \in Product(shape, "SS", k, w)
        BY <1>1 DEF Last, Product
      <4>2. Before(w, 0)
        BY <4>1, <3>2, <3>3, <1>3, WarpMembers, Places
      <4>3. Before(w, 0 + 1)
        BY <4>2, <3>2, <3>3, AfterSS
      <4> QED BY <4>3, <3>3, <2>1
    <3>4. CASE k > 0
      <4>1. Last(shape, "RS", k - 1, w) \in issued /\ k - 1 \in Rounds(shape)
        BY <3>2, <3>4, <1>1 DEF ScoreWaits
      <4>2. Last(shape, "RS", k - 1, w) \in Product(shape, "RS", k - 1, w)
        BY <1>1 DEF Last, Product
      <4>3. Before(w, 4 * (k - 1) + 4)
        BY <4>1, <4>2, <1>3, WarpMembers, Places
      <4>4. Before(w, 4 * (k - 1) + 5)
        BY <4>1, <4>3, AfterRS
      <4>5. Place(n) = 4 * (k - 1) + 5
        BY <2>1, <1>1
      <4> QED BY <4>4, <4>5
    <3> QED BY <3>3, <3>4, <1>1
  <2>4. CASE n \in UNION {All(shape, x, k, w) : x \in Branched}
    <3>1. PICK x \in Branched, r \in shape.branches : n = <<x, k, w, r>>
      BY <2>4 DEF All
    <3>2. \A y \in Branched : <<y, k, w, r>> \in Score(shape, k, w)
      BY WarpMembers DEF All
    <3>3. One("scores_scale", k, w) \in Score(shape, k, w)
      BY WarpMembers DEF Single
    <3>4. /\ <<"shfl_sum", k, w, r>> \in FaDeps(shape, <<"reduce_sum", k, w, r>>)
          /\ <<"shfl_max", k, w, r>> \in FaDeps(shape, <<"reduce_max", k, w, r>>)
          /\ <<"local_sum", k, w, r>> \in FaDeps(shape, <<"shfl_sum", k, w, r>>)
          /\ <<"local_max", k, w, r>> \in FaDeps(shape, <<"shfl_max", k, w, r>>)
          /\ <<"exp2", k, w, r>> \in FaDeps(shape, <<"local_sum", k, w, r>>)
          /\ One("scores_scale", k, w) \in FaDeps(shape, <<"exp2", k, w, r>>)
      BY DEF FaDeps
    <3> QED BY <3>1, <3>2, <3>3, <3>4, <2>2, <2>3 DEF Branched
  <2>5. CASE n \in {One(x, k, w) : x \in Single \ {"acc_o_scale"}}
    <3>1. PICK x \in Single \ {"acc_o_scale"} : n = One(x, k, w)
      BY <2>5
    <3>2. PICK r \in shape.branches : TRUE
      BY <1>1, FaSizes
    <3>3. \A y \in Branched : <<y, k, w, r>> \in Score(shape, k, w)
      BY WarpMembers DEF All
    <3>4. \A y \in Single \ {"acc_o_scale"} : One(y, k, w) \in Score(shape, k, w)
      BY WarpMembers
    <3>5. /\ <<"reduce_max", k, w, r>> \in FaDeps(shape, One("merge_max", k, w))
          /\ <<"reduce_sum", k, w, r>> \in FaDeps(shape, One("merge_sum", k, w))
          /\ <<"exp2", k, w, r>> \in FaDeps(shape, One("acc_s_cast", k, w))
          /\ One("merge_max", k, w) \in FaDeps(shape, One("scores_scale", k, w))
          /\ One("merge_sum", k, w) \in FaDeps(shape, One("logsum", k, w))
      BY DEF FaDeps, One, All
    <3> QED BY <3>1, <3>3, <3>4, <3>5, <2>2 DEF Branched, Single
  <2> QED BY <2>4, <2>5, <1>9 DEF Score
<1> QED BY <1>4, <1>6, <1>7, <1>8, <1>9

LEMMA InPlaceKept ==
    TypeOK /\ Ordered /\ ProductChain /\ InPlace /\ [Next]_vars => InPlace'
<1> SUFFICES ASSUME TypeOK, Ordered, ProductChain, InPlace, [Next]_vars, ~IsGemm,
                    NEW w \in shape.warps, NEW n \in OfWarp(shape, w), n \in issued',
                    NEW m \in OfWarp(shape, w), Place(m) < Place(n)
             PROVE  m \in issued'
  BY OneStep DEF InPlace, IsGemm, Before, Place
<1>1. issued \subseteq issued'
  BY OneStep
<1>2. CASE n \in issued
  BY <1>1, <1>2 DEF InPlace, Before
<1>3. CASE n \notin issued
  BY <1>1, <1>3, NewInPlace DEF Before
<1> QED BY <1>2, <1>3
-----------------------------------------------------------------------------
(* Dead ends                                                               *)

\* When nothing is running and nothing is ready, what has all it waits for is finished.
LEMMA NothingReady ==
    ASSUME TypeOK, running = {}, Ready = {}, NEW n \in Nodes,
           Deps[shape][n] \subseteq finished, IssueDeps[shape][n] \subseteq finished
    PROVE  n \in finished
BY DEF Ready, issued

Done(t) ==
    /\ Puts(t) \subseteq finished /\ Outs(t) \subseteq finished
    /\ \A k \in Round(shape) : Loads(t, k) \subseteq finished /\ Mmas(t, k) \subseteq finished

\* The rounds of a tile, one after the other, and then its stores.
LEMMA TileDone ==
    ASSUME TypeOK, IsGemm, running = {}, Ready = {}, NEW t \in Tiles(shape),
           \A u \in Previous(shape, t) : Done(u)
    PROVE  Done(t)
<1>1. shape \in GemmShape /\ Nodes = GemmNodes(shape)
  BY GemmGraphOf
<1>2. ASSUME NEW n \in GemmNodes(shape), GemmDeps(shape, n) \subseteq finished,
             GemmIssueDeps(n) \subseteq finished
      PROVE  n \in finished
  BY <1>1, <1>2, GemmGraphOf, NothingReady
<1>3. /\ Round(shape) = 0..shape.k - 1 /\ Round(shape) \subseteq Nat /\ shape.k \in Nat \ {0}
      /\ shape.k - 1 \in Round(shape) /\ Steps \in 1..Steps
  BY <1>1, GemmSizes DEF Round
<1>4. \A k \in Round(shape) : Loads(t, k) \subseteq finished /\ Mmas(t, k) \subseteq finished
  <2> DEFINE Open == {k \in Round(shape) : ~(Loads(t, k) \subseteq finished /\ Mmas(t, k) \subseteq finished)}
  <2>1. CASE Open = {}
    BY <2>1
  <2>2. CASE Open # {}
    <3>1. PICK k \in Open : \A j \in Open : k <= j
      BY <2>2, <1>3, Least
    <3>2. \A j \in Round(shape) : j < k => Loads(t, j) \subseteq finished /\ Mmas(t, j) \subseteq finished
      BY <3>1, <1>3
    <3> HIDE DEF Open
    <3>3. k \in Round(shape) /\ ~(Loads(t, k) \subseteq finished /\ Mmas(t, k) \subseteq finished)
      BY <3>1 DEF Open
    <3>4. LoadDeps(shape, t, k) \subseteq finished
      <4>1. CrossTile(shape, t) \subseteq finished
        <5>1. ~UseLast(shape) => shape.k - 2 \in Round(shape)
          BY <1>3 DEF UseLast
        <5>2. (IF UseLast(shape) THEN shape.k - 1 ELSE shape.k - 2) \in Round(shape)
          BY <5>1, <1>3
        <5> QED BY <5>2, <1>3 DEF CrossTile, Done
      <4>2. k > 0 => Loads(t, k - 1) \subseteq finished
        BY <3>2, <3>3, <1>3
      <4>3. k > 1 => Mmas(t, k - 2) \subseteq finished
        BY <3>2, <3>3, <1>3
      <4> QED BY <4>1, <4>2, <4>3, <3>3, <1>3 DEF LoadDeps
    <3>5. Loads(t, k) \subseteq finished
      BY <3>3, <3>4, <1>1, <1>2, GemmMembers, WaitsOfLoad
    <3>6. PostStore(shape, t, k) \subseteq finished
      BY DEF PostStore, Done
    <3>7. ASSUME NEW w \in Consumer
          PROVE  \A i \in 1..Steps : Mma(t, k, w, i) \in finished
      <4> DEFINE Left == {i \in 1..Steps : Mma(t, k, w, i) \notin finished}
      <4>1. CASE Left = {}
        BY <4>1
      <4>2. CASE Left # {}
        <5>1. PICK i \in Left : \A h \in Left : i <= h
          <6>1. Left \in SUBSET Nat
            OBVIOUS
          <6> QED BY <6>1, <4>2, Least
        <5>2. \A h \in 1..Steps : h < i => Mma(t, k, w, h) \in finished
          BY <5>1
        <5> HIDE DEF Left
        <5>3. i \in 1..Steps /\ Mma(t, k, w, i) \notin finished
          BY <5>1 DEF Left
        <5>4. Preceding(t, k, w, i) \subseteq finished
          <6>1. CASE i > 1
            <7>1. i - 1 \in 1..Steps /\ i - 1 < i
              BY <6>1, <5>3, <1>3
            <7> QED BY <6>1, <7>1, <5>2 DEF Preceding
          <6>2. CASE i = 1 /\ k > 0
            <7>1. k - 1 \in Round(shape) /\ k - 1 < k
              BY <6>2, <3>3, <1>3
            <7>2. Mma(t, k - 1, w, Steps) \in finished
              BY <7>1, <3>2, <1>3 DEF Mmas
            <7> QED BY <6>2, <7>2 DEF Preceding
          <6>3. CASE i = 1 /\ ~(k > 0)
            BY <6>3 DEF Preceding
          <6> QED BY <6>1, <6>2, <6>3, <5>3
        <5>5. Mma(t, k, w, i) \in GemmNodes(shape)
          BY <5>3, <3>3, <1>1, GemmMembers DEF Mmas
        <5> QED BY <5>3, <5>4, <5>5, <3>5, <3>6, <1>2, WaitsOfMma
      <4> QED BY <4>1, <4>2
    <3> QED BY <3>3, <3>5, <3>7 DEF Mmas
  <2> QED BY <2>1, <2>2
<1>5. Puts(t) \subseteq finished
  <2> SUFFICES ASSUME NEW n \in Puts(t) PROVE n \in finished
    OBVIOUS
  <2>1. n \in GemmNodes(shape)
    BY <1>1, GemmMembers
  <2>2. GemmDeps(shape, n) = Mmas(t, shape.k - 1) /\ GemmIssueDeps(n) = {}
    BY WaitsOfPut
  <2> QED BY <2>1, <2>2, <1>2, <1>3, <1>4
<1>6. \A c \in 1..Chunks : Out(t, c) \in finished
  <2> DEFINE Left == {c \in 1..Chunks : Out(t, c) \notin finished}
  <2>1. CASE Left = {}
    BY <2>1
  <2>2. CASE Left # {}
    <3>1. PICK c \in Left : \A h \in Left : c <= h
      <4>1. Left \in SUBSET Nat
        OBVIOUS
      <4> QED BY <4>1, <2>2, Least
    <3>2. c > 1 => Out(t, c - 1) \in finished
      BY <3>1, GemmAssumption
    <3>3. Out(t, c) \in GemmNodes(shape) /\ Out(t, c) \notin finished
      BY <3>1, <1>1, GemmMembers DEF Outs
    <3> QED BY <3>2, <3>3, <1>2, <1>5, WaitsOfOut
  <2> QED BY <2>1, <2>2
<1> QED BY <1>4, <1>5, <1>6 DEF Done, Outs

LEMMA GemmNoDeadEnd ==
    ASSUME TypeOK, IsGemm, running = {}, Ready = {}
    PROVE  finished = Nodes
<1>1. shape \in GemmShape /\ Nodes = GemmNodes(shape) /\ Tiles(shape) \in SUBSET Nat
  BY GemmGraphOf, GemmSizes
<1> DEFINE Open == {t \in Tiles(shape) : ~Done(t)}
<1>2. Open = {}
  <2> SUFFICES ASSUME Open # {} PROVE FALSE
    OBVIOUS
  <2>1. PICK t \in Open : \A u \in Open : t <= u
    BY <1>1, Least
  <2>2. \A u \in Previous(shape, t) : Done(u)
    BY <2>1, <1>1 DEF Previous, Earlier
  <2> QED BY <2>1, <2>2, TileDone
<1>3. GemmNodes(shape) \subseteq finished
  BY <1>2 DEF GemmNodes, Done
<1> QED BY <1>1, <1>3 DEF TypeOK

\* The operations of a score, one after the other.
LEMMA ScoreFinished ==
    ASSUME TypeOK, ~IsGemm, running = {}, Ready = {},
           NEW k \in Rounds(shape), NEW w \in shape.warps,
           Last(shape, "SS", k, w) \in finished, ScoreWaits(shape, k, w) \subseteq finished
    PROVE  Score(shape, k, w) \subseteq finished
<1>1. ASSUME NEW n \in Score(shape, k, w), FaDeps(shape, n) \subseteq finished,
             FaIssueDeps(shape, n) \subseteq finished
      PROVE  n \in finished
  <2>1. n \in Nodes
    BY FaGraphOf, WarpMembers, FaMembers
  <2> QED BY <2>1, <1>1, FaGraphOf, NothingReady
<1>2. ASSUME NEW x \in Branched, NEW r \in shape.branches
      PROVE  <<x, k, w, r>> \in Score(shape, k, w)
  BY WarpMembers DEF All
<1>3. ASSUME NEW x \in Single \ {"acc_o_scale"}
      PROVE  One(x, k, w) \in Score(shape, k, w)
  BY WarpMembers
<1>4. ASSUME NEW r \in shape.branches
      PROVE  /\ <<"local_max", k, w, r>> \in finished /\ <<"shfl_max", k, w, r>> \in finished
             /\ <<"reduce_max", k, w, r>> \in finished
  <2>1. /\ <<"local_max", k, w, r>> \in Score(shape, k, w) /\ <<"shfl_max", k, w, r>> \in Score(shape, k, w)
        /\ <<"reduce_max", k, w, r>> \in Score(shape, k, w)
    BY <1>2 DEF Branched
  <2>2. /\ FaDeps(shape, <<"local_max", k, w, r>>) = {Last(shape, "SS", k, w)}
        /\ FaIssueDeps(shape, <<"local_max", k, w, r>>) = ScoreWaits(shape, k, w)
        /\ FaDeps(shape, <<"shfl_max", k, w, r>>) = {<<"local_max", k, w, r>>}
        /\ FaIssueDeps(shape, <<"shfl_max", k, w, r>>) = {}
        /\ FaDeps(shape, <<"reduce_max", k, w, r>>) = {<<"shfl_max", k, w, r>>}
        /\ FaIssueDeps(shape, <<"reduce_max", k, w, r>>) = {}
    BY DEF FaDeps, FaIssueDeps
  <2>3. <<"local_max", k, w, r>> \in finished
    BY <2>1, <2>2, <1>1
  <2>4. <<"shfl_max", k, w, r>> \in finished
    BY <2>1, <2>2, <2>3, <1>1
  <2> QED BY <2>1, <2>2, <2>3, <2>4, <1>1
<1>5. One("merge_max", k, w) \in finished
  <2>1. /\ FaDeps(shape, One("merge_max", k, w)) = All(shape, "reduce_max", k, w)
        /\ FaIssueDeps(shape, One("merge_max", k, w)) = {}
    BY DEF FaDeps, FaIssueDeps, One
  <2>2. All(shape, "reduce_max", k, w) \subseteq finished
    BY <1>4 DEF All
  <2> QED BY <2>1, <2>2, <1>1, <1>3 DEF Single
<1>6. One("scores_scale", k, w) \in finished
  <2>1. /\ FaDeps(shape, One("scores_scale", k, w)) = {One("merge_max", k, w)}
        /\ FaIssueDeps(shape, One("scores_scale", k, w)) = {}
    BY DEF FaDeps, FaIssueDeps, One
  <2> QED BY <2>1, <1>1, <1>3, <1>5 DEF Single
<1>7. ASSUME NEW r \in shape.branches
      PROVE  /\ <<"exp2", k, w, r>> \in finished /\ <<"local_sum", k, w, r>> \in finished
             /\ <<"shfl_sum", k, w, r>> \in finished /\ <<"reduce_sum", k, w, r>> \in finished
  <2>1. /\ <<"exp2", k, w, r>> \in Score(shape, k, w) /\ <<"local_sum", k, w, r>> \in Score(shape, k, w)
        /\ <<"shfl_sum", k, w, r>> \in Score(shape, k, w) /\ <<"reduce_sum", k, w, r>> \in Score(shape, k, w)
    BY <1>2 DEF Branched
  <2>2. /\ FaDeps(shape, <<"exp2", k, w, r>>) = {One("scores_scale", k, w)}
        /\ FaIssueDeps(shape, <<"exp2", k, w, r>>) = {}
        /\ FaDeps(shape, <<"local_sum", k, w, r>>) = {<<"exp2", k, w, r>>}
        /\ FaIssueDeps(shape, <<"local_sum", k, w, r>>) = {}
        /\ FaDeps(shape, <<"shfl_sum", k, w, r>>) = {<<"local_sum", k, w, r>>}
        /\ FaIssueDeps(shape, <<"shfl_sum", k, w, r>>) = {}
        /\ FaDeps(shape, <<"reduce_sum", k, w, r>>) = {<<"shfl_sum", k, w, r>>}
        /\ FaIssueDeps(shape, <<"reduce_sum", k, w, r>>) = {}
    BY DEF FaDeps, FaIssueDeps
  <2>3. <<"exp2", k, w, r>> \in finished
    BY <2>1, <2>2, <1>1, <1>6
  <2>4. <<"local_sum", k, w, r>> \in finished
    BY <2>1, <2>2, <2>3, <1>1
  <2>5. <<"shfl_sum", k, w, r>> \in finished
    BY <2>1, <2>2, <2>4, <1>1
  <2> QED BY <2>1, <2>2, <2>3, <2>4, <2>5, <1>1
<1>8. One("merge_sum", k, w) \in finished
  <2>1. /\ FaDeps(shape, One("merge_sum", k, w)) = All(shape, "reduce_sum", k, w)
        /\ FaIssueDeps(shape, One("merge_sum", k, w)) = {}
    BY DEF FaDeps, FaIssueDeps, One
  <2>2. All(shape, "reduce_sum", k, w) \subseteq finished
    BY <1>7 DEF All
  <2> QED BY <2>1, <2>2, <1>1, <1>3 DEF Single
<1>9. One("logsum", k, w) \in finished
  BY <1>1, <1>3, <1>6, <1>8, WaitsOfSingles DEF Single
<1>10. One("acc_s_cast", k, w) \in finished
  <2>1. /\ FaDeps(shape, One("acc_s_cast", k, w)) = All(shape, "exp2", k, w)
        /\ FaIssueDeps(shape, One("acc_s_cast", k, w)) = {}
    BY DEF FaDeps, FaIssueDeps, One
  <2>2. All(shape, "exp2", k, w) \subseteq finished
    BY <1>7 DEF All
  <2> QED BY <2>1, <2>2, <1>1, <1>3 DEF Single
<1>11. ASSUME NEW n \in Score(shape, k, w) PROVE n \in finished
  <2>1. CASE n \in UNION {All(shape, x, k, w) : x \in Branched}
    <3>1. PICK x \in Branched : n \in All(shape, x, k, w)
      BY <2>1
    <3>2. PICK r \in shape.branches : n = <<x, k, w, r>>
      BY <3>1 DEF All
    <3> QED BY <3>2, <1>4, <1>7 DEF Branched
  <2>2. CASE n \in {One(x, k, w) : x \in Single \ {"acc_o_scale"}}
    <3>1. PICK x \in Single \ {"acc_o_scale"} : n = One(x, k, w)
      BY <2>2
    <3> QED BY <3>1, <1>5, <1>6, <1>8, <1>9, <1>10 DEF Single
  <2> QED BY <2>1, <2>2 DEF Score
<1> QED BY <1>11

\* The MMAs of a product of a warp, once those of the round before are finished.
LEMMA ProductFinished ==
    ASSUME TypeOK, ~IsGemm, running = {}, Ready = {},
           NEW k \in Rounds(shape), NEW w \in shape.warps,
           NEW x \in {"SS", "RS"}, NEW ready, ready \subseteq finished,
           k > 0 => Last(shape, x, k - 1, w) \in finished,
           \A i \in 1..shape.steps :
              /\ FaDeps(shape, <<x, k, w, i>>) = ready \union Chained(shape, x, k, w, i)
              /\ FaIssueDeps(shape, <<x, k, w, i>>) \subseteq finished
    PROVE  Product(shape, x, k, w) \subseteq finished
<1>1. shape \in Fa3Shape /\ Nodes = FaNodes(shape) /\ shape.steps \in Nat
      /\ Rounds(shape) \subseteq Int
  BY FaGraphOf, FaSizes
<1> DEFINE Left == {i \in 1..shape.steps : <<x, k, w, i>> \notin finished}
<1>2. CASE Left = {}
  BY <1>2 DEF Product
<1>3. CASE Left # {}
  <2>1. PICK i \in Left : \A h \in Left : i <= h
    <3>1. Left \in SUBSET Nat
      OBVIOUS
    <3> QED BY <3>1, <1>3, Least
  <2>2. \A h \in 1..shape.steps : h < i => <<x, k, w, h>> \in finished
    BY <2>1
  <2> HIDE DEF Left
  <2>3. i \in 1..shape.steps /\ <<x, k, w, i>> \notin finished
    BY <2>1 DEF Left
  <2>4. Chained(shape, x, k, w, i) \subseteq finished
    <3>1. CASE i > 1
      <4>1. i - 1 \in 1..shape.steps /\ i - 1 < i
        BY <3>1, <2>3, <1>1
      <4> QED BY <3>1, <4>1, <2>2 DEF Chained
    <3>2. CASE i = 1 /\ k > 0
      BY <3>2 DEF Chained
    <3>3. CASE i = 1 /\ ~(k > 0)
      BY <3>3 DEF Chained
    <3> QED BY <3>1, <3>2, <3>3, <2>3
  <2>5. <<x, k, w, i>> \in Nodes
    <3>1. <<x, k, w, i>> \in Product(shape, x, k, w)
      BY <2>3 DEF Product
    <3> QED BY <3>1, <1>1, WarpMembers, FaMembers
  <2>6. FaDeps(shape, <<x, k, w, i>>) \subseteq finished /\ FaIssueDeps(shape, <<x, k, w, i>>) \subseteq finished
    BY <2>3, <2>4
  <2> QED BY <2>3, <2>5, <2>6, FaGraphOf, NothingReady
<1> QED BY <1>2, <1>3

LEMMA LoadsFinished ==
    ASSUME TypeOK, ~IsGemm, running = {}, Ready = {}, NEW k \in Rounds(shape)
    PROVE  /\ LoadOf(shape, "Q", 0) \subseteq finished
           /\ Consumed(shape, "SS", k) \subseteq finished => LoadOf(shape, "K", k) \subseteq finished
           /\ Consumed(shape, "RS", k) \subseteq finished => LoadOf(shape, "V", k) \subseteq finished
<1>1. \A n \in LoadOf(shape, "Q", 0) \union LoadOf(shape, "K", k) \union LoadOf(shape, "V", k) : n \in Nodes
  BY FaGraphOf, FaMembers
<1>2. \A n \in Nodes : FaDeps(shape, n) \subseteq finished /\ FaIssueDeps(shape, n) \subseteq finished
                       => n \in finished
  BY FaGraphOf, NothingReady
<1>3. \A n \in LoadOf(shape, "Q", 0) : FaDeps(shape, n) = {} /\ FaIssueDeps(shape, n) = {}
  BY WaitsOfLoads
<1>4. \A n \in LoadOf(shape, "K", k) : FaDeps(shape, n) = Consumed(shape, "SS", k) /\ FaIssueDeps(shape, n) = {}
  BY WaitsOfLoads
<1>5. \A n \in LoadOf(shape, "V", k) : FaDeps(shape, n) = Consumed(shape, "RS", k) /\ FaIssueDeps(shape, n) = {}
  BY WaitsOfLoads
<1> QED BY <1>1, <1>2, <1>3, <1>4, <1>5

\* Everything that comes before a place of the schedule, in any warp, is finished.
Passed(p) == \A v \in shape.warps : \A m \in OfWarp(shape, v) : Place(m) < p => m \in finished

\* The products of two rounds ago, of all warps, are done with their operands.
LEMMA OperandsConsumed ==
    ASSUME TypeOK, ~IsGemm, NEW k \in Rounds(shape), NEW x \in {"SS", "RS"}, NEW p \in Int, Passed(p),
           IF x = "SS" THEN 4 * k - 2 <= p ELSE 4 * k + 4 <= p
    PROVE  Consumed(shape, x, k) \subseteq finished
<1>1. shape \in Fa3Shape /\ Rounds(shape) = 0..shape.rounds - 1 /\ shape.rounds \in Nat
  BY FaGraphOf, FaSizes
<1>2. CASE k < 2
  BY <1>2 DEF Consumed
<1>3. CASE ~(k < 2)
  <2>1. k - 2 \in Rounds(shape) /\ Consumed(shape, x, k) = Products(shape, x, k - 2)
    BY <1>1, <1>3 DEF Consumed
  <2>2. ASSUME NEW v \in shape.warps, NEW m \in Product(shape, x, k - 2, v)
        PROVE  m \in finished
    <3>1. m \in OfWarp(shape, v)
      BY <2>1, WarpMembers
    <3>2. Place(m) < p
      <4>1. CASE x = "SS"
        <5>1. Place(m) = IF k - 2 = 0 THEN 0 ELSE 4 * (k - 2) - 2
          BY <4>1, <2>2, Places
        <5> QED BY <5>1, <4>1, <1>1, <1>3
      <4>2. CASE x = "RS"
        <5>1. Place(m) = 4 * (k - 2) + 4
          BY <4>2, <2>2, Places
        <5> QED BY <5>1, <4>2, <1>1, <1>3
      <4> QED BY <4>1, <4>2
    <3> QED BY <3>1, <3>2 DEF Passed
  <2> QED BY <2>1, <2>2 DEF Products
<1> QED BY <1>2, <1>3

LEMMA PlaceFinished ==
    ASSUME TypeOK, ~IsGemm, running = {}, Ready = {},
           NEW w \in shape.warps, NEW n \in OfWarp(shape, w), Passed(Place(n))
    PROVE  n \in finished
<1>1. /\ shape \in Fa3Shape /\ Rounds(shape) = 0..shape.rounds - 1 /\ shape.rounds \in Nat
      /\ shape.steps \in 1..shape.steps
  BY FaGraphOf, FaSizes
<1>2. PICK k \in Rounds(shape) :
         \/ n \in Product(shape, "SS", k, w) /\ Place(n) = IF k = 0 THEN 0 ELSE 4 * k - 2
         \/ n \in Score(shape, k, w) /\ Place(n) = 4 * k + 1
         \/ /\ n = One("acc_o_scale", k, w)
            /\ Place(n) = IF k + 1 < shape.rounds THEN 4 * k + 3 ELSE 4 * k + 1
         \/ n \in Product(shape, "RS", k, w) /\ Place(n) = 4 * k + 4
  BY PlaceOf
<1>3. \A m \in OfWarp(shape, w) : Place(m) < Place(n) => m \in finished
  BY DEF Passed
<1>4. ASSUME NEW j \in Rounds(shape)
      PROVE  /\ Last(shape, "SS", j, w) \in OfWarp(shape, w)
             /\ Place(Last(shape, "SS", j, w)) = IF j = 0 THEN 0 ELSE 4 * j - 2
             /\ Last(shape, "RS", j, w) \in OfWarp(shape, w)
             /\ Place(Last(shape, "RS", j, w)) = 4 * j + 4
  <2>1. /\ Last(shape, "SS", j, w) \in Product(shape, "SS", j, w)
        /\ Last(shape, "RS", j, w) \in Product(shape, "RS", j, w)
    BY <1>1 DEF Last, Product
  <2> QED BY <2>1, WarpMembers, Places
<1>5. ASSUME NEW j \in Rounds(shape), NEW x \in {"logsum", "acc_s_cast", "scores_scale"}
      PROVE  One(x, j, w) \in OfWarp(shape, w) /\ Place(One(x, j, w)) = 4 * j + 1
  <2>1. One(x, j, w) \in Score(shape, j, w)
    BY WarpMembers DEF Single
  <2> QED BY <2>1, WarpMembers, Places
\* What a place of its own or the places before let finish.
<1>6. Place(n) >= 4 * k + 1 => Score(shape, k, w) \subseteq finished
  <2> SUFFICES ASSUME Place(n) >= 4 * k + 1 PROVE Score(shape, k, w) \subseteq finished
    OBVIOUS
  <2>1. Last(shape, "SS", k, w) \in finished
    <3>1. k \in Nat /\ 4 * k - 2 < 4 * k + 1 /\ 0 < 4 * k + 1
      BY <1>1
    <3>2. Place(n) \in Int
      BY <1>1, <1>2
    <3>3. Place(Last(shape, "SS", k, w)) < Place(n)
      BY <3>1, <3>2, <1>4
    <3> QED BY <3>3, <1>3, <1>4
  <2>2. ScoreWaits(shape, k, w) \subseteq finished
    <3>1. CASE k > 0
      <4>1. k - 1 \in Rounds(shape) /\ 4 * (k - 1) + 4 < 4 * k + 1
        BY <3>1, <1>1
      <4>2. Last(shape, "RS", k - 1, w) \in finished
        BY <4>1, <1>1, <1>2, <1>3, <1>4
      <4> QED BY <4>2 DEF ScoreWaits
    <3>2. CASE ~(k > 0)
      BY <3>2 DEF ScoreWaits
    <3> QED BY <3>1, <3>2
  <2> QED BY <2>1, <2>2, ScoreFinished
<1>7. CASE n \in Score(shape, k, w)
  BY <1>1, <1>6, <1>7, Places
<1>8. CASE n = One("acc_o_scale", k, w)
  <2>1. Place(n) = IF k + 1 < shape.rounds THEN 4 * k + 3 ELSE 4 * k + 1
    BY <1>8, Places
  <2>2. One("scores_scale", k, w) \in finished
    <3>1. One("scores_scale", k, w) \in Score(shape, k, w)
      BY WarpMembers DEF Single
    <3> QED BY <3>1, <2>1, <1>1, <1>6
  <2>3. k + 1 < shape.rounds => Last(shape, "SS", k + 1, w) \in finished
    <3> SUFFICES ASSUME k + 1 < shape.rounds PROVE Last(shape, "SS", k + 1, w) \in finished
      OBVIOUS
    <3>1. k \in Nat /\ k + 1 \in Rounds(shape) /\ k + 1 # 0
      BY <1>1
    <3>2. Place(Last(shape, "SS", k + 1, w)) = 4 * (k + 1) - 2
      BY <3>1, <1>4
    <3>3. 4 * (k + 1) - 2 < 4 * k + 3
      BY <3>1
    <3> QED BY <3>1, <3>2, <3>3, <2>1, <1>3, <1>4
  <2>4. FaDeps(shape, n) \subseteq finished /\ FaIssueDeps(shape, n) \subseteq finished
    BY <2>2, <2>3, <1>8, WaitsOfSingles
  <2>5. n \in Nodes
    BY FaGraphOf, FaMembers
  <2> QED BY <2>4, <2>5, FaGraphOf, NothingReady
<1>9. CASE n \in Product(shape, "SS", k, w)
  <2>1. Place(n) = IF k = 0 THEN 0 ELSE 4 * k - 2
    BY <1>9, Places
  <2>2. Consumed(shape, "SS", k) \subseteq finished
    <3>1. Place(n) \in Int /\ 4 * k - 2 <= Place(n)
      BY <2>1, <1>1
    <3> QED BY <3>1, OperandsConsumed
  <2>3. LoadOf(shape, "Q", 0) \union LoadOf(shape, "K", k) \subseteq finished
    BY <2>2, LoadsFinished
  <2>4. k > 0 => /\ Last(shape, "SS", k - 1, w) \in finished
                 /\ One("logsum", k - 1, w) \in finished /\ One("acc_s_cast", k - 1, w) \in finished
    <3> SUFFICES ASSUME k > 0
                 PROVE  /\ Last(shape, "SS", k - 1, w) \in finished
                        /\ One("logsum", k - 1, w) \in finished /\ One("acc_s_cast", k - 1, w) \in finished
      OBVIOUS
    <3>1. k - 1 \in Rounds(shape) /\ 4 * (k - 1) + 1 < 4 * k - 2 /\ 4 * (k - 1) - 2 < 4 * k - 2
          /\ 0 < 4 * k - 2
      BY <1>1
    <3>2. Place(n) = 4 * k - 2
      BY <2>1, <1>1
    <3>3. Place(Last(shape, "SS", k - 1, w)) < Place(n)
      BY <3>1, <3>2, <1>4
    <3> QED BY <3>1, <3>2, <3>3, <1>3, <1>4, <1>5
  <2>5. ASSUME NEW i \in 1..shape.steps
        PROVE  /\ FaDeps(shape, <<"SS", k, w, i>>) =
                     (LoadOf(shape, "Q", 0) \union LoadOf(shape, "K", k)) \union Chained(shape, "SS", k, w, i)
               /\ FaIssueDeps(shape, <<"SS", k, w, i>>) \subseteq finished
    <3>1. FaIssueDeps(shape, <<"SS", k, w, i>>) =
             IF i = 1 /\ k > 0 THEN {One(y, k - 1, w) : y \in {"logsum", "acc_s_cast"}} ELSE {}
      BY WaitsOfProducts
    <3>2. FaDeps(shape, <<"SS", k, w, i>>) =
             LoadOf(shape, "Q", 0) \union LoadOf(shape, "K", k) \union Chained(shape, "SS", k, w, i)
      BY WaitsOfProducts
    <3> QED BY <3>1, <3>2, <2>4
  <2>6. Product(shape, "SS", k, w) \subseteq finished
    BY <2>3, <2>4, <2>5, ProductFinished
  <2> QED BY <2>6, <1>9
<1>10. CASE n \in Product(shape, "RS", k, w)
  <2>1. Place(n) = 4 * k + 4
    BY <1>10, Places
  <2>2. Consumed(shape, "RS", k) \subseteq finished
    <3>1. Place(n) \in Int /\ 4 * k + 4 <= Place(n)
      BY <2>1, <1>1
    <3> QED BY <3>1, OperandsConsumed
  <2>3. LoadOf(shape, "V", k) \subseteq finished
    BY <2>2, LoadsFinished
  <2>4. k > 0 => Last(shape, "RS", k - 1, w) \in finished
    <3>1. k > 0 => k - 1 \in Rounds(shape) /\ 4 * (k - 1) + 4 < 4 * k + 4
      BY <1>1
    <3> QED BY <3>1, <2>1, <1>3, <1>4
  <2>5. /\ One("logsum", k, w) \in finished /\ One("acc_s_cast", k, w) \in finished
        /\ One("acc_o_scale", k, w) \in finished
    <3>1. 4 * k + 1 < 4 * k + 4 /\ 4 * k + 3 < 4 * k + 4
      BY <1>1
    <3>2. One("acc_o_scale", k, w) \in OfWarp(shape, w) /\ Place(One("acc_o_scale", k, w)) < 4 * k + 4
      BY <3>1, WarpMembers, Places
    <3> QED BY <3>1, <3>2, <2>1, <1>3, <1>5
  <2> DEFINE ready == LoadOf(shape, "V", k) \union {One(y, k, w) : y \in {"acc_s_cast", "acc_o_scale", "logsum"}}
  <2>6. ready \subseteq finished
    BY <2>3, <2>5
  <2>7. ASSUME NEW i \in 1..shape.steps
        PROVE  /\ FaDeps(shape, <<"RS", k, w, i>>) = ready \union Chained(shape, "RS", k, w, i)
               /\ FaIssueDeps(shape, <<"RS", k, w, i>>) \subseteq finished
    <3>1. FaIssueDeps(shape, <<"RS", k, w, i>>) = {}
      BY WaitsOfProducts
    <3>2. FaDeps(shape, <<"RS", k, w, i>>) =
             LoadOf(shape, "V", k) \union Chained(shape, "RS", k, w, i)
                \union {One(y, k, w) : y \in {"acc_s_cast", "acc_o_scale", "logsum"}}
      BY DEF FaDeps
    <3> QED BY <3>1, <3>2
  <2> HIDE DEF ready
  <2>8. Product(shape, "RS", k, w) \subseteq finished
    BY <2>4, <2>6, <2>7, ProductFinished
  <2> QED BY <2>8, <1>10
<1> QED BY <1>2, <1>7, <1>8, <1>9, <1>10

LEMMA FaNoDeadEnd ==
    ASSUME TypeOK, ~IsGemm, running = {}, Ready = {}
    PROVE  finished = Nodes
<1>1. /\ shape \in Fa3Shape /\ Nodes = FaNodes(shape)
      /\ Rounds(shape) = 0..shape.rounds - 1 /\ shape.rounds \in Nat
  BY FaGraphOf, FaSizes
<1>2. \A n \in Nodes : FaDeps(shape, n) \subseteq finished /\ FaIssueDeps(shape, n) \subseteq finished
                       => n \in finished
  BY FaGraphOf, NothingReady
<1>3. \A w \in shape.warps : OfWarp(shape, w) \subseteq finished
  <2> DEFINE Open == UNION {{n \in OfWarp(shape, w) : n \notin finished} : w \in shape.warps}
             places == {Place(n) : n \in Open}
  <2> SUFFICES ASSUME Open # {} PROVE FALSE
    OBVIOUS
  <2>1. \A n \in Open : Place(n) \in Nat
    <3> SUFFICES ASSUME NEW w \in shape.warps, NEW n \in OfWarp(shape, w) PROVE Place(n) \in Nat
      OBVIOUS
    <3> QED BY <1>1, PlaceOf
  <2>2. places \in SUBSET Nat /\ places # {}
    BY <2>1
  <2>3. PICK p \in places : \A q \in places : p <= q
    BY <2>2, Least
  <2>4. PICK n \in Open : Place(n) = p
    BY <2>3
  <2>5. PICK w \in shape.warps : n \in OfWarp(shape, w) /\ n \notin finished
    OBVIOUS
  <2>6. Passed(Place(n))
    <3> SUFFICES ASSUME NEW v \in shape.warps, NEW m \in OfWarp(shape, v), Place(m) < Place(n),
                        m \notin finished
                 PROVE  FALSE
      BY DEF Passed
    <3>1. m \in Open
      OBVIOUS
    <3>2. p <= Place(m) /\ Place(m) \in Nat /\ p \in Nat
      BY <3>1, <2>1, <2>3, <2>4
    <3> QED BY <3>2, <2>4
  <2> QED BY <2>5, <2>6, PlaceFinished
<1>4. ASSUME NEW k \in Rounds(shape), NEW w \in shape.warps
      PROVE  Product(shape, "SS", k, w) \union Product(shape, "RS", k, w) \subseteq finished
  BY <1>3, WarpMembers
<1>5. ASSUME NEW k \in Rounds(shape)
      PROVE  Products(shape, "SS", k) \union Products(shape, "RS", k) \subseteq finished
  BY <1>4 DEF Products
<1>6. ASSUME NEW k \in Rounds(shape)
      PROVE  LoadOf(shape, "K", k) \union LoadOf(shape, "V", k) \subseteq finished
  <2>1. k >= 2 => k - 2 \in Rounds(shape)
    BY <1>1
  <2>2. Consumed(shape, "SS", k) \union Consumed(shape, "RS", k) \subseteq finished
    BY <2>1, <1>1, <1>5 DEF Consumed
  <2> QED BY <2>2, LoadsFinished
<1>7. LoadOf(shape, "Q", 0) \subseteq finished
  <2>1. LoadOf(shape, "Q", 0) \subseteq Nodes
    BY <1>1, FaMembers
  <2> QED BY <2>1, <1>2, WaitsOfLoads
<1>8. Divs(shape) \subseteq finished
  <2> SUFFICES ASSUME NEW n \in Divs(shape) PROVE n \in finished
    OBVIOUS
  <2>1. shape.rounds > 0 /\ shape.rounds - 1 \in Rounds(shape)
    BY <1>1 DEF Divs
  <2>2. PICK w \in shape.warps : n = One("acc_o_div", 0, w)
    BY DEF Divs
  <2>3. One("logsum", shape.rounds - 1, w) \in finished
    <3>1. One("logsum", shape.rounds - 1, w) \in OfWarp(shape, w)
      BY <2>1, WarpMembers DEF Single
    <3> QED BY <3>1, <1>3
  <2>4. FaDeps(shape, n) = Products(shape, "RS", shape.rounds - 1) \union {One("logsum", shape.rounds - 1, w)}
    BY <2>2, WaitsAtTheEnd
  <2>5. FaIssueDeps(shape, n) = {} /\ n \in Nodes
    BY <1>1, WaitsAtTheEnd, FaMembers
  <2> QED BY <2>1, <2>3, <2>4, <2>5, <1>2, <1>5
<1>9. FaPuts(shape) \subseteq finished
  <2>1. \A n \in FaPuts(shape) : n \in Nodes /\ FaDeps(shape, n) = Divs(shape) /\ FaIssueDeps(shape, n) = {}
    BY <1>1, WaitsAtTheEnd, FaMembers
  <2> QED BY <2>1, <1>2, <1>8
<1>10. FaOuts(shape) \subseteq finished
  <2>1. \A n \in FaOuts(shape) : n \in Nodes /\ FaDeps(shape, n) = FaPuts(shape) /\ FaIssueDeps(shape, n) = {}
    BY <1>1, WaitsAtTheEnd, FaMembers
  <2> QED BY <2>1, <1>2, <1>9
<1>11. FaNodes(shape) \subseteq finished
  <2>1. UNION {OfWarp(shape, w) : w \in shape.warps} \subseteq finished
    BY <1>3
  <2>2. UNION {LoadOf(shape, "K", k) \union LoadOf(shape, "V", k) : k \in Rounds(shape)} \subseteq finished
    BY <1>6
  <2> QED BY <2>1, <2>2, <1>7, <1>8, <1>9, <1>10 DEF FaNodes
<1> QED BY <1>1, <1>11 DEF TypeOK
-----------------------------------------------------------------------------
(* The walk over the tiles of C                                            *)

\* The id of the tile in row r and column c.
IdOf(s, r, c) == Group(s) * (s.m * (c \div Group(s)) + r) + (c % Group(s))

\* When the columns of C are a multiple of those visited together, the ids of the tiles
\* and the places in C are in one to one correspondence.
LEMMA WalkCovers ==
    ASSUME NEW s \in GemmShape, s.n % Group(s) = 0,
           NEW r \in 0..s.m - 1, NEW c \in 0..s.n - 1
    PROVE  {t \in Tiles(s) : Row(s, t) = r /\ Column(s, t) = c} = {IdOf(s, r, c)}
<1> DEFINE g == Group(s)
           d == c \div g
           b == c % g
           a == s.m * d + r
           q == s.n \div g
<1>1. g \in Nat \ {0} /\ s.m \in Nat \ {0} /\ s.n \in Nat \ {0} /\ r \in Nat /\ c \in Nat /\ r < s.m
  BY ShapeAssumption, GemmAssumption DEF Group, Smaller
<1>2. s.n % g = 0
  OBVIOUS
<1> HIDE DEF g
<1>3. d \in Nat /\ b \in 0..g - 1 /\ c = g * d + b
  BY <1>1, DivMod
<1>4. q \in Nat /\ s.n = g * q
  <2>1. s.n \div g \in Nat /\ s.n = g * (s.n \div g) + (s.n % g)
    BY <1>1, DivMod
  <2>2. g * (s.n \div g) \in Int
    BY <2>1, <1>1
  <2> QED BY <2>1, <2>2, <1>2
<1> HIDE DEF d, b, q
<1>5. d < q
  <2> SUFFICES ASSUME q <= d PROVE FALSE
    BY <1>3, <1>4
  <2>1. g * q <= g * d
    BY <1>1, <1>3, <1>4, TimesKeepsOrder
  <2> QED BY <2>1, <1>1, <1>3, <1>4
<1>6. a \in Nat /\ g * a \in Nat
  BY <1>1, <1>3
<1>7. a + 1 <= s.m * q
  <2>1. s.m * (d + 1) <= s.m * q
    BY <1>1, <1>3, <1>4, <1>5, TimesKeepsOrder
  <2>2. s.m * (d + 1) = s.m * d + s.m
    BY <1>1, <1>3
  <2> QED BY <2>1, <2>2, <1>1, <1>3, <1>4
<1> DEFINE t0 == g * a + b
<1>8. t0 \in 0..TotalTiles(s) - 1
  <2>1. g * (a + 1) <= g * (s.m * q)
    BY <1>1, <1>4, <1>6, <1>7, TimesKeepsOrder
  <2> HIDE DEF a
  <2>2. g * (a + 1) = g * a + g /\ g * (s.m * q) = s.m * s.n
    <3>1. g * (a + 1) = g * a + g
      BY <1>1, <1>6
    <3>2. \A x, y, z \in Int : x * (y * z) = y * (x * z)
      OBVIOUS
    <3> QED BY <3>1, <3>2, <1>1, <1>4
  <2>3. TotalTiles(s) = s.m * s.n
    BY DEF TotalTiles
  <2> QED BY <2>1, <2>2, <2>3, <1>1, <1>3, <1>6
<1>9. t0 \div g = a /\ t0 % g = b
  <2>1. t0 \in Nat
    BY <1>1, <1>3, <1>6
  <2>2. t0 \div g \in Nat /\ t0 % g \in 0..g - 1 /\ t0 = g * (t0 \div g) + (t0 % g)
    BY <2>1, <1>1, DivMod
  <2> HIDE DEF a
  <2>3. t0 = g * a + b
    OBVIOUS
  <2> HIDE DEF t0
  <2> QED BY <2>2, <2>3, <1>1, <1>3, <1>6, DivModUnique
<1>10. a \div s.m = d /\ a % s.m = r
  <2>1. a \div s.m \in Nat /\ a % s.m \in 0..s.m - 1 /\ a = s.m * (a \div s.m) + (a % s.m)
    BY <1>1, <1>6, DivMod
  <2>2. a = s.m * d + r /\ r \in 0..s.m - 1
    BY <1>1
  <2> HIDE DEF a
  <2> DEFINE e == a \div s.m
             h == a % s.m
             m == s.m
  <2>3. /\ e \in Int /\ d \in Int /\ m \in Nat \ {0} /\ h \in 0..m - 1 /\ r \in 0..m - 1
        /\ m * e + h = m * d + r
    BY <2>1, <2>2, <1>1, <1>3
  <2> HIDE DEF e, h, m
  <2>4. e = d /\ h = r
    BY <2>3, DivModUnique
  <2> QED BY <2>4 DEF e, h
<1> HIDE DEF a, t0
<1>11. t0 \in Tiles(s) /\ Row(s, t0) = r /\ Column(s, t0) = c
  <2>1. Row(s, t0) = r
    BY <1>9, <1>10 DEF Row, g
  <2>2. Column(s, t0) = b + d * g
    BY <1>9, <1>10 DEF Column, g
  <2>3. Column(s, t0) = c
    BY <2>2, <1>1, <1>3
  <2>4. c < s.n
    BY <1>1
  <2> QED BY <2>1, <2>3, <2>4, <1>8 DEF Tiles
\* An id in that row and column is the same one.
<1>12. ASSUME NEW t \in Tiles(s), Row(s, t) = r, Column(s, t) = c
       PROVE  t = t0
  <2> DEFINE x == t \div g
  <2>1. t \in Nat
    BY DEF Tiles
  <2>2. x \in Nat /\ t % g \in 0..g - 1 /\ t = g * x + (t % g)
    BY <2>1, <1>1, DivMod
  <2>3. x % s.m = r /\ (t % g) + (x \div s.m) * g = c
    BY <1>12 DEF Row, Column, g
  <2> HIDE DEF x
  <2>4. x \div s.m \in Nat /\ x = s.m * (x \div s.m) + r
    BY <2>2, <2>3, <1>1, DivMod
  <2>5. g * (x \div s.m) + (t % g) = g * d + b
    BY <2>2, <2>3, <2>4, <1>1, <1>3
  <2>6. x \div s.m = d /\ t % g = b
    <3> DEFINE e == x \div s.m
               h == t % g
    <3>1. e \in Int /\ h \in 0..g - 1 /\ g * e + h = g * d + b
      BY <2>2, <2>4, <2>5
    <3> HIDE DEF e, h
    <3>2. e = d /\ h = b
      BY <3>1, <1>1, <1>3, DivModUnique
    <3> QED BY <3>2 DEF e, h
  <2>7. x = a
    BY <2>4, <2>6 DEF a
  <2> QED BY <2>2, <2>6, <2>7 DEF t0
<1>13. t0 = IdOf(s, r, c)
  BY DEF t0, a, b, d, g, IdOf
<1> QED BY <1>11, <1>12, <1>13
-----------------------------------------------------------------------------
(* Theorems                                                                *)

Inv == /\ TypeOK /\ Ordered /\ MmaChain /\ StoredBefore /\ StageFree
       /\ ProductChain /\ InPlace

LEMMA Invariance == Spec => []Inv
<1>1. Init => Inv
  BY DEF Init, Inv, TypeOK, Ordered, MmaChain, StoredBefore, StageFree, ProductChain, InPlace, issued
<1>2. Inv /\ [Next]_vars => Inv'
  BY OrderKept, MmaChainKept, StoredBeforeKept, StageFreeKept, ProductChainKept, InPlaceKept DEF Inv
<1> QED BY <1>1, <1>2, PTL DEF Spec

\* No MMA of a tile starts before all stores of the earlier tiles of its block are
\* finished, for every shape of C and number of SMs: the accumulators and the staged
\* result of a block belong to one tile (post_store_deps, gemm_h100.cpp).
THEOREM OneTile == Spec => []OneTileAtATime
<1>1. Inv => OneTileAtATime
  <2> SUFFICES ASSUME Inv, IsGemm, NEW t \in Tiles(shape), NEW u \in Tiles(shape), t < u,
                      BlockOf(shape, t) = BlockOf(shape, u), NEW k \in Round(shape),
                      NEW n \in Mmas(u, k), n \in issued
               PROVE  Outs(t) \subseteq finished
    BY DEF OneTileAtATime, issued
  <2>1. PICK w \in Consumer, i \in 1..Steps : n = Mma(u, k, w, i)
    BY DEF Mmas
  <2> QED BY <2>1 DEF Inv, StoredBefore
<1> QED BY Invariance, <1>1, PTL

\* Two stages of shared memory are enough for the operands: of a block of GEMM when its
\* number of rounds is one or even, and of FA3 for K and for V in every shape.
THEOREM TwoStagesSuffice ==
    ASSUME \A s \in GemmShape : UseLast(s)
    PROVE  Spec => []TwoStages
<1>1. Inv => TwoStages
  <2> SUFFICES ASSUME Inv PROVE TwoStages
    OBVIOUS
  <2>1. TypeOK /\ Ordered /\ StageFree /\ ProductChain
    BY DEF Inv
  <2>2. CASE IsGemm
    <3> SUFFICES ASSUME NEW b \in 0..GridX(shape) - 1
                 PROVE  Cardinality({tk \in {t \in Tiles(shape) : BlockOf(shape, t) = b} \X Round(shape) :
                                        InUse(Loads(tk[1], tk[2]), Mmas(tk[1], tk[2]))}) <= 2
      BY <2>2 DEF TwoStages
    <3> DEFINE U == {tk \in {t \in Tiles(shape) : BlockOf(shape, t) = b} \X Round(shape) :
                        InUse(Loads(tk[1], tk[2]), Mmas(tk[1], tk[2]))}
    <3>1. \A c, d \in U : c[1] = d[1] /\ c[2] - d[2] \in -1..1
      <4> SUFFICES ASSUME NEW c \in U, NEW d \in U PROVE c[1] = d[1] /\ c[2] - d[2] \in -1..1
        OBVIOUS
      <4>1. UseLast(shape)
        BY <2>2 DEF IsGemm
      <4>2. /\ c[1] \in Tiles(shape) /\ c[2] \in Round(shape) /\ BlockOf(shape, c[1]) = b
            /\ InUse(Loads(c[1], c[2]), Mmas(c[1], c[2]))
            /\ d[1] \in Tiles(shape) /\ d[2] \in Round(shape) /\ BlockOf(shape, d[1]) = b
            /\ InUse(Loads(d[1], d[2]), Mmas(d[1], d[2]))
        OBVIOUS
      <4> QED BY <4>1, <4>2, <2>1, <2>2, Neighbours
    <3>2. \A c \in U : c = <<c[1], c[2]>> /\ c[2] \in Int
      BY DEF Round
    <3> HIDE DEF U
    <3>3. \A a, c, d \in U : a = c \/ c = d \/ a = d
      <4> SUFFICES ASSUME NEW a \in U, NEW c \in U, NEW d \in U PROVE a = c \/ c = d \/ a = d
        OBVIOUS
      <4>1. a[2] = c[2] \/ c[2] = d[2] \/ a[2] = d[2]
        BY <3>1, <3>2
      <4>2. a[1] = c[1] /\ c[1] = d[1]
        BY <3>1
      <4> QED BY <4>1, <4>2, <3>2
    <3>4. Cardinality(U) <= 2
      BY <3>3, AtMostTwo
    <3> QED BY <3>4 DEF U
  <2>3. CASE ~IsGemm
    <3> SUFFICES ASSUME NEW x, NEW y, (x = "K" /\ y = "SS") \/ (x = "V" /\ y = "RS")
                 PROVE  Cardinality({k \in Rounds(shape) :
                                        InUse(LoadOf(shape, x, k), Products(shape, y, k))}) <= 2
      BY <2>3 DEF TwoStages
    <3> DEFINE U == {k \in Rounds(shape) : InUse(LoadOf(shape, x, k), Products(shape, y, k))}
    <3>1. \A c, d \in U : c - d \in -1..1
      BY <2>1, <2>3, FaNeighbours
    <3>2. \A c \in U : c \in Int
      BY DEF Rounds
    <3> HIDE DEF U
    <3>3. \A a, c, d \in U : a = c \/ c = d \/ a = d
      BY <3>1, <3>2
    <3>4. Cardinality(U) <= 2
      BY <3>3, AtMostTwo
    <3> QED BY <3>4 DEF U
  <2> QED BY <2>2, <2>3
<1> QED BY Invariance, <1>1, PTL

\* Every tile of C is computed by exactly one block, for every shape whose columns of
\* tiles are at most MaxGroup or a multiple of it; in the others ids are passed over
\* whose place no other id takes.
THEOREM EachTileOnce ==
    ASSUME \A s \in GemmShape : s.n % Group(s) = 0
    PROVE  Spec => []EveryTileStored
<1>1. Inv => EveryTileStored
  <2> SUFFICES ASSUME IsGemm, NEW r \in 0..shape.m - 1, NEW c \in 0..shape.n - 1
               PROVE  Cardinality({t \in Tiles(shape) : Row(shape, t) = r /\ Column(shape, t) = c}) = 1
    BY DEF EveryTileStored
  <2>1. {t \in Tiles(shape) : Row(shape, t) = r /\ Column(shape, t) = c} = {IdOf(shape, r, c)}
    BY WalkCovers DEF IsGemm
  <2>2. Cardinality({IdOf(shape, r, c)}) = 1
    BY FS_Singleton
  <2> QED BY <2>1, <2>2
<1> QED BY Invariance, <1>1, PTL

\* Every warp of FA3 issues the stages of the schedule in order ("In main loop enforce
\* stage order", fa3_h100.cpp), whatever finishes when.
THEOREM StagesKeepOrder == Spec => StagesInOrder
<1>1. Inv /\ [Next]_vars =>
        [~IsGemm => \A n \in running' \ running :
            LET mine == IF n[3] \in shape.warps THEN Staged[shape][n[3]] ELSE {}
            IN  n \in mine => \A m \in (mine \ running) \ finished : Place(n) <= Place(m)]_vars
  <2> SUFFICES ASSUME Inv, [Next]_vars, ~IsGemm, NEW n \in running' \ running, n[3] \in shape.warps,
                      n \in Staged[shape][n[3]],
                      NEW m \in (Staged[shape][n[3]] \ running) \ finished
               PROVE  Place(n) <= Place(m)
    BY Zenon
  <2> DEFINE w == n[3]
  <2>1. TypeOK /\ Ordered /\ ProductChain /\ InPlace
    BY DEF Inv
  <2>2. shape \in Fa3Shape /\ Rounds(shape) = 0..shape.rounds - 1 /\ shape.rounds \in Nat
    BY <2>1, FaGraphOf, FaSizes
  <2>3. n \in OfWarp(shape, w) /\ m \in OfWarp(shape, w) /\ w \in shape.warps
    BY <2>2 DEF Staged
  <2>4. n \in issued' \ issued /\ m \notin issued
    BY DEF Next, Issue, Ready, Finish, vars, issued
  <2> HIDE DEF w
  <2>5. ~(Place(m) < Place(n))
    BY <2>1, <2>3, <2>4, NewInPlace DEF Before
  <2>6. Place(m) \in Int /\ Place(n) \in Int
    BY <2>1, <2>2, <2>3, PlaceOf
  <2> QED BY <2>5, <2>6
<1> QED BY Invariance, <1>1, PTL DEF Spec, StagesInOrder

\* Whatever has run first, something can be issued or is running until all operations
\* of the graph are finished, for every shape of GEMM and of FA3: the issue orders close
\* no cycle with the dependencies.
THEOREM NoGraphStops == Spec => []NoDeadEnd
<1>1. Inv => NoDeadEnd
  BY GemmNoDeadEnd, FaNoDeadEnd DEF Inv, NoDeadEnd
<1> QED BY Invariance, <1>1, PTL
=============================================================================
