------------------------------ MODULE GemmGraph ------------------------------
(***************************************************************************)
(* The tile graph build_gemm_h100 makes: every block walks over tiles of C, *)
(* for each of them through rounds of k, in which TMA loads bring a round   *)
(* of A and B to shared memory and every consumer warp multiplies it; then  *)
(* the tile is put in shared memory and stored by TMA.                      *)
(* A shape s gives tiles of M, N and K and the number of SMs.               *)
(***************************************************************************)
EXTENDS Integers, FiniteSets

CONSTANTS
    MaxGroup,       \* columns of tiles that are visited together (8)
    Consumer,       \* MMA warps of a block (0..7)
    Steps,          \* MMAs of a warp in a round (16)
    Load,           \* loads of a round (one of A, four of B)
    Put,            \* stores to shared memory of a warp (16)
    Chunks          \* TMA stores of a tile (4)

ASSUME GemmAssumption ==
    /\ MaxGroup \in Nat \ {0} /\ Steps \in Nat \ {0} /\ Chunks \in Nat \ {0}
    /\ IsFiniteSet(Consumer) /\ IsFiniteSet(Load) /\ IsFiniteSet(Put)
    /\ Load # {} /\ Put # {}
-----------------------------------------------------------------------------
(* Which block computes which tile of C, in the order of the tile ids.     *)

Smaller(a, b) == IF a < b THEN a ELSE b
TotalTiles(s) == s.m * s.n
GridX(s) == Smaller(s.sms, TotalTiles(s))
Group_Fixed(s) == MaxGroup                                \* faulty variant
Group(s) == Smaller(MaxGroup, s.n)
Row(s, t) == (t \div Group(s)) % s.m
Column(s, t) == (t % Group(s)) + ((t \div Group(s)) \div s.m) * Group(s)

\* An id whose column is beyond the matrix is passed over.
Tiles(s) == {t \in 0..TotalTiles(s) - 1 : Column(s, t) < s.n}
BlockOf(s, t) == t % GridX(s)
Earlier(s, t) == {u \in Tiles(s) : u < t /\ BlockOf(s, u) = BlockOf(s, t)}

\* The tile the prev_tile_ lists are about, if the block has computed one.
Previous(s, t) == {u \in Earlier(s, t) : \A v \in Earlier(s, t) : v <= u}
-----------------------------------------------------------------------------
(* Operations: name, tile, round, warp and number.                         *)

Round(s) == 0..s.k - 1
Loads(t, k) == {<<"load", t, k, 0, l>> : l \in Load}
Mma(t, k, w, i) == <<"mma", t, k, w, i>>
Mmas(t, k) == {Mma(t, k, w, i) : w \in Consumer, i \in 1..Steps}
Puts(t) == {<<"put", t, 0, w, p>> : w \in Consumer, p \in Put}
Out(t, c) == <<"out", t, 0, 0, c>>
Outs(t) == {Out(t, c) : c \in 1..Chunks}

GemmNodes(s) ==
    UNION {Puts(t) \union Outs(t) \union UNION {Loads(t, k) \union Mmas(t, k) : k \in Round(s)} :
              t \in Tiles(s)}

\* The first load of a tile waits for MMAs of the tile before, to have its stage.
UseLast(s) == s.k = 1 \/ s.k % 2 = 0
CrossTile_LoadsOnly(s, t) == UNION {Loads(u, s.k - 1) : u \in Previous(s, t)}  \* faulty variant
CrossTile(s, t) ==
    UNION {Loads(u, s.k - 1) \union Mmas(u, IF UseLast(s) THEN s.k - 1 ELSE s.k - 2) :
              u \in Previous(s, t)}

LoadDeps(s, t, k) ==
    (IF k = 0 THEN CrossTile(s, t) ELSE Loads(t, k - 1))
        \union (IF k > 1 THEN Mmas(t, k - 2) ELSE {})

\* The MMAs of a warp are a chain within a tile; its first round waits for the
\* stores of the tile before.
Preceding(t, k, w, i) ==
    CASE i > 1 -> {Mma(t, k, w, i - 1)}
      [] i = 1 /\ k > 0 -> {Mma(t, k - 1, w, Steps)}
      [] OTHER -> {}

PostStore_Ignored(s, t, k) == {}                          \* faulty variant
PostStore(s, t, k) == IF k = 0 THEN UNION {Outs(u) : u \in Previous(s, t)} ELSE {}

GemmDeps(s, n) ==
    LET t == n[2]  k == n[3]  w == n[4]  i == n[5]
    IN  CASE n[1] = "load" -> LoadDeps(s, t, k)
          [] n[1] = "mma" -> Loads(t, k) \union Preceding(t, k, w, i) \union PostStore(s, t, k)
          [] n[1] = "put" -> Mmas(t, s.k - 1)
          [] n[1] = "out" -> Puts(t)

\* The stores of a tile are issued one after the other.
GemmIssueDeps(n) ==
    IF n[1] = "out" /\ n[5] > 1 THEN {Out(n[2], n[5] - 1)} ELSE {}
=============================================================================
