------------------------------ MODULE MCTmaUnit ------------------------------
(***************************************************************************)
(* Transactions on two lines, with room for one in the cache.  The TMA unit *)
(* reads a tile of two lines, with a set-up that takes longer than that of  *)
(* the write behind it.  Four transactions are needed to make a line dirty, *)
(* evict it and read it again.                                              *)
(***************************************************************************)
EXTENDS TmaUnit

Tile(dims, offs, strides, ld, layout, elem, access, split) ==
    [dims |-> dims, offs |-> offs, strides |-> strides, ld |-> ld, layout |-> layout,
     elem |-> elem, access |-> access, split |-> split]

\* Matrices of one to three dimensions, dense or with gaps, in either order.
Flat ==
    {Tile(<<n>>, <<o>>, <<t>>, 0, r, e, a, p) :
        n \in 0..5, o \in 0..1, t \in {0, 2}, r \in {"row", "column"}, e \in 1..2, a \in {0, 1},
        p \in 1..2}
Plane ==
    {Tile(<<m, n>>, <<o, 1>>, t, d, r, e, 2, 1) :
        m \in 0..3, n \in 1..3, o \in 0..1, t \in {<<0, 0>>, <<5, 1>>, <<2, 6>>, <<1, 0>>},
        d \in {0, 4}, r \in {"row", "column", "swizzled"}, e \in {1, 4}}
Cube ==
    {Tile(<<2, m, n>>, <<1, 0, 0>>, t, 0, r, 1, a, 1) :
        m \in 1..2, n \in {0, 3}, t \in {<<0, 0, 0>>, <<3, 3, 1>>}, r \in {"row", "column"}, a \in {1, 3}}

TwoLines == Tile(<<2, 2>>, <<0, 0>>, <<0, 0>>, 0, "row", 1, 1, 1)
OneLine == Tile(<<1, 2>>, <<0, 0>>, <<0, 0>>, 0, "row", 1, 1, 1)
SomeTiles == {TwoLines, OneLine} \union Flat \union Plane \union Cube

Cmd(unit, tile, write, setup, rate) ==
    [unit |-> unit, tile |-> tile, write |-> write, setup |-> setup, rate |-> rate]
Commands == {Cmd(0, TwoLines, FALSE, 2, 3), Cmd(0, OneLine, TRUE, 0, 1)}

\* Every transaction causes at most one fetch and one writeback.
AllLines == NumSubops + FoldSet(LAMBDA c, n : n + Len(Keys[c]), 0, Command)
EnoughCredit == MaxCredit >= 2 * AllLines * LineSize
ASSUME EnoughCredit
=============================================================================
