------------------------------ MODULE MCTileExec ------------------------------
(***************************************************************************)
(* Instances of TileExec: every small dependency structure over four nodes *)
(* of three blocks, cyclic and dangling ones included, on one SM with room *)
(* for two blocks.                                                         *)
(***************************************************************************)
EXTENDS TileExec, TLC

N4 == 1..4
Ids4 == N4 \union {9}
ThreeBlocks == 0..2
OneSM == {0}
AllOnZero == [t \in ThreeBlocks |-> 0]

Info(d, i, b, k, s, o) ==
    [deps |-> d, issueDeps |-> i, tb |-> b, kind |-> k, subops |-> s, owed |-> o]

\* 1: a TMA load of two lines; 2: a compute node of two sub-ops; 3: a memory
\* node of two sub-ops that owe two lines and one line; 4: a barrier.
Tma(d)        == Info(d, {}, 0, "tma", 1, (0 :> 2 @@ 1 :> 0))
Compute(d, i) == Info(d, i, 0, "compute", 2, (0 :> 2 @@ 1 :> 1 @@ 2 :> 0))
Mem(d, i)     == Info(d, i, 1, "memory", 2, (0 :> 3 @@ 1 :> 1 @@ 2 :> 0))
Barrier(d, i) == Info(d, i, 2, "barrier", 1, (0 :> 1 @@ 1 :> 0))

\* A node depends on at most one other node, or on an id that is not in the
\* graph, and at issue on the TMA load or on nothing.
AtMostOne(S) == {{}} \union {{m} : m \in S}
AllGraphs ==
    {<<Tma(d1), Compute(d2, i2), Mem(d3, i3), Barrier(d4, i4)>> :
        d1 \in AtMostOne({2, 3, 4}), d2 \in AtMostOne({1, 3, 4}),
        d3 \in AtMostOne({1, 2, 4, 9}), d4 \in AtMostOne({1, 2, 3}),
        i2 \in AtMostOne({1}), i3 \in AtMostOne({1}), i4 \in AtMostOne({1})}
=============================================================================
