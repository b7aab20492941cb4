--------------------------- MODULE MCWarpScheduler ---------------------------
(***************************************************************************)
(* Small graphs for the warp schedulers.  Nodes 0..3 are loads of warps    *)
(* 0..3, nodes 4..7 and 8..11 the members of two warp-group MMAs.          *)
(***************************************************************************)
EXTENDS WarpScheduler

Op(w, op, pipe, deps, issueDeps, subops, mma) ==
    [warp |-> w, op |-> op, pipe |-> pipe, deps |-> deps, issueDeps |-> issueDeps,
     subops |-> subops, size |-> IF op = "umma" THEN 4 ELSE 0, leader |-> None, mma |-> mma]

Sm(warps, blockOf, places, policy, o2, interval, graph) ==
    [warps |-> warps, blockOf |-> blockOf, maxResident |-> places, policy |-> policy,
     o2 |-> o2, tmaInterval |-> interval, graph |-> graph]

OneGroup(policy, o2, graph) == Sm(0..3, [w \in 0..3 |-> 0], 1, policy, o2, 1, graph)
GroupGraph(op, subops, Deps(_)) ==
    [n \in 0..11 |->
        IF n < 4 THEN Op(n, "plain", "LD", {}, {}, 1, n)
        ELSE Op(n % 4, op, "Tensor", Deps(n), {}, subops, 100 + n \div 4)]

\* Each MMA needs its warp's load, the second one the first one of its warp too.
ChainedDeps(n) == IF n < 8 THEN {n - 4} ELSE {n - 8, n - 4}
\* The MMAs are independent: the first waits for the load, the second does not.
FreeDeps(n) == IF n < 8 THEN {n - 4} ELSE {}
Groups ==
    {OneGroup("GTO", FALSE, GroupGraph("wgmma", 1, ChainedDeps)),
     OneGroup("GTO", FALSE, GroupGraph("wgmma", 1, FreeDeps)),
     OneGroup("GTO", FALSE, GroupGraph("umma", 2, ChainedDeps))}

\* Behind a load of two sub-ops, warp 0 has the first member of an MMA.
Mixed ==
    {OneGroup("GTO", TRUE, [n \in 0..4 |->
        IF n = 0 THEN Op(0, "plain", "LD", {}, {}, 2, n)
        ELSE Op(n - 1, "wgmma", "Tensor", {}, {}, 1, 100)])}

\* Four warps of one scheduler, in four blocks of which three are resident.
LaneGraph ==
    [n \in 0..7 |->
        CASE n = 0 -> Op(1, "plain", "LD", {}, {}, 2, n)
          [] n = 1 -> Op(1, "plain", "SIMD", {}, {}, 1, n)
          [] n = 2 -> Op(5, "tma", "LD", {}, {}, 1, n)
          [] n = 3 -> Op(5, "tma", "LD", {}, {2}, 1, n)
          [] n = 4 -> Op(1, "barrier", "SIMD", {2}, {}, 1, n)
          [] n = 5 -> Op(9, "plain", "SIMD", {}, {}, 1, n)
          [] n = 6 -> Op(9, "plain", "LD", {}, {5}, 1, n)
          [] n = 7 -> Op(13, "plain", "SIMD", {}, {}, 1, n)]
OneLane(policy, o2) ==
    LET warps == {1, 5, 9, 13}
    IN  Sm(warps, [w \in warps |-> w \div 4], 3, policy, o2, 2, LaneGraph)
Lanes == {OneLane("RR", FALSE), OneLane("GTO", TRUE)}

GroupsAndLanes == Groups \union Lanes

\* The hypotheses of WarpScheduler_proofs hold of these set-ups, so the theorems speak of
\* graphs that exist: the ranks are the numbers of the loads and of the instructions.
ASSUME Served ==
    /\ \A u \in GroupsAndLanes : WellGrouped(u) /\ Matched(u)
    /\ \A u \in GroupsAndLanes \intersect Chained :
          Resolvable(u, [n \in DOMAIN u.graph |-> IF u \in Lanes THEN n ELSE n \div 4])
    /\ \A u \in Lanes : Untied(u)
=============================================================================
