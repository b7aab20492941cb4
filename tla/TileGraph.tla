------------------------------ MODULE TileGraph ------------------------------
(***************************************************************************)
(* What the simulator promises of a tile graph, with no machine in sight:  *)
(* an operation starts once every operation it depends on has finished     *)
(* and every operation it depends on at issue has been issued in full; it  *)
(* is issued in full, then finishes, once each.  TileExec implements it.   *)
(***************************************************************************)

CONSTANT Node                 \* the operations (DAGNode objects) of a graph

VARIABLES
    deps,                     \* depends_on: node -> ids that must finish
    issueDeps,                \* issue_depends_on: node -> ids to be issued
    started,                  \* nodes with at least one sub-op issued
    issued,                   \* nodes with every sub-op issued
    finished                  \* nodes whose `finished` flag is set

gvars == <<deps, issueDeps, started, issued, finished>>

GInit ==
    /\ started = {}
    /\ issued = {}
    /\ finished = {}

\* The graph itself never changes.
Fixed == UNCHANGED <<deps, issueDeps>>

\* The first sub-op of n leaves; n may have no other.
Start(n) ==
    /\ n \notin started
    /\ deps[n] \subseteq finished
    /\ issueDeps[n] \subseteq issued
    /\ started' = started \union {n}
    /\ issued' \in {issued, issued \union {n}}
    /\ UNCHANGED finished
    /\ Fixed

\* The last sub-op of n leaves.
IssueLast(n) ==
    /\ n \in started \ issued
    /\ issued' = issued \union {n}
    /\ UNCHANGED <<started, finished>>
    /\ Fixed

\* The last transaction of n is answered.
Finish(n) ==
    /\ n \in issued \ finished
    /\ finished' = finished \union {n}
    /\ UNCHANGED <<started, issued>>
    /\ Fixed

GNext == \E n \in Node : Start(n) \/ IssueLast(n) \/ Finish(n)

GSpec == GInit /\ [][GNext]_gvars
=============================================================================
