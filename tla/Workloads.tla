------------------------------ MODULE Workloads ------------------------------
(***************************************************************************)
(* The tile graphs of both builders, executed in every order their          *)
(* dependencies allow (TileGraph, with an operation issued in one go).      *)
(* The builders never say which buffer an operation uses: that two stages   *)
(* are enough for it must follow from the dependencies.                     *)
(***************************************************************************)
EXTENDS GemmGraph, Fa3Graph

CONSTANTS
    GemmShape,      \* [m, n, k, sms]
    Fa3Shape        \* see IsFa3Shape

ASSUME ShapeAssumption ==
    /\ \A s \in GemmShape : {s.m, s.n, s.k, s.sms} \subseteq Nat \ {0}
    /\ \A s \in Fa3Shape : IsFa3Shape(s)

VARIABLES
    shape,          \* the shape whose graph is executed
    running,        \* operations issued in full and not completed
    finished        \* operations completed

vars == <<shape, running, finished>>
-----------------------------------------------------------------------------
IsGemm == shape \in GemmShape

\* The graphs, made once.
Deps ==
    [s \in GemmShape \union Fa3Shape |->
        IF s \in GemmShape THEN [n \in GemmNodes(s) |-> GemmDeps(s, n)]
                           ELSE [n \in FaNodes(s) |-> FaDeps(s, n)]]
IssueDeps ==
    [s \in GemmShape \union Fa3Shape |->
        IF s \in GemmShape THEN [n \in GemmNodes(s) |-> GemmIssueDeps(n)]
                           ELSE [n \in FaNodes(s) |-> FaIssueDeps(s, n)]]
Nodes == DOMAIN Deps[shape]
issued == running \union finished

Init ==
    /\ shape \in GemmShape \union Fa3Shape
    /\ running = {} /\ finished = {}

\* Everything an operation waits for is there.
Ready ==
    LET gone == issued
    IN  {n \in Nodes \ gone :
            Deps[shape][n] \subseteq finished /\ IssueDeps[shape][n] \subseteq gone}

Issue ==
    \E n \in Ready :
        /\ running' = running \union {n}
        /\ UNCHANGED <<shape, finished>>

Finish ==
    \E n \in running :
        /\ running' = running \ {n} /\ finished' = finished \union {n}
        /\ UNCHANGED shape

Next == Issue \/ Finish

Spec == Init /\ [][Next]_vars
-----------------------------------------------------------------------------
(* Properties                                                              *)

\* A buffer is taken from the first load into it to the last MMA that reads it.
InUse(loads, readers) ==
    /\ \E n \in loads : n \in running \/ n \in finished
    /\ \E n \in readers : n \notin finished

\* "persistent two-stage GEMM", "K uses double-buffering", "V uses double-buffering":
\* a block never has more than two rounds of operands in shared memory, whatever the
\* order in which loads and MMAs of its warps finish, from one tile to the next.
TwoStages ==
    IF IsGemm
      THEN \A b \in 0..GridX(shape) - 1 :
              Cardinality({tk \in {t \in Tiles(shape) : BlockOf(shape, t) = b} \X Round(shape) :
                              InUse(Loads(tk[1], tk[2]), Mmas(tk[1], tk[2]))}) <= 2
      ELSE \A xy \in {<<"K", "SS">>, <<"V", "RS">>} :
              Cardinality({k \in Rounds(shape) :
                              InUse(LoadOf(shape, xy[1], k), Products(shape, xy[2], k))}) <= 2

\* A block has the accumulators and the staged result of one tile at a time: no MMA
\* of the next tile starts before the TMA unit has stored all of this one.
OneTileAtATime ==
    IsGemm => \A t, u \in Tiles(shape) :
        /\ t < u /\ BlockOf(shape, t) = BlockOf(shape, u)
        /\ \E k \in Round(shape) : \E n \in Mmas(u, k) : n \in running \/ n \in finished
        => Outs(t) \subseteq finished

\* When the run is over, every tile of C has been stored, and once.
EveryTileStored ==
    IsGemm /\ finished = Nodes =>
        \A r \in 0..shape.m - 1, c \in 0..shape.n - 1 :
            Cardinality({t \in Tiles(shape) : Row(shape, t) = r /\ Column(shape, t) = c}) = 1

\* "In main loop enforce stage order": the place of an operation in the schedule
\* SS(0) score(0) | SS(k) acc_o_scale(k-1) RS(k-1) score(k) | ... | RS of its warp.
Place(n) ==
    LET x == n[1]  k == n[2]
    IN  CASE x = "SS" -> IF k = 0 THEN 0 ELSE 4 * k - 2
          [] x = "acc_o_scale" /\ k + 1 < shape.rounds -> 4 * k + 3
          [] x = "RS" -> 4 * k + 4
          [] OTHER -> 4 * k + 1

Staged == [s \in Fa3Shape |-> [w \in s.warps |-> OfWarp(s, w)]]

\* A warp issues the stages of FA3 in that order, in every round, although an
\* operation waits for only one or two of the operations before it.
StagesInOrder ==
    [][~IsGemm => \A n \in running' \ running :
          LET mine == IF n[3] \in shape.warps THEN Staged[shape][n[3]] ELSE {}
          IN  n \in mine => \A m \in (mine \ running) \ finished : Place(n) <= Place(m)]_vars

\* Both graphs can be executed to the end, whatever has run first: when nothing is
\* running and nothing can be issued, everything is finished.  The issue orders,
\* which go against the order of construction, close no cycle with the rest.
NoDeadEnd == running = {} /\ Ready = {} => finished = Nodes
=============================================================================
