-------------------------------- MODULE Network --------------------------------
(***************************************************************************)
(* The two networks on chip: how long a request is under way, which links   *)
(* it takes, and which requests a cycle lets through.                       *)
(* A topology t gives rows and cols (none for the crossbar), the base and   *)
(* per-hop latency, the requests a link carries in a cycle (share) and the  *)
(* places of the SMs in the mesh, where they are not the identity.          *)
(***************************************************************************)
EXTENDS Integers, Sequences, FiniteSets

IsTopology(t) ==
    /\ {t.rows, t.cols, t.base, t.hop} \subseteq Nat /\ t.share \in Nat \ {0}
    /\ t.places \in Seq(Nat)
    /\ t.rows > 0 <=> t.cols > 0
-----------------------------------------------------------------------------
IsMesh(t) == t.rows > 0

\* to_physical, and the grid it is meant for.
Place(t, s) == IF s < Len(t.places) THEN t.places[s + 1] ELSE s
RowOf(t, s) == Place(t, s) \div t.cols
ColOf(t, s) == Place(t, s) % t.cols

HorizontalLinks(t) == t.rows * (t.cols - 1)
NumLinks(t) == HorizontalLinks(t) + (t.rows - 1) * t.cols
HLink(t, row, col) == row * (t.cols - 1) + col
VLink(t, row, col) == HorizontalLinks(t) + row * t.cols + col

\* The gaps between two coordinates, each named by its lower end.
Between(x, y) == IF x < y THEN x..y - 1 ELSE y..x - 1

\* "Compute XY dimension-order route": along the row of a, then the column of b.
XYRoute_Corner(t, a, b) ==                                \* faulty variant
    {HLink(t, RowOf(t, a), c) : c \in Between(ColOf(t, a), ColOf(t, b))}
        \union {VLink(t, r, ColOf(t, a)) : r \in Between(RowOf(t, a), RowOf(t, b))}
XYRoute(t, a, b) ==
    {HLink(t, RowOf(t, a), c) : c \in Between(ColOf(t, a), ColOf(t, b))}
        \union {VLink(t, r, ColOf(t, b)) : r \in Between(RowOf(t, a), RowOf(t, b))}

Distance(t, a, b) ==
    Cardinality(Between(RowOf(t, a), RowOf(t, b))) + Cardinality(Between(ColOf(t, a), ColOf(t, b)))
HopCount(t, a, b) == IF Distance(t, a, b) > 0 THEN Distance(t, a, b) ELSE 1

\* The crossbar takes the same time everywhere.
Latency(t, a, b) == IF IsMesh(t) THEN t.base + HopCount(t, a, b) * t.hop ELSE t.hop

\* All requests share the one budget of the crossbar; in the mesh each link has one.
Links(t, a, b) == IF IsMesh(t) THEN XYRoute(t, a, b) ELSE {0}

\* Which of the requests in flight are through: from the oldest on, those that are
\* due and for which every link still has room.  A request is [links, wait].
GetThrough(t, flight) ==
    LET goes[j \in DOMAIN flight] ==
            /\ flight[j].wait = 0
            /\ \A l \in flight[j].links :
                  Cardinality({h \in 1..j - 1 : goes[h] /\ l \in flight[h].links}) < t.share
    IN  {j \in DOMAIN flight : goes[j]}
-----------------------------------------------------------------------------
(* What a route should be                                                  *)

\* The places a link joins.
Joins(t, l) ==
    IF l < HorizontalLinks(t)
      THEN LET r == l \div (t.cols - 1)  c == l % (t.cols - 1) IN {<<r, c>>, <<r, c + 1>>}
      ELSE LET i == l - HorizontalLinks(t)
               r == i \div t.cols  c == i % t.cols
           IN  {<<r, c>>, <<r + 1, c>>}

\* A set of links of the mesh is a shortest way from a to b when it is as large as
\* their distance and only the ends meet an odd number of its links.
IsShortestWay(t, links, a, b) ==
    LET ends == {<<RowOf(t, a), ColOf(t, a)>>, <<RowOf(t, b), ColOf(t, b)>>}
        met(p) == Cardinality({l \in links : p \in Joins(t, l)})
    IN  /\ links \subseteq 0..NumLinks(t) - 1
        /\ Cardinality(links) = Distance(t, a, b)
        /\ \A p \in (0..t.rows - 1) \X (0..t.cols - 1) :
              met(p) % 2 = IF Cardinality(ends) = 2 /\ p \in ends THEN 1 ELSE 0
=============================================================================
