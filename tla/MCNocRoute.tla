------------------------------ MODULE MCNocRoute ------------------------------
(***************************************************************************)
(* Four SMs, three of them in one cluster; reads and writes that meet in    *)
(* one memory, a network with room for two requests, memories with room     *)
(* for two at a port.  The accesses of SM 0 are those of two subpartitions, *)
(* those of SM 1 of one.  The crossbar, and a mesh with places out of order. *)
(***************************************************************************)
EXTENDS NocRoute

Access(id, src, part, target, write, dsm, transfer) ==
    [id |-> id, src |-> src, part |-> part, target |-> target, write |-> write, dsm |-> dsm,
     transfer |-> transfer]

\* Three reads of SM 1 (one of them local), a write to it, a write the other way, and
\* a plain read that leaves the cluster.
Traffic == {Access(1, 0, 1, 1, FALSE, FALSE, 1), Access(2, 0, 0, 1, FALSE, TRUE, 2),
            Access(3, 2, 0, 1, TRUE, TRUE, 1), Access(4, 1, 0, -1, FALSE, FALSE, 2),
            Access(5, 1, 0, 0, TRUE, FALSE, 1), Access(6, 3, 0, 0, FALSE, FALSE, 1)}

Crossbar == [rows |-> 0, cols |-> 0, base |-> 0, hop |-> 2, share |-> 1, places |-> <<>>]
Mesh(rows, cols, places) ==
    [rows |-> rows, cols |-> cols, base |-> 0, hop |-> 1, share |-> 1, places |-> places]
Networks == {Crossbar, Mesh(2, 2, <<0, 3, 1>>)}

\* Two clusters of two SMs, and a mesh "rows x cols >= sms_per_cluster".
TwoClusters == {Access(1, 0, 1, 1, FALSE, FALSE, 1), Access(2, 2, 0, 3, FALSE, FALSE, 1),
                Access(3, 3, 0, 2, TRUE, TRUE, 1)}
OnePerCluster == {Mesh(1, 2, <<>>)}
=============================================================================
