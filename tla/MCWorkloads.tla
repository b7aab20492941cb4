----------------------------- MODULE MCWorkloads -----------------------------
(***************************************************************************)
(* Two tiles of C by one block, with one, two and four rounds, and four     *)
(* tiles by two blocks; FA3 with no round, two (two branches) and three.    *)
(***************************************************************************)
EXTENDS Workloads

Shape(m, n, k, sms) == [m |-> m, n |-> n, k |-> k, sms |-> sms]
Shapes == {Shape(2, 1, 1, 1), Shape(2, 1, 2, 1), Shape(1, 2, 4, 1), Shape(1, 4, 1, 2)}
Fa3(warps, rounds, steps, branches) ==
    [rounds |-> rounds, warps |-> warps, steps |-> steps, loads |-> {0}, branches |-> branches,
     cols |-> {0}, halves |-> {0, 1}]
Attention == {Fa3({0, 1}, 0, 1, {0}), Fa3({0, 1}, 3, 1, {0}),
              Fa3({0}, 2, 2, {0, 1})}

\* Three columns of tiles, visited two at a time.
Unaligned == {Shape(2, 3, 1, 1)}
NoAttention == {}
=============================================================================
