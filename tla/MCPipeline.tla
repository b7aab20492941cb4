------------------------------ MODULE MCPipeline ------------------------------
(***************************************************************************)
(* A pipeline of latency 3 and default span 2, with overrides both shorter *)
(* and longer, for the first LastCycle cycles.                             *)
(***************************************************************************)
EXTENDS Pipeline

CONSTANT LastCycle      \* bound on the cycles explored

OneOp == {"op"}
SomeOverrides == {-1, 1, 4}
WithinBound == cycle <= LastCycle

=============================================================================
