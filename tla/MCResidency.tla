----------------------------- MODULE MCResidency -----------------------------
(***************************************************************************)
(* Six blocks, three places and a delay of two cycles, for the first       *)
(* LastCycle cycles.                                                       *)
(***************************************************************************)
EXTENDS Residency

CONSTANT LastCycle      \* bound on the cycles explored

WithinBound == cycle <= LastCycle
=============================================================================
