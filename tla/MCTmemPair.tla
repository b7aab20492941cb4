----------------------------- MODULE MCTmemPair -----------------------------
(***************************************************************************)
(* Three MMAs per CTA whose dependencies are met in any order, and an       *)
(* allocation of two sub-ops that takes all of the tensor memory; LastCycle *)
(* leaves time for all MMAs to complete one after the other.                *)
(***************************************************************************)
EXTENDS TmemPair

AllocTime == NumAlloc * LaterOf(AllocSpan, LaterOf(1, Interval)) + Latency
EnoughTime == LastCycle >= AllocTime + MaxReady + NumMma * (Span + 2) + Latency
ASSUME EnoughTime
=============================================================================
