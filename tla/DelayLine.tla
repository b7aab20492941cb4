------------------------------ MODULE DelayLine ------------------------------
(***************************************************************************)
(* What a pipeline promises: an operation put in leaves in the very cycle  *)
(* it is due, whatever else is inside.  Pipeline implements it with a      *)
(* queue of which only the front is ever looked at.                        *)
(***************************************************************************)
EXTENDS Naturals

CONSTANTS
    Op,             \* what passes through
    Delay           \* the delays an operation may be given, in cycles

VARIABLES cycle, stepped, inFlight

dvars == <<cycle, stepped, inFlight>>

DInit == cycle = 1 /\ stepped = FALSE /\ inFlight = {}

\* An operation enters and is due d cycles later.
Enter(op, d) ==
    /\ inFlight' = inFlight \union {[op |-> op, complete |-> cycle + d]}
    /\ UNCHANGED <<cycle, stepped>>

\* Everything that is due leaves: the whole content is scanned.
Leave ==
    /\ ~stepped
    /\ stepped' = TRUE
    /\ inFlight' = {e \in inFlight : e.complete > cycle}
    /\ UNCHANGED cycle

NextCycle ==
    /\ stepped
    /\ cycle' = cycle + 1
    /\ stepped' = FALSE
    /\ UNCHANGED inFlight

DNext == Leave \/ NextCycle \/ \E op \in Op, d \in Delay : Enter(op, d)

DSpec == DInit /\ [][DNext]_dvars
=============================================================================
