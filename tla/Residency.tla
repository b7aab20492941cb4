------------------------------ MODULE Residency ------------------------------
(***************************************************************************)
(* The thread blocks of one SM, cycle by cycle: retirement of complete     *)
(* blocks, the delay before a place is filled again, dispatch in the order *)
(* of the ids.  That a block's counter reaches zero only while the block   *)
(* is resident is proved of TileExec.                                      *)
(***************************************************************************)
EXTENDS Integers, Sequences, FiniteSets

CONSTANTS
    NumTBs,         \* thread blocks assigned to the SM: 1..NumTBs by their rank
    MaxResident,    \* max_resident_tbs
    Latency         \* block_schedule_latency_cycles

ASSUME ResidencyAssumption ==
    NumTBs \in Nat /\ MaxResident \in Nat \ {0} /\ Latency \in Int

VARIABLES
    cycle,          \* the cycle being executed
    complete,       \* blocks whose tb_remaining_count is zero
    resident,       \* resident_tb_ids
    waiting,        \* waiting_tb_queue
    ready           \* tb_dispatch_ready

vars == <<cycle, complete, resident, waiting, ready>>
-----------------------------------------------------------------------------
TB == 1..NumTBs

\* The loop over all_tb_ids, a std::set: the lowest MaxResident ids enter.
Slots == IF NumTBs < MaxResident THEN NumTBs ELSE MaxResident

Init ==
    /\ cycle = 1
    /\ complete = {}
    /\ resident = 1..Slots
    /\ waiting = [i \in 1..(NumTBs - Slots) |-> Slots + i]
    /\ ready = <<>>

\* on_node_complete takes the counter of t to zero, at some point of the cycle.
Finish(t) ==
    /\ t \in resident \ complete
    /\ complete' = complete \union {t}
    /\ UNCHANGED <<cycle, resident, waiting, ready>>

\* When the place of a block that retires now may be taken.
FreeFrom_NoDelay == cycle                                 \* faulty variant
FreeFrom == cycle + (IF Latency > 0 THEN Latency ELSE 0)

\* One ready cycle is pushed per block that retires.
Pushed_OncePerCycle(n) ==                                 \* faulty variant
    [i \in 1..(IF n > 0 THEN 1 ELSE 0) |-> FreeFrom]
Pushed(n) == [i \in 1..n |-> FreeFrom]

\* The dispatch loop, with delays r and free places, stops after k blocks: no
\* place or no block is left, or the next delay is not over.  With no delay on
\* record a block is dispatched at once.
Stops_LastDelay(k, r, free) ==                            \* faulty variant
    k = free \/ k = Len(waiting) \/ (k < Len(r) /\ cycle < r[Len(r)])
Stops(k, r, free) ==
    \/ k = free
    \/ k = Len(waiting)
    \/ k < Len(r) /\ cycle < r[k + 1]

\* Step 5 of SM::step, and the end of the cycle.
EndOfCycle ==
    LET staying == resident \ complete
        r == ready \o Pushed(Cardinality(resident \intersect complete))
        free == MaxResident - Cardinality(staying)
    IN  \E k \in 0..Len(waiting) :
          /\ Stops(k, r, free)
          /\ \A j \in 0..(k - 1) : ~Stops(j, r, free)
          /\ resident' = staying \union {waiting[i] : i \in 1..k}
          /\ waiting' = SubSeq(waiting, k + 1, Len(waiting))
          /\ ready' = SubSeq(r, k + 1, Len(r))
          /\ cycle' = cycle + 1
          /\ UNCHANGED complete

Next == EndOfCycle \/ \E t \in TB : Finish(t)

Spec == Init /\ [][Next]_vars
-----------------------------------------------------------------------------
(* Properties                                                              *)

\* Blocks are in one SM's range and delays are cycles of the run.
TypeOK ==
    /\ cycle \in Nat
    /\ complete \subseteq TB
    /\ resident \subseteq TB
    /\ waiting \in Seq(TB)
    /\ ready \in Seq(Nat)

\* A place is taken or has its delay on record, never both and never neither:
\* the branch of dispatch_next_tb for "no delay on record" is never needed, and
\* at most max_resident_tbs blocks are resident.
PlacesConserved == Cardinality(resident) + Len(ready) = Slots

\* While blocks wait, no place stays empty in a cycle after its delay is over:
\* what is left on record when a cycle begins ends in that cycle or later.
NoPlaceIdle == waiting # <<>> => \A i \in DOMAIN ready : ready[i] >= cycle

\* A block enters in the cycle in which the delay of some place ends, and not
\* before: as many as delays end now, as long as blocks wait.
Entering == resident' \ resident
DelaysOver ==
    Cardinality({i \in DOMAIN ready : ready[i] = cycle})
        + (IF Latency > 0 THEN 0 ELSE Cardinality(resident \intersect complete))
DispatchOnTime ==
    [][cycle' = cycle \/ waiting = <<>> \/
        Cardinality(Entering) =
            IF DelaysOver < Len(waiting) THEN DelaysOver ELSE Len(waiting)]_vars
=============================================================================
