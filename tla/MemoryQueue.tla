----------------------------- MODULE MemoryQueue -----------------------------
(***************************************************************************)
(* A Memory (shared memory or tensor memory): a read port and a write port, *)
(* each with a bounded queue and a single data path.  The cycle in which a  *)
(* request completes is fixed when it is taken.  A memory is a function of  *)
(* the port (write or not); times are kept as the number of cycles left.    *)
(***************************************************************************)
EXTENDS Integers, Sequences, FiniteSets

CONSTANTS
    MemoryDepth,    \* memory_queue_depth, memory_write_queue_depth
    MemoryLatency   \* memory_latency

ASSUME MemoryAssumption == MemoryDepth \in Nat /\ MemoryLatency \in Nat
-----------------------------------------------------------------------------
\* busy: cycles until memory_occupied_until, memory_write_occupied_until.
EmptyMemory == [w \in BOOLEAN |-> [queue |-> <<>>, busy |-> 0]]

IsFull(m, w) == Len(m[w].queue) >= MemoryDepth

\* A request waits until its port is done with the ones before it; the latency of
\* the memory overlaps with them.
Begins_NoQueuing(port) == MemoryLatency                   \* faulty variant
Begins(port) == IF MemoryLatency < port.busy THEN port.busy ELSE MemoryLatency

\* enqueue_read, enqueue_write, of an access that moves data for so many cycles, bank
\* conflicts included.
Taken(m, a) ==
    LET end == Begins(m[a.write]) + a.transfer
    IN  [m EXCEPT ![a.write] = [queue |-> Append(@.queue, [a |-> a, wait |-> end]), busy |-> end]]

\* A cycle goes by.
Aged(n) == IF n > 0 THEN n - 1 ELSE 0
AgedMemory(m) ==
    [w \in BOOLEAN |->
        [queue |-> [i \in DOMAIN m[w].queue |-> [m[w].queue[i] EXCEPT !.wait = Aged(@)]],
         busy |-> Aged(m[w].busy)]]

\* The elements of a sequence at the places in I, in their order.
Nth(I, n) == CHOOSE i \in I : Cardinality({j \in I : j <= i}) = n
Picked(s, I) == [n \in 1..Cardinality(I) |-> s[Nth(I, n)]]

\* step: the requests that are due leave, reads first, wherever they are in a queue.
Due(q) == {i \in DOMAIN q : q[i].wait = 0}
Completed(m) ==
    Picked(m[FALSE].queue, Due(m[FALSE].queue)) \o Picked(m[TRUE].queue, Due(m[TRUE].queue))
Remaining(m) ==
    [w \in BOOLEAN |-> [m[w] EXCEPT !.queue = Picked(@, DOMAIN @ \ Due(@))]]
-----------------------------------------------------------------------------
\* The accesses a memory holds.
Contents(m) == UNION {{m[w].queue[i].a : i \in DOMAIN m[w].queue} : w \in BOOLEAN}

\* A port moves one request at a time: the next one has all the cycles of its transfer
\* after the one before, and the port is taken until the last is over.
NoOverlap(port) ==
    \A i \in DOMAIN port.queue :
        /\ port.queue[i].wait <= port.busy
        /\ \A j \in 1..i - 1 :
              port.queue[i].wait - port.queue[j].wait >= port.queue[i].a.transfer
=============================================================================
