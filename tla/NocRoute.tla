------------------------------ MODULE NocRoute ------------------------------
(***************************************************************************)
(* Shared memory accesses of the SMs, local ones and ones that cross the    *)
(* network on chip: the retry queue of the sender, the bounded network      *)
(* (Network), the retry queue of the destination, the ports of its memory   *)
(* (MemoryQueue), the records of remote accesses, and the way back with its *)
(* own retry queue.                                                         *)
(* One cycle of GPU::step runs through its phases; each turn of one of its  *)
(* loops is one action.  Times are kept as the number of cycles left.       *)
(***************************************************************************)
EXTENDS Network, MemoryQueue

CONSTANTS
    NumSMs,         \* num_sms
    Accesses,       \* sub-ops: [id, src, part, target, write, dsm, transfer]
    ClusterSize,    \* sms_per_cluster
    NetDepth,       \* queue_depth of the network
    Topologies      \* the networks to try, see Network

SM == 0..(NumSMs - 1)
Subpartition == 0..3

ASSUME NocAssumption ==
    /\ NumSMs \in Nat \ {0} /\ ClusterSize \in Nat /\ NetDepth \in Nat
    /\ \A a \in Accesses :
          /\ a.src \in SM /\ a.part \in Subpartition /\ a.target \in SM \union {-1}
          /\ {a.write, a.dsm} \subseteq BOOLEAN /\ a.transfer \in Nat \ {0}
    /\ \A t \in Topologies : IsTopology(t)

VARIABLES
    topology,       \* the network of this run
    phase, sm,      \* where GPU::step is; "start" between two calls
    todo,           \* what the running loop has still to look at
    issued,         \* accesses whose sub-op has left its pipeline
    waiting,        \* retry_queue_sram of all subpartitions: [SM -> accesses]
    net,            \* in_flight: [a, back, wait]
    arrivals,       \* forward_to_sram_retry_queue
    sram,           \* the shared memories: [SM -> memory]
    pending,        \* pending_remote_reads and pending_remote_writes
    unhandled,      \* unhandled: accesses of other SMs this SM's memory has done
    returns,        \* return_retry_queue
    done            \* accesses answered to their subpartition

vars == <<topology, phase, sm, todo, issued, waiting, net, arrivals, sram, pending,
          unhandled, returns, done>>

Elems(s) == {s[i] : i \in DOMAIN s}
-----------------------------------------------------------------------------
Cluster(s) == IF ClusterSize > 0 THEN s \div ClusterSize ELSE 0

\* A DSM access always takes the network; a plain one with a target on another SM
\* takes it within the cluster and falls back to the own memory otherwise.
Remote(a) == a.target >= 0 /\ a.target # a.src
UsesNet_NoFallback(a) == a.dsm \/ Remote(a)               \* faulty variant
UsesNet(a) == a.dsm \/ (Remote(a) /\ Cluster(a.src) = Cluster(a.target))
Dest(a) == IF UsesNet(a) /\ a.target >= 0 THEN a.target ELSE a.src

NetFull == Len(net) >= NetDepth
SramFull(s, w) == IsFull(sram[s], w)

\* The ends of a hop, and a request that starts on it.
From(a, back) == IF back THEN Dest(a) ELSE a.src
To(a, back) == IF back THEN a.src ELSE Dest(a)
Sent(a, back) ==
    [a |-> a, back |-> back, wait |-> Latency(topology, From(a, back), To(a, back))]

Init ==
    /\ topology \in Topologies
    /\ phase = "start" /\ sm = 0 /\ todo = <<>> /\ issued = {}
    /\ waiting = [s \in SM |-> <<>>]
    /\ net = <<>> /\ arrivals = <<>>
    /\ sram = [s \in SM |-> EmptyMemory]
    /\ pending = {} /\ unhandled = <<>> /\ returns = <<>> /\ done = {}

\* A sub-op leaves its pipeline in the coming cycle, after the older ones.
IssueAccess(a) ==
    /\ phase = "start" /\ a \notin issued
    /\ issued' = issued \union {a}
    /\ waiting' = [waiting EXCEPT ![a.src] = Append(@, a)]
    /\ UNCHANGED <<topology, phase, sm, todo, net, arrivals, sram, pending, unhandled,
                   returns, done>>

\* Step 2: what the destination refused is tried again, before the network moves.
RetriedFirst_NetBusy ==                                   \* faulty variant
    IF net = <<>> THEN <<>> ELSE arrivals
RetriedFirst == arrivals

StartCycle ==
    /\ phase = "start" /\ phase' = "forward"
    /\ net' = [i \in DOMAIN net |-> [net[i] EXCEPT !.wait = Aged(@)]]
    /\ sram' = [s \in SM |-> AgedMemory(sram[s])]
    /\ todo' = RetriedFirst
    /\ arrivals' = Picked(arrivals,
                         {i \in DOMAIN arrivals : arrivals[i] \notin Elems(RetriedFirst)})
    /\ UNCHANGED <<sm, issued, waiting, pending, unhandled, returns, done>>

Recorded_WhenRefused(a) == pending \union {a}             \* faulty variant
Recorded(a) ==
    IF SramFull(Dest(a), a.write) THEN pending ELSE pending \union {a}

\* enqueue_forward_to_destination_sram.
Arrive(a) ==
    /\ IF SramFull(Dest(a), a.write)
         THEN arrivals' = Append(arrivals, a) /\ UNCHANGED sram
         ELSE sram' = [sram EXCEPT ![Dest(a)] = Taken(@, a)] /\ UNCHANGED arrivals
    /\ pending' = Recorded(a)

RetryForward ==
    /\ phase = "forward" /\ todo # <<>>
    /\ Arrive(Head(todo)) /\ todo' = Tail(todo)
    /\ UNCHANGED <<phase, sm, issued, waiting, net, unhandled, returns, done>>

\* Step 3: the requests that are through, in the order they entered.
Flight ==
    [i \in DOMAIN net |->
        [wait |-> net[i].wait,
         links |-> Links(topology, From(net[i].a, net[i].back), To(net[i].a, net[i].back))]]
Through == GetThrough(topology, Flight)

StepNetwork ==
    /\ phase = "forward" /\ todo = <<>> /\ phase' = "network"
    /\ todo' = Picked(net, Through)
    /\ net' = Picked(net, DOMAIN net \ Through)
    /\ UNCHANGED <<sm, issued, waiting, arrivals, sram, pending, unhandled, returns, done>>

LeaveNetwork ==
    LET e == Head(todo)
    IN  /\ phase = "network" /\ todo # <<>> /\ todo' = Tail(todo)
        /\ IF e.back
             THEN done' = done \union {e.a} /\ UNCHANGED <<arrivals, sram, pending>>
             ELSE Arrive(e.a) /\ UNCHANGED done
        /\ UNCHANGED <<phase, sm, issued, waiting, net, unhandled, returns>>

\* The return hops that were refused are tried again before new accesses.
StartReturns ==
    /\ phase = "network" /\ todo = <<>> /\ phase' = "return"
    /\ todo' = returns /\ returns' = <<>>
    /\ UNCHANGED <<sm, issued, waiting, net, arrivals, sram, pending, unhandled, done>>

GoBack(a) ==
    IF NetFull
      THEN returns' = Append(returns, a) /\ UNCHANGED net
      ELSE net' = Append(net, Sent(a, TRUE)) /\ UNCHANGED returns

RetryReturn ==
    /\ phase = "return" /\ todo # <<>>
    /\ GoBack(Head(todo)) /\ todo' = Tail(todo)
    /\ UNCHANGED <<phase, sm, issued, waiting, arrivals, sram, pending, unhandled, done>>

\* The subpartitions step one after the other, each with its own queue.
OfPart(q, p) == Picked(q, {i \in DOMAIN q : q[i].part = p})
InTurn(q) == OfPart(q, 0) \o OfPart(q, 1) \o OfPart(q, 2) \o OfPart(q, 3)

\* Step 4, for SM s: its memory answers its own subpartitions and reports the rest;
\* then its subpartitions send what they have.
StepSM(s) ==
    LET over == Completed(sram[s])
        others == Picked(over, {i \in DOMAIN over : over[i].a.src # s})
    IN  /\ phase' = "send" /\ sm' = s
        /\ sram' = [sram EXCEPT ![s] = Remaining(@)]
        /\ done' = done \union {e.a : e \in {f \in Elems(over) : f.a.src = s}}
        /\ unhandled' = [i \in DOMAIN others |-> others[i].a]
        /\ todo' = InTurn(waiting[s]) /\ waiting' = [waiting EXCEPT ![s] = <<>>]
        /\ UNCHANGED <<issued, net, arrivals, pending, returns>>

FirstSM == phase = "return" /\ todo = <<>> /\ StepSM(0)

\* try_enqueue_memory.
Kept(a) == waiting' = [waiting EXCEPT ![sm] = Append(@, a)]

Send ==
    LET a == Head(todo)
    IN  /\ phase = "send" /\ todo # <<>> /\ todo' = Tail(todo)
        /\ IF UsesNet(a)
             THEN /\ UNCHANGED sram
                  /\ IF Cluster(a.src) # Cluster(Dest(a)) \/ NetFull
                       THEN Kept(a) /\ UNCHANGED net
                       ELSE net' = Append(net, Sent(a, FALSE)) /\ UNCHANGED waiting
             ELSE /\ UNCHANGED net
                  /\ IF SramFull(sm, a.write)
                       THEN Kept(a) /\ UNCHANGED sram
                       ELSE sram' = [sram EXCEPT ![sm] = Taken(@, a)] /\ UNCHANGED waiting
        /\ UNCHANGED <<phase, sm, issued, arrivals, pending, unhandled, returns, done>>

StartUnhandled ==
    /\ phase = "send" /\ todo = <<>> /\ phase' = "unhandled"
    /\ todo' = unhandled /\ unhandled' = <<>>
    /\ UNCHANGED <<sm, issued, waiting, net, arrivals, sram, pending, returns, done>>

\* A read takes its data back over the network; a write is answered at once; a
\* completion without a record is dropped.
NeedsReturn(a) == a \in pending /\ ~a.write
AnsweredHere_Unrecorded(a) == TRUE                        \* faulty variant
AnsweredHere(a) == a \in pending /\ a.write

Handle ==
    LET a == Head(todo)
    IN  /\ phase = "unhandled" /\ todo # <<>> /\ todo' = Tail(todo)
        /\ IF NeedsReturn(a) THEN GoBack(a) ELSE UNCHANGED <<net, returns>>
        /\ done' = IF AnsweredHere(a) THEN done \union {a} ELSE done
        /\ pending' = pending \ {a}
        /\ UNCHANGED <<phase, sm, issued, waiting, arrivals, sram, unhandled>>

NextSM ==
    /\ phase = "unhandled" /\ todo = <<>> /\ sm < NumSMs - 1
    /\ StepSM(sm + 1)

EndCycle ==
    /\ phase = "unhandled" /\ todo = <<>> /\ sm = NumSMs - 1
    /\ phase' = "start" /\ sm' = 0
    /\ UNCHANGED <<todo, issued, waiting, net, arrivals, sram, pending,
                   unhandled, returns, done>>

Step ==
    \/ StartCycle \/ RetryForward \/ StepNetwork \/ LeaveNetwork \/ StartReturns
    \/ RetryReturn \/ FirstSM \/ Send \/ StartUnhandled \/ Handle \/ NextSM \/ EndCycle

Cycle == Step /\ UNCHANGED topology

Next == Cycle \/ \E a \in Accesses : IssueAccess(a)

Spec == Init /\ [][Next]_vars

\* The simulation loop calls GPU::step in every cycle.
FairSpec == Spec /\ WF_vars(Cycle)
-----------------------------------------------------------------------------
(* Properties                                                              *)

\* Queues hold accesses that were issued, and no bounded queue exceeds its depth.
TypeOK ==
    /\ phase \in {"start", "forward", "network", "return", "send", "unhandled"} /\ sm \in SM
    /\ issued \subseteq Accesses /\ pending \subseteq issued /\ done \subseteq issued
    /\ \A s \in SM : Elems(waiting[s]) \subseteq issued
    /\ Elems(net) \subseteq [a : issued, back : BOOLEAN, wait : Nat] /\ Len(net) <= NetDepth
    /\ \A s \in SM :
          Contents(sram[s]) \subseteq issued
              /\ \A w \in BOOLEAN : Len(sram[s][w].queue) <= MemoryDepth
    /\ Elems(arrivals) \union Elems(unhandled) \union Elems(returns) \subseteq issued

\* Between two cycles every access is in exactly one place: with its sender, on the
\* network, refused by the destination, in a memory, refused on its way back, or
\* answered; none is lost or answered twice by the retries.  The state is well typed.
InSram == UNION {Contents(sram[s]) : s \in SM}
Located ==
    (UNION {Elems(waiting[s]) : s \in SM}) \union {e.a : e \in Elems(net)}
        \union Elems(arrivals) \union InSram \union Elems(returns) \union done
EachInOnePlace ==
    TypeOK /\ (phase = "start" =>
        /\ Located = issued
        /\ Cardinality(issued) =
              Cardinality(UNION {Elems(waiting[s]) : s \in SM}) + Len(net) + Len(arrivals)
                + Cardinality(InSram) + Len(returns) + Cardinality(done))

\* "Pending remote reads: after SRAM completes, need NoC return hop": between two
\* cycles the records are exactly the accesses from the network that are in a memory.
RecordsMatch ==
    phase = "start" => pending = {a \in InSram : UsesNet(a)}

\* While an arrival waits to be tried again, its destination has no room: a later
\* arrival never enters the memory before it.
ArrivalsInOrder ==
    phase \in {"network", "return"} =>
        \A a \in Elems(arrivals) : SramFull(Dest(a), a.write)

\* No memory ever moves two requests over one port at a time, whoever sent them: the
\* end of a transfer, fixed when the request is taken, leaves room for all before it.
PortsSerial == \A s \in SM : \A w \in BOOLEAN : NoOverlap(sram[s][w])

\* "Compute XY dimension-order route as a list of link IDs": every request on the mesh
\* has been given a shortest way between the places of its SMs, over links that exist.
RoutesShortest ==
    IsMesh(topology) => \A i \in DOMAIN net :
        LET a == From(net[i].a, net[i].back)  b == To(net[i].a, net[i].back)
        IN  IsShortestWay(topology, Links(topology, a, b), a, b)

\* Every access is answered in the end (again and again, or for good once no more
\* are issued, none is open): retries never end in each queue waiting for another.
AllAnswered == []<>(done = issued)
=============================================================================
