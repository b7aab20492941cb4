------------------------------- MODULE TileExec -------------------------------
(***************************************************************************)
(* The life of the nodes of a tile graph: the event-driven dependency      *)
(* counters, the ready queues, sub-op issue, the three ways a node         *)
(* completes, and the thread-block residency of the SMs.                   *)
(*                                                                         *)
(* Time is left out.  Simulator::step calls the same handlers every cycle  *)
(* and each does as much as latencies and bandwidths allow; here every     *)
(* handler is an action taken whenever its data allow, so a behaviour of   *)
(* the program, at any latency, is a behaviour of this module.  The order  *)
(* inside a ready queue (WarpScheduler) and the units that carry a memory  *)
(* transaction (L2Cache, NocRoute) are left to modules of their own: a     *)
(* ready queue is the number of its entries per node, and a transaction    *)
(* in flight is counted, wherever it is.                                   *)
(***************************************************************************)
EXTENDS Integers, FiniteSets

CONSTANTS
    Id,             \* every id a dependency list may name, dangling ones too
    Node,           \* the nodes of the DAG
    TB,             \* thread block ids; dispatch goes by increasing id
    SM,             \* streaming multiprocessors
    SmOf,           \* the SM a thread block is assigned to
    MaxResident,    \* max_resident_tbs of an SM
    Workload        \* the graphs under study: functions from Node to records

ASSUME GraphAssumption ==
    /\ IsFiniteSet(Id) /\ Node \subseteq Id
    /\ TB \subseteq Nat /\ IsFiniteSet(TB)
    /\ SmOf \in [TB -> SM]
    /\ MaxResident \in Nat \ {0}

\* A graph gives a node its dependency lists, block, kind and size in sub-ops (a
\* TMA or a barrier node is issued as one).  owed[k] is the number of completion
\* events that sub-ops k, k+1, ... stand for: one per sub-op, except on the L2
\* path, one per cache line, and never none (subpartition.cpp:425, tma.h:44).
ASSUME WorkloadAssumption ==
    \A w \in Workload : \A n \in Node :
        /\ w[n].deps \subseteq Id /\ w[n].issueDeps \subseteq Id
        /\ w[n].tb \in TB
        /\ w[n].kind \in {"compute", "memory", "tma", "barrier"}
        /\ w[n].subops \in Nat \ {0}
        /\ w[n].kind \in {"tma", "barrier"} => w[n].subops = 1
        /\ \A k \in 0..w[n].subops : w[n].owed[k] \in Nat
        /\ \A k \in 0..w[n].subops - 1 : w[n].owed[k] > w[n].owed[k + 1]
        /\ w[n].kind = "compute" =>
              \A k \in 0..w[n].subops - 1 : w[n].owed[k] = w[n].owed[k + 1] + 1
        /\ w[n].owed[w[n].subops] = 0

VARIABLES
    dag,            \* the graph being simulated, fixed after Init
    remaining,      \* remaining_deps
    queued,         \* number of entries of the node in its warp's ready queue
    next,           \* next_transaction_index
    piped,          \* sub-ops that have left the pipeline (a FIFO)
    pending,        \* pending_transactions
    inMem,          \* transactions in retry queues, NoC, SRAM, TMEM, TMA, L2
    barriers,       \* nodes in a barrier_queue
    issued,         \* nodes with issue_done (and issue_deps_resolved) set
    finished,       \* nodes with `finished` set
    completed,      \* completed_node_count, what Simulator::run compares
    tbRemaining,    \* tb_remaining_count
    resident,       \* the union of the SMs' resident_tb_ids
    waiting         \* the union of the SMs' waiting_tb_queue

nodeVars == <<remaining, queued, next, piped, pending, inMem, barriers, issued>>
doneVars == <<finished, completed, tbRemaining>>
tbVars   == <<resident, waiting>>
vars     == <<dag, nodeVars, doneVars, tbVars>>
-----------------------------------------------------------------------------
(* Dependencies                                                            *)

Subops(n) == dag[n].subops
Owed(n, k) == dag[n].owed[k]

\* The transaction count a node is given when its first sub-op is issued.
TotalTransactions_OnePerSubop(n) == Subops(n)             \* faulty variant
TotalTransactions(n) == Owed(n, 0)

\* children and issue_children, the inverse lists.
Children(n) == {m \in Node : n \in dag[m].deps}
IssueChildren_NotOfTma(n) ==                              \* faulty variant
    {m \in Node : n \in dag[m].issueDeps /\ dag[n].kind # "tma"}
IssueChildren(n) == {m \in Node : n \in dag[m].issueDeps}

\* remaining_deps starts at the sizes of both lists, dangling ids included.
InitialRemaining_CompletionOnly(n) == Cardinality(dag[n].deps)  \* faulty variant
InitialRemaining(n) == Cardinality(dag[n].deps) + Cardinality(dag[n].issueDeps)

\* The loop over C = children or issue_children: a positive counter goes down...
Decremented(C) ==
    [m \in Node |-> IF m \in C /\ remaining[m] > 0
                    THEN remaining[m] - 1 ELSE remaining[m]]

\* ...and a child whose counter reaches zero is put in its ready queue.
Released_Unchecked(C) == C                                \* faulty variant
Released(C) == {m \in C : remaining[m] = 1}
QueuedMore(C) == [m \in Node |-> IF m \in C THEN queued[m] + 1 ELSE queued[m]]
-----------------------------------------------------------------------------
(* Thread blocks                                                           *)

NodesOf(t) == {n \in Node : dag[n].tb = t}
TBsOn(s)   == {t \in TB : SmOf[t] = s /\ NodesOf(t) # {}}

\* The k lowest ids of S: the front of a queue filled in increasing order.
Lowest(S, k) == {t \in S : Cardinality({u \in S : u < t}) < k}

Complete_OffByOne(t) == tbRemaining[t] <= 1               \* faulty variant
Complete(t) == tbRemaining[t] = 0
-----------------------------------------------------------------------------
Init ==
    /\ dag \in Workload
    /\ remaining = [n \in Node |-> InitialRemaining(n)]
    /\ queued = [n \in Node |-> IF InitialRemaining(n) = 0 THEN 1 ELSE 0]
    /\ next = [n \in Node |-> 0]
    /\ piped = [n \in Node |-> 0]
    /\ pending = [n \in Node |-> 0]
    /\ inMem = [n \in Node |-> 0]
    /\ barriers = {}
    /\ issued = {}
    /\ finished = {}
    /\ completed = 0
    /\ tbRemaining = [t \in TB |-> Cardinality(NodesOf(t))]
    /\ resident = UNION {Lowest(TBsOn(s), MaxResident) : s \in SM}
    /\ waiting = (UNION {TBsOn(s) : s \in SM}) \ resident
-----------------------------------------------------------------------------
(* Issue.  A node leaves its ready queue only while its block is resident. *)

Issuable(n) ==
    /\ queued[n] > 0
    /\ n \notin finished
    /\ remaining[n] = 0
    /\ next[n] < Subops(n)
    /\ dag[n].tb \in resident

\* The entry of n is popped, and pushed back unless n is issued in full; then
\* issue_done is set and Subpartition::step resolves the issue dependencies.
IssueLast(n) ==
    /\ issued' = issued \union {n}
    /\ remaining' = Decremented(IssueChildren(n))
    /\ queued' = [QueuedMore(Released(IssueChildren(n))) EXCEPT ![n] = @ - 1]

\* One sub-op of a pipelined node; the first one sizes the transaction count.
IssueSubop(n) ==
    /\ dag[n].kind \in {"compute", "memory"}
    /\ Issuable(n)
    /\ next' = [next EXCEPT ![n] = @ + 1]
    /\ pending' = IF next[n] = 0
                  THEN [pending EXCEPT ![n] = TotalTransactions(n)] ELSE pending
    /\ IF next[n] + 1 < Subops(n) THEN UNCHANGED <<issued, remaining, queued>>
                                  ELSE IssueLast(n)
    /\ UNCHANGED <<dag, piped, inMem, barriers, doneVars, tbVars>>

\* A TMA node hands all its lines to the TMA unit; no pipeline is involved,
\* and it counts as issued at once.
IssueTma(n) ==
    /\ dag[n].kind = "tma"
    /\ Issuable(n)
    /\ next' = [next EXCEPT ![n] = Subops(n)]
    /\ piped' = [piped EXCEPT ![n] = Subops(n)]
    /\ pending' = [pending EXCEPT ![n] = TotalTransactions(n)]
    /\ inMem' = [inMem EXCEPT ![n] = Owed(n, 0)]
    /\ IssueLast(n)
    /\ UNCHANGED <<dag, barriers, doneVars, tbVars>>

\* A barrier node waits for its latency in the barrier queue.
IssueBarrier(n) ==
    /\ dag[n].kind = "barrier"
    /\ Issuable(n)
    /\ next' = [next EXCEPT ![n] = Subops(n)]
    /\ piped' = [piped EXCEPT ![n] = Subops(n)]
    /\ pending' = [pending EXCEPT ![n] = 1]
    /\ barriers' = barriers \union {n}
    /\ IssueLast(n)
    /\ UNCHANGED <<dag, inMem, doneVars, tbVars>>
-----------------------------------------------------------------------------
(* Completion                                                              *)

\* complete_node, then SM::on_node_complete in the same step: a node already
\* finished is left alone, a block counter at zero stays there.
CompleteNode(n) ==
    /\ IF n \in finished
       THEN UNCHANGED <<finished, completed, remaining, queued>>
       ELSE /\ finished' = finished \union {n}
            /\ completed' = completed + 1
            /\ remaining' = Decremented(Children(n))
            /\ queued' = QueuedMore(Released(Children(n)))
    /\ tbRemaining' = [tbRemaining EXCEPT ![dag[n].tb] =
                          IF @ > 0 THEN @ - 1 ELSE @]

\* A completion event takes one transaction off; the node is complete at none.
OneAnswer(n) == pending' = [pending EXCEPT ![n] = IF @ > 0 THEN @ - 1 ELSE @]
AllAnswered_OneEarly(n) == pending'[n] <= 1               \* faulty variant
AllAnswered_NoneInFlight(n) == inMem[n] <= 1              \* faulty variant
AllAnswered(n) == pending'[n] = 0

\* The pipeline retires a sub-op of a compute node; the last one completes it.
RetireCompute(n) ==
    /\ dag[n].kind = "compute"
    /\ piped[n] < next[n]
    /\ piped' = [piped EXCEPT ![n] = @ + 1]
    /\ OneAnswer(n)
    /\ IF AllAnswered(n) THEN CompleteNode(n)
                         ELSE UNCHANGED <<remaining, queued, doneVars>>
    /\ UNCHANGED <<dag, next, inMem, barriers, issued, tbVars>>

\* The transactions sub-op k of n turns into.
SubopEvents_Swapped(n, k) == Owed(n, k + 1) - Owed(n, k)  \* faulty variant
SubopEvents(n, k) == Owed(n, k) - Owed(n, k + 1)

\* The pipeline retires a sub-op of a memory node; its transactions go to a
\* memory unit, or to a retry queue that offers them again every cycle.
RetireMemory(n) ==
    /\ dag[n].kind = "memory"
    /\ piped[n] < next[n]
    /\ piped' = [piped EXCEPT ![n] = @ + 1]
    /\ inMem' = [inMem EXCEPT ![n] = @ + SubopEvents(n, piped[n])]
    /\ UNCHANGED <<dag, remaining, queued, next, pending, barriers, issued,
                   doneVars, tbVars>>

\* A memory unit answers one transaction: handle_memory_completion.
MemoryAnswer(n) ==
    /\ inMem[n] > 0
    /\ inMem' = [inMem EXCEPT ![n] = @ - 1]
    /\ OneAnswer(n)
    /\ IF AllAnswered(n) THEN CompleteNode(n)
                         ELSE UNCHANGED <<remaining, queued, doneVars>>
    /\ UNCHANGED <<dag, next, piped, barriers, issued, tbVars>>

\* A barrier's latency is over.
BarrierExpires(n) ==
    /\ n \in barriers
    /\ barriers' = barriers \ {n}
    /\ CompleteNode(n)
    /\ UNCHANGED <<dag, next, piped, pending, inMem, issued, tbVars>>
-----------------------------------------------------------------------------
(* Step 5 of SM::step: every complete resident block is retired, then at   *)
(* most k waiting blocks, the lowest ids first, take the free places; k is *)
(* the number of dispatch delays that have elapsed (module Residency).     *)

ResidentOn(s) == {t \in resident : SmOf[t] = s}
WaitingOn(s)  == {t \in waiting : SmOf[t] = s}

RetireAndDispatch(s, k) ==
    LET staying == {t \in ResidentOn(s) : ~Complete(t)}
        room    == MaxResident - Cardinality(staying)
        entering == Lowest(WaitingOn(s), IF k < room THEN k ELSE room)
    IN  /\ resident' = (resident \ ResidentOn(s)) \union staying \union entering
        /\ waiting' = waiting \ entering
        /\ UNCHANGED <<dag, nodeVars, doneVars>>
-----------------------------------------------------------------------------
NodeStep(n) ==
    \/ IssueSubop(n) \/ IssueTma(n) \/ IssueBarrier(n)
    \/ RetireCompute(n) \/ RetireMemory(n) \/ MemoryAnswer(n)
    \/ BarrierExpires(n)

SmStep(s) == \E k \in 0..MaxResident : RetireAndDispatch(s, k)

Next == (\E n \in Node : NodeStep(n)) \/ (\E s \in SM : SmStep(s))

Spec == Init /\ [][Next]_vars

\* The cycle loop visits every unit of every SM in every cycle: what a node may
\* do stays possible until done, and a dispatch delay is a number of cycles.
Fairness ==
    /\ \A n \in Node : WF_vars(NodeStep(n))
    /\ \A s \in SM : WF_vars(RetireAndDispatch(s, MaxResident))

FairSpec == Spec /\ Fairness
-----------------------------------------------------------------------------
(* Properties                                                              *)

\* Every counter is a natural number, every set one of nodes or blocks.
TypeOK ==
    /\ remaining \in [Node -> Nat]
    /\ queued \in [Node -> Nat]
    /\ next \in [Node -> Nat]
    /\ piped \in [Node -> Nat]
    /\ pending \in [Node -> Nat]
    /\ inMem \in [Node -> Nat]
    /\ barriers \subseteq Node
    /\ issued \subseteq Node
    /\ finished \subseteq Node
    /\ completed \in Nat
    /\ tbRemaining \in [TB -> Nat]
    /\ resident \subseteq TB
    /\ waiting \subseteq TB

\* The counter remaining_deps, decremented by handlers of other nodes on two
\* occasions, is at all times the number of dependencies still outstanding.
DependencyCounter ==
    \A n \in Node :
        remaining[n] = Cardinality(dag[n].deps \ finished)
                           + Cardinality(dag[n].issueDeps \ issued)

\* enqueue_ready is called by complete_node, by resolve_issue_dependencies and
\* by issue_node: a node that may issue has exactly one ready-queue entry,
\* neither lost nor doubled, and a node that may not has none.
ReadyOnce ==
    \A n \in Node :
        queued[n] = IF remaining[n] = 0 /\ n \notin issued THEN 1 ELSE 0

\* No sub-op is issued before the dependencies of its node are met.
DependencyOrder ==
    \A n \in Node : next[n] > 0 => /\ dag[n].deps \subseteq finished
                                   /\ dag[n].issueDeps \subseteq issued

\* pending_transactions is what the pipeline and the memory units still hold or
\* will be given, so no answer is left over when a node is declared finished
\* and none that a node waits for is missing.
TransactionsBalance ==
    \A n \in Node :
        /\ n \in finished => next[n] = Subops(n) /\ piped[n] = Subops(n)
        /\ n \in barriers => n \notin finished
        /\ next[n] > 0 /\ dag[n].kind # "barrier" =>
              pending[n] = inMem[n] + Owed(n, piped[n])

\* The two counters that replace a scan of the nodes are exact: run() stops at
\* the cycle in which the last node finishes, a block retires when its last does.
Accounting ==
    /\ completed = Cardinality(finished)
    /\ \A t \in TB : tbRemaining[t] = Cardinality(NodesOf(t) \ finished)

\* A block is waiting, then resident, then retired, in the order of the ids on
\* its SM; none of its nodes starts before, and all have finished after.
BlockLifecycle ==
    /\ resident \intersect waiting = {}
    /\ \A s \in SM : Cardinality(ResidentOn(s)) <= MaxResident
    /\ \A n \in Node : dag[n].tb \in waiting => next[n] = 0
    /\ \A n \in Node : dag[n].tb \notin resident \union waiting
                           => n \in finished
    /\ \A t, u \in TB : /\ t \in waiting /\ u \in resident
                        /\ SmOf[t] = SmOf[u]
                        => u < t

\* The machine runs the graph as TileGraph says.
Graph == INSTANCE TileGraph WITH
            deps <- [n \in Node |-> dag[n].deps],
            issueDeps <- [n \in Node |-> dag[n].issueDeps],
            started <- {n \in Node : next[n] > 0}

ImplementsTileGraph == Graph!GSpec

\* A workload whose dependencies name existing nodes, form no cycle, and never
\* point from a block to one that is dispatched after it.
Schedulable ==
    \E rank \in [Node -> 1..Cardinality(Node)] : \A n \in Node :
        \A m \in dag[n].deps \union dag[n].issueDeps :
            m \in Node /\ rank[m] < rank[n] /\ dag[m].tb <= dag[n].tb

\* Such a workload runs to completion: completed_node_count reaches the size of
\* the graph, which is the condition that ends Simulator::run.
RunCompletes == Schedulable => <>(completed = Cardinality(Node))
=============================================================================
