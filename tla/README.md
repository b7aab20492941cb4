# A TLA+ model of the GTSim simulator core

GTSim executes a *tile graph*: a DAG whose nodes are tile-level operations (loads,
matrix multiplies, stores, barriers) and whose edges are data and issue-order
dependencies. `Simulator::run` advances one cycle at a time; in a cycle `GPU::step`
steps the L2 cache, the network on chip (NoC) and every SM, and an SM steps its shared
memory, tensor memory, TMA unit and four subpartitions, then retires and dispatches
thread blocks. Everything is single threaded. What makes it hard is the order of the
handlers within a cycle, the state that several of them share through a node
(`remaining_deps`, `pending_transactions`, `next_transaction_index`), finite queues with
retries, and the many fast paths that replace a scan by a counter.

## Inventory

| Part | State | Operations | What makes it correct |
|---|---|---|---|
| Dependency tracking (`dag_node.h`, `subpartition.cpp`) | `remaining_deps`, `finished`, `issue_done`, children lists | `build_dependency_graph`, `complete_node`, `resolve_issue_dependencies` | a counter equals the dependencies outstanding; nothing starts early |
| Issue (`scheduler.cpp`, `scheduler.h`) | ready queue per warp, `next_transaction_index`, policy state, throttles | `schedule`, `try_issue_from_warp`, `issue_node` | one ready entry per issuable node; a group of warps issues together; no warp starves |
| Pipelines (`pipeline.h`) | deque of sub-ops, next issue cycle | `issue_node`, `step` | sorted deque, no sub-op late |
| Memory answers (`subpartition.cpp`) | `pending_transactions`, retry queues, barrier queue | `handle_memory_completion`, retries | each transaction answered once, node complete at the last |
| Block residency (`sm.cpp`) | resident set, waiting queue, dispatch-ready cycles, remaining counts | `dispatch_next_tb`, `on_node_complete`, step 5 of `SM::step` | places are conserved, blocks in order, delay respected |
| Shared and tensor memory (`memory.h`) | read and write queue, occupied-until cycles, conflict counters | `enqueue`, `step` | depth and bandwidth respected, statistics count what happened |
| L2 and DRAM (`memory.h`) | request queues, cache and LRU list, MSHRs, completion queue, DRAM deque and budget | `enqueue_transaction_key`, `step` | one fetch per missing line, transactions conserved, write-back before refetch |
| TMA (`tma.h`) | setup and pending queues, active request and its credit | `enqueue`, `step` | every line enqueued once, in order |
| TMEM unit (`tmem.h`) | allocated columns, pair tables, grants, release tokens | `can_issue`, `on_issue`, `on_mma_completion_arrival` | paired MMAs issue and retire together |
| NoC and remote access (`noc.h`, `gpu.cpp`) | in-flight requests, pending remote reads and writes, two retry queues | `enqueue`, `enqueue_return`, `step`, routing in `GPU::step` | every remote access answered exactly once, in order; routes on the mesh are shortest |
| Addressing (`memory.h`) | none | strides, lines, bank conflicts | lines and sub-ops cover the tile, what is counted is what is sent |
| Workload builders (`workloads/`) | none after construction | build the H100 GEMM and FA3 graphs | no dead end, every tile computed once, no buffer overwritten while read |
| Configuration, reports, scripts | none | printing, reference checks | not modelled |

How the parts meet. A node is shared: its scheduler issues it, a pipeline, a memory, the
TMA unit or the L2 carries its sub-ops, its subpartition completes it and so releases
nodes of any other subpartition. All calls are direct; "messages" are entries of queues
that a later cycle reads (retry queues, NoC requests, completion queues, DRAM requests).
Nothing is persisted and nothing crashes; what can go wrong is an order of handlers that
nobody tried, a full queue, a stale check, or a counter that misses an event.

## Modules

| Module | Models | Composes with |
|---|---|---|
| `TileGraph` | what the simulator promises of a graph: start, issue in full, finish, once each | abstract specification of `TileExec` |
| `TileExec` | the life of nodes and blocks, at any latency | refines `TileGraph` |
| `GemmGraph`, `Fa3Graph` | the graphs both builders make, as functions of the shape | used by `Workloads` |
| `Workloads` | these graphs, executed in any order their dependencies allow | the execution of `TileGraph`, an operation being issued in one go |
| `WarpScheduler` | the four schedulers of an SM: queue order, policies, O2, groups | details the ready queues of `TileExec` |
| `DelayLine` | what a pipeline promises: each operation leaves when it is due | abstract specification of `Pipeline` |
| `Pipeline` | `pipeline.h`, cycle by cycle | refines `DelayLine` |
| `Residency` | dispatch delays and places of one SM, cycle by cycle | details the dispatch of `TileExec` |
| `MemoryQueue` | both ports of a `Memory`, as operators on its state | the memories of `NocRoute` |
| `Network` | crossbar and mesh, as operators: latency, route, what a cycle lets through | the network of `NocRoute` |
| `NocRoute` | shared memory accesses, local and remote, with all retries | `Network` and `MemoryQueue`; details `MemoryAnswer` of `TileExec` |
| `L2Cache` | L2, MSHRs and DRAM | details `MemoryAnswer` of `TileExec` |
| `Addressing` | addresses, lines, transaction counts and bank conflicts of a tile | the lines `TmaUnit` sends |
| `TmaUnit` | the TMA units, next to the sub-ops of other nodes | in front of `L2Cache`, with `Addressing` |
| `TmemPair` | column allocation, and the rendezvous of two CTAs' MMAs | replaces completion in `TileExec` for these MMAs |

`MC*` modules hold the small graphs, shapes, traffic and assumptions on bounds; `*_proofs`
modules hold the theorems. A definition that ends in a comment `faulty variant` is what
the definition below it would be with a plausible mistake; the specifications do not use
it. For every property that a passing run checks, one such variant breaks it.

### State and actions against the code

* **TileExec.** `remaining`, `next`, `pending` are `remaining_deps`,
  `next_transaction_index`, `pending_transactions`; `queued` counts a node's entries in its
  ready queue, `inMem` its transactions wherever they are. Each action is a handler:
  `IssueSubop`, `IssueTma`, `IssueBarrier` are the branches of `issue_node` with the call of
  `resolve_issue_dependencies` that follows it; `RetireCompute` and `RetireMemory` are what
  `Subpartition::step` does with a sub-op that leaves its pipeline; `MemoryAnswer` is
  `handle_memory_completion`; `BarrierExpires` the barrier queue; `RetireAndDispatch` the
  end of `SM::step`. Time is left out: a handler may run whenever its data allow, so the
  behaviours include those of any latency and bandwidth. Dependency lists are sets.
* **GemmGraph, Fa3Graph, Workloads.** An operation is a tuple of its name and the loop
  variables of the builder that made it; `GemmDeps`, `FaDeps` give its `depends_on` list,
  `GemmIssueDeps`, `FaIssueDeps` what `add_issue_dependency` adds. The lists carried from
  one tile of C to the next (`prev_tile_...`) are functions of the block's `Previous` tile.
  Tile and matrix of an operation are left out, as the builders derive no dependency from
  them. The state is what has been issued and what has finished. An FA3 graph is that of
  one thread block, as its blocks are alike and independent.
* **WarpScheduler.** One action per call of `schedule`, in the order of the subpartitions
  (`turn`): `IssueGroup`, `IssueOne`, `Stall`. What a pipeline or a memory answers is chosen
  anew in each turn (`able`); the SM, its policy and its graph are chosen at the start
  (`setup`); a node completes whenever its sub-ops are issued (`Finish`).
  Only the order of the `last_issue_cycle` values is kept, and whether a `ready_cycle` lies
  ahead. `holder` and `passed` are history variables that no action reads.
* **Pipeline, Residency.** Cycle by cycle with the numbers of the code. `Finish` in
  `Residency` is `on_node_complete` reaching zero; `EndOfCycle` is step 5 of `SM::step`.
* **L2Cache, TmaUnit.** One cycle of the code runs through phases, each turn of a loop
  being an action, so that what holds between two turns is checked as well. In phase `open`
  of the L2 the SMs step: `StepUnit` is `TMAUnit::step` with its loop over the lines,
  `GiveCommand` the issue of a TMA node and `EnqueueSubop` a sub-op of any other node.
  Latencies are counted down; transactions are numbered as they are accepted.
  `given`, `sent` and `reported` record what has passed through a unit.
* **Addressing.** A tile is what `Memory` reads of a node: extent, offset and stride of each
  dimension, layout, element size, elements per sub-op. `TotalTransactions` is the count
  taken at issue, `SubopSends` and `TmaLines` what the two senders then send.
* **NocRoute, Network, MemoryQueue.** The steps of `GPU::step` are phases again:
  `RetryForward`, `StepNetwork`, `LeaveNetwork`, `RetryReturn`, `StepSM`, `Send`, `Handle`
  each take one element of the queue in question. `topology`, chosen at the start, is the
  crossbar or a mesh; `Through` is what `step` of either delivers, given the bandwidth of
  the links. `StepSM` goes through the retry queues of the subpartitions in turn (`InTurn`). A memory is a pair of ports with a queue and the cycles until each transfer
  ends.
* **TmemPair.** One subpartition of each of two CTAs; the stages of `Subpartition::step` are
  deferred completions, retirement, issue. An allocation of `NumAlloc` sub-ops comes before
  the MMAs of its warp, which depend on it; each sub-op goes through the pipeline and takes
  columns, as `on_issue` does. An MMA is `Ready` `readyAfter` cycles after the allocation has
  left the pipeline. `asked` and
  `grant` are `pair_issue_pending` and `node_issue_grant_cycle`; `contended`, chosen at the
  start, lets another warp take an issue slot; `arrived` and `tokens` are `pair_pending`
  and `release_tokens`.

## What the runs show

| Run | Configuration | Shows |
|---|---|---|
| `tile_exec` | `MCTileExec.cfg` | `TypeOK`, `DependencyCounter`, `ReadyOnce`, `TransactionsBalance`, `Accounting`, `BlockLifecycle`: counters, ready entries and block counters are exact at every moment, on cyclic and dangling graphs too; `ImplementsTileGraph`; `RunCompletes`: a schedulable graph ends where every node issues by itself (groups and pairs are in `warps` and `pair`) |
| `workloads` | `MCWorkloads.cfg` | `TwoStages`: two stages of shared memory are enough for the operands, in whatever order loads and MMAs finish; `OneTileAtATime`: accumulators and staged result belong to one tile; `EveryTileStored`; `NoDeadEnd`: the issue orders, added against the order of construction, close no cycle; `StagesInOrder`: warps of FA3 keep to the schedule its comment promises |
| `workloads_unaligned` | `MCWorkloads_unaligned.cfg` | finding: `EveryTileStored` fails |
| `warps` | `MCWarpScheduler.cfg` | `EntriesExact`: no ready entry lost or doubled; `CoIssue`: a warp group's MMAs are issued four at a time, of one instruction where the MMAs of a warp depend on one another, by way of other nodes too; `NoReturn`: no ready warp passed twice under either policy; `NeverStuck`: queues that wait for one another never stop the SM |
| `warps_scan` | `MCWarpScheduler_scan.cfg` | finding: `CoIssue` fails with O2 |
| `pipeline` | `MCPipeline.cfg` | `Fifo`, `Prompt`, `ImplementsDelayLine`: with spans that vary, looking at the front of the deque is enough |
| `residency` | `MCResidency.cfg` | `PlacesConserved`, `NoPlaceIdle`, `DispatchOnTime`: each freed place is filled in the cycle its delay ends |
| `l2` | `MCTmaUnit.cfg` | `EachInOnePlace`, `OneFetchPerLine`, `NoStaleFill`, `DirtyLeavesByWriteback` of the L2; `SentInOrder`: a TMA unit loses, doubles or reorders no line over set-ups of unequal length and refusals; `TransactionsExact`: what is put on record for a node is what is sent for it, and covers its tile; `AllServed`, with all of the budget reserved for writes |
| `noc` | `MCNocRoute.cfg` | `EachInOnePlace`, `RecordsMatch`, `ArrivalsInOrder`, `PortsSerial`, `RoutesShortest`, `AllAnswered`: refusals and retries lose nothing, keep the order and end, and transfers of a port never overlap |
| `noc_mesh` | `MCNocRoute_mesh.cfg` | finding: `RoutesShortest` fails with more than one cluster |
| `pair` | `MCTmemPair.cfg` | `CompleteTogether`, `TokensMatch` whatever takes the issue slots; `GrantsUsed`, `AllComplete` where nothing does |
| `pair_lapse` | `MCTmemPair_lapse.cfg` | finding: `GrantsUsed` fails when an MMA keeps its pipeline three cycles |

Every module has a type invariant `TypeOK`, of the state it declares, which is a conjunct
of the invariant that says where everything is (`EntriesExact`, `EachInOnePlace`,
`TokensMatch`), so that a run checks it too. `TransactionsExact` has a part about operators
only, `TilesExact`, which its run evaluates on every tile of `SomeTiles`.

### Bounds

* `TileExec`: four nodes, one of each kind (TMA, compute, memory, barrier), of three blocks;
  every choice of at most one completion dependency per node, one of them possibly
  dangling, and of an issue dependency on the TMA load, so every chain, fork, join and cycle
  of these sizes occurs. Two sub-ops and unequal numbers of lines per sub-op tell a
  miscounted transaction from a right one. The theorems below hold for any size.
* `Workloads`: a round has two loads and one MMA for each of two warps instead of five loads
  and sixteen MMAs for eight, as the builders treat them alike. GEMM: two tiles in one
  block with one, two and four rounds of k (first and later use of a stage, across tiles
  and within one), four tiles over two blocks, columns visited two at a time. FA3: two
  warps and three rounds, one warp with two rounds and both branches of the softmax, and
  no round at all; three rounds are the fewest in which a stage is used again.
* `WarpScheduler`: twelve nodes on four warps for groups (a load before each first MMA,
  two MMAs, one-shot WGMMA and two-sub-op UMMA, dependent or independent), eight nodes on
  four warps of one scheduler for the policies, with three places for four blocks.
* `Pipeline`: overrides shorter and longer than the default span, 14 cycles.
  `Residency`: six blocks on three places, nine cycles, delay 2: the second wave of
  retirements meets the delays of the first.
* `L2Cache`, `TmaUnit`: one unit, two commands of two lines and one, and one line from other
  nodes (`NumSubops`): four transactions are the fewest that make a line dirty, evict it and
  read it again; with two lines and room for one, every miss evicts. `MaxCredit` is more DRAM credit than all transactions
  together can use (asserted in `MCTmaUnit`). The rate of the first command is no multiple
  of a line, and the L2 has room for two, so credit is carried over and lines are refused.
* `Addressing`: tiles of one to three dimensions and up to 5 elements a side, empty ones,
  with and without strides, leading dimension and offset, in the three layouts, narrow and
  wide elements; lines of two bytes, two threads a warp, three banks.
* `NocRoute`: any of six accesses of four SMs, three of them in one cluster, a network and
  ports of depth two, so that each is full in turn and a port has a queue; two subpartitions
  of SM 0 and one of SM 1 issue two accesses each; the crossbar,
  and a 2x2 mesh whose places are not the identity. A link carries one request per cycle.
* `TmemPair`: three MMAs per CTA, ready in any order of the peers over the three cycles after
  an allocation of two sub-ops that takes exactly all columns; a latency as long as the span,
  so that two MMAs of a CTA are in its pipeline at once. Where another warp may take slots, all
  are ready at once, as a slot that is taken delays an MMA as a late dependency does.
  `LastCycle` leaves time for all (asserted in `MCTmemPair`).

A cycle bound (`LastCycle`, `WithinBound`) only ends exploration; the property checked
with one is a safety property, but for `AllComplete`, whose run asserts that the bound is
late enough.

Deadlock is checked wherever the modelled unit goes on for ever. `CHECK_DEADLOCK FALSE`
stands where a run really ends (all nodes finished, as in `Simulator::run`) or where
`LastCycle` ends it. Runs of a finite graph always end, so `Workloads` states that they end
with everything finished as an invariant (`NoDeadEnd`).

### Fairness

`GPU::step` visits every unit in every cycle, so a handler that can run does. Hence weak
fairness of the step of a cycle in `NocRoute` (`WF(Cycle)`), `TmaUnit` (`WF(TmaCycle)`) and
`TmemPair` (`WF(Next)`), none on the environment that offers work. In `TileExec`, where time
is left out, each node's next handler and each SM's dispatch are weakly fair: bandwidth,
latency and delays postpone them by finitely many cycles. `WarpScheduler` states progress
without fairness: `NeverStuck` says that when all is quiet something can be issued, and
every issue is irrevocable.

## What is proved

TLAPS checks these for every value of the constants that the named assumptions of the
modules allow. The assumptions (`GraphAssumption`, `WorkloadAssumption`,
`PipelineAssumption`, `ResidencyAssumption`, `PairAssumption`, `GemmAssumption`,
`ShapeAssumption`, `L2Assumption`, `TmaAssumption`, `MemoryAssumption`, `NocAssumption`, and
`SetupAssumption` and `GraphAssumption` of `WarpScheduler`) give types and say what is
positive; `GemmAssumption` and the FA3 shapes also say that no loop
of the builders over loads, stores or branches is empty. TLC evaluates them in the runs.
Nine theorems have hypotheses of their own, given below: those of eight are limits of the
code, which a finding or a counterexample shows, and one (`TilesExact`) is evaluated by a run.

* `TileExec_proofs`: `TypeCorrect`, `CountersExact`, `ReadyExactlyOnce`, `OrderRespected`,
  `BalanceKept`, `AccountingExact`, `BlocksInOrder`, `Refinement`. None of these properties
  is inductive: that `remaining_deps` is exact needs that a node finishes once, which needs
  that its transactions balance, which needs how many sub-ops have left its pipeline. The
  inductive invariant `IInv` is the conjunction of the counters with `Progress(n)`, which
  ties `next`, `piped`, `pending`, `inMem`, `issued` and `finished` of a node together. Two
  lemmas (`CompletionLoop`, `IssueLoop`) say what the loops over children do to counters
  and queues; then there is one lemma per action. `BlocksInOrder` is a second invariant on
  top. `OrderRespected` says that no sub-op is issued before its node's dependencies are
  met (`DependencyOrder`); the runs check it through `ImplementsTileGraph`.
  `Refinement` maps initial states and steps to `TileGraph`: the first sub-op is `Start`,
  the last `IssueLast`, the last answer `Finish`, all else a stutter.
* `Pipeline_proofs`: `FifoOrder`, `NeverLate`, `Bounded`, `Refinement`, `TypeCorrect`.
  `Bounded` limits the deque to the latency and one. The comment in the code rests FIFO
  order on a fixed latency; spans vary, so the order needs `Reach`, a bound on how far the
  last entry lies ahead of the next issue.
* `Residency_proofs`: `Conservation`, `Promptness`, `Punctual`, `TypeCorrect`. Conservation
  needs that delays are on record in the order they end (`DelaysInOrder`) and that the
  waiting blocks are the last ones (`WaitingIsTail`). `Punctual` counts the blocks that
  enter in a cycle, for every delay; the run has a positive one.
* `TmemPair_proofs`: `TokensExact`, `PairsComplete`, `NoGrantLapses`. `IInv` says that an MMA
  is in the pipeline, deferred or finished, one of them from its issue on (`OneRunOfEach`,
  `Whereabouts`), that an arrival waits for a peer still executing and that a token means
  the peer is done. `NoGrantLapses` assumes `Span <= LaterOf(1, Interval) + 1`: an MMA frees
  its pipeline no later than a cycle after the issue interval. `GrantInv` then ties the
  pipeline to the next issue cycle; `pair_lapse` shows what happens otherwise.
* `Workloads_proofs`: `OneTile`, `TwoStagesSuffice`, `EachTileOnce`, `StagesKeepOrder`,
  `NoGraphStops`. The dependencies speak of neighbours: MMAs of a tile form a chain
  (`MmaChain`), the first MMA of a tile follows the stores of the one before
  (`StoredBefore`), a load follows the last use of its stage (`StageFree`). `Inv` extends
  each to all earlier tiles, which is inductive over steps and needs no induction over
  tiles. `TwoStagesSuffice` assumes `UseLast` of every shape: one round, or an even number;
  with three, five, ... rounds the code lets a third stage come into use. `EachTileOnce`
  assumes that the columns fill whole groups (`workloads_unaligned` shows the need).
  `NoGraphStops` takes what is unfinished: of a GEMM the first tile, of an FA3 graph the
  operation that comes first in the schedule of its warps (`Place`, `Passed`); what it
  waits for is then finished, so it can be issued.
* `WarpScheduler_proofs`: `OneEntryEach`, `NoneOvertakenTwice`, `FourAtATime`,
  `SomeoneIssues`. `QInv` says that the queues list exactly the nodes that may issue
  (`Entries`), that a node that waits has issued nothing (`Started`) and that a warp resides
  only once its block is dispatched (`Residence`); it gives `EntriesExact` for every set-up.
  For `NoReturn`, a warp that was passed comes before the holder in the next round
  (`RoundInv`), or has issued longer ago (`GreedyInv`). `CoIssue` has two inductive halves:
  the four warps have issued equally many MMAs (`Even`), and what comes before a head is
  finished in all four, so that the heads are of one instruction (`Together`). For
  `NeverStuck`, blocks are dispatched in order (`Dispatched`), so an unfinished node of
  lowest rank in a dispatched block has all it waits for, and is at the head of its queue if
  it is an MMA. The hypotheses: `Untied` (round robin, or no group issue), as a group
  issue ties two warps of a scheduler in `last_issue_cycle`; `WellGrouped` (groups of four,
  led by the first, no O2; `warps_scan` shows the need) and `Matched` (an instruction has one
  member in each of four warps, numbered alike); `Resolvable` (no cycle of dependencies, and
  the MMAs of a warp are ordered with its other nodes). The loader warps of the GEMM have no
  MMA, and its consumer warps alternate MMAs and the stores that wait for them, so it
  satisfies all of them for any shape; TLC evaluates them on the set-ups of `warps` (`Served`).
  In FA3 the QK and PV products of a warp are not all ordered, so `SomeoneIssues` says
  nothing of it: what is proved there is `NoDeadEnd`, of the graph and not of its queues.
* `TmaUnit_proofs`, about the L2 behind its units: `OneFetch`, `NoFetchOvertakes`,
  `NoneLost`, `DirtyWrittenBack`. `LineInv` says that the LRU list names no line twice, that there is one fetch under way exactly for
  each key with an MSHR entry (`Requests`), and that DRAM requests are in order of age, so
  that one the credit does not cover holds back all behind it (`DramOrder`). `Places` adds
  that no transaction is in two places, by their numbers. `Takes` covers every step that
  only adds transactions to the queues.
* `TmaUnit_proofs`, about the units: `UnitsLoseNone`, `UnitsWriteBack`, `LinesInOrder`,
  `SendsAsRecorded`. What a unit hands over is a case of `Takes`, so that the L2's invariant holds behind any
  number of units. `InLine`: the commands given to a unit are those sent, the active one,
  the ready ones and those being set up, in this order; `SentLines`: those sent are the
  first lines of each command, in order. `SendsAsRecorded` assumes `TilesExact`, which is
  about sums over the lines of a tile; the `l2` run evaluates it.
* `NocRoute_proofs`: `NoneLost`, `RecordsExact`, `NoArrivalOvertakes`, `TransfersSerial`,
  `ShortestRoutes`. `Apart` puts each access in one of eight places (what the running loop
  still has to look at being one of them), `Records` and `Refusals` say in each phase what
  is on record and who still finds no room. `TransfersSerial` needs `Served`: an entry that
  stays at zero no longer ages while the next one does, so the SMs a cycle has passed must
  have handed out all that was due. `RecordsExact` assumes that no SM sends itself an access
  over the network: its record is never taken back. `ShortestRoutes` assumes a grid with a
  place for each SM (`noc_mesh` shows the need): links along a row and down a column are
  numbered apart, so a route has as many links as gaps, and a place meets an odd number of
  them exactly if it is one of two different ends (`RouteLinks`, by parity).

The shortest-way, tile and stage theorems hold for any size of grid, shape and number of
rounds, where the runs have 2x2 SMs and at most four rounds.

Only model-checked: liveness (`RunCompletes`, `AllServed`, `AllAnswered`, `AllComplete`), as
the prover has no rules for fairness and ENABLED that these need; and `TilesExact`, which is
about sums over data that its induction does not reach. Every other property of the passing
runs is the subject of a theorem.

## Findings

* A grant for a paired MMA is good for one cycle only. A busy pipeline, or another warp, in
  that cycle leaves a stale entry and the MMA never issues (`pair_lapse`, `tmem.h:191`).
* The O2 scan takes a member of a warp group without its peers (`warps_scan`,
  `scheduler.cpp:197`). By the same path it takes a TMA command before its interval is over.
* The GEMM visits its tiles in groups of 8 columns but numbers only as many ids as there are
  tiles: with more than 8 columns of tiles, and not a multiple of 8, some are never computed
  (`workloads_unaligned`, `gemm_h100.cpp:61`; 80 of 96 tiles for 8 rows of 12).
* Mesh routes take the global id of an SM for its place in a grid that is sized for one
  cluster, so those of later clusters use links that do not exist (`noc_mesh`, `noc.h:275`).

The first two need features (2-CTA MMAs, O2) that the two shipped workloads do not use.

Met while modelling, without a run: with an odd number of rounds from three on, the second
load of a GEMM tile waits for no MMA of the tile before, so `TwoStages` holds for the even
numbers and one only (the default K of 1024 gives 16). A DSM access to the own SM leaves its
record in `pending`. A refused read is counted again in the conflict statistic at every
retry. Elements narrower than a bank never cause a conflict unless they coincide. A DSM
access to another cluster is refused for ever. With greedy-then-oldest, a scheduler
that issues by itself in the cycle of a group issue leaves two of its warps with the same
`last_issue_cycle`; the sort then decides, and one may pass the other twice. A group MMA at a queue head blocks the other nodes of its warp, so
one whose partners wait for such a node never issues. M below 128 or N below 256 divides by zero.

## Not modelled, and the plan

Left out for good: presets, command line, reports and statistics (no control state), Python
scripts and reference data; several simulators in one process, which would share the static
tables of `tmem.h`. Within modelled parts: issue group sizes other than 1 and 4 are read as
in the code but occur in no graph; SRAM issue throttles and full queues are refusals of the
environment in `WarpScheduler`; unpaired TMEM operations follow the guard of `Alloc` without
a handshake; requests on a mesh use an equal share of a link; integers are unbounded.

Next, in this order:

1. Compositions: `Residency` as the dispatch of `TileExec`, `WarpScheduler` as its issue, each
   a refinement checked in the run of the finer module.
2. `SomeoneIssues` for graphs in which the MMAs of a warp are not ordered, as in FA3: it
   needs that the orders in which they become ready agree in the four warps.
