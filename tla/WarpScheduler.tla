---------------------------- MODULE WarpScheduler ----------------------------
(***************************************************************************)
(* The four warp schedulers of an SM: the order inside the ready queues,   *)
(* the greedy-then-oldest and round-robin policies, the O2 scan behind a   *)
(* stalled head, the spacing of TMA commands, and the joint issue of a     *)
(* warp group's MMAs, which scheduler 0 does for all four.                 *)
(*                                                                         *)
(* What the other units decide is left open: whether a pipeline, a memory  *)
(* or the tensor memory takes a sub-op in a turn (`able`), and when a node *)
(* whose sub-ops are all issued completes (TileExec says how).  Cycles are *)
(* not numbered: a scheduler asks of a last_issue_cycle only which is      *)
(* older, of a ready_cycle whether it is over (a longer set-up latency is  *)
(* a refusal), of tma_next_issue_cycle how far off it is.  Dependency      *)
(* lists are sets, children are visited in the order of the node ids, and  *)
(* a freed place takes the next block in the same cycle (Residency).       *)
(***************************************************************************)
EXTENDS Integers, Sequences, FiniteSets

CONSTANT Setup      \* the SMs under study, with the graphs they run

Lane == 0..3
NoWarp == -1
NoPipe == "none"
GroupOps == {"wgmma", "umma"}       \* is_group_issued_op
None == -1

\* A set-up has the warps of the SM (warp w belongs to scheduler w % 4) and their
\* thread blocks, max_resident_tbs, the policy, O2_dynamic_allocation,
\* tma_issue_interval, and the graph, whose nodes are numbered.
ASSUME SetupAssumption ==
    \A u \in Setup :
        /\ u.warps \subseteq Nat /\ IsFiniteSet(u.warps)
        /\ u.blockOf \in [u.warps -> Nat] /\ u.maxResident \in Nat \ {0}
        /\ u.policy \in {"GTO", "RR"} /\ u.o2 \in BOOLEAN /\ u.tmaInterval \in Nat
        /\ DOMAIN u.graph \subseteq Nat /\ IsFiniteSet(DOMAIN u.graph)

\* In a node, size and leader are issue_group_size and issue_group_leader_warp, 0 and
\* -1 when they are to be inferred; mma names the warp-group instruction that a
\* group-issued node is a part of.
ASSUME GraphAssumption ==
    \A u \in Setup : \A n \in DOMAIN u.graph :
        LET d == u.graph[n]
        IN  /\ d.warp \in u.warps /\ d.pipe # NoPipe
            /\ d.deps \subseteq DOMAIN u.graph /\ d.issueDeps \subseteq DOMAIN u.graph
            /\ d.op \in {"plain", "tma", "barrier"} \union GroupOps
            /\ d.subops \in Nat \ {0} /\ (d.op \in {"tma", "barrier"} => d.subops = 1)
            /\ d.size \in Nat /\ d.leader \in u.warps \union {None}

VARIABLES
    setup,          \* the SM being simulated, fixed after Init
    turn,           \* the subpartition that steps next; 4 at the end of the cycle
    ready,          \* ready_warp
    sub,            \* next_transaction_index
    early,          \* nodes whose ready_cycle is the next cycle
    finished,       \* nodes with `finished` set
    lastWarp,       \* last_issued_warp
    lastIssue,      \* last_issue_cycle: Now in this cycle, else its rank in the lane
    lastPipe,       \* last_issued_pipeline
    cursor,         \* rr_cursor
    tmaWait,        \* cycles to tma_next_issue_cycle
    resident,       \* resident_warps of each scheduler
    waiting,        \* blocks not dispatched yet
    holder,         \* history: the warp that issued last since residency changed
    passed          \* history: warps that gave up their turn while a warp could issue

nodeVars   == <<ready, sub, early, finished>>
policyVars == <<lastWarp, lastIssue, lastPipe, cursor, tmaWait>>
blockVars  == <<resident, waiting>>
history    == <<holder, passed>>
vars == <<setup, turn, nodeVars, policyVars, blockVars, history>>
-----------------------------------------------------------------------------
Warp == setup.warps
dag == setup.graph
Node == DOMAIN dag
LaneOf(w) == w % 4
Lowest(S, k) == {b \in S : Cardinality({c \in S : c < b}) < k}
First(S) == CHOOSE i \in S : \A j \in S : i <= j
Last(S) == CHOOSE i \in S : \A j \in S : j <= i
Elems(s) == {s[i] : i \in DOMAIN s}

\* A set of numbers as a sequence: by the key of each, equal keys by the numbers.
UpTo(S, key, n) == {m \in S : key[m] < key[n] \/ (key[m] = key[n] /\ m <= n)}
Arranged(S, key) ==
    [i \in 1..Cardinality(S) |-> CHOOSE n \in S : Cardinality(UpTo(S, key, n)) = i]
InOrder(S) == Arranged(S, [n \in S |-> 0])

BlockOf == setup.blockOf
Blocks == {BlockOf[w] : w \in Warp}
WarpsOf(B, l) == InOrder({w \in Warp : BlockOf[w] \in B /\ LaneOf(w) = l})

\* The dependencies that remaining_deps counts, once fin are finished and iss issued.
Unmet(n, fin, iss) == (dag[n].deps \ fin) \union (dag[n].issueDeps \ iss)

\* A child with no dependency left is appended to the queue of its warp, to issue in
\* the next cycle at the earliest; by[n] is the warp whose issue resolves child n.
PutIn(q, C, by) == [w \in Warp |-> q[w] \o Arranged({n \in C : dag[n].warp = w}, by)]
Released(fin, iss, fin2, iss2) ==
    {n \in Node : Unmet(n, fin, iss) # {} /\ Unmet(n, fin2, iss2) = {}}

\* issue_done (and issue_deps_resolved): all sub-ops are issued.
IssueDone == {n \in Node : sub[n] >= dag[n].subops}
-----------------------------------------------------------------------------
Init ==
    /\ setup \in Setup
    /\ turn = 0
    /\ ready = [w \in Warp |->
                  InOrder({n \in Node : dag[n].warp = w /\ Unmet(n, {}, {}) = {}})]
    /\ sub = [n \in Node |-> 0] /\ early = {} /\ finished = {}
    /\ lastWarp = [l \in Lane |-> NoWarp]
    /\ lastIssue = [w \in Warp |-> 0] /\ lastPipe = [w \in Warp |-> NoPipe]
    /\ cursor = [l \in Lane |-> 0] /\ tmaWait = [w \in Warp |-> 0]
    /\ LET first == Lowest(Blocks, setup.maxResident)
       IN  /\ resident = [l \in Lane |-> WarpsOf(first, l)]
           /\ waiting = Blocks \ first
    /\ holder = [l \in Lane |-> NoWarp] /\ passed = [w \in Warp |-> {}]
-----------------------------------------------------------------------------
(* What a warp offers                                                      *)

\* Entries at the front that need no issue any more are dropped.
Live(n) == n \notin finished /\ sub[n] < dag[n].subops
Queue(w) ==
    LET live == {i \in DOMAIN ready[w] : Live(ready[w][i])}
    IN  IF live = {} THEN <<>> ELSE SubSeq(ready[w], First(live), Len(ready[w]))

Residing(w) == w \in Elems(resident[LaneOf(w)])
IsReady(n) ==
    /\ Live(n)
    /\ Unmet(n, finished, IssueDone) = {}
    /\ n \notin early
    /\ Residing(dag[n].warp)

\* node_ready_and_pipe; a barrier node has no pipeline.
HasPipe(n, able) == IsReady(n) /\ dag[n].op # "barrier" /\ n \in able

IsGroup(n) == dag[n].op \in GroupOps
GroupSize(n) == IF dag[n].size > 0 THEN dag[n].size
                ELSE IF dag[n].op = "wgmma" THEN 4 ELSE 1
Leader_Unaligned(n) == IF dag[n].leader # None THEN dag[n].leader ELSE dag[n].warp  \* faulty variant
Leader(n) ==
    IF dag[n].leader # None THEN dag[n].leader
    ELSE IF GroupSize(n) <= 1 THEN dag[n].warp
    ELSE dag[n].warp - (dag[n].warp % GroupSize(n))

\* Step 1: the head of the queue, when it can issue at once.
TmaReady(w) == tmaWait[w] = 0
HeadIssues_Alone(n, able) ==                              \* faulty variant
    CASE dag[n].op = "tma"     -> IsReady(n) /\ TmaReady(dag[n].warp)
      [] dag[n].op = "barrier" -> IsReady(n)
      [] OTHER -> HasPipe(n, able)
HeadIssues(n, able) ==
    CASE dag[n].op = "tma"     -> IsReady(n) /\ TmaReady(dag[n].warp)
      [] dag[n].op = "barrier" -> IsReady(n)
      [] IsGroup(n) /\ GroupSize(n) > 1 -> FALSE
      [] OTHER -> HasPipe(n, able)
HeadStalls(n) ==
    dag[n].op \notin {"tma", "barrier"} /\ ~(IsGroup(n) /\ GroupSize(n) > 1)

\* Step 2: with O2, the entries behind a stalled head, another pipeline first.
Behind(w, able) ==
    LET q == Queue(w)
        fit == {i \in 2..Len(q) : \/ dag[q[i]].op = "barrier" /\ IsReady(q[i])
                                  \/ HasPipe(q[i], able)}
        other == {i \in fit : \/ dag[q[i]].op = "barrier"
                              \/ dag[q[i]].pipe # lastPipe[w]}
    IN  IF lastPipe[w] # NoPipe /\ other # {} THEN other ELSE fit

\* The entry try_issue_from_warp takes: a set with at most one place in Queue(w).
Offer(w, able) ==
    LET q == Queue(w)
    IN  IF q = <<>> THEN {}
        ELSE IF HeadIssues(q[1], able) THEN {1}
        ELSE IF setup.o2 /\ HeadStalls(q[1]) /\ Behind(w, able) # {}
             THEN {First(Behind(w, able))}
        ELSE {}
Offers(w, able) == Offer(w, able) # {}
-----------------------------------------------------------------------------
(* Issue                                                                   *)

\* The nodes at places at[w] of the queues of the warps in W issue one sub-op
\* each, in the order of the warps: the entry is taken out, and put back at the
\* end unless the node is issued in full, which releases its issue children.
Now == Cardinality(Warp)
TakenOut_Front(q, i) == Tail(q)                           \* faulty variant
TakenOut(q, i) == [k \in 1..Len(q) - 1 |-> IF k < i THEN q[k] ELSE q[k + 1]]
Issue(W, at) ==
    LET node(w) == Queue(w)[at[w]]
        nodes == {node(w) : w \in W}
        last(n) == sub[n] + 1 >= dag[n].subops
        taken == [w \in Warp |->
                    IF w \notin W THEN ready[w]
                    ELSE IF last(node(w)) THEN TakenOut(Queue(w), at[w])
                    ELSE Append(TakenOut(Queue(w), at[w]), node(w))]
        C == Released(finished, IssueDone, finished, IssueDone \union {n \in nodes : last(n)})
        by == [n \in C |-> Last({w \in W : last(node(w)) /\ node(w) \in dag[n].issueDeps})]
    IN  /\ ready' = PutIn(taken, C, by)
        /\ early' = early \union C \union nodes
        /\ sub' = [n \in Node |-> IF n \in nodes THEN sub[n] + 1 ELSE sub[n]]
        /\ lastWarp' = [l \in Lane |-> IF \E w \in W : LaneOf(w) = l
                                       THEN CHOOSE w \in W : LaneOf(w) = l ELSE lastWarp[l]]
        /\ lastIssue' = [w \in Warp |-> IF w \in W THEN Now ELSE lastIssue[w]]
        /\ lastPipe' = [w \in Warp |-> IF w \in W THEN dag[node(w)].pipe ELSE lastPipe[w]]
        /\ tmaWait' = [w \in Warp |-> IF w \in W /\ dag[node(w)].op = "tma"
                                      THEN setup.tmaInterval ELSE tmaWait[w]]
        /\ UNCHANGED <<setup, finished, blockVars>>

\* The four heads of the group led by warp w, when all can issue.
GroupReady(w, able) ==
    /\ w % 4 = 0 /\ Queue(w) # <<>>
    /\ LET lead == Queue(w)[1]
       IN  /\ IsGroup(lead) /\ GroupSize(lead) = 4 /\ Leader(lead) = w
           /\ \A v \in w..w + 3 :
                 /\ v \in Warp /\ Queue(v) # <<>>
                 /\ LET n == Queue(v)[1]
                    IN  /\ IsGroup(n) /\ GroupSize(n) = 4 /\ Leader(n) = w
                        /\ dag[n].op = dag[lead].op
                        /\ HasPipe(n, able)
GroupTurns(able) == {i \in DOMAIN resident[0] : GroupReady(resident[0][i], able)}

\* Scheduler 0 issues for its peers too, and nothing else in this turn; the
\* peers' own turns are still to come.
IssueGroup(able) ==
    /\ turn = 0 /\ GroupTurns(able) # {}
    /\ LET w == resident[0][First(GroupTurns(able))]
       IN  Issue(w..w + 3, [v \in w..w + 3 |-> 1])
    /\ holder' = [l \in Lane |-> NoWarp] /\ passed' = [w \in Warp |-> {}]
    /\ turn' = 1
    /\ UNCHANGED cursor
-----------------------------------------------------------------------------
(* Policies: the warps that may have this turn                             *)

RoundRobin(l, able) ==
    LET count == Len(resident[l])
        after(k) == resident[l][(((cursor[l] % count) + k) % count) + 1]
        turns == {k \in 0..count - 1 : Offers(after(k), able)}
    IN  IF count = 0 \/ turns = {} THEN {} ELSE {after(First(turns))}
NextCursor(l, w) ==
    (CHOOSE i \in DOMAIN resident[l] : resident[l][i] = w) % Len(resident[l])

\* The sort leaves open which of two warps that issued in one cycle is first.
GreedyThenOldest_Youngest(l, able) ==                     \* faulty variant
    LET offering == {w \in Elems(resident[l]) : Offers(w, able)}
    IN  IF lastWarp[l] \in offering THEN {lastWarp[l]}
        ELSE {w \in offering : \A v \in offering : lastIssue[w] >= lastIssue[v]}
GreedyThenOldest(l, able) ==
    LET offering == {w \in Elems(resident[l]) : Offers(w, able)}
    IN  IF lastWarp[l] \in offering THEN {lastWarp[l]}
        ELSE {w \in offering : \A v \in offering : lastIssue[w] <= lastIssue[v]}

Turns(l, able) ==
    IF setup.policy = "RR" THEN RoundRobin(l, able) ELSE GreedyThenOldest(l, able)

\* History: w could have issued when v did, and the holder lost its turn to v.
PassedBy(l, v, able) ==
    [w \in Warp |->
        IF LaneOf(w) # l THEN passed[w]
        ELSE IF w = v \/ ~Offers(w, able) THEN {}
        ELSE passed[w] \union ({holder[l]} \ {v, NoWarp})]

NoGroup(able) == turn # 0 \/ GroupTurns(able) = {}

IssueOne(able) ==
    /\ turn \in Lane /\ NoGroup(able)
    /\ \E w \in Turns(turn, able) :
          /\ Issue({w}, [v \in {w} |-> First(Offer(w, able))])
          /\ cursor' = IF setup.policy = "RR"
                        THEN [cursor EXCEPT ![turn] = NextCursor(turn, w)] ELSE cursor
          /\ holder' = [holder EXCEPT ![turn] = w]
          /\ passed' = PassedBy(turn, w, able)
    /\ turn' = turn + 1

Stall(able) ==
    /\ turn \in Lane /\ NoGroup(able) /\ Turns(turn, able) = {}
    /\ turn' = turn + 1
    /\ passed' = PassedBy(turn, NoWarp, able)
    /\ UNCHANGED <<setup, nodeVars, policyVars, blockVars, holder>>

\* Every sub-op another unit is asked about in this turn.
Asked == {n \in Node : \E w \in Warp :
             /\ n \in Elems(Queue(w)) /\ IsReady(n) /\ dag[n].op # "barrier"
             /\ \/ LaneOf(w) = turn /\ (setup.o2 \/ dag[n].op # "tma")
                \/ turn = 0 /\ IsGroup(n)}
Turn(able) == IssueGroup(able) \/ IssueOne(able) \/ Stall(able)
-----------------------------------------------------------------------------
(* Completion and the end of the cycle                                     *)

\* complete_node of a node whose sub-ops are all issued: in the step of its own
\* subpartition before it schedules, or before the first subpartition steps.
Finish(n) ==
    /\ n \in IssueDone \ finished
    /\ turn \in {0, LaneOf(dag[n].warp)}
    /\ LET C == Released(finished, IssueDone, finished \union {n}, IssueDone)
       IN  /\ ready' = PutIn(ready, C, [c \in C |-> 0])
           /\ early' = early \union C
    /\ finished' = finished \union {n}
    /\ UNCHANGED <<setup, turn, sub, policyVars, blockVars, history>>

\* SM::step retires complete blocks and dispatches as many in their place.
ResidentBlocks == Blocks \ (waiting \union
    {b \in Blocks : \A w \in Warp : BlockOf[w] = b => ~Residing(w)})
Complete(b) == \A n \in Node : BlockOf[dag[n].warp] = b => n \in finished

Kept(l, gone) ==
    LET stay == InOrder({i \in DOMAIN resident[l] : BlockOf[resident[l][i]] \notin gone})
    IN  [i \in DOMAIN stay |-> resident[l][stay[i]]]
Rank(w) == Cardinality({lastIssue[v] : v \in {u \in Warp :
                            LaneOf(u) = LaneOf(w) /\ lastIssue[u] < lastIssue[w]}})
EndCycle ==
    /\ turn = 4
    /\ turn' = 0
    /\ early' = {}
    /\ lastIssue' = [w \in Warp |-> Rank(w)]
    /\ tmaWait' = [w \in Warp |-> IF tmaWait[w] > 0 THEN tmaWait[w] - 1 ELSE 0]
    /\ LET gone == {b \in ResidentBlocks : Complete(b)}
           new == Lowest(waiting, Cardinality(gone))
       IN  /\ resident' = [l \in Lane |-> Kept(l, gone) \o WarpsOf(new, l)]
           /\ waiting' = waiting \ new
           /\ IF gone = {} THEN UNCHANGED history
              ELSE /\ holder' = [l \in Lane |-> NoWarp]
                   /\ passed' = [w \in Warp |-> {}]
    /\ UNCHANGED <<setup, ready, sub, finished, lastWarp, lastPipe, cursor>>

Next ==
    /\ finished # Node
    /\ \/ \E able \in SUBSET Asked : Turn(able)
       \/ \E n \in Node : Finish(n)
       \/ EndCycle

Spec == Init /\ [][Next]_vars
-----------------------------------------------------------------------------
(* Properties                                                              *)

\* The state is well typed, and no more blocks are resident than fit.
TypeOK ==
    /\ setup \in Setup /\ turn \in 0..4
    /\ \A w \in Warp : ready[w] \in Seq(Node)
    /\ \A n \in Node : sub[n] \in 0..dag[n].subops
    /\ early \subseteq Node /\ finished \subseteq IssueDone
    /\ lastWarp \in [Lane -> Warp \union {NoWarp}]
    /\ lastIssue \in [Warp -> 0..Now]
    /\ lastPipe \in [Warp -> {dag[n].pipe : n \in Node} \union {NoPipe}]
    /\ \A l \in Lane : cursor[l] \in 0..Cardinality({w \in Warp : LaneOf(w) = l})
    /\ tmaWait \in [Warp -> 0..setup.tmaInterval]
    /\ \A l \in Lane : resident[l] \in Seq({w \in Warp : LaneOf(w) = l})
    /\ waiting \subseteq Blocks /\ Cardinality(ResidentBlocks) <= setup.maxResident
    /\ holder \in [Lane -> Warp \union {NoWarp}] /\ passed \in [Warp -> SUBSET Warp]

\* Popping at the head, erasing in the middle, group pops and re-queued sub-ops
\* never lose or double an entry: a node that may still issue has exactly one,
\* in the queue of its own warp, and no other node has any (scheduler.cpp).  The state
\* is well typed.
EntriesExact ==
    TypeOK /\ \A n \in Node : \A w \in Warp :
        Cardinality({i \in DOMAIN ready[w] : ready[w][i] = n}) =
            IF dag[n].warp = w /\ Live(n) /\ Unmet(n, finished, IssueDone) = {} THEN 1 ELSE 0

\* The MMAs of a warp group are issued four at a time: at no moment has one of the
\* four consecutive warps issued more of them than another (dag_node.h:219).  Where
\* each MMA of a warp waits for all its earlier ones, by way of the nodes between them, as
\* in the GEMM of workloads/, the four are members of one instruction, though only the
\* heads of the queues are matched.
GroupSubops(w, op) ==
    UNION {{n} \X (1..sub[n]) : n \in {m \in Node : dag[m].warp = w /\ dag[m].op = op}}
Mmas(g) == {n \in DOMAIN g : g[n].op \in GroupOps}
WaitsFor(g, m, n) ==
    \A F \in SUBSET DOMAIN g : g[m].deps \subseteq F /\ (\A k \in F : g[k].deps \subseteq F) => n \in F
Chained ==
    {u \in Setup : \A n, m \in Mmas(u.graph) :
        u.graph[n].warp = u.graph[m].warp /\ n < m => WaitsFor(u.graph, m, n)}
CoIssue ==
    /\ \A n \in Node : IsGroup(n) /\ GroupSize(n) = 4 =>
          \A v \in Leader(n)..Leader(n) + 3 :
              Cardinality(GroupSubops(v, dag[n].op)) = Cardinality(GroupSubops(dag[n].warp, dag[n].op))
    /\ setup \in Chained => \A n, m \in Node :
          IsGroup(n) /\ IsGroup(m) /\ dag[n].mma = dag[m].mma => sub[n] = sub[m]

\* A warp that gave its turn to another does not have it back before a warp
\* that could issue all along: neither policy passes a ready warp twice, as long
\* as no block retires (which shifts the warps under rr_cursor).
NoReturn == \A w \in Warp : holder[LaneOf(w)] \notin passed[w]

\* Queues that wait for one another never stop the SM: when nothing is under
\* way any more and every unit would take a sub-op, some warp has one to issue
\* (a group's four members at the heads of their queues included).
Quiet == /\ turn = 0 /\ early = {} /\ IssueDone = finished /\ finished # Node
         /\ \A w \in Warp : tmaWait[w] = 0
         /\ \A b \in ResidentBlocks : ~Complete(b)
NeverStuck == Quiet => GroupTurns(Node) # {} \/ \E l \in Lane : Turns(l, Node) # {}
-----------------------------------------------------------------------------
(* Graphs that the schedulers serve well: what a set-up must be like for the    *)
(* properties to hold whatever its size.                                        *)

\* Round robin, or no operation that its scheduler issues together with its peers.
Untied(u) ==
    \/ u.policy = "RR"
    \/ \A n \in Mmas(u.graph) : \/ u.graph[n].size = 1
                                \/ u.graph[n].op = "umma" /\ u.graph[n].size = 0

\* The MMAs are issued four at a time: without the O2 scan, each of a group of four
\* whose leader is the first of the four consecutive warps.
FirstOfFour(w) == w - (w % 4)
WellGrouped(u) ==
    \A n \in Mmas(u.graph) :
        /\ ~u.o2
        /\ u.graph[n].size = 4 \/ (u.graph[n].op = "wgmma" /\ u.graph[n].size = 0)
        /\ u.graph[n].leader \in {None, FirstOfFour(u.graph[n].warp)}

\* An instruction has one member in each of four consecutive warps, all of one operation
\* and with as many sub-ops, and each warp numbers its members in the same order.
Matched(u) ==
    \A n, m \in Mmas(u.graph) :
        /\ u.graph[n].mma = u.graph[m].mma =>
              /\ u.graph[n].op = u.graph[m].op /\ u.graph[n].subops = u.graph[m].subops
              /\ FirstOfFour(u.graph[n].warp) = FirstOfFour(u.graph[m].warp)
              /\ u.graph[n].warp = u.graph[m].warp => n = m
        /\ \A v \in FirstOfFour(u.graph[n].warp)..FirstOfFour(u.graph[n].warp) + 3 :
              \E p \in Mmas(u.graph) : u.graph[p].warp = v /\ u.graph[p].mma = u.graph[n].mma
        /\ \A p, q \in Mmas(u.graph) :
              /\ u.graph[p].mma = u.graph[n].mma /\ u.graph[q].mma = u.graph[m].mma
              /\ u.graph[n].warp = u.graph[m].warp /\ u.graph[p].warp = u.graph[q].warp /\ n < m
              => p < q

\* The queues cannot wait for one another: each MMA of a warp waits for every earlier one,
\* and for, or before, every other node of its warp; the dependencies have no cycle, even
\* with an instruction's members taken as one, and lead to no later block that may be
\* waiting; an instruction is of one block.
Resolvable(u, rank) ==
    /\ u \in Chained
    /\ \A n \in Mmas(u.graph), x \in DOMAIN u.graph \ Mmas(u.graph) :
          u.graph[x].warp = u.graph[n].warp => WaitsFor(u.graph, n, x) \/ WaitsFor(u.graph, x, n)
    /\ \A n \in DOMAIN u.graph : \A d \in u.graph[n].deps \union u.graph[n].issueDeps :
          /\ rank[d] < rank[n]
          /\ \/ u.blockOf[u.graph[d].warp] <= u.blockOf[u.graph[n].warp]
             \/ u.blockOf[u.graph[d].warp] \in Lowest({u.blockOf[w] : w \in u.warps}, u.maxResident)
    /\ \A n, m \in Mmas(u.graph) : u.graph[n].mma = u.graph[m].mma =>
          rank[n] = rank[m] /\ u.blockOf[u.graph[n].warp] = u.blockOf[u.graph[m].warp]
=============================================================================
