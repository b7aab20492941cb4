------------------------------ MODULE TmemPair ------------------------------
(***************************************************************************)
(* The rendezvous of two CTAs that issue 2-CTA tensor core MMAs: both peers *)
(* must ask in one cycle, are granted the next cycle, and an MMA that       *)
(* finishes first waits for the one of the peer.  Each CTA, named by its    *)
(* cta_group_rank, has a subpartition and a warp of its own, which first    *)
(* takes tensor memory columns, sub-op by sub-op.  The MMAs depend on this  *)
(* allocation, all are paired and have one sub-op, so that both issue       *)
(* counters of a CTA count the same; they become ready in order, as MMAs do *)
(* that add to one accumulator, so that an MMA is its number.               *)
(***************************************************************************)
EXTENDS Integers, FiniteSets

CONSTANTS
    NumMma,         \* MMAs of each CTA
    Latency,        \* pipeline_latency of the tensor core pipeline
    Span,           \* issue_span of an MMA: cycles it keeps the entry of the pipeline
    AllocSpan,      \* issue_span of a sub-op of the allocation, in the same pipeline
    Interval,       \* tmem_issue_interval_cycles
    NumAlloc,       \* sub-ops of the allocation
    AllocCols,      \* tmem_cols of the allocation: columns that each of its sub-ops takes
    MmaCols,        \* tmem_cols of an MMA
    MaxCols,        \* max_cols_per_cta
    MaxReady,       \* bound: cycles from the allocation to the other dependencies of an MMA
    LastCycle       \* bound on the cycles explored

ASSUME PairAssumption ==
    /\ NumMma \in Nat /\ Latency \in Nat /\ {Span, AllocSpan} \subseteq Nat \ {0}
    /\ Interval \in Int
    /\ {NumAlloc, AllocCols, MmaCols, MaxCols, MaxReady} \subseteq Nat /\ LastCycle \in Nat \ {0}

VARIABLES
    contended,      \* whether another warp may take the issue slot of a cycle
    cycle,          \* the cycle being executed
    turn,           \* the CTA whose subpartition steps
    stage,          \* where Subpartition::step is
    readyAfter,     \* [CTA, MMA -> cycles from the allocation until it is ready]
    allocs,         \* sub-ops of the allocation issued
    allocEnd,       \* cycle in which the last of them leaves the pipeline
    columns,        \* cta_allocated_cols
    issued,         \* cta_issued_mma_seq
    nextIssue,      \* next_issue_cycle of the warp
    pipeFree,       \* next_issue_cycle of the pipeline
    executing,      \* <<CTA, MMA, cycle it leaves the pipeline>>
    asked,          \* pair_issue_pending: [MMA -> [cycle, CTAs that asked in it]]
    grant,          \* node_issue_grant_cycle, NoGrant when there is no entry
    arrived,        \* pair_pending: [MMA -> CTAs whose MMA left the pipeline]
    tokens,         \* release_tokens
    deferred,       \* deferred_tmem_pair_completions of both subpartitions
    finished        \* MMAs whose node is complete

vars == <<contended, cycle, turn, stage, readyAfter, allocs, allocEnd, columns, issued, nextIssue,
          pipeFree, executing, asked, grant, arrived, tokens, deferred, finished>>

CTA == {0, 1}
Mma == 1..NumMma
Node == CTA \X Mma
Peer(n) == <<1 - n[1], n[2]>>
NoGrant == 0
Nobody == [cycle |-> 0, ctas |-> {}]
-----------------------------------------------------------------------------
Init ==
    /\ cycle = 1 /\ turn = 0 /\ stage = "deferred"
    /\ contended \in BOOLEAN
    /\ readyAfter \in [Node -> 1..MaxReady]
    \* A warp that takes the slot delays an MMA as well as a late dependency does.
    /\ contended => \A n \in Node : readyAfter[n] = 1
    /\ allocs = [c \in CTA |-> 0] /\ allocEnd = [c \in CTA |-> 0] /\ columns = [c \in CTA |-> 0]
    /\ issued = [c \in CTA |-> 0]
    /\ nextIssue = [c \in CTA |-> 0] /\ pipeFree = [c \in CTA |-> 0]
    /\ executing = {}
    /\ asked = [m \in Mma |-> Nobody]
    /\ grant = [n \in Node |-> NoGrant]
    /\ arrived = [m \in Mma |-> {}]
    /\ tokens = [n \in Node |-> 0]
    /\ deferred = {} /\ finished = {}

Of(c, nodes) == {n \in nodes : n[1] = c}

\* Complete the deferred MMAs whose peer has arrived since.
Release ==
    LET released == {n \in Of(turn, deferred) : tokens[n] > 0}
    IN  /\ stage = "deferred" /\ stage' = "retire"
        /\ finished' = finished \union released
        /\ deferred' = deferred \ released
        /\ tokens' = [n \in Node |-> IF n \in released THEN tokens[n] - 1 ELSE tokens[n]]
        /\ UNCHANGED <<contended, cycle, turn, readyAfter, allocs, allocEnd, columns, issued,
                       nextIssue, pipeFree, executing, asked, grant, arrived>>

Due == {e \in executing : e[1] = turn /\ e[3] <= cycle}

\* An MMA arrives: the second of a pair releases both.
Met_First(m) == TRUE                                      \* faulty variant
Met(m) == arrived[m] \union {turn} = CTA

Handed_ToPeer(n) ==                                       \* faulty variant
    IF Met(n[2]) THEN [tokens EXCEPT ![Peer(n)] = @ + 1] ELSE tokens
Handed(n) ==
    IF Met(n[2]) THEN [tokens EXCEPT ![n] = @ + 1, ![Peer(n)] = @ + 1] ELSE tokens

Retire ==
    /\ stage = "retire"
    /\ \E e \in Due :
         LET n == <<e[1], e[2]>>
             free == Handed(n)[n] > 0
         IN  /\ executing' = executing \ {e}
             /\ arrived' = [arrived EXCEPT ![n[2]] = IF Met(n[2]) THEN {} ELSE @ \union {turn}]
             /\ tokens' = IF free THEN [Handed(n) EXCEPT ![n] = @ - 1] ELSE Handed(n)
             /\ finished' = finished \union (IF free THEN {n} ELSE {})
             /\ deferred' = deferred \union (IF free THEN {} ELSE {n})
    /\ UNCHANGED <<contended, cycle, turn, stage, readyAfter, allocs, allocEnd, columns, issued,
                   nextIssue, pipeFree, asked, grant>>

RetireDone ==
    /\ stage = "retire" /\ Due = {} /\ stage' = "issue"
    /\ UNCHANGED <<contended, cycle, turn, readyAfter, allocs, allocEnd, columns, issued, nextIssue,
                   pipeFree, executing, asked, grant, arrived, tokens, deferred, finished>>

LaterOf(a, b) == IF a > b THEN a ELSE b
SpacedFrom == [nextIssue EXCEPT ![turn] = cycle + LaterOf(1, Interval)]

\* A sub-op of the allocation.  What is left of it goes back to the queue of its warp,
\* which holds nothing else: the MMAs are not ready before it has completed.
MayAlloc ==
    /\ allocs[turn] < NumAlloc
    /\ nextIssue[turn] <= cycle /\ pipeFree[turn] <= cycle
    /\ columns[turn] + AllocCols <= MaxCols

Alloc ==
    /\ MayAlloc
    /\ allocs' = [allocs EXCEPT ![turn] = @ + 1]
    /\ allocEnd' = [allocEnd EXCEPT ![turn] = cycle + AllocSpan + Latency]
    /\ columns' = [columns EXCEPT ![turn] = @ + AllocCols]
    /\ nextIssue' = SpacedFrom
    /\ pipeFree' = [pipeFree EXCEPT ![turn] = cycle + AllocSpan]
    /\ UNCHANGED <<issued, executing, asked, grant>>

\* The MMA that the warp of the CTA would issue next.
Candidate == <<turn, issued[turn] + 1>>
Ready(n) == allocs[n[1]] = NumAlloc /\ allocEnd[n[1]] + readyAfter[n] <= cycle
MayAsk ==
    /\ issued[turn] < NumMma
    /\ Ready(Candidate)
    /\ nextIssue[turn] <= cycle
    /\ columns[turn] > 0 /\ MmaCols <= columns[turn]

\* The CTAs that asked for the candidate in this cycle, the asking one included.
AskedNow_AlwaysReset == {turn}                            \* faulty variant
AskedNow ==
    {turn} \union (IF asked[Candidate[2]].cycle = cycle THEN asked[Candidate[2]].ctas ELSE {})

\* can_issue without a grant: ask, and grant the next cycle to both or wait.
GrantCycle_Now == cycle                                   \* faulty variant
GrantCycle == cycle + 1

Granted(n) == [grant EXCEPT ![n] = GrantCycle, ![Peer(n)] = GrantCycle]

Ask ==
    LET n == Candidate
    IN  /\ MayAsk /\ grant[n] = NoGrant
        /\ IF AskedNow = CTA
             THEN /\ grant' = Granted(n)
                  /\ asked' = [asked EXCEPT ![n[2]] = Nobody]
             ELSE /\ asked' = [asked EXCEPT ![n[2]] = [cycle |-> cycle, ctas |-> AskedNow]]
                  /\ UNCHANGED grant
        /\ UNCHANGED <<allocs, allocEnd, columns, issued, nextIssue, pipeFree, executing>>

\* can_issue with a grant: it holds in the granted cycle only, and the pipeline
\* must be free in that cycle.
InTime == grant[Candidate] = cycle /\ pipeFree[turn] <= cycle

Issue ==
    LET n == Candidate
    IN  /\ MayAsk /\ grant[n] # NoGrant /\ InTime
        /\ issued' = [issued EXCEPT ![turn] = @ + 1]
        /\ nextIssue' = SpacedFrom
        /\ pipeFree' = [pipeFree EXCEPT ![turn] = cycle + Span]
        /\ executing' = executing \union {<<n[1], n[2], cycle + Span + Latency>>}
        /\ grant' = [grant EXCEPT ![n] = NoGrant]
        /\ UNCHANGED <<allocs, allocEnd, columns, asked>>

\* The warp has nothing to issue or is not looked at, or the grant is for another cycle.
NoIssue ==
    /\ \/ ~MayAsk /\ ~MayAlloc
       \/ contended
       \/ MayAsk /\ grant[Candidate] # NoGrant /\ ~InTime
    /\ UNCHANGED <<allocs, allocEnd, columns, issued, nextIssue, pipeFree, executing, asked, grant>>

\* schedule() and the end of the step; the other CTA is next, then the next cycle.
Schedule ==
    /\ stage = "issue" /\ stage' = "deferred"
    /\ cycle < LastCycle
    /\ Alloc \/ Ask \/ Issue \/ NoIssue
    /\ turn' = 1 - turn
    /\ cycle' = cycle + turn
    /\ UNCHANGED <<contended, readyAfter, arrived, tokens, deferred, finished>>

Next == finished # Node /\ (Release \/ Retire \/ RetireDone \/ Schedule)

Spec == Init /\ [][Next]_vars

\* Every cycle of the simulation loop steps every subpartition.
FairSpec == Spec /\ WF_vars(Next)
-----------------------------------------------------------------------------
(* Properties                                                              *)

\* The tables are indexed by MMAs and hold at most one token for each.
TypeOK ==
    /\ contended \in BOOLEAN /\ cycle \in 1..LastCycle /\ turn \in CTA
    /\ stage \in {"deferred", "retire", "issue"}
    /\ readyAfter \in [Node -> 1..MaxReady]
    /\ allocs \in [CTA -> 0..NumAlloc] /\ allocEnd \in [CTA -> Nat]
    /\ columns \in [CTA -> 0..MaxCols]
    /\ issued \in [CTA -> 0..NumMma]
    /\ nextIssue \in [CTA -> Nat] /\ pipeFree \in [CTA -> Nat]
    /\ executing \subseteq CTA \X Mma \X Nat
    /\ asked \in [Mma -> [cycle : Nat, ctas : SUBSET CTA]]
    /\ grant \in [Node -> Nat]
    /\ arrived \in [Mma -> SUBSET CTA]
    /\ tokens \in [Node -> 0..1]
    /\ deferred \subseteq Node /\ finished \subseteq Node

\* No MMA of a pair is complete before both have left their pipelines, and the
\* second to be told is told in the cycle after at the latest.
CompleteTogether ==
    \A n \in finished :
        \/ Peer(n) \in finished
        \/ Peer(n) \in deferred /\ tokens[Peer(n)] = 1

\* A release token belongs to an MMA that waits for it: none is left over to let a
\* later MMA pass, and an MMA that waits without one is waiting for its peer (in a
\* well typed state).
TokensMatch ==
    /\ TypeOK
    /\ \A n \in Node :
          /\ tokens[n] > 0 => n \in deferred
          /\ n \in deferred /\ tokens[n] = 0 => arrived[n[2]] = {n[1]}

\* "Handshake and grant both peers to issue in the next cycle": a grant is used in
\* the cycle it is given for, when no other warp can take the issue slot.
GrantsUsed == ~contended => \A n \in Node : grant[n] # NoGrant => grant[n] >= cycle

\* With the issue slots to themselves every MMA completes, however the columns are
\* taken sub-op by sub-op before.
AllComplete == ~contended => <>(finished = Node)
=============================================================================
