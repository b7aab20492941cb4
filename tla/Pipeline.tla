------------------------------- MODULE Pipeline -------------------------------
(***************************************************************************)
(* One pipeline of a subpartition: a deque of <<operation, completion      *)
(* cycle>> to which sub-ops are appended and of which step() looks at the  *)
(* front only.  An issue may override the span for which the pipeline is   *)
(* taken, so neither the spans nor the latencies in the queue are equal.   *)
(*                                                                         *)
(* In one cycle the pipeline is stepped once.  Issues come after the step, *)
(* except in the subpartitions 1..3, where a warp-group issue of           *)
(* subpartition 0 comes before it.                                         *)
(***************************************************************************)
EXTENDS Integers, Sequences

CONSTANTS
    Op,             \* sub-ops, as far as the pipeline knows them
    Latency,        \* pipeline_latency
    Throughput,     \* pipeline_throughput
    Width,          \* pipeline_width
    Overrides       \* the values of issue_span_override; <= 0 means none

ASSUME PipelineAssumption ==
    /\ Latency \in Nat /\ Throughput \in Nat /\ Width \in Nat \ {0}
    /\ Overrides \subseteq Int

VARIABLES
    cycle,          \* current_cycle
    stepped,        \* step() has run in this cycle
    executing,      \* pipeline_executing_nodes
    nextIssue       \* pipeline_next_issue_cycle

vars == <<cycle, stepped, executing, nextIssue>>
-----------------------------------------------------------------------------
DefaultSpan == (Throughput + Width - 1) \div Width

IssueSpan(override) ==
    LET span == IF override > 0 THEN override ELSE DefaultSpan
    IN  IF span < 1 THEN 1 ELSE span

CanIssue == cycle >= nextIssue

\* The cycle from which the next operation may be issued.
NextFree_IgnoresOverride(override) == cycle + IssueSpan(0)  \* faulty variant
NextFree(override) == cycle + IssueSpan(override)

\* The latency counts from the end of the span.
CompletesAt_NoSpan(override) == cycle + Latency           \* faulty variant
CompletesAt(override) == cycle + IssueSpan(override) + Latency

\* The first cycle is 1 (Simulator::step), unless a startup delay skips some.
Init ==
    /\ cycle = 1
    /\ stepped = FALSE
    /\ executing = <<>>
    /\ nextIssue = 0

\* issue_node, which every caller guards with can_issue.
Issue(op, override) ==
    /\ CanIssue
    /\ executing' = Append(executing, [op |-> op, complete |-> CompletesAt(override)])
    /\ nextIssue' = NextFree(override)
    /\ UNCHANGED <<cycle, stepped>>

\* The entries step() pops: it stops at the first that is not complete.
IsDue_Late(e) == cycle > e.complete                       \* faulty variant
IsDue(e) == cycle >= e.complete
Popped == {i \in DOMAIN executing : \A j \in 1..i : IsDue(executing[j])}

Step ==
    /\ ~stepped
    /\ stepped' = TRUE
    /\ \E k \in 0..Len(executing) :
          /\ Popped = 1..k
          /\ executing' = SubSeq(executing, k + 1, Len(executing))
    /\ UNCHANGED <<cycle, nextIssue>>

NextCycle ==
    /\ stepped
    /\ cycle' = cycle + 1
    /\ stepped' = FALSE
    /\ UNCHANGED <<executing, nextIssue>>

Next == Step \/ NextCycle \/ \E op \in Op, o \in Overrides : Issue(op, o)

Spec == Init /\ [][Next]_vars
-----------------------------------------------------------------------------
(* Properties                                                              *)

\* The deque holds sub-ops with the cycle in which they are complete.
TypeOK ==
    /\ cycle \in Nat
    /\ stepped \in BOOLEAN
    /\ executing \in Seq([op : Op, complete : Nat])
    /\ nextIssue \in Nat

\* "FIFO order guaranteed by fixed latency", with spans that vary: completion
\* cycles grow along the queue, one per place at least.
Fifo ==
    \A i, j \in DOMAIN executing :
        i < j => executing[j].complete - executing[i].complete >= j - i

\* step() comes round for every operation in the cycle it is due: nothing that
\* is due waits behind something that is not, in this cycle or an earlier one.
Prompt ==
    \A i \in DOMAIN executing :
        IF stepped THEN executing[i].complete > cycle
                   ELSE executing[i].complete >= cycle

\* The queue is never longer than the latency and one: the deque is unbounded,
\* but the spans between issues bound it.
Occupancy == stepped => Len(executing) <= Latency + 1

\* Looking at the front only is as good as scanning the whole pipeline.
Line == INSTANCE DelayLine
            WITH Delay <- {IssueSpan(o) + Latency : o \in Overrides},
                 inFlight <- {executing[i] : i \in DOMAIN executing}

ImplementsDelayLine == Line!DSpec
=============================================================================
