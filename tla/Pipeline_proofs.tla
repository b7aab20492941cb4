---------------------------- MODULE Pipeline_proofs ----------------------------
(***************************************************************************)
(* Proofs about Pipeline, for every latency, throughput, width and set of  *)
(* span overrides: the queue is ordered, step() is prompt, the queue is    *)
(* short, and looking at its front only implements a delay line.           *)
(***************************************************************************)
EXTENDS Pipeline, SequenceTheorems, TLAPS

\* Where the ends of the queue lie: every entry is due at most Latency after the
\* next issue, and every entry but the last at most Latency from now.
Reach ==
    \A i \in DOMAIN executing :
        /\ executing[i].complete <= nextIssue + Latency
        /\ i < Len(executing) => executing[i].complete <= cycle + Latency

IInv == TypeOK /\ Fifo /\ Prompt /\ Reach
-----------------------------------------------------------------------------
\* The clamp in issue_node makes every span a positive number of cycles.
LEMMA SpanPositive == \A o \in Overrides : IssueSpan(o) \in Nat \ {0}
<1>1. DefaultSpan \in Int
  BY PipelineAssumption DEF DefaultSpan
<1> QED BY <1>1, PipelineAssumption DEF IssueSpan

\* What TypeOK says of the entries of the queue.
LEMMA Entries ==
    ASSUME TypeOK
    PROVE  /\ executing \in Seq([op : Op, complete : Nat])
           /\ Len(executing) \in Nat
           /\ DOMAIN executing = 1..Len(executing)
           /\ \A i \in 1..Len(executing) : executing[i].complete \in Nat
<1>1. executing \in Seq([op : Op, complete : Nat])
  BY DEF TypeOK
<1>2. \A i \in 1..Len(executing) : executing[i] \in [op : Op, complete : Nat]
  BY <1>1, ElementOfSeq
<1>3. \A i \in 1..Len(executing) : executing[i].complete \in Nat
  BY <1>2
<1>4. Len(executing) \in Nat /\ DOMAIN executing = 1..Len(executing)
  BY <1>1
<1> QED BY <1>1, <1>3, <1>4

\* The queue is empty in the first cycle.
LEMMA InitIInv == Init => IInv
<1> SUFFICES ASSUME Init PROVE IInv
  OBVIOUS
<1>1. executing = <<>> /\ cycle = 1 /\ stepped = FALSE /\ nextIssue = 0
  BY DEF Init
<1>2. TypeOK
  <2>1. executing \in Seq([op : Op, complete : Nat])
    BY <1>1, EmptySeq
  <2> QED BY <1>1, <2>1 DEF TypeOK
<1>3. DOMAIN executing = {}
  BY <1>1
<1>4. Fifo /\ Prompt /\ Reach
  BY <1>3 DEF Fifo, Prompt, Reach
<1> QED BY <1>2, <1>4 DEF IInv

\* An issue appends an entry due later than all others.
LEMMA IssueKeeps ==
    ASSUME IInv, NEW op \in Op, NEW o \in Overrides, Issue(op, o)
    PROVE  IInv'
<1> DEFINE span == IssueSpan(o)
           new  == [op |-> op, complete |-> cycle + span + Latency]
           n    == Len(executing)
<1>1. span \in Nat \ {0} /\ Latency \in Nat
  BY SpanPositive, PipelineAssumption
<1>2. /\ cycle >= nextIssue /\ cycle \in Nat /\ nextIssue \in Nat
      /\ executing \in Seq([op : Op, complete : Nat]) /\ n \in Nat
  BY DEF IInv, TypeOK, Issue, CanIssue
<1>3. /\ executing' = Append(executing, new) /\ nextIssue' = cycle + span
      /\ cycle' = cycle /\ stepped' = stepped
  BY DEF Issue, NextFree, CompletesAt
<1> HIDE DEF span
<1>4. new \in [op : Op, complete : Nat] /\ new.complete = cycle + span + Latency
  BY <1>1, <1>2
<1> HIDE DEF new
<1>5. /\ Len(executing') = n + 1 /\ DOMAIN executing' = 1..(n + 1)
      /\ DOMAIN executing = 1..n
      /\ \A i \in 1..n : executing'[i] = executing[i]
      /\ executing'[n + 1] = new
      /\ executing' \in Seq([op : Op, complete : Nat])
  BY <1>2, <1>3, <1>4
<1>6. \A i \in 1..n : executing[i].complete \in Nat
  BY Entries DEF IInv
<1> HIDE DEF n
<1>7. TypeOK'
  BY <1>1, <1>2, <1>3, <1>5 DEF IInv, TypeOK
<1>8. \A i \in 1..n : executing[i].complete <= cycle + Latency
  <2>1. \A i \in 1..n : executing[i].complete <= nextIssue + Latency
    BY <1>5 DEF IInv, Reach
  <2> QED BY <1>1, <1>2, <1>6, <2>1
<1>9. Reach'
  BY <1>1, <1>2, <1>3, <1>4, <1>5, <1>6, <1>8 DEF Reach
<1>10. Prompt'
  BY <1>1, <1>2, <1>3, <1>4, <1>5, <1>6 DEF IInv, Prompt
<1>11. Fifo'
  <2> SUFFICES ASSUME NEW i \in 1..(n + 1), NEW j \in 1..(n + 1), i < j
               PROVE  executing'[j].complete - executing'[i].complete >= j - i
    BY <1>5 DEF Fifo
  <2>1. i \in 1..n /\ executing'[i] = executing[i] /\ executing[i].complete \in Nat
    BY <1>2, <1>5, <1>6
  <2>2. CASE j \in 1..n
    BY <1>5, <2>1, <2>2 DEF IInv, Fifo
  <2>3. CASE j = n + 1
    <3>2. n \in 1..n /\ executing[n].complete \in Nat
      BY <1>2, <1>6, <2>1
    <3>1. i < n => executing[n].complete - executing[i].complete >= n - i
      BY <1>5, <2>1, <3>2 DEF IInv, Fifo
    <3>3. executing[n].complete - executing[i].complete >= n - i
      BY <1>2, <2>1, <3>1, <3>2
    <3>4. executing[n].complete <= cycle + Latency
      BY <1>8, <3>2
    <3>5. executing'[j].complete = cycle + span + Latency
      BY <1>4, <1>5, <2>3
    <3> QED BY <1>1, <1>2, <2>1, <2>3, <3>2, <3>3, <3>4, <3>5
  <2> QED BY <1>2, <2>2, <2>3
<1> QED BY <1>7, <1>9, <1>10, <1>11 DEF IInv

\* Popping the due entries leaves the others where they were, in order, and none
\* of them is due: those behind the first one that is not are due later still.
LEMMA StepPops ==
    ASSUME IInv, Step
    PROVE  \E k \in 0..Len(executing) :
              /\ Len(executing') = Len(executing) - k
              /\ executing' \in Seq([op : Op, complete : Nat])
              /\ \A i \in 1..(Len(executing) - k) : executing'[i] = executing[i + k]
              /\ \A i \in 1..k : executing[i].complete <= cycle
              /\ \A i \in (k + 1)..Len(executing) : executing[i].complete > cycle
<1> DEFINE n == Len(executing)
<1>1. /\ executing \in Seq([op : Op, complete : Nat]) /\ n \in Nat /\ cycle \in Nat
      /\ DOMAIN executing = 1..n
      /\ \A i \in 1..n : executing[i].complete \in Nat
  BY Entries DEF IInv, TypeOK
<1>2. PICK k \in 0..n : Popped = 1..k /\ executing' = SubSeq(executing, k + 1, n)
  BY DEF Step
<1> HIDE DEF n
<1>3. /\ Len(executing') = n - k
      /\ executing' \in Seq([op : Op, complete : Nat])
      /\ \A i \in 1..(n - k) : executing'[i] = executing[i + k]
  <2>1. k + 1 \in 1..(n + 1) /\ n \in 0..n /\ k \in Nat
    BY <1>1
  <2>0. \A i \in (k + 1)..n : executing[i] \in [op : Op, complete : Nat]
    <3>1. \A i \in 1..n : executing[i] \in [op : Op, complete : Nat]
      BY <1>1, ElementOfSeq DEF n
    <3> QED BY <1>1, <2>1, <3>1
  <2>2. executing' \in Seq([op : Op, complete : Nat])
    BY <1>1, <1>2, <2>0, <2>1, SubSeqProperties
  <2>3. Len(executing') = n - k
    <3>1. Len(executing') = IF k + 1 <= n THEN n - (k + 1) + 1 ELSE 0
      BY <1>1, <1>2, <2>0, <2>1, SubSeqProperties
    <3> QED BY <1>1, <2>1, <3>1
  <2>4. ASSUME NEW i \in 1..(n - k) PROVE executing'[i] = executing[i + k]
    <3>1. i \in 1..(n - (k + 1) + 1) /\ (k + 1) + i - 1 = i + k
      BY <1>1, <2>1
    <3>2. executing'[i] = executing[(k + 1) + i - 1]
      BY <1>1, <1>2, <2>0, <2>1, <3>1, SubSeqProperties
    <3> QED BY <3>1, <3>2
  <2> QED BY <2>2, <2>3, <2>4
<1>4. ASSUME NEW i \in 1..k PROVE executing[i].complete <= cycle
  <2>1. i \in Popped /\ i \in 1..i
    BY <1>2
  <2>2. i \in 1..n /\ IsDue(executing[i])
    BY <1>1, <2>1 DEF Popped
  <2> QED BY <1>1, <2>2 DEF IsDue
<1>5. ASSUME NEW i \in (k + 1)..n PROVE executing[i].complete > cycle
  <2>1. k + 1 \in 1..n /\ k + 1 \notin Popped
    BY <1>1, <1>2
  <2>2. PICK j \in 1..(k + 1) : ~IsDue(executing[j])
    BY <1>1, <2>1 DEF Popped
  <2>3. j \notin 1..k
    BY <1>1, <1>4, <2>2 DEF IsDue
  <2>4. j = k + 1 /\ executing[k + 1].complete > cycle
    BY <1>1, <2>1, <2>2, <2>3 DEF IsDue
  <2>5. i = k + 1 \/ executing[i].complete - executing[k + 1].complete >= i - (k + 1)
    <3>1. i \in 1..n /\ (i = k + 1 \/ k + 1 < i)
      BY <1>1
    <3> QED BY <1>1, <2>1, <3>1 DEF IInv, Fifo
  <2> QED BY <1>1, <2>1, <2>4, <2>5
<1> QED BY <1>2, <1>3, <1>4, <1>5 DEF n

\* A step keeps the order and leaves nothing that is due.
LEMMA StepKeeps ==
    ASSUME IInv, Step
    PROVE  IInv'
<1> DEFINE n == Len(executing)
<1>0. /\ executing \in Seq([op : Op, complete : Nat]) /\ n \in Nat /\ cycle \in Nat
      /\ nextIssue \in Nat /\ DOMAIN executing = 1..n
      /\ \A i \in 1..n : executing[i].complete \in Nat
  BY Entries DEF IInv, TypeOK
<1>1. PICK k \in 0..n :
              /\ Len(executing') = n - k
              /\ executing' \in Seq([op : Op, complete : Nat])
              /\ \A i \in 1..(n - k) : executing'[i] = executing[i + k]
              /\ \A i \in 1..k : executing[i].complete <= cycle
              /\ \A i \in (k + 1)..n : executing[i].complete > cycle
  BY StepPops
<1>2. cycle' = cycle /\ nextIssue' = nextIssue /\ stepped' = TRUE
  BY DEF Step
<1> HIDE DEF n
<1>3. DOMAIN executing' = 1..(n - k)
  BY <1>1
<1>4. \A i \in 1..(n - k) : i + k \in 1..n /\ i + k \in (k + 1)..n
  BY <1>0
<1>5. TypeOK'
  BY <1>0, <1>1, <1>2 DEF TypeOK
<1>6. Prompt'
  BY <1>1, <1>2, <1>3, <1>4 DEF Prompt
<1>7. Fifo'
  <2> SUFFICES ASSUME NEW i \in 1..(n - k), NEW j \in 1..(n - k), i < j
               PROVE  executing'[j].complete - executing'[i].complete >= j - i
    BY <1>3 DEF Fifo
  <2>1. i + k < j + k /\ (j + k) - (i + k) = j - i
    BY <1>0
  <2>2. executing[j + k].complete - executing[i + k].complete >= (j + k) - (i + k)
    BY <1>0, <1>4, <2>1 DEF IInv, Fifo
  <2> QED BY <1>1, <2>1, <2>2
<1>8. Reach'
  <2> SUFFICES ASSUME NEW i \in 1..(n - k)
               PROVE  /\ executing'[i].complete <= nextIssue + Latency
                      /\ i < n - k => executing'[i].complete <= cycle + Latency
    BY <1>1, <1>2, <1>3 DEF Reach
  <2>1. i + k \in 1..n /\ executing'[i] = executing[i + k]
    BY <1>1, <1>4
  <2>2. i < n - k => i + k < n
    BY <1>0
  <2> QED BY <1>0, <2>1, <2>2 DEF IInv, Reach, n
<1> QED BY <1>5, <1>6, <1>7, <1>8 DEF IInv

\* The next cycle finds what is due in it still in the queue.
LEMMA NextCycleKeeps ==
    ASSUME IInv, NextCycle
    PROVE  IInv'
<1>1. /\ executing' = executing /\ nextIssue' = nextIssue /\ cycle' = cycle + 1
      /\ stepped /\ stepped' = FALSE
  BY DEF NextCycle
<1>2. /\ cycle \in Nat /\ nextIssue \in Nat /\ Latency \in Nat
      /\ \A i \in DOMAIN executing : executing[i].complete \in Nat
  BY Entries, PipelineAssumption DEF IInv, TypeOK
<1>3. TypeOK'
  <2>1. executing' \in Seq([op : Op, complete : Nat])
    BY <1>1 DEF IInv, TypeOK
  <2>2. cycle' \in Nat /\ nextIssue' \in Nat
    BY <1>1, <1>2
  <2> QED BY <1>1, <2>1, <2>2 DEF TypeOK
<1>4. Fifo'
  BY <1>1 DEF IInv, Fifo
<1>5. Prompt'
  BY <1>1, <1>2 DEF IInv, Prompt
<1>6. Reach'
  BY <1>1, <1>2 DEF IInv, Reach
<1> QED BY <1>3, <1>4, <1>5, <1>6 DEF IInv

\* Every step keeps IInv.
LEMMA NextKeeps == IInv /\ [Next]_vars => IInv'
<1> SUFFICES ASSUME IInv, [Next]_vars PROVE IInv'
  OBVIOUS
<1>1. CASE UNCHANGED vars
  BY <1>1 DEF vars, IInv, TypeOK, Fifo, Prompt, Reach
<1> QED BY <1>1, IssueKeeps, StepKeeps, NextCycleKeeps DEF Next

\* IInv holds in every cycle.
THEOREM Invariance == Spec => []IInv
  BY InitIInv, NextKeeps, PTL DEF Spec
-----------------------------------------------------------------------------
\* The state of a pipeline is well typed.
THEOREM TypeCorrect == Spec => []TypeOK
<1>1. IInv => TypeOK
  BY DEF IInv
<1> QED BY <1>1, Invariance, PTL

\* The deque is sorted by completion cycle, whatever spans issue_node is given:
\* step() may stop at the first entry that is not complete.
THEOREM FifoOrder == Spec => []Fifo
<1>1. IInv => Fifo
  BY DEF IInv
<1> QED BY <1>1, Invariance, PTL

\* No sub-op leaves its pipeline late.
THEOREM NeverLate == Spec => []Prompt
<1>1. IInv => Prompt
  BY DEF IInv
<1> QED BY <1>1, Invariance, PTL

\* After a step a pipeline holds at most pipeline_latency + 1 sub-ops.
THEOREM Bounded == Spec => []Occupancy
<1>1. IInv => Occupancy
  <2> SUFFICES ASSUME IInv, stepped PROVE Len(executing) <= Latency + 1
    BY DEF Occupancy
  <2> DEFINE n == Len(executing)
  <2>1. /\ n \in Nat /\ Latency \in Nat /\ cycle \in Nat /\ DOMAIN executing = 1..n
        /\ \A i \in 1..n : executing[i].complete \in Nat
    BY Entries, PipelineAssumption DEF IInv, TypeOK
  <2>2. CASE n <= 1
    BY <2>1, <2>2
  <2>3. CASE n > 1
    <3>1. 1 \in 1..n /\ n - 1 \in 1..n /\ n - 1 < n /\ 1 <= n - 1
      BY <2>1, <2>3
    <3>2. executing[1].complete > cycle
      BY <2>1, <3>1 DEF IInv, Prompt
    <3>3. executing[n - 1].complete <= cycle + Latency
      BY <2>1, <3>1 DEF IInv, Reach
    <3>4. n - 1 = 1 \/ executing[n - 1].complete - executing[1].complete >= n - 1 - 1
      <4>1. n - 1 = 1 \/ 1 < n - 1
        BY <2>1, <3>1
      <4>2. 1 \in DOMAIN executing /\ n - 1 \in DOMAIN executing
        BY <2>1, <3>1
      <4> HIDE DEF n
      <4> QED BY <4>1, <4>2 DEF IInv, Fifo
    <3>5. executing[1].complete \in Nat /\ executing[n - 1].complete \in Nat
      BY <2>1, <3>1
    <3> HIDE DEF n
    <3> QED BY <2>1, <2>3, <3>2, <3>3, <3>4, <3>5
  <2> QED BY <2>1, <2>2, <2>3
<1> QED BY <1>1, Invariance, PTL
-----------------------------------------------------------------------------
\* An issue puts one operation in the delay line.
LEMMA IssueEnters ==
    ASSUME IInv, NEW op \in Op, NEW o \in Overrides, Issue(op, o)
    PROVE  Line!Enter(op, IssueSpan(o) + Latency)
<1> DEFINE new  == [op |-> op, complete |-> cycle + (IssueSpan(o) + Latency)]
           n    == Len(executing)
           held == {executing[i] : i \in DOMAIN executing}
<1>1. /\ IssueSpan(o) \in Nat /\ Latency \in Nat /\ cycle \in Nat
      /\ executing \in Seq([op : Op, complete : Nat])
  BY SpanPositive, PipelineAssumption DEF IInv, TypeOK
<1>2. executing' = Append(executing, new) /\ cycle' = cycle /\ stepped' = stepped
  <2>1. cycle + IssueSpan(o) + Latency = cycle + (IssueSpan(o) + Latency)
    BY <1>1
  <2> QED BY <2>1 DEF Issue, CompletesAt
<1>3. new \in [op : Op, complete : Nat]
  BY <1>1
<1> HIDE DEF new
<1>4. /\ n \in Nat /\ DOMAIN executing = 1..n /\ DOMAIN executing' = 1..(n + 1)
      /\ \A i \in 1..n : executing'[i] = executing[i]
      /\ executing'[n + 1] = new
  BY <1>1, <1>2, <1>3
<1> HIDE DEF n
<1>5. held' = held \union {new}
  <2>1. \A i \in 1..(n + 1) : i \in 1..n \/ i = n + 1
    BY <1>4
  <2>2. 1..n \subseteq 1..(n + 1) /\ n + 1 \in 1..(n + 1)
    BY <1>4
  <2> QED BY <1>4, <2>1, <2>2
<1> QED BY <1>2, <1>5 DEF Line!Enter, new

\* A step takes out of the queue exactly what a scan of all of it would.
LEMMA StepLeaves ==
    ASSUME IInv, Step
    PROVE  Line!Leave
<1> DEFINE n    == Len(executing)
           held == {executing[i] : i \in DOMAIN executing}
<1>0. /\ n \in Nat /\ cycle \in Nat /\ DOMAIN executing = 1..n
      /\ \A i \in 1..n : executing[i].complete \in Nat
  BY Entries DEF IInv, TypeOK
<1>1. PICK k \in 0..n :
              /\ Len(executing') = n - k
              /\ executing' \in Seq([op : Op, complete : Nat])
              /\ \A i \in 1..(n - k) : executing'[i] = executing[i + k]
              /\ \A i \in 1..k : executing[i].complete <= cycle
              /\ \A i \in (k + 1)..n : executing[i].complete > cycle
  BY StepPops
<1> HIDE DEF n
<1>2. DOMAIN executing' = 1..(n - k)
  BY <1>1
<1>3. \A i \in 1..(n - k) : i + k \in 1..n /\ i + k \in (k + 1)..n
  BY <1>0
<1>4. \A i \in 1..n : i \in 1..k \/ (i \in (k + 1)..n /\ i - k \in 1..(n - k)
                                        /\ (i - k) + k = i)
  BY <1>0
<1>5. held' \subseteq {e \in held : e.complete > cycle}
  BY <1>0, <1>1, <1>2, <1>3
<1>6. ASSUME NEW i \in 1..n, executing[i].complete > cycle
      PROVE  executing[i] \in held'
  <2>1. i \notin 1..k
    BY <1>0, <1>1, <1>6
  <2>2. i - k \in 1..(n - k) /\ executing'[i - k] = executing[i]
    BY <1>1, <1>4, <2>1
  <2> QED BY <1>2, <2>2
<1>7. held' = {e \in held : e.complete > cycle}
  BY <1>0, <1>5, <1>6
<1>8. ~stepped /\ stepped' = TRUE /\ cycle' = cycle
  BY DEF Step
<1> QED BY <1>7, <1>8 DEF Line!Leave

\* The pipeline implements the delay line: checking only the front of the deque
\* retires the same sub-ops, in the same cycles, as a scan of the whole of it.
THEOREM Refinement == Spec => ImplementsDelayLine
<1>1. Init => Line!DInit
  BY DEF Init, Line!DInit
<1>2. IInv /\ [Next]_vars => [Line!DNext]_Line!dvars
  <2> SUFFICES ASSUME IInv, [Next]_vars PROVE [Line!DNext]_Line!dvars
    OBVIOUS
  <2>1. ASSUME NEW op \in Op, NEW o \in Overrides, Issue(op, o)
        PROVE  Line!DNext
    BY <2>1, IssueEnters DEF Line!DNext
  <2>2. CASE Step
    BY <2>2, StepLeaves DEF Line!DNext
  <2>3. CASE NextCycle
    BY <2>3 DEF NextCycle, Line!DNext, Line!NextCycle
  <2>4. CASE UNCHANGED vars
    BY <2>4 DEF vars, Line!dvars
  <2> QED BY <2>1, <2>2, <2>3, <2>4 DEF Next
<1> QED BY <1>1, <1>2, Invariance, PTL DEF Spec, ImplementsDelayLine, Line!DSpec
=============================================================================
