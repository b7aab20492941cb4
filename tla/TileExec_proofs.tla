--------------------------- MODULE TileExec_proofs ---------------------------
(***************************************************************************)
(* Theorems about TileExec for every graph, block assignment and residency *)
(* limit: its counters are exact, no node is lost, doubled or early, and   *)
(* it implements TileGraph.                                                *)
(***************************************************************************)
EXTENDS TileExec, FiniteSetTheorems, TLAPS

USE GraphAssumption

\* What TransactionsBalance and ReadyOnce rest on: how far a node has come.
Progress(n) ==
    /\ piped[n] <= next[n] /\ next[n] <= Subops(n)
    /\ n \in issued <=> next[n] = Subops(n)
    /\ next[n] > 0 => remaining[n] = 0
    /\ n \in barriers => dag[n].kind = "barrier" /\ n \in issued
    /\ n \in finished => n \in issued /\ piped[n] = Subops(n) /\ inMem[n] = 0
    /\ n \in finished => n \notin barriers
    /\ dag[n].kind \in {"compute", "barrier"} => inMem[n] = 0
    /\ dag[n].kind \in {"tma", "barrier"} => piped[n] = next[n]
    /\ next[n] = 0 => inMem[n] = 0 /\ pending[n] = 0
    /\ next[n] > 0 /\ dag[n].kind # "barrier" =>
          /\ pending[n] = inMem[n] + Owed(n, piped[n])
          /\ pending[n] = 0 => n \in finished
    /\ next[n] > 0 /\ dag[n].kind = "barrier" => n \in barriers \/ n \in finished

NodeInv ==
    /\ dag \in Workload
    /\ TypeOK
    /\ DependencyCounter
    /\ ReadyOnce
    /\ \A n \in Node : Progress(n)

IInv == NodeInv /\ Accounting
-----------------------------------------------------------------------------
(* Facts about a graph of the workload                                     *)

\* The record fields of a node have the types WorkloadAssumption gives them.
LEMMA NodeFacts ==
    ASSUME dag \in Workload, NEW n \in Node
    PROVE  /\ dag[n].deps \subseteq Id /\ dag[n].issueDeps \subseteq Id
           /\ dag[n].tb \in TB
           /\ dag[n].kind \in {"compute", "memory", "tma", "barrier"}
           /\ Subops(n) \in Nat \ {0}
           /\ dag[n].kind \in {"tma", "barrier"} => Subops(n) = 1
           /\ \A k \in 0..Subops(n) : Owed(n, k) \in Nat
           /\ \A k \in 0..Subops(n) - 1 : Owed(n, k) > Owed(n, k + 1)
           /\ dag[n].kind = "compute" =>
                 \A k \in 0..Subops(n) - 1 : Owed(n, k) = Owed(n, k + 1) + 1
           /\ Owed(n, Subops(n)) = 0
  BY WorkloadAssumption DEF Subops, Owed

\* Subsets of the finite Id have natural cardinalities.
LEMMA SmallSets ==
    ASSUME NEW S, S \subseteq Id
    PROVE  IsFiniteSet(S) /\ Cardinality(S) \in Nat
  BY FS_Subset, FS_CardinalityType

\* Growing the set D by one element takes at most that element off S \ D.
LEMMA Outstanding ==
    ASSUME NEW S, S \subseteq Id, NEW D, NEW x, x \notin D
    PROVE  Cardinality(S \ (D \union {x})) =
              IF x \in S THEN Cardinality(S \ D) - 1 ELSE Cardinality(S \ D)
<1>1. S \ (D \union {x}) = (S \ D) \ {x}
  OBVIOUS
<1>2. IsFiniteSet(S \ D)
  BY SmallSets
<1>3. x \in S \ D <=> x \in S
  OBVIOUS
<1> QED BY <1>1, <1>2, <1>3, FS_RemoveElement

\* A nonempty subset of Id has a positive cardinality.
LEMMA NonEmpty ==
    ASSUME NEW S, S \subseteq Id, NEW x \in S
    PROVE  Cardinality(S) > 0
  BY SmallSets, FS_EmptySet

\* The counter of m under DependencyCounter, with the facts the provers need.
LEMMA CounterFacts ==
    ASSUME NodeInv, NEW m \in Node
    PROVE  /\ remaining[m] = Cardinality(dag[m].deps \ finished)
                                 + Cardinality(dag[m].issueDeps \ issued)
           /\ Cardinality(dag[m].deps \ finished) \in Nat
           /\ Cardinality(dag[m].issueDeps \ issued) \in Nat
<1>1. dag[m].deps \ finished \subseteq Id /\ dag[m].issueDeps \ issued \subseteq Id
  BY NodeFacts DEF NodeInv
<1> QED BY <1>1, SmallSets DEF NodeInv, DependencyCounter

\* A node whose counter is zero has all its dependencies met, and conversely.
LEMMA ZeroMeansMet ==
    ASSUME NodeInv, NEW m \in Node
    PROVE  remaining[m] = 0 <=> /\ dag[m].deps \subseteq finished
                                /\ dag[m].issueDeps \subseteq issued
<1>1. dag[m].deps \ finished \subseteq Id /\ dag[m].issueDeps \ issued \subseteq Id
  BY NodeFacts DEF NodeInv
<1>2. /\ Cardinality(dag[m].deps \ finished) = 0 <=> dag[m].deps \ finished = {}
      /\ Cardinality(dag[m].issueDeps \ issued) = 0 <=> dag[m].issueDeps \ issued = {}
  BY <1>1, SmallSets, FS_EmptySet
<1>3. remaining[m] = 0 <=> /\ Cardinality(dag[m].deps \ finished) = 0
                           /\ Cardinality(dag[m].issueDeps \ issued) = 0
  <2>1. /\ remaining[m] = Cardinality(dag[m].deps \ finished)
                              + Cardinality(dag[m].issueDeps \ issued)
        /\ Cardinality(dag[m].deps \ finished) \in Nat
        /\ Cardinality(dag[m].issueDeps \ issued) \in Nat
    BY CounterFacts
  <2> QED BY <2>1
<1> QED BY <1>2, <1>3
-----------------------------------------------------------------------------
(* The two loops over children                                             *)

\* Setting the finished flag of n and running complete_node's loop keeps the
\* counters and the ready queues right.
LEMMA CompletionLoop ==
    ASSUME NodeInv, NEW n \in Node, n \notin finished,
           finished' = finished \union {n},
           remaining' = Decremented(Children(n)),
           queued' = QueuedMore(Released(Children(n))),
           UNCHANGED <<dag, issued>>
    PROVE  /\ remaining' \in [Node -> Nat] /\ queued' \in [Node -> Nat]
           /\ DependencyCounter' /\ ReadyOnce'
           /\ \A m \in Node : remaining[m] = 0 => remaining'[m] = 0
<1>1. ASSUME NEW m \in Node
      PROVE  /\ remaining'[m] \in Nat
             /\ remaining'[m] = Cardinality(dag[m].deps \ finished')
                                    + Cardinality(dag[m].issueDeps \ issued)
             /\ n \in dag[m].deps <=> m \in Children(n)
             /\ n \in dag[m].deps => remaining[m] > 0
  <2>1. Cardinality(dag[m].deps \ finished') =
          IF n \in dag[m].deps THEN Cardinality(dag[m].deps \ finished) - 1
                               ELSE Cardinality(dag[m].deps \ finished)
    BY NodeFacts, Outstanding DEF NodeInv
  <2>2. n \in dag[m].deps => Cardinality(dag[m].deps \ finished) > 0
    BY NonEmpty, NodeFacts DEF NodeInv
  <2>3. n \in dag[m].deps <=> m \in Children(n)
    BY DEF Children
  <2>4. /\ remaining[m] = Cardinality(dag[m].deps \ finished)
                              + Cardinality(dag[m].issueDeps \ issued)
        /\ Cardinality(dag[m].deps \ finished) \in Nat
        /\ Cardinality(dag[m].issueDeps \ issued) \in Nat
    BY CounterFacts
  <2>5. remaining'[m] = IF m \in Children(n) /\ remaining[m] > 0
                        THEN remaining[m] - 1 ELSE remaining[m]
    BY DEF Decremented
  <2> QED BY <2>1, <2>2, <2>3, <2>4, <2>5
<1>2. remaining' \in [Node -> Nat] /\ DependencyCounter'
  BY <1>1 DEF DependencyCounter, Decremented
<1>3. \A m \in Node : remaining[m] = 0 => remaining'[m] = 0
  BY DEF Decremented, NodeInv, TypeOK
<1>4. queued' \in [Node -> Nat]
  BY DEF QueuedMore, NodeInv, TypeOK
<1>5. ASSUME NEW m \in Node
      PROVE  queued'[m] = IF remaining'[m] = 0 /\ m \notin issued THEN 1 ELSE 0
  <2>1. queued[m] = IF remaining[m] = 0 /\ m \notin issued THEN 1 ELSE 0
    BY DEF NodeInv, ReadyOnce
  <2>2. m \in issued => remaining[m] = 0
    BY NodeFacts DEF NodeInv, Progress
  <2>3. queued'[m] = IF m \in Children(n) /\ remaining[m] = 1
                     THEN queued[m] + 1 ELSE queued[m]
    BY DEF QueuedMore, Released
  <2>4. remaining'[m] = IF m \in Children(n) /\ remaining[m] > 0
                        THEN remaining[m] - 1 ELSE remaining[m]
    BY DEF Decremented
  <2>5. remaining[m] \in Nat /\ queued[m] \in Nat
    BY DEF NodeInv, TypeOK
  <2> QED BY <1>1, <2>1, <2>2, <2>3, <2>4, <2>5
<1> QED BY <1>2, <1>3, <1>4, <1>5 DEF ReadyOnce

\* Issuing n in full and running resolve_issue_dependencies' loop does too.
LEMMA IssueLoop ==
    ASSUME NodeInv, NEW n \in Node, n \notin issued, remaining[n] = 0,
           IssueLast(n), UNCHANGED <<dag, finished>>
    PROVE  /\ remaining' \in [Node -> Nat] /\ queued' \in [Node -> Nat]
           /\ DependencyCounter' /\ ReadyOnce'
           /\ \A m \in Node : remaining[m] = 0 => remaining'[m] = 0
<1>0. /\ issued' = issued \union {n}
      /\ remaining' = Decremented(IssueChildren(n))
      /\ queued' = [QueuedMore(Released(IssueChildren(n))) EXCEPT ![n] = @ - 1]
  BY DEF IssueLast
<1>1. ASSUME NEW m \in Node
      PROVE  /\ remaining'[m] \in Nat
             /\ remaining'[m] = Cardinality(dag[m].deps \ finished)
                                    + Cardinality(dag[m].issueDeps \ issued')
             /\ n \in dag[m].issueDeps <=> m \in IssueChildren(n)
             /\ n \in dag[m].issueDeps => remaining[m] > 0
  <2>1. Cardinality(dag[m].issueDeps \ issued') =
          IF n \in dag[m].issueDeps
          THEN Cardinality(dag[m].issueDeps \ issued) - 1
          ELSE Cardinality(dag[m].issueDeps \ issued)
    BY <1>0, NodeFacts, Outstanding DEF NodeInv
  <2>2. n \in dag[m].issueDeps => Cardinality(dag[m].issueDeps \ issued) > 0
    BY NonEmpty, NodeFacts DEF NodeInv
  <2>3. n \in dag[m].issueDeps <=> m \in IssueChildren(n)
    BY DEF IssueChildren
  <2>4. /\ remaining[m] = Cardinality(dag[m].deps \ finished)
                              + Cardinality(dag[m].issueDeps \ issued)
        /\ Cardinality(dag[m].deps \ finished) \in Nat
        /\ Cardinality(dag[m].issueDeps \ issued) \in Nat
    BY CounterFacts
  <2>5. remaining'[m] = IF m \in IssueChildren(n) /\ remaining[m] > 0
                        THEN remaining[m] - 1 ELSE remaining[m]
    BY <1>0 DEF Decremented
  <2> QED BY <2>1, <2>2, <2>3, <2>4, <2>5
<1>2. remaining' \in [Node -> Nat] /\ DependencyCounter'
  BY <1>0, <1>1 DEF DependencyCounter, Decremented
<1>3. \A m \in Node : remaining[m] = 0 => remaining'[m] = 0
  BY <1>0 DEF Decremented, NodeInv, TypeOK
<1>4. ASSUME NEW m \in Node
      PROVE  /\ queued'[m] \in Nat
             /\ queued'[m] = IF remaining'[m] = 0 /\ m \notin issued' THEN 1 ELSE 0
  <2>1. queued[m] = IF remaining[m] = 0 /\ m \notin issued THEN 1 ELSE 0
    BY DEF NodeInv, ReadyOnce
  <2>2. m \in issued => remaining[m] = 0
    BY NodeFacts DEF NodeInv, Progress
  <2>3. queued'[m] = (IF m \in IssueChildren(n) /\ remaining[m] = 1
                      THEN queued[m] + 1 ELSE queued[m])
                         - (IF m = n THEN 1 ELSE 0)
    BY <1>0 DEF QueuedMore, Released, NodeInv, TypeOK
  <2>4. remaining'[m] = IF m \in IssueChildren(n) /\ remaining[m] > 0
                        THEN remaining[m] - 1 ELSE remaining[m]
    BY <1>0 DEF Decremented
  <2>5. remaining[m] \in Nat /\ queued[m] \in Nat
    BY DEF NodeInv, TypeOK
  <2>6. m \in issued' <=> m \in issued \/ m = n
    BY <1>0
  <2> QED BY <1>1, <2>1, <2>2, <2>3, <2>4, <2>5, <2>6
<1>5. queued' \in [Node -> Nat]
  BY <1>0, <1>4 DEF QueuedMore
<1> QED BY <1>2, <1>3, <1>4, <1>5 DEF ReadyOnce
-----------------------------------------------------------------------------
(* Preservation of IInv, one lemma per action                              *)

\* The counters that stand for a scan of the nodes, when one more finishes.
LEMMA CountOneMore ==
    ASSUME dag \in Workload, TypeOK, Accounting,
           NEW n \in Node, n \notin finished, CompleteNode(n), dag' = dag
    PROVE  /\ Accounting'
           /\ completed' \in Nat /\ tbRemaining' \in [TB -> Nat]
           /\ finished' = finished \union {n}
<1>1. finished' = finished \union {n} /\ completed' = completed + 1
  BY DEF CompleteNode
<1>2. completed' = Cardinality(finished')
  <2>1. IsFiniteSet(finished)
    BY SmallSets DEF TypeOK
  <2> QED BY <1>1, <2>1, FS_AddElement DEF Accounting
<1>3. dag[n].tb \in TB
  BY NodeFacts
<1>4. ASSUME NEW t \in TB
      PROVE  /\ tbRemaining'[t] = Cardinality(NodesOf(t)' \ finished')
             /\ tbRemaining'[t] \in Nat
  <2>1. NodesOf(t)' = NodesOf(t) /\ NodesOf(t) \subseteq Id
    BY DEF NodesOf
  <2>2. n \in NodesOf(t) <=> dag[n].tb = t
    BY DEF NodesOf
  <2>3. Cardinality(NodesOf(t) \ finished') =
          IF dag[n].tb = t THEN Cardinality(NodesOf(t) \ finished) - 1
                           ELSE Cardinality(NodesOf(t) \ finished)
    BY <1>1, <2>1, <2>2, Outstanding
  <2>4. dag[n].tb = t => Cardinality(NodesOf(t) \ finished) > 0
    <3>1. NodesOf(t) \ finished \subseteq Id
      BY <2>1
    <3> QED BY <2>2, <3>1, NonEmpty
  <2>5. tbRemaining[t] = Cardinality(NodesOf(t) \ finished)
    BY DEF Accounting
  <2>6. tbRemaining[t] \in Nat
    BY DEF TypeOK
  <2>7. tbRemaining'[t] = IF dag[n].tb = t /\ tbRemaining[t] > 0
                          THEN tbRemaining[t] - 1 ELSE tbRemaining[t]
    BY DEF CompleteNode, TypeOK
  <2> QED BY <2>1, <2>3, <2>4, <2>5, <2>6, <2>7
<1>5. tbRemaining' \in [TB -> Nat]
  BY <1>4 DEF CompleteNode, TypeOK
<1> QED BY <1>1, <1>2, <1>4, <1>5 DEF Accounting, TypeOK

\* Completing an unfinished node that has been issued keeps the counters right.
LEMMA CompletionStep ==
    ASSUME IInv, NEW n \in Node, n \notin finished, CompleteNode(n),
           UNCHANGED <<dag, issued>>
    PROVE  /\ remaining' \in [Node -> Nat] /\ queued' \in [Node -> Nat]
           /\ DependencyCounter' /\ ReadyOnce' /\ Accounting'
           /\ completed' \in Nat /\ tbRemaining' \in [TB -> Nat]
           /\ finished' = finished \union {n}
           /\ \A m \in Node : remaining[m] = 0 => remaining'[m] = 0
<1>1. /\ finished' = finished \union {n}
      /\ remaining' = Decremented(Children(n))
      /\ queued' = QueuedMore(Released(Children(n)))
  BY DEF CompleteNode
<1> QED BY <1>1, CompletionLoop, CountOneMore DEF IInv, NodeInv

\* A node other than the one an action is about keeps its Progress.
LEMMA OthersKeepProgress ==
    ASSUME NodeInv, NEW n \in Node, NEW m \in Node, m # n, dag' = dag,
           next'[m] = next[m], piped'[m] = piped[m],
           pending'[m] = pending[m], inMem'[m] = inMem[m],
           m \in issued' <=> m \in issued,
           m \in finished' <=> m \in finished,
           m \in barriers' <=> m \in barriers,
           remaining[m] = 0 => remaining'[m] = 0
    PROVE  Progress(m)'
  BY DEF NodeInv, Progress, Subops, Owed

\* Issuing a sub-op of a compute or memory node keeps IInv.
LEMMA IssueSubopKeeps ==
    ASSUME IInv, NEW n \in Node, IssueSubop(n)
    PROVE  IInv'
<1>0. /\ NodeInv /\ dag \in Workload /\ TypeOK /\ DependencyCounter /\ ReadyOnce
      /\ Accounting /\ \A m \in Node : Progress(m)
  BY DEF IInv, NodeInv
<1>1. /\ dag' = dag /\ UNCHANGED <<piped, inMem, barriers, doneVars, tbVars>>
      /\ next' = [next EXCEPT ![n] = @ + 1]
      /\ n \notin issued /\ n \notin finished /\ remaining[n] = 0
      /\ next[n] < Subops(n) /\ dag[n].kind \in {"compute", "memory"}
  BY <1>0 DEF IssueSubop, Issuable, ReadyOnce, TypeOK
<1>2. /\ remaining' \in [Node -> Nat] /\ queued' \in [Node -> Nat]
      /\ DependencyCounter' /\ ReadyOnce'
      /\ \A m \in Node : remaining[m] = 0 => remaining'[m] = 0
      /\ issued' = IF next'[n] = Subops(n) THEN issued \union {n} ELSE issued
  <2>1. next'[n] = next[n] + 1 /\ next[n] \in Nat /\ Subops(n) \in Nat
    BY <1>0, <1>1, NodeFacts DEF TypeOK
  <2>2. CASE next[n] + 1 < Subops(n)
    <3>1. UNCHANGED <<issued, remaining, queued>>
      BY <2>2 DEF IssueSubop
    <3> QED BY <1>0, <1>1, <2>1, <2>2, <3>1
            DEF DependencyCounter, ReadyOnce, TypeOK, doneVars
  <2>3. CASE ~(next[n] + 1 < Subops(n))
    <3>1. IssueLast(n)
      BY <2>3 DEF IssueSubop
    <3>2. UNCHANGED <<dag, finished>>
      BY <1>1 DEF doneVars
    <3>3. issued' = issued \union {n}
      BY <3>1 DEF IssueLast
    <3> QED BY <1>1, <2>1, <2>3, <3>1, <3>2, <3>3, <1>0, IssueLoop
  <2> QED BY <2>2, <2>3
<1>3. pending' = IF next[n] = 0 THEN [pending EXCEPT ![n] = Owed(n, 0)]
                                ELSE pending
  BY DEF IssueSubop, TotalTransactions
<1>4. Owed(n, 0) \in Nat
  BY <1>0, NodeFacts
<1>5. TypeOK'
  <2>1. next' \in [Node -> Nat] /\ pending' \in [Node -> Nat]
    BY <1>0, <1>1, <1>3, <1>4 DEF TypeOK
  <2>2. issued' \subseteq Node
    BY <1>0, <1>2 DEF TypeOK
  <2> QED BY <1>0, <1>1, <1>2, <2>1, <2>2 DEF TypeOK, doneVars, tbVars
<1>6. Progress(n)'
  <2>1. Progress(n) /\ next[n] \in Nat /\ piped[n] \in Nat /\ pending[n] \in Nat
        /\ inMem[n] \in Nat
    BY <1>0 DEF TypeOK
  <2>2. /\ next'[n] = next[n] + 1 /\ piped'[n] = piped[n] /\ inMem'[n] = inMem[n]
        /\ pending'[n] = IF next[n] = 0 THEN Owed(n, 0) ELSE pending[n]
        /\ remaining'[n] = 0
        /\ n \in issued' <=> next'[n] = Subops(n)
        /\ n \notin barriers' /\ n \notin finished'
    BY <1>0, <1>1, <1>2, <1>3, <2>1 DEF TypeOK, doneVars, Progress
  <2>3. piped[n] < Subops(n) /\ Owed(n, piped[n]) > 0
    BY <2>1, <1>0, <1>1, NodeFacts DEF Progress
  <2>4. Subops(n)' = Subops(n) /\ dag'[n].kind = dag[n].kind
        /\ Owed(n, piped[n])' = Owed(n, piped[n])
    BY <1>1, <2>2 DEF Subops, Owed
  <2>5. pending'[n] = inMem'[n] + Owed(n, piped[n])
    <3>1. CASE next[n] = 0
      <4>1. piped[n] = 0 /\ inMem[n] = 0
        BY <2>1, <3>1 DEF Progress
      <4> QED BY <2>2, <3>1, <4>1, <1>0, NodeFacts
    <3>2. CASE next[n] # 0
      <4>1. next[n] > 0 /\ dag[n].kind # "barrier"
        BY <1>1, <2>1, <3>2
      <4> QED BY <2>1, <2>2, <3>2, <4>1 DEF Progress
    <3> QED BY <3>1, <3>2
  <2>6. pending'[n] # 0
    BY <2>1, <2>2, <2>3, <2>5, <1>0, NodeFacts
  <2>7. next'[n] <= Subops(n) /\ piped'[n] <= next'[n] /\ next'[n] > 0
    BY <1>0, <1>1, <2>1, <2>2, NodeFacts DEF Progress
  <2>8. dag[n].kind = "compute" => inMem[n] = 0
    BY <2>1 DEF Progress
  <2> QED BY <1>1, <2>2, <2>4, <2>5, <2>6, <2>7, <2>8 DEF Progress
<1>7. \A m \in Node : Progress(m)'
  <2>1. SUFFICES ASSUME NEW m \in Node, m # n PROVE Progress(m)'
    BY <1>6
  <2>2. /\ next'[m] = next[m] /\ piped'[m] = piped[m]
        /\ pending'[m] = pending[m] /\ inMem'[m] = inMem[m]
        /\ m \in issued' <=> m \in issued
        /\ m \in finished' <=> m \in finished
        /\ m \in barriers' <=> m \in barriers
    BY <1>0, <1>1, <1>2, <1>3, <2>1 DEF TypeOK, doneVars
  <2> QED BY <1>0, <1>1, <1>2, <2>1, <2>2, OthersKeepProgress
<1>8. Accounting'
  BY <1>0, <1>1 DEF Accounting, doneVars, NodesOf
<1> QED BY <1>0, <1>1, <1>2, <1>5, <1>7, <1>8 DEF IInv, NodeInv

\* Handing a TMA node to the TMA unit keeps IInv.
LEMMA IssueTmaKeeps ==
    ASSUME IInv, NEW n \in Node, IssueTma(n)
    PROVE  IInv'
<1>0. /\ NodeInv /\ dag \in Workload /\ TypeOK /\ DependencyCounter /\ ReadyOnce
      /\ Accounting /\ \A m \in Node : Progress(m)
  BY DEF IInv, NodeInv
<1>1. /\ dag' = dag /\ UNCHANGED <<finished, completed, tbRemaining, resident, waiting>>
      /\ next' = [next EXCEPT ![n] = Subops(n)]
      /\ piped' = [piped EXCEPT ![n] = Subops(n)]
      /\ pending' = [pending EXCEPT ![n] = Owed(n, 0)]
      /\ inMem' = [inMem EXCEPT ![n] = Owed(n, 0)]
      /\ barriers' = barriers
      /\ n \notin issued /\ n \notin finished /\ remaining[n] = 0
      /\ IssueLast(n) /\ issued' = issued \union {n}
      /\ next[n] < Subops(n) /\ dag[n].kind = "tma"
  BY <1>0 DEF IssueTma, Issuable, ReadyOnce, TypeOK, doneVars, tbVars, IssueLast,
              TotalTransactions
<1>2. /\ remaining' \in [Node -> Nat] /\ queued' \in [Node -> Nat]
      /\ DependencyCounter' /\ ReadyOnce'
      /\ \A m \in Node : remaining[m] = 0 => remaining'[m] = 0
  BY <1>0, <1>1, IssueLoop
<1>3. /\ Owed(n, 0) \in Nat /\ Owed(n, 0) > 0 /\ Owed(n, Subops(n)) = 0
      /\ Subops(n) = 1
  BY <1>0, <1>1, NodeFacts
<1>4. TypeOK'
  <2>1. /\ next' \in [Node -> Nat] /\ piped' \in [Node -> Nat]
        /\ pending' \in [Node -> Nat] /\ inMem' \in [Node -> Nat]
    BY <1>0, <1>1, <1>3 DEF TypeOK
  <2>2. issued' \subseteq Node /\ barriers' \subseteq Node
    BY <1>0, <1>1 DEF TypeOK
  <2> QED BY <1>0, <1>1, <1>2, <2>1, <2>2 DEF TypeOK
<1>5. Progress(n)'
  <2>1. Progress(n) /\ next[n] \in Nat /\ next[n] = 0
    BY <1>0, <1>1, <1>3 DEF TypeOK
  <2>2. /\ next'[n] = 1 /\ piped'[n] = 1 /\ remaining'[n] = 0
        /\ pending'[n] = Owed(n, 0) /\ n \in issued' /\ n \notin finished'
        /\ inMem'[n] = Owed(n, 0) /\ n \notin barriers'
    BY <1>0, <1>1, <1>2, <1>3, <2>1 DEF TypeOK, Progress
  <2>3. Subops(n)' = 1 /\ dag'[n].kind = "tma" /\ Owed(n, piped[n])' = 0
    BY <1>1, <1>3, <2>2 DEF Subops, Owed
  <2> QED BY <1>3, <2>2, <2>3 DEF Progress
<1>6. \A m \in Node : Progress(m)'
  <2>1. SUFFICES ASSUME NEW m \in Node, m # n PROVE Progress(m)'
    BY <1>5
  <2>2. /\ next'[m] = next[m] /\ piped'[m] = piped[m]
        /\ pending'[m] = pending[m] /\ inMem'[m] = inMem[m]
        /\ m \in issued' <=> m \in issued
        /\ m \in finished' <=> m \in finished
        /\ m \in barriers' <=> m \in barriers
    BY <1>0, <1>1, <2>1 DEF TypeOK
  <2> QED BY <1>0, <1>1, <1>2, <2>1, <2>2, OthersKeepProgress
<1>7. Accounting'
  BY <1>0, <1>1 DEF Accounting, NodesOf
<1> QED BY <1>0, <1>1, <1>2, <1>4, <1>6, <1>7 DEF IInv, NodeInv

\* Putting a barrier node in the barrier queue keeps IInv.
LEMMA IssueBarrierKeeps ==
    ASSUME IInv, NEW n \in Node, IssueBarrier(n)
    PROVE  IInv'
<1>0. /\ NodeInv /\ dag \in Workload /\ TypeOK /\ DependencyCounter /\ ReadyOnce
      /\ Accounting /\ \A m \in Node : Progress(m)
  BY DEF IInv, NodeInv
<1>1. /\ dag' = dag /\ UNCHANGED <<finished, completed, tbRemaining, resident, waiting>>
      /\ next' = [next EXCEPT ![n] = Subops(n)]
      /\ piped' = [piped EXCEPT ![n] = Subops(n)]
      /\ pending' = [pending EXCEPT ![n] = 1]
      /\ inMem' = inMem
      /\ barriers' = barriers \union {n}
      /\ n \notin issued /\ n \notin finished /\ remaining[n] = 0
      /\ IssueLast(n) /\ issued' = issued \union {n}
      /\ next[n] < Subops(n) /\ dag[n].kind = "barrier"
  BY <1>0 DEF IssueBarrier, Issuable, ReadyOnce, TypeOK, doneVars, tbVars, IssueLast,
              TotalTransactions
<1>2. /\ remaining' \in [Node -> Nat] /\ queued' \in [Node -> Nat]
      /\ DependencyCounter' /\ ReadyOnce'
      /\ \A m \in Node : remaining[m] = 0 => remaining'[m] = 0
  BY <1>0, <1>1, IssueLoop
<1>3. /\ Owed(n, 0) \in Nat /\ Owed(n, 0) > 0 /\ Owed(n, Subops(n)) = 0
      /\ Subops(n) = 1
  BY <1>0, <1>1, NodeFacts
<1>4. TypeOK'
  <2>1. /\ next' \in [Node -> Nat] /\ piped' \in [Node -> Nat]
        /\ pending' \in [Node -> Nat] /\ inMem' \in [Node -> Nat]
    BY <1>0, <1>1, <1>3 DEF TypeOK
  <2>2. issued' \subseteq Node /\ barriers' \subseteq Node
    BY <1>0, <1>1 DEF TypeOK
  <2> QED BY <1>0, <1>1, <1>2, <2>1, <2>2 DEF TypeOK
<1>5. Progress(n)'
  <2>1. Progress(n) /\ next[n] \in Nat /\ next[n] = 0
    BY <1>0, <1>1, <1>3 DEF TypeOK
  <2>2. /\ next'[n] = 1 /\ piped'[n] = 1 /\ remaining'[n] = 0
        /\ pending'[n] = 1 /\ n \in issued' /\ n \notin finished'
        /\ inMem'[n] = 0 /\ n \in barriers'
    BY <1>0, <1>1, <1>2, <1>3, <2>1 DEF TypeOK, Progress
  <2>3. Subops(n)' = 1 /\ dag'[n].kind = "barrier" /\ Owed(n, piped[n])' = 0
    BY <1>1, <1>3, <2>2 DEF Subops, Owed
  <2> QED BY <1>3, <2>2, <2>3 DEF Progress
<1>6. \A m \in Node : Progress(m)'
  <2>1. SUFFICES ASSUME NEW m \in Node, m # n PROVE Progress(m)'
    BY <1>5
  <2>2. /\ next'[m] = next[m] /\ piped'[m] = piped[m]
        /\ pending'[m] = pending[m] /\ inMem'[m] = inMem[m]
        /\ m \in issued' <=> m \in issued
        /\ m \in finished' <=> m \in finished
        /\ m \in barriers' <=> m \in barriers
    BY <1>0, <1>1, <2>1 DEF TypeOK
  <2> QED BY <1>0, <1>1, <1>2, <2>1, <2>2, OthersKeepProgress
<1>7. Accounting'
  BY <1>0, <1>1 DEF Accounting, NodesOf
<1> QED BY <1>0, <1>1, <1>2, <1>4, <1>6, <1>7 DEF IInv, NodeInv

\* Retiring a sub-op of a compute node, the last one included, keeps IInv.
LEMMA RetireComputeKeeps ==
    ASSUME IInv, NEW n \in Node, RetireCompute(n)
    PROVE  IInv'
<1>0. /\ NodeInv /\ dag \in Workload /\ TypeOK /\ DependencyCounter /\ ReadyOnce
      /\ Accounting /\ \A m \in Node : Progress(m)
  BY DEF IInv, NodeInv
<1>1. /\ dag' = dag /\ UNCHANGED <<next, barriers, issued, resident, waiting>>
      /\ dag[n].kind = "compute" /\ piped[n] < next[n]
      /\ piped' = [piped EXCEPT ![n] = @ + 1]
      /\ inMem' = inMem
      /\ pending' = [pending EXCEPT ![n] = IF @ > 0 THEN @ - 1 ELSE @]
  BY DEF RetireCompute, OneAnswer, tbVars
<1>2. /\ Progress(n) /\ next[n] \in Nat /\ piped[n] \in Nat
      /\ pending[n] \in Nat /\ inMem[n] \in Nat
      /\ piped'[n] \in Nat /\ inMem'[n] \in Nat
  BY <1>0, <1>1 DEF TypeOK
<1>3. n \notin finished /\ next[n] > 0 /\ dag[n].kind # "barrier"
  BY <1>0, <1>1, <1>2, NodeFacts DEF Progress
<1>4. /\ pending[n] = inMem[n] + Owed(n, piped[n]) /\ pending[n] > 0
      /\ pending'[n] = pending[n] - 1
  BY <1>0, <1>1, <1>2, <1>3 DEF Progress, TypeOK
<1>5. /\ pending'[n] = inMem'[n] + Owed(n, piped'[n])
      /\ piped'[n] <= next[n]
      /\ dag[n].kind = "compute" => inMem'[n] = 0
      /\ dag[n].kind = "tma" => piped'[n] = next[n]
  <2>1. piped'[n] = piped[n] + 1 /\ inMem'[n] = 0 /\ inMem[n] = 0
    BY <1>0, <1>1, <1>2 DEF Progress, TypeOK
  <2>2. piped[n] < Subops(n) /\ Subops(n) \in Nat
    BY <1>0, <1>1, <1>2, NodeFacts DEF Progress
  <2>3. Owed(n, piped[n]) = Owed(n, piped[n] + 1) + 1
        /\ Owed(n, piped[n] + 1) \in Nat
    BY <1>0, <1>1, <1>2, <2>2, NodeFacts
  <2> QED BY <1>1, <1>2, <1>4, <2>1, <2>3
<1>6. pending'[n] = 0 => n \in issued /\ piped'[n] = Subops(n) /\ inMem'[n] = 0
  <2>1. piped'[n] <= Subops(n) /\ Subops(n) \in Nat
    BY <1>0, <1>2, <1>5, NodeFacts DEF Progress
  <2>2. piped'[n] < Subops(n) => Owed(n, piped'[n]) > 0
    BY <1>0, <1>2, <2>1, NodeFacts
  <2>3. Owed(n, piped'[n]) \in Nat
    BY <1>0, <1>2, <2>1, NodeFacts
  <2>4. pending'[n] = 0 => piped'[n] = Subops(n) /\ inMem'[n] = 0
    BY <1>2, <1>5, <2>1, <2>2, <2>3
  <2> QED BY <1>2, <1>5, <2>1, <2>4 DEF Progress
<1>7. /\ remaining' \in [Node -> Nat] /\ queued' \in [Node -> Nat]
      /\ DependencyCounter' /\ ReadyOnce' /\ Accounting'
      /\ completed' \in Nat /\ tbRemaining' \in [TB -> Nat]
      /\ finished' = IF pending'[n] = 0 THEN finished \union {n} ELSE finished
      /\ \A m \in Node : remaining[m] = 0 => remaining'[m] = 0
  <2>1. CASE pending'[n] = 0
    <3>1. CompleteNode(n) /\ UNCHANGED <<dag, issued>>
      BY <1>1, <2>1 DEF RetireCompute, AllAnswered
    <3> QED BY <1>3, <2>1, <3>1, CompletionStep
  <2>2. CASE pending'[n] # 0
    <3>1. UNCHANGED <<remaining, queued, finished, completed, tbRemaining>>
      BY <2>2 DEF RetireCompute, AllAnswered, doneVars
    <3> QED BY <1>0, <1>1, <2>2, <3>1
            DEF DependencyCounter, ReadyOnce, Accounting, TypeOK, NodesOf
  <2> QED BY <2>1, <2>2
<1>8. TypeOK'
  <2>1. /\ pending' \in [Node -> Nat] /\ piped' \in [Node -> Nat]
        /\ inMem' \in [Node -> Nat]
    BY <1>0, <1>1, <1>2, <1>4 DEF TypeOK
  <2>2. finished' \subseteq Node
    BY <1>0, <1>7 DEF TypeOK
  <2> QED BY <1>0, <1>1, <1>7, <2>1, <2>2 DEF TypeOK
<1>9. Progress(n)'
  <2>1. /\ Subops(n)' = Subops(n) /\ dag'[n].kind = dag[n].kind
        /\ Owed(n, piped[n])' = Owed(n, piped'[n])
    BY <1>1 DEF Subops, Owed
  <2>2. /\ next'[n] = next[n]
        /\ n \in issued' <=> n \in issued
        /\ n \in barriers' <=> n \in barriers
        /\ n \in finished' <=> pending'[n] = 0
        /\ next[n] > 0 => remaining'[n] = 0
        /\ n \notin barriers
    BY <1>1, <1>2, <1>3, <1>7 DEF Progress
  <2> QED BY <1>2, <1>3, <1>5, <1>6, <2>1, <2>2 DEF Progress
<1>10. \A m \in Node : Progress(m)'
  <2>1. SUFFICES ASSUME NEW m \in Node, m # n PROVE Progress(m)'
    BY <1>9
  <2>2. /\ next'[m] = next[m] /\ piped'[m] = piped[m]
        /\ pending'[m] = pending[m] /\ inMem'[m] = inMem[m]
        /\ m \in issued' <=> m \in issued
        /\ m \in finished' <=> m \in finished
        /\ m \in barriers' <=> m \in barriers
    BY <1>0, <1>1, <1>7, <2>1 DEF TypeOK
  <2> QED BY <1>0, <1>1, <1>7, <2>1, <2>2, OthersKeepProgress
<1> QED BY <1>0, <1>1, <1>7, <1>8, <1>10 DEF IInv, NodeInv

\* A memory completion, the last one of its node included, keeps IInv.
LEMMA MemoryAnswerKeeps ==
    ASSUME IInv, NEW n \in Node, MemoryAnswer(n)
    PROVE  IInv'
<1>0. /\ NodeInv /\ dag \in Workload /\ TypeOK /\ DependencyCounter /\ ReadyOnce
      /\ Accounting /\ \A m \in Node : Progress(m)
  BY DEF IInv, NodeInv
<1>1. /\ dag' = dag /\ UNCHANGED <<next, barriers, issued, resident, waiting>>
      /\ inMem[n] > 0
      /\ inMem' = [inMem EXCEPT ![n] = @ - 1]
      /\ piped' = piped
      /\ pending' = [pending EXCEPT ![n] = IF @ > 0 THEN @ - 1 ELSE @]
  BY DEF MemoryAnswer, OneAnswer, tbVars
<1>2. /\ Progress(n) /\ next[n] \in Nat /\ piped[n] \in Nat
      /\ pending[n] \in Nat /\ inMem[n] \in Nat
      /\ piped'[n] \in Nat /\ inMem'[n] \in Nat
  BY <1>0, <1>1 DEF TypeOK
<1>3. n \notin finished /\ next[n] > 0 /\ dag[n].kind # "barrier"
  BY <1>0, <1>1, <1>2, NodeFacts DEF Progress
<1>4. /\ pending[n] = inMem[n] + Owed(n, piped[n]) /\ pending[n] > 0
      /\ pending'[n] = pending[n] - 1
  BY <1>0, <1>1, <1>2, <1>3 DEF Progress, TypeOK
<1>5. /\ pending'[n] = inMem'[n] + Owed(n, piped'[n])
      /\ piped'[n] <= next[n]
      /\ dag[n].kind = "compute" => inMem'[n] = 0
      /\ dag[n].kind = "tma" => piped'[n] = next[n]
  <2>1. piped'[n] = piped[n] /\ inMem'[n] = inMem[n] - 1
    BY <1>0, <1>1 DEF TypeOK
  <2>2. Owed(n, piped[n]) \in Nat /\ dag[n].kind # "compute"
    BY <1>0, <1>1, <1>2, NodeFacts DEF Progress
  <2> QED BY <1>1, <1>2, <1>4, <2>1, <2>2 DEF Progress
<1>6. pending'[n] = 0 => n \in issued /\ piped'[n] = Subops(n) /\ inMem'[n] = 0
  <2>1. piped'[n] <= Subops(n) /\ Subops(n) \in Nat
    BY <1>0, <1>2, <1>5, NodeFacts DEF Progress
  <2>2. piped'[n] < Subops(n) => Owed(n, piped'[n]) > 0
    BY <1>0, <1>2, <2>1, NodeFacts
  <2>3. Owed(n, piped'[n]) \in Nat
    BY <1>0, <1>2, <2>1, NodeFacts
  <2>4. pending'[n] = 0 => piped'[n] = Subops(n) /\ inMem'[n] = 0
    BY <1>2, <1>5, <2>1, <2>2, <2>3
  <2> QED BY <1>2, <1>5, <2>1, <2>4 DEF Progress
<1>7. /\ remaining' \in [Node -> Nat] /\ queued' \in [Node -> Nat]
      /\ DependencyCounter' /\ ReadyOnce' /\ Accounting'
      /\ completed' \in Nat /\ tbRemaining' \in [TB -> Nat]
      /\ finished' = IF pending'[n] = 0 THEN finished \union {n} ELSE finished
      /\ \A m \in Node : remaining[m] = 0 => remaining'[m] = 0
  <2>1. CASE pending'[n] = 0
    <3>1. CompleteNode(n) /\ UNCHANGED <<dag, issued>>
      BY <1>1, <2>1 DEF MemoryAnswer, AllAnswered
    <3> QED BY <1>3, <2>1, <3>1, CompletionStep
  <2>2. CASE pending'[n] # 0
    <3>1. UNCHANGED <<remaining, queued, finished, completed, tbRemaining>>
      BY <2>2 DEF MemoryAnswer, AllAnswered, doneVars
    <3> QED BY <1>0, <1>1, <2>2, <3>1
            DEF DependencyCounter, ReadyOnce, Accounting, TypeOK, NodesOf
  <2> QED BY <2>1, <2>2
<1>8. TypeOK'
  <2>1. /\ pending' \in [Node -> Nat] /\ piped' \in [Node -> Nat]
        /\ inMem' \in [Node -> Nat]
    BY <1>0, <1>1, <1>2, <1>4 DEF TypeOK
  <2>2. finished' \subseteq Node
    BY <1>0, <1>7 DEF TypeOK
  <2> QED BY <1>0, <1>1, <1>7, <2>1, <2>2 DEF TypeOK
<1>9. Progress(n)'
  <2>1. /\ Subops(n)' = Subops(n) /\ dag'[n].kind = dag[n].kind
        /\ Owed(n, piped[n])' = Owed(n, piped'[n])
    BY <1>1 DEF Subops, Owed
  <2>2. /\ next'[n] = next[n]
        /\ n \in issued' <=> n \in issued
        /\ n \in barriers' <=> n \in barriers
        /\ n \in finished' <=> pending'[n] = 0
        /\ next[n] > 0 => remaining'[n] = 0
        /\ n \notin barriers
    BY <1>1, <1>2, <1>3, <1>7 DEF Progress
  <2> QED BY <1>2, <1>3, <1>5, <1>6, <2>1, <2>2 DEF Progress
<1>10. \A m \in Node : Progress(m)'
  <2>1. SUFFICES ASSUME NEW m \in Node, m # n PROVE Progress(m)'
    BY <1>9
  <2>2. /\ next'[m] = next[m] /\ piped'[m] = piped[m]
        /\ pending'[m] = pending[m] /\ inMem'[m] = inMem[m]
        /\ m \in issued' <=> m \in issued
        /\ m \in finished' <=> m \in finished
        /\ m \in barriers' <=> m \in barriers
    BY <1>0, <1>1, <1>7, <2>1 DEF TypeOK
  <2> QED BY <1>0, <1>1, <1>7, <2>1, <2>2, OthersKeepProgress
<1> QED BY <1>0, <1>1, <1>7, <1>8, <1>10 DEF IInv, NodeInv

\* Turning a retired sub-op into memory transactions keeps IInv.
LEMMA RetireMemoryKeeps ==
    ASSUME IInv, NEW n \in Node, RetireMemory(n)
    PROVE  IInv'
<1>0. /\ NodeInv /\ dag \in Workload /\ TypeOK /\ DependencyCounter /\ ReadyOnce
      /\ Accounting /\ \A m \in Node : Progress(m)
  BY DEF IInv, NodeInv
<1>1. /\ dag' = dag
      /\ UNCHANGED <<remaining, queued, next, pending, barriers, issued>>
      /\ UNCHANGED <<finished, completed, tbRemaining, resident, waiting>>
      /\ dag[n].kind = "memory" /\ piped[n] < next[n]
      /\ piped' = [piped EXCEPT ![n] = @ + 1]
      /\ inMem' = [inMem EXCEPT ![n] =
                      @ + (Owed(n, piped[n]) - Owed(n, piped[n] + 1))]
  BY DEF RetireMemory, SubopEvents, doneVars, tbVars
<1>2. /\ Progress(n) /\ next[n] \in Nat /\ piped[n] \in Nat
      /\ pending[n] \in Nat /\ inMem[n] \in Nat
  BY <1>0 DEF TypeOK
<1>3. piped[n] < Subops(n) /\ next[n] > 0
  BY <1>0, <1>1, <1>2, NodeFacts DEF Progress
<1>4. /\ Owed(n, piped[n]) \in Nat /\ Owed(n, piped[n] + 1) \in Nat
      /\ Owed(n, piped[n]) > Owed(n, piped[n] + 1)
  BY <1>0, <1>2, <1>3, NodeFacts
<1>5. /\ piped'[n] = piped[n] + 1
      /\ inMem'[n] = inMem[n] + (Owed(n, piped[n]) - Owed(n, piped[n] + 1))
      /\ inMem'[n] \in Nat
  BY <1>0, <1>1, <1>2, <1>4 DEF TypeOK
<1>6. TypeOK'
  <2>1. piped' \in [Node -> Nat] /\ inMem' \in [Node -> Nat]
    BY <1>0, <1>1, <1>2, <1>5 DEF TypeOK
  <2> QED BY <1>0, <1>1, <2>1 DEF TypeOK
<1>7. Progress(n)'
  <2>1. /\ Subops(n)' = Subops(n)
        /\ dag'[n].kind = dag[n].kind
        /\ Owed(n, piped[n])' = Owed(n, piped[n] + 1)
    BY <1>1, <1>5 DEF Subops, Owed
  <2>2. n \notin finished
    BY <1>2, <1>1, <1>3 DEF Progress
  <2>3. pending[n] = inMem[n] + Owed(n, piped[n])
    BY <1>1, <1>2, <1>3 DEF Progress
  <2> QED BY <1>1, <1>2, <1>3, <1>4, <1>5, <2>1, <2>2, <2>3 DEF Progress
<1>8. \A m \in Node : Progress(m)'
  <2>1. SUFFICES ASSUME NEW m \in Node, m # n PROVE Progress(m)'
    BY <1>7
  <2>2. piped'[m] = piped[m] /\ inMem'[m] = inMem[m]
    BY <1>0, <1>1, <2>1 DEF TypeOK
  <2> QED BY <1>0, <1>1, <2>1, <2>2, OthersKeepProgress
<1> QED BY <1>0, <1>1, <1>6, <1>8
        DEF IInv, NodeInv, DependencyCounter, ReadyOnce, Accounting, NodesOf

\* The end of a barrier's latency keeps IInv.
LEMMA BarrierExpiresKeeps ==
    ASSUME IInv, NEW n \in Node, BarrierExpires(n)
    PROVE  IInv'
<1>0. /\ NodeInv /\ dag \in Workload /\ TypeOK /\ DependencyCounter /\ ReadyOnce
      /\ Accounting /\ \A m \in Node : Progress(m)
  BY DEF IInv, NodeInv
<1>1. /\ dag' = dag /\ n \in barriers /\ barriers' = barriers \ {n}
      /\ UNCHANGED <<next, piped, pending, inMem, issued, resident, waiting>>
      /\ CompleteNode(n)
  BY DEF BarrierExpires, tbVars
<1>2. Progress(n) /\ n \notin finished
  BY <1>0, <1>1 DEF Progress
<1>3. /\ remaining' \in [Node -> Nat] /\ queued' \in [Node -> Nat]
      /\ DependencyCounter' /\ ReadyOnce' /\ Accounting'
      /\ completed' \in Nat /\ tbRemaining' \in [TB -> Nat]
      /\ finished' = finished \union {n}
      /\ \A m \in Node : remaining[m] = 0 => remaining'[m] = 0
  BY <1>1, <1>2, CompletionStep
<1>4. TypeOK'
  BY <1>0, <1>1, <1>3 DEF TypeOK
<1>5. Progress(n)'
  <2>1. Subops(n)' = Subops(n) /\ dag'[n].kind = dag[n].kind
    BY <1>1 DEF Subops
  <2>2. n \in issued /\ dag[n].kind = "barrier" /\ next[n] = Subops(n)
        /\ piped[n] = next[n] /\ inMem[n] = 0 /\ remaining[n] = 0 /\ next[n] > 0
    BY <1>0, <1>1, <1>2, NodeFacts DEF Progress
  <2>3. n \in issued' /\ n \in finished' /\ n \notin barriers'
        /\ remaining'[n] = 0
    BY <1>1, <1>3, <2>2
  <2> QED BY <1>0, <1>1, <2>1, <2>2, <2>3, NodeFacts DEF Progress
<1>6. \A m \in Node : Progress(m)'
  <2>1. SUFFICES ASSUME NEW m \in Node, m # n PROVE Progress(m)'
    BY <1>5
  <2>2. /\ m \in barriers' <=> m \in barriers
        /\ m \in finished' <=> m \in finished
    BY <1>1, <1>3, <2>1
  <2> QED BY <1>0, <1>1, <1>3, <2>1, <2>2, OthersKeepProgress
<1> QED BY <1>0, <1>1, <1>3, <1>4, <1>6 DEF IInv, NodeInv

\* Retiring and dispatching blocks touches nothing IInv is about.
LEMMA SmStepKeeps ==
    ASSUME IInv, NEW s \in SM, NEW k \in 0..MaxResident, RetireAndDispatch(s, k)
    PROVE  IInv'
<1>1. /\ UNCHANGED <<dag, nodeVars, doneVars>>
      /\ resident' \subseteq TB /\ waiting' \subseteq TB
  BY DEF RetireAndDispatch, IInv, NodeInv, TypeOK, ResidentOn, WaitingOn, Lowest
<1>2. TypeOK'
  BY <1>1 DEF IInv, NodeInv, TypeOK, nodeVars, doneVars
<1>3. \A m \in Node : Progress(m)'
  BY <1>1 DEF IInv, NodeInv, nodeVars, doneVars, Progress, Subops, Owed
<1> QED BY <1>1, <1>2, <1>3 DEF IInv, NodeInv, DependencyCounter, ReadyOnce,
                              Accounting, NodesOf, nodeVars, doneVars

\* A step that changes nothing keeps everything.
LEMMA StutterKeeps ==
    ASSUME IInv, UNCHANGED vars
    PROVE  IInv'
  BY DEF vars, nodeVars, doneVars, tbVars, IInv, NodeInv, TypeOK, DependencyCounter,
         ReadyOnce, Accounting, NodesOf, Progress, Subops, Owed

\* The state the SMs and schedulers are constructed in satisfies IInv.
LEMMA InitIInv == Init => IInv
<1> SUFFICES ASSUME Init PROVE IInv
  OBVIOUS
<1> USE DEF Init
<1>1. ASSUME NEW n \in Node
      PROVE  InitialRemaining(n) \in Nat
             /\ InitialRemaining(n) = Cardinality(dag[n].deps \ {})
                                          + Cardinality(dag[n].issueDeps \ {})
  <2>1. /\ dag[n].deps \ {} = dag[n].deps
        /\ dag[n].issueDeps \ {} = dag[n].issueDeps
    OBVIOUS
  <2>2. Cardinality(dag[n].deps) \in Nat /\ Cardinality(dag[n].issueDeps) \in Nat
    BY NodeFacts, SmallSets
  <2> QED BY <2>1, <2>2 DEF InitialRemaining
<1>2. DependencyCounter
  BY <1>1 DEF DependencyCounter
<1>3. ReadyOnce
  BY <1>1 DEF ReadyOnce
<1>4. ASSUME NEW t \in TB PROVE NodesOf(t) \ {} = NodesOf(t) /\ NodesOf(t) \subseteq Id
  BY DEF NodesOf
<1>5. Accounting
  BY <1>4, FS_EmptySet DEF Accounting
<1>6. ASSUME NEW t \in TB PROVE Cardinality(NodesOf(t)) \in Nat
  BY <1>4, SmallSets
<1>7. resident \subseteq TB /\ waiting \subseteq TB
  BY DEF Lowest, TBsOn
<1>8. TypeOK
  BY <1>1, <1>6, <1>7 DEF TypeOK
<1>9. ASSUME NEW n \in Node PROVE Progress(n)
  BY NodeFacts DEF Progress
<1> QED BY <1>2, <1>3, <1>5, <1>8, <1>9 DEF IInv, NodeInv
-----------------------------------------------------------------------------
\* Every step of the machine keeps IInv.
LEMMA IInvInductive == IInv /\ [Next]_vars => IInv'
<1> SUFFICES ASSUME IInv, [Next]_vars PROVE IInv'
  OBVIOUS
<1>1. ASSUME NEW n \in Node, NodeStep(n) PROVE IInv'
  BY <1>1, IssueSubopKeeps, IssueTmaKeeps, IssueBarrierKeeps, RetireComputeKeeps,
     RetireMemoryKeeps, MemoryAnswerKeeps, BarrierExpiresKeeps DEF NodeStep
<1>2. ASSUME NEW s \in SM, SmStep(s) PROVE IInv'
  BY <1>2, SmStepKeeps DEF SmStep
<1> QED BY <1>1, <1>2, StutterKeeps DEF Next

\* IInv holds in every reachable state, for every graph and configuration: the
\* fact that the theorems about the node counters follow from.
THEOREM Invariance == Spec => []IInv
<1>1. Init => IInv
  BY InitIInv
<1>2. IInv /\ [Next]_vars => IInv'
  BY IInvInductive
<1> QED BY <1>1, <1>2, PTL DEF Spec
-----------------------------------------------------------------------------
(* Residency                                                               *)

\* The lowest k elements of a set of blocks are at most k: each has a number of
\* its own, how many elements of the set lie below it.
LEMMA LowestBound ==
    ASSUME NEW S, S \subseteq TB, NEW k \in Nat
    PROVE  Cardinality(Lowest(S, k)) <= k /\ IsFiniteSet(Lowest(S, k))
<1> DEFINE Below(t) == {u \in S : u < t}
           rank == [t \in Lowest(S, k) |-> Cardinality(Below(t)) + 1]
<1>1. IsFiniteSet(S) /\ S \subseteq Nat
  BY FS_Subset
<1>2. \A t \in S : IsFiniteSet(Below(t)) /\ Cardinality(Below(t)) \in Nat
  BY <1>1, FS_Subset, FS_CardinalityType
<1>3. ASSUME NEW t \in Lowest(S, k), NEW u \in Lowest(S, k), t < u
      PROVE  rank[t] < rank[u]
  <2>1. t \in S /\ u \in S
    BY DEF Lowest
  <2>2. Below(t) \subseteq Below(u) /\ t \in Below(u) /\ t \notin Below(t)
    <3>1. t \in Nat /\ u \in Nat
      BY <1>1, <2>1
    <3>2. ASSUME NEW w \in Below(t) PROVE w \in Below(u)
      BY <1>1, <1>3, <3>1
    <3>3. t \in Below(u) /\ t \notin Below(t)
      BY <1>3, <2>1, <3>1
    <3> QED BY <3>2, <3>3
  <2>3. Cardinality(Below(t)) < Cardinality(Below(u))
    <3>1. Cardinality(Below(t)) <= Cardinality(Below(u))
      BY <1>2, <2>1, <2>2, FS_Subset
    <3>2. Cardinality(Below(t)) # Cardinality(Below(u))
      BY <1>2, <2>1, <2>2, FS_Subset
    <3>3. Cardinality(Below(t)) \in Nat /\ Cardinality(Below(u)) \in Nat
      BY <1>2, <2>1
    <3> QED BY <3>1, <3>2, <3>3
  <2> HIDE DEF Below
  <2> QED BY <1>2, <2>1, <2>3
<1>4. rank \in Injection(Lowest(S, k), 1..k)
  <2>1. \A t \in Lowest(S, k) : t \in S /\ Cardinality(Below(t)) < k
    BY DEF Lowest
  <2>2. rank \in [Lowest(S, k) -> 1..k]
    <3>1. ASSUME NEW t \in Lowest(S, k) PROVE Cardinality(Below(t)) + 1 \in 1..k
      <4>1. Cardinality(Below(t)) \in Nat /\ Cardinality(Below(t)) < k
        BY <1>2, <2>1
      <4> HIDE DEF Below
      <4> QED BY <4>1
    <3> HIDE DEF Below
    <3> QED BY <3>1
  <2>3. \A t, u \in Lowest(S, k) : rank[t] = rank[u] => t = u
    <3> SUFFICES ASSUME NEW t \in Lowest(S, k), NEW u \in Lowest(S, k),
                        rank[t] = rank[u], t # u
                 PROVE  FALSE
      OBVIOUS
    <3>1. t \in Nat /\ u \in Nat
      BY <1>1, <2>1
    <3>2. t < u \/ u < t
      BY <3>1
    <3>3. rank[t] \in Int /\ rank[u] \in Int
      BY <2>2
    <3>4. rank[t] < rank[u] \/ rank[u] < rank[t]
      BY <1>3, <3>2
    <3> QED BY <3>3, <3>4
  <2> HIDE DEF rank
  <2> QED BY <2>2, <2>3 DEF Injection, IsInjective
<1>5. IsFiniteSet(1..k) /\ Cardinality(1..k) = k
  BY FS_Interval
<1> QED BY <1>4, <1>5, FS_Injection

\* What is left of a set of blocks lies above the lowest k.
LEMMA LowestFirst ==
    ASSUME NEW S, S \subseteq TB, NEW k \in Nat,
           NEW t \in S \ Lowest(S, k), NEW u \in Lowest(S, k)
    PROVE  u < t
<1> DEFINE Below(v) == {w \in S : w < v}
<1>1. IsFiniteSet(S) /\ S \subseteq Nat /\ u \in S /\ t \in S
  BY FS_Subset DEF Lowest
<1>2. t \in Nat /\ u \in Nat /\ t # u
  BY <1>1
<1>3. SUFFICES ASSUME t < u PROVE FALSE
  BY <1>2
<1>4. Below(t) \subseteq Below(u) /\ IsFiniteSet(Below(u)) /\ IsFiniteSet(Below(t))
  <2>1. ASSUME NEW w \in Below(t) PROVE w \in Below(u)
    BY <1>1, <1>2, <1>3
  <2>2. Below(t) \subseteq S /\ Below(u) \subseteq S
    OBVIOUS
  <2> QED BY <1>1, <2>1, <2>2, FS_Subset
<1>5. Cardinality(Below(t)) <= Cardinality(Below(u))
  BY <1>4, FS_Subset
<1>6. Cardinality(Below(u)) < k
  BY DEF Lowest
<1>7. Cardinality(Below(t)) \in Nat /\ Cardinality(Below(u)) \in Nat
  BY <1>4, FS_CardinalityType
<1>8. Cardinality(Below(t)) < k
  <2> HIDE DEF Below
  <2> QED BY <1>5, <1>6, <1>7
<1> QED BY <1>1, <1>8 DEF Lowest

\* A complete block has no unfinished node.
LEMMA CompleteMeansDone ==
    ASSUME IInv, NEW t \in TB, Complete(t)
    PROVE  NodesOf(t) \subseteq finished
<1>1. NodesOf(t) \ finished \subseteq Id
  BY DEF NodesOf
<1>2. Cardinality(NodesOf(t) \ finished) = 0
  BY DEF IInv, Accounting, Complete
<1> QED BY <1>1, <1>2, SmallSets, FS_EmptySet

\* A step of a node keeps the life cycle of the blocks: it starts no node of a
\* waiting block and unfinishes none of a retired one.
LEMMA NodeStepKeepsBlocks ==
    ASSUME IInv, BlockLifecycle, NEW n \in Node, NodeStep(n)
    PROVE  BlockLifecycle'
<1>1. UNCHANGED <<dag, resident, waiting>>
  BY DEF NodeStep, IssueSubop, IssueTma, IssueBarrier, RetireCompute, RetireMemory,
         MemoryAnswer, BarrierExpires, tbVars
<1>2. finished \subseteq finished'
  BY DEF NodeStep, IssueSubop, IssueTma, IssueBarrier, RetireCompute, RetireMemory,
         MemoryAnswer, BarrierExpires, doneVars, CompleteNode
<1>3. ASSUME NEW m \in Node, next'[m] # next[m]
      PROVE  dag[m].tb \in resident
  BY <1>3 DEF NodeStep, IssueSubop, IssueTma, IssueBarrier, RetireCompute,
              RetireMemory, MemoryAnswer, BarrierExpires, Issuable,
              IInv, NodeInv, TypeOK
<1>4. \A m \in Node : dag[m].tb \in waiting => next'[m] = 0
  BY <1>3 DEF BlockLifecycle
<1>5. /\ resident' \intersect waiting' = {}
      /\ \A t, u \in TB : /\ t \in waiting' /\ u \in resident'
                          /\ SmOf[t] = SmOf[u]
                          => u < t
      /\ \A s \in SM : Cardinality(ResidentOn(s)') <= MaxResident
  BY <1>1 DEF BlockLifecycle, ResidentOn
<1> QED BY <1>1, <1>2, <1>4, <1>5 DEF BlockLifecycle

\* Retiring and dispatching keeps the life cycle of the blocks.
LEMMA SmStepKeepsBlocks ==
    ASSUME IInv, BlockLifecycle, NEW s \in SM, NEW k \in 0..MaxResident,
           RetireAndDispatch(s, k)
    PROVE  BlockLifecycle'
<1> DEFINE staying == {t \in ResidentOn(s) : ~Complete(t)}
           room == MaxResident - Cardinality(staying)
           j == IF k < room THEN k ELSE room
           entering == Lowest(WaitingOn(s), j)
<1>1. /\ resident' = (resident \ ResidentOn(s)) \union staying \union entering
      /\ waiting' = waiting \ entering
      /\ dag' = dag /\ next' = next /\ finished' = finished
  BY DEF RetireAndDispatch, nodeVars, doneVars
<1>2. /\ resident \subseteq TB /\ waiting \subseteq TB
      /\ IsFiniteSet(ResidentOn(s)) /\ IsFiniteSet(staying)
      /\ Cardinality(staying) <= Cardinality(ResidentOn(s))
      /\ Cardinality(staying) \in Nat /\ Cardinality(ResidentOn(s)) \in Nat
  <2>1. resident \subseteq TB /\ waiting \subseteq TB
    BY DEF IInv, NodeInv, TypeOK
  <2>2. IsFiniteSet(ResidentOn(s))
    BY <2>1, FS_Subset DEF ResidentOn
  <2>3. staying \subseteq ResidentOn(s)
    OBVIOUS
  <2> QED BY <2>1, <2>2, <2>3, FS_Subset, FS_CardinalityType
<1>3. room \in Nat /\ j \in Nat /\ j <= room
  <2>1. Cardinality(ResidentOn(s)) <= MaxResident
    BY DEF BlockLifecycle
  <2> HIDE DEF staying
  <2> QED BY <1>2, <2>1
<1>4. /\ entering \subseteq WaitingOn(s) /\ WaitingOn(s) \subseteq TB
      /\ Cardinality(entering) <= j /\ IsFiniteSet(entering)
      /\ Cardinality(entering) \in Nat
  <2>1. WaitingOn(s) \subseteq TB
    BY <1>2 DEF WaitingOn
  <2>2. entering \subseteq WaitingOn(s)
    BY DEF Lowest
  <2> HIDE DEF j
  <2> QED BY <1>3, <2>1, <2>2, LowestBound, FS_CardinalityType
<1> HIDE DEF j
<1>5. resident' \intersect waiting' = {}
  <2>1. resident \intersect waiting = {}
    BY DEF BlockLifecycle
  <2> QED BY <1>1, <2>1 DEF ResidentOn
<1>6. ASSUME NEW r \in SM PROVE Cardinality(ResidentOn(r)') <= MaxResident
  <2>1. CASE r = s
    <3>1. ResidentOn(s)' = staying \union entering
      BY <1>1, <1>4 DEF ResidentOn, WaitingOn
    <3>2. /\ Cardinality(staying \union entering)
                 = Cardinality(staying) + Cardinality(entering)
                       - Cardinality(staying \intersect entering)
          /\ Cardinality(staying \intersect entering) \in Nat
      <4> HIDE DEF staying, entering
      <4> QED BY <1>2, <1>4, FS_Union, FS_Intersection, FS_CardinalityType
    <3>3. Cardinality(staying) + j <= MaxResident
      <4> HIDE DEF staying
      <4> QED BY <1>2, <1>3
    <3> HIDE DEF staying, entering
    <3> QED BY <1>2, <1>3, <1>4, <2>1, <3>1, <3>2, <3>3
  <2>2. CASE r # s
    <3>1. ResidentOn(r)' = ResidentOn(r)
      BY <1>1, <1>4, <2>2 DEF ResidentOn, WaitingOn
    <3> QED BY <3>1 DEF BlockLifecycle
  <2> QED BY <2>1, <2>2
<1>7. \A n \in Node : dag'[n].tb \in waiting' => next'[n] = 0
  BY <1>1 DEF BlockLifecycle
<1>8. ASSUME NEW n \in Node, dag[n].tb \notin resident' \union waiting'
      PROVE  n \in finished
  <2>1. CASE dag[n].tb \in resident
    <3>1. dag[n].tb \in TB /\ Complete(dag[n].tb)
      BY <1>1, <1>2, <1>8, <2>1 DEF ResidentOn
    <3>2. n \in NodesOf(dag[n].tb)
      BY DEF NodesOf
    <3> QED BY <3>1, <3>2, CompleteMeansDone
  <2>2. CASE dag[n].tb \notin resident
    <3>1. dag[n].tb \notin waiting
      BY <1>1, <1>8
    <3> QED BY <2>2, <3>1 DEF BlockLifecycle
  <2> QED BY <2>1, <2>2
<1>9. ASSUME NEW t \in TB, NEW u \in TB, t \in waiting', u \in resident',
             SmOf[t] = SmOf[u]
      PROVE  u < t
  <2>1. CASE u \in resident
    BY <1>1, <1>9, <2>1 DEF BlockLifecycle
  <2>2. CASE u \notin resident
    <3>1. u \in entering
      BY <1>1, <1>9, <2>2 DEF ResidentOn
    <3>2. t \in WaitingOn(s) \ entering
      BY <1>1, <1>4, <1>9, <3>1 DEF WaitingOn
    <3> QED BY <1>3, <1>4, <3>1, <3>2, LowestFirst
  <2> QED BY <2>1, <2>2
<1> QED BY <1>1, <1>5, <1>6, <1>7, <1>8, <1>9 DEF BlockLifecycle

\* The blocks an SM begins with are its lowest ids, at most MaxResident.
LEMMA InitBlocks == Init => BlockLifecycle
<1> SUFFICES ASSUME Init PROVE BlockLifecycle
  OBVIOUS
<1>1. \A s \in SM : TBsOn(s) \subseteq TB
  BY DEF TBsOn
<1>2. resident = UNION {Lowest(TBsOn(s), MaxResident) : s \in SM}
  BY DEF Init
<1>2a. /\ resident \intersect waiting = {}
       /\ \A t \in waiting : \E s \in SM : t \in TBsOn(s)
       /\ \A s \in SM : TBsOn(s) \subseteq resident \union waiting
  <2>1. waiting = (UNION {TBsOn(s) : s \in SM}) \ resident
    BY Zenon DEF Init
  <2>2. \A t : t \in waiting <=> t \notin resident /\ \E s \in SM : t \in TBsOn(s)
    BY <2>1
  <2> QED BY <2>2
<1>3. \A s \in SM : ResidentOn(s) = Lowest(TBsOn(s), MaxResident)
  <2>1. \A s \in SM : \A t \in TBsOn(s) : SmOf[t] = s
    BY DEF TBsOn
  <2>2. \A s \in SM : Lowest(TBsOn(s), MaxResident) \subseteq TBsOn(s)
    BY DEF Lowest
  <2> QED BY <1>2, <2>1, <2>2 DEF ResidentOn
<1>4. \A s \in SM : Cardinality(ResidentOn(s)) <= MaxResident
  BY <1>1, <1>3, LowestBound
<1>5. \A n \in Node : next[n] = 0
  BY DEF Init
<1>6. ASSUME NEW n \in Node PROVE dag[n].tb \in resident \union waiting
  <2>1. dag \in Workload /\ dag[n].tb \in TB /\ SmOf[dag[n].tb] \in SM
    BY NodeFacts DEF Init
  <2>2. dag[n].tb \in TBsOn(SmOf[dag[n].tb])
    BY <2>1 DEF TBsOn, NodesOf
  <2> QED BY <1>2a, <2>1, <2>2
<1>7. ASSUME NEW t \in TB, NEW u \in TB, t \in waiting, u \in resident,
             SmOf[t] = SmOf[u]
      PROVE  u < t
  <2>1. PICK s \in SM : t \in TBsOn(s)
    BY <1>2a, <1>7
  <2>2. SmOf[t] = s /\ t \notin resident
    BY <1>2a, <1>7, <2>1 DEF TBsOn
  <2>3. t \in TBsOn(s) \ ResidentOn(s) /\ u \in ResidentOn(s)
    BY <1>7, <2>1, <2>2 DEF ResidentOn
  <2> QED BY <1>1, <1>3, <2>3, LowestFirst
<1> QED BY <1>2a, <1>4, <1>5, <1>6, <1>7 DEF BlockLifecycle
-----------------------------------------------------------------------------
(* The theorems                                                            *)

\* The state of the machine is well typed for every graph and configuration.
THEOREM TypeCorrect == Spec => []TypeOK
<1>1. IInv => TypeOK
  BY DEF IInv, NodeInv
<1> QED BY <1>1, Invariance, PTL

\* remaining_deps, which complete_node and resolve_issue_dependencies decrement
\* one dependency at a time, is always the number of dependencies outstanding.
THEOREM CountersExact == Spec => []DependencyCounter
<1>1. IInv => DependencyCounter
  BY DEF IInv, NodeInv
<1> QED BY <1>1, Invariance, PTL

\* enqueue_ready neither loses nor doubles a node: one ready-queue entry exactly
\* while a node may still issue.
THEOREM ReadyExactlyOnce == Spec => []ReadyOnce
<1>1. IInv => ReadyOnce
  BY DEF IInv, NodeInv
<1> QED BY <1>1, Invariance, PTL

\* Nothing is issued before what it depends on, whatever the latencies.
THEOREM OrderRespected == Spec => []DependencyOrder
<1>1. IInv => DependencyOrder
  <2> SUFFICES ASSUME IInv, NEW n \in Node, next[n] > 0
               PROVE  dag[n].deps \subseteq finished /\ dag[n].issueDeps \subseteq issued
    BY DEF DependencyOrder
  <2>1. NodeInv /\ remaining[n] = 0
    BY DEF IInv, NodeInv, Progress
  <2> QED BY <2>1, ZeroMeansMet
<1> QED BY <1>1, Invariance, PTL

\* pending_transactions always equals the answers still to come.
THEOREM BalanceKept == Spec => []TransactionsBalance
<1>1. IInv => TransactionsBalance
  BY DEF IInv, NodeInv, Progress, TransactionsBalance
<1> QED BY <1>1, Invariance, PTL

\* completed_node_count and tb_remaining_count always agree with the nodes: the
\* run ends, and a block retires, exactly when its last node finishes.
THEOREM AccountingExact == Spec => []Accounting
<1>1. IInv => Accounting
  BY DEF IInv
<1> QED BY <1>1, Invariance, PTL

\* Blocks are waiting, resident and retired in the order of their ids, never more
\* than max_resident_tbs at once, and work is done only while resident.
THEOREM BlocksInOrder == Spec => []BlockLifecycle
<1>1. Init => BlockLifecycle
  BY InitBlocks
<1>2. IInv /\ BlockLifecycle /\ [Next]_vars => BlockLifecycle'
  <2> SUFFICES ASSUME IInv, BlockLifecycle, [Next]_vars PROVE BlockLifecycle'
    OBVIOUS
  <2>1. ASSUME NEW n \in Node, NodeStep(n) PROVE BlockLifecycle'
    BY <2>1, NodeStepKeepsBlocks
  <2>2. ASSUME NEW s \in SM, SmStep(s) PROVE BlockLifecycle'
    BY <2>2, SmStepKeepsBlocks DEF SmStep
  <2>3. CASE UNCHANGED vars
    BY <2>3 DEF vars, nodeVars, doneVars, tbVars, BlockLifecycle, ResidentOn
  <2> QED BY <2>1, <2>2, <2>3 DEF Next
<1> QED BY <1>1, <1>2, Invariance, PTL DEF Spec
-----------------------------------------------------------------------------
(* Refinement of TileGraph                                                 *)

\* A node step starts, issues in full or finishes its node, or is invisible.
LEMMA NodeStepImplements ==
    ASSUME IInv, NEW n \in Node, NodeStep(n)
    PROVE  [Graph!GNext]_Graph!gvars
<1> DEFINE started == {m \in Node : next[m] > 0}
<1>0. /\ NodeInv /\ dag \in Workload /\ TypeOK /\ ReadyOnce /\ Progress(n)
      /\ next[n] \in Nat /\ Subops(n) \in Nat \ {0}
  BY NodeFacts DEF IInv, NodeInv, TypeOK
<1>1. dag' = dag
  BY DEF NodeStep, IssueSubop, IssueTma, IssueBarrier, RetireCompute, RetireMemory,
         MemoryAnswer, BarrierExpires
<1>2. Graph!Fixed
  BY <1>1 DEF Graph!Fixed
<1>3. ASSUME Issuable(n), next'[n] \in Nat, next'[n] > next[n], next' = [next EXCEPT ![n] = next'[n]],
             issued' = issued \/ issued' = issued \union {n}, finished' = finished
      PROVE  [Graph!GNext]_Graph!gvars
  <2>1. remaining[n] = 0 /\ n \notin issued
    BY <1>0, <1>3 DEF Issuable, ReadyOnce, TypeOK
  <2>2. dag[n].deps \subseteq finished /\ dag[n].issueDeps \subseteq issued
    BY <1>0, <2>1, ZeroMeansMet
  <2>3. started' = started \union {n}
    <3>1. \A m \in Node : m # n => next'[m] = next[m]
      BY <1>0, <1>3 DEF TypeOK
    <3>2. next'[n] > 0
      BY <1>0, <1>3
    <3> QED BY <3>1, <3>2
  <2>4. CASE n \notin started
    <3>1. Graph!Start(n)
      BY <1>2, <1>3, <2>2, <2>3, <2>4 DEF Graph!Start
    <3> QED BY <3>1 DEF Graph!GNext
  <2>5. CASE n \in started /\ issued' = issued \union {n}
    <3>1. Graph!IssueLast(n)
      BY <1>2, <1>3, <2>1, <2>3, <2>5 DEF Graph!IssueLast
    <3> QED BY <3>1 DEF Graph!GNext
  <2>6. CASE n \in started /\ issued' = issued
    BY <1>2, <1>3, <2>3, <2>6 DEF Graph!gvars, Graph!Fixed
  <2> QED BY <1>3, <2>4, <2>5, <2>6
<1>4. ASSUME n \in issued \/ finished' = finished, next' = next, issued' = issued,
             finished' = finished \/ finished' = finished \union {n}
      PROVE  [Graph!GNext]_Graph!gvars
  <2>1. started' = started
    BY <1>4
  <2>2. CASE finished' = finished
    BY <1>2, <1>4, <2>1, <2>2 DEF Graph!gvars, Graph!Fixed
  <2>3. CASE finished' # finished
    <3>1. Graph!Finish(n)
      BY <1>2, <1>4, <2>1, <2>3 DEF Graph!Finish
    <3> QED BY <3>1 DEF Graph!GNext
  <2> QED BY <2>2, <2>3
<1>5. CASE IssueSubop(n)
  <2>1. Issuable(n) /\ next' = [next EXCEPT ![n] = @ + 1] /\ finished' = finished
    BY <1>5 DEF IssueSubop, doneVars
  <2>2. issued' = issued \/ issued' = issued \union {n}
    BY <1>5 DEF IssueSubop, IssueLast
  <2>3. next'[n] = next[n] + 1 /\ next' = [next EXCEPT ![n] = next'[n]]
    BY <1>0, <2>1 DEF TypeOK
  <2>4. next'[n] > next[n] /\ next'[n] \in Nat
    BY <1>0, <2>3
  <2> QED BY <1>3, <2>1, <2>2, <2>3, <2>4
<1>6. CASE IssueTma(n) \/ IssueBarrier(n)
  <2>1. Issuable(n) /\ next' = [next EXCEPT ![n] = Subops(n)] /\ finished' = finished
    BY <1>6 DEF IssueTma, IssueBarrier, doneVars
  <2>2. issued' = issued \/ issued' = issued \union {n}
    BY <1>6 DEF IssueTma, IssueBarrier, IssueLast
  <2>3. next'[n] = Subops(n) /\ next[n] < Subops(n)
    BY <1>0, <2>1 DEF TypeOK, Issuable
  <2> QED BY <1>0, <1>3, <2>1, <2>2, <2>3
<1>7. CASE RetireCompute(n) \/ MemoryAnswer(n)
  <2>1. UNCHANGED <<next, issued>>
    BY <1>7 DEF RetireCompute, MemoryAnswer
  <2>2. finished' = finished \/ finished' = finished \union {n}
    BY <1>7 DEF RetireCompute, MemoryAnswer, CompleteNode, doneVars
  <2>3. IInv'
    BY <1>7, RetireComputeKeeps, MemoryAnswerKeeps
  <2>4. finished' # finished => n \in issued
    BY <2>1, <2>2, <2>3 DEF IInv, NodeInv, Progress
  <2> QED BY <1>4, <2>1, <2>2, <2>4
<1>8. CASE RetireMemory(n)
  <2>1. UNCHANGED <<next, issued, finished>>
    BY <1>8 DEF RetireMemory, doneVars
  <2> QED BY <1>4, <2>1
<1>9. CASE BarrierExpires(n)
  <2>1. UNCHANGED <<next, issued>> /\ n \in issued
    BY <1>0, <1>9 DEF BarrierExpires, Progress
  <2>2. finished' = finished \/ finished' = finished \union {n}
    BY <1>9 DEF BarrierExpires, CompleteNode
  <2> QED BY <1>4, <2>1, <2>2
<1> QED BY <1>5, <1>6, <1>7, <1>8, <1>9 DEF NodeStep

\* The event-driven machine implements the abstract execution of the graph: every
\* step of a handler is a start, a full issue, a completion or a stutter.
THEOREM Refinement == Spec => ImplementsTileGraph
<1>1. Init => Graph!GInit
  BY DEF Init, Graph!GInit
<1>2. IInv /\ [Next]_vars => [Graph!GNext]_Graph!gvars
  <2> SUFFICES ASSUME IInv, [Next]_vars PROVE [Graph!GNext]_Graph!gvars
    OBVIOUS
  <2>1. ASSUME NEW n \in Node, NodeStep(n) PROVE [Graph!GNext]_Graph!gvars
    BY <2>1, NodeStepImplements
  <2>2. ASSUME NEW s \in SM, SmStep(s) PROVE [Graph!GNext]_Graph!gvars
    BY <2>2 DEF SmStep, RetireAndDispatch, nodeVars, doneVars, Graph!gvars
  <2>3. CASE UNCHANGED vars
    BY <2>3 DEF vars, nodeVars, doneVars, Graph!gvars
  <2> QED BY <2>1, <2>2, <2>3 DEF Next
<1> QED BY <1>1, <1>2, Invariance, PTL DEF Spec, ImplementsTileGraph, Graph!GSpec
=============================================================================
