--------------------------- MODULE TmemPair_proofs ---------------------------
(***************************************************************************)
(* Proofs about TmemPair, for every number of MMAs, latency, interval and   *)
(* allocation: no MMA completes without its peer and no release token is    *)
(* lost or left over, whatever takes the issue slots; and no grant lapses   *)
(* when nothing takes them and an MMA frees its pipeline no later than one  *)
(* cycle after the issue interval.                                          *)
(***************************************************************************)
EXTENDS TmemPair, TLAPS

\* Where an MMA is: in its pipeline, deferred or finished, and in one of them only,
\* from its issue on.
Executing(n) == \E e \in executing : e[1] = n[1] /\ e[2] = n[2]
OneRunOfEach ==
    \A e, f \in executing : e[1] = f[1] /\ e[2] = f[2] => e = f
Whereabouts ==
    \A n \in Node :
        /\ n[2] <= issued[n[1]] <=> Executing(n) \/ n \in deferred \/ n \in finished
        /\ ~(Executing(n) /\ n \in deferred \union finished)
        /\ ~(n \in deferred /\ n \in finished)

\* A CTA that pair_pending remembers is one whose MMA waits without a token; one that
\* waits with a token waits for its turn only.
ArrivedWaits ==
    \A m \in Mma :
        /\ arrived[m] # CTA
        /\ \A c \in arrived[m] : <<c, m>> \in deferred /\ tokens[<<c, m>>] = 0
TokenMeansPeerDone ==
    \A n \in deferred : tokens[n] = 1 => Peer(n) \in finished

IInv ==
    /\ OneRunOfEach /\ Whereabouts /\ ArrivedWaits /\ TokenMeansPeerDone
    /\ TokensMatch /\ CompleteTogether

\* The CTA asked in this cycle and may still issue the MMA in the next one.
StandsBy(c, m, k) ==
    /\ allocs[c] = NumAlloc
    /\ issued[c] < NumMma /\ m = issued[c] + 1
    /\ allocEnd[c] + readyAfter[<<c, m>>] <= k
    /\ nextIssue[c] <= k
    /\ columns[c] > 0 /\ MmaCols <= columns[c]

\* An MMA keeps its pipeline at most one cycle longer than its warp has to wait; a sub-op
\* of the allocation has let go of it when the allocation completes.
PipeFollows == \A c \in CTA : pipeFree[c] <= nextIssue[c] + 1 \/ pipeFree[c] <= allocEnd[c]

\* A question of this cycle is one CTA 0 asked before CTA 1 has its turn.
AskedInTurn ==
    \A m \in Mma :
        \/ asked[m].cycle < cycle
        \/ turn = 1 /\ asked[m].ctas = {0} /\ asked[m].cycle = cycle /\ StandsBy(0, m, cycle)

\* A grant is for this cycle, in which the CTA has not had its turn, and can be used.
GrantHolds ==
    \A n \in Node : grant[n] # NoGrant =>
        /\ grant[n] = cycle /\ turn <= n[1]
        /\ StandsBy(n[1], n[2], cycle) /\ pipeFree[n[1]] <= cycle

GrantInv == ~contended => PipeFollows /\ AskedInTurn /\ GrantHolds
-----------------------------------------------------------------------------
\* The peer of an MMA is the MMA of the same number of the other CTA.
LEMMA Peers ==
    ASSUME NEW n \in Node
    PROVE  /\ Peer(n) \in Node /\ Peer(n) # n /\ Peer(Peer(n)) = n
           /\ Peer(n)[1] = 1 - n[1] /\ Peer(n)[2] = n[2]
           /\ n[1] \in CTA /\ n[2] \in Mma /\ n = <<n[1], n[2]>>
           /\ \A k \in Node : k[2] = n[2] => k = n \/ k = Peer(n)
BY DEF Node, CTA, Mma, Peer

\* At the start nothing is issued and no table has an entry.
LEMMA InitIInv == Init => IInv /\ GrantInv
<1> SUFFICES ASSUME Init PROVE IInv /\ GrantInv
  OBVIOUS
<1>1. TypeOK
  BY PairAssumption DEF Init, TypeOK, CTA, Node, Mma, Nobody, NoGrant
<1>2. OneRunOfEach /\ Whereabouts /\ ArrivedWaits /\ TokenMeansPeerDone
  BY PairAssumption DEF Init, OneRunOfEach, Whereabouts, Executing, ArrivedWaits,
     TokenMeansPeerDone, Node, CTA, Mma
<1>3. TokensMatch /\ CompleteTogether
  BY <1>1 DEF Init, TokensMatch, CompleteTogether
<1>4. GrantInv
  BY DEF Init, GrantInv, PipeFollows, AskedInTurn, GrantHolds, Nobody
<1> QED BY <1>1, <1>2, <1>3, <1>4 DEF IInv

\* Two tokens that are handed out together.
LEMMA TwoTokens ==
    ASSUME NEW f \in [Node -> 0..1], NEW a \in Node, NEW b \in Node, a # b,
           f[a] = 0, f[b] = 0, NEW g, g = [f EXCEPT ![a] = @ + 1, ![b] = @ + 1]
    PROVE  /\ g \in [Node -> 0..1] /\ g[a] = 1 /\ g[b] = 1
           /\ \A k \in Node : k # a /\ k # b => g[k] = f[k]
OBVIOUS

\* The deferred completions of a CTA whose peers have arrived.
LEMMA ReleaseKeeps ==
    ASSUME IInv, Release PROVE IInv'
<1> DEFINE released == {n \in Of(turn, deferred) : tokens[n] > 0}
<1>1. /\ finished' = finished \union released /\ deferred' = deferred \ released
      /\ tokens' = [n \in Node |-> IF n \in released THEN tokens[n] - 1 ELSE tokens[n]]
      /\ stage' = "retire"
      /\ UNCHANGED <<contended, cycle, turn, readyAfter, allocs, allocEnd, columns, issued, nextIssue,
                     pipeFree, executing, asked, grant, arrived>>
  BY DEF Release
<1>2. TypeOK
  BY DEF IInv, TokensMatch
<1>3. /\ released \subseteq deferred
      /\ \A n \in released : n \in Node /\ tokens[n] = 1 /\ tokens'[n] = 0
      /\ \A n \in Node : n \notin released => tokens'[n] = tokens[n]
  BY <1>1, <1>2 DEF TypeOK, Of
<1> HIDE DEF released
<1>4. TypeOK'
  <2>1. tokens' \in [Node -> 0..1]
    <3>1. \A n \in Node : (IF n \in released THEN tokens[n] - 1 ELSE tokens[n]) \in 0..1
      BY <1>2, <1>3 DEF TypeOK
    <3> QED BY <3>1, <1>1
  <2> QED BY <1>1, <1>2, <1>3, <2>1 DEF TypeOK
<1>5. OneRunOfEach'
  BY <1>1 DEF IInv, OneRunOfEach
<1>6. Whereabouts'
  BY <1>1, <1>3 DEF IInv, Whereabouts, Executing
<1>7. ArrivedWaits'
  <2> SUFFICES ASSUME NEW m \in Mma
               PROVE  /\ arrived[m] # CTA
                      /\ \A c \in arrived[m] : <<c, m>> \in deferred' /\ tokens'[<<c, m>>] = 0
    BY <1>1 DEF ArrivedWaits
  <2>1. \A c \in arrived[m] : c \in CTA /\ <<c, m>> \in Node
    BY <1>2 DEF TypeOK, Node
  <2> QED BY <1>1, <1>3, <2>1 DEF IInv, ArrivedWaits
<1>8. TokenMeansPeerDone'
  BY <1>1, <1>3, <1>2 DEF IInv, TokenMeansPeerDone, TypeOK
<1>9. TokensMatch'
  BY <1>1, <1>3, <1>4 DEF IInv, TokensMatch
<1>10. CompleteTogether'
  <2> SUFFICES ASSUME NEW n \in finished'
               PROVE  \/ Peer(n) \in finished'
                      \/ Peer(n) \in deferred' /\ tokens'[Peer(n)] = 1
    BY DEF CompleteTogether
  <2>1. CASE n \in finished
    BY <2>1, <1>1, <1>3, <1>2, Peers DEF IInv, CompleteTogether, TypeOK
  <2>2. CASE n \in released
    BY <2>2, <1>1, <1>3 DEF IInv, TokenMeansPeerDone
  <2> QED BY <2>1, <2>2, <1>1
<1> QED BY <1>4, <1>5, <1>6, <1>7, <1>8, <1>9, <1>10 DEF IInv

\* on_mma_completion_arrival: the first MMA of a pair is deferred, the second completes
\* and leaves a token for the first.
LEMMA RetireKeeps ==
    ASSUME IInv, Retire PROVE IInv'
<1>1. PICK e \in Due :
        LET n == <<e[1], e[2]>>
            free == Handed(n)[n] > 0
        IN  /\ executing' = executing \ {e}
            /\ arrived' = [arrived EXCEPT ![n[2]] = IF Met(n[2]) THEN {} ELSE @ \union {turn}]
            /\ tokens' = IF free THEN [Handed(n) EXCEPT ![n] = @ - 1] ELSE Handed(n)
            /\ finished' = finished \union (IF free THEN {n} ELSE {})
            /\ deferred' = deferred \union (IF free THEN {} ELSE {n})
  BY DEF Retire
<1> DEFINE n == <<e[1], e[2]>>
           p == Peer(n)
           m == e[2]
<1>2. UNCHANGED <<contended, cycle, turn, stage, readyAfter, allocs, allocEnd, columns, issued, nextIssue,
                  pipeFree, asked, grant>>
  BY DEF Retire
<1>3. TypeOK
  BY DEF IInv, TokensMatch
<1>4. e \in executing /\ n \in Node /\ n[1] = turn /\ n[2] = m /\ m \in Mma /\ turn \in CTA
      /\ e[1] = turn
  BY <1>3 DEF Due, TypeOK, Node
<1>5. p \in Node /\ p # n /\ p[1] = 1 - turn /\ p[2] = m /\ Peer(p) = n /\ p = <<1 - turn, m>>
  BY <1>4, Peers DEF Peer
<1>6. Executing(n) /\ n \notin deferred /\ n \notin finished
  BY <1>4 DEF Executing, IInv, Whereabouts
<1>7. tokens[n] = 0 /\ tokens[p] \in 0..1
  BY <1>3, <1>4, <1>5, <1>6 DEF IInv, TokensMatch, TypeOK
<1>8. turn \notin arrived[m] /\ arrived[m] \subseteq {1 - turn} /\ 1 - turn # turn
  <2>1. turn \notin arrived[m]
    BY <1>4, <1>6 DEF IInv, ArrivedWaits
  <2> QED BY <2>1, <1>3, <1>4 DEF TypeOK, CTA
<1>9. \A k \in Node : k # n => (Executing(k)' <=> Executing(k))
  BY <1>1, <1>4 DEF Executing, Node
<1>10. ~Executing(n)'
  BY <1>1, <1>4 DEF Executing, IInv, OneRunOfEach
<1>11. OneRunOfEach'
  BY <1>1 DEF IInv, OneRunOfEach
<1>12. CASE arrived[m] = {1 - turn}
  <2>1. Met(m)
    BY <1>12, <1>4 DEF Met, CTA
  <2>2. p \in deferred /\ tokens[p] = 0
    BY <1>12, <1>4, <1>5 DEF IInv, ArrivedWaits
  <2>3. Handed(n) = [tokens EXCEPT ![n] = @ + 1, ![p] = @ + 1]
    BY <2>1 DEF Handed
  <2>4. Handed(n)[n] = 1 /\ Handed(n)[p] = 1 /\ Handed(n) \in [Node -> 0..1]
        /\ \A k \in Node : k # n /\ k # p => Handed(n)[k] = tokens[k]
    <3>1. tokens \in [Node -> 0..1]
      BY <1>3 DEF TypeOK
    <3> HIDE DEF n, p
    <3> QED BY <3>1, <2>2, <2>3, <1>4, <1>5, <1>7, TwoTokens
  <2>5. /\ tokens' = [Handed(n) EXCEPT ![n] = @ - 1]
        /\ finished' = finished \union {n} /\ deferred' = deferred
        /\ arrived' = [arrived EXCEPT ![m] = {}]
        /\ executing' = executing \ {e}
    BY <1>1, <2>1, <2>4
  <2>6. /\ tokens' \in [Node -> 0..1] /\ tokens'[n] = 0 /\ tokens'[p] = 1
        /\ \A k \in Node : k # n /\ k # p => tokens'[k] = tokens[k]
    BY <2>4, <2>5, <1>4, <1>5
  <2>7. /\ arrived' \in [Mma -> SUBSET CTA] /\ arrived'[m] = {}
        /\ \A k \in Mma : k # m => arrived'[k] = arrived[k]
    BY <2>5, <1>3, <1>4 DEF TypeOK
  <2>8. TypeOK'
    BY <2>5, <2>6, <2>7, <1>2, <1>3, <1>4 DEF TypeOK
  <2>9. Whereabouts'
    BY <2>5, <1>2, <1>4, <1>6, <1>9, <1>10 DEF IInv, Whereabouts
  <2>10. ArrivedWaits'
    <3> SUFFICES ASSUME NEW k \in Mma
                 PROVE  /\ arrived'[k] # CTA
                        /\ \A c \in arrived'[k] : <<c, k>> \in deferred' /\ tokens'[<<c, k>>] = 0
      BY DEF ArrivedWaits
    <3>1. CASE k = m
      BY <3>1, <2>7 DEF CTA
    <3>2. CASE k # m
      <4>1. \A c \in arrived[k] : <<c, k>> \in Node /\ <<c, k>> # n /\ <<c, k>> # p
        BY <3>2, <1>3, <1>4, <1>5 DEF TypeOK, Node
      <4> QED BY <3>2, <4>1, <2>5, <2>6, <2>7 DEF IInv, ArrivedWaits
    <3> QED BY <3>1, <3>2
  <2>11. TokenMeansPeerDone'
    BY <2>5, <2>6, <1>3, <1>5, <1>6, <2>2 DEF IInv, TokenMeansPeerDone, TypeOK
  <2>12. TokensMatch'
    <3>1. \A k \in Node : k[2] = m => k = n \/ k = p
      BY <1>4, Peers
    <3> QED BY <3>1, <2>2, <2>5, <2>6, <2>7, <2>8, <1>4, <1>5, <1>6, Peers DEF IInv, TokensMatch
  <2>13. CompleteTogether'
    <3> SUFFICES ASSUME NEW k \in finished'
                 PROVE  \/ Peer(k) \in finished'
                        \/ Peer(k) \in deferred' /\ tokens'[Peer(k)] = 1
      BY DEF CompleteTogether
    <3>1. CASE k = n
      BY <3>1, <2>2, <2>5, <2>6
    <3>2. CASE k \in finished
      <4>1. k \in Node /\ Peer(k) \in Node
        BY <3>2, <1>3, Peers DEF TypeOK
      <4>2. Peer(k) # n
        BY <3>2, <4>1, <1>6, Peers DEF IInv, CompleteTogether
      <4> QED BY <3>2, <4>1, <4>2, <2>5, <2>6 DEF IInv, CompleteTogether
    <3> QED BY <3>1, <3>2, <2>5
  <2> QED BY <1>11, <2>9, <2>10, <2>11, <2>12, <2>13 DEF IInv
<1>13. CASE arrived[m] = {}
  <2>1. ~Met(m)
    BY <1>13, <1>4, <1>8 DEF Met, CTA
  <2>2. Handed(n) = tokens
    BY <2>1 DEF Handed
  <2>3. /\ tokens' = tokens /\ finished' = finished /\ deferred' = deferred \union {n}
        /\ arrived' = [arrived EXCEPT ![m] = {turn}]
        /\ executing' = executing \ {e}
    <3>1. ~(Handed(n)[n] > 0)
      BY <2>2, <1>7
    <3>2. arrived[m] \union {turn} = {turn}
      BY <1>13
    <3> QED BY <1>1, <2>1, <2>2, <3>1, <3>2
  <2>4. /\ arrived' \in [Mma -> SUBSET CTA] /\ arrived'[m] = {turn}
        /\ \A k \in Mma : k # m => arrived'[k] = arrived[k]
    BY <2>3, <1>3, <1>4 DEF TypeOK
  <2>5. TypeOK'
    BY <2>3, <2>4, <1>2, <1>3, <1>4 DEF TypeOK
  <2>6. Whereabouts'
    BY <2>3, <1>2, <1>4, <1>6, <1>9, <1>10 DEF IInv, Whereabouts
  <2>7. ArrivedWaits'
    BY <2>3, <2>4, <1>4, <1>7, <1>8 DEF IInv, ArrivedWaits, CTA
  <2>8. TokenMeansPeerDone'
    BY <2>3, <1>7 DEF IInv, TokenMeansPeerDone
  <2>9. TokensMatch'
    <3>1. p \notin deferred \/ tokens[p] # 0
      BY <1>5, <1>13 DEF IInv, TokensMatch
    <3>2. \A k \in Node : k[2] = m => k = n \/ k = p
      BY <1>4, Peers
    <3> QED BY <3>1, <3>2, <2>3, <2>4, <2>5, <1>4, <1>5, <1>7, Peers DEF IInv, TokensMatch
  <2>10. CompleteTogether'
    BY <2>3 DEF IInv, CompleteTogether
  <2> QED BY <1>11, <2>6, <2>7, <2>8, <2>9, <2>10 DEF IInv
<1> QED BY <1>8, <1>12, <1>13

\* An MMA that is issued enters its pipeline; allocations and the handshake leave what
\* has been issued alone.
LEMMA ScheduleKeeps ==
    ASSUME IInv, Schedule PROVE IInv'
<1>1. /\ stage' = "deferred" /\ turn' = 1 - turn /\ cycle' = cycle + turn /\ cycle < LastCycle
      /\ UNCHANGED <<contended, readyAfter, arrived, tokens, deferred, finished>>
  BY DEF Schedule
<1>2. TypeOK
  BY DEF IInv, TokensMatch
<1>3. turn' \in CTA /\ cycle' \in 1..LastCycle
  BY <1>1, <1>2, PairAssumption DEF TypeOK, CTA
<1>4. CASE Issue
  <2> DEFINE n == Candidate
             e == <<n[1], n[2], cycle + Span + Latency>>
  <2>1. /\ issued' = [issued EXCEPT ![turn] = @ + 1]
        /\ nextIssue' = SpacedFrom
        /\ pipeFree' = [pipeFree EXCEPT ![turn] = cycle + Span]
        /\ executing' = executing \union {e}
        /\ grant' = [grant EXCEPT ![n] = NoGrant]
        /\ UNCHANGED <<allocs, allocEnd, columns, asked>>
    BY <1>4 DEF Issue
  <2>2. /\ n \in Node /\ n[1] = turn /\ n[2] = issued[turn] + 1 /\ issued[turn] < NumMma
        /\ turn \in CTA
    <3>1. turn \in CTA /\ issued[turn] \in 0..NumMma /\ issued[turn] < NumMma
      BY <1>2, <1>4 DEF Issue, MayAsk, TypeOK
    <3>2. issued[turn] + 1 \in Mma
      BY <3>1, PairAssumption DEF Mma
    <3> QED BY <3>1, <3>2 DEF Candidate, Node
  <2>3. TypeOK'
    <3>1. nextIssue' \in [CTA -> Nat]
      BY <2>1, <2>2, <1>2, PairAssumption DEF TypeOK, SpacedFrom, LaterOf
    <3>2. issued' \in [CTA -> 0..NumMma] /\ pipeFree' \in [CTA -> Nat]
      BY <2>1, <2>2, <1>2, PairAssumption DEF TypeOK
    <3>3. e \in CTA \X Mma \X Nat
      BY <2>2, <1>2, PairAssumption DEF TypeOK, Node
    <3>4. grant' \in [Node -> Nat]
      BY <2>1, <1>2 DEF TypeOK, NoGrant
    <3> QED BY <3>1, <3>2, <3>3, <3>4, <2>1, <1>1, <1>2, <1>3 DEF TypeOK
  <2>4. ~Executing(n) /\ n \notin deferred /\ n \notin finished
    BY <2>2, <1>2 DEF IInv, Whereabouts, TypeOK, CTA
  <2>5. OneRunOfEach'
    BY <2>1, <2>4 DEF IInv, OneRunOfEach, Executing
  <2>6. Whereabouts'
    <3> SUFFICES ASSUME NEW k \in Node
                 PROVE  /\ k[2] <= issued'[k[1]] <=> Executing(k)' \/ k \in deferred \/ k \in finished
                        /\ ~(Executing(k)' /\ k \in deferred \union finished)
                        /\ ~(k \in deferred /\ k \in finished)
      BY <1>1 DEF Whereabouts
    <3>1. CASE k = n
      <4>1. issued'[n[1]] = issued[turn] + 1 /\ issued[turn] \in Int
        BY <2>1, <2>2, <1>2 DEF TypeOK
      <4>2. n[2] <= issued'[n[1]]
        BY <4>1, <2>2
      <4>3. Executing(k)'
        <5>1. e \in executing' /\ e[1] = k[1] /\ e[2] = k[2]
          BY <3>1, <2>1
        <5> QED BY <5>1 DEF Executing
      <4> QED BY <3>1, <2>4, <4>2, <4>3
    <3>2. CASE k # n
      <4>1. k[1] \in CTA /\ k[2] \in Mma /\ ~(k[1] = n[1] /\ k[2] = n[2])
        BY <3>2, <2>2 DEF Node
      <4>2. Executing(k)' <=> Executing(k)
        BY <4>1, <2>1 DEF Executing
      <4>3. k[2] <= issued'[k[1]] <=> k[2] <= issued[k[1]]
        <5>1. k[1] # turn => issued'[k[1]] = issued[k[1]]
          BY <4>1, <2>1, <1>2 DEF TypeOK
        <5>2. k[1] = turn => issued'[k[1]] = issued[turn] + 1 /\ k[2] # issued[turn] + 1
          BY <4>1, <2>1, <2>2, <1>2 DEF TypeOK
        <5>3. k[2] \in Int /\ issued[turn] \in Int
          BY <4>1, <2>2, <1>2 DEF TypeOK, Mma
        <5> QED BY <5>1, <5>2, <5>3
      <4>4. /\ k[2] <= issued[k[1]] <=> Executing(k) \/ k \in deferred \/ k \in finished
            /\ ~(Executing(k) /\ k \in deferred \union finished)
            /\ ~(k \in deferred /\ k \in finished)
        BY DEF IInv, Whereabouts
      <4> HIDE DEF Executing
      <4>5. k[2] <= issued'[k[1]] <=> Executing(k)' \/ k \in deferred \/ k \in finished
        BY <4>2, <4>3, <4>4, Zenon
      <4>6. ~(Executing(k)' /\ k \in deferred \union finished)
        BY <4>2, <4>4, Zenon
      <4> QED BY <4>4, <4>5, <4>6, Zenon
    <3> QED BY <3>1, <3>2
  <2> QED BY <2>3, <2>5, <2>6, <1>1 DEF IInv, ArrivedWaits, TokenMeansPeerDone, TokensMatch,
         CompleteTogether
<1>5. CASE Alloc \/ Ask \/ NoIssue
  <2>1. UNCHANGED <<issued, executing>>
    BY <1>5 DEF Alloc, Ask, NoIssue
  <2>2. /\ allocs' \in [CTA -> 0..NumAlloc] /\ columns' \in [CTA -> 0..MaxCols]
        /\ nextIssue' \in [CTA -> Nat] /\ pipeFree' \in [CTA -> Nat] /\ allocEnd' \in [CTA -> Nat]
    <3>1. CASE Alloc
      <4>1. /\ allocs' \in [CTA -> 0..NumAlloc] /\ columns' \in [CTA -> 0..MaxCols]
            /\ nextIssue' \in [CTA -> Nat]
        BY <3>1, <1>2, PairAssumption DEF Alloc, MayAlloc, SpacedFrom, LaterOf, TypeOK
      <4>2. cycle + AllocSpan \in Nat /\ cycle + AllocSpan + Latency \in Nat
        BY <1>2, PairAssumption DEF TypeOK
      <4>3. pipeFree' \in [CTA -> Nat] /\ allocEnd' \in [CTA -> Nat]
        BY <3>1, <4>2, <1>2 DEF Alloc, TypeOK
      <4> QED BY <4>1, <4>3
    <3>2. CASE Ask \/ NoIssue
      BY <3>2, <1>2 DEF Ask, NoIssue, TypeOK
    <3> QED BY <3>1, <3>2, <1>5
  <2>3. /\ asked' \in [Mma -> [cycle : Nat, ctas : SUBSET CTA]]
        /\ grant' \in [Node -> Nat]
    <3>1. CASE Ask
      <4>1. Candidate \in Node /\ Candidate[2] \in Mma
        <5>1. turn \in CTA /\ issued[turn] \in 0..NumMma /\ issued[turn] < NumMma
          BY <3>1, <1>2 DEF Ask, MayAsk, TypeOK
        <5>2. issued[turn] + 1 \in Mma
          BY <5>1, PairAssumption DEF Mma
        <5> QED BY <5>1, <5>2 DEF Candidate, Node
      <4>2. Nobody \in [cycle : Nat, ctas : SUBSET CTA]
        BY DEF Nobody
      <4>3. [cycle |-> cycle, ctas |-> AskedNow] \in [cycle : Nat, ctas : SUBSET CTA]
        BY <4>1, <1>2 DEF AskedNow, TypeOK
      <4>4. Granted(Candidate) \in [Node -> Nat]
        <5>1. grant \in [Node -> Nat] /\ cycle + 1 \in Nat
          BY <1>2 DEF TypeOK
        <5> QED BY <5>1 DEF Granted, GrantCycle
      <4> QED BY <3>1, <4>2, <4>3, <4>4, <1>2 DEF Ask, TypeOK
    <3>2. CASE ~Ask
      BY <3>2, <1>5, <1>2 DEF Alloc, NoIssue, TypeOK
    <3> QED BY <3>1, <3>2
  <2>4. TypeOK'
    BY <2>1, <2>2, <2>3, <1>1, <1>2, <1>3 DEF TypeOK
  <2> QED BY <2>1, <2>4, <1>1 DEF IInv, OneRunOfEach, Whereabouts, Executing, ArrivedWaits,
         TokenMeansPeerDone, TokensMatch, CompleteTogether
<1> QED BY <1>4, <1>5 DEF Schedule

\* The variables that RetireDone and a stuttering step leave alone.
LEMMA IdleKeeps ==
    ASSUME IInv, TypeOK',
           UNCHANGED <<issued, executing, arrived, tokens, deferred, finished>>
    PROVE  IInv'
BY DEF IInv, OneRunOfEach, Whereabouts, Executing, ArrivedWaits, TokenMeansPeerDone,
       TokensMatch, CompleteTogether

LEMMA NextKeeps == IInv /\ [Next]_vars => IInv'
<1> SUFFICES ASSUME IInv, [Next]_vars PROVE IInv'
  OBVIOUS
<1>1. CASE RetireDone
  <2>1. TypeOK'
    BY <1>1 DEF RetireDone, IInv, TokensMatch, TypeOK
  <2> QED BY <1>1, <2>1, IdleKeeps DEF RetireDone
<1>2. CASE UNCHANGED vars
  <2>1. TypeOK'
    BY <1>2 DEF vars, IInv, TokensMatch, TypeOK
  <2> QED BY <1>2, <2>1, IdleKeeps DEF vars
<1> QED BY <1>1, <1>2, ReleaseKeeps, RetireKeeps, ScheduleKeeps DEF Next

LEMMA Invariance == Spec => []IInv
BY InitIInv, NextKeeps, PTL DEF Spec

\* A token in release_tokens belongs to a deferred MMA, and an MMA deferred without one
\* is on record in pair_pending: whatever takes the issue slots, none is left waiting
\* for a peer that has come and gone.
THEOREM TokensExact == Spec => []TokensMatch
<1>1. IInv => TokensMatch
  BY DEF IInv
<1> QED BY Invariance, <1>1, PTL

\* No MMA of a pair completes before its peer has left the pipeline of its own CTA, and
\* the peer that waits has its token.
THEOREM PairsComplete == Spec => []CompleteTogether
<1>1. IInv => CompleteTogether
  BY DEF IInv
<1> QED BY Invariance, <1>1, PTL
-----------------------------------------------------------------------------
(* Grants                                                                  *)

\* A step that touches neither the handshake nor what it depends on.
LEMMA NotIssuingKeepsGrants ==
    ASSUME GrantInv,
           UNCHANGED <<contended, cycle, turn, readyAfter, allocs, allocEnd, columns, issued, nextIssue,
                       pipeFree, asked, grant>>
    PROVE  GrantInv'
BY DEF GrantInv, PipeFollows, AskedInTurn, GrantHolds, StandsBy

\* schedule(): the question of CTA 0 is still good when CTA 1 asks, and a grant is used
\* in the next turn of each of them.
LEMMA ScheduleKeepsGrants ==
    ASSUME TypeOK, GrantInv, Schedule, Span <= LaterOf(1, Interval) + 1
    PROVE  GrantInv'
<1> SUFFICES ASSUME ~contended PROVE PipeFollows' /\ AskedInTurn' /\ GrantHolds'
  BY DEF GrantInv, Schedule
<1> USE PairAssumption
<1>1. /\ turn' = 1 - turn /\ cycle' = cycle + turn /\ readyAfter' = readyAfter
      /\ turn \in CTA /\ cycle \in Nat \ {0}
  BY DEF Schedule, TypeOK
<1>2. PipeFollows /\ AskedInTurn /\ GrantHolds
  BY DEF GrantInv
<1>3. LaterOf(1, Interval) \in Nat \ {0}
  BY DEF LaterOf
<1>4. SpacedFrom \in [CTA -> Nat] /\ SpacedFrom[turn] = cycle + LaterOf(1, Interval)
      /\ \A c \in CTA : c # turn => SpacedFrom[c] = nextIssue[c]
  BY <1>1, <1>3 DEF SpacedFrom, TypeOK
\* A question of the last turn of a cycle is an old one in the next cycle.
<1>5. ASSUME NEW m \in Mma, asked'[m] = asked[m],
             turn = 1 \/ asked[m].cycle < cycle
      PROVE  asked'[m].cycle < cycle'
  <2>1. asked[m].cycle \in Nat /\ asked[m].cycle <= cycle
    BY <1>1, <1>2 DEF AskedInTurn, TypeOK
  <2> QED BY <2>1, <1>1, <1>5 DEF CTA
<1>6. CASE Issue
  <2> DEFINE n == Candidate
  <2>1. /\ grant[n] = cycle /\ n = <<turn, issued[turn] + 1>> /\ grant[n] # NoGrant
    BY <1>6 DEF Issue, InTime, Candidate
  <2>2. /\ issued' = [issued EXCEPT ![turn] = @ + 1]
        /\ nextIssue' = SpacedFrom
        /\ pipeFree' = [pipeFree EXCEPT ![turn] = cycle + Span]
        /\ grant' = [grant EXCEPT ![n] = NoGrant]
        /\ UNCHANGED <<allocs, allocEnd, columns, asked>>
    BY <1>6 DEF Issue
  <2>3. PipeFollows'
    BY <2>2, <1>1, <1>2, <1>3, <1>4 DEF PipeFollows, TypeOK
  <2>4. AskedInTurn'
    BY <2>2, <1>1, <1>2, <1>5 DEF AskedInTurn, CTA
  <2>5. GrantHolds'
    <3> SUFFICES ASSUME NEW k \in Node, grant'[k] # NoGrant
                 PROVE  /\ grant'[k] = cycle' /\ turn' <= k[1]
                        /\ StandsBy(k[1], k[2], cycle)'  /\ pipeFree'[k[1]] <= cycle'
      BY DEF GrantHolds
    <3>1. k # n /\ grant'[k] = grant[k] /\ k[1] \in CTA /\ k = <<k[1], k[2]>>
      BY <2>2 DEF TypeOK, Node
    <3>2. grant[k] = cycle /\ turn <= k[1] /\ StandsBy(k[1], k[2], cycle) /\ pipeFree[k[1]] <= cycle
      BY <3>1, <1>2 DEF GrantHolds
    <3>3. k[1] # turn
      BY <3>1, <3>2, <2>1 DEF StandsBy
    <3>4. turn = 0 /\ k[1] = 1
      BY <3>1, <3>2, <3>3, <1>1 DEF CTA
    <3>5. /\ issued'[k[1]] = issued[k[1]] /\ nextIssue'[k[1]] = nextIssue[k[1]]
          /\ pipeFree'[k[1]] = pipeFree[k[1]]
      BY <2>2, <3>3, <3>1, <1>4 DEF TypeOK
    <3> QED BY <3>1, <3>2, <3>4, <3>5, <2>2, <1>1 DEF StandsBy
  <2> QED BY <2>3, <2>4, <2>5
<1>7. CASE Alloc
  <2>1. /\ allocs' = [allocs EXCEPT ![turn] = @ + 1]
        /\ columns' = [columns EXCEPT ![turn] = @ + AllocCols]
        /\ allocEnd' = [allocEnd EXCEPT ![turn] = cycle + AllocSpan + Latency]
        /\ pipeFree' = [pipeFree EXCEPT ![turn] = cycle + AllocSpan]
        /\ nextIssue' = SpacedFrom /\ nextIssue[turn] <= cycle /\ allocs[turn] < NumAlloc
        /\ UNCHANGED <<issued, asked, grant>>
    BY <1>7 DEF Alloc, MayAlloc
  <2>2. PipeFollows'
    BY <2>1, <1>1, <1>2, <1>3, <1>4 DEF PipeFollows, TypeOK
  <2>3. AskedInTurn'
    BY <2>1, <1>1, <1>2, <1>5 DEF AskedInTurn, CTA
  <2>4. GrantHolds'
    <3> SUFFICES ASSUME NEW k \in Node, grant'[k] # NoGrant
                 PROVE  /\ grant'[k] = cycle' /\ turn' <= k[1]
                        /\ StandsBy(k[1], k[2], cycle)'  /\ pipeFree'[k[1]] <= cycle'
      BY DEF GrantHolds
    <3>1. grant'[k] = grant[k] /\ k[1] \in CTA
      BY <2>1 DEF Node
    <3>2. grant[k] = cycle /\ turn <= k[1] /\ StandsBy(k[1], k[2], cycle) /\ pipeFree[k[1]] <= cycle
      BY <3>1, <1>2 DEF GrantHolds
    <3>3. k[1] # turn
      BY <3>1, <3>2, <2>1 DEF StandsBy
    <3>4. turn = 0 /\ k[1] = 1
      BY <3>1, <3>2, <3>3, <1>1 DEF CTA
    <3>5. /\ allocs'[k[1]] = allocs[k[1]] /\ columns'[k[1]] = columns[k[1]]
          /\ allocEnd'[k[1]] = allocEnd[k[1]] /\ pipeFree'[k[1]] = pipeFree[k[1]]
          /\ nextIssue'[k[1]] = nextIssue[k[1]]
      BY <2>1, <3>3, <3>1, <1>4 DEF TypeOK
    <3> QED BY <3>1, <3>2, <3>4, <3>5, <2>1, <1>1 DEF StandsBy
  <2> QED BY <2>2, <2>3, <2>4
\* A CTA that has a grant does not come to its turn without using it.
<1>8. CASE Ask \/ NoIssue
  <2>1. UNCHANGED <<allocs, allocEnd, columns, issued, nextIssue, pipeFree>>
    BY <1>8 DEF Ask, NoIssue
  <2>2. PipeFollows'
    BY <2>1, <1>2 DEF PipeFollows
  <2>3. \A k \in Node : grant[k] # NoGrant => turn = 0 /\ k[1] = 1
    <3> SUFFICES ASSUME NEW k \in Node, grant[k] # NoGrant PROVE turn = 0 /\ k[1] = 1
      OBVIOUS
    <3>1. /\ grant[k] = cycle /\ turn <= k[1] /\ StandsBy(k[1], k[2], cycle)
          /\ pipeFree[k[1]] <= cycle /\ k[1] \in CTA /\ k = <<k[1], k[2]>>
      BY <1>2 DEF GrantHolds, Node
    <3>2. ASSUME k[1] = turn PROVE FALSE
      <4>1. k = Candidate
        BY <3>1, <3>2 DEF Candidate, StandsBy
      <4>2. MayAsk
        BY <3>1, <3>2, <4>1 DEF MayAsk, Ready, StandsBy
      <4>3. InTime /\ ~MayAlloc
        BY <3>1, <3>2, <4>1 DEF InTime, StandsBy, MayAlloc, TypeOK
      <4> QED BY <4>1, <4>2, <4>3, <1>8 DEF Ask, NoIssue
    <3> QED BY <3>1, <3>2, <1>1 DEF CTA
  <2>4. CASE NoIssue
    <3>1. UNCHANGED <<asked, grant>>
      BY <2>4 DEF NoIssue
    <3>2. AskedInTurn'
      BY <3>1, <1>1, <1>2, <1>5 DEF AskedInTurn, CTA
    <3>3. GrantHolds'
      BY <3>1, <2>1, <2>3, <1>1, <1>2 DEF GrantHolds, StandsBy
    <3> QED BY <2>2, <3>2, <3>3
  <2>5. CASE Ask
    <3> DEFINE n == Candidate
               m == issued[turn] + 1
    <3>1. /\ MayAsk /\ grant[n] = NoGrant /\ n = <<turn, m>> /\ n[1] = turn /\ n[2] = m
      BY <2>5 DEF Ask, Candidate
    <3>2. m \in Mma /\ n \in Node /\ StandsBy(turn, m, cycle)
      <4>1. issued[turn] \in 0..NumMma /\ issued[turn] < NumMma
        BY <3>1, <1>1 DEF MayAsk, TypeOK
      <4>2. m \in Mma
        BY <4>1 DEF Mma
      <4>3. n \in Node
        BY <4>2, <3>1, <1>1 DEF Node
      <4> QED BY <4>2, <4>3, <3>1 DEF MayAsk, Ready, StandsBy
    <3>3. CASE AskedNow = CTA
      <4>1. grant' = Granted(n) /\ asked' = [asked EXCEPT ![m] = Nobody]
        BY <2>5, <3>1, <3>3 DEF Ask
      <4>2. /\ turn = 1 /\ StandsBy(0, m, cycle)
        <5>1. asked[m].cycle = cycle
          BY <3>1, <3>3, <1>1 DEF AskedNow, CTA
        <5>2. ~(asked[m].cycle < cycle)
          BY <5>1, <1>1
        <5> QED BY <5>2, <3>2, <1>2 DEF AskedInTurn
      <4>3. PICK p \in Node : p = <<0, m>> /\ p = Peer(n) /\ p # n
        <5>1. <<0, m>> \in Node
          BY <3>2 DEF Node, CTA
        <5>2. Peer(n) = <<0, m>> /\ <<0, m>> # n
          BY <3>1, <4>2 DEF Peer
        <5> QED BY <5>1, <5>2
      <4>4. /\ grant'[n] = cycle + 1 /\ grant'[p] = cycle + 1
            /\ \A k \in Node : k # n /\ k # p => grant'[k] = grant[k]
        BY <4>1, <4>3, <3>2 DEF Granted, GrantCycle, TypeOK
      <4>5. AskedInTurn'
        <5> SUFFICES ASSUME NEW k \in Mma PROVE asked'[k].cycle < cycle'
          BY DEF AskedInTurn
        <5>1. CASE k = m
          BY <5>1, <4>1, <3>2, <1>1 DEF Nobody, TypeOK, CTA
        <5>2. CASE k # m
          BY <5>2, <4>1, <4>2, <3>2, <1>5 DEF TypeOK
        <5> QED BY <5>1, <5>2
      <4>6. GrantHolds'
        <5> SUFFICES ASSUME NEW k \in Node, grant'[k] # NoGrant
                     PROVE  /\ grant'[k] = cycle' /\ turn' <= k[1]
                            /\ StandsBy(k[1], k[2], cycle)' /\ pipeFree'[k[1]] <= cycle'
          BY DEF GrantHolds
        <5>1. k = n \/ k = p
          BY <4>2, <4>4, <2>3
        <5>2. k[1] \in CTA /\ k[2] = m /\ StandsBy(k[1], m, cycle)
          BY <5>1, <4>2, <4>3, <3>1, <3>2 DEF CTA
        <5>3. cycle' = cycle + 1 /\ turn' = 0 /\ readyAfter[<<k[1], m>>] \in Nat \ {0}
              /\ allocEnd[k[1]] \in Nat
          <6>1. <<k[1], m>> \in Node
            BY <5>2, <3>2 DEF Node
          <6> QED BY <6>1, <5>2, <4>2, <1>1 DEF TypeOK
        <5>4. nextIssue[k[1]] \in Int
          BY <5>2 DEF TypeOK
        <5>5. pipeFree[k[1]] <= cycle + 1
          BY <5>2, <5>3, <5>4, <1>1, <1>2 DEF PipeFollows, StandsBy, TypeOK
        <5>6. StandsBy(k[1], k[2], cycle)'
          BY <5>2, <5>3, <5>4, <2>1, <1>1 DEF StandsBy
        <5>7. grant'[k] = cycle + 1 /\ pipeFree'[k[1]] = pipeFree[k[1]] /\ 0 <= k[1]
          BY <5>1, <5>2, <4>4, <2>1 DEF CTA
        <5> QED BY <5>3, <5>5, <5>6, <5>7
      <4> QED BY <2>2, <4>5, <4>6
    <3>4. CASE AskedNow # CTA
      <4>1. /\ grant' = grant
            /\ asked' = [asked EXCEPT ![m] = [cycle |-> cycle, ctas |-> AskedNow]]
        BY <2>5, <3>1, <3>4 DEF Ask
      <4>2. AskedInTurn'
        <5> SUFFICES ASSUME NEW k \in Mma
                     PROVE  \/ asked'[k].cycle < cycle'
                            \/ /\ turn' = 1 /\ asked'[k].ctas = {0} /\ asked'[k].cycle = cycle'
                               /\ StandsBy(0, k, cycle)'
          BY DEF AskedInTurn
        <5>1. CASE k # m
          BY <5>1, <4>1, <3>2, <1>1, <1>2, <1>5, <2>1 DEF TypeOK, AskedInTurn, CTA
        <5>2. CASE k = m /\ turn = 1
          BY <5>2, <4>1, <3>2, <1>1 DEF TypeOK
        <5>3. CASE k = m /\ turn = 0
          <6>1. AskedNow = {0}
            BY <5>3, <3>1, <3>2, <1>1, <1>2 DEF AskedNow, AskedInTurn, TypeOK
          <6> QED BY <5>3, <6>1, <4>1, <3>2, <2>1, <1>1 DEF TypeOK, StandsBy
        <5> QED BY <5>1, <5>2, <5>3, <1>1 DEF CTA
      <4>3. GrantHolds'
        BY <4>1, <2>1, <2>3, <1>1, <1>2 DEF GrantHolds, StandsBy
      <4> QED BY <2>2, <4>2, <4>3
    <3> QED BY <3>3, <3>4
  <2> QED BY <2>4, <2>5, <1>8
<1> QED BY <1>6, <1>7, <1>8 DEF Schedule

\* A grant is good for one cycle only (tmem.h:191); when an MMA keeps its pipeline at
\* most one cycle longer than its warp has to wait, and no other warp takes the slot,
\* it is always used in that cycle.
THEOREM NoGrantLapses ==
    ASSUME Span <= LaterOf(1, Interval) + 1
    PROVE  Spec => []GrantsUsed
<1>1. IInv /\ GrantInv /\ [Next]_vars => GrantInv'
  <2> SUFFICES ASSUME IInv, GrantInv, [Next]_vars PROVE GrantInv'
    OBVIOUS
  <2>1. CASE Schedule
    BY <2>1, ScheduleKeepsGrants DEF IInv, TokensMatch
  <2>2. CASE Release \/ Retire \/ RetireDone \/ UNCHANGED vars
    BY <2>2, NotIssuingKeepsGrants DEF Release, Retire, RetireDone, vars
  <2> QED BY <2>1, <2>2 DEF Next
<1>2. IInv /\ GrantInv => GrantsUsed
  BY DEF IInv, GrantInv, GrantHolds, GrantsUsed, TokensMatch, TypeOK
<1> QED BY InitIInv, Invariance, <1>1, <1>2, PTL DEF Spec
=============================================================================
