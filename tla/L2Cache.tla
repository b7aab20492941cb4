------------------------------- MODULE L2Cache -------------------------------
(***************************************************************************)
(* The shared L2: bounded read and write queues, an LRU cache of lines, one *)
(* MSHR entry per missing line, the DRAM request queue with its bandwidth   *)
(* credit, and the queue of answers.  One cycle of L2Cache::step runs       *)
(* through its phases; each turn of one of its loops is one action.         *)
(* Times are kept as the number of cycles left.  Answers due in one cycle   *)
(* are not ordered among themselves.                                        *)
(***************************************************************************)
EXTENDS Integers, Sequences, FiniteSets

CONSTANTS
    Key,            \* cache line keys
    QueueDepth,     \* l2_queue_depth
    TotalBudget,    \* l2_bandwidth_bytes_per_cycle / line_size_bytes
    WriteBudget,    \* l2_write_bandwidth_bytes_per_cycle / line_size_bytes
    CacheLines,     \* max_lines, or 0 when bypass_cache is set
    HitLatency,     \* hit_latency_cycles
    DramLatency,    \* latency_cycles of the DRAM
    LineSize,       \* bytes of a line
    Gain,           \* DRAM bytes per core cycle
    MaxCredit       \* bound: beyond it more credit makes no difference

ASSUME L2Assumption ==
    /\ QueueDepth \in Nat /\ TotalBudget \in Nat /\ WriteBudget \in Nat
    /\ CacheLines \in Nat /\ HitLatency \in Nat /\ DramLatency \in Nat
    /\ LineSize \in Nat \ {0} /\ Gain \in Nat /\ MaxCredit \in Nat

VARIABLES
    phase,          \* where L2Cache::step is; "open" between two calls
    left,           \* transactions the running loop may still take
    writeQ, readQ,  \* l2_queue_write, l2_queue_read
    lru,            \* keys of cache, most recently used first
    dirty,          \* keys of cache whose line is dirty
    mshr,           \* [key -> waiting transactions]; {} when there is no entry
    answers,        \* completion_queue
    dram,           \* DRAMModel::requests not yet looked at in this cycle
    remaining,      \* DRAMModel::requests kept for the next cycle
    filled,         \* lines the DRAM has delivered in this cycle
    credit,         \* budget_bytes
    accepted,       \* transactions taken into a queue so far
    answered        \* transactions whose answer was returned to the GPU

vars == <<phase, left, writeQ, readQ, lru, dirty, mshr, answers, dram,
          remaining, filled, credit, accepted, answered>>

\* Transactions are numbered as they are accepted.
Transaction == [tx : Nat \ {0}, key : Key, write : BOOLEAN]
Request == [key : Key, wait : Nat, writeback : BOOLEAN]
Elems(s) == {s[i] : i \in DOMAIN s}
-----------------------------------------------------------------------------
Init ==
    /\ phase = "open" /\ left = 0
    /\ writeQ = <<>> /\ readQ = <<>>
    /\ lru = <<>> /\ dirty = {}
    /\ mshr = [k \in Key |-> {}]
    /\ answers = {} /\ dram = <<>> /\ remaining = <<>> /\ filled = <<>>
    /\ credit = 0 /\ accepted = {} /\ answered = {}

CanAccept == Len(readQ) + Len(writeQ) < QueueDepth

\* A sub-op or the TMA unit hands over a line; when the queues are full it is
\* refused and its sender tries again.
Enqueue(k, write) ==
    LET x == [tx |-> Cardinality(accepted) + 1, key |-> k, write |-> write]
    IN  /\ phase = "open" /\ CanAccept
        /\ IF write
             THEN writeQ' = Append(writeQ, x) /\ UNCHANGED readQ
             ELSE readQ' = Append(readQ, x) /\ UNCHANGED writeQ
        /\ accepted' = accepted \union {x}
        /\ UNCHANGED <<phase, left, lru, dirty, mshr, answers, dram, remaining,
                       filled, credit, answered>>

Aged(n) == IF n > 0 THEN n - 1 ELSE 0
WriteShare == IF WriteBudget > TotalBudget THEN TotalBudget ELSE WriteBudget

\* A new cycle: return the answers that are due, set the budget of the writes.
BeginStep ==
    /\ phase = "open" /\ phase' = "writes"
    /\ left' = WriteShare
    /\ answered' = answered \union {a.x : a \in {b \in answers : Aged(b.wait) = 0}}
    /\ answers' = {[a EXCEPT !.wait = Aged(a.wait)] :
                      a \in {b \in answers : Aged(b.wait) > 0}}
    /\ dram' = [i \in DOMAIN dram |-> [dram[i] EXCEPT !.wait = Aged(@)]]
    /\ UNCHANGED <<writeQ, readQ, lru, dirty, mshr, remaining, filled, credit, accepted>>

Cached == Elems(lru)
IsHit(x) == CacheLines > 0 /\ x.key \in Cached

Answer(x) == [x |-> x, wait |-> HitLatency]
PositionOf(k) == CHOOSE i \in DOMAIN lru : lru[i] = k
MovedToFront(k) ==
    [i \in DOMAIN lru |->
        IF i = 1 THEN k ELSE IF i <= PositionOf(k) THEN lru[i - 1] ELSE lru[i]]

\* A line that is missing is fetched by the first transaction that misses.
NeedsFetch_Always(x) == TRUE                              \* faulty variant
NeedsFetch(x) == mshr[x.key] = {}

Waiting_FirstOnly(x) ==                                   \* faulty variant
    IF mshr[x.key] = {} THEN {x} ELSE mshr[x.key]
Waiting(x) == mshr[x.key] \union {x}

Hit(x) ==
    /\ IsHit(x)
    /\ lru' = MovedToFront(x.key)
    /\ dirty' = dirty \union (IF x.write THEN {x.key} ELSE {})
    /\ answers' = answers \union {Answer(x)}
    /\ UNCHANGED <<mshr, dram>>

Miss(x) ==
    /\ ~IsHit(x)
    /\ mshr' = [mshr EXCEPT ![x.key] = Waiting(x)]
    /\ IF NeedsFetch(x)
         THEN dram' = Append(dram, [key |-> x.key, wait |-> DramLatency, writeback |-> FALSE])
         ELSE UNCHANGED dram
    /\ UNCHANGED <<lru, dirty, answers>>

TakeWrite ==
    /\ phase = "writes" /\ left > 0 /\ writeQ # <<>>
    /\ Hit(Head(writeQ)) \/ Miss(Head(writeQ))
    /\ writeQ' = Tail(writeQ) /\ left' = left - 1
    /\ UNCHANGED <<phase, readQ, remaining, filled, credit, accepted, answered>>

\* Reads may use what the writes have left of the budget.
ReadShare_NoBorrowing == TotalBudget - WriteShare         \* faulty variant
ReadShare == (TotalBudget - WriteShare) + left

WritesDone ==
    /\ phase = "writes" /\ (left = 0 \/ writeQ = <<>>)
    /\ phase' = "reads" /\ left' = ReadShare
    /\ UNCHANGED <<writeQ, readQ, lru, dirty, mshr, answers, dram, remaining,
                   filled, credit, accepted, answered>>

TakeRead ==
    /\ phase = "reads" /\ left > 0 /\ readQ # <<>>
    /\ Hit(Head(readQ)) \/ Miss(Head(readQ))
    /\ readQ' = Tail(readQ) /\ left' = left - 1
    /\ UNCHANGED <<phase, writeQ, remaining, filled, credit, accepted, answered>>

ReadsDone ==
    /\ phase = "reads" /\ (left = 0 \/ readQ = <<>>)
    /\ phase' = "dram"
    /\ credit' = IF credit + Gain > MaxCredit THEN MaxCredit ELSE credit + Gain
    /\ UNCHANGED <<left, writeQ, readQ, lru, dirty, mshr, answers, dram,
                   remaining, filled, accepted, answered>>

\* The DRAM looks at every request, oldest first.
Affordable == credit >= LineSize

ServeRequest ==
    LET r == Head(dram)
    IN  /\ phase = "dram" /\ dram # <<>>
        /\ IF r.wait = 0 /\ Affordable
             THEN /\ credit' = credit - LineSize
                  /\ filled' = IF r.writeback THEN filled ELSE Append(filled, r.key)
                  /\ UNCHANGED remaining
             ELSE remaining' = Append(remaining, r) /\ UNCHANGED <<credit, filled>>
        /\ dram' = Tail(dram)
        /\ UNCHANGED <<phase, left, writeQ, readQ, lru, dirty, mshr, answers,
                       accepted, answered>>

DramDone ==
    /\ phase = "dram" /\ dram = <<>>
    /\ phase' = "fills" /\ dram' = remaining /\ remaining' = <<>>
    /\ UNCHANGED <<left, writeQ, readQ, lru, dirty, mshr, answers, filled,
                   credit, accepted, answered>>

\* insert_line: a line that is not cached needs room, and a dirty victim is
\* written back.
MustEvict == Len(lru) >= CacheLines /\ lru # <<>>
Victim == lru[Len(lru)]
WriteBack(v) == [key |-> v, wait |-> DramLatency, writeback |-> TRUE]
Queued_Dropped(v) == dram                                 \* faulty variant
Queued_Slower(v) ==                                       \* faulty variant
    IF v \in dirty
      THEN Append(dram, [WriteBack(v) EXCEPT !.wait = 3 * DramLatency]) ELSE dram
Queued(v) == IF v \in dirty THEN Append(dram, WriteBack(v)) ELSE dram

InsertLine(k, isDirty) ==
    LET evict == k \notin Cached /\ MustEvict
        gone == IF evict THEN {Victim} ELSE {}
        kept == IF evict THEN Len(lru) - 1 ELSE Len(lru)
    IN  /\ lru' = IF k \in Cached THEN MovedToFront(k) ELSE <<k>> \o SubSeq(lru, 1, kept)
        /\ dirty' = (dirty \ gone) \union (IF isDirty THEN {k} ELSE {})
        /\ dram' = IF evict THEN Queued(Victim) ELSE dram

\* An MSHR entry is answered; the line enters the cache if a read waits for it.
Inserts(k) == CacheLines > 0 /\ \E x \in mshr[k] : ~x.write

Fill ==
    LET k == Head(filled)
    IN  /\ phase = "fills" /\ filled # <<>>
        /\ IF Inserts(k)
             THEN InsertLine(k, \E x \in mshr[k] : x.write)
             ELSE UNCHANGED <<lru, dirty, dram>>
        /\ answers' = answers \union {Answer(x) : x \in mshr[k]}
        /\ mshr' = [mshr EXCEPT ![k] = {}]
        /\ filled' = Tail(filled)
        /\ UNCHANGED <<phase, left, writeQ, readQ, remaining, credit, accepted, answered>>

EndStep ==
    /\ phase = "fills" /\ filled = <<>>
    /\ phase' = "open" /\ left' = 0
    /\ UNCHANGED <<writeQ, readQ, lru, dirty, mshr, answers, dram, remaining,
                   filled, credit, accepted, answered>>

Step ==
    \/ BeginStep \/ TakeWrite \/ WritesDone \/ TakeRead \/ ReadsDone
    \/ ServeRequest \/ DramDone \/ Fill \/ EndStep

Next == Step \/ \E k \in Key, write \in BOOLEAN : Enqueue(k, write)

Spec == Init /\ [][Next]_vars
-----------------------------------------------------------------------------
(* Properties                                                              *)

\* Queues hold transactions within l2_queue_depth, DRAM queues hold line requests,
\* and only what was accepted is answered.
TypeOK ==
    /\ phase \in {"open", "writes", "reads", "dram", "fills"} /\ left \in 0..TotalBudget
    /\ writeQ \in Seq(Transaction) /\ readQ \in Seq(Transaction)
    /\ Len(writeQ) + Len(readQ) <= QueueDepth
    /\ lru \in Seq(Key) /\ dirty \subseteq Key
    /\ mshr \in [Key -> SUBSET Transaction]
    /\ answers \subseteq [x : Transaction, wait : Nat]
    /\ dram \in Seq(Request) /\ remaining \in Seq(Request) /\ filled \in Seq(Key)
    /\ credit \in 0..MaxCredit
    /\ accepted \subseteq Transaction /\ answered \subseteq accepted

Queuing == Elems(writeQ) \union Elems(readQ)
Missing == UNION {mshr[k] : k \in Key}
Leaving == {a.x : a \in answers}

\* An accepted transaction is in exactly one place: a queue, the MSHR entry of its
\* line, the answers under way, or answered.  None is lost when lines merge into
\* one fetch, and none is answered twice; the state is well typed.
EachInOnePlace ==
    /\ TypeOK
    /\ accepted = Queuing \union Missing \union Leaving \union answered
    /\ Cardinality(accepted) =
          Len(writeQ) + Len(readQ) + Cardinality(Missing) + Cardinality(answers)
              + Cardinality(answered)
    /\ \A k \in Key : \A x \in mshr[k] : x.key = k

\* The requests for line k the DRAM still has to answer with data.
Fetches(s, k) == {i \in DOMAIN s : s[i].key = k /\ ~s[i].writeback}
Fetching(k) ==
    Cardinality(Fetches(dram, k)) + Cardinality(Fetches(remaining, k))
        + Cardinality({i \in DOMAIN filled : filled[i] = k})

\* A line has at most one fetch outstanding, exactly when an MSHR entry waits for
\* it, and a cached line has none: dram_completed always finds its entry, and
\* insert_line never meets a line that is there already, so that the LRU list holds
\* no key twice, never too many, and all the dirty ones.
OneFetchPerLine ==
    /\ \A k \in Key :
          /\ Fetching(k) = IF mshr[k] = {} THEN 0 ELSE 1
          /\ k \in Cached => mshr[k] = {}
    /\ Cardinality(Cached) = Len(lru) /\ Len(lru) <= CacheLines /\ dirty \subseteq Cached

\* Data written to a line is not fetched back before it is written: when the DRAM
\* delivers a line, no writeback of it is still in the queue.
WritebackPending(s, k) == \E i \in DOMAIN s : s[i].key = k /\ s[i].writeback
NoStaleFill ==
    \A k \in Elems(filled) : ~WritebackPending(dram, k) /\ ~WritebackPending(remaining, k)

\* A dirty line leaves the cache only with a writeback of it in the DRAM queue.
DirtyLeavesByWriteback ==
    [][\A k \in dirty : k \in dirty' \/ WritebackPending(dram', k)]_vars
=============================================================================
