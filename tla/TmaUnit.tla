------------------------------- MODULE TmaUnit -------------------------------
(***************************************************************************)
(* The TMA units of the SMs in front of the L2.  A command waits for its    *)
(* set-up behind the older ones of its unit, becomes active when the one    *)
(* before has sent all of its lines, and sends them as its credit and the   *)
(* room in the L2 allow; what the L2 refuses is sent in a later cycle.      *)
(* Sub-ops of other nodes go straight to the L2 (Enqueue).                  *)
(***************************************************************************)
EXTENDS L2Cache, SequencesExt

CONSTANTS
    Lanes,          \* threads of a warp
    BankBytes, Banks,   \* width and number of the banks of the shared memory
    Tiles,          \* tiles of a matrix, see Addressing
    Unit,           \* the SMs, each with one TMA unit
    NumSubops,      \* bound: lines taken from sub-ops in a run
    Command         \* TMA nodes: [unit, tile, write, setup, rate]

INSTANCE Addressing WITH LineBytes <- LineSize

\* The lines of a command.
Keys == [c \in Command |-> TmaLines(c.tile)]

ASSUME TmaAssumption ==
    /\ {Lanes, BankBytes, Banks} \subseteq Nat \ {0} /\ \A x \in Tiles : IsTile(x)
    /\ IsFiniteSet(Command) /\ NumSubops \in Nat
    /\ Command \subseteq
          [unit : Unit, tile : Tiles, write : BOOLEAN, setup : Nat, rate : Nat]
    /\ \A c \in Command : Keys[c] \in Seq(Key)

VARIABLES
    settingUp,      \* setup_queue: [Unit -> sequence of [cmd, wait]]
    ready,          \* pending_queue: [Unit -> sequence of commands]
    active,         \* active: [Unit -> [cmd, next, credit]], or no command
    stepped,        \* units whose step has run in this cycle
    given,          \* commands each unit has been given, in order
    sent,           \* the lines the units have sent, in order: [cmd, line]
    reported        \* commands returned as issue_complete

tmaVars == <<settingUp, ready, active, stepped, given, sent, reported>>
allVars == <<vars, tmaVars>>

NoCommand == [cmd |-> <<>>, next |-> 0, credit |-> 0]
IsActive(r) == r.cmd # <<>>
-----------------------------------------------------------------------------
TmaInit ==
    /\ Init
    /\ settingUp = [u \in Unit |-> <<>>] /\ ready = [u \in Unit |-> <<>>]
    /\ active = [u \in Unit |-> NoCommand]
    /\ stepped = {} /\ sent = <<>> /\ reported = {}
    /\ given = [u \in Unit |-> <<>>]

\* A subpartition issues TMA node c; its SM has stepped its unit before.
GiveCommand(c) ==
    /\ phase = "open" /\ c.unit \in stepped /\ ~Contains(given[c.unit], c)
    /\ settingUp' = [settingUp EXCEPT ![c.unit] = Append(@, [cmd |-> c, wait |-> c.setup])]
    /\ given' = [given EXCEPT ![c.unit] = Append(@, c)]
    /\ UNCHANGED <<vars, ready, active, stepped, sent, reported>>

\* TMAUnit::step: only the front of the set-up queue is looked at.
SetUp(q) ==
    LET aged == [i \in DOMAIN q |-> [q[i] EXCEPT !.wait = Aged(@)]]
        over == {i \in DOMAIN q : \A j \in 1..i : aged[j].wait = 0}
    IN  [done |-> [i \in over |-> q[i].cmd], left |-> SubSeq(aged, Cardinality(over) + 1, Len(q))]

\* A command gets the credit of its rate, as much as its lines can use.
Activated(r, q) ==
    CASE IsActive(r) -> r
      [] ~IsActive(r) /\ q # <<>> -> [cmd |-> Head(q), next |-> 0, credit |-> 0]
      [] OTHER -> r
Credited(r) ==
    LET most == LineSize * (Len(Keys[r.cmd]) - r.next)
    IN  IF r.credit + r.cmd.rate > most THEN most ELSE r.credit + r.cmd.rate

Lesser(a, b) == IF a < b THEN a ELSE b
Room == QueueDepth - Len(readQ) - Len(writeQ)

\* The loop over the lines: how many are sent, and where the command then is.
Sendable(r) == Lesser(Credited(r) \div LineSize, Room)
NextLine(r) == r.next + Sendable(r)
Lines(r) ==
    [i \in 1..Sendable(r) |->
        [tx |-> Cardinality(accepted) + i, key |-> Keys[r.cmd][r.next + i], write |-> r.cmd.write]]

AllSent_OneShort(r) == NextLine(r) >= Len(Keys[r.cmd]) - 1  \* faulty variant
AllSent(r) == NextLine(r) >= Len(Keys[r.cmd])

StepUnit(u) ==
    LET setup == SetUp(settingUp[u])
        queue == ready[u] \o setup.done
        r == Activated(active[u], queue)
    IN  /\ phase = "open" /\ u \notin stepped
        /\ stepped' = stepped \union {u}
        /\ settingUp' = [settingUp EXCEPT ![u] = setup.left]
        /\ ready' = [ready EXCEPT ![u] = IF r # active[u] THEN Tail(queue) ELSE queue]
        /\ IF IsActive(r)
             THEN /\ IF r.cmd.write
                       THEN writeQ' = writeQ \o Lines(r) /\ UNCHANGED readQ
                       ELSE readQ' = readQ \o Lines(r) /\ UNCHANGED writeQ
                  /\ accepted' = accepted \union Elems(Lines(r))
                  /\ sent' = sent \o [i \in 1..Sendable(r) |-> [cmd |-> r.cmd, line |-> r.next + i]]
                  /\ active' = [active EXCEPT ![u] =
                        IF AllSent(r) THEN NoCommand
                        ELSE [r EXCEPT !.next = NextLine(r),
                                       !.credit = Credited(r) - LineSize * Sendable(r)]]
                  /\ reported' = IF AllSent(r) THEN reported \union {r.cmd} ELSE reported
             ELSE UNCHANGED <<writeQ, readQ, accepted, sent, active, reported>>
        /\ UNCHANGED <<phase, left, lru, dirty, mshr, answers, dram, remaining,
                       filled, credit, answered, given>>

\* GPU::step steps the L2 first, then every SM, its TMA unit before the rest.
L2Step ==
    /\ Step
    /\ phase = "open" => stepped = Unit
    /\ stepped' = IF phase = "open" THEN {} ELSE stepped
    /\ UNCHANGED <<settingUp, ready, active, given, sent, reported>>

\* A sub-op hands over a line.
EnqueueSubop(k, write) ==
    /\ stepped # {} /\ Cardinality(accepted) - Len(sent) < NumSubops
    /\ Enqueue(k, write)
    /\ UNCHANGED tmaVars

TmaCycle == L2Step \/ \E u \in Unit : StepUnit(u)

TmaNext ==
    \/ TmaCycle
    \/ \E c \in Command : GiveCommand(c)
    \/ \E k \in Key, write \in BOOLEAN : EnqueueSubop(k, write)

TmaSpec == TmaInit /\ [][TmaNext]_allVars

\* The simulation loop runs cycle after cycle; nothing forces a node to be issued.
TmaFairSpec == TmaSpec /\ WF_allVars(TmaCycle)
-----------------------------------------------------------------------------
(* Properties                                                              *)

LinesOf(c) == {[cmd |-> c, line |-> i] : i \in DOMAIN Keys[c]}

\* Line e comes before line f among those that their unit is to send.
Earlier(e, f) ==
    \/ e.cmd = f.cmd /\ e.line < f.line
    \/ \E u \in Unit : \E j \in DOMAIN given[u] : \E i \in 1..j - 1 :
          given[u][i] = e.cmd /\ given[u][j] = f.cmd

\* A unit sends the lines of its commands in the order it was given them, one command
\* after the other and every line once, whatever the L2 refuses and whichever set-up
\* is over first; a command counts as issued exactly when its last line has been taken.
SentInOrder ==
    /\ \A j \in DOMAIN sent : \A i \in 1..j - 1 :
          sent[i].cmd.unit = sent[j].cmd.unit => Earlier(sent[i], sent[j])
    /\ \A j \in DOMAIN sent :
          \A c \in Elems(given[sent[j].cmd.unit]) : \A e \in LinesOf(c) :
              Earlier(e, sent[j]) => \E i \in 1..j - 1 : sent[i] = e
    /\ reported = {c \in Command : LinesOf(c) \subseteq Elems(sent)}

\* The transactions of a node, counted when it is issued, are those that are sent for it,
\* and they are the lines of its tile: for every layout, stride, offset and width, and
\* for tiles that do not fill a sub-op, a line or anything at all.  Likewise for the
\* bytes of the shared memory and the cycles that its banks add.
TilesExact == \A x \in Tiles : SubopsCover(x) /\ SendsMatchRecord(x) /\ SramSubopsExact(x)
TransactionsExact ==
    /\ TilesExact
    /\ \A c \in reported :
          Cardinality({i \in DOMAIN sent : sent[i].cmd = c}) = TotalTransactions(c.tile)

\* Every accepted transaction is answered and every command sent in full, whatever the
\* mix of reads and writes, though a slow set-up holds up the commands behind it and a
\* full L2 holds up all: again and again, or for good once no more come, none is open.
AllServed == []<>(answered = accepted /\ UNION {Elems(given[u]) : u \in Unit} = reported)
=============================================================================
