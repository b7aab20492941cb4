------------------------------- MODULE Addressing -------------------------------
(***************************************************************************)
(* Which cache lines a tile of a matrix touches, and in which sub-op, and   *)
(* how much of the shared memory a sub-op moves and with which conflicts.   *)
(* A node x gives dims and offs of its tile (1 to 4 dimensions), the strides *)
(* of the matrix (0 where they are not given) or its leading dimension, the *)
(* layout, the bytes of an element, the bytes a thread accesses at once     *)
(* (0: as usual) and how many transactions each line is split into.         *)
(***************************************************************************)
EXTENDS Integers, Sequences, FiniteSets
LOCAL INSTANCE Functions
LOCAL INSTANCE FiniteSetsExt
LOCAL INSTANCE SequencesExt

CONSTANTS
    Lanes,          \* threads of a warp (32)
    LineBytes,      \* line_size_bytes
    BankBytes,      \* kBankWidthBytes (4)
    Banks           \* kBankCount (32)

IsTile(x) ==
    /\ x.dims \in Seq(Nat) /\ Len(x.dims) \in 1..4
    /\ DOMAIN x.offs = DOMAIN x.dims /\ DOMAIN x.strides = DOMAIN x.dims
    /\ x.ld \in Nat /\ x.layout \in {"row", "column", "swizzled"}
    /\ x.elem \in Nat \ {0} /\ x.access \in Nat /\ x.split \in Nat \ {0}
-----------------------------------------------------------------------------
Product(f, S) == FoldFunctionOnSet(LAMBDA a, b : a * b, 1, f, S)

IsEmpty(x) == \E i \in DOMAIN x.dims : x.dims[i] = 0
ElementCount(x) == Product(x.dims, DOMAIN x.dims)
RowMajor(x) == x.layout = "row"
HasExplicitStrides(x) == \A i \in DOMAIN x.dims : x.strides[i] > 0

\* compute_matrix_strides.
MatrixStrides(x) ==
    LET ds == DOMAIN x.dims
    IN  CASE HasExplicitStrides(x) -> x.strides
          [] ~HasExplicitStrides(x) /\ Len(x.dims) = 2 /\ x.ld > 0 ->
                IF RowMajor(x) THEN <<x.ld, 1>> ELSE <<1, x.ld>>
          [] OTHER ->
                [i \in ds |-> Product(x.dims, {j \in ds : IF RowMajor(x) THEN j > i ELSE j < i})]

\* compute_dim_order: dimension j changes faster than i.
Faster(x, j, i) ==
    CASE HasExplicitStrides(x) ->
            x.strides[j] < x.strides[i] \/ (x.strides[j] = x.strides[i] /\ j < i)
      [] RowMajor(x) -> j > i
      [] OTHER -> j < i

\* The byte address of element l, counted along the fastest dimension first.
Coordinate(x, l, i) ==
    (l \div Product(x.dims, {j \in DOMAIN x.dims : Faster(x, j, i)})) % x.dims[i]
At(x, coordinates) ==
    x.elem * MapThenSumSet(LAMBDA i : (x.offs[i] + coordinates[i]) * MatrixStrides(x)[i],
                           DOMAIN x.dims)
ElementAddr(x, l) == At(x, [i \in DOMAIN x.dims |-> Coordinate(x, l, i)])

\* A sub-op is one access of every thread of a warp.
CeilDiv(a, b) == (a + b - 1) \div b
AccessBytes(x) == IF x.access > 0 THEN x.access ELSE 4
PerThread(x) == Max({1, CeilDiv(AccessBytes(x), x.elem)})
PerSubop(x) == Lanes * PerThread(x)
SubopCount(x) == IF IsEmpty(x) THEN 1 ELSE Max({1, CeilDiv(ElementCount(x), PerSubop(x))})

\* compute_dram_subop_lines: each line once, in the order its first element comes up.
Line(x, l) == LineBytes * (ElementAddr(x, l) \div LineBytes)
SubopElements(x, s) == {l \in 0..ElementCount(x) - 1 : l \div PerSubop(x) = s}
Leading(x, s) ==
    LET ls == SubopElements(x, s)
        line == [l \in ls |-> Line(x, l)]
    IN  {l \in ls : \A m \in ls : m < l => line[m] # line[l]}

\* get_subop_lines: a line is asked for once for each part it is split into.
SubopLines(x, s) ==
    LET firsts == SetToSortSeq(Leading(x, s), <)
    IN  [i \in 1..x.split * Len(firsts) |-> Line(x, firsts[(i - 1) \div x.split + 1])]

\* The transactions that issue_node puts on record, and those a sub-op that leaves its
\* pipeline, or the TMA unit, sends: one for line 0 where a tile has no lines.
TotalTransactions_OncePerLine(x) ==                       \* faulty variant
    Max({1, x.split * Cardinality({Line(x, l) : l \in 0..ElementCount(x) - 1})})
TotalTransactions(x) ==
    Max({1, x.split * MapThenSumSet(LAMBDA s : Cardinality(Leading(x, s)), 0..SubopCount(x) - 1)})
OrLineZero(lines) == IF lines = <<>> THEN <<0>> ELSE lines
SubopSends(x, s) == OrLineZero(SubopLines(x, s))
TmaLines(x) ==
    OrLineZero(FlattenSeq([s \in 1..SubopCount(x) |-> SubopLines(x, s - 1)]))

\* compute_sram_subops: the bytes of a sub-op and the cycles that its bank conflicts add.
SubopBytes(x, s) == x.elem * Cardinality(SubopElements(x, s))
Word(x, l) == ElementAddr(x, l) \div BankBytes

\* Elements narrower than a bank conflict when a word is asked for more often than it has
\* elements; wider ones for every word whose bank another word has taken.
NarrowConflicts(x, s) ==
    LET ls == SubopElements(x, s)
        repeats(w) == Cardinality({l \in ls : Word(x, l) = w}) - BankBytes \div x.elem
    IN  MapThenSumSet(LAMBDA w : Max({0, repeats(w)}), {Word(x, l) : l \in ls})
WideConflicts(x, s) ==
    LET accesses == SubopElements(x, s) \X (0..CeilDiv(x.elem, BankBytes) - 1)
    IN  Cardinality(accesses) - Cardinality({(Word(x, a[1]) + a[2]) % Banks : a \in accesses})
Conflicts(x, s) ==
    CASE IsEmpty(x) \/ x.layout = "swizzled" -> 0
      [] ~IsEmpty(x) /\ x.layout # "swizzled" /\ x.elem < BankBytes -> NarrowConflicts(x, s)
      [] OTHER -> WideConflicts(x, s)
-----------------------------------------------------------------------------
(* What addressing should do                                               *)

\* The lines of a tile, from the coordinates of its elements.
Box(x) == {c \in [DOMAIN x.dims -> 0..Max(Range(x.dims)) - 1] : \A i \in DOMAIN c : c[i] < x.dims[i]}
LinesOfTile(x) == {LineBytes * (At(x, c) \div LineBytes) : c \in Box(x)}

\* The sub-ops touch the lines of the tile and no others, each of them a line once for
\* every part, and both senders send what was put on record when the node was issued.
SubopsCover(x) ==
    LET subops == 0..SubopCount(x) - 1
        times(s, k) == Cardinality({i \in DOMAIN SubopLines(x, s) : SubopLines(x, s)[i] = k})
    IN  /\ UNION {ToSet(SubopLines(x, s)) : s \in subops} =
              (IF IsEmpty(x) THEN {} ELSE LinesOfTile(x))
        /\ \A s \in subops : \A k \in ToSet(SubopLines(x, s)) : times(s, k) = x.split
SendsMatchRecord(x) ==
    /\ MapThenSumSet(LAMBDA s : Len(SubopSends(x, s)), 0..SubopCount(x) - 1) = TotalTransactions(x)
    /\ Len(TmaLines(x)) = TotalTransactions(x)

\* The sub-ops move the bytes of the tile; wide elements are delayed once for each byte
\* range of a bank beyond the first, narrow ones never, unless elements coincide.
BytesIn(x, s) == UNION {{ElementAddr(x, l) + b : b \in 0..x.elem - 1} : l \in SubopElements(x, s)}
Disjoint(x, s) == Cardinality(BytesIn(x, s)) = SubopBytes(x, s)
WordsOfBank(x, s, b) == {w \in {a \div BankBytes : a \in BytesIn(x, s)} : w % Banks = b}
SramSubopsExact(x) ==
    LET subops == 0..SubopCount(x) - 1
    IN  /\ MapThenSumSet(LAMBDA s : SubopBytes(x, s), subops) =
              x.elem * (IF IsEmpty(x) THEN 0 ELSE Cardinality(Box(x)))
        /\ \A s \in subops : Disjoint(x, s) /\ x.layout # "swizzled" =>
              Conflicts(x, s) =
                IF x.elem < BankBytes THEN 0
                ELSE MapThenSumSet(LAMBDA b : Max({0, Cardinality(WordsOfBank(x, s, b)) - 1}),
                                   0..Banks - 1)
=============================================================================
