------------------------------- MODULE Fa3Graph -------------------------------
(***************************************************************************)
(* The tile graph build_fa3_h100 makes for one thread block (blocks are    *)
(* built alike and do not depend on one another): Q is loaded once, K and V *)
(* in every round; every warp multiplies Q and K (SS), computes a softmax   *)
(* in two branches, and multiplies the scores and V (RS); at the end it     *)
(* divides, puts its rows in shared memory, and they are stored by TMA.     *)
(* A shape s gives what the loops of the builder run over.                  *)
(***************************************************************************)
EXTENDS Integers, FiniteSets

IsFa3Shape(s) ==
    /\ s.rounds \in Nat             \* num_k
    /\ s.steps \in Nat \ {0}        \* MMAs of a warp and product in a round: 16
    /\ IsFiniteSet(s.warps)         \* consumer warps: two groups of four
    /\ IsFiniteSet(s.loads)         \* loads of Q, and of K and V in a round: 2
    /\ IsFiniteSet(s.branches)      \* branches of the softmax: r0, r1
    /\ s.branches # {}
    /\ IsFiniteSet(s.cols)          \* stores to shared memory of a warp: 8
    /\ IsFiniteSet(s.halves)        \* halves of the rows of Q that exist: 1 or 2
-----------------------------------------------------------------------------
(* Operations: name, round, warp and number.                               *)

Rounds(s) == 0..s.rounds - 1
LoadOf(s, x, k) == {<<x, k, 0, h>> : h \in s.loads}       \* x is "Q", "K" or "V"
Product(s, x, k, w) == {<<x, k, w, i>> : i \in 1..s.steps}  \* x is "SS" or "RS"
Products(s, x, k) == UNION {Product(s, x, k, w) : w \in s.warps}
Last(s, x, k, w) == <<x, k, w, s.steps>>
One(x, k, w) == <<x, k, w, 0>>
All(s, x, k, w) == {<<x, k, w, r>> : r \in s.branches}

Branched == {"local_max", "shfl_max", "reduce_max", "exp2", "local_sum", "shfl_sum", "reduce_sum"}
Single == {"merge_max", "scores_scale", "merge_sum", "logsum", "acc_s_cast", "acc_o_scale"}
OfWarp(s, w) ==
    UNION {(UNION {All(s, x, k, w) : x \in Branched}) \union {One(x, k, w) : x \in Single}
              \union Product(s, "SS", k, w) \union Product(s, "RS", k, w) : k \in Rounds(s)}

Divs(s) == IF s.rounds > 0 THEN {One("acc_o_div", 0, w) : w \in s.warps} ELSE {}
FaPuts(s) == {<<"put", 0, w, c>> : w \in s.warps, c \in s.cols}
FaOuts(s) == {<<"out", 0, 0, h>> : h \in s.halves}

FaNodes(s) ==
    LoadOf(s, "Q", 0) \union (UNION {LoadOf(s, "K", k) \union LoadOf(s, "V", k) : k \in Rounds(s)})
        \union (UNION {OfWarp(s, w) : w \in s.warps})
        \union Divs(s) \union FaPuts(s) \union FaOuts(s)

\* "K uses double-buffering: once SS(k-2) consumes K(k-2), K(k) can be loaded."
Consumed(s, x, k) == IF k < 2 THEN {} ELSE Products(s, x, k - 2)

\* The MMAs of a warp are a chain over all rounds of its product.
Chained(s, x, k, w, i) ==
    CASE i > 1 -> {<<x, k, w, i - 1>>}
      [] i = 1 /\ k > 0 -> {Last(s, x, k - 1, w)}
      [] OTHER -> {}

FaDeps(s, n) ==
    LET x == n[1]  k == n[2]  w == n[3]  i == n[4]
        same(y) == {<<y, k, w, i>>}
    IN  CASE x = "K" -> Consumed(s, "SS", k)
          [] x = "V" -> Consumed(s, "RS", k)
          [] x = "SS" -> LoadOf(s, "Q", 0) \union LoadOf(s, "K", k) \union Chained(s, "SS", k, w, i)
          [] x = "local_max" -> {Last(s, "SS", k, w)}
          [] x = "shfl_max" -> same("local_max")
          [] x = "reduce_max" -> same("shfl_max")
          [] x = "merge_max" -> All(s, "reduce_max", k, w)
          [] x = "scores_scale" -> {One("merge_max", k, w)}
          [] x \in {"exp2", "acc_o_scale"} -> {One("scores_scale", k, w)}
          [] x = "local_sum" -> same("exp2")
          [] x = "shfl_sum" -> same("local_sum")
          [] x = "reduce_sum" -> same("shfl_sum")
          [] x = "merge_sum" -> All(s, "reduce_sum", k, w)
          [] x = "logsum" -> {One("merge_sum", k, w), One("scores_scale", k, w)}
          [] x = "acc_s_cast" -> All(s, "exp2", k, w)
          [] x = "RS" -> LoadOf(s, "V", k) \union Chained(s, "RS", k, w, i)
                            \union {One(y, k, w) : y \in {"acc_s_cast", "acc_o_scale", "logsum"}}
          [] x = "acc_o_div" -> Products(s, "RS", s.rounds - 1) \union {One("logsum", s.rounds - 1, w)}
          [] x = "put" -> Divs(s)
          [] x = "out" -> FaPuts(s)
          [] OTHER -> {}

\* "RS(k-1) issues before score(k)."
ScoreWaits_SameRound(s, k, w) == {Last(s, "RS", k, w)}    \* faulty variant
ScoreWaits_None(s, k, w) == {}                            \* faulty variant
ScoreWaits(s, k, w) == IF k > 0 THEN {Last(s, "RS", k - 1, w)} ELSE {}

\* What must have been issued before n: the order of the stages of a warp.
FaIssueDeps(s, n) ==
    LET x == n[1]  k == n[2]  w == n[3]  i == n[4]
    IN  CASE x = "SS" /\ i = 1 /\ k > 0 -> {One(y, k - 1, w) : y \in {"logsum", "acc_s_cast"}}
          [] x = "acc_o_scale" /\ k + 1 < s.rounds -> {Last(s, "SS", k + 1, w)}
          [] x = "local_max" -> ScoreWaits(s, k, w)
          [] OTHER -> {}
=============================================================================
