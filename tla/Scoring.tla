------------------------------- MODULE Scoring ------------------------------
(***************************************************************************)
(* The arithmetic of a validator's scores, from what it measured of a      *)
(* window's payloads to the u16 weights it submits.  Sanctions runs it.    *)
(*                                                                         *)
(* Real numbers become fractions <<num, den>> or fixed point: the EMA      *)
(* counts in 1/Unit, multipliers in 1/Whole, a sync score in thousandths.  *)
(* Only what a rating model returns is left open (OpenSkill is a library). *)
(***************************************************************************)
EXTENDS Integers, FiniteSets, SequencesExt

CONSTANTS
    Miners,           \* uids: numbers, ties between them are broken by size
    Losses,           \* losses of an evaluation, in any unit; NaN is NotFinite
    AlphaInverse,     \* 1 / ScoringConfig.binary_ema_alpha
    Unit,             \* grain of the EMA
    Skills,           \* ordinals the rating model may give a rated miner
    Slices,           \* what comparing a miner's debug slices may give
    SyncMaxBehind,    \* ScoringConfig.sync_max_steps_behind
    Uploads,          \* top-k index sets: parameter -> sequence of chunks
    GatherCount, ReserveCount,    \* WindowConfig
    GatherShare, ReserveShare,    \* ScoringConfig, as whole parts of one sum
    TopRatio,         \* ScoringConfig.top_ratio
    DecayInverse      \* 1 / ScoringConfig.reserve_decay

ASSUME ScoringNumbersOK ==
    /\ Miners \subseteq Nat /\ IsFiniteSet(Miners)
    /\ AlphaInverse \in Nat \ {0} /\ Unit \in Nat \ {0}
    /\ GatherCount \in Nat \ {0} /\ ReserveCount \in Nat
    /\ GatherShare \in Nat \ {0} /\ ReserveShare \in Nat
    /\ TopRatio \in Nat \ {0} /\ DecayInverse \in Nat \ {0}

-----------------------------------------------------------------------------
(* Loss deltas *)

NotFinite == -1

\* Relative improvement; degenerate losses count as none.
GradientScore(before, after) ==
    IF NotFinite \in {before, after} \/ before <= 0
    THEN <<0, 1>> ELSE <<before - after, before>>

Above(x, y) == x[1] * y[2] > y[1] * x[2]

BinaryIndicator(own, random) == IF Above(own, random) THEN 1 ELSE -1

\* What evaluate_window can find of one payload.  Every payload is applied to
\* theta_start, which is restored before the next, so the losses of one miner
\* say nothing of another's; an own pool without sequences has no loss.
Indicators ==
    {BinaryIndicator(GradientScore(l[1], l[2]), GradientScore(l[3], l[4])) :
        l \in Losses \X Losses \X Losses \X Losses}

\* BinaryEMA.update; a miner never seen has 0.
Fold(ema, indicator) ==
    ((AlphaInverse - 1) * ema + Unit * indicator) \div AlphaInverse

-----------------------------------------------------------------------------
(* Sync and final scores *)

AtLeast0(x) == IF x > 0 THEN x ELSE 0

\* max(0, 1 - x / max_behind) ** 2.5 in thousandths, for the default max_behind
\* of 3: the caller passes no other.
SyncScore(behind) == <<1000, 363, 64, 0>>[(IF behind > 3 THEN 3 ELSE behind) + 1]

\* get_debug_slices: the object is there, it is of this window and uid, and its
\* values are finite.
Readable(slices) == slices # "unread"

\* _sync_scores: no slices to compare with, all equal, or some that differ.
StepsBehind(slices) ==
    IF ~Readable(slices) THEN 1 ELSE IF slices = "same" THEN 0 ELSE SyncMaxBehind

FinalScore(ordinal, ema, sync) == AtLeast0(ordinal) * AtLeast0(ema) * sync

-----------------------------------------------------------------------------
(* Copies among the payloads of a window *)

Whole == 32
SumOf(f(_), S) == FoldLeft(LAMBDA x, i : x + f(i), 0, SetToSeq(S))
Size(chunks) == SumOf(LAMBDA i : Cardinality(chunks[i]), DOMAIN chunks)

\* Parameters both carry, in the same shape.
Comparable(a, b) ==
    {n \in DOMAIN a \intersect DOMAIN b :
        /\ Len(a[n]) = Len(b[n]) /\ Size(a[n]) > 0
        /\ \A i \in DOMAIN a[n] : Cardinality(a[n][i]) = Cardinality(b[n][i])}

\* Mean share of common indices, weighted by the number of indices.
PairOverlap(a, b) ==
    LET common(n) == SumOf(LAMBDA i : Cardinality(a[n][i] \intersect b[n][i]), DOMAIN a[n])
    IN  <<SumOf(common, Comparable(a, b)), SumOf(LAMBDA n : Size(a[n]), Comparable(a, b))>>

Reaches(overlap, tenths) == overlap[2] > 0 /\ 10 * overlap[1] >= tenths * overlap[2]

Severity(overlap) ==
    CASE Reaches(overlap, 6) -> [mult |-> 0, naughty |-> TRUE]
      [] Reaches(overlap, 5) /\ ~Reaches(overlap, 6) -> [mult |-> 0, naughty |-> FALSE]
      [] Reaches(overlap, 4) /\ ~Reaches(overlap, 5) -> [mult |-> Whole \div 2, naughty |-> FALSE]
      [] ~Reaches(overlap, 4) -> [mult |-> Whole, naughty |-> FALSE]

\* The later upload is the copy; at equal times the higher uid is.
Offender(a, b, at) ==
    IF at[a] = at[b] THEN (IF a > b THEN a ELSE b)
    ELSE IF at[a] > at[b] THEN a ELSE b

\* _overlap_check of the payloads, each with its upload time: for every uid the
\* product of its multipliers, and whether it is sentenced.
Sanctioned(payload, at) ==
    LET U == DOMAIN payload
        blamed(m) == {p \in U \X U : p[1] < p[2] /\ Offender(p[1], p[2], at) = m}
        found(p) == Severity(PairOverlap(payload[p[1]], payload[p[2]]))
    IN  [m \in U |->
            [mult |-> FoldLeft(LAMBDA x, p : (x * found(p).mult) \div Whole,
                               Whole, SetToSeq(blamed(m))),
             naughty |-> \E p \in blamed(m) : found(p).naughty]]

\* Every outcome of the check for the miners with a valid payload.
OverlapOutcomes ==
    [U \in SUBSET Miners |->
        {Sanctioned(payload, at) : payload \in [U -> Uploads], at \in [U -> {0, 1}]}]

-----------------------------------------------------------------------------
(* The emissions ladder *)

\* Positive scores, highest first, ties by ascending uid.
Ranked(score) == {m \in DOMAIN score : score[m] > 0}
Rank(score, m) ==
    1 + Cardinality({x \in Ranked(score) :
                        score[x] > score[m] \/ (score[x] = score[m] /\ x < m)})

\* The linear ramp of n gather weights, up to a common factor.
Ramp(n) == [i \in 1 .. n |-> IF n = 1 THEN 1 ELSE TopRatio * (n - 1) - (TopRatio - 1) * (i - 1)]
\* The geometric profile of n reserve weights, up to a common factor.
Geometric(n) ==
    LET power[k \in 0 .. n] == IF k = 0 THEN 1 ELSE DecayInverse * power[k - 1]
    IN  [i \in 1 .. n |-> power[n - i]]
Total(profile) == FoldLeft(+, 0, profile)

\* compute_weights of n ranked miners, up to a common factor: the gather set
\* shares GatherShare, the reserve set ReserveShare, which is scaled down where
\* its best would pass the gather set's last.
LadderOf(n) ==
    LET g == IF n < GatherCount THEN n ELSE GatherCount
        r == IF n - g < ReserveCount THEN n - g ELSE ReserveCount
        gather == [i \in 1 .. g |-> GatherShare * Ramp(g)[i] * Total(Geometric(r))]
        reserve == [i \in 1 .. r |-> ReserveShare * Geometric(r)[i] * Total(Ramp(g))]
        floor == gather[g]
        top == reserve[1] * DecayInverse
    IN  IF r = 0 THEN [i \in 1 .. g |-> GatherShare * Ramp(g)[i]]
        ELSE IF reserve[1] <= floor THEN gather \o reserve
        ELSE [i \in 1 .. g |-> gather[i] * top] \o [i \in 1 .. r |-> reserve[i] * floor]

U16Max == 65535
\* Python's round: to the nearest, halves to even.
Rounded(num, den) ==
    LET q == num \div den  twice == 2 * (num % den)
    IN  IF twice > den \/ (twice = den /\ q % 2 = 1) THEN q + 1 ELSE q

\* normalize_weights_u16: the largest becomes 65535.
U16(weights) ==
    [i \in DOMAIN weights |-> Rounded(weights[i] * U16Max, weights[1])]

\* The u16 weight of every rank, for every number of ranked miners.
RankWeights == [n \in 1 .. Cardinality(Miners) |-> U16(LadderOf(n))]

\* weights_for and set_weights: who is paid what.  Whoever ranks below the
\* reserve set is left out.
Weights(score) ==
    LET ladder  == RankWeights[Cardinality(Ranked(score))]
        paid(m) == ladder[Rank(score, m)]
    IN  [m \in {x \in Ranked(score) : Rank(score, x) \in DOMAIN ladder /\ paid(x) > 0} |-> paid(m)]
=============================================================================
