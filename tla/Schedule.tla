------------------------------ MODULE Schedule ------------------------------
(***************************************************************************)
(* What a window trains on, as a pure function of the manifest: the knobs  *)
(* in force (subnet/core/phase.py over mok_core/config/manifest.py), the   *)
(* sequences a miner draws (mok_core/data/assignment.py and                *)
(* window_dataset.py) and the counters the window starts from              *)
(* (window_runner.run_state_at).  Every node evaluates these functions on  *)
(* its own and must agree, live or replaying.  The hash of a seed and the  *)
(* Philox stream behind it are the parameter Permute; floating point       *)
(* learning rates are integers.                                            *)
(***************************************************************************)
EXTENDS Integers, Sequences, FiniteSets, Functions, FiniteSetsExt

CONSTANTS
    Defaults,       \* the RunConfig's value of every knob
    RampStart,      \* cfg.window.accum_ramp_start
    RampTokens,     \* cfg.window.accum_ramp_tokens
    Datasets,       \* name -> [shards, perShard, seqLen]; all shards are full
    EvalSequences,  \* cfg.scoring.eval_sequences
    Permute(_, _)   \* philox(seed).permutation(n), a sequence of 0 .. n-1

Knobs == {"data", "lr", "seqLen", "microbatch", "accum", "steps"}

ASSUME ScheduleAssumption ==
    /\ Knobs = DOMAIN Defaults
    /\ Defaults.data \in DOMAIN Datasets
    /\ {Defaults.accum, Defaults.steps} \subseteq Nat \ {0} /\ Defaults.microbatch \in Nat
    /\ RampStart \in Nat \ {0} /\ RampTokens \in Nat /\ EvalSequences \in Nat

-----------------------------------------------------------------------------
(* The manifest: a table of phase entries [start, over, restart], where    *)
(* over sets some of the knobs, the void ranges, the reseed salt and the   *)
(* amendments made to it.                                                  *)

WellFormed(m) ==
    /\ m.phases # <<>> /\ m.phases[1].start = 0
    /\ \A i, j \in 1 .. Len(m.phases) : i < j => m.phases[i].start < m.phases[j].start
    /\ \A i \in 1 .. Len(m.phases) :
          "data" \in DOMAIN m.phases[i].over => m.phases[i].over.data \in DOMAIN Datasets
    /\ \A i, j \in 1 .. Len(m.amendments) : i < j => m.amendments[i].seq < m.amendments[j].seq

Applicable(m, w) == {i \in 1 .. Len(m.phases) : m.phases[i].start <= w}

PhaseAt(m, w) == m.phases[Max(Applicable(m, w))]

IsVoid(m, w) == \E v \in m.voids : v.first <= w /\ w <= v.last

\* resolve_phase: the applicable entries layered over the RunConfig, the last
\* one to set a knob deciding it.
ResolvePhase(m, w) ==
    [k \in Knobs |->
        LET setters == {i \in Applicable(m, w) : k \in DOMAIN m.phases[i].over}
        IN  IF setters = {} THEN Defaults[k] ELSE m.phases[Max(setters)].over[k]]

RequiresRestart(m, w) == PhaseAt(m, w).restart

AmendedTable(m, a) ==
    CASE a.kind \in {"phase", "capacity"} -> [m EXCEPT !.phases = Append(@, a.entry)]
      [] a.kind = "void" -> [m EXCEPT !.voids = @ \cup {a.range}]
      [] a.kind = "prf_salt" -> [m EXCEPT !.salt = a.salt]

\* with_amendment: append the object, number the amendment, validate.  Nothing
\* relates the object to the amendment's effective window, except that a
\* capacity entry is built to start there.
Amendable(m, a) ==
    /\ WellFormed(AmendedTable(m, a))
    /\ a.kind = "capacity" => a.entry.start = a.effective

WithAmendment(m, a) ==
    [AmendedTable(m, a) EXCEPT
        !.amendments = Append(@, [seq |-> Len(m.amendments), effective |-> a.effective])]

-----------------------------------------------------------------------------
(* Learning rate and gradient accumulation in closed form.                 *)

LrAt(spec, step, tokensPerStep) ==
    IF spec.kind = "const" THEN spec.constLr
    ELSE IF step < spec.warmup THEN (spec.peak * (step + 1)) \div spec.warmup
    ELSE IF spec.kind = "wsd_flat" THEN spec.peak
    ELSE LET into == (step - spec.warmup) * tokensPerStep
         IN  IF into >= spec.decay THEN 0 ELSE (spec.peak * (spec.decay - into)) \div spec.decay

AccumAt(tokens) ==
    IF tokens >= RampTokens THEN Defaults.accum
    ELSE RampStart + ((Defaults.accum - RampStart) * tokens) \div RampTokens

\* The microbatches of one inner step: the ramp, clamped into the plan.
StepAccum(phase, tokens) == Max({1, Min({AccumAt(tokens), phase.accum})})

StepTokens(phase, tokens, world) == StepAccum(phase, tokens) * phase.microbatch * world

TokensAfter(phase, tokens, world) ==
    LET t[s \in 0 .. phase.steps] ==
          IF s = 0 THEN tokens ELSE t[s - 1] + StepTokens(phase, t[s - 1], world)
    IN  t[phase.steps]

\* run_state_at: the counters at the start of a window, folded from window 0
\* over the windows that are not void.
RunStateAt(m, window, world) ==
    LET state[w \in 0 .. window] ==
          IF w = 0 THEN [step |-> 0, inner |-> 0, tokens |-> 0]
          ELSE IF IsVoid(m, w - 1) THEN state[w - 1]
          ELSE LET phase == ResolvePhase(m, w - 1)
               IN  [step   |-> state[w - 1].step + 1,
                    inner  |-> state[w - 1].inner + phase.steps,
                    tokens |-> TokensAfter(phase, state[w - 1].tokens, world)]
    IN  state[window]

-----------------------------------------------------------------------------
(* The data of a window.                                                   *)

Ceil(a, b) == (a + b - 1) \div b

SequencesPerWindow(phase, world) ==
    (phase.microbatch \div phase.seqLen) * phase.accum * phase.steps * world

ShardIds(dataset, salt, uid, window, tokens) ==
    SubSeq(Permute(<<"window", salt, uid, window>>, dataset.shards), 1,
           Ceil(tokens, dataset.perShard * dataset.seqLen))

SampleOrder(salt, uid, window, n, available) ==
    SubSeq(Permute(<<"order", salt, uid, window>>, available), 1, n)

\* WindowBatchPlan.build, where it does not raise.
Plannable(m, w, world) ==
    LET phase == ResolvePhase(m, w)  dataset == Datasets[phase.data]
    IN  /\ phase.seqLen = dataset.seqLen
        /\ phase.microbatch % phase.seqLen = 0
        /\ Ceil(SequencesPerWindow(phase, world), dataset.perShard) <= dataset.shards

\* The window's sequences, in the order a miner draws them.
PairsIn(shards, order, dataset) ==
    [i \in DOMAIN order |->
        <<shards[order[i] \div dataset.perShard + 1], order[i] % dataset.perShard>>]

PhasePairs(phase, dataset, total, salt, uid, w) ==
    PairsIn(ShardIds(dataset, salt, uid, w, total * phase.seqLen),
            SampleOrder(salt, uid, w, total,
                        Ceil(total * phase.seqLen, dataset.perShard * dataset.seqLen)
                            * dataset.perShard),
            dataset)

PlannedPairs(phase, m, uid, w, world) ==
    PhasePairs(phase, Datasets[phase.data], SequencesPerWindow(phase, world), m.salt, uid, w)

GlobalPairs(m, uid, w, world) == PlannedPairs(ResolvePhase(m, w), m, uid, w, world)

\* The rows rank r reads for microbatch k of inner step s: its stripe
\* global[r::world], laid out as [steps, accum, sequences per microbatch].
Stripe(global, phase, world, r, s, k) ==
    LET seqs == phase.microbatch \div phase.seqLen
    IN  {global[1 + r + world * ((s * phase.accum + k) * seqs + j)] : j \in 0 .. seqs - 1}

MicrobatchPairs(m, uid, w, world, r, s, k) ==
    Stripe(GlobalPairs(m, uid, w, world), ResolvePhase(m, w), world, r, s, k)

\* sample_digest: the receipt is over the sorted pairs, hence over the set.
SampleDigest(m, uid, w, world) == Range(GlobalPairs(m, uid, w, world))

-----------------------------------------------------------------------------
(* What a validator evaluates a payload on (EvalPools of                   *)
(* subnet/core/scoring.py), seeded by the hash of a block.                 *)

RandomPoolUid == -1   \* no miner's uid

\* The first distinct numbers of the stream below population.
SampleWithoutReplacement(block, uid, population) ==
    SubSeq(Permute(<<"eval", block, uid, 0>>, population), 1, Min({EvalSequences, population}))

\* Some of the sequences of the miner's window, rebuilt for the rank count of
\* the run.
OwnPool(m, uid, w, protocol, block) ==
    LET sequences == GlobalPairs(m, uid, w, protocol)
    IN  [i \in DOMAIN SampleWithoutReplacement(block, uid, Len(sequences)) |->
            sequences[SampleWithoutReplacement(block, uid, Len(sequences))[i] + 1]]

\* The pool all miners share, from the whole dataset of the phase.
RandomPool(m, w, block) ==
    LET dataset == Datasets[ResolvePhase(m, w).data]
        picks == SampleWithoutReplacement(block, RandomPoolUid, dataset.shards * dataset.perShard)
    IN  [i \in DOMAIN picks |-> <<picks[i] \div dataset.perShard, picks[i] % dataset.perShard>>]
=============================================================================
