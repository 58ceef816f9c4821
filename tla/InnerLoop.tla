----------------------------- MODULE InnerLoop -----------------------------
(***************************************************************************)
(* The training part of a window on the ranks of one node                  *)
(* (subnet/core/inner_loop.py over zero1.py, moe_health.py and the         *)
(* router): every rank holds the shared parameters whole and a slice of    *)
(* the experts, trains on its own stripe of the window's sequences, and    *)
(* meets the others in a few collectives.  Between two collectives the     *)
(* ranks run at their own pace.                                            *)
(*                                                                         *)
(* Values are small integers, Backward and Dispatch stand for autograd and *)
(* the router, and AdamW keeps its shape (moments, step count, a master    *)
(* copy) without its constants.                                            *)
(***************************************************************************)
EXTENDS Schedule, Payload

CONSTANTS
    Shapes,             \* name -> the whole tensor's shape, for every master tensor
    ExpertNames,        \* expert-local names: sharded along their first dimension
    BiasNames,          \* the balance biases: buffers, not parameters
    NumExperts, EpSize, \* cfg.model.num_experts and ep_size
    GradClip, BiasRate, Wrap(_),    \* Wrap maps a value into the model's integers
    Backward(_, _, _),  \* name, view of the model, sequence -> gradient of the whole tensor
    Dispatch(_, _)      \* view of the model, sequence -> tokens each expert receives

VARIABLES
    world,      \* the number of ranks
    model,      \* rank -> name -> its tensor
    task,       \* the window being trained: what the plan and the counters are made from
    progress,   \* [stage, step, micro, tokens]
    adam,       \* rank -> owned name -> [step, avg, sq, master]
    grads,      \* rank -> parameter -> gradient
    loads,      \* rank -> expert -> tokens dispatched in this step
    stepped     \* the ranks that have updated their bucket

innerVars == <<model, task, progress, adam, grads, loads, stepped>>

Names      == DOMAIN Shapes
ParamNames == Names \ BiasNames
Shared     == ParamNames \ ExpertNames
Experts    == 0 .. NumExperts - 1
Ranks      == 0 .. world - 1

ASSUME InnerLoopAssumption ==
    /\ Names = Listed(NameOrder)
    /\ ExpertNames \subseteq ParamNames /\ BiasNames \subseteq Names
    /\ ExpertNames # {} /\ NumExperts \in Nat
    /\ \A n \in Names : Shapes[n] \in Seq(Nat \ {0}) /\ Shapes[n] # <<>>
    /\ \A n \in BiasNames : Product(Shapes[n]) = NumExperts

-----------------------------------------------------------------------------
(* Shards and views.                                                       *)

LocalSize(n) == IF n \in ExpertNames THEN Product(Shapes[n]) \div world ELSE Product(Shapes[n])
Offset(n, r) == IF n \in ExpertNames THEN r * LocalSize(n) ELSE 0

LocalOf(whole, r) ==
    [n \in Names |-> [i \in 0 .. LocalSize(n) - 1 |-> whole[n][Offset(n, r) + i]]]

\* The model as rank r sees it: its own shared tensors, everybody's experts.
View(m, r) ==
    [n \in Names |->
        IF n \in ExpertNames
        THEN [i \in 0 .. Product(Shapes[n]) - 1 |->
                m[i \div LocalSize(n)][n][i % LocalSize(n)]]
        ELSE m[r][n]]

Zeros(t) == [i \in DOMAIN t |-> 0]

-----------------------------------------------------------------------------
(* AdamW.                                                                  *)

Owner(n) == ((CHOOSE i \in 1 .. Len(Sorted(Shared)) : Sorted(Shared)[i] = n) - 1) % world

Owned(r) == ExpertNames \cup {n \in Shared : Owner(n) = r}

FreshAdam(t) == [step |-> 0, avg |-> Zeros(t), sq |-> Zeros(t), master |-> t]

AdamStep(state, grad, lr) ==
    LET step == state.step + 1
        avg  == [i \in DOMAIN grad |-> Wrap((state.avg[i] + grad[i]) \div 2)]
        sq   == [i \in DOMAIN grad |-> (state.sq[i] + grad[i] * grad[i]) \div 2]
    IN  [step |-> step, avg |-> avg, sq |-> sq,
         master |-> [i \in DOMAIN grad |->
                        Wrap(state.master[i] - (lr * step * avg[i]) \div (1 + Root(sq[i])))]]

-----------------------------------------------------------------------------
(* The clip of the gradients and the nudge of the balance bias.            *)

NormOver(names, grad) ==
    SumOf([n \in names |-> SumOf([i \in DOMAIN grad[n] |-> Magnitude(grad[n][i])])])

ClippedBy(norm, t) ==
    IF norm > GradClip THEN [i \in DOMAIN t |-> (t[i] * GradClip) \div norm] ELSE t

Sign(x) == IF x > 0 THEN 1 ELSE IF x < 0 THEN -1 ELSE 0

BalanceBias(bias, load) ==
    LET total == SumOf(load)
    IN  [e \in Experts |-> Wrap(bias[e] - BiasRate * Sign(NumExperts * load[e] - total))]

-----------------------------------------------------------------------------
(* run_window.                                                             *)

Phase == ResolvePhase(task.manifest, task.window)
Accum == StepAccum(Phase, progress.tokens)
LrOf(phase, run, s) == LrAt(phase.lr, run.inner + s, Defaults.accum * Defaults.microbatch * EpSize)

Batch(r, s, k) ==
    MicrobatchPairs(task.manifest, task.uid, task.window, world, r, s, k)

NoGrads(m) == [r \in Ranks |-> [n \in ParamNames |-> Zeros(m[r][n])]]
NoLoads    == [r \in Ranks |-> [e \in Experts |-> 0]]
AtRest     == [stage |-> "rest", step |-> 0, micro |-> 0, tokens |-> 0]

\* The optimizer and the counters of a new window.
BeginTask(manifest, uid, window, run, from) ==
    /\ task' = [manifest |-> manifest, uid |-> uid, window |-> window, run |-> run]
    /\ progress' = [stage |-> "micro", step |-> 0, micro |-> 0, tokens |-> run.tokens]
    /\ adam' = [r \in Ranks |-> [n \in Owned(r) |-> FreshAdam(from[r][n])]]
    /\ grads' = NoGrads(from) /\ loads' = NoLoads /\ stepped' = {}

BeginWindow(manifest, uid, window, run) ==
    BeginTask(manifest, uid, window, run, model) /\ UNCHANGED model

\* One microbatch on every rank.  The experts are behind a collective of their
\* own: a rank's experts see the tokens of all ranks.
Microbatch ==
    /\ progress.stage = "micro"
    /\ LET batch == Evaluated([r \in Ranks |-> Batch(r, progress.step, progress.micro)])
           view  == Evaluated([r \in Ranks |-> View(model, r)])
           local(r, n, i) ==
             IF n \in ExpertNames
             THEN SumOf([q \in Ranks |->
                    SumOf([p \in batch[q] |-> Backward(n, view[q], p)[Offset(n, r) + i]])])
             ELSE SumOf([p \in batch[r] |-> Backward(n, view[r], p)[i]])
       IN  /\ grads' = [r \in Ranks |-> [n \in ParamNames |-> [i \in DOMAIN grads[r][n] |->
                            grads[r][n][i] + local(r, n, i) \div Accum]]]
           /\ loads' = [r \in Ranks |-> [e \in Experts |-> loads[r][e] +
                            SumOf([p \in batch[r] |-> Dispatch(view[r], p)[e]])]]
    /\ progress' = [progress EXCEPT !.micro = @ + 1,
                                    !.stage = IF progress.micro + 1 = Accum THEN "reduce" ELSE @]
    /\ UNCHANGED <<model, task, adam, stepped>>

(* Faulty variant: the norm of the rank's own experts.                     *)
ExpertNormUnreduced(r) == NormOver(ExpertNames, grads[r])

\* The experts' part of the gradient norm, summed over the ranks.
ExpertNorm(r) == SumOf([q \in Ranks |-> NormOver(ExpertNames, grads[q])])

\* flat_grad_all_reduce, then the clip.
Reduce ==
    /\ progress.stage = "reduce"
    /\ LET mean == [n \in Shared |-> [i \in DOMAIN grads[0][n] |->
                      SumOf([r \in Ranks |-> grads[r][n][i]]) \div world]]
           norm(r) == ExpertNorm(r) + NormOver(Shared, mean)
       IN  grads' = [r \in Ranks |-> [n \in ParamNames |->
                        ClippedBy(norm(r), IF n \in Shared THEN mean[n] ELSE grads[r][n])]]
    /\ progress' = [progress EXCEPT !.stage = "bucket"]
    /\ UNCHANGED <<model, task, adam, loads, stepped>>

\* Zero1Adam.step up to its broadcasts: rank r updates what it owns.
StepBucket(r) ==
    /\ progress.stage = "bucket" /\ r \notin stepped
    /\ LET lr == LrOf(Phase, task.run, progress.step)
       IN  adam' = [adam EXCEPT ![r] = [n \in Owned(r) |-> AdamStep(adam[r][n], grads[r][n], lr)]]
    /\ model' = [model EXCEPT ![r] = [n \in Names |->
                    IF n \in Owned(r) THEN adam'[r][n].master ELSE @[n]]]
    /\ stepped' = stepped \cup {r}
    /\ UNCHANGED <<task, progress, grads, loads>>

(* Faulty variant: the tokens the rank dispatched itself.                  *)
StepLoadUnreduced(r) == loads[r]

\* _all_reduce_loads.
StepLoad(r) == [e \in Experts |-> SumOf([q \in Ranks |-> loads[q][e]])]

(* Faulty variant: the planned microbatches are counted, not those run.    *)
TokensCountedPlanned == progress.tokens + Phase.accum * Phase.microbatch * world

TokensCounted == progress.tokens + Accum * Phase.microbatch * world

\* MoeHealth.post_step, of one rank's copy: the loads are those of all ranks.
PostStep(r) == [n \in BiasNames |-> BalanceBias(model[r][n], StepLoad(r))]

\* The broadcasts of the shared parameters, the balance bias and the token
\* count; then the next step, if there is one.
FinishStep ==
    /\ progress.stage = "bucket" /\ stepped = Ranks
    /\ model' = [r \in Ranks |-> [n \in Names |->
                    IF n \in Shared THEN model[Owner(n)][n]
                    ELSE IF n \in BiasNames THEN PostStep(r)[n]
                    ELSE model[r][n]]]
    /\ progress' = [stage  |-> IF progress.step + 1 < Phase.steps THEN "micro" ELSE "done",
                    step   |-> progress.step + 1, micro |-> 0, tokens |-> TokensCounted]
    /\ grads' = NoGrads(model) /\ loads' = NoLoads /\ stepped' = {}
    /\ UNCHANGED <<task, adam>>

InnerStep == Microbatch \/ Reduce \/ FinishStep \/ \E r \in Ranks : StepBucket(r)

-----------------------------------------------------------------------------
(* The same window without ranks: one copy of every tensor, one sequential *)
(* loop over the global plan.  This is what a window is meant to compute.  *)

\* What the gradient of a step comes to: means over the microbatches, and over
\* the ranks for what every rank computes.
ReferenceGrad(now, pairs, s, a) ==
    LET seen(r, k, n, i) == SumOf([p \in pairs[r, s, k] |-> Backward(n, now, p)[i]])
    IN  [n \in ParamNames |-> [i \in DOMAIN now[n] |->
            IF n \in ExpertNames
            THEN SumOf([k \in 0 .. a - 1 |-> SumOf([r \in Ranks |-> seen(r, k, n, i)]) \div a])
            ELSE SumOf([r \in Ranks |-> SumOf([k \in 0 .. a - 1 |-> seen(r, k, n, i) \div a])])
                 \div world]]

ReferenceLoad(now, pairs, s, a) ==
    [e \in Experts |-> SumOf([r \in Ranks |-> SumOf([k \in 0 .. a - 1 |->
        SumOf([p \in pairs[r, s, k] |-> Dispatch(now, p)[e]])])])]

Optimized(opt, grad, norm, lr) ==
    [n \in ParamNames |-> AdamStep(opt[n], ClippedBy(norm, grad[n]), lr)]

AfterStep(whole, load, opt, tokens) ==
    [whole |-> [n \in Names |-> IF n \in BiasNames THEN BalanceBias(whole[n], load)
                                                   ELSE opt[n].master],
     opt |-> opt, tokens |-> tokens]

StepWith(at, grad, load, lr, tokens) ==
    AfterStep(at.whole, load, Evaluated(Optimized(at.opt, grad, NormOver(ParamNames, grad), lr)),
              tokens)

ReferenceStep(at, pairs, phase, run, s, a) ==
    StepWith(at, Evaluated(ReferenceGrad(at.whole, pairs, s, a)),
             Evaluated(ReferenceLoad(at.whole, pairs, s, a)),
             LrOf(phase, run, s), at.tokens + a * phase.microbatch * world)

ReferenceWindow(whole, pairs, phase, run) ==
    LET at[s \in 0 .. phase.steps] ==
          IF s = 0 THEN [whole |-> whole, opt |-> [n \in ParamNames |-> FreshAdam(whole[n])],
                         tokens |-> run.tokens]
          ELSE Evaluated(ReferenceStep(at[s - 1], pairs, phase, run, s - 1,
                                       StepAccum(phase, at[s - 1].tokens)))
    IN  at[phase.steps].whole

ReferencePairs(phase, manifest, uid, window) ==
    [r \in Ranks, s \in 0 .. phase.steps - 1, k \in 0 .. phase.accum - 1 |->
        MicrobatchPairs(manifest, uid, window, world, r, s, k)]

Reference(whole, manifest, uid, window, run) ==
    LET phase == ResolvePhase(manifest, window)
    IN  ReferenceWindow(whole, Evaluated(ReferencePairs(phase, manifest, uid, window)), phase, run)
=============================================================================
