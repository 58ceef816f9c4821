# MOK subnet: a TLA+ verification project

MOK trains one large model on a Bittensor subnet.  Time is cut into *windows* of
chain blocks.  In every window each miner trains from the same parameters
`theta_start(w)`, commits the hash of its update on chain, uploads the update
into its own bucket inside a short *upload gate*, and waits for the leader
validator to publish a signed *certificate* that names the updates that count.
Every node (miner, validator, auditor) then applies the certified updates as
one deterministic *outer step*.  The whole design rests on every replica being
bitwise equal, window after window, although nodes crash, restart from
checkpoints, lag, and read a chain that only remembers the last commitment of
each miner.  That is what this project models, checks and proves first; around it stand
the modules of what a window computes, of trust and payment, of storage and
restarts, of joining a run, and of the data it trains on.

## 1. Inventory

| Part | Code | State it keeps | Operations | Modules |
|---|---|---|---|---|
| Miner | `subnet/miner/app.py`, `subnet/core/window_runner.py` | replica, `self.window`, counters, error feedback, local checkpoints | train, gate wait, two-phase publish, certificate wait, live apply, recover, clean stop, restart | `WindowProtocol`, `Training` |
| Validator (leader, follower) | `subnet/validator/app.py`, `leader.py` | replica, `validator_state.json`, checkpoints, certificates and mirrors in its bucket | process a window, certify, mirror, save, apply, checkpoint, probe, score, skip ahead | `WindowProtocol`, `Rollback`, `Sanctions`, `Snapshots` |
| Auditor | `subnet/auditor/app.py`, `subnet/core/replay.py` | replica, state file, audit reports | follow, sample, replay one miner's window, report | `WindowProtocol`, `Audits`, `Training` |
| Catch-up, checkpoints | `subnet/core/checkpoint.py` | checkpoint directories, remote copies | `catch_up`, save, upload, prune, load newest | `WindowProtocol`, `Snapshots` |
| Exchange | `subnet/core/exchange.py` | objects in buckets | put and gather of payloads, certificates, mirrors, reports, slices | `WindowProtocol`, `Gather`, `Audits`, `Training` |
| Chain | `mok_core/chain`, `subnet/miner/bootstrap.py` | one commitment slot per uid with its history, stakes, head block, caches by uid | commit, read slots and history, windows and gates, leader resolution, weights | `WindowProtocol`, `Launch`, `Scoring` |
| Rollback | `subnet/core/rollback.py`, `leader.py:170-253` | loss baseline, vote state machine, votes in slots | observe, alert, vote, expire, activate, give the owner's slot back | `Rollback` |
| Trust | `slashing.py`, `scoring.py`, `overlap.py`, `audit_ingest.py`, `weights.py` | ledger, ratings, EMA, weights | sanctions, naughty spans, audit quorum, scores, weights | `Scoring`, `Sanctions`, `Audits` |
| Storage, shard cache | `mok_core/storage`, `mok_core/data/download.py` | objects, `.part` files, cached shards, pins | put, resumable get, prefetch, evict, scan | `ShardCache`, `Snapshots` |
| Data assignment | `mok_core/data/assignment.py`, `subnet/core/window_dataset.py` | none | shards, order, stripes, receipts, evaluation pools of a window | `Schedule` |
| Manifest | `mok_core/config`, `subnet/core/phase.py` | static, amended by the owner | phase table, void ranges, amendments, publication | `Schedule`, `Launch` |
| Training core | `inner_loop.py`, `zero1.py`, `moe_health.py` | parameters by rank, optimizer slices | microbatches, collectives, sharded AdamW, bias update | `InnerLoop`, `Training` |
| Numerics on the wire | `compress.py`, `payload.py`, `outer_opt.py` | error feedback, outer momentum | top-k, packing, quantizing, frame, structure check, outer step | `Compression`, `Payload`, `Gather` |
| Fleet | `fleet/attestation`, `fleet/onboarding` | challenge and answer | attest, onboard, publish the initialization | `Attestation`, `Launch` |
| Data preparation | `dataprep` | spools, token files, shards, indices, manifest | download, dedup, tokenize, shard, verify, upload | `DataPrep` |
| Telemetry, anneal, SFT, RL, release | `subnet/core/telemetry.py`, `anneal`, `sft`, `rl`, `release` | files | batch jobs, logs | none |

**Interaction.**  Nodes never talk to one another.  They share the chain
(commitment slots, stakes, head) and the buckets (payloads by miner,
certificates, mirrors and checkpoints by leader, reports by auditor).  Each
process is one asyncio loop, with writer threads for shards; a miner may be
several ranks that meet in collectives.  Between two awaits of one process any
other process may have moved.

**What is hard, and what makes each part correct.**

* *A slot is overwritten.*  A node has one commitment slot.  Whoever reads the
  commits of an old window reads what is left of them; whoever looks for bucket
  credentials finds them in the history, if at all.  Correct: no payload that
  made the gate is lost, however late the leader looks; credentials found for a
  uid are that uid's own.
* *A missing certificate has three meanings*: not yet, never, or an empty
  window.  Correct: an observer never processes a window from another theta than
  the certified one.
* *theta is replaced in place* by catch-up, and attempts fail half way.
  Correct: a replica may be behind the certified lineage, never beside it.
* *The leader crashes* between publishing, mirroring, saving, applying and
  checkpointing.  Correct: certificates form one chain and never change.
* *Leadership moves* with stake; each leader has a bucket of its own.
  Expected of the code: no window has two certificates.
* *A window is computed twice*, live on the ranks of a miner that carries
  counters, momentum and an optimizer, and by a replay that has only the
  manifest and theta_start.  Correct: the two agree.
* *A validator's memory is saved at two points of a window.*  Correct: no crash
  pays a miner within its sentence or takes a sentence back; a validator that
  has a checkpoint of its own counts no window twice.
* *Audit verdicts come late and from few.*  Correct: no honest miner is
  sentenced while fewer auditors than the quorum are broken.
* *Checkpoints are several objects* under a listing, overwritten and voided
  while others read.  Correct: a node runs on one checkpoint, not on a mixture.
* *Ranks share a directory* but not their caches.  Correct: no reader believes a
  short file.
* *Offline stages are killed and rerun* in either of two layouts.  Correct: what
  is committed is the corpus.

PROJECT.json lists every hazard with its line and the properties that cover it.

## 2. Modules

| Module | Models |
|---|---|
| `CertifiedLog` | the abstract specification: one growing log of parameter states; replicas walk it entry by entry, fail, and rejoin anywhere in it |
| `WindowProtocol` | miners, validators, auditors, chain, gate, buckets, checkpoints, crashes: the lockstep protocol |
| `LeaderHandover` | `WindowProtocol` with a stake that moves: one more action on top of its `Next` |
| `Rollback` | loss-spike detector, stake-weighted vote, activation, the owner's slot, save and restart |
| `Scoring` | the arithmetic of scores: losses, indicators, EMA, index overlap, sync score, ranks, u16 weights (pure) |
| `Sanctions` | a validator's trust pipeline over `Scoring`: evaluation, ledger, weights, ingest, saves, crashes |
| `Audits` | commits, auditors at their own pace, verdicts, ingestion under a quorum |
| `ShardCache` | the caches of a node's ranks over one directory |
| `Snapshots` | checkpoints from the leader's save to a starting node's replica |
| `DataPrep` | the `mok-data` pipeline with kills and reruns |
| `Launch` | publishing a run, onboarding, bucket discovery, boots and relaunches |
| `Schedule` | phase table, amendments, assignment of sequences, counters, evaluation pools (pure) |
| `Compression` | chunking, top-k, 12-bit positions, 2-bit values (pure) |
| `Payload` | over `Compression`: ownership by rank, the frame, its reader and check, the merge and the Nesterov step (pure) |
| `Gather` | over `Payload`: the leader's mirror object, fetches and their checks (pure) |
| `InnerLoop` | over `Schedule` and `Payload`: a window's training on several ranks, and `Reference`, the same without ranks |
| `Attestation` | over `InnerLoop`: challenge, answer, verdict |
| `Training` | over `Attestation` and `Gather`: the miner from window to window, and the attested node |
| `MC...` | the instances TLC checks; `Snapshots` and `Launch` are instantiated by their cfg alone |
| `...Proofs` | theorems of `WindowProtocol`, `Rollback`, `Audits`, `Sanctions`, `ShardCache`, `Snapshots`, `Training`; `OperationsProofs` those of `Launch` and `DataPrep` |

The protocol modules compose by abstraction: each replaces what another one
models in detail by what that one shows.  `WindowProtocol` takes an outer step
as one entry of a sequence and a payload as valid; `Training` computes both and
takes the certificates as given.  `Audits` ends where a sentence begins, and in
`Sanctions` an ingest may bring any sentence.  `Snapshots` opens the upload and
the download that are atomic in `WindowProtocol`.  Definitions introduced by
"Faulty variant" or named for what they forget (`ScanUnread`, `BeginUnpinned`,
`FreshInitNever`...) are what a bug in the code would make of an operation; no
specification uses them.

### WindowProtocol: state and code

| Variable | In the code |
|---|---|
| `head`, `gateOpen` | `chain.current_window`, and whether now is before `boundary_ts(head) + upload_grace_s` |
| `slot[m]` | the `WindowCommit` in the miner's commitment slot (window and state root) |
| `objects` | payloads stored with a timestamp that passes `gate_check` |
| `leader` | what `resolve_leader_uid` returns |
| `certs[v][w]`, `mirrors[v]` | `certificate_key(w)` and the aggregator object in v's bucket |
| `ckpt[n]` | newest local checkpoint: `next` is `meta.window + 1` |
| `saved[o]` | `window` of the state file, 0 if there is none |
| `pc[n]`, `window[n]`, `theta[n]` | where the process is, `self.window`, the replica |
| `catchup[n]` | the running `catch_up(from_window = lo - 1, to_window = to)` and the window it has reached |
| `views[v]` | the valid in-gate commits `_gate_and_fetch` returned |
| `ran[m]` | `completed_windows > 0` |

The parameters are the *sequence of outer steps* that produced them.  Two
sequences are equal exactly when the hashes are (`state_root` hashes the
parameters, the outer step is deterministic), and a step over an empty
certified set is the identity, in the code and here.

Actions, in the order of the code: `Tick` (a boundary or the end of a gate);
`StartWindow`, `CheckGate`, `CommitWindow`, `UploadPayload`, `ApplyLive`,
`Desync`, `Recover` (a miner's window: `run_window`, `_publish_and_gather`,
`put_window_payload`, `_recover`); `ProcessWindow`, `PutCertificate`,
`PutMirror`, `SaveState`, catch-up over the one window, `LeaderCheckpoint`
(an observer's window: `process_window` (a), (b), (e), (g)); `SkipAhead`;
`CatchUpApply`, `CatchUpEmpty`, `CatchUpPending`, `CatchUpError`,
`CatchUpIOError`, `CatchUpDone` (one window of `catch_up` and its exits, with
the retry loops of the three applications around them); `Crash`,
`GracefulStop`, `StopObserver`, `RestartMiner`, `RestartValidator`,
`RestartAuditor`.  The definitions commented "Faulty variant" are what a bug in
the code would make of an action; no specification uses them.

### WindowProtocol: what is abstracted

* A commit is read together with the certificate of its window in one step of
  `catch_up`; interleavings lie between windows, and between the steps above.
* Leader credentials are read at the start of a call; only `LeaderHandover` lets
  them change.
* The upload and the download of a checkpoint are atomic (`Snapshots` opens
  them), and a node without a checkpoint finds the leader's newest one.
* A payload is valid or absent (`Gather` has the others); the reserve list that
  backfills for invalid ones, and reads that fail while the leader gathers, are
  left out.  The order of scores is any order.
* A put of a certificate that raises ends the process: it is a crash.
* Warm-up and void windows, phase restarts and debug slices are in `Training`;
  deregistration, self-leader local runs and telemetry are left out.
* Time: only the order of boundaries, gates and steps.  The wait budgets of the
  code (`cert_timeout_s`, `patience_until`) become "a miner may time out once
  the gate is closed" and "a catch-up that failed may be retried or raised".

### Rollback: state and code

`machine[v]` is the `RollbackStateMachine` (state, alert, target and activation
window, voters and their summed stake), `spike[v]` the `SpikeDetector`'s deque,
`probes[v]` `self.probe_losses`, `slot[u]` the one commitment of a uid
(`ManifestCommit`, `VoteCommit`, or neither), `slotLent`
`leader._owner_slot_holds_vote`, `disk[v]` the part of `validator_state.json`
that matters here, `ckpts[v]` `checkpointer.local_windows()`.  A processed
window is three steps, cut where the code awaits and a crash matters:
`ProcessWindow` ((a) to the save in (e)), `LeaderProbe` or `FollowerProbe` (up
to (g)), `FinishWindow` (the save in (j)).  `LeaderProbe` is all of
`maybe_checkpoint` and `observe_probe_loss`, which is synchronous: detector,
own vote, ingest of every slot in uid order, expiry, activation, and the
ManifestCommit put back (a chain call that may fail).

Replicas are in lockstep, which `WindowProtocol` is about, so a window has one
probe loss here; catch-up and alignment appear only as "the window has a
certificate".  The probe loss is a small integer: the code compares it with a
median, and only the order of losses matters.  `vote_supermajority` is taken
as two thirds.  The owner's amendment of the manifest is made by hand, outside
the code: after an activation the model relaunches with the old manifest.

### Audits: state and code

| Variable | In the code |
|---|---|
| `head`, `slot[m]` | the chain head; the miner's newest `WindowCommit`, and whether its `synced` root is the agreed one |
| `tagged` | auditors whose slot holds `AUDITOR_COMMITMENT` |
| `apos[a]`, `bucket[a]` | the auditor's next window; the verdicts it published |
| `vpos`, `pc`, `convicted`, `saved` | the validator's next window, where it is in it, the audit sentences in memory and in the state file |

`Commit`, `CloseWindow`; `StartAuditor` (tag, then follow from the checkpoint
that `materialize_replica` found, which may be several windows behind the head);
`Audit` (`process_window`: tasks from the live chain, wall budget, uploads that
may fail, a precondition that raises and ends the process before it moves on);
`Process`, `Ingest`, `SkipAhead`, `BucketOutage`, `Crash`, `Restart` (the
validator's saves and what it ingests).  `Dealt` is `audit_sampler`; which
positions are drawn is the parameter `Sampled`.  A replay is its verdict: it
mismatches on a cheat, or when the auditor itself is broken.  That a replay of
an honest window matches is `HonestWindowsReplay` of `Training`.

### Scoring and Sanctions: state and code

`Scoring` translates `scoring.py`, `overlap.py` and `weights.py` with fractions
and fixed point instead of floats: the indicator of a miner from four losses,
the EMA, the overlap of top-k positions of two payloads and who of the two
copied, the sync score, the ladder of shares and its u16 rounding.  What
OpenSkill returns is any ordinal in `Skills`.

`val` is the validator's memory as far as `ValidatorState`, `SlashLedger`,
`BinaryEMA` and `OpenSkillBook` keep it (`window`, `top` the highest window ever
begun, `since` the weights counter, EMAs, ratings, missing escalators, naughty
list, records, scored miners), `disk` the same in `validator_state.json`, `work`
what lives within one window, `ckpt` whether a checkpoint of its own exists,
`lastDue` the last window `submit_weights` was called at.  Beside its value, an
average has a history variable, `counted`: the windows it holds that were
evaluated when there was a checkpoint.  No action reads it; `FoldedOnce` does.

`Process` is (a) to (e) with its save, `Score` (f) to (h), `Ingest` (i) and (j)
with its save; `SkipVoid` passes over a window the manifest voids; `SkipAhead`
is the silent catch-up of a validator that lags and does not lead.
`BucketOutage` and `Crash` end the process between two steps, `Stop` (SIGTERM,
`max_windows`) between two windows, with a save.  `Restart` is
`ValidatorState.load` and `load_latest`, which finds checkpoints only where this
validator saved them: without one it starts over at window 0.  Who leads is
asked anew each time it matters, so it may change between any two steps: a
validator far behind may process or skip, and after a window on the cadence it
may have a checkpoint (`Checkpointed`) or not.

### ShardCache: state and code

`up`, `resident`, `pinned` are a rank's `ShardCache` (scanned, LRU order, pins),
`job` and `task` its two `prefetch` calls and their per-shard tasks, `thread`
the writer threads, which outlive a cancelled task, `file` and `tmp` the shared
directory.  `Scan`; `Begin`, `Check`, `Fetched`, `FetchFails`, `Install`,
`Returns`, `Raises` (a prefetch, task by task); `Open`, `Fill`, `Replace` (a
writer thread: truncate, write, rename); `NextWindow`; `NodeDown` (all ranks
are killed at once, as torchrun does).  Rank 0 alone prefetches the next window.

### Snapshots: state and code

`line`, `next`, `void` are the history: a rollback starts a new line.  `lead`
and `leadDisk` are the leader's upload in progress and its local checkpoints,
`remote` the objects under the checkpoint prefix, `read`, `part`, `readDisk` the
starting node's download, its `.part` files and local checkpoints, `replica`
what it runs on.  `Save` (with prune), `Put`, `PutFault`, `LeadCrash`,
`Rollback`; `LoadLocal`, `List`, `StartDownload`, `GetRange`, `NextFile`,
`Install`, `GetFault`, `FreshInit` (the order of `materialize_replica`),
`NodeCrash`.  When the last retry of a download fails, `GetFault` goes on to the
next older checkpoint or ends the boot, as the kind of error decides.  Contents
are compared, not hashed, because the code does not hash them.

### DataPrep: state and code

`stage`, `up`, `flags` are the command, whether it runs, and its flags; `job`
its concurrent units with their progress, `spool` the spool directories with
`state.json`, `split` the worker layout, `tokens`, `disk`, `metas`, `index`,
`ref`, `remote` the files of the later stages.  `Begin`, `Discard`, `Prepare`,
`Refuse`, `Commit`, `Record`, `End` are a spooling command (download, dedup), part by
part (`Discard` removes a single-stream spool, `Prepare` writes `meta.json`; a kill
may fall between the two); `BeginTokenize`, `Open`, `Flush`, `Shard`, `Manifest`, `Verify`,
`BeginUpload`, `Put` the others; `Kill`, `WorkerFails`, `PutFails` the faults.
A document is the class of texts that are equal after normalisation.  `Kept` and
`Read` are the sequential deduplication and what a stage reads of a source;
`Survivors`, `Offset` and `KeepMask` the two parallel passes, `Chunked` the part
groups of a parallel tokenisation, refused above `MaxChunks` chunks of a source.
Readers find the spools of workers by two digits, so `Workers <= MaxNamed` is an
assumption.  The module's specification has the prefix
`Prep` (`PrepSpec`, `PrepTypeOK`...), since `OperationsProofs` extends it beside
`Launch`.

### Launch: state and code

| Variable | In the code |
|---|---|
| `head`, `hist[k]` | the last block; every commit the hotkey's slot has held |
| `reg[u]` | the hotkey that holds the uid on the chain |
| `posted` | what the owner's bucket holds: nothing, the init, a `manifest.json` |
| `pc[n]`, `want[n]`, `running[n]` | where the boot is, the hash it read from the chain, the manifest it runs under |
| `mg[n]`, `cache[n]` | the metagraph and the bucket credentials its `ChainClient` holds |
| `holdsVote` | `leader._owner_slot_holds_vote` |

`Onboard` (`ensure_bucket_committed`), `UploadInit`, `CommitInit`,
`PostManifest`, `CommitManifest`, `Reregister` (the owner, operators and the
chain); `BootHash`, `BootBucket`, `BootFetch`, `Stop` (`bootstrap`);
`CommitWindow`, `TagAuditor`, `CastVote`, `RestoreManifestSlot`, `Discover`
(running nodes); `Block`.  Every commit lands in a block of its own.

### Training and the modules below it: state and code

`Schedule`, `Compression`, `Payload` and `Gather` are pure: operators named as
the functions they translate (`PhaseAt`, `RunStateAt`, `ShardIds`,
`SampleOrder`, `Stripe`, `AssignOwned`, `Serialize`, `Deserialize`,
`ValidateStructure`, `OuterApply`, `FetchCertified`...).  A tensor is a function
from positions to small integers; a hash is the thing hashed.

`InnerLoop` is one window of training on `world` ranks: `model[r]` (a rank's
view: shared tensors whole, its slice of the experts), `grads`, `loads`, `adam`,
`task` and `progress`.  `Microbatch`, `Reduce`, `StepBucket(r)` (each rank steps
the tensors it owns and broadcasts them, at its own pace) and `FinishStep`.
`Reference` is the same window without ranks, the definition the run compares
it with.

`Attestation` keeps `exam`: the challenge asked, the one the node holds, the
answer, the clock, the verdict.

`Training` adds the miner:

| Variable | In the code |
|---|---|
| `role`, `protocol` | a miner or a node under attestation; `protocol_world_size` |
| `posted`, `mine` | the manifest on the chain, and the one the process read at its start |
| `pc`, `window`, `run`, `warmup` | where the loop is; `self.window`, the `RunState` counters, the warm-up windows left |
| `momentum`, `ef` | of the outer step; the error feedback buffers |
| `start`, `frame` | the snapshot of theta_start; the payload built for this window |
| `bucket`, `slices` | the last payload and debug slices published |
| `lineage[w + 1]` | theta_start(w), its momentum, and the certificate and mirror it came from |

`Start`, `Crash`, `LeaveWindow` (a phase that needs a restart, a
plan that does not fit the dataset, a root that raises), `TrainWindow` and `Train` (the inner loop),
`BuildPayload`, `Publish`, `Join` (gather and outer step), `Desync`, `Recover`
(catch-up over what it missed), `Certify` (the leader, with or without the
miner's payload, which it takes only if it is valid), `Amend` (the owner);
`Attest`, `Answer`, `Examine`.

`MCTraining` gives the parameters: four tensors (a 3 x 1 matrix that fills two
2 x 2 chunks in part, a router row, two experts, their bias), two inner steps of
at most two microbatches, four shards, and `Backward` and `Dispatch` as integer
functions that depend on the parameters and the tokens.

## 3. Runs

| Run | Instance | Shows |
|---|---|---|
| `two_miners` | 2 miners, the leader, 1 place in the certificate, windows 0..2, 1 fault | certificates form one chain from theta_init (`CertificateChain`); an in-gate payload is in the certificate unless the certificate is full (`NoInGatePayloadLost`); a published certificate never changes (`CertificatesImmutable`); no replica is beside the lineage, also where two committed roots tie (`OnCertifiedLineage`) |
| `followers` | 1 miner, leader, follower, auditor; backlog limit 1, checkpoint every 2 | an observer that processes a window holds the certified theta_start of it (`ObserversInLockstep`); no replica is beside the lineage (`OnCertifiedLineage`) |
| `replicas` | 1 miner, leader, follower, 2 faults | the protocol implements `CertifiedLog` (`ImplementsCertifiedLog`) |
| `handover` | two validators, one change of stake | *violated*: `NoForkedCertificates` |
| `rollback` | validators 0 (the owner) and 1, two stake distributions, windows 0..3, checkpoint every 3, 1 fault, 1 change of stake | a pending rollback has a supermajority of distinct voters (`PendingBacked`); a crash loses no saved vote (`OpenVotesSurvive`); the checkpoint to rewind to outlasts the vote (`RewindTargetOnDisk`) |
| `audits` | 2 miners, one a cheat, one that may drift off the lineage; 3 auditors, one broken; quorum 2; windows 0..2, checkpoints at 0 and 2 | no honest miner is sentenced (`NoFalseConviction`); a sentence rests on a quorum's verdicts about that miner and window, saved or in memory (`SentencesRestOnAQuorum`) |
| `sanctions` | 2 miners, windows 0..3 with window 1 void, at most 2 sentences of 3 windows, weights and checkpoints every 2 windows, skip after 2, 1 fault | no weights pay a miner within its sentence (`SentenceServed`); once it has a checkpoint of its own, a validator counts each window it evaluates once in the EMA (`FoldedOnce`); the state file takes no sentence back (`SentencesKept`) |
| `shard_cache` | 2 ranks, 3 shards, budget 2, windows 1..3, 1 kill or failed fetch | what a kill left short is gone before any prefetch (`TornOnlyUntilScanned`); no rank drops a shard a prefetch of its own wants, while two windows share none (`PinnedNeverEvicted`) |
| `snapshots` | windows 0..3, checkpoint at each, 2 kept, a tar of 2 ranges, 3 faults, 1 rollback | a node runs on one checkpoint (`RestoredWhole`); once faults stop it runs (`RestoreEnds`) |
| `dataprep` | 2 sources that share a class, repeat one and hold a blank; 0 or 2 workers in every stage; 2 faults | spools hold each stream once (`SpooledOnce`); what is committed is the deduplicated corpus (`CommittedIsTheCorpus`); a published dataset is complete (`PublishedWhole`); the pipeline ends (`PipelineEnds`) |
| `launch` | the owner and one node that is miner and auditor and may be replaced; 2 manifests, 2 versions of credentials, 4 blocks | nodes run under committed manifests (`RunsCommitted`); credentials found are the uid's own (`CredentialsAreTheUids`); onboarding buries no role's commit (`BucketsComeFirst`); nodes come up once the run can be joined (`NodesComeUp`) |
| `training` | a miner of one rank, one of two, a two-rank attested node; windows 0..2, one relaunch, one amendment of each kind | ranks and nodes stay in lockstep (`RanksInLockstep`); a trained window is what a replay computes (`HonestWindowsReplay`); counters are those of the manifest (`CountersAreConsensus`); every frame built is valid and means the same to its readers (`FramesReceivable`) |

Each module has one type invariant, `TypeOK` (`PrepTypeOK` in `DataPrep`), in the
run of its component.

Every other cfg states a sentence of the documentation, a comment or a docstring
that the code does not keep; TLC finds each violated:
`tlc -config X.cfg M` for the module `M` of the component.

| Configuration | Violated | What it means |
|---|---|---|
| `WindowProtocolClaims` (leave one property at a time) | `MinersInLockstep`, `MirrorPersists`, `CheckpointsLabelled` | A miner behind the head recovers up to `head - 1` although the gate of that window may still be open.  With no commit yet, `catch_up` takes it for an empty window.  If another miner then commits in time, the first one trains on a theta that is not theta_start and loses its window.  Observers wait for the gate (`ObserversInLockstep` holds).  A leader that dies between the two puts adopts its certificate after the restart and skips the mirror; catch-up over that window is then impossible, for the leader too.  A clean stop between two attempts of a recovery writes a checkpoint with the wrong label. |
| `UnreadableCertificate` | `CertificatesImmutable` | A certificate is rewritten because its read failed for another reason than absence. |
| `Handover` (a run) | `NoForkedCertificates` | Two certificates for one window after leadership moves to a lagging validator. |
| `RollbackClaims` (leave one property at a time) | `OwnerCanReturn`, `VotesFresh` | The owner-validator's vote takes the place of the ManifestCommit, and only the running process knows that it must give it back.  If it goes down first, no node can bootstrap until someone commits the manifest by hand.  A vote left from an expired alert on the same checkpoint counts for the next. |
| `QuorumOutOfReach` | `CaughtByQuorum` | The sampler deals a miner to one auditor, so auditors that see the same chain never make a quorum. |
| `SanctionsClaims` (leave one property at a time) | `WeightsOnCadence`, `ResumesBehindNothing`, `ZeroFromStart` | An unreachable auditor bucket ends every window before its counter is saved, and weights are never due; a validator that restarts without a checkpoint of its own (a follower, or a leader before its first) evaluates windows its EMA already holds; the first window of an audit sentence has been paid when the sentence arrives. |
| `ShardReaders` | `ReadersFindShards` | Two ranks share one tmp name per shard: one truncates what the other renames. |
| `PinsShared` | `PinnedNeverEvicted` | Pins are one set: the first of two prefetches to end unpins what the other wants. |
| `OwnerIsLeader` | `RestoredWhole` | Where the owner leads, its first checkpoint overwrites the published init object by object; a node reading then mixes the two. |
| `VoidRestored` | `RestoredNotVoid` | A node that starts after a rollback loads the newest checkpoint of the voided line. |
| `MixedDedup` | `CommittedIsTheCorpus` | A command finished in the other layout commits documents twice; with `DownloadFlags` and `SpooledOnce`, or `TokenizeFlags`, the same at the neighbouring stages. |
| `LaunchClaims` (leave one property at a time) | `OnboardingSucceeds`, `RunningFollowManifest`, `OwnerStaysReachable`, `NoChimera`, `BucketsComeFirst`, `VoteRestoresManifest` | The documented onboarding order cannot succeed; running nodes do not follow an amendment; the history walk has an end; bucket names come from a metagraph read once; a slot that cannot be read counts as empty; a vote restores the manifest of the leader's own boot. |
| `OneRank` | `CountersAreConsensus` | A miner of one rank in a run whose protocol world size is larger carries other counters than the ones derived from the manifest. |

PROJECT.json quotes the sentences, and has the disagreements met while
translating that no run is needed for.

**Bounds.**  In `WindowProtocol`, `MaxWindow = 2` gives three windows: one to
certify, one whose commits overwrite its slots, and one more for the leader to
lag behind or for a recovery to span; a lag of two windows is what overwriting a
slot takes.  `MaxFaults` is one budget for crashes, clean stops and I/O failures;
one fault reaches every crash point of the leader, two are needed when a process
fails while it recovers from the first.

In `rollback`, `MaxWindow = 3` reaches an alert in window 1 against the
checkpoint of window 0, a vote that activates or expires, and the next
checkpoint, which prunes.  `CheckpointEvery > VoteSpan + ActivationDelay` as in
the default configuration (10 > 3): a vote then meets at most one new
checkpoint, which is why `KeepLocal = 2` is enough.  One identity window
(`MaxIdle`) and one change of stake are enough for each to fall at every point
of a vote.  In both distributions the total is 11: the owner carries a vote
alone (8), or the leader needs the other's vote (5 and 4).

In `audits` the three windows are one to audit, one for the deadline to pass and
one more for a skip or an auditor that joins late.  In `sanctions` a sentence of
three windows begins, is served in the next window that is not void, and may meet
a second one; windows 0 and 2 are on the checkpoint cadence, so a crash meets a
validator before, between and after its checkpoints, and a lag of two windows
(three in the code) lets it skip before the first of them and after.  The first miner may do anything in a window, the second uploads
well, which is enough for a copy between the two and for every rank of the ladder.
The three uploads are an original, one that shares six tenths of its positions,
and one of another shape.  In `shard_cache` a budget of two for three shards
makes every install of a third one evict, and shards are symmetric: nothing
tells them apart.  In `snapshots` three faults abandon an upload, break the
download of what it left, and break it again; two checkpoints are kept of four.
In `dataprep` the flags of a command are any at its first run and the same at
its reruns (`Steady`), which is what the command's help asks for; `MixedDedup`
lets them change.  In `launch` four blocks are the owner's bucket, manifest, an
amendment and one commit of a node that overwrites its bucket, in any order the
code allows; the walk reaches two blocks and two hops back, so that it can fall
short.  In `training` two windows with a certificate follow each other, so that
counters, momentum and error feedback of the first are visible in the second;
the learning rate and the accumulation ramp both move within them.

Deadlock is not checked: the head stops at its bound, every process then waits
for a boundary that never comes, and an offline pipeline ends.

**Fairness.**  Three liveness properties are checked, each under what the code or
its deployment files give:

* `RestoreEnds` under `WF_vars(Restore)`: the starting node's event loop runs,
  and a failed boot is relaunched (`compose.yml`).  Leader steps, uploads and
  faults are not fair; faults are bounded.
* `PipelineEnds` under `WF_vars(Step)`: a command that was started runs, and the
  operator reruns one that failed, as the resumable stages are documented.
* `NodesComeUp` under `WF_vars(BootHash(n))` and strong fairness of
  `BootBucket(n, FALSE)` and `BootFetch(n)`: a refused boot is relaunched, and
  failed history reads and crashes do not strike every boot for ever.  Strong,
  because a crash may take a boot back before each of its next steps.

No such property is stated for the window protocol.  The code's waits are
unbounded on purpose (a miner waits for a dead leader "however long it takes"),
and `MirrorPersists` (`WindowProtocolClaims`), `UnreadableCertificate` and
`OwnerCanReturn` (`RollbackClaims`) show states from which no fairness of the
processes leads on without an operator.

## 4. Proofs

All theorems hold for every value of the constants that satisfies the named
assumptions of the module.

`WindowProtocolProofs`, for any finite set of miners, any validators and
auditors, any bounds:

* `TypeCorrect`: `Spec => []TypeOK`.  `TypeOK` alone is not inductive (an
  observer's `window + 1` must stay a window): `TypeInv` adds `Bounds`, that a
  node past its gate has `window < head` and that a catch-up range ends below
  the head.
* `ChainCorrect`: `Spec => []CertificateChain`, `LineageCorrect`:
  `Spec => []OnCertifiedLineage`, and `ImmutabilityCorrect`:
  `Spec => CertificatesImmutable`, each under `~CertReadsFail`;
  `UnreadableCertificate.cfg` shows the assumption is needed.

The argument is the inductive invariant `LedgerInv`.  It says that only the
leader has certificates; that the leader's replica, checkpoint, saved window and
catch-up range all stand at a window whose predecessors are certified, so
whatever it publishes next extends the chain; and that every theta in memory or
on disk is a state of the certified lineage.  The delicate step is the one
the code comments on in `ValidatorApp.run`: the state file is saved before
the outer step, so a restart finds a window ahead of the replica; the
invariant needs that the leader catches up, over certified windows only, before
it processes anything.  There is one lemma per group of actions, a frame lemma
for the actions that do not touch the leader, and TLC checked `LedgerInv` on the
`replicas` instance before it was proved.

The second part of the module, on top of `LedgerInv` and under the same assumption:

* `RefinementCorrect`: `Spec => ImplementsCertifiedLog`.  The certified windows
  are the first `k` for some `k` (`Unbroken`; the chain alone only relates
  neighbours), so `PutCertificate` appends to the log, a replay or live
  application is an `Advance`, a crash a `Fail`, a start a `Rejoin`, and all
  else stutters.
* `PayloadsKept`: `Spec => []NoInGatePayloadLost`, and `ObserversCorrect`:
  `Spec => []ObserversInLockstep`.  The invariant `LockstepInv` says that a miner
  passes a window it uploaded for, in memory or on disk, only once that window is
  certified, so its slot shows the commit until the leader has read it.  Hence a
  window without commits whose gate has closed is empty for ever (`Quiet`), and
  a catch-up that takes it for empty is right even when the leader certifies it
  later.  TLC checked `LockstepInv` on the `followers` and `two_miners` instances
  first.

`RollbackProofs`, for any validators, stakes and spans:

* `TypesHold`, `PendingRollbacksAreBacked`: `Spec => []PendingBacked`, and
  `SavedVotesSurvive`: `Spec => OpenVotesSurvive`.  `RollbackInv` relates the
  machine of each validator to where it is in a window, to its state file and to
  its checkpoints: an open vote is about a checkpoint before its alert, voters
  are distinct and their stakes were held, whoever is past the save of (e) has a
  file of that window.  `Carried` says that the memory holds on to the vote of
  the file, or its deadline has passed; that is what a crash after any step
  falls back on.
* `RewindTargetsAreOnDisk`: `Spec => []RewindTargetOnDisk`, under
  `RetentionOutlastsVote`: the windows of a vote and its activation are fewer than
  `(KeepLocal - 1) * CheckpointEvery`.  The defaults give 2 + 1 < (2 - 1) * 10.
  `TargetsRetained` keeps the target on disk until a checkpoint past the last
  possible activation is there.

Both rest on `NoFileAssumption`: the mark for "no state file" is no state.

`AuditsProofs`: `NoFalseConvictionHolds`, `SentencesRestOnAQuorumHolds`,
`SavedSentencesStayHolds`, under `FewBroken` (fewer broken auditors than the
quorum) and finitely many auditors.  Buckets and tags only grow (`EvidenceGrows`),
an auditor that works mismatches on cheats only (`HonestBuckets`), and a quorum
has more members than there are broken auditors: one of it works.  The third
(`[][saved \subseteq saved']_vars`, proved only; `SentencesKept` says the same of the
ledger in the `sanctions` run) needs that what is saved is among the sentences in
memory whenever a step saves.
`TypesHold` adds that no auditor passes the gate it waits for and that verdicts
are about windows that were trained.

`SanctionsProofs`: `SentenceServedHolds` and `SentencesKeptHolds`.  `IInv` says
that the memory of a running validator covers its state file (`Covers`), that
each sentence on record is in the naughty list to its end (`OnRecord`), and that
weights exist only between `Score` and `Ingest`.  The first two make a restart,
which forgets everything since the last save, forget no saved sentence.
`FoldedOnceHolds`, from `FoldInv`: every window that was counted with a
checkpoint at hand is before the resume point, in memory and on disk, and as long
as there is no checkpoint none is counted.  The evaluation and the resume point
are saved together, so the state file keeps that relation, and a restart with a
checkpoint resumes where the file says.  Without one it resumes at window 0 with
the averages loaded, and `BinaryEMA.update` folds what it is given: the theorem
leaves those windows out, `ResumesBehindNothing` (`SanctionsClaims`) shows them.
`TypesHold` is the range of everything a window computes: multipliers are parts
of a whole, averages stay between their indicators, weights are positive u16s.
`TypeInv` adds that a validator never passes the head and has left window 0 when
it scores.  The scores are folds over payload positions and over the ladder; a
fold is shown to exist and to stay where its steps stay (`FoldExists`,
`FoldStays`), the ladder begins with its largest weight (`LadderFalls`), and
rounding against the largest keeps a weight within 65535 (`RoundedFits`).
`ScoringNumbersOK` asks that the gather share is not zero; a ladder of zeros
would divide by zero in the code too.

`ShardCacheProofs`: `TornOnlyUntilScannedHolds`.  A process that has not scanned
runs no prefetch and no writer (`DownIsIdle`), and short files without a writer
exist only before the first scan, in `tmp` names too (`TornAwaitsScan`).
`TypesHold` is from `CacheInv`, which adds that lists hold each shard once and
that a file in a writer's hands is the shard of that writer, who has it open.
`PinnedNeverEvictedHolds`, under `Disjoint` (windows in a row share no shard;
`PinsShared.cfg` shows it is needed): what a running prefetch wants is pinned
in its rank (`PinsHeld`) because the other prefetch of that rank unpins
other shards only (`Apart`), and the eviction loop takes unpinned shards only.

`SnapshotsProofs`: `TypesHold` and `NodesRunOnOneCheckpoint`
(`Spec => []RestoredWhole`), under `~Shared`: the owner is not the leader, so
nobody overwrites a published checkpoint (`OwnerIsLeader.cfg` has the mixture
otherwise).  `SnapInv`: what is in the bucket under a window that can be listed
comes from one save, parts already downloaded are of the checkpoint being read,
and a directory installed on disk is whole and of full size.

`OperationsProofs`, of `Launch`: `NodesRunCommitted`, from an invariant that carries the
commitment through the boot: the hash a boot has read stays in the history of
the owner's slot, which only grows, and `manifest.json` never goes back.
`BucketsStayFirst`, under `~UnreadOnboarding`: the newest commit of a slot tells
of all before it, so onboarding that can read it never buries a role's;
`LaunchClaims.cfg` shows the assumption is needed.  `TypesHold` and
`CredentialsHold` (`Spec => []CredentialsAreTheUids`) are from `CacheInv`: each
entry of a client's cache is vouched for by a commit of the hotkey that holds
the uid, as long as the metagraph the client went by is the chain's; the walk
through the history ends at the newest commit a block has (`LastOf`).

`OperationsProofs`, of `DataPrep`, for any sources, streams, budgets, part and
shard sizes, any number of faults, and up to a hundred workers (`MaxNamed`: a spool `w100`
would be written and counted, but `_WORKER_RE` does not find it again):

* `TwoPass`: the two-pass deduplication keeps of every source what one pass over
  the sources in priority order keeps.  Rows of units laid end to end record
  the reads of the sources (`RowsRecord`), a unit's offset is the length of all
  recorded before it (`OffsetIs`), a mask over a concatenation masks each list
  by its slice (`MaskedFlatten`), and the slice of the keep-mask at a source is
  the sequential decision (`SliceIs`).  `GroupsAre`: a parallel tokenisation's
  chunks, concatenated, are the source's documents (`ChunksFlatten`).
* `PrepTypesHold` (`PrepSpec => []PrepTypeOK`), from `SpoolInv`: besides the shape
  of the spools, that the tasks of a running command are the ones its inputs
  determine, that a source's writers are prepared together, and that the part a
  writer is about to record is the next of its input: a step of one writer must
  not change what another is going to write.
* `SpooledOnceHolds` (`[]SpooledOnce`), under `Steady`.  `OnceInv`: what a spool
  records is the beginning of its share (`Holds`); workers that have anything
  are within the split on disk and their source's own spool is empty; the
  writers that run are of that split; and a run without workers has split
  nothing, which is where flags that change would break it.
* `CorpusHolds` (`[]CommittedIsTheCorpus`), under `Steady`; `MixedDedup.cfg` shows
  that it is needed.  `CorpusInv` says for each command how far its output is the
  function of its input that it should be in the end: a deduplicated spool is a
  prefix of what its unit keeps and whole when complete, the spools no task
  writes are empty, a token file is a prefix of its text and whole when its task
  is done, the shards hold the corpus, the index is theirs.  `DedupedIs`,
  `DiscoveredIs` and `PackedIs` take it from one stage to the next in either
  layout.
* `PublishedHolds` (`[]PublishedWhole`), from `WholeInv`: verified shards stay in
  the directory and a put that is done is in the bucket, so that an upload that
  ends has left nothing out, however many of its puts failed before.

`Steady` is one of the constants: TRUE in `DataPrep.cfg`, where TLC checks the
same invariants on an instance, FALSE in `MixedDedup.cfg`.

`TrainingProofs`, for every model, schedule, gather and mirror, any number of
ranks, and any `Backward` and `Dispatch`:

* `TypesHold`: `Spec => []TypeOK`.  `TypeInv` has the shape of every tensor on
  every rank through inner steps, outer step, catch-up and restart.
* `RanksStayInLockstep`: `Spec => []RanksInLockstep`, under `AmendsForward`: a void
  range begins no earlier than the amendment takes effect.  Nothing in the code
  relates the two.  An owner who voids certified windows under running nodes
  takes windows out of a lineage they stand on; that is a rollback with its
  restart, and `Rollback` and `Snapshots` are about it.  `LineageInv`: every window of
  the lineage follows from the one before by the outer step over its
  certificate, as its payloads read back from their bytes, which also makes
  a catch-up arrive where the live step does.  `ReplicaInv`: a miner stands at
  the lineage's entry for its window, whatever it trained, missed, skipped or
  restarted from; no certified window is void in the manifest it runs under;
  published slices are those of the window's result.
* `CountersHold`: `Spec => []CountersAreConsensus`, under `AmendsForward` and
  `CountsItsRanks` (a miner of one rank runs where the protocol counts one;
  `OneRank.cfg` shows it is needed).  `Counting` follows the tokens through the inner
  steps of a window; the counters derived from the manifest are those of the
  window before plus what its inner steps count, in each phase of the schedule.

* `FramesAreReceivable`: `Spec => [](ScalesFit => FramesReceivable)`, under
  `AmendsForward` and `NumbersStayNumbers`: the initial model is of numbers and
  the conversions of the configuration (`Wrap`, `Decay`, `MomentumOf`) yield
  numbers, as every tensor of the program has a dtype.  `ScalesFit` is about the one bound the code does not
  keep by itself: `quantize` floors the scale of a tensor (`compress.py:300`) and
  `validate_structure` refuses one above `SCALE_CEIL`, so a miner whose
  error feedback grew that far builds a payload its readers reject.  The frame
  is receivable whenever no scale is above the ceiling, with nothing else
  assumed about gradients or peers.  `NumbersInv` is the layer it needs: theta,
  momentum, error feedback and model are functions from every index of a tensor
  to integers, and the miner's bucket and built frame are frames of payloads of
  such tensors (`Sent`).  It is inductive because a sent payload reads back as it
  was, what it decompresses to is of integers again, and clipping, merging and
  the momentum step of the outer step keep integers; a catch-up's reference
  window (`ReferenceIsNumbers`) likewise.
* The operators this rests on, for any arguments: `Packed12` and `Packed2` (12-bit
  positions and 2-bit codes unpack to what was packed, with clean padding bits),
  `PlacesAre` (each entry of a tensor, tiled or flat, is at one place of one
  chunk), `CompressIsSound` (the pairs a reader merges are the tensor the
  sender subtracted, padding left out; the result passes the structure check
  if its scale does), `WrittenReadsBack` (the decoder, reading tensors at
  offsets that add up, gets the payload the encoder wrote).

TLC checked these invariants on the `training` instance before they were proved,
but for the parts of `NumbersInv` that range over infinite sets.
What the counters, the outer step over a certificate and the schedule compute
are recursive functions over any length; the module gets what it needs of them
from a least counterexample (`LeastNatural`), after showing that the function a
definition chooses exists (`RecursionExists`).

**Only model-checked**: `HonestWindowsReplay` of `Training`.  It compares a
gradient summed over ranks and microbatches with one summed over all sequences of
a window, and the sharded optimizer with the replicated one: an induction over
folds of sets in which the order of the sum changes from one side to the other.
Out of the prover's reach are the liveness properties and `ENABLED`.

## 5. Not modelled

* *Telemetry, anneal, SFT, RL, release.*  Logs and single-process scripts that
  keep no state the network reads.
* *Wire formats below what a property tells apart*: JSON, zstd, signatures, the
  byte order, Merkle roots of shards and of the error feedback.  Hashes are the
  things hashed; collisions are left out.
* *Floating point.*  Losses, scores, gradients and norms are integers or
  fractions; orders, boundaries, rounding directions and widths (12-bit
  positions, 2-bit codes, u16 weights) are kept, real rounding error is not.
  Bitwise reproducibility on real hardware is for the repository's GPU tests.
* *Forward and backward passes, the router, Philox, OpenSkill*: parameters.
* *RPC sessions*: retries of one call and reconnects below the chain client's
  own answers.
* *Validators that read payloads badly while they gather for a certificate*, the
  reserve list, deregistration of miners in the middle of a window, self-leader
  runs.
* *Tokenizer training, sampled verification, the smoke profile* of `mok-data`;
  preflight, wallet creation, calibration of the fleet tools.
* *Code nothing calls*: `verify_certificate`, `schedule_reattestation`,
  `ErrorFeedback.reset` and `load_state_dict`, the ledger's inactivity event,
  `BinaryEMA.passes`.

One observation that breaks no stated promise: while the accumulation ramp
rises, a validator draws its own-data evaluation from the sequences of the whole
plan (`OwnPool`), of which the miner has trained only the first `accum_at`
microbatches per step.

## 6. What could follow

`HonestWindowsReplay`, from `SumSplits` (a sum over a set is the sum over its
parts) and an invariant that relates each rank's accumulated gradient to the
sequences it has seen.
