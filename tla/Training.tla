------------------------------ MODULE Training ------------------------------
(***************************************************************************)
(* A miner from window to window (subnet/miner/app.py over the training    *)
(* core of subnet/core/window_runner.py): it trains a window from the      *)
(* agreed parameters, puts them back, compresses what it learnt through    *)
(* the error feedback, publishes, and applies the outer step every node    *)
(* applies.  Around it, the leader certifies the window with or without    *)
(* the miner's payload, the owner amends the manifest, and the process     *)
(* stops and starts.  The other role is a node under attestation: the same *)
(* inner loop on several ranks, from a fresh model, with no miner around   *)
(* it.                                                                     *)
(***************************************************************************)
EXTENDS Attestation, Gather

CONSTANTS
    Layouts,        \* [role, world, protocol]: who runs, on how many ranks, and
                    \* the rank count the run's token accounting uses
    Manifest0, Amendments, Uid, Peer,
    Whole0,         \* the initial parameters
    Decay(_),       \* x |-> compression.ef_beta * x
    Warmup,         \* cfg.window.warmup_null_windows
    LastWindow, MaxStarts, MaxAmendments     \* bounds

VARIABLES
    role, protocol,
    posted, mine,   \* the manifest on the chain, and the one the process read
    pc,             \* stopped, idle, training, built, awaiting, desync
    window, run,    \* the miner's window and counters
    momentum,       \* of the outer step
    ef,             \* the error feedback buffers
    start,          \* the snapshot of theta_start
    frame,          \* the payload built for this window
    bucket,         \* the last payload published
    slices,         \* the last debug slices published, and their window
    lineage,        \* lineage[w + 1] is theta_start(w), and how it came about
    warmup, starts

minerVars == <<role, protocol, posted, mine, pc, window, run, momentum, ef, start, frame,
               bucket, slices, lineage, warmup, starts, world>>
vars == <<innerVars, minerVars, exam>>

CompNames   == Names \ BiasNames
CompShapes  == [n \in CompNames |-> Shapes[n]]
DenseShapes == [n \in BiasNames |-> Shapes[n]]
NoFrame     == [version |-> 0]
NoSlices    == [window |-> -1]
ZeroRun     == [step |-> 0, inner |-> 0, tokens |-> 0]

TensorMinus(a, b) == [i \in DOMAIN a |-> a[i] - b[i]]

\* The numbers of a manifest.  That a phase has a step is up to the owner.
SoundEntry(e) ==
    /\ e.start \in Nat
    /\ "steps" \in DOMAIN e.over => e.over["steps"] \in Nat \ {0}
    /\ \A k \in DOMAIN e.over \cap {"microbatch", "accum"} : e.over[k] \in Nat

SoundAmendment(a) ==
    /\ a.kind \in {"phase", "void", "capacity", "prf_salt"} /\ a.effective \in Nat
    /\ a.kind \in {"phase", "capacity"} => SoundEntry(a.entry)
    /\ a.kind = "void" => a.range.first \in Nat

\* Parameters whole: every tensor, over all of its indices.
IsWhole(p) == p = [n \in Names |-> [i \in 0 .. Product(Shapes[n]) - 1 |-> p[n][i]]]

ASSUME TrainingAssumption ==
    /\ Uid # Peer /\ WellFormed(Manifest0)
    /\ Manifest0 = [k \in {"phases", "voids", "salt", "amendments"} |-> Manifest0[k]]
    /\ Manifest0.phases \in Seq({e \in Listed(Manifest0.phases) : SoundEntry(e)})
    /\ \A a \in Amendments : SoundAmendment(a)
    /\ IsWhole(Whole0)
    /\ \A l \in Layouts : /\ l.role \in {"miner", "attest"} /\ l.world \in Nat \ {0} /\ l.protocol \in Nat
                         /\ \A n \in ExpertNames : Product(Shapes[n]) % l.world = 0
    /\ Warmup \in Nat /\ LastWindow \in Nat /\ MaxStarts \in Nat /\ MaxAmendments \in Nat

-----------------------------------------------------------------------------
(* The state of a process that has just been started, and of none.         *)

NoTask == [manifest |-> Manifest0, uid |-> Uid, window |-> 0, run |-> ZeroRun]

Initial(w) == [r \in 0 .. w - 1 |-> [n \in Names |->
    LET size == IF n \in ExpertNames THEN Product(Shapes[n]) \div w ELSE Product(Shapes[n])
    IN  [i \in 0 .. size - 1 |-> Whole0[n][(IF n \in ExpertNames THEN r * size ELSE 0) + i]]]]

Idle == /\ task' = NoTask /\ progress' = AtRest /\ adam' = <<>>
        /\ grads' = <<>> /\ loads' = <<>> /\ stepped' = {}
        /\ start' = <<>> /\ frame' = NoFrame

ZeroTensors == [n \in Names |-> Zeros(Whole0[n])]

NoCertificate == [window |-> -1, hashes |-> <<>>]

Genesis == [params |-> Whole0, momentum |-> ZeroTensors, cert |-> NoCertificate, mirror |-> NoMirror]

Init ==
    /\ \E l \in Layouts : role = l.role /\ world = l.world /\ protocol = l.protocol
    /\ posted = Manifest0 /\ mine = Manifest0
    /\ pc = "stopped" /\ window = 0 /\ run = ZeroRun
    /\ model = Initial(world) /\ momentum = ZeroTensors /\ ef = ZeroTensors
    /\ task = NoTask /\ progress = AtRest /\ adam = <<>> /\ grads = <<>> /\ loads = <<>>
    /\ stepped = {} /\ start = <<>> /\ frame = NoFrame
    /\ bucket = NoFrame /\ slices = NoSlices /\ lineage = <<Genesis>> /\ warmup = 0 /\ starts = 0
    /\ ExamInit

-----------------------------------------------------------------------------
(* The process.                                                            *)

HeadWindow == Len(lineage) - 1

\* A uid that restored nothing and never committed.
IsFresh(from) == from = 0 /\ bucket = NoFrame

\* MinerApp.run up to its loop: a checkpoint of some window, or the initial
\* parameters, the manifest on the chain, counters derived from it, and no
\* error feedback.  A fresh uid warms up.
Start ==
    /\ pc = "stopped" /\ role = "miner" /\ starts < MaxStarts
    /\ \E w \in 0 .. HeadWindow :
         /\ window' = w
         /\ model' = [r \in Ranks |-> LocalOf(lineage[w + 1].params, r)]
         /\ momentum' = lineage[w + 1].momentum
         /\ run' = RunStateAt(posted, w, protocol)
         /\ warmup' = IF IsFresh(w) THEN Warmup ELSE 0
    /\ mine' = posted /\ ef' = ZeroTensors
    /\ pc' = "idle" /\ starts' = starts + 1
    /\ Idle
    /\ UNCHANGED <<role, world, protocol, posted, bucket, slices, lineage>>

Stop ==
    /\ pc' = "stopped" /\ window' = 0 /\ run' = ZeroRun /\ warmup' = 0
    /\ model' = Initial(world) /\ momentum' = ZeroTensors /\ ef' = ZeroTensors
    /\ Idle
    /\ UNCHANGED <<role, world, protocol, posted, mine, bucket, slices, lineage, starts>>

Crash == pc # "stopped" /\ Stop

-----------------------------------------------------------------------------
(* A window.                                                               *)

NeedsRestart(phase) == phase.seqLen # Defaults.seqLen

\* _combined_root: two ranks that own a tensor of the same name.
RootRaises ==
    \E q, r \in Ranks : q # r /\ AssignOwned(Names, ExpertNames, q, world)
                                   \cap AssignOwned(Names, ExpertNames, r, world) # {}

\* A window that ends the process before it trains: the phase asks for a
\* restart, the plan does not fit the dataset, or the root cannot be formed.
LeaveWindow ==
    /\ pc = "idle" /\ role = "miner" /\ window = HeadWindow
    /\ \/ RequiresRestart(mine, window) /\ NeedsRestart(ResolvePhase(mine, window))
       \/ ~Plannable(mine, window, world)
       \/ RootRaises
    /\ Stop

TrainWindow ==
    /\ pc = "idle" /\ window = HeadWindow /\ window <= LastWindow
    /\ ~(RequiresRestart(mine, window) /\ NeedsRestart(ResolvePhase(mine, window)))
    /\ Plannable(mine, window, world) /\ ~RootRaises
    /\ BeginWindow(mine, Uid, window, run)
    /\ start' = model /\ pc' = "training"
    /\ UNCHANGED <<role, protocol, posted, mine, window, run, momentum, ef, frame, bucket, slices,
                   lineage, warmup, starts, world>>

\* run_reference: the attested node's fresh model, on its ranks, from the
\* challenge it was given.
Attest ==
    /\ pc = "stopped" /\ role = "attest" /\ starts < MaxStarts /\ Hold
    /\ model' = [r \in Ranks |-> LocalOf(InitModel(exam'.held.seed), r)]
    /\ BeginTask(AttestManifest(exam'.held), 0, 0, ZeroRun, model')
    /\ start' = <<>> /\ pc' = "training" /\ starts' = starts + 1
    /\ UNCHANGED <<role, protocol, posted, mine, window, run, momentum, ef, frame, bucket, slices,
                   lineage, warmup, world>>

\* Its answer, which ends the process.
Answer ==
    /\ pc = "training" /\ role = "attest" /\ progress.stage = "done"
    /\ Respond(View(model, 0)) /\ Stop

\* The verifier's steps, and its clock.
Examine ==
    /\ role = "attest" /\ (Issue \/ Judge \/ Tick)
    /\ UNCHANGED <<innerVars, world, role, protocol, posted, mine, pc, window, run, momentum, ef,
                   start, frame, bucket, slices, lineage, warmup, starts>>

Train == pc = "training" /\ InnerStep /\ UNCHANGED minerVars

\* Error feedback and compression of one tensor: what goes out, and the
\* residual that stays.
Feedback(residual, delta) == [i \in DOMAIN delta |-> Decay(residual[i]) + delta[i]]

PayloadOf(uid, w, manifest, counters, from, to, residuals, tie) ==
    [uid |-> uid, window |-> w,
     meta |-> [digest |-> SampleDigest(manifest, uid, w, world), thetaEnd |-> to,
               stateRoot |-> from, step |-> counters.step],
     compressed |-> [n \in CompNames |->
        Compress(Shapes[n], Evaluated(Feedback(residuals[n], TensorMinus(from[n], to[n]))), tie)],
     dense |-> [n \in BiasNames |->
        [shape |-> Shapes[n], value |-> TensorMinus(from[n], to[n])]]]

\* The end of run_training_phase: the roots, the deltas, the parameters back at
\* theta_start, the payload.  The feedback gives up what was compressed here,
\* whatever becomes of the payload.
BuildPayload ==
    /\ pc = "training" /\ role = "miner" /\ progress.stage = "done"
    /\ \E tie \in Ties :
         LET payload == Evaluated(PayloadOf(Uid, window, mine, run, View(start, 0), View(model, 0),
                                            ef, tie))
         IN  /\ frame' = Serialize(payload)
             /\ ef' = [n \in Names |->
                  IF n \in BiasNames THEN ef[n]
                  ELSE TensorMinus(Feedback(ef[n], TensorMinus(start[0][n], model[0][n])),
                                   Evaluated(Decompress(payload.compressed[n])))]
    /\ model' = start
    /\ pc' = "built"
    /\ UNCHANGED <<task, progress, adam, grads, loads, stepped, role, protocol, posted, mine,
                   window, run, momentum, start, bucket, slices, lineage, warmup, starts, world>>

\* _publish_and_gather: inside the gate, unless the miner is late or warming
\* up.  The gate is closed once the leader has certified.
Publish(late) ==
    /\ pc = "built"
    /\ late \/ (warmup = 0 /\ window = HeadWindow)
    /\ IF late THEN frame' = NoFrame /\ UNCHANGED bucket
               ELSE bucket' = frame /\ UNCHANGED frame
    /\ pc' = "awaiting"
    /\ UNCHANGED <<innerVars, role, protocol, posted, mine, window, run, momentum, ef, start,
                   slices, lineage, warmup, starts, world>>

\* Is there a certificate to wait for, and what is in it?
Certified(w)   == lineage[w + 2].cert # NoCertificate
Certificate(w) == lineage[w + 2].cert

\* What a read of the mirror may find: nothing, the leader's object, the object
\* damaged, one whose blobs and entries agree on other content, or an older one.
MirrorFinds(w) ==
    LET m == lineage[w + 2].mirror
    IN  {NoMirror, m, [m EXCEPT !.body = Rewritten(@)],
         Mirror(w, [u \in Peers(Certificate(w)) |-> Rewritten(MirrorBlob(m, u))]),
         lineage[w + 1].mirror}

\* What the reads of the peers' buckets may find.
Found(what, b) ==
    CASE what = "gone" -> Missing [] what = "here" -> b [] what = "other" -> Rewritten(b)

BucketFinds(cert) ==
    {[u \in Peers(cert) |-> Found(what[u], cert.hashes[u])] :
        what \in [Peers(cert) -> {"gone", "here", "other"}]}

\* The complete gathers of a window: from the buckets and the mirror, or from
\* the mirror alone.
Complete(cert, raws) ==
    {got \in {Decoded(cert, raw, CompShapes, DenseShapes) :
                 raw \in {r \in raws : DOMAIN r = Peers(cert)}} : got.missing = {}}

MirrorYields(w) == {FetchMirrored(Certificate(w), m) : m \in MirrorFinds(w)}

Gathers(w) ==
    Complete(Certificate(w),
             {FetchCertified(Certificate(w), read, mirrored) :
                read \in BucketFinds(Certificate(w)), mirrored \in MirrorYields(w)})

MirrorGathers(w) == Complete(Certificate(w), MirrorYields(w))

(* Faulty variant: the warmup count goes on below zero.                    *)
ServedOn == warmup - 1

Served == IF warmup > 0 THEN warmup - 1 ELSE 0

\* put_debug_slices: the first elements of every tensor.
Heads(params) == [n \in Names |-> [i \in DOMAIN params[n] \cap {0, 1} |-> params[n][i]]]

\* Where a node's own parameters differ from the slices another published.
Divergent(params, heads) == {n \in DOMAIN heads : Heads(params)[n] # heads[n]}

\* _post_window, of a miner that was in time: it may fail.
PostWindow(params) ==
    slices' \in {slices} \cup (IF frame = NoFrame THEN {}
                               ELSE {[window |-> window, heads |-> Heads(params)]})

\* The certificate arrives, from the same parameters, and its payloads with it:
\* the outer step, and the counters the inner loop kept.
Join ==
    /\ pc = "awaiting" /\ window < HeadWindow /\ Certified(window)
    /\ Certificate(window).root = View(start, 0)
    /\ \E got \in Gathers(window) :
         LET after == OuterApply([params |-> model[0], momentum |-> momentum], got.payloads)
         IN  /\ model' = [model EXCEPT ![0] = after.params] /\ momentum' = after.momentum
             /\ PostWindow(after.params)
    /\ run' = [step   |-> run.step + 1, tokens |-> progress.tokens,
               inner  |-> run.inner + ResolvePhase(mine, window).steps]
    /\ window' = window + 1 /\ pc' = "idle" /\ warmup' = Served
    /\ Idle
    /\ UNCHANGED <<role, protocol, posted, mine, ef, bucket, lineage, starts, world>>

\* No certificate in time, one from other parameters, or a certified payload
\* that cannot be fetched.
Desync ==
    /\ pc = "awaiting" /\ pc' = "desync"
    /\ Idle
    /\ UNCHANGED <<model, role, protocol, posted, mine, window, run, momentum, ef, bucket, slices,
                   lineage, warmup, starts, world>>

\* The windows catch_up applies, and the outer steps it takes.
Missed == {w \in window .. HeadWindow - 1 : ~IsVoid(mine, w)}

OneOfEach(of) ==
    {got \in [DOMAIN of -> UNION {of[w] : w \in DOMAIN of}] : \A w \in DOMAIN of : got[w] \in of[w]}

CaughtUp(from, got) ==
    LET upTo[w \in window .. HeadWindow] ==
            IF w = window THEN from
            ELSE IF w - 1 \in Missed THEN OuterApply(upTo[w - 1], got[w - 1].payloads)
            ELSE upTo[w - 1]
    IN  upTo[HeadWindow]

\* _recover: the outer steps of the windows up to the newest certified one, from
\* the mirror, void windows skipped, and the counters as the consensus has
\* them.  A rank that holds a slice of the experts never matches the agreed root.
Recover ==
    /\ pc \in {"idle", "desync"} /\ role = "miner" /\ window < HeadWindow /\ world = 1
    /\ \A w \in Missed : Certified(w)
    /\ \E got \in OneOfEach(Evaluated([w \in Missed |-> MirrorGathers(w)])) :
         LET to == Evaluated(CaughtUp([params |-> model[0], momentum |-> momentum], got))
         IN  model' = [model EXCEPT ![0] = to.params] /\ momentum' = to.momentum
    /\ window' = HeadWindow /\ run' = RunStateAt(mine, HeadWindow, protocol)
    /\ warmup' = IF pc = "desync" THEN Served ELSE warmup
    /\ pc' = "idle"
    /\ UNCHANGED <<task, progress, adam, grads, loads, stepped, start, frame,
                   role, protocol, posted, mine, ef, bucket, slices, lineage, starts, world>>

-----------------------------------------------------------------------------
(* The rest of the system.                                                 *)

\* Another miner's payload, from the same parameters and with no residual.
PeerFrame ==
    LET from == lineage[HeadWindow + 1].params
        to == Reference(from, posted, Peer, HeadWindow, RunStateAt(posted, HeadWindow, protocol))
    IN  Serialize(PayloadOf(Peer, HeadWindow, posted, RunStateAt(posted, HeadWindow, protocol), from,
                            Evaluated(to), ZeroTensors, "first"))

Receivable(f) ==
    /\ f # NoFrame /\ Readable(f)
    /\ ValidateStructure(Deserialize(f), CompShapes, DenseShapes)

\* The certificate over these frames, its mirror, and the parameters after it.
CertifiedWith(now, frames) ==
    LET after == OuterApply([params |-> now.params, momentum |-> now.momentum],
                            [u \in DOMAIN frames |-> Evaluated(Deserialize(frames[u]))])
        blobs == Evaluated([u \in DOMAIN frames |-> Bytes(frames[u])])
    IN  [params |-> after.params, momentum |-> after.momentum,
         cert |-> [window |-> HeadWindow, root |-> now.params, hashes |-> blobs],
         mirror |-> Mirror(HeadWindow, blobs)]

\* The leader certifies a window with whoever published and puts up the mirror,
\* or skips a void one.
Certify ==
    /\ role = "miner" /\ HeadWindow <= LastWindow
    /\ LET now == lineage[HeadWindow + 1]
       IN  IF IsVoid(posted, HeadWindow)
           THEN lineage' = Append(lineage, [now EXCEPT !.cert = NoCertificate, !.mirror = NoMirror])
           ELSE \E included \in SUBSET {Uid, Peer} :
                  LET frames == Evaluated([u \in included |-> IF u = Uid THEN bucket ELSE PeerFrame])
                  IN  /\ Uid \in included =>
                           Receivable(bucket) /\ bucket.header.window = HeadWindow
                      /\ Peer \in included => Plannable(posted, HeadWindow, world) /\ ~RootRaises
                      /\ lineage' = Append(lineage, CertifiedWith(now, frames))
    /\ UNCHANGED <<innerVars, role, protocol, posted, mine, pc, window, run, momentum, ef,
                   start, frame, bucket, slices, warmup, starts, world>>

\* The owner posts an amended manifest, two windows ahead or more.
Amend ==
    /\ role = "miner" /\ Len(posted.amendments) < MaxAmendments
    /\ \E a \in Amendments :
         /\ Amendable(posted, a) /\ a.effective >= HeadWindow + 2
         /\ posted' = WithAmendment(posted, a)
    /\ UNCHANGED <<innerVars, role, protocol, mine, pc, window, run, momentum, ef, start, frame,
                   bucket, slices, lineage, warmup, starts, world>>

Next ==
    \/ /\ \/ Start \/ Crash \/ LeaveWindow \/ TrainWindow \/ Train \/ BuildPayload
          \/ \E late \in BOOLEAN : Publish(late)
          \/ Join \/ Desync \/ Recover \/ Certify \/ Amend
       /\ UNCHANGED exam
    \/ Attest \/ Answer \/ Examine

Spec == Init /\ [][Next]_vars

-----------------------------------------------------------------------------
(* Properties.                                                             *)

\* Type and shape: the ranks, the tensors and the counters.
TypeOK ==
    /\ pc \in {"stopped", "idle", "training", "built", "awaiting", "desync"}
    /\ DOMAIN model = Ranks
    /\ \A r \in Ranks : \A n \in Names : DOMAIN model[r][n] = 0 .. LocalSize(n) - 1
    /\ window \in 0 .. LastWindow + 1 /\ run.step \in 0 .. LastWindow + 1
    /\ run.tokens \in Nat /\ stepped \subseteq Ranks /\ warmup \in 0 .. Warmup
    /\ progress.stage \in {"rest", "micro", "reduce", "bucket", "done"}
    /\ exam.clock \in 0 .. LastTick /\ exam.verdict \in {"none", "ok", "rejected"}
    /\ exam.held.block <= exam.asked.block

\* Between two steps of the inner loop every rank holds the same shared tensors
\* and the same balance biases; and a miner that is not training stands at the
\* parameters and the momentum every other node has for its window: the replica
\* cannot drift, whatever it trained, skipped or caught up with, and the debug
\* slices it leaves behind agree with every validator's parameters.
RanksInLockstep ==
    /\ progress.stage \in {"rest", "micro", "done"} =>
         \A q, r \in Ranks : \A n \in Shared \cup BiasNames : model[q][n] = model[r][n]
    /\ (pc \in {"idle", "built", "awaiting", "desync"} /\ role = "miner") =>
         /\ View(model, 0) = lineage[window + 1].params
         /\ momentum = lineage[window + 1].momentum
    /\ slices # NoSlices => Divergent(lineage[slices.window + 2].params, slices.heads) = {}

\* What an honest node computed is what a replay computes that has only the
\* manifest and the agreed parameters: the ranks, their buckets, the counters a
\* miner carried along and what it did in earlier windows leave no trace.  So a
\* verifier passes every node that answers the challenge it was last asked in
\* time, and no answer to an earlier one; and what a validator evaluates a
\* payload on is among the sequences the payload's receipt commits to, or
\* anywhere in the dataset of the window's phase.
HonestWindowsReplay ==
    /\ pc = "built" =>
         /\ frame.header.meta.thetaEnd =
              Reference(lineage[window + 1].params, mine, Uid, window,
                        RunStateAt(mine, window, protocol))
         /\ \A block \in 1 .. LastBlock :
              LET dataset == Datasets[ResolvePhase(mine, window).data]
              IN  /\ Range(OwnPool(mine, Uid, window, protocol, block))
                        \subseteq frame.header.meta.digest
                  /\ Range(RandomPool(mine, window, block))
                        \subseteq (0 .. dataset.shards - 1) \X (0 .. dataset.perShard - 1)
    /\ (role = "attest" /\ progress.stage = "done") => View(model, 0) = ExpectedRoot(exam.held)
    /\ exam.verdict # "none" =>
         (exam.verdict = "ok" <=> /\ exam.answer.id = exam.asked.id
                                  /\ InTime(exam.asked, exam.answer.received))

\* The counters a miner carries from window to window are the ones run_state_at
\* derives from the manifest alone.
CountersAreConsensus ==
    (pc = "idle" /\ role = "miner") => run = RunStateAt(mine, window, protocol)

\* A payload that was built reads back, passes the structure check of everyone
\* who receives it, and means to them what its miner took out of its error
\* feedback: the pairs a receiver merges, scattered into zeros, are the tensor
\* the miner decompressed.
FramesReceivable ==
    pc = "built" =>
        /\ Receivable(frame)
        /\ LET payload == Deserialize(frame)
           IN  \A n \in CompNames :
                 LET ct == payload.compressed[n]  pairs == SparsePairs(ct)
                     sent == Decompress(ct)
                 IN  /\ \A p \in pairs : p.at \in DOMAIN sent /\ p.val = sent[p.at]
                     /\ \A i \in DOMAIN sent : sent[i] # 0 => \E p \in pairs : p.at = i
=============================================================================
