----------------------------- MODULE Sanctions ------------------------------
(***************************************************************************)
(* A validator's trust pipeline: what it saw of each miner's window feeds  *)
(* the slash ledger and the binary EMA, the ledger sanctions the final     *)
(* scores (Scoring), the scores become weights on a cadence, and audit     *)
(* convictions arrive at the end of a later window (Audits models where    *)
(* they come from).  All of it lives in one JSON file saved at two points  *)
(* of a window.                                                            *)
(***************************************************************************)
EXTENDS Scoring, FiniteSetsExt

CONSTANTS
    Deadline,      \* AuditConfig.report_deadline_windows
    Span,          \* AuditConfig.naughty_windows
    Cadence,       \* ScoringConfig.windows_per_weights
    Readings,      \* Readings[m]: what the gate may show of a miner, among Gates
    SkipAfter,     \* the lag after which a validator skips (3 in the code)
    CheckpointEvery, \* WindowConfig.checkpoint_every_windows
    Voids,         \* the windows the manifest voids
    MaxWindow,     \* bound: windows 0 .. MaxWindow - 1
    MaxSentences,  \* bound: sentences passed
    MaxFaults      \* bound: crashes, stops, and buckets that cannot be listed

ASSUME NumbersOK == /\ MaxWindow \in Nat /\ Deadline \in Nat /\ Span \in Nat
                    /\ Cadence \in Nat \ {0} /\ SkipAfter \in Nat \ {0}
                    /\ CheckpointEvery \in Nat \ {0}
                    /\ MaxSentences \in Nat /\ MaxFaults \in Nat

VARIABLES
    ckpt,     \* the validator has a checkpoint of its own
    head,     \* the window being trained: every earlier gate is closed
    val,      \* the validator's memory, as far as ValidatorState saves it
    pc,       \* "idle", "score" or "ingest" within process_window, or "down"
    work,     \* within a window: the multipliers, the miners with a valid payload,
              \* those with a positive final score, the weights submitted
    disk,     \* validator_state.json
    lastDue,  \* the window at which submit_weights was last called
    faults

vars == <<ckpt, head, val, pc, work, disk, lastDue, faults>>

-----------------------------------------------------------------------------
(* The slash ledger, as operators on the validator's memory *)

\* x0.75, x0.5, then x0.0 for the third and every later miss in a row.
MissingLadder == <<24, 16, 0>>
MissingGradient(misses) == Min({misses + 1, 3})
InvalidPayload == 0
SyncBehind == 24

\* SlashLedger.overlap ("mega") and SlashLedger.audit_verdicts, for the uids S.
Sentence(v, S, w, reason) ==
    [v EXCEPT !.naughtyUntil = [m \in Miners |-> IF m \in S THEN Max({@[m], w + Span}) ELSE @[m]],
              !.records = @ \union {[uid |-> m, window |-> w, reason |-> reason,
                                     until |-> w + Span] : m \in S}]

IsNaughty(v, m, w) == w < v.naughtyUntil[m]

\* SlashLedger.apply: zero while naughty, else the window's multipliers.
Apply(v, m, base, w) == IF IsNaughty(v, m, w) THEN 0 ELSE base * work.mult[m]

-----------------------------------------------------------------------------
(* One window of the validator *)

\* counted is a history variable: the windows this average holds that were
\* folded when there was a checkpoint to restart from.
Unseen == [value |-> 0, counted |-> {}]
Fresh == [window |-> 0, top |-> 0, since |-> 0,
          ema |-> [m \in Miners |-> Unseen],
          rated |-> {},
          missing |-> [m \in Miners |-> 0],
          naughtyUntil |-> [m \in Miners |-> -1],
          records |-> {},
          scored |-> {}]
NoWork == [mult |-> [m \in Miners |-> Whole], valid |-> {}, positive |-> {}, weights |-> <<>>]

\* What a window shows of every miner.  _gate_and_fetch finds a committed payload
\* missing from the gate, invalid, valid, or valid but trained from another
\* state root; "none" is a commit that has left its slot.  The validator's own
\* failed reads look the same as a miner's failure, so whatever the miner did,
\* each can be what is read.  Valid payloads are evaluated and compared.
Gates == {"none", "missing", "invalid", "valid", "behind"}
ValidIn(r) == {m \in Miners : r[m] \in {"valid", "behind"}}
Findings ==
    UNION {{[m \in Miners |->
                [gate |-> r[m],
                 copy |-> IF m \in ValidIn(r) THEN o[m] ELSE [mult |-> Whole, naughty |-> FALSE],
                 indicator |-> IF m \in ValidIn(r) THEN i[m] ELSE 0]] :
              o \in OverlapOutcomes[ValidIn(r)], i \in [ValidIn(r) -> Indicators]} :
           r \in {g \in [Miners -> Gates] : \A m \in Miners : g[m] \in Readings[m]}}
Valid(f) == {m \in Miners : f[m].indicator # 0}

(* Faulty variant: a good upload resets the uid altogether. *)
LedgeredWiping(v, f) ==
    [v EXCEPT !.missing = [m \in Miners |-> IF f[m].gate = "missing"
                                            THEN MissingGradient(@[m]) ELSE 0],
              !.naughtyUntil = [m \in Miners |-> IF m \in Valid(f) THEN -1 ELSE @[m]]]

\* The escalators after the gate: up for the missing, down for the valid.
Ledgered(v, f) ==
    [v EXCEPT !.missing = [m \in Miners |->
        IF f[m].gate = "missing" THEN MissingGradient(@[m])
        ELSE IF m \in Valid(f) THEN 0 ELSE @[m]]]

\* A miner's multiplier from the gate, before the escalators move.
GateMultiplier(v, m, gate) ==
    CASE gate = "missing" -> MissingLadder[MissingGradient(v.missing[m])]
      [] gate = "invalid" -> InvalidPayload
      [] gate = "behind"  -> SyncBehind
      [] gate \in {"valid", "none"} -> Whole

\* The product of a window's multipliers, on top of what the ledger still holds.
Multipliers(v, f, held) ==
    [m \in Miners |-> (GateMultiplier(v, m, f[m].gate) * f[m].copy.mult * held[m])
                         \div (Whole * Whole)]

\* window_multipliers of a window that was processed before, by who starts over:
\* what was read then may have zeroed a miner, or not.
Held(v) == [Miners -> IF v.window < v.top THEN {0, Whole} ELSE {Whole}]

\* rate_window: two or more scores are rated against each other, a lone one
\* gets the default rating, whose ordinal is 0.
Rated(rated, scored) == IF Cardinality(scored) >= 2 THEN rated \union scored ELSE rated

\* evaluate_window's indicators are folded into the EMA, its scores rated.
Evaluated(v, f) ==
    [v EXCEPT !.ema = [m \in Miners |->
                          IF m \in Valid(f)
                          THEN [value |-> Fold(@[m].value, f[m].indicator),
                                counted |-> @[m].counted \union
                                                IF ckpt THEN {v.window} ELSE {}]
                          ELSE @[m]],
              !.rated = Rated(@, Valid(f))]

(* Faulty variant: the evaluation is saved before the resume point moves. *)
SavedBefore(v) == [v EXCEPT !.top = Max({@, v.window + 1})]

\* What (e) saves: the resume point moves with the evaluation.
SavedAt(v) == [v EXCEPT !.window = @ + 1, !.top = Max({@, v.window + 1})]

FarBehind == head - 1 - val.window >= SkipAfter

\* process_window (a)-(e): ledger, evaluation, overlap, and the resume point is
\* saved with them.  Who leads may change between windows, and between the
\* steps of one: of a validator far behind, the leader gets here, and another
\* skips (SkipAhead).
Process ==
    LET w == val.window
    IN  /\ pc = "idle" /\ w < head /\ w \notin Voids
        /\ \E f \in Findings, held \in Held(val) :
               LET mega == {m \in Miners : f[m].copy.naughty}
                   judged == Sentence(Evaluated(Ledgered(val, f), f), mega, w, "overlap")
               IN  /\ Cardinality(judged.records) <= MaxSentences
                   /\ disk' = SavedAt(judged)
                   \* the evaluated miners join the scored ones in memory
                   /\ val' = [disk' EXCEPT !.window = w + 1, !.scored = @ \union Valid(f)]
                   /\ work' = [NoWork EXCEPT !.mult = Multipliers(val, f, held),
                                             !.valid = Valid(f)]
        /\ pc' = "score"
    /\ UNCHANGED <<ckpt, head, lastDue, faults>>

(* Faulty variant: the counter is not reset. *)
NextSinceKept(s) == s + 1

\* A void window is passed over, and the resume point not saved.
SkipVoid ==
    /\ pc = "idle" /\ val.window < head /\ val.window \in Voids
    /\ val' = [val EXCEPT !.window = @ + 1]
    /\ UNCHANGED <<ckpt, head, pc, work, disk, lastDue, faults>>

\* windows_since_weights after one more window.
NextSince(s) == IF s + 1 >= Cadence THEN 0 ELSE s + 1

\* An unrated miner's ordinal is 0; a rated one's is what the model says.
Ordinal(skill, m) == IF m \in DOMAIN skill THEN skill[m] ELSE 0
\* A miner without a payload in this window is taken to be one step behind.
Sync(slices, m) == SyncScore(IF m \in DOMAIN slices THEN StepsBehind(slices[m]) ELSE 1)

\* set_weights: the chain accepts the ladder, or it or the SDK refuses.
Submitted(final) == {Weights(final), <<>>}

\* (g) maybe_checkpoint, which only the leader of the moment calls.
Checkpointed(w) == {ckpt, ckpt \/ w % CheckpointEvery = 0}

\* (f) sync scores, (g), (h) final scores of everyone ever evaluated, then the
\* weights cadence: an empty ladder or a rejected extrinsic resets the counter.
\* An activated rollback ends the process after (g) with what (e) saved: a Crash.
Score ==
    LET w == val.window - 1
        due == val.since + 1 >= Cadence
    IN  /\ pc = "score"
        /\ \E skill \in [val.rated -> Skills], slices \in [work.valid -> Slices] :
             LET final == [m \in val.scored |->
                     Apply(val, m, FinalScore(Ordinal(skill, m), val.ema[m].value,
                                              Sync(slices, m)), w)]
             IN  \E weights \in IF due THEN Submitted(final) ELSE {<<>>} :
                    work' = [NoWork EXCEPT !.weights = weights,
                                !.positive = {m \in val.scored : final[m] > 0}]
        /\ val' = [val EXCEPT !.since = NextSince(@)]
        /\ lastDue' = IF due THEN w ELSE lastDue
        /\ pc' = "ingest" /\ ckpt' \in Checkpointed(w)
    /\ UNCHANGED <<head, disk, faults>>

\* (i) the convictions of an earlier window, (j) save.  Their zero multiplier
\* belongs to a window whose scores are already final.
Ingest ==
    LET w == val.window - 1
    IN  /\ pc = "ingest"
        /\ \E guilty \in SUBSET Miners :
             /\ guilty # {} => w >= Deadline
             /\ val' = Sentence(val, guilty, w, "audit")
             /\ Cardinality(val'.records) <= MaxSentences
             /\ disk' = val'
        /\ pc' = "idle" /\ work' = NoWork
    /\ UNCHANGED <<ckpt, head, lastDue, faults>>

\* list_audit_reports lets a failed listing of one bucket through, and so does
\* process_window: the validator dies after it scored and before it saves.
BucketOutage ==
    /\ pc = "ingest" /\ val.window - 1 >= Deadline
    /\ faults < MaxFaults /\ faults' = faults + 1
    /\ pc' = "down" /\ val' = Fresh /\ work' = NoWork
    /\ UNCHANGED <<ckpt, head, disk, lastDue>>

Crash ==
    /\ pc # "down" /\ faults < MaxFaults /\ faults' = faults + 1
    /\ pc' = "down" /\ val' = Fresh /\ work' = NoWork
    /\ UNCHANGED <<ckpt, head, disk, lastDue>>

\* SIGTERM, or max_windows: the loop saves where it stands and returns.
Stop ==
    /\ pc = "idle" /\ faults < MaxFaults /\ faults' = faults + 1
    /\ disk' = val /\ pc' = "down" /\ val' = Fresh
    /\ UNCHANGED <<ckpt, head, work, lastDue>>

(* Faulty variant: the naughty list is not part of the state file. *)
LedgerLoadedForgiving(v) == [v EXCEPT !.missing = disk.missing, !.records = disk.records]

\* The ledger and the ratings of the state file, each loaded by its owner.
LedgerLoaded(v) ==
    [v EXCEPT !.missing = disk.missing, !.naughtyUntil = disk.naughtyUntil,
              !.records = disk.records]
EmaLoaded(v)  == [v EXCEPT !.ema = disk.ema]
BookLoaded(v) == [v EXCEPT !.rated = disk.rated]

\* ValidatorState.load.
Loaded ==
    LedgerLoaded(BookLoaded(EmaLoaded(
        [Fresh EXCEPT !.window = disk.window, !.top = disk.top, !.since = disk.since,
                      !.scored = disk.scored])))

\* A validator that has never led at a checkpoint window has no checkpoint, and
\* starts over from theta_init and window 0 with all it remembers.
Restart ==
    /\ pc = "down"
    /\ val' = IF ckpt THEN Loaded ELSE [Loaded EXCEPT !.window = 0]
    /\ pc' = "idle"
    /\ UNCHANGED <<ckpt, head, work, disk, lastDue, faults>>

\* Who is far behind and does not lead catches up silently: no events, no scores and no ingest
\* for the windows it jumps over.
SkipAhead ==
    /\ pc = "idle" /\ FarBehind
    /\ val' = [val EXCEPT !.window = head - 1]
    /\ UNCHANGED <<ckpt, head, pc, work, disk, lastDue, faults>>

CloseWindow ==
    /\ head < MaxWindow
    /\ head' = head + 1
    /\ UNCHANGED <<ckpt, val, pc, work, disk, lastDue, faults>>

-----------------------------------------------------------------------------
Init ==
    /\ ckpt = FALSE /\ head = 0
    /\ val = Fresh /\ disk = Fresh
    /\ pc = "idle"
    /\ work = NoWork
    /\ lastDue = -1
    /\ faults = 0

Next ==
    \/ CloseWindow
    \/ Process \/ SkipVoid \/ Score \/ Ingest \/ SkipAhead
    \/ BucketOutage \/ Crash \/ Stop \/ Restart

Spec == Init /\ [][Next]_vars

-----------------------------------------------------------------------------
(* Properties *)

Records == [uid : Miners, window : Nat, reason : {"overlap", "audit"}, until : Nat]
Memory == [window : 0 .. MaxWindow, top : 0 .. MaxWindow, since : 0 .. Cadence - 1,
           ema : [Miners -> [value : -Unit .. Unit, counted : SUBSET (0 .. MaxWindow - 1)]],
           rated : SUBSET Miners,
           missing : [Miners -> 0 .. 3],
           naughtyUntil : [Miners -> -1 .. MaxWindow + Span],
           records : SUBSET Records,
           scored : SUBSET Miners]

\* Every part of the state has its type; the resume point on disk is never
\* ahead of the chain.
TypeOK ==
    /\ ckpt \in BOOLEAN
    /\ head \in 0 .. MaxWindow
    /\ val \in Memory /\ disk \in Memory
    /\ pc \in {"idle", "score", "ingest", "down"}
    /\ work.mult \in [Miners -> 0 .. Whole]
    /\ work.valid \subseteq Miners /\ work.positive \subseteq Miners
    /\ \A m \in DOMAIN work.weights : m \in work.positive /\ work.weights[m] \in 1 .. U16Max
    /\ lastDue \in -1 .. MaxWindow - 1
    /\ faults \in 0 .. MaxFaults
    /\ disk.window <= head

\* Weights submitted after a sentence and within its span give the miner
\* nothing, whatever was forgotten and re-read in between: no later event and
\* no restart shortens a sentence on record (SlashLedger.apply, overlap,
\* audit_verdicts, ValidatorState).
SentenceServed ==
    LET w == val.window - 1
    IN  \A r \in val.records \union disk.records :
            r.uid \in DOMAIN work.weights => ~(r.window < w /\ w < r.until)

\* A window evaluated by a validator that has a checkpoint of its own counts once
\* in a miner's EMA, whatever crash, stop, skip or void window follows, and
\* whoever leads: it never stands before such a window again, and no restart
\* resumes there ("Persist the resume point first", validator/app.py:396).
\* BinaryEMA.update itself folds whatever it is given.  Without a checkpoint a
\* restart goes back to window 0 and counts windows twice: ResumesBehindNothing.
FoldedOnce == pc = "idle" => \A m \in Miners : val.window \notin val.ema[m].counted

\* "a crash after the apply resumes at window+1 with the replica already there;
\* before it, one behind" (validator/app.py:396-398): no validator evaluates a
\* window again that it has evaluated, and that its EMA holds already.
ResumesBehindNothing == pc = "idle" => val.top <= val.window

\* What the state file says of a miner's sentences is never taken back, by a
\* crash at any point of a window or by any later event (ValidatorState.save).
SentencesKept ==
    [][/\ disk.records \subseteq disk'.records
       /\ \A m \in Miners : disk.naughtyUntil[m] <= disk'.naughtyUntil[m]]_vars

\* "Naughty uids score 0.0 for every window in [start, start + span)"
\* (slashing.py:21), start included.
ZeroFromStart ==
    [][\A r \in val'.records \ val.records : r.uid \notin work.positive]_vars

\* "every scoring.windows_per_weights: weights.submit_weights": a validator
\* that ends a window has called it within the last Cadence windows.
WeightsOnCadence == pc = "idle" => val.window - 1 - lastDue < Cadence
=============================================================================
