------------------------------- MODULE Audits -------------------------------
(***************************************************************************)
(* Replay audits.  Miners publish a WindowCommit in their chain slot;      *)
(* auditors, each at its own pace, replay the miners the sampler deals     *)
(* them and leave signed verdicts in their own buckets; a validator reads  *)
(* the verdicts of an earlier window when it ends one of its own.          *)
(*                                                                         *)
(* A replay is abstracted to its verdict, and the validator to the order   *)
(* of what it saves and what it ingests; its ledger is in Sanctions.       *)
(***************************************************************************)
EXTENDS Integers, FiniteSets

CONSTANTS
    Miners,        \* uids of miners (integers: the sampler sorts them)
    Auditors,      \* uids of auditors
    Cheats,        \* miners whose committed theta_end is not what replay gives
    Drifting,      \* miners that may commit from another state root
    Broken,        \* auditors whose hardware reproduces nothing bitwise
    Sampled,       \* Sampled[w]: the positions the Philox stream of w samples
    Quorum,        \* AuditConfig.quorum
    Deadline,      \* AuditConfig.report_deadline_windows
    SkipAfter,     \* the lag after which a validator skips (3 in the code)
    CheckpointEvery, \* WindowConfig.checkpoint_every_windows
    MaxWindow,     \* bound: windows 0 .. MaxWindow - 1
    MaxFaults      \* bound: crashes and bucket outages of the validator

ASSUME UidsAreNumbers == /\ Miners \subseteq Nat /\ Auditors \subseteq Nat
                         /\ IsFiniteSet(Auditors)
ASSUME FewBroken == /\ IsFiniteSet(Broken)
                    /\ Quorum \in Nat \ {0}
                    /\ Cardinality(Broken) < Quorum
ASSUME BoundsAreNumbers == /\ MaxWindow \in Nat /\ Deadline \in Nat
                           /\ SkipAfter \in Nat \ {0} /\ CheckpointEvery \in Nat \ {0}

VARIABLES
    head,        \* the window being trained: every earlier gate is closed
    slot,        \* slot[m]: the miner's newest WindowCommit
    tagged,      \* auditors whose slot holds AUDITOR_COMMITMENT
    apos,        \* apos[a]: the window the auditor processes next
    bucket,      \* bucket[a]: the verdicts published by the auditor
    vpos,        \* the window the validator processes next
    pc,          \* "idle", "ingest" (window vpos - 1 is being ended) or "down"
    convicted,   \* the ledger's audit sentences: miner and audited window
    saved,       \* what the state file says of them
    faults

world == <<head, slot, tagged, apos, bucket>>
vars == <<head, slot, tagged, apos, bucket, vpos, pc, convicted, saved, faults>>

Windows == 0 .. MaxWindow - 1
\* A WindowCommit, as far as an auditor can tell before it replays: its window,
\* and whether it names the state root every aligned replica starts from.
NoCommit == [window |-> -1, synced |-> TRUE]

\* get_window_commits: a slot holds one commitment, an older one is gone.
Committed(w) == {m \in Miners : slot[m].window = w}

-----------------------------------------------------------------------------
(* Miners and the chain *)

Commit(m) ==
    /\ slot[m].window < head /\ head < MaxWindow
    /\ \E ok \in IF m \in Drifting THEN BOOLEAN ELSE {TRUE} :
         slot' = [slot EXCEPT ![m] = [window |-> head, synced |-> ok]]
    /\ UNCHANGED <<head, tagged, apos, bucket, vpos, pc, convicted, saved, faults>>

CloseWindow ==
    /\ head < MaxWindow
    /\ head' = head + 1
    /\ UNCHANGED <<slot, tagged, apos, bucket, vpos, pc, convicted, saved, faults>>

-----------------------------------------------------------------------------
(* Auditors *)

\* A uid's place among uids sorted in ascending order, from 1.
Place(x, uids) == Cardinality({y \in uids : y <= x})

\* audit_sampler: sampled positions of the sorted miners, dealt round-robin
\* over the sorted auditors.
Dealt(a, w, active, auditors) ==
    LET drawn == {m \in active : Place(m, active) \in Sampled[w]}
    IN  {m \in drawn : (Place(m, drawn) - 1) % Cardinality(auditors) = Place(a, auditors) - 1}

\* _my_tasks: the auditors are read live from the chain, self included.
Tasks(a, w) == Dealt(a, w, Committed(w), tagged \union {a})

Verdict(a, m, w) == [miner |-> m, window |-> w,
                     match |-> m \notin Cheats /\ a \notin Broken]

\* A desynced miner's commit fails the replay's precondition, which raises.
Stumbles(m, w) == slot[m] = [window |-> w, synced |-> FALSE]

\* The newest checkpoint an auditor may find when it boots: of the windows the
\* leader saves one at, how far it has got is its own matter (-1: theta_init).
Restorable == {-1} \union {w \in 0 .. head - 1 : w % CheckpointEvery = 0}

(* Faulty variant: the checkpoint's own window is taken to be still to come. *)
StartAuditorEarly(a) ==
    /\ a \notin tagged
    /\ tagged' = tagged \union {a}
    /\ \E newest \in Restorable : apos' = [apos EXCEPT ![a] = newest]
    /\ UNCHANGED <<head, slot, bucket, vpos, pc, convicted, saved, faults>>

\* A new auditor resumes after the checkpoint, maybe several windows behind the head.
StartAuditor(a) ==
    /\ a \notin tagged
    /\ tagged' = tagged \union {a}
    /\ \E newest \in Restorable : apos' = [apos EXCEPT ![a] = newest + 1]
    /\ UNCHANGED <<head, slot, bucket, vpos, pc, convicted, saved, faults>>

\* process_window of an auditor, its tasks in the order of the uids.  The wall
\* budget may cut the list after some uid (-1: before the first), any
\* upload may fail, and a failed precondition ends the process: what was
\* published stays, and the relaunch starts with the same window again.
Audit(a) ==
    LET w == apos[a]
        tasks == Tasks(a, w)
    IN  /\ a \in tagged /\ w < head
        /\ \E last \in {-1} \union tasks :
             LET raised == {m \in tasks : m <= last /\ Stumbles(m, w)}
                 replayed == {m \in tasks : m <= last /\ \A r \in raised : m < r}
             IN  /\ \E up \in SUBSET replayed :
                      bucket' = [bucket EXCEPT ![a] =
                                   @ \union {Verdict(a, m, w) : m \in up}]
                 /\ apos' = [apos EXCEPT ![a] = IF raised = {} THEN w + 1 ELSE w]
    /\ UNCHANGED <<head, slot, tagged, vpos, pc, convicted, saved, faults>>

-----------------------------------------------------------------------------
(* The validator *)

\* process_window up to the ledger's save: the resume point is w + 1 from here.
Process ==
    /\ pc = "idle" /\ vpos < head
    /\ vpos' = vpos + 1
    /\ saved' = convicted
    /\ pc' = "ingest"
    /\ UNCHANGED <<world, convicted, faults>>

\* collect_audit_verdicts and audit_verdicts: a bucket counts under its own
\* auditor's uid and once per miner, so only distinct auditors add up.
Mismatching(m, w) ==
    {a \in tagged : [miner |-> m, window |-> w, match |-> FALSE] \in bucket[a]}

(* Faulty variant: the quorum is off by one. *)
ConvictableByFewer(w) ==
    {m \in Miners : Cardinality(Mismatching(m, w)) + 1 >= Quorum}

(* Faulty variant: every window's mismatches count. *)
ConvictableAcrossWindows(w) ==
    {m \in Miners : Cardinality({a \in tagged : \E v \in bucket[a] :
                        v.miner = m /\ ~v.match /\ v.window <= w}) >= Quorum}

Convictable(w) == {m \in Miners : Cardinality(Mismatching(m, w)) >= Quorum}

\* (i) ingest_window_audits of the report-deadline window, (j) save.
Ingest ==
    LET w == vpos - 1 - Deadline
        guilty == IF w >= 0 THEN Convictable(w) ELSE {}
    IN  /\ pc = "ingest"
        /\ convicted' = convicted \union {[miner |-> m, window |-> w] : m \in guilty}
        /\ saved' = convicted'
        /\ pc' = "idle"
    /\ UNCHANGED <<world, vpos, faults>>

\* list_audit_reports lets a failed listing of one bucket through, and so does
\* process_window: the validator dies after it scored and before it saves.
BucketOutage ==
    /\ pc = "ingest" /\ tagged # {} /\ vpos > Deadline
    /\ faults < MaxFaults /\ faults' = faults + 1
    /\ pc' = "down"
    /\ UNCHANGED <<world, vpos, convicted, saved>>

Crash ==
    /\ pc # "down" /\ faults < MaxFaults /\ faults' = faults + 1
    /\ pc' = "down"
    /\ UNCHANGED <<world, vpos, convicted, saved>>

\* ValidatorState.load restores the ledger.  The validator has never led, so it
\* has no checkpoint of its own and starts over from theta_init and window 0.
Restart ==
    /\ pc = "down"
    /\ pc' = "idle"
    /\ vpos' = 0
    /\ convicted' = saved
    /\ UNCHANGED <<world, saved, faults>>

\* The validator is not the leader: far behind, it catches up silently, and the
\* windows it jumps over are never scored and their deadlines never ingested.
SkipAhead ==
    /\ pc = "idle" /\ head - 1 - vpos >= SkipAfter
    /\ vpos' = head - 1
    /\ UNCHANGED <<world, pc, convicted, saved, faults>>

-----------------------------------------------------------------------------
Init ==
    /\ head = 0
    /\ slot = [m \in Miners |-> NoCommit]
    /\ tagged = {}
    /\ apos = [a \in Auditors |-> 0]
    /\ bucket = [a \in Auditors |-> {}]
    /\ vpos = 0 /\ pc = "idle"
    /\ convicted = {} /\ saved = {}
    /\ faults = 0

Next ==
    \/ \E m \in Miners : Commit(m)
    \/ CloseWindow
    \/ \E a \in Auditors : StartAuditor(a) \/ Audit(a)
    \/ Process \/ Ingest \/ SkipAhead
    \/ BucketOutage \/ Crash \/ Restart

Spec == Init /\ [][Next]_vars

-----------------------------------------------------------------------------
(* Properties *)

Verdicts == [miner : Miners, window : Windows, match : BOOLEAN]
Sentences == [miner : Miners, window : Windows]

\* Every part of the state has its type.
TypeOK ==
    /\ head \in 0 .. MaxWindow
    /\ slot \in [Miners -> [window : -1 .. MaxWindow - 1, synced : BOOLEAN]]
    /\ tagged \subseteq Auditors
    /\ apos \in [Auditors -> 0 .. MaxWindow]
    /\ bucket \in [Auditors -> SUBSET Verdicts]
    /\ vpos \in 0 .. MaxWindow
    /\ pc \in {"idle", "ingest", "down"}
    /\ convicted \subseteq Sentences /\ saved \subseteq Sentences
    /\ faults \in Nat

\* As long as fewer auditors than the quorum are broken, no miner that trained
\* as committed is ever sentenced by an audit: whoever joined when, whatever
\* was uploaded twice, late or not at all, in whatever order windows were
\* audited and ingested (SlashLedger.audit_verdicts, audit_ingest).
NoFalseConviction == \A c \in convicted \union saved : c.miner \in Cheats

\* Every sentence, in memory or saved, rests on a quorum of distinct auditors
\* whose buckets still show a mismatch for that very miner and window: verdicts
\* of different windows never add up, and neither do an auditor's own
\* (audit_verdicts, collect_audit_verdicts).
SentencesRestOnAQuorum ==
    \A c \in convicted \union saved :
        Cardinality(Mismatching(c.miner, c.window)) >= Quorum

\* A sentence in the state file stays there, whatever crashes.
SavedSentencesStay == [][saved \subseteq saved']_vars

\* Once every auditor has moved past a window, a miner that one of them caught
\* there has been judged by a quorum ("2-of-3 rule", slashing.py:15).
CaughtByQuorum ==
    \A w \in Windows, m \in Miners :
        (tagged = Auditors /\ (\A a \in Auditors : apos[a] > w)
           /\ Mismatching(m, w) # {})
        => Cardinality({a \in Auditors : \E v \in bucket[a] :
                           v.miner = m /\ v.window = w}) >= Quorum
=============================================================================
