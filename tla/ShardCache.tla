----------------------------- MODULE ShardCache -----------------------------
(* The shard caches of one node (mok_core/data/download.py) under the        *)
(* windows that use them. torchrun starts one process per rank; each has its *)
(* own ShardCache - resident order, pins, lock - over the SAME directory.    *)
(* A window's prefetch ("now") runs in every rank, and rank 0 warms the next *)
(* window ("next") meanwhile. A task fetches and verifies a shard, and hands *)
(* the bytes to a writer thread that opens <shard>.tmp, fills it and renames *)
(* it; cancelling the task does not stop the thread.                         *)
(* A file or tmp file is None, Whole, Torn (short for ever: its writer was   *)
(* killed) or the writer that truncated it last and has not yet filled it.   *)
EXTENDS Integers, Sequences, FiniteSets, SequencesExt

CONSTANTS
    Ranks, Lead,       \* the node's processes, and rank 0 among them
    Shards,
    Draw,              \* shards a window needs
    Budget,            \* shard_cache_max_bytes, in shards
    Disjoint,          \* TRUE: consecutive windows draw no shard in common
    MaxWindow, MaxFaults

ASSUME CacheAssumption ==
    /\ Lead \in Ranks /\ Disjoint \in BOOLEAN
    /\ {Draw, Budget, MaxFaults} \subseteq Nat /\ MaxWindow \in Nat \ {0}
    /\ IsFiniteSet(Shards)

Kinds == {"now", "next"}
Slots == Ranks \X Kinds \X Shards
None == <<"none">>
Whole == <<"whole">>
Torn == <<"torn">>
Threads == {"none", "queued", "open", "filled"}

VARIABLES
    window, want,      \* want[k]: the shards prefetch k of this window asks for
    up, resident, pinned,           \* per rank: scanned, LRU order, pins
    job, task, thread, file, tmp, faults

cache == <<resident, pinned>>
disk == <<file, tmp>>
vars == <<window, want, up, resident, pinned, job, task, thread, file, tmp, faults>>

Idle(r, k) == [s \in Shards |-> "none"]
Draws(taken) == {d \in SUBSET Shards : /\ Cardinality(d) = Draw
                                       /\ Disjoint => d \cap taken = {}}

(* An eviction drops the least recently used unpinned shards until the       *)
(* budget holds; "stuck" is the case that every shard left is pinned.        *)
Excess(q) == IF Len(q) > Budget THEN Len(q) - Budget ELSE 0
Unpinned(q, pins) == {i \in DOMAIN q : q[i] \notin pins}
Victims(q, pins) ==
    {q[i] : i \in {x \in Unpinned(q, pins) :
                       Cardinality({y \in Unpinned(q, pins) : y < x}) < Excess(q)}}
Stuck(q, pins) == Cardinality(Unpinned(q, pins)) < Excess(q)

(* What is left of a list without some shards, in its order.                 *)
Without(q, gone) ==
    LET kept[i \in 0..Len(q)] ==
            IF i = 0 THEN <<>>
            ELSE IF q[i] \in gone THEN kept[i - 1] ELSE Append(kept[i - 1], q[i])
    IN  kept[Len(q)]

(* Faulty variant: a shard installed again is listed twice.                  *)
TouchTwice(q, s) == Append(q, s)

Touch(q, s) == Append(Without(q, {s}), s)

(* Faulty variant: a new process adopts what it finds, unread.               *)
ScanUnread(r) ==
    /\ ~up[r]
    /\ LET found == {s \in Shards : file[s] # None}
       IN \E q \in SetToSeqs(found) :
            /\ resident' = [resident EXCEPT ![r] = Without(q, Victims(q, {}))]
            /\ file' = [s \in Shards |->
                 IF s \in found \ Victims(q, {}) THEN file[s] ELSE None]
    /\ tmp' = [s \in Shards |-> None]
    /\ up' = [up EXCEPT ![r] = TRUE]
    /\ UNCHANGED <<window, want, pinned, job, task, thread, faults>>

(* A new process drops every tmp file, hashes what is installed, unlinks     *)
(* what is not whole and adopts the rest by age, down to the budget.         *)
Scan(r) ==
    /\ ~up[r]
    /\ LET found == {s \in Shards : file[s] = Whole}
       IN \E q \in SetToSeqs(found) :
            /\ resident' = [resident EXCEPT ![r] = Without(q, Victims(q, {}))]
            /\ file' = [s \in Shards |->
                 IF s \in found \ Victims(q, {}) THEN Whole ELSE None]
    /\ tmp' = [s \in Shards |-> None]
    /\ up' = [up EXCEPT ![r] = TRUE]
    /\ UNCHANGED <<window, want, pinned, job, task, thread, faults>>

(* Faulty variant: the wanted shards are not pinned.                         *)
BeginUnpinned(r, k) ==
    /\ up[r] /\ job[r][k] = "idle"
    /\ k = "next" => r = Lead /\ job[r]["now"] = "on"
    /\ job' = [job EXCEPT ![r][k] = "on"]
    /\ task' = [task EXCEPT ![r][k] = [s \in Shards |->
                                         IF s \in want[k] THEN "check" ELSE "none"]]
    /\ UNCHANGED <<window, want, up, resident, pinned, thread, file, tmp, faults>>

(* prefetch: pin the wanted shards and start a task for each.                *)
Begin(r, k) ==
    /\ up[r] /\ job[r][k] = "idle"
    /\ k = "next" => r = Lead /\ job[r]["now"] = "on"
    /\ job' = [job EXCEPT ![r][k] = "on"]
    /\ pinned' = [pinned EXCEPT ![r] = @ \cup want[k]]
    /\ task' = [task EXCEPT ![r][k] = [s \in Shards |->
                                         IF s \in want[k] THEN "check" ELSE "none"]]
    /\ UNCHANGED <<window, want, up, resident, thread, file, tmp, faults>>

At(r, k, s, stage) == job[r][k] = "on" /\ task[r][k][s] = stage
To(r, k, s, stage) == task' = [task EXCEPT ![r][k][s] = stage]

(* Under the lock: a resident shard is touched and returned, unread.         *)
Check(r, k, s) ==
    /\ At(r, k, s, "check")
    /\ IF s \in ToSet(resident[r])
       THEN /\ To(r, k, s, "ok")
            /\ resident' = [resident EXCEPT ![r] = Touch(@, s)]
       ELSE To(r, k, s, "fetch") /\ UNCHANGED resident
    /\ UNCHANGED <<window, want, up, pinned, job, thread, file, tmp, faults>>

(* The bytes arrive and hash to the leaf; the writer thread gets them. One   *)
(* leftover thread per slot: a slot whose old thread still runs waits.       *)
Fetched(r, k, s) ==
    /\ At(r, k, s, "fetch") /\ thread[r][k][s] = "none"
    /\ To(r, k, s, "write")
    /\ thread' = [thread EXCEPT ![r][k][s] = "queued"]
    /\ UNCHANGED <<window, want, up, resident, pinned, job, file, tmp, faults>>

(* The fetch fails, or its bytes do not hash to the manifest's leaf.         *)
FetchFails(r, k, s) ==
    /\ At(r, k, s, "fetch") /\ faults < MaxFaults
    /\ faults' = faults + 1
    /\ To(r, k, s, "failed")
    /\ UNCHANGED <<window, want, up, resident, pinned, job, thread, file, tmp>>

Writing(r, k, s, stage) == thread[r][k][s] = stage
Thread(r, k, s, stage) == thread' = [thread EXCEPT ![r][k][s] = stage]

(* open(tmp, "wb") truncates the file that has the name, in other hands too. *)
Open(r, k, s) ==
    /\ Writing(r, k, s, "queued")
    /\ Thread(r, k, s, "open")
    /\ tmp' = [tmp EXCEPT ![s] = <<r, k, s>>]
    /\ UNCHANGED <<window, want, up, cache, job, task, file, faults>>

(* write, flush, fsync: what it truncated last is whole again, by the name   *)
(* it has now.                                                               *)
Fill(r, k, s) ==
    /\ Writing(r, k, s, "open")
    /\ Thread(r, k, s, "filled")
    /\ tmp' = [tmp EXCEPT ![s] = IF @ = <<r, k, s>> THEN Whole ELSE @]
    /\ file' = [file EXCEPT ![s] = IF @ = <<r, k, s>> THEN Whole ELSE @]
    /\ UNCHANGED <<window, want, up, cache, job, task, faults>>

(* os.replace: FileNotFoundError when somebody renamed or dropped the tmp.   *)
(* A cancelled task does not hear of either outcome.                         *)
Replace(r, k, s) ==
    /\ Writing(r, k, s, "filled")
    /\ Thread(r, k, s, "none")
    /\ file' = [file EXCEPT ![s] = IF tmp[s] = None THEN @ ELSE tmp[s]]
    /\ tmp' = [tmp EXCEPT ![s] = None]
    /\ IF At(r, k, s, "write")
       THEN To(r, k, s, IF tmp[s] = None THEN "failed" ELSE "install")
       ELSE UNCHANGED task
    /\ UNCHANGED <<window, want, up, cache, job, faults>>

(* Under the lock: resident, most recently used, and evict down to budget.   *)
Install(r, k, s) ==
    /\ At(r, k, s, "install")
    /\ LET q == Touch(resident[r], s)
           gone == Victims(q, pinned[r])
       IN /\ resident' = [resident EXCEPT ![r] = Without(q, gone)]
          /\ file' = [x \in Shards |-> IF x \in gone THEN None ELSE file[x]]
          /\ To(r, k, s, IF Stuck(q, pinned[r]) THEN "failed" ELSE "ok")
    /\ UNCHANGED <<window, want, up, pinned, job, thread, tmp, faults>>

(* The end of prefetch, good or bad, cancels its tasks and drops its pins.   *)
End(r, k, outcome) ==
    /\ job' = [job EXCEPT ![r][k] = outcome]
    /\ pinned' = [pinned EXCEPT ![r] = @ \ want[k]]
    /\ task' = [task EXCEPT ![r][k] = Idle(r, k)]
    /\ UNCHANGED <<window, want, up, resident, thread, file, tmp, faults>>

(* Readable: path_for finds the shard resident, and its file is all there.   *)
Readable(r, s) == s \in ToSet(resident[r]) /\ file[s] = Whole

(* prefetch returns; the window's readers are opened in the same step and    *)
(* training follows. "spoiled": a reader found its shard missing or short.   *)
Returns(r, k) ==
    /\ job[r][k] = "on" /\ \A s \in want[k] : task[r][k][s] = "ok"
    /\ End(r, k, IF k = "next" \/ \A s \in want[k] : Readable(r, s)
                 THEN "done" ELSE "spoiled")

Raises(r, k) ==
    /\ job[r][k] = "on" /\ \E s \in want[k] : task[r][k][s] = "failed"
    /\ End(r, k, "failed")

(* The barrier at the window's edge: rank 0 cancels what is left of its      *)
(* next-window prefetch and the next window draws on.                        *)
NextWindow ==
    /\ window < MaxWindow
    /\ \A r \in Ranks : job[r]["now"] = "done"
    /\ window' = window + 1
    /\ \E d \in Draws(want["next"]) : want' = [now |-> want["next"], next |-> d]
    /\ job' = [r \in Ranks |-> [k \in Kinds |-> "idle"]]
    /\ pinned' = [pinned EXCEPT ![Lead] =
                    IF job[Lead]["next"] = "on" THEN @ \ want["next"] ELSE @]
    /\ task' = [r \in Ranks |-> [k \in Kinds |-> Idle(r, k)]]
    /\ UNCHANGED <<up, resident, thread, file, tmp, faults>>

(* A rank whose window prefetch raised, or a kill, takes the whole torchrun  *)
(* job down; it is started again at the same window.                         *)
NodeDown ==
    /\ \/ \E r \in Ranks : job[r]["now"] \in {"failed", "spoiled"} /\ UNCHANGED faults
       \/ faults < MaxFaults /\ faults' = faults + 1
    /\ up' = [r \in Ranks |-> FALSE]
    /\ resident' = [r \in Ranks |-> <<>>]
    /\ pinned' = [r \in Ranks |-> {}]
    /\ job' = [r \in Ranks |-> [k \in Kinds |-> "idle"]]
    /\ task' = [r \in Ranks |-> [k \in Kinds |-> Idle(r, k)]]
    /\ thread' = [r \in Ranks |-> [k \in Kinds |-> Idle(r, k)]]
    /\ file' = [s \in Shards |-> IF file[s] \in Slots THEN Torn ELSE file[s]]
    /\ tmp' = [s \in Shards |-> IF tmp[s] \in Slots THEN Torn ELSE tmp[s]]
    /\ UNCHANGED <<window, want>>

Init ==
    /\ window = 1 /\ faults = 0
    /\ \E d \in Draws({}) : \E e \in Draws(d) : want = [now |-> d, next |-> e]
    /\ up = [r \in Ranks |-> FALSE]
    /\ resident = [r \in Ranks |-> <<>>] /\ pinned = [r \in Ranks |-> {}]
    /\ job = [r \in Ranks |-> [k \in Kinds |-> "idle"]]
    /\ task = [r \in Ranks |-> [k \in Kinds |-> Idle(r, k)]]
    /\ thread = [r \in Ranks |-> [k \in Kinds |-> Idle(r, k)]]
    /\ file = [s \in Shards |-> None] /\ tmp = [s \in Shards |-> None]

TaskStep(r, k, s) ==
    Check(r, k, s) \/ Fetched(r, k, s) \/ FetchFails(r, k, s) \/ Install(r, k, s)
ThreadStep(r, k, s) == Open(r, k, s) \/ Fill(r, k, s) \/ Replace(r, k, s)

Next ==
    \/ \E r \in Ranks : Scan(r)
    \/ \E r \in Ranks, k \in Kinds : Begin(r, k) \/ Returns(r, k) \/ Raises(r, k)
    \/ \E slot \in Slots : TaskStep(slot[1], slot[2], slot[3])
    \/ \E slot \in Slots : ThreadStep(slot[1], slot[2], slot[3])
    \/ NextWindow \/ NodeDown

Spec == Init /\ [][Next]_vars

-----------------------------------------------------------------------------
Bytes == {None, Whole, Torn} \cup Slots

(* The types, and: a rank that has not scanned runs nothing; a file or tmp   *)
(* in a writer's hands is short only while that writer's thread is open.     *)
TypeOK ==
    /\ window \in 1..MaxWindow /\ faults \in 0..MaxFaults
    /\ want \in [Kinds -> SUBSET Shards] /\ up \in [Ranks -> BOOLEAN]
    /\ pinned \in [Ranks -> SUBSET Shards]
    /\ \A r \in Ranks : resident[r] \in Seq(Shards) /\ IsInjective(resident[r])
    /\ \A r \in Ranks, k \in Kinds :
         /\ job[r][k] \in {"idle", "on", "done", "failed", "spoiled"}
         /\ ~up[r] => job[r][k] = "idle" /\ resident[r] = <<>>
         /\ thread[r][k] \in [Shards -> Threads]
    /\ file \in [Shards -> Bytes] /\ tmp \in [Shards -> Bytes]
    /\ \A s \in Shards, slot \in Slots :
         slot \in {file[s], tmp[s]} => thread[slot[1]][slot[2]][slot[3]] = "open"

(* A file left short by a kill is never believed: whichever rank starts      *)
(* first, it is gone before any prefetch runs (_scan re-hashes everything).  *)
TornOnlyUntilScanned ==
    \A s \in Shards : file[s] = Torn => \A r \in Ranks : ~up[r]

(* download.py:7 - "Shards being prefetched are pinned and never evicted     *)
(* mid-window": as long as two windows share no shard, a rank drops no shard *)
(* that a prefetch of its own still wants.                                   *)
PinnedNeverEvicted ==
    [][\A r \in Ranks, k \in Kinds :
          job[r][k] = "on" /\ job'[r][k] = "on" =>
              want[k] \cap ToSet(resident[r]) \subseteq ToSet(resident'[r])]_vars

(* download.py:7 and :90 - installs are atomic and the requested set is      *)
(* pinned, so a window finds each shard it prefetched, whole.                *)
ReadersFindShards == \A r \in Ranks : job[r]["now"] # "spoiled"

=============================================================================
