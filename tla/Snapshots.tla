------------------------------ MODULE Snapshots -----------------------------
(* Checkpoints from the leader's disk to a starting node's replica: save,    *)
(* prune and upload object by object (subnet/core/checkpoint.py), ranged     *)
(* downloads with retries (mok_core/storage/client.py), the order in which a *)
(* node looks for a state (materialize_replica), the owner's published init  *)
(* (fleet/onboarding/init_publish.py), and a rollback in between.            *)
(* A content <<line, w>> is the state after window w on a line of history;   *)
(* rollbacks start new lines. One node starts, crashes and starts again.     *)
EXTENDS Integers, Sequences, FiniteSets, FiniteSetsExt

CONSTANTS
    MaxWindow, Cadence,   \* windows; checkpoint_every_windows
    KeepLocal,            \* Checkpointer.keep_local
    Attempts,             \* retry_attempts of StorageClient
    TarChunks,            \* ranges a model tar is downloaded in
    Shared,               \* TRUE: the owner is the leader, one bucket serves both
    MaxFaults, MaxRollbacks

ASSUME SnapshotAssumption ==
    /\ {Cadence, KeepLocal, Attempts, TarChunks} \subseteq Nat \ {0}
    /\ {MaxWindow, MaxFaults, MaxRollbacks} \subseteq Nat /\ Shared \in BOOLEAN

Windows == 0..MaxWindow
Order == <<"tar", "outer", "meta">>
Kinds == {"tar", "outer", "meta"}
InitWindow == 0
InitState == <<0, -1>>
Missing == <<>>
Nowhere == -2          \* no window: nothing restored
Chunks(kind) == IF kind = "tar" THEN TarChunks ELSE 1

VARIABLES
    line, next, void,      \* the run: current line, next window, voided windows
    lead, leadDisk,        \* the leader's upload, its local checkpoint windows
    remote,                \* the leader's bucket: window, kind -> content
    read, part, readDisk,  \* the node's download, its partial files, its disk
    replica, faults

leader == <<line, next, void, lead, leadDisk, remote>>
node == <<read, part, readDisk, replica>>
vars == <<line, next, void, lead, leadDisk, remote, read, part, readDisk, replica, faults>>

NoParts == [kind \in Kinds |-> <<>>]
Quiet == [w |-> Nowhere, c |-> Missing, k |-> 1, tries |-> 0]

-----------------------------------------------------------------------------
(* The leader.                                                               *)

(* Faulty variant: pruning keeps one too many.                               *)
NewestAndOne(S) == {w \in S : Cardinality({x \in S : x > w}) <= KeepLocal}

Newest(S) == {w \in S : Cardinality({x \in S : x > w}) < KeepLocal}

(* maybe_checkpoint on the cadence windows: tmp dir, rename, prune; upload.  *)
Save ==
    /\ lead = Quiet /\ next \in Windows
    /\ next' = next + 1
    /\ IF next % Cadence = 0
       THEN /\ leadDisk' = Newest(leadDisk \cup {next})
            /\ lead' = [w |-> next, c |-> <<line, next>>, k |-> 1, tries |-> 0]
       ELSE UNCHANGED <<leadDisk, lead>>
    /\ UNCHANGED <<line, void, remote, node, faults>>

(* One object lands: model tar, outer state, meta, in this order.            *)
Put ==
    /\ lead # Quiet
    /\ remote' = [remote EXCEPT ![lead.w][Order[lead.k]] = lead.c]
    /\ lead' = IF lead.k = 3 THEN Quiet ELSE [lead EXCEPT !.k = @ + 1, !.tries = 0]
    /\ UNCHANGED <<line, next, void, leadDisk, node, faults>>

(* A transient fault of a put is retried; the last one kills the leader,     *)
(* which saved its state before: it resumes at the next window and never     *)
(* finishes this upload. A crash between two puts does the same.             *)
PutFault ==
    /\ lead # Quiet /\ faults < MaxFaults
    /\ faults' = faults + 1
    /\ lead' = IF lead.tries + 1 < Attempts THEN [lead EXCEPT !.tries = @ + 1] ELSE Quiet
    /\ UNCHANGED <<line, next, void, leadDisk, remote, node>>

LeadCrash ==
    /\ lead # Quiet /\ faults < MaxFaults
    /\ faults' = faults + 1 /\ lead' = Quiet
    /\ UNCHANGED <<line, next, void, leadDisk, remote, node>>

(* A rollback: the windows after a local checkpoint are void, the leader is  *)
(* relaunched from it. Nothing removes what was saved of the voided windows. *)
Rollback ==
    /\ lead = Quiet /\ line <= MaxRollbacks
    /\ \E t \in leadDisk \ void :
         /\ t + 1 < next
         /\ void' = void \cup (t + 1 .. next - 1)
    /\ line' = line + 1
    /\ UNCHANGED <<next, lead, leadDisk, remote, node, faults>>

-----------------------------------------------------------------------------
(* The node that starts.                                                     *)

Idle == [pc |-> "start", todo |-> {}, w |-> Nowhere, k |-> 1, tries |-> 0]
Local == {w \in Windows : readDisk[w] # NoParts}
Complete == {w \in Windows : \A kind \in Kinds : remote[w][kind] # Missing}

Whole(parts) == \E c \in {InitState} \cup (1..MaxRollbacks + 1) \X Windows :
    \A kind \in Kinds : \A i \in DOMAIN parts[kind] : parts[kind][i] = c

(* load_local, and the window it stands for: a meta whose root is the        *)
(* manifest's init is the state before window 0, whatever its label. What    *)
(* is loaded is not hashed against the meta.                                 *)
Load(w, parts) ==
    /\ read' = [Idle EXCEPT !.pc = "running"]
    /\ replica' = [parts |-> parts,
                   from |-> IF parts["meta"][1] = InitState THEN -1 ELSE w]

(* load_latest prefers any local checkpoint to a remote one.                 *)
LoadLocal ==
    /\ read.pc = "start" /\ Local # {}
    /\ Load(Max(Local), readDisk[Max(Local)])
    /\ UNCHANGED <<leader, part, readDisk, faults>>

List ==
    /\ read.pc = "start" /\ Local = {}
    /\ read' = [Idle EXCEPT !.pc = "choose", !.todo = Complete]
    /\ UNCHANGED <<leader, part, readDisk, replica, faults>>

(* Faulty variant: all downloads share one directory, and it is resumed.     *)
StartDownloadResuming ==
    /\ read.pc = "choose" /\ read.todo # {}
    /\ read' = [read EXCEPT !.pc = "get", !.w = Max(read.todo), !.k = 1, !.tries = 0]
    /\ UNCHANGED <<leader, part, readDisk, replica, faults>>

(* The newest complete window left; a download directory of an earlier       *)
(* attempt is removed first.                                                 *)
StartDownload ==
    /\ read.pc = "choose" /\ read.todo # {}
    /\ read' = [read EXCEPT !.pc = "get", !.w = Max(read.todo), !.k = 1, !.tries = 0]
    /\ part' = NoParts
    /\ UNCHANGED <<leader, readDisk, replica, faults>>

(* Faulty variant: only a window-0 checkpoint of its own stands for the init.*)
FreshInitNever ==
    /\ read.pc = "choose" /\ read.todo = {} /\ readDisk[InitWindow] # NoParts
    /\ read' = [Idle EXCEPT !.pc = "running"]
    /\ replica' = [parts |-> [kind \in Kinds |-> <<InitState>>], from |-> -1]
    /\ UNCHANGED <<leader, part, readDisk, faults>>

(* Nothing usable: the owner's init, hash-checked, or the same init rebuilt. *)
FreshInit ==
    /\ read.pc = "choose" /\ read.todo = {}
    /\ read' = [Idle EXCEPT !.pc = "running"]
    /\ replica' = [parts |-> [kind \in Kinds |-> <<InitState>>], from |-> -1]
    /\ UNCHANGED <<leader, part, readDisk, faults>>

Kind == Order[read.k]

(* The next range of the current file, appended to its .part file.           *)
GetRange ==
    /\ read.pc = "get" /\ Len(part[Kind]) < Chunks(Kind)
    /\ part' = [part EXCEPT ![Kind] = Append(@, remote[read.w][Kind])]
    /\ read' = [read EXCEPT !.tries = 0]
    /\ UNCHANGED <<leader, readDisk, replica, faults>>

NextFile ==
    /\ read.pc = "get" /\ Len(part[Kind]) = Chunks(Kind) /\ read.k < 3
    /\ read' = [read EXCEPT !.k = @ + 1]
    /\ UNCHANGED <<leader, part, readDisk, replica, faults>>

(* All three files are there: rename into place and load.                    *)
Install ==
    /\ read.pc = "get" /\ read.k = 3 /\ Len(part[Kind]) = Chunks(Kind)
    /\ readDisk' = [readDisk EXCEPT ![read.w] = part]
    /\ Load(read.w, part)
    /\ part' = NoParts
    /\ UNCHANGED <<leader, faults>>

(* A transient fault is retried.  After the last one the node tries the next *)
(* older window, or its boot ends: the raw error is re-raised, and only some *)
(* of botocore's are ones that _download_latest catches.                     *)
GetFault ==
    /\ read.pc = "get" /\ faults < MaxFaults
    /\ faults' = faults + 1
    /\ IF read.tries + 1 < Attempts
       THEN read' = [read EXCEPT !.tries = @ + 1] /\ UNCHANGED part
       ELSE /\ read' \in {[Idle EXCEPT !.pc = "choose", !.todo = read.todo \ {read.w}], Idle}
            /\ part' = NoParts
    /\ UNCHANGED <<leader, readDisk, replica>>

(* The node dies, mid-download or running; its disk stays.                   *)
NodeCrash ==
    /\ read # Idle /\ faults < MaxFaults
    /\ faults' = faults + 1
    /\ read' = Idle
    /\ replica' = [parts |-> NoParts, from |-> Nowhere]
    /\ UNCHANGED <<leader, part, readDisk>>

(* The owner published the init checkpoint as window 0 before the launch.    *)
Init ==
    /\ line = 1 /\ next = 0 /\ void = {} /\ faults = 0
    /\ lead = Quiet /\ leadDisk = {}
    /\ remote = [w \in Windows |-> [kind \in Kinds |->
                   IF Shared /\ w = InitWindow THEN InitState ELSE Missing]]
    /\ read = Idle /\ part = NoParts
    /\ readDisk = [w \in Windows |-> NoParts]
    /\ replica = [parts |-> NoParts, from |-> Nowhere]

Restore == \/ LoadLocal \/ List \/ StartDownload \/ FreshInit
           \/ GetRange \/ NextFile \/ Install
Next == \/ Save \/ Put \/ PutFault \/ LeadCrash \/ Rollback
        \/ Restore \/ GetFault \/ NodeCrash

(* The node's event loop runs whenever the node does.                        *)
Spec == Init /\ [][Next]_vars /\ WF_vars(Restore)

-----------------------------------------------------------------------------
(* The types, and: no more local checkpoints than keep_local; only whole     *)
(* files in an installed checkpoint; part files only of a download.          *)
TypeOK ==
    /\ line \in 1..MaxRollbacks + 1 /\ next \in 0..MaxWindow + 1
    /\ void \subseteq Windows /\ faults \in 0..MaxFaults
    /\ leadDisk \subseteq Windows /\ Cardinality(leadDisk) <= KeepLocal
    /\ lead.k \in 1..3 /\ lead.tries \in 0..Attempts - 1
    /\ read.pc \in {"start", "choose", "get", "running"}
    /\ read.todo \subseteq Windows /\ read.tries \in 0..Attempts - 1
    /\ \A w \in Windows, kind \in Kinds :
         readDisk[w] # NoParts => Len(readDisk[w][kind]) = Chunks(kind)
    /\ \A kind \in Kinds : Len(part[kind]) <= Chunks(kind)

(* A node runs on one checkpoint: weights, outer momentum and the meta that  *)
(* says which window it is come from one save, though the reader trusts a    *)
(* listing, hashes nothing and may be overtaken by uploads and crashes.      *)
RestoredWhole == read.pc = "running" => Whole(replica.parts)

(* It ends: whatever fails on the way, the node gets some state to start     *)
(* from once faults stop.                                                    *)
RestoreEnds == []<>(read.pc = "running")

(* rollback.py:4 - "on supermajority every node rewinds": no node starts     *)
(* from a state of the voided line.                                          *)
RestoredNotVoid ==
    [][read.pc # "running" /\ read'.pc = "running" => replica'.from \notin void]_vars

=============================================================================
