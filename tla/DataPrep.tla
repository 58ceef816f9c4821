------------------------------ MODULE DataPrep ------------------------------
(* mok-data, the preparation of a dataset: download into resumable spools,   *)
(* deduplication, tokenisation, packing into content-addressed shards, the   *)
(* manifest, its verification and the upload (dataprep/cli.py and pipeline). *)
(* Commands run one after the other; each may be killed at any step, or lose *)
(* one of its workers, and is run again until it succeeds.                   *)
(* A document is the class of texts it is equal to after normalisation; its  *)
(* tokens and their EOS count as one token. A shard is named by its content. *)
EXTENDS Integers, Sequences, FiniteSets, SequencesExt, FiniteSetsExt, Functions

CONSTANTS
    Order, DedupOrder,     \* cfg.sources, cfg.dedup_sequence()
    Stream,                \* source -> its deterministic document stream
    Budget,                \* source -> char budget, a document counting one
    Blank,                 \* the class of whitespace-only documents
    Workers,               \* most download workers
    PartDocs, SeqLen, ShardSequences,
    Flags,                 \* [dl |-> download workers, 0 for one stream;
                           \*  discard |-> --discard-legacy;
                           \*  dd |-> dedup --parallel;
                           \*  tok |-> --parts-per-task, 0 for sequential]
    Steady,                \* TRUE: a command is rerun with the same flags
    MaxFaults

Sources == Range(Order)
Splits == {0} \cup 2..Workers     \* --workers, 0 for one stream
MaxNamed == 100                   \* _WORKER_RE knows w00 to w99 only
MaxChunks == 1000                 \* chunk files of a source: NNN

ASSUME DataPrepAssumption ==
    /\ Order \in Seq(Sources) /\ IsInjective(Order)
    /\ DedupOrder \in Seq(Sources) /\ IsInjective(DedupOrder) /\ Range(DedupOrder) = Sources
    /\ Stream \in [Sources -> Seq(Nat)]
    /\ Budget \in [Sources -> Nat \ {0}] /\ Blank \in Nat /\ Workers \in Nat
    /\ Workers <= MaxNamed        \* beyond, spools are written and never read
    /\ {PartDocs, SeqLen, ShardSequences} \subseteq Nat \ {0}
    /\ Flags \subseteq [dl : Splits, discard : BOOLEAN, dd : BOOLEAN, tok : Nat]
    /\ Steady \in BOOLEAN /\ MaxFaults \in Nat

Roots == {"raw", "dedup"}
Units == Sources \X (0..Workers)   \* 0: the source's own directory, i: workers/w<i-1>
Stages == <<"download", "dedup", "tokenize", "shard", "manifest", "verify",
            "upload", "published">>
NewSpool == [files |-> <<>>, docs |-> 0, parts |-> 0, complete |-> FALSE]
Sidecars == {"shards.json", "shard_index.json", "manifest.json"} \X {<<>>}
Files(shards) == {"shard"} \X shards

VARIABLES
    stage, up, flags,      \* the command to run, whether it runs, its flags
    job,                   \* its concurrent tasks: unit or file -> progress
    at,                    \* the step of a command without concurrency
    spool, split,          \* spool directories; workers/meta.json, 0 for none
    tokens,                \* token files there are: <<s, 0>> or <<s, chunk>>
    disk, metas,           \* shard files, shards.json
    index, ref,            \* shard_index.json, manifest.json
    remote, faults

dataset == <<disk, metas, index, ref, remote>>
prepVars == <<stage, up, flags, job, at, spool, split, tokens, dataset, faults>>

-----------------------------------------------------------------------------
(* Reading spools.                                                           *)

Recorded(sp) == FlattenSeq(SubSeq(sp.files, 1, sp.parts))

(* iter_source_documents: the source's own parts, then the workers' in order.*)
Read(spools, s) == FlattenSeq([i \in 1..Workers + 1 |-> Recorded(spools[<<s, i - 1>>])])

(* IterableDataset.shard: the i-th of n file shards of the stream.           *)
Nth(seq, i, n) == [k \in 1..((Len(seq) - i) \div n) + 1 |-> seq[(k - 1) * n + i]]

Before(seq, s) == {seq[k] : k \in {j \in DOMAIN seq : \A i \in 1..j : seq[i] # s}}

(* The elements of a sequence whose flag in a mask over it is set.           *)
Masked(seq, mask) ==
    LET kept[k \in 0..Len(seq)] ==
            IF k = 0 THEN <<>> ELSE IF mask[k] THEN Append(kept[k - 1], seq[k]) ELSE kept[k - 1]
    IN kept[Len(seq)]

(* dedup_documents: the first document of a class is kept, sources taken in  *)
(* priority order, blank documents dropped.                                  *)
Kept(raw, s) ==
    LET docs == Read(raw, s)
        seen == UNION {Range(Read(raw, t)) : t \in Before(DedupOrder, s)}
    IN Masked(docs, [p \in DOMAIN docs |-> /\ docs[p] \notin seen \cup {Blank}
                                          /\ \A q \in 1..p - 1 : docs[q] # docs[p]])

(* The same in two passes: hash all parts in the examine order of plan_units,*)
(* resolve first occurrences, filter each unit by its slice of the mask.     *)
Examine == FlattenSeq([k \in 1..Len(DedupOrder) |->
              [i \in 1..Workers + 1 |-> <<DedupOrder[k], i - 1>>]])
Digests(raw) == FlattenSeq([k \in 1..Len(Examine) |-> Recorded(raw[Examine[k]])])

(* The offset of a unit adds up the recorded counts of those before it.      *)
Offset(raw, u) ==
    LET ahead[k \in 0..Len(Examine)] ==
            IF k = 0 THEN 0 ELSE ahead[k - 1] + raw[Examine[k]].docs
    IN ahead[(CHOOSE k \in DOMAIN Examine : Examine[k] = u) - 1]

KeepMask(raw) ==
    LET ds == Digests(raw)
    IN [p \in DOMAIN ds |-> ds[p] # Blank /\ \A q \in 1..p - 1 : ds[q] # ds[p]]
Survivors(raw, u) ==
    LET docs == Recorded(raw[u])
    IN Masked(docs, [i \in DOMAIN docs |-> KeepMask(raw)[Offset(raw, u) + i]])

(* Consecutive groups of n, the last one what is left.                       *)
Chunks(seq, n) ==
    [j \in 1..(Len(seq) + n - 1) \div n |-> SubSeq(seq, (j - 1) * n + 1, Min({j * n, Len(seq)}))]

-----------------------------------------------------------------------------
(* spool_documents: append to a spool until the stream ends or the budget is *)
(* spent, one part file and then its record in state.json at a time.         *)

Root == IF stage = "download" THEN "raw" ELSE "dedup"

Spooling == CASE stage = "download" -> Sources \X (IF flags.dl = 0 THEN {0} ELSE 1..flags.dl)
              [] stage = "dedup" /\ flags.dd -> {u \in Units : spool["raw"][u].parts > 0}
              [] stage = "dedup" /\ ~flags.dd -> {s \in Sources : Kept(spool["raw"], s) # <<>>} \X {0}

Input(u) == CASE stage = "download" /\ flags.dl = 0 -> Stream[u[1]]
              [] stage = "download" /\ flags.dl > 0 -> Nth(Stream[u[1]], u[2], flags.dl)
              [] stage = "dedup" /\ flags.dd -> Survivors(spool["raw"], u)
              [] stage = "dedup" /\ ~flags.dd -> Kept(spool["raw"], u[1])

Limit(u) == CASE stage = "download" /\ flags.dl = 0 -> Budget[u[1]]
              [] stage = "download" /\ flags.dl > 0 -> Max({1, Budget[u[1]] \div flags.dl})
              [] stage = "dedup" -> Len(Input(u))   \* none

(* Sources one after the other, except under dedup --parallel.               *)
Turn(s) ==
    LET earlier == CASE stage = "download" -> Before(Order, s)
                     [] stage = "dedup" -> IF flags.dd THEN {} ELSE Before(DedupOrder, s)
    IN \A u \in DOMAIN job : u[1] \in earlier => job[u] = "done"

(* A parallel download refuses a source that has a spool of its own, unless  *)
(* told to discard it, or that was split among another number of workers.    *)
Legacy(s) == spool["raw"][<<s, 0>>].docs > 0
Clashes(s) == stage = "download" /\ flags.dl > 0 /\ Legacy(s)
Refused(s) == /\ stage = "download" /\ flags.dl > 0
              /\ \/ Legacy(s) /\ ~flags.discard
                 \/ ~Legacy(s) /\ split[s] \notin {0, flags.dl}

(* The flags of the next run: the same, or a download turns to workers.      *)
Rerun == {f \in Flags : f = flags \/ \/ ~Steady
                                     \/ /\ stage = "download" /\ flags.dl = 0 /\ f.dl > 0
                                        /\ f.dd = flags.dd /\ f.tok = flags.tok /\ ~f.discard}

Begin ==
    /\ ~up /\ stage \in {"download", "dedup"}
    /\ up' = TRUE
    /\ flags' \in Rerun
    /\ UNCHANGED <<stage, at, spool, split, tokens, dataset, faults>>
    /\ job' = [u \in Spooling' |-> "off"]

(* --discard-legacy removes the source's directory, the workers' with it.    *)
Discard(s) ==
    /\ up /\ Clashes(s) /\ flags.discard /\ Turn(s)
    /\ \E u \in DOMAIN job : u[1] = s /\ job[u] = "off"
    /\ spool' = [spool EXCEPT !["raw"] = [u \in Units |-> IF u[1] = s THEN NewSpool ELSE @[u]]]
    /\ split' = [split EXCEPT ![s] = 0]
    /\ UNCHANGED <<stage, up, flags, job, at, tokens, dataset, faults>>

(* A source's writers start, after workers/meta.json is written; those whose *)
(* spool is complete have nothing to do.                                     *)
Prepare(s) ==
    /\ up /\ stage \in {"download", "dedup"} /\ Turn(s) /\ ~Refused(s) /\ ~Clashes(s)
    /\ \E u \in DOMAIN job : u[1] = s /\ job[u] = "off"
    /\ split' = IF stage = "download" /\ flags.dl > 0 THEN [split EXCEPT ![s] = flags.dl] ELSE split
    /\ job' = [u \in DOMAIN job |-> IF u[1] # s \/ job[u] # "off" THEN job[u]
                 ELSE IF spool[Root][u].complete THEN "done" ELSE "write"]
    /\ UNCHANGED <<stage, up, flags, at, spool, tokens, dataset, faults>>

(* The command stops, and the operator does what its message says.           *)
Refuse(s) ==
    /\ up /\ Refused(s) /\ Turn(s) /\ \E u \in DOMAIN job : u[1] = s /\ job[u] = "off"
    /\ up' = FALSE /\ job' = <<>>
    /\ flags' = IF Legacy(s) THEN [flags EXCEPT !.discard = TRUE]
                ELSE [flags EXCEPT !.dl = split[s]]
    /\ UNCHANGED <<stage, at, spool, split, tokens, dataset, faults>>

(* Faulty variant: a resumed stream is read from its front.                  *)
NextPartFromFront(u) ==
    SubSeq(Input(u), 1, Min({Len(Input(u)), PartDocs, Limit(u) - spool[Root][u].docs}))

(* The documents of the next part: what the state records is skipped.        *)
NextPart(u) ==
    LET done == spool[Root][u].docs
        in == Input(u)
    IN SubSeq(in, done + 1, Min({Len(in), done + PartDocs, Limit(u)}))

(* Faulty variant: the end of the stream is not recorded.                    *)
CommitForgetful(u) ==
    /\ up /\ u \in DOMAIN job /\ stage \in {"download", "dedup"} /\ job[u] = "write"
    /\ NextPart(u) # <<>>
    /\ spool' = [spool EXCEPT ![Root][u].files = Append(SubSeq(@, 1, spool[Root][u].parts), NextPart(u))]
    /\ job' = [job EXCEPT ![u] = "record"]
    /\ UNCHANGED <<stage, up, flags, at, split, tokens, dataset, faults>>

(* A part is written under a temporary name and renamed into place, over one *)
(* that a kill left unrecorded; with nothing left the spool is complete.     *)
Commit(u) ==
    /\ up /\ u \in DOMAIN job /\ stage \in {"download", "dedup"} /\ job[u] = "write"
    /\ LET part == NextPart(u) IN
       IF part = <<>>
       THEN /\ spool' = [spool EXCEPT ![Root][u].complete = TRUE]
            /\ job' = [job EXCEPT ![u] = "done"]
       ELSE /\ spool' = [spool EXCEPT ![Root][u].files =
                           Append(SubSeq(@, 1, spool[Root][u].parts), part)]
            /\ job' = [job EXCEPT ![u] = "record"]
    /\ UNCHANGED <<stage, up, flags, at, split, tokens, dataset, faults>>

(* Faulty variant: the part counter is not advanced with the documents.      *)
RecordDocsOnly(u) ==
    /\ up /\ u \in DOMAIN job /\ job[u] = "record"
    /\ spool' = [spool EXCEPT ![Root][u].docs = @ + Len(Last(spool[Root][u].files))]
    /\ job' = [job EXCEPT ![u] = "write"]
    /\ UNCHANGED <<stage, up, flags, at, split, tokens, dataset, faults>>

Record(u) ==
    /\ up /\ u \in DOMAIN job /\ job[u] = "record"
    /\ spool' = [spool EXCEPT ![Root][u].docs = @ + Len(Last(spool[Root][u].files)),
                              ![Root][u].parts = @ + 1]
    /\ job' = [job EXCEPT ![u] = "write"]
    /\ UNCHANGED <<stage, up, flags, at, split, tokens, dataset, faults>>

(* One worker of a parallel command dies; the others end what they do.       *)
WorkerFails(u) ==
    /\ up /\ u \in DOMAIN job /\ job[u] \in {"write", "record"} /\ faults < MaxFaults
    /\ job' = [job EXCEPT ![u] = "failed"]
    /\ faults' = faults + 1
    /\ UNCHANGED <<stage, up, flags, at, spool, split, tokens, dataset>>

(* dedup_parallel also compares what it wrote with what it kept.             *)
Adds ==
    LET keep == KeepMask(spool["raw"])
    IN stage = "dedup" /\ flags.dd =>
         MapThenSumSet(LAMBDA u : spool["dedup"][u].docs, DOMAIN job) = Cardinality({p \in DOMAIN keep : keep[p]})

NextStage == Stages[(CHOOSE k \in DOMAIN Stages : Stages[k] = stage) + 1]

(* The concurrent tasks are over: on to the next command. A failed task ends *)
(* the command, a download once its other workers have stopped, and the      *)
(* command is run again.                                                     *)
End ==
    /\ up /\ stage \in {"download", "dedup", "tokenize", "upload"}
    /\ \/ \A u \in DOMAIN job : job[u] = "done"
       \/ /\ \E u \in DOMAIN job : job[u] = "failed"
          /\ stage = "download" => \A u \in DOMAIN job : job[u] \notin {"write", "record"}
    /\ stage' = IF (\A u \in DOMAIN job : job[u] = "done") /\ Adds THEN NextStage ELSE stage
    /\ up' = FALSE /\ job' = <<>>
    /\ flags' = [flags EXCEPT !.discard = FALSE]
    /\ UNCHANGED <<at, spool, split, tokens, dataset, faults>>

-----------------------------------------------------------------------------
(* tokenize: one file for a source, or one for each group of parts; written  *)
(* in place under the final name.                                            *)

Grouped(sp, n) ==
    LET groups == Chunks(SubSeq(sp.files, 1, sp.parts), n)
    IN [j \in DOMAIN groups |-> FlattenSeq(groups[j])]
Groups(spools, s, n) ==
    FlattenSeq([i \in 1..Workers + 1 |-> Grouped(spools[<<s, i - 1>>], n)])

Chunked(s) == Groups(spool["dedup"], s, flags.tok)
Tasks == IF flags.tok = 0 THEN Sources \X {0}
         ELSE UNION {{s} \X (1..Len(Chunked(s))) : s \in Sources}
Text(t) == IF t[2] = 0 THEN Read(spool["dedup"], t[1]) ELSE Chunked(t[1])[t[2]]

BeginTokenize ==
    /\ ~up /\ stage = "tokenize"
    /\ up' = TRUE
    /\ flags' \in Rerun
    /\ UNCHANGED <<stage, at, spool, split, tokens, dataset, faults>>
    /\ \A t \in Tasks' : t[2] <= MaxChunks
    /\ job' = [t \in Tasks' |-> "off"]

Open(t) ==
    /\ up /\ stage = "tokenize" /\ t \in DOMAIN job /\ job[t] = "off"
    /\ flags.tok = 0 => \A u \in DOMAIN job : u[1] \in Before(Order, t[1]) => job[u] = "done"
    /\ tokens' = [x \in {t} \cup DOMAIN tokens |-> IF x = t THEN <<>> ELSE tokens[x]]
    /\ job' = [job EXCEPT ![t] = "write"]
    /\ UNCHANGED <<stage, up, flags, at, spool, split, dataset, faults>>

(* The buffer is flushed: the file is a longer prefix, the last one whole.   *)
Flush(t) ==
    /\ up /\ stage = "tokenize" /\ t \in DOMAIN job /\ job[t] = "write"
    /\ IF Len(tokens[t]) < Len(Text(t))
       THEN /\ tokens' = [tokens EXCEPT ![t] = Append(@, Text(t)[Len(@) + 1])]
            /\ UNCHANGED job
       ELSE job' = [job EXCEPT ![t] = "done"] /\ UNCHANGED tokens
    /\ UNCHANGED <<stage, up, flags, at, spool, split, dataset, faults>>

-----------------------------------------------------------------------------
(* shard, manifest, verify, upload.                                          *)

(* discover_token_files: a source's single file, else its chunks in order.   *)
Discovered(s) ==
    LET numbers == {t[2] : t \in {x \in DOMAIN tokens : x[1] = s}}
    IN IF 0 \in numbers THEN tokens[<<s, 0>>]
       ELSE FlattenSeq([k \in 1..Max(numbers) |-> IF k \in numbers THEN tokens[<<s, k>>] ELSE <<>>])

Cut(seq, n) == [j \in 1..Len(seq) \div n |-> SubSeq(seq, (j - 1) * n + 1, j * n)]

(* Full shards of sequences, the last one what is left.                      *)
Shards(seqs) == Chunks(seqs, ShardSequences)

(* Faulty variant: each source is packed on its own.                         *)
PackedBySource ==
    Shards(FlattenSeq([k \in DOMAIN Order |-> Cut(Discovered(Order[k]), SeqLen)]))

(* The final partial sequence is dropped, across files and sources.          *)
Packed == Shards(Cut(FlattenSeq([k \in DOMAIN Order |-> Discovered(Order[k])]), SeqLen))

(* One shard written, hashed and renamed to its content's name; the metas    *)
(* when all are there.                                                       *)
Shard ==
    /\ stage = "shard" /\ \A s \in Sources : \E t \in DOMAIN tokens : t[1] = s
    /\ Packed # <<>>
    /\ up' = (at < Len(Packed))
    /\ IF at < Len(Packed)
       THEN /\ disk' = disk \cup {Packed[at + 1]} /\ at' = at + 1
            /\ UNCHANGED <<metas, stage>>
       ELSE metas' = Packed /\ at' = 0 /\ stage' = NextStage /\ UNCHANGED disk
    /\ UNCHANGED <<flags, job, spool, split, tokens, index, ref, remote, faults>>

Commitment(leaves) ==
    [root |-> leaves, sequences |-> Len(FlattenSeq(leaves))]

(* build_dataset_manifest: the index, then the reference with its root.      *)
Manifest ==
    /\ stage = "manifest"
    /\ metas # <<>> /\ \A k \in 1..Len(metas) - 1 : Len(metas[k]) = ShardSequences
    /\ up' = (at = 0)
    /\ IF at = 0 THEN index' = metas /\ at' = 1 /\ UNCHANGED <<ref, stage>>
       ELSE /\ ref' = Commitment(metas) /\ at' = 0
            /\ stage' = NextStage /\ UNCHANGED index
    /\ UNCHANGED <<flags, job, spool, split, tokens, disk, metas, remote, faults>>

(* verify_local on the directory.                                            *)
VerifyOk == /\ ref = Commitment(index)
            /\ \A k \in DOMAIN index : index[k] \in disk

Verify ==
    /\ stage = "verify" /\ ~up /\ VerifyOk
    /\ stage' = NextStage
    /\ UNCHANGED <<up, flags, job, at, spool, split, tokens, dataset, faults>>

(* Faulty variant: only what the directory does not commit to is published.  *)
ObjectsUncommitted == Sidecars \cup Files(disk \ Range(index))

(* dataset_files: every shard in the directory and the sidecars.             *)
Objects == Sidecars \cup Files(disk)

BeginUpload ==
    /\ ~up /\ stage = "upload"
    /\ up' = TRUE
    /\ job' = [o \in Objects |-> "off"]
    /\ UNCHANGED <<stage, flags, at, spool, split, tokens, dataset, faults>>

(* A put, in any order; an object that is there as it should be is skipped.  *)
Put(o) ==
    /\ up /\ stage = "upload" /\ o \in DOMAIN job /\ job[o] = "off"
    /\ remote' = remote \cup {o}
    /\ job' = [job EXCEPT ![o] = "done"]
    /\ UNCHANGED <<stage, up, flags, at, spool, split, tokens, disk, metas, index, ref, faults>>

(* A put fails, and the command with it.                                     *)
PutFails(o) ==
    /\ up /\ stage = "upload" /\ o \in DOMAIN job /\ job[o] = "off" /\ faults < MaxFaults
    /\ job' = [job EXCEPT ![o] = "failed"]
    /\ faults' = faults + 1
    /\ UNCHANGED <<stage, up, flags, at, spool, split, tokens, dataset>>

(* The running command is killed; its next run removes temporary files.      *)
Kill ==
    /\ up /\ faults < MaxFaults
    /\ up' = FALSE /\ job' = <<>> /\ at' = 0
    /\ faults' = faults + 1
    /\ UNCHANGED <<stage, flags, spool, split, tokens, dataset>>

PrepInit ==
    /\ stage = "download" /\ up = FALSE /\ flags \in {f \in Flags : ~f.discard} /\ job = <<>> /\ at = 0
    /\ spool = [r \in Roots |-> [u \in Units |-> NewSpool]]
    /\ split = [s \in Sources |-> 0]
    /\ tokens = <<>> /\ disk = {} /\ metas = <<>> /\ index = <<>>
    /\ ref = Commitment(<<>>) /\ remote = {} /\ faults = 0

Step == \/ Begin \/ BeginTokenize \/ BeginUpload \/ End
        \/ \E s \in Sources : Discard(s) \/ Prepare(s) \/ Refuse(s)
        \/ \E u \in DOMAIN job : Commit(u) \/ Record(u) \/ Open(u) \/ Flush(u) \/ Put(u)
        \/ Shard \/ Manifest \/ Verify
PrepNext == \/ Step \/ Kill
        \/ \E u \in DOMAIN job : WorkerFails(u) \/ PutFails(u)

(* The operator reruns a command until it succeeds; faults are bounded.      *)
PrepSpec == PrepInit /\ [][PrepNext]_prepVars /\ WF_prepVars(Step)

-----------------------------------------------------------------------------
(* Types, and: state.json counts the documents of the parts it names, at     *)
(* most one part file is unrecorded, and a stopped command has no tasks.     *)
PrepTypeOK ==
    /\ stage \in Range(Stages) /\ faults \in 0..MaxFaults
    /\ flags \in [dl : Splits, discard : BOOLEAN, dd : BOOLEAN, tok : Nat]
    /\ split \in [Sources -> Splits]
    /\ DOMAIN tokens \subseteq Sources \X Nat
    /\ (up \/ job = <<>>) /\ at \in Nat /\ (at # 0 => up /\ stage \in {"shard", "manifest"})
    /\ \A r \in Roots, u \in Units :
         /\ spool[r][u].docs = Len(Recorded(spool[r][u]))
         /\ Len(spool[r][u].files) - spool[r][u].parts \in {0, 1}

(* download.py:7 - resuming skips exactly the recorded documents and a crash *)
(* loses only the part in flight: whatever was killed on the way, a source's *)
(* spool holds, once and in order, a prefix of its stream, or of each        *)
(* worker's share of it, never both.                                         *)
SpooledOnce ==
    \A s \in Sources :
        LET own == Recorded(spool["raw"][<<s, 0>>])
            worker(i) == Recorded(spool["raw"][<<s, i>>])
        IN /\ IsPrefix(own, Stream[s])
           /\ \A i \in 1..Workers :
                worker(i) # <<>> => own = <<>> /\ IsPrefix(worker(i), Nth(Stream[s], i, split[s]))

(* What the verified index commits to is the spooled corpus: each class of   *)
(* documents once, under the first source of the dedup order that has it,    *)
(* sources in pack order, cut into sequences, whichever way each stage ran.  *)
CommittedIsTheCorpus ==
    stage \in {"upload", "published"} =>
        FlattenSeq(index) = Cut(FlattenSeq([k \in DOMAIN Order |-> Kept(spool["raw"], Order[k])]), SeqLen)

(* A dataset declared published is all there: the shards of the index and    *)
(* the sidecars are in the bucket.                                           *)
PublishedWhole == stage = "published" => Files(Range(index)) \cup Sidecars \subseteq remote

(* Rerunning whatever fails gets the dataset published once faults stop.     *)
PipelineEnds == <>(stage = "published")

=============================================================================
