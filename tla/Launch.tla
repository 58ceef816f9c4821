------------------------------- MODULE Launch -------------------------------
(***************************************************************************)
(* How a run is put on the chain and how a node finds its way into it.     *)
(* Every hotkey has ONE commitment slot: its bucket credentials, the       *)
(* owner's run manifest, a miner's window commits, a vote and the          *)
(* auditor's tag all overwrite each other there.  A reader recovers what   *)
(* was overwritten from the chain's history, keeps it in a cache by uid,   *)
(* and names buckets by the metagraph it read when its process started.    *)
(* The owner publishes in several steps (bucket, initialization, manifest, *)
(* commitment), nodes boot, crash and are relaunched in between            *)
(* (mok_core/chain/client.py, subnet/miner/bootstrap.py, fleet/).          *)
(*                                                                         *)
(* A commit lands in a block of its own; head is the chain's last block.   *)
(* Manifests are numbered from 1 as they are amended; the root of the      *)
(* published initialization travels in a manifest's wire and is number 0.  *)
(***************************************************************************)
EXTENDS Integers, FiniteSets, Sequences

CONSTANTS Owner,             \* the uid that publishes the run
          Miners, Auditors,  \* the other uids
          Replaceable,       \* uids whose hotkey may be replaced by another
          Misconfigured,     \* nodes whose RunConfig is not the manifest's
          MaxManifest,       \* bound: manifests published one after the other
          MaxCreds,          \* bound: credential pairs of one operator
          MaxBlock,          \* bound: commits and empty blocks
          MaxWindows,        \* bound: window commits of one miner
          LookbackBlocks,    \* bucket_lookback_blocks
          LookbackHops,      \* bucket_lookback_hops
          UnreadOnboarding   \* whether mok-onboard may fail to read its slot

Uids == {Owner} \cup Miners \cup Auditors
Manifests == 1 .. MaxManifest
InitRoot == 0

ASSUME LaunchAssumption ==
    /\ MaxManifest \in Nat /\ MaxCreds \in Nat /\ MaxBlock \in Nat /\ MaxWindows \in Nat
    /\ LookbackBlocks \in Nat /\ LookbackHops \in Nat
    /\ UnreadOnboarding \in BOOLEAN
    /\ Replaceable \subseteq Uids \ {Owner} /\ Misconfigured \subseteq Uids

VARIABLES head,       \* the chain's last block
          hist,       \* [hotkey |-> the commits its slot has held, oldest first]
          reg,        \* [uid |-> how many hotkeys have held it]
          posted,     \* what the owner's bucket holds: nothing (NoManifest), the
                      \* initialization (InitRoot), or also this manifest.json
          pc,         \* [uid |-> where its process is]
          mg,         \* [uid |-> the registrations its process read at its start]
          cache,      \* [uid |-> [uid |-> the credentials it has cached]]
          want,       \* [uid |-> the manifest hash its boot read from the chain]
          running,    \* [uid |-> the manifest its process runs under]
          holdsVote   \* the leader's process knows its vote is in the owner's slot

chain == <<head, hist, reg>>
node == <<pc, mg, cache, want, running>>
vars == <<chain, posted, node, holdsVote>>

NoManifest == -1
NoCreds == [name |-> <<Owner, 0>>, account |-> <<Owner, 0>>, v |-> 0]

\* A hotkey: the g-th one that holds uid u.
Hotkeys == Uids \X (1 .. 2)
Hotkey(u) == <<u, reg[u]>>

BucketWire(k, v) == [kind |-> "bucket", of |-> k, v |-> v]
ManifestWire(h) == [kind |-> "manifest", of |-> h, v |-> 0]
RoleWire(kind, w) == [kind |-> kind, of |-> w, v |-> 0]
Nothing == [kind |-> "empty", of |-> 0, v |-> 0]

\* What get_commitment(uid) reads: the SDK resolves the uid at the head.
Live(u) == LET h == hist[Hotkey(u)] IN IF Len(h) = 0 THEN Nothing ELSE h[Len(h)].wire

\* A commit lands in the next block.
Land(k, wire) ==
    /\ head < MaxBlock
    /\ head' = head + 1
    /\ hist' = [hist EXCEPT ![k] = Append(@, [block |-> head + 1, wire |-> wire])]

-----------------------------------------------------------------------------
\* Discovery.  Credentials carry the account and keys of the hotkey that wrote
\* the wire, and the bucket name of the hotkey the READER's metagraph lists.
CredsOf(wire, name) == [name |-> name, account |-> wire.of, v |-> wire.v]

NamedBy(n, u) == <<u, mg[n][u]>>

\* The commits a walk from the live occupant down to commit j passes through.
WalkReaches(k, j) ==
    LET floor == IF head - LookbackBlocks > 1 THEN head - LookbackBlocks ELSE 1
    IN  /\ Len(hist[k]) - j <= LookbackHops
        /\ \A i \in j + 1 .. Len(hist[k]) : hist[k][i].block - 1 >= floor

(* Faulty variant: only the live slot is looked at. *)
RecoveredNever(n, u, readFails) == NoCreds

\* Follow the exact chain of overwrites backwards until a bucket commit appears.
Recovered(n, u, readFails) ==
    LET k == NamedBy(n, u)
        buckets == {i \in 1 .. Len(hist[k]) : hist[k][i].wire.kind = "bucket"}
    IN  IF buckets = {} \/ readFails THEN NoCreds
        ELSE LET j == CHOOSE i \in buckets : \A x \in buckets : x <= i
             IN  IF WalkReaches(k, j) THEN CredsOf(hist[k][j].wire, k) ELSE NoCreds

\* get_bucket: the live slot, else the cache, else history.
Bucket(n, u, cached, readFails) ==
    IF Live(u).kind = "bucket" THEN CredsOf(Live(u), NamedBy(n, u))
    ELSE IF cached # NoCreds THEN cached
    ELSE Recovered(n, u, readFails)

-----------------------------------------------------------------------------
\* The owner's operator and the onboarding commands.

(* Faulty variant: a slot that carries a role's commitment is taken too. *)
OnboardAnySlot(u, v, unread) ==
    /\ Live(u) # BucketWire(Hotkey(u), v)
    /\ Land(Hotkey(u), BucketWire(Hotkey(u), v))
    /\ UNCHANGED <<reg, posted, node, holdsVote>>

\* mok-onboard's bucket step.  An unreadable slot reads as an empty one.
Onboard(u, v, unread) ==
    LET wire == BucketWire(Hotkey(u), v)
        existing == IF unread THEN Nothing ELSE Live(u)
    IN  /\ existing # wire
        /\ existing.kind \in {"empty", "bucket"}
        /\ Land(Hotkey(u), wire)
        /\ UNCHANGED <<reg, posted, node, holdsVote>>

\* mok-init-publish: the checkpoint is uploaded, then its root committed.
UploadInit ==
    /\ posted = NoManifest
    /\ posted' = InitRoot
    /\ UNCHANGED <<chain, node, holdsVote>>

CommitInit ==
    /\ posted = InitRoot
    /\ Land(Hotkey(Owner), ManifestWire(InitRoot))
    /\ UNCHANGED <<reg, posted, node, holdsVote>>

\* The operator puts the next manifest in the owner's bucket, the first one once the
\* initialization it embeds exists, and commits its hash before or after.
PostManifest(h) ==
    /\ posted # NoManifest /\ h = posted + 1
    /\ posted' = h
    /\ UNCHANGED <<chain, node, holdsVote>>

CommitManifest(h) ==
    /\ posted # NoManifest /\ h \in {posted, posted + 1}
    /\ Live(Owner) # ManifestWire(h)
    /\ Land(Hotkey(Owner), ManifestWire(h))
    /\ UNCHANGED <<reg, posted, node, holdsVote>>

\* The init step of mok-onboard takes the owner's committed hash for the init root
\* and passes if the published checkpoint has it.
InitVerifies == posted # NoManifest /\ Live(Owner) = ManifestWire(InitRoot)

-----------------------------------------------------------------------------
(* Faulty variant: the credentials found outlive the process. *)
EndsCaching(n) ==
    /\ pc' = [pc EXCEPT ![n] = "down"]
    /\ mg' = [mg EXCEPT ![n] = [u \in Uids |-> 1]]
    /\ want' = [want EXCEPT ![n] = NoManifest]
    /\ running' = [running EXCEPT ![n] = NoManifest]
    /\ UNCHANGED cache

\* A process that ends, or whose boot is refused, takes its memory with it; its
\* supervisor relaunches it (BootHash).
Ends(n) ==
    /\ pc' = [pc EXCEPT ![n] = "down"]
    /\ mg' = [mg EXCEPT ![n] = [u \in Uids |-> 1]]
    /\ cache' = [cache EXCEPT ![n] = [u \in Uids |-> NoCreds]]
    /\ want' = [want EXCEPT ![n] = NoManifest]
    /\ running' = [running EXCEPT ![n] = NoManifest]

\* A node boots: the owner's hash, then its bucket, then the manifest itself.
\* Other commands and commits run between the three.
BootHash(n) ==
    /\ pc[n] = "down"
    /\ Live(Owner).kind = "manifest"
    /\ want' = [want EXCEPT ![n] = Live(Owner).of]
    /\ mg' = [mg EXCEPT ![n] = reg]
    /\ pc' = [pc EXCEPT ![n] = "hashed"]
    /\ UNCHANGED <<chain, posted, cache, running, holdsVote>>

BootBucket(n, readFails) ==
    LET creds == Bucket(n, Owner, cache[n][Owner], readFails)
    IN  /\ pc[n] = "hashed"
        /\ IF creds = NoCreds
           THEN Ends(n)
           ELSE /\ cache' = [cache EXCEPT ![n][Owner] = creds]
                /\ pc' = [pc EXCEPT ![n] = "located"]
                /\ UNCHANGED <<mg, want, running>>
        /\ UNCHANGED <<chain, posted, holdsVote>>

(* Faulty variant: the manifest in the bucket is taken as it is. *)
AcceptsPosted(n) == posted \in Manifests /\ n \notin Misconfigured

(* Faulty variant: the committed root of the initialization passes for a manifest. *)
AcceptsInit(n) == posted = want[n] /\ n \notin Misconfigured

\* The manifest must hash to what the chain holds, the RunConfig to what the
\* manifest holds.
Accepts(n) == posted \in Manifests /\ posted = want[n] /\ n \notin Misconfigured

BootFetch(n) ==
    /\ pc[n] = "located"
    /\ IF Accepts(n)
       THEN /\ pc' = [pc EXCEPT ![n] = "up"]
            /\ running' = [running EXCEPT ![n] = posted]
            /\ want' = [want EXCEPT ![n] = NoManifest]
            /\ UNCHANGED <<mg, cache>>
       ELSE Ends(n)
    /\ UNCHANGED <<chain, posted, holdsVote>>

Stop(n) ==
    /\ pc[n] # "down"
    /\ Ends(n)
    /\ holdsVote' = (holdsVote /\ n # Owner)
    /\ UNCHANGED <<chain, posted>>

-----------------------------------------------------------------------------
\* What running nodes put in their slots.
CommitWindow(n) ==
    /\ n \in Miners /\ pc[n] = "up"
    /\ LET k == Hotkey(n)
           w == Cardinality({i \in 1 .. Len(hist[k]) : hist[k][i].wire.kind = "window"})
       IN  w < MaxWindows /\ Land(k, RoleWire("window", w))
    /\ UNCHANGED <<reg, posted, node, holdsVote>>

TagAuditor(n) ==
    /\ n \in Auditors /\ pc[n] = "up"
    /\ Live(n) # RoleWire("auditor", 0)
    /\ Land(Hotkey(n), RoleWire("auditor", 0))
    /\ UNCHANGED <<reg, posted, node, holdsVote>>

\* The owner leads: its vote takes the slot of the manifest, and when the vote is
\* over the hash of the manifest this process runs under is put back.
CastVote ==
    /\ pc[Owner] = "up" /\ ~holdsVote
    /\ Land(Hotkey(Owner), RoleWire("vote", 0))
    /\ holdsVote' = TRUE
    /\ UNCHANGED <<reg, posted, node>>

RestoreManifestSlot ==
    /\ pc[Owner] = "up" /\ holdsVote
    /\ IF Live(Owner) # ManifestWire(running[Owner])
       THEN Land(Hotkey(Owner), ManifestWire(running[Owner]))
       ELSE UNCHANGED <<head, hist>>
    /\ holdsVote' = FALSE
    /\ UNCHANGED <<reg, posted, node>>

\* get_all_buckets: every peer at once.
Discover(n, readFails) ==
    /\ pc[n] = "up"
    /\ cache' = [cache EXCEPT ![n] = [u \in Uids |-> Bucket(n, u, cache[n][u], readFails)]]
    /\ UNCHANGED <<chain, posted, pc, mg, want, running, holdsVote>>

-----------------------------------------------------------------------------
\* The chain: an empty block; a uid passes to another hotkey and its node goes.
Block ==
    /\ head < MaxBlock
    /\ head' = head + 1
    /\ UNCHANGED <<hist, reg, posted, node, holdsVote>>

Reregister(u) ==
    /\ u \in Replaceable /\ reg[u] = 1
    /\ reg' = [reg EXCEPT ![u] = 2]
    /\ Ends(u)
    /\ UNCHANGED <<head, hist, posted, holdsVote>>

Init ==
    /\ head = 0
    /\ hist = [k \in Hotkeys |-> <<>>]
    /\ reg = [u \in Uids |-> 1]
    /\ posted = NoManifest
    /\ pc = [u \in Uids |-> "down"]
    /\ mg = [n \in Uids |-> [u \in Uids |-> 1]]
    /\ cache = [n \in Uids |-> [u \in Uids |-> NoCreds]]
    /\ want = [u \in Uids |-> NoManifest]
    /\ running = [u \in Uids |-> NoManifest]
    /\ holdsVote = FALSE

Operator ==
    \/ \E u \in Uids, v \in 1 .. MaxCreds, unread \in BOOLEAN :
           (unread => UnreadOnboarding) /\ Onboard(u, v, unread)
    \/ UploadInit \/ CommitInit
    \/ \E h \in Manifests : PostManifest(h) \/ CommitManifest(h)

Node(n) ==
    \/ BootHash(n)
    \/ \E readFails \in BOOLEAN : BootBucket(n, readFails) \/ Discover(n, readFails)
    \/ BootFetch(n)
    \/ CommitWindow(n) \/ TagAuditor(n)
    \/ Stop(n)

Next ==
    \/ Operator
    \/ \E n \in Uids : Node(n)
    \/ CastVote \/ RestoreManifestSlot
    \/ Block
    \/ \E u \in Uids : Reregister(u)

\* A refused or ended process is relaunched by its supervisor; neither crashes nor
\* failed history reads strike every boot for ever.
Fairness ==
    \A n \in Uids :
        WF_vars(BootHash(n)) /\ SF_vars(BootBucket(n, FALSE)) /\ SF_vars(BootFetch(n))

Spec == Init /\ [][Next]_vars
FairSpec == Spec /\ Fairness

-----------------------------------------------------------------------------
Wires == {Nothing} \cup {BucketWire(k, v) : k \in Hotkeys, v \in 1 .. MaxCreds}
         \cup {ManifestWire(h) : h \in {InitRoot} \cup Manifests}
         \cup {RoleWire(kind, w) : kind \in {"window", "auditor", "vote"}, w \in 0 .. MaxWindows}
Creds == [name : Hotkeys, account : Hotkeys, v : 1 .. MaxCreds]
Hashes == {NoManifest, InitRoot} \cup Manifests

\* Every variable stays in its range: no process runs under the init root.
TypeOK ==
    /\ head \in 0 .. MaxBlock
    /\ DOMAIN hist = Hotkeys
    /\ \A k \in Hotkeys : hist[k] \in Seq([block : 1 .. MaxBlock, wire : Wires])
    /\ reg \in [Uids -> 1 .. 2]
    /\ posted \in Hashes
    /\ pc \in [Uids -> {"down", "hashed", "located", "up"}]
    /\ mg \in [Uids -> [Uids -> 1 .. 2]]
    /\ cache \in [Uids -> [Uids -> Creds \cup {NoCreds}]]
    /\ want \in [Uids -> Hashes]
    /\ running \in [Uids -> {NoManifest} \cup Manifests]
    /\ holdsVote \in BOOLEAN

Committed(h) == \E i \in 1 .. Len(hist[<<Owner, 1>>]) : hist[<<Owner, 1>>][i].wire = ManifestWire(h)

\* A node that is up runs under a manifest the owner committed on the chain and
\* put in its bucket, whatever was published while it was booting.
RunsCommitted ==
    \A n \in Uids : pc[n] = "up" =>
        /\ Committed(running[n])
        /\ running[n] <= posted

\* A client whose metagraph is still the chain's holds, for a uid, only credentials
\* the uid's own hotkey committed: recovered from history or not.
CredentialsAreTheUids ==
    \A n, u \in Uids :
        (cache[n][u] # NoCreds /\ pc[n] # "down" /\ mg[n][u] = reg[u]) =>
            /\ cache[n][u].name = Hotkey(u) /\ cache[n][u].account = Hotkey(u)
            /\ \E i \in 1 .. Len(hist[Hotkey(u)]) :
                   hist[Hotkey(u)][i].wire = BucketWire(Hotkey(u), cache[n][u].v)

\* Onboarding never buries a role's commitment: in every slot's history the bucket
\* commits come before all others (ensure_bucket_committed).
BucketsComeFirst ==
    \A k \in Hotkeys : \A i, j \in 1 .. Len(hist[k]) :
        (i < j /\ hist[k][j].wire.kind = "bucket") => hist[k][i].wire.kind = "bucket"

\* The run can be joined: the chain holds the hash of the manifest in the bucket,
\* and the owner's bucket is in reach of the walk.
Joinable ==
    /\ posted \in Manifests /\ Live(Owner) = ManifestWire(posted)
    /\ \E j \in 1 .. Len(hist[Hotkey(Owner)]) :
           hist[Hotkey(Owner)][j].wire.kind = "bucket" /\ WalkReaches(Hotkey(Owner), j)

\* Once the run can be joined for good, every well configured node keeps coming up
\* (compose.yml relaunches a boot that was refused).
NodesComeUp ==
    \A n \in Uids \ Misconfigured : <>[]Joinable => []<>(pc[n] = "up")

-----------------------------------------------------------------------------
\* Statements of the documentation that the code does not keep.

\* OPERATOR_GUIDE: once the manifest is committed, each miner onboards, the init
\* step included.
OnboardingSucceeds == Joinable => InitVerifies

\* OPERATOR_GUIDE: running processes follow the manifest's phase table.
RunningFollowManifest ==
    \A n, m \in Uids : (pc[n] = "up" /\ pc[m] = "up") => running[n] = running[m]

\* leader.py: the owner's ManifestCommit is put back after its vote.
VoteRestoresManifest ==
    [][(holdsVote /\ ~holdsVote' /\ pc'[Owner] = "up") =>
           \A h \in Manifests : Committed(h) => Live(Owner)'.of >= h]_vars

\* bootstrap.py: the owner's bucket is recoverable from earlier blocks.
OwnerStaysReachable ==
    LET h == hist[Hotkey(Owner)]
        buckets == {j \in 1 .. Len(h) : h[j].wire.kind = "bucket"}
    IN  buckets # {} => \E j \in buckets : WalkReaches(Hotkey(Owner), j)

\* client.py: credentials are what the chain says of the uid, trustless.
NoChimera == \A n, u \in Uids : cache[n][u] # NoCreds => cache[n][u].name = cache[n][u].account
=============================================================================
