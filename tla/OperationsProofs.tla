--------------------------- MODULE OperationsProofs ---------------------------
(***************************************************************************)
(* Theorems about what an operator does: preparing the dataset (DataPrep)  *)
(* and launching the nodes (Launch), for every value of their constants.   *)
(*                                                                         *)
(* A node that is up runs under a manifest the owner committed, for any    *)
(* set of nodes and any bounds.  The strengthening carries the commitment  *)
(* through the boot: the hash a boot has read stays in the history of the  *)
(* owner's slot, which only grows, and manifest.json never goes back.      *)
(* And onboarding never buries a role's commitment, as long as it can read *)
(* the slot it is about to write: the newest commit tells of all before.   *)
(*                                                                         *)
(* A dataset is what the download recorded, whatever was killed and run    *)
(* again.  What a command writes is a function of what the ones before it  *)
(* recorded, so that each layer of the invariant says of one command how   *)
(* far it has got with that function's value: SpoolInv the shape of the    *)
(* spools and of the tasks, OnceInv what the download records, CorpusInv   *)
(* what the deduplication, the tokenisation, the shards and the index hold *)
(* of it, WholeInv what the upload has put.  That the parallel ways of     *)
(* deduplicating and of tokenising compute what the sequential ones do     *)
(* (TwoPass, GroupsAre) is about sequences alone and comes first.          *)
(***************************************************************************)
EXTENDS Launch, DataPrep, FiniteSetTheorems, SequenceTheorems, TLAPS

\* Any commitment, without the bounds on credentials and windows.
AnyWire == {Nothing} \cup {BucketWire(k, v) : k \in Hotkeys, v \in Nat}
           \cup {ManifestWire(h) : h \in {InitRoot} \cup Manifests}
           \cup {RoleWire(kind, w) : kind \in {"window", "auditor", "vote"}, w \in Nat}

Entries == [block : Nat, wire : AnyWire]

Shape ==
    /\ head \in Nat
    /\ hist \in [Hotkeys -> Seq(Entries)]
    /\ reg \in [Uids -> 1 .. 2] /\ reg[Owner] = 1
    /\ posted \in Hashes
    /\ DOMAIN pc = Uids /\ DOMAIN want = Uids /\ DOMAIN running = Uids

\* The hash a boot goes by is one the owner committed.
BootsOnCommitted == \A n \in Uids : pc[n] \in {"hashed", "located"} => Committed(want[n])

\* The conjuncts of RunsCommitted, and that the init root is not a manifest.
UpOnCommitted ==
    \A n \in Uids : pc[n] = "up" =>
        running[n] \in Manifests /\ Committed(running[n]) /\ running[n] <= posted

IInv == Shape /\ BootsOnCommitted /\ UpOnCommitted

LEMMA OwnerSlot == ASSUME Shape PROVE Hotkey(Owner) = <<Owner, 1>> /\ <<Owner, 1>> \in Hotkeys
  BY DEF Shape, Hotkey, Hotkeys, Uids

LEMMA HotkeysAreHotkeys == ASSUME Shape, NEW u \in Uids PROVE Hotkey(u) \in Hotkeys
  BY DEF Shape, Hotkey, Hotkeys

LEMMA ManifestWires ==
    ASSUME NEW x \in AnyWire, x.kind = "manifest"
    PROVE  x.of \in {InitRoot} \cup Manifests /\ x = ManifestWire(x.of)
  <1>1. x \notin {Nothing}
    BY DEF Nothing
  <1>2. x \notin {BucketWire(k, v) : k \in Hotkeys, v \in Nat}
    BY DEF BucketWire
  <1>3. x \notin {RoleWire(kind, w) : kind \in {"window", "auditor", "vote"}, w \in Nat}
    BY DEF RoleWire
  <1>4. PICK h \in {InitRoot} \cup Manifests : x = ManifestWire(h)
    BY <1>1, <1>2, <1>3 DEF AnyWire
  <1>5. x.of = h
    BY <1>4 DEF ManifestWire
  <1> QED
    BY <1>4, <1>5

\* What is live in the owner's slot with a manifest's tag has been committed.
LEMMA LiveIsCommitted ==
    ASSUME Shape, Live(Owner).kind = "manifest"
    PROVE  Live(Owner).of \in {InitRoot} \cup Manifests /\ Committed(Live(Owner).of)
  <1> DEFINE h == hist[<<Owner, 1>>]
  <1>1. h \in Seq(Entries) /\ Hotkey(Owner) = <<Owner, 1>>
    BY OwnerSlot DEF Shape
  <1>2. Len(h) # 0
    BY <1>1 DEF Live, Nothing
  <1>3. Len(h) \in 1 .. Len(h) /\ h[Len(h)] \in Entries /\ Live(Owner) = h[Len(h)].wire
    BY <1>1, <1>2 DEF Live
  <1>4. Live(Owner) \in AnyWire
    BY <1>3 DEF Entries
  <1>5. Live(Owner).of \in {InitRoot} \cup Manifests /\ Live(Owner) = ManifestWire(Live(Owner).of)
    BY <1>4, ManifestWires
  <1> QED
    BY <1>3, <1>5 DEF Committed

\* A commit keeps the shape of the slots and everything that was committed.
LEMMA LandKeeps ==
    ASSUME Shape, NEW k \in Hotkeys, NEW w \in AnyWire, Land(k, w)
    PROVE  /\ head' \in Nat
           /\ hist' \in [Hotkeys -> Seq(Entries)]
           /\ \A h : Committed(h) => Committed(h)'
  <1> DEFINE e == [block |-> head + 1, wire |-> w]
             o == <<Owner, 1>>
  <1>1. e \in Entries /\ head' \in Nat
    BY DEF Land, Entries, Shape
  <1>2. hist \in [Hotkeys -> Seq(Entries)] /\ hist' = [hist EXCEPT ![k] = Append(@, e)]
    BY DEF Land, Shape
  <1>3. Append(hist[k], e) \in Seq(Entries)
    BY <1>1, <1>2
  <1>4. hist' \in [Hotkeys -> Seq(Entries)]
    BY <1>2, <1>3
  <1>5. ASSUME NEW h, Committed(h) PROVE Committed(h)'
    <2>1. PICK i \in 1 .. Len(hist[o]) : hist[o][i].wire = ManifestWire(h)
      BY <1>5 DEF Committed
    <2>2. hist[o] \in Seq(Entries)
      BY <1>2, OwnerSlot
    <2>3. i \in 1 .. Len(hist'[o]) /\ hist'[o][i] = hist[o][i]
      <3>1. CASE k = o
        <4>1. hist'[o] = Append(hist[o], e)
          BY <1>2, <3>1
        <4> QED
          BY <2>1, <2>2, <1>1, <4>1
      <3>2. CASE k # o
        BY <1>2, <2>1, <3>2, OwnerSlot
      <3> QED
        BY <3>1, <3>2
    <2> QED
      BY <2>1, <2>3 DEF Committed, ManifestWire
  <1> QED
    BY <1>1, <1>4, <1>5

\* A step that leaves the processes alone and lands a commit keeps the invariant.
LEMMA CommitKeeps ==
    ASSUME IInv, NEW k \in Hotkeys, NEW w \in AnyWire, Land(k, w),
           UNCHANGED <<reg, posted, pc, want, running>>
    PROVE  IInv'
  <1>1. Shape'
    BY LandKeeps DEF IInv, Shape
  <1>2. \A h : Committed(h) => Committed(h)'
    BY LandKeeps DEF IInv
  <1>3. BootsOnCommitted'
    BY <1>2 DEF IInv, BootsOnCommitted
  <1>4. UpOnCommitted'
    BY <1>2 DEF IInv, UpOnCommitted
  <1> QED
    BY <1>1, <1>3, <1>4 DEF IInv

\* A process that ends drops what it knew.
LEMMA EndKeeps ==
    ASSUME IInv, NEW n \in Uids, Ends(n), UNCHANGED <<head, hist, posted>>,
           reg' \in [Uids -> 1 .. 2], reg'[Owner] = 1
    PROVE  IInv'
  <1>1. Shape'
    BY DEF IInv, Shape, Ends
  <1>2. \A h : Committed(h)' <=> Committed(h)
    BY DEF Committed
  <1>3. \A m \in Uids : /\ m # n => pc'[m] = pc[m] /\ want'[m] = want[m] /\ running'[m] = running[m]
                        /\ pc'[n] = "down"
    BY DEF Ends, IInv, Shape
  <1>4. BootsOnCommitted'
    BY <1>2, <1>3 DEF IInv, BootsOnCommitted
  <1>5. UpOnCommitted'
    BY <1>2, <1>3 DEF IInv, UpOnCommitted
  <1> QED
    BY <1>1, <1>4, <1>5 DEF IInv

LEMMA InitInvariant == Init => IInv
  <1> SUFFICES ASSUME Init PROVE IInv
    OBVIOUS
  <1>1. Shape
    <2>1. <<>> \in Seq(Entries)
      OBVIOUS
    <2> QED
      BY <2>1 DEF Init, Shape, Hashes, Uids
  <1> QED
    BY <1>1 DEF Init, IInv, BootsOnCommitted, UpOnCommitted

LEMMA OperatorKeeps == ASSUME IInv, Operator PROVE IInv'
  <1> USE DEF IInv
  <1>1. ASSUME NEW u \in Uids, NEW v \in 1 .. MaxCreds, NEW unread \in BOOLEAN, Onboard(u, v, unread)
        PROVE  IInv'
    <2>1. Hotkey(u) \in Hotkeys
      BY HotkeysAreHotkeys
    <2>2. v \in Nat
      BY LaunchAssumption
    <2>3. BucketWire(Hotkey(u), v) \in AnyWire
      BY <2>1, <2>2 DEF AnyWire
    <2>4. Land(Hotkey(u), BucketWire(Hotkey(u), v)) /\ UNCHANGED <<reg, posted, pc, want, running>>
      BY <1>1 DEF Onboard, node
    <2> QED
      BY <2>1, <2>3, <2>4, CommitKeeps
  <1>2. CASE UploadInit
    <2>1. posted = NoManifest /\ posted' = InitRoot
          /\ UNCHANGED <<head, hist, reg, pc, want, running>>
      BY <1>2 DEF UploadInit, chain, node
    <2>2. Shape'
      BY <2>1 DEF Shape, Hashes
    <2>3. BootsOnCommitted'
      BY <2>1 DEF BootsOnCommitted, Committed
    <2>4. UpOnCommitted'
      <3>1. \A n \in Uids : pc[n] # "up"
        BY <2>1 DEF UpOnCommitted, NoManifest, Manifests
      <3> QED
        BY <2>1, <3>1 DEF UpOnCommitted
    <2> QED
      BY <2>2, <2>3, <2>4
  <1>3. CASE CommitInit
    <2>1. ManifestWire(InitRoot) \in AnyWire /\ Hotkey(Owner) \in Hotkeys
      BY OwnerSlot DEF AnyWire
    <2>2. Land(Hotkey(Owner), ManifestWire(InitRoot)) /\ UNCHANGED <<reg, posted, pc, want, running>>
      BY <1>3 DEF CommitInit, node
    <2> QED
      BY <2>1, <2>2, CommitKeeps
  <1>4. ASSUME NEW h \in Manifests, PostManifest(h) PROVE IInv'
    <2>1. posted \in Int /\ posted' = posted + 1 /\ posted' \in Manifests
          /\ UNCHANGED <<head, hist, reg, pc, want, running>>
      BY <1>4, LaunchAssumption DEF PostManifest, chain, node, Shape, Hashes, NoManifest, InitRoot, Manifests
    <2>2. Shape'
      BY <2>1 DEF Shape, Hashes
    <2>3. BootsOnCommitted'
      BY <2>1 DEF BootsOnCommitted, Committed
    <2>4. UpOnCommitted'
      <3>1. \A n \in Uids : running[n] \in Manifests => running[n] \in Int
        BY LaunchAssumption DEF Manifests
      <3> QED
        BY <2>1, <3>1 DEF UpOnCommitted, Committed
    <2> QED
      BY <2>2, <2>3, <2>4
  <1>5. ASSUME NEW h \in Manifests, CommitManifest(h) PROVE IInv'
    <2>1. ManifestWire(h) \in AnyWire /\ Hotkey(Owner) \in Hotkeys
      BY OwnerSlot DEF AnyWire
    <2>2. Land(Hotkey(Owner), ManifestWire(h)) /\ UNCHANGED <<reg, posted, pc, want, running>>
      BY <1>5 DEF CommitManifest, node
    <2> QED
      BY <2>1, <2>2, CommitKeeps
  <1> QED
    BY <1>1, <1>2, <1>3, <1>4, <1>5 DEF Operator

LEMMA BootKeeps ==
    ASSUME IInv, NEW n \in Uids,
           \/ BootHash(n)
           \/ \E readFails \in BOOLEAN : BootBucket(n, readFails)
           \/ BootFetch(n)
    PROVE  IInv'
  <1> USE DEF IInv
  <1>1. CASE BootHash(n)
    <2>1. /\ pc' = [pc EXCEPT ![n] = "hashed"] /\ want' = [want EXCEPT ![n] = Live(Owner).of]
          /\ UNCHANGED <<head, hist, reg, posted, running>>
      BY <1>1 DEF BootHash, chain
    <2>2. Committed(Live(Owner).of)
      BY <1>1, LiveIsCommitted DEF BootHash
    <2>3. Shape'
      BY <2>1 DEF Shape
    <2>4. BootsOnCommitted'
      BY <2>1, <2>2 DEF BootsOnCommitted, Committed, Shape
    <2>5. UpOnCommitted'
      BY <2>1 DEF UpOnCommitted, Committed, Shape
    <2> QED
      BY <2>3, <2>4, <2>5
  <1>2. ASSUME NEW readFails \in BOOLEAN, BootBucket(n, readFails) PROVE IInv'
    <2>1. pc[n] = "hashed" /\ UNCHANGED <<head, hist, reg, posted>>
      BY <1>2 DEF BootBucket, chain
    <2>2. CASE Ends(n)
      BY <2>1, <2>2, EndKeeps DEF Shape
    <2>3. CASE pc' = [pc EXCEPT ![n] = "located"] /\ UNCHANGED <<want, running>>
      <3>1. Shape'
        BY <2>1, <2>3 DEF Shape
      <3>2. BootsOnCommitted'
        BY <2>1, <2>3 DEF BootsOnCommitted, Committed, Shape
      <3>3. UpOnCommitted'
        BY <2>1, <2>3 DEF UpOnCommitted, Committed, Shape
      <3> QED
        BY <3>1, <3>2, <3>3
    <2> QED
      BY <1>2, <2>2, <2>3 DEF BootBucket
  <1>3. CASE BootFetch(n)
    <2>1. pc[n] = "located" /\ UNCHANGED <<head, hist, reg, posted>>
      BY <1>3 DEF BootFetch, chain
    <2>2. CASE Ends(n)
      BY <2>1, <2>2, EndKeeps DEF Shape
    <2>3. CASE /\ Accepts(n)
               /\ pc' = [pc EXCEPT ![n] = "up"] /\ running' = [running EXCEPT ![n] = posted]
               /\ want' = [want EXCEPT ![n] = NoManifest]
      <3>1. posted \in Manifests /\ Committed(posted) /\ posted <= posted
        BY <2>1, <2>3, LaunchAssumption DEF Accepts, BootsOnCommitted, Manifests
      <3>2. Shape'
        BY <2>1, <2>3 DEF Shape
      <3>3. BootsOnCommitted'
        BY <2>1, <2>3 DEF BootsOnCommitted, Committed, Shape
      <3>4. UpOnCommitted'
        BY <2>1, <2>3, <3>1 DEF UpOnCommitted, Committed, Shape
      <3> QED
        BY <3>2, <3>3, <3>4
    <2> QED
      BY <1>3, <2>2, <2>3 DEF BootFetch
  <1> QED
    BY <1>1, <1>2, <1>3

LEMMA RolesKeep ==
    ASSUME IInv,
           \/ \E n \in Uids : CommitWindow(n) \/ TagAuditor(n)
           \/ CastVote \/ RestoreManifestSlot
    PROVE  IInv'
  <1> USE DEF IInv
  <1>1. ASSUME NEW n \in Uids, CommitWindow(n) PROVE IInv'
    <2>1. PICK w \in Nat : Land(Hotkey(n), RoleWire("window", w))
      <3> DEFINE w == Cardinality({i \in 1 .. Len(hist[Hotkey(n)]) : hist[Hotkey(n)][i].wire.kind = "window"})
      <3>1. w < MaxWindows /\ Land(Hotkey(n), RoleWire("window", w))
        BY <1>1 DEF CommitWindow
      <3>2. w \in Nat
        <4>1. hist[Hotkey(n)] \in Seq(Entries)
          BY HotkeysAreHotkeys DEF Shape
        <4>2. IsFiniteSet(1 .. Len(hist[Hotkey(n)]))
          BY <4>1, FS_Interval
        <4> QED
          BY <4>2, FS_Subset, FS_CardinalityType
      <3> QED
        BY <3>1, <3>2
    <2>2. RoleWire("window", w) \in AnyWire /\ Hotkey(n) \in Hotkeys
      BY <2>1, HotkeysAreHotkeys DEF AnyWire
    <2>3. UNCHANGED <<reg, posted, pc, want, running>>
      BY <1>1 DEF CommitWindow, node
    <2> QED
      BY <2>1, <2>2, <2>3, CommitKeeps
  <1>2. ASSUME NEW n \in Uids, TagAuditor(n) PROVE IInv'
    <2>1. RoleWire("auditor", 0) \in AnyWire /\ Hotkey(n) \in Hotkeys
      BY HotkeysAreHotkeys DEF AnyWire
    <2>2. Land(Hotkey(n), RoleWire("auditor", 0)) /\ UNCHANGED <<reg, posted, pc, want, running>>
      BY <1>2 DEF TagAuditor, node
    <2> QED
      BY <2>1, <2>2, CommitKeeps
  <1>3. CASE CastVote
    <2>1. RoleWire("vote", 0) \in AnyWire /\ Hotkey(Owner) \in Hotkeys
      BY OwnerSlot DEF AnyWire
    <2>2. Land(Hotkey(Owner), RoleWire("vote", 0)) /\ UNCHANGED <<reg, posted, pc, want, running>>
      BY <1>3 DEF CastVote, node
    <2> QED
      BY <2>1, <2>2, CommitKeeps
  <1>4. CASE RestoreManifestSlot
    <2>1. pc[Owner] = "up" /\ UNCHANGED <<reg, posted, pc, want, running>>
      BY <1>4 DEF RestoreManifestSlot, node
    <2>2. running[Owner] \in Manifests
      BY <2>1 DEF UpOnCommitted, Uids
    <2>3. ManifestWire(running[Owner]) \in AnyWire /\ Hotkey(Owner) \in Hotkeys
      BY <2>2, OwnerSlot DEF AnyWire
    <2>4. CASE Land(Hotkey(Owner), ManifestWire(running[Owner]))
      BY <2>1, <2>3, <2>4, CommitKeeps
    <2>5. CASE UNCHANGED <<head, hist>>
      BY <2>1, <2>5 DEF Shape, BootsOnCommitted, UpOnCommitted, Committed
    <2> QED
      BY <1>4, <2>4, <2>5 DEF RestoreManifestSlot
  <1> QED
    BY <1>1, <1>2, <1>3, <1>4

LEMMA StepKeeps == ASSUME IInv, [Next]_vars PROVE IInv'
  <1>1. CASE Operator
    BY <1>1, OperatorKeeps
  <1>2. ASSUME NEW n \in Uids, Node(n) PROVE IInv'
    <2>1. CASE BootHash(n) \/ (\E readFails \in BOOLEAN : BootBucket(n, readFails)) \/ BootFetch(n)
      BY <2>1, BootKeeps
    <2>2. CASE CommitWindow(n) \/ TagAuditor(n)
      BY <2>2, RolesKeep
    <2>3. ASSUME NEW readFails \in BOOLEAN, Discover(n, readFails) PROVE IInv'
      BY <2>3 DEF Discover, chain, IInv, Shape, BootsOnCommitted, UpOnCommitted, Committed
    <2>4. CASE Stop(n)
      <3>1. Ends(n) /\ UNCHANGED <<head, hist, reg, posted>>
        BY <2>4 DEF Stop, chain
      <3> QED
        BY <3>1, EndKeeps DEF IInv, Shape
    <2> QED
      BY <1>2, <2>1, <2>2, <2>3, <2>4 DEF Node
  <1>3. CASE CastVote \/ RestoreManifestSlot
    BY <1>3, RolesKeep
  <1>4. CASE Block
    <2>1. head' = head + 1 /\ UNCHANGED <<hist, reg, posted, pc, want, running>>
      BY <1>4 DEF Block, node
    <2>2. head' \in Nat
      BY <2>1 DEF IInv, Shape
    <2>3. Shape'
      BY <2>1, <2>2 DEF IInv, Shape
    <2>4. BootsOnCommitted' /\ UpOnCommitted'
      BY <2>1 DEF IInv, BootsOnCommitted, UpOnCommitted, Committed
    <2> QED
      BY <2>3, <2>4 DEF IInv
  <1>5. ASSUME NEW u \in Uids, Reregister(u) PROVE IInv'
    <2>1. Ends(u) /\ UNCHANGED <<head, hist, posted>> /\ u # Owner /\ reg' = [reg EXCEPT ![u] = 2]
      BY <1>5, LaunchAssumption DEF Reregister
    <2>2. reg' \in [Uids -> 1 .. 2] /\ reg'[Owner] = 1
      BY <2>1 DEF IInv, Shape, Uids
    <2> QED
      BY <2>1, <2>2, EndKeeps
  <1>6. CASE UNCHANGED vars
    BY <1>6 DEF vars, chain, node, IInv, Shape, BootsOnCommitted, UpOnCommitted, Committed
  <1> QED
    BY <1>1, <1>2, <1>3, <1>4, <1>5, <1>6 DEF Next

\* Whatever is published, voted or replaced while it boots, a node only comes up
\* under a manifest whose hash the owner committed (bootstrap's check of
\* manifest.json against the chain).
THEOREM NodesRunCommitted == Spec => []RunsCommitted
  <1>1. IInv => RunsCommitted
    BY DEF IInv, UpOnCommitted, RunsCommitted
  <1> QED
    BY <1>1, InitInvariant, StepKeeps, PTL DEF Spec

-----------------------------------------------------------------------------
\* BucketsComeFirst, and that no commit has the form of an empty slot.
BucketInv ==
    /\ \A k \in Hotkeys : \A i \in 1 .. Len(hist[k]) : hist[k][i].wire.kind # "empty"
    /\ BucketsComeFirst

\* A commit keeps the order if it is a role's, or finds nothing but buckets.
LEMMA LandKeepsOrder ==
    ASSUME Shape, BucketInv, NEW k \in Hotkeys, NEW w, Land(k, w), w.kind # "empty",
           w.kind = "bucket" =>
              \/ Len(hist[k]) = 0
              \/ hist[k][Len(hist[k])].wire.kind = "bucket"
    PROVE  BucketInv'
  <1> DEFINE e == [block |-> head + 1, wire |-> w]
  <1>1. hist \in [Hotkeys -> Seq(Entries)] /\ hist' = [hist EXCEPT ![k] = Append(@, e)]
    BY DEF Land, Shape
  <1>2. /\ hist[k] \in Seq(Entries) /\ Len(hist[k]) \in Nat
        /\ Len(hist'[k]) = Len(hist[k]) + 1
        /\ hist'[k][Len(hist[k]) + 1].wire = w
        /\ \A i \in 1 .. Len(hist[k]) : hist'[k][i] = hist[k][i]
    <2>1. hist[k] \in Seq(Entries) /\ hist'[k] = Append(hist[k], e)
      BY <1>1
    <2>2. hist'[k][Len(hist[k]) + 1] = e
      BY <2>1
    <2> QED
      BY <2>1, <2>2
  <1>3. \A x \in Hotkeys : x # k => hist'[x] = hist[x]
    BY <1>1
  <1>4. ASSUME NEW x \in Hotkeys, NEW i \in 1 .. Len(hist'[x])
        PROVE  hist'[x][i].wire.kind # "empty"
    BY <1>2, <1>3 DEF BucketInv
  <1>5. ASSUME NEW x \in Hotkeys, NEW i \in 1 .. Len(hist'[x]), NEW j \in 1 .. Len(hist'[x]),
               i < j, hist'[x][j].wire.kind = "bucket"
        PROVE  hist'[x][i].wire.kind = "bucket"
    <2>1. CASE x # k
      BY <1>3, <1>5, <2>1 DEF BucketInv, BucketsComeFirst
    <2>2. CASE x = k /\ j # Len(hist[k]) + 1
      <3>1. i \in 1 .. Len(hist[k]) /\ j \in 1 .. Len(hist[k])
        BY <1>2, <1>5, <2>2
      <3> QED
        BY <1>2, <1>5, <2>2, <3>1 DEF BucketInv, BucketsComeFirst
    <2>3. CASE x = k /\ j = Len(hist[k]) + 1
      <3>1. i \in 1 .. Len(hist[k]) /\ w.kind = "bucket" /\ Len(hist[k]) # 0
        BY <1>2, <1>5, <2>3
      <3>2. Len(hist[k]) \in 1 .. Len(hist[k]) /\ hist[k][Len(hist[k])].wire.kind = "bucket"
        BY <1>2, <3>1
      <3>3. hist[k][i].wire.kind = "bucket"
        <4>1. CASE i = Len(hist[k])
          BY <3>2, <4>1
        <4>2. CASE i < Len(hist[k])
          BY <3>1, <3>2, <4>2 DEF BucketInv, BucketsComeFirst
        <4> QED
          BY <1>2, <3>1, <4>1, <4>2
      <3> QED
        BY <1>2, <2>3, <3>1, <3>3
    <2> QED
      BY <2>1, <2>2, <2>3
  <1> QED
    BY <1>4, <1>5 DEF BucketInv, BucketsComeFirst

\* Every step lands at most one commit, and a bucket only where it may.
LEMMA StepKeepsOrder ==
    ASSUME ~UnreadOnboarding, IInv, BucketInv, [Next]_vars
    PROVE  BucketInv'
  <1> USE DEF IInv
  <1>1. ASSUME NEW u \in Uids, NEW v, Onboard(u, v, FALSE) PROVE BucketInv'
    <2> DEFINE k == Hotkey(u)
               w == BucketWire(k, v)
    <2>1. k \in Hotkeys
      BY HotkeysAreHotkeys
    <2>2. Live(u).kind \in {"empty", "bucket"} /\ Land(k, w) /\ w.kind = "bucket"
      BY <1>1 DEF Onboard, BucketWire
    <2>3. Len(hist[k]) = 0 \/ hist[k][Len(hist[k])].wire.kind = "bucket"
      <3>1. Len(hist[k]) \in Nat
        BY <2>1 DEF Shape
      <3> QED
        BY <2>1, <2>2, <3>1 DEF Live, BucketInv
    <2> QED
      BY <2>1, <2>2, <2>3, LandKeepsOrder
  <1>2. ASSUME NEW u \in Uids, NEW w, Land(Hotkey(u), w),
               w.kind \in {"manifest", "window", "auditor", "vote"}
        PROVE  BucketInv'
    BY <1>2, HotkeysAreHotkeys, LandKeepsOrder
  <1>3. ASSUME UNCHANGED hist PROVE BucketInv'
    BY <1>3 DEF BucketInv, BucketsComeFirst
  <1>4. Owner \in Uids
    BY DEF Uids
  <1>5. CASE Operator
    <2>1. ASSUME NEW u \in Uids, NEW v \in 1 .. MaxCreds, NEW unread \in BOOLEAN,
                 unread => UnreadOnboarding, Onboard(u, v, unread)
          PROVE  BucketInv'
      BY <1>1, <2>1
    <2>2. ASSUME NEW h, CommitInit \/ CommitManifest(h) PROVE BucketInv'
      BY <1>2, <1>4, <2>2 DEF CommitInit, CommitManifest, ManifestWire
    <2>3. ASSUME NEW h, UploadInit \/ PostManifest(h) PROVE BucketInv'
      BY <1>3, <2>3 DEF UploadInit, PostManifest, chain
    <2> QED
      BY <1>5, <2>1, <2>2, <2>3 DEF Operator
  <1>6. ASSUME NEW n \in Uids, CommitWindow(n) \/ TagAuditor(n) PROVE BucketInv'
    BY <1>2, <1>6 DEF CommitWindow, TagAuditor, RoleWire
  <1>7. CASE CastVote
    BY <1>2, <1>4, <1>7 DEF CastVote, RoleWire
  <1>8. CASE RestoreManifestSlot
    BY <1>2, <1>3, <1>4, <1>8 DEF RestoreManifestSlot, ManifestWire
  <1>9. ASSUME NEW n \in Uids,
               \/ BootHash(n)
               \/ \E readFails \in BOOLEAN : BootBucket(n, readFails) \/ Discover(n, readFails)
               \/ BootFetch(n) \/ Stop(n) \/ Reregister(n) \/ Block \/ UNCHANGED vars
        PROVE  BucketInv'
    <2>1. UNCHANGED hist
      BY <1>9 DEF BootHash, BootBucket, Discover, BootFetch, Stop, Reregister, Block, chain, vars
    <2> QED
      BY <1>3, <2>1
  <1> QED
    BY <1>4, <1>5, <1>6, <1>7, <1>8, <1>9 DEF Next, Node

\* If onboarding can read the slot it writes, no bucket commit ever comes after a
\* role's: no manifest, window commit, vote or tag is buried by credentials
\* (ensure_bucket_committed). LaunchClaims.cfg shows that the assumption is needed.
THEOREM BucketsStayFirst ==
    ASSUME ~UnreadOnboarding PROVE Spec => []BucketsComeFirst
  <1>1. Init => BucketInv
    BY DEF Init, BucketInv, BucketsComeFirst
  <1>2. IInv /\ BucketInv /\ [Next]_vars => IInv' /\ BucketInv'
    BY StepKeeps, StepKeepsOrder
  <1>3. BucketInv => BucketsComeFirst
    BY DEF BucketInv
  <1> QED
    BY <1>1, <1>2, <1>3, InitInvariant, PTL DEF Spec

-----------------------------------------------------------------------------
(***************************************************************************)
(* Types, and whose credentials a cache holds.  A slot holds nothing but   *)
(* its own hotkey's bucket commits, caches are empty until a boot has read *)
(* the metagraph, and that metagraph is never ahead of the chain's.        *)
(***************************************************************************)
OwnWires(k) == {BucketWire(k, v) : v \in 1 .. MaxCreds}
               \cup {ManifestWire(h) : h \in {InitRoot} \cup Manifests}
               \cup {RoleWire(kind, w) : kind \in {"window", "auditor", "vote"}, w \in 0 .. MaxWindows}
Commits(k) == [block : 1 .. MaxBlock, wire : OwnWires(k)]

Slots ==
    /\ head \in 0 .. MaxBlock
    /\ DOMAIN hist = Hotkeys /\ \A k \in Hotkeys : hist[k] \in Seq(Commits(k))

NodeTypes ==
    /\ pc \in [Uids -> {"down", "hashed", "located", "up"}]
    /\ mg \in [Uids -> [Uids -> 1 .. 2]]
    /\ cache \in [Uids -> [Uids -> Creds \cup {NoCreds}]]
    /\ want \in [Uids -> Hashes]
    /\ running \in [Uids -> {NoManifest} \cup Manifests]
    /\ holdsVote \in BOOLEAN

\* Credentials that uid u's hotkey has committed.
Vouched(u, c) ==
    /\ c.name = Hotkey(u) /\ c.account = Hotkey(u)
    /\ \E i \in 1 .. Len(hist[Hotkey(u)]) :
           hist[Hotkey(u)][i].wire = BucketWire(Hotkey(u), c.v)

CachesOk ==
    /\ \A n, u \in Uids : pc[n] = "down" => cache[n][u] = NoCreds
    /\ \A n, u \in Uids : mg[n][u] <= reg[u]
    /\ \A n, u \in Uids : cache[n][u] # NoCreds /\ mg[n][u] = reg[u] => Vouched(u, cache[n][u])

CacheInv == Slots /\ NodeTypes /\ CachesOk

-----------------------------------------------------------------------------
\* Of some numbers up to N one is the last: a least difference to N.
LEMMA LastOf ==
    ASSUME NEW N \in Nat, NEW S, S \subseteq 1 .. N, S # {}
    PROVE  \E j \in S : \A x \in S : x <= j
  <1> DEFINE Less == {p \in Nat \X Nat : p[1] < p[2]}
             D == {N - x : x \in S}
  <1>1. IsWellFoundedOn(Less, Nat)
    BY NatLessThanWellFounded DEF OpToRel
  <1>2. \A x \in S : x \in Nat /\ N - x \in Nat
    OBVIOUS
  <1>3. D \subseteq Nat /\ D # {}
    BY <1>2
  <1> HIDE DEF Less
  <1>4. PICK m \in D : \A y \in D : <<y, m>> \notin Less
    BY <1>1, <1>3, WFMin
  <1>5. \A y \in D : y \in Nat /\ m \in Nat /\ ~(y < m)
    BY <1>3, <1>4 DEF Less
  <1>6. PICK j \in S : m = N - j
    OBVIOUS
  <1>7. \A x \in S : ~(N - x < N - j)
    BY <1>5, <1>6
  <1> QED
    BY <1>2, <1>7

LEMMA OwnBuckets ==
    ASSUME NEW k \in Hotkeys, NEW x \in OwnWires(k), x.kind = "bucket"
    PROVE  x.v \in 1 .. MaxCreds /\ x = BucketWire(k, x.v) /\ x.of = k
  <1>1. x \notin {ManifestWire(h) : h \in {InitRoot} \cup Manifests}
    BY DEF ManifestWire
  <1>2. x \notin {RoleWire(kind, w) : kind \in {"window", "auditor", "vote"}, w \in 0 .. MaxWindows}
    BY DEF RoleWire
  <1>3. PICK v \in 1 .. MaxCreds : x = BucketWire(k, v)
    BY <1>1, <1>2 DEF OwnWires
  <1> QED
    BY <1>3 DEF BucketWire

\* What is live in a slot is one of the slot's commits.
LEMMA LiveIsOwn ==
    ASSUME Shape, Slots, NEW u \in Uids, Live(u).kind = "bucket"
    PROVE  /\ Live(u) \in OwnWires(Hotkey(u))
           /\ \E i \in 1 .. Len(hist[Hotkey(u)]) : hist[Hotkey(u)][i].wire = Live(u)
  <1> DEFINE h == hist[Hotkey(u)]
  <1>1. h \in Seq(Commits(Hotkey(u)))
    BY HotkeysAreHotkeys DEF Slots
  <1>2. Len(h) # 0
    BY <1>1 DEF Live, Nothing
  <1>3. Len(h) \in 1 .. Len(h) /\ h[Len(h)] \in Commits(Hotkey(u)) /\ Live(u) = h[Len(h)].wire
    BY <1>1, <1>2 DEF Live
  <1> QED
    BY <1>3 DEF Commits

\* What a walk through a slot's history recovers, if anything.
LEMMA RecoveredIsOwn ==
    ASSUME Shape, Slots, NEW n, NEW u, NEW readFails, NamedBy(n, u) \in Hotkeys,
           Recovered(n, u, readFails) # NoCreds
    PROVE  LET k == NamedBy(n, u)
               c == Recovered(n, u, readFails)
           IN  /\ c.name = k /\ c.account = k /\ c.v \in 1 .. MaxCreds
               /\ c = [name |-> k, account |-> k, v |-> c.v]
               /\ \E i \in 1 .. Len(hist[k]) : hist[k][i].wire = BucketWire(k, c.v)
  <1> DEFINE k == NamedBy(n, u)
             buckets == {i \in 1 .. Len(hist[k]) : hist[k][i].wire.kind = "bucket"}
             newest == CHOOSE i \in buckets : \A x \in buckets : x <= i
  <1>1. hist[k] \in Seq(Commits(k))
    BY DEF Slots
  <1>2. buckets # {} /\ Recovered(n, u, readFails) = CredsOf(hist[k][newest].wire, k)
    BY Zenon DEF Recovered
  <1>3. \E j \in buckets : \A x \in buckets : x <= j
    <2>1. Len(hist[k]) \in Nat /\ buckets \subseteq 1 .. Len(hist[k])
      BY <1>1
    <2> HIDE DEF buckets
    <2> QED
      BY <1>2, <2>1, LastOf
  <1>4. newest \in buckets
    BY <1>3
  <1> HIDE DEF newest
  <1>5. newest \in 1 .. Len(hist[k]) /\ hist[k][newest].wire.kind = "bucket"
        /\ hist[k][newest].wire \in OwnWires(k)
    <2>1. newest \in 1 .. Len(hist[k]) /\ hist[k][newest].wire.kind = "bucket"
      BY <1>4
    <2>2. hist[k][newest] \in Commits(k)
      BY <1>1, <2>1
    <2> QED
      BY <2>1, <2>2 DEF Commits
  <1> QED
    BY <1>2, <1>5, OwnBuckets DEF CredsOf

LEMMA BucketIsTyped ==
    ASSUME Shape, Slots, NodeTypes, NEW n \in Uids, NEW u \in Uids, NEW readFails,
           NEW cached \in Creds \cup {NoCreds}
    PROVE  /\ Bucket(n, u, cached, readFails) \in Creds \cup {NoCreds}
           /\ mg[n][u] = reg[u] /\ Bucket(n, u, cached, readFails) \notin {NoCreds, cached}
                => Vouched(u, Bucket(n, u, cached, readFails))
  <1> DEFINE c == Bucket(n, u, cached, readFails)
             k == NamedBy(n, u)
  <1>1. k \in Hotkeys /\ Hotkey(u) \in Hotkeys /\ (mg[n][u] = reg[u] => k = Hotkey(u))
    BY HotkeysAreHotkeys DEF NodeTypes, NamedBy, Hotkeys, Hotkey
  <1>2. CASE Live(u).kind = "bucket"
    <2>1. c = [name |-> k, account |-> Live(u).of, v |-> Live(u).v]
      BY <1>2 DEF Bucket, CredsOf
    <2>2. /\ Live(u).v \in 1 .. MaxCreds /\ Live(u).of = Hotkey(u)
          /\ Live(u) = BucketWire(Hotkey(u), Live(u).v)
      BY <1>1, <1>2, LiveIsOwn, OwnBuckets
    <2>3. c \in Creds
      BY <1>1, <2>1, <2>2 DEF Creds
    <2>4. mg[n][u] = reg[u] => Vouched(u, c)
      BY <1>1, <1>2, <2>1, <2>2, LiveIsOwn DEF Vouched
    <2> QED
      BY <2>3, <2>4
  <1>3. CASE Live(u).kind # "bucket" /\ cached # NoCreds
    BY <1>3 DEF Bucket
  <1>4. CASE Live(u).kind # "bucket" /\ cached = NoCreds
    <2>1. c = Recovered(n, u, readFails)
      BY <1>4 DEF Bucket
    <2>2. CASE c # NoCreds
      <3>1. /\ c = [name |-> k, account |-> k, v |-> c.v] /\ c.v \in 1 .. MaxCreds
            /\ c.name = k /\ c.account = k
            /\ \E i \in 1 .. Len(hist[k]) : hist[k][i].wire = BucketWire(k, c.v)
        BY <1>1, <2>1, <2>2, RecoveredIsOwn
      <3> HIDE DEF c
      <3>2. c \in Creds
        BY <1>1, <3>1 DEF Creds
      <3>3. mg[n][u] = reg[u] => Vouched(u, c)
        BY <1>1, <3>1 DEF Vouched
      <3> QED
        BY <3>2, <3>3 DEF c
    <2> QED
      BY <2>2
  <1> QED
    BY <1>2, <1>3, <1>4

\* Histories only grow, so what is vouched for stays so while the uid's hotkey does.
LEMMA LandKeepsSlots ==
    ASSUME Slots, hist = [x \in Hotkeys |-> hist[x]], NEW k \in Hotkeys, NEW w \in OwnWires(k), Land(k, w)
    PROVE  /\ Slots'
           /\ \A x \in Hotkeys : \A i \in 1 .. Len(hist[x]) :
                 i \in 1 .. Len(hist'[x]) /\ hist'[x][i] = hist[x][i]
  <1> DEFINE e == [block |-> head + 1, wire |-> w]
  <1>1. head + 1 \in 1 .. MaxBlock /\ head' = head + 1
    BY LaunchAssumption DEF Land, Slots
  <1>2. e \in Commits(k)
    BY <1>1 DEF Commits
  <1>3. hist' = [hist EXCEPT ![k] = Append(@, e)]
    BY DEF Land
  <1>4. hist'[k] = Append(hist[k], e) /\ \A x \in Hotkeys : x # k => hist'[x] = hist[x]
    BY <1>3
  <1>5. hist[k] \in Seq(Commits(k)) /\ DOMAIN hist' = Hotkeys
    BY <1>3 DEF Slots
  <1>6. hist'[k] \in Seq(Commits(k))
    BY <1>2, <1>4, <1>5
  <1>7. Slots'
    <2>1. \A x \in Hotkeys : hist'[x] \in Seq(Commits(x))
      BY <1>4, <1>6 DEF Slots
    <2>2. head' \in 0 .. MaxBlock
      BY <1>1
    <2> QED
      BY <1>5, <2>1, <2>2 DEF Slots, Commits, OwnWires
  <1>8. \A i \in 1 .. Len(hist[k]) : i \in 1 .. Len(hist'[k]) /\ hist'[k][i] = hist[k][i]
    <2> HIDE DEF e
    <2> QED
      BY <1>2, <1>4, <1>5
  <1> QED
    BY <1>4, <1>7, <1>8

LEMMA LandKeepsCaches ==
    ASSUME Shape, CacheInv, NEW k \in Hotkeys, NEW w \in OwnWires(k), Land(k, w),
           UNCHANGED <<reg, posted, pc, mg, cache, want, running>>, holdsVote' \in BOOLEAN
    PROVE  CacheInv'
  <1>1. Slots' /\ \A x \in Hotkeys : \A i \in 1 .. Len(hist[x]) :
                      i \in 1 .. Len(hist'[x]) /\ hist'[x][i] = hist[x][i]
    BY LandKeepsSlots DEF CacheInv, Shape
  <1>2. NodeTypes'
    BY DEF CacheInv, NodeTypes
  <1>3. ASSUME NEW u \in Uids, NEW c, Vouched(u, c) PROVE Vouched(u, c)'
    <2>1. Hotkey(u) \in Hotkeys /\ Hotkey(u)' = Hotkey(u)
      BY HotkeysAreHotkeys DEF Hotkey
    <2> QED
      BY <1>1, <1>3, <2>1 DEF Vouched, BucketWire
  <1>4. CachesOk'
    BY <1>3 DEF CacheInv, CachesOk
  <1> QED
    BY <1>1, <1>2, <1>4 DEF CacheInv

LEMMA EndKeepsCaches ==
    ASSUME Shape, CacheInv, NEW n \in Uids, Ends(n), UNCHANGED <<head, hist, reg>>, holdsVote' \in BOOLEAN
    PROVE  CacheInv' /\ \A m, u \in Uids : mg'[m][u] <= mg[m][u]
  <1>1. /\ pc' = [pc EXCEPT ![n] = "down"]
        /\ mg' = [mg EXCEPT ![n] = [u \in Uids |-> 1]]
        /\ cache' = [cache EXCEPT ![n] = [u \in Uids |-> NoCreds]]
    BY DEF Ends
  <1>2. Slots'
    BY DEF CacheInv, Slots
  <1>3. NodeTypes'
    <2>1. NoManifest \in Hashes
      BY DEF Hashes
    <2> QED
      BY <2>1 DEF CacheInv, NodeTypes, Ends
  <1>4. \A m, u \in Uids :
           /\ m # n => pc'[m] = pc[m] /\ mg'[m][u] = mg[m][u] /\ cache'[m][u] = cache[m][u]
           /\ cache'[n][u] = NoCreds /\ mg'[n][u] = 1
           /\ mg[m][u] \in 1 .. 2
    BY <1>1 DEF CacheInv, NodeTypes
  <1>5. \A m, u \in Uids : mg'[m][u] <= mg[m][u]
    <2> TAKE m, u \in Uids
    <2>1. mg[m][u] \in 1 .. 2
      BY <1>4
    <2> QED
      BY <1>4, <2>1
  <1>6. \A m, u \in Uids : mg'[m][u] <= reg'[u]
    <2> TAKE m, u \in Uids
    <2>1. mg[m][u] <= reg[u] /\ mg[m][u] \in 1 .. 2 /\ reg[u] = reg'[u] /\ reg[u] \in 1 .. 2
      BY <1>4 DEF CacheInv, CachesOk, Shape
    <2>2. CASE m = n
      BY <1>4, <2>1, <2>2
    <2>3. CASE m # n
      BY <1>4, <2>1, <2>3
    <2> QED
      BY <2>2, <2>3
  <1>7. CachesOk'
    <2>1. \A u \in Uids : \A c : Vouched(u, c)' <=> Vouched(u, c)
      BY DEF Vouched, Hotkey
    <2> QED
      BY <1>4, <1>6, <2>1 DEF CacheInv, CachesOk
  <1> QED
    BY <1>2, <1>3, <1>5, <1>7 DEF CacheInv

\* A boot or a discovery fills a cache with what the uid has committed, when the
\* metagraph it goes by still is the chain's.
LEMMA FilledKeepsCaches ==
    ASSUME Shape, CacheInv, NEW n \in Uids, NEW p \in {"located", "up"}, NEW readFails \in BOOLEAN,
           NEW row, row = [u \in Uids |-> row[u]],
           \A u \in Uids : row[u] \in {cache[n][u], Bucket(n, u, cache[n][u], readFails)},
           cache' = [cache EXCEPT ![n] = row], pc' = [pc EXCEPT ![n] = p],
           UNCHANGED <<head, hist, reg, mg, want, running, holdsVote>>
    PROVE  CacheInv'
  <1>1. \A u \in Uids : /\ cache[n][u] \in Creds \cup {NoCreds}
                        /\ row[u] \in Creds \cup {NoCreds}
                        /\ cache'[n][u] = row[u]
    <2> TAKE u \in Uids
    <2>1. cache[n][u] \in Creds \cup {NoCreds}
      BY DEF CacheInv, NodeTypes
    <2>2. Bucket(n, u, cache[n][u], readFails) \in Creds \cup {NoCreds}
      BY <2>1, BucketIsTyped DEF CacheInv
    <2>3. cache'[n] = row
      BY DEF CacheInv, NodeTypes
    <2> QED
      BY <2>1, <2>2, <2>3
  <1>2. NodeTypes' /\ Slots'
    <2>1. row \in [Uids -> Creds \cup {NoCreds}]
      BY <1>1
    <2>2. cache' \in [Uids -> [Uids -> Creds \cup {NoCreds}]]
      BY <2>1 DEF CacheInv, NodeTypes
    <2> QED
      BY <2>2 DEF CacheInv, NodeTypes, Slots
  <1>3. \A u \in Uids : \A c : Vouched(u, c)' <=> Vouched(u, c)
    BY DEF Vouched, Hotkey
  <1>4. ASSUME NEW m \in Uids, NEW u \in Uids, cache'[m][u] # NoCreds, mg'[m][u] = reg'[u]
        PROVE  Vouched(u, cache'[m][u])
    <2>1. CASE cache'[m][u] = cache[m][u]
      BY <1>4, <2>1 DEF CacheInv, CachesOk
    <2>2. CASE cache'[m][u] # cache[m][u]
      <3>1. m = n
        BY <2>2 DEF CacheInv, NodeTypes
      <3>2. cache'[n][u] = Bucket(n, u, cache[n][u], readFails) /\ cache[n][u] \in Creds \cup {NoCreds}
        BY <1>1, <2>2, <3>1
      <3>3. mg[n][u] = reg[u] /\ Bucket(n, u, cache[n][u], readFails) \notin {NoCreds, cache[n][u]}
        BY <1>4, <2>2, <3>1, <3>2
      <3>4. Vouched(u, Bucket(n, u, cache[n][u], readFails))
        BY <3>2, <3>3, BucketIsTyped DEF CacheInv
      <3> QED
        BY <3>1, <3>2, <3>4
    <2> QED
      BY <2>1, <2>2
  <1>5. ASSUME NEW m \in Uids, NEW u \in Uids, pc'[m] = "down" PROVE cache'[m][u] = NoCreds
    <2>1. m # n /\ pc[m] = "down"
      BY <1>5 DEF CacheInv, NodeTypes
    <2> QED
      BY <2>1 DEF CacheInv, CachesOk, NodeTypes
  <1>6. CachesOk'
    BY <1>3, <1>4, <1>5 DEF CacheInv, CachesOk
  <1> QED
    BY <1>2, <1>6 DEF CacheInv

LEMMA BootKeepsCaches ==
    ASSUME IInv, CacheInv, NEW n \in Uids,
           BootHash(n) \/ (\E readFails \in BOOLEAN : BootBucket(n, readFails)) \/ BootFetch(n)
    PROVE  CacheInv'
  <1>0. Shape /\ Owner \in Uids
    BY DEF IInv, Uids
  <1>1. CASE BootHash(n)
    <2>1. /\ pc[n] = "down" /\ pc' = [pc EXCEPT ![n] = "hashed"] /\ mg' = [mg EXCEPT ![n] = reg]
          /\ want' = [want EXCEPT ![n] = Live(Owner).of]
          /\ UNCHANGED <<head, hist, reg, cache, running, holdsVote>>
      BY <1>1 DEF BootHash, chain
    <2>2. Live(Owner).of \in Hashes
      BY <1>0, <1>1, LiveIsCommitted DEF BootHash, Hashes
    <2>3. Slots' /\ NodeTypes'
      BY <1>0, <2>1, <2>2 DEF CacheInv, Slots, NodeTypes, Shape
    <2>4. \A m, u \in Uids : mg'[m][u] \in {mg[m][u], reg[u]} /\ (m # n => mg'[m][u] = mg[m][u])
      BY <2>1 DEF CacheInv, NodeTypes
    <2>5. \A u \in Uids : reg[u] \in 1 .. 2 /\ reg[u] <= reg[u] /\ cache[n][u] = NoCreds
      BY <1>0, <2>1 DEF Shape, CacheInv, CachesOk
    <2>6. \A u \in Uids : \A c : Vouched(u, c)' <=> Vouched(u, c)
      BY <2>1 DEF Vouched, Hotkey
    <2>7. \A m \in Uids : pc'[m] = "down" => pc[m] = "down"
      BY <2>1 DEF CacheInv, NodeTypes
    <2>8. CachesOk'
      BY <2>1, <2>4, <2>5, <2>6, <2>7 DEF CacheInv, CachesOk
    <2> QED
      BY <2>3, <2>8 DEF CacheInv
  <1>2. ASSUME NEW readFails \in BOOLEAN, BootBucket(n, readFails) PROVE CacheInv'
    <2> DEFINE creds == Bucket(n, Owner, cache[n][Owner], readFails)
    <2>1. UNCHANGED <<head, hist, reg, holdsVote>>
      BY <1>2 DEF BootBucket, chain
    <2>2. CASE Ends(n)
      BY <1>0, <2>1, <2>2, EndKeepsCaches DEF CacheInv, NodeTypes
    <2>3. CASE /\ cache' = [cache EXCEPT ![n][Owner] = creds]
               /\ pc' = [pc EXCEPT ![n] = "located"] /\ UNCHANGED <<mg, want, running>>
      <3> DEFINE row == [cache[n] EXCEPT ![Owner] = creds]
      <3>1. /\ row = [u \in Uids |-> row[u]] /\ cache' = [cache EXCEPT ![n] = row]
            /\ \A u \in Uids : row[u] \in {cache[n][u], Bucket(n, u, cache[n][u], readFails)}
        <4>1. cache[n] \in [Uids -> Creds \cup {NoCreds}]
          BY DEF CacheInv, NodeTypes
        <4>2. \A u \in Uids : row[u] = IF u = Owner THEN creds ELSE cache[n][u]
          BY <4>1
        <4>3. \A u \in Uids : row[u] \in {cache[n][u], Bucket(n, u, cache[n][u], readFails)}
          BY <4>2
        <4> HIDE DEF creds
        <4> QED
          BY <2>3, <4>1, <4>3
      <3> HIDE DEF row, creds
      <3> QED
        BY <1>0, <2>1, <2>3, <3>1, FilledKeepsCaches
    <2> QED
      BY <1>2, <2>2, <2>3 DEF BootBucket
  <1>3. CASE BootFetch(n)
    <2>1. UNCHANGED <<head, hist, reg, holdsVote>>
      BY <1>3 DEF BootFetch, chain
    <2>2. CASE Ends(n)
      BY <1>0, <2>1, <2>2, EndKeepsCaches DEF CacheInv, NodeTypes
    <2>3. CASE /\ Accepts(n)
               /\ pc' = [pc EXCEPT ![n] = "up"] /\ running' = [running EXCEPT ![n] = posted]
               /\ want' = [want EXCEPT ![n] = NoManifest] /\ UNCHANGED <<mg, cache>>
      <3>1. posted \in Manifests /\ NoManifest \in Hashes
        BY <2>3 DEF Accepts, Hashes
      <3>2. Slots' /\ NodeTypes'
        BY <2>1, <2>3, <3>1 DEF CacheInv, Slots, NodeTypes
      <3>3. \A u \in Uids : \A c : Vouched(u, c)' <=> Vouched(u, c)
        BY <2>1 DEF Vouched, Hotkey
      <3>4. \A m \in Uids : pc'[m] = "down" => pc[m] = "down"
        BY <2>3 DEF CacheInv, NodeTypes
      <3>5. CachesOk'
        BY <2>1, <2>3, <3>3, <3>4 DEF CacheInv, CachesOk
      <3> QED
        BY <3>2, <3>5 DEF CacheInv
    <2> QED
      BY <1>3, <2>2, <2>3 DEF BootFetch
  <1> QED
    BY <1>1, <1>2, <1>3

\* Commits of roles and of the operator.
LEMMA CommitsKeepCaches ==
    ASSUME IInv, CacheInv,
           \/ Operator \/ \E n \in Uids : CommitWindow(n) \/ TagAuditor(n)
           \/ CastVote \/ RestoreManifestSlot
    PROVE  CacheInv'
  <1>0. Shape /\ Owner \in Uids /\ holdsVote \in BOOLEAN
    BY DEF IInv, Uids, CacheInv, NodeTypes
  <1>1. ASSUME NEW u \in Uids, NEW w \in OwnWires(Hotkey(u)), Land(Hotkey(u), w),
               UNCHANGED <<reg, posted, pc, mg, cache, want, running>>, holdsVote' \in BOOLEAN
        PROVE  CacheInv'
    BY <1>0, <1>1, HotkeysAreHotkeys, LandKeepsCaches
  <1>2. ASSUME UNCHANGED <<head, hist, reg, pc, mg, cache, want, running>>, holdsVote' \in BOOLEAN
        PROVE  CacheInv'
    BY <1>2 DEF CacheInv, Slots, NodeTypes, CachesOk, Vouched, Hotkey
  <1>3. \A k : \A h \in {InitRoot} \cup Manifests : ManifestWire(h) \in OwnWires(k)
    BY DEF OwnWires
  <1>4. \A k : RoleWire("vote", 0) \in OwnWires(k) /\ RoleWire("auditor", 0) \in OwnWires(k)
    BY LaunchAssumption DEF OwnWires
  <1>5. CASE Operator
    <2>1. ASSUME NEW u \in Uids, NEW v \in 1 .. MaxCreds, NEW unread \in BOOLEAN, Onboard(u, v, unread)
          PROVE  CacheInv'
      <3>1. BucketWire(Hotkey(u), v) \in OwnWires(Hotkey(u))
        BY DEF OwnWires
      <3>2. Land(Hotkey(u), BucketWire(Hotkey(u), v)) /\ UNCHANGED <<reg, posted, node, holdsVote>>
        BY <2>1 DEF Onboard
      <3> QED
        BY <1>0, <1>1, <3>1, <3>2 DEF node
    <2>2. CASE CommitInit
      BY <1>0, <1>1, <1>3, <2>2 DEF CommitInit, node
    <2>3. ASSUME NEW h \in Manifests, CommitManifest(h) PROVE CacheInv'
      BY <1>0, <1>1, <1>3, <2>3 DEF CommitManifest, node
    <2>4. ASSUME NEW h, UploadInit \/ PostManifest(h) PROVE CacheInv'
      BY <1>0, <1>2, <2>4 DEF UploadInit, PostManifest, node, chain
    <2> QED
      BY <1>5, <2>1, <2>2, <2>3, <2>4 DEF Operator
  <1>6. ASSUME NEW n \in Uids, CommitWindow(n) PROVE CacheInv'
    <2> DEFINE w == Cardinality({i \in 1 .. Len(hist[Hotkey(n)]) : hist[Hotkey(n)][i].wire.kind = "window"})
    <2>1. w < MaxWindows /\ Land(Hotkey(n), RoleWire("window", w))
          /\ UNCHANGED <<reg, posted, node, holdsVote>>
      BY <1>6 DEF CommitWindow
    <2>2. w \in Nat
      <3>1. hist[Hotkey(n)] \in Seq(Entries)
        BY <1>0, HotkeysAreHotkeys DEF Shape
      <3>2. IsFiniteSet(1 .. Len(hist[Hotkey(n)]))
        BY <3>1, FS_Interval
      <3> QED
        BY <3>2, FS_Subset, FS_CardinalityType
    <2> HIDE DEF w
    <2>3. w \in 0 .. MaxWindows
      BY <2>1, <2>2, LaunchAssumption
    <2>4. RoleWire("window", w) \in OwnWires(Hotkey(n))
      BY <2>3 DEF OwnWires
    <2> QED
      BY <1>0, <1>1, <2>1, <2>4 DEF node
  <1>7. ASSUME NEW n \in Uids, TagAuditor(n) PROVE CacheInv'
    BY <1>0, <1>1, <1>4, <1>7 DEF TagAuditor, node
  <1>8. CASE CastVote
    BY <1>0, <1>1, <1>4, <1>8 DEF CastVote, node
  <1>9. CASE RestoreManifestSlot
    <2>1. running[Owner] \in Manifests
      BY <1>0, <1>9 DEF RestoreManifestSlot, IInv, UpOnCommitted
    <2>2. /\ holdsVote' = FALSE /\ UNCHANGED <<reg, posted, pc, mg, cache, want, running>>
          /\ Land(Hotkey(Owner), ManifestWire(running[Owner])) \/ UNCHANGED <<head, hist>>
      BY <1>9 DEF RestoreManifestSlot, node
    <2> QED
      BY <1>0, <1>1, <1>2, <1>3, <2>1, <2>2
  <1> QED
    BY <1>5, <1>6, <1>7, <1>8, <1>9

LEMMA StepKeepsCaches ==
    ASSUME IInv, CacheInv, [Next]_vars PROVE CacheInv'
  <1>0. Shape /\ holdsVote \in BOOLEAN
    BY DEF IInv, CacheInv, NodeTypes
  <1>1. CASE Operator \/ (\E n \in Uids : CommitWindow(n) \/ TagAuditor(n))
             \/ CastVote \/ RestoreManifestSlot
    BY <1>1, CommitsKeepCaches
  <1>2. ASSUME NEW n \in Uids,
               BootHash(n) \/ (\E readFails \in BOOLEAN : BootBucket(n, readFails)) \/ BootFetch(n)
        PROVE  CacheInv'
    BY <1>2, BootKeepsCaches
  <1>3. ASSUME NEW n \in Uids, NEW readFails \in BOOLEAN, Discover(n, readFails) PROVE CacheInv'
    <2>1. /\ pc[n] = "up" /\ UNCHANGED <<head, hist, reg, pc, mg, want, running, holdsVote>>
          /\ cache' = [cache EXCEPT ![n] = [u \in Uids |-> Bucket(n, u, cache[n][u], readFails)]]
      BY <1>3 DEF Discover, chain
    <2>2. pc' = [pc EXCEPT ![n] = "up"]
      BY <2>1 DEF CacheInv, NodeTypes
    <2>3. PICK row : row = [u \in Uids |-> Bucket(n, u, cache[n][u], readFails)]
      OBVIOUS
    <2>4. /\ row = [u \in Uids |-> row[u]] /\ cache' = [cache EXCEPT ![n] = row]
          /\ \A u \in Uids : row[u] \in {cache[n][u], Bucket(n, u, cache[n][u], readFails)}
      BY <2>1, <2>3
    <2> QED
      BY <1>0, <2>1, <2>2, <2>4, FilledKeepsCaches
  <1>4. ASSUME NEW n \in Uids, Stop(n) PROVE CacheInv'
    <2>1. Ends(n) /\ UNCHANGED <<head, hist, reg>> /\ holdsVote' \in BOOLEAN
      BY <1>4 DEF Stop, chain
    <2> QED
      BY <1>0, <2>1, EndKeepsCaches
  <1>5. CASE Block
    <2>1. head' = head + 1 /\ head < MaxBlock /\ UNCHANGED <<hist, reg, pc, mg, cache, want, running, holdsVote>>
      BY <1>5 DEF Block, node
    <2>2. Slots'
      BY <2>1, LaunchAssumption DEF CacheInv, Slots, Commits, OwnWires
    <2> QED
      BY <2>1, <2>2 DEF CacheInv, NodeTypes, CachesOk, Vouched, Hotkey
  <1>6. ASSUME NEW n \in Uids, Reregister(n) PROVE CacheInv'
    <2>1. /\ Ends(n) /\ reg[n] = 1 /\ reg' = [reg EXCEPT ![n] = 2]
          /\ UNCHANGED <<head, hist, holdsVote>>
      BY <1>6 DEF Reregister
    <2>2. /\ pc' = [pc EXCEPT ![n] = "down"]
          /\ mg' = [mg EXCEPT ![n] = [u \in Uids |-> 1]]
          /\ cache' = [cache EXCEPT ![n] = [u \in Uids |-> NoCreds]]
      BY <2>1 DEF Ends
    <2>3. Slots' /\ NodeTypes'
      <3>1. NoManifest \in Hashes
        BY DEF Hashes
      <3> QED
        BY <2>1, <2>2, <3>1 DEF Ends, CacheInv, Slots, NodeTypes
    <2>4. \A m, u \in Uids :
            /\ m # n => pc'[m] = pc[m] /\ mg'[m][u] = mg[m][u] /\ cache'[m][u] = cache[m][u]
            /\ cache'[n][u] = NoCreds /\ mg'[n][u] = 1
            /\ mg[m][u] \in 1 .. 2 /\ mg[m][u] <= reg[u] /\ reg[u] \in 1 .. 2
            /\ reg'[u] = IF u = n THEN 2 ELSE reg[u]
      BY <1>0, <2>1, <2>2 DEF CacheInv, NodeTypes, CachesOk, Shape
    <2>5. ASSUME NEW m \in Uids, NEW u \in Uids PROVE mg'[m][u] <= reg'[u]
      <3>1. /\ mg[m][u] \in 1 .. 2 /\ mg[m][u] <= reg[u] /\ reg[u] \in 1 .. 2
            /\ reg'[u] \in {2, reg[u]} /\ mg'[m][u] \in {1, mg[m][u]}
        BY <2>4
      <3> QED
        BY <3>1
    <2>6. ASSUME NEW m \in Uids, NEW u \in Uids, cache'[m][u] # NoCreds, mg'[m][u] = reg'[u]
          PROVE  Vouched(u, cache[m][u])'
      <3>1. m # n
        BY <2>4, <2>6
      <3>2. u # n
        <4>1. mg[m][n] <= reg[n] /\ mg[m][n] \in 1 .. 2 /\ mg'[m][n] = mg[m][n] /\ reg'[n] = 2
          BY <2>4, <3>1
        <4> QED
          BY <2>1, <2>6, <4>1
      <3>3. Vouched(u, cache[m][u])
        BY <2>4, <2>6, <3>1, <3>2 DEF CacheInv, CachesOk
      <3>4. Hotkey(u)' = Hotkey(u) /\ cache'[m][u] = cache[m][u]
        BY <2>4, <3>1, <3>2 DEF Hotkey
      <3> QED
        BY <2>1, <3>3, <3>4 DEF Vouched
    <2>7. CachesOk'
      <3>1. \A m, u \in Uids : pc'[m] = "down" => cache'[m][u] = NoCreds
        BY <2>4 DEF CacheInv, CachesOk
      <3> QED
        BY <2>5, <2>6, <3>1 DEF CachesOk
    <2> QED
      BY <2>3, <2>7 DEF CacheInv
  <1>7. CASE UNCHANGED vars
    BY <1>7 DEF vars, chain, node, CacheInv, Slots, NodeTypes, CachesOk, Vouched, Hotkey
  <1> QED
    BY <1>1, <1>2, <1>3, <1>4, <1>5, <1>6, <1>7 DEF Next, Node

LEMMA CachesAtStart == Init => CacheInv
  <1> SUFFICES ASSUME Init PROVE CacheInv
    OBVIOUS
  <1>1. Slots
    <2>1. \A k : <<>> \in Seq(Commits(k))
      OBVIOUS
    <2> QED
      BY <2>1, LaunchAssumption DEF Init, Slots
  <1>2. NodeTypes
    <2>1. \A u \in Uids : /\ pc[u] = "down" /\ want[u] = NoManifest /\ running[u] = NoManifest
                          /\ mg[u] \in [Uids -> 1 .. 2] /\ cache[u] \in [Uids -> Creds \cup {NoCreds}]
      BY DEF Init
    <2>2. NoManifest \in Hashes
      BY DEF Hashes
    <2> QED
      BY <2>1, <2>2 DEF Init, NodeTypes
  <1>3. CachesOk
    BY DEF Init, CachesOk
  <1> QED
    BY <1>1, <1>2, <1>3 DEF CacheInv

\* Every variable stays in its range, no process runs under the init root, and
\* no slot holds what its hotkey cannot have committed.
THEOREM TypesHold == Spec => []TypeOK
  <1>1. IInv /\ CacheInv => TypeOK
    <2> SUFFICES ASSUME IInv, CacheInv PROVE TypeOK
      OBVIOUS
    <2>1. \A k \in Hotkeys : OwnWires(k) \subseteq Wires
      BY DEF OwnWires, Wires
    <2>2. ASSUME NEW k \in Hotkeys PROVE hist[k] \in Seq([block : 1 .. MaxBlock, wire : Wires])
      <3> DEFINE T == [block : 1 .. MaxBlock, wire : Wires]
      <3>1. hist[k] \in Seq(Commits(k)) /\ Commits(k) \subseteq T
        BY <2>1 DEF CacheInv, Slots, Commits
      <3>2. \A i \in 1 .. Len(hist[k]) : hist[k][i] \in T
        BY <3>1
      <3> HIDE DEF T
      <3>3. hist[k] \in Seq(T)
        BY <3>1, <3>2
      <3> QED
        BY <3>3 DEF T
    <2> QED
      BY <2>2 DEF IInv, Shape, CacheInv, Slots, NodeTypes, TypeOK
  <1> QED
    BY <1>1, InitInvariant, StepKeeps, CachesAtStart, StepKeepsCaches, PTL DEF Spec

\* Whatever the history a client walks, and whoever replaces whom: while the
\* metagraph it goes by is the chain's, the credentials it holds for a uid are
\* ones that uid's own hotkey committed (ChainClient.get_bucket).
THEOREM CredentialsHold == Spec => []CredentialsAreTheUids
  <1>1. CacheInv => CredentialsAreTheUids
    BY DEF CacheInv, CachesOk, Vouched, CredentialsAreTheUids
  <1> QED
    BY <1>1, InitInvariant, StepKeeps, CachesAtStart, StepKeepsCaches, PTL DEF Spec

-----------------------------------------------------------------------------
(***************************************************************************)
(* Preparing the dataset.  First the least counterexample, and recursion   *)
(* by it.                                                                  *)
(***************************************************************************)

LEMMA LeastNatural ==
  ASSUME NEW S, S \subseteq Nat, S # {}
  PROVE  \E m \in S : \A x \in S : m <= x
  <1> DEFINE Less == {p \in Nat \X Nat : p[1] < p[2]}
  <1>1. IsWellFoundedOn(Less, Nat)
    BY NatLessThanWellFounded DEF OpToRel
  <1> HIDE DEF Less
  <1>2. PICK m \in S : \A y \in S : <<y, m>> \notin Less
    BY <1>1, WFMin
  <1>3. \A x \in S : m \in Nat /\ x \in Nat /\ ~(x < m)
    BY <1>2 DEF Less
  <1> QED
    BY <1>3

(***************************************************************************)
(* Recursion over a range of integers.  Every recursive function of the    *)
(* model takes its value at i from the one at i - 1, by a step within a    *)
(* set: such a function exists, and there is only one.                     *)
(***************************************************************************)
Steps(step, lo, hi, X) == \A i \in lo + 1 .. hi : \A x \in X : step[<<i, x>>] \in X

\* f takes these steps; and g does, as long as it stays in X.
Computes(f, lo, hi, base, step) ==
    f[lo] = base /\ \A i \in lo + 1 .. hi : f[i] = step[<<i, f[i - 1]>>]

ComputesIn(g, lo, hi, X, base, step) ==
    g[lo] = base /\ \A i \in lo + 1 .. hi : g[i - 1] \in X => g[i] = step[<<i, g[i - 1]>>]

LEMMA RecursionUnique ==
  ASSUME NEW lo \in Int, NEW hi \in Int, NEW X, NEW base \in X,
         NEW step, NEW f \in [lo .. hi -> X], NEW g, lo <= hi,
         Computes(f, lo, hi, base, step), ComputesIn(g, lo, hi, X, base, step)
  PROVE  \A i \in lo .. hi : g[i] = f[i]
  <1> USE DEF Computes, ComputesIn
  <1> DEFINE Off == {k \in Nat : lo + k <= hi /\ g[lo + k] # f[lo + k]}
  <1> SUFFICES ASSUME Off # {} PROVE FALSE
    <2>1. ASSUME Off = {}, NEW i \in lo .. hi PROVE g[i] = f[i]
      <3>1. i - lo \in Nat /\ lo + (i - lo) = i /\ i <= hi
        OBVIOUS
      <3> QED
        BY <2>1, <3>1
    <2> QED
      BY <2>1
  <1>1. PICK k \in Off : \A x \in Off : k <= x
    <2>1. Off \subseteq Nat
      OBVIOUS
    <2> HIDE DEF Off
    <2> QED
      BY <2>1, LeastNatural
  <1>2. k \in Nat /\ lo + k <= hi /\ g[lo + k] # f[lo + k]
    OBVIOUS
  <1>3. k # 0
    BY <1>2
  <1>4. k - 1 \in Nat /\ k - 1 \notin Off
    <2>1. k - 1 \in Nat /\ ~(k <= k - 1)
      BY <1>2, <1>3
    <2> HIDE DEF Off
    <2> QED
      BY <1>1, <2>1
  <1>5. lo + k \in lo + 1 .. hi /\ (lo + k) - 1 = lo + (k - 1) /\ lo + (k - 1) \in lo .. hi
    BY <1>2, <1>3
  <1>6. g[lo + (k - 1)] = f[lo + (k - 1)]
    BY <1>4, <1>5
  <1> QED
    BY <1>2, <1>5, <1>6

LEMMA RecursionExists ==
  ASSUME NEW lo \in Int, NEW hi \in Int, NEW X, NEW base \in X,
         NEW step, lo <= hi, Steps(step, lo, hi, X)
  PROVE  \E f \in [lo .. hi -> X] : Computes(f, lo, hi, base, step)
  <1> USE DEF Steps, Computes
  <1> DEFINE Upto(n) == \E f \in [lo .. n -> X] :
                           f[lo] = base /\ \A i \in lo + 1 .. n : f[i] = step[<<i, f[i - 1]>>]
             Off == {k \in Nat : lo + k <= hi /\ ~Upto(lo + k)}
  <1>1. Upto(lo)
    <2>1. [x \in lo .. lo |-> base] \in [lo .. lo -> X]
      OBVIOUS
    <2>2. [x \in lo .. lo |-> base][lo] = base /\ lo + 1 .. lo = {}
      OBVIOUS
    <2> QED
      BY <2>1, <2>2
  <1>2. ASSUME NEW n \in Int, lo <= n, n + 1 <= hi, Upto(n) PROVE Upto(n + 1)
    <2>1. PICK f \in [lo .. n -> X] :
             f[lo] = base /\ \A i \in lo + 1 .. n : f[i] = step[<<i, f[i - 1]>>]
      BY <1>2
    <2> DEFINE h == [i \in lo .. n + 1 |-> IF i = n + 1 THEN step[<<n + 1, f[n]>>] ELSE f[i]]
    <2>2. n + 1 \in lo + 1 .. hi /\ n \in lo .. n /\ f[n] \in X
      BY <1>2, <2>1
    <2>3. step[<<n + 1, f[n]>>] \in X
      BY <2>2
    <2>4. h \in [lo .. n + 1 -> X]
      <3>1. \A i \in lo .. n + 1 : i = n + 1 \/ i \in lo .. n
        BY <1>2
      <3> QED
        BY <2>3, <3>1
    <2>5. h[lo] = base
      BY <1>2, <2>1
    <2>6. ASSUME NEW i \in lo + 1 .. n + 1 PROVE h[i] = step[<<i, h[i - 1]>>]
      <3>1. i - 1 \in lo .. n /\ i \in lo .. n + 1 /\ i - 1 # n + 1
        BY <1>2
      <3>2. h[i - 1] = f[i - 1]
        BY <3>1
      <3>3. CASE i = n + 1
        <4>1. h[i] = step[<<n + 1, f[n]>>] /\ i - 1 = n
          BY <3>1, <3>3
        <4> HIDE DEF h
        <4> QED
          BY <3>2, <3>3, <4>1
      <3>4. CASE i # n + 1
        <4>1. i \in lo + 1 .. n /\ h[i] = f[i]
          BY <3>1, <3>4, <1>2
        <4> QED
          BY <3>2, <4>1, <2>1
      <3> QED
        BY <3>3, <3>4
    <2> HIDE DEF h
    <2> QED
      BY <2>4, <2>5, <2>6
  <1> SUFFICES ASSUME Off # {} PROVE FALSE
    <2>1. hi - lo \in Nat /\ lo + (hi - lo) = hi
      OBVIOUS
    <2> HIDE DEF Upto
    <2>2. ASSUME Off = {} PROVE Upto(hi)
      <3>1. hi - lo \notin Off
        BY <2>2
      <3> QED
        BY <2>1, <3>1
    <2> QED
      BY <2>2 DEF Upto
  <1> HIDE DEF Upto
  <1>3. PICK k \in Off : \A x \in Off : k <= x
    <2>1. Off \subseteq Nat
      OBVIOUS
    <2> HIDE DEF Off
    <2> QED
      BY <2>1, LeastNatural
  <1>4. k \in Nat /\ lo + k <= hi /\ ~Upto(lo + k)
    OBVIOUS
  <1>5. k # 0
    BY <1>1, <1>4
  <1>6. k - 1 \in Nat /\ k - 1 \notin Off
    <2>1. k - 1 \in Nat /\ ~(k <= k - 1)
      BY <1>4, <1>5
    <2> HIDE DEF Off
    <2> QED
      BY <1>3, <2>1
  <1>7. /\ lo + (k - 1) \in Int /\ lo <= lo + (k - 1) /\ (lo + (k - 1)) + 1 = lo + k
        /\ lo + (k - 1) <= hi
    BY <1>4, <1>5
  <1>8. Upto(lo + (k - 1))
    BY <1>6, <1>7
  <1> QED
    BY <1>2, <1>4, <1>7, <1>8

-----------------------------------------------------------------------------
(***************************************************************************)
(* Sequences.  A set of sequences that has the empty one and grows with    *)
(* every element holds them all: T takes the place of a predicate.         *)
(***************************************************************************)
LEMMA SeqInduction ==
  ASSUME NEW S, NEW T, <<>> \in T,
         \A s \in Seq(S), e \in S : s \in T => Append(s, e) \in T
  PROVE  Seq(S) \subseteq T
  <1> DEFINE Off == {n \in Nat : \E s \in Seq(S) : Len(s) = n /\ s \notin T}
  <1> SUFFICES ASSUME Off # {} PROVE FALSE
    <2>1. ASSUME Off = {}, NEW s \in Seq(S) PROVE s \in T
      <3>1. Len(s) \in Nat
        BY LenProperties
      <3>2. Len(s) \notin Off
        BY <2>1
      <3> QED
        BY <3>1, <3>2
    <2> HIDE DEF Off
    <2> QED
      BY <2>1
  <1>1. PICK n \in Off : \A x \in Off : n <= x
    <2>1. Off \subseteq Nat
      OBVIOUS
    <2> HIDE DEF Off
    <2> QED
      BY <2>1, LeastNatural
  <1>2. PICK s \in Seq(S) : Len(s) = n /\ s \notin T
    OBVIOUS
  <1>3. s # <<>>
    BY <1>2
  <1>4. PICK r \in Seq(S), e \in S : s = Append(r, e)
    BY <1>3, SequenceEmptyOrAppend
  <1>5. Len(r) \in Nat /\ n = Len(r) + 1
    BY <1>2, <1>4, AppendProperties, LenProperties
  <1>6. ~(n <= Len(r))
    BY <1>5
  <1>7. Len(r) \notin Off
    <2> HIDE DEF Off
    <2> QED
      BY <1>1, <1>6
  <1>8. r \in T
    BY <1>5, <1>7
  <1> QED
    BY <1>2, <1>4, <1>8

\* A function of 1 .. n is a sequence.
LEMMA ListIsSeq ==
  ASSUME NEW S, NEW n \in Nat, NEW f, f = [i \in 1 .. n |-> f[i]], \A i \in 1 .. n : f[i] \in S
  PROVE  f \in Seq(S) /\ Len(f) = n /\ DOMAIN f = 1 .. n
  <1>1. f \in [1 .. n -> S]
    OBVIOUS
  <1> QED
    BY <1>1, SeqDef, LenProperties

-----------------------------------------------------------------------------
(***************************************************************************)
(* FlattenSeq.                                                             *)
(***************************************************************************)
LEMMA FlattenOfNothing == FlattenSeq(<<>>) = <<>>
  BY DEF FlattenSeq

\* The partial concatenations of ss, the last of them its FlattenSeq.
LEMMA FlattenSteps ==
  ASSUME NEW S, NEW ss \in Seq(Seq(S))
  PROVE  \E f \in [0 .. Len(ss) -> Seq(S)] :
            /\ f[0] = <<>> /\ f[Len(ss)] = FlattenSeq(ss)
            /\ \A i \in 1 .. Len(ss) : f[i] = f[i - 1] \o ss[i]
  <1> DEFINE N == Len(ss)
             Q == Seq(S)
             Body(h) == [i \in 1 .. N |-> IF i = 1 THEN ss[i] ELSE h[i - 1] \o ss[i]]
             c == CHOOSE h : h = Body(h)
             step == [a \in (1 .. N) \X Q |-> a[2] \o ss[a[1]]]
             k == [i \in 0 .. N |-> IF i = 0 THEN <<>> ELSE c[i]]
  <1>1. N \in Nat /\ N \in Int /\ 0 \in Int /\ 0 <= N /\ 0 + 1 = 1 /\ <<>> \in Q
    OBVIOUS
  <1>2. \A i \in 1 .. N : \A x \in Q : step[<<i, x>>] = x \o ss[i]
    OBVIOUS
  <1>3. \A i \in 1 .. N : ss[i] \in Q /\ <<>> \o ss[i] = ss[i]
    OBVIOUS
  <1>4. \A x, y \in Q : x \o y \in Q
    OBVIOUS
  <1>5. N = 0 => FlattenSeq(ss) = <<>>
    <2>1. N = 0 => ss = <<>>
      OBVIOUS
    <2> QED
      BY <2>1, FlattenOfNothing
  <1>6. N # 0 => FlattenSeq(ss) = c[N]
    BY DEF FlattenSeq
  <1> HIDE DEF step, N, Q
  <1>7. Steps(step, 0, N, Q)
    <2>1. \A i \in 1 .. N : \A x \in Q : step[<<i, x>>] \in Q
      BY <1>2, <1>3, <1>4
    <2> QED
      BY <1>1, <2>1 DEF Steps
  <1>8. PICK f \in [0 .. N -> Q] : Computes(f, 0, N, <<>>, step)
    BY <1>1, <1>7, RecursionExists
  <1>9. f[0] = <<>> /\ \A i \in 1 .. N : f[i - 1] \in Q /\ f[i] = f[i - 1] \o ss[i]
    <2>1. \A i \in 1 .. N : i - 1 \in 0 .. N
      BY <1>1
    <2> QED
      BY <1>1, <1>2, <1>8, <2>1 DEF Computes
  <1>10. c = Body(c)
    <2> DEFINE h == [i \in 1 .. N |-> f[i]]
    <2>1. \A i \in 1 .. N : h[i] = IF i = 1 THEN ss[i] ELSE h[i - 1] \o ss[i]
      <3> TAKE i \in 1 .. N
      <3>1. CASE i = 1
        <4>1. f[i] = <<>> \o ss[i]
          BY <1>1, <1>9, <3>1, SMTT(30)
        <4> QED
          BY <1>3, <3>1, <4>1
      <3>2. CASE i # 1
        <4>1. i - 1 \in 1 .. N
          BY <1>1, <3>2
        <4> QED
          BY <1>9, <3>2, <4>1
      <3> QED
        BY <3>1, <3>2
    <2>2. h = Body(h)
      BY <2>1
    <2> QED
      BY <2>2
  <1> HIDE DEF c
  <1>11. \A i \in 1 .. N : c[i] = IF i = 1 THEN ss[i] ELSE c[i - 1] \o ss[i]
    BY <1>10
  <1>12. k[0] = <<>> /\ \A i \in 1 .. N : k[i] = c[i] /\ k[i] = k[i - 1] \o ss[i]
    <2>1. 0 \in 0 .. N /\ \A i \in 1 .. N : i \in 0 .. N /\ i # 0 /\ i - 1 \in 0 .. N
      BY <1>1
    <2>2. ASSUME NEW i \in 1 .. N PROVE k[i] = k[i - 1] \o ss[i]
      <3>1. CASE i = 1
        <4>1. k[i] = ss[i] /\ k[i - 1] = <<>>
          BY <1>11, <2>1, <3>1
        <4> QED
          BY <1>3, <4>1
      <3>2. CASE i # 1
        <4>1. i - 1 # 0
          BY <1>1, <3>2
        <4> QED
          BY <1>11, <2>1, <3>2, <4>1
      <3> QED
        BY <3>1, <3>2
    <2> QED
      BY <2>1, <2>2
  <1> HIDE DEF k
  <1>13. ComputesIn(k, 0, N, Q, <<>>, step)
    BY <1>1, <1>2, <1>12 DEF ComputesIn
  <1>14. \A i \in 0 .. N : k[i] = f[i]
    BY ONLY <1>1, <1>8, <1>13, RecursionUnique, f \in [0 .. N -> Q], SMTT(30)
  <1>15. f[N] = FlattenSeq(ss)
    <2>1. CASE N = 0
      BY <1>5, <1>9, <2>1
    <2>2. CASE N # 0
      <3>1. N \in 1 .. N /\ N \in 0 .. N
        BY <1>1, <2>2
      <3> QED
        BY <1>6, <1>12, <1>14, <2>2, <3>1
    <2> QED
      BY <2>1, <2>2
  <1> QED
    BY <1>9, <1>15 DEF N, Q

LEMMA FlattenIsSeq ==
  ASSUME NEW S, NEW ss \in Seq(Seq(S))
  PROVE  FlattenSeq(ss) \in Seq(S)
  <1>1. PICK f \in [0 .. Len(ss) -> Seq(S)] : f[Len(ss)] = FlattenSeq(ss)
    BY FlattenSteps
  <1>2. Len(ss) \in 0 .. Len(ss)
    BY LenProperties
  <1> QED
    BY <1>1, <1>2

LEMMA FlattenAppend ==
  ASSUME NEW S, NEW ss \in Seq(Seq(S)), NEW s \in Seq(S)
  PROVE  FlattenSeq(Append(ss, s)) = FlattenSeq(ss) \o s
  <1> DEFINE tt == Append(ss, s)
             N == Len(ss)
             Q == Seq(S)
             step == [a \in (1 .. N) \X Q |-> a[2] \o ss[a[1]]]
  <1>1. /\ tt \in Seq(Seq(S)) /\ Len(tt) = N + 1
        /\ tt[N + 1] = s /\ \A i \in 1 .. N : tt[i] = ss[i]
    BY AppendProperties, LenProperties
  <1>2. N \in Nat /\ N \in Int /\ 0 \in Int /\ 0 <= N /\ 0 + 1 = 1 /\ <<>> \in Q
    OBVIOUS
  <1>3. \A i \in 1 .. N : \A x \in Q : step[<<i, x>>] = x \o ss[i]
    OBVIOUS
  <1>4. PICK f \in [0 .. N -> Q] :
            /\ f[0] = <<>> /\ f[N] = FlattenSeq(ss)
            /\ \A i \in 1 .. N : f[i] = f[i - 1] \o ss[i]
    BY FlattenSteps
  <1> HIDE DEF tt
  <1>5. \E g \in [0 .. Len(tt) -> Seq(S)] :
             /\ g[0] = <<>> /\ g[Len(tt)] = FlattenSeq(tt)
             /\ \A i \in 1 .. Len(tt) : g[i] = g[i - 1] \o tt[i]
    BY <1>1, FlattenSteps
  <1> HIDE DEF step, N, Q
  <1>6. PICK g : /\ g[0] = <<>> /\ g[N + 1] = FlattenSeq(tt)
                 /\ \A i \in 1 .. N + 1 : g[i] = g[i - 1] \o tt[i]
    BY <1>1, <1>5
  <1>7. Computes(f, 0, N, <<>>, step)
    <2>1. \A i \in 1 .. N : f[i - 1] \in Q
      <3>1. \A i \in 1 .. N : i - 1 \in 0 .. N
        BY <1>2
      <3> QED
        BY <3>1
    <2> QED
      BY <1>2, <1>3, <1>4, <2>1, ZenonT(40) DEF Computes
  <1>8. ComputesIn(g, 0, N, Q, <<>>, step)
    <2>1. \A i \in 1 .. N : i \in 1 .. N + 1
      BY <1>2
    <2>2. \A i \in 1 .. N : g[i] = g[i - 1] \o ss[i]
      BY <1>1, <1>6, <2>1
    <2> QED
      BY <1>2, <1>3, <1>6, <2>2 DEF ComputesIn
  <1>9. \A i \in 0 .. N : g[i] = f[i]
    BY ONLY <1>2, <1>7, <1>8, RecursionUnique, f \in [0 .. N -> Q], SMTT(60)
  <1>10. g[N + 1] = g[N] \o s
    <2>1. N + 1 \in 1 .. N + 1 /\ (N + 1) - 1 = N
      BY <1>2
    <2> QED
      BY <1>1, <1>6, <2>1
  <1>11. g[N] = f[N]
    BY <1>2, <1>9
  <1> QED
    BY <1>4, <1>6, <1>10, <1>11 DEF tt

LEMMA CountUp ==
  ASSUME NEW N \in Nat, NEW T, 0 \in T, \A n \in 0 .. N : n < N /\ n \in T => n + 1 \in T
  PROVE  \A n \in 0 .. N : n \in T
  <1> DEFINE Off == {n \in 0 .. N : n \notin T}
  <1> SUFFICES ASSUME Off # {} PROVE FALSE
    OBVIOUS
  <1>1. PICK n \in Off : \A x \in Off : n <= x
    <2>1. Off \subseteq Nat
      OBVIOUS
    <2> HIDE DEF Off
    <2> QED
      BY <2>1, LeastNatural
  <1>2. n \in 0 .. N /\ n \notin T /\ n # 0
    OBVIOUS
  <1>3. n - 1 \in 0 .. N /\ n - 1 < N /\ (n - 1) + 1 = n /\ ~(n <= n - 1)
    BY <1>2
  <1>4. n - 1 \in T
    BY <1>1, <1>3
  <1> QED
    BY <1>2, <1>3, <1>4

LEMMA PrefixAppend ==
  ASSUME NEW S, NEW s \in Seq(S), NEW k \in 1 .. Len(s)
  PROVE  /\ SubSeq(s, 1, k - 1) \in Seq(S) /\ s[k] \in S
         /\ SubSeq(s, 1, k) = Append(SubSeq(s, 1, k - 1), s[k])
  <1>1. Len(s) \in Nat /\ \A i \in 1 .. Len(s) : s[i] \in S
    BY LenProperties
  <1>2. 1 \in Int /\ k - 1 \in Int /\ k \in Int /\ (\A i \in 1 .. k - 1 : s[i] \in S) /\ \A i \in 1 .. k : s[i] \in S
    BY <1>1
  <1> DEFINE p == SubSeq(s, 1, k - 1)
             q == SubSeq(s, 1, k)
  <1>3. /\ p \in Seq(S) /\ Len(p) = k - 1
        /\ \A i \in 1 .. k - 1 : p[i] = s[i]
    <2>1. p \in Seq(S) /\ Len(p) = (IF 1 <= k - 1 THEN (k - 1) - 1 + 1 ELSE 0)
          /\ \A i \in 1 .. (k - 1) - 1 + 1 : p[i] = s[1 + i - 1]
      BY <1>2, SubSeqProperties
    <2> HIDE DEF p
    <2> QED
      BY <1>2, <2>1
  <1>4. q \in Seq(S) /\ Len(q) = k /\ \A i \in 1 .. k : q[i] = s[i]
    <2>1. q \in Seq(S) /\ Len(q) = (IF 1 <= k THEN k - 1 + 1 ELSE 0)
          /\ \A i \in 1 .. k - 1 + 1 : q[i] = s[1 + i - 1]
      BY <1>2, SubSeqProperties
    <2> HIDE DEF q
    <2> QED
      BY <1>2, <2>1
  <1> HIDE DEF p, q
  <1> DEFINE r == Append(p, s[k])
  <1>5. r \in Seq(S) /\ Len(r) = k /\ (\A i \in 1 .. k - 1 : r[i] = p[i]) /\ r[k] = s[k]
    <2>1. r \in Seq(S) /\ Len(r) = Len(p) + 1 /\ (\A i \in 1 .. Len(p) : r[i] = p[i]) /\ r[Len(p) + 1] = s[k]
      BY <1>1, <1>3, AppendProperties
    <2>2. Len(p) + 1 = k
      BY <1>3
    <2> HIDE DEF r
    <2> QED
      BY <1>3, <2>1, <2>2
  <1> HIDE DEF r
  <1>6. \A i \in 1 .. Len(q) : q[i] = r[i]
    <2>1. \A i \in 1 .. k : i = k \/ i \in 1 .. k - 1
      OBVIOUS
    <2> QED
      BY <1>3, <1>4, <1>5, <2>1
  <1>7. q = r
    BY <1>4, <1>5, <1>6, SeqEqual
  <1> QED
    BY <1>1, <1>3, <1>7 DEF p, q, r

LEMMA FlattenPrefix ==
  ASSUME NEW S, NEW ss \in Seq(Seq(S)), NEW k \in 1 .. Len(ss)
  PROVE  /\ FlattenSeq(SubSeq(ss, 1, k - 1)) \in Seq(S) /\ ss[k] \in Seq(S)
         /\ FlattenSeq(SubSeq(ss, 1, k)) = FlattenSeq(SubSeq(ss, 1, k - 1)) \o ss[k]
  BY PrefixAppend, FlattenAppend, FlattenIsSeq, ZenonT(40)

LEMMA FlattenOne ==
  ASSUME NEW S, NEW s \in Seq(S)
  PROVE  FlattenSeq(<<s>>) = s
  <1>1. <<>> \in Seq(Seq(S)) /\ Append(<<>>, s) = <<s>>
    OBVIOUS
  <1>2. FlattenSeq(<<s>>) = FlattenSeq(<<>>) \o s
    BY <1>1, FlattenAppend
  <1> QED
    BY <1>2, FlattenOfNothing, ConcatEmptySeq

LEMMA FlattenConcat ==
  ASSUME NEW S, NEW a \in Seq(Seq(S)), NEW b \in Seq(Seq(S))
  PROVE  FlattenSeq(a \o b) = FlattenSeq(a) \o FlattenSeq(b)
  <1> DEFINE T == {x \in Seq(Seq(S)) : FlattenSeq(a \o x) = FlattenSeq(a) \o FlattenSeq(x)}
  <1>1. <<>> \in T
    <2>1. a \o <<>> = a /\ FlattenSeq(a) \o <<>> = FlattenSeq(a) /\ <<>> \in Seq(Seq(S))
      BY FlattenIsSeq, ConcatEmptySeq
    <2> QED
      BY <2>1, FlattenOfNothing
  <1>2. ASSUME NEW x \in Seq(Seq(S)), NEW e \in Seq(S), x \in T PROVE Append(x, e) \in T
    <2>1. Append(x, e) \in Seq(Seq(S)) /\ a \o x \in Seq(Seq(S))
      BY AppendProperties, ConcatProperties
    <2>2. a \o Append(x, e) = Append(a \o x, e)
      <3>1. Append(x, e) = x \o <<e>> /\ Append(a \o x, e) = (a \o x) \o <<e>>
        BY <2>1, AppendIsConcat
      <3>2. <<e>> \in Seq(Seq(S))
        OBVIOUS
      <3> QED
        BY <3>1, <3>2, ConcatAssociative
    <2>3. FlattenSeq(a \o Append(x, e)) = FlattenSeq(a \o x) \o e
      BY <2>1, <2>2, FlattenAppend
    <2>4. FlattenSeq(Append(x, e)) = FlattenSeq(x) \o e
      BY FlattenAppend
    <2>5. FlattenSeq(a) \in Seq(S) /\ FlattenSeq(x) \in Seq(S)
      BY FlattenIsSeq
    <2>6. (FlattenSeq(a) \o FlattenSeq(x)) \o e = FlattenSeq(a) \o (FlattenSeq(x) \o e)
      BY <2>5, ConcatAssociative, SMTT(30)
    <2>7. FlattenSeq(a \o Append(x, e)) = FlattenSeq(a) \o FlattenSeq(Append(x, e))
      BY <1>2, <2>3, <2>4, <2>6
    <2> QED
      BY <2>1, <2>7
  <1> HIDE DEF T
  <1>3. Seq(Seq(S)) \subseteq T
    BY <1>1, <1>2, SeqInduction
  <1> QED
    BY <1>3 DEF T

\* Lists of n sequences that are equal one by one.
LEMMA SameList ==
  ASSUME NEW S, NEW n \in Nat, NEW f, NEW g, f = [i \in 1 .. n |-> f[i]], g \in Seq(S), Len(g) = n,
         \A i \in 1 .. n : f[i] = g[i]
  PROVE  f = g
  <1>1. g \in [1 .. n -> S]
    BY LenProperties
  <1> QED
    BY <1>1

LEMMA FlattenFlatten ==
  ASSUME NEW S, NEW sss \in Seq(Seq(Seq(S)))
  PROVE  FlattenSeq(FlattenSeq(sss)) = FlattenSeq([k \in 1 .. Len(sss) |-> FlattenSeq(sss[k])])
  <1> DEFINE F(x) == [k \in 1 .. Len(x) |-> FlattenSeq(x[k])]
             T == {x \in Seq(Seq(Seq(S))) : FlattenSeq(FlattenSeq(x)) = FlattenSeq(F(x))}
  <1>1. <<>> \in T
    <2>1. F(<<>>) = <<>> /\ <<>> \in Seq(Seq(Seq(S)))
      OBVIOUS
    <2> QED
      BY <2>1, FlattenOfNothing
  <1>2. ASSUME NEW x \in Seq(Seq(Seq(S))), NEW e \in Seq(Seq(S)), x \in T PROVE Append(x, e) \in T
    <2>1. /\ Append(x, e) \in Seq(Seq(Seq(S))) /\ Len(Append(x, e)) = Len(x) + 1
          /\ (\A i \in 1 .. Len(x) : Append(x, e)[i] = x[i]) /\ Append(x, e)[Len(x) + 1] = e
      BY AppendProperties
    <2>2. Len(x) \in Nat /\ \A i \in 1 .. Len(x) : x[i] \in Seq(Seq(S))
      BY LenProperties, ElementOfSeq
    <2>3. F(x) \in Seq(Seq(S)) /\ Len(F(x)) = Len(x)
      <3>1. \A i \in 1 .. Len(x) : F(x)[i] \in Seq(S)
        BY <2>2, FlattenIsSeq
      <3>2. F(x) = [i \in 1 .. Len(x) |-> F(x)[i]]
        OBVIOUS
      <3> QED
        BY <2>2, <3>1, <3>2, ListIsSeq
    <2>4. FlattenSeq(e) \in Seq(S)
      BY FlattenIsSeq
    <2>5. F(Append(x, e)) = Append(F(x), FlattenSeq(e))
      <3> DEFINE f == F(Append(x, e))
                 g == Append(F(x), FlattenSeq(e))
      <3>1. /\ g \in Seq(Seq(S)) /\ Len(g) = Len(x) + 1
            /\ (\A i \in 1 .. Len(x) : g[i] = F(x)[i]) /\ g[Len(x) + 1] = FlattenSeq(e)
        BY <2>3, <2>4, AppendProperties
      <3>2. \A i \in 1 .. Len(x) + 1 : f[i] = FlattenSeq(Append(x, e)[i])
        BY <2>1
      <3>3. f = [i \in 1 .. Len(x) + 1 |-> f[i]]
        BY <2>1
      <3>4. \A i \in 1 .. Len(x) : F(x)[i] = FlattenSeq(x[i])
        OBVIOUS
      <3> HIDE DEF f, g, F
      <3>5. \A i \in 1 .. Len(x) + 1 : f[i] = g[i]
        <4>1. \A i \in 1 .. Len(x) + 1 : i = Len(x) + 1 \/ i \in 1 .. Len(x)
          BY <2>2
        <4> QED
          BY <2>1, <3>1, <3>2, <3>4, <4>1
      <3>6. Len(x) + 1 \in Nat
        BY <2>2
      <3>7. f = g
        BY <3>1, <3>3, <3>5, <3>6, SameList
      <3> QED
        BY <3>7 DEF f, g
    <2>6. FlattenSeq(F(Append(x, e))) = FlattenSeq(F(x)) \o FlattenSeq(e)
      BY <2>3, <2>4, <2>5, FlattenAppend
    <2>7. FlattenSeq(Append(x, e)) = FlattenSeq(x) \o e /\ FlattenSeq(x) \in Seq(Seq(S))
      BY FlattenAppend, FlattenIsSeq
    <2>8. FlattenSeq(FlattenSeq(Append(x, e))) = FlattenSeq(FlattenSeq(x)) \o FlattenSeq(e)
      BY <2>7, FlattenConcat
    <2> QED
      BY <1>2, <2>1, <2>6, <2>8
  <1>3. Seq(Seq(Seq(S))) \subseteq T
    <2> HIDE DEF T
    <2> QED
      BY <1>1, <1>2, SeqInduction
  <1> QED
    BY <1>3

LEMMA FlattenNothings ==
  ASSUME NEW S, NEW ss \in Seq(Seq(S)), \A i \in 1 .. Len(ss) : ss[i] = <<>>
  PROVE  FlattenSeq(ss) = <<>>
  <1>1. PICK f \in [0 .. Len(ss) -> Seq(S)] :
            /\ f[0] = <<>> /\ f[Len(ss)] = FlattenSeq(ss)
            /\ \A i \in 1 .. Len(ss) : f[i] = f[i - 1] \o ss[i]
    BY FlattenSteps
  <1> DEFINE T == {n \in 0 .. Len(ss) : f[n] = <<>>}
  <1>2. Len(ss) \in Nat
    BY LenProperties
  <1>3. ASSUME NEW n \in 0 .. Len(ss), n < Len(ss), n \in T PROVE n + 1 \in T
    <2>1. n + 1 \in 1 .. Len(ss) /\ (n + 1) - 1 = n /\ n + 1 \in 0 .. Len(ss)
      BY <1>2, <1>3
    <2>2. f[n + 1] = <<>> \o <<>>
      BY <1>1, <1>3, <2>1
    <2> QED
      BY <2>1, <2>2, ConcatEmptySeq
  <1>4. 0 \in T
    BY <1>1, <1>2
  <1> HIDE DEF T
  <1>5. Len(ss) \in T
    <2>1. \A n \in 0 .. Len(ss) : n \in T
      BY <1>2, <1>3, <1>4, CountUp
    <2> QED
      BY <1>2, <2>1
  <1> QED
    BY <1>1, <1>5 DEF T

-----------------------------------------------------------------------------
(***************************************************************************)
(* Cutting a sequence into chunks.                                         *)
(***************************************************************************)

LEMMA FlattenRange ==
  ASSUME NEW S, NEW ss \in Seq(Seq(S))
  PROVE  Range(FlattenSeq(ss)) = UNION {Range(ss[i]) : i \in 1 .. Len(ss)}
  <1> DEFINE U(x) == UNION {Range(x[i]) : i \in 1 .. Len(x)}
             T == {x \in Seq(Seq(S)) : Range(FlattenSeq(x)) = U(x)}
  <1>1. <<>> \in T
    <2>1. U(<<>>) = {} /\ <<>> \in Seq(Seq(S))
      OBVIOUS
    <2>2. Range(<<>>) = {}
      BY DEF Range
    <2> QED
      BY <2>1, <2>2, FlattenOfNothing
  <1>2. ASSUME NEW x \in Seq(Seq(S)), NEW e \in Seq(S), x \in T PROVE Append(x, e) \in T
    <2>1. /\ Append(x, e) \in Seq(Seq(S)) /\ Len(Append(x, e)) = Len(x) + 1
          /\ (\A i \in 1 .. Len(x) : Append(x, e)[i] = x[i]) /\ Append(x, e)[Len(x) + 1] = e
      BY AppendProperties
    <2>2. Len(x) \in Nat /\ FlattenSeq(x) \in Seq(S)
      BY LenProperties, FlattenIsSeq
    <2>3. Range(FlattenSeq(Append(x, e))) = Range(FlattenSeq(x)) \cup Range(e)
      <3>1. FlattenSeq(Append(x, e)) = FlattenSeq(x) \o e
        BY FlattenAppend
      <3>2. Range(FlattenSeq(x) \o e) = Range(FlattenSeq(x)) \cup Range(e)
        BY <2>2, RangeConcatenation
      <3> QED
        BY <3>1, <3>2
    <2>4. U(Append(x, e)) = U(x) \cup Range(e)
      <3>1. 1 .. Len(x) + 1 = (1 .. Len(x)) \cup {Len(x) + 1}
        BY <2>2
      <3> HIDE DEF T
      <3>2. U(Append(x, e)) = UNION {Range(Append(x, e)[i]) : i \in (1 .. Len(x)) \cup {Len(x) + 1}}
        BY <2>1, <3>1
      <3> QED
        BY <2>1, <3>2
    <2> QED
      BY <1>2, <2>1, <2>3, <2>4
  <1>3. Seq(Seq(S)) \subseteq T
    <2> HIDE DEF T
    <2> QED
      BY <1>1, <1>2, SeqInduction
  <1> QED
    BY <1>3

-----------------------------------------------------------------------------
LEMMA MinOfTwo ==
  ASSUME NEW a \in Int, NEW b \in Int
  PROVE  Min({a, b}) = IF a <= b THEN a ELSE b
  <1>1. \A x, y \in {a, b} : x <= y /\ y <= x => x = y
    OBVIOUS
  <1>2. CASE a <= b
    <2>1. Min({a, b}) \in {a, b} /\ \A y \in {a, b} : Min({a, b}) <= y
      <3>1. \E x \in {a, b} : \A y \in {a, b} : x <= y
        BY <1>2
      <3> QED
        BY <3>1 DEF Min
    <2> QED
      BY <1>2, <2>1
  <1>3. CASE ~(a <= b)
    <2>1. Min({a, b}) \in {a, b} /\ \A y \in {a, b} : Min({a, b}) <= y
      <3>1. \E x \in {a, b} : \A y \in {a, b} : x <= y
        BY <1>3
      <3> QED
        BY <3>1 DEF Min
    <2> QED
      BY <1>3, <2>1
  <1> QED
    BY <1>2, <1>3

\* SubSeq(s, i + 1, j) continues SubSeq(s, 1, i).
LEMMA SubSeqJoin ==
  ASSUME NEW S, NEW s \in Seq(S), NEW i \in 0 .. Len(s), NEW j \in i .. Len(s)
  PROVE  /\ SubSeq(s, 1, i) \in Seq(S) /\ SubSeq(s, i + 1, j) \in Seq(S)
         /\ Len(SubSeq(s, 1, i)) = i /\ Len(SubSeq(s, i + 1, j)) = j - i
         /\ SubSeq(s, 1, i) \o SubSeq(s, i + 1, j) = SubSeq(s, 1, j)
  <1>1. Len(s) \in Nat /\ \A x \in 1 .. Len(s) : s[x] \in S
    BY LenProperties
  <1>2. 1 \in 1 .. Len(s) + 1 /\ i \in 1 - 1 .. Len(s) /\ j \in i .. Len(s)
    BY <1>1
  <1>3. SubSeq(s, 1, i) \o SubSeq(s, i + 1, j) = SubSeq(s, 1, j)
    BY <1>2, ConcatAdjacentSubSeq
  <1>4. /\ SubSeq(s, 1, i) \in Seq(S)
        /\ Len(SubSeq(s, 1, i)) = IF 1 <= i THEN i - 1 + 1 ELSE 0
    <2>1. 1 \in Int /\ i \in Int /\ \A x \in 1 .. i : s[x] \in S
      BY <1>1
    <2> QED
      BY <2>1, SubSeqProperties
  <1>5. /\ SubSeq(s, i + 1, j) \in Seq(S)
        /\ Len(SubSeq(s, i + 1, j)) = IF i + 1 <= j THEN j - (i + 1) + 1 ELSE 0
    <2>1. i + 1 \in Int /\ j \in Int /\ \A x \in i + 1 .. j : s[x] \in S
      BY <1>1
    <2> QED
      BY <2>1, SubSeqProperties
  <1>6. Len(SubSeq(s, 1, i)) = i
    BY <1>1, <1>4
  <1>7. Len(SubSeq(s, i + 1, j)) = j - i
    BY <1>1, <1>5
  <1> QED
    BY <1>3, <1>4, <1>5, <1>6, <1>7

\* How many groups of n there are in L.
LEMMA Groupings ==
  ASSUME NEW L \in Nat, NEW n \in Nat \ {0}
  PROVE  /\ (L + n - 1) \div n \in Nat
         /\ L <= ((L + n - 1) \div n) * n
         /\ \A j \in 1 .. (L + n - 1) \div n : (j - 1) * n < L /\ (j - 1) * n \in Nat /\ (j - 1) * n + n = j * n
  <1> DEFINE J == (L + n - 1) \div n
  <1>1. J \in Nat /\ J * n <= L + n - 1 /\ L + n - 1 < J * n + n
    OBVIOUS
  <1> HIDE DEF J
  <1>2. J * n \in Nat
    BY <1>1
  <1>3. L <= J * n
    BY <1>1, <1>2
  <1>4. ASSUME NEW j \in 1 .. J PROVE (j - 1) * n < L /\ (j - 1) * n \in Nat /\ (j - 1) * n + n = j * n
    <2>1. j \in Nat /\ j - 1 \in Nat /\ (j - 1) * n + n = j * n
      BY <1>1
    <2>2. j * n <= J * n
      <3>1. J - j \in Nat /\ (J - j) * n >= 0
        BY <1>1
      <3>2. (J - j) * n = J * n - j * n
        BY <1>1, <2>1
      <3> QED
        BY <1>2, <2>1, <3>1, <3>2
    <2>3. (j - 1) * n \in Nat
      BY <2>1
    <2>4. j * n \in Nat
      BY <2>1
    <2> QED
      BY <1>1, <1>2, <2>1, <2>2, <2>3, <2>4
  <1> QED
    BY <1>1, <1>3, <1>4 DEF J

\* Chunks are the sequence, cut.
LEMMA ChunksFlatten ==
  ASSUME NEW S, NEW s \in Seq(S), NEW n \in Nat \ {0}
  PROVE  Chunks(s, n) \in Seq(Seq(S)) /\ FlattenSeq(Chunks(s, n)) = s
  <1> DEFINE L == Len(s)
             J == (L + n - 1) \div n
             c == Chunks(s, n)
             upto(j) == IF j * n <= L THEN j * n ELSE L
  <1>1. L \in Nat
    BY LenProperties
  <1>2. J \in Nat /\ L <= J * n
    BY <1>1, Groupings
  <1>3. \A j \in 1 .. J : (j - 1) * n < L /\ (j - 1) * n \in Nat /\ (j - 1) * n + n = j * n
    BY <1>1, Groupings
  <1>4. ASSUME NEW j \in 1 .. J
        PROVE  /\ c[j] \in Seq(S)
               /\ SubSeq(s, 1, upto(j - 1)) \o c[j] = SubSeq(s, 1, upto(j))
    <2>1. upto(j - 1) = (j - 1) * n /\ (j - 1) * n \in 0 .. L
      BY <1>1, <1>3
    <2>2. upto(j) \in (j - 1) * n .. L
      BY <1>1, <1>3
    <2>3. Min({j * n, L}) = upto(j)
      <3>1. j * n \in Int /\ L \in Int
        BY <1>1, <1>3
      <3> QED
        BY <3>1, MinOfTwo
    <2>4. c[j] = SubSeq(s, (j - 1) * n + 1, upto(j))
      BY <2>3 DEF Chunks
    <2>5. \A a \in 0 .. L : \A b \in a .. L :
             SubSeq(s, a + 1, b) \in Seq(S) /\ SubSeq(s, 1, a) \o SubSeq(s, a + 1, b) = SubSeq(s, 1, b)
      BY SubSeqJoin
    <2> HIDE DEF c, upto, L
    <2> QED
      BY <2>1, <2>2, <2>4, <2>5
  <1>5. c \in Seq(Seq(S)) /\ Len(c) = J
    <2>1. c = [j \in 1 .. J |-> c[j]]
      BY DEF Chunks
    <2> HIDE DEF c, J
    <2> QED
      BY <1>2, <1>4, <2>1, ListIsSeq
  <1>6. PICK f \in [0 .. Len(c) -> Seq(S)] :
            /\ f[0] = <<>> /\ f[Len(c)] = FlattenSeq(c)
            /\ \A i \in 1 .. Len(c) : f[i] = f[i - 1] \o c[i]
    BY <1>5, FlattenSteps
  <1> DEFINE T == {j \in 0 .. J : f[j] = SubSeq(s, 1, upto(j))}
  <1>7. 0 \in T
    <2>1. upto(0) = 0
      BY <1>1
    <2>2. SubSeq(s, 1, 0) = <<>>
      BY SubSeqEmpty
    <2> QED
      BY <1>2, <1>6, <2>1, <2>2, SMTT(30)
  <1>8. ASSUME NEW j \in 0 .. J, j < J, j \in T PROVE j + 1 \in T
    <2>1. j + 1 \in 1 .. J /\ (j + 1) - 1 = j /\ j + 1 \in 0 .. J
      BY <1>2, <1>8
    <2>2. f[j] = SubSeq(s, 1, upto(j))
      BY <1>8
    <2> HIDE DEF c, upto, J, L
    <2>3. f[j + 1] = f[j] \o c[j + 1]
      BY <1>5, <1>6, <2>1
    <2>4. SubSeq(s, 1, upto(j)) \o c[j + 1] = SubSeq(s, 1, upto(j + 1))
      BY <1>4, <2>1
    <2> QED
      BY <2>1, <2>2, <2>3, <2>4
  <1>9. J \in T
    <2> HIDE DEF T
    <2>1. \A j \in 0 .. J : j \in T
      BY <1>2, <1>7, <1>8, CountUp
    <2>2. J \in 0 .. J
      BY <1>2
    <2> QED
      BY <2>1, <2>2
  <1>10. upto(J) = L
    BY <1>1, <1>2
  <1>11. f[J] = SubSeq(s, 1, L)
    BY <1>9, <1>10
  <1> QED
    BY <1>5, <1>6, <1>11, SubSeqFull

-----------------------------------------------------------------------------
(***************************************************************************)
(* Masks: masking a concatenation, list by list.                           *)
(***************************************************************************)

\* From position d on, m is ma, for n positions.
Agree(m, d, ma, n) == \A i \in 1 .. n : m[d + i] = ma[i]

\* f makes the steps of Masked.
Masks(f, seq, mask) ==
    /\ f[0] = <<>>
    /\ \A i \in 1 .. Len(seq) : f[i] = IF mask[i] THEN Append(f[i - 1], seq[i]) ELSE f[i - 1]

LEMMA MaskedSteps ==
  ASSUME NEW S, NEW seq \in Seq(S), NEW mask
  PROVE  \E f \in [0 .. Len(seq) -> Seq(S)] : Masks(f, seq, mask) /\ f[Len(seq)] = Masked(seq, mask)
  <1> DEFINE N == Len(seq)
             Q == Seq(S)
             Body(h) == [k \in 0 .. N |-> IF k = 0 THEN <<>>
                            ELSE IF mask[k] THEN Append(h[k - 1], seq[k]) ELSE h[k - 1]]
             c == CHOOSE h : h = Body(h)
             step == [a \in (1 .. N) \X Q |-> IF mask[a[1]] THEN Append(a[2], seq[a[1]]) ELSE a[2]]
  <1>1. N \in Nat /\ N \in Int /\ 0 \in Int /\ 0 <= N /\ 0 + 1 = 1 /\ <<>> \in Q
    OBVIOUS
  <1>2. \A i \in 1 .. N : \A x \in Q :
           step[<<i, x>>] = IF mask[i] THEN Append(x, seq[i]) ELSE x
    OBVIOUS
  <1>3. \A i \in 1 .. N : seq[i] \in S
    BY ElementOfSeq
  <1>4. \A x \in Q, e \in S : Append(x, e) \in Q
    OBVIOUS
  <1>5. Masked(seq, mask) = c[N]
    BY DEF Masked
  <1> HIDE DEF step, N, Q
  <1>6. Steps(step, 0, N, Q)
    <2>1. \A i \in 1 .. N : \A x \in Q : step[<<i, x>>] \in Q
      BY <1>2, <1>3, <1>4
    <2> QED
      BY <1>1, <2>1 DEF Steps
  <1>7. PICK f \in [0 .. N -> Q] : Computes(f, 0, N, <<>>, step)
    BY <1>1, <1>6, RecursionExists
  <1>8. f[0] = <<>> /\ \A i \in 1 .. N : f[i - 1] \in Q /\ f[i] = IF mask[i] THEN Append(f[i - 1], seq[i]) ELSE f[i - 1]
    <2>1. \A i \in 1 .. N : i - 1 \in 0 .. N
      BY <1>1
    <2> QED
      BY <1>1, <1>2, <1>7, <2>1 DEF Computes
  <1>9. c = Body(c)
    <2>1. \A k \in 0 .. N : f[k] = IF k = 0 THEN <<>>
                            ELSE IF mask[k] THEN Append(f[k - 1], seq[k]) ELSE f[k - 1]
      <3>1. \A k \in 0 .. N : k = 0 \/ (k \in 1 .. N /\ k # 0)
        BY <1>1
      <3> QED
        BY <1>8, <3>1
    <2>2. f = [k \in 0 .. N |-> f[k]]
      OBVIOUS
    <2>3. f = Body(f)
      BY <2>1, <2>2
    <2> QED
      BY <2>3
  <1> HIDE DEF c
  <1>10. \A k \in 0 .. N : c[k] = IF k = 0 THEN <<>>
                            ELSE IF mask[k] THEN Append(c[k - 1], seq[k]) ELSE c[k - 1]
    BY <1>9
  <1>11. ComputesIn(c, 0, N, Q, <<>>, step)
    <2>1. 0 \in 0 .. N /\ \A i \in 1 .. N : i \in 0 .. N /\ i # 0
      BY <1>1
    <2> QED
      BY <1>1, <1>2, <1>10, <2>1 DEF ComputesIn
  <1>12. \A i \in 0 .. N : c[i] = f[i]
    BY ONLY <1>1, <1>7, <1>11, RecursionUnique, f \in [0 .. N -> Q], SMTT(30)
  <1>13. f[N] = Masked(seq, mask)
    BY <1>1, <1>5, <1>12
  <1> QED
    BY <1>8, <1>13 DEF Masks, N, Q

LEMMA MaskedIsSeq ==
  ASSUME NEW S, NEW seq \in Seq(S), NEW mask
  PROVE  Masked(seq, mask) \in Seq(S)
  <1>1. PICK f \in [0 .. Len(seq) -> Seq(S)] : f[Len(seq)] = Masked(seq, mask)
    BY MaskedSteps
  <1>2. Len(seq) \in 0 .. Len(seq)
    BY LenProperties
  <1> QED
    BY <1>1, <1>2

LEMMA ConcatAppend ==
  ASSUME NEW S, NEW x \in Seq(S), NEW y \in Seq(S), NEW e \in S
  PROVE  Append(x \o y, e) = x \o Append(y, e)
  <1>1. x \o y \in Seq(S) /\ <<e>> \in Seq(S)
    BY ConcatProperties
  <1>2. Append(y, e) = y \o <<e>> /\ Append(x \o y, e) = (x \o y) \o <<e>>
    BY <1>1, AppendIsConcat
  <1> QED
    BY <1>1, <1>2, ConcatAssociative

LEMMA MaskedConcat ==
  ASSUME NEW S, NEW a \in Seq(S), NEW b \in Seq(S), NEW m, NEW ma, NEW mb,
         Agree(m, 0, ma, Len(a)), Agree(m, Len(a), mb, Len(b))
  PROVE  Masked(a \o b, m) = Masked(a, ma) \o Masked(b, mb)
  <1> DEFINE ab == a \o b
             A == Len(a)
             B == Len(b)
  <1>1. A \in Nat /\ B \in Nat
    BY LenProperties
  <1>2. /\ ab \in Seq(S) /\ Len(ab) = A + B
        /\ \A i \in 1 .. A + B : ab[i] = IF i <= A THEN a[i] ELSE b[i - A]
    BY ConcatProperties
  <1>3. PICK g \in [0 .. A + B -> Seq(S)] : Masks(g, ab, m) /\ g[A + B] = Masked(ab, m)
    <2>1. ab \in Seq(S) /\ Len(ab) = A + B
      BY <1>2
    <2> HIDE DEF ab, A, B
    <2>2. \E f \in [0 .. Len(ab) -> Seq(S)] : Masks(f, ab, m) /\ f[Len(ab)] = Masked(ab, m)
      BY <2>1, MaskedSteps
    <2> QED
      BY <2>1, <2>2
  <1>4. PICK fa \in [0 .. A -> Seq(S)] : Masks(fa, a, ma) /\ fa[A] = Masked(a, ma)
    BY MaskedSteps
  <1>5. PICK fb \in [0 .. B -> Seq(S)] : Masks(fb, b, mb) /\ fb[B] = Masked(b, mb)
    BY MaskedSteps
  <1> DEFINE T == {n \in 0 .. A : g[n] = fa[n]}
             R == {n \in 0 .. B : g[A + n] = fa[A] \o fb[n]}
  <1> HIDE DEF ab
  <1>6. 0 \in T
    BY <1>1, <1>3, <1>4 DEF Masks
  <1>7. ASSUME NEW n \in 0 .. A, n < A, n \in T PROVE n + 1 \in T
    <2>1. n + 1 \in 1 .. A /\ n + 1 \in 1 .. A + B /\ (n + 1) - 1 = n /\ n + 1 \in 0 .. A
      BY <1>1, <1>7
    <2>2. g[n] = fa[n]
      BY <1>7
    <2>3. ab[n + 1] = a[n + 1] /\ m[n + 1] = ma[n + 1]
      <3>1. m[0 + (n + 1)] = ma[n + 1] /\ 0 + (n + 1) = n + 1
        BY <2>1 DEF Agree
      <3>2. ab[n + 1] = a[n + 1]
        BY <1>2, <2>1
      <3> QED
        BY <3>1, <3>2
    <2> HIDE DEF T
    <2>4. g[n + 1] = IF m[n + 1] THEN Append(g[n], ab[n + 1]) ELSE g[n]
      BY <1>2, <1>3, <2>1 DEF Masks
    <2>5. fa[n + 1] = IF ma[n + 1] THEN Append(fa[n], a[n + 1]) ELSE fa[n]
      BY <1>4, <2>1 DEF Masks
    <2>6. g[n + 1] = fa[n + 1]
      BY <2>2, <2>3, <2>4, <2>5
    <2> QED
      BY <2>1, <2>6 DEF T
  <1>8. g[A] = fa[A]
    <2> HIDE DEF T
    <2>1. \A n \in 0 .. A : n \in T
      BY <1>1, <1>6, <1>7, CountUp
    <2>2. A \in T
      BY <1>1, <2>1
    <2> QED
      BY <2>2 DEF T
  <1>9. A \in 0 .. A /\ fa[A] \in Seq(S)
    <2>1. A \in 0 .. A
      BY <1>1
    <2> HIDE DEF A
    <2> QED
      BY <2>1
  <1>10. 0 \in R
    <2>1. fb[0] = <<>> /\ A + 0 = A /\ fa[A] \o <<>> = fa[A]
      BY <1>1, <1>5, <1>9, ConcatEmptySeq DEF Masks
    <2>2. 0 \in 0 .. B /\ g[A + 0] = fa[A] \o fb[0]
      BY <1>1, <1>8, <2>1
    <2> QED
      BY <2>2
  <1>11. ASSUME NEW n \in 0 .. B, n < B, n \in R PROVE n + 1 \in R
    <2>1. /\ n + 1 \in 1 .. B /\ A + n + 1 \in 1 .. A + B /\ (A + n + 1) - 1 = A + n /\ n + 1 \in 0 .. B
          /\ ~(A + n + 1 <= A) /\ (A + n + 1) - A = n + 1 /\ (n + 1) - 1 = n /\ A + n + 1 = A + (n + 1)
      BY <1>1, <1>11
    <2>2. g[A + n] = fa[A] \o fb[n] /\ fb[n] \in Seq(S)
      BY <1>11
    <2>3. ab[A + n + 1] = b[n + 1] /\ m[A + n + 1] = mb[n + 1] /\ b[n + 1] \in S
      <3>1. b[n + 1] \in S
        BY <2>1, ElementOfSeq
      <3> QED
        BY <1>2, <2>1, <3>1 DEF Agree
    <2> HIDE DEF R
    <2>4. g[A + n + 1] = IF m[A + n + 1] THEN Append(g[A + n], ab[A + n + 1]) ELSE g[A + n]
      BY <1>2, <1>3, <2>1 DEF Masks
    <2>5. fb[n + 1] = IF mb[n + 1] THEN Append(fb[n], b[n + 1]) ELSE fb[n]
      BY <1>5, <2>1 DEF Masks
    <2>6. Append(fa[A] \o fb[n], b[n + 1]) = fa[A] \o Append(fb[n], b[n + 1])
      <3>1. \A x, y \in Seq(S), e \in S : Append(x \o y, e) = x \o Append(y, e)
        BY ONLY ConcatAppend, SMTT(30)
      <3> HIDE DEF A
      <3> QED
        BY ONLY <1>9, <2>2, <2>3, <3>1
    <2>7. g[A + n + 1] = fa[A] \o fb[n + 1]
      BY <2>2, <2>3, <2>4, <2>5, <2>6
    <2> QED
      BY <2>1, <2>7 DEF R
  <1>12. g[A + B] = fa[A] \o fb[B]
    <2> HIDE DEF R
    <2>1. \A n \in 0 .. B : n \in R
      BY <1>1, <1>10, <1>11, CountUp
    <2>2. B \in R
      BY <1>1, <2>1
    <2> QED
      BY <2>2 DEF R
  <1> QED
    BY <1>3, <1>4, <1>5, <1>12 DEF ab

LEMMA MaskedMore ==
  ASSUME NEW S, NEW a \in Seq(S), NEW b \in Seq(S), NEW m, NEW mb,
         Agree(m, Len(a), mb, Len(b))
  PROVE  Masked(a \o b, m) = Masked(a, m) \o Masked(b, mb)
  <1>1. Agree(m, 0, m, Len(a))
    <2>1. \A i \in 1 .. Len(a) : 0 + i = i
      BY LenProperties
    <2> QED
      BY <2>1 DEF Agree
  <1> QED
    BY <1>1, MaskedConcat

\* Masking the concatenation of lists masks each by its slice.
LEMMA MaskedFlatten ==
  ASSUME NEW S, NEW ss \in Seq(Seq(S)), NEW m, NEW mm,
         \A k \in 1 .. Len(ss) :
            Agree(m, Len(FlattenSeq(SubSeq(ss, 1, k - 1))), mm[k], Len(ss[k]))
  PROVE  Masked(FlattenSeq(ss), m) = FlattenSeq([k \in 1 .. Len(ss) |-> Masked(ss[k], mm[k])])
  <1> DEFINE N == Len(ss)
             gg == [k \in 1 .. N |-> Masked(ss[k], mm[k])]
             F(k) == FlattenSeq(SubSeq(ss, 1, k))
             H(k) == FlattenSeq(SubSeq(gg, 1, k))
             T == {k \in 0 .. N : Masked(F(k), m) = H(k)}
  <1>1. N \in Nat /\ \A k \in 1 .. N : ss[k] \in Seq(S)
    BY LenProperties, ElementOfSeq
  <1>2. gg \in Seq(Seq(S)) /\ Len(gg) = N
    <2>1. \A k \in 1 .. N : gg[k] \in Seq(S)
      BY <1>1, MaskedIsSeq
    <2>2. gg = [k \in 1 .. N |-> gg[k]]
      OBVIOUS
    <2> QED
      BY <1>1, <2>1, <2>2, ListIsSeq
  <1>3. \A k \in 1 .. N : gg[k] = Masked(ss[k], mm[k])
    OBVIOUS
  <1> HIDE DEF gg
  <1>4. 0 \in T
    <2>1. F(0) = <<>> /\ H(0) = <<>>
      <3>1. SubSeq(ss, 1, 0) = <<>>
        BY SubSeqEmpty
      <3>2. SubSeq(gg, 1, 0) = <<>>
        BY SubSeqEmpty
      <3> QED
        BY <3>1, <3>2, FlattenOfNothing
    <2>2. Masked(<<>>, m) = <<>>
      <3>1. <<>> \in Seq(S) /\ Len(<<>>) = 0
        BY EmptySeq
      <3>2. \E f \in [0 .. Len(<<>>) -> Seq(S)] : Masks(f, <<>>, m) /\ f[Len(<<>>)] = Masked(<<>>, m)
        BY <3>1, MaskedSteps
      <3> QED
        BY <3>1, <3>2 DEF Masks
    <2> HIDE DEF F, H
    <2> QED
      BY <1>1, <2>1, <2>2
  <1>5. ASSUME NEW k \in 0 .. N, k < N, k \in T PROVE k + 1 \in T
    <2>1. k + 1 \in 1 .. N /\ (k + 1) - 1 = k /\ k + 1 \in 0 .. N
      BY <1>1, <1>5
    <2>2. F(k) \in Seq(S) /\ ss[k + 1] \in Seq(S) /\ F(k + 1) = F(k) \o ss[k + 1]
      BY <2>1, FlattenPrefix
    <2>3. H(k + 1) = H(k) \o gg[k + 1]
      BY <1>2, <2>1, FlattenPrefix
    <2>4. Agree(m, Len(F(k)), mm[k + 1], Len(ss[k + 1]))
      BY <2>1
    <2>5. Masked(F(k), m) = H(k)
      BY <1>5
    <2> HIDE DEF F, H, T
    <2>6. Masked(F(k) \o ss[k + 1], m) = Masked(F(k), m) \o Masked(ss[k + 1], mm[k + 1])
      <3> DEFINE x == F(k)
                 y == ss[k + 1]
                 mb == mm[k + 1]
      <3>1. x \in Seq(S) /\ y \in Seq(S) /\ Agree(m, Len(x), mb, Len(y))
        BY <2>2, <2>4
      <3> HIDE DEF x, y, mb
      <3>2. Masked(x \o y, m) = Masked(x, m) \o Masked(y, mb)
        BY <3>1, MaskedMore
      <3> QED
        BY <3>2 DEF x, y, mb
    <2>7. Masked(F(k + 1), m) = H(k + 1)
      BY <1>3, <2>1, <2>2, <2>3, <2>5, <2>6
    <2> QED
      BY <2>1, <2>7 DEF T
  <1>6. N \in T
    <2> HIDE DEF T
    <2>1. \A k \in 0 .. N : k \in T
      BY <1>1, <1>4, <1>5, CountUp
    <2> QED
      BY <1>1, <2>1
  <1>7. SubSeq(ss, 1, N) = ss /\ SubSeq(gg, 1, N) = gg
    BY <1>2, SubSeqFull
  <1> QED
    BY <1>6, <1>7 DEF gg

-----------------------------------------------------------------------------
(***************************************************************************)
(* Positions in a concatenation, and mapping one element by element.       *)
(***************************************************************************)

LEMMA ConcatAt ==
  ASSUME NEW S, NEW a \in Seq(S), NEW b \in Seq(S), NEW i \in 1 .. Len(b)
  PROVE  Len(a) + i \in 1 .. Len(a \o b) /\ (a \o b)[Len(a) + i] = b[i]
  <1>1. Len(a) \in Nat /\ Len(b) \in Nat
    BY LenProperties
  <1>2. /\ Len(a \o b) = Len(a) + Len(b)
        /\ \A j \in 1 .. Len(a) + Len(b) : (a \o b)[j] = IF j <= Len(a) THEN a[j] ELSE b[j - Len(a)]
    BY ConcatProperties
  <1>3. /\ Len(a) + i \in 1 .. Len(a) + Len(b) /\ ~(Len(a) + i <= Len(a)) /\ (Len(a) + i) - Len(a) = i
    BY <1>1
  <1> QED
    BY <1>2, <1>3

\* The first elements of a \o b \o c, up to some within b.
LEMMA ConcatPrefix ==
  ASSUME NEW S, NEW a \in Seq(S), NEW b \in Seq(S), NEW c \in Seq(S), NEW i \in 0 .. Len(b)
  PROVE  SubSeq((a \o b) \o c, 1, Len(a) + i) = a \o SubSeq(b, 1, i)
  <1> DEFINE abc == (a \o b) \o c
             l == SubSeq(abc, 1, Len(a) + i)
             p == SubSeq(b, 1, i)
             r == a \o p
  <1>1. Len(a) \in Nat /\ Len(b) \in Nat /\ Len(c) \in Nat
    BY LenProperties
  <1>2. /\ a \o b \in Seq(S) /\ Len(a \o b) = Len(a) + Len(b)
        /\ \A j \in 1 .. Len(a) + Len(b) : (a \o b)[j] = IF j <= Len(a) THEN a[j] ELSE b[j - Len(a)]
    BY ConcatProperties
  <1>3. /\ abc \in Seq(S) /\ Len(abc) = Len(a) + Len(b) + Len(c)
        /\ \A j \in 1 .. Len(a) + Len(b) : abc[j] = (a \o b)[j]
    <2>1. /\ abc \in Seq(S) /\ Len(abc) = Len(a \o b) + Len(c)
          /\ \A j \in 1 .. Len(a \o b) + Len(c) :
               abc[j] = IF j <= Len(a \o b) THEN (a \o b)[j] ELSE c[j - Len(a \o b)]
      BY <1>2, ConcatProperties
    <2> HIDE DEF abc
    <2>2. \A j \in 1 .. Len(a) + Len(b) : j \in 1 .. Len(a \o b) + Len(c) /\ j <= Len(a \o b)
      BY <1>1, <1>2
    <2>3. \A j \in 1 .. Len(a) + Len(b) : abc[j] = (a \o b)[j]
      BY <2>1, <2>2
    <2> QED
      BY <1>2, <2>1, <2>3
  <1> HIDE DEF abc
  <1>4. l \in Seq(S) /\ Len(l) = Len(a) + i /\ \A j \in 1 .. Len(a) + i : l[j] = abc[j]
    <2>1. Len(a) + i \in Int /\ 1 \in Int /\ \A j \in 1 .. Len(a) + i : abc[j] \in S
      <3>1. \A j \in 1 .. Len(a) + i : j \in 1 .. Len(abc)
        BY <1>1, <1>3
      <3> QED
        BY <1>1, <1>3, <3>1, ElementOfSeq
    <2>2. /\ l \in Seq(S) /\ Len(l) = IF 1 <= Len(a) + i THEN (Len(a) + i) - 1 + 1 ELSE 0
          /\ \A j \in 1 .. (Len(a) + i) - 1 + 1 : l[j] = abc[1 + j - 1]
      BY <2>1, SubSeqProperties
    <2> HIDE DEF l
    <2>3. (Len(a) + i) - 1 + 1 = Len(a) + i /\ \A j \in 1 .. Len(a) + i : 1 + j - 1 = j
      BY <1>1
    <2>4. \A j \in 1 .. Len(a) + i : l[j] = abc[j]
      BY <2>2, <2>3
    <2>5. Len(l) = Len(a) + i
      BY <1>1, <2>2
    <2> QED
      BY <2>2, <2>4, <2>5
  <1>5. p \in Seq(S) /\ Len(p) = i /\ \A j \in 1 .. i : p[j] = b[j]
    <2>1. 1 \in Int /\ i \in Int /\ \A j \in 1 .. i : b[j] \in S
      <3>1. \A j \in 1 .. i : j \in 1 .. Len(b)
        BY <1>1
      <3> QED
        BY <3>1, ElementOfSeq
    <2>2. /\ p \in Seq(S) /\ Len(p) = IF 1 <= i THEN i - 1 + 1 ELSE 0
          /\ \A j \in 1 .. i - 1 + 1 : p[j] = b[1 + j - 1]
      BY <2>1, SubSeqProperties
    <2> HIDE DEF p
    <2>3. \A j \in 1 .. i : 1 + j - 1 = j /\ i - 1 + 1 = i
      OBVIOUS
    <2>4. Len(p) = i
      BY <2>2
    <2> QED
      BY <2>2, <2>3, <2>4
  <1> HIDE DEF p, l
  <1>6. /\ r \in Seq(S) /\ Len(r) = Len(a) + i
        /\ \A j \in 1 .. Len(a) + i : r[j] = IF j <= Len(a) THEN a[j] ELSE p[j - Len(a)]
    <2>1. /\ r \in Seq(S) /\ Len(r) = Len(a) + Len(p)
          /\ \A j \in 1 .. Len(a) + Len(p) : r[j] = IF j <= Len(a) THEN a[j] ELSE p[j - Len(a)]
      BY <1>5, ConcatProperties
    <2> HIDE DEF r
    <2> QED
      BY <1>5, <2>1
  <1> HIDE DEF r
  <1>7. \A j \in 1 .. Len(l) : l[j] = r[j]
    <2> TAKE j \in 1 .. Len(l)
    <2>1. j \in 1 .. Len(a) + i /\ j \in 1 .. Len(a) + Len(b)
      BY <1>1, <1>4
    <2>2. l[j] = IF j <= Len(a) THEN a[j] ELSE b[j - Len(a)]
      BY <1>2, <1>3, <1>4, <2>1
    <2>3. r[j] = IF j <= Len(a) THEN a[j] ELSE p[j - Len(a)]
      BY <1>6, <2>1
    <2>4. ~(j <= Len(a)) => j - Len(a) \in 1 .. i
      BY <1>1, <2>1
    <2> QED
      BY <1>5, <2>2, <2>3, <2>4
  <1>8. l = r
    BY <1>4, <1>6, <1>7, SeqEqual
  <1> QED
    BY <1>8 DEF abc, l, p, r

\* The k-th list of ss within their concatenation.
LEMMA FlattenAround ==
  ASSUME NEW S, NEW ss \in Seq(Seq(S)), NEW k \in 1 .. Len(ss)
  PROVE  LET a == FlattenSeq(SubSeq(ss, 1, k - 1))
             c == FlattenSeq(SubSeq(ss, k + 1, Len(ss)))
         IN /\ a \in Seq(S) /\ ss[k] \in Seq(S) /\ c \in Seq(S)
            /\ FlattenSeq(ss) = (a \o ss[k]) \o c
  <1>1. Len(ss) \in Nat /\ k \in 0 .. Len(ss) /\ Len(ss) \in k .. Len(ss)
    BY LenProperties
  <1>2. /\ SubSeq(ss, 1, k) \in Seq(Seq(S)) /\ SubSeq(ss, k + 1, Len(ss)) \in Seq(Seq(S))
        /\ SubSeq(ss, 1, k) \o SubSeq(ss, k + 1, Len(ss)) = SubSeq(ss, 1, Len(ss))
    BY <1>1, SubSeqJoin
  <1>3. ss = SubSeq(ss, 1, k) \o SubSeq(ss, k + 1, Len(ss))
    BY <1>2, SubSeqFull
  <1>4. FlattenSeq(ss) = FlattenSeq(SubSeq(ss, 1, k)) \o FlattenSeq(SubSeq(ss, k + 1, Len(ss)))
    <2> DEFINE x == SubSeq(ss, 1, k)
               y == SubSeq(ss, k + 1, Len(ss))
    <2>1. x \in Seq(Seq(S)) /\ y \in Seq(Seq(S)) /\ ss = x \o y
      BY <1>2, <1>3
    <2> HIDE DEF x, y
    <2>2. FlattenSeq(x \o y) = FlattenSeq(x) \o FlattenSeq(y)
      BY <2>1, FlattenConcat
    <2>3. FlattenSeq(ss) = FlattenSeq(x) \o FlattenSeq(y)
      BY <2>1, <2>2
    <2> QED
      BY <2>3 DEF x, y
  <1>5. /\ FlattenSeq(SubSeq(ss, 1, k - 1)) \in Seq(S) /\ ss[k] \in Seq(S)
        /\ FlattenSeq(SubSeq(ss, 1, k)) = FlattenSeq(SubSeq(ss, 1, k - 1)) \o ss[k]
    BY FlattenPrefix
  <1>6. FlattenSeq(SubSeq(ss, k + 1, Len(ss))) \in Seq(S)
    BY <1>2, FlattenIsSeq
  <1> QED
    BY <1>4, <1>5, <1>6

\* R of each element of a list, and of each of a list of lists.
Mapped(R, x) == [j \in 1 .. Len(x) |-> R[x[j]]]
MappedEach(R, y) == [k \in 1 .. Len(y) |-> Mapped(R, y[k])]

\* R takes U into S; and y is x, mapped by R.
Into(R, U, S) == R \in [U -> S]
Maps(R, x, y) == Len(y) = Len(x) /\ \A i \in 1 .. Len(x) : y[i] = R[x[i]]

LEMMA MappedIsSeq ==
  ASSUME NEW U, NEW S, NEW R, Into(R, U, S), NEW x \in Seq(U)
  PROVE  Mapped(R, x) \in Seq(S) /\ Maps(R, x, Mapped(R, x))
  <1> DEFINE f == Mapped(R, x)
  <1>1. Len(x) \in Nat /\ \A i \in 1 .. Len(x) : f[i] = R[x[i]] /\ R[x[i]] \in S
    BY LenProperties, ElementOfSeq DEF Mapped, Into
  <1>2. f = [i \in 1 .. Len(x) |-> f[i]]
    BY DEF Mapped
  <1> HIDE DEF f
  <1>3. f \in Seq(S) /\ Len(f) = Len(x)
    BY <1>1, <1>2, ListIsSeq
  <1> QED
    BY <1>1, <1>3 DEF f, Maps

LEMMA MappedConcat ==
  ASSUME NEW U, NEW S, NEW R, Into(R, U, S), NEW x \in Seq(U), NEW y \in Seq(U)
  PROVE  Mapped(R, x \o y) = Mapped(R, x) \o Mapped(R, y)
  <1> DEFINE xy == x \o y
             f == Mapped(R, xy)
             g == Mapped(R, x) \o Mapped(R, y)
  <1>1. Len(x) \in Nat /\ Len(y) \in Nat
    BY LenProperties
  <1>2. /\ xy \in Seq(U) /\ Len(xy) = Len(x) + Len(y)
        /\ \A i \in 1 .. Len(x) + Len(y) : xy[i] = IF i <= Len(x) THEN x[i] ELSE y[i - Len(x)]
    BY ConcatProperties
  <1>3. /\ Mapped(R, x) \in Seq(S) /\ Len(Mapped(R, x)) = Len(x) /\ \A i \in 1 .. Len(x) : Mapped(R, x)[i] = R[x[i]]
    BY MappedIsSeq DEF Maps
  <1>4. /\ Mapped(R, y) \in Seq(S) /\ Len(Mapped(R, y)) = Len(y) /\ \A i \in 1 .. Len(y) : Mapped(R, y)[i] = R[y[i]]
    BY MappedIsSeq DEF Maps
  <1> HIDE DEF xy
  <1>5. f \in Seq(S) /\ Len(f) = Len(xy) /\ \A i \in 1 .. Len(xy) : f[i] = R[xy[i]]
    <2>1. Mapped(R, xy) \in Seq(S) /\ Maps(R, xy, Mapped(R, xy))
      BY <1>2, MappedIsSeq
    <2> QED
      BY <2>1 DEF Maps
  <1>6. /\ g \in Seq(S) /\ Len(g) = Len(x) + Len(y)
        /\ \A i \in 1 .. Len(x) + Len(y) : g[i] = IF i <= Len(x) THEN Mapped(R, x)[i] ELSE Mapped(R, y)[i - Len(x)]
    <2>1. /\ g \in Seq(S) /\ Len(g) = Len(Mapped(R, x)) + Len(Mapped(R, y))
          /\ \A i \in 1 .. Len(Mapped(R, x)) + Len(Mapped(R, y)) :
               g[i] = IF i <= Len(Mapped(R, x)) THEN Mapped(R, x)[i] ELSE Mapped(R, y)[i - Len(Mapped(R, x))]
      BY <1>3, <1>4, ConcatProperties, ZenonT(40)
    <2> QED
      BY <1>3, <1>4, <2>1
  <1> HIDE DEF f, g
  <1>7. \A i \in 1 .. Len(f) : f[i] = g[i]
    <2> TAKE i \in 1 .. Len(f)
    <2>1. i \in 1 .. Len(x) + Len(y) /\ f[i] = R[xy[i]]
      BY <1>2, <1>5
    <2>2. CASE i <= Len(x)
      <3>1. i \in 1 .. Len(x)
        BY <1>1, <2>1, <2>2
      <3> QED
        BY <1>2, <1>3, <1>6, <2>1, <2>2, <3>1
    <2>3. CASE ~(i <= Len(x))
      <3>1. i - Len(x) \in 1 .. Len(y)
        BY <1>1, <2>1, <2>3
      <3> QED
        BY <1>2, <1>4, <1>6, <2>1, <2>3, <3>1
    <2> QED
      BY <2>2, <2>3
  <1>8. f = g
    BY <1>2, <1>5, <1>6, <1>7, SeqEqual
  <1> QED
    BY <1>8 DEF f, g, xy

LEMMA FlattenMap ==
  ASSUME NEW U, NEW S, NEW R, Into(R, U, S), NEW xs \in Seq(Seq(U))
  PROVE  Mapped(R, FlattenSeq(xs)) = FlattenSeq(MappedEach(R, xs))
  <1> DEFINE Map(x) == Mapped(R, x)
             Each(y) == [k \in 1 .. Len(y) |-> Map(y[k])]
             T == {y \in Seq(Seq(U)) : Map(FlattenSeq(y)) = FlattenSeq(Each(y))}
  <1>1. ASSUME NEW x \in Seq(U)
        PROVE  Map(x) \in Seq(S) /\ Len(Map(x)) = Len(x) /\ \A i \in 1 .. Len(x) : Map(x)[i] = R[x[i]]
    BY MappedIsSeq DEF Maps
  <1>2. ASSUME NEW x \in Seq(U), NEW y \in Seq(U) PROVE Map(x \o y) = Map(x) \o Map(y)
    BY MappedConcat
  <1>3. <<>> \in T
    <2>1. Map(<<>>) = <<>> /\ Each(<<>>) = <<>> /\ <<>> \in Seq(Seq(U))
      BY DEF Mapped
    <2> QED
      BY <2>1, FlattenOfNothing
  <1>4. ASSUME NEW y \in Seq(Seq(U)), NEW e \in Seq(U), y \in T PROVE Append(y, e) \in T
    <2>1. /\ Append(y, e) \in Seq(Seq(U)) /\ Len(Append(y, e)) = Len(y) + 1
          /\ (\A i \in 1 .. Len(y) : Append(y, e)[i] = y[i]) /\ Append(y, e)[Len(y) + 1] = e
      BY AppendProperties
    <2>2. Len(y) \in Nat /\ \A i \in 1 .. Len(y) : y[i] \in Seq(U)
      BY LenProperties, ElementOfSeq
    <2>3. Map(FlattenSeq(y)) = FlattenSeq(Each(y))
      BY <1>4
    <2> HIDE DEF T, Map
    <2>4. Each(y) \in Seq(Seq(S)) /\ Len(Each(y)) = Len(y)
      <3>1. \A i \in 1 .. Len(y) : Each(y)[i] \in Seq(S)
        BY <1>1, <2>2
      <3>2. Each(y) = [i \in 1 .. Len(y) |-> Each(y)[i]]
        OBVIOUS
      <3> QED
        BY <2>2, <3>1, <3>2, ListIsSeq
    <2>5. Map(e) \in Seq(S)
      BY <1>1
    <2>6. Each(Append(y, e)) = Append(Each(y), Map(e))
      <3> DEFINE f == Each(Append(y, e))
                 g == Append(Each(y), Map(e))
      <3>1. /\ g \in Seq(Seq(S)) /\ Len(g) = Len(y) + 1
            /\ (\A i \in 1 .. Len(y) : g[i] = Each(y)[i]) /\ g[Len(y) + 1] = Map(e)
        BY <2>4, <2>5, AppendProperties
      <3>2. \A i \in 1 .. Len(y) + 1 : f[i] = Map(Append(y, e)[i])
        BY <2>1
      <3>3. f = [i \in 1 .. Len(y) + 1 |-> f[i]]
        BY <2>1
      <3>4. \A i \in 1 .. Len(y) : Each(y)[i] = Map(y[i])
        OBVIOUS
      <3> HIDE DEF f, g, Each
      <3>5. \A i \in 1 .. Len(y) + 1 : f[i] = g[i]
        <4>1. \A i \in 1 .. Len(y) + 1 : i = Len(y) + 1 \/ i \in 1 .. Len(y)
          BY <2>2
        <4> QED
          BY <2>1, <3>1, <3>2, <3>4, <4>1
      <3>6. Len(y) + 1 \in Nat
        BY <2>2
      <3>7. f = g
        BY <3>1, <3>3, <3>5, <3>6, SameList
      <3> QED
        BY <3>7 DEF f, g
    <2> HIDE DEF Each
    <2>7. FlattenSeq(Each(Append(y, e))) = FlattenSeq(Each(y)) \o Map(e)
      BY <2>4, <2>5, <2>6, FlattenAppend
    <2>8. FlattenSeq(Append(y, e)) = FlattenSeq(y) \o e /\ FlattenSeq(y) \in Seq(U)
      BY FlattenAppend, FlattenIsSeq
    <2>9. Map(FlattenSeq(y) \o e) = Map(FlattenSeq(y)) \o Map(e)
      BY <1>2, <2>8
    <2>10. Map(FlattenSeq(Append(y, e))) = FlattenSeq(Each(Append(y, e)))
      BY <2>3, <2>7, <2>8, <2>9
    <2> QED
      BY <2>1, <2>10 DEF T
  <1>5. Seq(Seq(U)) \subseteq T
    <2> HIDE DEF T
    <2> QED
      BY <1>3, <1>4, SeqInduction
  <1>6. Map(FlattenSeq(xs)) = FlattenSeq(Each(xs))
    BY <1>5
  <1> QED
    BY <1>6 DEF MappedEach

\* The i-th of b is found behind a in abc.
Middle(abc, a, b, i) ==
    /\ Len(a) + i \in 1 .. Len(abc)
    /\ abc[Len(a) + i] = b[i]
    /\ SubSeq(abc, 1, Len(a) + i - 1) = a \o SubSeq(b, 1, i - 1)

LEMMA MiddleAt ==
  ASSUME NEW S, NEW a \in Seq(S), NEW b \in Seq(S), NEW c \in Seq(S), NEW i \in 1 .. Len(b)
  PROVE  Middle((a \o b) \o c, a, b, i)
  <1>1. Len(a) \in Nat /\ Len(b) \in Nat /\ Len(c) \in Nat
    BY LenProperties
  <1>2. (a \o b) \o c = a \o (b \o c)
    BY ConcatAssociative
  <1>3. b \o c \in Seq(S)
    BY ConcatProperties
  <1>4. i \in 1 .. Len(b \o c) /\ (b \o c)[i] = b[i]
    <2>1. /\ Len(b \o c) = Len(b) + Len(c)
          /\ \A j \in 1 .. Len(b) + Len(c) : (b \o c)[j] = IF j <= Len(b) THEN b[j] ELSE c[j - Len(b)]
      BY ConcatProperties
    <2>2. i \in 1 .. Len(b) + Len(c) /\ i <= Len(b)
      BY <1>1
    <2> QED
      BY <2>1, <2>2
  <1>5. Len(a) + i \in 1 .. Len(a \o (b \o c)) /\ (a \o (b \o c))[Len(a) + i] = (b \o c)[i]
    BY <1>3, <1>4, ConcatAt
  <1>6. SubSeq((a \o b) \o c, 1, Len(a) + (i - 1)) = a \o SubSeq(b, 1, i - 1)
    <2>1. i - 1 \in 0 .. Len(b)
      BY <1>1
    <2> QED
      BY <2>1, ConcatPrefix, SMTT(30)
  <1>7. Len(a) + i - 1 = Len(a) + (i - 1)
    BY <1>1
  <1> QED
    BY <1>2, <1>4, <1>5, <1>6, <1>7 DEF Middle

LEMMA FlattenAt ==
  ASSUME NEW S, NEW ss \in Seq(Seq(S)), NEW k \in 1 .. Len(ss), NEW i \in 1 .. Len(ss[k])
  PROVE  /\ FlattenSeq(SubSeq(ss, 1, k - 1)) \in Seq(S) /\ ss[k] \in Seq(S)
         /\ Middle(FlattenSeq(ss), FlattenSeq(SubSeq(ss, 1, k - 1)), ss[k], i)
  <1> DEFINE a == FlattenSeq(SubSeq(ss, 1, k - 1))
             b == ss[k]
             c == FlattenSeq(SubSeq(ss, k + 1, Len(ss)))
  <1>1. a \in Seq(S) /\ b \in Seq(S) /\ c \in Seq(S) /\ FlattenSeq(ss) = (a \o b) \o c
    BY FlattenAround
  <1>2. i \in 1 .. Len(b)
    OBVIOUS
  <1> HIDE DEF a, b, c
  <1>3. Middle((a \o b) \o c, a, b, i)
    BY <1>1, <1>2, MiddleAt
  <1> QED
    BY <1>1, <1>3 DEF a, b, c

\* No element twice.
Distinct(s) == \A i, j \in 1 .. Len(s) : s[i] = s[j] => i = j

LEMMA DistinctConcat ==
  ASSUME NEW S, NEW a \in Seq(S), NEW b \in Seq(S), Distinct(a), Distinct(b),
         \A i \in 1 .. Len(a), j \in 1 .. Len(b) : a[i] # b[j]
  PROVE  Distinct(a \o b)
  <1> DEFINE ab == a \o b
  <1>1. Len(a) \in Nat /\ Len(b) \in Nat
    BY LenProperties
  <1>2. /\ Len(ab) = Len(a) + Len(b)
        /\ \A j \in 1 .. Len(a) + Len(b) : ab[j] = IF j <= Len(a) THEN a[j] ELSE b[j - Len(a)]
    BY ConcatProperties
  <1> HIDE DEF ab
  <1> SUFFICES ASSUME NEW i \in 1 .. Len(ab), NEW j \in 1 .. Len(ab), ab[i] = ab[j] PROVE i = j
    BY DEF Distinct, ab
  <1>3. \A x \in 1 .. Len(ab) : \/ x \in 1 .. Len(a) /\ ab[x] = a[x]
                                \/ x - Len(a) \in 1 .. Len(b) /\ ab[x] = b[x - Len(a)]
    <2> TAKE x \in 1 .. Len(ab)
    <2>1. CASE x <= Len(a)
      BY <1>1, <1>2, <2>1
    <2>2. CASE ~(x <= Len(a))
      <3>1. x - Len(a) \in 1 .. Len(b)
        BY <1>1, <1>2, <2>2
      <3> QED
        BY <1>2, <2>2, <3>1
    <2> QED
      BY <2>1, <2>2
  <1>4. CASE i \in 1 .. Len(a) /\ ab[i] = a[i] /\ j \in 1 .. Len(a) /\ ab[j] = a[j]
    BY <1>4 DEF Distinct
  <1>5. CASE /\ i - Len(a) \in 1 .. Len(b) /\ ab[i] = b[i - Len(a)]
             /\ j - Len(a) \in 1 .. Len(b) /\ ab[j] = b[j - Len(a)]
    <2>1. i - Len(a) = j - Len(a)
      BY <1>5 DEF Distinct
    <2> QED
      BY <1>1, <1>2, <2>1
  <1>6. CASE /\ i \in 1 .. Len(a) /\ ab[i] = a[i]
             /\ j - Len(a) \in 1 .. Len(b) /\ ab[j] = b[j - Len(a)]
    BY <1>6
  <1>7. CASE /\ j \in 1 .. Len(a) /\ ab[j] = a[j]
             /\ i - Len(a) \in 1 .. Len(b) /\ ab[i] = b[i - Len(a)]
    BY <1>7
  <1> QED
    BY <1>3, <1>4, <1>5, <1>6, <1>7

LEMMA FlattenDistinct ==
  ASSUME NEW S, NEW ss \in Seq(Seq(S)), \A k \in 1 .. Len(ss) : Distinct(ss[k]),
         \A k, l \in 1 .. Len(ss) : k # l => Range(ss[k]) \cap Range(ss[l]) = {}
  PROVE  Distinct(FlattenSeq(ss))
  <1> DEFINE N == Len(ss)
             F(k) == FlattenSeq(SubSeq(ss, 1, k))
             T == {k \in 0 .. N : Distinct(F(k))}
  <1>1. N \in Nat
    BY LenProperties
  <1>2. 0 \in T
    <2>1. F(0) = <<>>
      <3>1. SubSeq(ss, 1, 0) = <<>>
        BY SubSeqEmpty
      <3> QED
        BY <3>1, FlattenOfNothing
    <2>2. Distinct(<<>>)
      BY DEF Distinct
    <2> HIDE DEF F
    <2> QED
      BY <1>1, <2>1, <2>2
  <1>3. ASSUME NEW k \in 0 .. N, k < N, k \in T PROVE k + 1 \in T
    <2>1. k + 1 \in 1 .. N /\ (k + 1) - 1 = k /\ k + 1 \in 0 .. N
      BY <1>1, <1>3
    <2>2. F(k) \in Seq(S) /\ ss[k + 1] \in Seq(S) /\ F(k + 1) = F(k) \o ss[k + 1]
      BY <2>1, FlattenPrefix
    <2>3. Range(F(k)) \cap Range(ss[k + 1]) = {}
      <3> DEFINE p == SubSeq(ss, 1, k)
      <3>1. p \in Seq(Seq(S)) /\ Len(p) = k /\ \A i \in 1 .. k : p[i] = ss[i]
        <4>1. 1 \in Int /\ k \in Int /\ \A i \in 1 .. k : ss[i] \in Seq(S)
          <5>1. \A i \in 1 .. k : i \in 1 .. Len(ss)
            BY <1>1
          <5> QED
            BY <5>1, ElementOfSeq
        <4>2. /\ p \in Seq(Seq(S)) /\ Len(p) = IF 1 <= k THEN k - 1 + 1 ELSE 0
              /\ \A i \in 1 .. k - 1 + 1 : p[i] = ss[1 + i - 1]
          BY <4>1, SubSeqProperties
        <4> HIDE DEF p
        <4>3. k - 1 + 1 = k /\ \A i \in 1 .. k : 1 + i - 1 = i
          OBVIOUS
        <4>4. Len(p) = k
          BY <4>2
        <4> QED
          BY <4>2, <4>3, <4>4
      <3> HIDE DEF p
      <3>2. Range(FlattenSeq(p)) = UNION {Range(p[i]) : i \in 1 .. Len(p)}
        BY <3>1, FlattenRange
      <3>3. \A i \in 1 .. k : Range(p[i]) \cap Range(ss[k + 1]) = {}
        <4>1. \A i \in 1 .. k : i \in 1 .. N /\ i # k + 1
          BY <1>1
        <4> QED
          BY <2>1, <3>1, <4>1
      <3>4. Range(FlattenSeq(p)) \cap Range(ss[k + 1]) = {}
        BY <3>1, <3>2, <3>3
      <3> QED
        BY <3>4 DEF p
    <2> HIDE DEF F
    <2>4. \A i \in 1 .. Len(F(k)), j \in 1 .. Len(ss[k + 1]) : F(k)[i] # ss[k + 1][j]
      <3>1. DOMAIN F(k) = 1 .. Len(F(k)) /\ DOMAIN ss[k + 1] = 1 .. Len(ss[k + 1])
        BY <2>2, LenProperties
      <3> QED
        BY <2>3, <3>1 DEF Range
    <2>5. Distinct(F(k) \o ss[k + 1])
      <3> DEFINE x == F(k)
                 y == ss[k + 1]
      <3>1. /\ x \in Seq(S) /\ y \in Seq(S) /\ Distinct(x) /\ Distinct(y)
            /\ \A i \in 1 .. Len(x), j \in 1 .. Len(y) : x[i] # y[j]
        BY <1>3, <2>1, <2>2, <2>4
      <3> HIDE DEF x, y
      <3>2. Distinct(x \o y)
        BY <3>1, DistinctConcat
      <3> QED
        BY <3>2 DEF x, y
    <2> QED
      BY <2>1, <2>2, <2>5
  <1>4. N \in T
    <2> HIDE DEF T
    <2>1. \A k \in 0 .. N : k \in T
      BY <1>1, <1>2, <1>3, CountUp
    <2> QED
      BY <1>1, <2>1
  <1>5. SubSeq(ss, 1, N) = ss
    BY SubSeqFull
  <1> QED
    BY <1>4, <1>5

-----------------------------------------------------------------------------
(***************************************************************************)
(* What spools record.                                                     *)
(***************************************************************************)

\* A spool directory, with the part files it has and what its state.json says.
Spool == [files : Seq(Seq(Nat)), docs : Nat, parts : Nat, complete : BOOLEAN]

\* What the state of a spool counts is what its files hold, but for one more.
Counts(sp) ==
    /\ sp.docs = Len(Recorded(sp))
    /\ sp.parts <= Len(sp.files) /\ Len(sp.files) <= sp.parts + 1

\* A root directory whose spools are all in count.
Counted(spools) == spools \in [Units -> Spool] /\ \A u \in Units : Counts(spools[u])

LEMMA SequencePrefix ==
  ASSUME NEW S, NEW s \in Seq(S), NEW n \in 0 .. Len(s)
  PROVE  /\ SubSeq(s, 1, n) \in Seq(S) /\ Len(SubSeq(s, 1, n)) = n
         /\ \A i \in 1 .. n : SubSeq(s, 1, n)[i] = s[i]
  <1>1. Len(s) \in Nat
    BY LenProperties
  <1> DEFINE m == Len(s)
             p == SubSeq(s, 1, n)
  <1>2. /\ SubSeq(s, 1, n) \in Seq(S) /\ SubSeq(s, n + 1, m) \in Seq(S)
        /\ Len(SubSeq(s, 1, n)) = n
        /\ SubSeq(s, 1, n) \o SubSeq(s, n + 1, m) = SubSeq(s, 1, m)
    <2>1. m \in n .. Len(s)
      BY <1>1
    <2> HIDE DEF m
    <2> QED
      BY <2>1, SubSeqJoin
  <1>3. SubSeq(s, 1, m) = s
    BY SubSeqFull
  <1> DEFINE q == SubSeq(s, n + 1, m)
  <1> HIDE DEF p, q, m
  <1>4. p \in Seq(S) /\ q \in Seq(S) /\ Len(p) = n /\ p \o q = s
    BY <1>2, <1>3 DEF p, q
  <1>5. \A i \in 1 .. n : (p \o q)[i] = p[i]
    <2>1. Len(p) \in Nat /\ Len(q) \in Nat
      BY <1>4, LenProperties
    <2>2. \A j \in 1 .. Len(p) + Len(q) : (p \o q)[j] = IF j <= Len(p) THEN p[j] ELSE q[j - Len(p)]
      BY <1>4, ConcatProperties
    <2> QED
      BY <1>4, <2>1, <2>2
  <1> QED
    BY <1>4, <1>5 DEF p

LEMMA RecordedIsSeq ==
  ASSUME NEW sp \in Spool, Counts(sp)
  PROVE  /\ SubSeq(sp.files, 1, sp.parts) \in Seq(Seq(Nat)) /\ Recorded(sp) \in Seq(Nat)
         /\ Len(Recorded(sp)) = sp.docs /\ Len(SubSeq(sp.files, 1, sp.parts)) = sp.parts
  <1>1. sp.files \in Seq(Seq(Nat)) /\ sp.parts \in Nat /\ sp.parts <= Len(sp.files)
    BY DEF Spool, Counts
  <1>2. sp.parts \in 0 .. Len(sp.files)
    BY <1>1, LenProperties
  <1>3. SubSeq(sp.files, 1, sp.parts) \in Seq(Seq(Nat)) /\ Len(SubSeq(sp.files, 1, sp.parts)) = sp.parts
    BY <1>1, <1>2, SequencePrefix
  <1>4. FlattenSeq(SubSeq(sp.files, 1, sp.parts)) \in Seq(Nat)
    BY <1>3, FlattenIsSeq
  <1> QED
    BY <1>3, <1>4 DEF Recorded, Counts

LEMMA WorkersNat == Workers \in Nat
  BY DataPrepAssumption

LEMMA UnitOf ==
  ASSUME NEW s \in Sources
  PROVE  \A i \in 1 .. Workers + 1 : <<s, i - 1>> \in Units
  BY WorkersNat DEF Units

\* What the spools of a source record, its own first.
Records(spools, s) == [i \in 1 .. Workers + 1 |-> Recorded(spools[<<s, i - 1>>])]

LEMMA RecordsAreSeq ==
  ASSUME NEW spools, Counted(spools), NEW s \in Sources
  PROVE  /\ Records(spools, s) \in Seq(Seq(Nat)) /\ Len(Records(spools, s)) = Workers + 1
         /\ Read(spools, s) = FlattenSeq(Records(spools, s)) /\ Read(spools, s) \in Seq(Nat)
  <1> DEFINE rs == Records(spools, s)
  <1>1. \A i \in 1 .. Workers + 1 : rs[i] \in Seq(Nat)
    <2> TAKE i \in 1 .. Workers + 1
    <2>1. <<s, i - 1>> \in Units
      BY UnitOf
    <2>2. spools[<<s, i - 1>>] \in Spool /\ Counts(spools[<<s, i - 1>>])
      BY <2>1 DEF Counted
    <2> QED
      BY <2>2, RecordedIsSeq DEF Records
  <1>2. rs = [i \in 1 .. Workers + 1 |-> rs[i]] /\ Workers + 1 \in Nat
    BY WorkersNat DEF Records
  <1> HIDE DEF rs
  <1>3. rs \in Seq(Seq(Nat)) /\ Len(rs) = Workers + 1
    BY <1>1, <1>2, ListIsSeq
  <1>4. FlattenSeq(rs) \in Seq(Nat)
    BY <1>3, FlattenIsSeq
  <1> QED
    BY <1>3, <1>4 DEF Read, rs, Records

LEMMA KeptIsSeq ==
  ASSUME NEW raw, Counted(raw), NEW s \in Sources
  PROVE  Kept(raw, s) \in Seq(Nat)
  <1>1. Read(raw, s) \in Seq(Nat)
    BY RecordsAreSeq
  <1> QED
    BY <1>1, MaskedIsSeq DEF Kept

LEMMA SurvivorsIsSeq ==
  ASSUME NEW raw, Counted(raw), NEW u \in Units
  PROVE  Survivors(raw, u) \in Seq(Nat)
  <1>1. Recorded(raw[u]) \in Seq(Nat)
    BY RecordedIsSeq DEF Counted
  <1> QED
    BY <1>1, MaskedIsSeq DEF Survivors

LEMMA StrideFits ==
  ASSUME NEW L \in Nat, NEW n \in Nat \ {0}, NEW i \in 1 .. n
  PROVE  /\ (L - i) \div n + 1 \in Nat
         /\ \A k \in 1 .. (L - i) \div n + 1 : (k - 1) * n + i \in 1 .. L
  <1> DEFINE q == (L - i) \div n
  <1>1. q \in Int /\ q * n <= L - i /\ L - i < q * n + n /\ -n <= L - i
    BY Z3
  <1> HIDE DEF q
  <1>2. q >= -1
    <2> SUFFICES ASSUME q <= -2 PROVE FALSE
      BY <1>1
    <2>1. q * n <= (-2) * n
      BY <1>1, Z3
    <2> QED
      BY <1>1, <2>1
  <1>3. \A k \in 1 .. q + 1 : (k - 1) * n <= q * n /\ (k - 1) * n \in Nat
    BY <1>1, <1>2, Z3
  <1>4. \A k \in 1 .. q + 1 : (k - 1) * n + i \in 1 .. L
    BY <1>1, <1>3
  <1> QED
    BY <1>1, <1>2, <1>4 DEF q

LEMMA NthIsSeq ==
  ASSUME NEW S, NEW seq \in Seq(S), NEW n \in Nat \ {0}, NEW i \in 1 .. n
  PROVE  Nth(seq, i, n) \in Seq(S)
  <1> DEFINE f == Nth(seq, i, n)
             m == (Len(seq) - i) \div n + 1
  <1>1. Len(seq) \in Nat
    BY LenProperties
  <1>2. m \in Nat /\ \A k \in 1 .. m : (k - 1) * n + i \in 1 .. Len(seq)
    BY <1>1, StrideFits
  <1>3. \A k \in 1 .. m : f[k] \in S
    BY <1>2, ElementOfSeq DEF Nth
  <1>4. f = [k \in 1 .. m |-> f[k]]
    BY DEF Nth
  <1> HIDE DEF f, m
  <1>5. f \in Seq(S)
    BY <1>2, <1>3, <1>4, ListIsSeq
  <1> QED
    BY <1>5 DEF f

-----------------------------------------------------------------------------
(***************************************************************************)
(* The order of examination of a parallel deduplication, and that its two  *)
(* passes keep of each source what the sequential pass keeps.              *)
(***************************************************************************)

\* The units in the order a parallel deduplication examines them, a row a source.
Row(s) == [i \in 1 .. Workers + 1 |-> <<s, i - 1>>]
Rows == [k \in 1 .. Len(DedupOrder) |-> Row(DedupOrder[k])]

\* The order of priority names each source once.
LEMMA DedupOrderIs ==
  /\ DedupOrder \in Seq(Sources) /\ Len(DedupOrder) \in Nat
  /\ \A k \in 1 .. Len(DedupOrder) : DedupOrder[k] \in Sources
  /\ \A j, k \in 1 .. Len(DedupOrder) : DedupOrder[j] = DedupOrder[k] => j = k
  /\ \A s \in Sources : \E k \in 1 .. Len(DedupOrder) : DedupOrder[k] = s
  <1>1. DedupOrder \in Seq(Sources) /\ IsInjective(DedupOrder) /\ Range(DedupOrder) = Sources
    BY DataPrepAssumption
  <1>2. Len(DedupOrder) \in Nat /\ DOMAIN DedupOrder = 1 .. Len(DedupOrder)
    BY <1>1, LenProperties
  <1>3. \A k \in 1 .. Len(DedupOrder) : DedupOrder[k] \in Sources
    BY <1>1, ElementOfSeq
  <1>4. \A j, k \in 1 .. Len(DedupOrder) : DedupOrder[j] = DedupOrder[k] => j = k
    BY <1>1, <1>2 DEF IsInjective
  <1>5. \A s \in Sources : \E k \in 1 .. Len(DedupOrder) : DedupOrder[k] = s
    BY <1>1, <1>2 DEF Range
  <1> QED
    BY <1>1, <1>2, <1>3, <1>4, <1>5

LEMMA BeforeIs ==
  ASSUME NEW k \in 1 .. Len(DedupOrder)
  PROVE  Before(DedupOrder, DedupOrder[k]) = {DedupOrder[j] : j \in 1 .. k - 1}
  <1> DEFINE D == DedupOrder
             N == Len(DedupOrder)
             J == {j \in DOMAIN D : \A i \in 1 .. j : D[i] # D[k]}
  <1>1. N \in Nat /\ DOMAIN D = 1 .. N
    BY DedupOrderIs, LenProperties
  <1>2. \A i, j \in 1 .. N : D[i] = D[j] => i = j
    BY DedupOrderIs
  <1>3. k \in 1 .. N
    OBVIOUS
  <1>4. Before(D, D[k]) = {D[j] : j \in J}
    BY DEF Before
  <1> HIDE DEF D, N
  <1>5. J = 1 .. k - 1
    <2>1. ASSUME NEW j \in J PROVE j \in 1 .. k - 1
      <3>1. j \in 1 .. N /\ \A i \in 1 .. j : D[i] # D[k]
        BY <1>1, <2>1
      <3>2. ~(k <= j)
        <4> SUFFICES ASSUME k <= j PROVE FALSE
          OBVIOUS
        <4>1. k \in 1 .. j
          BY <1>3, <3>1
        <4> QED
          BY <3>1, <4>1
      <3> QED
        BY <1>1, <1>3, <3>1, <3>2
    <2>2. ASSUME NEW j \in 1 .. k - 1 PROVE j \in J
      <3>1. \A i \in 1 .. j : i \in 1 .. N /\ i # k
        BY <1>1, <1>3
      <3>2. \A i \in 1 .. j : D[i] # D[k]
        BY <1>2, <1>3, <3>1
      <3>3. j \in DOMAIN D
        BY <1>1, <1>3
      <3> QED
        BY <3>2, <3>3
    <2> QED
      BY <2>1, <2>2
  <1> HIDE DEF J
  <1> QED
    BY <1>4, <1>5 DEF D

LEMMA RowIs ==
  ASSUME NEW s \in Sources
  PROVE  /\ Row(s) \in Seq(Units) /\ Len(Row(s)) = Workers + 1 /\ Distinct(Row(s))
         /\ \A u \in Range(Row(s)) : u[1] = s
  <1> DEFINE r == Row(s)
  <1>1. Workers + 1 \in Nat /\ \A i \in 1 .. Workers + 1 : r[i] = <<s, i - 1>> /\ r[i] \in Units
    BY WorkersNat, UnitOf DEF Row
  <1>2. r = [i \in 1 .. Workers + 1 |-> r[i]]
    BY DEF Row
  <1> HIDE DEF r
  <1>3. r \in Seq(Units) /\ Len(r) = Workers + 1 /\ DOMAIN r = 1 .. Workers + 1
    BY <1>1, <1>2, ListIsSeq
  <1>4. Distinct(r)
    <2> SUFFICES ASSUME NEW i \in 1 .. Workers + 1, NEW j \in 1 .. Workers + 1, r[i] = r[j] PROVE i = j
      BY <1>3 DEF Distinct
    <2>1. <<s, i - 1>> = <<s, j - 1>>
      BY <1>1
    <2>2. i - 1 = j - 1
      BY <2>1
    <2> QED
      BY <2>2, <1>1
  <1>5. \A u \in Range(r) : u[1] = s
    BY <1>1, <1>3 DEF Range
  <1> QED
    BY <1>3, <1>4, <1>5 DEF r

LEMMA RowsAre ==
  /\ Rows \in Seq(Seq(Units)) /\ Len(Rows) = Len(DedupOrder)
  /\ \A k \in 1 .. Len(DedupOrder) : Rows[k] = Row(DedupOrder[k])
  /\ Examine = FlattenSeq(Rows) /\ Examine \in Seq(Units) /\ Distinct(Examine)
  <1> DEFINE N == Len(DedupOrder)
             ss == Rows
  <1>1. \A k \in 1 .. N : ss[k] = Row(DedupOrder[k])
    BY DEF Rows
  <1>2. \A k \in 1 .. N : ss[k] \in Seq(Units)
    BY <1>1, DedupOrderIs, RowIs
  <1>3. ss = [k \in 1 .. N |-> ss[k]] /\ N \in Nat
    BY DedupOrderIs DEF Rows
  <1>4. Examine = FlattenSeq(ss)
    BY DEF Examine, Rows, Row
  <1> HIDE DEF ss, N
  <1>5. ss \in Seq(Seq(Units)) /\ Len(ss) = N
    BY <1>2, <1>3, ListIsSeq
  <1>6. FlattenSeq(ss) \in Seq(Units)
    BY <1>5, FlattenIsSeq
  <1>7. \A k \in 1 .. Len(ss) : Distinct(ss[k])
    BY <1>1, <1>5, DedupOrderIs, RowIs, SMTT(30), ZenonT(60) DEF N
  <1>8. \A k, l \in 1 .. Len(ss) : k # l => Range(ss[k]) \cap Range(ss[l]) = {}
    <2> SUFFICES ASSUME NEW k \in 1 .. N, NEW l \in 1 .. N, NEW u, u \in Range(ss[k]), u \in Range(ss[l])
                 PROVE  k = l
      BY <1>5
    <2>1. \A j \in 1 .. N : \A v \in Range(ss[j]) : v[1] = DedupOrder[j]
      BY <1>1, DedupOrderIs, RowIs DEF N
    <2>2. DedupOrder[k] = DedupOrder[l]
      BY <2>1
    <2> QED
      BY <2>2, DedupOrderIs DEF N
  <1>9. Distinct(FlattenSeq(ss))
    BY <1>5, <1>7, <1>8, FlattenDistinct
  <1> QED
    BY <1>1, <1>4, <1>5, <1>6, <1>9 DEF ss, N

\* What each unit records, the units of a list of rows laid end to end.
LEMMA RowsRecord ==
  ASSUME NEW raw, Counted(raw), NEW n \in Nat, NEW src \in Seq(Sources), Len(src) = n
  PROVE  LET rows == [k \in 1 .. n |-> Row(src[k])]
             reads == [k \in 1 .. n |-> Read(raw, src[k])]
             us == FlattenSeq(rows)
         IN /\ rows \in Seq(Seq(Units)) /\ reads \in Seq(Seq(Nat)) /\ us \in Seq(Units)
            /\ Len(rows) = n /\ Len(reads) = n
            /\ FlattenSeq([j \in 1 .. Len(us) |-> Recorded(raw[us[j]])]) = FlattenSeq(reads)
  <1> DEFINE R == [u \in Units |-> Recorded(raw[u])]
             rows == [k \in 1 .. n |-> Row(src[k])]
             reads == [k \in 1 .. n |-> Read(raw, src[k])]
             us == FlattenSeq(rows)
             recs == [k \in 1 .. n |-> Records(raw, src[k])]
  <1>1. \A k \in 1 .. n : src[k] \in Sources
    BY ElementOfSeq
  <1>2. Into(R, Units, Seq(Nat))
    BY RecordedIsSeq DEF Counted, Into
  <1>3. rows \in Seq(Seq(Units)) /\ Len(rows) = n
    <2> DEFINE f == rows
    <2>1. f = [k \in 1 .. n |-> f[k]] /\ \A k \in 1 .. n : f[k] \in Seq(Units)
      BY <1>1, RowIs
    <2> HIDE DEF f
    <2>2. f \in Seq(Seq(Units)) /\ Len(f) = n
      BY <2>1, ListIsSeq
    <2> QED
      BY <2>2 DEF f
  <1>4. reads \in Seq(Seq(Nat)) /\ Len(reads) = n
    <2> DEFINE f == reads
    <2>1. f = [k \in 1 .. n |-> f[k]] /\ \A k \in 1 .. n : f[k] \in Seq(Nat)
      BY <1>1, RecordsAreSeq
    <2> HIDE DEF f
    <2>2. f \in Seq(Seq(Nat)) /\ Len(f) = n
      BY <2>1, ListIsSeq
    <2> QED
      BY <2>2 DEF f
  <1>5. recs \in Seq(Seq(Seq(Nat))) /\ Len(recs) = n
    <2> DEFINE f == recs
    <2>1. f = [k \in 1 .. n |-> f[k]] /\ \A k \in 1 .. n : f[k] \in Seq(Seq(Nat))
      BY <1>1, RecordsAreSeq
    <2> HIDE DEF f
    <2>2. f \in Seq(Seq(Seq(Nat))) /\ Len(f) = n
      BY <2>1, ListIsSeq
    <2> QED
      BY <2>2 DEF f
  <1>6. us \in Seq(Units)
    BY <1>3, FlattenIsSeq
  <1>7. \A k \in 1 .. n : rows[k] = Row(src[k]) /\ recs[k] = Records(raw, src[k])
    OBVIOUS
  <1>8. reads = [k \in 1 .. n |-> FlattenSeq(recs[k])]
    BY <1>1, RecordsAreSeq
  <1>9. recs = MappedEach(R, rows)
    <2>1. \A k \in 1 .. n : Records(raw, src[k]) = Mapped(R, rows[k])
      <3> TAKE k \in 1 .. n
      <3>1. rows[k] = Row(src[k]) /\ Len(rows[k]) = Workers + 1
        BY <1>1, RowIs
      <3>2. \A i \in 1 .. Workers + 1 : Row(src[k])[i] = <<src[k], i - 1>> /\ <<src[k], i - 1>> \in Units
        BY <1>1, UnitOf DEF Row
      <3> HIDE DEF rows
      <3> QED
        BY <3>1, <3>2 DEF Records, Mapped
    <2> HIDE DEF rows
    <2> QED
      BY <1>3, <2>1 DEF MappedEach
  <1>10. [j \in 1 .. Len(us) |-> Recorded(raw[us[j]])] = Mapped(R, us)
    BY <1>6, ElementOfSeq DEF Mapped
  <1> HIDE DEF R, rows, reads, recs
  <1>11. Mapped(R, FlattenSeq(rows)) = FlattenSeq(MappedEach(R, rows))
    BY <1>2, <1>3, FlattenMap
  <1>12. FlattenSeq(FlattenSeq(recs)) = FlattenSeq([k \in 1 .. n |-> FlattenSeq(recs[k])])
    BY <1>5, FlattenFlatten
  <1>13. FlattenSeq([j \in 1 .. Len(us) |-> Recorded(raw[us[j]])]) = FlattenSeq(reads)
    BY <1>8, <1>9, <1>10, <1>11, <1>12
  <1> QED
    BY <1>3, <1>4, <1>6, <1>13 DEF rows, reads

LEMMA RangeConcat ==
  ASSUME NEW S, NEW a \in Seq(S), NEW b \in Seq(S)
  PROVE  Range(a \o b) = Range(a) \cup Range(b)
  <1> DEFINE ab == a \o b
  <1>1. Len(a) \in Nat /\ Len(b) \in Nat /\ DOMAIN a = 1 .. Len(a) /\ DOMAIN b = 1 .. Len(b)
    BY LenProperties
  <1>2. /\ ab \in Seq(S) /\ Len(ab) = Len(a) + Len(b)
        /\ \A j \in 1 .. Len(a) + Len(b) : ab[j] = IF j <= Len(a) THEN a[j] ELSE b[j - Len(a)]
    BY ConcatProperties
  <1>3. DOMAIN ab = 1 .. Len(a) + Len(b)
    BY <1>2, LenProperties
  <1> HIDE DEF ab
  <1>4. ASSUME NEW x \in Range(ab) PROVE x \in Range(a) \cup Range(b)
    <2>1. PICK j \in 1 .. Len(a) + Len(b) : x = ab[j]
      BY <1>3 DEF Range
    <2>2. CASE j <= Len(a)
      <3>1. j \in 1 .. Len(a) /\ x = a[j]
        BY <1>1, <1>2, <2>1, <2>2
      <3> QED
        BY <1>1, <3>1 DEF Range
    <2>3. CASE ~(j <= Len(a))
      <3>1. j - Len(a) \in 1 .. Len(b) /\ x = b[j - Len(a)]
        BY <1>1, <1>2, <2>1, <2>3
      <3> QED
        BY <1>1, <3>1 DEF Range
    <2> QED
      BY <2>2, <2>3
  <1>5. ASSUME NEW x \in Range(a) PROVE x \in Range(ab)
    <2>1. PICK j \in 1 .. Len(a) : x = a[j]
      BY <1>1 DEF Range
    <2>2. j \in 1 .. Len(a) + Len(b) /\ ab[j] = x
      BY <1>1, <1>2, <2>1
    <2> QED
      BY <1>3, <2>2 DEF Range
  <1>6. ASSUME NEW x \in Range(b) PROVE x \in Range(ab)
    <2>1. PICK j \in 1 .. Len(b) : x = b[j]
      BY <1>1 DEF Range
    <2>2. Len(a) + j \in 1 .. Len(a) + Len(b) /\ ~(Len(a) + j <= Len(a)) /\ Len(a) + j - Len(a) = j
      BY <1>1
    <2>3. ab[Len(a) + j] = x
      BY <1>2, <2>1, <2>2
    <2> QED
      BY <1>3, <2>2, <2>3 DEF Range
  <1> QED
    BY <1>4, <1>5, <1>6 DEF ab

LEMMA RangePrefix ==
  ASSUME NEW S, NEW s \in Seq(S), NEW n \in 0 .. Len(s)
  PROVE  Range(SubSeq(s, 1, n)) = {s[i] : i \in 1 .. n}
  <1> DEFINE p == SubSeq(s, 1, n)
  <1>1. p \in Seq(S) /\ Len(p) = n /\ \A i \in 1 .. n : p[i] = s[i]
    BY SequencePrefix
  <1> HIDE DEF p
  <1>2. DOMAIN p = 1 .. n
    BY <1>1, LenProperties
  <1>3. Range(p) = {s[i] : i \in 1 .. n}
    BY <1>1, <1>2 DEF Range
  <1> QED
    BY <1>3 DEF p

\* What the sources record, in the order of priority.
Reads(raw) == [k \in 1 .. Len(DedupOrder) |-> Read(raw, DedupOrder[k])]

\* What the sources before the k-th record.
Ahead(raw, k) == FlattenSeq(SubSeq(Reads(raw), 1, k - 1))

LEMMA ReadsAre ==
  ASSUME NEW raw, Counted(raw)
  PROVE  /\ Reads(raw) \in Seq(Seq(Nat)) /\ Len(Reads(raw)) = Len(DedupOrder)
         /\ \A k \in 1 .. Len(DedupOrder) : Reads(raw)[k] = Read(raw, DedupOrder[k])
         /\ Digests(raw) = FlattenSeq(Reads(raw)) /\ Digests(raw) \in Seq(Nat)
  <1> DEFINE n == Len(DedupOrder)
  <1>1. DedupOrder \in Seq(Sources) /\ n \in Nat
    BY DedupOrderIs
  <1>2. LET rows == [k \in 1 .. n |-> Row(DedupOrder[k])]
            reads == [k \in 1 .. n |-> Read(raw, DedupOrder[k])]
            us == FlattenSeq(rows)
        IN /\ rows \in Seq(Seq(Units)) /\ reads \in Seq(Seq(Nat)) /\ us \in Seq(Units)
           /\ Len(rows) = n /\ Len(reads) = n
           /\ FlattenSeq([j \in 1 .. Len(us) |-> Recorded(raw[us[j]])]) = FlattenSeq(reads)
    BY <1>1, RowsRecord
  <1>3. Reads(raw) \in Seq(Seq(Nat)) /\ Len(Reads(raw)) = n
    BY <1>2 DEF Reads
  <1>4. Digests(raw) = FlattenSeq(Reads(raw))
    BY <1>2, RowsAre DEF Digests, Rows, Reads
  <1>5. FlattenSeq(Reads(raw)) \in Seq(Nat)
    BY <1>3, FlattenIsSeq
  <1>6. \A k \in 1 .. n : Reads(raw)[k] = Read(raw, DedupOrder[k])
    BY DEF Reads
  <1> QED
    BY <1>3, <1>4, <1>5, <1>6

LEMMA AheadIs ==
  ASSUME NEW raw, Counted(raw), NEW k \in 1 .. Len(DedupOrder)
  PROVE  /\ Ahead(raw, k) \in Seq(Nat)
         /\ Range(Ahead(raw, k)) = UNION {Range(Read(raw, t)) : t \in Before(DedupOrder, DedupOrder[k])}
  <1> DEFINE rs == Reads(raw)
             p == SubSeq(rs, 1, k - 1)
             m == k - 1
  <1>1. Len(DedupOrder) \in Nat /\ m \in Nat /\ m \in 0 .. Len(DedupOrder)
    BY DedupOrderIs
  <1>2. rs \in Seq(Seq(Nat)) /\ Len(rs) = Len(DedupOrder)
    BY ReadsAre
  <1>3. p \in Seq(Seq(Nat)) /\ Len(p) = m /\ \A i \in 1 .. m : p[i] = rs[i]
    <2> HIDE DEF rs
    <2> QED
      BY <1>1, <1>2, SequencePrefix
  <1>4. \A i \in 1 .. m : rs[i] = Read(raw, DedupOrder[i])
    BY <1>1, ReadsAre
  <1> HIDE DEF rs, p
  <1>5. FlattenSeq(p) \in Seq(Nat) /\ Range(FlattenSeq(p)) = UNION {Range(p[i]) : i \in 1 .. Len(p)}
    BY <1>3, FlattenIsSeq, FlattenRange
  <1>6. {Range(p[i]) : i \in 1 .. Len(p)} = {Range(Read(raw, DedupOrder[i])) : i \in 1 .. m}
    BY <1>3, <1>4
  <1>7. {Range(Read(raw, DedupOrder[i])) : i \in 1 .. m}
          = {Range(Read(raw, t)) : t \in Before(DedupOrder, DedupOrder[k])}
    BY BeforeIs
  <1> QED
    BY <1>5, <1>6, <1>7 DEF Ahead, rs, p

\* What the sequential pass keeps of a source.
Firsts(raw, s) ==
    LET docs == Read(raw, s)
        seen == UNION {Range(Read(raw, t)) : t \in Before(DedupOrder, s)}
    IN [p \in DOMAIN docs |-> docs[p] \notin seen \cup {Blank} /\ \A q \in 1 .. p - 1 : docs[q] # docs[p]]

\* The mask over all documents keeps of a source what the sequential pass does.
LEMMA SliceIs ==
  ASSUME NEW raw, Counted(raw), NEW k \in 1 .. Len(DedupOrder), NEW p \in 1 .. Len(Read(raw, DedupOrder[k]))
  PROVE  KeepMask(raw)[Len(Ahead(raw, k)) + p] = Firsts(raw, DedupOrder[k])[p]
  <1> DEFINE s == DedupOrder[k]
             D == Digests(raw)
             docs == Read(raw, s)
             a == Ahead(raw, k)
             P == Len(a) + p
             seen == UNION {Range(Read(raw, t)) : t \in Before(DedupOrder, s)}
  <1>1. s \in Sources
    BY DedupOrderIs
  <1>2. docs \in Seq(Nat) /\ D \in Seq(Nat) /\ a \in Seq(Nat) /\ Range(a) = seen
    BY <1>1, RecordsAreSeq, ReadsAre, AheadIs
  <1>3. /\ P \in 1 .. Len(D) /\ D[P] = docs[p]
        /\ SubSeq(D, 1, P - 1) = a \o SubSeq(docs, 1, p - 1)
    <2> DEFINE rs == Reads(raw)
    <2>1. rs \in Seq(Seq(Nat)) /\ k \in 1 .. Len(rs) /\ rs[k] = docs /\ D = FlattenSeq(rs)
      BY ReadsAre
    <2>2. p \in 1 .. Len(rs[k])
      BY <2>1
    <2>3. a = FlattenSeq(SubSeq(rs, 1, k - 1))
      BY DEF Ahead
    <2> HIDE DEF a, rs, D, docs
    <2>4. /\ FlattenSeq(SubSeq(rs, 1, k - 1)) \in Seq(Nat) /\ rs[k] \in Seq(Nat)
          /\ Middle(FlattenSeq(rs), FlattenSeq(SubSeq(rs, 1, k - 1)), rs[k], p)
      BY <2>1, <2>2, FlattenAt
    <2>5. Middle(D, a, docs, p)
      BY <2>1, <2>3, <2>4
    <2> QED
      BY <2>5 DEF Middle
  <1> HIDE DEF D, a, docs, seen
  <1>4. Len(D) \in Nat /\ Len(docs) \in Nat /\ Len(a) \in Nat /\ P - 1 \in 0 .. Len(D) /\ p - 1 \in 0 .. Len(docs)
        /\ p \in 1 .. Len(docs) /\ DOMAIN docs = 1 .. Len(docs) /\ DOMAIN D = 1 .. Len(D)
    BY <1>2, <1>3, LenProperties DEF docs
  <1>5. {D[q] : q \in 1 .. P - 1} = seen \cup {docs[q] : q \in 1 .. p - 1}
    <2>1. Range(SubSeq(D, 1, P - 1)) = {D[q] : q \in 1 .. P - 1}
      <3> DEFINE n == P - 1
      <3>1. n \in 0 .. Len(D)
        BY <1>4
      <3> HIDE DEF n
      <3>2. Range(SubSeq(D, 1, n)) = {D[q] : q \in 1 .. n}
        BY <1>2, <3>1, RangePrefix
      <3> QED
        BY <3>2 DEF n
    <2>2. Range(SubSeq(docs, 1, p - 1)) = {docs[q] : q \in 1 .. p - 1} /\ SubSeq(docs, 1, p - 1) \in Seq(Nat)
      <3> DEFINE n == p - 1
      <3>1. n \in 0 .. Len(docs)
        BY <1>4
      <3> HIDE DEF n
      <3>2. Range(SubSeq(docs, 1, n)) = {docs[q] : q \in 1 .. n} /\ SubSeq(docs, 1, n) \in Seq(Nat)
        BY <1>2, <3>1, RangePrefix, SequencePrefix
      <3> QED
        BY <3>2 DEF n
    <2>3. Range(a \o SubSeq(docs, 1, p - 1)) = Range(a) \cup Range(SubSeq(docs, 1, p - 1))
      <3> DEFINE y == SubSeq(docs, 1, p - 1)
      <3>1. a \in Seq(Nat) /\ y \in Seq(Nat)
        BY <1>2, <2>2
      <3> HIDE DEF y
      <3>2. Range(a \o y) = Range(a) \cup Range(y)
        BY <3>1, RangeConcat
      <3> QED
        BY <3>2 DEF y
    <2> QED
      BY <1>2, <1>3, <2>1, <2>2, <2>3
  <1>6. KeepMask(raw)[P] = (D[P] # Blank /\ \A q \in 1 .. P - 1 : D[q] # D[P])
    BY <1>3, <1>4 DEF KeepMask, D
  <1>7. Firsts(raw, s)[p] = (docs[p] \notin seen \cup {Blank} /\ \A q \in 1 .. p - 1 : docs[q] # docs[p])
    BY <1>4 DEF Firsts, docs, seen
  <1>8. (\A q \in 1 .. P - 1 : D[q] # D[P]) <=> D[P] \notin {D[q] : q \in 1 .. P - 1}
    OBVIOUS
  <1>9. (\A q \in 1 .. p - 1 : docs[q] # docs[p]) <=> docs[p] \notin {docs[q] : q \in 1 .. p - 1}
    OBVIOUS
  <1>10. (D[P] # Blank /\ \A q \in 1 .. P - 1 : D[q] # D[P])
            <=> (docs[p] \notin seen \cup {Blank} /\ \A q \in 1 .. p - 1 : docs[q] # docs[p])
    BY <1>3, <1>5, <1>8, <1>9
  <1>11. KeepMask(raw)[P] = Firsts(raw, s)[p]
    BY ONLY <1>6, <1>7, <1>10
  <1> QED
    BY <1>11 DEF a

LEMMA MappedPrefix ==
  ASSUME NEW U, NEW S, NEW R, Into(R, U, S), NEW x \in Seq(U), NEW n \in 0 .. Len(x)
  PROVE  SubSeq(Mapped(R, x), 1, n) = Mapped(R, SubSeq(x, 1, n))
  <1> DEFINE p == SubSeq(x, 1, n)
             y == Mapped(R, x)
             f == SubSeq(y, 1, n)
             g == Mapped(R, p)
  <1>1. p \in Seq(U) /\ Len(p) = n /\ \A i \in 1 .. n : p[i] = x[i]
    BY SequencePrefix
  <1>2. y \in Seq(S) /\ Maps(R, x, y)
    BY MappedIsSeq
  <1> HIDE DEF p, y
  <1>3. g \in Seq(S) /\ Maps(R, p, g)
    BY <1>1, MappedIsSeq
  <1>4. f \in Seq(S) /\ Len(f) = n /\ \A i \in 1 .. n : f[i] = y[i]
    BY <1>2, SequencePrefix DEF Maps
  <1> HIDE DEF f, g
  <1>5. \A i \in 1 .. Len(f) : f[i] = g[i]
    <2> TAKE i \in 1 .. Len(f)
    <2>1. i \in 1 .. n /\ i \in 1 .. Len(x) /\ i \in 1 .. Len(p)
      BY <1>1, <1>4, LenProperties
    <2> QED
      BY <1>1, <1>2, <1>3, <1>4, <2>1 DEF Maps
  <1>6. f = g
    BY <1>1, <1>3, <1>4, <1>5, SeqEqual DEF Maps
  <1> QED
    BY <1>6 DEF f, g, y, p

\* What each spool of a root records.
RecordedBy(raw) == [u \in Units |-> Recorded(raw[u])]

LEMMA RecordedByAre ==
  ASSUME NEW raw, Counted(raw)
  PROVE  Into(RecordedBy(raw), Units, Seq(Nat)) /\ \A u \in Units : RecordedBy(raw)[u] = Recorded(raw[u])
  BY RecordedIsSeq DEF Counted, Into, RecordedBy

\* The offset of the j-th unit is the length of what the ones before it record.
LEMMA OffsetCounts ==
  ASSUME NEW raw, Counted(raw), NEW j \in 1 .. Len(Examine)
  PROVE  Offset(raw, Examine[j]) = Len(FlattenSeq(Mapped(RecordedBy(raw), SubSeq(Examine, 1, j - 1))))
  <1> DEFINE N == Len(Examine)
             R == RecordedBy(raw)
             EX == Mapped(R, Examine)
             Body(h) == [k \in 0 .. N |-> IF k = 0 THEN 0 ELSE h[k - 1] + raw[Examine[k]].docs]
             c == CHOOSE h : h = Body(h)
             f == [k \in 0 .. N |-> Len(FlattenSeq(SubSeq(EX, 1, k)))]
             T == {k \in 0 .. N : c[k] = f[k]}
  <1>1. Examine \in Seq(Units) /\ Distinct(Examine) /\ N \in Nat /\ DOMAIN Examine = 1 .. N
    BY RowsAre, LenProperties
  <1>2. EX \in Seq(Seq(Nat)) /\ Len(EX) = N /\ \A k \in 1 .. N : EX[k] = R[Examine[k]]
    <2> HIDE DEF R
    <2>1. Into(R, Units, Seq(Nat))
      BY RecordedByAre DEF R
    <2>2. EX \in Seq(Seq(Nat)) /\ Maps(R, Examine, EX)
      BY <1>1, <2>1, MappedIsSeq
    <2> QED
      BY <2>2 DEF Maps
  <1>3. \A k \in 1 .. N : Examine[k] \in Units
    BY <1>1, ElementOfSeq
  <1>4. \A k \in 1 .. N : Len(EX[k]) = raw[Examine[k]].docs
    <2> TAKE k \in 1 .. N
    <2>1. EX[k] = Recorded(raw[Examine[k]])
      BY <1>2, <1>3, RecordedByAre
    <2> QED
      BY <1>3, <2>1 DEF Counted, Counts
  <1>5. Offset(raw, Examine[j]) = c[(CHOOSE k \in DOMAIN Examine : Examine[k] = Examine[j]) - 1]
    BY DEF Offset
  <1>6. (CHOOSE k \in DOMAIN Examine : Examine[k] = Examine[j]) = j
    <2>1. j \in DOMAIN Examine /\ \A k \in DOMAIN Examine : Examine[k] = Examine[j] => k = j
      BY <1>1 DEF Distinct
    <2> QED
      BY <2>1
  <1> HIDE DEF R, EX, N
  <1>7. \A k \in 1 .. N : f[k] = f[k - 1] + raw[Examine[k]].docs
    <2> TAKE k \in 1 .. N
    <2>1. k - 1 \in 0 .. N /\ k \in 0 .. N
      BY <1>1
    <2>2. /\ FlattenSeq(SubSeq(EX, 1, k - 1)) \in Seq(Nat) /\ EX[k] \in Seq(Nat)
          /\ FlattenSeq(SubSeq(EX, 1, k)) = FlattenSeq(SubSeq(EX, 1, k - 1)) \o EX[k]
      BY <1>2, FlattenPrefix
    <2>3. Len(FlattenSeq(SubSeq(EX, 1, k - 1)) \o EX[k]) = Len(FlattenSeq(SubSeq(EX, 1, k - 1))) + Len(EX[k])
      BY <2>2, ConcatProperties
    <2> QED
      BY <1>4, <2>1, <2>2, <2>3
  <1>8. f[0] = 0
    <2>1. SubSeq(EX, 1, 0) = <<>> /\ 0 \in 0 .. N
      BY <1>1, SubSeqEmpty
    <2>2. Len(FlattenSeq(<<>>)) = 0
      BY FlattenOfNothing
    <2> QED
      BY <2>1, <2>2
  <1>9. f = Body(f)
    <2>1. f = [k \in 0 .. N |-> f[k]]
      OBVIOUS
    <2> HIDE DEF f
    <2>2. \A k \in 0 .. N : k = 0 \/ k \in 1 .. N
      BY <1>1
    <2>3. \A k \in 0 .. N : f[k] = IF k = 0 THEN 0 ELSE f[k - 1] + raw[Examine[k]].docs
      BY <1>7, <1>8, <2>2
    <2> QED
      BY <2>1, <2>3
  <1>10. c = Body(c)
    <2> HIDE DEF f
    <2> QED
      BY <1>9
  <1> HIDE DEF c, f
  <1>11. \A k \in 0 .. N : c[k] = IF k = 0 THEN 0 ELSE c[k - 1] + raw[Examine[k]].docs
    BY <1>10
  <1>12. \A k \in 0 .. N : k \in T
    <2>1. 0 \in T
      BY <1>1, <1>8, <1>11
    <2>2. \A k \in 0 .. N : k < N /\ k \in T => k + 1 \in T
      <3> SUFFICES ASSUME NEW k \in 0 .. N, k < N, k \in T PROVE k + 1 \in T
        OBVIOUS
      <3>1. k + 1 \in 0 .. N /\ k + 1 \in 1 .. N /\ k + 1 # 0 /\ (k + 1) - 1 = k
        BY <1>1
      <3>2. c[k + 1] = c[k] + raw[Examine[k + 1]].docs
        BY <1>11, <3>1
      <3>3. f[k + 1] = f[k] + raw[Examine[k + 1]].docs
        BY <1>7, <3>1
      <3> QED
        BY <3>1, <3>2, <3>3
    <2> HIDE DEF T
    <2> QED
      BY <1>1, <2>1, <2>2, CountUp
  <1>13. j - 1 \in 0 .. N
    BY <1>1 DEF N
  <1>14. c[j - 1] = Len(FlattenSeq(SubSeq(EX, 1, j - 1)))
    BY <1>12, <1>13 DEF f
  <1>15. SubSeq(EX, 1, j - 1) = Mapped(R, SubSeq(Examine, 1, j - 1))
    <2>1. Into(R, Units, Seq(Nat))
      BY RecordedByAre DEF R
    <2> DEFINE m == j - 1
    <2>2. m \in 0 .. Len(Examine)
      BY <1>13 DEF N
    <2> HIDE DEF m
    <2>3. SubSeq(Mapped(R, Examine), 1, m) = Mapped(R, SubSeq(Examine, 1, m))
      BY <1>1, <2>1, <2>2, MappedPrefix
    <2> QED
      BY <2>3 DEF m, EX
  <1> QED
    BY <1>5, <1>6, <1>14, <1>15 DEF R

\* The units of the sources before the k-th record what is ahead of it.
LEMMA RowsAhead ==
  ASSUME NEW raw, Counted(raw), NEW k \in 1 .. Len(DedupOrder)
  PROVE  /\ FlattenSeq(SubSeq(Rows, 1, k - 1)) \in Seq(Units)
         /\ FlattenSeq(Mapped(RecordedBy(raw), FlattenSeq(SubSeq(Rows, 1, k - 1)))) = Ahead(raw, k)
  <1> DEFINE n == k - 1
             src == SubSeq(DedupOrder, 1, n)
             rows == [j \in 1 .. n |-> Row(src[j])]
             reads == [j \in 1 .. n |-> Read(raw, src[j])]
             us == FlattenSeq(rows)
             p == SubSeq(Rows, 1, n)
             q == SubSeq(Reads(raw), 1, n)
  <1>1. n \in Nat /\ n \in 0 .. Len(DedupOrder) /\ \A j \in 1 .. n : j \in 1 .. Len(DedupOrder)
    BY DedupOrderIs
  <1>2. /\ src \in Seq(Sources) /\ Len(src) = n /\ \A j \in 1 .. n : src[j] = DedupOrder[j]
    <2> HIDE DEF n
    <2> QED
      BY <1>1, DedupOrderIs, SequencePrefix
  <1>3. p \in Seq(Seq(Units)) /\ Len(p) = n /\ \A j \in 1 .. n : p[j] = Rows[j]
    <2> HIDE DEF n
    <2> QED
      BY <1>1, RowsAre, SequencePrefix
  <1>4. q \in Seq(Seq(Nat)) /\ Len(q) = n /\ \A j \in 1 .. n : q[j] = Reads(raw)[j]
    <2> HIDE DEF n
    <2> QED
      BY <1>1, ReadsAre, SequencePrefix
  <1> HIDE DEF src
  <1>5. /\ rows \in Seq(Seq(Units)) /\ reads \in Seq(Seq(Nat)) /\ us \in Seq(Units)
        /\ Len(rows) = n /\ Len(reads) = n
        /\ FlattenSeq([j \in 1 .. Len(us) |-> Recorded(raw[us[j]])]) = FlattenSeq(reads)
    <2> HIDE DEF n
    <2> QED
      BY <1>1, <1>2, RowsRecord, ZenonT(40)
  <1>6. rows = p
    <2>1. \A j \in 1 .. n : rows[j] = p[j]
      BY <1>1, <1>2, <1>3, RowsAre
    <2>2. rows = [j \in 1 .. n |-> rows[j]]
      OBVIOUS
    <2> HIDE DEF rows, p, n
    <2> QED
      BY <1>1, <1>3, <2>1, <2>2, SameList
  <1>7. reads = q
    <2>1. \A j \in 1 .. n : reads[j] = q[j]
      BY <1>1, <1>2, <1>4, ReadsAre
    <2>2. reads = [j \in 1 .. n |-> reads[j]]
      OBVIOUS
    <2> HIDE DEF reads, q, n
    <2> QED
      BY <1>1, <1>4, <2>1, <2>2, SameList
  <1>8. [j \in 1 .. Len(us) |-> Recorded(raw[us[j]])] = Mapped(RecordedBy(raw), us)
    <2> HIDE DEF us
    <2>1. \A j \in 1 .. Len(us) : us[j] \in Units
      BY <1>5, ElementOfSeq
    <2> QED
      BY <2>1, RecordedByAre DEF Mapped
  <1> HIDE DEF rows, reads, p, q
  <1> QED
    BY <1>5, <1>6, <1>7, <1>8 DEF Ahead, p, q

LEMMA OffsetIs ==
  ASSUME NEW raw, Counted(raw), NEW k \in 1 .. Len(DedupOrder), NEW i \in 1 .. Workers + 1
  PROVE  Offset(raw, <<DedupOrder[k], i - 1>>)
           = Len(Ahead(raw, k)) + Len(FlattenSeq(SubSeq(Records(raw, DedupOrder[k]), 1, i - 1)))
  <1> DEFINE s == DedupOrder[k]
             R == RecordedBy(raw)
             pre == FlattenSeq(SubSeq(Rows, 1, k - 1))
             m == i - 1
             part == SubSeq(Row(s), 1, m)
             j == Len(pre) + i
  <1>1. s \in Sources /\ Row(s) \in Seq(Units) /\ Len(Row(s)) = Workers + 1 /\ Row(s)[i] = <<s, i - 1>>
    <2>1. s \in Sources
      BY DedupOrderIs
    <2> QED
      BY <2>1, RowIs DEF Row
  <1>2. Into(R, Units, Seq(Nat)) /\ \A u \in Units : R[u] = Recorded(raw[u])
    BY RecordedByAre
  <1>3. pre \in Seq(Units) /\ Middle(Examine, pre, Row(s), i)
    <2> DEFINE ss == Rows
    <2>1. ss \in Seq(Seq(Units)) /\ k \in 1 .. Len(ss) /\ ss[k] = Row(s) /\ Examine = FlattenSeq(ss)
      BY RowsAre
    <2>2. i \in 1 .. Len(ss[k])
      BY <1>1, <2>1
    <2> HIDE DEF ss
    <2>3. /\ FlattenSeq(SubSeq(ss, 1, k - 1)) \in Seq(Units) /\ ss[k] \in Seq(Units)
          /\ Middle(FlattenSeq(ss), FlattenSeq(SubSeq(ss, 1, k - 1)), ss[k], i)
      BY <2>1, <2>2, FlattenAt
    <2> QED
      BY <2>1, <2>3 DEF ss
  <1>4. FlattenSeq(Mapped(R, pre)) = Ahead(raw, k)
    BY RowsAhead
  <1> HIDE DEF pre, R
  <1>5. j \in 1 .. Len(Examine) /\ Examine[j] = <<s, i - 1>> /\ SubSeq(Examine, 1, j - 1) = pre \o part
    BY <1>1, <1>3 DEF Middle
  <1> HIDE DEF j
  <1>6. Offset(raw, <<s, i - 1>>) = Len(FlattenSeq(Mapped(R, pre \o part)))
    BY <1>5, OffsetCounts DEF R
  <1>7. m \in 0 .. Len(Row(s)) /\ m \in 0 .. Workers + 1
    BY <1>1, WorkersNat
  <1>8. part \in Seq(Units)
    <2> HIDE DEF m
    <2> QED
      BY <1>1, <1>7, SequencePrefix
  <1>9. Mapped(R, part) = SubSeq(Records(raw, s), 1, m)
    <2>1. Mapped(R, Row(s)) = Records(raw, s)
      <3>1. \A x \in 1 .. Workers + 1 : Row(s)[x] = <<s, x - 1>> /\ <<s, x - 1>> \in Units
        BY <1>1, UnitOf DEF Row
      <3> QED
        BY <1>1, <1>2, <3>1 DEF Mapped, Records
    <2> HIDE DEF m
    <2>2. SubSeq(Mapped(R, Row(s)), 1, m) = Mapped(R, SubSeq(Row(s), 1, m))
      BY <1>1, <1>2, <1>7, MappedPrefix, SMTT(30)
    <2> QED
      BY <2>1, <2>2
  <1> HIDE DEF part
  <1>10. Mapped(R, pre \o part) = Mapped(R, pre) \o Mapped(R, part)
    BY <1>2, <1>3, <1>8, MappedConcat
  <1> DEFINE x == Mapped(R, pre)
             y == Mapped(R, part)
  <1>11. x \in Seq(Seq(Nat)) /\ y \in Seq(Seq(Nat))
    BY <1>2, <1>3, <1>8, MappedIsSeq
  <1> HIDE DEF x, y
  <1>12. FlattenSeq(x \o y) = FlattenSeq(x) \o FlattenSeq(y)
    BY <1>11, FlattenConcat
  <1> DEFINE fx == FlattenSeq(x)
             fy == FlattenSeq(y)
  <1>13. fx \in Seq(Nat) /\ fy \in Seq(Nat)
    BY <1>11, FlattenIsSeq
  <1> HIDE DEF fx, fy
  <1>14. Len(fx \o fy) = Len(fx) + Len(fy)
    BY <1>13, ConcatProperties
  <1> QED
    BY <1>4, <1>6, <1>9, <1>10, <1>12, <1>14 DEF fx, fy, x, y

\* Deduplicating a source in two passes keeps what one pass keeps, whatever
\* the spools hold (dedup_parallel.py, "byte-identical output to dedup.py").
THEOREM TwoPass ==
  ASSUME NEW raw, Counted(raw), NEW s \in Sources
  PROVE  FlattenSeq([i \in 1 .. Workers + 1 |-> Survivors(raw, <<s, i - 1>>)]) = Kept(raw, s)
  <1> DEFINE ss == Records(raw, s)
             m == Firsts(raw, s)
             mm == [i \in 1 .. Workers + 1 |->
                      [x \in DOMAIN Recorded(raw[<<s, i - 1>>]) |->
                         KeepMask(raw)[Offset(raw, <<s, i - 1>>) + x]]]
  <1>1. PICK k \in 1 .. Len(DedupOrder) : DedupOrder[k] = s
    BY DedupOrderIs
  <1>2. ss \in Seq(Seq(Nat)) /\ Len(ss) = Workers + 1 /\ Read(raw, s) = FlattenSeq(ss)
    BY RecordsAreSeq
  <1>3. \A i \in 1 .. Workers + 1 : ss[i] = Recorded(raw[<<s, i - 1>>])
    BY DEF Records
  <1>4. Kept(raw, s) = Masked(FlattenSeq(ss), m)
    BY <1>2 DEF Kept, Firsts
  <1>5. \A i \in 1 .. Workers + 1 : Survivors(raw, <<s, i - 1>>) = Masked(ss[i], mm[i])
    BY <1>3 DEF Survivors
  <1> HIDE DEF ss, m
  <1>6. \A i \in 1 .. Len(ss) : Agree(m, Len(FlattenSeq(SubSeq(ss, 1, i - 1))), mm[i], Len(ss[i]))
    <2> SUFFICES ASSUME NEW i \in 1 .. Workers + 1, NEW x \in 1 .. Len(ss[i])
                 PROVE  m[Len(FlattenSeq(SubSeq(ss, 1, i - 1))) + x] = mm[i][x]
      BY <1>2 DEF Agree
    <2> DEFINE a == FlattenSeq(SubSeq(ss, 1, i - 1))
               off == Offset(raw, <<s, i - 1>>)
    <2>1. /\ FlattenSeq(SubSeq(ss, 1, i - 1)) \in Seq(Nat) /\ ss[i] \in Seq(Nat)
          /\ Middle(FlattenSeq(ss), FlattenSeq(SubSeq(ss, 1, i - 1)), ss[i], x)
      BY <1>2, FlattenAt
    <2>2. x \in DOMAIN Recorded(raw[<<s, i - 1>>])
      BY <1>3, <2>1, LenProperties
    <2>3. mm[i][x] = KeepMask(raw)[off + x]
      BY <2>2
    <2>4. off = Len(Ahead(raw, k)) + Len(a)
      BY <1>1, OffsetIs DEF ss
    <2>5. Len(a) + x \in 1 .. Len(Read(raw, s)) /\ Len(a) \in Nat
      BY <1>2, <2>1, LenProperties DEF Middle
    <2>6. Len(Ahead(raw, k)) \in Nat
      BY AheadIs, LenProperties
    <2> HIDE DEF a, off, mm
    <2> DEFINE p == Len(a) + x
    <2>7. p \in 1 .. Len(Read(raw, DedupOrder[k]))
      BY <1>1, <2>5
    <2> HIDE DEF p
    <2>8. KeepMask(raw)[Len(Ahead(raw, k)) + p] = Firsts(raw, DedupOrder[k])[p]
      BY <2>7, SliceIs
    <2>9. Len(Ahead(raw, k)) + p = off + x
      BY <2>4, <2>5, <2>6 DEF p
    <2>10. m[p] = mm[i][x]
      BY <1>1, <2>3, <2>8, <2>9 DEF m
    <2> QED
      BY <2>10 DEF p, a
  <1> HIDE DEF mm
  <1>7. Masked(FlattenSeq(ss), m) = FlattenSeq([i \in 1 .. Len(ss) |-> Masked(ss[i], mm[i])])
    BY <1>2, <1>6, MaskedFlatten
  <1>8. [i \in 1 .. Len(ss) |-> Masked(ss[i], mm[i])]
          = [i \in 1 .. Workers + 1 |-> Survivors(raw, <<s, i - 1>>)]
    BY <1>2, <1>5
  <1> QED
    BY <1>4, <1>7, <1>8

LEMMA MaskedNothing ==
  ASSUME NEW mask
  PROVE  Masked(<<>>, mask) = <<>>
  <1>1. PICK f \in [0 .. Len(<<>>) -> Seq(Nat)] : Masks(f, <<>>, mask) /\ f[Len(<<>>)] = Masked(<<>>, mask)
    <2>1. <<>> \in Seq(Nat)
      OBVIOUS
    <2> QED
      BY <2>1, MaskedSteps
  <1>2. Len(<<>>) = 0
    OBVIOUS
  <1> QED
    BY <1>1, <1>2 DEF Masks

LEMMA NothingRecorded ==
  ASSUME NEW sp \in Spool, sp.parts = 0
  PROVE  Recorded(sp) = <<>>
  <1>1. SubSeq(sp.files, 1, 0) = <<>>
    BY SubSeqEmpty
  <1> QED
    BY <1>1, FlattenOfNothing DEF Recorded

LEMMA NewSpoolIs == NewSpool \in Spool /\ Counts(NewSpool) /\ Recorded(NewSpool) = <<>>
  <1>1. NewSpool \in Spool /\ NewSpool.parts = 0 /\ NewSpool.files = <<>> /\ NewSpool.docs = 0
    BY DEF NewSpool, Spool
  <1>2. Recorded(NewSpool) = <<>>
    BY <1>1, NothingRecorded
  <1>3. Len(<<>>) = 0
    OBVIOUS
  <1> QED
    BY <1>1, <1>2, <1>3 DEF Counts

LEMMA FlattenFirst ==
  ASSUME NEW S, NEW n \in Nat, NEW x \in Seq(S), NEW f, f = [i \in 1 .. n + 1 |-> f[i]],
         f[1] = x, \A i \in 2 .. n + 1 : f[i] = <<>>
  PROVE  FlattenSeq(f) = x
  <1> DEFINE N == n + 1
  <1>1. N \in Nat /\ \A i \in 1 .. N : i = 1 \/ i \in 2 .. N
    OBVIOUS
  <1>2. \A i \in 1 .. N : f[i] \in Seq(S)
    <2>1. <<>> \in Seq(S) /\ f[1] \in Seq(S)
      OBVIOUS
    <2>2. \A i \in 2 .. N : f[i] \in Seq(S)
      BY <2>1
    <2> QED
      BY <1>1, <2>1, <2>2
  <1> HIDE DEF N
  <1>3. f = [i \in 1 .. N |-> f[i]]
    BY DEF N
  <1>4. f \in Seq(Seq(S)) /\ Len(f) = N
    BY <1>1, <1>2, <1>3, ListIsSeq
  <1>5. PICK g \in [0 .. Len(f) -> Seq(S)] :
           /\ g[0] = <<>> /\ g[Len(f)] = FlattenSeq(f)
           /\ \A i \in 1 .. Len(f) : g[i] = g[i - 1] \o f[i]
    BY <1>4, FlattenSteps
  <1>6. g[1] = x
    <2>1. 1 \in 1 .. Len(f) /\ 1 - 1 = 0
      BY <1>4 DEF N
    <2>2. <<>> \o x = x
      BY ConcatEmptySeq
    <2> QED
      BY <1>5, <2>1, <2>2
  <1> DEFINE T == {i \in 0 .. N : i = 0 \/ g[i] = x}
  <1>7. 0 \in T
    BY <1>1
  <1>8. \A i \in 0 .. N : i < N => i + 1 \in 0 .. N /\ i + 1 \in 1 .. N /\ (i + 1) - 1 = i
    BY ONLY <1>1
  <1>9. \A i \in 0 .. N : i < N /\ i \in T => i + 1 \in T
    <2> SUFFICES ASSUME NEW i \in 0 .. N, i < N, i \in T PROVE i + 1 \in T
      OBVIOUS
    <2>1. i + 1 \in 0 .. N /\ i + 1 \in 1 .. N /\ (i + 1) - 1 = i
      BY <1>8
    <2>2. CASE i = 0
      BY <1>6, <2>1, <2>2
    <2>3. CASE i # 0
      <3>1. g[i] = x /\ i + 1 \in 2 .. N
        BY <1>1, <2>1, <2>3
      <3>2. f[i + 1] = <<>>
        BY <3>1 DEF N
      <3>3. x \o <<>> = x
        BY ConcatEmptySeq
      <3>4. g[i + 1] = g[i] \o f[i + 1]
        BY <1>4, <1>5, <2>1
      <3>5. g[i + 1] = x
        BY <3>1, <3>2, <3>3, <3>4
      <3> QED
        BY <2>1, <3>5
    <2> QED
      BY <2>2, <2>3
  <1>10. N \in T
    <2> HIDE DEF T
    <2>1. \A i \in 0 .. N : i \in T
      BY <1>1, <1>7, <1>9, CountUp
    <2> QED
      BY <1>1, <2>1
  <1>11. N # 0
    BY DEF N
  <1> QED
    BY <1>4, <1>5, <1>10, <1>11

LEMMA GroupedIs ==
  ASSUME NEW sp \in Spool, Counts(sp), NEW n \in Nat \ {0}
  PROVE  Grouped(sp, n) \in Seq(Seq(Nat)) /\ FlattenSeq(Grouped(sp, n)) = Recorded(sp)
  <1> DEFINE files == SubSeq(sp.files, 1, sp.parts)
             groups == Chunks(files, n)
  <1>1. files \in Seq(Seq(Nat)) /\ Recorded(sp) = FlattenSeq(files)
    BY RecordedIsSeq DEF Recorded
  <1>2. Grouped(sp, n) = [j \in DOMAIN groups |-> FlattenSeq(groups[j])]
    BY DEF Grouped
  <1> HIDE DEF files
  <1>3. groups \in Seq(Seq(Seq(Nat))) /\ FlattenSeq(groups) = files
    BY <1>1, ChunksFlatten
  <1> HIDE DEF groups
  <1>4. Len(groups) \in Nat /\ DOMAIN groups = 1 .. Len(groups)
    BY <1>3, LenProperties
  <1>5. FlattenSeq(FlattenSeq(groups)) = FlattenSeq([j \in 1 .. Len(groups) |-> FlattenSeq(groups[j])])
    BY <1>3, FlattenFlatten
  <1> DEFINE g == [j \in 1 .. Len(groups) |-> FlattenSeq(groups[j])]
  <1>6. g = [j \in 1 .. Len(groups) |-> g[j]] /\ \A j \in 1 .. Len(groups) : g[j] \in Seq(Nat)
    BY <1>3, ElementOfSeq, FlattenIsSeq
  <1> HIDE DEF g
  <1>7. g \in Seq(Seq(Nat))
    BY <1>4, <1>6, ListIsSeq
  <1> QED
    BY <1>1, <1>2, <1>3, <1>4, <1>5, <1>7 DEF g

\* The chunks of part groups, in order, are the documents of the source
\* (tokenize_parallel, whose chunk files sort into the sequential stream).
THEOREM GroupsAre ==
  ASSUME NEW spools, Counted(spools), NEW s \in Sources, NEW n \in Nat \ {0}
  PROVE  Groups(spools, s, n) \in Seq(Seq(Nat)) /\ FlattenSeq(Groups(spools, s, n)) = Read(spools, s)
  <1> DEFINE g == [i \in 1 .. Workers + 1 |-> Grouped(spools[<<s, i - 1>>], n)]
  <1>1. \A i \in 1 .. Workers + 1 :
           g[i] \in Seq(Seq(Nat)) /\ FlattenSeq(g[i]) = Recorded(spools[<<s, i - 1>>])
    <2> TAKE i \in 1 .. Workers + 1
    <2>1. spools[<<s, i - 1>>] \in Spool /\ Counts(spools[<<s, i - 1>>])
      BY UnitOf DEF Counted
    <2> QED
      BY <2>1, GroupedIs
  <1>2. g = [i \in 1 .. Workers + 1 |-> g[i]] /\ Workers + 1 \in Nat
    BY WorkersNat
  <1>3. Groups(spools, s, n) = FlattenSeq(g)
    BY DEF Groups
  <1> HIDE DEF g
  <1>4. g \in Seq(Seq(Seq(Nat))) /\ Len(g) = Workers + 1
    BY <1>1, <1>2, ListIsSeq
  <1>5. FlattenSeq(g) \in Seq(Seq(Nat)) /\ FlattenSeq(FlattenSeq(g)) = FlattenSeq([i \in 1 .. Len(g) |-> FlattenSeq(g[i])])
    BY <1>4, FlattenIsSeq, FlattenFlatten
  <1>6. [i \in 1 .. Len(g) |-> FlattenSeq(g[i])] = Records(spools, s)
    BY <1>1, <1>4 DEF Records
  <1> QED
    BY <1>3, <1>5, <1>6, RecordsAreSeq

-----------------------------------------------------------------------------
(***************************************************************************)
(* What the steps of a writer do to its spool.                             *)
(***************************************************************************)

LEMMA MaxOfTwo ==
  ASSUME NEW a \in Int, NEW b \in Int
  PROVE  Max({a, b}) \in {a, b} /\ Max({a, b}) >= a /\ Max({a, b}) >= b
  <1> DEFINE P(x) == x \in {a, b} /\ \A y \in {a, b} : x >= y
  <1>1. \E x : P(x)
    <2>1. CASE a >= b
      <3>1. P(a)
        BY <2>1
      <3> QED
        BY <3>1
    <2>2. CASE ~(a >= b)
      <3>1. P(b)
        BY <2>2
      <3> QED
        BY <3>1
    <2> QED
      BY <2>1, <2>2
  <1>2. Max({a, b}) = CHOOSE x : P(x)
    BY DEF Max
  <1>3. P(CHOOSE x : P(x))
    <2> HIDE DEF P
    <2> QED
      BY <1>1
  <1> QED
    BY <1>2, <1>3

LEMMA MinOfThree ==
  ASSUME NEW a \in Int, NEW b \in Int, NEW c \in Int
  PROVE  /\ Min({a, b, c}) \in {a, b, c}
         /\ Min({a, b, c}) <= a /\ Min({a, b, c}) <= b /\ Min({a, b, c}) <= c
  <1> DEFINE P(x) == x \in {a, b, c} /\ \A y \in {a, b, c} : x <= y
  <1>1. \E x : P(x)
    <2>1. CASE a <= b /\ a <= c
      <3>1. P(a)
        BY <2>1
      <3> QED
        BY <3>1
    <2>2. CASE b <= a /\ b <= c
      <3>1. P(b)
        BY <2>2
      <3> QED
        BY <3>1
    <2>3. CASE c <= a /\ c <= b
      <3>1. P(c)
        BY <2>3
      <3> QED
        BY <3>1
    <2> QED
      BY <2>1, <2>2, <2>3
  <1>2. Min({a, b, c}) = CHOOSE x : P(x)
    BY DEF Min
  <1>3. P(CHOOSE x : P(x))
    <2> HIDE DEF P
    <2> QED
      BY <1>1
  <1> QED
    BY <1>2, <1>3

LEMMA MaxOfRange ==
  ASSUME NEW n \in Nat \ {0}
  PROVE  Max(1 .. n) = n
  <1>1. n \in 1 .. n /\ \A y \in 1 .. n : n >= y
    OBVIOUS
  <1>2. \A x \in 1 .. n : (\A y \in 1 .. n : x >= y) => x = n
    OBVIOUS
  <1> QED
    BY <1>1, <1>2 DEF Max

\* The spool sp with another part file behind the recorded ones.
Written(sp, part) == [sp EXCEPT !.files = Append(SubSeq(sp.files, 1, sp.parts), part)]

\* The spool sp with its last file recorded.
Noted(sp) == [sp EXCEPT !.docs = @ + Len(Last(sp.files)), !.parts = @ + 1]

LEMMA WrittenIs ==
  ASSUME NEW sp \in Spool, Counts(sp), NEW part \in Seq(Nat)
  PROVE  LET w == Written(sp, part)
         IN /\ w \in Spool /\ Counts(w) /\ Recorded(w) = Recorded(sp)
            /\ w.docs = sp.docs /\ w.parts = sp.parts /\ w.complete = sp.complete
            /\ Len(w.files) = w.parts + 1 /\ Last(w.files) = part
  <1> DEFINE w == Written(sp, part)
             p == SubSeq(sp.files, 1, sp.parts)
             n == sp.parts
  <1>1. p \in Seq(Seq(Nat)) /\ Len(p) = n /\ n \in Nat
    BY RecordedIsSeq DEF Spool
  <1>2. w.docs = sp.docs /\ w.parts = sp.parts /\ w.complete = sp.complete /\ w.files = Append(p, part)
    BY DEF Written, Spool
  <1>3. w \in Spool
    <2>1. Append(p, part) \in Seq(Seq(Nat))
      BY <1>1
    <2> HIDE DEF p
    <2> QED
      BY <2>1 DEF Written, Spool, p
  <1> DEFINE q == Append(p, part)
  <1> HIDE DEF p, n
  <1>4. q \in Seq(Seq(Nat)) /\ Len(q) = n + 1 /\ q[n + 1] = part /\ \A i \in 1 .. n : q[i] = p[i]
    BY <1>1, AppendProperties
  <1> HIDE DEF q
  <1>5. SubSeq(q, 1, n) = p
    <2>1. n \in 0 .. Len(q)
      BY <1>1, <1>4
    <2>2. SubSeq(q, 1, n) \in Seq(Seq(Nat)) /\ Len(SubSeq(q, 1, n)) = n /\ \A i \in 1 .. n : SubSeq(q, 1, n)[i] = q[i]
      BY <1>4, <2>1, SequencePrefix
    <2> DEFINE r == SubSeq(q, 1, n)
    <2> HIDE DEF r
    <2>3. r \in Seq(Seq(Nat)) /\ Len(r) = Len(p) /\ \A i \in 1 .. Len(r) : r[i] = p[i]
      BY <1>1, <1>4, <2>2 DEF r
    <2>4. r = p
      BY <1>1, <2>3, SeqEqual
    <2> QED
      BY <2>4 DEF r
  <1>6. w.files = q /\ w.parts = n
    BY <1>2 DEF q, n
  <1> HIDE DEF w
  <1>7. Recorded(w) = Recorded(sp)
    BY <1>5, <1>6 DEF Recorded, p, n
  <1>8. Counts(w)
    BY <1>1, <1>2, <1>4, <1>6, <1>7 DEF Counts
  <1>9. Len(w.files) = w.parts + 1 /\ Last(w.files) = part
    BY <1>4, <1>6 DEF Last
  <1> QED
    BY <1>2, <1>3, <1>7, <1>8, <1>9 DEF w

LEMMA NotedIs ==
  ASSUME NEW sp \in Spool, Counts(sp), Len(sp.files) = sp.parts + 1
  PROVE  LET w == Noted(sp)
         IN /\ w \in Spool /\ Counts(w) /\ Last(sp.files) \in Seq(Nat)
            /\ Recorded(w) = Recorded(sp) \o Last(sp.files)
            /\ w.docs = sp.docs + Len(Last(sp.files)) /\ w.parts = sp.parts + 1 /\ w.complete = sp.complete
  <1> DEFINE w == Noted(sp)
             f == sp.files
             n == sp.parts
  <1>1. f \in Seq(Seq(Nat)) /\ n \in Nat /\ Len(f) = n + 1 /\ sp.docs \in Nat
    BY DEF Spool
  <1>2. n + 1 \in 1 .. Len(f) /\ (n + 1) - 1 = n
    BY <1>1
  <1> HIDE DEF f
  <1>3. f[n + 1] \in Seq(Nat) /\ Last(f) = f[n + 1]
    BY <1>1, <1>2, ElementOfSeq DEF Last
  <1>4. Len(Last(f)) \in Nat
    BY <1>3, LenProperties
  <1>5. /\ w.docs = sp.docs + Len(Last(f)) /\ w.parts = n + 1 /\ w.complete = sp.complete /\ w.files = f
        /\ w \in Spool
    <2>1. f = sp.files
      BY DEF f
    <2> DEFINE d == Len(Last(f))
    <2>2. d \in Nat /\ w = [sp EXCEPT !.docs = @ + d, !.parts = @ + 1]
      BY <1>4, <2>1 DEF Noted
    <2> HIDE DEF d, w
    <2>3. sp \in [files : Seq(Seq(Nat)), docs : Nat, parts : Nat, complete : BOOLEAN]
      BY DEF Spool
    <2>4. /\ w.docs = sp.docs + d /\ w.parts = n + 1 /\ w.complete = sp.complete /\ w.files = sp.files
          /\ w \in Spool
      <3>1. w = [files |-> sp.files, docs |-> sp.docs + d, parts |-> sp.parts + 1, complete |-> sp.complete]
        BY ONLY <2>2, <2>3
      <3>2. sp.docs + d \in Nat /\ sp.parts + 1 \in Nat
        BY <2>2, <2>3
      <3> QED
        BY ONLY <2>3, <3>1, <3>2 DEF Spool
    <2> QED
      BY <2>1, <2>4 DEF d
  <1> HIDE DEF w
  <1> DEFINE k == n + 1
  <1>6. FlattenSeq(SubSeq(f, 1, k)) = FlattenSeq(SubSeq(f, 1, k - 1)) \o f[k]
    <2> HIDE DEF n, k
    <2>1. k \in 1 .. Len(f)
      BY <1>2 DEF k
    <2> QED
      BY <1>1, <2>1, FlattenPrefix
  <1>7. Recorded(w) = Recorded(sp) \o Last(f)
    BY <1>2, <1>3, <1>5, <1>6 DEF Recorded, f
  <1>8. Recorded(sp) \in Seq(Nat) /\ Len(Recorded(sp)) = sp.docs
    BY RecordedIsSeq
  <1>9. Len(Recorded(sp) \o Last(f)) = Len(Recorded(sp)) + Len(Last(f))
    <2> DEFINE x == Recorded(sp)
               y == Last(f)
    <2>1. x \in Seq(Nat) /\ y \in Seq(Nat)
      BY <1>3, <1>8
    <2> HIDE DEF x, y
    <2>2. Len(x \o y) = Len(x) + Len(y)
      BY <2>1, ConcatProperties
    <2> QED
      BY <2>2 DEF x, y
  <1>10. Counts(w)
    BY <1>1, <1>5, <1>7, <1>8, <1>9 DEF Counts
  <1> QED
    BY <1>1, <1>3, <1>5, <1>7, <1>10 DEF w, f

LEMMA CompletedIs ==
  ASSUME NEW sp \in Spool, Counts(sp)
  PROVE  LET w == [sp EXCEPT !.complete = TRUE]
         IN /\ w \in Spool /\ Counts(w) /\ Recorded(w) = Recorded(sp) /\ w.docs = sp.docs
            /\ w.parts = sp.parts /\ w.files = sp.files /\ w.complete
  BY DEF Spool, Counts, Recorded

\* The part after done documents of at most n, up to a limit.
Part(in, done, lim) == SubSeq(in, done + 1, Min({Len(in), done + PartDocs, lim}))

LEMMA PartIs ==
  ASSUME NEW in \in Seq(Nat), NEW done \in Nat, NEW lim \in Nat
  PROVE  /\ Part(in, done, lim) \in Seq(Nat)
         /\ Part(in, done, lim) = <<>> => Len(in) <= done \/ lim <= done
         /\ Part(in, done, lim) # <<>> =>
              /\ done + Len(Part(in, done, lim)) <= Len(in)
              /\ Part(in, done, lim) = SubSeq(in, done + 1, done + Len(Part(in, done, lim)))
  <1> DEFINE hi == Min({Len(in), done + PartDocs, lim})
             p == SubSeq(in, done + 1, hi)
  <1>1. Len(in) \in Nat /\ PartDocs \in Nat \ {0}
    BY LenProperties, DataPrepAssumption
  <1>2. hi \in {Len(in), done + PartDocs, lim} /\ hi <= Len(in) /\ hi <= done + PartDocs /\ hi <= lim /\ hi \in Nat
    <2> DEFINE a == Len(in)
               b == done + PartDocs
    <2>1. a \in Int /\ b \in Int /\ lim \in Int /\ a \in Nat /\ b \in Nat
      BY <1>1
    <2> HIDE DEF a, b
    <2>2. /\ Min({a, b, lim}) \in {a, b, lim}
          /\ Min({a, b, lim}) <= a /\ Min({a, b, lim}) <= b /\ Min({a, b, lim}) <= lim
      BY <2>1, MinOfThree
    <2> QED
      BY <2>1, <2>2 DEF a, b
  <1> HIDE DEF hi
  <1>3. \A i \in done + 1 .. hi : in[i] \in Nat
    <2>1. \A i \in done + 1 .. hi : i \in 1 .. Len(in)
      BY <1>1, <1>2
    <2> QED
      BY <2>1, ElementOfSeq
  <1> DEFINE lo == done + 1
  <1>4. lo \in Int /\ hi \in Int /\ lo \in Nat
    BY <1>2
  <1>5. p \in Seq(Nat) /\ Len(p) = IF lo <= hi THEN hi - lo + 1 ELSE 0
    <2> HIDE DEF lo
    <2>1. \A i \in lo .. hi : in[i] \in Nat
      BY <1>3 DEF lo
    <2>2. SubSeq(in, lo, hi) \in Seq(Nat) /\ Len(SubSeq(in, lo, hi)) = IF lo <= hi THEN hi - lo + 1 ELSE 0
      BY <1>4, <2>1, SubSeqProperties
    <2> QED
      BY <2>2 DEF lo
  <1> HIDE DEF p
  <1>6. CASE lo <= hi
    <2>1. Len(p) = hi - done /\ Len(p) # 0
      BY <1>2, <1>5, <1>6
    <2>2. p # <<>> /\ done + Len(p) = hi
      BY <1>2, <2>1
    <2> QED
      BY <1>2, <1>5, <2>2 DEF Part, p, hi
  <1>7. CASE ~(lo <= hi)
    <2>1. Len(p) = 0
      BY <1>5, <1>7
    <2>2. p = <<>>
      BY <1>5, <2>1, EmptySeq
    <2>3. Len(in) <= done \/ lim <= done
      BY <1>1, <1>2, <1>7
    <2> QED
      BY <1>5, <2>2, <2>3 DEF Part, p, hi
  <1> QED
    BY <1>6, <1>7

-----------------------------------------------------------------------------
(***************************************************************************)
(* The shape of the spools and of the tasks.                               *)
(***************************************************************************)

\* The shape of the state, each spool in count.
PrepShape ==
    /\ up \in BOOLEAN /\ stage \in Range(Stages) /\ faults \in 0 .. MaxFaults
    /\ flags \in [dl : Splits, discard : BOOLEAN, dd : BOOLEAN, tok : Nat]
    /\ split \in [Sources -> Splits]
    /\ spool \in [Roots -> [Units -> Spool]] /\ \A r \in Roots, u \in Units : Counts(spool[r][u])
    /\ DOMAIN tokens \subseteq Sources \X Nat
    /\ at \in Nat /\ (at # 0 => up /\ stage \in {"shard", "manifest"})

\* The commands with concurrent tasks.
Concurrent == {"download", "dedup", "tokenize", "upload"}

\* The tasks of the command that runs.
JobDomain == CASE stage \in {"download", "dedup"} -> Spooling
               [] stage = "tokenize" -> Tasks
               [] stage = "upload" -> Objects
               [] OTHER -> {}

\* The spools of a source are prepared together.
Together ==
    stage \in {"download", "dedup"} =>
        \A u, v \in DOMAIN job : u[1] = v[1] /\ job[u] = "off" => job[v] = "off"

\* And a part that is written and not recorded is the next of its input.
Jobs ==
    /\ ~up \/ stage \notin Concurrent => job = <<>>
    /\ (up => DOMAIN job = JobDomain) /\ Together
    /\ \A u \in DOMAIN job : job[u] = "record" =>
         /\ stage \in {"download", "dedup"}
         /\ Len(spool[Root][u].files) = spool[Root][u].parts + 1
         /\ Last(spool[Root][u].files) = NextPart(u)

SpoolInv == PrepShape /\ Jobs

LEMMA StagesAre ==
  /\ Range(Stages) = {"download", "dedup", "tokenize", "shard", "manifest", "verify", "upload", "published"}
  /\ DOMAIN Stages = 1 .. 8
  <1>1. DOMAIN Stages = 1 .. 8
    BY DEF Stages
  <1>2. 1 .. 8 = {1, 2, 3, 4, 5, 6, 7, 8}
    OBVIOUS
  <1>3. Range(Stages) = {Stages[i] : i \in {1, 2, 3, 4, 5, 6, 7, 8}}
    BY <1>1, <1>2 DEF Range
  <1>4. /\ Stages[1] = "download" /\ Stages[2] = "dedup" /\ Stages[3] = "tokenize" /\ Stages[4] = "shard"
        /\ Stages[5] = "manifest" /\ Stages[6] = "verify" /\ Stages[7] = "upload" /\ Stages[8] = "published"
    BY DEF Stages
  <1> QED
    BY <1>1, <1>3, <1>4

LEMMA NextStages ==
  /\ stage = "download" => NextStage = "dedup"
  /\ stage = "dedup" => NextStage = "tokenize"
  /\ stage = "tokenize" => NextStage = "shard"
  /\ stage = "shard" => NextStage = "manifest"
  /\ stage = "manifest" => NextStage = "verify"
  /\ stage = "verify" => NextStage = "upload"
  /\ stage = "upload" => NextStage = "published"
  <1>1. DOMAIN Stages = {1, 2, 3, 4, 5, 6, 7, 8}
    BY StagesAre
  <1>2. /\ Stages[1] = "download" /\ Stages[2] = "dedup" /\ Stages[3] = "tokenize" /\ Stages[4] = "shard"
        /\ Stages[5] = "manifest" /\ Stages[6] = "verify" /\ Stages[7] = "upload" /\ Stages[8] = "published"
    BY DEF Stages
  <1>3. ASSUME NEW k \in 1 .. 7, stage = Stages[k] PROVE NextStage = Stages[k + 1]
    <2>1. k \in DOMAIN Stages /\ \A j \in DOMAIN Stages : Stages[j] = Stages[k] => j = k
      <3>1. k \in {1, 2, 3, 4, 5, 6, 7}
        OBVIOUS
      <3> QED
        BY <1>1, <1>2, <3>1
    <2>2. (CHOOSE j \in DOMAIN Stages : Stages[j] = stage) = k
      BY <1>3, <2>1
    <2> QED
      BY <2>2 DEF NextStage
  <1>4. \A k \in 1 .. 7 : stage = Stages[k] => NextStage = Stages[k + 1]
    BY <1>3
  <1>5. /\ 1 \in 1 .. 7 /\ 2 \in 1 .. 7 /\ 3 \in 1 .. 7 /\ 4 \in 1 .. 7 /\ 5 \in 1 .. 7 /\ 6 \in 1 .. 7 /\ 7 \in 1 .. 7
        /\ 1 + 1 = 2 /\ 2 + 1 = 3 /\ 3 + 1 = 4 /\ 4 + 1 = 5 /\ 5 + 1 = 6 /\ 6 + 1 = 7 /\ 7 + 1 = 8
    OBVIOUS
  <1> HIDE DEF Stages
  <1> QED
    BY <1>2, <1>4, <1>5

LEMMA NextStageIsStage ==
  ASSUME stage \in Range(Stages), stage # "published"
  PROVE  NextStage \in Range(Stages)
  BY NextStages, StagesAre

LEMMA OrderIs ==
  /\ Order \in Seq(Sources) /\ DOMAIN Order = 1 .. Len(Order) /\ Len(Order) \in Nat
  /\ \A k \in DOMAIN Order : Order[k] \in Sources
  BY DataPrepAssumption, LenProperties, ElementOfSeq

LEMMA SpoolingUnits ==
  ASSUME PrepShape, stage \in {"download", "dedup"}
  PROVE  Spooling \subseteq Units
  <1>1. Workers \in Nat /\ flags.dl \in Splits /\ flags.dd \in BOOLEAN
    BY WorkersNat DEF PrepShape
  <1>2. 0 \in 0 .. Workers /\ (flags.dl # 0 => 1 .. flags.dl \subseteq 0 .. Workers)
    BY <1>1 DEF Splits
  <1>3. CASE stage = "download"
    BY <1>2, <1>3 DEF Spooling, Units
  <1>4. CASE stage = "dedup"
    BY <1>1, <1>2, <1>4 DEF Spooling, Units
  <1> QED
    BY <1>3, <1>4

LEMMA RootIs ==
  ASSUME stage \in {"download", "dedup"}
  PROVE  Root \in Roots /\ (stage = "download" => Root = "raw") /\ (stage = "dedup" => Root = "dedup")
  BY DEF Root, Roots

LEMMA RootsAre == Roots = {"raw", "dedup"}
  BY DEF Roots

LEMMA BothCounted ==
  ASSUME PrepShape
  PROVE  Counted(spool["raw"]) /\ Counted(spool["dedup"])
  BY DEF PrepShape, Counted, Roots

LEMMA InputIs ==
  ASSUME PrepShape, stage \in {"download", "dedup"}, NEW u \in Spooling
  PROVE  Input(u) \in Seq(Nat) /\ Limit(u) \in Nat
  <1>1. u \in Units /\ u[1] \in Sources /\ Counted(spool["raw"])
    BY SpoolingUnits, BothCounted DEF Units
  <1>2. flags.dl \in Splits /\ flags.dd \in BOOLEAN /\ Stream[u[1]] \in Seq(Nat) /\ Budget[u[1]] \in Nat \ {0}
    BY <1>1, DataPrepAssumption DEF PrepShape
  <1>3. flags.dl \in Nat
    BY <1>2, WorkersNat DEF Splits
  <1>4. CASE stage = "download" /\ flags.dl = 0
    BY <1>2, <1>4 DEF Input, Limit
  <1>5. CASE stage = "download" /\ flags.dl # 0
    <2>1. u[2] \in 1 .. flags.dl
      BY <1>5 DEF Spooling
    <2>2. Nth(Stream[u[1]], u[2], flags.dl) \in Seq(Nat)
      BY <1>2, <1>3, <1>5, <2>1, NthIsSeq
    <2> DEFINE q == Budget[u[1]] \div flags.dl
    <2>3. q \in Int /\ 1 \in Int
      BY <1>2, <1>3, <1>5
    <2> HIDE DEF q
    <2>4. Max({1, q}) \in {1, q} /\ Max({1, q}) >= 1
      BY <2>3, MaxOfTwo
    <2>5. Max({1, q}) \in Nat
      BY <2>3, <2>4
    <2>6. Input(u) = Nth(Stream[u[1]], u[2], flags.dl)
      BY <1>3, <1>5 DEF Input
    <2>7. Limit(u) = Max({1, q})
      BY <1>3, <1>5 DEF Limit, q
    <2> QED
      BY <2>2, <2>5, <2>6, <2>7
  <1>6. CASE stage = "dedup"
    <2>1. Kept(spool["raw"], u[1]) \in Seq(Nat) /\ Survivors(spool["raw"], u) \in Seq(Nat)
      BY <1>1, KeptIsSeq, SurvivorsIsSeq
    <2>2. Input(u) \in Seq(Nat)
      BY <1>2, <1>6, <2>1 DEF Input
    <2>3. Limit(u) = Len(Input(u))
      BY <1>6 DEF Limit
    <2> QED
      BY <2>2, <2>3, LenProperties
  <1> QED
    BY <1>4, <1>5, <1>6

LEMMA NextPartIs ==
  ASSUME PrepShape, stage \in {"download", "dedup"}, NEW u \in Spooling
  PROVE  LET done == spool[Root][u].docs
         IN /\ NextPart(u) \in Seq(Nat) /\ done \in Nat
            /\ NextPart(u) = <<>> => Len(Input(u)) <= done \/ Limit(u) <= done
            /\ NextPart(u) # <<>> =>
                 /\ done + Len(NextPart(u)) <= Len(Input(u))
                 /\ NextPart(u) = SubSeq(Input(u), done + 1, done + Len(NextPart(u)))
  <1> DEFINE done == spool[Root][u].docs
             in == Input(u)
             lim == Limit(u)
  <1>1. in \in Seq(Nat) /\ lim \in Nat
    BY InputIs
  <1>2. done \in Nat
    BY SpoolingUnits, RootIs DEF PrepShape, Spool
  <1>3. NextPart(u) = Part(in, done, lim)
    BY DEF NextPart, Part
  <1> HIDE DEF done, in, lim
  <1>4. /\ Part(in, done, lim) \in Seq(Nat)
        /\ Part(in, done, lim) = <<>> => Len(in) <= done \/ lim <= done
        /\ Part(in, done, lim) # <<>> =>
             /\ done + Len(Part(in, done, lim)) <= Len(in)
             /\ Part(in, done, lim) = SubSeq(in, done + 1, done + Len(Part(in, done, lim)))
    BY <1>1, <1>2, PartIs
  <1> QED
    BY <1>2, <1>3, <1>4 DEF done, in, lim

LEMMA TasksTyped ==
  ASSUME PrepShape
  PROVE  Tasks \subseteq Sources \X Nat
  <1>1. flags.tok \in Nat
    BY DEF PrepShape
  <1>2. CASE flags.tok = 0
    BY <1>2 DEF Tasks
  <1>3. CASE flags.tok # 0
    <2>1. flags.tok \in Nat \ {0}
      BY <1>1, <1>3
    <2>2. ASSUME NEW s \in Sources PROVE 1 .. Len(Chunked(s)) \subseteq Nat
      <3>1. Chunked(s) \in Seq(Seq(Nat))
        BY <2>1, BothCounted, GroupsAre DEF Chunked
      <3> QED
        BY <3>1, LenProperties
    <2> QED
      BY <1>3, <2>2 DEF Tasks
  <1> QED
    BY <1>2, <1>3

LEMMA NoTasks == DOMAIN <<>> = {}
  OBVIOUS

LEMMA FlagsTyped == Flags \subseteq [dl : Splits, discard : BOOLEAN, dd : BOOLEAN, tok : Nat] /\ MaxFaults \in Nat
  BY DataPrepAssumption

\* Nothing but the progress of the tasks and their token files changes.
LEMMA TasksProgress ==
  ASSUME SpoolInv, up, stage \in Concurrent, UNCHANGED <<stage, up, flags, at, spool, split, disk>>,
         faults' \in 0 .. MaxFaults, DOMAIN tokens' \subseteq Sources \X Nat,
         DOMAIN job' = DOMAIN job, \A u \in DOMAIN job : job'[u] = "record" => job[u] = "record",
         stage \in {"download", "dedup"} => \A u \in DOMAIN job : job'[u] = "off" <=> job[u] = "off"
  PROVE  SpoolInv'
  <1>1. PrepShape'
    BY DEF SpoolInv, PrepShape
  <1>2. JobDomain' = JobDomain
    BY DEF JobDomain, Spooling, Tasks, Chunked, Objects
  <1>3. \A u \in DOMAIN job : NextPart(u)' = NextPart(u) /\ Root' = Root
    BY DEF NextPart, Input, Limit, Root
  <1>4. Jobs'
    <2>1. (~up \/ stage \notin Concurrent => job = <<>>)'
      OBVIOUS
    <2>2. (up => DOMAIN job = JobDomain)'
      BY <1>2 DEF SpoolInv, Jobs
    <2>3. ASSUME NEW u \in DOMAIN job, job'[u] = "record"
          PROVE  (/\ stage \in {"download", "dedup"}
                  /\ Len(spool[Root][u].files) = spool[Root][u].parts + 1
                  /\ Last(spool[Root][u].files) = NextPart(u))'
      BY <1>3, <2>3 DEF SpoolInv, Jobs
    <2>4. Together'
      BY DEF SpoolInv, Jobs, Together
    <2> QED
      BY <2>1, <2>2, <2>3, <2>4 DEF Jobs
  <1> QED
    BY <1>1, <1>4 DEF SpoolInv

LEMMA CommandStops ==
  ASSUME PrepShape', up' = FALSE, job' = <<>>
  PROVE  SpoolInv'
  <1>1. Jobs'
    BY NoTasks DEF Jobs, Together
  <1> QED
    BY <1>1 DEF SpoolInv

LEMMA CommandBegins ==
  ASSUME SpoolInv, ~up, stage \in Concurrent, up' = TRUE, flags' \in Flags,
         UNCHANGED <<stage, at, spool, split, tokens, faults>>, job' = [x \in JobDomain' |-> "off"]
  PROVE  SpoolInv'
  <1>1. PrepShape'
    BY FlagsTyped DEF SpoolInv, PrepShape
  <1>2. Jobs'
    <2> DEFINE D == JobDomain'
    <2>1. DOMAIN job' = D /\ \A u \in D : job'[u] = "off"
      OBVIOUS
    <2>2. up' /\ stage' \in Concurrent
      OBVIOUS
    <2> HIDE DEF D
    <2>3. \A u \in DOMAIN job' : job'[u] # "record"
      BY <2>1
    <2> QED
      BY <2>1, <2>2, <2>3 DEF Jobs, D, Together
  <1> QED
    BY <1>1, <1>2 DEF SpoolInv

LEMMA BeginKeeps ==
  ASSUME SpoolInv, Begin \/ BeginTokenize \/ BeginUpload
  PROVE  SpoolInv'
  <1>1. CASE Begin
    <2>1. stage' = stage /\ stage \in {"download", "dedup"}
      BY <1>1 DEF Begin
    <2>2. JobDomain' = Spooling'
      BY <2>1 DEF JobDomain
    <2>3. job' = [x \in JobDomain' |-> "off"]
      BY <1>1, <2>2 DEF Begin
    <2> QED
      BY <1>1, <2>1, <2>3, CommandBegins DEF Begin, Concurrent, Rerun
  <1>2. CASE BeginTokenize
    <2>1. stage' = stage /\ stage = "tokenize"
      BY <1>2 DEF BeginTokenize
    <2>2. JobDomain' = Tasks'
      BY <2>1 DEF JobDomain
    <2>3. job' = [x \in JobDomain' |-> "off"]
      BY <1>2, <2>2 DEF BeginTokenize
    <2> QED
      BY <1>2, <2>1, <2>3, CommandBegins DEF BeginTokenize, Concurrent, Rerun
  <1>3. CASE BeginUpload
    <2>1. stage' = stage /\ stage = "upload" /\ disk' = disk
      BY <1>3 DEF BeginUpload, dataset
    <2>2. JobDomain' = Objects
      BY <2>1 DEF JobDomain, Objects
    <2>3. PrepShape'
      BY <1>3 DEF BeginUpload, SpoolInv, PrepShape
    <2>4. DOMAIN job' = Objects /\ \A o \in Objects : job'[o] = "off"
      BY <1>3 DEF BeginUpload
    <2>5. up' /\ stage' \in Concurrent
      BY <1>3, <2>1 DEF BeginUpload, Concurrent
    <2>6. Jobs'
      BY <2>2, <2>4, <2>5 DEF Jobs, Together
    <2> QED
      BY <2>3, <2>6 DEF SpoolInv
  <1> QED
    BY <1>1, <1>2, <1>3

LEMMA StopKeeps ==
  ASSUME SpoolInv, End \/ Kill \/ Verify \/ \E s \in Sources : Refuse(s)
  PROVE  SpoolInv'
  <1>1. CASE End
    <2>1. stage' \in Range(Stages)
      BY <1>1, NextStageIsStage, StagesAre DEF End, SpoolInv, PrepShape
    <2>2. at = 0
      BY <1>1 DEF End, SpoolInv, PrepShape
    <2>3. flags' \in [dl : Splits, discard : BOOLEAN, dd : BOOLEAN, tok : Nat]
      BY <1>1 DEF End, SpoolInv, PrepShape
    <2>4. PrepShape'
      BY <1>1, <2>1, <2>2, <2>3 DEF End, SpoolInv, PrepShape
    <2> QED
      BY <1>1, <2>4, CommandStops DEF End
  <1>2. CASE Kill
    <2>1. faults' \in 0 .. MaxFaults
      BY <1>2, FlagsTyped DEF Kill, SpoolInv, PrepShape
    <2>2. PrepShape'
      BY <1>2, <2>1 DEF Kill, SpoolInv, PrepShape
    <2> QED
      BY <1>2, <2>2, CommandStops DEF Kill
  <1>3. CASE Verify
    <2>1. stage' \in Range(Stages) /\ at = 0 /\ job = <<>> /\ ~up
      BY <1>3, NextStageIsStage DEF Verify, SpoolInv, PrepShape, Jobs
    <2>2. PrepShape'
      BY <1>3, <2>1 DEF Verify, SpoolInv, PrepShape
    <2> QED
      <3>1. up' = FALSE
        BY <1>3 DEF Verify, SpoolInv, PrepShape
      <3> QED
        BY <1>3, <2>1, <2>2, <3>1, CommandStops DEF Verify
  <1>4. ASSUME NEW s \in Sources, Refuse(s) PROVE SpoolInv'
    <2>1. at = 0
      BY <1>4 DEF Refuse, Refused, SpoolInv, PrepShape
    <2>2. flags' \in [dl : Splits, discard : BOOLEAN, dd : BOOLEAN, tok : Nat]
      BY <1>4 DEF Refuse, SpoolInv, PrepShape
    <2>3. PrepShape'
      BY <1>4, <2>1, <2>2 DEF Refuse, SpoolInv, PrepShape
    <2> QED
      BY <1>4, <2>3, CommandStops DEF Refuse
  <1> QED
    BY <1>1, <1>2, <1>3, <1>4

LEMMA ProgressKeeps ==
  ASSUME SpoolInv, NEW u \in DOMAIN job, WorkerFails(u) \/ PutFails(u) \/ Open(u) \/ Flush(u) \/ Put(u)
  PROVE  SpoolInv'
  <1> USE DEF Concurrent, SpoolInv
  <1>0. faults \in 0 .. MaxFaults /\ DOMAIN tokens \subseteq Sources \X Nat
    BY DEF PrepShape
  <1>1. CASE WorkerFails(u)
    <2>1. stage \in Concurrent
      BY <1>1, NoTasks DEF WorkerFails, Jobs
    <2>2. faults' \in 0 .. MaxFaults
      BY <1>0, <1>1, FlagsTyped DEF WorkerFails
    <2>3. DOMAIN job' = DOMAIN job /\ \A v \in DOMAIN job : (job'[v] = "record" => job[v] = "record") /\ (job'[v] = "off" <=> job[v] = "off")
      BY <1>1 DEF WorkerFails
    <2> QED
      BY <1>0, <1>1, <2>1, <2>2, <2>3, TasksProgress DEF WorkerFails, dataset
  <1>2. CASE PutFails(u)
    <2>2. faults' \in 0 .. MaxFaults
      BY <1>0, <1>2, FlagsTyped DEF PutFails
    <2>3. DOMAIN job' = DOMAIN job /\ \A v \in DOMAIN job : job'[v] = "record" => job[v] = "record"
      BY <1>2 DEF PutFails
    <2> QED
      BY <1>0, <1>2, <2>2, <2>3, TasksProgress DEF PutFails, dataset
  <1>3. CASE Open(u)
    <2>1. u \in Sources \X Nat
      BY <1>3, TasksTyped DEF Open, Jobs, JobDomain
    <2>2. DOMAIN tokens' \subseteq Sources \X Nat
      BY <1>0, <1>3, <2>1 DEF Open
    <2>3. DOMAIN job' = DOMAIN job /\ \A v \in DOMAIN job : job'[v] = "record" => job[v] = "record"
      BY <1>3 DEF Open
    <2> QED
      BY <1>0, <1>3, <2>2, <2>3, TasksProgress DEF Open, dataset
  <1>4. CASE Flush(u)
    <2>2. DOMAIN tokens' \subseteq Sources \X Nat
      BY <1>0, <1>4 DEF Flush
    <2>3. DOMAIN job' = DOMAIN job /\ \A v \in DOMAIN job : job'[v] = "record" => job[v] = "record"
      BY <1>4 DEF Flush
    <2> QED
      BY <1>0, <1>4, <2>2, <2>3, TasksProgress DEF Flush, dataset
  <1>5. CASE Put(u)
    <2>3. DOMAIN job' = DOMAIN job /\ \A v \in DOMAIN job : job'[v] = "record" => job[v] = "record"
      BY <1>5 DEF Put
    <2> QED
      BY <1>0, <1>5, <2>3, TasksProgress DEF Put
  <1> QED
    BY <1>1, <1>2, <1>3, <1>4, <1>5

LEMMA ShardKeeps ==
  ASSUME SpoolInv, Shard \/ Manifest
  PROVE  SpoolInv'
  <1>0. stage \in {"shard", "manifest"} /\ job = <<>> /\ job' = <<>>
    BY DEF Shard, Manifest, SpoolInv, Jobs, Concurrent
  <1>1. /\ up' \in BOOLEAN /\ stage' \in Range(Stages) /\ at' \in Nat /\ (up' => stage' = stage)
        /\ (at' # 0 => up' /\ stage' \in {"shard", "manifest"})
    <2>1. NextStage \in Range(Stages) /\ stage \in Range(Stages)
      BY <1>0, NextStageIsStage DEF SpoolInv, PrepShape
    <2>2. at \in Nat
      BY DEF SpoolInv, PrepShape
    <2>3. CASE Manifest
      <3> DEFINE more == at = 0
      <3>1. up' = more /\ IF more THEN at' = 1 /\ stage' = stage ELSE at' = 0 /\ stage' = NextStage
        BY <2>3 DEF Manifest
      <3>2. more \in BOOLEAN
        OBVIOUS
      <3> HIDE DEF more
      <3> QED
        BY <1>0, <2>1, <2>2, <3>1, <3>2
    <2>4. CASE Shard
      <3> DEFINE more == at < Len(Packed)
      <3>1. up' = more /\ IF more THEN at' = at + 1 /\ stage' = stage ELSE at' = 0 /\ stage' = NextStage
        BY <2>4 DEF Shard
      <3>2. more \in BOOLEAN
        OBVIOUS
      <3> HIDE DEF more
      <3> QED
        BY <1>0, <2>1, <2>2, <3>1, <3>2
    <2> QED
      BY <2>3, <2>4
  <1>2. PrepShape'
    BY <1>1 DEF Shard, Manifest, SpoolInv, PrepShape
  <1>3. up' => JobDomain' = {}
    BY <1>0, <1>1 DEF JobDomain
  <1>4. Jobs'
    BY <1>0, <1>3, NoTasks DEF Jobs, Together
  <1> QED
    BY <1>2, <1>4 DEF SpoolInv

\* What the tasks work on while they only write to their own spools.
SameInputs ==
    /\ stage \in {"download", "dedup"} /\ UNCHANGED <<stage, flags>>
    /\ stage = "dedup" => spool'["raw"] = spool["raw"]

LEMMA InputsStay ==
  ASSUME SameInputs, flags.dl \in Nat, flags.dd \in BOOLEAN
  PROVE  /\ Root' = Root /\ Spooling' = Spooling /\ JobDomain' = Spooling
         /\ \A v \in Spooling : Input(v)' = Input(v) /\ Limit(v)' = Limit(v)
         /\ \A v \in Spooling : spool'[Root][v].docs = spool[Root][v].docs => NextPart(v)' = NextPart(v)
  <1>1. stage' = stage /\ flags' = flags /\ stage \in {"download", "dedup"}
    BY DEF SameInputs
  <1>2. Root' = Root
    BY <1>1 DEF Root
  <1>3. Spooling' = Spooling
    <2>1. CASE stage = "download"
      BY <1>1, <2>1 DEF Spooling
    <2>2. CASE stage = "dedup"
      BY <1>1, <2>2 DEF Spooling, SameInputs
    <2> QED
      BY <1>1, <2>1, <2>2
  <1>4. JobDomain' = Spooling
    BY <1>1, <1>3 DEF JobDomain
  <1>5. ASSUME NEW v \in Spooling PROVE Input(v)' = Input(v) /\ Limit(v)' = Limit(v)
    <2>1. CASE stage = "download" /\ flags.dl = 0
      BY <1>1, <2>1 DEF Input, Limit
    <2>2. CASE stage = "download" /\ flags.dl # 0
      <3>1. flags.dl > 0
        BY <2>2
      <3> QED
        BY <1>1, <2>2, <3>1 DEF Input, Limit
    <2>3. CASE stage = "dedup"
      <3>1. Input(v)' = Input(v)
        BY <1>1, <2>3 DEF Input, SameInputs
      <3>2. Limit(v) = Len(Input(v)) /\ Limit(v)' = Len(Input(v)')
        BY <1>1, <2>3 DEF Limit
      <3> QED
        BY <3>1, <3>2
    <2> QED
      BY <1>1, <2>1, <2>2, <2>3
  <1>6. ASSUME NEW v \in Spooling, spool'[Root][v].docs = spool[Root][v].docs PROVE NextPart(v)' = NextPart(v)
    BY <1>2, <1>5, <1>6 DEF NextPart
  <1> QED
    BY <1>2, <1>3, <1>4, <1>5, <1>6

\* One spool of the tasks' root becomes w.
Puts(u, w) ==
    /\ \A r \in Roots, v \in Units : spool'[r][v] = IF r = Root /\ v = u THEN w ELSE spool[r][v]
    /\ \A r \in Roots : r # Root => spool'[r] = spool[r]
    /\ spool' \in [Roots -> [Units -> Spool]]

LEMMA PutsSpool ==
  ASSUME PrepShape, stage \in {"download", "dedup"}, NEW u \in Units, NEW w \in Spool,
         spool' = [spool EXCEPT ![Root] = [spool[Root] EXCEPT ![u] = w]]
  PROVE  Puts(u, w)
  <1>1. spool \in [Roots -> [Units -> Spool]] /\ Root \in Roots
    BY RootIs DEF PrepShape
  <1> DEFINE R == Root
             f == [spool[R] EXCEPT ![u] = w]
  <1>2. R \in Roots /\ spool' = [spool EXCEPT ![R] = f]
    BY <1>1
  <1>3. f \in [Units -> Spool] /\ \A v \in Units : f[v] = IF v = u THEN w ELSE spool[R][v]
    <2> HIDE DEF R
    <2> QED
      BY <1>1, <1>2
  <1> HIDE DEF R, f
  <1>4. spool' \in [Roots -> [Units -> Spool]] /\ \A r \in Roots : spool'[r] = IF r = R THEN f ELSE spool[r]
    BY <1>1, <1>2, <1>3
  <1> QED
    BY <1>2, <1>3, <1>4 DEF Puts, R

\* A task that spools is in the units and its spool in shape.
LEMMA SpoolOf ==
  ASSUME SpoolInv, up, stage \in {"download", "dedup"}, NEW u \in DOMAIN job
  PROVE  /\ DOMAIN job = Spooling /\ u \in Units /\ u \in Spooling /\ Root \in Roots
         /\ spool[Root][u] \in Spool /\ Counts(spool[Root][u])
  <1>1. DOMAIN job = Spooling
    BY DEF SpoolInv, Jobs, JobDomain
  <1>2. Spooling \subseteq Units /\ Root \in Roots
    BY SpoolingUnits, RootIs DEF SpoolInv
  <1> QED
    BY <1>1, <1>2 DEF SpoolInv, PrepShape

\* What Commit and Record do.
LEMMA CommitIs ==
  ASSUME SpoolInv, NEW u \in DOMAIN job, Commit(u)
  PROVE  /\ up /\ stage \in {"download", "dedup"} /\ u \in Spooling /\ u \in Units /\ SameInputs
         /\ job[u] = "write" /\ NextPart(u) \in Seq(Nat)
         /\ NextPart(u) = <<>> => /\ Puts(u, [spool[Root][u] EXCEPT !.complete = TRUE])
                                  /\ job' = [job EXCEPT ![u] = "done"]
         /\ NextPart(u) # <<>> => /\ Puts(u, Written(spool[Root][u], NextPart(u)))
                                  /\ job' = [job EXCEPT ![u] = "record"]
         /\ UNCHANGED <<stage, up, flags, at, split, tokens, dataset, faults>>
  <1>1. /\ up /\ stage \in {"download", "dedup"} /\ job[u] = "write"
        /\ UNCHANGED <<stage, up, flags, at, split, tokens, dataset, faults>>
    BY DEF Commit
  <1>2. /\ u \in Spooling /\ u \in Units /\ Root \in Roots /\ spool[Root][u] \in Spool /\ Counts(spool[Root][u])
    BY <1>1, SpoolOf
  <1>3. NextPart(u) \in Seq(Nat)
    BY <1>1, <1>2, NextPartIs DEF SpoolInv
  <1> DEFINE sp == spool[Root][u]
             done == [sp EXCEPT !.complete = TRUE]
             more == Written(sp, NextPart(u))
  <1>4. done \in Spool
    BY <1>2, CompletedIs
  <1>5. more \in Spool
    BY <1>2, <1>3, WrittenIs
  <1>6. CASE NextPart(u) = <<>>
    <2>1. spool' = [spool EXCEPT ![Root][u].complete = TRUE] /\ job' = [job EXCEPT ![u] = "done"]
      BY <1>6 DEF Commit
    <2>2. spool' = [spool EXCEPT ![Root] = [spool[Root] EXCEPT ![u] = done]]
      BY <2>1
    <2> HIDE DEF done
    <2>3. Puts(u, done)
      BY <1>1, <1>2, <1>4, <2>2, PutsSpool DEF SpoolInv
    <2>4. SameInputs
      BY <1>1, <2>3, RootIs, RootsAre DEF SameInputs, Puts
    <2> QED
      BY <1>1, <1>2, <1>3, <1>6, <2>1, <2>3, <2>4 DEF done
  <1>7. CASE NextPart(u) # <<>>
    <2>1. /\ spool' = [spool EXCEPT ![Root][u].files = Append(SubSeq(@, 1, spool[Root][u].parts), NextPart(u))]
          /\ job' = [job EXCEPT ![u] = "record"]
      BY <1>7 DEF Commit
    <2>2. spool' = [spool EXCEPT ![Root] = [spool[Root] EXCEPT ![u] = more]]
      BY <2>1 DEF Written
    <2> HIDE DEF more
    <2>3. Puts(u, more)
      BY <1>1, <1>2, <1>5, <2>2, PutsSpool DEF SpoolInv
    <2>4. SameInputs
      BY <1>1, <2>3, RootIs, RootsAre DEF SameInputs, Puts
    <2> QED
      BY <1>1, <1>2, <1>3, <1>7, <2>1, <2>3, <2>4 DEF more
  <1> QED
    BY <1>6, <1>7

LEMMA RecordIs ==
  ASSUME SpoolInv, NEW u \in DOMAIN job, Record(u)
  PROVE  /\ up /\ stage \in {"download", "dedup"} /\ u \in Spooling /\ u \in Units /\ SameInputs
         /\ job[u] = "record" /\ Len(spool[Root][u].files) = spool[Root][u].parts + 1
         /\ Last(spool[Root][u].files) = NextPart(u)
         /\ Puts(u, Noted(spool[Root][u])) /\ job' = [job EXCEPT ![u] = "write"]
         /\ UNCHANGED <<stage, up, flags, at, split, tokens, dataset, faults>>
  <1>1. /\ up /\ job[u] = "record" /\ job' = [job EXCEPT ![u] = "write"]
        /\ UNCHANGED <<stage, up, flags, at, split, tokens, dataset, faults>>
    BY DEF Record
  <1>2. /\ stage \in {"download", "dedup"} /\ Last(spool[Root][u].files) = NextPart(u)
        /\ Len(spool[Root][u].files) = spool[Root][u].parts + 1
    BY <1>1 DEF SpoolInv, Jobs
  <1>3. /\ u \in Spooling /\ u \in Units /\ Root \in Roots /\ spool[Root][u] \in Spool /\ Counts(spool[Root][u])
    BY <1>1, <1>2, SpoolOf
  <1> DEFINE sp == spool[Root][u]
             next == Noted(sp)
  <1>4. next \in Spool
    BY <1>2, <1>3, NotedIs
  <1>5. spool' = [spool EXCEPT ![Root][u].docs = @ + Len(Last(spool[Root][u].files)), ![Root][u].parts = @ + 1]
    BY DEF Record
  <1>6. spool' = [spool EXCEPT ![Root] = [spool[Root] EXCEPT ![u] = next]]
    BY <1>3, <1>5 DEF Noted, SpoolInv, PrepShape
  <1> HIDE DEF next
  <1>7. Puts(u, next)
    BY <1>2, <1>3, <1>4, <1>6, PutsSpool DEF SpoolInv
  <1>8. SameInputs
    BY <1>1, <1>2, <1>7, RootIs, RootsAre DEF SameInputs, Puts
  <1> QED
    BY <1>1, <1>2, <1>3, <1>7, <1>8 DEF next

LEMMA SpoolingKeeps ==
  ASSUME SpoolInv, up, SameInputs, NEW u \in Spooling, NEW w, Puts(u, w), Counts(w),
         NEW x, job' = [job EXCEPT ![u] = x], x # "off", job[u] # "off",
         UNCHANGED <<stage, up, flags, at, split, tokens, faults>>,
         x = "record" => /\ Len(w.files) = w.parts + 1 /\ Last(w.files) = NextPart(u)
                         /\ w.docs = spool[Root][u].docs
  PROVE  SpoolInv'
  <1>1. stage \in {"download", "dedup"} /\ DOMAIN job = Spooling /\ Spooling \subseteq Units /\ Root \in Roots
    BY SpoolingUnits, RootIs DEF SameInputs, SpoolInv, Jobs, JobDomain
  <1>2. flags.dl \in Nat /\ flags.dd \in BOOLEAN
    BY WorkersNat DEF SpoolInv, PrepShape, Splits
  <1>3. /\ Root' = Root /\ Spooling' = Spooling /\ JobDomain' = Spooling
        /\ \A v \in Spooling : spool'[Root][v].docs = spool[Root][v].docs => NextPart(v)' = NextPart(v)
    BY <1>2, InputsStay
  <1>4. /\ spool' \in [Roots -> [Units -> Spool]]
        /\ \A r \in Roots, v \in Units : spool'[r][v] = IF r = Root /\ v = u THEN w ELSE spool[r][v]
    BY DEF Puts
  <1>5. \A r \in Roots, v \in Units : Counts(spool[r][v])
    BY DEF SpoolInv, PrepShape
  <1>6. \A r \in Roots, v \in Units : Counts(spool'[r][v])
    BY <1>4, <1>5
  <1>7. PrepShape'
    BY <1>4, <1>6 DEF SpoolInv, PrepShape
  <1>8. DOMAIN job' = Spooling /\ \A v \in Spooling : job'[v] = IF v = u THEN x ELSE job[v]
    BY <1>1
  <1>9. ASSUME NEW v \in DOMAIN job', job'[v] = "record"
        PROVE  (/\ stage \in {"download", "dedup"}
                /\ Len(spool[Root][v].files) = spool[Root][v].parts + 1
                /\ Last(spool[Root][v].files) = NextPart(v))'
    <2>1. CASE v = u
      <3>1. spool'[Root][v] = w /\ x = "record"
        BY <1>1, <1>4, <1>8, <1>9, <2>1
      <3>2. NextPart(v)' = NextPart(v)
        BY <1>3, <1>8, <2>1, <3>1
      <3> QED
        BY <1>1, <1>3, <2>1, <3>1, <3>2
    <2>2. CASE v # u
      <3>1. spool'[Root][v] = spool[Root][v] /\ v \in Spooling /\ job[v] = "record"
        BY <1>1, <1>4, <1>8, <1>9, <2>2
      <3>2. NextPart(v)' = NextPart(v)
        BY <1>3, <3>1
      <3>3. /\ Len(spool[Root][v].files) = spool[Root][v].parts + 1
            /\ Last(spool[Root][v].files) = NextPart(v)
        BY <1>1, <3>1 DEF SpoolInv, Jobs
      <3> QED
        BY <1>1, <1>3, <3>1, <3>2, <3>3
    <2> QED
      BY <2>1, <2>2
  <1>10. Together'
    BY <1>1, <1>8 DEF Together, SpoolInv, Jobs
  <1>11. (~up \/ stage \notin Concurrent => job = <<>>)'
    BY <1>1 DEF Concurrent
  <1>12. (up => DOMAIN job = JobDomain)'
    BY <1>3, <1>8
  <1>13. Jobs'
    BY <1>9, <1>10, <1>11, <1>12 DEF Jobs
  <1> QED
    BY <1>7, <1>13 DEF SpoolInv

LEMMA CommitKeepsSpools ==
  ASSUME SpoolInv, NEW u \in DOMAIN job, Commit(u)
  PROVE  SpoolInv'
  <1>1. /\ up /\ stage \in {"download", "dedup"} /\ u \in Spooling /\ u \in Units /\ SameInputs
        /\ job[u] = "write" /\ NextPart(u) \in Seq(Nat)
        /\ NextPart(u) = <<>> => /\ Puts(u, [spool[Root][u] EXCEPT !.complete = TRUE])
                                 /\ job' = [job EXCEPT ![u] = "done"]
        /\ NextPart(u) # <<>> => /\ Puts(u, Written(spool[Root][u], NextPart(u)))
                                 /\ job' = [job EXCEPT ![u] = "record"]
        /\ UNCHANGED <<stage, up, flags, at, split, tokens, dataset, faults>>
    BY CommitIs
  <1>2. spool[Root][u] \in Spool /\ Counts(spool[Root][u])
    BY <1>1, SpoolOf
  <1>3. CASE NextPart(u) = <<>>
    <2> DEFINE w == [spool[Root][u] EXCEPT !.complete = TRUE]
    <2>1. Counts(w) /\ Puts(u, w) /\ job' = [job EXCEPT ![u] = "done"]
      BY <1>1, <1>2, <1>3, CompletedIs
    <2> HIDE DEF w
    <2> QED
      BY <1>1, <2>1, SpoolingKeeps
  <1>4. CASE NextPart(u) # <<>>
    <2> DEFINE w == Written(spool[Root][u], NextPart(u))
    <2>1. /\ Counts(w) /\ w.docs = spool[Root][u].docs
          /\ Len(w.files) = w.parts + 1 /\ Last(w.files) = NextPart(u)
      BY <1>1, <1>2, WrittenIs
    <2>2. Puts(u, w) /\ job' = [job EXCEPT ![u] = "record"]
      BY <1>1, <1>4
    <2> HIDE DEF w
    <2> QED
      BY <1>1, <2>1, <2>2, SpoolingKeeps
  <1> QED
    BY <1>3, <1>4

LEMMA RecordKeepsSpools ==
  ASSUME SpoolInv, NEW u \in DOMAIN job, Record(u)
  PROVE  SpoolInv'
  <1> DEFINE w == Noted(spool[Root][u])
  <1>1. /\ up /\ stage \in {"download", "dedup"} /\ u \in Spooling /\ u \in Units /\ SameInputs
        /\ job[u] = "record" /\ Len(spool[Root][u].files) = spool[Root][u].parts + 1
        /\ Puts(u, w) /\ job' = [job EXCEPT ![u] = "write"]
        /\ UNCHANGED <<stage, up, flags, at, split, tokens, dataset, faults>>
    BY RecordIs
  <1>2. spool[Root][u] \in Spool /\ Counts(spool[Root][u])
    BY <1>1, SpoolOf
  <1>3. Counts(w)
    BY <1>1, <1>2, NotedIs
  <1> HIDE DEF w
  <1> QED
    BY <1>1, <1>3, SpoolingKeeps

\* A discard takes the spools of one source, none of which is in use.
LEMMA DiscardIs ==
  ASSUME SpoolInv, NEW s \in Sources, Discard(s)
  PROVE  /\ up /\ stage = "download" /\ flags.dl > 0
         /\ DOMAIN job = Spooling /\ Spooling \subseteq Units
         /\ UNCHANGED <<stage, up, flags, job, at, tokens, dataset, faults>>
         /\ \A v \in DOMAIN job : v[1] = s => job[v] = "off"
         /\ \A v \in Units : spool'["raw"][v] = IF v[1] = s THEN NewSpool ELSE spool["raw"][v]
         /\ spool'["dedup"] = spool["dedup"]
         /\ spool' \in [Roots -> [Units -> Spool]]
         /\ split' = [split EXCEPT ![s] = 0]
  <1>1. /\ up /\ stage = "download" /\ flags.dl > 0
        /\ UNCHANGED <<stage, up, flags, job, at, tokens, dataset, faults>>
        /\ split' = [split EXCEPT ![s] = 0]
        /\ \E v \in DOMAIN job : v[1] = s /\ job[v] = "off"
    BY DEF Discard, Clashes
  <1>2. DOMAIN job = Spooling /\ Spooling \subseteq Units
    BY <1>1, SpoolingUnits DEF SpoolInv, Jobs, JobDomain
  <1>3. \A v \in DOMAIN job : v[1] = s => job[v] = "off"
    BY <1>1 DEF SpoolInv, Jobs, Together
  <1>4. spool \in [Roots -> [Units -> Spool]] /\ Roots = {"raw", "dedup"} /\ NewSpool \in Spool
    BY RootsAre, NewSpoolIs DEF SpoolInv, PrepShape
  <1> DEFINE f == [u \in Units |-> IF u[1] = s THEN NewSpool ELSE spool["raw"][u]]
  <1>5. spool' = [spool EXCEPT !["raw"] = f]
    BY DEF Discard
  <1>6. f \in [Units -> Spool] /\ \A v \in Units : f[v] = IF v[1] = s THEN NewSpool ELSE spool["raw"][v]
    BY <1>4
  <1> HIDE DEF f
  <1>7. spool'["raw"] = f /\ spool'["dedup"] = spool["dedup"] /\ spool' \in [Roots -> [Units -> Spool]]
    BY <1>4, <1>5, <1>6
  <1> QED
    BY <1>1, <1>2, <1>3, <1>6, <1>7

LEMMA PrepareIs ==
  ASSUME SpoolInv, NEW s \in Sources, Prepare(s)
  PROVE  /\ up /\ stage \in {"download", "dedup"} /\ ~Refused(s) /\ ~Clashes(s)
         /\ DOMAIN job = Spooling /\ Spooling \subseteq Units
         /\ UNCHANGED <<stage, up, flags, at, spool, tokens, dataset, faults>>
         /\ \A v \in DOMAIN job : v[1] = s => job[v] = "off"
         /\ DOMAIN job' = DOMAIN job
         /\ \A v \in DOMAIN job : v[1] # s => job'[v] = job[v]
         /\ \A v \in DOMAIN job : v[1] = s => job'[v] = IF spool[Root][v].complete THEN "done" ELSE "write"
         /\ split' = IF stage = "download" /\ flags.dl > 0 THEN [split EXCEPT ![s] = flags.dl] ELSE split
  <1>1. /\ up /\ stage \in {"download", "dedup"} /\ ~Refused(s) /\ ~Clashes(s)
        /\ UNCHANGED <<stage, up, flags, at, spool, tokens, dataset, faults>>
        /\ split' = IF stage = "download" /\ flags.dl > 0 THEN [split EXCEPT ![s] = flags.dl] ELSE split
        /\ \E v \in DOMAIN job : v[1] = s /\ job[v] = "off"
        /\ job' = [u \in DOMAIN job |-> IF u[1] # s \/ job[u] # "off" THEN job[u]
                 ELSE IF spool[Root][u].complete THEN "done" ELSE "write"]
    BY DEF Prepare
  <1>2. DOMAIN job = Spooling /\ Spooling \subseteq Units
    BY <1>1, SpoolingUnits DEF SpoolInv, Jobs, JobDomain
  <1>3. \A v \in DOMAIN job : v[1] = s => job[v] = "off"
    BY <1>1 DEF SpoolInv, Jobs, Together
  <1> QED
    BY <1>1, <1>2, <1>3

\* A step of one source leaves what the tasks of the others are about to record.
LEMMA SourceKeeps ==
  ASSUME SpoolInv, NEW s \in Sources, up, stage \in {"download", "dedup"}, SameInputs,
         UNCHANGED <<up, at, tokens, faults>>, split' \in [Sources -> Splits],
         spool' \in [Roots -> [Units -> Spool]], \A r \in Roots, v \in Units : Counts(spool'[r][v]),
         \A v \in Units : v[1] # s => spool'[Root][v] = spool[Root][v],
         DOMAIN job' = DOMAIN job, \A v \in DOMAIN job : v[1] # s => job'[v] = job[v],
         \A v \in DOMAIN job : v[1] = s => job'[v] # "record",
         \A v, w \in DOMAIN job : v[1] = s /\ w[1] = s /\ job'[v] = "off" => job'[w] = "off"
  PROVE  SpoolInv'
  <1>1. PrepShape'
    BY DEF SameInputs, SpoolInv, PrepShape
  <1>2. /\ flags.dl \in Nat /\ flags.dd \in BOOLEAN
        /\ DOMAIN job = Spooling /\ Spooling \subseteq Units
    BY SpoolingUnits, WorkersNat DEF SpoolInv, PrepShape, Splits, Jobs, JobDomain
  <1>3. /\ Root' = Root /\ JobDomain' = Spooling
        /\ \A v \in Spooling : spool'[Root][v].docs = spool[Root][v].docs => NextPart(v)' = NextPart(v)
    BY <1>2, InputsStay
  <1>4. stage' = stage /\ up' = up
    BY DEF SameInputs
  <1>5. ASSUME NEW v \in DOMAIN job', job'[v] = "record"
        PROVE  (/\ stage \in {"download", "dedup"}
                /\ Len(spool[Root][v].files) = spool[Root][v].parts + 1
                /\ Last(spool[Root][v].files) = NextPart(v))'
    <2>1. v \in Spooling /\ v \in Units /\ v[1] # s /\ job[v] = "record"
      BY <1>2, <1>5
    <2>2. spool'[Root][v] = spool[Root][v]
      BY <2>1
    <2>3. NextPart(v)' = NextPart(v)
      BY <1>3, <2>1, <2>2
    <2>4. /\ Len(spool[Root][v].files) = spool[Root][v].parts + 1
          /\ Last(spool[Root][v].files) = NextPart(v)
      BY <1>2, <2>1 DEF SpoolInv, Jobs
    <2> QED
      BY <1>3, <1>4, <2>2, <2>3, <2>4
  <1>6. Together'
    <2> SUFFICES ASSUME NEW x \in DOMAIN job, NEW y \in DOMAIN job, x[1] = y[1], job'[x] = "off"
                 PROVE  job'[y] = "off"
      BY DEF Together
    <2>1. CASE x[1] = s
      BY <2>1
    <2>2. CASE x[1] # s
      BY <2>2 DEF SpoolInv, Jobs, Together
    <2> QED
      BY <2>1, <2>2
  <1>7. Jobs'
    <2>1. (~up \/ stage \notin Concurrent => job = <<>>)'
      BY <1>4 DEF Concurrent
    <2>2. (up => DOMAIN job = JobDomain)'
      BY <1>2, <1>3
    <2> QED
      BY <1>5, <1>6, <2>1, <2>2 DEF Jobs
  <1> QED
    BY <1>1, <1>7 DEF SpoolInv

LEMMA DiscardKeepsSpools ==
  ASSUME SpoolInv, NEW s \in Sources, Discard(s)
  PROVE  SpoolInv'
  <1>1. /\ up /\ stage = "download"
        /\ DOMAIN job = Spooling /\ Spooling \subseteq Units
        /\ UNCHANGED <<stage, up, flags, job, at, tokens, faults>>
        /\ \A v \in DOMAIN job : v[1] = s => job[v] = "off"
        /\ \A v \in Units : spool'["raw"][v] = IF v[1] = s THEN NewSpool ELSE spool["raw"][v]
        /\ spool'["dedup"] = spool["dedup"]
        /\ spool' \in [Roots -> [Units -> Spool]]
        /\ split' = [split EXCEPT ![s] = 0]
    BY DiscardIs
  <1>2. split \in [Sources -> Splits] /\ \A r \in Roots, v \in Units : Counts(spool[r][v])
    BY DEF SpoolInv, PrepShape
  <1>3. \A r \in Roots, v \in Units : Counts(spool'[r][v])
    BY <1>1, <1>2, RootsAre, NewSpoolIs
  <1>4. split' \in [Sources -> Splits]
    BY <1>1, <1>2 DEF Splits
  <1>5. Root = "raw" /\ SameInputs
    BY <1>1, RootIs DEF SameInputs
  <1>6. \A v \in Units : v[1] # s => spool'[Root][v] = spool[Root][v]
    BY <1>1, <1>5
  <1> QED
    BY <1>1, <1>3, <1>4, <1>5, <1>6, SourceKeeps

LEMMA PrepareKeepsSpools ==
  ASSUME SpoolInv, NEW s \in Sources, Prepare(s)
  PROVE  SpoolInv'
  <1>1. /\ up /\ stage \in {"download", "dedup"}
        /\ UNCHANGED <<stage, up, flags, at, spool, tokens, faults>>
        /\ DOMAIN job' = DOMAIN job
        /\ \A v \in DOMAIN job : v[1] # s => job'[v] = job[v]
        /\ \A v \in DOMAIN job : v[1] = s => job'[v] \in {"done", "write"}
        /\ split' = IF stage = "download" /\ flags.dl > 0 THEN [split EXCEPT ![s] = flags.dl] ELSE split
    BY PrepareIs
  <1>2. /\ flags.dl \in Splits /\ split \in [Sources -> Splits]
        /\ spool \in [Roots -> [Units -> Spool]]
        /\ \A r \in Roots, v \in Units : Counts(spool[r][v])
    BY DEF SpoolInv, PrepShape
  <1>3. split' \in [Sources -> Splits]
    BY <1>1, <1>2
  <1>4. SameInputs
    BY <1>1 DEF SameInputs
  <1> QED
    BY <1>1, <1>2, <1>3, <1>4, SourceKeeps

LEMMA SpoolsAtStart == PrepInit => SpoolInv
  <1> SUFFICES ASSUME PrepInit PROVE SpoolInv
    OBVIOUS
  <1>1. /\ Flags \subseteq [dl : Splits, discard : BOOLEAN, dd : BOOLEAN, tok : Nat] /\ MaxFaults \in Nat
        /\ NewSpool \in Spool /\ Counts(NewSpool)
    BY FlagsTyped, NewSpoolIs
  <1>2. stage \in Range(Stages)
    BY StagesAre DEF PrepInit
  <1>3. PrepShape
    <2>1. /\ flags \in [dl : Splits, discard : BOOLEAN, dd : BOOLEAN, tok : Nat]
          /\ up \in BOOLEAN /\ at = 0 /\ faults \in 0 .. MaxFaults /\ DOMAIN tokens \subseteq Sources \X Nat
      <3>1. flags \in Flags
        BY DEF PrepInit
      <3>2. up = FALSE /\ at = 0 /\ faults = 0 /\ tokens = <<>>
        BY DEF PrepInit
      <3>3. 0 \in 0 .. MaxFaults
        BY <1>1
      <3> QED
        BY <1>1, <3>1, <3>2, <3>3, NoTasks
    <2>2. split \in [Sources -> Splits]
      BY DEF PrepInit, Splits
    <2>3. /\ spool \in [Roots -> [Units -> Spool]]
          /\ \A r \in Roots, u \in Units : spool[r][u] = NewSpool
      <3> DEFINE f == [u \in Units |-> NewSpool]
      <3>1. f \in [Units -> Spool] /\ \A u \in Units : f[u] = NewSpool
        BY <1>1
      <3>2. spool = [r \in Roots |-> f]
        BY DEF PrepInit
      <3> HIDE DEF f
      <3> QED
        BY <3>1, <3>2
    <2> QED
      BY <1>1, <1>2, <2>1, <2>2, <2>3 DEF PrepShape
  <1>4. Jobs
    BY NoTasks DEF PrepInit, Jobs, Together
  <1> QED
    BY <1>3, <1>4 DEF SpoolInv

LEMMA SpoolsKeep == ASSUME SpoolInv, [PrepNext]_prepVars PROVE SpoolInv'
  <1>1. CASE UNCHANGED prepVars
    <2>1. PrepShape'
      BY <1>1 DEF prepVars, SpoolInv, PrepShape
    <2>2. /\ JobDomain' = JobDomain /\ Root' = Root
          /\ \A v \in DOMAIN job : NextPart(v)' = NextPart(v)
      BY <1>1 DEF prepVars, dataset, JobDomain, Spooling, Tasks, Chunked, Objects, NextPart, Input, Limit, Root
    <2>3. Jobs'
      BY <1>1, <2>2 DEF prepVars, SpoolInv, Jobs, Together
    <2> QED
      BY <2>1, <2>3 DEF SpoolInv
  <1>2. ASSUME NEW s \in Sources, Discard(s) \/ Prepare(s) \/ Refuse(s) PROVE SpoolInv'
    BY <1>2, DiscardKeepsSpools, PrepareKeepsSpools, StopKeeps
  <1>3. ASSUME NEW u \in DOMAIN job,
               \/ Commit(u) \/ Record(u) \/ Open(u) \/ Flush(u) \/ Put(u) \/ WorkerFails(u) \/ PutFails(u)
        PROVE  SpoolInv'
    BY <1>3, CommitKeepsSpools, RecordKeepsSpools, ProgressKeeps
  <1>4. ASSUME \/ Begin \/ BeginTokenize \/ BeginUpload \/ End \/ Shard \/ Manifest \/ Verify \/ Kill
        PROVE  SpoolInv'
    BY <1>4, BeginKeeps, StopKeeps, ShardKeeps
  <1> QED
    BY <1>1, <1>2, <1>3, <1>4 DEF PrepNext, Step

\* The counts of state.json are those of the parts it names, whatever was
\* killed on the way, and a stopped command leaves no tasks.
THEOREM PrepTypesHold == PrepSpec => []PrepTypeOK
  <1>1. PrepInit => SpoolInv
    BY SpoolsAtStart
  <1>2. SpoolInv /\ [PrepNext]_prepVars => SpoolInv'
    BY SpoolsKeep
  <1>3. SpoolInv => PrepTypeOK
    <2> SUFFICES ASSUME SpoolInv PROVE PrepTypeOK
      OBVIOUS
    <2>1. ASSUME NEW r \in Roots, NEW u \in Units
          PROVE  /\ spool[r][u].docs = Len(Recorded(spool[r][u]))
                 /\ Len(spool[r][u].files) - spool[r][u].parts \in {0, 1}
      <3>1. Counts(spool[r][u]) /\ spool[r][u] \in Spool
        BY DEF SpoolInv, PrepShape
      <3>2. Len(spool[r][u].files) \in Nat /\ spool[r][u].parts \in Nat
        BY <3>1, LenProperties DEF Spool
      <3> QED
        BY <3>1, <3>2 DEF Counts
    <2>2. up \/ job = <<>>
      BY DEF SpoolInv, Jobs
    <2> QED
      BY <2>1, <2>2 DEF SpoolInv, PrepShape, PrepTypeOK
  <1> QED
    BY <1>1, <1>2, <1>3, PTL DEF PrepSpec

-----------------------------------------------------------------------------
(***************************************************************************)
(* What is published is whole.                                             *)
(***************************************************************************)

\* The shards that were verified stay, and an upload that ends has put them all.
WholeInv ==
    /\ stage \in {"upload", "published"} => Range(index) \subseteq disk
    /\ stage = "upload" => \A o \in DOMAIN job : job[o] = "done" => o \in remote
    /\ stage = "published" => Objects \subseteq remote

LEMMA WholeKeeps ==
  ASSUME SpoolInv, WholeInv, [PrepNext]_prepVars
  PROVE  WholeInv'
  <1> USE DEF WholeInv
  <1>1. ASSUME UNCHANGED <<stage, disk, index, remote>>,
               stage = "upload" => \A o \in DOMAIN job' : o \in DOMAIN job /\ (job'[o] = "done" => job[o] = "done")
        PROVE  WholeInv'
    BY <1>1 DEF Objects
  <1>2. ASSUME UNCHANGED prepVars PROVE WholeInv'
    BY <1>2 DEF prepVars, dataset, Objects
  <1>3. ASSUME Begin \/ BeginTokenize \/ Kill
               \/ \E s \in Sources : Discard(s) \/ Prepare(s) \/ Refuse(s)
        PROVE  WholeInv'
    <2>1. UNCHANGED <<stage, disk, index, remote>> /\ (job' = <<>> \/ stage # "upload")
      BY <1>3 DEF Begin, BeginTokenize, Kill, Discard, Clashes, Prepare, Refuse, dataset
    <2> QED
      BY <1>1, <2>1, NoTasks
  <1>4. ASSUME BeginUpload PROVE WholeInv'
    <2>1. UNCHANGED <<stage, disk, index, remote>> /\ \A o \in DOMAIN job' : job'[o] = "off"
      BY <1>4 DEF BeginUpload, dataset
    <2>2. stage # "published"
      BY <1>4 DEF BeginUpload
    <2> QED
      BY <2>1, <2>2 DEF Objects
  <1>5. ASSUME NEW u \in DOMAIN job, Commit(u) \/ Record(u) \/ Open(u) \/ Flush(u) PROVE WholeInv'
    <2>1. UNCHANGED <<stage, disk, index, remote>>
      BY <1>5 DEF Commit, Record, Open, Flush, dataset
    <2>2. stage # "upload"
      BY <1>5 DEF Commit, Record, Open, Flush, SpoolInv, Jobs
    <2> QED
      BY <1>1, <2>1, <2>2
  <1>6. ASSUME NEW u \in DOMAIN job, WorkerFails(u) \/ PutFails(u) PROVE WholeInv'
    <2>1. UNCHANGED <<stage, disk, index, remote>> /\ job' = [job EXCEPT ![u] = "failed"]
      BY <1>6 DEF WorkerFails, PutFails, dataset
    <2>2. \A o \in DOMAIN job' : o \in DOMAIN job /\ (job'[o] = "done" => job[o] = "done")
      BY <2>1
    <2> QED
      BY <1>1, <2>1, <2>2
  <1>7. ASSUME NEW u \in DOMAIN job, Put(u) PROVE WholeInv'
    <2>1. UNCHANGED <<stage, disk, index>> /\ stage = "upload" /\ remote' = remote \cup {u}
          /\ job' = [job EXCEPT ![u] = "done"]
      BY <1>7 DEF Put
    <2>2. \A o \in DOMAIN job' : o \in DOMAIN job /\ (o # u => job'[o] = job[o])
      BY <2>1
    <2> QED
      BY <2>1, <2>2
  <1>8. ASSUME Shard \/ Manifest PROVE WholeInv'
    <2>1. stage \in {"shard", "manifest"} /\ stage' \in {"shard", "manifest", "verify"}
      <3>1. CASE Shard
        BY <3>1, NextStages DEF Shard
      <3>2. CASE Manifest
        BY <3>2, NextStages DEF Manifest
      <3> QED
        BY <1>8, <3>1, <3>2
    <2> QED
      BY <2>1
  <1>9. ASSUME Verify PROVE WholeInv'
    <2>1. stage' = "upload" /\ UNCHANGED <<disk, index, remote>> /\ VerifyOk /\ job' = <<>>
      BY <1>9, NextStages DEF Verify, dataset, SpoolInv, Jobs
    <2>2. Range(index) \subseteq disk
      BY <2>1 DEF VerifyOk, Range
    <2> QED
      BY <2>1, <2>2, NoTasks
  <1>10. ASSUME End PROVE WholeInv'
    <2>1. UNCHANGED <<disk, index, remote>> /\ job' = <<>> /\ up /\ stage \in {"download", "dedup", "tokenize", "upload"}
      BY <1>10 DEF End, dataset
    <2>2. stage' = stage \/ (stage' = NextStage /\ \A u \in DOMAIN job : job[u] = "done")
      BY <1>10 DEF End
    <2>3. CASE stage # "upload"
      <3>1. stage' \in {"download", "dedup", "tokenize", "shard"}
        BY <2>1, <2>2, <2>3, NextStages
      <3> QED
        BY <3>1
    <2>4. CASE stage = "upload"
      <3>1. stage' = "upload" \/ (stage' = "published" /\ \A u \in DOMAIN job : job[u] = "done")
        BY <2>2, <2>4, NextStages
      <3>2. DOMAIN job = Objects
        BY <2>1, <2>4 DEF SpoolInv, Jobs, JobDomain
      <3>3. Objects' = Objects
        BY <2>1 DEF Objects
      <3> QED
        BY <2>1, <2>4, <3>1, <3>2, <3>3, NoTasks
    <2> QED
      BY <2>3, <2>4
  <1> QED
    BY <1>2, <1>3, <1>4, <1>5, <1>6, <1>7, <1>8, <1>9, <1>10 DEF PrepNext, Step

\* A dataset declared published is in the bucket whole: its index, its sidecars
\* and every shard, however often commands and puts failed on the way.
THEOREM PublishedHolds == PrepSpec => []PublishedWhole
  <1>1. PrepInit => SpoolInv /\ WholeInv
    BY SpoolsAtStart DEF PrepInit, WholeInv
  <1>2. (SpoolInv /\ WholeInv) /\ [PrepNext]_prepVars => (SpoolInv /\ WholeInv)'
    BY SpoolsKeep, WholeKeeps
  <1>3. SpoolInv /\ WholeInv => PublishedWhole
    BY DEF WholeInv, PublishedWhole, Objects, Files
  <1> QED
    BY <1>1, <1>2, <1>3, PTL DEF PrepSpec

-----------------------------------------------------------------------------
(***************************************************************************)
(* What the download records, it records once.                             *)
(***************************************************************************)

\* sp holds the first documents of seq, as many as it says.
Holds(sp, seq) == sp.docs <= Len(seq) /\ Recorded(sp) = SubSeq(seq, 1, sp.docs)

LEMMA NothingHolds ==
  ASSUME NEW sp \in Spool, Counts(sp), sp.docs = 0, NEW seq \in Seq(Nat)
  PROVE  Holds(sp, seq)
  <1>1. Recorded(sp) \in Seq(Nat) /\ Len(Recorded(sp)) = 0
    BY RecordedIsSeq
  <1>2. Recorded(sp) = <<>>
    BY <1>1, EmptySeq
  <1>3. SubSeq(seq, 1, 0) = <<>>
    BY SubSeqEmpty
  <1> QED
    BY <1>2, <1>3, LenProperties DEF Holds

\* The part is what follows n elements of seq, or nothing.
Follows(part, seq, n) ==
    part # <<>> => n + Len(part) <= Len(seq) /\ part = SubSeq(seq, n + 1, n + Len(part))

LEMMA NotedHolds ==
  ASSUME NEW seq \in Seq(Nat), NEW sp \in Spool, Counts(sp), Holds(sp, seq),
         Len(sp.files) = sp.parts + 1, Follows(Last(sp.files), seq, sp.docs)
  PROVE  Holds(Noted(sp), seq)
  <1> DEFINE part == Last(sp.files)
             n == sp.docs
             m == sp.docs + Len(part)
             w == Noted(sp)
  <1>1. part \in Seq(Nat) /\ Recorded(w) = Recorded(sp) \o part /\ w.docs = m
    BY NotedIs
  <1>2. n \in Nat /\ Len(part) \in Nat /\ Len(seq) \in Nat /\ Recorded(sp) \in Seq(Nat)
    BY <1>1, LenProperties, RecordedIsSeq DEF Spool
  <1>3. n <= Len(seq) /\ Recorded(sp) = SubSeq(seq, 1, n)
    BY DEF Holds
  <1>4. CASE part = <<>>
    <2>1. Len(part) = 0
      BY <1>4
    <2>2. m = n
      BY <1>2, <2>1
    <2>3. Recorded(sp) \o <<>> = Recorded(sp)
      BY <1>2, ConcatEmptySeq
    <2> QED
      BY <1>1, <1>3, <1>4, <2>2, <2>3 DEF Holds
  <1>5. CASE part # <<>>
    <2>1. m <= Len(seq) /\ part = SubSeq(seq, n + 1, m)
      BY <1>5 DEF Follows
    <2>2. n \in 0 .. Len(seq) /\ m \in n .. Len(seq)
      BY <1>2, <1>3, <2>1
    <2> HIDE DEF n, m, part, w
    <2>3. SubSeq(seq, 1, n) \o SubSeq(seq, n + 1, m) = SubSeq(seq, 1, m)
      BY <2>2, SubSeqJoin
    <2>4. Recorded(w) = SubSeq(seq, 1, m)
      BY <1>1, <1>3, <2>1, <2>3
    <2> QED
      BY <1>1, <2>1, <2>4 DEF Holds, w
  <1> QED
    BY <1>4, <1>5

LEMMA NextPartFollows ==
  ASSUME SpoolInv, up, stage \in {"download", "dedup"}, NEW u \in Spooling
  PROVE  Follows(NextPart(u), Input(u), spool[Root][u].docs)
  BY NextPartIs DEF SpoolInv, Follows

\* The spools of a source: its own directory's, and those of its workers.
Own(s) == spool["raw"][<<s, 0>>]
Worker(s, i) == spool["raw"][<<s, i>>]

\* A source is spooled in one stream, or among the workers it was split among.
OwnsHold == \A s \in Sources : Holds(Own(s), Stream[s])
WorkersHold ==
    \A s \in Sources, i \in 1 .. Workers :
        Worker(s, i).docs > 0 =>
            i <= split[s] /\ Own(s).docs = 0 /\ Holds(Worker(s, i), Nth(Stream[s], i, split[s]))

\* Workers are for good, and those that write are of the split.
Undivided == flags.dl = 0 => \A s \in Sources : split[s] = 0
Divided ==
    stage = "download" /\ flags.dl > 0 =>
        \A u \in DOMAIN job : job[u] # "off" => split[u[1]] = flags.dl /\ Own(u[1]).docs = 0

OnceInv == OwnsHold /\ WorkersHold /\ Undivided /\ Divided

LEMMA OnceSame ==
  ASSUME OnceInv, spool'["raw"] = spool["raw"], split' = split, flags'.dl = 0 => flags.dl = 0,
         stage' = "download" /\ flags'.dl > 0 =>
           \A u \in DOMAIN job' : job'[u] # "off" =>
             stage = "download" /\ flags'.dl = flags.dl /\ u \in DOMAIN job /\ job[u] # "off"
  PROVE  OnceInv'
  <1>1. OwnsHold' /\ WorkersHold'
    BY DEF OnceInv, OwnsHold, WorkersHold, Own, Worker
  <1>2. Undivided'
    BY DEF OnceInv, Undivided
  <1>3. Divided'
    BY DEF OnceInv, Divided, Own
  <1> QED
    BY <1>1, <1>2, <1>3 DEF OnceInv

\* The spools keep what they record, in count and content.
LEMMA OnceSpools ==
  ASSUME OnceInv, SpoolInv, split' = split, flags' = flags,
         \A v \in Units : /\ Recorded(spool'["raw"][v]) = Recorded(spool["raw"][v])
                          /\ spool'["raw"][v].docs = spool["raw"][v].docs,
         stage' = stage, DOMAIN job' = DOMAIN job, \A u \in DOMAIN job : job'[u] # "off" => job[u] # "off",
         stage = "download" => \A u \in DOMAIN job : u[1] \in Sources
  PROVE  OnceInv'
  <1>1. \A s \in Sources : <<s, 0>> \in Units /\ \A i \in 1 .. Workers : <<s, i>> \in Units
    BY WorkersNat DEF Units
  <1>2. OwnsHold'
    BY <1>1 DEF OnceInv, OwnsHold, Own, Holds
  <1>3. WorkersHold'
    BY <1>1 DEF OnceInv, WorkersHold, Own, Worker, Holds
  <1>4. Undivided'
    BY DEF OnceInv, Undivided
  <1>5. Divided'
    BY <1>1 DEF OnceInv, Divided, Own
  <1> QED
    BY <1>2, <1>3, <1>4, <1>5 DEF OnceInv

LEMMA CommitOnce ==
  ASSUME OnceInv, SpoolInv, NEW u \in DOMAIN job, Commit(u)
  PROVE  OnceInv'
  <1>1. /\ up /\ stage \in {"download", "dedup"} /\ u \in Spooling /\ u \in Units /\ SameInputs
        /\ job[u] = "write" /\ NextPart(u) \in Seq(Nat)
        /\ NextPart(u) = <<>> => /\ Puts(u, [spool[Root][u] EXCEPT !.complete = TRUE])
                                 /\ job' = [job EXCEPT ![u] = "done"]
        /\ NextPart(u) # <<>> => /\ Puts(u, Written(spool[Root][u], NextPart(u)))
                                 /\ job' = [job EXCEPT ![u] = "record"]
        /\ UNCHANGED <<stage, up, flags, at, split, tokens, dataset, faults>>
    BY CommitIs
  <1>2. spool[Root][u] \in Spool /\ Counts(spool[Root][u]) /\ DOMAIN job = Spooling /\ Spooling \subseteq Units
    BY <1>1, SpoolOf, SpoolingUnits DEF SpoolInv
  <1>3. PICK w : /\ Recorded(w) = Recorded(spool[Root][u]) /\ w.docs = spool[Root][u].docs /\ Puts(u, w)
                 /\ DOMAIN job' = DOMAIN job /\ \A v \in DOMAIN job : job'[v] # "off" => job[v] # "off"
    <2>1. CASE NextPart(u) = <<>>
      <3> DEFINE w == [spool[Root][u] EXCEPT !.complete = TRUE]
      <3>1. Recorded(w) = Recorded(spool[Root][u]) /\ w.docs = spool[Root][u].docs
        BY <1>2, CompletedIs
      <3>2. Puts(u, w) /\ job' = [job EXCEPT ![u] = "done"]
        BY <1>1, <2>1
      <3> HIDE DEF w
      <3>3. DOMAIN job' = DOMAIN job /\ \A v \in DOMAIN job : job'[v] # "off" => job[v] # "off"
        BY <1>1, <3>2
      <3> QED
        BY <3>1, <3>2, <3>3
    <2>2. CASE NextPart(u) # <<>>
      <3> DEFINE w == Written(spool[Root][u], NextPart(u))
      <3>1. Recorded(w) = Recorded(spool[Root][u]) /\ w.docs = spool[Root][u].docs
        BY <1>1, <1>2, WrittenIs
      <3>2. Puts(u, w) /\ job' = [job EXCEPT ![u] = "record"]
        BY <1>1, <2>2
      <3> HIDE DEF w
      <3>3. DOMAIN job' = DOMAIN job /\ \A v \in DOMAIN job : job'[v] # "off" => job[v] # "off"
        BY <1>1, <3>2
      <3> QED
        BY <3>1, <3>2, <3>3
    <2> QED
      BY <2>1, <2>2
  <1>4. \A v \in Units : /\ Recorded(spool'["raw"][v]) = Recorded(spool["raw"][v])
                         /\ spool'["raw"][v].docs = spool["raw"][v].docs
    BY <1>3, RootsAre DEF Puts
  <1>5. \A v \in DOMAIN job : v[1] \in Sources
    BY <1>2 DEF Units
  <1> QED
    BY <1>1, <1>3, <1>4, <1>5, OnceSpools

LEMMA RecordOnce ==
  ASSUME OnceInv, SpoolInv, NEW u \in DOMAIN job, Record(u)
  PROVE  OnceInv'
  <1> DEFINE sp == spool[Root][u]
             w == Noted(sp)
  <1>1. /\ up /\ stage \in {"download", "dedup"} /\ u \in Spooling /\ u \in Units /\ SameInputs
        /\ job[u] = "record" /\ Len(sp.files) = sp.parts + 1
        /\ Last(sp.files) = NextPart(u)
        /\ Puts(u, w) /\ job' = [job EXCEPT ![u] = "write"]
        /\ UNCHANGED <<stage, up, flags, at, split, tokens, dataset, faults>>
    BY RecordIs
  <1>2. sp \in Spool /\ Counts(sp) /\ DOMAIN job = Spooling /\ Spooling \subseteq Units
    BY <1>1, SpoolOf, SpoolingUnits DEF SpoolInv
  <1>3. DOMAIN job' = DOMAIN job /\ \A v \in DOMAIN job : job'[v] # "off" => job[v] # "off"
    BY <1>1
  <1>4. CASE stage = "dedup"
    <2>1. spool'["raw"] = spool["raw"]
      BY <1>1, <1>4 DEF SameInputs
    <2> QED
      BY <1>1, <1>4, <2>1, OnceSame
  <1>5. CASE stage = "download"
    <2>1. Root = "raw"
      BY <1>5, RootIs
    <2>2. \A v \in Units : spool'["raw"][v] = IF v = u THEN w ELSE spool["raw"][v]
      BY <1>1, <2>1, RootsAre DEF Puts
    <2>3. Follows(NextPart(u), Input(u), sp.docs)
      BY <1>1, NextPartFollows
    <2>4. Input(u) \in Seq(Nat)
      BY <1>1, InputIs DEF SpoolInv
    <2>5. flags.dl \in Nat /\ split \in [Sources -> Splits]
      BY WorkersNat DEF SpoolInv, PrepShape, Splits
    <2>6. \A s \in Sources : <<s, 0>> \in Units /\ \A i \in 1 .. Workers : <<s, i>> \in Units
      BY WorkersNat DEF Units
    <2>7. Undivided' /\ (OwnsHold /\ WorkersHold /\ Undivided /\ Divided)
      BY <1>1 DEF OnceInv, Undivided
    <2>8. CASE flags.dl = 0
      <3>1. PICK s \in Sources : u = <<s, 0>>
        BY <1>1, <1>5, <2>8 DEF Spooling
      <3>2. Input(u) = Stream[s] /\ sp = Own(s)
        BY <1>5, <2>1, <2>8, <3>1 DEF Input, Own
      <3>3. Holds(w, Stream[s])
        BY <1>1, <1>2, <2>3, <2>4, <2>7, <3>2, NotedHolds DEF OwnsHold
      <3> HIDE DEF w, sp
      <3>4. OwnsHold'
        <4> SUFFICES ASSUME NEW t \in Sources PROVE Holds(spool'["raw"][<<t, 0>>], Stream[t])
          BY DEF OwnsHold, Own
        <4>1. CASE t = s
          BY <2>2, <2>6, <3>1, <3>3, <4>1
        <4>2. CASE t # s
          <5>1. <<t, 0>> # u
            BY <3>1, <4>2
          <5>2. spool'["raw"][<<t, 0>>] = Own(t)
            BY <2>2, <2>6, <5>1 DEF Own
          <5> QED
            BY <2>7, <5>2 DEF OwnsHold
        <4> QED
          BY <4>1, <4>2
      <3>5. WorkersHold'
        <4> SUFFICES ASSUME NEW t \in Sources, NEW i \in 1 .. Workers, spool'["raw"][<<t, i>>].docs > 0
                     PROVE  FALSE
          BY DEF WorkersHold, Worker
        <4>0. i # 0
          BY WorkersNat
        <4>1. <<t, i>> # u /\ <<t, i>> \in Units
          BY <2>6, <3>1, <4>0
        <4>2. Worker(t, i).docs > 0
          BY <2>2, <4>1 DEF Worker
        <4>3. i <= split[t] /\ split[t] = 0
          BY <2>7, <2>8, <4>2 DEF WorkersHold, Undivided
        <4> QED
          BY <4>3
      <3>6. Divided'
        BY <1>1, <2>8 DEF Divided
      <3> QED
        BY <2>7, <3>4, <3>5, <3>6 DEF OnceInv
    <2>9. CASE flags.dl # 0
      <3>0. flags.dl > 0
        BY <2>5, <2>9
      <3>1. PICK s \in Sources, i \in 1 .. flags.dl : u = <<s, i>>
        BY <1>1, <1>5, <2>9 DEF Spooling
      <3>2. i \in 1 .. Workers /\ i \in 1 .. flags.dl
        <4>1. flags.dl \in Splits
          BY DEF SpoolInv, PrepShape
        <4> QED
          BY <2>9, <3>1, <4>1, WorkersNat DEF Splits
      <3>3. Input(u) = Nth(Stream[s], i, flags.dl) /\ sp = Worker(s, i)
        BY <1>5, <2>1, <3>0, <3>1 DEF Input, Worker
      <3>4. split[s] = flags.dl /\ Own(s).docs = 0
        <4>1. u[1] = s /\ job[u] # "off"
          BY <1>1, <3>1
        <4> QED
          BY <1>5, <2>7, <3>0, <4>1 DEF Divided
      <3>5. Holds(sp, Input(u))
        <4>1. CASE sp.docs = 0
          BY <1>2, <2>4, <4>1, NothingHolds
        <4>2. CASE sp.docs # 0
          <5>1. sp.docs > 0
            BY <1>2, <4>2 DEF Spool
          <5> QED
            BY <2>7, <3>2, <3>3, <3>4, <5>1 DEF WorkersHold
        <4> QED
          BY <4>1, <4>2
      <3>6. Holds(w, Nth(Stream[s], i, flags.dl))
        BY <1>1, <1>2, <2>3, <2>4, <3>3, <3>5, NotedHolds
      <3> HIDE DEF w, sp
      <3>7. \A t \in Sources : spool'["raw"][<<t, 0>>] = spool["raw"][<<t, 0>>]
        <4> TAKE t \in Sources
        <4>1. <<t, 0>> # u
          BY <3>1
        <4> QED
          BY <2>2, <2>6, <4>1
      <3>8. OwnsHold'
        BY <2>7, <3>7 DEF OwnsHold, Own
      <3>9. WorkersHold'
        <4> SUFFICES ASSUME NEW t \in Sources, NEW j \in 1 .. Workers, spool'["raw"][<<t, j>>].docs > 0
                     PROVE  /\ j <= split[t] /\ Own(t).docs = 0
                            /\ Holds(spool'["raw"][<<t, j>>], Nth(Stream[t], j, split[t]))
          BY <1>1, <3>7 DEF WorkersHold, Worker, Own
        <4>1. CASE <<t, j>> = u
          <5>1. t = s /\ j = i
            BY <3>1, <4>1
          <5>2. spool'["raw"][<<t, j>>] = w
            BY <1>1, <2>2, <4>1
          <5> QED
            BY <3>1, <3>4, <3>6, <5>1, <5>2
        <4>2. CASE <<t, j>> # u
          <5>1. spool'["raw"][<<t, j>>] = Worker(t, j)
            BY <2>2, <2>6, <4>2 DEF Worker
          <5> QED
            BY <2>7, <5>1 DEF WorkersHold
        <4> QED
          BY <4>1, <4>2
      <3>10. Divided'
        <4>1. \A v \in DOMAIN job : v[1] \in Sources
          BY <1>2 DEF Units
        <4> QED
          BY <1>1, <1>3, <2>7, <3>7, <4>1 DEF Divided, Own
      <3> QED
        BY <2>7, <3>8, <3>9, <3>10 DEF OnceInv
    <2> QED
      BY <2>8, <2>9
  <1> QED
    BY <1>1, <1>4, <1>5

\* A discarded source has nothing, and no writer of it runs.
LEMMA DiscardOnce ==
  ASSUME OnceInv, SpoolInv, NEW s \in Sources, Discard(s)
  PROVE  OnceInv'
  <1>1. /\ flags.dl > 0 /\ UNCHANGED <<stage, flags, job>>
        /\ DOMAIN job = Spooling /\ Spooling \subseteq Units
        /\ \A v \in DOMAIN job : v[1] = s => job[v] = "off"
        /\ \A v \in Units : spool'["raw"][v] = IF v[1] = s THEN NewSpool ELSE spool["raw"][v]
        /\ split' = [split EXCEPT ![s] = 0]
    BY DiscardIs
  <1>2. \A t \in Sources : /\ <<t, 0>> \in Units /\ Stream[t] \in Seq(Nat)
                           /\ \A i \in 1 .. Workers : <<t, i>> \in Units
    <2>1. Stream \in [Sources -> Seq(Nat)]
      BY DataPrepAssumption
    <2> QED
      BY <2>1, WorkersNat DEF Units
  <1>3. split \in [Sources -> Splits] /\ \A t \in Sources : t # s => split'[t] = split[t]
    BY <1>1 DEF SpoolInv, PrepShape
  <1>4. NewSpool \in Spool /\ Counts(NewSpool) /\ NewSpool.docs = 0
    BY NewSpoolIs DEF NewSpool
  <1>5. OwnsHold'
    <2> SUFFICES ASSUME NEW t \in Sources PROVE Holds(spool'["raw"][<<t, 0>>], Stream[t])
      BY DEF OwnsHold, Own
    <2>1. CASE t = s
      <3>1. spool'["raw"][<<t, 0>>] = NewSpool
        BY <1>1, <1>2, <2>1
      <3> QED
        BY <1>2, <1>4, <3>1, NothingHolds
    <2>2. CASE t # s
      BY <1>1, <1>2, <2>2 DEF OnceInv, OwnsHold, Own
    <2> QED
      BY <2>1, <2>2
  <1>6. WorkersHold'
    <2> SUFFICES ASSUME NEW t \in Sources, NEW i \in 1 .. Workers, spool'["raw"][<<t, i>>].docs > 0
                 PROVE  /\ i <= split'[t] /\ spool'["raw"][<<t, 0>>].docs = 0
                        /\ Holds(spool'["raw"][<<t, i>>], Nth(Stream[t], i, split'[t]))
      BY DEF WorkersHold, Worker, Own
    <2>1. t # s
      <3> SUFFICES ASSUME t = s PROVE FALSE
        OBVIOUS
      <3>1. spool'["raw"][<<s, i>>] = NewSpool
        BY <1>1, <1>2
      <3>2. NewSpool.docs > 0
        BY <3>1
      <3> QED
        BY <1>4, <3>2
    <2>2. /\ spool'["raw"][<<t, i>>] = spool["raw"][<<t, i>>]
          /\ spool'["raw"][<<t, 0>>] = spool["raw"][<<t, 0>>] /\ split'[t] = split[t]
      BY <1>1, <1>2, <1>3, <2>1
    <2> QED
      BY <2>2 DEF OnceInv, WorkersHold, Worker, Own
  <1>7. Undivided'
    BY <1>1 DEF Undivided
  <1>8. Divided'
    <2> SUFFICES ASSUME NEW u \in DOMAIN job, job[u] # "off", stage = "download", flags.dl > 0
                 PROVE  split'[u[1]] = flags.dl /\ spool'["raw"][<<u[1], 0>>].docs = 0
      BY <1>1 DEF Divided, Own
    <2>1. u[1] \in Sources /\ u[1] # s
      BY <1>1 DEF Units
    <2>2. spool'["raw"][<<u[1], 0>>] = spool["raw"][<<u[1], 0>>] /\ split'[u[1]] = split[u[1]]
      BY <1>1, <1>2, <1>3, <2>1
    <2> QED
      BY <2>2 DEF OnceInv, Divided, Own
  <1> QED
    BY <1>5, <1>6, <1>7, <1>8 DEF OnceInv

LEMMA PrepareOnce ==
  ASSUME OnceInv, SpoolInv, NEW s \in Sources, Prepare(s)
  PROVE  OnceInv'
  <1> DEFINE parallel == stage = "download" /\ flags.dl > 0
  <1>1. /\ ~Refused(s) /\ ~Clashes(s) /\ UNCHANGED <<stage, flags, spool>>
        /\ DOMAIN job = Spooling /\ Spooling \subseteq Units
        /\ DOMAIN job' = DOMAIN job
        /\ \A v \in DOMAIN job : v[1] # s => job'[v] = job[v]
        /\ split' = IF parallel THEN [split EXCEPT ![s] = flags.dl] ELSE split
    BY PrepareIs
  <1>2. /\ flags.dl \in Splits /\ split \in [Sources -> Splits] /\ flags.dl \in Nat /\ Splits \subseteq Nat
        /\ spool["raw"][<<s, 0>>] \in Spool /\ <<s, 0>> \in Units
    BY WorkersNat, RootsAre DEF SpoolInv, PrepShape, Splits, Units
  <1>3. OwnsHold /\ WorkersHold /\ Undivided /\ Divided
    BY DEF OnceInv
  <1>4. CASE ~parallel
    <2>1. ~(stage' = "download" /\ flags'.dl > 0)
      BY <1>1, <1>4
    <2> QED
      BY <1>1, <1>4, <2>1, OnceSame
  <1>5. CASE parallel
    <2>1. split'[s] = flags.dl /\ flags.dl > 0 /\ split[s] \in {0, flags.dl} /\ ~(Own(s).docs > 0)
      BY <1>1, <1>2, <1>5 DEF Refused, Clashes, Legacy, Own
    <2>2. \A t \in Sources : t # s => split'[t] = split[t]
      BY <1>1, <1>2, <1>5
    <2>3. Own(s).docs = 0
      BY <1>2, <2>1 DEF Spool, Own
    <2> HIDE DEF parallel
    <2>4. OwnsHold'
      BY <1>1, <1>3 DEF OwnsHold, Own
    <2>5. WorkersHold'
      <3> SUFFICES ASSUME NEW t \in Sources, NEW i \in 1 .. Workers, Worker(t, i).docs > 0
                   PROVE  /\ i <= split'[t] /\ Own(t).docs = 0
                          /\ Holds(Worker(t, i), Nth(Stream[t], i, split'[t]))
        BY <1>1 DEF WorkersHold, Worker, Own
      <3>1. i <= split[t] /\ Own(t).docs = 0 /\ Holds(Worker(t, i), Nth(Stream[t], i, split[t]))
        BY <1>3 DEF WorkersHold
      <3>2. split[t] \in Nat
        BY <1>2
      <3>3. split'[t] = split[t]
        BY <2>1, <2>2, <3>1, <3>2
      <3> QED
        BY <3>1, <3>3
    <2>6. Undivided'
      BY <1>1, <2>1 DEF Undivided
    <2>7. Divided'
      <3> SUFFICES ASSUME NEW u \in DOMAIN job, job'[u] # "off", stage = "download", flags.dl > 0
                   PROVE  split'[u[1]] = flags.dl /\ Own(u[1]).docs = 0
        BY <1>1 DEF Divided, Own
      <3>1. CASE u[1] = s
        BY <2>1, <2>3, <3>1
      <3>2. CASE u[1] # s
        <4>1. u[1] \in Sources
          BY <1>1 DEF Units
        <4>2. split[u[1]] = flags.dl /\ Own(u[1]).docs = 0
          BY <1>1, <1>3, <3>2 DEF Divided
        <4> QED
          BY <2>2, <3>2, <4>1, <4>2
      <3> QED
        BY <3>1, <3>2
    <2> QED
      BY <2>4, <2>5, <2>6, <2>7 DEF OnceInv
  <1> QED
    BY <1>4, <1>5

LEMMA OnceKeeps ==
  ASSUME Steady, OnceInv, SpoolInv, [PrepNext]_prepVars
  PROVE  OnceInv'
  <1>1. ASSUME UNCHANGED prepVars PROVE OnceInv'
    BY <1>1, OnceSame DEF prepVars
  <1>2. ASSUME Begin \/ BeginTokenize PROVE OnceInv'
    <2>1. /\ spool' = spool /\ split' = split /\ \A u \in DOMAIN job' : job'[u] = "off"
          /\ flags' \in Rerun /\ flags.dl \in Nat
      BY <1>2, WorkersNat DEF Begin, BeginTokenize, SpoolInv, PrepShape, Splits
    <2>2. flags'.dl = 0 => flags.dl = 0
      BY <2>1 DEF Rerun
    <2> QED
      BY <2>1, <2>2, OnceSame
  <1>3. ASSUME BeginUpload \/ End \/ Kill \/ Shard \/ Manifest \/ Verify PROVE OnceInv'
    <2>1. spool' = spool /\ split' = split
      BY <1>3 DEF BeginUpload, End, Kill, Shard, Manifest, Verify
    <2>2. flags'.dl = flags.dl
      BY <1>3 DEF BeginUpload, End, Kill, Shard, Manifest, Verify, SpoolInv, PrepShape
    <2>3. job' = <<>> \/ stage' # "download"
      <3>1. CASE BeginUpload
        BY <3>1 DEF BeginUpload
      <3>2. CASE End \/ Kill
        BY <3>2 DEF End, Kill
      <3>3. CASE Shard \/ Manifest \/ Verify
        <4>1. job' = job /\ stage \in {"shard", "manifest", "verify"}
          BY <3>3 DEF Shard, Manifest, Verify
        <4> QED
          BY <4>1 DEF SpoolInv, Jobs, Concurrent
      <3> QED
        BY <1>3, <3>1, <3>2, <3>3
    <2> QED
      BY <2>1, <2>2, <2>3, NoTasks, OnceSame
  <1>4. ASSUME NEW s \in Sources, Refuse(s) PROVE OnceInv'
    <2>1. spool' = spool /\ split' = split /\ job' = <<>> /\ Refused(s)
      BY <1>4 DEF Refuse
    <2>2. flags \in [dl : Splits, discard : BOOLEAN, dd : BOOLEAN, tok : Nat]
      BY DEF SpoolInv, PrepShape
    <2>3. flags'.dl = 0 => flags.dl = 0
      <3>1. CASE Legacy(s)
        BY <1>4, <2>2, <3>1 DEF Refuse
      <3>2. CASE ~Legacy(s)
        <4>1. flags'.dl = split[s]
          BY <1>4, <2>2, <3>2 DEF Refuse
        <4> QED
          BY <2>1, <3>2, <4>1 DEF Refused
      <3> QED
        BY <3>1, <3>2
    <2> QED
      BY <2>1, <2>3, NoTasks, OnceSame
  <1>5. ASSUME NEW u \in DOMAIN job, \/ Open(u) \/ Flush(u) \/ Put(u) \/ WorkerFails(u) \/ PutFails(u)
        PROVE  OnceInv'
    <2>1. UNCHANGED <<stage, spool, split, flags>>
      BY <1>5 DEF Open, Flush, Put, WorkerFails, PutFails
    <2>2. stage = "download" => job' = [job EXCEPT ![u] = "failed"] /\ job[u] # "off"
      BY <1>5 DEF Open, Flush, Put, WorkerFails, PutFails
    <2>3. stage = "download" => \A v \in DOMAIN job' : v \in DOMAIN job /\ (job'[v] # "off" => job[v] # "off")
      BY <2>2
    <2> QED
      BY <2>1, <2>3, OnceSame
  <1>6. ASSUME NEW u \in DOMAIN job, Commit(u) \/ Record(u) PROVE OnceInv'
    BY <1>6, CommitOnce, RecordOnce
  <1>7. ASSUME NEW s \in Sources, Discard(s) \/ Prepare(s) PROVE OnceInv'
    BY <1>7, DiscardOnce, PrepareOnce
  <1> QED
    BY <1>1, <1>2, <1>3, <1>4, <1>5, <1>6, <1>7 DEF PrepNext, Step

LEMMA OnceAtStart == PrepInit => OnceInv
  <1> SUFFICES ASSUME PrepInit PROVE OnceInv
    OBVIOUS
  <1>1. \A v \in Units : spool["raw"][v] = NewSpool
    BY RootsAre DEF PrepInit
  <1>2. NewSpool \in Spool /\ Counts(NewSpool) /\ NewSpool.docs = 0
    BY NewSpoolIs DEF NewSpool
  <1>3. \A s \in Sources : /\ Own(s) = NewSpool /\ \A i \in 1 .. Workers : Worker(s, i) = NewSpool
                           /\ Stream[s] \in Seq(Nat)
    <2>1. \A s \in Sources : <<s, 0>> \in Units /\ \A i \in 1 .. Workers : <<s, i>> \in Units
      BY WorkersNat DEF Units
    <2>2. Stream \in [Sources -> Seq(Nat)]
      BY DataPrepAssumption
    <2> QED
      BY <1>1, <2>1, <2>2 DEF Own, Worker
  <1>4. OwnsHold
    BY <1>2, <1>3, NothingHolds DEF OwnsHold
  <1>5. WorkersHold
    BY <1>2, <1>3 DEF WorkersHold
  <1>6. Undivided /\ Divided
    BY NoTasks DEF PrepInit, Undivided, Divided
  <1> QED
    BY <1>4, <1>5, <1>6 DEF OnceInv

LEMMA HeldIsPrefix ==
  ASSUME NEW sp \in Spool, Counts(sp), NEW seq \in Seq(Nat), Holds(sp, seq)
  PROVE  IsPrefix(Recorded(sp), seq)
  <1>1. Recorded(sp) \in Seq(Nat) /\ Len(Recorded(sp)) = sp.docs /\ sp.docs \in Nat /\ Len(seq) \in Nat
    BY RecordedIsSeq, LenProperties DEF Counts, Spool
  <1>2. sp.docs <= Len(seq) /\ Recorded(sp) = SubSeq(seq, 1, sp.docs)
    BY DEF Holds
  <1>3. SubSeq(Recorded(sp), 1, sp.docs) = Recorded(sp)
    BY <1>1, SubSeqFull
  <1> QED
    BY <1>1, <1>2, <1>3 DEF IsPrefix

\* However often the download is killed, loses workers, is refused or turns to
\* workers, what its spools record is a prefix of the stream or of the shares
\* of it, once each.
THEOREM SpooledOnceHolds == ASSUME Steady PROVE PrepSpec => []SpooledOnce
  <1>1. PrepInit => SpoolInv /\ OnceInv
    BY SpoolsAtStart, OnceAtStart
  <1>2. (SpoolInv /\ OnceInv) /\ [PrepNext]_prepVars => (SpoolInv /\ OnceInv)'
    BY SpoolsKeep, OnceKeeps
  <1>3. SpoolInv /\ OnceInv => SpooledOnce
    <2> SUFFICES ASSUME SpoolInv, OnceInv, NEW s \in Sources
                 PROVE  /\ IsPrefix(Recorded(spool["raw"][<<s, 0>>]), Stream[s])
                        /\ \A i \in 1 .. Workers :
                             Recorded(spool["raw"][<<s, i>>]) # <<>> =>
                               /\ Recorded(spool["raw"][<<s, 0>>]) = <<>>
                               /\ IsPrefix(Recorded(spool["raw"][<<s, i>>]), Nth(Stream[s], i, split[s]))
      BY DEF SpooledOnce
    <2>1. \A v \in Units : spool["raw"][v] \in Spool /\ Counts(spool["raw"][v])
      BY RootsAre DEF SpoolInv, PrepShape
    <2>2. <<s, 0>> \in Units /\ Stream[s] \in Seq(Nat) /\ split[s] \in Splits
      BY WorkersNat, DataPrepAssumption DEF Units, SpoolInv, PrepShape
    <2>3. IsPrefix(Recorded(spool["raw"][<<s, 0>>]), Stream[s])
      BY <2>1, <2>2, HeldIsPrefix DEF OnceInv, OwnsHold, Own
    <2>4. ASSUME NEW i \in 1 .. Workers, Recorded(spool["raw"][<<s, i>>]) # <<>>
          PROVE  /\ Recorded(spool["raw"][<<s, 0>>]) = <<>>
                 /\ IsPrefix(Recorded(spool["raw"][<<s, i>>]), Nth(Stream[s], i, split[s]))
      <3>1. <<s, i>> \in Units /\ i \in Nat \ {0}
        BY WorkersNat DEF Units
      <3>2. Worker(s, i) \in Spool /\ Counts(Worker(s, i)) /\ Own(s) \in Spool /\ Counts(Own(s))
        BY <2>1, <2>2, <3>1 DEF Worker, Own
      <3>3. Recorded(Worker(s, i)) \in Seq(Nat) /\ Recorded(Own(s)) \in Seq(Nat)
        BY <3>2, RecordedIsSeq
      <3>4. Worker(s, i).docs > 0
        <4>1. Len(Recorded(Worker(s, i))) # 0
          BY <2>4, <3>3, EmptySeq DEF Worker
        <4> QED
          BY <3>2, <4>1 DEF Counts, Spool
      <3>5. i <= split[s] /\ Own(s).docs = 0 /\ Holds(Worker(s, i), Nth(Stream[s], i, split[s]))
        BY <3>4 DEF OnceInv, WorkersHold
      <3>6. Nth(Stream[s], i, split[s]) \in Seq(Nat)
        <4>1. split[s] \in Nat \ {0} /\ i \in 1 .. split[s]
          BY <2>2, <3>1, <3>5, WorkersNat DEF Splits
        <4> QED
          BY <2>2, <4>1, NthIsSeq
      <3>7. Recorded(Own(s)) = <<>>
        BY <3>2, <3>3, <3>5, EmptySeq DEF Counts
      <3> QED
        BY <3>2, <3>5, <3>6, <3>7, HeldIsPrefix DEF Own, Worker
    <2> QED
      BY <2>3, <2>4
  <1> QED
    BY <1>1, <1>2, <1>3, PTL DEF PrepSpec

-----------------------------------------------------------------------------
(***************************************************************************)
(* What the index commits to is the corpus.                                *)
(***************************************************************************)

\* What a deduplication spools, and where.
DedupTasks == IF flags.dd THEN {u \in Units : spool["raw"][u].parts > 0}
              ELSE {s \in Sources : Kept(spool["raw"], s) # <<>>} \X {0}
DedupInput(u) == IF flags.dd THEN Survivors(spool["raw"], u) ELSE Kept(spool["raw"], u[1])
Corpus == Cut(FlattenSeq([k \in DOMAIN Order |-> Kept(spool["raw"], Order[k])]), SeqLen)

\* The stages after each.
Indexed == {"verify", "upload", "published"}
Sharded == {"manifest"} \cup Indexed
Tokenized == {"shard"} \cup Sharded
Deduped == {"tokenize"} \cup Tokenized

\* The later commands have left nothing before their turn.
Fresh ==
    /\ stage = "download" => \A u \in Units : spool["dedup"][u] = NewSpool
    /\ stage \in {"download", "dedup"} => DOMAIN tokens = {}

\* sp holds documents of seq, and all of them once it is complete.
Fills(sp, seq) == Holds(sp, seq) /\ (sp.complete => sp.docs = Len(seq))

\* A deduplication writes to the spools it should, and what it should.
Filling ==
    stage # "download" => \A u \in Units :
        /\ u \notin DedupTasks => spool["dedup"][u] = NewSpool
        /\ u \in DedupTasks => Fills(spool["dedup"][u], DedupInput(u))

\* Its tasks end with their spools complete; and the command with them all.
Filled ==
    /\ stage = "dedup" => \A u \in DOMAIN job : job[u] = "done" => spool["dedup"][u].complete
    /\ stage \in Deduped => \A u \in DedupTasks : spool["dedup"][u].complete

\* The token file of t holds the first documents of its text.
Opened(t) ==
    /\ t \in DOMAIN tokens /\ Len(tokens[t]) \in 0 .. Len(Text(t))
    /\ tokens[t] = SubSeq(Text(t), 1, Len(tokens[t]))

\* The token files of the tasks that have run are as long as their tasks say.
Tokenizing ==
    stage = "tokenize" =>
        /\ DOMAIN tokens \subseteq Tasks
        /\ \A t \in DOMAIN job : /\ job[t] \in {"write", "done"} => Opened(t)
                                 /\ job[t] = "done" => tokens[t] = Text(t)

\* There are the files of this layout and no others, and they are whole.
AllTokenized ==
    stage \in Tokenized => DOMAIN tokens = Tasks /\ \A t \in Tasks : tokens[t] = Text(t)

\* The shards hold the corpus, and the index is theirs.
AllSharded == stage \in Sharded => FlattenSeq(metas) = Corpus
AllIndexed == stage \in Indexed \/ (stage = "manifest" /\ at # 0) => index = metas

CorpusInv == Fresh /\ Filling /\ Filled /\ Tokenizing /\ AllTokenized /\ AllSharded /\ AllIndexed

LEMMA TextsStay ==
  ASSUME spool'["dedup"] = spool["dedup"], flags'.tok = flags.tok
  PROVE  Tasks' = Tasks /\ \A t : Text(t)' = Text(t)
  <1>1. \A s : Chunked(s)' = Chunked(s)
    BY DEF Chunked
  <1>2. Tasks' = Tasks
    BY <1>1 DEF Tasks
  <1>3. \A t : Text(t)' = Text(t)
    BY <1>1 DEF Text
  <1> QED
    BY <1>2, <1>3

LEMMA DedupStays ==
  ASSUME spool'["raw"] = spool["raw"], flags'.dd = flags.dd
  PROVE  DedupTasks' = DedupTasks /\ Corpus' = Corpus /\ \A u : DedupInput(u)' = DedupInput(u)
  BY DEF DedupTasks, Corpus, DedupInput

\* A step that only ever takes tasks back.
LEMMA CorpusSame ==
  ASSUME CorpusInv, UNCHANGED <<stage, spool, tokens, metas, index>>,
         flags'.dd = flags.dd, flags'.tok = flags.tok,
         stage \in {"dedup", "tokenize"} =>
           \A u \in DOMAIN job' : job'[u] \in {"write", "done"} => u \in DOMAIN job /\ job'[u] = job[u],
         at' # 0 => at # 0
  PROVE  CorpusInv'
  <1>1. Tasks' = Tasks /\ \A t : Text(t)' = Text(t)
    BY TextsStay
  <1>2. DedupTasks' = DedupTasks /\ Corpus' = Corpus /\ \A u : DedupInput(u)' = DedupInput(u)
    BY DedupStays
  <1>3. Fresh'
    BY DEF CorpusInv, Fresh
  <1>4. Filling'
    BY <1>2 DEF CorpusInv, Filling
  <1>5. Filled'
    BY <1>2 DEF CorpusInv, Filled
  <1>6. Tokenizing'
    <2>1. \A t : Opened(t)' = Opened(t)
      BY <1>1 DEF Opened
    <2> QED
      BY <1>1, <2>1 DEF CorpusInv, Tokenizing
  <1>7. AllTokenized'
    BY <1>1 DEF CorpusInv, AllTokenized
  <1>8. AllSharded' /\ AllIndexed'
    BY <1>2 DEF CorpusInv, AllSharded, AllIndexed
  <1> QED
    BY <1>3, <1>4, <1>5, <1>6, <1>7, <1>8 DEF CorpusInv

\* A full spool records what it was to hold.
LEMMA FilledIs ==
  ASSUME NEW sp \in Spool, Counts(sp), NEW seq \in Seq(Nat), Fills(sp, seq), sp.complete
  PROVE  Recorded(sp) = seq
  BY SubSeqFull DEF Fills, Holds

\* Deduplicated in one pass or in two, a source reads the same.
LEMMA DedupedIs ==
  ASSUME SpoolInv, Filling, Filled, stage \in Deduped, NEW s \in Sources
  PROVE  Read(spool["dedup"], s) = Kept(spool["raw"], s)
  <1> DEFINE raw == spool["raw"]
             out == spool["dedup"]
  <1>1. Counted(raw) /\ Counted(out) /\ Workers \in Nat /\ stage # "download"
    BY BothCounted, WorkersNat DEF SpoolInv, Deduped, Tokenized, Sharded, Indexed
  <1>2. /\ \A u \in Units : u \notin DedupTasks => out[u] = NewSpool
        /\ \A u \in Units : u \in DedupTasks => Fills(out[u], DedupInput(u)) /\ out[u].complete
    BY <1>1 DEF Filling, Filled
  <1>3. Recorded(NewSpool) = <<>>
    BY NewSpoolIs
  <1>4. \A i \in 1 .. Workers + 1 : <<s, i - 1>> \in Units /\ i - 1 \in 0 .. Workers
    BY <1>1 DEF Units
  <1>5. Kept(raw, s) \in Seq(Nat) /\ \A u \in Units : Survivors(raw, u) \in Seq(Nat)
    BY <1>1, KeptIsSeq, SurvivorsIsSeq
  <1>6. \A u \in Units : out[u] \in Spool /\ Counts(out[u]) /\ raw[u] \in Spool
    BY <1>1 DEF Counted
  <1>7. Read(out, s) = FlattenSeq([i \in 1 .. Workers + 1 |-> Recorded(out[<<s, i - 1>>])])
    BY DEF Read
  <1> HIDE DEF raw, out
  <1>8. CASE flags.dd
    <2>1. \A u \in Units : Recorded(out[u]) = Survivors(raw, u)
      <3> TAKE u \in Units
      <3>1. CASE raw[u].parts > 0
        <4>1. u \in DedupTasks /\ DedupInput(u) = Survivors(raw, u)
          BY <1>8, <3>1 DEF DedupTasks, DedupInput, raw
        <4> QED
          BY <1>2, <1>5, <1>6, <4>1, FilledIs
      <3>2. CASE ~(raw[u].parts > 0)
        <4>1. u \notin DedupTasks
          BY <1>8, <3>2 DEF DedupTasks, raw
        <4>2. raw[u].parts = 0
          BY <1>6, <3>2 DEF Spool
        <4>3. Survivors(raw, u) = <<>>
          <5>1. Recorded(raw[u]) = <<>>
            BY <1>6, <4>2, NothingRecorded
          <5> QED
            BY <5>1, MaskedNothing DEF Survivors
        <4> QED
          BY <1>2, <1>3, <4>1, <4>3
      <3> QED
        BY <3>1, <3>2
    <2>2. [i \in 1 .. Workers + 1 |-> Recorded(out[<<s, i - 1>>])] =
            [i \in 1 .. Workers + 1 |-> Survivors(raw, <<s, i - 1>>)]
      BY <1>4, <2>1
    <2> QED
      BY <1>1, <1>7, <2>2, TwoPass DEF raw, out
  <1>9. CASE ~flags.dd
    <2> DEFINE f == [i \in 1 .. Workers + 1 |-> Recorded(out[<<s, i - 1>>])]
    <2>0. 1 \in 1 .. Workers + 1 /\ 1 - 1 = 0
      BY <1>1
    <2>1. f[1] = Recorded(out[<<s, 0>>]) /\ <<s, 0>> \in Units
      BY <1>4, <2>0
    <2>2. f[1] = Kept(raw, s)
      <3>1. CASE Kept(raw, s) # <<>>
        <4>1. <<s, 0>> \in DedupTasks /\ DedupInput(<<s, 0>>) = Kept(raw, s)
          BY <1>9, <3>1 DEF DedupTasks, DedupInput, raw
        <4>2. Fills(out[<<s, 0>>], Kept(raw, s)) /\ out[<<s, 0>>].complete
          BY <1>2, <2>1, <4>1
        <4> HIDE DEF f
        <4> QED
          BY <1>5, <1>6, <2>1, <4>2, FilledIs
      <3>2. CASE Kept(raw, s) = <<>>
        <4>1. <<s, 0>> \notin DedupTasks
          BY <1>9, <3>2 DEF DedupTasks, raw
        <4> HIDE DEF f
        <4> QED
          BY <1>2, <1>3, <2>1, <3>2, <4>1
      <3> QED
        BY <3>1, <3>2
    <2>3. \A i \in 2 .. Workers + 1 : f[i] = <<>>
      <3> TAKE i \in 2 .. Workers + 1
      <3>1. i \in 1 .. Workers + 1 /\ i - 1 # 0
        BY <1>1
      <3>2. <<s, i - 1>> \notin DedupTasks
        BY <1>9, <3>1 DEF DedupTasks
      <3>3. f[i] = Recorded(out[<<s, i - 1>>])
        BY <3>1
      <3> HIDE DEF f
      <3> QED
        BY <1>2, <1>3, <1>4, <3>1, <3>2, <3>3
    <2>4. f = [i \in 1 .. Workers + 1 |-> f[i]]
      OBVIOUS
    <2>5. Read(out, s) = FlattenSeq(f)
      BY <1>7
    <2> HIDE DEF f
    <2>6. FlattenSeq(f) = Kept(raw, s)
      BY <1>1, <1>5, <2>2, <2>3, <2>4, FlattenFirst
    <2> QED
      BY <2>5, <2>6 DEF raw, out
  <1> QED
    BY <1>8, <1>9

\* From one file or from numbered chunks, a source's tokens are its documents.
LEMMA DiscoveredIs ==
  ASSUME SpoolInv, AllTokenized, stage \in Tokenized, NEW s \in Sources, \E t \in DOMAIN tokens : t[1] = s
  PROVE  Discovered(s) = Read(spool["dedup"], s)
  <1> DEFINE numbers == {t[2] : t \in {x \in DOMAIN tokens : x[1] = s}}
             chunks == Chunked(s)
             n == Len(chunks)
  <1>1. DOMAIN tokens = Tasks /\ \A t \in Tasks : tokens[t] = Text(t)
    BY DEF AllTokenized
  <1>2. flags.tok \in Nat /\ Counted(spool["dedup"])
    BY BothCounted DEF SpoolInv, PrepShape
  <1>3. CASE flags.tok = 0
    <2>1. Tasks = Sources \X {0}
      BY <1>3 DEF Tasks
    <2>2. 0 \in numbers
      <3>1. <<s, 0>> \in {x \in DOMAIN tokens : x[1] = s} /\ <<s, 0>>[2] = 0
        BY <1>1, <2>1
      <3> QED
        BY <3>1
    <2>3. Discovered(s) = tokens[<<s, 0>>]
      BY <2>2 DEF Discovered
    <2>4. <<s, 0>> \in Tasks
      BY <2>1
    <2> QED
      BY <1>1, <2>3, <2>4 DEF Text
  <1>4. CASE flags.tok # 0
    <2>1. Tasks = UNION {{t} \X (1 .. Len(Chunked(t))) : t \in Sources}
      BY <1>4 DEF Tasks
    <2>2. chunks \in Seq(Seq(Nat)) /\ FlattenSeq(chunks) = Read(spool["dedup"], s)
      BY <1>2, <1>4, GroupsAre DEF Chunked
    <2>3. n \in Nat
      BY <2>2, LenProperties
    <2>4. \A k : <<s, k>> \in Tasks <=> k \in 1 .. n
      BY <2>1
    <2>5. \A t \in Tasks : t[1] = s => \E k \in 1 .. n : t = <<s, k>>
      BY <2>1
    <2> HIDE DEF n, chunks
    <2>6. numbers = 1 .. n
      <3>1. ASSUME NEW k \in numbers PROVE k \in 1 .. n
        <4>1. PICK t \in DOMAIN tokens : t[1] = s /\ k = t[2]
          OBVIOUS
        <4>2. PICK j \in 1 .. n : t = <<s, j>>
          BY <1>1, <2>5, <4>1
        <4> QED
          BY <4>1, <4>2
      <3>2. ASSUME NEW k \in 1 .. n PROVE k \in numbers
        <4>1. <<s, k>> \in {x \in DOMAIN tokens : x[1] = s} /\ <<s, k>>[2] = k
          BY <1>1, <2>4
        <4> QED
          BY <4>1
      <3> HIDE DEF numbers
      <3> QED
        BY <3>1, <3>2
    <2>7. n \in Nat \ {0}
      <3>1. PICK t \in DOMAIN tokens : t[1] = s
        OBVIOUS
      <3>2. PICK k \in 1 .. n : t = <<s, k>>
        BY <1>1, <2>5, <3>1
      <3> QED
        BY <2>3
    <2>8. Max(numbers) = n /\ 0 \notin numbers
      <3>1. Max(1 .. n) = n /\ 0 \notin 1 .. n
        BY <2>7, MaxOfRange
      <3> HIDE DEF numbers
      <3> QED
        BY <2>6, <3>1
    <2>9. Discovered(s) = FlattenSeq([k \in 1 .. Max(numbers) |-> IF k \in numbers THEN tokens[<<s, k>>] ELSE <<>>])
      BY <2>8 DEF Discovered
    <2> DEFINE f == [k \in 1 .. n |-> IF k \in 1 .. n THEN tokens[<<s, k>>] ELSE <<>>]
    <2>10. Discovered(s) = FlattenSeq(f)
      BY <2>6, <2>8, <2>9
    <2>11. \A k \in 1 .. n : f[k] = chunks[k]
      <3> TAKE k \in 1 .. n
      <3>1. f[k] = tokens[<<s, k>>]
        OBVIOUS
      <3>2. <<s, k>> \in Tasks /\ k # 0
        BY <2>3, <2>4
      <3>3. tokens[<<s, k>>] = Text(<<s, k>>)
        BY <1>1, <3>2
      <3>4. Text(<<s, k>>) = chunks[k]
        BY <3>2 DEF Text, chunks
      <3> HIDE DEF f
      <3> QED
        BY <3>1, <3>3, <3>4
    <2>12. f = [k \in 1 .. n |-> f[k]]
      OBVIOUS
    <2> HIDE DEF f
    <2>13. f = chunks
      BY <2>2, <2>3, <2>11, <2>12, SameList DEF n
    <2> QED
      BY <2>2, <2>10, <2>13
  <1> QED
    BY <1>3, <1>4

LEMMA CutIsSeq ==
  ASSUME NEW seq, Len(seq) \in Nat
  PROVE  \E S : Cut(seq, SeqLen) \in Seq(S)
  <1> DEFINE m == Len(seq) \div SeqLen
             c == Cut(seq, SeqLen)
             S == {c[j] : j \in 1 .. m}
  <1>1. SeqLen \in Nat \ {0}
    BY DataPrepAssumption
  <1>2. m \in Nat
    BY <1>1
  <1>3. c = [j \in 1 .. m |-> c[j]]
    BY DEF Cut
  <1> HIDE DEF m, c
  <1>4. \A j \in 1 .. m : c[j] \in S
    OBVIOUS
  <1> HIDE DEF S
  <1>5. c \in Seq(S)
    BY <1>2, <1>3, <1>4, ListIsSeq
  <1> QED
    BY <1>5 DEF c

\* The shards hold the corpus.
LEMMA PackedIs ==
  ASSUME SpoolInv, Filling, Filled, AllTokenized, stage = "shard",
         \A s \in Sources : \E t \in DOMAIN tokens : t[1] = s
  PROVE  FlattenSeq(Packed) = Corpus
  <1> DEFINE texts == [k \in DOMAIN Order |-> Kept(spool["raw"], Order[k])]
             all == FlattenSeq(texts)
             seqs == Cut(all, SeqLen)
  <1>1. stage \in Tokenized /\ stage \in Deduped
    BY DEF Tokenized, Deduped
  <1>2. \A s \in Sources : Discovered(s) = Kept(spool["raw"], s)
    BY <1>1, DedupedIs, DiscoveredIs
  <1>3. \A k \in DOMAIN Order : Order[k] \in Sources
    BY OrderIs
  <1>4. [k \in DOMAIN Order |-> Discovered(Order[k])] = texts
    BY <1>2, <1>3
  <1>5. Packed = Chunks(seqs, ShardSequences)
    BY <1>4 DEF Packed, Shards
  <1>6. Len(all) \in Nat
    <2>1. \A k \in 1 .. Len(Order) : texts[k] \in Seq(Nat)
      BY <1>3, OrderIs, BothCounted, KeptIsSeq DEF SpoolInv
    <2>2. texts = [k \in 1 .. Len(Order) |-> texts[k]] /\ Len(Order) \in Nat
      BY OrderIs
    <2> HIDE DEF texts
    <2>3. texts \in Seq(Seq(Nat))
      BY <2>1, <2>2, ListIsSeq
    <2>4. FlattenSeq(texts) \in Seq(Nat)
      BY <2>3, FlattenIsSeq
    <2> QED
      BY <2>4, LenProperties
  <1> HIDE DEF all
  <1>7. PICK S : seqs \in Seq(S)
    BY <1>6, CutIsSeq
  <1>8. ShardSequences \in Nat \ {0}
    BY DataPrepAssumption
  <1> HIDE DEF seqs
  <1>9. FlattenSeq(Packed) = seqs
    BY <1>5, <1>7, <1>8, ChunksFlatten
  <1> QED
    BY <1>9 DEF seqs, all, Corpus

LEMMA DedupIs ==
  ASSUME SpoolInv, stage = "dedup"
  PROVE  /\ Spooling = DedupTasks /\ \A u : Input(u) = DedupInput(u) /\ Limit(u) = Len(DedupInput(u))
         /\ Root = "dedup"
  <1>1. flags.dd \in BOOLEAN
    BY DEF SpoolInv, PrepShape
  <1>2. Spooling = DedupTasks
    BY <1>1 DEF Spooling, DedupTasks
  <1>3. ASSUME NEW u PROVE Input(u) = DedupInput(u)
    BY <1>1 DEF Input, DedupInput
  <1>4. ASSUME NEW u PROVE Limit(u) = Len(Input(u))
    BY DEF Limit
  <1> QED
    BY <1>2, <1>3, <1>4, RootIs

\* Only the raw spools change before the deduplication.
LEMMA CorpusFresh ==
  ASSUME Fresh, stage = "download", UNCHANGED <<stage, tokens>>, spool'["dedup"] = spool["dedup"]
  PROVE  CorpusInv'
  <1>1. Fresh'
    BY DEF Fresh
  <1>2. stage' \notin Deduped /\ stage' \notin Tokenized /\ stage' \notin Sharded /\ stage' \notin Indexed
        /\ stage' \notin {"dedup", "tokenize", "manifest"}
    BY DEF Deduped, Tokenized, Sharded, Indexed
  <1>3. Filling' /\ Filled' /\ Tokenizing'
    BY <1>2 DEF Filling, Filled, Tokenizing
  <1>4. AllTokenized' /\ AllSharded' /\ AllIndexed'
    BY <1>2 DEF AllTokenized, AllSharded, AllIndexed
  <1> QED
    BY <1>1, <1>3, <1>4 DEF CorpusInv

\* A task of the deduplication puts to its spool.
LEMMA CorpusPuts ==
  ASSUME CorpusInv, SpoolInv, stage = "dedup", UNCHANGED <<stage, flags, tokens>>, SameInputs,
         NEW u \in DedupTasks, NEW w, Puts(u, w), Fills(w, DedupInput(u)),
         NEW x, job' = [job EXCEPT ![u] = x], x = "done" => w.complete,
         spool["dedup"][u].complete => w.complete
  PROVE  CorpusInv'
  <1>1. DedupTasks' = DedupTasks /\ \A v : DedupInput(v)' = DedupInput(v)
    BY DedupStays DEF SameInputs
  <1>2. \A v \in Units : spool'["dedup"][v] = IF v = u THEN w ELSE spool["dedup"][v]
    BY RootIs, RootsAre DEF Puts
  <1>3. Filling
    BY DEF CorpusInv
  <1>4. Fresh'
    BY DEF CorpusInv, Fresh
  <1>5. Filling'
    <2> SUFFICES ASSUME NEW v \in Units
                 PROVE  /\ v \notin DedupTasks => spool'["dedup"][v] = NewSpool
                        /\ v \in DedupTasks => Fills(spool'["dedup"][v], DedupInput(v))
      BY <1>1 DEF Filling
    <2>1. CASE v = u
      BY <1>2, <2>1
    <2>2. CASE v # u
      BY <1>2, <1>3, <2>2 DEF Filling
    <2> QED
      BY <2>1, <2>2
  <1>6. Filled'
    <2>1. stage' \notin Deduped
      BY DEF Deduped, Tokenized, Sharded, Indexed
    <2>2. ASSUME NEW v \in DOMAIN job', job'[v] = "done" PROVE spool'["dedup"][v].complete
      <3>1. v \in DOMAIN job /\ v \in Units
        <4>1. v \in DOMAIN job
          OBVIOUS
        <4>2. DOMAIN job \subseteq Units
          <5>1. DOMAIN job = {} \/ DOMAIN job = Spooling
            BY NoTasks DEF SpoolInv, Jobs, JobDomain
          <5> QED
            BY <5>1, SpoolingUnits DEF SpoolInv
        <4> QED
          BY <4>1, <4>2
      <3>2. CASE v = u
        BY <1>2, <2>2, <3>1, <3>2
      <3>3. CASE v # u
        <4>1. job[v] = "done"
          BY <2>2, <3>1, <3>3
        <4> QED
          BY <1>2, <3>1, <3>3, <4>1 DEF CorpusInv, Filled
      <3> QED
        BY <3>2, <3>3
    <2> QED
      BY <2>1, <2>2 DEF Filled
  <1>7. Tokenizing' /\ AllTokenized' /\ AllSharded' /\ AllIndexed'
    BY DEF Tokenizing, AllTokenized, AllSharded, AllIndexed, Tokenized, Sharded, Indexed
  <1> QED
    BY <1>4, <1>5, <1>6, <1>7 DEF CorpusInv

LEMMA CommitCorpus ==
  ASSUME CorpusInv, SpoolInv, NEW u \in DOMAIN job, Commit(u)
  PROVE  CorpusInv'
  <1> DEFINE sp == spool[Root][u]
             end == [sp EXCEPT !.complete = TRUE]
             more == Written(sp, NextPart(u))
  <1>1. /\ up /\ stage \in {"download", "dedup"} /\ u \in Spooling /\ u \in Units /\ SameInputs
        /\ NextPart(u) \in Seq(Nat)
        /\ NextPart(u) = <<>> => Puts(u, end) /\ job' = [job EXCEPT ![u] = "done"]
        /\ NextPart(u) # <<>> => Puts(u, more) /\ job' = [job EXCEPT ![u] = "record"]
        /\ UNCHANGED <<stage, flags, tokens>>
    BY CommitIs
  <1>2. sp \in Spool /\ Counts(sp)
    BY <1>1, SpoolOf
  <1>3. CASE stage = "download"
    <2>1. \E w : Puts(u, w)
      BY <1>1
    <2>2. spool'["dedup"] = spool["dedup"]
      BY <1>3, <2>1, RootIs, RootsAre DEF Puts
    <2> QED
      BY <1>1, <1>3, <2>2, CorpusFresh DEF CorpusInv
  <1>4. CASE stage = "dedup"
    <2>1. /\ u \in DedupTasks /\ Input(u) = DedupInput(u) /\ Limit(u) = Len(DedupInput(u))
          /\ sp = spool["dedup"][u]
      BY <1>1, <1>4, DedupIs
    <2>2. Fills(sp, DedupInput(u))
      BY <1>1, <1>4, <2>1 DEF CorpusInv, Filling
    <2>3. DedupInput(u) \in Seq(Nat)
      BY <1>1, <2>1, InputIs DEF SpoolInv
    <2>4. CASE NextPart(u) = <<>>
      <3>1. Len(DedupInput(u)) <= sp.docs /\ sp.docs \in Nat
        BY <1>1, <2>1, <2>4, NextPartIs DEF SpoolInv
      <3>2. sp.docs = Len(DedupInput(u))
        BY <2>2, <2>3, <3>1, LenProperties DEF Fills, Holds
      <3>3. Recorded(end) = Recorded(sp) /\ end.docs = sp.docs /\ end.complete
        BY <1>2, CompletedIs
      <3>4. Puts(u, end) /\ job' = [job EXCEPT ![u] = "done"]
        BY <1>1, <2>4
      <3> HIDE DEF end, sp
      <3>5. Fills(end, DedupInput(u))
        BY <2>2, <3>2, <3>3 DEF Fills, Holds
      <3> QED
        BY <1>1, <1>4, <2>1, <3>3, <3>4, <3>5, CorpusPuts
    <2>5. CASE NextPart(u) # <<>>
      <3>1. Recorded(more) = Recorded(sp) /\ more.docs = sp.docs /\ more.complete = sp.complete
        BY <1>1, <1>2, WrittenIs
      <3>2. Puts(u, more) /\ job' = [job EXCEPT ![u] = "record"]
        BY <1>1, <2>5
      <3> HIDE DEF more, sp
      <3>3. Fills(more, DedupInput(u))
        BY <2>2, <3>1 DEF Fills, Holds
      <3> QED
        BY <1>1, <1>4, <2>1, <3>1, <3>2, <3>3, CorpusPuts
    <2> QED
      BY <2>4, <2>5
  <1> QED
    BY <1>1, <1>3, <1>4

LEMMA RecordCorpus ==
  ASSUME CorpusInv, SpoolInv, NEW u \in DOMAIN job, Record(u)
  PROVE  CorpusInv'
  <1> DEFINE sp == spool[Root][u]
             w == Noted(sp)
  <1>1. /\ up /\ stage \in {"download", "dedup"} /\ u \in Spooling /\ u \in Units /\ SameInputs
        /\ Len(sp.files) = sp.parts + 1 /\ Last(sp.files) = NextPart(u)
        /\ Puts(u, w) /\ job' = [job EXCEPT ![u] = "write"]
        /\ UNCHANGED <<stage, flags, tokens>>
    BY RecordIs
  <1>2. sp \in Spool /\ Counts(sp)
    BY <1>1, SpoolOf
  <1>3. CASE stage = "download"
    <2>1. spool'["dedup"] = spool["dedup"]
      BY <1>1, <1>3, RootIs, RootsAre DEF Puts
    <2> QED
      BY <1>1, <1>3, <2>1, CorpusFresh DEF CorpusInv
  <1>4. CASE stage = "dedup"
    <2>1. /\ u \in DedupTasks /\ Input(u) = DedupInput(u) /\ sp = spool["dedup"][u]
      BY <1>1, <1>4, DedupIs
    <2>2. Fills(sp, DedupInput(u))
      BY <1>1, <1>4, <2>1 DEF CorpusInv, Filling
    <2>3. DedupInput(u) \in Seq(Nat)
      BY <1>1, <2>1, InputIs DEF SpoolInv
    <2>4. Follows(Last(sp.files), DedupInput(u), sp.docs)
      BY <1>1, <2>1, NextPartFollows
    <2>5. Holds(w, DedupInput(u))
      BY <1>1, <1>2, <2>2, <2>3, <2>4, NotedHolds DEF Fills
    <2>6. w.complete = sp.complete /\ w.docs = sp.docs + Len(Last(sp.files)) /\ Last(sp.files) \in Seq(Nat)
      BY <1>1, <1>2, NotedIs
    <2>7. Fills(w, DedupInput(u))
      <3>1. ASSUME w.complete PROVE w.docs = Len(DedupInput(u))
        <4>1. sp.docs = Len(DedupInput(u))
          BY <2>2, <2>6, <3>1 DEF Fills
        <4>2. w.docs <= Len(DedupInput(u))
          BY <2>5 DEF Holds
        <4>3. sp.docs \in Nat /\ Len(Last(sp.files)) \in Nat
          BY <1>2, <2>6, LenProperties DEF Spool
        <4> HIDE DEF w, sp
        <4> QED
          BY <2>6, <4>1, <4>2, <4>3
      <3> HIDE DEF w
      <3> QED
        BY <2>5, <3>1 DEF Fills
    <2> HIDE DEF w
    <2>8. Puts(u, w) /\ job' = [job EXCEPT ![u] = "write"] /\ spool["dedup"][u].complete => w.complete
      BY <1>1, <2>1, <2>6
    <2> QED
      BY <1>1, <1>4, <2>1, <2>6, <2>7, <2>8, CorpusPuts
  <1> QED
    BY <1>1, <1>3, <1>4

LEMMA DiscardCorpus ==
  ASSUME CorpusInv, SpoolInv, NEW s \in Sources, Discard(s)
  PROVE  CorpusInv'
  <1>1. /\ stage = "download" /\ UNCHANGED <<stage, flags, at, tokens, metas, index>>
        /\ spool'["dedup"] = spool["dedup"]
    BY DiscardIs DEF dataset
  <1> QED
    BY <1>1, CorpusFresh DEF CorpusInv

LEMMA PrepareCorpus ==
  ASSUME CorpusInv, SpoolInv, NEW s \in Sources, Prepare(s)
  PROVE  CorpusInv'
  <1>1. /\ stage \in {"download", "dedup"} /\ UNCHANGED <<stage, flags, at, spool, tokens, metas, index>>
        /\ DOMAIN job = Spooling /\ Spooling \subseteq Units
        /\ DOMAIN job' = DOMAIN job
        /\ \A v \in DOMAIN job : v[1] # s => job'[v] = job[v]
        /\ \A v \in DOMAIN job : v[1] = s => job'[v] = IF spool[Root][v].complete THEN "done" ELSE "write"
    BY PrepareIs DEF dataset
  <1>2. CASE stage = "download"
    BY <1>1, <1>2, CorpusFresh DEF CorpusInv
  <1>3. CASE stage = "dedup"
    <2>1. Root = "dedup"
      BY <1>1, <1>3, RootIs
    <2>2. DedupTasks' = DedupTasks /\ \A v : DedupInput(v)' = DedupInput(v)
      BY <1>1, DedupStays
    <2>3. Fresh'
      BY <1>1, <1>3 DEF CorpusInv, Fresh
    <2>4. Filling'
      BY <1>1, <2>2 DEF CorpusInv, Filling
    <2>5. Filled'
      <3>1. stage' \notin Deduped
        BY <1>1, <1>3 DEF Deduped, Tokenized, Sharded, Indexed
      <3>2. ASSUME NEW v \in DOMAIN job', job'[v] = "done" PROVE spool["dedup"][v].complete
        BY <1>1, <1>3, <2>1, <3>2 DEF CorpusInv, Filled
      <3> QED
        BY <1>1, <3>1, <3>2 DEF Filled
    <2>6. Tokenizing' /\ AllTokenized' /\ AllSharded' /\ AllIndexed'
      BY <1>1, <1>3 DEF Tokenizing, AllTokenized, AllSharded, AllIndexed, Tokenized, Sharded, Indexed
    <2> QED
      BY <2>3, <2>4, <2>5, <2>6 DEF CorpusInv
  <1> QED
    BY <1>1, <1>2, <1>3

LEMMA EndCorpus ==
  ASSUME CorpusInv, SpoolInv, End
  PROVE  CorpusInv'
  <1> DEFINE over == \A u \in DOMAIN job : job[u] = "done"
  <1>1. /\ up /\ stage \in Concurrent /\ UNCHANGED <<at, spool, tokens, metas, index>> /\ job' = <<>>
        /\ stage' = stage \/ (over /\ stage' = NextStage)
    BY DEF End, Concurrent, dataset
  <1>2. flags'.dd = flags.dd /\ flags'.tok = flags.tok
    BY DEF End, SpoolInv, PrepShape
  <1>3. DOMAIN job = JobDomain
    BY <1>1 DEF SpoolInv, Jobs
  <1>4. DedupTasks' = DedupTasks /\ Corpus' = Corpus /\ \A u : DedupInput(u)' = DedupInput(u)
    BY <1>1, <1>2, DedupStays
  <1>5. Tasks' = Tasks /\ \A t : Text(t)' = Text(t)
    BY <1>1, <1>2, TextsStay
  <1> USE DEF CorpusInv
  <1> HIDE DEF over
  <1>6. CASE stage' = stage
    BY <1>1, <1>2, <1>6, NoTasks, CorpusSame
  <1>7. CASE stage = "download" /\ stage' = NextStage
    <2>1. stage' = "dedup"
      BY <1>7, NextStages
    <2>2. Filling'
      <3> SUFFICES ASSUME NEW u \in Units
                   PROVE  /\ spool'["dedup"][u] = NewSpool
                          /\ u \in DedupTasks => Fills(spool'["dedup"][u], DedupInput(u))
        BY <1>4 DEF Filling
      <3>1. spool'["dedup"][u] = NewSpool
        BY <1>1, <1>7 DEF Fresh
      <3>2. NewSpool \in Spool /\ Counts(NewSpool) /\ NewSpool.docs = 0 /\ NewSpool.complete = FALSE
        BY NewSpoolIs DEF NewSpool
      <3>3. DedupInput(u) \in Seq(Nat)
        BY KeptIsSeq, SurvivorsIsSeq, BothCounted DEF DedupInput, SpoolInv, Units
      <3>4. Fills(NewSpool, DedupInput(u))
        BY <3>2, <3>3, NothingHolds DEF Fills
      <3> QED
        BY <3>1, <3>4
    <2>3. Fresh' /\ Filled'
      BY <1>1, <1>7, <2>1, NoTasks DEF Fresh, Filled, Deduped, Tokenized, Sharded, Indexed
    <2>4. Tokenizing' /\ AllTokenized' /\ AllSharded' /\ AllIndexed'
      BY <2>1 DEF Tokenizing, AllTokenized, AllSharded, AllIndexed, Tokenized, Sharded, Indexed
    <2> QED
      BY <2>2, <2>3, <2>4
  <1>8. CASE stage = "dedup" /\ stage' = NextStage /\ over
    <2>1. stage' = "tokenize"
      BY <1>8, NextStages
    <2>2. DOMAIN job = DedupTasks
      BY <1>3, <1>8, DedupIs DEF JobDomain
    <2>3. Fresh' /\ Filling'
      BY <1>1, <1>4, <1>8, <2>1 DEF Fresh, Filling
    <2>4. Filled'
      BY <1>1, <1>4, <1>8, <2>1, <2>2 DEF Filled, over
    <2>5. Tokenizing'
      BY <1>1, <1>8, NoTasks DEF Tokenizing, Fresh
    <2>6. AllTokenized' /\ AllSharded' /\ AllIndexed'
      BY <2>1 DEF AllTokenized, AllSharded, AllIndexed, Tokenized, Sharded, Indexed
    <2> QED
      BY <2>3, <2>4, <2>5, <2>6
  <1>9. CASE stage = "tokenize" /\ stage' = NextStage /\ over
    <2>1. stage' = "shard"
      BY <1>9, NextStages
    <2>2. DOMAIN job = Tasks
      BY <1>3, <1>9 DEF JobDomain
    <2>3. Fresh' /\ Filling' /\ Filled'
      BY <1>1, <1>4, <1>9, <2>1 DEF Fresh, Filling, Filled, Deduped
    <2>4. AllTokenized'
      <3>1. \A t \in Tasks : job[t] = "done" /\ t \in DOMAIN tokens /\ tokens[t] = Text(t)
        BY <1>9, <2>2 DEF Tokenizing, Opened, over
      <3>2. DOMAIN tokens = Tasks
        BY <1>9, <3>1 DEF Tokenizing
      <3> QED
        BY <1>1, <1>5, <3>1, <3>2 DEF AllTokenized
    <2>5. Tokenizing' /\ AllSharded' /\ AllIndexed'
      BY <2>1 DEF Tokenizing, AllSharded, AllIndexed, Sharded, Indexed
    <2> QED
      BY <2>3, <2>4, <2>5
  <1>10. CASE stage = "upload" /\ stage' = NextStage
    <2>1. stage' = "published"
      BY <1>10, NextStages
    <2>2. Fresh' /\ Filling' /\ Filled'
      BY <1>1, <1>4, <1>10, <2>1 DEF Fresh, Filling, Filled, Deduped, Tokenized, Sharded, Indexed
    <2>3. Tokenizing' /\ AllTokenized'
      BY <1>1, <1>5, <1>10, <2>1 DEF Tokenizing, AllTokenized, Tokenized, Sharded, Indexed
    <2>4. AllSharded' /\ AllIndexed'
      BY <1>1, <1>4, <1>10, <2>1 DEF AllSharded, AllIndexed, Sharded, Indexed
    <2> QED
      BY <2>2, <2>3, <2>4
  <1> QED
    BY <1>1, <1>6, <1>7, <1>8, <1>9, <1>10 DEF Concurrent

\* A token file is cut or grows.
LEMMA CorpusTokens ==
  ASSUME CorpusInv, stage = "tokenize", UNCHANGED <<stage, flags, at, spool, dataset>>,
         DOMAIN tokens' \subseteq Tasks,
         \A t \in DOMAIN job' : /\ job'[t] \in {"write", "done"} => Opened(t)'
                                /\ job'[t] = "done" => tokens'[t] = Text(t)'
  PROVE  CorpusInv'
  <1>1. Tasks' = Tasks
    BY TextsStay
  <1>2. DedupTasks' = DedupTasks /\ \A u : DedupInput(u)' = DedupInput(u)
    BY DedupStays
  <1>3. Fresh' /\ Filling'
    BY <1>2 DEF CorpusInv, Fresh, Filling
  <1>4. Filled'
    BY <1>2 DEF CorpusInv, Filled
  <1>5. Tokenizing'
    BY <1>1 DEF Tokenizing
  <1>6. AllTokenized' /\ AllSharded' /\ AllIndexed'
    BY DEF AllTokenized, AllSharded, AllIndexed, Tokenized, Sharded, Indexed
  <1> QED
    BY <1>3, <1>4, <1>5, <1>6 DEF CorpusInv

LEMMA TextIsSeq ==
  ASSUME SpoolInv, NEW t \in Tasks
  PROVE  Text(t) \in Seq(Nat)
  <1>1. flags.tok \in Nat /\ Counted(spool["dedup"])
    BY BothCounted DEF SpoolInv, PrepShape
  <1>2. CASE flags.tok = 0
    <2>1. t[1] \in Sources /\ t[2] = 0
      BY <1>2 DEF Tasks
    <2> QED
      BY <1>1, <2>1, RecordsAreSeq DEF Text
  <1>3. CASE flags.tok # 0
    <2>1. PICK s \in Sources : t \in {s} \X (1 .. Len(Chunked(s)))
      BY <1>3 DEF Tasks
    <2>2. Chunked(s) \in Seq(Seq(Nat))
      BY <1>1, <1>3, GroupsAre DEF Chunked
    <2>3. t[1] = s /\ t[2] \in 1 .. Len(Chunked(s)) /\ t[2] # 0
      BY <2>1
    <2>4. Chunked(s)[t[2]] \in Seq(Nat)
      BY <2>2, <2>3, ElementOfSeq
    <2> QED
      BY <2>3, <2>4 DEF Text
  <1> QED
    BY <1>2, <1>3

LEMMA OpenCorpus ==
  ASSUME CorpusInv, SpoolInv, NEW u \in DOMAIN job, Open(u)
  PROVE  CorpusInv'
  <1>1. /\ up /\ stage = "tokenize" /\ job' = [job EXCEPT ![u] = "write"]
        /\ tokens' = [x \in {u} \cup DOMAIN tokens |-> IF x = u THEN <<>> ELSE tokens[x]]
        /\ UNCHANGED <<stage, flags, at, spool, dataset>>
    BY DEF Open
  <1>2. DOMAIN job = Tasks
    BY <1>1 DEF SpoolInv, Jobs, JobDomain
  <1>3. Tasks' = Tasks /\ \A t : Text(t)' = Text(t)
    BY <1>1, TextsStay
  <1>4. /\ DOMAIN tokens' = {u} \cup DOMAIN tokens /\ tokens'[u] = <<>>
        /\ \A t \in DOMAIN tokens : t # u => tokens'[t] = tokens[t]
    BY <1>1
  <1>5. Tokenizing
    BY DEF CorpusInv
  <1>6. DOMAIN tokens' \subseteq Tasks
    BY <1>1, <1>2, <1>4, <1>5 DEF Tokenizing
  <1>7. ASSUME NEW t \in DOMAIN job'
        PROVE  /\ job'[t] \in {"write", "done"} => Opened(t)'
               /\ job'[t] = "done" => tokens'[t] = Text(t)'
    <2>1. CASE t = u
      <3>1. job'[t] = "write"
        BY <1>1, <2>1
      <3>2. Text(t) \in Seq(Nat)
        BY <1>2, <2>1, TextIsSeq
      <3>3. Len(tokens'[t]) = 0 /\ SubSeq(Text(t), 1, 0) = <<>>
        BY <1>4, <2>1, <3>2, SubSeqEmpty
      <3>4. Opened(t)'
        BY <1>3, <1>4, <2>1, <3>2, <3>3, LenProperties DEF Opened
      <3> QED
        BY <3>1, <3>4
    <2>2. CASE t # u
      <3>1. t \in DOMAIN job /\ job'[t] = job[t]
        BY <1>1, <2>2
      <3>2. Opened(t) => Opened(t)' /\ tokens'[t] = tokens[t]
        BY <1>3, <1>4, <2>2 DEF Opened
      <3>3. /\ job[t] \in {"write", "done"} => Opened(t)
            /\ job[t] = "done" => tokens[t] = Text(t)
        BY <1>1, <1>5, <3>1 DEF Tokenizing
      <3> QED
        BY <1>3, <3>1, <3>2, <3>3
    <2> QED
      BY <2>1, <2>2
  <1> QED
    BY <1>1, <1>6, <1>7, CorpusTokens

LEMMA FlushCorpus ==
  ASSUME CorpusInv, SpoolInv, NEW u \in DOMAIN job, Flush(u)
  PROVE  CorpusInv'
  <1> DEFINE more == Len(tokens[u]) < Len(Text(u))
             next == Append(tokens[u], Text(u)[Len(tokens[u]) + 1])
  <1>1. /\ up /\ stage = "tokenize" /\ job[u] = "write" /\ UNCHANGED <<stage, flags, at, spool, dataset>>
        /\ more => tokens' = [tokens EXCEPT ![u] = next] /\ job' = job
        /\ ~more => job' = [job EXCEPT ![u] = "done"] /\ tokens' = tokens
    BY DEF Flush
  <1>2. DOMAIN job = Tasks
    BY <1>1 DEF SpoolInv, Jobs, JobDomain
  <1>3. Tasks' = Tasks /\ \A t : Text(t)' = Text(t)
    BY <1>1, TextsStay
  <1>4. Tokenizing
    BY DEF CorpusInv
  <1>5. Opened(u) /\ Text(u) \in Seq(Nat) /\ Len(Text(u)) \in Nat
    BY <1>1, <1>2, <1>4, TextIsSeq, LenProperties DEF Tokenizing
  <1>6. DOMAIN tokens' = DOMAIN tokens /\ \A t \in DOMAIN tokens : t # u => tokens'[t] = tokens[t]
    BY <1>1
  <1>7. Opened(u)'
    <2>1. CASE more
      <3> DEFINE n == Len(tokens[u])
      <3>1. n \in Nat /\ n < Len(Text(u)) /\ tokens[u] = SubSeq(Text(u), 1, n) /\ u \in DOMAIN tokens
        BY <1>5, <2>1 DEF Opened
      <3>2. tokens'[u] = Append(tokens[u], Text(u)[n + 1])
        BY <1>1, <2>1, <3>1
      <3> HIDE DEF n, more, next
      <3>3. n + 1 \in 1 .. Len(Text(u)) /\ n \in 0 .. Len(Text(u))
        BY <1>5, <3>1
      <3>4. Append(SubSeq(Text(u), 1, n), Text(u)[n + 1]) = SubSeq(Text(u), 1, n + 1)
        <4>1. n + 1 - 1 = n
          BY <3>1
        <4> QED
          BY <1>5, <3>3, <4>1, PrefixAppend
      <3>5. tokens'[u] = SubSeq(Text(u), 1, n + 1)
        BY <3>1, <3>2, <3>4
      <3>6. Len(SubSeq(Text(u), 1, n + 1)) = n + 1
        BY <1>5, <3>3, SequencePrefix
      <3> QED
        BY <1>3, <1>6, <3>1, <3>3, <3>5, <3>6 DEF Opened
    <2>2. CASE ~more
      BY <1>1, <1>3, <1>5, <2>2 DEF Opened
    <2> QED
      BY <2>1, <2>2
  <1>8. ASSUME NEW t \in DOMAIN job'
        PROVE  /\ job'[t] \in {"write", "done"} => Opened(t)'
               /\ job'[t] = "done" => tokens'[t] = Text(t)'
    <2>1. CASE t = u
      <3>1. CASE more
        <4>1. job'[t] = "write"
          BY <1>1, <2>1, <3>1
        <4> QED
          BY <1>7, <2>1, <4>1
      <3>2. CASE ~more
        <4>1. Len(tokens[u]) = Len(Text(u)) /\ tokens[u] = SubSeq(Text(u), 1, Len(tokens[u]))
          BY <1>5, <3>2 DEF Opened
        <4>2. tokens[u] = Text(u)
          BY <1>5, <4>1, SubSeqFull
        <4> QED
          BY <1>1, <1>3, <1>7, <2>1, <3>2, <4>2
      <3> QED
        BY <3>1, <3>2
    <2>2. CASE t # u
      <3>1. t \in DOMAIN job /\ job'[t] = job[t]
        BY <1>1, <2>2
      <3>2. Opened(t) => Opened(t)' /\ tokens'[t] = tokens[t]
        BY <1>3, <1>6, <2>2 DEF Opened
      <3>3. /\ job[t] \in {"write", "done"} => Opened(t)
            /\ job[t] = "done" => tokens[t] = Text(t)
        BY <1>1, <1>4, <3>1 DEF Tokenizing
      <3> QED
        BY <1>3, <3>1, <3>2, <3>3
    <2> QED
      BY <2>1, <2>2
  <1>9. DOMAIN tokens' \subseteq Tasks
    BY <1>1, <1>4, <1>6 DEF Tokenizing
  <1> QED
    BY <1>1, <1>8, <1>9, CorpusTokens

\* The later commands leave what they read.
LEMMA CorpusLater ==
  ASSUME CorpusInv, UNCHANGED <<flags, spool, tokens>>, stage \in Tokenized, stage' \in Tokenized,
         AllSharded', AllIndexed'
  PROVE  CorpusInv'
  <1>1. Tasks' = Tasks /\ \A t : Text(t)' = Text(t)
    BY TextsStay
  <1>2. DedupTasks' = DedupTasks /\ \A u : DedupInput(u)' = DedupInput(u)
    BY DedupStays
  <1>3. stage' \notin {"download", "dedup", "tokenize"} /\ stage \in Deduped /\ stage # "download"
    BY DEF Deduped, Tokenized, Sharded, Indexed
  <1>4. Fresh' /\ Tokenizing'
    BY <1>3 DEF Fresh, Tokenizing
  <1>5. Filling' /\ Filled'
    BY <1>2, <1>3 DEF CorpusInv, Filling, Filled
  <1>6. AllTokenized'
    BY <1>1 DEF CorpusInv, AllTokenized
  <1> QED
    BY <1>4, <1>5, <1>6 DEF CorpusInv

LEMMA LaterCorpus ==
  ASSUME CorpusInv, SpoolInv, Shard \/ Manifest \/ Verify
  PROVE  CorpusInv'
  <1>1. UNCHANGED <<flags, spool, tokens>>
    BY DEF Shard, Manifest, Verify
  <1>2. Corpus' = Corpus
    BY <1>1, DedupStays
  <1> USE DEF CorpusInv, Sharded, Indexed
  <1>3. CASE Shard
    <2>1. stage = "shard"
      BY <1>3 DEF Shard
    <2>2. CASE at < Len(Packed)
      <3>1. stage' = stage
        BY <1>3, <2>2 DEF Shard
      <3> QED
        BY <1>1, <2>1, <3>1, CorpusLater DEF Tokenized, AllSharded, AllIndexed
    <2>3. CASE ~(at < Len(Packed))
      <3>1. metas' = Packed /\ at' = 0 /\ stage' = "manifest"
        BY <1>3, <2>1, <2>3, NextStages DEF Shard
      <3>2. FlattenSeq(Packed) = Corpus
        BY <1>3, <2>1, PackedIs DEF Shard
      <3> QED
        BY <1>1, <1>2, <2>1, <3>1, <3>2, CorpusLater DEF Tokenized, AllSharded, AllIndexed
    <2> QED
      BY <2>2, <2>3
  <1>4. CASE Manifest
    <2>1. stage = "manifest" /\ metas' = metas
      BY <1>4 DEF Manifest
    <2>2. AllSharded
      OBVIOUS
    <2>3. CASE at = 0
      <3>1. stage' = stage /\ index' = metas
        BY <1>4, <2>3 DEF Manifest
      <3> QED
        BY <1>1, <1>2, <2>1, <2>2, <3>1, CorpusLater DEF Tokenized, AllSharded, AllIndexed
    <2>4. CASE at # 0
      <3>1. stage' = "verify" /\ index' = index
        BY <1>4, <2>1, <2>4, NextStages DEF Manifest
      <3>2. index = metas
        BY <2>1, <2>4 DEF AllIndexed
      <3> QED
        BY <1>1, <1>2, <2>1, <2>2, <3>1, <3>2, CorpusLater DEF Tokenized, AllSharded, AllIndexed
    <2> QED
      BY <2>3, <2>4
  <1>5. CASE Verify
    <2>1. stage = "verify" /\ stage' = "upload" /\ metas' = metas /\ index' = index
      BY <1>5, NextStages DEF Verify, dataset
    <2> QED
      BY <1>1, <1>2, <2>1, CorpusLater DEF Tokenized, AllSharded, AllIndexed
  <1> QED
    BY <1>3, <1>4, <1>5

LEMMA CorpusKeeps ==
  ASSUME Steady, CorpusInv, SpoolInv, [PrepNext]_prepVars
  PROVE  CorpusInv'
  <1>1. ASSUME UNCHANGED prepVars PROVE CorpusInv'
    BY <1>1, CorpusSame DEF prepVars, dataset
  <1>2. ASSUME Begin \/ BeginTokenize \/ BeginUpload PROVE CorpusInv'
    <2>1. UNCHANGED <<stage, spool, tokens, metas, index, at>> /\ \A u \in DOMAIN job' : job'[u] = "off"
      BY <1>2 DEF Begin, BeginTokenize, BeginUpload, dataset
    <2>2. flags' = flags \/ flags' \in Rerun
      BY <1>2 DEF Begin, BeginTokenize, BeginUpload
    <2>3. flags'.dd = flags.dd /\ flags'.tok = flags.tok
      BY <2>2 DEF Rerun
    <2> QED
      BY <2>1, <2>3, CorpusSame
  <1>3. ASSUME Kill PROVE CorpusInv'
    BY <1>3, NoTasks, CorpusSame DEF Kill, dataset
  <1>4. ASSUME NEW s \in Sources, Refuse(s) PROVE CorpusInv'
    <2>1. flags'.dd = flags.dd /\ flags'.tok = flags.tok
      BY <1>4 DEF Refuse, SpoolInv, PrepShape
    <2> QED
      BY <1>4, <2>1, NoTasks, CorpusSame DEF Refuse, dataset
  <1>5. ASSUME NEW u \in DOMAIN job, WorkerFails(u) \/ PutFails(u) PROVE CorpusInv'
    <2>1. UNCHANGED <<stage, spool, tokens, metas, index, at, flags>> /\ job' = [job EXCEPT ![u] = "failed"]
      BY <1>5 DEF WorkerFails, PutFails, dataset
    <2>2. \A v \in DOMAIN job' : job'[v] \in {"write", "done"} => v \in DOMAIN job /\ job'[v] = job[v]
      BY <2>1
    <2> QED
      BY <2>1, <2>2, CorpusSame
  <1>6. ASSUME NEW u \in DOMAIN job, Put(u) PROVE CorpusInv'
    BY <1>6, CorpusSame DEF Put
  <1>7. ASSUME NEW u \in DOMAIN job, Commit(u) \/ Record(u) \/ Open(u) \/ Flush(u) PROVE CorpusInv'
    BY <1>7, CommitCorpus, RecordCorpus, OpenCorpus, FlushCorpus
  <1>8. ASSUME NEW s \in Sources, Discard(s) \/ Prepare(s) PROVE CorpusInv'
    BY <1>8, DiscardCorpus, PrepareCorpus
  <1>9. ASSUME End \/ Shard \/ Manifest \/ Verify PROVE CorpusInv'
    BY <1>9, EndCorpus, LaterCorpus
  <1> QED
    BY <1>1, <1>2, <1>3, <1>4, <1>5, <1>6, <1>7, <1>8, <1>9 DEF PrepNext, Step

LEMMA CorpusAtStart == PrepInit => CorpusInv
  <1> SUFFICES ASSUME PrepInit PROVE CorpusInv
    OBVIOUS
  <1>1. stage = "download" /\ DOMAIN tokens = {} /\ \A u \in Units : spool["dedup"][u] = NewSpool
    BY NoTasks, RootsAre DEF PrepInit
  <1>2. Fresh
    BY <1>1 DEF Fresh
  <1>3. Filling /\ Filled /\ Tokenizing
    BY <1>1 DEF Filling, Filled, Tokenizing, Deduped, Tokenized, Sharded, Indexed
  <1>4. AllTokenized /\ AllSharded /\ AllIndexed
    BY <1>1 DEF AllTokenized, AllSharded, AllIndexed, Tokenized, Sharded, Indexed
  <1> QED
    BY <1>2, <1>3, <1>4 DEF CorpusInv

\* Whichever way each stage ran, was killed and resumed, the index commits to
\* the spooled documents deduplicated in priority order, in pack order, cut
\* into sequences.
THEOREM CorpusHolds == ASSUME Steady PROVE PrepSpec => []CommittedIsTheCorpus
  <1>1. PrepInit => SpoolInv /\ CorpusInv
    BY SpoolsAtStart, CorpusAtStart
  <1>2. (SpoolInv /\ CorpusInv) /\ [PrepNext]_prepVars => (SpoolInv /\ CorpusInv)'
    BY SpoolsKeep, CorpusKeeps
  <1>3. SpoolInv /\ CorpusInv => CommittedIsTheCorpus
    BY DEF CorpusInv, AllSharded, AllIndexed, Sharded, Indexed, Corpus, CommittedIsTheCorpus
  <1> QED
    BY <1>1, <1>2, <1>3, PTL DEF PrepSpec
=============================================================================
