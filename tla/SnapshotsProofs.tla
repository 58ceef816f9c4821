--------------------------- MODULE SnapshotsProofs --------------------------
(***************************************************************************)
(* Theorems of Snapshots, for any windows, cadence, retention, retries and *)
(* number of rollbacks: a node runs on one checkpoint, unless the leader's *)
(* bucket is also the one the owner published the initialization in.       *)
(***************************************************************************)
EXTENDS Snapshots, FiniteSetTheorems, TLAPS

-----------------------------------------------------------------------------
(***************************************************************************)
(* Numbers.  That a non-empty set of naturals has a least element is the   *)
(* induction principle in a form without an operator for the hypothesis.   *)
(***************************************************************************)
LEMMA LeastNatural ==
  ASSUME NEW S, S \subseteq Nat, S # {}
  PROVE  \E m \in S : \A x \in S : m <= x
<1> DEFINE Less == {p \in Nat \X Nat : p[1] < p[2]}
<1>1. IsWellFoundedOn(Less, Nat)
  BY NatLessThanWellFounded DEF OpToRel
<1> HIDE DEF Less
<1>2. PICK m \in S : \A y \in S : <<y, m>> \notin Less
  BY <1>1, WFMin
<1>3. \A x \in S : m \in Nat /\ x \in Nat /\ ~(x < m)
  BY <1>2 DEF Less
<1> QED
  BY <1>3

LEMMA GreatestNatural ==
  ASSUME NEW N \in Nat, NEW S, S \subseteq 0 .. N, S # {}
  PROVE  Max(S) \in S /\ \A x \in S : x <= Max(S)
<1>1. \A x \in S : x \in Nat /\ N - x \in Nat
  OBVIOUS
<1>2. PICK T : T = {N - x : x \in S}
  OBVIOUS
<1>3. T \subseteq Nat /\ T # {}
  BY <1>1, <1>2
<1>4. PICK m \in T : \A y \in T : m <= y
  BY <1>3, LeastNatural
<1>5. PICK x \in S : m = N - x
  BY <1>2
<1>6. \A y \in S : y <= x
  <2>1. \A y \in S : N - y \in T
    BY <1>2
  <2> QED
    BY <1>1, <1>4, <1>5, <2>1
<1> QED
  BY <1>6 DEF Max

LEMMA ConstantTypes ==
  /\ MaxWindow \in Nat /\ MaxFaults \in Nat /\ MaxRollbacks \in Nat
  /\ Cadence \in Nat \ {0} /\ KeepLocal \in Nat \ {0} /\ Attempts \in Nat \ {0}
  /\ TarChunks \in Nat \ {0}
  /\ \A kind \in Kinds : Chunks(kind) \in Nat \ {0}
  /\ Windows \subseteq Int /\ Nowhere \notin Windows
BY SnapshotAssumption DEF Windows, Chunks, Nowhere

(* The objects of a checkpoint, in the order of their upload. *)
LEMMA OrderKinds ==
  /\ \A k \in 1 .. 3 : Order[k] \in Kinds
  /\ \A kind \in Kinds : \E k \in 1 .. 3 : Order[k] = kind
  /\ Order[3] = "meta"
BY DEF Order, Kinds

(* Pruning keeps no more than keep_local: all but the oldest one kept are   *)
(* newer than it, which are fewer than keep_local.                          *)
LEMMA NewestAreFew ==
  ASSUME NEW S, S \subseteq Windows
  PROVE  Newest(S) \subseteq S /\ Cardinality(Newest(S)) <= KeepLocal
<1>1. IsFiniteSet(S) /\ S \subseteq Nat /\ \A x \in S : x \in Nat
  <2>1. IsFiniteSet(0 .. MaxWindow)
    BY ConstantTypes, FS_Interval
  <2>2. S \subseteq 0 .. MaxWindow /\ S \subseteq Nat
    BY ConstantTypes DEF Windows
  <2> QED
    BY <2>1, <2>2, FS_Subset
<1>2. Newest(S) \subseteq S
  BY DEF Newest
<1>3. CASE Newest(S) = {}
  BY <1>2, <1>3, FS_EmptySet, ConstantTypes
<1>4. CASE Newest(S) # {}
  <2>1. PICK m \in Newest(S) : \A x \in Newest(S) : m <= x
    BY <1>1, <1>2, <1>4, LeastNatural
  <2>0. m \in Nat /\ \A x \in Newest(S) : x \in S /\ x \in Nat
    BY <1>1, <1>2
  <2> DEFINE newer == {x \in S : x > m}
  <2>2. Newest(S) \subseteq newer \cup {m}
    <3>1. ASSUME NEW x \in Newest(S), x # m PROVE x \in S /\ x > m
      BY <2>0, <2>1, <3>1
    <3> QED
      BY <3>1
  <2>3. Cardinality(newer) < KeepLocal
    BY <2>1 DEF Newest
  <2>4. IsFiniteSet(newer) /\ Cardinality(newer) \in Nat /\ m \notin newer
    <3>1. newer \subseteq S /\ ~(m > m)
      BY <2>0
    <3>2. m \notin newer
      BY <3>1
    <3> QED
      BY <1>1, <3>1, <3>2, FS_Subset, FS_CardinalityType
  <2> HIDE DEF newer
  <2>5. IsFiniteSet(newer \cup {m}) /\ Cardinality(newer \cup {m}) = Cardinality(newer) + 1
    BY <2>4, FS_AddElement
  <2>6. Cardinality(Newest(S)) <= Cardinality(newer \cup {m}) /\ IsFiniteSet(Newest(S))
    BY <2>2, <2>5, FS_Subset
  <2>7. Cardinality(Newest(S)) \in Nat
    BY <2>6, FS_CardinalityType
  <2> QED
    BY <1>2, <2>3, <2>4, <2>5, <2>6, <2>7, ConstantTypes
<1> QED
  BY <1>3, <1>4

-----------------------------------------------------------------------------
(***************************************************************************)
(* The invariant.  A window is saved once, on one line, because a rollback *)
(* does not turn the window counter back: whatever the bucket, an upload,  *)
(* a download or a disk holds of a window is one content.                  *)
(***************************************************************************)
Contents == (1 .. MaxRollbacks + 1) \X Windows
Parts == [Kinds -> Seq(Contents)]
Uploads == [w : Windows, c : Contents, k : 1 .. 3, tries : 0 .. Attempts - 1]
Downloads == [pc : {"start", "choose", "get", "running"}, todo : SUBSET Windows,
              w : Windows \cup {Nowhere}, k : 1 .. 3, tries : 0 .. Attempts - 1]

SnapTypes ==
  /\ line \in 1 .. MaxRollbacks + 1 /\ next \in 0 .. MaxWindow + 1
  /\ void \subseteq Windows /\ faults \in 0 .. MaxFaults
  /\ leadDisk \subseteq Windows /\ Cardinality(leadDisk) <= KeepLocal
  /\ lead \in {Quiet} \cup Uploads
  /\ remote \in [Windows -> [Kinds -> Contents \cup {Missing}]]
  /\ read \in Downloads /\ part \in Parts
  /\ readDisk \in [Windows -> Parts]

(* What the leader's bucket and its upload hold of window w. *)
OneContent(w) ==
  \E c \in Contents : /\ lead.w = w => lead.c = c
                      /\ \A kind \in Kinds : remote[w][kind] \in {Missing, c}

BucketOk ==
  /\ \A w \in Windows : OneContent(w)
  /\ \A w \in Windows : w >= next => lead.w # w /\ \A kind \in Kinds : remote[w][kind] = Missing

Full(w) == \A kind \in Kinds : remote[w][kind] # Missing

(* What a download has so far. *)
DownloadOk ==
  /\ read.pc \in {"choose", "get"} => \A w \in read.todo : Full(w)
  /\ read.pc = "get" =>
       /\ read.w \in Windows /\ Full(read.w)
       /\ \A kind \in Kinds : \A i \in DOMAIN part[kind] : part[kind][i] = remote[read.w][kind]
       /\ \A j \in 1 .. 3 : j < read.k => Len(part[Order[j]]) = Chunks(Order[j])
  /\ \A kind \in Kinds : Len(part[kind]) <= Chunks(kind)

Sized(parts) == \A kind \in Kinds : Len(parts[kind]) = Chunks(kind)

DiskOk == \A w \in Windows : readDisk[w] # NoParts => Whole(readDisk[w]) /\ Sized(readDisk[w])

SnapInv == SnapTypes /\ BucketOk /\ DownloadOk /\ DiskOk /\ RestoredWhole

-----------------------------------------------------------------------------
LEMMA StartTypes ==
  /\ Idle \in Downloads /\ NoParts \in Parts /\ Quiet.w = Nowhere
  /\ \A kind \in Kinds : NoParts[kind] = << >> /\ Len(NoParts[kind]) = 0
  /\ 0 \in 0 .. Attempts - 1
BY ConstantTypes DEF Idle, Downloads, NoParts, Parts, Quiet, Nowhere

LEMMA NotUploads ==
  lead \in {Quiet} \cup Uploads => (lead # Quiet <=> lead \in Uploads)
BY ConstantTypes DEF Quiet, Uploads, Nowhere

(* A whole set of files, as an installed checkpoint or a replica has it. *)
LEMMA InitIsWhole ==
  Whole([kind \in Kinds |-> <<InitState>>])
BY DEF Whole

LEMMA EmptyIsWhole ==
  Whole(NoParts)
BY DEF Whole, NoParts

LEMMA InvAtStart ==
  ~Shared /\ Init => SnapInv
<1> SUFFICES ASSUME ~Shared, Init PROVE SnapInv
  OBVIOUS
<1>1. SnapTypes
  <2>1. Cardinality({}) = 0
    BY FS_EmptySet
  <2> QED
    BY <2>1, StartTypes, ConstantTypes DEF Init, SnapTypes, InitWindow
<1>2. BucketOk
  <2>1. \A w \in Windows : lead.w # w
    BY StartTypes, ConstantTypes DEF Init
  <2>2. ASSUME NEW w \in Windows PROVE OneContent(w)
    <3>1. <<1, w>> \in Contents
      BY ConstantTypes DEF Contents
    <3> QED
      BY <2>1, <3>1 DEF Init, OneContent
  <2> QED
    BY <2>1, <2>2 DEF Init, BucketOk
<1>3. DownloadOk
  BY StartTypes, ConstantTypes DEF Init, DownloadOk, Idle
<1>4. DiskOk /\ RestoredWhole
  BY DEF Init, DiskOk, RestoredWhole, Idle
<1> QED
  BY <1>1, <1>2, <1>3, <1>4 DEF SnapInv

-----------------------------------------------------------------------------
(***************************************************************************)
(* The leader's steps.                                                     *)
(***************************************************************************)

(* What a step of the leader must keep of the bucket so that downloads stay *)
(* what they are.                                                           *)
FullStays ==
  \A w \in Windows : Full(w) => \A kind \in Kinds : remote'[w][kind] = remote[w][kind]

LEMMA NodeUndisturbed ==
  ASSUME SnapInv, FullStays, UNCHANGED node, remote' \in [Windows -> [Kinds -> Contents \cup {Missing}]]
  PROVE  DownloadOk' /\ DiskOk' /\ RestoredWhole'
<1>1. read' = read /\ part' = part /\ readDisk' = readDisk /\ replica' = replica
  BY DEF node
<1>2. \A w \in Windows : Full(w) => Full(w)'
  BY DEF FullStays, Full
<1>3. read.todo \subseteq Windows
  BY DEF SnapInv, SnapTypes, Downloads
<1>4. DownloadOk'
  BY <1>1, <1>2, <1>3 DEF SnapInv, DownloadOk, FullStays
<1>5. DiskOk' /\ RestoredWhole'
  BY <1>1 DEF SnapInv, DiskOk, RestoredWhole
<1> QED
  BY <1>4, <1>5

LEMMA SaveKeeps ==
  SnapInv /\ Save => SnapInv'
<1> SUFFICES ASSUME SnapInv, Save PROVE SnapInv'
  OBVIOUS
<1>1. /\ next \in Windows /\ next' = next + 1 /\ lead = Quiet /\ next \in Int
      /\ UNCHANGED <<line, void, remote, faults>> /\ UNCHANGED node
  BY ConstantTypes DEF Save
<1>2. next' \in 0 .. MaxWindow + 1
  BY <1>1, ConstantTypes DEF Windows
<1>3. leadDisk' \subseteq Windows /\ Cardinality(leadDisk') <= KeepLocal
  <2>1. leadDisk' = leadDisk \/ leadDisk' = Newest(leadDisk \cup {next})
    BY DEF Save
  <2>2. leadDisk \cup {next} \subseteq Windows
    BY <1>1 DEF SnapInv, SnapTypes
  <2> QED
    BY <2>1, <2>2, NewestAreFew DEF SnapInv, SnapTypes
<1>4. <<line, next>> \in Contents
  BY <1>1 DEF Contents, SnapInv, SnapTypes
<1>5. lead' = lead \/ lead' = [w |-> next, c |-> <<line, next>>, k |-> 1, tries |-> 0]
  BY DEF Save
<1>6. lead' \in {Quiet} \cup Uploads
  <2>1. [w |-> next, c |-> <<line, next>>, k |-> 1, tries |-> 0] \in Uploads
    BY <1>1, <1>4, StartTypes DEF Uploads
  <2> QED
    BY <1>1, <1>5, <2>1
<1>7. SnapTypes'
  BY <1>1, <1>2, <1>3, <1>6 DEF SnapInv, SnapTypes, node
<1>8. BucketOk'
  <2>1. \A w \in Windows : w >= next' => w >= next /\ w # next
    BY <1>1, ConstantTypes
  <2>2. \A w \in Windows : lead'.w = w => w = next /\ lead'.c = <<line, next>>
    BY <1>1, <1>5, StartTypes, ConstantTypes
  <2>3. ASSUME NEW w \in Windows PROVE OneContent(w)'
    <3>1. CASE w = next
      <4>1. \A kind \in Kinds : remote[w][kind] = Missing
        BY <1>1, <3>1 DEF SnapInv, BucketOk
      <4> QED
        BY <1>1, <1>4, <2>2, <4>1 DEF OneContent
    <3>2. CASE w # next
      BY <1>1, <2>2, <2>3, <3>2 DEF SnapInv, BucketOk, OneContent
    <3> QED
      BY <3>1, <3>2
  <2>4. ASSUME NEW w \in Windows, w >= next'
        PROVE  lead'.w # w /\ \A kind \in Kinds : remote'[w][kind] = Missing
    BY <1>1, <2>1, <2>2, <2>4 DEF SnapInv, BucketOk
  <2> QED
    BY <2>3, <2>4 DEF BucketOk
<1>9. DownloadOk' /\ DiskOk' /\ RestoredWhole'
  BY <1>1, NodeUndisturbed DEF FullStays, SnapInv, SnapTypes
<1> QED
  BY <1>7, <1>8, <1>9 DEF SnapInv

LEMMA PutKeeps ==
  SnapInv /\ Put => SnapInv'
<1> SUFFICES ASSUME SnapInv, Put PROVE SnapInv'
  OBVIOUS
<1> DEFINE kind0 == Order[lead.k]
<1>1. /\ lead # Quiet
      /\ remote' = [remote EXCEPT ![lead.w][kind0] = lead.c]
      /\ lead' = IF lead.k = 3 THEN Quiet ELSE [lead EXCEPT !.k = @ + 1, !.tries = 0]
      /\ UNCHANGED <<line, next, void, leadDisk, faults>> /\ UNCHANGED node
  BY DEF Put
<1>2. /\ lead \in Uploads /\ lead.w \in Windows /\ lead.c \in Contents /\ lead.k \in 1 .. 3
      /\ kind0 \in Kinds
      /\ remote \in [Windows -> [Kinds -> Contents \cup {Missing}]]
  BY <1>1, NotUploads, OrderKinds DEF SnapInv, SnapTypes, Uploads
<1>3. lead' \in {Quiet} \cup Uploads /\ (lead' = Quiet \/ (lead'.w = lead.w /\ lead'.c = lead.c))
  <2>1. CASE lead.k = 3
    BY <1>1, <2>1
  <2>2. CASE lead.k # 3
    <3>1. lead.k + 1 \in 1 .. 3
      BY <1>2, <2>2
    <3> QED
      BY <1>1, <1>2, <2>2, <3>1, StartTypes DEF Uploads
  <2> QED
    BY <2>1, <2>2
<1> HIDE DEF kind0
<1>4. /\ remote' \in [Windows -> [Kinds -> Contents \cup {Missing}]]
      /\ \A w \in Windows, kind \in Kinds :
           remote'[w][kind] = IF w = lead.w /\ kind = kind0 THEN lead.c ELSE remote[w][kind]
  BY <1>1, <1>2
<1>5. SnapTypes'
  BY <1>1, <1>3, <1>4 DEF SnapInv, SnapTypes, node
<1>6. BucketOk'
  <2>1. ASSUME NEW w \in Windows PROVE OneContent(w)'
    <3>1. PICK c \in Contents : /\ lead.w = w => lead.c = c
                                /\ \A kind \in Kinds : remote[w][kind] \in {Missing, c}
      BY DEF SnapInv, BucketOk, OneContent
    <3>2. lead'.w = w => lead'.c = c
      BY <1>3, <3>1, StartTypes, ConstantTypes
    <3> QED
      BY <1>4, <3>1, <3>2 DEF OneContent
  <2>2. ASSUME NEW w \in Windows, w >= next
        PROVE  lead'.w # w /\ \A kind \in Kinds : remote'[w][kind] = Missing
    BY <1>3, <1>4, <2>2, StartTypes, ConstantTypes DEF SnapInv, BucketOk
  <2> QED
    BY <1>1, <2>1, <2>2 DEF BucketOk
<1>7. FullStays
  <2> SUFFICES ASSUME NEW w \in Windows, Full(w), NEW kind \in Kinds
               PROVE  remote'[w][kind] = remote[w][kind]
    BY DEF FullStays
  <2>1. PICK c \in Contents : /\ lead.w = w => lead.c = c
                              /\ \A k \in Kinds : remote[w][k] \in {Missing, c}
    BY DEF SnapInv, BucketOk, OneContent
  <2> QED
    BY <1>4, <2>1 DEF Full
<1>8. DownloadOk' /\ DiskOk' /\ RestoredWhole'
  BY <1>1, <1>4, <1>7, NodeUndisturbed
<1> QED
  BY <1>5, <1>6, <1>8 DEF SnapInv

(* The steps of the leader that leave its bucket alone: what they do to the *)
(* upload is give it up, or count a try.                                    *)
LEMMA LeaderFaultKeeps ==
  SnapInv /\ (PutFault \/ LeadCrash \/ Rollback) => SnapInv'
<1> SUFFICES ASSUME SnapInv, PutFault \/ LeadCrash \/ Rollback PROVE SnapInv'
  OBVIOUS
<1>1. remote' = remote /\ next' = next /\ leadDisk' = leadDisk /\ UNCHANGED node
  BY DEF PutFault, LeadCrash, Rollback
<1>2. lead' = lead \/ lead' = Quiet \/ (lead' = [lead EXCEPT !.tries = @ + 1]
                                        /\ lead # Quiet /\ lead.tries + 1 < Attempts)
  BY DEF PutFault, LeadCrash, Rollback
<1>3. lead \in {Quiet} \cup Uploads
  BY DEF SnapInv, SnapTypes
<1>4. lead' \in {Quiet} \cup Uploads /\ (lead' = Quiet \/ (lead'.w = lead.w /\ lead'.c = lead.c))
  <2>1. CASE lead' = [lead EXCEPT !.tries = @ + 1] /\ lead # Quiet /\ lead.tries + 1 < Attempts
    <3>1. lead \in Uploads
      BY <1>3, <2>1
    <3>2. lead.tries + 1 \in 0 .. Attempts - 1
      BY <2>1, <3>1, ConstantTypes DEF Uploads
    <3> QED
      BY <2>1, <3>1, <3>2 DEF Uploads
  <2> QED
    BY <1>2, <1>3, <2>1
<1>5. line' \in 1 .. MaxRollbacks + 1 /\ void' \subseteq Windows
  <2>1. line \in 1 .. MaxRollbacks + 1 /\ void \subseteq Windows /\ next \in 0 .. MaxWindow + 1
        /\ leadDisk \subseteq Windows
    BY DEF SnapInv, SnapTypes
  <2>2. CASE Rollback
    <3>1. PICK t \in leadDisk : void' = void \cup (t + 1 .. next - 1)
      BY <2>2 DEF Rollback
    <3>2. t \in 0 .. MaxWindow
      BY <2>1, <3>1 DEF Windows
    <3>3. t + 1 .. next - 1 \subseteq Windows
      BY <2>1, <3>2, ConstantTypes DEF Windows
    <3>4. line' \in 1 .. MaxRollbacks + 1
      BY <2>1, <2>2, ConstantTypes DEF Rollback
    <3> QED
      BY <2>1, <3>1, <3>3, <3>4
  <2> QED
    BY <2>1, <2>2 DEF PutFault, LeadCrash
<1>6. faults' \in 0 .. MaxFaults
  BY ConstantTypes DEF SnapInv, SnapTypes, PutFault, LeadCrash, Rollback
<1>7. SnapTypes'
  BY <1>1, <1>4, <1>5, <1>6 DEF SnapInv, SnapTypes, node
<1>8. BucketOk'
  <2>1. \A w \in Windows : lead'.w = w => lead.w = w /\ lead'.c = lead.c
    BY <1>4, StartTypes, ConstantTypes
  <2>2. ASSUME NEW w \in Windows PROVE OneContent(w)'
    <3>1. PICK c \in Contents : /\ lead.w = w => lead.c = c
                               /\ \A kind \in Kinds : remote[w][kind] \in {Missing, c}
      BY DEF SnapInv, BucketOk, OneContent
    <3> QED
      BY <1>1, <2>1, <3>1 DEF OneContent
  <2>3. ASSUME NEW w \in Windows, w >= next'
        PROVE  lead'.w # w /\ \A kind \in Kinds : remote'[w][kind] = Missing
    BY <1>1, <2>1, <2>3 DEF SnapInv, BucketOk
  <2> QED
    BY <2>2, <2>3 DEF BucketOk
<1>9. DownloadOk' /\ DiskOk' /\ RestoredWhole'
  BY <1>1, NodeUndisturbed DEF FullStays, SnapInv, SnapTypes
<1> QED
  BY <1>7, <1>8, <1>9 DEF SnapInv

-----------------------------------------------------------------------------
(***************************************************************************)
(* The node's steps.                                                       *)
(***************************************************************************)
LEMMA BucketUndisturbed ==
  ASSUME SnapInv, UNCHANGED leader
  PROVE  /\ BucketOk' /\ lead' \in {Quiet} \cup Uploads
         /\ \A w \in Windows : Full(w)' <=> Full(w)
         /\ remote' = remote
         /\ line' \in 1 .. MaxRollbacks + 1 /\ next' \in 0 .. MaxWindow + 1
         /\ void' \subseteq Windows
         /\ leadDisk' \subseteq Windows /\ Cardinality(leadDisk') <= KeepLocal
         /\ remote' \in [Windows -> [Kinds -> Contents \cup {Missing}]]
<1>1. /\ line' = line /\ next' = next /\ void' = void /\ lead' = lead /\ leadDisk' = leadDisk
      /\ remote' = remote
  BY DEF leader
<1> QED
  BY <1>1 DEF SnapInv, SnapTypes, BucketOk, OneContent, Full

LEMMA IdleAgain ==
  ASSUME NEW p \in {"start", "choose", "running"}, NEW todo \in SUBSET Windows
  PROVE  /\ [Idle EXCEPT !.pc = p] \in Downloads
         /\ [Idle EXCEPT !.pc = p, !.todo = todo] \in Downloads
BY StartTypes, ConstantTypes DEF Idle, Downloads

(* The files a download has are the ones of one save. *)
LEMMA PartIsWhole ==
  ASSUME SnapInv, read.pc = "get"
  PROVE  Whole(part)
<1>1. /\ read.w \in Windows /\ Full(read.w) /\ part \in Parts
      /\ \A kind \in Kinds : \A i \in DOMAIN part[kind] : part[kind][i] = remote[read.w][kind]
  BY DEF SnapInv, DownloadOk, SnapTypes
<1>2. PICK c \in Contents : \A kind \in Kinds : remote[read.w][kind] \in {Missing, c}
  BY <1>1 DEF SnapInv, BucketOk, OneContent
<1>3. \A kind \in Kinds : \A i \in DOMAIN part[kind] : part[kind][i] = c
  BY <1>1, <1>2 DEF Full
<1> QED
  BY <1>3 DEF Whole, Contents

LEMMA LoadLocalKeeps ==
  SnapInv /\ LoadLocal => SnapInv'
<1> SUFFICES ASSUME SnapInv, LoadLocal PROVE SnapInv'
  OBVIOUS
<1>1. /\ UNCHANGED leader /\ part' = part /\ readDisk' = readDisk /\ faults' = faults
      /\ read' = [Idle EXCEPT !.pc = "running"]
      /\ replica'.parts = readDisk[Max(Local)]
  BY DEF LoadLocal, Load
<1>2. Max(Local) \in Local
  BY ConstantTypes, GreatestNatural DEF LoadLocal, Local, Windows
<1>3. Whole(readDisk[Max(Local)])
  BY <1>2 DEF Local, SnapInv, DiskOk
<1>4. read' \in Downloads /\ read'.pc = "running"
  BY <1>1, IdleAgain DEF Idle
<1> QED
  BY <1>1, <1>3, <1>4, BucketUndisturbed
  DEF SnapInv, SnapTypes, DownloadOk, DiskOk, RestoredWhole

LEMMA FreshInitKeeps ==
  SnapInv /\ FreshInit => SnapInv'
<1> SUFFICES ASSUME SnapInv, FreshInit PROVE SnapInv'
  OBVIOUS
<1>1. /\ UNCHANGED leader /\ part' = part /\ readDisk' = readDisk /\ faults' = faults
      /\ read' = [Idle EXCEPT !.pc = "running"]
      /\ replica'.parts = [kind \in Kinds |-> <<InitState>>]
  BY DEF FreshInit
<1>2. read' \in Downloads /\ read'.pc = "running"
  BY <1>1, IdleAgain DEF Idle
<1> QED
  BY <1>1, <1>2, InitIsWhole, BucketUndisturbed
  DEF SnapInv, SnapTypes, DownloadOk, DiskOk, RestoredWhole

LEMMA ListKeeps ==
  SnapInv /\ List => SnapInv'
<1> SUFFICES ASSUME SnapInv, List PROVE SnapInv'
  OBVIOUS
<1>1. /\ UNCHANGED leader /\ part' = part /\ readDisk' = readDisk /\ faults' = faults
      /\ replica' = replica
      /\ read' = [Idle EXCEPT !.pc = "choose", !.todo = Complete]
  BY DEF List
<1>2. Complete \in SUBSET Windows /\ \A w \in Complete : Full(w)
  BY DEF Complete, Full
<1>3. read' \in Downloads /\ read'.pc = "choose" /\ read'.todo = Complete
  BY <1>1, <1>2, IdleAgain DEF Idle
<1> QED
  BY <1>1, <1>2, <1>3, BucketUndisturbed
  DEF SnapInv, SnapTypes, DownloadOk, DiskOk, RestoredWhole

LEMMA StartDownloadKeeps ==
  SnapInv /\ StartDownload => SnapInv'
<1> SUFFICES ASSUME SnapInv, StartDownload PROVE SnapInv'
  OBVIOUS
<1>1. /\ UNCHANGED leader /\ part' = NoParts /\ readDisk' = readDisk /\ faults' = faults
      /\ replica' = replica /\ read.pc = "choose" /\ read.todo # {}
      /\ read' = [read EXCEPT !.pc = "get", !.w = Max(read.todo), !.k = 1, !.tries = 0]
  BY DEF StartDownload
<1>2. read \in Downloads /\ read.todo \subseteq Windows
  BY DEF SnapInv, SnapTypes, Downloads
<1>3. Max(read.todo) \in read.todo /\ Max(read.todo) \in Windows
  BY <1>1, <1>2, ConstantTypes, GreatestNatural DEF Windows
<1>4. Full(Max(read.todo)) /\ \A w \in read.todo : Full(w)
  BY <1>1, <1>3 DEF SnapInv, DownloadOk
<1>5. /\ read' \in Downloads /\ read'.pc = "get" /\ read'.w = Max(read.todo) /\ read'.k = 1
      /\ read'.todo = read.todo
  <2>1. PICK m : m = Max(read.todo)
    OBVIOUS
  <2>2. read' = [read EXCEPT !.pc = "get", !.w = m, !.k = 1, !.tries = 0] /\ m \in Windows
    BY <1>1, <1>3, <2>1
  <2>3. 1 \in 1 .. 3 /\ 0 \in 0 .. Attempts - 1
    BY StartTypes
  <2>4. /\ read' \in Downloads /\ read'.pc = "get" /\ read'.w = m /\ read'.k = 1
        /\ read'.todo = read.todo
    BY <1>2, <2>2, <2>3 DEF Downloads
  <2> QED
    BY <2>1, <2>4
<1>6. DownloadOk'
  <2>1. \A j \in 1 .. 3 : ~(j < 1)
    OBVIOUS
  <2>2. \A kind \in Kinds : DOMAIN NoParts[kind] = {} /\ Len(NoParts[kind]) <= Chunks(kind)
    BY ConstantTypes DEF NoParts
  <2> QED
    BY <1>1, <1>2, <1>3, <1>4, <1>5, <2>1, <2>2, BucketUndisturbed DEF DownloadOk
<1> QED
  BY <1>1, <1>5, <1>6, StartTypes, BucketUndisturbed
  DEF SnapInv, SnapTypes, DiskOk, RestoredWhole

LEMMA GetRangeKeeps ==
  SnapInv /\ GetRange => SnapInv'
<1> SUFFICES ASSUME SnapInv, GetRange PROVE SnapInv'
  OBVIOUS
<1>1. /\ UNCHANGED leader /\ readDisk' = readDisk /\ faults' = faults /\ replica' = replica
      /\ read.pc = "get" /\ Len(part[Kind]) < Chunks(Kind)
      /\ part' = [part EXCEPT ![Kind] = Append(part[Kind], remote[read.w][Kind])]
      /\ read' = [read EXCEPT !.tries = 0]
  BY DEF GetRange
<1>2. /\ read \in Downloads /\ read.k \in 1 .. 3 /\ Kind \in Kinds /\ part \in Parts
      /\ read.w \in Windows /\ Full(read.w) /\ read.todo \subseteq Windows
  BY <1>1, OrderKinds DEF SnapInv, SnapTypes, Downloads, DownloadOk, Kind
<1> HIDE DEF Kind
<1>3. remote[read.w][Kind] \in Contents
  BY <1>2 DEF SnapInv, SnapTypes, Full
<1>4. /\ part' \in Parts
      /\ part'[Kind] = Append(part[Kind], remote[read.w][Kind])
      /\ \A kind \in Kinds \ {Kind} : part'[kind] = part[kind]
  BY <1>1, <1>2, <1>3 DEF Parts
<1>5. /\ Len(part'[Kind]) = Len(part[Kind]) + 1 /\ Len(part[Kind]) \in Nat
      /\ \A i \in DOMAIN part'[Kind] : part'[Kind][i] = remote[read.w][Kind]
  <2>1. part[Kind] \in Seq(Contents)
    BY <1>2 DEF Parts
  <2>2. \A i \in DOMAIN part[Kind] : part[Kind][i] = remote[read.w][Kind]
    BY <1>1, <1>2 DEF SnapInv, DownloadOk
  <2> QED
    BY <1>3, <1>4, <2>1, <2>2
<1>6. read' \in Downloads /\ read'.pc = "get" /\ read'.w = read.w /\ read'.k = read.k
      /\ read'.todo = read.todo
  BY <1>1, <1>2, StartTypes DEF Downloads
<1>7. \A kind \in Kinds : /\ Len(part'[kind]) <= Chunks(kind)
                          /\ Len(part[kind]) = Chunks(kind) => part'[kind] = part[kind]
                          /\ \A i \in DOMAIN part'[kind] : part'[kind][i] = remote[read.w][kind]
  <2> TAKE kind \in Kinds
  <2>1. CASE kind = Kind
    BY <1>1, <1>4, <1>5, <2>1, ConstantTypes
  <2>2. CASE kind # Kind
    BY <1>1, <1>4, <2>2 DEF SnapInv, DownloadOk
  <2> QED
    BY <2>1, <2>2
<1>8. DownloadOk'
  <2>1. \A j \in 1 .. 3 : j < read.k => Len(part'[Order[j]]) = Chunks(Order[j])
    BY <1>1, <1>7, OrderKinds DEF SnapInv, DownloadOk
  <2>2. \A w \in read.todo : Full(w)
    BY <1>1 DEF SnapInv, DownloadOk
  <2> QED
    BY <1>2, <1>6, <1>7, <2>1, <2>2, BucketUndisturbed, <1>1 DEF DownloadOk
<1> QED
  BY <1>1, <1>4, <1>6, <1>8, BucketUndisturbed
  DEF SnapInv, SnapTypes, DiskOk, RestoredWhole

LEMMA NextFileKeeps ==
  SnapInv /\ NextFile => SnapInv'
<1> SUFFICES ASSUME SnapInv, NextFile PROVE SnapInv'
  OBVIOUS
<1>1. /\ UNCHANGED leader /\ part' = part /\ readDisk' = readDisk /\ faults' = faults
      /\ replica' = replica
      /\ read.pc = "get" /\ Len(part[Order[read.k]]) = Chunks(Order[read.k]) /\ read.k < 3
      /\ read' = [read EXCEPT !.k = @ + 1]
  BY DEF NextFile, Kind
<1>2. read \in Downloads /\ read.k \in 1 .. 3 /\ read.todo \subseteq Windows
  BY DEF SnapInv, SnapTypes, Downloads
<1>3. /\ read' \in Downloads /\ read'.pc = "get" /\ read'.w = read.w /\ read'.k = read.k + 1
      /\ read'.todo = read.todo
  <2>1. read.k + 1 \in 1 .. 3
    BY <1>1, <1>2
  <2> QED
    BY <1>1, <1>2, <2>1 DEF Downloads
<1>4. \A j \in 1 .. 3 : j < read.k + 1 => Len(part[Order[j]]) = Chunks(Order[j])
  <2>1. \A j \in 1 .. 3 : j < read.k + 1 => j < read.k \/ j = read.k
    BY <1>2
  <2> QED
    BY <1>1, <2>1 DEF SnapInv, DownloadOk
<1>5. DownloadOk'
  BY <1>1, <1>2, <1>3, <1>4, BucketUndisturbed DEF SnapInv, DownloadOk
<1> QED
  BY <1>1, <1>3, <1>5, BucketUndisturbed
  DEF SnapInv, SnapTypes, DiskOk, RestoredWhole

LEMMA InstallKeeps ==
  SnapInv /\ Install => SnapInv'
<1> SUFFICES ASSUME SnapInv, Install PROVE SnapInv'
  OBVIOUS
<1>1. /\ UNCHANGED leader /\ part' = NoParts /\ faults' = faults
      /\ read.pc = "get" /\ read.k = 3 /\ Len(part[Order[3]]) = Chunks(Order[3])
      /\ readDisk' = [readDisk EXCEPT ![read.w] = part]
      /\ read' = [Idle EXCEPT !.pc = "running"]
      /\ replica'.parts = part
  BY DEF Install, Load, Kind
<1>2. /\ read.w \in Windows /\ part \in Parts /\ readDisk \in [Windows -> Parts]
      /\ \A j \in 1 .. 3 : j < 3 => Len(part[Order[j]]) = Chunks(Order[j])
  BY <1>1 DEF SnapInv, SnapTypes, DownloadOk
<1>3. Whole(part)
  BY <1>1, PartIsWhole
<1>4. Sized(part)
  <2>1. \A j \in 1 .. 3 : Len(part[Order[j]]) = Chunks(Order[j])
    <3>1. \A j \in 1 .. 3 : j < 3 \/ j = 3
      OBVIOUS
    <3> QED
      BY <1>1, <1>2, <3>1
  <2> QED
    BY <2>1, OrderKinds DEF Sized
<1>5. DiskOk'
  BY <1>1, <1>2, <1>3, <1>4 DEF SnapInv, DiskOk
<1>6. read' \in Downloads /\ read'.pc = "running"
  BY <1>1, IdleAgain DEF Idle
<1>7. DownloadOk'
  BY <1>1, <1>6, StartTypes, ConstantTypes DEF DownloadOk
<1>8. readDisk' \in [Windows -> Parts]
  BY <1>1, <1>2
<1> QED
  BY <1>1, <1>3, <1>5, <1>6, <1>7, <1>8, StartTypes, BucketUndisturbed
  DEF SnapInv, SnapTypes, RestoredWhole

LEMMA NodeFaultKeeps ==
  SnapInv /\ (GetFault \/ NodeCrash) => SnapInv'
<1> SUFFICES ASSUME SnapInv, GetFault \/ NodeCrash PROVE SnapInv'
  OBVIOUS
<1>1. /\ UNCHANGED leader /\ readDisk' = readDisk
      /\ faults < MaxFaults /\ faults' = faults + 1
  BY DEF GetFault, NodeCrash
<1>2. faults' \in 0 .. MaxFaults
  BY <1>1, ConstantTypes DEF SnapInv, SnapTypes
<1>3. read \in Downloads /\ read.todo \subseteq Windows /\ part \in Parts
  BY DEF SnapInv, SnapTypes, Downloads
<1>4. CASE NodeCrash
  <2>1. read' = Idle /\ part' = part
    BY <1>4 DEF NodeCrash
  <2>2. read'.pc = "start"
    BY <2>1 DEF Idle
  <2> QED
    BY <1>1, <1>2, <2>1, <2>2, StartTypes, BucketUndisturbed
    DEF SnapInv, SnapTypes, DownloadOk, DiskOk, RestoredWhole
<1>5. CASE GetFault /\ read.tries + 1 < Attempts
  <2>1. read.pc = "get" /\ read' = [read EXCEPT !.tries = @ + 1] /\ part' = part
    BY <1>5 DEF GetFault
  <2>2. read.tries + 1 \in 0 .. Attempts - 1
    BY <1>3, <1>5, ConstantTypes DEF Downloads
  <2>3. /\ read' \in Downloads /\ read'.pc = "get" /\ read'.w = read.w /\ read'.k = read.k
        /\ read'.todo = read.todo
    BY <1>3, <2>1, <2>2 DEF Downloads
  <2>4. DownloadOk'
    BY <1>1, <1>3, <2>1, <2>3, BucketUndisturbed DEF SnapInv, DownloadOk
  <2> QED
    BY <1>1, <1>2, <2>1, <2>3, <2>4, BucketUndisturbed
    DEF SnapInv, SnapTypes, DiskOk, RestoredWhole
<1>6. CASE GetFault /\ ~(read.tries + 1 < Attempts)
  <2>1. /\ read.pc = "get" /\ part' = NoParts
        /\ read' \in {[Idle EXCEPT !.pc = "choose", !.todo = read.todo \ {read.w}], Idle}
    BY <1>6 DEF GetFault
  <2>2. read' \in Downloads /\ read'.pc \in {"choose", "start"} /\ read'.todo \subseteq read.todo \ {read.w}
    <3>1. CASE read' = Idle
      BY <3>1, StartTypes DEF Idle
    <3>2. CASE read' = [Idle EXCEPT !.pc = "choose", !.todo = read.todo \ {read.w}]
      BY <1>3, <3>2, IdleAgain DEF Idle
    <3> QED
      BY <2>1, <3>1, <3>2
  <2>3. DownloadOk'
    BY <1>1, <1>3, <2>1, <2>2, StartTypes, ConstantTypes, BucketUndisturbed DEF SnapInv, DownloadOk
  <2> QED
    BY <1>1, <1>2, <2>1, <2>2, <2>3, StartTypes, BucketUndisturbed
    DEF SnapInv, SnapTypes, DiskOk, RestoredWhole
<1> QED
  BY <1>4, <1>5, <1>6

-----------------------------------------------------------------------------
LEMMA Invariant ==
  ~Shared => (Spec => []SnapInv)
<1>1. SnapInv /\ [Next]_vars => SnapInv'
  <2> SUFFICES ASSUME SnapInv, [Next]_vars PROVE SnapInv'
    OBVIOUS
  <2>1. CASE UNCHANGED vars
    <3>1. UNCHANGED leader /\ UNCHANGED node /\ faults' = faults
      BY <2>1 DEF vars, leader, node
    <3>2. read' = read /\ part' = part /\ readDisk' = readDisk
      BY <3>1 DEF node
    <3>3. DownloadOk' /\ DiskOk' /\ RestoredWhole'
      BY <3>1, BucketUndisturbed, NodeUndisturbed DEF FullStays
    <3> QED
      BY <3>1, <3>2, <3>3, BucketUndisturbed DEF SnapInv, SnapTypes
  <2> QED
    BY <2>1, SaveKeeps, PutKeeps, LeaderFaultKeeps, LoadLocalKeeps, FreshInitKeeps, ListKeeps,
       StartDownloadKeeps, GetRangeKeeps, NextFileKeeps, InstallKeeps, NodeFaultKeeps
    DEF Next, Restore
<1> QED
  BY <1>1, InvAtStart, PTL DEF Spec

(* Type correctness of the restart, the retention bound and the sizes of    *)
(* files among it.                                                          *)
THEOREM TypesHold ==
  ASSUME ~Shared
  PROVE  Spec => []TypeOK
<1>1. SnapInv => TypeOK
  <2> SUFFICES ASSUME SnapInv PROVE TypeOK
    OBVIOUS
  <2>1. lead.k \in 1 .. 3 /\ lead.tries \in 0 .. Attempts - 1
    BY ConstantTypes DEF SnapInv, SnapTypes, Uploads, Quiet
  <2> QED
    BY <2>1 DEF SnapInv, SnapTypes, Downloads, DownloadOk, DiskOk, Sized, TypeOK
<1> QED
  BY <1>1, Invariant, PTL

(* However uploads, downloads, retries, crashes and rollbacks interleave: a *)
(* node that runs has weights, momentum and meta of one save. Where the     *)
(* owner is the leader this is false (OwnerIsLeader.cfg).                   *)
THEOREM NodesRunOnOneCheckpoint ==
  ASSUME ~Shared
  PROVE  Spec => []RestoredWhole
<1>1. SnapInv => RestoredWhole
  BY DEF SnapInv
<1> QED
  BY <1>1, Invariant, PTL
=============================================================================
