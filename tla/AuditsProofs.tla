---------------------------- MODULE AuditsProofs ----------------------------
(***************************************************************************)
(* What the audits promise for every number of miners, auditors and        *)
(* windows, every quorum and every sampling.  The argument: an auditor     *)
(* whose hardware works only ever publishes a mismatch on a cheat          *)
(* (HonestBuckets); buckets and the set of tagged auditors only grow, so a *)
(* quorum once seen stays (Evidence); a quorum has more members than there *)
(* are broken auditors, so one of its members works.                       *)
(***************************************************************************)
EXTENDS Audits, FiniteSetTheorems, TLAPS

\* Buckets are functions over the auditors, only auditors are tagged, and a
\* mismatch from a working auditor is about a cheat.
HonestBuckets ==
    /\ bucket = [a \in Auditors |-> bucket[a]]
    /\ tagged \subseteq Auditors
    /\ \A a \in Auditors : \A v \in bucket[a] :
         ~v.match => v.miner \in Cheats \/ a \in Broken

IInv == HonestBuckets /\ NoFalseConviction /\ SentencesRestOnAQuorum

-----------------------------------------------------------------------------
\* The auditors that reproduce a mismatch are a finite set of auditors.
LEMMA MismatchingFinite ==
    ASSUME tagged \subseteq Auditors, NEW m, NEW w
    PROVE  /\ Mismatching(m, w) \subseteq Auditors
           /\ IsFiniteSet(Mismatching(m, w))
           /\ Cardinality(Mismatching(m, w)) \in Nat
<1>1. Mismatching(m, w) \subseteq Auditors  BY DEF Mismatching
<1>2. IsFiniteSet(Mismatching(m, w))  BY <1>1, UidsAreNumbers, FS_Subset
<1> QED  BY <1>1, <1>2, FS_CardinalityType

\* A quorum of mismatches convicts cheats only.
LEMMA ConvictableAreCheats ==
    ASSUME HonestBuckets, NEW w, NEW m \in Convictable(w)
    PROVE  m \in Cheats
<1> SUFFICES ASSUME m \notin Cheats PROVE FALSE  OBVIOUS
<1>1. Mismatching(m, w) \subseteq Broken
  BY DEF HonestBuckets, Mismatching
<1>2. Cardinality(Mismatching(m, w)) <= Cardinality(Broken)
  BY <1>1, FewBroken, FS_Subset
<1>3. Cardinality(Mismatching(m, w)) \in Nat /\ Cardinality(Broken) \in Nat
  BY MismatchingFinite, FewBroken, FS_CardinalityType DEF HonestBuckets
<1>4. Cardinality(Mismatching(m, w)) >= Quorum  BY DEF Convictable
<1> QED  BY <1>2, <1>3, <1>4, FewBroken

\* Evidence never shrinks: no step retracts a tag or a published verdict.
LEMMA EvidenceGrows ==
    ASSUME HonestBuckets, HonestBuckets',
           tagged \subseteq tagged',
           \A a \in Auditors : bucket[a] \subseteq bucket'[a],
           NEW m, NEW w, Cardinality(Mismatching(m, w)) >= Quorum
    PROVE  Cardinality(Mismatching(m, w)') >= Quorum
<1>1. Mismatching(m, w) \subseteq Mismatching(m, w)'
  BY DEF Mismatching, HonestBuckets
<1>2. IsFiniteSet(Mismatching(m, w)')
  <2>1. Mismatching(m, w)' \subseteq Auditors  BY DEF Mismatching, HonestBuckets
  <2> QED  BY <2>1, UidsAreNumbers, FS_Subset
<1>3. Cardinality(Mismatching(m, w)) <= Cardinality(Mismatching(m, w)')
  BY <1>1, <1>2, FS_Subset
<1>4. Cardinality(Mismatching(m, w)) \in Nat /\ Cardinality(Mismatching(m, w)') \in Nat
  BY <1>2, MismatchingFinite, FS_CardinalityType DEF HonestBuckets
<1> QED  BY <1>3, <1>4, FewBroken

\* A step of the world: what it does to tags and buckets.
LEMMA WorldStep ==
    ASSUME HonestBuckets, [Next]_vars
    PROVE  /\ HonestBuckets'
           /\ tagged \subseteq tagged'
           /\ \A a \in Auditors : bucket[a] \subseteq bucket'[a]
<1>1. CASE UNCHANGED <<tagged, bucket>>
  BY <1>1 DEF HonestBuckets
<1>2. ASSUME NEW a \in Auditors, StartAuditor(a) PROVE
        /\ HonestBuckets'
        /\ tagged \subseteq tagged'
        /\ \A b \in Auditors : bucket[b] \subseteq bucket'[b]
  BY <1>2 DEF StartAuditor, HonestBuckets
<1>3. ASSUME NEW a \in Auditors, Audit(a) PROVE
        /\ HonestBuckets'
        /\ tagged \subseteq tagged'
        /\ \A b \in Auditors : bucket[b] \subseteq bucket'[b]
  <2>1. PICK up : bucket' = [bucket EXCEPT ![a] =
                    @ \union {Verdict(a, m, apos[a]) : m \in up}]
    BY <1>3 DEF Audit
  <2>2. tagged' = tagged  BY <1>3 DEF Audit
  <2>3. /\ bucket' = [b \in Auditors |-> bucket'[b]]
        /\ \A b \in Auditors \ {a} : bucket'[b] = bucket[b]
        /\ bucket'[a] = bucket[a] \union {Verdict(a, m, apos[a]) : m \in up}
    BY <2>1 DEF HonestBuckets
  <2>4. ASSUME NEW v \in bucket'[a], ~v.match
        PROVE  v.miner \in Cheats \/ a \in Broken
    <3>1. CASE v \in bucket[a]  BY <3>1, <2>4 DEF HonestBuckets
    <3>2. CASE \E m \in up : v = Verdict(a, m, apos[a])
      <4>1. PICK m \in up : v = Verdict(a, m, apos[a])  BY <3>2
      <4>2. v.miner = m /\ v.match = (m \notin Cheats /\ a \notin Broken)
        BY <4>1 DEF Verdict
      <4> QED  BY <4>2, <2>4, Zenon
    <3> QED  BY <3>1, <3>2, <2>3
  <2> QED  BY <2>2, <2>3, <2>4 DEF HonestBuckets
<1>4. CASE \/ \E m \in Miners : Commit(m)
           \/ CloseWindow
           \/ Process \/ Ingest \/ SkipAhead
           \/ BucketOutage \/ Crash \/ Restart
           \/ UNCHANGED vars
  <2>1. UNCHANGED <<tagged, bucket>>
    BY <1>4 DEF Commit, CloseWindow, Process, Ingest, SkipAhead, BucketOutage,
                Crash, Restart, world, vars
  <2> QED  BY <1>1, <2>1
<1> QED  BY <1>2, <1>3, <1>4 DEF Next

\* A step of the validator: a sentence is an old one, or one whose evidence is
\* there when it is passed.
LEMMA SentenceStep ==
    ASSUME [Next]_vars, NEW c \in (convicted \union saved)'
    PROVE  \/ c \in convicted \union saved
           \/ c.miner \in Convictable(c.window)
<1>1. CASE Ingest
  <2>1. PICK w, guilty :
          /\ guilty \subseteq Convictable(w)
          /\ convicted' = convicted \union {[miner |-> m, window |-> w] : m \in guilty}
          /\ saved' = convicted'
    BY <1>1 DEF Ingest
  <2> QED  BY <2>1
<1>2. CASE Process  BY <1>2 DEF Process
<1>3. CASE Restart  BY <1>3 DEF Restart
<1>4. CASE \/ \E m \in Miners : Commit(m)
           \/ CloseWindow
           \/ \E a \in Auditors : StartAuditor(a) \/ Audit(a)
           \/ SkipAhead \/ BucketOutage \/ Crash
           \/ UNCHANGED vars
  BY <1>4 DEF Commit, CloseWindow, StartAuditor, Audit, SkipAhead, BucketOutage,
              Crash, vars
<1> QED  BY <1>1, <1>2, <1>3, <1>4 DEF Next

-----------------------------------------------------------------------------
\* The strengthened invariant holds in every reachable state.
THEOREM AuditsInvariant == Spec => []IInv
<1>1. Init => IInv
  BY DEF Init, IInv, HonestBuckets, NoFalseConviction, SentencesRestOnAQuorum
<1>2. IInv /\ [Next]_vars => IInv'
  <2> SUFFICES ASSUME IInv, [Next]_vars PROVE IInv'  OBVIOUS
  <2>1. /\ HonestBuckets /\ HonestBuckets'
        /\ tagged \subseteq tagged'
        /\ \A a \in Auditors : bucket[a] \subseteq bucket'[a]
    BY WorldStep DEF IInv
  <2>2. NoFalseConviction'
    BY <2>1, SentenceStep, ConvictableAreCheats DEF IInv, NoFalseConviction
  <2>3. ASSUME NEW c \in (convicted \union saved)'
        PROVE  Cardinality(Mismatching(c.miner, c.window)') >= Quorum
    <3>1. Cardinality(Mismatching(c.miner, c.window)) >= Quorum
      BY SentenceStep DEF IInv, SentencesRestOnAQuorum, Convictable
    <3> QED  BY <2>1, <3>1, EvidenceGrows
  <2>4. SentencesRestOnAQuorum'
    BY <2>3 DEF SentencesRestOnAQuorum
  <2> QED  BY <2>1, <2>2, <2>4 DEF IInv
<1> QED  BY <1>1, <1>2, PTL DEF Spec

\* With fewer broken auditors than the quorum, an audit never sentences a
\* miner that trained as committed (audit_verdicts, collect_audit_verdicts).
THEOREM NoFalseConvictionHolds == Spec => []NoFalseConviction
<1>1. IInv => NoFalseConviction  BY DEF IInv
<1> QED  BY <1>1, AuditsInvariant, PTL

\* Every audit sentence rests on a quorum of distinct auditors that published
\* a mismatch for that miner and that window.
THEOREM SentencesRestOnAQuorumHolds == Spec => []SentencesRestOnAQuorum
<1>1. IInv => SentencesRestOnAQuorum  BY DEF IInv
<1> QED  BY <1>1, AuditsInvariant, PTL

-----------------------------------------------------------------------------
\* The state file never says more than the ledger in memory.
SavedAreConvicted == saved \subseteq convicted

LEMMA SavedStep ==
    SavedAreConvicted /\ [Next]_vars => SavedAreConvicted' /\ saved \subseteq saved'
<1> SUFFICES ASSUME SavedAreConvicted, [Next]_vars
             PROVE  SavedAreConvicted' /\ saved \subseteq saved'
  OBVIOUS
<1>1. CASE Process  BY <1>1 DEF Process, SavedAreConvicted
<1>2. CASE Ingest  BY <1>2 DEF Ingest, SavedAreConvicted
<1>3. CASE Restart  BY <1>3 DEF Restart, SavedAreConvicted
<1>4. CASE \/ \E m \in Miners : Commit(m)
           \/ CloseWindow
           \/ \E a \in Auditors : StartAuditor(a) \/ Audit(a)
           \/ SkipAhead \/ BucketOutage \/ Crash
           \/ UNCHANGED vars
  BY <1>4 DEF Commit, CloseWindow, StartAuditor, Audit, SkipAhead, BucketOutage,
              Crash, vars, SavedAreConvicted
<1> QED  BY <1>1, <1>2, <1>3, <1>4 DEF Next

\* No step takes a sentence out of the state file: a restart, which forgets
\* everything since the last save, finds in memory no less than it reloads.
THEOREM SavedSentencesStayHolds == Spec => SavedSentencesStay
<1>1. Init => SavedAreConvicted  BY DEF Init, SavedAreConvicted
<1> QED  BY <1>1, SavedStep, PTL DEF Spec, SavedSentencesStay

-----------------------------------------------------------------------------
\* What an audit publishes is typed: its tasks are committed miners, and the
\* window an auditor processes has been trained.
LEMMA AuditTypes ==
    ASSUME TypeOK, NEW a \in Auditors, Audit(a)
    PROVE  bucket' \in [Auditors -> SUBSET Verdicts] /\ apos' \in [Auditors -> 0 .. MaxWindow]
<1>1. /\ apos[a] \in 0 .. MaxWindow /\ head \in 0 .. MaxWindow /\ apos[a] < head
      /\ MaxWindow \in Nat
  BY BoundsAreNumbers DEF TypeOK, Audit
<1>2. apos[a] \in Windows /\ apos[a] + 1 \in 0 .. MaxWindow
  BY <1>1 DEF Windows
<1>3. Tasks(a, apos[a]) \subseteq Miners
  BY DEF Tasks, Dealt, Committed
<1>4. PICK up, tried :
        /\ up \subseteq Tasks(a, apos[a])
        /\ bucket' = [bucket EXCEPT ![a] = @ \union {Verdict(a, m, apos[a]) : m \in up}]
        /\ apos' = [apos EXCEPT ![a] = tried] /\ tried \in {apos[a], apos[a] + 1}
  BY DEF Audit
<1>5. \A m \in up : Verdict(a, m, apos[a]) \in Verdicts
  BY <1>2, <1>3, <1>4 DEF Verdict, Verdicts
<1>6. bucket' \in [Auditors -> SUBSET Verdicts]
  <2>1. bucket \in [Auditors -> SUBSET Verdicts] /\ bucket[a] \subseteq Verdicts
    BY DEF TypeOK
  <2>2. PICK more : more = {Verdict(a, m, apos[a]) : m \in up}
    OBVIOUS
  <2>3. more \subseteq Verdicts /\ bucket' = [bucket EXCEPT ![a] = bucket[a] \union more]
    BY <1>4, <1>5, <2>2
  <2> QED  BY <2>1, <2>3
<1>7. apos' \in [Auditors -> 0 .. MaxWindow]
  BY <1>1, <1>2, <1>4 DEF TypeOK
<1> QED  BY <1>6, <1>7

\* A sentence is about a miner and a window that has been ended.
LEMMA IngestTypes ==
    ASSUME TypeOK, Ingest
    PROVE  convicted' \subseteq Sentences /\ saved' \subseteq Sentences
<1> DEFINE w == vpos - 1 - Deadline
           guilty == IF w >= 0 THEN Convictable(w) ELSE {}
<1>1. /\ convicted' = convicted \union {[miner |-> m, window |-> w] : m \in guilty}
      /\ saved' = convicted'
  BY DEF Ingest
<1>2. w >= 0 => w \in Windows
  BY BoundsAreNumbers DEF TypeOK, Windows
<1>3. \A m \in guilty : m \in Miners /\ w \in Windows
  BY <1>2 DEF Convictable
<1> HIDE DEF w, guilty
<1> QED  BY <1>1, <1>3 DEF TypeOK, Sentences, Windows

LEMMA TypeStep == TypeOK /\ [Next]_vars => TypeOK'
<1> SUFFICES ASSUME TypeOK, [Next]_vars PROVE TypeOK'  OBVIOUS
<1>1. ASSUME NEW m \in Miners, Commit(m) PROVE TypeOK'
  <2>1. PICK ok \in BOOLEAN : slot' = [slot EXCEPT ![m] = [window |-> head, synced |-> ok]]
    BY <1>1 DEF Commit
  <2>2. head \in -1 .. MaxWindow - 1
    BY <1>1, BoundsAreNumbers DEF Commit, TypeOK
  <2>3. slot' \in [Miners -> [window : -1 .. MaxWindow - 1, synced : BOOLEAN]]
    BY <2>1, <2>2 DEF TypeOK
  <2> QED  BY <1>1, <2>3 DEF Commit, TypeOK
<1>2. CASE CloseWindow
  BY <1>2, BoundsAreNumbers DEF CloseWindow, TypeOK
<1>3. ASSUME NEW a \in Auditors, StartAuditor(a) PROVE TypeOK'
  <2>1. PICK newest \in -1 .. head - 1 : apos' = [apos EXCEPT ![a] = newest + 1]
    <3>1. Restorable \subseteq -1 .. head - 1
      BY DEF Restorable, TypeOK
    <3> QED  BY <1>3, <3>1 DEF StartAuditor
  <2>2. newest + 1 \in 0 .. MaxWindow
    BY BoundsAreNumbers DEF TypeOK
  <2> QED  BY <1>3, <2>1, <2>2 DEF StartAuditor, TypeOK
<1>4. ASSUME NEW a \in Auditors, Audit(a) PROVE TypeOK'
  BY <1>4, AuditTypes DEF Audit, TypeOK
<1>5. CASE Process
  BY <1>5, BoundsAreNumbers DEF Process, TypeOK, world
<1>6. CASE Ingest
  BY <1>6, IngestTypes DEF Ingest, TypeOK, world
<1>7. CASE SkipAhead
  <2>1. head - 1 \in 0 .. MaxWindow
    BY <1>7, BoundsAreNumbers DEF SkipAhead, TypeOK
  <2> QED  BY <1>7, <2>1 DEF SkipAhead, TypeOK, world
<1>8. CASE BucketOutage \/ Crash
  BY <1>8 DEF BucketOutage, Crash, TypeOK, world
<1>9. CASE Restart
  BY <1>9, BoundsAreNumbers DEF Restart, TypeOK, world
<1>10. CASE UNCHANGED vars
  BY <1>10 DEF vars, TypeOK
<1> QED
  BY <1>1, <1>2, <1>3, <1>4, <1>5, <1>6, <1>7, <1>8, <1>9, <1>10 DEF Next

\* The types hold, with what they bound: no auditor is ahead of the gate it
\* waits for, and verdicts and sentences are about windows that were trained.
THEOREM TypesHold == Spec => []TypeOK
<1>1. Init => TypeOK
  BY BoundsAreNumbers DEF Init, TypeOK, NoCommit
<1> QED  BY <1>1, TypeStep, PTL DEF Spec
=============================================================================
