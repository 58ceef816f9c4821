--------------------------- MODULE WindowProtocol ---------------------------
(***************************************************************************)
(* The per-window lockstep protocol of the subnet: miners that train and   *)
(* publish, the leader validator that certifies, and the replicas (miners, *)
(* validators, auditors) that replay the certified outer steps.            *)
(*                                                                         *)
(*   subnet/miner/app.py, subnet/core/window_runner.py      the miner      *)
(*   subnet/validator/app.py, subnet/validator/leader.py    the validators *)
(*   subnet/auditor/app.py                                  the auditors   *)
(*   subnet/core/exchange.py, subnet/core/checkpoint.py     their I/O      *)
(*                                                                         *)
(* The parameters theta are abstracted to the sequence of outer steps that *)
(* produced them, so two replicas have the same state_root exactly when    *)
(* they applied the same certified sets in the same order (state_root is   *)
(* a hash of the parameters; an outer step over no payload leaves them     *)
(* bitwise unchanged).  A payload is named by its miner and its window.    *)
(***************************************************************************)
EXTENDS Integers, Sequences, FiniteSets

CONSTANTS
  Miners,          \* uids that train and publish payloads
  Validators,      \* uids that may lead; the others only follow
  Auditors,        \* uids that replay and follow
  FirstLeader,     \* the validator resolve_leader_uid names
  GatherCount,     \* window.gather_peer_count
  CheckpointEvery, \* window.checkpoint_every_windows
  FarBehind,       \* backlog at which a follower stops scoring (3 in the code)
  MaxWindow,       \* bound: the chain head stops here
  MaxFaults,       \* bound: crashes, graceful stops and catch-up I/O failures
  CertReadsFail,   \* can the leader's read of its own certificate fail?
  NoCert           \* no certificate object in the bucket

Nodes     == Miners \cup Validators \cup Auditors
Observers == Validators \cup Auditors
Windows   == 0 .. MaxWindow

(***************************************************************************)
(* theta, and the outer step on it (ReplicatedOuterStep.apply): a step     *)
(* over an empty certified set is the identity.                            *)
(***************************************************************************)
Step  == [window : Windows, uids : SUBSET Miners]
Theta == Seq(Step)
InitTheta == << >>

OuterStep(t, w, uids) ==
  IF uids = {} THEN t ELSE Append(t, [window |-> w, uids |-> uids])

Certificate == [root : Theta, included : SUBSET Miners]

ASSUME ConstantsAssumption ==
  /\ NoCert \notin Certificate
  /\ FirstLeader \in Validators
  /\ Miners \cap (Validators \cup Auditors) = {}
  /\ Validators \cap Auditors = {}
  /\ IsFiniteSet(Miners)
  /\ GatherCount \in Nat \ {0}
  /\ CheckpointEvery \in Nat \ {0}
  /\ FarBehind \in Nat \ {0}
  /\ MaxWindow \in Nat
  /\ MaxFaults \in Nat
  /\ CertReadsFail \in BOOLEAN

NoCommit   == [window |-> -1, root |-> InitTheta]
InitReplica == [next |-> 0, theta |-> InitTheta]

VARIABLES
  head,       \* the chain's current window
  gateOpen,   \* is the upload gate of window head-1 still open?
  slot,       \* slot[m]: the one commitment slot of miner m
  objects,    \* <<m, w>>: m's payload for w, stored with an in-gate timestamp
  leader,     \* the highest-stake validator (it changes in LeaderHandover only)
  certs,      \* certs[v][w]: certificate for w in v's bucket, or NoCert
  mirrors,    \* mirrors[v]: windows whose aggregator object is in v's bucket
  ckpt,       \* ckpt[n]: newest local checkpoint, theta_start of window next
  saved,      \* saved[v]: resume window in the observer's state file, 0 = none
  pc,         \* pc[n]: where the process is
  window,     \* window[n]: self.window
  theta,      \* theta[n]: the replica in memory
  catchup,    \* catchup[n]: the range (lo-1, to] replayed, the window reached
  views,      \* views[v]: the valid in-gate commits the leader has read
  ran,        \* ran[m]: has m completed a window since it started?
  faults      \* crashes, graceful stops and I/O failures so far

chainVars  == <<head, gateOpen, slot, leader>>
bucketVars == <<objects, certs, mirrors>>
diskVars   == <<ckpt, saved>>
procVars   == <<pc, window, theta, catchup, views, ran>>
vars == <<chainVars, bucketVars, diskVars, procVars, faults>>

MinerPC    == {"training", "publishing", "uploading", "awaiting"}
ObserverPC == {"certify", "mirror", "save", "checkpoint"}
PC == {"down", "idle", "catchup"} \cup MinerPC \cup ObserverPC

NoCatchup == [lo |-> 0, at |-> 0, to |-> -1, then |-> "idle"]

-----------------------------------------------------------------------------
(* Faulty variant: off by one boundary. *)
GateClosedTooEarly(w) == head > w \/ (head = w /\ ~gateOpen)

(* The gate of window w is [boundary(w+1), boundary(w+1) + grace).          *)

GateOpen(w)   == head = w + 1 /\ gateOpen
GateClosed(w) == head > w + 1 \/ (head = w + 1 /\ ~gateOpen)

(* get_window_commits reads the slots as they are now: a later commit of    *)
(* the same miner has overwritten the one for w.                            *)
Committers(w) == {m \in Miners : slot[m].window = w}

(* consensus_state_root: a most frequent root among the commits for w.  The *)
(* code breaks ties by the smallest hash, which here is any of them.        *)
RootCount(w, r) == Cardinality({m \in Committers(w) : slot[m].root = r})
ConsensusRoots(w) ==
  {slot[m].root : m \in {k \in Committers(w) :
      \A j \in Committers(w) : RootCount(w, slot[j].root) <= RootCount(w, slot[k].root)}}
RootAgrees(w, r)    == Committers(w) = {} \/ r \in ConsensusRoots(w)
RootDisagrees(w, r) == ConsensusRoots(w) \ {r} # {}

Cert(w) == certs[leader][w]
Certified(w) == w \in Windows /\ Cert(w) # NoCert
(* gather_from_aggregator: the mirror alone, nothing to fetch if it is empty *)
MirrorServes(w) == Cert(w).included = {} \/ w \in mirrors[leader]

CatchUpFrom(n, lo, to, then) ==
  catchup' = [catchup EXCEPT ![n] = [lo |-> lo, at |-> lo, to |-> to, then |-> then]]

-----------------------------------------------------------------------------
Init ==
  /\ head = 0 /\ gateOpen = FALSE
  /\ slot = [m \in Miners |-> NoCommit]
  /\ objects = {}
  /\ leader = FirstLeader
  /\ certs = [v \in Validators |-> [w \in Windows |-> NoCert]]
  /\ mirrors = [v \in Validators |-> {}]
  /\ ckpt = [n \in Nodes |-> InitReplica]
  /\ saved = [v \in Observers |-> 0]
  /\ pc = [n \in Nodes |-> "idle"]
  /\ window = [n \in Nodes |-> 0]
  /\ theta = [n \in Nodes |-> InitTheta]
  /\ catchup = [n \in Nodes |-> NoCatchup]
  /\ views = [v \in Validators |-> {}]
  /\ ran = [m \in Miners |-> FALSE]
  /\ faults = 0

-----------------------------------------------------------------------------
(* The chain: time passes boundary by boundary, gate by gate.               *)

Tick ==
  /\ \/ gateOpen /\ gateOpen' = FALSE /\ UNCHANGED head
     \/ ~gateOpen /\ head < MaxWindow /\ head' = head + 1 /\ gateOpen' = TRUE
  /\ UNCHANGED <<slot, leader, bucketVars, diskVars, procVars, faults>>

-----------------------------------------------------------------------------
(* Processes stop and start.                                                *)

(* The memory of n is gone: what a restart finds is ckpt, saved, the chain  *)
(* and the buckets.                                                         *)
GoDown(n) ==
  /\ pc' = [pc EXCEPT ![n] = "down"]
  /\ window' = [window EXCEPT ![n] = 0]
  /\ theta' = [theta EXCEPT ![n] = InitTheta]
  /\ catchup' = [catchup EXCEPT ![n] = NoCatchup]
  /\ views' = IF n \in Validators THEN [views EXCEPT ![n] = {}] ELSE views
  /\ ran' = IF n \in Miners THEN [ran EXCEPT ![n] = FALSE] ELSE ran

Crash(n) ==
  /\ pc[n] # "down"
  /\ faults < MaxFaults /\ faults' = faults + 1
  /\ GoDown(n)
  /\ UNCHANGED <<chainVars, bucketVars, diskVars>>

(* Checkpointer.save: the newest local checkpoint is the one that counts    *)
SaveCheckpoint(n, next, t) ==
  ckpt' = IF next >= ckpt[n].next
          THEN [ckpt EXCEPT ![n] = [next |-> next, theta |-> t]] ELSE ckpt

(* SIGTERM between windows or between two catch-up attempts: the miner      *)
(* leaves its loop through _final_checkpoint.                               *)
GracefulStop(m) ==
  /\ pc[m] = "idle" \/ (pc[m] = "catchup" /\ catchup[m].at = catchup[m].lo)
  /\ faults < MaxFaults /\ faults' = faults + 1
  /\ IF ran[m] /\ window[m] > 0 /\ ckpt[m].next # window[m]
     THEN SaveCheckpoint(m, window[m], theta[m])
     ELSE UNCHANGED ckpt
  /\ GoDown(m)
  /\ UNCHANGED <<chainVars, bucketVars, saved>>

(* The observers save their resume window on the way out. *)
StopObserver(o) ==
  /\ pc[o] = "idle"
  /\ faults < MaxFaults /\ faults' = faults + 1
  /\ saved' = [saved EXCEPT ![o] = window[o]]
  /\ GoDown(o)
  /\ UNCHANGED <<chainVars, bucketVars, ckpt>>

(* materialize_replica: the newest local checkpoint, else the leader's,     *)
(* which is then local too; a checkpoint that still is theta_init counts    *)
(* as one of no window.                                                     *)
Newest(n) == IF ckpt[n] # InitReplica THEN ckpt[n] ELSE ckpt[leader]
Materialized(n) == IF Newest(n).theta = InitTheta THEN InitReplica ELSE Newest(n)

Resume(n, replica, next) ==
  /\ theta' = [theta EXCEPT ![n] = replica.theta]
  /\ window' = [window EXCEPT ![n] = next]
  /\ IF next > replica.next     \* _align_replica
     THEN /\ pc' = [pc EXCEPT ![n] = "catchup"]
          /\ CatchUpFrom(n, replica.next, next - 1, "idle")
     ELSE pc' = [pc EXCEPT ![n] = "idle"] /\ UNCHANGED catchup

Later(a, b) == IF a < b THEN b ELSE a

RestartMiner(m) ==
  /\ pc[m] = "down"
  /\ Resume(m, Materialized(m), Materialized(m).next)
  /\ ckpt' = [ckpt EXCEPT ![m] = Newest(m)]
  /\ UNCHANGED <<chainVars, bucketVars, saved, views, ran, faults>>

RestartAuditor(a) ==
  /\ pc[a] = "down"
  /\ Resume(a, Materialized(a), Later(saved[a], Materialized(a).next))
  /\ ckpt' = [ckpt EXCEPT ![a] = Newest(a)]
  /\ UNCHANGED <<chainVars, bucketVars, saved, views, ran, faults>>

(* Faulty variant: the saved window with the checkpoint's replica. *)
RestartValidatorUnaligned(v) ==
  /\ pc[v] = "down"
  /\ Resume(v, [next |-> saved[v], theta |-> ckpt[v].theta], saved[v])
  /\ UNCHANGED <<chainVars, bucketVars, diskVars, views, ran, faults>>

(* A validator without a state file, or without a checkpoint of its own,    *)
(* starts over from theta_init.                                             *)
RestartValidator(v) ==
  /\ pc[v] = "down"
  /\ IF saved[v] = 0 \/ ckpt[v] = InitReplica
     THEN Resume(v, InitReplica, 0)
     ELSE Resume(v, ckpt[v], Later(saved[v], ckpt[v].next))
  /\ UNCHANGED <<chainVars, bucketVars, diskVars, views, ran, faults>>

-----------------------------------------------------------------------------
(* The miner's window: train, wait for the gate, commit on chain, upload,   *)
(* wait for the certificate.                                                *)

StartWindow(m) ==
  /\ pc[m] = "idle" /\ window[m] = head
  /\ pc' = [pc EXCEPT ![m] = "training"]
  /\ UNCHANGED <<chainVars, bucketVars, diskVars, window, theta, catchup, views, ran, faults>>

CheckGate(m) ==
  /\ pc[m] = "training"
  /\ \/ GateOpen(window[m]) /\ pc' = [pc EXCEPT ![m] = "publishing"]
     \/ GateClosed(window[m]) /\ pc' = [pc EXCEPT ![m] = "awaiting"]   \* late
  /\ UNCHANGED <<chainVars, bucketVars, diskVars, window, theta, catchup, views, ran, faults>>

(* put_window_payload, phase 1 *)
CommitWindow(m) ==
  /\ pc[m] = "publishing"
  /\ slot' = [slot EXCEPT ![m] = [window |-> window[m], root |-> theta[m]]]
  /\ pc' = [pc EXCEPT ![m] = "uploading"]
  /\ UNCHANGED <<head, gateOpen, leader, bucketVars, diskVars, window, theta, catchup, views, ran, faults>>

(* Faulty variant: a payload counts whenever it is stored. *)
UploadPayloadUngated(m) ==
  /\ pc[m] = "uploading"
  /\ objects' = objects \cup {<<m, window[m]>>}
  /\ pc' = [pc EXCEPT ![m] = "awaiting"]
  /\ UNCHANGED <<chainVars, certs, mirrors, diskVars, window, theta, catchup, views, ran, faults>>

(* put_window_payload, phase 2: an object stored after the gate has closed  *)
(* fails gate_check, and is as good as absent.                              *)
UploadPayload(m) ==
  /\ pc[m] = "uploading"
  /\ objects' = IF GateOpen(window[m]) THEN objects \cup {<<m, window[m]>>} ELSE objects
  /\ pc' = [pc EXCEPT ![m] = "awaiting"]
  /\ UNCHANGED <<chainVars, certs, mirrors, diskVars, window, theta, catchup, views, ran, faults>>

(* The certificate is there, starts from our theta, and its payloads were   *)
(* gathered from the peers or from the mirror: apply it, checkpoint.        *)
ApplyLive(m) ==
  LET w == window[m]
      after == OuterStep(theta[m], w, Cert(w).included)
  IN
  /\ pc[m] = "awaiting"
  /\ Certified(w) /\ Cert(w).root = theta[m]
  /\ theta' = [theta EXCEPT ![m] = after]
  /\ window' = [window EXCEPT ![m] = w + 1]
  /\ pc' = [pc EXCEPT ![m] = "idle"]
  /\ ran' = [ran EXCEPT ![m] = TRUE]
  /\ IF w % CheckpointEvery = 0 THEN SaveCheckpoint(m, w + 1, after) ELSE UNCHANGED ckpt
  /\ UNCHANGED <<chainVars, bucketVars, saved, catchup, views, faults>>

(* Certificate timeout, a certificate from another theta, or payloads that  *)
(* neither the peers nor the mirror served: _recover.                       *)
Desync(m) ==
  LET w == window[m] IN
  /\ pc[m] = "awaiting"
  /\ \/ ~Certified(w) /\ GateClosed(w)
     \/ Certified(w) /\ (Cert(w).root # theta[m] \/ ~MirrorServes(w))
  /\ pc' = [pc EXCEPT ![m] = "catchup"]
  /\ CatchUpFrom(m, w, Later(w, head - 1), "idle")
  /\ ran' = [ran EXCEPT ![m] = TRUE]
  /\ UNCHANGED <<chainVars, bucketVars, diskVars, window, theta, views, faults>>

(* Behind the chain head: _recover(to_window = head - 1) *)
Recover(m) ==
  /\ pc[m] = "idle" /\ window[m] < head
  /\ pc' = [pc EXCEPT ![m] = "catchup"]
  /\ CatchUpFrom(m, window[m], head - 1, "idle")
  /\ UNCHANGED <<chainVars, bucketVars, diskVars, window, theta, views, ran, faults>>

-----------------------------------------------------------------------------
(* The observers' window, after its gate has closed.                        *)

(* A follower that is far behind does not score its backlog. *)
SkipAhead(v) ==
  /\ pc[v] = "idle" /\ v # leader
  /\ GateClosed(window[v]) /\ head - 1 - window[v] >= FarBehind
  /\ pc' = [pc EXCEPT ![v] = "catchup"]
  /\ CatchUpFrom(v, window[v], head - 2, "idle")
  /\ UNCHANGED <<chainVars, bucketVars, diskVars, window, theta, views, ran, faults>>

InGateCommits(w) == {m \in Committers(w) : <<m, w>> \in objects}

(* Faulty variant: the leader never adopts what it has published. *)
ProcessWindowRebuilding(o) ==
  LET w == window[o] IN
  /\ pc[o] = "idle" /\ GateClosed(w)
  /\ o \in Auditors \/ o = leader \/ head - 1 - w < FarBehind
  /\ CatchUpFrom(o, w, w, IF o = leader /\ w % CheckpointEvery = 0 THEN "checkpoint" ELSE "idle")
  /\ IF o = leader
     THEN views' = [views EXCEPT ![o] = InGateCommits(w)] /\ pc' = [pc EXCEPT ![o] = "certify"]
     ELSE UNCHANGED views /\ pc' = [pc EXCEPT ![o] = "save"]
  /\ UNCHANGED <<chainVars, bucketVars, diskVars, window, theta, ran, faults>>

(* process_window (a), (b): read the commits and the gate; the leader goes  *)
(* on to certify, unless it reads a certificate in its bucket already.  A   *)
(* certificate it cannot read is treated as absent.                         *)
ProcessWindow(o) ==
  LET w == window[o]
      leads == o = leader
  IN
  /\ pc[o] = "idle" /\ GateClosed(w)
  /\ o \in Auditors \/ leads \/ head - 1 - w < FarBehind
  /\ CatchUpFrom(o, w, w, IF leads /\ w % CheckpointEvery = 0 THEN "checkpoint" ELSE "idle")
  /\ \/ /\ leads /\ (certs[o][w] = NoCert \/ CertReadsFail)
        /\ views' = [views EXCEPT ![o] = InGateCommits(w)]
        /\ pc' = [pc EXCEPT ![o] = "certify"]
     \/ /\ leads => certs[o][w] # NoCert
        /\ pc' = [pc EXCEPT ![o] = "save"]
        /\ UNCHANGED views
  /\ UNCHANGED <<chainVars, bucketVars, diskVars, window, theta, ran, faults>>

(* build_certificate takes the best gather_peer_count of the valid commits *)
Selections(S) ==
  {T \in SUBSET S : Cardinality(T) <= GatherCount
                    /\ (T = S \/ Cardinality(T) = GatherCount)}

PutCertificate(v) ==
  /\ pc[v] = "certify"
  /\ \E T \in Selections(views[v]) :
       certs' = [certs EXCEPT ![v][window[v]] = [root |-> theta[v], included |-> T]]
  /\ pc' = [pc EXCEPT ![v] = "mirror"]
  /\ UNCHANGED <<chainVars, objects, mirrors, diskVars, window, theta, catchup, views, ran, faults>>

PutMirror(v) ==
  /\ pc[v] = "mirror"
  /\ mirrors' = [mirrors EXCEPT ![v] = @ \cup {window[v]}]
  /\ views' = [views EXCEPT ![v] = {}]
  /\ pc' = [pc EXCEPT ![v] = "save"]
  /\ UNCHANGED <<chainVars, objects, certs, diskVars, window, theta, catchup, ran, faults>>

(* (e) the resume point is saved before the outer step is applied *)
SaveState(o) ==
  /\ pc[o] = "save"
  /\ window' = [window EXCEPT ![o] = @ + 1]
  /\ saved' = [saved EXCEPT ![o] = window[o] + 1]
  /\ pc' = [pc EXCEPT ![o] = "catchup"]
  /\ UNCHANGED <<chainVars, bucketVars, ckpt, theta, catchup, views, ran, faults>>

(* (g) maybe_checkpoint, by the leader alone *)
LeaderCheckpoint(v) ==
  /\ pc[v] = "checkpoint"
  /\ SaveCheckpoint(v, window[v], theta[v])
  /\ pc' = [pc EXCEPT ![v] = "idle"]
  /\ UNCHANGED <<chainVars, bucketVars, saved, window, theta, catchup, views, ran, faults>>

-----------------------------------------------------------------------------
(* catch_up, one window at a time; theta is replaced in place.              *)

AtWindow(n) == catchup[n].at
Replaying(n) == pc[n] = "catchup" /\ AtWindow(n) <= catchup[n].to

(* Faulty variant: the certificate's theta_start_root is not compared. *)
CatchUpApplyUnverified(n) ==
  LET w == AtWindow(n) IN
  /\ Replaying(n)
  /\ RootAgrees(w, theta[n])
  /\ Certified(w) /\ MirrorServes(w)
  /\ theta' = [theta EXCEPT ![n] = OuterStep(@, w, Cert(w).included)]
  /\ catchup' = [catchup EXCEPT ![n].at = w + 1]
  /\ UNCHANGED <<chainVars, bucketVars, diskVars, pc, window, views, ran, faults>>

CatchUpApply(n) ==
  LET w == AtWindow(n) IN
  /\ Replaying(n)
  /\ RootAgrees(w, theta[n])
  /\ Certified(w) /\ Cert(w).root = theta[n] /\ MirrorServes(w)
  /\ theta' = [theta EXCEPT ![n] = OuterStep(@, w, Cert(w).included)]
  /\ catchup' = [catchup EXCEPT ![n].at = w + 1]
  /\ UNCHANGED <<chainVars, bucketVars, diskVars, pc, window, views, ran, faults>>

(* Faulty variant: no certificate is enough. *)
CatchUpEmptyUnchecked(n) ==
  LET w == AtWindow(n) IN
  /\ Replaying(n)
  /\ ~Certified(w)
  /\ catchup' = [catchup EXCEPT ![n].at = w + 1]
  /\ UNCHANGED <<chainVars, bucketVars, diskVars, pc, window, theta, views, ran, faults>>

(* No commit and no certificate: taken for an empty window. *)
CatchUpEmpty(n) ==
  LET w == AtWindow(n) IN
  /\ Replaying(n)
  /\ Committers(w) = {} /\ ~Certified(w)
  /\ catchup' = [catchup EXCEPT ![n].at = w + 1]
  /\ UNCHANGED <<chainVars, bucketVars, diskVars, pc, window, theta, views, ran, faults>>

(* The next attempt starts over at lo, with theta as it is now. *)
Retry(n) ==
  /\ catchup' = [catchup EXCEPT ![n].at = catchup[n].lo]
  /\ UNCHANGED <<pc, window, theta, views, ran>>

(* Commits but no certificate: everyone waits, except the leader. *)
CatchUpPending(n) ==
  LET w == AtWindow(n) IN
  /\ Replaying(n)
  /\ RootAgrees(w, theta[n]) /\ Committers(w) # {} /\ ~Certified(w)
  /\ IF n = leader THEN GoDown(n) ELSE Retry(n)
  /\ UNCHANGED <<chainVars, bucketVars, diskVars, faults>>

(* Any other CatchUpError: retried, and in the end raised. *)
CatchUpError(n) ==
  LET w == AtWindow(n) IN
  /\ pc[n] = "catchup"
  /\ \/ RootDisagrees(w, theta[n])       \* also the final check, at to + 1
     \/ /\ w <= catchup[n].to /\ Certified(w)
        /\ Cert(w).root # theta[n] \/ ~MirrorServes(w)
  /\ Retry(n) \/ GoDown(n)
  /\ UNCHANGED <<chainVars, bucketVars, diskVars, faults>>

(* A chain read or a bucket read of the attempt failed. *)
CatchUpIOError(n) ==
  /\ Replaying(n) /\ AtWindow(n) # catchup[n].lo
  /\ faults < MaxFaults /\ faults' = faults + 1
  /\ Retry(n)
  /\ UNCHANGED <<chainVars, bucketVars, diskVars>>

CatchUpDone(n) ==
  /\ pc[n] = "catchup" /\ AtWindow(n) = catchup[n].to + 1
  /\ RootAgrees(AtWindow(n), theta[n])
  /\ window' = [window EXCEPT ![n] = AtWindow(n)]
  /\ pc' = [pc EXCEPT ![n] = catchup[n].then]
  /\ catchup' = [catchup EXCEPT ![n] = NoCatchup]
  /\ UNCHANGED <<chainVars, bucketVars, diskVars, theta, views, ran, faults>>

-----------------------------------------------------------------------------
MinerStep(m) ==
  \/ RestartMiner(m) \/ GracefulStop(m)
  \/ StartWindow(m) \/ CheckGate(m) \/ CommitWindow(m) \/ UploadPayload(m)
  \/ ApplyLive(m) \/ Desync(m) \/ Recover(m)

ValidatorStep(v) ==
  \/ RestartValidator(v) \/ SkipAhead(v)
  \/ PutCertificate(v) \/ PutMirror(v) \/ LeaderCheckpoint(v)

CatchUpStep(n) ==
  \/ CatchUpApply(n) \/ CatchUpEmpty(n) \/ CatchUpPending(n)
  \/ CatchUpError(n) \/ CatchUpIOError(n) \/ CatchUpDone(n)

Next ==
  \/ Tick
  \/ \E m \in Miners : MinerStep(m)
  \/ \E v \in Validators : ValidatorStep(v)
  \/ \E a \in Auditors : RestartAuditor(a)
  \/ \E o \in Observers : StopObserver(o) \/ ProcessWindow(o) \/ SaveState(o)
  \/ \E n \in Nodes : CatchUpStep(n) \/ Crash(n)

Spec == Init /\ [][Next]_vars
-----------------------------------------------------------------------------
(***************************************************************************)
(* Properties.                                                             *)
(***************************************************************************)

Commit == [window : Windows \cup {-1}, root : Theta]
Replica == [next : Windows, theta : Theta]
Catchup == [lo : Windows, at : Windows, to : Windows \cup {-1}, then : {"idle", "checkpoint"}]

(* The types of the variables. *)
TypeOK ==
  /\ head \in Windows /\ gateOpen \in BOOLEAN
  /\ slot \in [Miners -> Commit]
  /\ objects \in SUBSET (Miners \X Windows)
  /\ leader \in Validators
  /\ certs \in [Validators -> [Windows -> Certificate \cup {NoCert}]]
  /\ mirrors \in [Validators -> SUBSET Windows]
  /\ ckpt \in [Nodes -> Replica]
  /\ saved \in [Observers -> Windows]
  /\ pc \in [Nodes -> PC]
  /\ window \in [Nodes -> Windows]
  /\ theta \in [Nodes -> Theta]
  /\ catchup \in [Nodes -> Catchup]
  /\ views \in [Validators -> SUBSET Miners]
  /\ ran \in [Miners -> BOOLEAN]
  /\ faults \in 0 .. MaxFaults

(* theta after window w, according to its certificate *)
After(w) == OuterStep(Cert(w).root, w, Cert(w).included)

(* t is theta_start of window x on the certified lineage: what the          *)
(* certificate of x says; before it exists, what the last certificate       *)
(* before x leads to; before any, theta_init.                               *)
ThetaStart(t, x) ==
  /\ Certified(x) => t = Cert(x).root
  /\ ~Certified(0) => t = InitTheta
  /\ \A w \in Windows : w < x /\ Certified(w) /\ ~Certified(w + 1) => t = After(w)

(* The certificates form one unbroken lineage from theta_init: none is      *)
(* published before its predecessor, and each starts from the theta the     *)
(* previous one leads to, whatever crashes between publishing, saving and   *)
(* applying (leader.py, validator/app.py: "Processing a window with a stale *)
(* replica would publish an immutable certificate with the WRONG            *)
(* theta_start_root").                                                      *)
CertificateChain ==
  /\ Certified(0) => Cert(0).root = InitTheta
  /\ \A w \in Windows : w > 0 /\ Certified(w) =>
        Certified(w - 1) /\ Cert(w).root = After(w - 1)

(* Whenever a validator or an auditor is about to process window x, or to   *)
(* publish, save or checkpoint it, its replica is theta_start(x) of the     *)
(* certified lineage: windows it took for empty really are, even those the  *)
(* leader certifies later (checkpoint.py, catch_up: "EMPTY window").        *)
ObserversInLockstep ==
  \A o \in Observers :
    pc[o] \notin {"down", "catchup"} => ThetaStart(theta[o], window[o])

(* The same for the miners. *)
MinersInLockstep ==
  \A m \in Miners : pc[m] \in {"idle"} \cup MinerPC => ThetaStart(theta[m], window[m])

(* However late the leader reads the slots, a payload that was committed    *)
(* and stored inside the gate is in the window's certificate, up to         *)
(* gather_peer_count: no slot is overwritten before its window is certified *)
(* (leader.py: "window commits are transient").                             *)
NoInGatePayloadLost ==
  \A w \in Windows : Certified(w) =>
    LET stored == {m \in Miners : <<m, w>> \in objects} IN
      /\ Cert(w).included \subseteq stored
      /\ stored # Cert(w).included => Cardinality(Cert(w).included) >= GatherCount

(* No replica, a miner's included, ever holds a theta that is not a state   *)
(* of the certified lineage: it may be behind, never beside it.             *)
OnCertifiedLineage ==
  \A n \in Nodes : theta[n] = InitTheta \/ \E w \in Windows : Certified(w) /\ theta[n] = After(w)

(* A certificate, once published, never changes, however often the leader   *)
(* crashes and reprocesses its window (publish_certificate: "IMMUTABLE once *)
(* published").                                                             *)
CertificatesImmutable ==
  [][\A v \in Validators, w \in Windows : certs[v][w] # NoCert => certs'[v][w] = certs[v][w]]_vars

(* The protocol implements the certified log: the log is theta_init and     *)
(* what each certificate leads to, and every replica that is up walks it    *)
(* entry by entry.                                                          *)
Lineage ==
  [k \in 1 .. Cardinality({w \in Windows : Certified(w)}) + 1 |->
     IF k = 1 THEN InitTheta ELSE After(k - 2)]

Log == INSTANCE CertifiedLog WITH
         Replicas <- Nodes, log <- Lineage, replica <- theta,
         up <- [n \in Nodes |-> pc[n] # "down"]

ImplementsCertifiedLog == Log!LogSpec

(* Every window the leader has moved past can be replayed from its mirror   *)
(* (exchange.py, gather_from_aggregator: "the leader's mirror persists").   *)
MirrorPersists ==
  \A w \in Windows : w < window[leader] /\ Certified(w) => MirrorServes(w)

(* A checkpoint on disk for resume window x holds theta_start(x)            *)
(* (_final_checkpoint: "Persist theta_start(window) on a clean stop").      *)
CheckpointsLabelled == \A n \in Nodes : ThetaStart(ckpt[n].theta, ckpt[n].next)
=============================================================================
