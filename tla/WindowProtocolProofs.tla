------------------------ MODULE WindowProtocolProofs ------------------------
(***************************************************************************)
(* Theorems about WindowProtocol, for every set of nodes and every value   *)
(* of the other constants.  First its types, the chain of certificates and *)
(* the lineage of every replica; then what that lineage is good for: the   *)
(* protocol implements the certified log, an in-gate payload is not lost,  *)
(* and validators and auditors act on theta_start of the window they are   *)
(* in.                                                                     *)
(***************************************************************************)
EXTENDS WindowProtocol, FiniteSetTheorems, SequenceTheorems, TLAPS

-----------------------------------------------------------------------------
(***************************************************************************)
(* Types.  A window number is only ever incremented under a gate: past the *)
(* gate check of window w the chain head, which never exceeds MaxWindow,   *)
(* is beyond w, and a catch-up range ends below it.                        *)
(***************************************************************************)
PastGate == {"publishing", "uploading", "awaiting", "certify", "mirror", "save"}

Bounds ==
  /\ \A n \in Nodes : catchup[n].lo <= catchup[n].at
                      /\ catchup[n].at <= catchup[n].to + 1
                      /\ catchup[n].to < MaxWindow
  /\ \A n \in Nodes : pc[n] \in PastGate => window[n] < MaxWindow

TypeInv == TypeOK /\ Bounds

(* The outer step maps parameters to parameters. *)
LEMMA OuterStepType ==
  ASSUME NEW t \in Theta, NEW w \in Windows, NEW S \in SUBSET Miners
  PROVE  OuterStep(t, w, S) \in Theta
<1> DEFINE s == [window |-> w, uids |-> S]
<1>1. s \in Step
  BY DEF Step
<1>2. Append(t, s) \in Theta
  <2> HIDE DEF s
  <2> QED  BY <1>1 DEF Theta
<1> QED
  BY <1>2 DEF OuterStep

(* Window 0 exists. *)
LEMMA FirstWindow == 0 \in Windows /\ MaxWindow \in Windows
BY ConstantsAssumption DEF Windows

(* The initial values have their types. *)
LEMMA InitialTypes ==
  /\ InitTheta \in Theta
  /\ InitReplica \in Replica
  /\ NoCommit \in Commit
  /\ NoCatchup \in Catchup
<1>1. InitTheta \in Theta
  BY DEF InitTheta, Theta
<1>2. NoCatchup \in Catchup
  BY FirstWindow DEF NoCatchup, Catchup
<1> QED
  BY <1>1, <1>2, FirstWindow DEF InitReplica, Replica, NoCommit, Commit

(* Validators and auditors are observers, observers and miners are nodes. *)
LEMMA NodeKinds ==
  /\ Validators \subseteq Observers /\ Auditors \subseteq Observers
  /\ Observers \subseteq Nodes /\ Miners \subseteq Nodes
  /\ \A n \in Nodes : n \in Miners \/ n \in Observers
BY DEF Nodes, Observers

LEMMA TypeInit == Init => TypeInv
<1> SUFFICES ASSUME Init PROVE TypeInv
  OBVIOUS
<1> USE FirstWindow, InitialTypes DEF Init
<1>0. gateOpen \in BOOLEAN
  BY Zenon
<1>1. head \in Windows /\ leader \in Validators /\ faults \in 0 .. MaxFaults
  BY ConstantsAssumption
<1>2. /\ slot \in [Miners -> Commit] /\ objects \in SUBSET (Miners \X Windows)
      /\ certs \in [Validators -> [Windows -> Certificate \cup {NoCert}]]
      /\ mirrors \in [Validators -> SUBSET Windows]
  OBVIOUS
<1>3. /\ ckpt \in [Nodes -> Replica] /\ saved \in [Observers -> Windows]
      /\ window \in [Nodes -> Windows] /\ theta \in [Nodes -> Theta]
      /\ catchup \in [Nodes -> Catchup] /\ views \in [Validators -> SUBSET Miners]
      /\ ran \in [Miners -> BOOLEAN]
  OBVIOUS
<1>4. pc \in [Nodes -> PC]
  BY DEF PC
<1>5. TypeOK
  BY <1>0, <1>1, <1>2, <1>3, <1>4 DEF TypeOK
<1>6. Bounds
  BY ConstantsAssumption DEF Bounds, NoCatchup, PastGate
<1> QED
  BY <1>5, <1>6 DEF TypeInv

(* A catch-up range below MaxWindow is one. *)
LEMMA CatchUpFromType ==
  ASSUME TypeInv, NEW n \in Nodes, NEW lo \in Windows, NEW to \in Windows,
         NEW then \in {"idle", "checkpoint"}, lo <= to + 1, to < MaxWindow,
         CatchUpFrom(n, lo, to, then)
  PROVE  /\ catchup' \in [Nodes -> Catchup]
         /\ \A k \in Nodes : catchup'[k].lo <= catchup'[k].at
                             /\ catchup'[k].at <= catchup'[k].to + 1
                             /\ catchup'[k].to < MaxWindow
<1>1. [lo |-> lo, at |-> lo, to |-> to, then |-> then] \in Catchup
  BY DEF Catchup
<1> QED
  BY <1>1, FirstWindow, ConstantsAssumption DEF CatchUpFrom, TypeInv, TypeOK, Bounds, Windows, Catchup

(* The memory of a process that goes down is typed. *)
LEMMA GoDownType ==
  ASSUME TypeInv, NEW n \in Nodes, GoDown(n)
  PROVE  /\ pc' \in [Nodes -> PC] /\ window' \in [Nodes -> Windows]
         /\ theta' \in [Nodes -> Theta] /\ catchup' \in [Nodes -> Catchup]
         /\ views' \in [Validators -> SUBSET Miners] /\ ran' \in [Miners -> BOOLEAN]
         /\ Bounds'
<1>1. "down" \in PC /\ "down" \notin PastGate
  BY DEF PC, PastGate
<1>2. /\ pc' \in [Nodes -> PC] /\ window' \in [Nodes -> Windows]
      /\ theta' \in [Nodes -> Theta] /\ catchup' \in [Nodes -> Catchup]
      /\ views' \in [Validators -> SUBSET Miners]
  BY <1>1, FirstWindow, InitialTypes DEF GoDown, TypeInv, TypeOK
<1>3. ran' \in [Miners -> BOOLEAN]
  BY Zenon DEF GoDown, TypeInv, TypeOK
<1>4. Bounds'
  BY <1>1, ConstantsAssumption DEF GoDown, TypeInv, TypeOK, Bounds, NoCatchup
<1> QED
  BY <1>2, <1>3, <1>4

(* A saved checkpoint is typed. *)
LEMMA SaveCheckpointType ==
  ASSUME TypeInv, NEW n \in Nodes, NEW next \in Windows, NEW t \in Theta, SaveCheckpoint(n, next, t)
  PROVE  ckpt' \in [Nodes -> Replica]
<1>1. [next |-> next, theta |-> t] \in Replica
  BY DEF Replica
<1> QED
  BY <1>1 DEF SaveCheckpoint, TypeInv, TypeOK

(* What a restart resumes from is typed. *)
LEMMA ResumeType ==
  ASSUME TypeInv, NEW n \in Nodes, NEW r \in Replica, NEW next \in Windows, Resume(n, r, next)
  PROVE  /\ pc' \in [Nodes -> PC] /\ window' \in [Nodes -> Windows]
         /\ theta' \in [Nodes -> Theta] /\ catchup' \in [Nodes -> Catchup]
         /\ Bounds'
<1>1. {"idle", "catchup"} \subseteq PC /\ {"idle", "catchup"} \cap PastGate = {}
  BY DEF PC, PastGate
<1>2. r.next \in Windows /\ r.theta \in Theta
  BY DEF Replica
<1>3. /\ pc' \in [Nodes -> PC] /\ window' \in [Nodes -> Windows] /\ theta' \in [Nodes -> Theta]
      /\ \A k \in Nodes : pc'[k] \in PastGate => window'[k] < MaxWindow
  BY <1>1, <1>2 DEF Resume, TypeInv, TypeOK, Bounds
<1>4. CASE next > r.next
  <2>1. next - 1 \in Windows /\ r.next <= (next - 1) + 1 /\ next - 1 < MaxWindow
    BY <1>2, <1>4, ConstantsAssumption DEF Windows
  <2>2. CatchUpFrom(n, r.next, next - 1, "idle")
    BY <1>4 DEF Resume
  <2> QED
    BY <1>2, <1>3, <2>1, <2>2, CatchUpFromType DEF Bounds
<1>5. CASE ~(next > r.next)
  BY <1>3, <1>5 DEF Resume, TypeInv, TypeOK, Bounds
<1> QED
  BY <1>3, <1>4, <1>5

(* The checkpoint a node resumes from is typed. *)
LEMMA MaterializedType ==
  ASSUME TypeInv, NEW n \in Nodes
  PROVE  Newest(n) \in Replica /\ Materialized(n) \in Replica
<1>1. leader \in Nodes
  BY NodeKinds DEF TypeInv, TypeOK
<1> QED
  BY <1>1, InitialTypes DEF Newest, Materialized, TypeInv, TypeOK

(* Every step of a miner keeps the types. *)
LEMMA TypeMinerStep ==
  ASSUME TypeInv, NEW m \in Miners, MinerStep(m)
  PROVE  TypeInv'
<1> USE DEF chainVars, bucketVars, diskVars, procVars
<1>m. m \in Nodes /\ head \in Windows /\ window[m] \in Windows /\ theta[m] \in Theta
  BY NodeKinds DEF TypeInv, TypeOK
<1>1. CASE RestartMiner(m)
  <2>1. Newest(m) \in Replica /\ Materialized(m) \in Replica /\ Materialized(m).next \in Windows
    BY <1>m, MaterializedType DEF Replica
  <2>2. /\ pc' \in [Nodes -> PC] /\ window' \in [Nodes -> Windows]
        /\ theta' \in [Nodes -> Theta] /\ catchup' \in [Nodes -> Catchup] /\ Bounds'
    BY <1>m, <1>1, <2>1, ResumeType DEF RestartMiner
  <2> QED
    BY <1>m, <1>1, <2>1, <2>2 DEF RestartMiner, TypeInv, TypeOK
<1>2. CASE GracefulStop(m)
  <2>1. ckpt' \in [Nodes -> Replica]
    <3>1. CASE UNCHANGED ckpt
      BY <3>1 DEF TypeInv, TypeOK
    <3>2. CASE SaveCheckpoint(m, window[m], theta[m])
      BY <1>m, <3>2, SaveCheckpointType
    <3> QED
      BY <1>2, <3>1, <3>2 DEF GracefulStop
  <2>2. faults' \in 0 .. MaxFaults
    BY <1>2, ConstantsAssumption DEF GracefulStop, TypeInv, TypeOK
  <2> QED
    BY <1>m, <1>2, <2>1, <2>2, GoDownType DEF GracefulStop, TypeInv, TypeOK
<1>3. CASE StartWindow(m)
  BY <1>m, <1>3 DEF StartWindow, TypeInv, TypeOK, Bounds, PC, MinerPC, PastGate
<1>4. CASE CheckGate(m)
  <2>1. window[m] < MaxWindow
    BY <1>m, <1>4, ConstantsAssumption DEF CheckGate, GateOpen, GateClosed, Windows
  <2> QED
    BY <1>m, <1>4, <2>1 DEF CheckGate, TypeInv, TypeOK, Bounds, PC, MinerPC, PastGate
<1>5. CASE CommitWindow(m)
  <2>1. [window |-> window[m], root |-> theta[m]] \in Commit
    BY <1>m DEF Commit
  <2> QED
    BY <1>m, <1>5, <2>1 DEF CommitWindow, TypeInv, TypeOK, Bounds, PC, MinerPC, PastGate
<1>6. CASE UploadPayload(m)
  BY <1>m, <1>6 DEF UploadPayload, TypeInv, TypeOK, Bounds, PC, MinerPC, PastGate
<1>7. CASE ApplyLive(m)
  <2>1. window[m] < MaxWindow /\ window[m] + 1 \in Windows
    BY <1>m, <1>7, ConstantsAssumption DEF ApplyLive, TypeInv, Bounds, PastGate, Windows
  <2>2. OuterStep(theta[m], window[m], Cert(window[m]).included) \in Theta
    BY <1>m, <1>7, OuterStepType DEF ApplyLive, Certified, Cert, TypeInv, TypeOK, Certificate
  <2>3. ckpt' \in [Nodes -> Replica]
    <3>1. CASE UNCHANGED ckpt
      BY <3>1 DEF TypeInv, TypeOK
    <3>2. CASE SaveCheckpoint(m, window[m] + 1, OuterStep(theta[m], window[m], Cert(window[m]).included))
      BY <1>m, <2>1, <2>2, <3>2, SaveCheckpointType
    <3> QED
      BY <1>7, <3>1, <3>2 DEF ApplyLive
  <2>4. ran' \in [Miners -> BOOLEAN]
    BY <1>7, Zenon DEF ApplyLive, TypeInv, TypeOK
  <2> QED
    BY <1>m, <1>7, <2>1, <2>2, <2>3, <2>4 DEF ApplyLive, TypeInv, TypeOK, Bounds, PC, PastGate
<1>8. CASE Desync(m)
  <2>1. window[m] < MaxWindow
    BY <1>8 , <1>m DEF Desync, TypeInv, Bounds, PastGate
  <2>2. /\ Later(window[m], head - 1) \in Windows
        /\ window[m] <= Later(window[m], head - 1) + 1 /\ Later(window[m], head - 1) < MaxWindow
    BY <1>m, <2>1, ConstantsAssumption DEF Later, Windows
  <2>3. CatchUpFrom(m, window[m], Later(window[m], head - 1), "idle")
    BY <1>8 DEF Desync
  <2>4. ran' \in [Miners -> BOOLEAN]
    BY <1>8, Zenon DEF Desync, TypeInv, TypeOK
  <2> QED
    BY <1>m, <1>8, <2>2, <2>3, <2>4, CatchUpFromType DEF Desync, TypeInv, TypeOK, Bounds, PC, PastGate
<1>9. CASE Recover(m)
  <2>1. head - 1 \in Windows /\ window[m] <= (head - 1) + 1 /\ head - 1 < MaxWindow
    BY <1>m, <1>9, ConstantsAssumption DEF Recover, Windows
  <2>2. CatchUpFrom(m, window[m], head - 1, "idle")
    BY <1>9 DEF Recover
  <2> QED
    BY <1>m, <1>9, <2>1, <2>2, CatchUpFromType DEF Recover, TypeInv, TypeOK, Bounds, PC, PastGate
<1> QED
  BY <1>1, <1>2, <1>3, <1>4, <1>5, <1>6, <1>7, <1>8, <1>9 DEF MinerStep

(* Every step of an observer keeps the types. *)
LEMMA TypeObserverStep ==
  ASSUME TypeInv, NEW o \in Observers,
         \/ o \in Validators /\ ValidatorStep(o)
         \/ o \in Auditors /\ RestartAuditor(o)
         \/ StopObserver(o) \/ ProcessWindow(o) \/ SaveState(o)
  PROVE  TypeInv'
<1> USE DEF chainVars, bucketVars, diskVars, procVars
<1>o. o \in Nodes /\ head \in Windows /\ window[o] \in Windows /\ theta[o] \in Theta
  BY NodeKinds DEF TypeInv, TypeOK
<1>1. CASE o \in Validators /\ RestartValidator(o)
  <2>1. PICK r \in Replica, next \in Windows : Resume(o, r, next)
    BY <1>o, <1>1, FirstWindow, InitialTypes DEF RestartValidator, Later, TypeInv, TypeOK, Replica
  <2>2. /\ pc' \in [Nodes -> PC] /\ window' \in [Nodes -> Windows]
        /\ theta' \in [Nodes -> Theta] /\ catchup' \in [Nodes -> Catchup] /\ Bounds'
    BY <1>o, <2>1, ResumeType
  <2> QED
    BY <1>1, <2>2 DEF RestartValidator, TypeInv, TypeOK
<1>2. CASE o \in Validators /\ SkipAhead(o)
  <2>1. head - 2 \in Windows /\ window[o] <= (head - 2) + 1 /\ head - 2 < MaxWindow
    BY <1>o, <1>2, ConstantsAssumption DEF SkipAhead, Windows
  <2>2. CatchUpFrom(o, window[o], head - 2, "idle")
    BY <1>2 DEF SkipAhead
  <2> QED
    BY <1>o, <1>2, <2>1, <2>2, CatchUpFromType DEF SkipAhead, TypeInv, TypeOK, Bounds, PC, PastGate
<1>3. CASE o \in Validators /\ PutCertificate(o)
  <2>1. PICK T \in Selections(views[o]) :
          certs' = [certs EXCEPT ![o][window[o]] = [root |-> theta[o], included |-> T]]
    BY <1>3 DEF PutCertificate
  <2>2. [root |-> theta[o], included |-> T] \in Certificate
    BY <1>o, <1>3, <2>1 DEF Selections, Certificate, TypeInv, TypeOK
  <2>3. certs' \in [Validators -> [Windows -> Certificate \cup {NoCert}]]
    BY <1>o, <1>3, <2>1, <2>2 DEF TypeInv, TypeOK
  <2> QED
    BY <1>o, <1>3, <2>3 DEF PutCertificate, TypeInv, TypeOK, Bounds, PC, ObserverPC, PastGate
<1>4. CASE o \in Validators /\ PutMirror(o)
  BY <1>o, <1>4 DEF PutMirror, TypeInv, TypeOK, Bounds, PC, ObserverPC, PastGate
<1>5. CASE o \in Validators /\ LeaderCheckpoint(o)
  <2>1. ckpt' \in [Nodes -> Replica]
    BY <1>o, <1>5, SaveCheckpointType DEF LeaderCheckpoint
  <2> QED
    BY <1>o, <1>5, <2>1 DEF LeaderCheckpoint, TypeInv, TypeOK, Bounds, PC, PastGate
<1>6. CASE o \in Auditors /\ RestartAuditor(o)
  <2>1. /\ Newest(o) \in Replica /\ Materialized(o) \in Replica
        /\ Later(saved[o], Materialized(o).next) \in Windows
    BY <1>o, MaterializedType DEF Replica, Later, TypeInv, TypeOK
  <2>2. /\ pc' \in [Nodes -> PC] /\ window' \in [Nodes -> Windows]
        /\ theta' \in [Nodes -> Theta] /\ catchup' \in [Nodes -> Catchup] /\ Bounds'
    BY <1>o, <1>6, <2>1, ResumeType DEF RestartAuditor
  <2> QED
    BY <1>o, <1>6, <2>1, <2>2 DEF RestartAuditor, TypeInv, TypeOK
<1>7. CASE StopObserver(o)
  <2>1. faults' \in 0 .. MaxFaults
    BY <1>7, ConstantsAssumption DEF StopObserver, TypeInv, TypeOK
  <2> QED
    BY <1>o, <1>7, <2>1, GoDownType DEF StopObserver, TypeInv, TypeOK
<1>8. CASE ProcessWindow(o)
  <2>1. /\ window[o] <= window[o] + 1 /\ window[o] < MaxWindow
    BY <1>o, <1>8, ConstantsAssumption DEF ProcessWindow, GateClosed, Windows
  <2> DEFINE then == IF o = leader /\ window[o] % CheckpointEvery = 0 THEN "checkpoint" ELSE "idle"
  <2>2. CatchUpFrom(o, window[o], window[o], then)
    BY <1>8 DEF ProcessWindow
  <2>3. /\ catchup' \in [Nodes -> Catchup]
        /\ \A k \in Nodes : catchup'[k].lo <= catchup'[k].at
                            /\ catchup'[k].at <= catchup'[k].to + 1
                            /\ catchup'[k].to < MaxWindow
    <3>1. then \in {"idle", "checkpoint"}
      OBVIOUS
    <3> HIDE DEF then
    <3> QED
      BY <1>o, <2>1, <2>2, <3>1, CatchUpFromType
  <2>4. views' \in [Validators -> SUBSET Miners]
    BY <1>8 DEF ProcessWindow, InGateCommits, Committers, TypeInv, TypeOK
  <2>5. pc' = [pc EXCEPT ![o] = "certify"] \/ pc' = [pc EXCEPT ![o] = "save"]
    BY <1>8 DEF ProcessWindow
  <2> QED
    BY <1>o, <1>8, <2>1, <2>3, <2>4, <2>5 DEF ProcessWindow, TypeInv, TypeOK, Bounds, PC, ObserverPC, PastGate
<1>9. CASE SaveState(o)
  <2>1. window[o] + 1 \in Windows
    BY <1>o, <1>9, ConstantsAssumption DEF SaveState, TypeInv, Bounds, PastGate, Windows
  <2> QED
    BY <1>o, <1>9, <2>1 DEF SaveState, TypeInv, TypeOK, Bounds, PC, PastGate
<1> QED
  BY <1>1, <1>2, <1>3, <1>4, <1>5, <1>6, <1>7, <1>8, <1>9 DEF ValidatorStep

(* Every step of a catch-up keeps the types. *)
LEMMA TypeCatchUpStep ==
  ASSUME TypeInv, NEW n \in Nodes, CatchUpStep(n)
  PROVE  TypeInv'
<1> USE DEF chainVars, bucketVars, diskVars, procVars, AtWindow, Replaying
<1>n. /\ catchup[n] \in Catchup /\ catchup[n].lo \in Windows /\ catchup[n].at \in Windows
      /\ catchup[n].to \in Int /\ catchup[n].then \in {"idle", "checkpoint"}
      /\ theta[n] \in Theta
      /\ catchup[n].lo <= catchup[n].at /\ catchup[n].at <= catchup[n].to + 1 /\ catchup[n].to < MaxWindow
  BY DEF TypeInv, TypeOK, Bounds, Catchup, Windows
<1> DEFINE Bounded(c) == \A k \in Nodes : c[k].lo <= c[k].at /\ c[k].at <= c[k].to + 1 /\ c[k].to < MaxWindow
<1>s. ASSUME NEW x \in Windows, catchup[n].lo <= x, x <= catchup[n].to + 1,
             catchup' = [catchup EXCEPT ![n].at = x]
      PROVE  catchup' \in [Nodes -> Catchup] /\ Bounded(catchup')
  <2> DEFINE c == [catchup[n] EXCEPT !.at = x]
  <2>1. c \in Catchup /\ c.lo = catchup[n].lo /\ c.at = x /\ c.to = catchup[n].to
    BY <1>n, <1>s DEF Catchup
  <2>2. catchup' = [catchup EXCEPT ![n] = c]
    BY <1>s
  <2> HIDE DEF c
  <2> QED
    BY <1>n, <1>s, <2>1, <2>2 DEF TypeInv, TypeOK, Bounds
<1>a. ASSUME catchup' = [catchup EXCEPT ![n].at = catchup[n].at + 1], catchup[n].at <= catchup[n].to
      PROVE  catchup' \in [Nodes -> Catchup] /\ Bounded(catchup')
  <2>1. /\ catchup[n].at + 1 \in Windows /\ catchup[n].lo <= catchup[n].at + 1
        /\ catchup[n].at + 1 <= catchup[n].to + 1
    BY <1>n, <1>a, ConstantsAssumption DEF Windows
  <2> QED
    BY <1>a, <1>s, <2>1
<1>b. ASSUME Retry(n)
      PROVE  catchup' \in [Nodes -> Catchup] /\ Bounded(catchup')
  <2>1. catchup[n].lo <= catchup[n].lo /\ catchup[n].lo <= catchup[n].to + 1
    BY <1>n DEF Windows
  <2> QED
    BY <1>n, <1>b, <1>s, <2>1 DEF Retry
<1>c. ASSUME UNCHANGED faults \/ (faults' = faults + 1 /\ faults < MaxFaults)
      PROVE  faults' \in 0 .. MaxFaults
  BY <1>c, ConstantsAssumption DEF TypeInv, TypeOK
<1>1. CASE CatchUpApply(n)
  <2>1. OuterStep(theta[n], catchup[n].at, Cert(catchup[n].at).included) \in Theta
    BY <1>n, <1>1, OuterStepType DEF CatchUpApply, Certified, Cert, TypeInv, TypeOK, Certificate
  <2> QED
    BY <1>1, <1>a, <2>1 DEF CatchUpApply, TypeInv, TypeOK, Bounds
<1>2. CASE CatchUpEmpty(n)
  BY <1>2, <1>a DEF CatchUpEmpty, TypeInv, TypeOK, Bounds
<1>3. CASE CatchUpPending(n)
  <2>1. GoDown(n) \/ Retry(n)
    BY <1>3 DEF CatchUpPending
  <2>2. CASE GoDown(n)
    BY <1>3, <2>2, GoDownType DEF CatchUpPending, TypeInv, TypeOK
  <2>3. CASE Retry(n)
    BY <1>3, <1>b, <2>3 DEF CatchUpPending, Retry, TypeInv, TypeOK, Bounds
  <2> QED
    BY <2>1, <2>2, <2>3
<1>4. CASE CatchUpError(n)
  <2>1. GoDown(n) \/ Retry(n)
    BY <1>4 DEF CatchUpError
  <2>2. CASE GoDown(n)
    BY <1>4, <2>2, GoDownType DEF CatchUpError, TypeInv, TypeOK
  <2>3. CASE Retry(n)
    BY <1>4, <1>b, <2>3 DEF CatchUpError, Retry, TypeInv, TypeOK, Bounds
  <2> QED
    BY <2>1, <2>2, <2>3
<1>5. CASE CatchUpIOError(n)
  BY <1>5, <1>b, <1>c DEF CatchUpIOError, Retry, TypeInv, TypeOK, Bounds
<1>6. CASE CatchUpDone(n)
  <2>1. catchup[n].then \in PC /\ catchup[n].then \notin PastGate
    BY <1>n DEF PC, ObserverPC, PastGate
  <2>2. catchup' \in [Nodes -> Catchup] /\ Bounded(catchup')
    BY <1>n, <1>6, InitialTypes, ConstantsAssumption DEF CatchUpDone, NoCatchup, TypeInv, TypeOK, Bounds
  <2> QED
    BY <1>n, <1>6, <2>1, <2>2 DEF CatchUpDone, TypeInv, TypeOK, Bounds
<1> QED
  BY <1>1, <1>2, <1>3, <1>4, <1>5, <1>6 DEF CatchUpStep

(* The types are inductive. *)
LEMMA TypeStep == TypeInv /\ [Next]_vars => TypeInv'
<1> SUFFICES ASSUME TypeInv, [Next]_vars PROVE TypeInv'
  OBVIOUS
<1> USE DEF chainVars, bucketVars, diskVars, procVars
<1>1. CASE Tick
  <2>1. head' \in Windows
    BY <1>1, ConstantsAssumption DEF Tick, TypeInv, TypeOK, Windows
  <2>2. gateOpen' \in BOOLEAN
    BY <1>1, Zenon DEF Tick
  <2> QED
    BY <1>1, <2>1, <2>2 DEF Tick, TypeInv, TypeOK, Bounds
<1>2. ASSUME NEW m \in Miners, MinerStep(m) PROVE TypeInv'
  BY <1>2, TypeMinerStep
<1>3. ASSUME NEW v \in Validators, ValidatorStep(v) PROVE TypeInv'
  BY <1>3, NodeKinds, TypeObserverStep
<1>4. ASSUME NEW a \in Auditors, RestartAuditor(a) PROVE TypeInv'
  BY <1>4, NodeKinds, TypeObserverStep
<1>5. ASSUME NEW o \in Observers, StopObserver(o) \/ ProcessWindow(o) \/ SaveState(o) PROVE TypeInv'
  BY <1>5, TypeObserverStep
<1>6. ASSUME NEW n \in Nodes, CatchUpStep(n) PROVE TypeInv'
  BY <1>6, TypeCatchUpStep
<1>7. ASSUME NEW n \in Nodes, Crash(n) PROVE TypeInv'
  <2>1. faults' \in 0 .. MaxFaults
    BY <1>7, ConstantsAssumption DEF Crash, TypeInv, TypeOK
  <2> QED
    BY <1>7, <2>1, GoDownType DEF Crash, TypeInv, TypeOK
<1>8. CASE UNCHANGED vars
  BY <1>8 DEF vars, TypeInv, TypeOK, Bounds
<1> QED
  BY <1>1, <1>2, <1>3, <1>4, <1>5, <1>6, <1>7, <1>8 DEF Next

(* Every variable always has its type, however the program is run and       *)
(* whatever crashes: no process runs past the chain head.                   *)
THEOREM TypeCorrect == Spec => []TypeOK
<1>1. TypeInv => TypeOK
  BY DEF TypeInv
<1> QED
  BY TypeInit, TypeStep, <1>1, PTL DEF Spec
-----------------------------------------------------------------------------
(***************************************************************************)
(* The certificates.  They form one lineage because the leader publishes   *)
(* from the parameters its own certificates lead to.  What makes that      *)
(* inductive is what survives its crashes: its saved window and its        *)
(* checkpoint are behind its certificates, so a restart can only lead to a *)
(* replay of windows that are certified, whatever was applied before.      *)
(***************************************************************************)

(* The operators below are over c, the certificates of one bucket.          *)
HasCert(c, w) == w \in Windows /\ c[w] # NoCert
Leads(c, w)   == OuterStep(c[w].root, w, c[w].included)

(* t is what the certificates of the windows before x lead to *)
StateAt(c, t, x) == IF x = 0 THEN t = InitTheta ELSE HasCert(c, x - 1) /\ t = Leads(c, x - 1)

Past(c, x)      == \A w \in Windows : w < x => HasCert(c, w)
OnLineage(c, t) == t = InitTheta \/ \E w \in Windows : HasCert(c, w) /\ t = Leads(c, w)
Chain(c)        == \A w \in Windows : HasCert(c, w) => StateAt(c, c[w].root, w)

L == certs[leader]

(* The duties of the leader are the leader's. *)
LeaderOnly ==
  \A n \in Nodes :
    pc[n] \in {"certify", "mirror", "checkpoint"} \/ catchup[n].then = "checkpoint" => n = leader

(* What the leader has passed, in memory and on disk, is certified. *)
LeaderBehind ==
  /\ Past(L, window[leader]) /\ Past(L, saved[leader]) /\ Past(L, ckpt[leader].next)
  /\ pc[leader] = "certify" => ~HasCert(L, window[leader])
  /\ pc[leader] \in {"mirror", "save"} => HasCert(L, window[leader])
  /\ pc[leader] \in {"certify", "mirror", "save"} =>
       /\ catchup[leader].lo = window[leader]
       /\ catchup[leader].at = window[leader]
       /\ catchup[leader].to = window[leader]
  /\ pc[leader] = "catchup" => Past(L, catchup[leader].to + 1)

(* The leader's replica is where its certificates lead. *)
LeaderReplica ==
  /\ StateAt(L, ckpt[leader].theta, ckpt[leader].next)
  /\ pc[leader] \in {"idle", "certify", "mirror", "save", "checkpoint"} =>
       StateAt(L, theta[leader], window[leader])
  /\ pc[leader] = "catchup" =>
       \E y \in catchup[leader].at .. catchup[leader].to + 1 : StateAt(L, theta[leader], y)

LeaderInv == LeaderBehind /\ LeaderReplica /\ Chain(L)

(* Every replica, in memory or on disk, is on the lineage. *)
AllOnLineage == \A n \in Nodes : OnLineage(L, theta[n]) /\ OnLineage(L, ckpt[n].theta)

LedgerInv == LeaderOnly /\ LeaderInv /\ AllOnLineage

(* LedgerInv says what the properties of WindowProtocol say. *)
LEMMA LedgerMeaning ==
  ASSUME TypeInv, LedgerInv
  PROVE  CertificateChain /\ OnCertifiedLineage
<1>1. \A w : Certified(w) <=> HasCert(L, w)
  BY DEF Certified, Cert, HasCert, L
<1>2. \A w : After(w) = Leads(L, w) /\ Cert(w) = L[w]
  BY DEF After, Cert, Leads, L
<1>3. CertificateChain
  BY <1>1, <1>2, ConstantsAssumption DEF CertificateChain, LedgerInv, LeaderInv, Chain, StateAt, Windows
<1>4. OnCertifiedLineage
  BY <1>1, <1>2 DEF OnCertifiedLineage, LedgerInv, AllOnLineage, OnLineage
<1> QED
  BY <1>3, <1>4

(* Publishing a certificate that was not there takes nothing back. *)
LEMMA Growth ==
  ASSUME NEW c, NEW d, \A w \in Windows : c[w] # NoCert => d[w] = c[w]
  PROVE  /\ \A w : HasCert(c, w) => HasCert(d, w) /\ Leads(d, w) = Leads(c, w)
         /\ \A x : Past(c, x) => Past(d, x)
         /\ \A t, x : StateAt(c, t, x) => StateAt(d, t, x)
         /\ \A t : OnLineage(c, t) => OnLineage(d, t)
<1>1. \A w : HasCert(c, w) => HasCert(d, w) /\ Leads(d, w) = Leads(c, w)
  BY DEF HasCert, Leads
<1>2. \A x : Past(c, x) => Past(d, x)
  BY <1>1 DEF Past
<1>3. \A t, x : StateAt(c, t, x) => StateAt(d, t, x)
  BY <1>1 DEF StateAt
<1>4. \A t : OnLineage(c, t) => OnLineage(d, t)
  BY <1>1 DEF OnLineage
<1> QED
  BY <1>1, <1>2, <1>3, <1>4

(* In a chain, the state at a window is on the lineage. *)
LEMMA StateAtOnLineage ==
  ASSUME NEW c, NEW t, NEW x, StateAt(c, t, x)
  PROVE  OnLineage(c, t)
<1>1. CASE x = 0
  BY <1>1 DEF StateAt, OnLineage
<1>2. CASE x # 0
  BY <1>2 DEF StateAt, OnLineage, HasCert
<1> QED
  BY <1>1, <1>2

(* What the leader's invariant speaks of. *)
LeaderSlice ==
  <<leader, L, window[leader], saved[leader], ckpt[leader], pc[leader], catchup[leader], theta[leader]>>

(* A step that leaves all of it alone preserves it. *)
LEMMA SliceFrame ==
  ASSUME LeaderInv, UNCHANGED LeaderSlice
  PROVE  LeaderInv'
BY DEF LeaderSlice, LeaderInv, LeaderBehind, LeaderReplica

LEMMA LedgerInit == Init => LedgerInv
<1> SUFFICES ASSUME Init PROVE LedgerInv
  OBVIOUS
<1>1. /\ leader \in Nodes /\ leader \in Observers /\ leader \in Validators
      /\ \A w \in Windows : L[w] = NoCert
  BY ConstantsAssumption, NodeKinds DEF Init, L
<1>2. LeaderOnly
  BY DEF Init, LeaderOnly, NoCatchup
<1>3. \A w : ~HasCert(L, w)
  BY <1>1 DEF HasCert
<1>4. Past(L, 0) /\ StateAt(L, InitTheta, 0) /\ Chain(L) /\ OnLineage(L, InitTheta)
  BY <1>3, ConstantsAssumption DEF Past, StateAt, Chain, OnLineage, Windows
<1>5. LeaderInv
  BY <1>1, <1>4 DEF Init, LeaderInv, LeaderBehind, LeaderReplica, InitReplica
<1>6. AllOnLineage
  BY <1>4 DEF Init, AllOnLineage, InitReplica
<1> QED
  BY <1>2, <1>5, <1>6 DEF LedgerInv

(* The leader is a validator, and no miner or auditor. *)
LEMMA LeaderKind ==
  ASSUME TypeInv
  PROVE  /\ leader \in Validators /\ leader \in Observers /\ leader \in Nodes
         /\ leader \notin Miners /\ leader \notin Auditors
BY ConstantsAssumption, NodeKinds DEF TypeInv, TypeOK

(* What a node resumes from is on the lineage. *)
LEMMA MaterializedOnLineage ==
  ASSUME TypeInv, LedgerInv, NEW n \in Nodes
  PROVE  OnLineage(L, Newest(n).theta) /\ OnLineage(L, Materialized(n).theta)
<1>1. OnLineage(L, Newest(n).theta)
  BY LeaderKind DEF Newest, LedgerInv, AllOnLineage
<1>2. OnLineage(L, InitReplica.theta)
  BY DEF InitReplica, OnLineage
<1> QED
  BY <1>1, <1>2 DEF Materialized

(* A step of node n that is on the lineage before and after it. *)
LEMMA LineageStep ==
  ASSUME TypeInv, LedgerInv, NEW n \in Nodes, NEW t, NEW r,
         UNCHANGED L, OnLineage(L, t), OnLineage(L, r.theta),
         theta' = [theta EXCEPT ![n] = t] \/ UNCHANGED theta,
         ckpt' = [ckpt EXCEPT ![n] = r] \/ UNCHANGED ckpt
  PROVE  AllOnLineage'
BY DEF LedgerInv, AllOnLineage, TypeInv, TypeOK

(* The outer step of a certificate that starts from the replica's state     *)
(* leads to the next state of the lineage.                                  *)
LEMMA OuterStepLeads ==
  ASSUME NEW w, Certified(w), NEW t, Cert(w).root = t
  PROVE  /\ HasCert(L, w)
         /\ OuterStep(t, w, Cert(w).included) = Leads(L, w)
         /\ OnLineage(L, OuterStep(t, w, Cert(w).included))
BY DEF Certified, Cert, HasCert, Leads, L, OnLineage

(* SaveCheckpoint writes what it is given, or nothing. *)
LEMMA SaveCheckpointWrites ==
  ASSUME NEW n, NEW next, NEW t, SaveCheckpoint(n, next, t) \/ UNCHANGED ckpt
  PROVE  ckpt' = [ckpt EXCEPT ![n] = [next |-> next, theta |-> t]] \/ UNCHANGED ckpt
BY DEF SaveCheckpoint

(* A miner can neither disturb the leader nor leave the lineage. *)
LEMMA LedgerMinerStep ==
  ASSUME TypeInv, LedgerInv, NEW m \in Miners, MinerStep(m)
  PROVE  LedgerInv'
<1> USE DEF chainVars, bucketVars, diskVars, procVars
<1>m. m \in Nodes /\ m # leader /\ leader \in Nodes /\ leader \in Observers /\ m \notin Observers
  BY NodeKinds, LeaderKind, ConstantsAssumption DEF Observers
<1>t. OnLineage(L, theta[m]) /\ OnLineage(L, ckpt[m].theta) /\ OnLineage(L, InitTheta)
  BY <1>m DEF LedgerInv, AllOnLineage, OnLineage
<1>1. CASE RestartMiner(m)
  <2>1. /\ theta' = [theta EXCEPT ![m] = Materialized(m).theta]
        /\ ckpt' = [ckpt EXCEPT ![m] = Newest(m)]
    BY <1>1 DEF RestartMiner, Resume
  <2>2. AllOnLineage'
    BY <1>1, <1>m, <2>1, LineageStep, MaterializedOnLineage DEF RestartMiner, L
  <2>3. LeaderOnly'
    BY <1>1, <1>m DEF RestartMiner, Resume, CatchUpFrom, LedgerInv, LeaderOnly, TypeInv, TypeOK
  <2>4. UNCHANGED LeaderSlice
    BY <1>1, <1>m DEF RestartMiner, Resume, CatchUpFrom, LeaderSlice, L, TypeInv, TypeOK
  <2> QED
    BY <2>2, <2>3, <2>4, SliceFrame DEF LedgerInv
<1>2. CASE GracefulStop(m)
  <2>1. /\ theta' = [theta EXCEPT ![m] = InitTheta]
        /\ ckpt' = [ckpt EXCEPT ![m] = [next |-> window[m], theta |-> theta[m]]] \/ UNCHANGED ckpt
    BY <1>2, SaveCheckpointWrites DEF GracefulStop, GoDown
  <2>2. AllOnLineage'
    BY <1>2, <1>m, <1>t, <2>1, LineageStep DEF GracefulStop, L
  <2>3. LeaderOnly'
    BY <1>2, <1>m DEF GracefulStop, GoDown, NoCatchup, LedgerInv, LeaderOnly, TypeInv, TypeOK
  <2>4. UNCHANGED LeaderSlice
    BY <1>2, <1>m, <2>1 DEF GracefulStop, GoDown, LeaderSlice, L, TypeInv, TypeOK
  <2> QED
    BY <2>2, <2>3, <2>4, SliceFrame DEF LedgerInv
<1>3. CASE StartWindow(m) \/ CheckGate(m) \/ CommitWindow(m) \/ UploadPayload(m) \/ Desync(m) \/ Recover(m)
  <2>1. UNCHANGED <<leader, certs, theta, ckpt, saved, window>>
    BY <1>3 DEF StartWindow, CheckGate, CommitWindow, UploadPayload, Desync, Recover
  <2>2. \E q \in {"training", "publishing", "uploading", "awaiting", "catchup"} : pc' = [pc EXCEPT ![m] = q]
    BY <1>3 DEF StartWindow, CheckGate, CommitWindow, UploadPayload, Desync, Recover
  <2>3. UNCHANGED catchup \/ \E lo, to : CatchUpFrom(m, lo, to, "idle")
    BY <1>3 DEF StartWindow, CheckGate, CommitWindow, UploadPayload, Desync, Recover
  <2>4. AllOnLineage'
    BY <2>1 DEF LedgerInv, AllOnLineage, L
  <2>5. LeaderOnly'
    BY <1>m, <2>1, <2>2, <2>3 DEF CatchUpFrom, LedgerInv, LeaderOnly, TypeInv, TypeOK
  <2>6. UNCHANGED LeaderSlice
    BY <1>m, <2>1, <2>2, <2>3 DEF CatchUpFrom, LeaderSlice, L, TypeInv, TypeOK
  <2> QED
    BY <2>4, <2>5, <2>6, SliceFrame DEF LedgerInv
<1>4. CASE ApplyLive(m)
  <2> DEFINE after == OuterStep(theta[m], window[m], Cert(window[m]).included)
  <2>1. OnLineage(L, after)
    BY <1>4, OuterStepLeads DEF ApplyLive
  <2>2. /\ theta' = [theta EXCEPT ![m] = after]
        /\ ckpt' = [ckpt EXCEPT ![m] = [next |-> window[m] + 1, theta |-> after]] \/ UNCHANGED ckpt
    BY <1>4, SaveCheckpointWrites DEF ApplyLive
  <2>u. UNCHANGED L
    BY <1>4 DEF ApplyLive, L
  <2> HIDE DEF after
  <2>3. AllOnLineage'
    <3> DEFINE r == IF UNCHANGED ckpt THEN ckpt[m] ELSE [next |-> window[m] + 1, theta |-> after]
    <3>1. OnLineage(L, r.theta) /\ (ckpt' = [ckpt EXCEPT ![m] = r] \/ UNCHANGED ckpt)
      BY <1>t, <2>1, <2>2
    <3> HIDE DEF r
    <3> QED
      BY <1>m, <2>u, <2>1, <2>2, <3>1, LineageStep
  <2>4. LeaderOnly'
    BY <1>4, <1>m DEF ApplyLive, LedgerInv, LeaderOnly, TypeInv, TypeOK
  <2>5. UNCHANGED LeaderSlice
    BY <1>4, <1>m, <2>2 DEF ApplyLive, LeaderSlice, L, TypeInv, TypeOK
  <2> QED
    BY <2>3, <2>4, <2>5, SliceFrame DEF LedgerInv
<1> QED
  BY <1>1, <1>2, <1>3, <1>4 DEF MinerStep

(* A validator or auditor that does not lead is no danger either. *)
LEMMA LedgerFollowerStep ==
  ASSUME TypeInv, LedgerInv, NEW o \in Observers, o # leader,
         \/ o \in Validators /\ ValidatorStep(o)
         \/ o \in Auditors /\ RestartAuditor(o)
         \/ StopObserver(o) \/ ProcessWindow(o) \/ SaveState(o)
  PROVE  LedgerInv'
<1> USE DEF chainVars, bucketVars, diskVars, procVars
<1>o. o \in Nodes /\ leader \in Nodes /\ leader \in Observers /\ leader \in Validators
      /\ pc[o] \notin {"certify", "mirror", "checkpoint"}
  BY NodeKinds, LeaderKind DEF LedgerInv, LeaderOnly
<1>t. OnLineage(L, theta[o]) /\ OnLineage(L, ckpt[o].theta) /\ OnLineage(L, InitTheta)
  BY <1>o DEF LedgerInv, AllOnLineage, OnLineage
<1>1. CASE o \in Validators /\ RestartValidator(o)
  <2>1. PICK r \in {InitReplica, ckpt[o]} : \E next : Resume(o, r, next)
    BY <1>1 DEF RestartValidator
  <2>2. theta' = [theta EXCEPT ![o] = r.theta] /\ OnLineage(L, r.theta)
    BY <1>t, <2>1 DEF Resume, InitReplica
  <2>3. AllOnLineage'
    BY <1>1, <1>o, <1>t, <2>2, LineageStep DEF RestartValidator, L
  <2>4. LeaderOnly'
    BY <1>1, <1>o, <2>1 DEF RestartValidator, Resume, CatchUpFrom, LedgerInv, LeaderOnly, TypeInv, TypeOK
  <2>5. UNCHANGED LeaderSlice
    BY <1>1, <1>o, <2>1 DEF RestartValidator, Resume, CatchUpFrom, LeaderSlice, L, TypeInv, TypeOK
  <2> QED
    BY <2>3, <2>4, <2>5, SliceFrame DEF LedgerInv
<1>2. CASE o \in Auditors /\ RestartAuditor(o)
  <2>1. /\ theta' = [theta EXCEPT ![o] = Materialized(o).theta]
        /\ ckpt' = [ckpt EXCEPT ![o] = Newest(o)]
    BY <1>2 DEF RestartAuditor, Resume
  <2>2. AllOnLineage'
    BY <1>2, <1>o, <2>1, LineageStep, MaterializedOnLineage DEF RestartAuditor, L
  <2>3. LeaderOnly'
    BY <1>2, <1>o DEF RestartAuditor, Resume, CatchUpFrom, LedgerInv, LeaderOnly, TypeInv, TypeOK
  <2>4. UNCHANGED LeaderSlice
    BY <1>2, <1>o DEF RestartAuditor, Resume, CatchUpFrom, LeaderSlice, L, TypeInv, TypeOK
  <2> QED
    BY <2>2, <2>3, <2>4, SliceFrame DEF LedgerInv
<1>3. CASE StopObserver(o)
  <2>1. AllOnLineage'
    BY <1>3, <1>o, <1>t, LineageStep DEF StopObserver, GoDown, L
  <2>2. LeaderOnly'
    BY <1>3, <1>o DEF StopObserver, GoDown, NoCatchup, LedgerInv, LeaderOnly, TypeInv, TypeOK
  <2>3. UNCHANGED LeaderSlice
    BY <1>3, <1>o DEF StopObserver, GoDown, LeaderSlice, L, TypeInv, TypeOK
  <2> QED
    BY <2>1, <2>2, <2>3, SliceFrame DEF LedgerInv
<1>4. CASE ProcessWindow(o) \/ SaveState(o) \/ SkipAhead(o)
  <2>1. UNCHANGED <<leader, certs, theta, ckpt>>
    BY <1>4 DEF ProcessWindow, SaveState, SkipAhead
  <2>2. \E q \in {"save", "catchup"} : pc' = [pc EXCEPT ![o] = q]
    BY <1>4 DEF ProcessWindow, SaveState, SkipAhead
  <2>3. UNCHANGED catchup \/ \E lo, to : CatchUpFrom(o, lo, to, "idle")
    BY <1>4 DEF ProcessWindow, SaveState, SkipAhead
  <2>4. UNCHANGED window[leader] /\ UNCHANGED saved[leader]
    BY <1>4, <1>o DEF ProcessWindow, SaveState, SkipAhead, TypeInv, TypeOK
  <2>5. AllOnLineage'
    BY <2>1 DEF LedgerInv, AllOnLineage, L
  <2>6. LeaderOnly'
    BY <1>o, <2>1, <2>2, <2>3 DEF CatchUpFrom, LedgerInv, LeaderOnly, TypeInv, TypeOK
  <2>7. UNCHANGED LeaderSlice
    BY <1>o, <2>1, <2>2, <2>3, <2>4 DEF CatchUpFrom, LeaderSlice, L, TypeInv, TypeOK
  <2> QED
    BY <2>5, <2>6, <2>7, SliceFrame DEF LedgerInv
<1>5. ~PutCertificate(o) /\ ~PutMirror(o) /\ ~LeaderCheckpoint(o)
  BY <1>o DEF PutCertificate, PutMirror, LeaderCheckpoint
<1> QED
  BY <1>1, <1>2, <1>3, <1>4, <1>5 DEF ValidatorStep

(* Any process may crash. *)
LEMMA LedgerGoDown ==
  ASSUME TypeInv, LedgerInv, NEW n \in Nodes, GoDown(n), UNCHANGED <<chainVars, certs, diskVars>>
  PROVE  LedgerInv'
<1> USE DEF chainVars, diskVars
<1>n. /\ leader \in Nodes /\ leader \in Observers
      /\ OnLineage(L, InitTheta) /\ OnLineage(L, ckpt[n].theta)
  BY LeaderKind DEF OnLineage, LedgerInv, AllOnLineage
<1>1. AllOnLineage'
  BY <1>n, LineageStep DEF GoDown, L
<1>2. LeaderOnly'
  BY <1>n DEF GoDown, NoCatchup, LedgerInv, LeaderOnly, TypeInv, TypeOK
<1>3. CASE n # leader
  <2>1. UNCHANGED LeaderSlice
    BY <1>n, <1>3 DEF GoDown, LeaderSlice, L, TypeInv, TypeOK
  <2> QED
    BY <1>1, <1>2, <2>1, SliceFrame DEF LedgerInv
<1>4. CASE n = leader
  <2>1. pc'[leader] = "down" /\ window'[leader] = 0 /\ UNCHANGED <<leader, L, saved, ckpt>>
    BY <1>n, <1>4 DEF GoDown, L, TypeInv, TypeOK
  <2>2. Past(L', 0)
    BY DEF Past, Windows
  <2>3. LeaderInv'
    BY <2>1, <2>2 DEF LedgerInv, LeaderInv, LeaderBehind, LeaderReplica
  <2> QED
    BY <1>1, <1>2, <2>3 DEF LedgerInv
<1> QED
  BY <1>3, <1>4

(* The leader's own certificate extends its chain: it starts from where the *)
(* previous one leads.                                                      *)
LEMMA LedgerPutCertificate ==
  ASSUME TypeInv, LedgerInv, PutCertificate(leader)
  PROVE  LedgerInv'
<1> USE DEF chainVars, bucketVars, diskVars, procVars
<1> DEFINE x == window[leader]
<1>1. /\ leader \in Validators /\ leader \in Nodes /\ leader \in Observers
      /\ x \in Windows /\ pc[leader] = "certify" /\ leader' = leader
  BY LeaderKind DEF PutCertificate, TypeInv, TypeOK
<1>2. PICK T \in Selections(views[leader]) :
        certs' = [certs EXCEPT ![leader][x] = [root |-> theta[leader], included |-> T]]
  BY DEF PutCertificate
<1>3. /\ L' = [L EXCEPT ![x] = [root |-> theta[leader], included |-> T]]
      /\ L \in [Windows -> Certificate \cup {NoCert}]
  BY <1>1, <1>2 DEF L, TypeInv, TypeOK
<1>4. L[x] = NoCert /\ StateAt(L, theta[leader], x)
  BY <1>1 DEF LedgerInv, LeaderInv, LeaderBehind, LeaderReplica, HasCert
<1>5. \A w \in Windows : L[w] # NoCert => L'[w] = L[w]
  BY <1>1, <1>3, <1>4
<1>6. HasCert(L', x) /\ L'[x].root = theta[leader]
  <2>1. [root |-> theta[leader], included |-> T] \in Certificate
    BY <1>1, <1>2 DEF Selections, Certificate, TypeInv, TypeOK
  <2> QED
    BY <1>1, <1>3, <2>1, ConstantsAssumption DEF HasCert
<1>7. Chain(L')
  <2> SUFFICES ASSUME NEW w \in Windows, HasCert(L', w) PROVE StateAt(L', L'[w].root, w)
    BY DEF Chain
  <2>1. CASE w = x
    BY <1>4, <1>5, <1>6, <2>1, Growth
  <2>2. CASE w # x
    <3>1. HasCert(L, w) /\ L'[w] = L[w]
      BY <1>1, <1>3, <2>2 DEF HasCert
    <3> QED
      BY <1>5, <3>1, Growth DEF LedgerInv, LeaderInv, Chain
  <2> QED
    BY <2>1, <2>2
<1>8. pc' = [pc EXCEPT ![leader] = "mirror"] /\ UNCHANGED <<window, theta, ckpt, saved, catchup>>
  BY DEF PutCertificate
<1>9. LeaderInv'
  <2>1. pc'[leader'] = "mirror"
    BY <1>1, <1>8 DEF TypeInv, TypeOK
  <2>2. LeaderBehind'
    BY <1>1, <1>5, <1>6, <1>8, <2>1, Growth DEF LedgerInv, LeaderInv, LeaderBehind
  <2>3. LeaderReplica'
    BY <1>1, <1>4, <1>5, <1>8, <2>1, Growth DEF LedgerInv, LeaderInv, LeaderReplica
  <2> QED
    BY <1>7, <2>2, <2>3 DEF LeaderInv
<1>10. AllOnLineage'
  BY <1>5, <1>8, Growth DEF LedgerInv, AllOnLineage
<1>11. LeaderOnly'
  BY <1>1, <1>8 DEF LedgerInv, LeaderOnly, TypeInv, TypeOK
<1> QED
  BY <1>9, <1>10, <1>11 DEF LedgerInv

(* Restarting from windows that are certified, from the state they lead to. *)
LEMMA LedgerRestartLeader ==
  ASSUME TypeInv, LedgerInv, RestartValidator(leader)
  PROVE  LedgerInv'
<1> USE DEF chainVars, bucketVars, diskVars, procVars
<1>1. /\ leader \in Validators /\ leader \in Nodes /\ leader \in Observers
      /\ ckpt[leader] \in Replica /\ saved[leader] \in Windows /\ leader' = leader /\ L' = L
      /\ ckpt[leader].next \in Windows
  BY LeaderKind DEF RestartValidator, L, TypeInv, TypeOK, Replica
<1>2. PICK r \in {InitReplica, ckpt[leader]}, next \in {0, saved[leader], ckpt[leader].next} :
        /\ Resume(leader, r, next)
        /\ r = InitReplica => next = 0
        /\ next >= r.next
  <2>1. CASE saved[leader] = 0 \/ ckpt[leader] = InitReplica
    BY <2>1 DEF RestartValidator, InitReplica
  <2>2. CASE ~(saved[leader] = 0 \/ ckpt[leader] = InitReplica)
    BY <1>1, <2>2 DEF RestartValidator, Later, Windows
  <2> QED
    BY <2>1, <2>2
<1>3. /\ Past(L, next) /\ StateAt(L, r.theta, r.next) /\ OnLineage(L, r.theta)
      /\ r.next \in Windows /\ next \in Windows
  <2>1. Past(L, 0) /\ StateAt(L, InitReplica.theta, InitReplica.next) /\ InitReplica.next = 0
    BY DEF Past, Windows, StateAt, InitReplica
  <2> QED
    BY <1>1, <1>2, <2>1, FirstWindow, StateAtOnLineage DEF LedgerInv, LeaderInv, LeaderBehind, LeaderReplica
<1>4. /\ theta' = [theta EXCEPT ![leader] = r.theta] /\ window' = [window EXCEPT ![leader] = next]
      /\ UNCHANGED <<ckpt, saved>>
  BY <1>2 DEF Resume, RestartValidator
<1>5. /\ pc'[leader] = "idle" /\ next = r.next
      \/ /\ pc'[leader] = "catchup" /\ catchup'[leader].at = r.next /\ catchup'[leader].to = next - 1
  BY <1>1, <1>2, <1>3 DEF Resume, CatchUpFrom, TypeInv, TypeOK, Windows
<1>6. LeaderBehind'
  <2>1. Past(L, (next - 1) + 1)
    BY <1>3, ConstantsAssumption DEF Windows
  <2> QED
    BY <1>1, <1>3, <1>4, <1>5, <2>1 DEF LedgerInv, LeaderInv, LeaderBehind, TypeInv, TypeOK
<1>7. LeaderReplica'
  <2>1. theta'[leader] = r.theta /\ window'[leader] = next
    BY <1>1, <1>4 DEF TypeInv, TypeOK
  <2>2. r.next \in r.next .. (next - 1) + 1
    BY <1>2, <1>3 DEF Windows
  <2> QED
    BY <1>1, <1>3, <1>4, <1>5, <2>1, <2>2 DEF LedgerInv, LeaderInv, LeaderReplica
<1>8. AllOnLineage'
  BY <1>1, <1>3, <1>4, LineageStep
<1>9. LeaderOnly'
  BY <1>1, <1>2 DEF RestartValidator, Resume, CatchUpFrom, LedgerInv, LeaderOnly, TypeInv, TypeOK
<1> QED
  BY <1>1, <1>6, <1>7, <1>8, <1>9 DEF LedgerInv, LeaderInv

(* The other steps of the leader.  Only here does it matter that the leader *)
(* can read back what it published.                                         *)
LEMMA LedgerLeaderStep ==
  ASSUME TypeInv, LedgerInv, ~CertReadsFail,
         ValidatorStep(leader) \/ StopObserver(leader) \/ ProcessWindow(leader) \/ SaveState(leader)
  PROVE  LedgerInv'
<1> USE DEF chainVars, bucketVars, diskVars, procVars
<1>l. /\ leader \in Validators /\ leader \in Nodes /\ leader \in Observers
      /\ window[leader] \in Windows /\ OnLineage(L, theta[leader]) /\ OnLineage(L, InitTheta)
  BY LeaderKind DEF OnLineage, LedgerInv, AllOnLineage, TypeInv, TypeOK
<1>1. CASE RestartValidator(leader)
  BY <1>1, LedgerRestartLeader
<1>2. CASE PutCertificate(leader)
  BY <1>2, LedgerPutCertificate
<1>3. CASE StopObserver(leader)
  <2>1. /\ pc'[leader] = "down" /\ window'[leader] = 0 /\ saved'[leader] = window[leader]
        /\ leader' = leader /\ L' = L /\ UNCHANGED ckpt
    BY <1>3, <1>l DEF StopObserver, GoDown, L, TypeInv, TypeOK
  <2>2. Past(L', 0)
    BY DEF Past, Windows
  <2>3. LeaderInv'
    BY <2>1, <2>2 DEF LedgerInv, LeaderInv, LeaderBehind, LeaderReplica
  <2>4. AllOnLineage'
    BY <1>3, <1>l, <2>1, LineageStep DEF StopObserver, GoDown, LedgerInv, AllOnLineage
  <2>5. LeaderOnly'
    BY <1>3, <1>l DEF StopObserver, GoDown, NoCatchup, LedgerInv, LeaderOnly, TypeInv, TypeOK
  <2> QED
    BY <2>3, <2>4, <2>5 DEF LedgerInv
<1>4. CASE ProcessWindow(leader)
  <2>1. /\ pc[leader] = "idle" /\ UNCHANGED <<window, theta, ckpt, saved, leader, certs>>
        /\ \E then : CatchUpFrom(leader, window[leader], window[leader], then)
    BY <1>4 DEF ProcessWindow
  <2>2. /\ catchup'[leader].lo = window[leader] /\ catchup'[leader].at = window[leader]
        /\ catchup'[leader].to = window[leader]
    BY <1>l, <2>1 DEF CatchUpFrom, TypeInv, TypeOK
  <2>3. \/ pc'[leader] = "certify" /\ ~HasCert(L, window[leader])
        \/ pc'[leader] = "save" /\ HasCert(L, window[leader])
    BY <1>4, <1>l DEF ProcessWindow, HasCert, L, TypeInv, TypeOK
  <2>4. LeaderInv'
    BY <2>1, <2>2, <2>3 DEF LedgerInv, LeaderInv, LeaderBehind, LeaderReplica, L
  <2>5. AllOnLineage'
    BY <2>1 DEF LedgerInv, AllOnLineage, L
  <2>6. LeaderOnly'
    BY <1>4, <1>l DEF ProcessWindow, CatchUpFrom, LedgerInv, LeaderOnly, TypeInv, TypeOK
  <2> QED
    BY <2>4, <2>5, <2>6 DEF LedgerInv
<1>5. CASE PutMirror(leader)
  <2>1. /\ pc[leader] = "mirror" /\ pc'[leader] = "save"
        /\ UNCHANGED <<window, theta, ckpt, saved, catchup, leader, certs>>
    BY <1>5, <1>l DEF PutMirror, TypeInv, TypeOK
  <2>2. LeaderInv'
    BY <2>1 DEF LedgerInv, LeaderInv, LeaderBehind, LeaderReplica, L
  <2>3. AllOnLineage'
    BY <2>1 DEF LedgerInv, AllOnLineage, L
  <2>4. LeaderOnly'
    BY <1>5, <1>l DEF PutMirror, LedgerInv, LeaderOnly, TypeInv, TypeOK
  <2> QED
    BY <2>2, <2>3, <2>4 DEF LedgerInv
<1>6. CASE SaveState(leader)
  <2>1. /\ pc[leader] = "save" /\ pc'[leader] = "catchup"
        /\ window'[leader] = window[leader] + 1 /\ saved'[leader] = window[leader] + 1
        /\ UNCHANGED <<theta, ckpt, catchup, leader, certs>>
    BY <1>6, <1>l DEF SaveState, TypeInv, TypeOK
  <2>2. Past(L, window[leader] + 1)
    BY <1>l, <2>1 DEF LedgerInv, LeaderInv, LeaderBehind, Past, Windows
  <2>3. LeaderBehind'
    BY <2>1, <2>2 DEF LedgerInv, LeaderInv, LeaderBehind, L
  <2>4. window[leader] \in window[leader] .. window[leader] + 1
    BY <1>l DEF Windows
  <2>5. LeaderReplica'
    BY <2>1, <2>4 DEF LedgerInv, LeaderInv, LeaderBehind, LeaderReplica, L
  <2>6. AllOnLineage'
    BY <2>1 DEF LedgerInv, AllOnLineage, L
  <2>7. LeaderOnly'
    BY <1>6, <1>l DEF SaveState, LedgerInv, LeaderOnly, TypeInv, TypeOK
  <2> QED
    BY <2>1, <2>3, <2>5, <2>6, <2>7 DEF LedgerInv, LeaderInv, L
<1>7. CASE LeaderCheckpoint(leader)
  <2>1. /\ pc[leader] = "checkpoint" /\ pc'[leader] = "idle"
        /\ UNCHANGED <<window, theta, saved, catchup, leader, certs>>
    BY <1>7, <1>l DEF LeaderCheckpoint, TypeInv, TypeOK
  <2> DEFINE r == [next |-> window[leader], theta |-> theta[leader]]
  <2>2. ckpt' = [ckpt EXCEPT ![leader] = r] \/ UNCHANGED ckpt
    BY <1>7, SaveCheckpointWrites DEF LeaderCheckpoint
  <2>3. ckpt'[leader] = r \/ ckpt'[leader] = ckpt[leader]
    BY <1>l, <2>2 DEF TypeInv, TypeOK
  <2>4. r.next = window[leader] /\ r.theta = theta[leader]
    OBVIOUS
  <2> HIDE DEF r
  <2>5. LeaderInv'
    BY <2>1, <2>3, <2>4 DEF LedgerInv, LeaderInv, LeaderBehind, LeaderReplica, L
  <2>6. AllOnLineage'
    BY <1>l, <2>1, <2>2, <2>4, LineageStep DEF L
  <2>7. LeaderOnly'
    BY <1>7, <1>l DEF LeaderCheckpoint, LedgerInv, LeaderOnly, TypeInv, TypeOK
  <2> QED
    BY <2>5, <2>6, <2>7 DEF LedgerInv
<1>8. ~SkipAhead(leader)
  BY DEF SkipAhead
<1> QED
  BY <1>1, <1>2, <1>3, <1>4, <1>5, <1>6, <1>7, <1>8 DEF ValidatorStep

(* A retry, of the leader or of any other node, forgets only how far the    *)
(* attempt had come.                                                        *)
LEMMA LedgerRetry ==
  ASSUME TypeInv, LedgerInv, NEW n \in Nodes, Retry(n), pc[n] = "catchup",
         UNCHANGED <<chainVars, certs, diskVars>>
  PROVE  LedgerInv'
<1> USE DEF chainVars, diskVars
<1>1. /\ leader \in Nodes /\ leader \in Observers
      /\ UNCHANGED <<pc, window, theta, ckpt, saved, leader, certs>>
      /\ \A k \in Nodes : /\ catchup'[k].to = catchup[k].to /\ catchup'[k].then = catchup[k].then
                          /\ k # n => catchup'[k] = catchup[k]
      /\ catchup'[n].at = catchup[n].lo
  BY LeaderKind DEF Retry, TypeInv, TypeOK, Catchup
<1>2. \A k \in Nodes : catchup[k].lo <= catchup[k].at /\ catchup[k].at \in Int /\ catchup[k].to \in Int
                       /\ catchup[k].lo \in Int
  BY DEF TypeInv, TypeOK, Bounds, Catchup, Windows
<1>3. \A k \in Nodes : catchup'[k].at \in Int /\ catchup'[k].at <= catchup[k].at
  BY <1>1, <1>2
<1>4. LeaderOnly' /\ AllOnLineage'
  BY <1>1 DEF LedgerInv, LeaderOnly, AllOnLineage, L
<1>5. LeaderBehind'
  <2>1. CASE leader = n
    BY <1>1, <2>1 DEF LedgerInv, LeaderInv, LeaderBehind, L
  <2>2. CASE leader # n
    BY <1>1, <2>2 DEF LedgerInv, LeaderInv, LeaderBehind, L
  <2> QED
    BY <2>1, <2>2
<1>6. LeaderReplica'
  <2>1. catchup[leader].at .. catchup[leader].to + 1 \subseteq catchup'[leader].at .. catchup'[leader].to + 1
    BY <1>1, <1>2, <1>3
  <2> QED
    BY <1>1, <2>1 DEF LedgerInv, LeaderInv, LeaderReplica, L
<1> QED
  BY <1>1, <1>4, <1>5, <1>6 DEF LedgerInv, LeaderInv, L

(* The leader replays certified windows only, and each from its root, so    *)
(* what it holds after window w is what the certificate of w leads to, even *)
(* when the attempt before had come further.                                *)
LEMMA LedgerCatchUpStep ==
  ASSUME TypeInv, LedgerInv, NEW n \in Nodes, CatchUpStep(n)
  PROVE  LedgerInv'
<1> USE DEF chainVars, bucketVars, diskVars, procVars, AtWindow, Replaying
<1>n. /\ leader \in Nodes /\ leader \in Observers /\ leader \in Validators
      /\ catchup[n].at \in Windows /\ catchup[n].to \in Int
      /\ OnLineage(L, ckpt[n].theta)
  BY LeaderKind DEF LedgerInv, AllOnLineage, TypeInv, TypeOK, Catchup, Windows
<1>1. CASE CatchUpApply(n)
  <2> DEFINE w == catchup[n].at
             after == OuterStep(theta[n], w, Cert(w).included)
  <2>1. /\ pc[n] = "catchup" /\ w <= catchup[n].to /\ Certified(w) /\ Cert(w).root = theta[n]
        /\ theta' = [theta EXCEPT ![n] = after]
        /\ catchup' = [catchup EXCEPT ![n].at = w + 1]
        /\ UNCHANGED <<leader, certs, pc, window, ckpt, saved>>
    BY <1>1 DEF CatchUpApply
  <2>2. HasCert(L, w) /\ after = Leads(L, w) /\ OnLineage(L, after)
    BY <2>1, OuterStepLeads
  <2>3. AllOnLineage'
    BY <1>n, <2>1, <2>2, LineageStep DEF L
  <2>4. \A k \in Nodes : /\ catchup'[k].to = catchup[k].to /\ catchup'[k].then = catchup[k].then
                        /\ k # n => catchup'[k] = catchup[k]
    BY <2>1 DEF TypeInv, TypeOK, Catchup
  <2>5. catchup'[n].at = w + 1 /\ theta'[n] = after
    BY <2>1 DEF TypeInv, TypeOK, Catchup
  <2>6. LeaderOnly'
    BY <2>1, <2>4 DEF LedgerInv, LeaderOnly
  <2>7. CASE n = leader
    <3>1. StateAt(L, after, w + 1) /\ w + 1 \in w + 1 .. catchup[n].to + 1
      BY <1>n, <2>1, <2>2 DEF StateAt, Windows
    <3> HIDE DEF w, after
    <3>2. LeaderReplica'
      BY <2>1, <2>4, <2>5, <2>7, <3>1 DEF LedgerInv, LeaderInv, LeaderReplica, L
    <3>3. LeaderBehind'
      BY <2>1, <2>4, <2>7 DEF LedgerInv, LeaderInv, LeaderBehind, L
    <3> QED
      BY <2>1, <2>3, <2>6, <3>2, <3>3 DEF LedgerInv, LeaderInv, L
  <2>8. CASE n # leader
    <3>1. UNCHANGED LeaderSlice
      BY <1>n, <2>1, <2>4, <2>8 DEF LeaderSlice, L, TypeInv, TypeOK
    <3> QED
      BY <2>3, <2>6, <3>1, SliceFrame DEF LedgerInv
  <2> QED
    BY <2>7, <2>8
<1>2. CASE CatchUpEmpty(n)
  <2> DEFINE w == catchup[n].at
  <2>1. /\ pc[n] = "catchup" /\ w <= catchup[n].to /\ ~Certified(w)
        /\ catchup' = [catchup EXCEPT ![n].at = w + 1]
        /\ UNCHANGED <<leader, certs, pc, window, theta, ckpt, saved>>
    BY <1>2 DEF CatchUpEmpty
  <2>2. n # leader
    <3> SUFFICES ASSUME n = leader PROVE FALSE
      OBVIOUS
    <3>1. HasCert(L, w)
      BY <1>n, <2>1 DEF LedgerInv, LeaderInv, LeaderBehind, Past, Windows
    <3> QED
      BY <2>1, <3>1 DEF HasCert, Certified, Cert, L
  <2>3. LeaderOnly' /\ AllOnLineage'
    BY <2>1 DEF LedgerInv, LeaderOnly, AllOnLineage, L, TypeInv, TypeOK, Catchup
  <2>4. UNCHANGED LeaderSlice
    BY <1>n, <2>1, <2>2 DEF LeaderSlice, L, TypeInv, TypeOK
  <2> QED
    BY <2>3, <2>4, SliceFrame DEF LedgerInv
<1>3. CASE CatchUpPending(n) \/ CatchUpError(n) \/ CatchUpIOError(n)
  <2>1. /\ pc[n] = "catchup"
        /\ GoDown(n) \/ Retry(n)
        /\ UNCHANGED <<chainVars, certs, diskVars>>
    BY <1>3 DEF CatchUpPending, CatchUpError, CatchUpIOError
  <2> QED
    BY <2>1, LedgerGoDown, LedgerRetry
<1>4. CASE CatchUpDone(n)
  <2> DEFINE x == catchup[n].to + 1
  <2>1. /\ pc[n] = "catchup" /\ catchup[n].at = x
        /\ window' = [window EXCEPT ![n] = x]
        /\ pc' = [pc EXCEPT ![n] = catchup[n].then]
        /\ catchup' = [catchup EXCEPT ![n] = NoCatchup]
        /\ UNCHANGED <<leader, certs, theta, ckpt, saved>>
    BY <1>4 DEF CatchUpDone
  <2>2. catchup[n].then \in {"idle", "checkpoint"}
    BY DEF TypeInv, TypeOK, Catchup
  <2>3. AllOnLineage'
    BY <2>1 DEF LedgerInv, AllOnLineage, L
  <2>4. LeaderOnly'
    BY <2>1, <2>2 DEF NoCatchup, LedgerInv, LeaderOnly, TypeInv, TypeOK
  <2>5. CASE n = leader
    <3>1. Past(L, x) /\ StateAt(L, theta[leader], x)
      BY <1>n, <2>1, <2>5 DEF LedgerInv, LeaderInv, LeaderBehind, LeaderReplica, Windows
    <3>2. window'[leader] = x /\ pc'[leader] \in {"idle", "checkpoint"}
      BY <1>n, <2>1, <2>2, <2>5 DEF TypeInv, TypeOK
    <3> HIDE DEF x
    <3> QED
      BY <2>1, <2>3, <2>4, <3>1, <3>2 DEF LedgerInv, LeaderInv, LeaderBehind, LeaderReplica, L
  <2>6. CASE n # leader
    <3>1. UNCHANGED LeaderSlice
      BY <1>n, <2>1, <2>6 DEF LeaderSlice, L, TypeInv, TypeOK
    <3> QED
      BY <2>3, <2>4, <3>1, SliceFrame DEF LedgerInv
  <2> QED
    BY <2>5, <2>6
<1> QED
  BY <1>1, <1>2, <1>3, <1>4 DEF CatchUpStep

(* LedgerInv is inductive when the leader can read back its certificates.   *)
LEMMA LedgerStep ==
  ASSUME ~CertReadsFail
  PROVE  TypeInv /\ LedgerInv /\ [Next]_vars => LedgerInv'
<1> SUFFICES ASSUME TypeInv, LedgerInv, [Next]_vars PROVE LedgerInv'
  OBVIOUS
<1> USE DEF chainVars, bucketVars, diskVars, procVars
<1>1. CASE Tick \/ UNCHANGED vars
  <2>1. UNCHANGED <<leader, certs, window, saved, ckpt, pc, catchup, theta>>
    BY <1>1 DEF Tick, vars
  <2> QED
    BY <2>1, SliceFrame DEF LeaderSlice, LedgerInv, LeaderOnly, AllOnLineage, L
<1>2. ASSUME NEW m \in Miners, MinerStep(m) PROVE LedgerInv'
  BY <1>2, LedgerMinerStep
<1>3. ASSUME NEW v \in Validators, ValidatorStep(v) PROVE LedgerInv'
  BY <1>3, NodeKinds, LedgerFollowerStep, LedgerLeaderStep
<1>4. ASSUME NEW a \in Auditors, RestartAuditor(a) PROVE LedgerInv'
  BY <1>4, NodeKinds, LeaderKind, LedgerFollowerStep
<1>5. ASSUME NEW o \in Observers, StopObserver(o) \/ ProcessWindow(o) \/ SaveState(o) PROVE LedgerInv'
  BY <1>5, LedgerFollowerStep, LedgerLeaderStep
<1>6. ASSUME NEW n \in Nodes, CatchUpStep(n) PROVE LedgerInv'
  BY <1>6, LedgerCatchUpStep
<1>7. ASSUME NEW n \in Nodes, Crash(n) PROVE LedgerInv'
  BY <1>7, LedgerGoDown DEF Crash
<1> QED
  BY <1>1, <1>2, <1>3, <1>4, <1>5, <1>6, <1>7 DEF Next

(* The certificates form one lineage from theta_init, whatever crashes      *)
(* between publishing, saving and applying, as long as the leader can read  *)
(* what it published.                                                       *)
THEOREM ChainCorrect ==
  ASSUME ~CertReadsFail
  PROVE  Spec => []CertificateChain
<1>1. TypeInv /\ LedgerInv => CertificateChain
  BY LedgerMeaning
<1> QED
  BY TypeInit, TypeStep, LedgerInit, LedgerStep, <1>1, PTL DEF Spec

(* No replica ever leaves the lineage: catch-up and live windows apply a    *)
(* certified step to the state it starts from, or none.                     *)
THEOREM LineageCorrect ==
  ASSUME ~CertReadsFail
  PROVE  Spec => []OnCertifiedLineage
<1>1. TypeInv /\ LedgerInv => OnCertifiedLineage
  BY LedgerMeaning
<1> QED
  BY TypeInit, TypeStep, LedgerInit, LedgerStep, <1>1, PTL DEF Spec

(* Only PutCertificate writes a certificate, and only the leader's.         *)
LEMMA ImmutableStep ==
  ASSUME TypeInv, LedgerInv, [Next]_vars
  PROVE  \A v \in Validators, w \in Windows : certs[v][w] # NoCert => certs'[v][w] = certs[v][w]
<1> USE DEF chainVars, bucketVars, diskVars, procVars
<1>1. ASSUME NEW u \in Validators, PutCertificate(u)
      PROVE  \A v \in Validators, w \in Windows : certs[v][w] # NoCert => certs'[v][w] = certs[v][w]
  <2>1. u = leader /\ window[u] \in Windows /\ certs[u][window[u]] = NoCert
    BY <1>1, NodeKinds
    DEF PutCertificate, LedgerInv, LeaderOnly, LeaderInv, LeaderBehind, HasCert, L, TypeInv, TypeOK
  <2>2. \E c : certs' = [certs EXCEPT ![u][window[u]] = c]
    BY <1>1 DEF PutCertificate
  <2> QED
    BY <2>1, <2>2 DEF TypeInv, TypeOK
<1>2. ASSUME \A u \in Validators : ~PutCertificate(u)
      PROVE  UNCHANGED certs
  <2>1. ASSUME NEW m \in Miners, MinerStep(m) PROVE UNCHANGED certs
    BY <2>1 DEF MinerStep, RestartMiner, GracefulStop, StartWindow, CheckGate, CommitWindow,
                UploadPayload, ApplyLive, Desync, Recover
  <2>2. ASSUME NEW n \in Nodes, CatchUpStep(n) PROVE UNCHANGED certs
    BY <2>2 DEF CatchUpStep, CatchUpApply, CatchUpEmpty, CatchUpPending, CatchUpError,
                CatchUpIOError, CatchUpDone
  <2>3. ASSUME NEW v \in Validators, ValidatorStep(v) PROVE UNCHANGED certs
    BY <1>2, <2>3 DEF ValidatorStep, RestartValidator, SkipAhead, PutMirror, LeaderCheckpoint
  <2> QED
    BY <2>1, <2>2, <2>3
    DEF Next, Tick, RestartAuditor, StopObserver, ProcessWindow, SaveState, Crash, vars
<1> QED
  BY <1>1, <1>2

(* A published certificate never changes, as long as the leader can read it *)
(* back after a crash.                                                      *)
THEOREM ImmutabilityCorrect ==
  ASSUME ~CertReadsFail
  PROVE  Spec => CertificatesImmutable
<1> DEFINE Kept == \A v \in Validators, w \in Windows : certs[v][w] # NoCert => certs'[v][w] = certs[v][w]
<1>1. TypeInv /\ LedgerInv /\ [Next]_vars => [Kept]_vars
  BY ImmutableStep
<1> QED
  BY TypeInit, TypeStep, LedgerInit, LedgerStep, <1>1, PTL DEF Spec, CertificatesImmutable

-----------------------------------------------------------------------------
(***************************************************************************)
(* The log.  The certified windows are the first k of them; this is its    *)
(* own invariant because the chain only relates neighbours.                *)
(***************************************************************************)
FirstWindows(c, k) == \A w \in Windows : HasCert(c, w) <=> w < k

Unbroken == \E k \in 0 .. MaxWindow + 1 : FirstWindows(L, k)

LEMMA UnbrokenInit == Init => Unbroken
<1> SUFFICES ASSUME Init PROVE Unbroken
  OBVIOUS
<1>1. \A w : ~HasCert(L, w)
  BY ConstantsAssumption DEF Init, HasCert, L
<1>2. FirstWindows(L, 0) /\ 0 \in 0 .. MaxWindow + 1
  BY <1>1, ConstantsAssumption DEF FirstWindows, Windows
<1> QED
  BY <1>2 DEF Unbroken

(* Only PutCertificate, which is the leader's, writes a certificate. *)
LEMMA OnlyPutCertificate ==
  ASSUME [Next]_vars, \A u \in Validators : ~PutCertificate(u)
  PROVE  UNCHANGED <<certs, leader>>
<1> USE DEF chainVars, bucketVars, diskVars, procVars
<1>1. ASSUME NEW m \in Miners, MinerStep(m) PROVE UNCHANGED <<certs, leader>>
  BY <1>1 DEF MinerStep, RestartMiner, GracefulStop, StartWindow, CheckGate, CommitWindow,
              UploadPayload, ApplyLive, Desync, Recover
<1>2. ASSUME NEW n \in Nodes, CatchUpStep(n) PROVE UNCHANGED <<certs, leader>>
  BY <1>2 DEF CatchUpStep, CatchUpApply, CatchUpEmpty, CatchUpPending, CatchUpError,
              CatchUpIOError, CatchUpDone
<1>3. ASSUME NEW v \in Validators, ValidatorStep(v) PROVE UNCHANGED <<certs, leader>>
  BY <1>3 DEF ValidatorStep, RestartValidator, SkipAhead, PutMirror, LeaderCheckpoint
<1> QED
  BY <1>1, <1>2, <1>3
  DEF Next, Tick, RestartAuditor, StopObserver, ProcessWindow, SaveState, Crash, vars

(* A certificate is for the first window that has none, and leaves the      *)
(* others as they are.                                                      *)
LEMMA NextCertificate ==
  ASSUME TypeInv, LedgerInv, NEW u \in Validators, PutCertificate(u),
         NEW k \in 0 .. MaxWindow + 1, FirstWindows(L, k)
  PROVE  /\ k \in Windows /\ leader' = leader
         /\ \A w \in Windows : w # k => L'[w] = L[w]
         /\ HasCert(L', k)
         /\ FirstWindows(L', k + 1)
<1> DEFINE x == window[u]
<1>1. /\ u = leader /\ x \in Windows /\ L[x] = NoCert /\ Past(L, x)
      /\ UNCHANGED leader
  BY NodeKinds DEF PutCertificate, LedgerInv, LeaderOnly, LeaderInv, LeaderBehind, HasCert, L,
                   TypeInv, TypeOK, chainVars
<1>2. PICK T \in Selections(views[u]) :
        certs' = [certs EXCEPT ![u][x] = [root |-> theta[u], included |-> T]]
  BY DEF PutCertificate
<1>3. [root |-> theta[u], included |-> T] \in Certificate
  BY <1>1, <1>2, LeaderKind DEF Selections, Certificate, TypeInv, TypeOK
<1>4. /\ L'[x] = [root |-> theta[u], included |-> T]
      /\ \A w \in Windows : w # x => L'[w] = L[w]
  BY <1>1, <1>2, LeaderKind DEF L, TypeInv, TypeOK
<1>5. HasCert(L', x)
  BY <1>1, <1>3, <1>4, ConstantsAssumption DEF HasCert
<1> HIDE DEF x
<1>6. k = x
  <2>1. ~(x < k)
    BY <1>1 DEF FirstWindows, HasCert
  <2>2. ~(k < x)
    <3> SUFFICES ASSUME k < x PROVE FALSE
      OBVIOUS
    <3>1. k \in Windows
      BY <1>1, ConstantsAssumption DEF Windows
    <3>2. HasCert(L, k) /\ k \in Int
      BY <1>1, <3>1 DEF Past, Windows
    <3> QED
      BY <3>1, <3>2 DEF FirstWindows
  <2> QED
    BY <1>1, <2>1, <2>2 DEF Windows
<1>7. FirstWindows(L', k + 1)
  <2> SUFFICES ASSUME NEW w \in Windows PROVE HasCert(L', w) <=> w < k + 1
    BY DEF FirstWindows
  <2>1. CASE w = x
    BY <1>1, <1>5, <1>6, <2>1 DEF Windows
  <2>2. CASE w # x
    <3>1. HasCert(L', w) <=> HasCert(L, w)
      BY <1>4, <2>2 DEF HasCert
    <3> QED
      BY <1>1, <1>6, <2>2, <3>1 DEF FirstWindows, Windows
  <2> QED
    BY <2>1, <2>2
<1> QED
  BY <1>1, <1>4, <1>5, <1>6, <1>7

LEMMA UnbrokenStep == TypeInv /\ LedgerInv /\ Unbroken /\ [Next]_vars => Unbroken'
<1> SUFFICES ASSUME TypeInv, LedgerInv, Unbroken, [Next]_vars PROVE Unbroken'
  OBVIOUS
<1>1. PICK k \in 0 .. MaxWindow + 1 : FirstWindows(L, k)
  BY DEF Unbroken
<1>2. ASSUME NEW u \in Validators, PutCertificate(u) PROVE Unbroken'
  <2>1. k \in Windows /\ FirstWindows(L', k + 1)
    BY <1>1, <1>2, NextCertificate
  <2>2. k + 1 \in 0 .. MaxWindow + 1
    BY <2>1, ConstantsAssumption DEF Windows
  <2> QED
    BY <2>1, <2>2 DEF Unbroken
<1>3. CASE \A u \in Validators : ~PutCertificate(u)
  <2>1. L' = L
    BY <1>3, OnlyPutCertificate DEF L
  <2> QED
    BY <1>1, <2>1 DEF Unbroken
<1> QED
  BY <1>2, <1>3

(* Their number is where the certificates end. *)
LEMMA CertificateCount ==
  ASSUME NEW c, NEW k \in 0 .. MaxWindow + 1, FirstWindows(c, k)
  PROVE  Cardinality({w \in Windows : HasCert(c, w)}) = k
<1> DEFINE P == {w \in Windows : HasCert(c, w)}
<1>1. P = 0 .. k - 1
  BY ConstantsAssumption DEF FirstWindows, HasCert, Windows
<1>2. k \in Nat /\ 0 \in Int /\ k - 1 \in Int
  BY ConstantsAssumption
<1>3. Cardinality(0 .. k - 1) = IF 0 > k - 1 THEN 0 ELSE (k - 1) - 0 + 1
  BY <1>2, FS_Interval
<1> HIDE DEF P
<1>4. Cardinality(P) = k
  BY <1>1, <1>2, <1>3
<1> QED
  BY <1>4 DEF P

(* The log has theta_init, and one entry per certified window. *)
LEMMA LogShape ==
  ASSUME NEW k \in 0 .. MaxWindow + 1, FirstWindows(L, k)
  PROVE  Lineage = [i \in 1 .. k + 1 |-> IF i = 1 THEN InitTheta ELSE Leads(L, i - 2)]
<1>1. Cardinality({w \in Windows : Certified(w)}) = k
  BY CertificateCount DEF Certified, Cert, HasCert, L
<1>2. \A w : After(w) = Leads(L, w)
  BY DEF After, Cert, Leads, L
<1> QED
  BY <1>1, <1>2 DEF Lineage

LEMMA LogLength ==
  ASSUME NEW k \in 0 .. MaxWindow + 1, NEW c, NEW s,
         s = [i \in 1 .. k + 1 |-> IF i = 1 THEN InitTheta ELSE Leads(c, i - 2)]
  PROVE  /\ Len(s) = k + 1
         /\ s[1] = InitTheta
         /\ \A w \in Windows : w < k => s[w + 2] = Leads(c, w)
<1>1. k \in Nat
  BY ConstantsAssumption
<1> DEFINE R == {s[i] : i \in 1 .. k + 1}
<1>2. s \in [1 .. k + 1 -> R]
  OBVIOUS
<1>3. s \in Seq(R) /\ Len(s) = k + 1
  BY <1>1, <1>2
<1>4. \A w \in Windows : w < k => s[w + 2] = Leads(c, w)
  BY <1>1 DEF Windows
<1>5. s[1] = InitTheta
  BY <1>1
<1> HIDE DEF R
<1> QED
  BY <1>3, <1>4, <1>5

(* A replica on the lineage holds an entry of the log. *)
LEMMA EntryOfLog ==
  ASSUME Unbroken, NEW t, OnLineage(L, t)
  PROVE  \E i \in 1 .. Len(Lineage) : t = Lineage[i]
<1>1. PICK k \in 0 .. MaxWindow + 1 : FirstWindows(L, k)
  BY DEF Unbroken
<1>2. /\ Len(Lineage) = k + 1 /\ Lineage[1] = InitTheta
      /\ \A w \in Windows : w < k => Lineage[w + 2] = Leads(L, w)
  <2>1. Lineage = [i \in 1 .. k + 1 |-> IF i = 1 THEN InitTheta ELSE Leads(L, i - 2)]
    BY <1>1, LogShape
  <2> QED
    BY <2>1, LogLength
<1>3. CASE t = InitTheta
  BY <1>2, <1>3, ConstantsAssumption
<1>4. ASSUME NEW w \in Windows, HasCert(L, w), t = Leads(L, w)
      PROVE  \E i \in 1 .. Len(Lineage) : t = Lineage[i]
  <2>1. w < k
    BY <1>1, <1>4 DEF FirstWindows
  <2>2. w + 2 \in 1 .. Len(Lineage)
    BY <1>2, <2>1, ConstantsAssumption DEF Windows
  <2> QED
    BY <1>2, <1>4, <2>1, <2>2
<1> QED
  BY <1>3, <1>4 DEF OnLineage

(* The outer step of a certified window leads from one entry to the next.   *)
LEMMA NextEntryOfLog ==
  ASSUME LedgerInv, Unbroken, NEW w, Certified(w)
  PROVE  \E i \in 1 .. Len(Lineage) - 1 :
           Lineage[i] = Cert(w).root /\ Lineage[i + 1] = Leads(L, w)
<1>1. PICK k \in 0 .. MaxWindow + 1 : FirstWindows(L, k)
  BY DEF Unbroken
<1>2. /\ Len(Lineage) = k + 1 /\ Lineage[1] = InitTheta
      /\ \A v \in Windows : v < k => Lineage[v + 2] = Leads(L, v)
  <2>1. Lineage = [i \in 1 .. k + 1 |-> IF i = 1 THEN InitTheta ELSE Leads(L, i - 2)]
    BY <1>1, LogShape
  <2> QED
    BY <2>1, LogLength
<1>3. /\ HasCert(L, w) /\ w \in Windows /\ Cert(w) = L[w] /\ StateAt(L, L[w].root, w)
  BY DEF Certified, Cert, HasCert, L, LedgerInv, LeaderInv, Chain
<1>4. w < k /\ w + 1 \in 1 .. Len(Lineage) - 1
  BY <1>1, <1>2, <1>3, ConstantsAssumption DEF FirstWindows, Windows
<1>5. Lineage[w + 1] = L[w].root
  <2>1. CASE w = 0
    BY <1>2, <1>3, <2>1 DEF StateAt
  <2>2. CASE w # 0
    <3>1. w - 1 \in Windows /\ w - 1 < k /\ (w - 1) + 2 = w + 1
      BY <1>3, <1>4, <2>2, ConstantsAssumption DEF Windows
    <3> QED
      BY <1>2, <1>3, <2>2, <3>1 DEF StateAt
  <2> QED
    BY <2>1, <2>2
<1>6. Lineage[(w + 1) + 1] = Leads(L, w)
  BY <1>2, <1>3, <1>4, ConstantsAssumption DEF Windows
<1> QED
  BY <1>3, <1>4, <1>5, <1>6

-----------------------------------------------------------------------------
(***************************************************************************)
(* The kinds of steps, and the step of the log each of them is.            *)
(***************************************************************************)
Up == [n \in Nodes |-> pc[n] # "down"]

(* Nothing a reader of the log sees: no certificate, no outer step, and     *)
(* every process is up that was.                                            *)
LEMMA Stutters ==
  ASSUME UNCHANGED <<certs, leader, theta>>,
         \A n \in Nodes : pc'[n] = "down" <=> pc[n] = "down"
  PROVE  UNCHANGED Log!logVars
<1>1. UNCHANGED Lineage
  BY DEF Lineage, Certified, After, Cert
<1>2. UNCHANGED Up
  BY DEF Up
<1> QED
  BY <1>1, <1>2 DEF Log!logVars, Up

(* A process that goes down fails. *)
LEMMA Fails ==
  ASSUME TypeInv, NEW n \in Nodes, pc[n] # "down", GoDown(n), UNCHANGED <<certs, leader>>
  PROVE  Log!Fail(n)
<1>1. UNCHANGED Lineage
  BY DEF Lineage, Certified, After, Cert
<1>2. Up[n] /\ Up' = [Up EXCEPT ![n] = FALSE]
  BY DEF Up, GoDown, TypeInv, TypeOK
<1> QED
  BY <1>1, <1>2 DEF Log!Fail, Up, GoDown

(* A restart rejoins, from a checkpoint that is on the lineage. *)
LEMMA Rejoins ==
  ASSUME TypeInv, Unbroken, NEW n \in Nodes, NEW t, OnLineage(L, t), pc[n] = "down",
         \E q \in {"idle", "catchup"} : pc' = [pc EXCEPT ![n] = q],
         theta' = [theta EXCEPT ![n] = t], UNCHANGED <<certs, leader>>
  PROVE  Log!Rejoin(n)
<1>1. UNCHANGED Lineage
  BY DEF Lineage, Certified, After, Cert
<1>2. ~Up[n] /\ Up' = [Up EXCEPT ![n] = TRUE]
  BY DEF Up, TypeInv, TypeOK
<1>3. \E i \in 1 .. Len(Lineage) : theta' = [theta EXCEPT ![n] = Lineage[i]]
  BY EntryOfLog
<1> QED
  BY <1>1, <1>2, <1>3 DEF Log!Rejoin, Up

(* A certified outer step on the state it starts from advances. *)
LEMMA Advances ==
  ASSUME TypeInv, LedgerInv, Unbroken, NEW n \in Nodes, NEW w, Certified(w),
         Cert(w).root = theta[n], pc[n] # "down",
         \A k \in Nodes : pc'[k] = "down" <=> pc[k] = "down",
         theta' = [theta EXCEPT ![n] = OuterStep(theta[n], w, Cert(w).included)],
         UNCHANGED <<certs, leader>>
  PROVE  Log!Advance(n)
<1>1. UNCHANGED Lineage
  BY DEF Lineage, Certified, After, Cert
<1>2. Up[n] /\ UNCHANGED Up
  BY DEF Up
<1>3. theta' = [theta EXCEPT ![n] = Leads(L, w)]
  BY OuterStepLeads
<1>4. PICK i \in 1 .. Len(Lineage) - 1 : Lineage[i] = theta[n] /\ Lineage[i + 1] = Leads(L, w)
  BY NextEntryOfLog
<1> QED
  BY <1>1, <1>2, <1>3, <1>4 DEF Log!Advance, Up

(* A certificate publishes the next entry. *)
LEMMA Publishes ==
  ASSUME TypeInv, LedgerInv, Unbroken, NEW u \in Validators, PutCertificate(u)
  PROVE  Log!Publish
<1>1. PICK k \in 0 .. MaxWindow + 1 : FirstWindows(L, k)
  BY DEF Unbroken
<1>2. /\ k \in Windows /\ leader' = leader
      /\ \A w \in Windows : w # k => L'[w] = L[w]
      /\ FirstWindows(L', k + 1)
  BY <1>1, NextCertificate
<1> DEFINE Entry(c, i) == IF i = 1 THEN InitTheta ELSE Leads(c, i - 2)
<1>3. k \in Nat /\ k + 1 \in 0 .. MaxWindow + 1
  BY <1>2, ConstantsAssumption DEF Windows
<1>4. Lineage = [i \in 1 .. k + 1 |-> Entry(L, i)] /\ Len(Lineage) = k + 1
  BY <1>1, LogShape, LogLength
<1>5. Lineage' = [i \in 1 .. k + 2 |-> Entry(L', i)] /\ Len(Lineage') = k + 2
  <2>1. Lineage' = [i \in 1 .. (k + 1) + 1 |-> Entry(L', i)]
    <3>1. Cardinality({w \in Windows : HasCert(L', w)}) = k + 1
      BY <1>2, <1>3, CertificateCount
    <3>2. /\ \A w : Certified(w)' <=> HasCert(L', w)
          /\ \A w : After(w)' = Leads(L', w)
      BY DEF Certified, Cert, HasCert, After, Leads, L
    <3> QED
      BY <3>1, <3>2 DEF Lineage
  <2> QED
    BY <1>3, <2>1, LogLength
<1>6. \A i \in 1 .. k + 1 : Entry(L', i) = Entry(L, i)
  <2> SUFFICES ASSUME NEW i \in 1 .. k + 1, i # 1 PROVE Leads(L', i - 2) = Leads(L, i - 2)
    OBVIOUS
  <2>1. i - 2 \in Windows /\ i - 2 # k
    BY <1>2, <1>3, ConstantsAssumption DEF Windows
  <2> QED
    BY <1>2, <2>1 DEF Leads
<1>7. Lineage' = Append(Lineage, Lineage'[Len(Lineage')])
  <2> HIDE DEF Entry
  <2> DEFINE R == {Lineage[i] : i \in 1 .. k + 1}
  <2>1. Lineage \in Seq(R)
    BY <1>3, <1>4
  <2>2. Append(Lineage, Lineage'[k + 2]) =
          [i \in 1 .. k + 2 |-> IF i = k + 2 THEN Lineage'[k + 2] ELSE Lineage[i]]
    <3> HIDE DEF R
    <3> QED
      BY <1>3, <1>4, <2>1
  <2>3. \A i \in 1 .. k + 2 : Lineage'[i] = IF i = k + 2 THEN Lineage'[k + 2] ELSE Lineage[i]
    BY <1>3, <1>4, <1>5, <1>6
  <2> QED
    BY <1>5, <2>2, <2>3
<1>8. UNCHANGED theta /\ UNCHANGED Up
  BY DEF PutCertificate, procVars, Up, TypeInv, TypeOK
<1> QED
  BY <1>7, <1>8 DEF Log!Publish, Up

-----------------------------------------------------------------------------
(***************************************************************************)
(* The refinement.                                                         *)
(***************************************************************************)
LogStep == [Log!LogNext]_Log!logVars

(* The steps of a miner. *)
LEMMA MinerRefines ==
  ASSUME TypeInv, LedgerInv, Unbroken, NEW m \in Miners, MinerStep(m)
  PROVE  LogStep
<1> USE DEF chainVars, bucketVars, diskVars, procVars
<1>m. m \in Nodes
  BY NodeKinds
<1>1. CASE RestartMiner(m)
  <2>1. /\ theta' = [theta EXCEPT ![m] = Materialized(m).theta]
        /\ \E q \in {"idle", "catchup"} : pc' = [pc EXCEPT ![m] = q]
    BY <1>1 DEF RestartMiner, Resume
  <2> QED
    BY <1>m, <1>1, <2>1, Rejoins, MaterializedOnLineage DEF RestartMiner, LogStep, Log!LogNext
<1>2. CASE GracefulStop(m)
  BY <1>m, <1>2, Fails DEF GracefulStop, LogStep, Log!LogNext
<1>3. CASE StartWindow(m) \/ CheckGate(m) \/ CommitWindow(m) \/ UploadPayload(m) \/ Desync(m) \/ Recover(m)
  <2>1. UNCHANGED <<leader, certs, theta>> /\ pc[m] # "down"
    BY <1>3 DEF StartWindow, CheckGate, CommitWindow, UploadPayload, Desync, Recover
  <2>2. \E q \in PC \ {"down"} : pc' = [pc EXCEPT ![m] = q]
    BY <1>3 DEF StartWindow, CheckGate, CommitWindow, UploadPayload, Desync, Recover, PC, MinerPC
  <2> QED
    BY <1>m, <2>1, <2>2, Stutters DEF LogStep, TypeInv, TypeOK
<1>4. CASE ApplyLive(m)
  <2>1. \A k \in Nodes : pc'[k] = "down" <=> pc[k] = "down"
    BY <1>4 DEF ApplyLive, TypeInv, TypeOK
  <2> QED
    BY <1>m, <1>4, <2>1, Advances DEF ApplyLive, LogStep, Log!LogNext
<1> QED
  BY <1>1, <1>2, <1>3, <1>4 DEF MinerStep

(* The steps of a validator or an auditor. *)
LEMMA ObserverRefines ==
  ASSUME TypeInv, LedgerInv, Unbroken, NEW o \in Observers,
         \/ o \in Validators /\ ValidatorStep(o)
         \/ o \in Auditors /\ RestartAuditor(o)
         \/ StopObserver(o) \/ ProcessWindow(o) \/ SaveState(o)
  PROVE  LogStep
<1> USE DEF chainVars, bucketVars, diskVars, procVars
<1>o. o \in Nodes
  BY NodeKinds
<1>1. CASE o \in Validators /\ RestartValidator(o)
  <2>1. PICK r \in {InitReplica, ckpt[o]} : \E next : Resume(o, r, next)
    BY <1>1 DEF RestartValidator
  <2>2. OnLineage(L, r.theta)
    BY <1>o, <2>1 DEF InitReplica, OnLineage, LedgerInv, AllOnLineage
  <2>3. /\ theta' = [theta EXCEPT ![o] = r.theta]
        /\ \E q \in {"idle", "catchup"} : pc' = [pc EXCEPT ![o] = q]
    BY <2>1 DEF Resume
  <2> QED
    BY <1>o, <1>1, <2>2, <2>3, Rejoins DEF RestartValidator, LogStep, Log!LogNext
<1>2. CASE o \in Auditors /\ RestartAuditor(o)
  <2>1. /\ theta' = [theta EXCEPT ![o] = Materialized(o).theta]
        /\ \E q \in {"idle", "catchup"} : pc' = [pc EXCEPT ![o] = q]
    BY <1>2 DEF RestartAuditor, Resume
  <2> QED
    BY <1>o, <1>2, <2>1, Rejoins, MaterializedOnLineage DEF RestartAuditor, LogStep, Log!LogNext
<1>3. CASE StopObserver(o)
  BY <1>o, <1>3, Fails DEF StopObserver, LogStep, Log!LogNext
<1>4. CASE o \in Validators /\ PutCertificate(o)
  BY <1>4, Publishes DEF LogStep, Log!LogNext
<1>5. CASE SkipAhead(o) \/ (o \in Validators /\ PutMirror(o)) \/ LeaderCheckpoint(o)
           \/ ProcessWindow(o) \/ SaveState(o)
  <2>1. UNCHANGED <<leader, certs, theta>> /\ pc[o] # "down"
    BY <1>5 DEF SkipAhead, PutMirror, LeaderCheckpoint, ProcessWindow, SaveState
  <2>2. \E q \in PC \ {"down"} : pc' = [pc EXCEPT ![o] = q]
    BY <1>5 DEF SkipAhead, PutMirror, LeaderCheckpoint, ProcessWindow, SaveState, PC, ObserverPC
  <2> QED
    BY <1>o, <2>1, <2>2, Stutters DEF LogStep, TypeInv, TypeOK
<1> QED
  BY <1>1, <1>2, <1>3, <1>4, <1>5 DEF ValidatorStep

(* The steps of a catch-up. *)
LEMMA CatchUpRefines ==
  ASSUME TypeInv, LedgerInv, Unbroken, NEW n \in Nodes, CatchUpStep(n)
  PROVE  LogStep
<1> USE DEF chainVars, bucketVars, diskVars, procVars, AtWindow, Replaying
<1>1. CASE CatchUpApply(n)
  <2>1. Certified(catchup[n].at) /\ Cert(catchup[n].at).root = theta[n] /\ pc[n] # "down"
        /\ UNCHANGED <<pc, certs, leader>>
        /\ theta' = [theta EXCEPT ![n] = OuterStep(theta[n], catchup[n].at, Cert(catchup[n].at).included)]
    BY <1>1 DEF CatchUpApply
  <2> QED
    BY <2>1, Advances DEF LogStep, Log!LogNext
<1>2. CASE CatchUpEmpty(n) \/ CatchUpIOError(n)
  BY <1>2, Stutters DEF CatchUpEmpty, CatchUpIOError, Retry, LogStep
<1>3. CASE CatchUpPending(n) \/ CatchUpError(n)
  <2>1. pc[n] # "down" /\ UNCHANGED <<leader, certs>> /\ (GoDown(n) \/ Retry(n))
    BY <1>3 DEF CatchUpPending, CatchUpError
  <2>2. CASE GoDown(n)
    BY <2>1, <2>2, Fails DEF LogStep, Log!LogNext
  <2>3. CASE Retry(n)
    BY <2>1, <2>3, Stutters DEF Retry, LogStep
  <2> QED
    BY <2>1, <2>2, <2>3
<1>4. CASE CatchUpDone(n)
  <2>1. UNCHANGED <<leader, certs, theta>> /\ pc[n] # "down"
    BY <1>4 DEF CatchUpDone
  <2>2. \E q \in {"idle", "checkpoint"} : pc' = [pc EXCEPT ![n] = q]
    BY <1>4 DEF CatchUpDone, TypeInv, TypeOK, Catchup
  <2> QED
    BY <2>1, <2>2, Stutters DEF LogStep, TypeInv, TypeOK
<1> QED
  BY <1>1, <1>2, <1>3, <1>4 DEF CatchUpStep

LEMMA InitRefines == Init => Log!LogInit
<1> SUFFICES ASSUME Init PROVE Log!LogInit
  OBVIOUS
<1>1. FirstWindows(L, 0) /\ 0 \in 0 .. MaxWindow + 1
  BY ConstantsAssumption DEF Init, FirstWindows, HasCert, L, Windows
<1>2. Lineage = [i \in 1 .. 0 + 1 |-> IF i = 1 THEN InitTheta ELSE Leads(L, i - 2)]
  BY <1>1, LogShape
<1>3. Lineage = << InitTheta >>
  BY <1>2
<1>4. Up = [n \in Nodes |-> TRUE]
  BY DEF Init, Up
<1> QED
  BY <1>3, <1>4 DEF Init, Log!LogInit, Up

LEMMA StepRefines == TypeInv /\ LedgerInv /\ Unbroken /\ [Next]_vars => LogStep
<1> SUFFICES ASSUME TypeInv, LedgerInv, Unbroken, [Next]_vars PROVE LogStep
  OBVIOUS
<1> USE DEF chainVars, bucketVars, diskVars, procVars
<1>1. CASE Tick \/ UNCHANGED vars
  BY <1>1, Stutters DEF Tick, vars, LogStep
<1>2. ASSUME NEW m \in Miners, MinerStep(m) PROVE LogStep
  BY <1>2, MinerRefines
<1>3. ASSUME NEW v \in Validators, ValidatorStep(v) PROVE LogStep
  BY <1>3, NodeKinds, ObserverRefines
<1>4. ASSUME NEW a \in Auditors, RestartAuditor(a) PROVE LogStep
  BY <1>4, NodeKinds, ObserverRefines
<1>5. ASSUME NEW o \in Observers, StopObserver(o) \/ ProcessWindow(o) \/ SaveState(o) PROVE LogStep
  BY <1>5, ObserverRefines
<1>6. ASSUME NEW n \in Nodes, CatchUpStep(n) PROVE LogStep
  BY <1>6, CatchUpRefines
<1>7. ASSUME NEW n \in Nodes, Crash(n) PROVE LogStep
  BY <1>7, Fails DEF Crash, LogStep, Log!LogNext
<1> QED
  BY <1>1, <1>2, <1>3, <1>4, <1>5, <1>6, <1>7 DEF Next

(* The whole protocol, with its gates, buckets, checkpoints and crashes, is *)
(* one published log and replicas that walk it, as long as the leader can   *)
(* read back what it published.                                             *)
THEOREM RefinementCorrect ==
  ASSUME ~CertReadsFail
  PROVE  Spec => ImplementsCertifiedLog
<1>1. TypeInv /\ LedgerInv /\ Unbroken /\ [Next]_vars => [Log!LogNext]_Log!logVars
  BY StepRefines DEF LogStep
<1> QED
  BY TypeInit, TypeStep, LedgerInit, LedgerStep, UnbrokenInit, UnbrokenStep, InitRefines, <1>1, PTL
  DEF Spec, ImplementsCertifiedLog, Log!LogSpec

-----------------------------------------------------------------------------
(***************************************************************************)
(* Payloads and observers.  Both rest on one fact about miners: a miner    *)
(* passes a window it has uploaded for only once that is certified, so its *)
(* slot shows the commit until then, and a window without commits whose    *)
(* gate has closed is empty for ever.                                      *)
(***************************************************************************)
Stored(w) == {m \in Miners : <<m, w>> \in objects}

(* The gates of the windows before x are closed. *)
Closed(x) == x = 0 \/ GateClosed(x - 1)

(* A window no payload is stored for, and none can be any more *)
Quiet(w) == GateClosed(w) /\ Stored(w) = {}

PastQuiet(x) == \A w \in Windows : w < x /\ ~HasCert(L, w) => Quiet(w)

Least(a, b) == IF a < b THEN a ELSE b

(* t is theta_start of window x, and remains it: what is not certified      *)
(* before x is quiet.                                                       *)
Reached(t, x) ==
  /\ PastQuiet(x)
  /\ \A k \in 0 .. MaxWindow + 1 : FirstWindows(L, k) => StateAt(L, t, Least(x, k))

Busy == {"training", "publishing", "uploading"}

(* A miner is behind the gate of its window, and its slot shows its upload *)
MinerOk(m) ==
  /\ window[m] <= head /\ ckpt[m].next <= head
  /\ pc[m] = "catchup" => catchup[m].to < head
  /\ pc[m] = "uploading" => slot[m].window = window[m]
  /\ pc[m] \in {"publishing", "uploading", "awaiting"} => window[m] < head
  /\ pc[m] \in Busy => ckpt[m].next <= window[m]

(* The window of a stored payload has begun; until it is certified the      *)
(* slot shows its commit and nothing of m, on disk or in a catch-up, has    *)
(* passed it.                                                               *)
PayloadOk(m, w) ==
  <<m, w>> \in objects =>
    /\ w < head
    /\ pc[m] \in Busy => w < window[m]
    /\ ~HasCert(L, w) =>
         /\ slot[m].window = w /\ window[m] <= w /\ ckpt[m].next <= w
         /\ pc[m] = "catchup" => catchup[m].at <= w

MinersOk == \A m \in Miners : MinerOk(m) /\ \A w \in Windows : PayloadOk(m, w)

(* A certificate is of a closed window and leaves a payload out only at     *)
(* gather_peer_count.                                                       *)
CertOk(w) ==
  HasCert(L, w) =>
    /\ GateClosed(w)
    /\ L[w].included \subseteq Stored(w)
    /\ Stored(w) # L[w].included => Cardinality(L[w].included) >= GatherCount

LeaderReads == pc[leader] = "certify" => views[leader] = Stored(window[leader])

CertsOk == (\A w \in Windows : CertOk(w)) /\ LeaderReads

(* What an observer holds, in memory or on disk, is theta_start of where it *)
(* stands; on its way there, of a window in the rest of its range.          *)
ObserverOk(o) ==
  /\ Closed(window[o]) /\ Closed(saved[o])
  /\ Past(L, ckpt[o].next) /\ StateAt(L, ckpt[o].theta, ckpt[o].next)
  /\ pc[o] \in {"certify", "mirror", "save"} =>
       GateClosed(window[o]) /\ catchup[o].at = window[o] /\ catchup[o].to = window[o]
  /\ pc[o] \notin {"down", "catchup"} => Reached(theta[o], window[o])
  /\ pc[o] = "catchup" =>
       /\ Closed(catchup[o].to + 1)
       /\ \E y \in catchup[o].at .. catchup[o].to + 1 : Reached(theta[o], y)

ObserversOk == \A o \in Observers : ObserverOk(o)

LedgerFacts == TypeInv /\ LedgerInv /\ Unbroken
LockstepInv == MinersOk /\ CertsOk /\ ObserversOk

(* LockstepInv says what the properties say. *)
LEMMA LockstepMeaning ==
  ASSUME LedgerFacts, LockstepInv
  PROVE  NoInGatePayloadLost /\ ObserversInLockstep
<1>1. \A w : Certified(w) <=> HasCert(L, w)
  BY DEF Certified, Cert, HasCert, L
<1>2. \A w : After(w) = Leads(L, w) /\ Cert(w) = L[w]
  BY DEF After, Cert, Leads, L
<1>3. NoInGatePayloadLost
  BY <1>1, <1>2 DEF NoInGatePayloadLost, LockstepInv, CertsOk, CertOk, Stored
<1>4. PICK k \in 0 .. MaxWindow + 1 : FirstWindows(L, k)
  BY DEF LedgerFacts, Unbroken
<1>5. ASSUME NEW t, NEW x \in Windows, Reached(t, x) PROVE ThetaStart(t, x)
  <2>1. StateAt(L, t, Least(x, k)) /\ k \in Int /\ x \in Int
    BY <1>4, <1>5, ConstantsAssumption DEF Reached, Windows
  <2>2. HasCert(L, x) => t = L[x].root
    <3> SUFFICES ASSUME HasCert(L, x) PROVE t = L[x].root
      OBVIOUS
    <3>1. x < k /\ StateAt(L, L[x].root, x)
      BY <1>4 DEF FirstWindows, LedgerFacts, LedgerInv, LeaderInv, Chain
    <3> QED
      BY <2>1, <3>1 DEF Least, StateAt
  <2>3. ~HasCert(L, 0) => t = InitTheta
    BY <1>4, <2>1, FirstWindow DEF FirstWindows, Least, StateAt, Windows
  <2>4. ASSUME NEW w \in Windows, w < x, HasCert(L, w), ~HasCert(L, w + 1) PROVE t = Leads(L, w)
    <3>1. w < k /\ w \in Int
      BY <1>4, <2>4 DEF FirstWindows, Windows
    <3>2. w + 1 \in Windows
      BY <2>1, <2>4, ConstantsAssumption DEF Windows
    <3>3. k = w + 1
      BY <1>4, <2>1, <2>4, <3>1, <3>2 DEF FirstWindows
    <3>4. Least(x, k) = k /\ k # 0 /\ k - 1 = w
      BY <2>1, <2>4, <3>1, <3>3 DEF Least, Windows
    <3> QED
      BY <2>1, <3>4 DEF StateAt
  <2> QED
    BY <1>1, <1>2, <2>2, <2>3, <2>4 DEF ThetaStart
<1>6. ObserversInLockstep
  <2> SUFFICES ASSUME NEW o \in Observers, pc[o] \notin {"down", "catchup"}
               PROVE  ThetaStart(theta[o], window[o])
    BY DEF ObserversInLockstep
  <2>1. window[o] \in Windows
    BY NodeKinds DEF LedgerFacts, TypeInv, TypeOK
  <2> QED
    BY <1>5, <2>1 DEF LockstepInv, ObserversOk, ObserverOk
<1> QED
  BY <1>3, <1>6

(* At the start there are no payloads and no certificates, and nobody has   *)
(* moved.                                                                   *)
LEMMA LockstepInit == Init => LockstepInv
<1> SUFFICES ASSUME Init PROVE LockstepInv
  OBVIOUS
<1>1. \A w : ~HasCert(L, w)
  BY ConstantsAssumption DEF Init, HasCert, L
<1>2. MinersOk
  BY NodeKinds DEF Init, MinersOk, MinerOk, PayloadOk, InitReplica, Busy
<1>3. CertsOk
  BY <1>1, ConstantsAssumption, NodeKinds DEF Init, CertsOk, CertOk, LeaderReads
<1>4. Past(L, 0) /\ StateAt(L, InitTheta, 0) /\ PastQuiet(0)
  BY DEF Past, StateAt, PastQuiet, Windows
<1>5. \A k \in 0 .. MaxWindow + 1 : Least(0, k) = 0
  BY ConstantsAssumption DEF Least
<1>6. Reached(InitTheta, 0)
  BY <1>4, <1>5 DEF Reached
<1>7. ObserversOk
  BY <1>4, <1>6, NodeKinds DEF Init, ObserversOk, ObserverOk, InitReplica, Closed
<1> QED
  BY <1>2, <1>3, <1>7 DEF LockstepInv
-----------------------------------------------------------------------------
(***************************************************************************)
(* What no step takes back: closed gates, what is stored for them,         *)
(* certificates, and theta_start of a window a node has reached.           *)
(***************************************************************************)

(* Who writes what the processes share. *)
LEMMA SharedWriters ==
  ASSUME [Next]_vars
  PROVE  /\ leader' = leader
         /\ \/ Tick /\ UNCHANGED <<certs, objects>>
            \/ \E u \in Validators : PutCertificate(u) /\ UNCHANGED <<head, gateOpen, objects>>
            \/ \E m \in Miners : UploadPayload(m) /\ UNCHANGED <<head, gateOpen, certs>>
            \/ UNCHANGED <<head, gateOpen, certs, objects>>
<1> USE DEF chainVars, bucketVars, diskVars, procVars
<1> DEFINE Same == UNCHANGED <<leader, head, gateOpen, certs, objects>>
<1>1. ASSUME NEW m \in Miners, MinerStep(m)
      PROVE  leader' = leader /\ (Same \/ (UploadPayload(m) /\ UNCHANGED <<head, gateOpen, certs>>))
  BY <1>1 DEF MinerStep, RestartMiner, GracefulStop, StartWindow, CheckGate, CommitWindow,
              UploadPayload, ApplyLive, Desync, Recover
<1>2. ASSUME NEW n \in Nodes, CatchUpStep(n) PROVE Same
  BY <1>2 DEF CatchUpStep, CatchUpApply, CatchUpEmpty, CatchUpPending, CatchUpError,
              CatchUpIOError, CatchUpDone
<1>3. ASSUME NEW v \in Validators, ValidatorStep(v)
      PROVE  leader' = leader /\ (Same \/ (PutCertificate(v) /\ UNCHANGED <<head, gateOpen, objects>>))
  BY <1>3 DEF ValidatorStep, RestartValidator, SkipAhead, PutCertificate, PutMirror, LeaderCheckpoint
<1>4. ASSUME NEW a \in Auditors, RestartAuditor(a) PROVE Same
  BY <1>4 DEF RestartAuditor
<1>5. ASSUME NEW o \in Observers, StopObserver(o) \/ ProcessWindow(o) \/ SaveState(o) PROVE Same
  BY <1>5 DEF StopObserver, ProcessWindow, SaveState
<1>6. ASSUME NEW n \in Nodes, Crash(n) PROVE Same
  BY <1>6 DEF Crash
<1>7. CASE Tick
  BY <1>7 DEF Tick
<1>8. CASE UNCHANGED vars
  BY <1>8 DEF vars
<1> QED
  BY <1>1, <1>2, <1>3, <1>4, <1>5, <1>6, <1>7, <1>8 DEF Next

(* Gates that are closed stay closed. *)
LEMMA GatesStep ==
  ASSUME TypeInv, [Next]_vars
  PROVE  /\ head' \in Int /\ head <= head'
         /\ \A w \in Int : GateClosed(w) => GateClosed(w)'
         /\ \A x \in Int : Closed(x) => Closed(x)'
<1>1. head \in Int
  BY DEF TypeInv, TypeOK, Windows
<1>2. head' \in Int /\ head <= head' /\ \A w \in Int : GateClosed(w) => GateClosed(w)'
  <2>1. CASE Tick
    BY <1>1, <2>1 DEF Tick, GateClosed
  <2>2. CASE UNCHANGED <<head, gateOpen>>
    BY <1>1, <2>2 DEF GateClosed
  <2> QED
    BY <2>1, <2>2, SharedWriters
<1> QED
  BY <1>2 DEF Closed

(* Nothing is stored for a window whose gate has closed, and nothing is     *)
(* ever removed.                                                            *)
LEMMA StoredStep ==
  ASSUME TypeInv, [Next]_vars
  PROVE  \A w \in Windows : /\ Stored(w) \subseteq Stored(w)'
                            /\ GateClosed(w) => Stored(w)' = Stored(w)
<1>1. CASE UNCHANGED objects
  BY <1>1 DEF Stored
<1>2. ASSUME NEW m \in Miners, UploadPayload(m)
      PROVE  \A w \in Windows : /\ Stored(w) \subseteq Stored(w)'
                                /\ GateClosed(w) => Stored(w)' = Stored(w)
  <2>1. \/ UNCHANGED objects
        \/ GateOpen(window[m]) /\ objects' = objects \cup {<<m, window[m]>>}
    BY <1>2 DEF UploadPayload
  <2>2. \A w \in Windows : GateClosed(w) /\ GateOpen(window[m]) => w # window[m]
    BY DEF GateOpen, GateClosed, Windows, TypeInv, TypeOK
  <2> QED
    BY <2>1, <2>2 DEF Stored
<1> QED
  BY <1>1, <1>2, SharedWriters

(* Certificates stay. *)
LEMMA CertsStep ==
  ASSUME LedgerFacts, [Next]_vars
  PROVE  /\ \A w \in Windows : L[w] # NoCert => L'[w] = L[w]
         /\ \A w : HasCert(L, w) => HasCert(L', w) /\ L'[w] = L[w]
         /\ \A x : Past(L, x) => Past(L', x)
         /\ \A t, x : StateAt(L, t, x) => StateAt(L', t, x)
<1>1. \A w \in Windows : L[w] # NoCert => L'[w] = L[w]
  BY ImmutableStep, SharedWriters, LeaderKind DEF L, LedgerFacts
<1> QED
  BY <1>1, Growth DEF HasCert

(* theta_start of a window that was reached stays what it is: a certificate *)
(* for a window before it is one without payloads.                          *)
LEMMA ReachedStep ==
  ASSUME LedgerFacts, LockstepInv, [Next]_vars, NEW t, NEW x \in Int, Reached(t, x), x >= 0
  PROVE  Reached(t, x)'
<1>t. TypeInv /\ LedgerInv /\ Unbroken
  BY DEF LedgerFacts
<1>1. PastQuiet(x)'
  <2> SUFFICES ASSUME NEW w \in Windows, w < x, ~HasCert(L', w) PROVE Quiet(w)'
    BY DEF PastQuiet
  <2>1. Quiet(w) /\ w \in Int
    BY CertsStep DEF Reached, PastQuiet, Windows
  <2> QED
    BY <1>t, <2>1, GatesStep, StoredStep DEF Quiet
<1>2. PICK k \in 0 .. MaxWindow + 1 : FirstWindows(L, k)
  BY <1>t DEF Unbroken
<1>3. StateAt(L, t, Least(x, k)) /\ k \in Int /\ k >= 0
  BY <1>2, ConstantsAssumption DEF Reached
<1>4. ASSUME NEW u \in Validators, PutCertificate(u), UNCHANGED objects
      PROVE  FirstWindows(L', k + 1) /\ StateAt(L', t, Least(x, k + 1))
  <2>1. /\ k \in Windows /\ leader' = leader /\ HasCert(L', k) /\ FirstWindows(L', k + 1)
    BY <1>t, <1>2, <1>4, NextCertificate
  <2>2. CASE x <= k
    <3>1. Least(x, k + 1) = x /\ Least(x, k) = x
      BY <1>3, <2>2 DEF Least
    <3> QED
      BY <1>3, <2>1, <3>1, CertsStep
  <2>3. CASE x > k
    <3>1. u = leader /\ window[u] \in Windows /\ ~HasCert(L, window[u]) /\ Past(L, window[u])
          /\ StateAt(L, theta[u], window[u]) /\ views[u] = Stored(window[u])
      BY <1>t, <1>4, NodeKinds
      DEF PutCertificate, LedgerInv, LeaderOnly, LeaderInv, LeaderBehind, LeaderReplica,
          LockstepInv, CertsOk, LeaderReads, TypeInv, TypeOK
    <3>2. window[u] = k
      BY <1>2, <1>3, <2>1, <3>1 DEF FirstWindows, Past, Windows
    <3>3. Stored(k) = {}
      BY <2>1, <2>3, <3>1, <3>2 DEF Reached, PastQuiet, Quiet
    <3>4. PICK T \in Selections(views[u]) :
            certs' = [certs EXCEPT ![u][window[u]] = [root |-> theta[u], included |-> T]]
      BY <1>4 DEF PutCertificate
    <3>5. T = {}
      BY <3>1, <3>2, <3>3, <3>4 DEF Selections
    <3>6. L'[k] = [root |-> theta[u], included |-> {}]
      BY <1>t, <2>1, <3>1, <3>2, <3>4, <3>5, LeaderKind DEF L, TypeInv, TypeOK
    <3>7. Least(x, k) = k /\ Least(x, k + 1) = k + 1
      BY <1>3, <2>3 DEF Least
    <3>8. t = theta[u]
      BY <1>3, <3>1, <3>2, <3>7 DEF StateAt
    <3>9. t = Leads(L', k)
      BY <3>6, <3>8 DEF Leads, OuterStep
    <3> QED
      BY <1>3, <2>1, <3>7, <3>9 DEF StateAt
  <2> QED
    BY <1>3, <2>1, <2>2, <2>3
<1>5. CASE UNCHANGED certs
  <2>1. L' = L
    BY <1>5, SharedWriters DEF L
  <2> QED
    BY <1>1, <2>1 DEF Reached
<1>6. ASSUME NEW u \in Validators, PutCertificate(u), UNCHANGED objects
      PROVE  Reached(t, x)'
  <2>1. FirstWindows(L', k + 1) /\ StateAt(L', t, Least(x, k + 1)) /\ k \in Windows
    BY <1>t, <1>2, <1>4, <1>6, NextCertificate
  <2>2. \A j \in 0 .. MaxWindow + 1 : FirstWindows(L', j) => j = k + 1
    <3> SUFFICES ASSUME NEW j \in 0 .. MaxWindow + 1, FirstWindows(L', j) PROVE j = k + 1
      OBVIOUS
    <3>1. j \in Int /\ j >= 0 /\ MaxWindow \in Nat /\ k >= 0 /\ k <= MaxWindow
      BY <2>1, ConstantsAssumption DEF Windows
    <3>2. CASE j < k + 1
      <4>1. j \in Windows
        BY <3>1, <3>2 DEF Windows
      <4> QED
        BY <2>1, <3>1, <3>2, <4>1 DEF FirstWindows
    <3>3. CASE j > k + 1
      <4>1. k + 1 \in Windows
        BY <3>1, <3>3 DEF Windows
      <4> QED
        BY <2>1, <3>1, <3>3, <4>1 DEF FirstWindows
    <3> QED
      BY <1>3, <3>1, <3>2, <3>3
  <2> QED
    BY <1>1, <2>1, <2>2 DEF Reached
<1> QED
  BY <1>5, <1>6, SharedWriters
-----------------------------------------------------------------------------
(***************************************************************************)
(* A node writes its own state only.                                       *)
(***************************************************************************)
NodeStep(n) ==
  \/ n \in Miners /\ MinerStep(n)
  \/ n \in Validators /\ ValidatorStep(n)
  \/ n \in Auditors /\ RestartAuditor(n)
  \/ n \in Observers /\ (StopObserver(n) \/ ProcessWindow(n) \/ SaveState(n))
  \/ CatchUpStep(n) \/ Crash(n)

Others(n) ==
  \A k \in Nodes \ {n} :
    /\ UNCHANGED <<pc[k], window[k], theta[k], catchup[k], ckpt[k]>>
    /\ k \in Miners => slot'[k] = slot[k] /\ \A w : <<k, w>> \in objects' <=> <<k, w>> \in objects
    /\ k \in Observers => saved'[k] = saved[k]
    /\ k \in Validators => views'[k] = views[k]

LEMMA MinerAlone ==
  ASSUME TypeInv, NEW m \in Miners, MinerStep(m)
  PROVE  Others(m)
<1> USE NodeKinds DEF chainVars, bucketVars, diskVars, procVars
<1>1. CASE RestartMiner(m)
  BY <1>1 DEF RestartMiner, Resume, CatchUpFrom, Others, TypeInv, TypeOK
<1>2. CASE GracefulStop(m)
  <2>1. ckpt' = [ckpt EXCEPT ![m] = [next |-> window[m], theta |-> theta[m]]] \/ UNCHANGED ckpt
    BY <1>2, SaveCheckpointWrites DEF GracefulStop
  <2>2. m \notin Validators
    BY ConstantsAssumption
  <2> QED
    BY <1>2, <2>1, <2>2 DEF GracefulStop, GoDown, Others, TypeInv, TypeOK
<1>3. CASE ApplyLive(m)
  <2>1. \E r : ckpt' = [ckpt EXCEPT ![m] = r] \/ UNCHANGED ckpt
    BY <1>3, SaveCheckpointWrites DEF ApplyLive
  <2> QED
    BY <1>3, <2>1 DEF ApplyLive, Others, TypeInv, TypeOK
<1>4. CASE StartWindow(m) \/ CheckGate(m) \/ CommitWindow(m)
  BY <1>4 DEF StartWindow, CheckGate, CommitWindow, Others, TypeInv, TypeOK
<1>5. CASE UploadPayload(m)
  BY <1>5 DEF UploadPayload, Others, TypeInv, TypeOK
<1>6. CASE Desync(m) \/ Recover(m)
  BY <1>6 DEF Desync, Recover, CatchUpFrom, Others, TypeInv, TypeOK
<1> QED
  BY <1>1, <1>2, <1>3, <1>4, <1>5, <1>6 DEF MinerStep

LEMMA ObserverAlone ==
  ASSUME TypeInv, NEW o \in Observers,
         \/ o \in Validators /\ ValidatorStep(o)
         \/ o \in Auditors /\ RestartAuditor(o)
         \/ StopObserver(o) \/ ProcessWindow(o) \/ SaveState(o)
  PROVE  Others(o)
<1> USE NodeKinds DEF chainVars, bucketVars, diskVars, procVars
<1>1. CASE o \in Validators /\ RestartValidator(o)
  BY <1>1 DEF RestartValidator, Resume, CatchUpFrom, Others, TypeInv, TypeOK
<1>2. CASE o \in Auditors /\ RestartAuditor(o)
  BY <1>2 DEF RestartAuditor, Resume, CatchUpFrom, Others, TypeInv, TypeOK
<1>3. CASE o \in Validators /\ SkipAhead(o)
  BY <1>3 DEF SkipAhead, CatchUpFrom, Others, TypeInv, TypeOK
<1>4. CASE o \in Validators /\ (PutCertificate(o) \/ PutMirror(o))
  BY <1>4 DEF PutCertificate, PutMirror, Others, TypeInv, TypeOK
<1>5. CASE o \in Validators /\ LeaderCheckpoint(o)
  <2>1. \E r : ckpt' = [ckpt EXCEPT ![o] = r] \/ UNCHANGED ckpt
    BY <1>5, SaveCheckpointWrites DEF LeaderCheckpoint
  <2> QED
    BY <1>5, <2>1 DEF LeaderCheckpoint, Others, TypeInv, TypeOK
<1>6. CASE StopObserver(o)
  BY <1>6 DEF StopObserver, GoDown, Others, TypeInv, TypeOK
<1>7. CASE ProcessWindow(o)
  BY <1>7 DEF ProcessWindow, CatchUpFrom, Others, TypeInv, TypeOK
<1>8. CASE SaveState(o)
  BY <1>8 DEF SaveState, Others, TypeInv, TypeOK
<1> QED
  BY <1>1, <1>2, <1>3, <1>4, <1>5, <1>6, <1>7, <1>8 DEF ValidatorStep

LEMMA CatchUpAlone ==
  ASSUME TypeInv, NEW n \in Nodes, CatchUpStep(n) \/ Crash(n)
  PROVE  Others(n)
<1> USE DEF chainVars, bucketVars, diskVars, procVars
<1>1. CASE CatchUpApply(n) \/ CatchUpEmpty(n) \/ CatchUpDone(n)
  BY <1>1 DEF CatchUpApply, CatchUpEmpty, CatchUpDone, Others, TypeInv, TypeOK
<1>2. CASE CatchUpPending(n) \/ CatchUpError(n) \/ CatchUpIOError(n) \/ Crash(n)
  <2>1. (GoDown(n) \/ Retry(n)) /\ UNCHANGED <<chainVars, bucketVars, diskVars>>
    BY <1>2 DEF CatchUpPending, CatchUpError, CatchUpIOError, Crash
  <2> QED
    BY <2>1 DEF GoDown, Retry, Others, TypeInv, TypeOK
<1> QED
  BY <1>1, <1>2 DEF CatchUpStep

LEMMA NodeAlone ==
  ASSUME TypeInv, NEW n \in Nodes, NodeStep(n)
  PROVE  Others(n)
BY MinerAlone, ObserverAlone, CatchUpAlone, NodeKinds DEF NodeStep

(* Every step is the chain's, or one node's. *)
LEMMA StepKinds ==
  ASSUME [Next]_vars
  PROVE  Tick \/ UNCHANGED vars \/ \E n \in Nodes : NodeStep(n)
BY NodeKinds DEF Next, NodeStep
-----------------------------------------------------------------------------
(***************************************************************************)
(* Miners.                                                                 *)
(***************************************************************************)
MinerHolds(m) == MinerOk(m) /\ \A w \in Windows : PayloadOk(m, w)

(* A miner that does nothing. *)
LEMMA MinerFrame ==
  ASSUME LedgerFacts, [Next]_vars, NEW m \in Miners, MinerHolds(m),
         UNCHANGED <<pc[m], window[m], catchup[m], ckpt[m], slot[m]>>,
         \A w : <<m, w>> \in objects' <=> <<m, w>> \in objects
  PROVE  MinerHolds(m)'
<1>1. /\ window[m] \in Int /\ ckpt[m].next \in Int /\ catchup[m].to \in Int /\ head \in Int
      /\ head' \in Int /\ head <= head'
  BY NodeKinds, GatesStep DEF LedgerFacts, TypeInv, TypeOK, Windows, Replica, Catchup
<1>2. MinerOk(m)'
  BY <1>1 DEF MinerHolds, MinerOk
<1>3. ASSUME NEW w \in Windows PROVE PayloadOk(m, w)'
  <2>1. w \in Int
    BY DEF Windows
  <2> QED
    BY <1>1, <2>1, CertsStep DEF MinerHolds, PayloadOk
<1> QED
  BY <1>2, <1>3 DEF MinerHolds

(* A miner that goes down, with the checkpoint it had or one of the window  *)
(* it is in.                                                                *)
LEMMA MinerGoesDown ==
  ASSUME LedgerFacts, [Next]_vars, NEW m \in Miners, MinerHolds(m), GoDown(m),
         UNCHANGED <<slot, objects>>,
         ckpt'[m].next = ckpt[m].next \/ ckpt'[m].next = window[m]
  PROVE  MinerHolds(m)'
<1>1. /\ window[m] \in Int /\ ckpt[m].next \in Int /\ catchup[m].to \in Int
      /\ 0 <= head' /\ head \in Int /\ head' \in Int /\ head <= head'
  <2>1. /\ window[m] \in Int /\ ckpt[m].next \in Int /\ catchup[m].to \in Int
        /\ head \in Int /\ 0 <= head
    BY NodeKinds DEF LedgerFacts, TypeInv, TypeOK, Windows, Replica, Catchup
  <2>2. head' \in Int /\ head <= head'
    BY GatesStep DEF LedgerFacts
  <2> QED
    BY <2>1, <2>2
<1>2. pc'[m] = "down" /\ window'[m] = 0
  BY NodeKinds DEF GoDown, LedgerFacts, TypeInv, TypeOK
<1>3. MinerOk(m)'
  BY <1>1, <1>2 DEF MinerHolds, MinerOk, Busy
<1>4. ASSUME NEW w \in Windows PROVE PayloadOk(m, w)'
  <2>1. w \in Int /\ 0 <= w
    BY DEF Windows
  <2> QED
    BY <1>1, <1>2, <2>1, CertsStep DEF MinerHolds, PayloadOk, Busy
<1> QED
  BY <1>3, <1>4 DEF MinerHolds

(* The steps of a miner's window. *)
LEMMA MinerHoldsStep ==
  ASSUME LedgerFacts, LockstepInv, [Next]_vars, NEW m \in Miners, MinerStep(m)
  PROVE  MinerHolds(m)'
<1> USE DEF chainVars, bucketVars, diskVars, procVars
<1>t. TypeInv /\ LedgerInv /\ m \in Nodes /\ leader \in Nodes /\ leader \in Observers
  BY NodeKinds, LeaderKind DEF LedgerFacts
<1>m. MinerHolds(m)
  BY DEF LockstepInv, MinersOk, MinerHolds
<1>1. /\ window[m] \in Int /\ ckpt[m].next \in Int /\ catchup[m].to \in Int /\ head \in Int
      /\ catchup[m].at \in Int /\ 0 <= head /\ 0 <= window[m]
  BY <1>t DEF TypeInv, TypeOK, Windows, Replica, Catchup
<1>2. \A w \in Windows : w \in Int /\ 0 <= w
  BY DEF Windows
<1>3. \A w \in Windows : ~HasCert(L', w) => ~HasCert(L, w)
  BY CertsStep
<1>4. CASE RestartMiner(m)
  <2>1. ckpt[leader].next <= head /\ Past(L, ckpt[leader].next) /\ ckpt[leader].next \in Int
    <3>1. ckpt[leader].next \in Windows /\ Past(L, ckpt[leader].next)
      BY <1>t DEF LockstepInv, ObserversOk, ObserverOk, TypeInv, TypeOK, Replica
    <3>2. CASE ckpt[leader].next = 0
      BY <1>1, <3>1, <3>2
    <3>3. CASE ckpt[leader].next # 0
      <4>1. ckpt[leader].next - 1 \in Windows /\ HasCert(L, ckpt[leader].next - 1)
        BY <3>1, <3>3, ConstantsAssumption DEF Windows, Past
      <4>2. GateClosed(ckpt[leader].next - 1)
        BY <4>1 DEF LockstepInv, CertsOk, CertOk
      <4> QED
        BY <1>1, <3>1, <4>2 DEF GateClosed, Windows
    <3> QED
      BY <3>2, <3>3
  <2>2. /\ ckpt'[m] = Newest(m)
        /\ window'[m] = Newest(m).next \/ window'[m] = 0
        /\ pc'[m] = "idle"
        /\ UNCHANGED <<head, slot, objects>>
    <3>1. Materialized(m) \in Replica /\ Materialized(m).next \in Int
      BY <1>t, MaterializedType DEF Replica, Windows
    <3> QED
      BY <1>t, <1>4, <3>1 DEF RestartMiner, Resume, Materialized, InitReplica, TypeInv, TypeOK
  <2>3. Newest(m).next = ckpt[m].next \/ Newest(m).next = ckpt[leader].next
    BY DEF Newest
  <2>4. MinerOk(m)'
    BY <1>m, <1>1, <2>1, <2>2, <2>3 DEF MinerHolds, MinerOk, Busy
  <2>5. ASSUME NEW w \in Windows PROVE PayloadOk(m, w)'
    <3>1. ~HasCert(L, w) => ~(w < ckpt[leader].next)
      BY <2>1 DEF Past
    <3> QED
      BY <1>m, <1>1, <1>2, <1>3, <2>1, <2>2, <2>3, <3>1 DEF MinerHolds, PayloadOk, Busy
  <2> QED
    BY <2>4, <2>5 DEF MinerHolds
<1>5. CASE GracefulStop(m)
  <2>1. ckpt' = [ckpt EXCEPT ![m] = [next |-> window[m], theta |-> theta[m]]] \/ UNCHANGED ckpt
    BY <1>5, SaveCheckpointWrites DEF GracefulStop
  <2>2. ckpt'[m].next = ckpt[m].next \/ ckpt'[m].next = window[m]
    BY <1>t, <2>1 DEF TypeInv, TypeOK
  <2> QED
    BY <1>m, <1>5, <2>2, MinerGoesDown DEF GracefulStop
<1>6. CASE StartWindow(m)
  <2>1. /\ pc'[m] = "training" /\ window[m] = head /\ UNCHANGED <<head, slot, objects, window, ckpt>>
    BY <1>t, <1>6 DEF StartWindow, TypeInv, TypeOK
  <2> QED
    BY <1>m, <1>1, <1>2, <1>3, <2>1 DEF MinerHolds, MinerOk, PayloadOk, Busy
<1>7. CASE CheckGate(m)
  <2>1. /\ pc[m] = "training" /\ pc'[m] \in {"publishing", "awaiting"} /\ window[m] < head
        /\ UNCHANGED <<head, slot, objects, window, ckpt>>
    BY <1>t, <1>1, <1>7 DEF CheckGate, GateOpen, GateClosed, TypeInv, TypeOK
  <2> QED
    BY <1>m, <1>1, <1>2, <1>3, <2>1 DEF MinerHolds, MinerOk, PayloadOk, Busy
<1>8. CASE CommitWindow(m)
  <2>1. /\ pc[m] = "publishing" /\ pc'[m] = "uploading" /\ slot'[m].window = window[m]
        /\ UNCHANGED <<head, objects, window, ckpt>>
    BY <1>t, <1>8 DEF CommitWindow, TypeInv, TypeOK
  <2>2. MinerOk(m)'
    BY <1>m, <2>1 DEF MinerHolds, MinerOk, Busy
  <2>3. ASSUME NEW w \in Windows PROVE PayloadOk(m, w)'
    BY <1>m, <1>1, <1>2, <1>3, <2>1 DEF MinerHolds, PayloadOk, Busy
  <2> QED
    BY <2>2, <2>3 DEF MinerHolds
<1>9. CASE UploadPayload(m)
  <2>1. /\ pc[m] = "uploading" /\ pc'[m] = "awaiting" /\ UNCHANGED <<head, slot, window, ckpt>>
        /\ \A w : <<m, w>> \in objects' => <<m, w>> \in objects \/ w = window[m]
    BY <1>t, <1>9 DEF UploadPayload, TypeInv, TypeOK
  <2>2. MinerOk(m)'
    BY <1>m, <2>1 DEF MinerHolds, MinerOk, Busy
  <2>3. ASSUME NEW w \in Windows PROVE PayloadOk(m, w)'
    BY <1>m, <1>1, <1>2, <1>3, <2>1 DEF MinerHolds, MinerOk, PayloadOk, Busy
  <2> QED
    BY <2>2, <2>3 DEF MinerHolds
<1>10. CASE ApplyLive(m)
  <2>1. /\ pc[m] = "awaiting" /\ pc'[m] = "idle" /\ window'[m] = window[m] + 1
        /\ HasCert(L, window[m]) /\ UNCHANGED <<head, slot, objects>>
    BY <1>t, <1>10 DEF ApplyLive, Certified, Cert, HasCert, L, TypeInv, TypeOK
  <2>2. ckpt'[m].next = ckpt[m].next \/ ckpt'[m].next = window[m] + 1
    <3>1. \E u : ckpt' = [ckpt EXCEPT ![m] = [next |-> window[m] + 1, theta |-> u]] \/ UNCHANGED ckpt
      BY <1>10, SaveCheckpointWrites DEF ApplyLive
    <3> QED
      BY <1>t, <3>1 DEF TypeInv, TypeOK
  <2>3. MinerOk(m)'
    BY <1>m, <1>1, <2>1, <2>2 DEF MinerHolds, MinerOk, Busy
  <2>4. ASSUME NEW w \in Windows PROVE PayloadOk(m, w)'
    BY <1>m, <1>1, <1>2, <1>3, <2>1, <2>2 DEF MinerHolds, PayloadOk, Busy
  <2> QED
    BY <2>3, <2>4 DEF MinerHolds
<1>11. CASE Desync(m) \/ Recover(m)
  <2>1. /\ pc'[m] = "catchup" /\ UNCHANGED <<head, slot, objects, window, ckpt>>
        /\ window[m] < head
    BY <1>t, <1>m, <1>11 DEF Desync, Recover, MinerHolds, MinerOk, TypeInv, TypeOK
  <2>2. catchup'[m].at = window[m] /\ catchup'[m].to < head
    BY <1>t, <1>1, <1>11, <2>1 DEF Desync, Recover, CatchUpFrom, Later, TypeInv, TypeOK
  <2>3. MinerOk(m)'
    BY <1>m, <1>1, <2>1, <2>2 DEF MinerHolds, MinerOk, Busy
  <2>4. ASSUME NEW w \in Windows PROVE PayloadOk(m, w)'
    BY <1>m, <1>1, <1>2, <1>3, <2>1, <2>2 DEF MinerHolds, PayloadOk, Busy
  <2> QED
    BY <2>3, <2>4 DEF MinerHolds
<1> QED
  BY <1>4, <1>5, <1>6, <1>7, <1>8, <1>9, <1>10, <1>11 DEF MinerStep

(* A catch-up of a miner passes a window it uploaded for only by its        *)
(* certificate: the miner's own commit keeps it from taking it for empty.   *)
LEMMA MinerHoldsCatchUp ==
  ASSUME LedgerFacts, LockstepInv, [Next]_vars, NEW m \in Miners, CatchUpStep(m) \/ Crash(m)
  PROVE  MinerHolds(m)'
<1> USE DEF chainVars, bucketVars, diskVars, procVars, AtWindow, Replaying
<1>t. TypeInv /\ LedgerInv /\ m \in Nodes
  BY NodeKinds DEF LedgerFacts
<1>m. MinerHolds(m)
  BY DEF LockstepInv, MinersOk, MinerHolds
<1>1. /\ window[m] \in Int /\ ckpt[m].next \in Int /\ catchup[m].to \in Int /\ head \in Int
      /\ catchup[m].at \in Int /\ catchup[m].at <= catchup[m].to + 1
      /\ catchup[m].lo \in Int /\ catchup[m].lo <= catchup[m].at
  BY <1>t DEF TypeInv, TypeOK, Bounds, Windows, Replica, Catchup
<1>2. \A w \in Windows : w \in Int /\ 0 <= w
  BY DEF Windows
<1>3. \A w \in Windows : ~HasCert(L', w) => ~HasCert(L, w)
  BY CertsStep
<1>4. CASE CatchUpApply(m) \/ CatchUpEmpty(m)
  <2>1. /\ pc[m] = "catchup" /\ catchup'[m].at = catchup[m].at + 1 /\ catchup'[m].to = catchup[m].to
        /\ UNCHANGED <<head, slot, objects, window, ckpt, pc>>
    BY <1>t, <1>4 DEF CatchUpApply, CatchUpEmpty, TypeInv, TypeOK, Catchup
  <2>2. HasCert(L, catchup[m].at) \/ slot[m].window # catchup[m].at
    BY <1>4 DEF CatchUpApply, CatchUpEmpty, Certified, Cert, HasCert, L, Committers
  <2>3. MinerOk(m)'
    BY <1>m, <2>1 DEF MinerHolds, MinerOk, Busy
  <2>4. ASSUME NEW w \in Windows PROVE PayloadOk(m, w)'
    BY <1>m, <1>1, <1>2, <1>3, <2>1, <2>2 DEF MinerHolds, PayloadOk, Busy
  <2> QED
    BY <2>3, <2>4 DEF MinerHolds
<1>5. CASE CatchUpPending(m) \/ CatchUpError(m) \/ CatchUpIOError(m) \/ Crash(m)
  <2>1. /\ GoDown(m) \/ (pc[m] = "catchup" /\ Retry(m))
        /\ UNCHANGED <<chainVars, bucketVars, diskVars>>
    BY <1>5 DEF CatchUpPending, CatchUpError, CatchUpIOError, Crash
  <2>2. CASE GoDown(m)
    BY <1>m, <2>1, <2>2, MinerGoesDown
  <2>3. CASE pc[m] = "catchup" /\ Retry(m)
    <3>1. catchup'[m].at = catchup[m].lo /\ catchup'[m].to = catchup[m].to
      BY <1>t, <2>3 DEF Retry, TypeInv, TypeOK, Catchup
    <3>2. MinerOk(m)'
      BY <1>m, <2>1, <2>3, <3>1 DEF Retry, MinerHolds, MinerOk, Busy
    <3>3. ASSUME NEW w \in Windows PROVE PayloadOk(m, w)'
      BY <1>m, <1>1, <1>2, <1>3, <2>1, <2>3, <3>1 DEF Retry, MinerHolds, PayloadOk, Busy
    <3> QED
      BY <3>2, <3>3 DEF MinerHolds
  <2> QED
    BY <2>1, <2>2, <2>3
<1>6. CASE CatchUpDone(m)
  <2>1. /\ pc[m] = "catchup" /\ catchup[m].at = catchup[m].to + 1
        /\ window'[m] = catchup[m].at /\ pc'[m] \in {"idle", "checkpoint"}
        /\ UNCHANGED <<head, slot, objects, ckpt>>
    BY <1>t, <1>6 DEF CatchUpDone, TypeInv, TypeOK, Catchup
  <2>2. MinerOk(m)'
    BY <1>m, <1>1, <2>1 DEF MinerHolds, MinerOk, Busy
  <2>3. ASSUME NEW w \in Windows PROVE PayloadOk(m, w)'
    BY <1>m, <1>1, <1>2, <1>3, <2>1 DEF MinerHolds, PayloadOk, Busy
  <2> QED
    BY <2>2, <2>3 DEF MinerHolds
<1> QED
  BY <1>4, <1>5, <1>6 DEF CatchUpStep

LEMMA MinersStep ==
  ASSUME LedgerFacts, LockstepInv, [Next]_vars
  PROVE  MinersOk'
<1> SUFFICES ASSUME NEW m \in Miners PROVE MinerHolds(m)'
  BY DEF MinersOk, MinerHolds
<1>m. MinerHolds(m) /\ m \in Nodes /\ m \notin Observers /\ TypeInv
  BY NodeKinds, ConstantsAssumption DEF LockstepInv, MinersOk, MinerHolds, Observers, LedgerFacts
<1>1. CASE Tick \/ UNCHANGED vars
  BY <1>m, <1>1, MinerFrame DEF Tick, vars, chainVars, bucketVars, diskVars, procVars
<1>2. ASSUME NEW n \in Nodes, NodeStep(n), n # m PROVE MinerHolds(m)'
  <2>1. Others(n)
    BY <1>m, <1>2, NodeAlone
  <2> QED
    BY <1>m, <1>2, <2>1, MinerFrame DEF Others
<1>3. CASE NodeStep(m)
  <2>1. m \notin Validators /\ m \notin Auditors
    BY <1>m, NodeKinds
  <2> QED
    BY <1>m, <1>3, <2>1, MinerHoldsStep, MinerHoldsCatchUp DEF NodeStep
<1> QED
  BY <1>1, <1>2, <1>3, StepKinds
-----------------------------------------------------------------------------
(***************************************************************************)
(* Certificates: what the leader read is all that is stored.               *)
(***************************************************************************)

(* In a window whose gate has closed and that has no certificate, the slots *)
(* still show every miner that has stored its payload.                      *)
LEMMA SlotsShowStored ==
  ASSUME MinersOk, NEW w \in Windows, ~HasCert(L, w)
  PROVE  /\ Stored(w) \subseteq Committers(w)
         /\ InGateCommits(w) = Stored(w)
BY DEF MinersOk, PayloadOk, Stored, Committers, InGateCommits

LEMMA CertsOkStep ==
  ASSUME LedgerFacts, LockstepInv, ~CertReadsFail, [Next]_vars
  PROVE  CertsOk'
<1> USE DEF chainVars, bucketVars, diskVars, procVars
<1>t. /\ TypeInv /\ LedgerInv /\ leader \in Nodes /\ leader \in Observers /\ leader \in Validators
      /\ leader' = leader /\ window[leader] \in Windows /\ window[leader] \in Int
  BY LeaderKind, SharedWriters DEF LedgerFacts, TypeInv, TypeOK, Windows
<1>c. CertsOk /\ MinersOk /\ ObserverOk(leader)
  BY <1>t DEF LockstepInv, ObserversOk
<1>k. ASSUME NEW w \in Windows, HasCert(L, w) PROVE CertOk(w)'
  <2>1. GateClosed(w) /\ w \in Int /\ CertOk(w)
    BY <1>c, <1>k DEF CertsOk, CertOk, Windows
  <2>2. GateClosed(w)' /\ Stored(w)' = Stored(w) /\ L'[w] = L[w]
    BY <1>t, <1>k, <2>1, GatesStep, StoredStep, CertsStep
  <2> QED
    BY <1>k, <2>1, <2>2 DEF CertOk
<1>1. CASE PutCertificate(leader)
  <2>0. PICK x \in Windows : x = window[leader]
    BY <1>t
  <2>1. PICK T \in Selections(views[leader]) :
          certs' = [certs EXCEPT ![leader][x] = [root |-> theta[leader], included |-> T]]
    BY <1>1, <2>0 DEF PutCertificate
  <2>2. L'[x] = [root |-> theta[leader], included |-> T] /\ \A w \in Windows : w # x => L'[w] = L[w]
    BY <1>t, <2>0, <2>1 DEF L, TypeInv, TypeOK
  <2>3. GateClosed(x) /\ views[leader] = Stored(x) /\ UNCHANGED <<head, gateOpen, objects>>
        /\ pc'[leader] = "mirror"
    BY <1>t, <1>c, <1>1, <2>0 DEF PutCertificate, CertsOk, LeaderReads, ObserverOk, TypeInv, TypeOK
  <2>4. /\ T \subseteq Stored(x)
        /\ Stored(x) # T => Cardinality(T) >= GatherCount
    BY <2>1, <2>3, ConstantsAssumption DEF Selections
  <2>5. CertOk(x)'
    BY <2>2, <2>3, <2>4 DEF CertOk, GateClosed, Stored
  <2>6. ASSUME NEW w \in Windows, w # x PROVE CertOk(w)'
    <3>1. CASE HasCert(L, w)
      BY <1>k, <3>1
    <3>2. CASE ~HasCert(L, w)
      BY <2>2, <2>6, <3>2 DEF HasCert, CertOk
    <3> QED
      BY <3>1, <3>2
  <2>7. LeaderReads'
    BY <1>t, <2>3 DEF LeaderReads
  <2> QED
    BY <2>5, <2>6, <2>7 DEF CertsOk
<1>2. CASE ~PutCertificate(leader)
  <2>1. UNCHANGED certs
    <3>1. ASSUME NEW u \in Validators, PutCertificate(u) PROVE u = leader
      BY <1>t, <3>1, NodeKinds DEF PutCertificate, LedgerInv, LeaderOnly
    <3> QED
      BY <1>2, <3>1, SharedWriters
  <2>2. \A w \in Windows : CertOk(w)'
    <3> SUFFICES ASSUME NEW w \in Windows, HasCert(L, w)' PROVE CertOk(w)'
      BY DEF CertOk
    <3> QED
      BY <1>t, <1>k, <2>1 DEF L, HasCert
  <2>3. LeaderReads'
    <3> SUFFICES ASSUME pc'[leader] = "certify" PROVE views'[leader] = Stored(window[leader])' /\ window'[leader] = window[leader]
      BY <1>t DEF LeaderReads
    <3>1. CASE pc[leader] = "certify" /\ UNCHANGED <<window[leader], views[leader]>>
      <4>1. GateClosed(window[leader]) /\ views[leader] = Stored(window[leader])
        BY <1>c, <3>1 DEF CertsOk, LeaderReads, ObserverOk
      <4>2. Stored(window[leader])' = Stored(window[leader])
        BY <1>t, <3>1, <4>1, StoredStep DEF Stored
      <4> QED
        BY <1>t, <3>1, <4>1, <4>2
    <3>2. CASE ProcessWindow(leader)
      <4>1. /\ views' = [views EXCEPT ![leader] = InGateCommits(window[leader])]
            /\ certs[leader][window[leader]] = NoCert /\ UNCHANGED <<window, objects>>
        BY <1>t, <3>2 DEF ProcessWindow, TypeInv, TypeOK
      <4>2. InGateCommits(window[leader]) = Stored(window[leader])
        BY <1>t, <1>c, <4>1, SlotsShowStored DEF HasCert, L
      <4>3. Stored(window[leader])' = Stored(window[leader])
        BY <1>t, <4>1 DEF Stored
      <4> QED
        BY <1>t, <4>1, <4>2, <4>3 DEF TypeInv, TypeOK
    <3>3. CASE Tick \/ UNCHANGED vars
      BY <3>1, <3>3 DEF Tick, vars
    <3>4. ASSUME NEW n \in Nodes, NodeStep(n), n # leader
          PROVE  UNCHANGED <<pc[leader], window[leader], views[leader]>>
      <4>1. Others(n)
        BY <1>t, <3>4, NodeAlone
      <4> QED
        BY <1>t, <3>4, <4>1 DEF Others
    <3>5. CASE NodeStep(leader) /\ ~ProcessWindow(leader)
      <4>1. leader \notin Miners /\ leader \notin Auditors
        BY <1>t, LeaderKind
      <4>2. \/ \E q \in PC \ {"certify"} : pc' = [pc EXCEPT ![leader] = q]
            \/ pc' = pc /\ pc[leader] = "catchup"
        <5>1. CASE ValidatorStep(leader)
          BY <1>2, <5>1 DEF ValidatorStep, RestartValidator, Resume, SkipAhead, PutMirror, LeaderCheckpoint,
                            PC, ObserverPC
        <5>2. CASE StopObserver(leader) \/ SaveState(leader) \/ Crash(leader)
          BY <5>2 DEF StopObserver, SaveState, Crash, GoDown, PC
        <5>3. CASE CatchUpStep(leader)
          <6>1. catchup[leader].then \in PC \ {"certify"}
            BY <1>t DEF TypeInv, TypeOK, Catchup, PC, ObserverPC
          <6> QED
            BY <5>3, <6>1 DEF CatchUpStep, CatchUpApply, CatchUpEmpty, CatchUpPending, CatchUpError,
                              CatchUpIOError, CatchUpDone, Replaying, GoDown, Retry, PC
        <5> QED
          BY <3>5, <4>1, <5>1, <5>2, <5>3 DEF NodeStep
      <4>3. pc'[leader] # "certify"
        BY <1>t, <4>2 DEF TypeInv, TypeOK
      <4> QED
        BY <4>3
    <3> QED
      BY <1>t, <3>1, <3>2, <3>3, <3>4, <3>5, StepKinds
  <2> QED
    BY <2>2, <2>3 DEF CertsOk
<1> QED
  BY <1>1, <1>2
-----------------------------------------------------------------------------
(***************************************************************************)
(* Validators and auditors.                                                *)
(***************************************************************************)

(* A checkpoint is behind the certificates, so its state is theta_start of  *)
(* its window.                                                              *)
LEMMA CheckpointReached ==
  ASSUME LedgerFacts, NEW t, NEW x \in Windows, Past(L, x), StateAt(L, t, x)
  PROVE  Reached(t, x)
<1>1. PastQuiet(x)
  BY DEF Past, PastQuiet
<1>2. ASSUME NEW k \in 0 .. MaxWindow + 1, FirstWindows(L, k) PROVE Least(x, k) = x
  <2>1. k \in Int /\ x \in Int /\ 0 <= k /\ x <= MaxWindow
    BY ConstantsAssumption DEF Windows
  <2>2. ~(k < x)
    <3> SUFFICES ASSUME k < x PROVE FALSE
      OBVIOUS
    <3>1. k \in Windows
      BY <2>1, ConstantsAssumption DEF Windows
    <3> QED
      BY <1>2, <2>1, <3>1 DEF FirstWindows, Past
  <2> QED
    BY <2>1, <2>2 DEF Least
<1> QED
  BY <1>1, <1>2 DEF Reached

(* A certified outer step on theta_start leads to the next theta_start.     *)
LEMMA ReachedApply ==
  ASSUME LedgerFacts, NEW t, NEW w \in Windows, NEW y \in Int, Reached(t, y),
         HasCert(L, w), L[w].root = t
  PROVE  Reached(Leads(L, w), w + 1)
<1>1. PICK k \in 0 .. MaxWindow + 1 : FirstWindows(L, k)
  BY DEF LedgerFacts, Unbroken
<1>2. \A v \in Windows : v < w + 1 => HasCert(L, v)
  BY <1>1 DEF FirstWindows, Windows
<1>3. PastQuiet(w + 1)
  BY <1>2 DEF PastQuiet
<1>4. ASSUME NEW j \in 0 .. MaxWindow + 1, FirstWindows(L, j) PROVE StateAt(L, Leads(L, w), Least(w + 1, j))
  <2>1. w < j /\ j \in Int /\ w \in Int /\ 0 <= w
    BY <1>4, ConstantsAssumption DEF FirstWindows, Windows
  <2>2. Least(w + 1, j) = w + 1
    BY <2>1 DEF Least
  <2> QED
    BY <2>1, <2>2 DEF StateAt
<1> QED
  BY <1>3, <1>4 DEF Reached

(* Passing a window without a certificate whose gate has closed on no       *)
(* payload moves nothing.                                                   *)
LEMMA ReachedEmpty ==
  ASSUME LedgerFacts, NEW t, NEW w \in Windows, NEW y \in Int, Reached(t, y), w <= y,
         ~HasCert(L, w), Quiet(w)
  PROVE  Reached(t, w + 1)
<1>1. PICK k \in 0 .. MaxWindow + 1 : FirstWindows(L, k)
  BY DEF LedgerFacts, Unbroken
<1>2. \A v \in Windows : v < w + 1 => v < y \/ v = w
  BY DEF Windows
<1>3. PastQuiet(w + 1)
  BY <1>2 DEF Reached, PastQuiet
<1>4. ASSUME NEW j \in 0 .. MaxWindow + 1, FirstWindows(L, j) PROVE StateAt(L, t, Least(w + 1, j))
  <2>1. ~(w < j) /\ j \in Int /\ w \in Int
    BY <1>4, ConstantsAssumption DEF FirstWindows, Windows
  <2>2. Least(w + 1, j) = j /\ Least(y, j) = j
    BY <2>1 DEF Least
  <2> QED
    BY <1>4, <2>2 DEF Reached
<1> QED
  BY <1>3, <1>4 DEF Reached

(* An observer that does nothing. *)
LEMMA ObserverFrame ==
  ASSUME LedgerFacts, LockstepInv, [Next]_vars, NEW o \in Observers,
         UNCHANGED <<pc[o], window[o], theta[o], catchup[o], ckpt[o], saved[o]>>
  PROVE  ObserverOk(o)'
<1>t. ObserverOk(o) /\ TypeInv /\ o \in Nodes
  BY NodeKinds DEF LedgerFacts, LockstepInv, ObserversOk
<1>1. /\ window[o] \in Int /\ saved[o] \in Int /\ catchup[o].to \in Int /\ catchup[o].at \in Int
      /\ 0 <= window[o] /\ 0 <= catchup[o].at
  BY <1>t DEF TypeInv, TypeOK, Windows, Catchup
<1>2. /\ Closed(window[o])' /\ Closed(saved[o])'
      /\ Past(L, ckpt[o].next)' /\ StateAt(L, ckpt[o].theta, ckpt[o].next)'
  BY <1>t, <1>1, GatesStep, CertsStep DEF ObserverOk
<1>3. pc[o] \in {"certify", "mirror", "save"} => GateClosed(window[o])'
  BY <1>t, <1>1, GatesStep DEF ObserverOk
<1>4. pc[o] \notin {"down", "catchup"} => Reached(theta[o], window[o])'
  BY <1>t, <1>1, ReachedStep DEF ObserverOk
<1>5. ASSUME pc[o] = "catchup"
      PROVE  /\ Closed(catchup[o].to + 1)'
             /\ \E y \in catchup[o].at .. catchup[o].to + 1 : Reached(theta[o], y)'
  <2>1. catchup[o].to + 1 \in Int /\ Closed(catchup[o].to + 1)
    BY <1>t, <1>1, <1>5 DEF ObserverOk
  <2>2. PICK y \in catchup[o].at .. catchup[o].to + 1 : Reached(theta[o], y)
    BY <1>t, <1>5 DEF ObserverOk
  <2>3. y \in Int /\ y >= 0
    BY <1>1
  <2>4. Closed(catchup[o].to + 1)'
    BY <1>t, <2>1, GatesStep
  <2>5. Reached(theta[o], y)'
    BY <2>2, <2>3, ReachedStep
  <2> QED
    BY <2>4, <2>5
<1> QED
  BY <1>t, <1>2, <1>3, <1>4, <1>5 DEF ObserverOk

(* What survives a step of the observer itself: its disk is behind the      *)
(* certificates, whatever else it does.                                     *)
DiskOk(o) ==
  /\ Closed(saved[o])
  /\ Past(L, ckpt[o].next) /\ StateAt(L, ckpt[o].theta, ckpt[o].next)

LEMMA DiskFrame ==
  ASSUME LedgerFacts, LockstepInv, [Next]_vars, NEW o \in Observers, UNCHANGED <<ckpt[o], saved[o]>>
  PROVE  DiskOk(o)'
<1>1. saved[o] \in Int /\ ObserverOk(o) /\ TypeInv
  BY DEF LedgerFacts, TypeInv, TypeOK, Windows, LockstepInv, ObserversOk
<1> QED
  BY <1>1, GatesStep, CertsStep DEF ObserverOk, DiskOk

(* A window before a certificate, and the window itself, have closed gates. *)
LEMMA PastClosed ==
  ASSUME LedgerFacts, LockstepInv, NEW x \in Windows, Past(L, x)
  PROVE  Closed(x)
<1>1. CASE x = 0
  BY <1>1 DEF Closed
<1>2. CASE x # 0
  <2>1. x - 1 \in Windows /\ x - 1 < x
    BY <1>2, ConstantsAssumption DEF Windows
  <2> QED
    BY <2>1 DEF Past, LockstepInv, CertsOk, CertOk, Closed
<1> QED
  BY <1>1, <1>2

(* An observer that goes down. *)
LEMMA ObserverGoesDown ==
  ASSUME LedgerFacts, LockstepInv, [Next]_vars, NEW o \in Observers, GoDown(o), DiskOk(o)'
  PROVE  ObserverOk(o)'
<1>1. pc'[o] = "down" /\ window'[o] = 0
  BY NodeKinds DEF GoDown, LedgerFacts, TypeInv, TypeOK
<1> QED
  BY <1>1 DEF ObserverOk, DiskOk, Closed

(* An observer that starts, from a checkpoint that is behind the            *)
(* certificates, towards a window whose predecessors' gates have closed.    *)
LEMMA ObserverResumes ==
  ASSUME LedgerFacts, LockstepInv, [Next]_vars, NEW o \in Observers, NEW r \in Replica,
         NEW next \in Windows, Past(L, r.next), StateAt(L, r.theta, r.next),
         next >= r.next, Closed(next), Resume(o, r, next), DiskOk(o)'
  PROVE  ObserverOk(o)'
<1>t. TypeInv /\ o \in Nodes
  BY NodeKinds DEF LedgerFacts
<1>1. r.next \in Windows /\ r.next \in Int /\ next \in Int /\ 0 <= r.next
  BY DEF Replica, Windows
<1>2. Reached(r.theta, r.next)'
  BY <1>1, CheckpointReached, ReachedStep
<1>3. Closed(next)'
  BY <1>t, <1>1, GatesStep
<1>4. theta'[o] = r.theta /\ window'[o] = next
  BY <1>t DEF Resume, TypeInv, TypeOK
<1>5. CASE next > r.next
  <2>1. pc'[o] = "catchup" /\ catchup'[o].at = r.next /\ catchup'[o].to = next - 1
    BY <1>t, <1>5 DEF Resume, CatchUpFrom, TypeInv, TypeOK
  <2>2. (next - 1) + 1 = next /\ r.next \in r.next .. (next - 1) + 1
    BY <1>1, <1>5
  <2> QED
    BY <1>2, <1>3, <1>4, <2>1, <2>2 DEF ObserverOk, DiskOk
<1>6. CASE next = r.next
  <2>1. pc'[o] = "idle"
    BY <1>t, <1>1, <1>6 DEF Resume, TypeInv, TypeOK
  <2> QED
    BY <1>2, <1>3, <1>4, <1>6, <2>1 DEF ObserverOk, DiskOk
<1> QED
  BY <1>1, <1>5, <1>6

(* The steps of an observer's window. *)
LEMMA ObserverHoldsStep ==
  ASSUME LedgerFacts, LockstepInv, [Next]_vars, NEW o \in Observers,
         \/ o \in Validators /\ ValidatorStep(o)
         \/ o \in Auditors /\ RestartAuditor(o)
         \/ StopObserver(o) \/ ProcessWindow(o) \/ SaveState(o)
  PROVE  ObserverOk(o)'
<1> USE DEF chainVars, bucketVars, diskVars, procVars
<1>t. /\ TypeInv /\ LedgerInv /\ o \in Nodes /\ ObserverOk(o) /\ ObserverOk(leader)
      /\ leader \in Nodes /\ leader \in Observers /\ leader' = leader
  BY NodeKinds, LeaderKind, SharedWriters DEF LedgerFacts, LockstepInv, ObserversOk
<1>w. /\ window[o] \in Windows /\ saved[o] \in Windows /\ ckpt[o] \in Replica /\ ckpt[o].next \in Windows
      /\ head \in Int /\ window[o] \in Int /\ 0 <= window[o] /\ theta[o] \in Theta
  BY <1>t DEF TypeInv, TypeOK, Windows, Replica
<1>z. /\ Past(L, 0) /\ StateAt(L, InitTheta, 0) /\ InitReplica \in Replica
      /\ InitReplica.next = 0 /\ InitReplica.theta = InitTheta /\ Closed(0) /\ 0 \in Windows
  BY FirstWindow, InitialTypes DEF Past, StateAt, Windows, InitReplica, Closed
<1>p. PICK u \in {theta[o]}, y \in Int : u = theta[o] /\ y = window[o] /\ y >= 0
  BY <1>w
<1>c. Closed(y) /\ Closed(y)' /\ (GateClosed(y) => GateClosed(y)' /\ Closed(y + 1)')
  <2>1. Closed(y) /\ Closed(y)' /\ (GateClosed(y) => GateClosed(y)')
    BY <1>t, <1>p, GatesStep DEF ObserverOk
  <2>2. (y + 1) - 1 = y
    BY <1>p
  <2> QED
    BY <2>1, <2>2 DEF Closed
<1>r. pc[o] \notin {"down", "catchup"} => Reached(u, y)'
  BY <1>t, <1>p, ReachedStep DEF ObserverOk
<1>1. CASE o \in Validators /\ RestartValidator(o)
  <2>1. DiskOk(o)'
    BY <1>1, DiskFrame DEF RestartValidator
  <2>2. CASE saved[o] = 0 \/ ckpt[o] = InitReplica
    <3>1. Resume(o, InitReplica, 0)
      BY <1>1, <2>2 DEF RestartValidator
    <3> QED
      BY <1>z, <2>1, <3>1, ObserverResumes
  <2>3. CASE ~(saved[o] = 0 \/ ckpt[o] = InitReplica)
    <3> DEFINE next == Later(saved[o], ckpt[o].next)
    <3>1. Resume(o, ckpt[o], next)
      BY <1>1, <2>3 DEF RestartValidator
    <3>2. next \in Windows /\ next >= ckpt[o].next /\ next \in {saved[o], ckpt[o].next}
      BY <1>w DEF Later, Windows
    <3>3. Closed(next)
      BY <1>t, <1>w, <3>2, PastClosed DEF ObserverOk
    <3> HIDE DEF next
    <3> QED
      BY <1>t, <1>w, <2>1, <3>1, <3>2, <3>3, ObserverResumes DEF ObserverOk
  <2> QED
    BY <2>2, <2>3
<1>2. CASE o \in Auditors /\ RestartAuditor(o)
  <2>1. /\ Newest(o) \in {ckpt[o], ckpt[leader]}
        /\ Materialized(o) \in {InitReplica, Newest(o)}
        /\ Materialized(o) \in Replica
    BY <1>t, MaterializedType DEF Newest, Materialized
  <2>2. /\ Past(L, Newest(o).next) /\ StateAt(L, Newest(o).theta, Newest(o).next)
        /\ Past(L, Materialized(o).next) /\ StateAt(L, Materialized(o).theta, Materialized(o).next)
        /\ Materialized(o).next \in Windows
    BY <1>t, <1>z, <2>1 DEF ObserverOk, Replica
  <2>3. DiskOk(o)'
    <3>1. ckpt'[o] = Newest(o) /\ UNCHANGED saved
      BY <1>t, <1>2 DEF RestartAuditor, TypeInv, TypeOK
    <3>2. Closed(saved[o])'
      BY <1>t, <1>w, <3>1, GatesStep DEF ObserverOk, Windows
    <3> QED
      BY <2>2, <3>1, <3>2, CertsStep DEF DiskOk
  <2> DEFINE next == Later(saved[o], Materialized(o).next)
  <2>4. next \in Windows /\ next >= Materialized(o).next /\ next \in {saved[o], Materialized(o).next}
    BY <1>w, <2>2 DEF Later, Windows
  <2>5. Closed(next)
    BY <1>t, <2>2, <2>4, PastClosed DEF ObserverOk
  <2>6. Resume(o, Materialized(o), next)
    BY <1>2 DEF RestartAuditor
  <2> HIDE DEF next
  <2> QED
    BY <2>1, <2>2, <2>3, <2>4, <2>5, <2>6, ObserverResumes
<1>3. CASE o \in Validators /\ SkipAhead(o)
  <2>1. /\ pc[o] = "idle" /\ pc'[o] = "catchup" /\ UNCHANGED <<window, theta, ckpt, saved>>
        /\ catchup'[o].at = y /\ catchup'[o].to = head - 2
    BY <1>t, <1>p, <1>3 DEF SkipAhead, CatchUpFrom, TypeInv, TypeOK
  <2>2. y <= head - 2
    BY <1>w, <1>p, <1>3, ConstantsAssumption DEF SkipAhead
  <2>3. Closed((head - 2) + 1)
    <3>1. ((head - 2) + 1) - 1 = head - 2 /\ GateClosed(head - 2)
      BY <1>w DEF GateClosed
    <3> QED
      BY <3>1 DEF Closed
  <2>4. PICK h \in Int : h = head
    BY <1>w
  <2>5. Closed((h - 2) + 1)'
    BY <1>t, <2>3, <2>4, GatesStep
  <2>6. y \in y .. (h - 2) + 1
    BY <1>p, <2>2, <2>4
  <2>7. DiskOk(o)'
    BY <2>1, DiskFrame
  <2> QED
    BY <1>p, <1>c, <1>r, <2>1, <2>4, <2>5, <2>6, <2>7 DEF ObserverOk, DiskOk
<1>4. CASE o \in Validators /\ (PutCertificate(o) \/ PutMirror(o))
  <2>1. /\ pc[o] \in {"certify", "mirror"} /\ pc'[o] \in {"mirror", "save"}
        /\ UNCHANGED <<window, theta, catchup, ckpt, saved>>
    BY <1>t, <1>4 DEF PutCertificate, PutMirror, TypeInv, TypeOK
  <2>2. DiskOk(o)'
    BY <2>1, DiskFrame
  <2> QED
    BY <1>t, <1>p, <1>c, <1>r, <2>1, <2>2 DEF ObserverOk, DiskOk
<1>5. CASE o \in Validators /\ LeaderCheckpoint(o)
  <2>1. /\ pc[o] = "checkpoint" /\ pc'[o] = "idle" /\ UNCHANGED <<window, theta, saved>>
    BY <1>t, <1>5 DEF LeaderCheckpoint, TypeInv, TypeOK
  <2>2. ckpt' = [ckpt EXCEPT ![o] = [next |-> y, theta |-> u]] \/ UNCHANGED ckpt
    BY <1>5, <1>p, SaveCheckpointWrites DEF LeaderCheckpoint
  <2>3. o = leader /\ Past(L, y) /\ StateAt(L, u, y)
    BY <1>t, <1>p, <2>1 DEF LedgerInv, LeaderOnly, LeaderInv, LeaderBehind, LeaderReplica
  <2>4. \/ ckpt'[o].next = y /\ ckpt'[o].theta = u
        \/ ckpt'[o] = ckpt[o]
    BY <1>t, <2>2 DEF TypeInv, TypeOK
  <2>5. Past(L, ckpt[o].next)' /\ StateAt(L, ckpt[o].theta, ckpt[o].next)'
    BY <1>t, <2>3, <2>4, CertsStep DEF ObserverOk
  <2>6. Closed(saved[o])'
    BY <1>t, <1>w, <2>1, GatesStep DEF ObserverOk, Windows
  <2> QED
    BY <1>p, <1>c, <1>r, <2>1, <2>5, <2>6 DEF ObserverOk
<1>6. CASE StopObserver(o)
  <2>1. saved'[o] = y /\ UNCHANGED ckpt /\ GoDown(o)
    BY <1>t, <1>p, <1>6 DEF StopObserver, TypeInv, TypeOK
  <2>2. DiskOk(o)'
    BY <1>t, <1>c, <2>1, CertsStep DEF ObserverOk, DiskOk
  <2> QED
    BY <2>1, <2>2, ObserverGoesDown
<1>7. CASE ProcessWindow(o)
  <2>1. /\ pc[o] = "idle" /\ pc'[o] \in {"certify", "save"} /\ GateClosed(y)
        /\ UNCHANGED <<window, theta, ckpt, saved>>
    BY <1>t, <1>p, <1>7 DEF ProcessWindow, TypeInv, TypeOK
  <2>2. catchup'[o].at = y /\ catchup'[o].to = y
    <3>1. \E then : CatchUpFrom(o, window[o], window[o], then)
      BY <1>7 DEF ProcessWindow
    <3> QED
      BY <1>t, <1>p, <3>1 DEF CatchUpFrom, TypeInv, TypeOK
  <2>3. DiskOk(o)'
    BY <2>1, DiskFrame
  <2> QED
    BY <1>p, <1>c, <1>r, <2>1, <2>2, <2>3 DEF ObserverOk, DiskOk
<1>8. CASE SaveState(o)
  <2>1. /\ pc[o] = "save" /\ pc'[o] = "catchup" /\ window'[o] = y + 1 /\ saved'[o] = y + 1
        /\ UNCHANGED <<theta, ckpt, catchup>>
    BY <1>t, <1>p, <1>8 DEF SaveState, TypeInv, TypeOK
  <2>2. /\ catchup[o].at = y /\ catchup[o].to = y /\ GateClosed(y) /\ y \in y .. y + 1
    BY <1>t, <1>p, <2>1 DEF ObserverOk
  <2>3. Past(L, ckpt[o].next)' /\ StateAt(L, ckpt[o].theta, ckpt[o].next)'
    BY <1>t, <2>1, CertsStep DEF ObserverOk
  <2> QED
    BY <1>p, <1>c, <1>r, <2>1, <2>2, <2>3 DEF ObserverOk
<1> QED
  BY <1>1, <1>2, <1>3, <1>4, <1>5, <1>6, <1>7, <1>8 DEF ValidatorStep

(* The windows an observer takes for empty in a catch-up are empty for      *)
(* ever: their gates have closed, and the slots show no commit.             *)
LEMMA ObserverHoldsCatchUp ==
  ASSUME LedgerFacts, LockstepInv, [Next]_vars, NEW o \in Observers, CatchUpStep(o) \/ Crash(o)
  PROVE  ObserverOk(o)'
<1> USE DEF chainVars, bucketVars, diskVars, procVars, AtWindow, Replaying
<1>t. TypeInv /\ LedgerInv /\ o \in Nodes /\ ObserverOk(o)
  BY NodeKinds DEF LedgerFacts, LockstepInv, ObserversOk
<1>d. UNCHANGED <<ckpt, saved>>
  BY DEF CatchUpStep, CatchUpApply, CatchUpEmpty, CatchUpPending, CatchUpError, CatchUpIOError,
         CatchUpDone, Crash
<1>k. DiskOk(o)'
  BY <1>d, DiskFrame
<1>1. CASE (CatchUpPending(o) \/ CatchUpError(o) \/ CatchUpIOError(o) \/ Crash(o)) /\ GoDown(o)
  BY <1>1, <1>k, ObserverGoesDown
<1>2. ASSUME pc[o] = "catchup", ~GoDown(o) PROVE ObserverOk(o)'
  <2>r. catchup[o] \in Catchup
    BY <1>t DEF TypeInv, TypeOK
  <2>a. catchup[o].at \in Windows /\ catchup[o].to \in Windows \cup {-1} /\ catchup[o].lo \in Windows
    BY <2>r DEF Catchup
  <2>b. catchup[o].lo <= catchup[o].at /\ catchup[o].at <= catchup[o].to + 1
    BY <1>t DEF TypeInv, Bounds
  <2>w. Windows \subseteq Int /\ (\A w \in Windows : 0 <= w) /\ Windows \cup {-1} \subseteq Int
    BY ConstantsAssumption DEF Windows
  <2>0. PICK u \in {theta[o]}, a \in Windows, e \in Int, b \in Windows :
          /\ u = theta[o] /\ a = catchup[o].at /\ e = catchup[o].to /\ b = catchup[o].lo
          /\ a \in Int /\ 0 <= a /\ b \in Int /\ 0 <= b /\ b <= a /\ a <= e + 1
    BY <2>a, <2>b, <2>w
  <2>1. PICK y \in a .. e + 1 : Reached(u, y)
    BY <1>t, <1>2, <2>0 DEF ObserverOk
  <2>2. y \in Int /\ y >= 0
    BY <2>0, <2>1
  <2>3. Closed(window[o]) /\ Closed(e + 1) /\ Closed(e + 1)' /\ window[o] \in Int
    <3>1. Closed(window[o]) /\ Closed(e + 1) /\ e + 1 \in Int /\ window[o] \in Int
      BY <1>t, <1>2, <2>0 DEF ObserverOk, TypeInv, TypeOK, Windows
    <3> QED
      BY <1>t, <3>1, GatesStep
  <2>4. PICK x \in Int : x = window[o] /\ Closed(x)'
    BY <1>t, <2>3, GatesStep
  <2>5. CASE CatchUpApply(o)
    <3>1. /\ HasCert(L, a) /\ L[a].root = u /\ a <= e /\ theta'[o] = Leads(L, a)
          /\ catchup'[o].at = a + 1 /\ catchup'[o].to = e /\ UNCHANGED <<pc, window>>
      BY <1>t, <2>0, <2>5, OuterStepLeads
      DEF CatchUpApply, Certified, Cert, HasCert, L, TypeInv, TypeOK, Catchup
    <3>2. PICK z : z = Leads(L, a) /\ Reached(z, a + 1)
      BY <2>1, <2>2, <3>1, ReachedApply
    <3>3. Reached(z, a + 1)'
      BY <2>0, <3>2, ReachedStep
    <3>4. a + 1 \in a + 1 .. e + 1
      BY <2>0, <3>1
    <3> QED
      BY <1>2, <1>k, <2>3, <2>4, <3>1, <3>2, <3>3, <3>4 DEF ObserverOk, DiskOk
  <2>6. CASE CatchUpEmpty(o)
    <3>1. /\ ~HasCert(L, a) /\ Committers(a) = {} /\ a <= e
          /\ catchup'[o].at = a + 1 /\ catchup'[o].to = e /\ UNCHANGED <<pc, window, theta>>
      BY <1>t, <2>0, <2>6 DEF CatchUpEmpty, Certified, Cert, HasCert, L, TypeInv, TypeOK, Catchup
    <3>2. Quiet(a)
      <4>1. Stored(a) = {}
        BY <3>1, SlotsShowStored DEF LockstepInv
      <4>2. GateClosed(e)
        <5>1. (e + 1) - 1 = e /\ e + 1 # 0
          BY <2>0, <3>1
        <5> QED
          BY <2>3, <5>1 DEF Closed
      <4>3. GateClosed(a)
        <5>1. head \in Int
          BY <1>t DEF TypeInv, TypeOK, Windows
        <5> QED
          BY <2>0, <3>1, <4>2, <5>1 DEF GateClosed
      <4> QED
        BY <4>1, <4>3 DEF Quiet
    <3>3. Reached(u, a + 1)
      BY <2>0, <2>1, <2>2, <3>1, <3>2, ReachedEmpty
    <3>4. Reached(u, a + 1)'
      BY <2>0, <3>3, ReachedStep
    <3>5. a + 1 \in a + 1 .. e + 1
      BY <2>0, <3>1
    <3> QED
      BY <1>2, <1>k, <2>0, <2>3, <2>4, <3>1, <3>4, <3>5 DEF ObserverOk, DiskOk
  <2>7. CASE Retry(o)
    <3>1. /\ catchup'[o].at = b /\ catchup'[o].to = e /\ UNCHANGED <<pc, window, theta>>
      BY <1>t, <2>0, <2>7 DEF Retry, TypeInv, TypeOK, Catchup
    <3>2. Reached(u, y)' /\ y \in b .. e + 1
      BY <2>0, <2>1, <2>2, ReachedStep
    <3> QED
      BY <1>2, <1>k, <2>0, <2>3, <2>4, <3>1, <3>2 DEF ObserverOk, DiskOk
  <2>8. CASE CatchUpDone(o)
    <3>1. /\ a = e + 1 /\ window'[o] = a /\ pc'[o] \in {"idle", "checkpoint"} /\ UNCHANGED theta
      BY <1>t, <2>0, <2>8 DEF CatchUpDone, TypeInv, TypeOK, Catchup
    <3>2. Reached(u, a)' /\ Closed(a)'
      BY <2>0, <2>1, <2>2, <2>3, <3>1, ReachedStep
    <3> QED
      BY <1>k, <2>0, <3>1, <3>2 DEF ObserverOk, DiskOk
  <2> QED
    BY <1>2, <2>5, <2>6, <2>7, <2>8
    DEF CatchUpStep, CatchUpPending, CatchUpError, CatchUpIOError, Crash
<1>3. pc[o] = "catchup" \/ (Crash(o) /\ GoDown(o))
  BY DEF CatchUpStep, CatchUpApply, CatchUpEmpty, CatchUpPending, CatchUpError, CatchUpIOError,
         CatchUpDone, Crash
<1>4. CASE GoDown(o)
  BY <1>4, <1>k, ObserverGoesDown
<1> QED
  BY <1>2, <1>3, <1>4

LEMMA ObserversStep ==
  ASSUME LedgerFacts, LockstepInv, [Next]_vars
  PROVE  ObserversOk'
<1> SUFFICES ASSUME NEW o \in Observers PROVE ObserverOk(o)'
  BY DEF ObserversOk
<1>o. o \in Nodes /\ o \notin Miners /\ TypeInv
  BY NodeKinds, ConstantsAssumption DEF Observers, LedgerFacts
<1>1. CASE Tick \/ UNCHANGED vars
  BY <1>1, ObserverFrame DEF Tick, vars, chainVars, bucketVars, diskVars, procVars
<1>2. ASSUME NEW n \in Nodes, NodeStep(n), n # o PROVE ObserverOk(o)'
  <2>1. Others(n)
    BY <1>o, <1>2, NodeAlone
  <2> QED
    BY <1>o, <1>2, <2>1, ObserverFrame DEF Others
<1>3. CASE NodeStep(o)
  BY <1>o, <1>3, ObserverHoldsStep, ObserverHoldsCatchUp DEF NodeStep
<1> QED
  BY <1>1, <1>2, <1>3, StepKinds

LEMMA LockstepStep ==
  ASSUME ~CertReadsFail
  PROVE  LedgerFacts /\ LockstepInv /\ [Next]_vars => LockstepInv'
BY MinersStep, CertsOkStep, ObserversStep DEF LockstepInv

LEMMA LedgerFactsInvariant ==
  ASSUME ~CertReadsFail
  PROVE  Spec => []LedgerFacts
BY TypeInit, TypeStep, LedgerInit, LedgerStep, UnbrokenInit, UnbrokenStep, PTL DEF Spec, LedgerFacts

(* A payload that was committed and stored inside the gate is in the        *)
(* certificate of its window, up to gather_peer_count, however late the     *)
(* leader reads the slots and whatever crashes in between.                  *)
THEOREM PayloadsKept ==
  ASSUME ~CertReadsFail
  PROVE  Spec => []NoInGatePayloadLost
<1>1. LedgerFacts /\ LockstepInv => NoInGatePayloadLost
  BY LockstepMeaning
<1> QED
  BY LedgerFactsInvariant, LockstepInit, LockstepStep, <1>1, PTL DEF Spec

(* A validator or auditor that is about to process a window, or to publish, *)
(* save or checkpoint it, holds theta_start of it: what it took for an      *)
(* empty window is one, even when the leader certifies it later.            *)
THEOREM ObserversCorrect ==
  ASSUME ~CertReadsFail
  PROVE  Spec => []ObserversInLockstep
<1>1. LedgerFacts /\ LockstepInv => ObserversInLockstep
  BY LockstepMeaning
<1> QED
  BY LedgerFactsInvariant, LockstepInit, LockstepStep, <1>1, PTL DEF Spec
=============================================================================
