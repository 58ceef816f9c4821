CONSTANTS
  Miners = {m1}
  Validators = {v1, v2}
  Auditors = {a1}
  FirstLeader = v1
  GatherCount = 1
  CheckpointEvery = 2
  FarBehind = 1
  MaxWindow = 2
  MaxFaults = 1
  CertReadsFail = FALSE
  NoCert = NoCert
SPECIFICATION Spec
CHECK_DEADLOCK FALSE
INVARIANTS ObserversInLockstep OnCertifiedLineage
