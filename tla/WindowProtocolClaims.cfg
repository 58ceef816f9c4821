CONSTANTS
  Miners = {m1, m2}
  Validators = {v1}
  Auditors = {}
  FirstLeader = v1
  GatherCount = 2
  CheckpointEvery = 2
  FarBehind = 1
  MaxWindow = 3
  MaxFaults = 2
  CertReadsFail = FALSE
  NoCert = NoCert
SPECIFICATION Spec
CHECK_DEADLOCK FALSE
\* Each one is violated: leave one, drop the others.
INVARIANTS MinersInLockstep MirrorPersists CheckpointsLabelled
