CONSTANTS
  Miners = {m1}
  Validators = {v1}
  Auditors = {}
  FirstLeader = v1
  GatherCount = 1
  CheckpointEvery = 1
  FarBehind = 1
  MaxWindow = 2
  MaxFaults = 1
  CertReadsFail = TRUE
  NoCert = NoCert
SPECIFICATION Spec
CHECK_DEADLOCK FALSE
PROPERTIES CertificatesImmutable
