CONSTANTS
  Miners = {m1}
  Validators = {v1, v2}
  Auditors = {}
  FirstLeader = v1
  GatherCount = 1
  CheckpointEvery = 1
  FarBehind = 2
  MaxWindow = 2
  MaxFaults = 0
  CertReadsFail = FALSE
  NoCert = NoCert
  MaxHandovers = 1
SPECIFICATION SpecH
CHECK_DEADLOCK FALSE
INVARIANTS NoForkedCertificates
