CONSTANTS
  Miners = {m1, m2}
  Validators = {v1}
  Auditors = {}
  FirstLeader = v1
  GatherCount = 1
  CheckpointEvery = 1
  FarBehind = 1
  MaxWindow = 2
  MaxFaults = 1
  CertReadsFail = FALSE
  NoCert = NoCert
SPECIFICATION Spec
CHECK_DEADLOCK FALSE
SYMMETRY MinerSymmetry
INVARIANTS TypeOK CertificateChain NoInGatePayloadLost OnCertifiedLineage
PROPERTIES CertificatesImmutable
