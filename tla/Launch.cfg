SPECIFICATION FairSpec
CONSTANTS
  Owner = "owner"
  Miners = {"miner"}
  Auditors = {"miner"}
  Replaceable = {"miner"}
  Misconfigured = {}
  MaxManifest = 2
  MaxCreds = 2
  MaxBlock = 4
  MaxWindows = 1
  LookbackBlocks = 2
  LookbackHops = 2
  UnreadOnboarding = FALSE
INVARIANTS TypeOK RunsCommitted CredentialsAreTheUids BucketsComeFirst
PROPERTIES NodesComeUp
CHECK_DEADLOCK FALSE
