SPECIFICATION Spec
CONSTANTS
  Owner = "owner"
  Miners = {"miner"}
  Auditors = {"miner"}
  Replaceable = {"miner"}
  Misconfigured = {}
  MaxManifest = 2
  MaxCreds = 1
  MaxBlock = 5
  MaxWindows = 1
  LookbackBlocks = 2
  LookbackHops = 2
  UnreadOnboarding = TRUE
\* Each one is violated: leave one, drop the others.
INVARIANTS OnboardingSucceeds RunningFollowManifest OwnerStaysReachable NoChimera BucketsComeFirst
PROPERTIES VoteRestoresManifest
CHECK_DEADLOCK FALSE
