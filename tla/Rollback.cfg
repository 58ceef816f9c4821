CONSTANTS
  Validators = {0, 1}
  Owner = 0
  Stakes <- MovingStakes
  OtherStake = 2
  Losses = {1, 2}
  Threshold = 0
  Baseline = 1
  VoteSpan = 1
  ActivationDelay = 1
  CheckpointEvery = 3
  KeepLocal = 2
  FarBehind = 2
  MaxWindow = 3
  MaxIdle = 1
  MaxMoves = 1
  MaxFaults = 1
  Identity = Identity
  Manifest = Manifest
  NoVote = NoVote
  None = None
SPECIFICATION Spec
CHECK_DEADLOCK FALSE
INVARIANTS TypeOK PendingBacked RewindTargetOnDisk
PROPERTIES OpenVotesSurvive
