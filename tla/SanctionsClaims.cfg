CONSTANTS
    Miners = {1, 2}
    Losses = {2, 3}
    AlphaInverse = 2
    Unit = 2
    Skills = {2}
    Slices = {"unread", "same", "differ"}
    SyncMaxBehind = 2
    Uploads <- MCUploads
    GatherCount = 1
    ReserveCount = 1
    GatherShare = 3
    ReserveShare = 1
    TopRatio = 2
    DecayInverse = 2
    Deadline = 1
    Span = 3
    Cadence = 2
    Readings <- MCReadings
    SkipAfter = 9
    CheckpointEvery = 2
    Voids = {1}
    MaxWindow = 4
    MaxSentences = 2
    MaxFaults = 1
SPECIFICATION Spec
CHECK_DEADLOCK FALSE
INVARIANTS WeightsOnCadence ResumesBehindNothing
PROPERTIES ZeroFromStart
