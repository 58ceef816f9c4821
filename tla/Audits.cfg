CONSTANTS
    Miners = {1, 2}
    Auditors = {11, 12, 13}
    Cheats = {2}
    Drifting = {1}
    Broken = {13}
    Sampled <- AllSampled
    Quorum = 2
    Deadline = 1
    SkipAfter = 2
    CheckpointEvery = 2
    MaxWindow = 3
    MaxFaults = 1
SPECIFICATION Spec
CHECK_DEADLOCK FALSE
INVARIANTS TypeOK NoFalseConviction SentencesRestOnAQuorum
