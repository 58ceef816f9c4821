CONSTANTS
    MaxWindow = 2
    Cadence = 1
    KeepLocal = 2
    Attempts = 2
    TarChunks = 2
    Shared = TRUE
    MaxFaults = 1
    MaxRollbacks = 0
SPECIFICATION Spec
CHECK_DEADLOCK FALSE
INVARIANT RestoredWhole
