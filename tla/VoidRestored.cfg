CONSTANTS
    MaxWindow = 2
    Cadence = 1
    KeepLocal = 2
    Attempts = 2
    TarChunks = 2
    Shared = FALSE
    MaxFaults = 0
    MaxRollbacks = 1
SPECIFICATION Spec
CHECK_DEADLOCK FALSE
PROPERTY RestoredNotVoid
