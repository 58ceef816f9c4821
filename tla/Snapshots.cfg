CONSTANTS
    MaxWindow = 3
    Cadence = 1
    KeepLocal = 2
    Attempts = 2
    TarChunks = 2
    Shared = FALSE
    MaxFaults = 3
    MaxRollbacks = 1
SPECIFICATION Spec
CHECK_DEADLOCK FALSE
INVARIANTS TypeOK RestoredWhole
PROPERTIES RestoreEnds
