CONSTANTS s1 = s1 s2 = s2 s3 = s3
    Ranks = {0, 1}
    Lead = 0
    Shards = {s1, s2, s3}
    Draw = 1
    Budget = 2
    Disjoint = TRUE
    MaxWindow = 3
    MaxFaults = 1
SPECIFICATION Spec
SYMMETRY ShardSymmetry
CHECK_DEADLOCK FALSE
INVARIANTS TypeOK TornOnlyUntilScanned
PROPERTIES PinnedNeverEvicted
