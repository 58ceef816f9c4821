CONSTANTS s1 = s1 s2 = s2 s3 = s3
    Ranks = {0}
    Lead = 0
    Shards = {s1, s2, s3}
    Draw = 2
    Budget = 2
    Disjoint = FALSE
    MaxWindow = 3
    MaxFaults = 0
SPECIFICATION Spec
SYMMETRY ShardSymmetry
CHECK_DEADLOCK FALSE
PROPERTIES PinnedNeverEvicted
