CONSTANTS
    Order <- TwoSources
    DedupOrder <- SmallestFirst
    Stream <- Streams
    Budget <- Budgets
    Blank = 0
    Workers = 2
    PartDocs = 2
    SeqLen = 2
    ShardSequences = 1
    Flags <- DedupFlags
    Steady = FALSE
    MaxFaults = 1
SPECIFICATION PrepSpec
CHECK_DEADLOCK FALSE
INVARIANTS CommittedIsTheCorpus
