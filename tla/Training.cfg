\* Two windows with a certificate each, one crash, one amendment; a node of two
\* ranks that attests, and one that mines.
SPECIFICATION Spec
CHECK_DEADLOCK FALSE
CONSTANTS
    TargetChunk = 2
    TopK = 3
    Bins = 4
    RangeSigmas = 6
    ScaleFloor = 1
    ScaleCeil = 1000
    WireVersion = 1
    MaxBytes = 60
    DigestOf <- MCDigest
    SeedOf <- MCSeed
    InitModel <- MCInit
    AttestSteps = 2
    AttestWorld = 2
    AttestShards = 2
    Deadline = 1
    LastBlock = 2
    LastTick = 2
    EvalSequences = 2
    RampStart = 1
    RampTokens = 3
    NumExperts = 2
    EpSize = 1
    GradClip = 7
    BiasRate = 1
    Uid = 1
    Peer = 2
    Warmup = 1
    LastWindow = 2
    MaxStarts = 2
    MaxAmendments = 1
    NameOrder <- MCNameOrder
    MomentumOf <- MCHalf
    Defaults <- MCDefaults
    Datasets <- MCDatasets
    Permute <- MCPermute
    Shapes <- MCShapes
    ExpertNames = {"routed"}
    BiasNames = {"balance_bias"}
    Wrap <- MCWrap
    Backward <- MCBackward
    Dispatch <- MCDispatch
    Layouts <- MCLayouts
    Manifest0 <- MCManifest0
    Amendments <- MCAmendments
    Whole0 <- MCWhole0
    Decay <- MCHalf
INVARIANTS TypeOK RanksInLockstep HonestWindowsReplay CountersAreConsensus FramesReceivable
