CONSTANTS
    Confirmations = 0
    BatchSize = 3
    Modes = {"dense", "sparse"}
    BlockLogs <- SomeLogs
    Lagging = {"discovery"}
    MaxHeight = 3
    MaxMishaps = 2
SPECIFICATION FairSpec
INVARIANTS
    RecoveryHasItsHeaders
PROPERTIES
    
    CanonicalRangesKept
    CatchesUp
CHECK_DEADLOCK FALSE
