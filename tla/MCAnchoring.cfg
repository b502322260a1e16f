SPECIFICATION FairSpec
CONSTANTS
    BatchSize = 2
    FlushLimit = 3
    MayRevert = TRUE
    MaxEvents = 3
    MaxBatches = 4
    MaxTroubles = 1
INVARIANTS
    TypeOK
    ProofMatchesRoot
    VerdictMatchesChain
    InclusionProofsAreExact
PROPERTIES
    ImplementsAnchoredLog
    EventuallyOnChain
CHECK_DEADLOCK FALSE
