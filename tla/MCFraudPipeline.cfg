SPECIFICATION RecoveringSpec
CONSTANTS
    Transfer = {t1}
    NoTransfer = NoTransfer
    MaxAttempts = 2
    MaxRaises = 2
    MaxCrashes = 1
    MaxOutages = 1
    MaxRescores = 1
INVARIANTS
    PipelineTypeOK
    GateFailsClosed
    OneReviewPerScore
    FlaggedIsQueued
PROPERTY
    EventuallyScored
