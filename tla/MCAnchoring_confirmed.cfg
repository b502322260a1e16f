SPECIFICATION Spec
CONSTANTS
    BatchSize = 2
    FlushLimit = 2
    MayRevert = TRUE
    MaxEvents = 2
    MaxBatches = 2
    MaxTroubles = 0
INVARIANT MarkedOnConfirmation
CHECK_DEADLOCK FALSE
