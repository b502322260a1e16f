SPECIFICATION WorkerSpec
CONSTANTS
    Transfer = {t1}
    NoTransfer = NoTransfer
    MaxAttempts = 2
    MaxRaises = 0
    MaxCrashes = 0
    MaxOutages = 1
    MaxRescores = 0
PROPERTY
    EventuallyScored
