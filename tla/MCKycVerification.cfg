SPECIFICATION FairKycSpec
CONSTANTS
    Caller = {c1, c2}
    Threshold = 2
    ResetTimeout = 1
    MaxTimeout = 2
    MaxInterventions = 2
    Owner = {o1}
    Nin = {n1}
    None = None
    MaxChanges = 1
INVARIANTS
    KycTypeOK
    CountDecidesState
    VerifiedWasMatched
PROPERTIES
    DowngradeNeedsDenial
    ClosesAfterOutage
    RejectionHeals
