SPECIFICATION CosignSpec
CONSTANTS
    d1 = d1
    b1 = b1
    r1 = r1
    Flushed <- MCFlushed
    c1 = c1
    c2 = c2
    Signer = {s1, c1, c2, x1, x2}
    Deployer = s1
    Project = s1
    CoSigners <- MCCoSigners
    Multisig = multisig
    Threshold = 3
    District = {d1}
    BatchId = {b1}
    Root = {r1, r2}
    ZeroRoot = zero
    NoAnchor = NoAnchor
    Grantee = {s1, x1}
    MaxInterventions = 1
    MaxTroubles = 1
INVARIANTS
    CosignTypeOK
    ThresholdSigned
    ExecutedIsAnchored
    ReportedIsAnchored
PROPERTIES
    BypassNeedsTheAdmin
    CreatedIsExecuted
CHECK_DEADLOCK FALSE
