SPECIFICATION VerifierSpec
CONSTANTS
    District = {mityana, wakiso}
    Payload = {issued, revoked}
    Process = {api}
    Writer = {loop, thread}
    ProcessOf <- OneProcess
    NoJob = NoJob
    MaxRows = 3
    Batch = 2
    MaxEdits = 2
    api = api
    cron = cron
    loop = loop
    thread = thread
    script = script
INVARIANTS
    VerifierTypeOK
    ChainContiguous
    ChainKeepsWrites
    DivergenceProvesTampering
    VerifiedMeansIntact
SYMMETRY Interchangeable
CHECK_DEADLOCK FALSE
