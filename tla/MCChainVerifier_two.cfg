SPECIFICATION VerifierSpec
CONSTANTS
    District = {mityana}
    Payload = {issued, revoked}
    Process = {api, cron}
    Writer = {loop, script}
    ProcessOf <- TwoProcesses
    NoJob = NoJob
    MaxRows = 4
    Batch = 2
    MaxEdits = 0
    api = api
    cron = cron
    loop = loop
    thread = thread
    script = script
INVARIANT DivergenceProvesTampering
CHECK_DEADLOCK FALSE
