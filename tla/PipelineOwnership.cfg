SPECIFICATION Spec
CONSTANTS
    None = None
    run1 = run1
    run2 = run2
    key1 = key1
    Runs <- MCOneRun
    Keys <- MCOneKey
    Identities <- MCIdentities
    Payloads <- MCPayloads
    MaxAttempts = 2
    MaxRetained = 3
    MaxJobs = 2
    MaxProposals = 1
    MaxRestarts = 1
INVARIANTS
    PipelineTypeOK
    NoRunIsStranded
    VerifyingMeansApplied
CHECK_DEADLOCK FALSE
