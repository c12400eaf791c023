SPECIFICATION TurnsSpec
CONSTANTS
    None = None
    NoLock = NoLock
    w1 = w1
    w2 = w2
    w3 = w3
    w4 = w4
    api = api
    seed = seed
    second = second
    Writers <- MCTwoWriters
    Processes <- MCProcesses
    ProcessOf <- MCProcessOfTwo
    MaxMutations = 2
    MaxPolls = 1
    MaxCrashes = 1
    keyA = keyA
    keyB = keyB
    keyC = keyC
    payload = payload
    Identities <- MCIdentities
    Payloads <- MCPayloads
    MaxAttempts = 2
    MaxRetained = 1
    MaxJobs = 5
INVARIANTS
    NoJobIsLost
    NoLostWakeup
    LookupsAreSafe
    RetentionIsBounded
    OneWriterAtATime
    NoUpdateIsLost
    NoLockIsOrphaned
PROPERTIES
    QueueKeepsPromise
    EveryJobSettles
    EveryMutationEnds
CHECK_DEADLOCK FALSE
