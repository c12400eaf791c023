SPECIFICATION Spec
CONSTANTS
    NoLock = NoLock
    w1 = w1
    w2 = w2
    w3 = w3
    w4 = w4
    api = api
    seed = seed
    second = second
    Writers <- MCThreeWriters
    Processes <- MCProcesses
    ProcessOf <- MCProcessOfThree
    MaxMutations = 2
    MaxPolls = 2
    MaxCrashes = 1
INVARIANTS
    NoUpdateIsLost
CHECK_DEADLOCK FALSE
