SPECIFICATION Spec
CONSTANTS
    None = None
    p1 = p1
    p2 = p2
    Proposals <- MCOneProposal
    PublishedInOrder = TRUE
    MaxWrites = 2
    MaxFaults = 1
    MaxCalls = 2
    MaxFollows = 2
INVARIANTS
    QuietViewIsCurrent
CHECK_DEADLOCK FALSE
