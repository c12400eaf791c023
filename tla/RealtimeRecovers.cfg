SPECIFICATION FairSpec
CONSTANTS
    None = None
    p1 = p1
    p2 = p2
    Proposals <- MCOneProposal
    PublishedInOrder = TRUE
    MaxWrites = 3
    MaxFaults = 1
    MaxCalls = 3
    MaxFollows = 1
INVARIANTS
    QuietViewIsCurrent
    RecoveryIsSound
PROPERTIES
    EveryViewConverges
CHECK_DEADLOCK FALSE
