SPECIFICATION Spec
CONSTANTS
    Nobody = Nobody
    s1 = s1
    s2 = s2
    ghost = ghost
    sarah = sarah
    john = john
    studio = studio
    harbour = harbour
    d1 = d1
    d2 = d2
    d3 = d3
    c1 = c1
    c2 = c2
    NormalName <- MCNormalName
    Productions <- MCProductions
    Changes <- MCChanges
    HandWritten <- MCHandWritten
    MaxWrites = 2
INVARIANTS
    WindowsMeanTheirDays
    ProductionStaysSound
    AnalysisIsExact
    UnavailabilityIsAnswered
    AppliedPlansVerify
    RetriesAreSkipped
CHECK_DEADLOCK FALSE
