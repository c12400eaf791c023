SPECIFICATION EdgesSpec
CONSTANTS
    a = a
    b = b
    p = p
    q = q
    r = r
    Calls = {1, 2, 3}
    MaxConcurrent = 2
    Days = {a, b}
    WarningsOf <- MCWarningsOf
    Findings <- MCFindings
    Known = {a, b}
    Answers <- MCAnswers
    Sockets = {1, 2}
    Productions = {p, q, r}
    Allowed = {p, q}
    MaxPerAddress = 1
    MaxSubscriptions = 1
    MessageRate = 2
    MaxMessages = 3
    Keys = {1, 2}
    Limit = 2
    Window = 2
    SweepAbove = 0
    LastSecond = 3
    Slots = {1, 2}
    Offers <- MCOffers
    Addresses = {1, 2}
    Subjects = {"jane", "ben"}
    AllowedProductionIds = {p, q}
    Wired = {"apply"}
    DemoSession = TRUE
    RequestsPerMinute = 1
    WritesPerMinute = 1
    Minute = 2
    SweptAbove = 1
    Skew = 1
    LastTick = 2
    Homes = {p, q}
    Nothing = Nothing
    MaxTracked = 1
    MaxOpens = 2
    MaxFailures = 1
    MaxOnTheirWay = 2
INVARIANTS
    GuardedCallsAreHonest
    GatewayKeepsItsLimits
    QuotaIsKept
    CallsAreAdmitted
    ConsoleIsConsistent
PROPERTY
    EveryModelCallSettles
CHECK_DEADLOCK FALSE
