SPECIFICATION Spec
CONSTANTS
    None = None
    p1 = p1
    c1 = c1
    planA = planA
    k1 = k1
    k2 = k2
    r1 = r1
    r2 = r2
    r3 = r3
    s1 = s1
    s2 = s2
    u1 = u1
    u2 = u2
    u3 = u3
    ProposalIds = {p1}
    ChangeRequests = {c1}
    Plans = {planA}
    Keys = {k1, k2}
    Principals = {r1, r2, r3}
    Clean = {}
    AtomicLoad = FALSE
    FirstVersion = 1
    Requests = {r1, r2, r3}
    Starters = {s1, s2}
    Updaters = {u1, u2, u3}
    UpdateAttempts = 2
SYMMETRY Symmetry
INVARIANT
    StoreKeepsItsWord
PROPERTY
    StoreIsAtomic
CHECK_DEADLOCK FALSE
