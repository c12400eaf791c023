SPECIFICATION Spec
CONSTANTS
    None = None
    p1 = p1
    p2 = p2
    c1 = c1
    planA = planA
    planB = planB
    k1 = k1
    k2 = k2
    maker = maker
    checker = checker
    r1 = r1
    r2 = r2
    ProposalIds <- MCProposalIds
    ChangeRequests <- MCChangeRequests
    Plans <- MCOnePlan
    Keys <- MCOneKey
    Principals <- MCPrincipals
    Approvers <- MCApprovers
    Requests <- MCRequests
    CreatedBy <- MCCreatedBy
    Clean <- MCClean
    MakerChecker = TRUE
    AtomicLoad = TRUE
    FirstVersion = 1
SYMMETRY Symmetry
PROPERTY
    RejectedIsNotRevived
