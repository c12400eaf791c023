SPECIFICATION Spec
CONSTANTS
    None = None
    p1 = p1
    p2 = p2
    c1 = c1
    planA = planA
    planB = planB
    k1 = k1
    k2 = k2
    maker = maker
    checker = checker
    r1 = r1
    r2 = r2
    ProposalIds <- MCOneProposal
    ChangeRequests <- MCChangeRequests
    Plans <- MCPlans
    Keys <- MCKeys
    Principals <- MCPrincipals
    Approvers <- MCPrincipals
    Requests <- MCRequests
    CreatedBy <- MCCreatedBy
    Clean <- MCClean
    MakerChecker = TRUE
    AtomicLoad = FALSE
    FirstVersion = 1
SYMMETRY Symmetry
INVARIANTS
    AppliedAsApproved
    CommittedPlansAreClean
    DecisionAnswersStand
    StatusNeverOverclaims
