------------------------- MODULE MCApprovalBoundary -------------------------
(* Small instances of ApprovalBoundary for TLC. *)
EXTENDS ApprovalBoundary, TLC

CONSTANTS p1, p2, c1, planA, planB, k1, k2, maker, checker, r1, r2

MCProposalIds == {p1, p2}
MCChangeRequests == {c1}
MCPlans == {planA, planB}
MCOnePlan == {planA}
MCOneProposal == {p1}
MCOneKey == {k1}
MCApprovers == {checker}
MCKeys == {k1, k2}
MCPrincipals == {maker, checker}
MCRequests == {r1, r2}
MCCreatedBy == [c \in {c1} |-> maker]

\* planA is clean on the first two versions, planB only on the second: there
\* are proposals born DRAFT and proposals a later version would break.
MCClean == {<<planA, 1>>, <<planA, 2>>, <<planB, 2>>}

Symmetry ==
    Permutations({p1, p2}) \cup Permutations({k1, k2}) \cup Permutations({r1, r2})

=============================================================================
