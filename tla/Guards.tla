------------------------------- MODULE Guards -------------------------------
(***************************************************************************)
(* The pure rules of the approval and apply path: the guards of            *)
(* packages/domain/src/invariants/guards.ts and the digest of              *)
(* packages/domain/src/digest.ts, over the part of a proposal, an approval *)
(* and an idempotency record that the rules read.                          *)
(*                                                                         *)
(* A digest is SHA-256 of the canonical JSON of what it covers.  It is     *)
(* modelled by what it covers: two digests are equal exactly when change   *)
(* request, base version and operations are.                               *)
(***************************************************************************)
EXTENDS Integers

CONSTANTS
    ProposalIds,    \* identities the id factory may hand out
    ChangeRequests, \* identities of submitted changes
    Plans,          \* operation lists a proposal may carry
    Keys,           \* idempotency keys a caller may use
    Principals,     \* subjects of verified principals
    None            \* the null of the source

Decisions == {"APPROVE", "REJECT"}
Validations == {"VALID", "INVALID"}
Statuses == {"DRAFT", "AWAITING_APPROVAL", "APPROVED", "REJECTED", "APPLIED", "FAILED"}

Digests == [changeRequest : ChangeRequests, base : Nat, operations : Plans]

\* judgedAt is the production version the stored conflicts and warnings
\* describe: a stale proposal's conflict names the version it lost to, so
\* two judgements differ exactly when their versions or verdicts do.  It is
\* 0 when the conflicts are those of a failed apply.
ProposalRecords ==
    [changeRequest : ChangeRequests, base : Nat, operations : Plans, digest : Digests,
     validation : Validations, status : Statuses, judgedAt : Nat]

Approvals ==
    [proposal : ProposalIds, digest : Digests, version : Nat, by : Principals,
     decision : Decisions]

IdempotencyRecords == [proposal : ProposalIds, digest : Digests, version : Nat]

ASSUME NoneIsNoValue ==
    /\ None \notin ProposalIds \cup ChangeRequests \cup Plans \cup Keys \cup Principals
    /\ None \notin ProposalRecords
    /\ None \notin Approvals
    /\ None \notin IdempotencyRecords

ComputeProposalDigest(proposal) ==
    [changeRequest |-> proposal.changeRequest, base |-> proposal.base,
     operations |-> proposal.operations]

\* Mutant: the stored digest is believed.
DigestUnchecked(proposal) == TRUE

DigestMatches(proposal) == ComputeProposalDigest(proposal) = proposal.digest

\* Mutant: any decision on the proposal counts as an approval.
RequireAnyDecision(id, approval) == approval.proposal = id

\* INV-5, first half.  The null approval never reaches the guard here: the
\* use case answers APPROVAL_REQUIRED before it.
RequireApproval(id, approval) ==
    /\ approval.proposal = id
    /\ approval.decision = "APPROVE"

\* INV-5, second half.
CheckProposalApplicable(proposal) ==
    /\ proposal.validation = "VALID"
    /\ proposal.status \in {"AWAITING_APPROVAL", "APPROVED"}

\* Mutant: the approval is compared with the stored digest alone.
CheckApprovalOnly(proposal, approval, currentVersion) ==
    /\ approval.digest = proposal.digest
    /\ approval.version = proposal.base
    /\ proposal.base = currentVersion

\* INV-6.
CheckApprovalFreshness(proposal, approval, currentVersion) ==
    /\ DigestMatches(proposal)
    /\ approval.digest = proposal.digest
    /\ approval.version = proposal.base
    /\ proposal.base = currentVersion

CheckWriteAllowed(id, proposal, approval, currentVersion) ==
    /\ RequireApproval(id, approval)
    /\ CheckProposalApplicable(proposal)
    /\ CheckApprovalFreshness(proposal, approval, currentVersion)

\* Mutants: a used key replays whatever it was used for, or is not looked up.
ReplayAnyUse(id, proposal, existing) == IF existing = None THEN "FIRST_RUN" ELSE "REPLAY"
ForgetKeys(id, proposal, existing) == "FIRST_RUN"

\* INV-8.
ClassifyIdempotency(id, proposal, existing) ==
    IF existing = None THEN "FIRST_RUN"
    ELSE IF existing.proposal = id /\ existing.digest = proposal.digest THEN "REPLAY"
    ELSE "CONFLICT"

=============================================================================
