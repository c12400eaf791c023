---------------------------- MODULE ProposalStore ----------------------------
(***************************************************************************)
(* The records of one production and the operations of the RepositorySet   *)
(* port that the approval path uses (packages/application/src/ports/       *)
(* repositories.ts), as the memory, file and Mongo adapters implement      *)
(* them.  Every operation here is one atomic step: the memory adapter runs *)
(* it without an await, the file adapter inside one #mutate cycle, Mongo   *)
(* in one transaction or one document write.                               *)
(*                                                                         *)
(* One read is not atomic everywhere.  Mongo's #loadState reads the        *)
(* production document first and the entity collections after it, outside  *)
(* any session, so the entities may be newer than the version (a torn      *)
(* read).  AtomicLoad says which adapter is modelled.                      *)
(***************************************************************************)
EXTENDS Guards, Sequences

CONSTANTS
    FirstVersion,   \* the version the production was seeded with
    Clean,          \* <<plan, version>>: the plan simulates without conflict there
    AtomicLoad      \* TRUE: memory and file adapters; FALSE: Mongo adapter

ASSUME FirstVersionIsPositive == FirstVersion \in Nat \ {0}
ASSUME AtomicLoadIsBoolean == AtomicLoad \in BOOLEAN

VARIABLES
    version,        \* production.version
    commits,        \* the production's content: the plans written into it, in order
    proposals,      \* proposals by id, None when there is none
    approvals,      \* the approval records
    idempotency,    \* idempotency records by key, None when there is none
    audit           \* the audit trail, as a set

storeVars == <<version, commits, proposals, approvals, idempotency, audit>>

Commits == [proposal : ProposalIds, digest : Digests, key : Keys, base : Nat]

AuditActions ==
    {"PROPOSAL_CREATED", "PROPOSAL_APPROVED", "PROPOSAL_REJECTED", "PROPOSAL_APPLIED",
     "PROPOSAL_APPLY_FAILED", "PROPOSAL_VERIFIED", "PROPOSAL_VERIFICATION_FAILED"}

AuditEvents == [action : AuditActions, proposal : ProposalIds]

StoreTypeOK ==
    /\ version \in Nat
    /\ commits \in Seq(Commits)
    /\ proposals \in [ProposalIds -> ProposalRecords \cup {None}]
    /\ approvals \subseteq Approvals
    /\ idempotency \in [Keys -> IdempotencyRecords \cup {None}]
    /\ audit \subseteq AuditEvents

StoreInit ==
    /\ version = FirstVersion
    /\ commits = <<>>
    /\ proposals = [p \in ProposalIds |-> None]
    /\ approvals = {}
    /\ idempotency = [k \in Keys |-> None]
    /\ audit = {}

-----------------------------------------------------------------------------
(* Reading the production.                                                 *)

\* The versions productions.loadState may return now to a call made when the
\* version was since.  A load that returns an older version than the current
\* one is torn: its entities are a mixture.
Loads(since) == IF AtomicLoad THEN {version} ELSE since..version
Torn(loaded) == loaded # version

IsClean(plan, atVersion) == <<plan, atVersion>> \in Clean

\* The verdicts simulateProposal may reach on a loaded state, either one on a
\* torn state.
Verdicts(plan, loaded) ==
    IF Torn(loaded) THEN Validations
    ELSE {IF IsClean(plan, loaded) THEN "VALID" ELSE "INVALID"}

\* Whether applyOperations may come out with conflicts.  It applies the
\* operations but does not judge the result, so it may come out without
\* conflicts on any state.
MayConflict(plan, loaded) == Torn(loaded) \/ ~IsClean(plan, loaded)

DecisionsOn(id) == {a \in approvals : a.proposal = id}

-----------------------------------------------------------------------------
(* Writing.                                                                *)

\* proposals.save: an unconditional replacement of the whole record.
SaveProposal(id, record) == proposals' = [proposals EXCEPT ![id] = record]

\* auditEvents.append.
AppendAudit(action, id) == audit' = audit \cup {[action |-> action, proposal |-> id]}

\* The three writes of a decision.
WriteDecision(approval, record) ==
    /\ approvals' = approvals \cup {approval}
    /\ SaveProposal(approval.proposal, record)
    /\ AppendAudit(IF approval.decision = "APPROVE" THEN "PROPOSAL_APPROVED"
                                                    ELSE "PROPOSAL_REJECTED",
                   approval.proposal)
    /\ UNCHANGED <<version, commits, idempotency>>

\* Mutant: the existing decision was looked for before the transaction.
RecordUnchecked(approval, record) == WriteDecision(approval, record)

\* recordProposalDecision: the check that no decision exists and the writes
\* are one step.
RecordProposalDecision(approval, record) ==
    /\ DecisionsOn(approval.proposal) = {}
    /\ WriteDecision(approval, record)

\* The writes of an apply: the mutation, the proposal, the idempotency record
\* and the audit event.  A record already stored under the key is replaced.
WriteApply(id, record, key, expectedVersion) ==
    /\ version' = version + 1
    /\ commits' = Append(commits, [proposal |-> id, digest |-> ComputeProposalDigest(record),
                                   key |-> key, base |-> version])
    /\ SaveProposal(id, record)
    /\ idempotency' = [idempotency EXCEPT ![key] =
                         [proposal |-> id, digest |-> record.digest,
                          version |-> expectedVersion + 1]]
    /\ AppendAudit("PROPOSAL_APPLIED", id)
    /\ UNCHANGED approvals

\* Mutant: the version was compared before the transaction.
ApplyUnversioned(id, record, key, expectedVersion) ==
    WriteApply(id, record, key, expectedVersion)

\* applyProposalTransaction: the writes land together, if the version is still
\* the expected one.
ApplyProposalTransaction(id, record, key, expectedVersion) ==
    /\ version = expectedVersion
    /\ WriteApply(id, record, key, expectedVersion)

=============================================================================
