--------------------------- MODULE ApprovalBoundary ---------------------------
(***************************************************************************)
(* The approval boundary: the use cases that create, validate, decide,     *)
(* apply and verify a proposal, served concurrently against one store.     *)
(* A use case is a sequence of repository calls with awaits between them,  *)
(* so it is one action per call: what it read before an await may be       *)
(* stale when it acts on it after.                                         *)
(*                                                                         *)
(* Requests are the calls in flight (HTTP routes, MCP tools, queue         *)
(* handlers).  A call may end at any await without its caller learning     *)
(* how: the process crashed, the repository threw, the timeout fired.      *)
(*                                                                         *)
(* A refusal at a call's first step (malformed input, an unknown id, a     *)
(* principal without the role, a stale digest) changes nothing and ends    *)
(* the call: it is a step nobody can see, and has no disjunct.             *)
(***************************************************************************)
EXTENDS ProposalStore

CONSTANTS
    Requests,       \* use-case calls that may be in flight at once
    Approvers,      \* the principals who hold the approver role
    CreatedBy,      \* who submitted each change request
    MakerChecker    \* the deployment refuses decisions by the submitter

ASSUME ApproversArePrincipals == Approvers \subseteq Principals
ASSUME CreatedByIsFunction == CreatedBy \in [ChangeRequests -> Principals]
ASSUME NoneIsNoRuling == None \notin [verdict : Decisions, content : Digests, base : Nat]
ASSUME MakerCheckerIsBoolean == MakerChecker \in BOOLEAN

VARIABLES
    req,            \* the local state of each call in flight
    answers         \* every successful answer given to a caller (history)

vars == <<version, commits, proposals, approvals, idempotency, audit, req, answers>>

Points ==
    {"idle", "create.save", "create.audit", "validate.judge", "validate.save",
     "decide.find", "decide.simulate", "decide.record",
     "apply.key", "apply.approval", "apply.load", "apply.commit",
     "apply.fail", "apply.failAudit",
     "verify.load", "verify.audit", "verify.append"}

\* The locals of a call: where it is, the proposal it is about and the record
\* of it that it read, what the caller asked for, and what it read since.
Calls ==
    [at : Points, id : ProposalIds \cup {None}, seen : ProposalRecords \cup {None},
     decision : Decisions \cup {None}, by : Principals \cup {None},
     key : Keys \cup {None}, approval : Approvals \cup {None},
     since : Nat, checks : {"none", "pass", "fail"}]

IdleCall ==
    [at |-> "idle", id |-> None, seen |-> None, decision |-> None, by |-> None,
     key |-> None, approval |-> None, since |-> 0, checks |-> "none"]

Answers ==
    [call : {"decide"}, id : ProposalIds, decision : Decisions]
    \cup [call : {"apply"}, id : ProposalIds, key : Keys, version : Nat]

TypeOK ==
    /\ StoreTypeOK
    /\ req \in [Requests -> Calls]
    /\ answers \subseteq Answers

Init ==
    /\ StoreInit
    /\ req = [r \in Requests |-> IdleCall]
    /\ answers = {}

-----------------------------------------------------------------------------
(* Moves of a call that leave the store alone.                             *)

At(r, point) == req[r].at = point

Become(r, call) == req' = [req EXCEPT ![r] = call]
GoTo(r, point) == Become(r, [req[r] EXCEPT !.at = point])
Finish(r) == Become(r, IdleCall)

\* The version a load starts from matters only where a load can be torn.
Now == IF AtomicLoad THEN 0 ELSE version

Silent == UNCHANGED answers
ReadOnly == UNCHANGED storeVars /\ Silent

AnswerDecision(id, decision) ==
    answers' = answers \cup {[call |-> "decide", id |-> id, decision |-> decision]}
AnswerApply(id, key, atVersion) ==
    answers' = answers \cup {[call |-> "apply", id |-> id, key |-> key, version |-> atVersion]}

-----------------------------------------------------------------------------
(* create_proposal.  The load is the call's first read, so it may have     *)
(* started at any earlier version.                                         *)

NewProposal(changeRequest, plan, base, verdict) ==
    [changeRequest |-> changeRequest, base |-> base, operations |-> plan,
     digest |-> [changeRequest |-> changeRequest, base |-> base, operations |-> plan],
     validation |-> verdict,
     status |-> IF verdict = "VALID" THEN "AWAITING_APPROVAL" ELSE "DRAFT",
     judgedAt |-> base]

CreateProposal(r, changeRequest, plan) ==
    /\ At(r, "idle")
    /\ \E base \in Loads(FirstVersion) : \E verdict \in Verdicts(plan, base) :
         Become(r, [IdleCall EXCEPT !.at = "create.save",
                                    !.seen = NewProposal(changeRequest, plan, base, verdict)])
    /\ ReadOnly

SaveCreated(r, id) ==
    /\ At(r, "create.save")
    /\ proposals[id] = None
    /\ SaveProposal(id, req[r].seen)
    /\ Become(r, [IdleCall EXCEPT !.at = "create.audit", !.id = id])
    /\ UNCHANGED <<version, commits, approvals, idempotency, audit>> /\ Silent

AuditCreated(r) ==
    /\ At(r, "create.audit")
    /\ AppendAudit("PROPOSAL_CREATED", req[r].id)
    /\ Finish(r)
    /\ UNCHANGED <<version, commits, proposals, approvals, idempotency>> /\ Silent

-----------------------------------------------------------------------------
(* validate_proposal.  The refreshed verdict is written back over the      *)
(* whole record that was read before the load.                             *)

ValidateProposal(r, id) ==
    /\ At(r, "idle")
    /\ proposals[id] # None
    /\ DigestMatches(proposals[id])
    /\ Become(r, [IdleCall EXCEPT !.at = "validate.judge", !.id = id, !.seen = proposals[id],
                                  !.since = Now])
    /\ ReadOnly

Refreshed(proposal, current, verdict) ==
    [proposal EXCEPT
       !.validation = IF current = proposal.base THEN verdict ELSE "INVALID",
       !.judgedAt = current]

JudgeProposal(r) ==
    /\ At(r, "validate.judge")
    /\ \E current \in Loads(req[r].since) :
       \E verdict \in Verdicts(req[r].seen.operations, current) :
         LET refreshed == Refreshed(req[r].seen, current, verdict)
         IN  \/ /\ refreshed # req[r].seen \/ Torn(current)
                /\ Become(r, [req[r] EXCEPT !.at = "validate.save", !.seen = refreshed])
             \/ /\ refreshed = req[r].seen
                /\ Finish(r)
    /\ ReadOnly

SaveRefreshed(r) ==
    /\ At(r, "validate.save")
    /\ SaveProposal(req[r].id, req[r].seen)
    /\ Finish(r)
    /\ UNCHANGED <<version, commits, approvals, idempotency, audit>> /\ Silent

-----------------------------------------------------------------------------
(* The human decision.                                                     *)

DecideProposal(r, id, decision, by) ==
    /\ At(r, "idle")
    /\ by \in Approvers
    /\ proposals[id] # None
    /\ Become(r, [IdleCall EXCEPT !.at = "decide.find", !.id = id, !.seen = proposals[id],
                                  !.decision = decision, !.by = by])
    /\ ReadOnly

\* Mutant: the status is written before the existing decision is consulted.
StatusBeforeDecision(r) ==
    /\ DecisionsOn(req[r].id) # {}
    /\ SaveProposal(req[r].id,
                    [req[r].seen EXCEPT !.status = IF req[r].decision = "APPROVE" THEN "APPROVED"
                                                                                ELSE "REJECTED"])
    /\ Finish(r)
    /\ UNCHANGED <<version, commits, approvals, idempotency, audit>> /\ Silent

\* A repeated decision is answered with the record that stands, a
\* contradicting one is refused.
AlreadyDecided(r) ==
    /\ \E existing \in DecisionsOn(req[r].id) :
         IF existing.decision = req[r].decision
         THEN AnswerDecision(req[r].id, existing.decision)
         ELSE Silent
    /\ Finish(r)
    /\ UNCHANGED storeVars

\* The change request never changes, so reading it is not a step of its own.
MayDecide(r) ==
    /\ MakerChecker => CreatedBy[req[r].seen.changeRequest] # req[r].by
    /\ DigestMatches(req[r].seen)
    /\ req[r].decision = "APPROVE" => CheckProposalApplicable(req[r].seen)

FindDecision(r) ==
    /\ At(r, "decide.find")
    /\ \/ AlreadyDecided(r)
       \/ /\ DecisionsOn(req[r].id) = {}
          /\ MayDecide(r)
          /\ Become(r, [req[r] EXCEPT
                          !.at = IF req[r].decision = "APPROVE" THEN "decide.simulate"
                                                                ELSE "decide.record",
                          !.since = Now])
          /\ ReadOnly
       \/ /\ DecisionsOn(req[r].id) = {}
          /\ ~MayDecide(r)
          /\ Finish(r)
          /\ ReadOnly

SimulateForDecision(r) ==
    /\ At(r, "decide.simulate")
    /\ \E current \in Loads(req[r].since) :
       \E verdict \in Verdicts(req[r].seen.operations, current) :
         IF current = req[r].seen.base /\ verdict = "VALID"
         THEN GoTo(r, "decide.record")
         ELSE Finish(r)
    /\ ReadOnly

RecordDecision(r) ==
    /\ At(r, "decide.record")
    /\ \/ /\ RecordProposalDecision(
               [proposal |-> req[r].id, digest |-> req[r].seen.digest,
                version |-> req[r].seen.base, by |-> req[r].by,
                decision |-> req[r].decision],
               [req[r].seen EXCEPT !.status = IF req[r].decision = "APPROVE" THEN "APPROVED"
                                                                             ELSE "REJECTED"])
          /\ AnswerDecision(req[r].id, req[r].decision)
          /\ Finish(r)
       \/ AlreadyDecided(r)

-----------------------------------------------------------------------------
(* apply_approved_proposal.                                                *)

ApplyProposal(r, id, key) ==
    /\ At(r, "idle")
    /\ proposals[id] # None
    /\ Become(r, [IdleCall EXCEPT !.at = "apply.key", !.id = id, !.seen = proposals[id],
                                  !.key = key])
    /\ ReadOnly

FindKey(r) ==
    /\ At(r, "apply.key")
    /\ LET existing == idempotency[req[r].key]
           class == ClassifyIdempotency(req[r].id, req[r].seen, existing)
       IN  \/ /\ class = "FIRST_RUN"
              /\ GoTo(r, "apply.approval")
              /\ Silent
           \/ /\ class = "REPLAY"
              /\ AnswerApply(req[r].id, req[r].key, existing.version)
              /\ Finish(r)
           \/ /\ class = "CONFLICT"
              /\ Finish(r)
              /\ Silent
    /\ UNCHANGED storeVars

\* The caller may name any approval, another proposal's too, or none there is.
FindApproval(r) ==
    /\ At(r, "apply.approval")
    /\ \/ \E approval \in approvals :
            Become(r, [req[r] EXCEPT !.at = "apply.load", !.approval = approval, !.since = Now])
       \/ Finish(r)
    /\ ReadOnly

\* expected is the version the caller believes the production to be at.
LoadForApply(r, expected) ==
    /\ At(r, "apply.load")
    /\ \E current \in Loads(req[r].since) :
         LET allowed == /\ current = expected
                        /\ CheckWriteAllowed(req[r].id, req[r].seen, req[r].approval, current)
         IN  \/ allowed /\ GoTo(r, "apply.commit")
             \/ allowed /\ MayConflict(req[r].seen.operations, current) /\ GoTo(r, "apply.fail")
             \/ ~allowed /\ Finish(r)
    /\ ReadOnly

\* The gate made the version that was loaded the proposal's base.  A version
\* mismatch at the store is a refusal that changes nothing.
CommitApply(r) ==
    /\ At(r, "apply.commit")
    /\ \/ /\ ApplyProposalTransaction(req[r].id, [req[r].seen EXCEPT !.status = "APPLIED"],
                                      req[r].key, req[r].seen.base)
          /\ AnswerApply(req[r].id, req[r].key, version')
       \/ /\ version # req[r].seen.base
          /\ ReadOnly
    /\ Finish(r)

FailedRecord(proposal) == [proposal EXCEPT !.status = "FAILED", !.judgedAt = 0]

SaveFailed(r) ==
    /\ At(r, "apply.fail")
    /\ SaveProposal(req[r].id, FailedRecord(req[r].seen))
    /\ GoTo(r, "apply.failAudit")
    /\ UNCHANGED <<version, commits, approvals, idempotency, audit>> /\ Silent

AuditFailed(r) ==
    /\ At(r, "apply.failAudit")
    /\ AppendAudit("PROPOSAL_APPLY_FAILED", req[r].id)
    /\ Finish(r)
    /\ UNCHANGED <<version, commits, proposals, approvals, idempotency>> /\ Silent

-----------------------------------------------------------------------------
(* verify_applied_proposal.                                                *)

VerifyProposal(r, id) ==
    /\ At(r, "idle")
    /\ proposals[id] # None
    /\ Become(r, [IdleCall EXCEPT !.at = "verify.load", !.id = id, !.seen = proposals[id],
                                  !.since = Now])
    /\ ReadOnly

\* The checks on the loaded entities: the operations' effects are there and
\* the invariants hold.  They may fail at any time: a later write may undo what
\* they look for, and so may a later operation of a hand-written plan itself
\* (ChangePlanning has the operations and tells when).  They may pass wherever
\* the effects happen to be there.
LoadForVerify(r) ==
    /\ At(r, "verify.load")
    /\ \E current \in Loads(req[r].since) :
         LET may == current > req[r].seen.base /\ req[r].seen.status = "APPLIED"
         IN  \/ /\ may
                /\ Become(r, [req[r] EXCEPT !.at = "verify.audit", !.checks = "pass"])
             \/ Become(r, [req[r] EXCEPT !.at = "verify.audit", !.checks = "fail"])
    /\ ReadOnly

FindApplyAudit(r) ==
    /\ At(r, "verify.audit")
    /\ Become(r, [req[r] EXCEPT
                    !.at = "verify.append",
                    !.checks = IF [action |-> "PROPOSAL_APPLIED", proposal |-> req[r].id] \in audit
                               THEN @ ELSE "fail"])
    /\ ReadOnly

\* Mutant: the checks are reported but not consulted.
AppendVerified(r) ==
    /\ At(r, "verify.append")
    /\ AppendAudit("PROPOSAL_VERIFIED", req[r].id)
    /\ Finish(r)
    /\ UNCHANGED <<version, commits, proposals, approvals, idempotency>> /\ Silent

AppendVerification(r) ==
    /\ At(r, "verify.append")
    /\ AppendAudit(IF req[r].checks = "pass" THEN "PROPOSAL_VERIFIED"
                                             ELSE "PROPOSAL_VERIFICATION_FAILED",
                   req[r].id)
    /\ Finish(r)
    /\ UNCHANGED <<version, commits, proposals, approvals, idempotency>> /\ Silent

-----------------------------------------------------------------------------
(* The environment.                                                        *)

\* External: the operations of a stored proposal are edited behind the
\* program's back, in the data file or the database.  The digest is what the
\* guards have against it.
EditStoredOperations(id, plan) ==
    /\ proposals[id] # None
    /\ plan # proposals[id].operations
    /\ SaveProposal(id, [proposals[id] EXCEPT !.operations = plan])
    /\ UNCHANGED <<version, commits, approvals, idempotency, audit, req>> /\ Silent

\* A crash, a repository error or a timeout between two steps.
Abandon(r) ==
    /\ ~At(r, "idle")
    /\ Finish(r)
    /\ ReadOnly

Next ==
    \/ \E r \in Requests :
         \/ \E changeRequest \in ChangeRequests, plan \in Plans :
              CreateProposal(r, changeRequest, plan)
         \/ \E id \in ProposalIds :
              \/ SaveCreated(r, id)
              \/ ValidateProposal(r, id)
              \/ VerifyProposal(r, id)
              \/ \E decision \in Decisions, by \in Principals : DecideProposal(r, id, decision, by)
              \/ \E key \in Keys : ApplyProposal(r, id, key)
         \/ \E expected \in FirstVersion..version : LoadForApply(r, expected)
         \/ AuditCreated(r) \/ JudgeProposal(r) \/ SaveRefreshed(r)
         \/ FindDecision(r) \/ SimulateForDecision(r) \/ RecordDecision(r)
         \/ FindKey(r) \/ FindApproval(r) \/ CommitApply(r) \/ SaveFailed(r) \/ AuditFailed(r)
         \/ LoadForVerify(r) \/ FindApplyAudit(r) \/ AppendVerification(r)
         \/ Abandon(r)
    \/ \E id \in ProposalIds, plan \in Plans : EditStoredOperations(id, plan)

Spec == Init /\ [][Next]_vars

-----------------------------------------------------------------------------
(* Properties.                                                             *)

\* What was written is what a human approved: every commit has an approval of
\* its proposal, for exactly the operations written and the version they were
\* written on, by an approver who may decide it (INV-5, INV-6).  The gate that
\* establishes it runs two awaits before the write.
AppliedAsApproved ==
    \A i \in DOMAIN commits :
      /\ commits[i].base = FirstVersion + i - 1
      /\ \E a \in approvals :
           /\ a.proposal = commits[i].proposal
           /\ a.decision = "APPROVE"
           /\ a.digest = commits[i].digest
           /\ a.version = commits[i].base
           /\ a.by \in Approvers
           /\ MakerChecker => CreatedBy[a.digest.changeRequest] # a.by

\* However many calls race to apply it and whatever keys they use, a proposal
\* is written once, and no key is spent on two proposals (INV-8).
AppliedAtMostOnce ==
    \A i, j \in DOMAIN commits :
      (commits[i].proposal = commits[j].proposal \/ commits[i].key = commits[j].key) => i = j

\* An approved plan is a valid plan: whatever was committed simulated without
\* conflict on the very version it was committed to.
CommittedPlansAreClean ==
    \A i \in DOMAIN commits : IsClean(commits[i].digest.operations, commits[i].base)

\* Two callers never both succeed with opposite decisions, and every success
\* that was reported still stands in the store.
DecisionAnswersStand ==
    /\ \A a, b \in approvals : a.proposal = b.proposal => a = b
    /\ \A answer \in answers :
         answer.call = "decide" =>
           \E a \in DecisionsOn(answer.id) : a.decision = answer.decision

\* The version an apply or a replay reported is the one that proposal's own
\* commit made under that key, however much later the replay came.
ApplyAnswersStand ==
    \A answer \in answers :
      answer.call = "apply" =>
        \E i \in DOMAIN commits :
          /\ commits[i].proposal = answer.id
          /\ commits[i].key = answer.key
          /\ answer.version = commits[i].base + 1

\* The bookkeeping of an apply neither runs ahead of the write nor lags it,
\* and no later apply overwrites an earlier one's idempotency record.
BookkeepingMatchesCommits ==
    /\ version = FirstVersion + Len(commits)
    /\ \A id \in ProposalIds :
         [action |-> "PROPOSAL_APPLIED", proposal |-> id] \in audit
           <=> \E i \in DOMAIN commits : commits[i].proposal = id
    /\ \A i \in DOMAIN commits :
         idempotency[commits[i].key] =
           [proposal |-> commits[i].proposal, digest |-> commits[i].digest,
            version |-> commits[i].base + 1]
    /\ \A key \in Keys :
         idempotency[key] # None => \E i \in DOMAIN commits : commits[i].key = key

\* A stored status never claims more than happened, even when a stale record
\* is written over a newer one: APPLIED was written, APPROVED and REJECTED
\* were decided.
StatusNeverOverclaims ==
    \A id \in ProposalIds :
      proposals[id] # None =>
        /\ proposals[id].status = "APPLIED" =>
             \E i \in DOMAIN commits : commits[i].proposal = id
        /\ proposals[id].status = "APPROVED" =>
             \E a \in DecisionsOn(id) : a.decision = "APPROVE"
        /\ proposals[id].status = "REJECTED" =>
             \E a \in DecisionsOn(id) : a.decision = "REJECT"

\* A verification that passed was of a proposal that is in the production,
\* although its three reads are of three moments.
VerifiedMeansApplied ==
    \A id \in ProposalIds :
      [action |-> "PROPOSAL_VERIFIED", proposal |-> id] \in audit =>
        \E i \in DOMAIN commits : commits[i].proposal = id

-----------------------------------------------------------------------------
(* The abstract contract.  A proposal's decision is its approval record;   *)
(* calls, keys, statuses, the trail and the answers are invisible.         *)

DecisionOf(id) ==
    IF DecisionsOn(id) = {} THEN None
    ELSE LET a == CHOOSE a \in approvals : a.proposal = id
         IN  [verdict |-> a.decision, content |-> a.digest, base |-> a.version]

Contract == INSTANCE ApprovalContract WITH
    Subjects <- ProposalIds,
    Contents <- Digests,
    Undecided <- None,
    decisions <- [id \in ProposalIds |-> DecisionOf(id)],
    commits <- [i \in DOMAIN commits |->
                  [proposal |-> commits[i].proposal, content |-> commits[i].digest]]

\* The use cases implement the contract: no interleaving of calls, crashes
\* and stale reads decides a proposal twice or writes anything but an approved
\* plan on its version.
ContractSpec == Contract!Spec

\* "A rejected proposal is not revived" (decide-proposal.ts): once a stored
\* proposal is REJECTED it stays REJECTED.  The code does not keep it: a
\* validation that read the proposal before the decision writes it back after.
RejectedIsNotRevived ==
    [][\A id \in ProposalIds :
         proposals[id] # None /\ proposals[id].status = "REJECTED"
           => proposals'[id].status = "REJECTED"]_vars

-----------------------------------------------------------------------------
(* The inductive invariant: what is true of the store, of every record and  *)
(* approval a call carries from one await to the next, and of the answers.  *)

Committed(id) == \E i \in DOMAIN commits : commits[i].proposal = id
Decided(id, decision) == \E a \in DecisionsOn(id) : a.decision = decision

\* A proposal record, stored or in a call's hands, that may be stale but was
\* once true: its verdict holds if its base is still current, and its status
\* claims only what happened.
Sound(id, record) ==
    /\ record.base <= version
    /\ record.digest.base = record.base
    /\ record.digest.changeRequest = record.changeRequest
    /\ (record.validation = "VALID" /\ record.base = version)
         => IsClean(record.digest.operations, record.base)
    /\ record.status = "APPLIED" => Committed(id)
    /\ record.status = "APPROVED" => Decided(id, "APPROVE")
    /\ record.status = "REJECTED" => Decided(id, "REJECT")

ProposalsSound == \A id \in ProposalIds : proposals[id] # None => Sound(id, proposals[id])

ApprovalsSound ==
    /\ \A a, b \in approvals : a.proposal = b.proposal => a = b
    /\ \A a \in approvals :
         /\ a.version <= version
         /\ a.by \in Approvers
         /\ MakerChecker => CreatedBy[a.digest.changeRequest] # a.by

\* No commit under a call's key was made since the call found the key unused
\* on a version its proposal could be written on.
KeyIsFree(call) ==
    \A i \in DOMAIN commits : commits[i].key = call.key => commits[i].base >= call.seen.base

CarriesProposal(call) == call.id \in ProposalIds /\ call.seen # None /\ Sound(call.id, call.seen)

CallSound(call) ==
    /\ call.at = "create.save" =>
         /\ call.seen # None
         /\ call.seen.status \in {"DRAFT", "AWAITING_APPROVAL"}
         /\ \A id \in ProposalIds : Sound(id, call.seen)
    /\ call.at \in {"create.audit", "apply.failAudit"} => call.id \in ProposalIds
    /\ call.at \in {"validate.judge", "validate.save", "decide.find", "decide.simulate",
                    "decide.record", "apply.key", "apply.approval", "apply.load",
                    "apply.commit", "apply.fail", "verify.load", "verify.audit",
                    "verify.append"} => CarriesProposal(call)
    /\ call.at = "validate.judge" => DigestMatches(call.seen)
    /\ call.at \in {"decide.find", "decide.simulate", "decide.record"} =>
         /\ call.decision \in Decisions
         /\ call.by \in Approvers
    /\ call.at \in {"decide.simulate", "decide.record"} =>
         (MakerChecker => CreatedBy[call.seen.changeRequest] # call.by)
    /\ call.at \in {"apply.key", "apply.approval", "apply.load", "apply.commit"} => call.key \in Keys
    /\ call.at \in {"apply.approval", "apply.load", "apply.commit"} => KeyIsFree(call)
    /\ call.at \in {"apply.load", "apply.commit"} => call.approval \in approvals
    /\ call.at = "apply.commit" =>
         CheckWriteAllowed(call.id, call.seen, call.approval, call.seen.base)
    /\ call.at \in {"verify.audit", "verify.append"} =>
         (call.checks = "pass" => Committed(call.id))

CallsSound == \A r \in Requests : CallSound(req[r])

Inv ==
    /\ TypeOK
    /\ AppliedAsApproved
    /\ AppliedAtMostOnce
    /\ CommittedPlansAreClean
    /\ BookkeepingMatchesCommits
    /\ ProposalsSound
    /\ ApprovalsSound
    /\ CallsSound
    /\ DecisionAnswersStand
    /\ ApplyAnswersStand
    /\ VerifiedMeansApplied

=============================================================================
