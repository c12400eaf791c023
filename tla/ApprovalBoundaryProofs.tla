----------------------- MODULE ApprovalBoundaryProofs -----------------------
(***************************************************************************)
(* Proofs about ApprovalBoundary, for every set of calls, proposals, plans,*)
(* keys and principals, every seed version, every verdict of the simulator *)
(* (Clean), with and without maker-checker and with atomic and torn loads. *)
(***************************************************************************)
EXTENDS ApprovalBoundary, SequenceTheorems, TLAPS

-----------------------------------------------------------------------------
(* What a load can return.                                                 *)

\* A load never shows a version the production has not reached.
LEMMA LoadsBounded ==
    ASSUME version \in Nat, NEW since \in Nat, NEW loaded \in Loads(since)
    PROVE  loaded \in Nat /\ loaded <= version
BY DEF Loads

\* A verdict is one of two, and the right one while the version it was
\* reached on is current.
LEMMA VerdictsHold ==
    ASSUME NEW loaded, NEW plan, NEW verdict \in Verdicts(plan, loaded)
    PROVE  /\ verdict \in Validations
           /\ (verdict = "VALID" /\ loaded = version) => IsClean(plan, version)
BY DEF Verdicts, Validations, Torn

LEMMA NowIsNatural == ASSUME version \in Nat PROVE Now \in Nat
BY DEF Now

-----------------------------------------------------------------------------
(* Types.                                                                  *)

LEMMA IdleCallTyped == IdleCall \in Calls
BY DEF IdleCall, Calls, Points

LEMMA BecomeTyped ==
    ASSUME req \in [Requests -> Calls], NEW r \in Requests, NEW call \in Calls, Become(r, call)
    PROVE  req' \in [Requests -> Calls]
BY DEF Become

\* Moving a call on keeps its locals typed.
LEMMA MovedTyped ==
    ASSUME NEW call \in Calls, NEW point \in Points, NEW since \in Nat
    PROVE  /\ [call EXCEPT !.at = point] \in Calls
           /\ [call EXCEPT !.at = point, !.since = since] \in Calls
BY DEF Calls

LEMMA TypeInit == Init => TypeOK
<1> SUFFICES ASSUME Init PROVE TypeOK
  OBVIOUS
<1>1. StoreTypeOK
  BY FirstVersionIsPositive DEF Init, StoreInit, StoreTypeOK
<1>2. req \in [Requests -> Calls]
  BY IdleCallTyped DEF Init
<1> QED
  BY <1>1, <1>2 DEF Init, TypeOK

LEMMA QuietTyped ==
    ASSUME TypeOK, NEW r \in Requests, NEW call \in Calls, Become(r, call),
           UNCHANGED storeVars, answers' \subseteq Answers
    PROVE  TypeOK'
<1>1. StoreTypeOK'
  BY DEF TypeOK, StoreTypeOK, storeVars
<1>2. req' \in [Requests -> Calls]
  BY BecomeTyped DEF TypeOK
<1> QED
  BY <1>1, <1>2 DEF TypeOK

\* A write of one proposal, or of one audit event, keeps the store typed.
LEMMA SaveTyped ==
    ASSUME TypeOK, NEW id \in ProposalIds, NEW record \in ProposalRecords,
           SaveProposal(id, record)
    PROVE  proposals' \in [ProposalIds -> ProposalRecords \cup {None}]
BY DEF TypeOK, StoreTypeOK, SaveProposal

LEMMA AuditTyped ==
    ASSUME TypeOK, NEW id \in ProposalIds, NEW action \in AuditActions, AppendAudit(action, id)
    PROVE  audit' \subseteq AuditEvents
BY DEF TypeOK, StoreTypeOK, AppendAudit, AuditEvents

\* Answering from the decision that stands reads the store and adds a true
\* answer at most.
LEMMA AlreadyDecidedTyped ==
    ASSUME TypeOK, NEW r \in Requests, req[r].id \in ProposalIds, AlreadyDecided(r)
    PROVE  TypeOK'
<1>1. PICK existing \in DecisionsOn(req[r].id) :
        IF existing.decision = req[r].decision
        THEN AnswerDecision(req[r].id, existing.decision)
        ELSE Silent
  BY DEF AlreadyDecided
<1>2. existing \in Approvals
  BY DEF DecisionsOn, TypeOK, StoreTypeOK
<1>3. answers' \subseteq Answers
  BY <1>1, <1>2 DEF AnswerDecision, Silent, Answers, Approvals, TypeOK
<1> QED
  BY <1>3, IdleCallTyped, QuietTyped DEF AlreadyDecided, Finish

\* What a call carries where it carries a proposal.
LEMMA CarriedTyped ==
    ASSUME TypeOK, CallsSound, NEW r \in Requests, CarriesProposal(req[r])
    PROVE  /\ req[r] \in Calls
           /\ req[r].id \in ProposalIds
           /\ req[r].seen \in ProposalRecords
           /\ req[r].seen.base \in Nat
           /\ req[r].since \in Nat
BY DEF TypeOK, CarriesProposal, Calls, ProposalRecords

\* Every step keeps the types.
LEMMA TypeNext == TypeOK /\ CallsSound /\ [Next]_vars => TypeOK'
<1> SUFFICES ASSUME TypeOK, CallsSound, [Next]_vars PROVE TypeOK'
  OBVIOUS
<1>a. /\ Now \in Nat /\ FirstVersion \in Nat /\ version \in Nat
      /\ \A r \in Requests : req[r] \in Calls /\ CallSound(req[r])
  BY NowIsNatural, FirstVersionIsPositive DEF TypeOK, StoreTypeOK, CallsSound
<1>0. CASE UNCHANGED vars
  BY <1>0 DEF vars, TypeOK, StoreTypeOK
<1>1. ASSUME NEW r \in Requests, NEW c \in ChangeRequests, NEW plan \in Plans,
             CreateProposal(r, c, plan)
      PROVE  TypeOK'
  <2>1. PICK base \in Loads(FirstVersion) : \E verdict \in Verdicts(plan, base) :
          Become(r, [IdleCall EXCEPT !.at = "create.save",
                                     !.seen = NewProposal(c, plan, base, verdict)])
    BY <1>1 DEF CreateProposal
  <2>2. PICK verdict \in Verdicts(plan, base) :
          Become(r, [IdleCall EXCEPT !.at = "create.save",
                                     !.seen = NewProposal(c, plan, base, verdict)])
    BY <2>1
  <2>3. base \in Nat /\ verdict \in Validations
    BY <1>a, LoadsBounded, VerdictsHold
  <2>4. NewProposal(c, plan, base, verdict) \in ProposalRecords
    BY <2>3 DEF NewProposal, ProposalRecords, Digests, Statuses
  <2>5. [IdleCall EXCEPT !.at = "create.save",
                         !.seen = NewProposal(c, plan, base, verdict)] \in Calls
    BY <2>4, IdleCallTyped DEF Calls, Points
  <2> QED
    BY <1>1, <2>2, <2>5, QuietTyped DEF CreateProposal, ReadOnly, Silent, TypeOK
<1>2. ASSUME NEW r \in Requests, NEW id \in ProposalIds,
             SaveCreated(r, id)
      PROVE  TypeOK'
  <2>1. req[r].seen \in ProposalRecords
    BY <1>a, <1>2 DEF SaveCreated, At, CallSound, Calls
  <2>2. [IdleCall EXCEPT !.at = "create.audit", !.id = id] \in Calls
    BY IdleCallTyped DEF Calls, Points
  <2>3. req' \in [Requests -> Calls]
    BY <1>2, <2>2, BecomeTyped DEF SaveCreated, TypeOK
  <2> QED
    BY <1>2, <2>1, <2>3, SaveTyped DEF SaveCreated, Silent, TypeOK, StoreTypeOK
<1>3. ASSUME NEW r \in Requests,
             AuditCreated(r)
      PROVE  TypeOK'
  <2>1. req[r].id \in ProposalIds
    BY <1>a, <1>3 DEF AuditCreated, At, CallSound
  <2>2. req' \in [Requests -> Calls]
    BY <1>3, IdleCallTyped, BecomeTyped DEF AuditCreated, Finish, TypeOK
  <2>3. audit' \subseteq AuditEvents
    BY <1>3, <2>1, AuditTyped DEF AuditCreated, AuditActions
  <2> QED
    BY <1>3, <2>2, <2>3 DEF AuditCreated, Silent, TypeOK, StoreTypeOK
<1>4. ASSUME NEW r \in Requests, NEW id \in ProposalIds,
             ValidateProposal(r, id)
      PROVE  TypeOK'
  <2>1. [IdleCall EXCEPT !.at = "validate.judge", !.id = id, !.seen = proposals[id],
                         !.since = Now] \in Calls
    BY <1>a, IdleCallTyped DEF Calls, Points, TypeOK, StoreTypeOK
  <2> QED
    BY <1>4, <2>1, QuietTyped DEF ValidateProposal, ReadOnly, Silent, TypeOK
<1>5. ASSUME NEW r \in Requests,
             JudgeProposal(r)
      PROVE  TypeOK'
  <2>1. CarriesProposal(req[r])
    BY <1>a, <1>5 DEF JudgeProposal, At, CallSound
  <2>2. PICK current \in Loads(req[r].since) :
          \E verdict \in Verdicts(req[r].seen.operations, current) :
            \/ Become(r, [req[r] EXCEPT !.at = "validate.save",
                                        !.seen = Refreshed(req[r].seen, current, verdict)])
            \/ Finish(r)
    BY <1>5 DEF JudgeProposal
  <2>3. PICK verdict \in Verdicts(req[r].seen.operations, current) :
            \/ Become(r, [req[r] EXCEPT !.at = "validate.save",
                                        !.seen = Refreshed(req[r].seen, current, verdict)])
            \/ Finish(r)
    BY <2>2
  <2>4. current \in Nat /\ verdict \in Validations
    BY <1>a, <2>1, CarriedTyped, LoadsBounded, VerdictsHold
  <2>5. Refreshed(req[r].seen, current, verdict) \in ProposalRecords
    BY <2>1, <2>4, CarriedTyped DEF Refreshed, ProposalRecords, Validations
  <2>6. [req[r] EXCEPT !.at = "validate.save",
                       !.seen = Refreshed(req[r].seen, current, verdict)] \in Calls
    BY <1>a, <2>5 DEF Calls, Points
  <2> QED
    BY <1>5, <2>3, <2>6, IdleCallTyped, QuietTyped DEF JudgeProposal, Finish, ReadOnly, Silent, TypeOK
<1>6. ASSUME NEW r \in Requests,
             SaveRefreshed(r)
      PROVE  TypeOK'
  <2>1. CarriesProposal(req[r])
    BY <1>a, <1>6 DEF SaveRefreshed, At, CallSound
  <2>2. req' \in [Requests -> Calls]
    BY <1>6, IdleCallTyped, BecomeTyped DEF SaveRefreshed, Finish, TypeOK
  <2>3. proposals' \in [ProposalIds -> ProposalRecords \cup {None}]
    BY <1>6, <2>1, CarriedTyped, SaveTyped DEF SaveRefreshed
  <2> QED
    BY <1>6, <2>2, <2>3 DEF SaveRefreshed, Silent, TypeOK, StoreTypeOK
<1>7. ASSUME NEW r \in Requests, NEW id \in ProposalIds,
             NEW d \in Decisions, NEW by \in Principals,
             DecideProposal(r, id, d, by)
      PROVE  TypeOK'
  <2>1. [IdleCall EXCEPT !.at = "decide.find", !.id = id, !.seen = proposals[id],
                         !.decision = d, !.by = by] \in Calls
    BY <1>a, IdleCallTyped DEF Calls, Points, TypeOK, StoreTypeOK
  <2> QED
    BY <1>7, <2>1, QuietTyped DEF DecideProposal, ReadOnly, Silent, TypeOK
<1>8. ASSUME NEW r \in Requests,
             FindDecision(r)
      PROVE  TypeOK'
  <2>1. [req[r] EXCEPT !.at = IF req[r].decision = "APPROVE" THEN "decide.simulate"
                                                            ELSE "decide.record",
                       !.since = Now] \in Calls
    <3>1. PICK point \in Points :
            point = IF req[r].decision = "APPROVE" THEN "decide.simulate" ELSE "decide.record"
      BY DEF Points
    <3> QED
      BY <1>a, <3>1, MovedTyped
  <2>2. CarriesProposal(req[r])
    BY <1>a, <1>8 DEF FindDecision, At, CallSound
  <2>3. CASE AlreadyDecided(r)
    BY <2>2, <2>3, CarriedTyped, AlreadyDecidedTyped
  <2>4. CASE ~AlreadyDecided(r)
    BY <1>8, <2>1, <2>4, IdleCallTyped, QuietTyped DEF FindDecision, Finish, ReadOnly, Silent, TypeOK
  <2> QED
    BY <2>3, <2>4
<1>9. ASSUME NEW r \in Requests,
             SimulateForDecision(r)
      PROVE  TypeOK'
  <2>1. [req[r] EXCEPT !.at = "decide.record"] \in Calls
    BY <1>a DEF Calls, Points
  <2> QED
    BY <1>9, <2>1, IdleCallTyped, QuietTyped
       DEF SimulateForDecision, GoTo, Finish, ReadOnly, Silent, TypeOK
<1>10. ASSUME NEW r \in Requests,
             RecordDecision(r)
      PROVE  TypeOK'
  <2> DEFINE approval == [proposal |-> req[r].id, digest |-> req[r].seen.digest,
                          version |-> req[r].seen.base, by |-> req[r].by,
                          decision |-> req[r].decision]
             status == IF req[r].decision = "APPROVE" THEN "APPROVED" ELSE "REJECTED"
             decided == [req[r].seen EXCEPT !.status = status]
  <2>1. /\ CarriesProposal(req[r])
        /\ req[r].decision \in Decisions
        /\ req[r].by \in Principals
    BY <1>a, <1>10, ApproversArePrincipals DEF RecordDecision, At, CallSound
  <2>2. CASE AlreadyDecided(r)
    BY <2>1, <2>2, CarriedTyped, AlreadyDecidedTyped
  <2>3. CASE /\ RecordProposalDecision(approval, decided)
             /\ AnswerDecision(req[r].id, req[r].decision)
             /\ Finish(r)
    <3>1. approval \in Approvals /\ decided \in ProposalRecords
      BY <2>1, CarriedTyped DEF Approvals, ProposalRecords, Statuses
    <3>2. proposals' \in [ProposalIds -> ProposalRecords \cup {None}]
      BY <2>1, <2>3, <3>1, CarriedTyped, SaveTyped DEF RecordProposalDecision, WriteDecision
    <3>3. audit' \subseteq AuditEvents
      BY <2>1, <2>3, <3>1, CarriedTyped, AuditTyped DEF RecordProposalDecision, WriteDecision, AuditActions
    <3>4. answers' \subseteq Answers
      BY <2>1, <2>3, CarriedTyped DEF AnswerDecision, Answers, TypeOK
    <3>5. req' \in [Requests -> Calls]
      BY <2>3, IdleCallTyped, BecomeTyped DEF Finish, TypeOK
    <3>6. approvals' \subseteq Approvals
      BY <2>3, <3>1 DEF RecordProposalDecision, WriteDecision, TypeOK, StoreTypeOK
    <3> QED
      BY <2>3, <3>2, <3>3, <3>4, <3>5, <3>6 DEF RecordProposalDecision, WriteDecision, TypeOK, StoreTypeOK
  <2> QED
    BY <1>10, <2>2, <2>3 DEF RecordDecision
<1>11. ASSUME NEW r \in Requests, NEW id \in ProposalIds, NEW key \in Keys,
             ApplyProposal(r, id, key)
      PROVE  TypeOK'
  <2>1. [IdleCall EXCEPT !.at = "apply.key", !.id = id, !.seen = proposals[id],
                         !.key = key] \in Calls
    BY <1>a, IdleCallTyped DEF Calls, Points, TypeOK, StoreTypeOK
  <2> QED
    BY <1>11, <2>1, QuietTyped DEF ApplyProposal, ReadOnly, Silent, TypeOK
<1>12. ASSUME NEW r \in Requests,
             FindKey(r)
      PROVE  TypeOK'
  <2> DEFINE existing == idempotency[req[r].key]
  <2>1. CarriesProposal(req[r]) /\ req[r].key \in Keys
    BY <1>a, <1>12 DEF FindKey, At, CallSound
  <2>2. [req[r] EXCEPT !.at = "apply.approval"] \in Calls
    BY <1>a DEF Calls, Points
  <2>3. CASE GoTo(r, "apply.approval") /\ Silent
    BY <1>12, <2>2, <2>3, QuietTyped DEF FindKey, GoTo, Silent, TypeOK
  <2>4. CASE /\ ClassifyIdempotency(req[r].id, req[r].seen, existing) = "REPLAY"
             /\ AnswerApply(req[r].id, req[r].key, existing.version)
             /\ Finish(r)
    <3>1. existing \in IdempotencyRecords
      BY <2>1, <2>4 DEF ClassifyIdempotency, TypeOK, StoreTypeOK
    <3>2. answers' \subseteq Answers
      BY <2>1, <2>4, <3>1, CarriedTyped DEF AnswerApply, Answers, IdempotencyRecords, TypeOK
    <3> QED
      BY <1>12, <2>4, <3>2, IdleCallTyped, QuietTyped DEF FindKey, Finish
  <2>5. CASE Finish(r) /\ Silent
    BY <1>12, <2>5, IdleCallTyped, QuietTyped DEF FindKey, Finish, Silent, TypeOK
  <2> QED
    BY <1>12, <2>3, <2>4, <2>5 DEF FindKey
<1>13. ASSUME NEW r \in Requests,
             FindApproval(r)
      PROVE  TypeOK'
  <2>1. \A approval \in approvals :
          [req[r] EXCEPT !.at = "apply.load", !.approval = approval, !.since = Now] \in Calls
    <3> SUFFICES ASSUME NEW approval \in approvals
                 PROVE  [req[r] EXCEPT !.at = "apply.load", !.approval = approval,
                                       !.since = Now] \in Calls
      OBVIOUS
    <3>1. approval \in Approvals
      BY DEF TypeOK, StoreTypeOK
    <3> QED
      BY <1>a, <3>1 DEF Calls, Points
  <2>2. UNCHANGED storeVars /\ answers' \subseteq Answers
    BY <1>13 DEF FindApproval, ReadOnly, Silent, TypeOK
  <2>3. PICK call \in Calls : Become(r, call)
    BY <1>13, <2>1, IdleCallTyped DEF FindApproval, Finish
  <2> QED
    BY <2>2, <2>3, QuietTyped
<1>14. ASSUME NEW r \in Requests, NEW expected \in FirstVersion..version,
             LoadForApply(r, expected)
      PROVE  TypeOK'
  <2>1. /\ [req[r] EXCEPT !.at = "apply.commit"] \in Calls
        /\ [req[r] EXCEPT !.at = "apply.fail"] \in Calls
    BY <1>a DEF Calls, Points
  <2> QED
    BY <1>14, <2>1, IdleCallTyped, QuietTyped
       DEF LoadForApply, GoTo, Finish, ReadOnly, Silent, TypeOK
<1>15. ASSUME NEW r \in Requests,
             CommitApply(r)
      PROVE  TypeOK'
  <2> DEFINE applied == [req[r].seen EXCEPT !.status = "APPLIED"]
             commit == [proposal |-> req[r].id, digest |-> ComputeProposalDigest(applied),
                        key |-> req[r].key, base |-> version]
  <2>1. CarriesProposal(req[r]) /\ req[r].key \in Keys
    BY <1>a, <1>15 DEF CommitApply, At, CallSound
  <2>2. req' \in [Requests -> Calls]
    BY <1>15, IdleCallTyped, BecomeTyped DEF CommitApply, Finish, TypeOK
  <2>3. CASE ReadOnly
    BY <2>2, <2>3 DEF ReadOnly, Silent, storeVars, TypeOK, StoreTypeOK
  <2>4. CASE /\ ApplyProposalTransaction(req[r].id, applied, req[r].key, req[r].seen.base)
             /\ AnswerApply(req[r].id, req[r].key, version')
    <3>1. applied \in ProposalRecords /\ applied.digest \in Digests
      BY <2>1, CarriedTyped DEF ProposalRecords, Statuses
    <3>2. commit \in Commits
      BY <1>a, <2>1, <3>1, CarriedTyped DEF Commits, ComputeProposalDigest, Digests, ProposalRecords
    <3>3. version' \in Nat
      BY <1>a, <2>4 DEF ApplyProposalTransaction, WriteApply
    <3>4. commits' \in Seq(Commits)
      BY <2>4, <3>2, AppendProperties DEF ApplyProposalTransaction, WriteApply, TypeOK, StoreTypeOK
    <3>5. proposals' \in [ProposalIds -> ProposalRecords \cup {None}]
      BY <2>1, <2>4, <3>1, CarriedTyped, SaveTyped DEF ApplyProposalTransaction, WriteApply
    <3>6. audit' \subseteq AuditEvents
      BY <2>1, <2>4, CarriedTyped, AuditTyped DEF ApplyProposalTransaction, WriteApply, AuditActions
    <3>7. [proposal |-> req[r].id, digest |-> applied.digest, version |-> req[r].seen.base + 1]
            \in IdempotencyRecords
      BY <2>1, <3>1, CarriedTyped DEF IdempotencyRecords
    <3>8. idempotency' \in [Keys -> IdempotencyRecords \cup {None}]
      BY <2>4, <3>7 DEF ApplyProposalTransaction, WriteApply, TypeOK, StoreTypeOK
    <3>9. answers' \subseteq Answers
      BY <2>1, <2>4, <3>3, CarriedTyped DEF AnswerApply, Answers, TypeOK
    <3> QED
      BY <2>2, <2>4, <3>3, <3>4, <3>5, <3>6, <3>8, <3>9
         DEF ApplyProposalTransaction, WriteApply, TypeOK, StoreTypeOK
  <2> QED
    BY <1>15, <2>3, <2>4 DEF CommitApply
<1>16. ASSUME NEW r \in Requests,
             SaveFailed(r)
      PROVE  TypeOK'
  <2>1. CarriesProposal(req[r])
    BY <1>a, <1>16 DEF SaveFailed, At, CallSound
  <2>2. [req[r].seen EXCEPT !.status = "FAILED", !.judgedAt = 0] \in ProposalRecords
    BY <2>1, CarriedTyped DEF ProposalRecords, Statuses
  <2>3. [req[r] EXCEPT !.at = "apply.failAudit"] \in Calls
    BY <1>a DEF Calls, Points
  <2>4. req' \in [Requests -> Calls]
    BY <1>16, <2>3, BecomeTyped DEF SaveFailed, GoTo, TypeOK
  <2>5. proposals' \in [ProposalIds -> ProposalRecords \cup {None}]
    BY <1>16, <2>1, <2>2, CarriedTyped, SaveTyped DEF SaveFailed, FailedRecord
  <2> QED
    BY <1>16, <2>4, <2>5 DEF SaveFailed, Silent, TypeOK, StoreTypeOK
<1>17. ASSUME NEW r \in Requests,
             AuditFailed(r)
      PROVE  TypeOK'
  <2>1. req[r].id \in ProposalIds
    BY <1>a, <1>17 DEF AuditFailed, At, CallSound
  <2>2. req' \in [Requests -> Calls]
    BY <1>17, IdleCallTyped, BecomeTyped DEF AuditFailed, Finish, TypeOK
  <2>3. audit' \subseteq AuditEvents
    BY <1>17, <2>1, AuditTyped DEF AuditFailed, AuditActions
  <2> QED
    BY <1>17, <2>2, <2>3 DEF AuditFailed, Silent, TypeOK, StoreTypeOK
<1>18. ASSUME NEW r \in Requests, NEW id \in ProposalIds,
             VerifyProposal(r, id)
      PROVE  TypeOK'
  <2>1. [IdleCall EXCEPT !.at = "verify.load", !.id = id, !.seen = proposals[id],
                         !.since = Now] \in Calls
    BY <1>a, IdleCallTyped DEF Calls, Points, TypeOK, StoreTypeOK
  <2> QED
    BY <1>18, <2>1, QuietTyped DEF VerifyProposal, ReadOnly, Silent, TypeOK
<1>19. ASSUME NEW r \in Requests,
             LoadForVerify(r)
      PROVE  TypeOK'
  <2>1. /\ [req[r] EXCEPT !.at = "verify.audit", !.checks = "pass"] \in Calls
        /\ [req[r] EXCEPT !.at = "verify.audit", !.checks = "fail"] \in Calls
    BY <1>a DEF Calls, Points
  <2> QED
    BY <1>19, <2>1, QuietTyped DEF LoadForVerify, ReadOnly, Silent, TypeOK
<1>20. ASSUME NEW r \in Requests,
             FindApplyAudit(r)
      PROVE  TypeOK'
  <2> DEFINE found == [action |-> "PROPOSAL_APPLIED", proposal |-> req[r].id] \in audit
             next == [req[r] EXCEPT !.at = "verify.append",
                                    !.checks = IF found THEN @ ELSE "fail"]
  <2>1. next \in Calls
    BY <1>a DEF Calls, Points
  <2> QED
    BY <1>20, <2>1, QuietTyped DEF FindApplyAudit, ReadOnly, Silent, TypeOK
<1>21. ASSUME NEW r \in Requests,
             AppendVerification(r)
      PROVE  TypeOK'
  <2>1. CarriesProposal(req[r])
    BY <1>a, <1>21 DEF AppendVerification, At, CallSound
  <2>2. req' \in [Requests -> Calls]
    BY <1>21, IdleCallTyped, BecomeTyped DEF AppendVerification, Finish, TypeOK
  <2>3. audit' \subseteq AuditEvents
    BY <1>21, <2>1, CarriedTyped, AuditTyped DEF AppendVerification, AuditActions
  <2> QED
    BY <1>21, <2>2, <2>3 DEF AppendVerification, Silent, TypeOK, StoreTypeOK
<1>22. ASSUME NEW r \in Requests,
             Abandon(r)
      PROVE  TypeOK'
  <2> QED
    BY <1>22, IdleCallTyped, QuietTyped DEF Abandon, Finish, ReadOnly, Silent, TypeOK
<1>23. ASSUME NEW id \in ProposalIds, NEW plan \in Plans,
             EditStoredOperations(id, plan)
      PROVE  TypeOK'
  <2>1. [proposals[id] EXCEPT !.operations = plan] \in ProposalRecords
    BY <1>23 DEF EditStoredOperations, TypeOK, StoreTypeOK, ProposalRecords
  <2>2. proposals' \in [ProposalIds -> ProposalRecords \cup {None}]
    BY <1>23, <2>1, SaveTyped DEF EditStoredOperations
  <2> QED
    BY <1>23, <2>2 DEF EditStoredOperations, Silent, TypeOK, StoreTypeOK
<1> QED
    BY <1>0, <1>1, <1>2, <1>3, <1>4, <1>5, <1>6, <1>7, <1>8, <1>9, <1>10, <1>11, <1>12, <1>13,
     <1>14, <1>15, <1>16, <1>17, <1>18, <1>19, <1>20, <1>21, <1>22, <1>23 DEF Next

-----------------------------------------------------------------------------
(* What once was true stays true: the store only grows.                    *)

Grows ==
    /\ version \in Nat /\ version' \in Nat /\ version <= version'
    /\ approvals \subseteq approvals'
    /\ \A i \in DOMAIN commits : i \in DOMAIN commits' /\ commits'[i] = commits[i]
    /\ \A i \in DOMAIN commits' : i \in DOMAIN commits \/ commits'[i].base = version

LEMMA CommittedStays == ASSUME Grows, NEW id, Committed(id) PROVE Committed(id)'
BY DEF Grows, Committed

LEMMA DecidedStays ==
    ASSUME Grows, NEW id, NEW decision, Decided(id, decision) PROVE Decided(id, decision)'
BY DEF Grows, Decided, DecisionsOn

\* A record somebody read stays sound while the store moves on: the version
\* can only leave its base, and what its status claims stays true.
LEMMA SoundStays ==
    ASSUME Grows, NEW id, NEW record \in ProposalRecords, Sound(id, record)
    PROVE  Sound(id, record)'
<1>1. record.base \in Nat
  BY DEF ProposalRecords
<1>2. record.base <= version' /\ (record.base = version' => version' = version)
  BY <1>1 DEF Grows, Sound
<1>3. /\ Committed(id) => Committed(id)'
      /\ \A decision : Decided(id, decision) => Decided(id, decision)'
  BY CommittedStays, DecidedStays
<1> QED
  BY <1>2, <1>3 DEF Sound, IsClean

\* What a call carries stays sound while other calls act.  A commit made in
\* the meantime is on a version its proposal's base does not exceed.
LEMMA CallStays ==
    ASSUME TypeOK, Grows, NEW call \in Calls, CallSound(call)
    PROVE  CallSound(call)'
<1>1. ASSUME NEW id \in ProposalIds, NEW record \in ProposalRecords, Sound(id, record)
      PROVE  Sound(id, record)'
  BY <1>1, SoundStays
<1>2. call.seen # None => call.seen \in ProposalRecords /\ call.seen.base \in Nat
  BY DEF Calls, ProposalRecords
<1>3. CarriesProposal(call) => CarriesProposal(call)'
  BY <1>1, <1>2 DEF CarriesProposal
<1>4. ASSUME CarriesProposal(call), KeyIsFree(call)
      PROVE  KeyIsFree(call)'
  <2>1. call.seen.base <= version /\ call.seen.base \in Nat /\ version \in Nat
    BY <1>2, <1>4 DEF CarriesProposal, Sound, Grows
  <2> QED
    BY <1>4, <2>1 DEF KeyIsFree, Grows
<1>5. Committed(call.id) => Committed(call.id)'
  BY CommittedStays
<1>6. call.approval \in approvals => call.approval \in approvals'
  BY DEF Grows
<1>7. (call.at = "create.save" => /\ call.seen # None
                                  /\ \A id \in ProposalIds : Sound(id, call.seen))
        => (call.at = "create.save" => \A id \in ProposalIds : Sound(id, call.seen)')
  BY <1>1, <1>2
<1> QED
  BY <1>3, <1>4, <1>5, <1>6, <1>7 DEF CallSound

LEMMA QuietCalls ==
    ASSUME CallsSound, req \in [Requests -> Calls], NEW r \in Requests, NEW call,
           CallSound(call), Become(r, call), UNCHANGED storeVars
    PROVE  CallsSound'
<1>1. \A c : CallSound(c) => CallSound(c)'
  BY DEF CallSound, CarriesProposal, Sound, KeyIsFree, Committed, Decided, DecisionsOn, IsClean,
         CheckWriteAllowed, RequireApproval, CheckProposalApplicable, CheckApprovalFreshness,
         DigestMatches, ComputeProposalDigest, storeVars
<1>2. ASSUME NEW s \in Requests PROVE CallSound(req[s])'
  <2>1. CASE s = r
    BY <1>1, <2>1 DEF Become
  <2>2. CASE s # r
    BY <1>1, <2>2 DEF Become, CallsSound
  <2> QED
    BY <2>1, <2>2
<1> QED
  BY <1>2 DEF CallsSound

LEMMA BusyCalls ==
    ASSUME TypeOK, CallsSound, Grows, NEW r \in Requests, NEW call, CallSound(call)',
           Become(r, call)
    PROVE  CallsSound'
<1>1. ASSUME NEW s \in Requests PROVE CallSound(req[s])'
  <2>1. CASE s = r
    BY <2>1 DEF Become, TypeOK
  <2>2. CASE s # r
    BY <2>2, CallStays DEF Become, CallsSound, TypeOK
  <2> QED
    BY <2>1, <2>2
<1> QED
  BY <1>1 DEF CallsSound

\* A call that is over, or that has only an event left to append, carries
\* nothing that could go stale.
LEMMA IdleSound == CallSound(IdleCall)
BY DEF CallSound, IdleCall

-----------------------------------------------------------------------------
(* The store's invariants, by the kind of write.                           *)

StoreInv ==
    /\ AppliedAsApproved
    /\ AppliedAtMostOnce
    /\ CommittedPlansAreClean
    /\ BookkeepingMatchesCommits
    /\ ProposalsSound
    /\ ApprovalsSound
    /\ VerifiedMeansApplied

\* A step that writes nothing.
LEMMA QuietStore == ASSUME StoreInv, UNCHANGED storeVars PROVE StoreInv' /\ (TypeOK => Grows)
<1>1. TypeOK => Grows
  BY DEF TypeOK, StoreTypeOK, Grows, storeVars
<1>2. (AppliedAsApproved /\ AppliedAtMostOnce /\ CommittedPlansAreClean)'
  BY DEF StoreInv, AppliedAsApproved, AppliedAtMostOnce, CommittedPlansAreClean, IsClean, storeVars
<1>3. BookkeepingMatchesCommits' /\ VerifiedMeansApplied'
  BY DEF StoreInv, BookkeepingMatchesCommits, VerifiedMeansApplied, storeVars
<1>4. ProposalsSound' /\ ApprovalsSound'
  BY DEF StoreInv, ProposalsSound, ApprovalsSound, Sound, Committed, Decided, DecisionsOn, IsClean,
         storeVars
<1> QED
  BY <1>1, <1>2, <1>3, <1>4 DEF StoreInv

\* Replacing one record by a sound one leaves all records sound.
LEMMA SavedSound ==
    ASSUME TypeOK, ProposalsSound, Grows, NEW id \in ProposalIds, NEW record \in ProposalRecords,
           Sound(id, record)', SaveProposal(id, record)
    PROVE  ProposalsSound'
<1>1. ASSUME NEW q \in ProposalIds, proposals'[q] # None
      PROVE  Sound(q, proposals[q])'
  <2>1. CASE q = id
    <3>1. proposals'[q] = record
      BY <2>1 DEF SaveProposal, TypeOK, StoreTypeOK
    <3> QED
      BY <2>1, <3>1
  <2>2. CASE q # id
    <3>1. proposals'[q] = proposals[q]
      BY <2>2 DEF SaveProposal, TypeOK, StoreTypeOK
    <3>2. proposals[q] \in ProposalRecords /\ Sound(q, proposals[q])
      BY <1>1, <3>1 DEF ProposalsSound, TypeOK, StoreTypeOK
    <3>3. PICK old \in ProposalRecords : old = proposals[q]
      BY <3>2
    <3>4. Sound(q, old)'
      BY <3>2, <3>3, SoundStays
    <3> QED
      BY <3>1, <3>3, <3>4
  <2> QED
    BY <2>1, <2>2
<1> QED
  BY <1>1 DEF ProposalsSound

\* proposals.save: whoever saves, saves a sound record.
LEMMA SaveStore ==
    ASSUME TypeOK, StoreInv, NEW id \in ProposalIds, NEW record \in ProposalRecords,
           Sound(id, record), SaveProposal(id, record),
           UNCHANGED <<version, commits, approvals, idempotency, audit>>
    PROVE  StoreInv' /\ Grows
<1>1. Grows
  BY DEF TypeOK, StoreTypeOK, Grows
<1>2. (AppliedAsApproved /\ AppliedAtMostOnce /\ CommittedPlansAreClean)'
  BY DEF StoreInv, AppliedAsApproved, AppliedAtMostOnce, CommittedPlansAreClean, IsClean
<1>3. BookkeepingMatchesCommits' /\ VerifiedMeansApplied' /\ ApprovalsSound'
  BY DEF StoreInv, BookkeepingMatchesCommits, VerifiedMeansApplied, ApprovalsSound
<1>4. Sound(id, record)'
  BY <1>1, SoundStays
<1>5. ProposalsSound'
  BY <1>1, <1>4, SavedSound DEF StoreInv
<1> QED
  BY <1>1, <1>2, <1>3, <1>5 DEF StoreInv

\* auditEvents.append: no event but PROPOSAL_APPLIED says that a commit was
\* made, and PROPOSAL_VERIFIED is appended only to what was committed.
LEMMA AuditStore ==
    ASSUME TypeOK, StoreInv, NEW id \in ProposalIds, NEW action,
           action # "PROPOSAL_APPLIED", action = "PROPOSAL_VERIFIED" => Committed(id),
           AppendAudit(action, id),
           UNCHANGED <<version, commits, proposals, approvals, idempotency>>
    PROVE  StoreInv' /\ Grows
<1>1. Grows
  BY DEF TypeOK, StoreTypeOK, Grows
<1>2. (AppliedAsApproved /\ AppliedAtMostOnce /\ CommittedPlansAreClean)'
  BY DEF StoreInv, AppliedAsApproved, AppliedAtMostOnce, CommittedPlansAreClean, IsClean
<1>3. \A q \in ProposalIds :
        [action |-> "PROPOSAL_APPLIED", proposal |-> q] \in audit'
          <=> [action |-> "PROPOSAL_APPLIED", proposal |-> q] \in audit
  BY DEF AppendAudit
<1>4. BookkeepingMatchesCommits'
  BY <1>3 DEF StoreInv, BookkeepingMatchesCommits
<1>5. VerifiedMeansApplied'
  BY DEF StoreInv, VerifiedMeansApplied, AppendAudit, Committed
<1>6. ProposalsSound' /\ ApprovalsSound'
  BY DEF StoreInv, ProposalsSound, ApprovalsSound, Sound, Committed, Decided, DecisionsOn, IsClean
<1> QED
  BY <1>1, <1>2, <1>4, <1>5, <1>6 DEF StoreInv

\* recordProposalDecision: the first decision on a proposal, by somebody who
\* may take it.
LEMMA DecisionStore ==
    ASSUME TypeOK, StoreInv, NEW approval \in Approvals, NEW record \in ProposalRecords,
           approval.version <= version,
           approval.by \in Approvers,
           MakerChecker => CreatedBy[approval.digest.changeRequest] # approval.by,
           Sound(approval.proposal, record),
           NEW status \in {"APPROVED", "REJECTED"},
           status = "APPROVED" <=> approval.decision = "APPROVE",
           RecordProposalDecision(approval, [record EXCEPT !.status = status])
    PROVE  StoreInv' /\ Grows
<1> DEFINE decided == [record EXCEPT !.status = status]
<1>1. /\ approval.proposal \in ProposalIds
      /\ approval.decision \in Decisions
      /\ decided \in ProposalRecords
  BY DEF Approvals, ProposalRecords, Statuses
<1>2. /\ DecisionsOn(approval.proposal) = {}
      /\ approvals' = approvals \cup {approval}
      /\ UNCHANGED <<version, commits, idempotency>>
  BY DEF RecordProposalDecision, WriteDecision
<1>3. Grows
  BY <1>2 DEF TypeOK, StoreTypeOK, Grows
<1>4. (AppliedAsApproved /\ AppliedAtMostOnce /\ CommittedPlansAreClean)'
  BY <1>2 DEF StoreInv, AppliedAsApproved, AppliedAtMostOnce, CommittedPlansAreClean, IsClean
<1>5. PICK action \in {"PROPOSAL_APPROVED", "PROPOSAL_REJECTED"} :
        AppendAudit(action, approval.proposal)
  BY DEF RecordProposalDecision, WriteDecision
<1>6. \A q \in ProposalIds : \A a \in {"PROPOSAL_APPLIED", "PROPOSAL_VERIFIED"} :
        [action |-> a, proposal |-> q] \in audit' <=> [action |-> a, proposal |-> q] \in audit
  BY <1>5 DEF AppendAudit
<1>7. BookkeepingMatchesCommits' /\ VerifiedMeansApplied'
  BY <1>2, <1>6 DEF StoreInv, BookkeepingMatchesCommits, VerifiedMeansApplied
<1>8. ApprovalsSound'
  BY <1>2 DEF StoreInv, ApprovalsSound, DecisionsOn
<1>9. Sound(approval.proposal, decided)'
  <2>1. Sound(approval.proposal, record)'
    BY <1>3, SoundStays
  <2>2. /\ status = "APPROVED" => Decided(approval.proposal, "APPROVE")'
        /\ status = "REJECTED" => Decided(approval.proposal, "REJECT")'
    BY <1>1, <1>2 DEF Decided, DecisionsOn, Decisions
  <2>3. /\ decided.base = record.base /\ decided.digest = record.digest
        /\ decided.changeRequest = record.changeRequest
        /\ decided.validation = record.validation /\ decided.status = status
    BY DEF ProposalRecords
  <2> QED
    BY <2>1, <2>2, <2>3 DEF Sound
<1>10. SaveProposal(approval.proposal, decided)
  BY DEF RecordProposalDecision, WriteDecision
<1>11. ProposalsSound'
  BY <1>1, <1>3, <1>9, <1>10, SavedSound DEF StoreInv
<1> QED
  BY <1>3, <1>4, <1>7, <1>8, <1>11 DEF StoreInv

\* applyProposalTransaction behind the gate.  The version being the base of
\* an approved proposal rules out that the proposal, or the key, was used by
\* an earlier commit: that commit was on an earlier version.
LEMMA CommitStore ==
    ASSUME TypeOK, StoreInv, NEW id \in ProposalIds, NEW record \in ProposalRecords,
           NEW key \in Keys, NEW approval \in approvals,
           Sound(id, record),
           CheckWriteAllowed(id, record, approval, record.base),
           \A i \in DOMAIN commits : commits[i].key = key => commits[i].base >= record.base,
           ApplyProposalTransaction(id, [record EXCEPT !.status = "APPLIED"], key, record.base)
    PROVE  StoreInv' /\ Grows /\ Committed(id)'
           /\ \E i \in DOMAIN commits' : /\ commits'[i].proposal = id /\ commits'[i].key = key
                                         /\ version' = commits'[i].base + 1
<1> DEFINE applied == [record EXCEPT !.status = "APPLIED"]
           commit == [proposal |-> id, digest |-> record.digest, key |-> key, base |-> version]
           n == Len(commits) + 1
<1>1. /\ version = record.base /\ version \in Nat /\ FirstVersion \in Nat
      /\ commits \in Seq(Commits) /\ Len(commits) \in Nat
      /\ version = FirstVersion + Len(commits)
  BY FirstVersionIsPositive
     DEF ApplyProposalTransaction, WriteApply, TypeOK, StoreTypeOK, StoreInv, BookkeepingMatchesCommits
<1>2. /\ applied \in ProposalRecords
      /\ applied.base = record.base /\ applied.digest = record.digest
      /\ applied.changeRequest = record.changeRequest /\ applied.status = "APPLIED"
      /\ ComputeProposalDigest(applied) = record.digest
  BY DEF ProposalRecords, Statuses, ComputeProposalDigest, CheckWriteAllowed,
         CheckApprovalFreshness, DigestMatches
<1>3. /\ version' = version + 1
      /\ commits' = Append(commits, commit)
      /\ SaveProposal(id, applied)
      /\ idempotency' = [idempotency EXCEPT ![key] =
                           [proposal |-> id, digest |-> record.digest, version |-> version + 1]]
      /\ audit' = audit \cup {[action |-> "PROPOSAL_APPLIED", proposal |-> id]}
      /\ approvals' = approvals
  BY <1>1, <1>2 DEF ApplyProposalTransaction, WriteApply, AppendAudit
<1>4. /\ DOMAIN commits = 1..Len(commits) /\ DOMAIN commits' = 1..n /\ Len(commits') = n
      /\ \A i \in 1..Len(commits) : commits'[i] = commits[i]
      /\ commits'[n] = commit
      /\ \A i \in 1..n : i \in 1..Len(commits) \/ i = n
  BY <1>1, <1>3
<1>a. \A i \in DOMAIN commits : commits[i] \in Commits
  BY <1>1
<1>5. Grows
  BY <1>1, <1>3, <1>4 DEF Grows
<1>6. \A i \in DOMAIN commits : commits[i].base = FirstVersion + i - 1 /\ commits[i].base < version
  BY <1>1, <1>4 DEF StoreInv, AppliedAsApproved
<1>7. \A i \in DOMAIN commits : commits[i].proposal # id /\ commits[i].key # key
  <2> SUFFICES ASSUME NEW i \in DOMAIN commits
               PROVE  commits[i].proposal # id /\ commits[i].key # key
    OBVIOUS
  <2>1. PICK a \in approvals : a.proposal = commits[i].proposal /\ a.version = commits[i].base
    BY DEF StoreInv, AppliedAsApproved
  <2>2. approval.proposal = id /\ approval.version = version
    BY <1>1 DEF CheckWriteAllowed, RequireApproval, CheckApprovalFreshness
  <2>3. a.version # approval.version
    BY <1>1, <1>6, <2>1, <2>2
  <2>4. commits[i].proposal # id
    BY <2>1, <2>2, <2>3 DEF StoreInv, ApprovalsSound
  <2>5. commits[i].base \in Nat
    BY <1>a DEF Commits
  <2>6. commits[i].key # key
    BY <1>1, <1>6, <2>5
  <2> QED
    BY <2>4, <2>6
<1>8. AppliedAsApproved'
  <2>1. ASSUME NEW i \in DOMAIN commits
        PROVE  /\ commits'[i].base = FirstVersion + i - 1
               /\ \E a \in approvals : /\ a.proposal = commits'[i].proposal
                                       /\ a.decision = "APPROVE"
                                       /\ a.digest = commits'[i].digest
                                       /\ a.version = commits'[i].base
                                       /\ a.by \in Approvers
                                       /\ MakerChecker => CreatedBy[a.digest.changeRequest] # a.by
    BY <1>4 DEF StoreInv, AppliedAsApproved
  <2>2. /\ approval.proposal = id /\ approval.decision = "APPROVE"
        /\ approval.digest = record.digest /\ approval.version = version
        /\ approval.by \in Approvers
        /\ MakerChecker => CreatedBy[approval.digest.changeRequest] # approval.by
    BY <1>1 DEF CheckWriteAllowed, RequireApproval, CheckApprovalFreshness, StoreInv, ApprovalsSound
  <2>3. version = FirstVersion + n - 1
    BY <1>1
  <2> QED
    BY <1>3, <1>4, <2>1, <2>2, <2>3 DEF AppliedAsApproved
<1>9. AppliedAtMostOnce'
  <2> SUFFICES ASSUME NEW i \in 1..n, NEW j \in 1..n,
                      \/ commits'[i].proposal = commits'[j].proposal
                      \/ commits'[i].key = commits'[j].key
               PROVE  i = j
    BY <1>4 DEF AppliedAtMostOnce
  <2>1. CASE i \in 1..Len(commits) /\ j \in 1..Len(commits)
    BY <1>4, <2>1 DEF StoreInv, AppliedAtMostOnce
  <2>2. CASE i = n /\ j \in 1..Len(commits)
    BY <1>4, <1>7, <2>2
  <2>3. CASE i \in 1..Len(commits) /\ j = n
    BY <1>4, <1>7, <2>3
  <2> QED
    BY <1>4, <2>1, <2>2, <2>3
<1>10. CommittedPlansAreClean'
  <2>1. IsClean(record.digest.operations, version)
    BY <1>1 DEF Sound, CheckWriteAllowed, CheckProposalApplicable
  <2>2. \A i \in DOMAIN commits : IsClean(commits'[i].digest.operations, commits'[i].base)
    BY <1>4 DEF StoreInv, CommittedPlansAreClean
  <2> QED
    BY <1>4, <2>1, <2>2 DEF CommittedPlansAreClean, IsClean
<1>11. BookkeepingMatchesCommits'
  <2>1. version' = FirstVersion + Len(commits')
    BY <1>1, <1>3, <1>4
  <2>2. ASSUME NEW q \in ProposalIds
        PROVE  [action |-> "PROPOSAL_APPLIED", proposal |-> q] \in audit'
                 <=> \E i \in DOMAIN commits' : commits'[i].proposal = q
    <3>1. [action |-> "PROPOSAL_APPLIED", proposal |-> q] \in audit
            <=> \E i \in DOMAIN commits : commits[i].proposal = q
      BY DEF StoreInv, BookkeepingMatchesCommits
    <3>2. CASE q = id
      BY <1>3, <1>4, <3>2
    <3>3. CASE q # id
      BY <1>3, <1>4, <3>1, <3>3
    <3> QED
      BY <3>2, <3>3
  <2>3. ASSUME NEW i \in DOMAIN commits'
        PROVE  idempotency'[commits'[i].key] =
                 [proposal |-> commits'[i].proposal, digest |-> commits'[i].digest,
                  version |-> commits'[i].base + 1]
    <3>1. CASE i = n
      BY <1>3, <1>4, <3>1 DEF TypeOK, StoreTypeOK
    <3>2. CASE i \in DOMAIN commits
      <4>1. commits[i].key \in Keys
        BY <1>a, <3>2 DEF Commits
      <4> QED
        BY <1>3, <1>4, <1>7, <3>2, <4>1 DEF StoreInv, BookkeepingMatchesCommits, TypeOK, StoreTypeOK
    <3> QED
      BY <1>4, <3>1, <3>2
  <2>4. ASSUME NEW k \in Keys, idempotency'[k] # None
        PROVE  \E i \in DOMAIN commits' : commits'[i].key = k
    <3>1. CASE k = key
      BY <1>4, <3>1
    <3>2. CASE k # key
      <4>1. idempotency[k] # None
        BY <1>3, <2>4, <3>2 DEF TypeOK, StoreTypeOK
      <4>2. PICK i \in DOMAIN commits : commits[i].key = k
        BY <4>1 DEF StoreInv, BookkeepingMatchesCommits
      <4> QED
        BY <1>4, <4>2
    <3> QED
      BY <3>1, <3>2
  <2> QED
    BY <2>1, <2>2, <2>3, <2>4 DEF BookkeepingMatchesCommits
<1>12. Committed(id)'
  BY <1>4 DEF Committed
<1>13. Sound(id, applied)'
  BY <1>1, <1>2, <1>3, <1>12 DEF Sound
<1>14. ProposalsSound'
  BY <1>2, <1>3, <1>5, <1>13, SavedSound DEF StoreInv
<1>15. ApprovalsSound'
  <2>1. \A a \in approvals : a.version \in Nat
    BY DEF TypeOK, StoreTypeOK, Approvals
  <2> QED
    BY <1>1, <1>3, <2>1 DEF StoreInv, ApprovalsSound
<1>16. VerifiedMeansApplied'
  BY <1>3, <1>5 DEF StoreInv, VerifiedMeansApplied, Grows
<1> QED
  BY <1>3, <1>4, <1>5, <1>8, <1>9, <1>10, <1>11, <1>12, <1>14, <1>15, <1>16 DEF StoreInv

-----------------------------------------------------------------------------
(* The answers, and a whole step.                                          *)

Kept == StoreInv /\ CallsSound /\ DecisionAnswersStand /\ ApplyAnswersStand

LEMMA InvParts == Inv <=> TypeOK /\ Kept
BY DEF Inv, Kept, StoreInv

\* An answer that stands keeps standing, and the answers given in a step
\* stand if the new ones do.
LEMMA AnswersKept ==
    ASSUME Grows, StoreInv', DecisionAnswersStand, ApplyAnswersStand,
           \A x \in answers' \ answers :
             /\ x.call = "decide" => Decided(x.id, x.decision)'
             /\ x.call = "apply" =>
                  \E i \in DOMAIN commits' : /\ commits'[i].proposal = x.id
                                             /\ commits'[i].key = x.key
                                             /\ x.version = commits'[i].base + 1
    PROVE  DecisionAnswersStand' /\ ApplyAnswersStand'
<1>1. ASSUME NEW x \in answers', x.call = "decide" PROVE Decided(x.id, x.decision)'
  <2>1. x \in answers => Decided(x.id, x.decision)
    BY <1>1 DEF DecisionAnswersStand, Decided
  <2> QED
    BY <1>1, <2>1, DecidedStays
<1>2. ASSUME NEW x \in answers', x.call = "apply"
      PROVE  \E i \in DOMAIN commits' : /\ commits'[i].proposal = x.id
                                        /\ commits'[i].key = x.key
                                        /\ x.version = commits'[i].base + 1
  BY <1>2 DEF ApplyAnswersStand, Grows
<1>3. \A a, b \in approvals' : a.proposal = b.proposal => a = b
  BY DEF StoreInv, ApprovalsSound
<1> QED
  BY <1>1, <1>2, <1>3 DEF DecisionAnswersStand, ApplyAnswersStand, Decided, DecisionsOn

\* A step of a call that writes nothing and answers nothing.
LEMMA QuietStep ==
    ASSUME Inv, NEW r \in Requests, NEW call, CallSound(call), Become(r, call), ReadOnly
    PROVE  Kept'
<1>1. TypeOK /\ Kept /\ UNCHANGED storeVars /\ answers' = answers
  BY InvParts DEF ReadOnly, Silent
<1>2. StoreInv' /\ Grows
  BY <1>1, QuietStore DEF Kept
<1>3. CallsSound'
  BY <1>1, QuietCalls DEF Kept, TypeOK
<1>4. DecisionAnswersStand' /\ ApplyAnswersStand'
  BY <1>1, <1>2, AnswersKept DEF Kept
<1> QED
  BY <1>2, <1>3, <1>4 DEF Kept

\* A step of a call that writes and answers nothing.
LEMMA WriteStep ==
    ASSUME Inv, NEW r \in Requests, NEW call, CallSound(call)', Become(r, call),
           StoreInv', Grows, Silent
    PROVE  Kept'
<1>1. TypeOK /\ Kept /\ answers' = answers
  BY InvParts DEF Silent
<1>2. CallsSound'
  BY <1>1, BusyCalls DEF Kept
<1>3. DecisionAnswersStand' /\ ApplyAnswersStand'
  BY <1>1, AnswersKept DEF Kept
<1> QED
  BY <1>2, <1>3 DEF Kept

\* The answer to a repeated decision is the record that stands.
LEMMA RepeatStep ==
    ASSUME Inv, NEW r \in Requests, AlreadyDecided(r)
    PROVE  Kept'
<1>1. TypeOK /\ Kept /\ UNCHANGED storeVars
  BY InvParts DEF AlreadyDecided
<1>2. StoreInv' /\ Grows
  BY <1>1, QuietStore DEF Kept
<1>3. CallsSound'
  BY <1>1, IdleSound, QuietCalls DEF Kept, TypeOK, AlreadyDecided, Finish
<1>4. PICK id : id = req[r].id
  OBVIOUS
<1>5. PICK existing \in DecisionsOn(id) :
        IF existing.decision = req[r].decision
        THEN AnswerDecision(id, existing.decision)
        ELSE Silent
  BY <1>4 DEF AlreadyDecided
<1>6. ASSUME NEW x \in answers' \ answers
      PROVE  x.call = "decide" /\ Decided(x.id, x.decision)'
  <2>1. x = [call |-> "decide", id |-> id, decision |-> existing.decision]
    BY <1>5, <1>6 DEF AnswerDecision, Silent
  <2>2. x.call = "decide" /\ x.id = id /\ x.decision = existing.decision
    BY <2>1
  <2>3. existing \in DecisionsOn(id)'
    BY <1>1, <1>5 DEF DecisionsOn, storeVars
  <2> QED
    BY <2>2, <2>3 DEF Decided
<1>7. DecisionAnswersStand' /\ ApplyAnswersStand'
  BY <1>1, <1>2, <1>6, AnswersKept DEF Kept
<1> QED
  BY <1>2, <1>3, <1>7 DEF Kept

\* A record read from the store is sound.
LEMMA ReadSound ==
    ASSUME Inv, NEW id \in ProposalIds, proposals[id] # None
    PROVE  proposals[id] \in ProposalRecords /\ Sound(id, proposals[id])
BY InvParts DEF Kept, StoreInv, ProposalsSound, TypeOK, StoreTypeOK

\* A call that has read one proposal at its first step.
LEMMA ReadCall ==
    ASSUME Inv, NEW id \in ProposalIds, proposals[id] # None, NEW call,
           call.id = id, call.seen = proposals[id],
           call.at \in {"validate.judge", "decide.find", "apply.key", "verify.load"},
           call.at = "validate.judge" => DigestMatches(call.seen),
           call.at = "decide.find" => call.decision \in Decisions /\ call.by \in Approvers,
           call.at = "apply.key" => call.key \in Keys
    PROVE  CallSound(call)
BY ReadSound DEF CallSound, CarriesProposal

\* The invariant is inductive.
THEOREM Invariance == Inv /\ [Next]_vars => Inv'
<1> SUFFICES ASSUME Inv, [Next]_vars PROVE Inv'
  OBVIOUS
<1>a. /\ TypeOK /\ Kept /\ StoreInv /\ CallsSound
      /\ version \in Nat /\ FirstVersion \in Nat /\ Now \in Nat
      /\ \A r \in Requests : req[r] \in Calls /\ CallSound(req[r])
  BY InvParts, FirstVersionIsPositive, NowIsNatural DEF Kept, CallsSound, TypeOK, StoreTypeOK
<1>b. TypeOK'
  BY <1>a, TypeNext
<1>c. /\ CallSound(IdleCall)'
      /\ \A id \in ProposalIds : /\ CallSound([IdleCall EXCEPT !.at = "create.audit", !.id = id])'
  BY DEF CallSound, IdleCall
<1>0. ASSUME UNCHANGED vars PROVE Kept'
  <2>1. UNCHANGED storeVars /\ req' = req /\ answers' = answers
    BY <1>0 DEF vars, storeVars
  <2>2. StoreInv' /\ Grows
    BY <1>a, <2>1, QuietStore
  <2>3. \A r \in Requests : CallSound(req[r])'
    BY <1>a, <2>1, <2>2, CallStays
  <2>4. DecisionAnswersStand' /\ ApplyAnswersStand'
    BY <1>a, <2>1, <2>2, AnswersKept DEF Kept
  <2> QED
    BY <2>2, <2>3, <2>4 DEF Kept, CallsSound
<1>1. ASSUME NEW r \in Requests, NEW c \in ChangeRequests, NEW plan \in Plans,
             CreateProposal(r, c, plan)
      PROVE  Kept'
  <2>1. PICK base \in Loads(FirstVersion) : \E verdict \in Verdicts(plan, base) :
          Become(r, [IdleCall EXCEPT !.at = "create.save",
                                     !.seen = NewProposal(c, plan, base, verdict)])
    BY <1>1 DEF CreateProposal
  <2>2. PICK verdict \in Verdicts(plan, base) :
          Become(r, [IdleCall EXCEPT !.at = "create.save",
                                     !.seen = NewProposal(c, plan, base, verdict)])
    BY <2>1
  <2> DEFINE new == NewProposal(c, plan, base, verdict)
             call == [IdleCall EXCEPT !.at = "create.save", !.seen = new]
  <2>3. /\ base \in Nat /\ base <= version /\ verdict \in Validations
        /\ verdict = "VALID" /\ base = version => IsClean(plan, version)
    BY <1>a, LoadsBounded, VerdictsHold
  <2>4. /\ new.base = base /\ new.changeRequest = c /\ new.validation = verdict
        /\ new.digest = [changeRequest |-> c, base |-> base, operations |-> plan]
        /\ new.status \in {"DRAFT", "AWAITING_APPROVAL"}
        /\ new \in ProposalRecords
    BY <2>3 DEF NewProposal, ProposalRecords, Digests, Statuses
  <2>5. \A id \in ProposalIds : Sound(id, new)
    BY <1>a, <2>3, <2>4 DEF Sound
  <2>6. call.at = "create.save" /\ call.seen = new /\ new # None
    BY <2>4, NoneIsNoValue DEF IdleCall
  <2>7. CallSound(call)
    BY <2>4, <2>5, <2>6 DEF CallSound
  <2> QED
    BY <1>1, <2>2, <2>7, QuietStep DEF CreateProposal
<1>2. ASSUME NEW r \in Requests, NEW id \in ProposalIds,
             SaveCreated(r, id)
      PROVE  Kept'
  <2>1. req[r].seen \in ProposalRecords /\ Sound(id, req[r].seen)
    BY <1>a, <1>2 DEF SaveCreated, At, CallSound, Calls
  <2>2. StoreInv' /\ Grows
    BY <1>a, <1>2, <2>1, SaveStore DEF SaveCreated
  <2> QED
    BY <1>c, <1>2, <2>2, WriteStep DEF SaveCreated
<1>3. ASSUME NEW r \in Requests,
             AuditCreated(r)
      PROVE  Kept'
  <2>1. req[r].id \in ProposalIds
    BY <1>a, <1>3 DEF AuditCreated, At, CallSound
  <2>2. StoreInv' /\ Grows
    BY <1>a, <1>3, <2>1, AuditStore DEF AuditCreated
  <2> QED
    BY <1>c, <1>3, <2>2, WriteStep DEF AuditCreated, Finish
<1>4. ASSUME NEW r \in Requests, NEW id \in ProposalIds,
             ValidateProposal(r, id)
      PROVE  Kept'
  <2> DEFINE call == [IdleCall EXCEPT !.at = "validate.judge", !.id = id,
                                      !.seen = proposals[id], !.since = Now]
  <2>1. call.at = "validate.judge" /\ call.id = id /\ call.seen = proposals[id]
    BY DEF IdleCall
  <2>2. CallSound(call)
    BY <1>4, <2>1, ReadCall DEF ValidateProposal
  <2> QED
    BY <1>4, <2>2, QuietStep DEF ValidateProposal
<1>5. ASSUME NEW r \in Requests,
             JudgeProposal(r)
      PROVE  Kept'
  <2>1. CarriesProposal(req[r]) /\ DigestMatches(req[r].seen) /\ Sound(req[r].id, req[r].seen)
    BY <1>a, <1>5 DEF JudgeProposal, At, CallSound, CarriesProposal
  <2>2. PICK current \in Loads(req[r].since) :
          \E verdict \in Verdicts(req[r].seen.operations, current) :
            \/ Become(r, [req[r] EXCEPT !.at = "validate.save",
                                        !.seen = Refreshed(req[r].seen, current, verdict)])
            \/ Finish(r)
    BY <1>5 DEF JudgeProposal
  <2>3. PICK verdict \in Verdicts(req[r].seen.operations, current) :
            \/ Become(r, [req[r] EXCEPT !.at = "validate.save",
                                        !.seen = Refreshed(req[r].seen, current, verdict)])
            \/ Finish(r)
    BY <2>2
  <2> DEFINE seen == req[r].seen
             new == Refreshed(seen, current, verdict)
             call == [req[r] EXCEPT !.at = "validate.save", !.seen = new]
  <2>4. /\ current \in Nat /\ verdict \in Validations
        /\ verdict = "VALID" /\ current = version => IsClean(seen.operations, version)
        /\ seen \in ProposalRecords /\ req[r].id \in ProposalIds
    BY <1>a, <2>1, CarriedTyped, LoadsBounded, VerdictsHold
  <2>5. /\ new \in ProposalRecords
        /\ new.base = seen.base /\ new.digest = seen.digest /\ new.status = seen.status
        /\ new.changeRequest = seen.changeRequest
        /\ new.validation = "VALID" => current = seen.base /\ verdict = "VALID"
        /\ seen.digest.operations = seen.operations
    <3>1. seen.digest.operations = seen.operations
      BY <2>1 DEF DigestMatches, ComputeProposalDigest
    <3>2. PICK judged : judged = IF current = seen.base THEN verdict ELSE "INVALID"
      OBVIOUS
    <3>3. /\ judged \in Validations
          /\ judged = "VALID" => current = seen.base /\ verdict = "VALID"
      BY <2>4, <3>2 DEF Validations
    <3>4. new = [seen EXCEPT !.validation = judged, !.judgedAt = current]
      BY <3>2 DEF Refreshed
    <3> QED
      BY <2>4, <3>1, <3>3, <3>4 DEF ProposalRecords
  <2>6. Sound(req[r].id, new)
    BY <2>1, <2>4, <2>5 DEF Sound
  <2>7. call.at = "validate.save" /\ call.id = req[r].id /\ call.seen = new /\ new # None
    BY <1>a, <2>5, NoneIsNoValue DEF Calls
  <2>8. CallSound(call)
    BY <2>4, <2>6, <2>7 DEF CallSound, CarriesProposal
  <2> QED
    BY <1>5, <2>3, <2>8, IdleSound, QuietStep DEF JudgeProposal, Finish
<1>6. ASSUME NEW r \in Requests,
             SaveRefreshed(r)
      PROVE  Kept'
  <2>1. CarriesProposal(req[r]) /\ Sound(req[r].id, req[r].seen)
    BY <1>a, <1>6 DEF SaveRefreshed, At, CallSound, CarriesProposal
  <2>2. StoreInv' /\ Grows
    BY <1>a, <1>6, <2>1, CarriedTyped, SaveStore DEF SaveRefreshed
  <2> QED
    BY <1>c, <1>6, <2>2, WriteStep DEF SaveRefreshed, Finish
<1>7. ASSUME NEW r \in Requests, NEW id \in ProposalIds,
             NEW d \in Decisions, NEW by \in Principals,
             DecideProposal(r, id, d, by)
      PROVE  Kept'
  <2> DEFINE call == [IdleCall EXCEPT !.at = "decide.find", !.id = id, !.seen = proposals[id],
                                      !.decision = d, !.by = by]
  <2>1. /\ call.at = "decide.find" /\ call.id = id /\ call.seen = proposals[id]
        /\ call.decision = d /\ call.by = by
    BY DEF IdleCall
  <2>2. CallSound(call)
    BY <1>7, <2>1, ReadCall DEF DecideProposal
  <2> QED
    BY <1>7, <2>2, QuietStep DEF DecideProposal
<1>8. ASSUME NEW r \in Requests,
             FindDecision(r)
      PROVE  Kept'
  <2> DEFINE next == IF req[r].decision = "APPROVE" THEN "decide.simulate" ELSE "decide.record"
             call == [req[r] EXCEPT !.at = next, !.since = Now]
  <2>1. /\ CarriesProposal(req[r]) /\ req[r].decision \in Decisions /\ req[r].by \in Approvers
    BY <1>a, <1>8 DEF FindDecision, At, CallSound
  <2>2. /\ call.at \in {"decide.simulate", "decide.record"} /\ call.id = req[r].id
        /\ call.seen = req[r].seen /\ call.decision = req[r].decision /\ call.by = req[r].by
    BY <1>a DEF Calls
  <2>3. MayDecide(r) => CallSound(call)
    BY <2>1, <2>2 DEF CallSound, CarriesProposal, MayDecide
  <2>4. CASE AlreadyDecided(r)
    BY <2>4, RepeatStep
  <2>5. CASE ~AlreadyDecided(r)
    BY <1>8, <2>3, <2>5, IdleSound, QuietStep DEF FindDecision, Finish
  <2> QED
    BY <2>4, <2>5
<1>9. ASSUME NEW r \in Requests,
             SimulateForDecision(r)
      PROVE  Kept'
  <2> DEFINE call == [req[r] EXCEPT !.at = "decide.record"]
  <2>1. /\ call.at = "decide.record" /\ call.id = req[r].id /\ call.seen = req[r].seen
        /\ call.decision = req[r].decision /\ call.by = req[r].by
        /\ req[r].at = "decide.simulate"
    BY <1>a, <1>9 DEF Calls, SimulateForDecision, At
  <2>2. CallSound(call)
    BY <1>a, <2>1 DEF CallSound, CarriesProposal
  <2> QED
    BY <1>9, <2>2, IdleSound, QuietStep DEF SimulateForDecision, GoTo, Finish
<1>10. ASSUME NEW r \in Requests,
             RecordDecision(r)
      PROVE  Kept'
  <2> DEFINE approval == [proposal |-> req[r].id, digest |-> req[r].seen.digest,
                          version |-> req[r].seen.base, by |-> req[r].by,
                          decision |-> req[r].decision]
             status == IF req[r].decision = "APPROVE" THEN "APPROVED" ELSE "REJECTED"
  <2>1. /\ CarriesProposal(req[r]) /\ Sound(req[r].id, req[r].seen)
        /\ req[r].decision \in Decisions /\ req[r].by \in Approvers /\ req[r].by \in Principals
        /\ MakerChecker => CreatedBy[req[r].seen.changeRequest] # req[r].by
    BY <1>a, <1>10, ApproversArePrincipals DEF RecordDecision, At, CallSound, CarriesProposal
  <2>2. CASE AlreadyDecided(r)
    BY <2>2, RepeatStep
  <2>3. CASE /\ RecordProposalDecision(approval, [req[r].seen EXCEPT !.status = status])
             /\ AnswerDecision(req[r].id, req[r].decision)
             /\ Finish(r)
    <3>1. req[r].seen \in ProposalRecords /\ req[r].seen.digest \in Digests
      BY <1>a, <2>1, CarriedTyped DEF ProposalRecords
    <3>2. /\ approval \in Approvals
          /\ approval.version <= version /\ approval.by \in Approvers
          /\ MakerChecker => CreatedBy[approval.digest.changeRequest] # approval.by
          /\ approval.proposal = req[r].id /\ approval.decision = req[r].decision
      BY <1>a, <2>1, <3>1, CarriedTyped DEF Approvals, Sound
    <3>3. status \in {"APPROVED", "REJECTED"} /\ (status = "APPROVED" <=> approval.decision = "APPROVE")
      OBVIOUS
    <3>4. StoreInv' /\ Grows
      BY <1>a, <2>1, <2>3, <3>1, <3>2, <3>3, DecisionStore
    <3>5. CallsSound'
      BY <1>a, <1>c, <2>3, <3>4, BusyCalls DEF Finish
    <3>6. PICK id, d : id = req[r].id /\ d = req[r].decision
      OBVIOUS
    <3>7. ASSUME NEW x \in answers' \ answers
          PROVE  x.call = "decide" /\ Decided(x.id, x.decision)'
      <4>1. x = [call |-> "decide", id |-> id, decision |-> d]
        BY <2>3, <3>6, <3>7 DEF AnswerDecision
      <4>2. x.call = "decide" /\ x.id = id /\ x.decision = d
        BY <4>1
      <4>3. approval.proposal = id /\ approval.decision = d /\ approval \in approvals'
        BY <2>3, <3>2, <3>6 DEF RecordProposalDecision, WriteDecision
      <4> QED
        BY <4>2, <4>3 DEF Decided, DecisionsOn
    <3>8. DecisionAnswersStand' /\ ApplyAnswersStand'
      BY <1>a, <3>4, <3>7, AnswersKept DEF Kept
    <3> QED
      BY <3>4, <3>5, <3>8 DEF Kept
  <2> QED
    BY <1>10, <2>2, <2>3 DEF RecordDecision
<1>11. ASSUME NEW r \in Requests, NEW id \in ProposalIds, NEW key \in Keys,
             ApplyProposal(r, id, key)
      PROVE  Kept'
  <2> DEFINE call == [IdleCall EXCEPT !.at = "apply.key", !.id = id, !.seen = proposals[id],
                                      !.key = key]
  <2>1. call.at = "apply.key" /\ call.id = id /\ call.seen = proposals[id] /\ call.key = key
    BY DEF IdleCall
  <2>2. CallSound(call)
    BY <1>11, <2>1, ReadCall DEF ApplyProposal
  <2> QED
    BY <1>11, <2>2, QuietStep DEF ApplyProposal
<1>12. ASSUME NEW r \in Requests,
             FindKey(r)
      PROVE  Kept'
  <2> DEFINE existing == idempotency[req[r].key]
             class == ClassifyIdempotency(req[r].id, req[r].seen, existing)
             call == [req[r] EXCEPT !.at = "apply.approval"]
  <2>1. CarriesProposal(req[r]) /\ req[r].key \in Keys /\ UNCHANGED storeVars
    BY <1>a, <1>12 DEF FindKey, At, CallSound
  <2>2. CASE class = "FIRST_RUN" /\ GoTo(r, "apply.approval") /\ Silent
    <3>1. existing = None
      BY <2>2 DEF ClassifyIdempotency
    <3>2. \A i \in DOMAIN commits : commits[i].key # req[r].key
      <4>1. \A i \in DOMAIN commits : commits[i] \in Commits
        BY <1>a DEF TypeOK, StoreTypeOK
      <4>2. ASSUME NEW i \in DOMAIN commits PROVE idempotency[commits[i].key] \in IdempotencyRecords
        <5>1. commits[i].proposal \in ProposalIds /\ commits[i].digest \in Digests
              /\ commits[i].base \in Nat
          BY <4>1 DEF Commits
        <5>2. idempotency[commits[i].key] = [proposal |-> commits[i].proposal,
                                             digest |-> commits[i].digest,
                                             version |-> commits[i].base + 1]
          BY <1>a DEF StoreInv, BookkeepingMatchesCommits
        <5> QED
          BY <5>1, <5>2 DEF IdempotencyRecords
      <4> QED
        BY <3>1, <4>2, NoneIsNoValue
    <3>3. /\ call.at = "apply.approval" /\ call.id = req[r].id /\ call.seen = req[r].seen
          /\ call.key = req[r].key
      BY <1>a DEF Calls
    <3>4. CallSound(call)
      BY <2>1, <3>2, <3>3 DEF CallSound, CarriesProposal, KeyIsFree
    <3> QED
      BY <2>1, <2>2, <3>4, QuietStep DEF GoTo, ReadOnly
  <2>3. CASE class = "REPLAY" /\ AnswerApply(req[r].id, req[r].key, existing.version) /\ Finish(r)
    <3>1. existing # None /\ existing.proposal = req[r].id
      BY <2>3 DEF ClassifyIdempotency
    <3>2. PICK i \in DOMAIN commits : commits[i].key = req[r].key
      BY <1>a, <2>1, <3>1 DEF StoreInv, BookkeepingMatchesCommits
    <3>3. existing.version = commits[i].base + 1 /\ commits[i].proposal = req[r].id
      <4>1. existing = [proposal |-> commits[i].proposal, digest |-> commits[i].digest,
                        version |-> commits[i].base + 1]
        BY <1>a, <3>2 DEF StoreInv, BookkeepingMatchesCommits
      <4> QED
        BY <3>1, <4>1
    <3>4. StoreInv' /\ Grows
      BY <1>a, <2>1, QuietStore
    <3>5. CallsSound'
      BY <1>a, <1>c, <2>3, <3>4, BusyCalls DEF Finish
    <3>6. ASSUME NEW x \in answers' \ answers
          PROVE  /\ x.call = "apply"
                 /\ \E k \in DOMAIN commits' : /\ commits'[k].proposal = x.id
                                               /\ commits'[k].key = x.key
                                               /\ x.version = commits'[k].base + 1
      <4>1. x = [call |-> "apply", id |-> req[r].id, key |-> req[r].key,
                 version |-> existing.version]
        BY <2>3, <3>6 DEF AnswerApply
      <4>2. /\ x.call = "apply" /\ x.id = req[r].id /\ x.key = req[r].key
            /\ x.version = existing.version
        BY <4>1
      <4>3. commits' = commits
        BY <2>1 DEF storeVars
      <4> QED
        BY <3>2, <3>3, <4>2, <4>3
    <3>7. DecisionAnswersStand' /\ ApplyAnswersStand'
      BY <1>a, <3>4, <3>6, AnswersKept DEF Kept
    <3> QED
      BY <3>4, <3>5, <3>7 DEF Kept
  <2>4. CASE Finish(r) /\ Silent
    BY <2>1, <2>4, IdleSound, QuietStep DEF Finish, ReadOnly
  <2> QED
    BY <1>12, <2>2, <2>3, <2>4 DEF FindKey
<1>13. ASSUME NEW r \in Requests,
             FindApproval(r)
      PROVE  Kept'
  <2>1. ASSUME NEW approval \in approvals,
               Become(r, [req[r] EXCEPT !.at = "apply.load", !.approval = approval, !.since = Now])
        PROVE  Kept'
    <3> DEFINE call == [req[r] EXCEPT !.at = "apply.load", !.approval = approval, !.since = Now]
    <3>1. /\ call.at = "apply.load" /\ call.id = req[r].id /\ call.seen = req[r].seen
          /\ call.key = req[r].key /\ call.approval = approval /\ req[r].at = "apply.approval"
      BY <1>a, <1>13 DEF Calls, FindApproval, At
    <3>2. CallSound(call)
      BY <1>a, <3>1 DEF CallSound, CarriesProposal, KeyIsFree
    <3> QED
      BY <1>13, <2>1, <3>2, QuietStep DEF FindApproval
  <2>2. CASE Finish(r)
    BY <1>13, <2>2, IdleSound, QuietStep DEF FindApproval, Finish
  <2> QED
    BY <1>13, <2>1, <2>2 DEF FindApproval
<1>14. ASSUME NEW r \in Requests, NEW expected \in FirstVersion..version,
             LoadForApply(r, expected)
      PROVE  Kept'
  <2>1. PICK current \in Loads(req[r].since) :
          \/ /\ CheckWriteAllowed(req[r].id, req[r].seen, req[r].approval, current)
             /\ GoTo(r, "apply.commit") \/ GoTo(r, "apply.fail")
          \/ Finish(r)
    BY <1>14 DEF LoadForApply
  <2>2. req[r].at = "apply.load" /\ CarriesProposal(req[r])
    BY <1>a, <1>14 DEF LoadForApply, At, CallSound
  <2>3. CASE /\ CheckWriteAllowed(req[r].id, req[r].seen, req[r].approval, current)
             /\ GoTo(r, "apply.commit")
    <3> DEFINE call == [req[r] EXCEPT !.at = "apply.commit"]
    <3>1. /\ call.at = "apply.commit" /\ call.id = req[r].id /\ call.seen = req[r].seen
          /\ call.key = req[r].key /\ call.approval = req[r].approval
      BY <1>a DEF Calls
    <3>2. CheckWriteAllowed(req[r].id, req[r].seen, req[r].approval, req[r].seen.base)
      BY <2>3 DEF CheckWriteAllowed, CheckApprovalFreshness
    <3>3. CallSound(call)
      BY <1>a, <2>2, <3>1, <3>2 DEF CallSound, CarriesProposal, KeyIsFree
    <3> QED
      BY <1>14, <2>3, <3>3, QuietStep DEF LoadForApply, GoTo
  <2>4. CASE GoTo(r, "apply.fail")
    <3> DEFINE call == [req[r] EXCEPT !.at = "apply.fail"]
    <3>1. call.at = "apply.fail" /\ call.id = req[r].id /\ call.seen = req[r].seen
      BY <1>a DEF Calls
    <3>2. CallSound(call)
      BY <2>2, <3>1 DEF CallSound, CarriesProposal
    <3> QED
      BY <1>14, <2>4, <3>2, QuietStep DEF LoadForApply, GoTo
  <2>5. CASE Finish(r)
    BY <1>14, <2>5, IdleSound, QuietStep DEF LoadForApply, Finish
  <2> QED
    BY <2>1, <2>3, <2>4, <2>5
<1>15. ASSUME NEW r \in Requests,
             CommitApply(r)
      PROVE  Kept'
  <2>1. /\ CarriesProposal(req[r]) /\ Sound(req[r].id, req[r].seen) /\ req[r].key \in Keys
        /\ req[r].approval \in approvals
        /\ CheckWriteAllowed(req[r].id, req[r].seen, req[r].approval, req[r].seen.base)
        /\ \A i \in DOMAIN commits :
             commits[i].key = req[r].key => commits[i].base >= req[r].seen.base
    BY <1>a, <1>15 DEF CommitApply, At, CallSound, CarriesProposal, KeyIsFree
  <2>2. CASE ReadOnly
    BY <1>15, <2>2, IdleSound, QuietStep DEF CommitApply, Finish
  <2>3. CASE /\ ApplyProposalTransaction(req[r].id, [req[r].seen EXCEPT !.status = "APPLIED"],
                                         req[r].key, req[r].seen.base)
             /\ AnswerApply(req[r].id, req[r].key, version')
    <3>1. /\ StoreInv' /\ Grows
          /\ \E i \in DOMAIN commits' : /\ commits'[i].proposal = req[r].id
                                        /\ commits'[i].key = req[r].key
                                        /\ version' = commits'[i].base + 1
      BY <1>a, <2>1, <2>3, CarriedTyped, CommitStore
    <3>2. CallsSound'
      BY <1>a, <1>c, <1>15, <3>1, BusyCalls DEF CommitApply, Finish
    <3>3. ASSUME NEW x \in answers' \ answers
          PROVE  /\ x.call = "apply"
                 /\ \E i \in DOMAIN commits' : /\ commits'[i].proposal = x.id
                                               /\ commits'[i].key = x.key
                                               /\ x.version = commits'[i].base + 1
      <4>1. x = [call |-> "apply", id |-> req[r].id, key |-> req[r].key, version |-> version']
        BY <2>3, <3>3 DEF AnswerApply
      <4>2. x.call = "apply" /\ x.id = req[r].id /\ x.key = req[r].key /\ x.version = version'
        BY <4>1
      <4> QED
        BY <3>1, <4>2
    <3>4. DecisionAnswersStand' /\ ApplyAnswersStand'
      BY <1>a, <3>1, <3>3, AnswersKept DEF Kept
    <3> QED
      BY <3>1, <3>2, <3>4 DEF Kept
  <2> QED
    BY <1>15, <2>2, <2>3 DEF CommitApply
<1>16. ASSUME NEW r \in Requests,
             SaveFailed(r)
      PROVE  Kept'
  <2> DEFINE failed == [req[r].seen EXCEPT !.status = "FAILED", !.judgedAt = 0]
             call == [req[r] EXCEPT !.at = "apply.failAudit"]
  <2>1. CarriesProposal(req[r]) /\ Sound(req[r].id, req[r].seen)
    BY <1>a, <1>16 DEF SaveFailed, At, CallSound, CarriesProposal
  <2>2. /\ failed \in ProposalRecords /\ failed.status = "FAILED"
        /\ failed.base = req[r].seen.base /\ failed.digest = req[r].seen.digest
        /\ failed.changeRequest = req[r].seen.changeRequest
        /\ failed.validation = req[r].seen.validation
    BY <1>a, <2>1, CarriedTyped DEF ProposalRecords, Statuses
  <2>3. Sound(req[r].id, failed)
    BY <2>1, <2>2 DEF Sound
  <2>4. StoreInv' /\ Grows
    BY <1>a, <1>16, <2>1, <2>2, <2>3, CarriedTyped, SaveStore DEF SaveFailed, FailedRecord
  <2>5. call.at = "apply.failAudit" /\ call.id \in ProposalIds
    BY <1>a, <2>1, CarriedTyped DEF Calls
  <2>6. \A c : c.at = "apply.failAudit" /\ c.id \in ProposalIds => CallSound(c)'
    BY DEF CallSound
  <2>7. PICK c : c = call
    OBVIOUS
  <2>8. CallSound(c)' /\ Become(r, c)
    BY <1>16, <2>5, <2>6, <2>7 DEF SaveFailed, GoTo
  <2> QED
    BY <1>16, <2>4, <2>8, WriteStep DEF SaveFailed
<1>17. ASSUME NEW r \in Requests,
             AuditFailed(r)
      PROVE  Kept'
  <2>1. req[r].id \in ProposalIds
    BY <1>a, <1>17 DEF AuditFailed, At, CallSound
  <2>2. StoreInv' /\ Grows
    BY <1>a, <1>17, <2>1, AuditStore DEF AuditFailed
  <2> QED
    BY <1>c, <1>17, <2>2, WriteStep DEF AuditFailed, Finish
<1>18. ASSUME NEW r \in Requests, NEW id \in ProposalIds,
             VerifyProposal(r, id)
      PROVE  Kept'
  <2> DEFINE call == [IdleCall EXCEPT !.at = "verify.load", !.id = id, !.seen = proposals[id],
                                      !.since = Now]
  <2>1. call.at = "verify.load" /\ call.id = id /\ call.seen = proposals[id]
    BY DEF IdleCall
  <2>2. CallSound(call)
    BY <1>18, <2>1, ReadCall DEF VerifyProposal
  <2> QED
    BY <1>18, <2>2, QuietStep DEF VerifyProposal
<1>19. ASSUME NEW r \in Requests,
             LoadForVerify(r)
      PROVE  Kept'
  <2>1. PICK checks \in {"pass", "fail"} :
          /\ Become(r, [req[r] EXCEPT !.at = "verify.audit", !.checks = checks])
          /\ checks = "pass" => req[r].seen.status = "APPLIED"
    BY <1>19 DEF LoadForVerify
  <2> DEFINE call == [req[r] EXCEPT !.at = "verify.audit", !.checks = checks]
  <2>2. CarriesProposal(req[r])
    BY <1>a, <1>19 DEF LoadForVerify, At, CallSound
  <2>3. /\ call.at = "verify.audit" /\ call.id = req[r].id /\ call.seen = req[r].seen
        /\ call.checks = checks
    BY <1>a DEF Calls
  <2>4. CallSound(call)
    BY <2>1, <2>2, <2>3 DEF CallSound, CarriesProposal, Sound
  <2> QED
    BY <1>19, <2>1, <2>4, QuietStep DEF LoadForVerify
<1>20. ASSUME NEW r \in Requests,
             FindApplyAudit(r)
      PROVE  Kept'
  <2> DEFINE found == [action |-> "PROPOSAL_APPLIED", proposal |-> req[r].id] \in audit
             call == [req[r] EXCEPT !.at = "verify.append",
                                    !.checks = IF found THEN @ ELSE "fail"]
  <2>1. /\ call.at = "verify.append" /\ call.id = req[r].id /\ call.seen = req[r].seen
        /\ call.checks = "pass" => req[r].checks = "pass"
        /\ req[r].at = "verify.audit"
    BY <1>a, <1>20 DEF Calls, FindApplyAudit, At
  <2>2. CallSound(call)
    BY <1>a, <2>1 DEF CallSound, CarriesProposal
  <2> QED
    BY <1>20, <2>2, QuietStep DEF FindApplyAudit
<1>21. ASSUME NEW r \in Requests,
             AppendVerification(r)
      PROVE  Kept'
  <2>1. CarriesProposal(req[r]) /\ (req[r].checks = "pass" => Committed(req[r].id))
    BY <1>a, <1>21 DEF AppendVerification, At, CallSound
  <2>2. PICK action \in {"PROPOSAL_VERIFIED", "PROPOSAL_VERIFICATION_FAILED"} :
          /\ AppendAudit(action, req[r].id)
          /\ action = "PROPOSAL_VERIFIED" => req[r].checks = "pass"
    BY <1>21 DEF AppendVerification
  <2>3. StoreInv' /\ Grows
    BY <1>a, <1>21, <2>1, <2>2, CarriedTyped, AuditStore DEF AppendVerification
  <2> QED
    BY <1>c, <1>21, <2>3, WriteStep DEF AppendVerification, Finish
<1>22. ASSUME NEW r \in Requests,
             Abandon(r)
      PROVE  Kept'
  <2> QED
    BY <1>22, IdleSound, QuietStep DEF Abandon, Finish
<1>23. ASSUME NEW id \in ProposalIds, NEW plan \in Plans,
             EditStoredOperations(id, plan)
      PROVE  Kept'
  <2> DEFINE edited == [proposals[id] EXCEPT !.operations = plan]
  <2>1. proposals[id] \in ProposalRecords /\ Sound(id, proposals[id])
    BY <1>23, ReadSound DEF EditStoredOperations
  <2>2. /\ edited \in ProposalRecords /\ edited.status = proposals[id].status
        /\ edited.base = proposals[id].base /\ edited.digest = proposals[id].digest
        /\ edited.changeRequest = proposals[id].changeRequest
        /\ edited.validation = proposals[id].validation
    BY <2>1 DEF ProposalRecords
  <2>3. Sound(id, edited)
    BY <2>1, <2>2 DEF Sound
  <2>4. StoreInv' /\ Grows
    BY <1>a, <1>23, <2>2, <2>3, SaveStore DEF EditStoredOperations
  <2>5. req' = req /\ answers' = answers
    BY <1>23 DEF EditStoredOperations, Silent
  <2>6. \A r \in Requests : CallSound(req[r])'
    BY <1>a, <2>4, <2>5, CallStays
  <2>7. DecisionAnswersStand' /\ ApplyAnswersStand'
    BY <1>a, <2>4, <2>5, AnswersKept DEF Kept
  <2> QED
    BY <2>4, <2>6, <2>7 DEF Kept, CallsSound
<1>d. ASSUME Next PROVE Kept'
  BY <1>d, <1>1, <1>2, <1>3, <1>4, <1>5, <1>6, <1>7, <1>8, <1>9, <1>10, <1>11, <1>12, <1>13,
     <1>14, <1>15, <1>16, <1>17, <1>18, <1>19, <1>20, <1>21, <1>22, <1>23 DEF Next
<1> QED
  BY <1>b, <1>0, <1>d DEF Inv, Kept, StoreInv

-----------------------------------------------------------------------------
(* The theorems of the specification.                                      *)

LEMMA InvInit == Init => Inv
<1> SUFFICES ASSUME Init PROVE Inv
  OBVIOUS
<1>1. TypeOK
  BY TypeInit
<1>2. /\ version = FirstVersion /\ commits = <<>> /\ approvals = {} /\ audit = {} /\ answers = {}
      /\ \A id \in ProposalIds : proposals[id] = None
      /\ \A key \in Keys : idempotency[key] = None
      /\ \A r \in Requests : req[r] = IdleCall
  BY DEF Init, StoreInit
<1>3. Len(commits) = 0 /\ DOMAIN commits = {} /\ FirstVersion \in Nat
  BY <1>2, FirstVersionIsPositive
<1>4. AppliedAsApproved /\ AppliedAtMostOnce /\ CommittedPlansAreClean
  BY <1>3 DEF AppliedAsApproved, AppliedAtMostOnce, CommittedPlansAreClean
<1>5. BookkeepingMatchesCommits /\ VerifiedMeansApplied
  BY <1>2, <1>3 DEF BookkeepingMatchesCommits, VerifiedMeansApplied
<1>6. ProposalsSound /\ ApprovalsSound /\ DecisionAnswersStand /\ ApplyAnswersStand
  BY <1>2 DEF ProposalsSound, ApprovalsSound, DecisionAnswersStand, ApplyAnswersStand
<1>7. CallsSound
  BY <1>2, IdleSound DEF CallsSound
<1> QED
  BY <1>1, <1>4, <1>5, <1>6, <1>7 DEF Inv

\* The inductive invariant holds in every reachable state.
THEOREM Invariant == Spec => []Inv
<1>1. Init => Inv
  BY InvInit
<1>2. Inv /\ [Next]_vars => Inv'
  BY Invariance
<1> QED
  BY <1>1, <1>2, PTL DEF Spec

\* Every record in the store and in a call's hands keeps its shape.
THEOREM TypesAreRespected == Spec => []TypeOK
<1>1. Inv => TypeOK
  BY DEF Inv
<1> QED
  BY <1>1, Invariant, PTL

\* Whatever calls interleave, crash or act on stale reads, and whatever is
\* edited behind the guards, every write into the production is of an approved
\* plan, on the version it was approved for (applyApprovedProposal).
THEOREM WritesAreApproved == Spec => []AppliedAsApproved
<1>1. Inv => AppliedAsApproved
  BY DEF Inv
<1> QED
  BY <1>1, Invariant, PTL

\* No proposal is written twice and no idempotency key is spent twice
\* (applyApprovedProposal, applyProposalTransaction).
THEOREM WritesHappenOnce == Spec => []AppliedAtMostOnce
<1>1. Inv => AppliedAtMostOnce
  BY DEF Inv
<1> QED
  BY <1>1, Invariant, PTL

\* Every committed plan simulated without conflict on the version it was
\* committed to, although that load may have been torn and earlier.
THEOREM WritesAreClean == Spec => []CommittedPlansAreClean
<1>1. Inv => CommittedPlansAreClean
  BY DEF Inv
<1> QED
  BY <1>1, Invariant, PTL

\* A proposal is decided at most once, and every decision reported as recorded
\* still stands (decideProposal, recordProposalDecision).
THEOREM DecisionsStand == Spec => []DecisionAnswersStand
<1>1. Inv => DecisionAnswersStand
  BY DEF Inv
<1> QED
  BY <1>1, Invariant, PTL

\* Every apply or replay reported the version its proposal was written as.
THEOREM AppliesStand == Spec => []ApplyAnswersStand
<1>1. Inv => ApplyAnswersStand
  BY DEF Inv
<1> QED
  BY <1>1, Invariant, PTL

\* Version, trail and idempotency records agree with what was written.
THEOREM BookkeepingIsExact == Spec => []BookkeepingMatchesCommits
<1>1. Inv => BookkeepingMatchesCommits
  BY DEF Inv
<1> QED
  BY <1>1, Invariant, PTL

\* A stored status claims only what happened, through every lost update of
\* proposals.save.
THEOREM StatusesAreEarned == Spec => []StatusNeverOverclaims
<1>1. Inv => StatusNeverOverclaims
  BY DEF Inv, StatusNeverOverclaims, ProposalsSound, Sound, Committed, Decided
<1> QED
  BY <1>1, Invariant, PTL

\* Only a proposal that was written is ever reported as verified
\* (verifyAppliedProposal).
THEOREM VerifiedWasApplied == Spec => []VerifiedMeansApplied
<1>1. Inv => VerifiedMeansApplied
  BY DEF Inv
<1> QED
  BY <1>1, Invariant, PTL

-----------------------------------------------------------------------------
(* The use cases implement ApprovalContract: every step of one decides a   *)
(* proposal, commits one, or is invisible.                                 *)

RulingsIn(S) ==
    [id \in ProposalIds |->
       IF {a \in S : a.proposal = id} = {} THEN None
       ELSE LET a == CHOOSE a \in S : a.proposal = id
            IN  [verdict |-> a.decision, content |-> a.digest, base |-> a.version]]

Written(c) == [i \in DOMAIN c |-> [proposal |-> c[i].proposal, content |-> c[i].digest]]

LEMMA Mapping ==
    /\ [id \in ProposalIds |-> DecisionOf(id)] = RulingsIn(approvals)
    /\ [id \in ProposalIds |-> DecisionOf(id)'] = RulingsIn(approvals')
BY DEF RulingsIn, DecisionOf, DecisionsOn

\* The one approval of a proposal is the one CHOOSE finds.
LEMMA TheRuling ==
    ASSUME NEW S, NEW a \in S, a.proposal \in ProposalIds,
           \A b \in S : b.proposal = a.proposal => b = a
    PROVE  RulingsIn(S)[a.proposal] =
             [verdict |-> a.decision, content |-> a.digest, base |-> a.version]
<1>1. (CHOOSE b \in S : b.proposal = a.proposal) = a
  OBVIOUS
<1>2. {b \in S : b.proposal = a.proposal} # {}
  OBVIOUS
<1> QED
  BY <1>1, <1>2 DEF RulingsIn

\* An approval of one proposal changes the ruling on no other.
LEMMA OtherRulings ==
    ASSUME NEW S, NEW a, NEW id \in ProposalIds, id # a.proposal
    PROVE  RulingsIn(S \cup {a})[id] = RulingsIn(S)[id]
<1>1. {b \in S \cup {a} : b.proposal = id} = {b \in S : b.proposal = id}
  OBVIOUS
<1>2. (CHOOSE b \in S \cup {a} : b.proposal = id) = (CHOOSE b \in S : b.proposal = id)
  OBVIOUS
<1> QED
  BY <1>1, <1>2 DEF RulingsIn

\* Reading an appended sequence is appending to the reading.
LEMMA WrittenAppends ==
    ASSUME NEW c \in Seq(Commits), NEW e \in Commits
    PROVE  Written(Append(c, e)) =
             Append(Written(c), [proposal |-> e.proposal, content |-> e.digest])
<1> DEFINE w == [proposal |-> e.proposal, content |-> e.digest]
           Values == [proposal : ProposalIds, content : Digests]
<1>1. \A i \in DOMAIN c : c[i] \in Commits
  OBVIOUS
<1>2. w \in Values /\ \A i \in DOMAIN c : [proposal |-> c[i].proposal, content |-> c[i].digest] \in Values
  BY <1>1 DEF Commits
<1>3. Len(c) \in Nat /\ DOMAIN c = 1..Len(c)
  OBVIOUS
<1>4. Written(c) \in [1..Len(c) -> Values]
  BY <1>2, <1>3 DEF Written
<1>5. Written(c) \in Seq(Values) /\ Len(Written(c)) = Len(c)
  <2>1. Written(c) \in Seq(Values)
    <3>1. [1..Len(c) -> Values] \in {[1..n -> Values] : n \in Nat}
      BY <1>3, Zenon
    <3>2. Written(c) \in UNION {[1..n -> Values] : n \in Nat}
      BY <1>4, <3>1, Zenon
    <3> QED
      BY <3>2, SeqDef, Zenon
  <2>2. 1..Len(Written(c)) = 1..Len(c) /\ Len(Written(c)) \in Nat
    BY <1>4, <2>1, LenProperties
  <2> QED
    BY <1>3, <2>1, <2>2
<1>6. /\ Append(Written(c), w) \in Seq(Values)
      /\ DOMAIN Append(Written(c), w) = 1..(Len(c) + 1)
      /\ \A i \in 1..Len(c) : Append(Written(c), w)[i] = Written(c)[i]
      /\ Append(Written(c), w)[Len(c) + 1] = w
  BY <1>2, <1>3, <1>5, AppendProperties
<1>7. /\ DOMAIN Append(c, e) = 1..(Len(c) + 1)
      /\ \A i \in 1..Len(c) : Append(c, e)[i] = c[i]
      /\ Append(c, e)[Len(c) + 1] = e
  BY <1>3, AppendProperties
<1>8. ASSUME NEW i \in 1..(Len(c) + 1) PROVE Written(Append(c, e))[i] = Append(Written(c), w)[i]
  <2>1. CASE i \in 1..Len(c)
    BY <1>3, <1>6, <1>7, <2>1 DEF Written
  <2>2. CASE i = Len(c) + 1
    BY <1>6, <1>7, <2>2 DEF Written
  <2>3. i \in 1..Len(c) \/ i = Len(c) + 1
    BY <1>3
  <2> QED
    BY <2>1, <2>2, <2>3
<1>9. Append(Written(c), w) \in [1..(Len(c) + 1) -> Values]
  BY <1>6, LenProperties
<1>10. Written(Append(c, e)) = [i \in 1..(Len(c) + 1) |-> Written(Append(c, e))[i]]
  BY <1>7 DEF Written
<1> QED
  BY <1>8, <1>9, <1>10

-----------------------------------------------------------------------------
(* Steps.                                                                  *)

LEMMA RefinesInit == Init => Contract!Init
<1> SUFFICES ASSUME Init PROVE Contract!Init
  OBVIOUS
<1>1. version = FirstVersion /\ approvals = {} /\ commits = <<>>
  BY DEF Init, StoreInit
<1>2. \A id \in ProposalIds : DecisionOf(id) = None
  BY <1>1 DEF DecisionOf, DecisionsOn
<1>3. [i \in DOMAIN commits |-> [proposal |-> commits[i].proposal,
                                 content |-> commits[i].digest]] = <<>>
  BY <1>1
<1> QED
  BY <1>1, <1>2, <1>3 DEF Contract!Init

\* A step that touches neither the production nor the approvals is invisible.
LEMMA InvisibleStep ==
    ASSUME UNCHANGED <<version, commits, approvals>> PROVE UNCHANGED Contract!contractVars
BY DEF Contract!contractVars, DecisionOf, DecisionsOn

\* Recording a decision decides.
LEMMA DecideStep ==
    ASSUME TypeOK, ApprovalsSound', NEW approval \in Approvals, NEW record,
           approval.version <= version,
           RecordProposalDecision(approval, record)
    PROVE  Contract!Decide(approval.proposal)
<1> DEFINE id == approval.proposal
           ruling == [verdict |-> approval.decision, content |-> approval.digest,
                      base |-> approval.version]
<1>1. /\ id \in ProposalIds
      /\ DecisionsOn(id) = {} /\ approvals' = approvals \cup {approval}
      /\ UNCHANGED <<version, commits>>
  BY DEF RecordProposalDecision, WriteDecision, Approvals
<1>2. ruling \in Contract!Rulings /\ ruling.base <= version
  BY DEF Approvals, Decisions, Contract!Rulings
<1>3. RulingsIn(approvals)[id] = None
  BY <1>1 DEF RulingsIn, DecisionsOn
<1>4. RulingsIn(approvals')[id] = ruling
  <2>1. approval \in approvals' /\ \A b \in approvals' : b.proposal = id => b = approval
    BY <1>1 DEF ApprovalsSound
  <2> QED
    BY <1>1, <2>1, TheRuling
<1>5. \A other \in ProposalIds \ {id} : RulingsIn(approvals')[other] = RulingsIn(approvals)[other]
  BY <1>1, OtherRulings
<1>6. RulingsIn(approvals') = [RulingsIn(approvals) EXCEPT ![id] = ruling]
  <2>1. PICK before, after : before = RulingsIn(approvals) /\ after = RulingsIn(approvals')
    OBVIOUS
  <2>2. /\ before = [x \in ProposalIds |-> before[x]]
        /\ after = [x \in ProposalIds |-> after[x]]
    BY <2>1 DEF RulingsIn
  <2>3. after = [before EXCEPT ![id] = ruling]
    BY <1>1, <1>4, <1>5, <2>1, <2>2
  <2> QED
    BY <2>1, <2>3
<1> QED
  BY <1>1, <1>2, <1>3, <1>4, <1>6, Mapping DEF Contract!Decide

\* Applying an approved proposal commits its ruling.
LEMMA CommitStep ==
    ASSUME Inv, NEW id \in ProposalIds, NEW record \in ProposalRecords, NEW key \in Keys,
           NEW approval \in approvals, Sound(id, record),
           CheckWriteAllowed(id, record, approval, record.base),
           ApplyProposalTransaction(id, [record EXCEPT !.status = "APPLIED"], key, record.base)
    PROVE  Contract!Commit(id)
<1> DEFINE commit == [proposal |-> id, digest |-> record.digest, key |-> key, base |-> version]
<1>1. /\ version = record.base /\ version' = version + 1 /\ approvals' = approvals
      /\ version \in Nat /\ commits \in Seq(Commits)
  BY DEF ApplyProposalTransaction, WriteApply, Inv, TypeOK, StoreTypeOK
<1>2. /\ approval.proposal = id /\ approval.decision = "APPROVE"
      /\ approval.digest = record.digest /\ approval.version = version
      /\ ComputeProposalDigest(record) = record.digest
  BY <1>1 DEF CheckWriteAllowed, RequireApproval, CheckApprovalFreshness, DigestMatches
<1>3. commit \in Commits
  BY <1>1 DEF Commits, ProposalRecords
<1>4. commits' = Append(commits, commit)
  <2>1. ComputeProposalDigest([record EXCEPT !.status = "APPLIED"]) = ComputeProposalDigest(record)
    BY DEF ComputeProposalDigest, ProposalRecords
  <2> QED
    BY <1>2, <2>1 DEF ApplyProposalTransaction, WriteApply
<1>5. Written(commits') = Append(Written(commits), [proposal |-> id, content |-> record.digest])
  BY <1>1, <1>3, <1>4, WrittenAppends
<1>6. RulingsIn(approvals)[id] = [verdict |-> "APPROVE", content |-> record.digest, base |-> version]
  <2>1. \A b \in approvals : b.proposal = id => b = approval
    BY <1>2 DEF Inv, ApprovalsSound
  <2> QED
    BY <1>2, <2>1, TheRuling
<1>7. RulingsIn(approvals)[id] # None
  <2>1. RulingsIn(approvals)[id] \in [verdict : Decisions, content : Digests, base : Nat]
    BY <1>1, <1>6 DEF Decisions, ProposalRecords
  <2> QED
    BY <2>1, NoneIsNoRuling
<1>8. ASSUME NEW i \in DOMAIN commits, commits[i].proposal = id PROVE FALSE
  <2>1. PICK a \in approvals : a.proposal = id /\ a.version = commits[i].base
    BY <1>8 DEF Inv, AppliedAsApproved
  <2>2. commits[i].base = version
    BY <1>2, <2>1 DEF Inv, ApprovalsSound
  <2>3. commits[i].base = FirstVersion + i - 1 /\ version = FirstVersion + Len(commits)
    BY DEF Inv, AppliedAsApproved, BookkeepingMatchesCommits
  <2>4. i \in 1..Len(commits) /\ Len(commits) \in Nat /\ FirstVersion \in Nat
    BY <1>1, FirstVersionIsPositive
  <2>5. \A n \in Nat : ~ (i \in 1..n /\ FirstVersion + i - 1 = FirstVersion + n)
    BY FirstVersionIsPositive, <2>4
  <2> QED
    BY <2>2, <2>3, <2>4, <2>5
<1>9. \A i \in DOMAIN Written(commits) : Written(commits)[i].proposal # id
  BY <1>8 DEF Written
<1> QED
  <2>1. PICK rulings, written, written1 :
          /\ rulings = RulingsIn(approvals) /\ written = Written(commits)
          /\ written1 = Written(commits')
    OBVIOUS
  <2>2. /\ rulings[id] # None /\ rulings[id].verdict = "APPROVE" /\ rulings[id].base = version
        /\ \A i \in DOMAIN written : written[i].proposal # id
        /\ written1 = Append(written, [proposal |-> id, content |-> rulings[id].content])
    BY <1>5, <1>6, <1>7, <1>9, <2>1
  <2>3. /\ [x \in ProposalIds |-> DecisionOf(x)] = rulings
        /\ [x \in ProposalIds |-> DecisionOf(x)'] = rulings
    BY <1>1, <2>1, Mapping
  <2>4. /\ [i \in DOMAIN commits |-> [proposal |-> commits[i].proposal,
                                      content |-> commits[i].digest]] = written
        /\ [i \in DOMAIN commits' |-> [proposal |-> commits'[i].proposal,
                                       content |-> commits'[i].digest]] = written1
    BY <2>1 DEF Written
  <2> QED
    BY <1>1, <2>2, <2>3, <2>4 DEF Contract!Commit

\* Every step of the use cases maps to a step of the contract or to none.
LEMMA RefinesNext == Inv /\ Inv' /\ [Next]_vars => [Contract!Next]_(Contract!contractVars)
<1> SUFFICES ASSUME Inv, Inv', [Next]_vars
             PROVE  \/ \E id \in ProposalIds : Contract!Decide(id) \/ Contract!Commit(id)
                    \/ UNCHANGED Contract!contractVars
  BY DEF Contract!Next
<1>1. ASSUME UNCHANGED <<version, commits, approvals>> PROVE UNCHANGED Contract!contractVars
  BY <1>1, InvisibleStep
<1>2. ASSUME NEW r \in Requests, RecordDecision(r)
      PROVE  \/ \E id \in ProposalIds : Contract!Decide(id)
             \/ UNCHANGED <<version, commits, approvals>>
  <2> DEFINE approval == [proposal |-> req[r].id, digest |-> req[r].seen.digest,
                          version |-> req[r].seen.base, by |-> req[r].by,
                          decision |-> req[r].decision]
             status == IF req[r].decision = "APPROVE" THEN "APPROVED" ELSE "REJECTED"
  <2>1. CASE AlreadyDecided(r)
    BY <2>1 DEF AlreadyDecided, storeVars
  <2>2. CASE RecordProposalDecision(approval, [req[r].seen EXCEPT !.status = status])
    <3>1. /\ CarriesProposal(req[r]) /\ Sound(req[r].id, req[r].seen)
          /\ req[r].decision \in Decisions /\ req[r].by \in Principals
      BY <1>2, ApproversArePrincipals
         DEF Inv, CallsSound, CallSound, RecordDecision, At, CarriesProposal
    <3>2. req[r] \in Calls
      BY DEF Inv, TypeOK
    <3>3. approval \in Approvals /\ approval.version <= version /\ approval.proposal = req[r].id
      BY <3>1, <3>2, CarriedTyped DEF Approvals, Sound, ProposalRecords, Inv
    <3>4. req[r].id \in ProposalIds
      BY <3>1 DEF CarriesProposal
    <3>5. PICK a, id : a = approval /\ id = approval.proposal
      OBVIOUS
    <3>6. Contract!Decide(a.proposal) /\ id = a.proposal /\ id \in ProposalIds
      BY <2>2, <3>3, <3>4, <3>5, DecideStep DEF Inv
    <3> QED
      BY <3>6
  <2> QED
    BY <1>2, <2>1, <2>2 DEF RecordDecision
<1>3. ASSUME NEW r \in Requests, CommitApply(r)
      PROVE  \/ \E id \in ProposalIds : Contract!Commit(id)
             \/ UNCHANGED <<version, commits, approvals>>
  <2>1. /\ CarriesProposal(req[r]) /\ Sound(req[r].id, req[r].seen) /\ req[r].key \in Keys
        /\ req[r].approval \in approvals
        /\ CheckWriteAllowed(req[r].id, req[r].seen, req[r].approval, req[r].seen.base)
    BY <1>3 DEF Inv, CallsSound, CallSound, CommitApply, At, CarriesProposal
  <2>2. req[r] \in Calls
    BY DEF Inv, TypeOK
  <2>3. CASE ApplyProposalTransaction(req[r].id, [req[r].seen EXCEPT !.status = "APPLIED"],
                                      req[r].key, req[r].seen.base)
    <3>1. PICK id, record, key, approval :
            /\ id = req[r].id /\ record = req[r].seen
            /\ key = req[r].key /\ approval = req[r].approval
      OBVIOUS
    <3>2. id \in ProposalIds /\ record \in ProposalRecords
      BY <2>1, <3>1, CarriedTyped DEF Inv
    <3>3. Contract!Commit(id)
      BY <2>1, <2>3, <3>1, <3>2, CommitStep
    <3> QED
      BY <3>2, <3>3
  <2> QED
    BY <1>3, <2>3 DEF CommitApply, ReadOnly, storeVars
<1>4. ASSUME NEW r \in Requests,
             \/ \E changeRequest \in ChangeRequests, plan \in Plans :
                  CreateProposal(r, changeRequest, plan)
             \/ \E id \in ProposalIds :
                  \/ SaveCreated(r, id) \/ ValidateProposal(r, id) \/ VerifyProposal(r, id)
                  \/ \E decision \in Decisions, by \in Principals :
                       DecideProposal(r, id, decision, by)
                  \/ \E key \in Keys : ApplyProposal(r, id, key)
             \/ \E expected \in FirstVersion..version : LoadForApply(r, expected)
             \/ AuditCreated(r) \/ JudgeProposal(r) \/ SaveRefreshed(r) \/ SimulateForDecision(r)
             \/ FindApproval(r) \/ SaveFailed(r) \/ AuditFailed(r) \/ LoadForVerify(r)
             \/ FindApplyAudit(r) \/ AppendVerification(r) \/ Abandon(r)
      PROVE  UNCHANGED <<version, commits, approvals>>
  BY <1>4 DEF CreateProposal, SaveCreated, ValidateProposal, VerifyProposal, DecideProposal,
              ApplyProposal, LoadForApply, AuditCreated, JudgeProposal, SaveRefreshed,
              SimulateForDecision, FindApproval, SaveFailed, AuditFailed, LoadForVerify,
              FindApplyAudit, AppendVerification, Abandon, ReadOnly, storeVars
<1>5. ASSUME NEW r \in Requests, FindDecision(r) \/ FindKey(r)
      PROVE  UNCHANGED <<version, commits, approvals>>
  BY <1>5 DEF FindDecision, AlreadyDecided, FindKey, ReadOnly, storeVars
<1>6. ASSUME NEW id \in ProposalIds, NEW plan \in Plans, EditStoredOperations(id, plan)
      PROVE  UNCHANGED <<version, commits, approvals>>
  BY <1>6 DEF EditStoredOperations
<1>7. CASE UNCHANGED vars
  BY <1>1, <1>7 DEF vars
<1>8. CASE Next
  BY <1>1, <1>2, <1>3, <1>4, <1>5, <1>6, <1>8 DEF Next
<1> QED
  BY <1>7, <1>8

\* The approval boundary implements its contract: whatever calls interleave,
\* fail or repeat, a proposal is decided once and for good, and the production
\* changes only by writing an approved plan, whole, once, on its own version.
THEOREM ImplementsContract == Spec => ContractSpec
<1>1. Init => Contract!Init
  BY RefinesInit
<1>2. Inv /\ Inv' /\ [Next]_vars => [Contract!Next]_(Contract!contractVars)
  BY RefinesNext
<1> QED
  BY <1>1, <1>2, Invariant, PTL DEF Spec, ContractSpec, Contract!Spec

=============================================================================
