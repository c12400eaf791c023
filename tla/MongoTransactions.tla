-------------------------- MODULE MongoTransactions --------------------------
(***************************************************************************)
(* The Mongo store (packages/adapters/mongo-store/src/index.ts) one        *)
(* database operation at a time: the two multi-document transactions, the  *)
(* single-document write they meet, the load outside any session, and the  *)
(* index that connect() replaces while other processes may be serving.     *)
(*                                                                         *)
(* The variables of ProposalStore are the committed database.  What a      *)
(* transaction wrote is its own until it commits.                          *)
(*                                                                         *)
(* External, as MongoDB documents it: a transaction reads the snapshot of  *)
(* its first operation; writing a document that another one wrote since,   *)
(* or holds, is a write conflict, and withTransaction runs the callback    *)
(* again; a write outside a transaction waits for the holder; a duplicate  *)
(* key aborts the transaction; a commit may land and its answer be lost.   *)
(***************************************************************************)
EXTENDS ProposalStore, FiniteSets

CONSTANTS
    Requests,   \* calls of the store, each made once
    Starters    \* processes that run connect()

\* Each call is made in the name of a principal of its own: its records tell it apart.
ASSUME RequestsArePrincipals == Requests \subseteq Principals

ASSUME SomethingIsProposed == ChangeRequests # {} /\ Plans # {}

VARIABLES
    txn,        \* each request's transaction
    index,      \* the approvals index: "NONE", "LEGACY" (not unique), "UNIQUE"
    starter,    \* each process's progress through connect()
    load        \* one call of productions.loadState

mongoVars == <<txn, index, starter, load>>

-----------------------------------------------------------------------------
(* Documents and transactions.                                             *)

Doc(kind, id) == [kind |-> kind, id |-> id]

\* A call: what was asked is fixed when it is made, from what the caller read.
Asked(op, approval, proposal, record, key) ==
    [op |-> op, at |-> "START", wrote |-> {}, stale |-> {}, answer |-> "NONE", told |-> None,
     approval |-> approval, proposal |-> proposal, record |-> record, key |-> key]

Idle == [Asked("NONE", None, None, None, None) EXCEPT !.at = "IDLE"]

Open == {r \in Requests : txn[r].at \in {"START", "WRITING"}}

HeldByOthers(r) == UNION {txn[s].wrote : s \in Open \ {r}}

MayWrite(r, doc) == doc \notin txn[r].stale \cup HeldByOthers(r)

Holding(t, docs) == [t EXCEPT !.wrote = @ \cup docs]

Restarted(t) == [t EXCEPT !.at = "START", !.wrote = {}, !.stale = {}]
Landed(t) == [t EXCEPT !.at = "LANDED", !.wrote = {}, !.stale = {}]
Answered(t, answer, told) ==
    [t EXCEPT !.at = "DONE", !.wrote = {}, !.stale = {}, !.answer = answer, !.told = told]

\* The documents in docs have changed: every snapshot taken before is stale there.
Invalidate(ts, docs) ==
    [s \in Requests |->
       IF ts[s].at = "WRITING" THEN [ts[s] EXCEPT !.stale = @ \cup docs] ELSE ts[s]]

Wrote(r, kind) == \E doc \in txn[r].wrote : doc.kind = kind

\* Every write of a transaction but its first: after the write before it, and
\* once.  A conflict runs the callback again.
Write(r, op, after, kind, id) ==
    /\ txn[r].op = op /\ txn[r].at = "WRITING"
    /\ Wrote(r, after) /\ ~Wrote(r, kind)
    /\ txn' = [txn EXCEPT ![r] =
         IF MayWrite(r, Doc(kind, id)) THEN Holding(@, {Doc(kind, id)})
         ELSE Restarted(@)]
    /\ UNCHANGED <<storeVars, index, starter, load>>

-----------------------------------------------------------------------------
(* recordProposalDecision.                                                 *)

CallDecide(r) ==
    /\ txn[r].at = "IDLE" /\ \E s \in Starters : starter[s] = "READY"
    /\ \E id \in ProposalIds, decision \in Decisions :
         LET proposal == proposals[id]
         IN  txn' = [txn EXCEPT ![r] =
               Asked("DECIDE",
                     [proposal |-> id, digest |-> proposal.digest, version |-> proposal.base,
                      by |-> r, decision |-> decision],
                     id,
                     [proposal EXCEPT !.status =
                        IF decision = "APPROVE" THEN "APPROVED" ELSE "REJECTED"],
                     None)]
    /\ UNCHANGED <<storeVars, index, starter, load>>

AlreadyDecided(t) ==
    Answered(t, "ALREADY_DECIDED", CHOOSE a \in DecisionsOn(t.proposal) : TRUE)

\* The read in the session, the first operation of the transaction.
ReadExisting(r) ==
    /\ txn[r].op = "DECIDE" /\ txn[r].at = "START"
    /\ txn' = [txn EXCEPT ![r] =
         IF DecisionsOn(@.proposal) = {} THEN [@ EXCEPT !.at = "WRITING"]
         ELSE AlreadyDecided(@)]
    /\ UNCHANGED <<storeVars, index, starter, load>>

\* The insert.  Under the unique index a decision that landed since the
\* snapshot is a duplicate key or a write conflict, as Mongo finds it.
InsertApproval(r) ==
    LET key == Doc("DECISION", txn[r].proposal)
        row == Doc("APPROVAL", r)
    IN  /\ txn[r].op = "DECIDE" /\ txn[r].at = "WRITING" /\ ~Wrote(r, "APPROVAL")
        /\ \/ /\ index = "UNIQUE" => MayWrite(r, key)
              /\ txn' = [txn EXCEPT ![r] =
                   Holding(@, IF index = "UNIQUE" THEN {row, key} ELSE {row})]
           \/ /\ index = "UNIQUE" /\ ~MayWrite(r, key)
              /\ txn' = [txn EXCEPT ![r] = Restarted(@)]
           \/ /\ index = "UNIQUE" /\ key \in txn[r].stale
              /\ txn' = [txn EXCEPT ![r] = [Restarted(@) EXCEPT !.at = "DUPLICATE"]]
        /\ UNCHANGED <<storeVars, index, starter, load>>

\* The loser of the race reads the winner, outside the session.
ReadWinner(r) ==
    /\ txn[r].at = "DUPLICATE" /\ DecisionsOn(txn[r].proposal) # {}
    /\ txn' = [txn EXCEPT ![r] =
         AlreadyDecided(@)]
    /\ UNCHANGED <<storeVars, index, starter, load>>

-----------------------------------------------------------------------------
(* applyProposalTransaction, over #commit.                                 *)

CallApply(r) ==
    /\ txn[r].at = "IDLE" /\ \E s \in Starters : starter[s] = "READY"
    /\ \E id \in ProposalIds, key \in Keys :
         txn' = [txn EXCEPT ![r] =
           Asked("APPLY", None, id, [proposals[id] EXCEPT !.status = "APPLIED"], key)]
    /\ UNCHANGED <<storeVars, index, starter, load>>

\* The version check and the bump, the first operation of the transaction.
BumpVersion(r) ==
    LET production == Doc("PRODUCTION", None)
    IN  /\ txn[r].op = "APPLY" /\ txn[r].at = "START"
        /\ IF version # txn[r].record.base
           THEN txn' = [txn EXCEPT ![r] = Answered(@, "VERSION_MISMATCH", version)]
           ELSE /\ MayWrite(r, production)
                /\ txn' = [txn EXCEPT ![r] = [Holding(@, {production}) EXCEPT !.at = "WRITING"]]
        /\ UNCHANGED <<storeVars, index, starter, load>>

UpsertAll(r) == Write(r, "APPLY", "PRODUCTION", "ENTITIES", None)
ReplaceIdempotency(r) == Write(r, "APPLY", "PROPOSAL", "KEY", txn[r].key)

-----------------------------------------------------------------------------
(* What both transactions do.                                              *)

ReplaceProposal(r) ==
    \/ Write(r, "APPLY", "ENTITIES", "PROPOSAL", txn[r].proposal)
    \/ Write(r, "DECIDE", "APPROVAL", "PROPOSAL", txn[r].proposal)

AuditAction(t) ==
    IF t.op = "APPLY" THEN "PROPOSAL_APPLIED"
    ELSE IF t.approval.decision = "APPROVE" THEN "PROPOSAL_APPROVED" ELSE "PROPOSAL_REJECTED"

\* Mutant: the audit event is inserted without the session.
AuditOutsideSession(r) ==
    /\ txn[r].at = "WRITING" /\ Wrote(r, "PROPOSAL") /\ ~Wrote(r, "AUDIT")
    /\ txn' = [txn EXCEPT ![r] = Holding(@, {Doc("AUDIT", r)})]
    /\ AppendAudit(AuditAction(txn[r]), txn[r].proposal)
    /\ UNCHANGED <<version, commits, proposals, approvals, idempotency, index, starter, load>>

InsertAudit(r) ==
    \/ Write(r, "APPLY", "KEY", "AUDIT", r)
    \/ Write(r, "DECIDE", "PROPOSAL", "AUDIT", r)

\* The commit lands: what the transaction wrote is in the database, at once.
CommitLands(r) ==
    LET t == txn[r]
    IN  /\ t.at = "WRITING" /\ Wrote(r, "AUDIT")
        /\ txn' = Invalidate([txn EXCEPT ![r] = Landed(@)], t.wrote)
        /\ version' = IF Wrote(r, "PRODUCTION") THEN t.record.base + 1 ELSE version
        /\ commits' = IF Wrote(r, "ENTITIES")
                      THEN Append(commits, [proposal |-> t.proposal,
                                            digest |-> ComputeProposalDigest(t.record),
                                            key |-> t.key, base |-> version])
                      ELSE commits
        /\ approvals' = IF Wrote(r, "APPROVAL") THEN approvals \cup {t.approval} ELSE approvals
        /\ idempotency' = IF Wrote(r, "KEY")
                          THEN [idempotency EXCEPT ![t.key] =
                                  [proposal |-> t.proposal, digest |-> t.record.digest,
                                   version |-> t.record.base + 1]]
                          ELSE idempotency
        /\ SaveProposal(t.proposal, t.record)
        /\ AppendAudit(AuditAction(t), t.proposal)
        /\ UNCHANGED <<index, starter, load>>

\* The caller hears of it.
Acknowledge(r) ==
    /\ txn[r].at = "LANDED"
    /\ txn' = [txn EXCEPT ![r] = Answered(@, IF @.op = "DECIDE" THEN "RECORDED" ELSE "COMMITTED", None)]
    /\ UNCHANGED <<storeVars, index, starter, load>>

\* A transient error: the server forgets the transaction, and the callback runs again.
Retry(r) ==
    /\ txn[r].at = "WRITING"
    /\ txn' = [txn EXCEPT ![r] = Restarted(@)]
    /\ UNCHANGED <<storeVars, index, starter, load>>

\* The call throws, or its process dies: an open transaction is forgotten, a
\* commit that landed stays.
Throw(r) ==
    /\ txn[r].at \in {"START", "WRITING", "DUPLICATE", "LANDED"}
    /\ txn' = [txn EXCEPT ![r] = Answered(@, "ERROR", None)]
    /\ UNCHANGED <<storeVars, index, starter, load>>

\* proposals.save, with the record a revalidation leaves: one document, outside
\* any session, after whoever holds it.
Save(r) ==
    /\ txn[r].at = "IDLE" /\ \E s \in Starters : starter[s] = "READY"
    /\ \E id \in ProposalIds :
         LET doc     == Doc("PROPOSAL", id)
             record  == [proposals[id] EXCEPT !.validation = "INVALID", !.judgedAt = version]
         IN  /\ doc \notin HeldByOthers(r)
             /\ SaveProposal(id, record)
             /\ txn' = Invalidate([txn EXCEPT ![r] =
                  [Asked("SAVE", None, id, record, None) EXCEPT !.at = "DONE", !.answer = "SAVED"]], {doc})
    /\ UNCHANGED <<version, commits, approvals, idempotency, audit, index, starter, load>>

-----------------------------------------------------------------------------
(* #ensureUniqueApprovalPerProposal, by every process that connects.       *)

ListIndexes(s) ==
    /\ starter[s] = "LISTING"
    /\ starter' = [starter EXCEPT ![s] = IF index = "LEGACY" THEN "DROPPING" ELSE "CREATING"]
    /\ UNCHANGED <<storeVars, txn, index, load>>

\* Changing an index waits for the transactions that wrote to its collection.
ApprovalsAreQuiet == \A r \in Open : ~Wrote(r, "APPROVAL")

\* By name, which the unique index shares with the stale one.
DropIndex(s) ==
    /\ starter[s] = "DROPPING" /\ ApprovalsAreQuiet
    /\ IF index = "NONE"
       THEN starter' = [starter EXCEPT ![s] = "FAILED"] /\ UNCHANGED index
       ELSE starter' = [starter EXCEPT ![s] = "CREATING"] /\ index' = "NONE"
    /\ UNCHANGED <<storeVars, txn, load>>

\* Refused where two approvals share a key.
CreateIndex(s) ==
    /\ starter[s] = "CREATING" /\ ApprovalsAreQuiet
    /\ IF index = "LEGACY" \/ \E a, b \in approvals : a # b /\ a.proposal = b.proposal
       THEN starter' = [starter EXCEPT ![s] = "FAILED"] /\ UNCHANGED index
       ELSE starter' = [starter EXCEPT ![s] = "READY"] /\ index' = "UNIQUE"
    /\ UNCHANGED <<storeVars, txn, load>>

-----------------------------------------------------------------------------
(* #loadState outside a session.                                           *)

LoadProduction ==
    /\ load.at = "IDLE"
    /\ load' = [at |-> "PRODUCTION", since |-> version, loaded |-> version, entities |-> 0]
    /\ UNCHANGED <<storeVars, txn, index, starter>>

LoadEntities ==
    /\ load.at = "PRODUCTION"
    /\ load' = [load EXCEPT !.at = "DONE", !.entities = Len(commits)]
    /\ UNCHANGED <<storeVars, txn, index, starter>>

-----------------------------------------------------------------------------
\* Proposals were created before; a store older than the unique index has the
\* legacy one, a new one has none.
NewProposal(id) ==
    LET draft == [changeRequest |-> CHOOSE c \in ChangeRequests : TRUE, base |-> FirstVersion,
                  operations |-> CHOOSE plan \in Plans : TRUE]
    IN  [changeRequest |-> draft.changeRequest, base |-> draft.base, operations |-> draft.operations,
         digest |-> draft, validation |-> "VALID", status |-> "AWAITING_APPROVAL",
         judgedAt |-> FirstVersion]

MongoInit ==
    /\ version = FirstVersion /\ commits = <<>> /\ approvals = {} /\ audit = {}
    /\ proposals = [id \in ProposalIds |-> NewProposal(id)]
    /\ idempotency = [k \in Keys |-> None]
    /\ txn = [r \in Requests |-> Idle]
    /\ index \in {"NONE", "LEGACY"}
    /\ starter = [s \in Starters |-> "LISTING"]
    /\ load = [at |-> "IDLE"]

MongoNext ==
    \/ \E r \in Requests :
         \/ CallDecide(r) \/ ReadExisting(r) \/ InsertApproval(r) \/ ReadWinner(r)
         \/ CallApply(r) \/ BumpVersion(r) \/ UpsertAll(r) \/ ReplaceIdempotency(r)
         \/ ReplaceProposal(r) \/ InsertAudit(r) \/ CommitLands(r) \/ Acknowledge(r)
         \/ Retry(r) \/ Throw(r) \/ Save(r)
    \/ \E s \in Starters : ListIndexes(s) \/ DropIndex(s) \/ CreateIndex(s)
    \/ LoadProduction \/ LoadEntities

-----------------------------------------------------------------------------
\* A call's effect on the database, as the port has it.
AtomicStep(r) ==
    \/ txn[r].op = "DECIDE" /\ RecordProposalDecision(txn[r].approval, txn[r].record)
    \/ txn[r].op = "APPLY" /\ ApplyProposalTransaction(txn[r].proposal, txn[r].record,
                                                       txn[r].key, txn[r].record.base)
    \/ /\ txn'[r].op = "SAVE" /\ SaveProposal(txn'[r].proposal, txn'[r].record)
       /\ UNCHANGED <<version, commits, approvals, idempotency, audit>>

\* The database changes only by the atomic operations of the port, each one a
\* call asked for: a decision where there is none, an apply at the version
\* it expects, the save of a proposal (index.ts 344-566; ProposalStore takes
\* this on trust, and it holds while the unique index is missing too).
StoreIsAtomic == [][\E r \in Requests : AtomicStep(r)]_storeVars

\* What a call answers is so: a decision it reports stands, its own or the one
\* that won; a mismatch names a version that is not the expected one.
AnswersAreTrue ==
    \A r \in Requests :
       /\ txn[r].answer = "RECORDED" => DecisionsOn(txn[r].proposal) = {txn[r].approval}
       /\ txn[r].answer = "ALREADY_DECIDED" => DecisionsOn(txn[r].proposal) = {txn[r].told}
       /\ txn[r].answer = "COMMITTED" =>
            \E i \in DOMAIN commits :
               commits[i].proposal = txn[r].proposal /\ commits[i].key = txn[r].key
       /\ txn[r].answer = "VERSION_MISMATCH" =>
            txn[r].told # txn[r].record.base /\ txn[r].told <= version

\* A load may be torn, and then its entities are newer than its version, never
\* older (what Loads of ProposalStore says of it).
LoadsAreAsAssumed ==
    load.at = "DONE" =>
       /\ load.loaded \in load.since..version
       /\ FirstVersion + load.entities >= load.loaded

=============================================================================
