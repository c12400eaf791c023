--------------------------- MODULE MongoStoreProofs ---------------------------
(***************************************************************************)
(* What the Mongo store promises its callers, for any number of calls,     *)
(* proposals, keys, connecting processes, updates and attempts.            *)
(*                                                                         *)
(* The records: the database changes only by the port's atomic operations. *)
(* Two open transactions never hold the same proposal or production        *)
(* document (Exclusive), and none holds one that changed since its         *)
(* snapshot (Fresh).  A decision that landed meanwhile changed the         *)
(* proposal document (Unbeaten), so a deciding transaction that holds it   *)
(* is the first; an apply that holds the production document still sees    *)
(* the version it checked (AtBase).  The unique index plays no part.       *)
(*                                                                         *)
(* The runs: a revision counts the updates the row has seen, so a row read *)
(* at the revision it still has is the row.  Every failed attempt saw      *)
(* fewer updates than there are now.                                       *)
(***************************************************************************)
EXTENDS MongoStore, SequenceTheorems, FiniteSetTheorems, TLAPS

-----------------------------------------------------------------------------
(* The records: the inductive invariant.                                   *)

Kinds == {"APPROVAL", "DECISION", "PROPOSAL", "AUDIT", "PRODUCTION", "ENTITIES", "KEY"}

Docs == [kind : Kinds, id : ProposalIds \cup Keys \cup Requests \cup {None}]

\* The documents two transactions may both want, and which hold the argument.
Contested(doc) == doc.kind \in {"PRODUCTION", "PROPOSAL"}

Maybe(S) == S \cup {None}

Txns ==
    [op : {"NONE", "DECIDE", "APPLY", "SAVE"},
     at : {"IDLE", "START", "WRITING", "DUPLICATE", "LANDED", "DONE"},
     wrote : SUBSET Docs, stale : SUBSET Docs,
     answer : {"NONE", "ALREADY_DECIDED", "VERSION_MISMATCH", "RECORDED", "COMMITTED", "ERROR", "SAVED"},
     told : Maybe(Approvals \cup Nat), approval : Maybe(Approvals),
     proposal : Maybe(ProposalIds), record : Maybe(ProposalRecords), key : Maybe(Keys)]

Has(t, kind) == \E doc \in t.wrote : doc.kind = kind

\* What was asked.
Asks(t) ==
    /\ t.op \in {"DECIDE", "APPLY"} => t.proposal \in ProposalIds /\ t.record \in ProposalRecords
    /\ t.op = "DECIDE" => t.approval \in Approvals /\ t.approval.proposal = t.proposal
    /\ t.op = "APPLY" => t.key \in Keys
    /\ t.at \in {"START", "WRITING", "LANDED"} => t.op \in {"DECIDE", "APPLY"}
    /\ t.at = "DUPLICATE" => t.op = "DECIDE"

Quiet(t) ==
    /\ t.at # "WRITING" => t.wrote = {} /\ t.stale = {}
    /\ t.at # "DONE" => t.answer = "NONE"

\* The documents of each call, in the order it writes them.
WritesInOrder(t) ==
    t.at = "WRITING" =>
       /\ \A doc \in t.wrote :
             /\ doc.kind = "PROPOSAL" => doc = Doc("PROPOSAL", t.proposal)
             /\ doc.kind = "PRODUCTION" => doc = Doc("PRODUCTION", None)
       /\ t.op = "DECIDE" =>
             /\ \A doc \in t.wrote : doc.kind \in {"APPROVAL", "DECISION", "PROPOSAL", "AUDIT"}
             /\ Has(t, "AUDIT") => Has(t, "PROPOSAL")
             /\ Has(t, "PROPOSAL") => Has(t, "APPROVAL")
       /\ t.op = "APPLY" =>
             /\ \A doc \in t.wrote :
                   doc.kind \in {"PRODUCTION", "ENTITIES", "PROPOSAL", "KEY", "AUDIT"}
             /\ Has(t, "AUDIT") => Has(t, "KEY")
             /\ Has(t, "KEY") => Has(t, "PROPOSAL")
             /\ Has(t, "PROPOSAL") => Has(t, "ENTITIES")
             /\ Has(t, "PRODUCTION")

Fresh(t) == \A doc \in t.wrote : Contested(doc) => doc \notin t.stale

\* A decision that landed since the snapshot changed the proposal's document.
Unbeaten(t) ==
    t.at = "WRITING" /\ t.op = "DECIDE" =>
       DecisionsOn(t.proposal) = {} \/ Doc("PROPOSAL", t.proposal) \in t.stale

AtBase(t) == t.at = "WRITING" /\ t.op = "APPLY" => version = t.record.base

SaysSo(t) ==
    /\ t.answer = "RECORDED" \/ (t.at = "LANDED" /\ t.op = "DECIDE") =>
         DecisionsOn(t.proposal) = {t.approval}
    /\ t.answer = "ALREADY_DECIDED" => DecisionsOn(t.proposal) = {t.told}
    /\ t.answer = "COMMITTED" \/ (t.at = "LANDED" /\ t.op = "APPLY") =>
         \E i \in DOMAIN commits : commits[i].proposal = t.proposal /\ commits[i].key = t.key
    /\ t.answer = "VERSION_MISMATCH" =>
         t.told \in Nat /\ t.told # t.record.base /\ t.told <= version

TxnInv(t) ==
    /\ t \in Txns
    /\ Asks(t) /\ Quiet(t) /\ WritesInOrder(t)
    /\ Fresh(t) /\ Unbeaten(t) /\ AtBase(t) /\ SaysSo(t)

Exclusive ==
    \A r, s \in Requests : r # s =>
       \A doc \in txn[r].wrote : Contested(doc) => doc \notin txn[s].wrote

OneDecision == \A a, b \in approvals : a.proposal = b.proposal => a = b

RecordsTypeOK ==
    /\ version \in Nat /\ commits \in Seq(Commits)
    /\ version = FirstVersion + Len(commits)
    /\ proposals \in [ProposalIds -> ProposalRecords]
    /\ approvals \subseteq Approvals
    /\ idempotency \in [Keys -> IdempotencyRecords \cup {None}]

LoadInv ==
    \/ load.at = "IDLE"
    \/ /\ load \in [at : {"PRODUCTION", "DONE"}, since : Nat, loaded : Nat, entities : Nat]
       /\ load.since = load.loaded /\ load.loaded <= version
       /\ load.at = "DONE" => FirstVersion + load.entities >= load.loaded

MongoInv ==
    /\ RecordsTypeOK
    /\ OneDecision
    /\ txn \in [Requests -> Txns]
    /\ \A r \in Requests : TxnInv(txn[r])
    /\ Exclusive
    /\ LoadInv

-----------------------------------------------------------------------------
(* Steps of one call.                                                      *)

\* A step that changes one call, and no record, keeps the invariant if the call
\* is sound and takes no document that another one holds.
LEMMA LocalStep ==
    ASSUME MongoInv, NEW r \in Requests, NEW t, TxnInv(t),
           txn' = [txn EXCEPT ![r] = t], UNCHANGED <<storeVars, load>>,
           \A doc \in t.wrote : Contested(doc) =>
              doc \in txn[r].wrote \/ \A s \in Requests \ {r} : doc \notin txn[s].wrote
    PROVE  MongoInv'
<1>1. txn' \in [Requests -> Txns]
  BY DEF MongoInv, TxnInv
<1>2. RecordsTypeOK' /\ OneDecision' /\ LoadInv'
  BY DEF MongoInv, RecordsTypeOK, OneDecision, LoadInv, storeVars
<1>3. ASSUME NEW s \in Requests PROVE TxnInv(txn[s])'
  <2>1. TxnInv(txn'[s])
    BY DEF MongoInv
  <2> QED
    BY <2>1
    DEF TxnInv, Asks, Quiet, WritesInOrder, Has, Fresh, Unbeaten, AtBase, SaysSo, DecisionsOn,
        storeVars
<1>4. Exclusive'
  <2> SUFFICES ASSUME NEW q \in Requests, NEW s \in Requests, q # s,
                      NEW doc \in txn'[q].wrote, Contested(doc)
               PROVE  doc \notin txn'[s].wrote
    BY DEF Exclusive
  <2>1. CASE q = r
    BY <2>1 DEF MongoInv, Exclusive
  <2>2. CASE s = r
    BY <2>2 DEF MongoInv, Exclusive
  <2>3. CASE q # r /\ s # r
    BY <2>3 DEF MongoInv, Exclusive
  <2> QED
    BY <2>1, <2>2, <2>3
<1> QED
  BY <1>1, <1>2, <1>3, <1>4 DEF MongoInv

LEMMA MayWriteMeans ==
    ASSUME MongoInv, NEW r \in Requests, NEW doc, MayWrite(r, doc)
    PROVE  doc \notin txn[r].stale /\ \A s \in Requests \ {r} : doc \notin txn[s].wrote
<1>1. ASSUME NEW s \in Requests \ {r}, doc \in txn[s].wrote PROVE FALSE
  <2>1. s \in Open \ {r}
    BY <1>1 DEF MongoInv, TxnInv, Quiet, Open
  <2> QED
    BY <1>1, <2>1 DEF MayWrite, HeldByOthers
<1> QED
  BY <1>1 DEF MayWrite

LEMMA RestartedInv ==
    ASSUME NEW t, TxnInv(t), t.at = "WRITING"
    PROVE  /\ TxnInv(Restarted(t)) /\ Restarted(t).wrote = {}
           /\ Restarted(t).op = t.op /\ Restarted(t).proposal = t.proposal
<1> DEFINE u == Restarted(t)
<1>1. /\ u \in Txns /\ u.at = "START" /\ u.wrote = {} /\ u.stale = {} /\ u.answer = t.answer
      /\ u.op = t.op /\ u.proposal = t.proposal /\ u.record = t.record
      /\ u.approval = t.approval /\ u.key = t.key /\ u.told = t.told
  BY DEF TxnInv, Txns, Restarted
<1>2. t.answer = "NONE"
  BY DEF TxnInv, Quiet
<1> HIDE DEF u
<1>3. Asks(u) /\ Quiet(u) /\ WritesInOrder(u) /\ Fresh(u) /\ Unbeaten(u) /\ AtBase(u) /\ SaysSo(u)
  BY <1>1, <1>2 DEF TxnInv, Asks, Quiet, WritesInOrder, Fresh, Unbeaten, AtBase, SaysSo
<1>4. TxnInv(u)
  BY <1>1, <1>3 DEF TxnInv
<1> QED
  BY <1>1, <1>4 DEF u

LEMMA AnsweredInv ==
    ASSUME NEW t, TxnInv(t),
           NEW answer \in {"ALREADY_DECIDED", "VERSION_MISMATCH", "RECORDED", "COMMITTED", "ERROR"},
           NEW told \in Maybe(Approvals \cup Nat),
           SaysSo(Answered(t, answer, told))
    PROVE  TxnInv(Answered(t, answer, told)) /\ Answered(t, answer, told).wrote = {}
<1> DEFINE u == Answered(t, answer, told)
<1>0. t \in Txns
  BY DEF TxnInv
<1>1. /\ u \in Txns /\ u.at = "DONE" /\ u.wrote = {} /\ u.stale = {}
      /\ u.op = t.op /\ u.proposal = t.proposal /\ u.record = t.record
      /\ u.approval = t.approval /\ u.key = t.key
  <2>1. u \in Txns
    <3> DEFINE v == [t EXCEPT !.at = "DONE", !.wrote = {}, !.stale = {}]
    <3>1. v \in Txns
      BY <1>0 DEF Txns
    <3>2. u = [v EXCEPT !.answer = answer, !.told = told]
      BY DEF Answered
    <3> HIDE DEF v, u
    <3>3. [v EXCEPT !.answer = answer, !.told = told] \in Txns
      BY <3>1 DEF Txns
    <3> QED
      BY <3>2, <3>3
  <2>2. u.at = "DONE" /\ u.wrote = {} /\ u.stale = {}
    BY <1>0, SMTT(60) DEF Txns, Answered
  <2>3. /\ u.op = t.op /\ u.proposal = t.proposal /\ u.record = t.record
        /\ u.approval = t.approval /\ u.key = t.key
    BY <1>0, SMTT(60) DEF Txns, Answered
  <2> QED
    BY <2>1, <2>2, <2>3
<1> HIDE DEF u
<1>2. Asks(u) /\ Quiet(u) /\ WritesInOrder(u) /\ Fresh(u) /\ Unbeaten(u) /\ AtBase(u)
  BY <1>1 DEF TxnInv, Asks, Quiet, WritesInOrder, Fresh, Unbeaten, AtBase
<1>3. SaysSo(u)
  BY DEF u
<1>4. TxnInv(u)
  BY <1>1, <1>2, <1>3 DEF TxnInv
<1> QED
  BY <1>1, <1>4 DEF u

LEMMA RestartStep ==
    ASSUME MongoInv, NEW r \in Requests, txn[r].at = "WRITING",
           txn' = [txn EXCEPT ![r] = Restarted(@)], UNCHANGED <<storeVars, load>>
    PROVE  MongoInv'
<1>1. TxnInv(txn[r])
  BY DEF MongoInv
<1>2. TxnInv(Restarted(txn[r])) /\ Restarted(txn[r]).wrote = {}
  BY <1>1, RestartedInv
<1>3. txn' = [txn EXCEPT ![r] = Restarted(txn[r])]
  BY DEF MongoInv
<1> QED
  BY <1>2, <1>3, LocalStep

LEMMA AnswerStep ==
    ASSUME MongoInv, NEW r \in Requests,
           NEW answer \in {"ALREADY_DECIDED", "VERSION_MISMATCH", "RECORDED", "COMMITTED", "ERROR"},
           NEW told \in Maybe(Approvals \cup Nat),
           SaysSo(Answered(txn[r], answer, told)),
           txn' = [txn EXCEPT ![r] = Answered(txn[r], answer, told)], UNCHANGED <<storeVars, load>>
    PROVE  MongoInv'
<1>1. TxnInv(txn[r])
  BY DEF MongoInv
<1>2. TxnInv(Answered(txn[r], answer, told)) /\ Answered(txn[r], answer, told).wrote = {}
  BY <1>1, AnsweredInv
<1> QED
  BY <1>2, LocalStep

\* What a call asked stays; its answer is the one just given.
LEMMA AnsweredFields ==
    ASSUME NEW t \in Txns, NEW answer, NEW told
    PROVE  LET u == Answered(t, answer, told)
           IN  /\ u.at = "DONE" /\ u.answer = answer /\ u.told = told /\ u.op = t.op
               /\ u.proposal = t.proposal /\ u.approval = t.approval /\ u.record = t.record
               /\ u.key = t.key
  BY DEF Txns, Answered

LEMMA HoldingFields ==
    ASSUME NEW t \in Txns, NEW docs \in SUBSET Docs
    PROVE  LET u == Holding(t, docs)
           IN  /\ u \in Txns /\ u.wrote = t.wrote \cup docs
               /\ u.at = t.at /\ u.stale = t.stale /\ u.answer = t.answer /\ u.told = t.told
               /\ u.op = t.op /\ u.proposal = t.proposal /\ u.approval = t.approval
               /\ u.record = t.record /\ u.key = t.key
<1>1. t.wrote \cup docs \in SUBSET Docs
  BY DEF Txns
<1> QED
  BY <1>1 DEF Txns, Holding

LEMMA TakeStep ==
    ASSUME MongoInv, NEW r \in Requests, txn[r].at = "WRITING", NEW docs \in SUBSET Docs,
           \A doc \in docs : Contested(doc) => MayWrite(r, doc),
           WritesInOrder(Holding(txn[r], docs)),
           txn' = [txn EXCEPT ![r] = Holding(txn[r], docs)], UNCHANGED <<storeVars, load>>
    PROVE  MongoInv'
<1> DEFINE t == txn[r]
           u == Holding(t, docs)
<1>1. TxnInv(t) /\ t \in Txns
  BY DEF MongoInv
<1>2. /\ u \in Txns /\ u.wrote = t.wrote \cup docs
      /\ u.at = t.at /\ u.stale = t.stale /\ u.answer = t.answer /\ u.told = t.told
      /\ u.op = t.op /\ u.proposal = t.proposal /\ u.approval = t.approval
      /\ u.record = t.record /\ u.key = t.key
  BY <1>1, HoldingFields
<1>3. WritesInOrder(u) /\ t.at = "WRITING" /\ txn' = [txn EXCEPT ![r] = u]
  OBVIOUS
<1>4. \A doc \in docs : Contested(doc) =>
         doc \notin t.stale /\ \A s \in Requests \ {r} : doc \notin txn[s].wrote
  BY MayWriteMeans
<1>5. \A doc \in u.wrote : Contested(doc) =>
         doc \in t.wrote \/ \A s \in Requests \ {r} : doc \notin txn[s].wrote
  BY <1>2, <1>4
<1> HIDE DEF t, u
<1>6. Asks(u) /\ Quiet(u) /\ Fresh(u) /\ Unbeaten(u) /\ AtBase(u) /\ SaysSo(u)
  BY <1>1, <1>2, <1>3, <1>4 DEF TxnInv, Asks, Quiet, Fresh, Unbeaten, AtBase, SaysSo
<1>7. TxnInv(u)
  BY <1>2, <1>3, <1>6 DEF TxnInv
<1> QED
  BY <1>3, <1>5, <1>7, LocalStep DEF t

LEMMA WriteStep ==
    ASSUME MongoInv, NEW r \in Requests, NEW op, NEW after, NEW kind, NEW id,
           Write(r, op, after, kind, id), Doc(kind, id) \in Docs,
           WritesInOrder(Holding(txn[r], {Doc(kind, id)}))
    PROVE  MongoInv'
<1>1. txn[r].at = "WRITING" /\ UNCHANGED <<storeVars, load>>
  BY DEF Write
<1>2. CASE MayWrite(r, Doc(kind, id))
  <2> DEFINE docs == {Doc(kind, id)}
  <2>2. txn' = [txn EXCEPT ![r] = Holding(txn[r], docs)]
    BY <1>2 DEF Write
  <2>3. /\ docs \in SUBSET Docs /\ WritesInOrder(Holding(txn[r], docs))
        /\ \A doc \in docs : Contested(doc) => MayWrite(r, doc)
    BY <1>2
  <2> HIDE DEF docs
  <2> QED
    BY <1>1, <2>2, <2>3, TakeStep
<1>3. CASE ~MayWrite(r, Doc(kind, id))
  BY <1>1, <1>3, RestartStep DEF Write
<1> QED
  BY <1>2, <1>3

-----------------------------------------------------------------------------
(* The calls, one lemma for each action.                                   *)

LEMMA CallDecideInv == ASSUME MongoInv, NEW r \in Requests, CallDecide(r) PROVE MongoInv'
<1>1. PICK id \in ProposalIds, decision \in Decisions :
        txn' = [txn EXCEPT ![r] =
          Asked("DECIDE",
                [proposal |-> id, digest |-> proposals[id].digest, version |-> proposals[id].base,
                 by |-> r, decision |-> decision],
                id,
                [proposals[id] EXCEPT !.status =
                   IF decision = "APPROVE" THEN "APPROVED" ELSE "REJECTED"],
                None)]
  BY DEF CallDecide
<1> DEFINE approval == [proposal |-> id, digest |-> proposals[id].digest,
                        version |-> proposals[id].base, by |-> r, decision |-> decision]
           record == [proposals[id] EXCEPT !.status =
                        IF decision = "APPROVE" THEN "APPROVED" ELSE "REJECTED"]
           t == Asked("DECIDE", approval, id, record, None)
<1>2. proposals[id] \in ProposalRecords
  BY DEF MongoInv, RecordsTypeOK
<1>3. approval \in Approvals /\ approval.proposal = id
  BY <1>2, RequestsArePrincipals DEF Approvals, ProposalRecords
<1>4. record \in ProposalRecords
  BY <1>2 DEF ProposalRecords, Statuses
<1>5. txn' = [txn EXCEPT ![r] = t] /\ UNCHANGED <<storeVars, load>>
  BY <1>1 DEF CallDecide
<1> HIDE DEF approval, record
<1>6. TxnInv(t) /\ t.wrote = {}
  BY <1>3, <1>4
  DEF TxnInv, Txns, Maybe, Asked, Asks, Quiet, WritesInOrder, Fresh, Unbeaten, AtBase, SaysSo
<1> QED
  BY <1>5, <1>6, LocalStep

LEMMA CallApplyInv == ASSUME MongoInv, NEW r \in Requests, CallApply(r) PROVE MongoInv'
<1>1. PICK id \in ProposalIds, key \in Keys :
        txn' = [txn EXCEPT ![r] =
          Asked("APPLY", None, id, [proposals[id] EXCEPT !.status = "APPLIED"], key)]
  BY DEF CallApply
<1> DEFINE record == [proposals[id] EXCEPT !.status = "APPLIED"]
           t == Asked("APPLY", None, id, record, key)
<1>2. record \in ProposalRecords
  BY DEF MongoInv, RecordsTypeOK, ProposalRecords, Statuses
<1>3. txn' = [txn EXCEPT ![r] = t] /\ UNCHANGED <<storeVars, load>>
  BY <1>1 DEF CallApply
<1> HIDE DEF record
<1>4. TxnInv(t) /\ t.wrote = {}
  BY <1>2
  DEF TxnInv, Txns, Maybe, Asked, Asks, Quiet, WritesInOrder, Fresh, Unbeaten, AtBase, SaysSo
<1> QED
  BY <1>3, <1>4, LocalStep

\* Where there is a decision, it is the one an answer names.
LEMMA TheDecision ==
    ASSUME MongoInv, NEW id, DecisionsOn(id) # {}
    PROVE  LET told == CHOOSE a \in DecisionsOn(id) : TRUE
           IN  DecisionsOn(id) = {told} /\ told \in Approvals
<1> DEFINE told == CHOOSE a \in DecisionsOn(id) : TRUE
<1>1. told \in DecisionsOn(id)
  OBVIOUS
<1> HIDE DEF told
<1>2. told \in approvals /\ told.proposal = id
  BY <1>1 DEF DecisionsOn
<1>3. \A a \in DecisionsOn(id) : a = told
  BY <1>2 DEF DecisionsOn, MongoInv, OneDecision
<1>4. DecisionsOn(id) = {told} /\ told \in Approvals
  BY <1>1, <1>2, <1>3 DEF MongoInv, RecordsTypeOK
<1> QED
  BY <1>4 DEF told

LEMMA AlreadyDecidedStep ==
    ASSUME MongoInv, NEW r \in Requests, DecisionsOn(txn[r].proposal) # {},
           txn' = [txn EXCEPT ![r] = AlreadyDecided(txn[r])], UNCHANGED <<storeVars, load>>
    PROVE  MongoInv'
<1> DEFINE told == CHOOSE a \in DecisionsOn(txn[r].proposal) : TRUE
<1>1. DecisionsOn(txn[r].proposal) = {told} /\ told \in Approvals
  BY TheDecision
<1>2. txn' = [txn EXCEPT ![r] = Answered(txn[r], "ALREADY_DECIDED", told)]
  BY DEF AlreadyDecided
<1> HIDE DEF told
<1>3. txn[r] \in Txns /\ told \in Maybe(Approvals \cup Nat)
  BY <1>1 DEF MongoInv, Maybe
<1>4. SaysSo(Answered(txn[r], "ALREADY_DECIDED", told))
  BY <1>1, <1>3, AnsweredFields DEF SaysSo
<1> QED
  BY <1>2, <1>3, <1>4, AnswerStep

LEMMA ReadWinnerInv == ASSUME MongoInv, NEW r \in Requests, ReadWinner(r) PROVE MongoInv'
<1>1. txn' = [txn EXCEPT ![r] = AlreadyDecided(txn[r])]
  BY DEF ReadWinner
<1> QED
  BY <1>1, AlreadyDecidedStep DEF ReadWinner

LEMMA ReadExistingInv == ASSUME MongoInv, NEW r \in Requests, ReadExisting(r) PROVE MongoInv'
<1>0. TxnInv(txn[r]) /\ txn[r] \in Txns /\ txn[r].op = "DECIDE" /\ txn[r].at = "START"
  BY DEF MongoInv, ReadExisting
<1>1. CASE DecisionsOn(txn[r].proposal) # {}
  <2>1. txn' = [txn EXCEPT ![r] = AlreadyDecided(txn[r])]
    BY <1>1 DEF ReadExisting
  <2> QED
    BY <1>1, <2>1, AlreadyDecidedStep DEF ReadExisting
<1>2. CASE DecisionsOn(txn[r].proposal) = {}
  <2> DEFINE t == [txn[r] EXCEPT !.at = "WRITING"]
  <2>1. txn' = [txn EXCEPT ![r] = t] /\ UNCHANGED <<storeVars, load>>
    BY <1>2 DEF ReadExisting
  <2>2. /\ t \in Txns /\ t.at = "WRITING" /\ t.op = "DECIDE"
        /\ t.wrote = txn[r].wrote /\ t.stale = txn[r].stale /\ t.answer = txn[r].answer
        /\ t.proposal = txn[r].proposal /\ t.approval = txn[r].approval
        /\ t.record = txn[r].record
    BY <1>0 DEF Txns
  <2>3. t.wrote = {} /\ t.answer = "NONE"
    BY <1>0, <2>2 DEF TxnInv, Quiet
  <2> HIDE DEF t
  <2>4. Asks(t) /\ Quiet(t) /\ WritesInOrder(t) /\ Fresh(t) /\ Unbeaten(t) /\ AtBase(t) /\ SaysSo(t)
    BY <1>0, <1>2, <2>2, <2>3
    DEF TxnInv, Asks, Quiet, WritesInOrder, Has, Fresh, Unbeaten, AtBase, SaysSo
  <2>5. TxnInv(t)
    BY <2>2, <2>4 DEF TxnInv
  <2> QED
    BY <2>1, <2>3, <2>5, LocalStep
<1> QED
  BY <1>1, <1>2

\* A document more, of kind: the order that WritesInOrder asks for.
LEMMA OrderKept ==
    ASSUME NEW t \in Txns, t.at = "WRITING", WritesInOrder(t), Asks(t), NEW docs \in SUBSET Docs,
           \A doc \in docs :
              /\ doc.kind = "PROPOSAL" => doc = Doc("PROPOSAL", t.proposal)
              /\ doc.kind # "PRODUCTION"
              /\ t.op = "DECIDE" =>
                    /\ doc.kind \in {"APPROVAL", "DECISION", "PROPOSAL", "AUDIT"}
                    /\ doc.kind = "AUDIT" => Has(t, "PROPOSAL")
                    /\ doc.kind = "PROPOSAL" => Has(t, "APPROVAL")
              /\ t.op = "APPLY" =>
                    /\ doc.kind \in {"ENTITIES", "PROPOSAL", "KEY", "AUDIT"}
                    /\ doc.kind = "AUDIT" => Has(t, "KEY")
                    /\ doc.kind = "KEY" => Has(t, "PROPOSAL")
                    /\ doc.kind = "PROPOSAL" => Has(t, "ENTITIES")
    PROVE  WritesInOrder(Holding(t, docs))
<1> DEFINE u == Holding(t, docs)
<1>1. u.wrote = t.wrote \cup docs /\ u.at = t.at /\ u.op = t.op /\ u.proposal = t.proposal
  BY HoldingFields
<1> HIDE DEF u
<1>2. \A kind : Has(u, kind) <=> Has(t, kind) \/ \E doc \in docs : doc.kind = kind
  BY <1>1 DEF Has
<1>3. \A doc \in u.wrote :
         /\ doc.kind = "PROPOSAL" => doc = Doc("PROPOSAL", u.proposal)
         /\ doc.kind = "PRODUCTION" => doc = Doc("PRODUCTION", None)
  BY <1>1 DEF WritesInOrder
<1>4. ASSUME u.op = "DECIDE"
      PROVE  /\ \A doc \in u.wrote : doc.kind \in {"APPROVAL", "DECISION", "PROPOSAL", "AUDIT"}
             /\ Has(u, "AUDIT") => Has(u, "PROPOSAL")
             /\ Has(u, "PROPOSAL") => Has(u, "APPROVAL")
  BY <1>1, <1>2, <1>4 DEF WritesInOrder
<1>5. ASSUME u.op = "APPLY"
      PROVE  /\ \A doc \in u.wrote :
                   doc.kind \in {"PRODUCTION", "ENTITIES", "PROPOSAL", "KEY", "AUDIT"}
             /\ Has(u, "AUDIT") => Has(u, "KEY")
             /\ Has(u, "KEY") => Has(u, "PROPOSAL")
             /\ Has(u, "PROPOSAL") => Has(u, "ENTITIES")
             /\ Has(u, "PRODUCTION")
  BY <1>1, <1>2, <1>5 DEF WritesInOrder
<1>6. WritesInOrder(u)
  BY <1>3, <1>4, <1>5 DEF WritesInOrder
<1> QED
  BY <1>6 DEF u

LEMMA InsertApprovalInv == ASSUME MongoInv, NEW r \in Requests, InsertApproval(r) PROVE MongoInv'
<1> DEFINE key == Doc("DECISION", txn[r].proposal)
           insert == Doc("APPROVAL", r)
           docs == IF index = "UNIQUE" THEN {insert, key} ELSE {insert}
<1>1. /\ txn[r] \in Txns /\ TxnInv(txn[r]) /\ txn[r].op = "DECIDE" /\ txn[r].at = "WRITING"
      /\ UNCHANGED <<storeVars, load>>
  BY DEF InsertApproval, MongoInv
<1>2. CASE txn' = [txn EXCEPT ![r] = Holding(txn[r], docs)]
  <2>1. docs \in SUBSET Docs /\ \A doc \in docs : doc.kind \in {"APPROVAL", "DECISION"}
    BY <1>1 DEF Docs, Kinds, Doc, TxnInv, Asks
  <2> HIDE DEF docs
  <2>2. WritesInOrder(Holding(txn[r], docs))
    BY <1>1, <2>1, OrderKept DEF TxnInv
  <2> QED
    BY <1>1, <1>2, <2>1, <2>2, TakeStep DEF Contested
<1>3. CASE txn' = [txn EXCEPT ![r] = Restarted(@)]
  BY <1>1, <1>3, RestartStep
<1>4. CASE txn' = [txn EXCEPT ![r] = [Restarted(txn[r]) EXCEPT !.at = "DUPLICATE"]]
  <2> DEFINE t == Restarted(txn[r])
             u == [t EXCEPT !.at = "DUPLICATE"]
  <2>1. TxnInv(t) /\ t \in Txns /\ t.wrote = {} /\ t.stale = {} /\ t.answer = "NONE" /\ t.op = "DECIDE"
    BY <1>1, RestartedInv DEF TxnInv, Quiet, Restarted, Txns
  <2> HIDE DEF t
  <2>2. /\ u \in Txns /\ u.at = "DUPLICATE"
        /\ u.wrote = {} /\ u.stale = {} /\ u.answer = "NONE" /\ u.op = "DECIDE"
        /\ u.proposal = t.proposal /\ u.approval = t.approval /\ u.record = t.record
    BY <2>1 DEF Txns
  <2> HIDE DEF u
  <2>3. Asks(u) /\ Quiet(u) /\ WritesInOrder(u) /\ Fresh(u) /\ Unbeaten(u) /\ AtBase(u) /\ SaysSo(u)
    BY <2>1, <2>2 DEF TxnInv, Asks, Quiet, WritesInOrder, Fresh, Unbeaten, AtBase, SaysSo
  <2>4. TxnInv(u)
    BY <2>2, <2>3 DEF TxnInv
  <2>5. txn' = [txn EXCEPT ![r] = u]
    BY <1>4 DEF t, u
  <2> QED
    BY <1>1, <2>2, <2>4, <2>5, LocalStep
<1> QED
  BY <1>2, <1>3, <1>4 DEF InsertApproval

LEMMA BumpVersionInv == ASSUME MongoInv, NEW r \in Requests, BumpVersion(r) PROVE MongoInv'
<1>1. /\ txn[r] \in Txns /\ TxnInv(txn[r]) /\ txn[r].op = "APPLY" /\ txn[r].at = "START"
      /\ UNCHANGED <<storeVars, load>> /\ version \in Nat
  BY DEF BumpVersion, MongoInv, RecordsTypeOK
<1>2. CASE version # txn[r].record.base
  <2>1. txn' = [txn EXCEPT ![r] = Answered(txn[r], "VERSION_MISMATCH", version)]
    BY <1>2 DEF BumpVersion
  <2>2. version \in Maybe(Approvals \cup Nat)
    BY <1>1 DEF Maybe
  <2>3. SaysSo(Answered(txn[r], "VERSION_MISMATCH", version))
    BY <1>1, <1>2, AnsweredFields DEF SaysSo
  <2> QED
    BY <1>1, <2>1, <2>2, <2>3, AnswerStep
<1>3. CASE version = txn[r].record.base
  <2> DEFINE docs == {Doc("PRODUCTION", None)}
             t == Holding(txn[r], docs)
             u == [t EXCEPT !.at = "WRITING"]
  <2>1. MayWrite(r, Doc("PRODUCTION", None)) /\ txn' = [txn EXCEPT ![r] = u]
    BY <1>3 DEF BumpVersion
  <2>2. docs \in SUBSET Docs /\ \A doc \in docs : doc = Doc("PRODUCTION", None)
    BY DEF Docs, Kinds, Doc
  <2>3. \A s \in Requests \ {r} : Doc("PRODUCTION", None) \notin txn[s].wrote
    BY <2>1, MayWriteMeans
  <2>4. /\ t \in Txns /\ t.wrote = docs /\ t.stale = {} /\ t.answer = "NONE" /\ t.op = "APPLY"
        /\ t.proposal = txn[r].proposal /\ t.approval = txn[r].approval
        /\ t.record = txn[r].record /\ t.key = txn[r].key
    <3>1. txn[r].wrote = {} /\ txn[r].stale = {} /\ txn[r].answer = "NONE"
      BY <1>1 DEF TxnInv, Quiet
    <3> HIDE DEF docs
    <3> QED
      BY <1>1, <2>2, <3>1, HoldingFields
  <2>5. Doc("PRODUCTION", None) \in docs /\ Doc("PRODUCTION", None).kind = "PRODUCTION"
    BY DEF Doc
  <2> HIDE DEF docs, t
  <2>6. /\ u \in Txns /\ u.at = "WRITING" /\ u.wrote = docs /\ u.stale = {} /\ u.answer = "NONE"
        /\ u.op = "APPLY" /\ u.proposal = txn[r].proposal /\ u.approval = txn[r].approval
        /\ u.record = txn[r].record /\ u.key = txn[r].key
    BY <2>4 DEF Txns
  <2> HIDE DEF u
  <2>7. Has(u, "PRODUCTION") /\ \A kind : Has(u, kind) => kind = "PRODUCTION"
    BY <2>2, <2>5, <2>6 DEF Has
  <2>8. WritesInOrder(u)
    BY <2>2, <2>5, <2>6, <2>7 DEF WritesInOrder, Doc
  <2>9. Asks(u) /\ Quiet(u) /\ Fresh(u) /\ Unbeaten(u) /\ AtBase(u) /\ SaysSo(u)
    BY <1>1, <1>3, <2>6 DEF TxnInv, Asks, Quiet, Fresh, Unbeaten, AtBase, SaysSo
  <2>10. TxnInv(u)
    BY <2>6, <2>8, <2>9 DEF TxnInv
  <2>11. txn' = [txn EXCEPT ![r] = u]
    BY <2>1 DEF u, t
  <2>12. \A doc \in u.wrote : Contested(doc) =>
            doc \in txn[r].wrote \/ \A s \in Requests \ {r} : doc \notin txn[s].wrote
    BY <2>2, <2>3, <2>6
  <2> QED
    BY <1>1, <2>10, <2>11, <2>12, LocalStep
<1> QED
  BY <1>2, <1>3

LEMMA WritesInv ==
    ASSUME MongoInv, NEW r \in Requests,
           \/ UpsertAll(r) \/ ReplaceIdempotency(r) \/ ReplaceProposal(r) \/ InsertAudit(r)
    PROVE  MongoInv'
<1>0. TxnInv(txn[r]) /\ txn[r] \in Txns
  BY DEF MongoInv
<1>1. ASSUME NEW op, NEW after, NEW kind \in Kinds, NEW id, Write(r, op, after, kind, id),
             id \in ProposalIds \cup Keys \cup Requests \cup {None},
             kind \notin {"PRODUCTION"},
             kind = "PROPOSAL" => id = txn[r].proposal,
             \/ op = "DECIDE" /\ <<after, kind>> \in {<<"APPROVAL", "PROPOSAL">>, <<"PROPOSAL", "AUDIT">>}
             \/ op = "APPLY" /\ <<after, kind>> \in {<<"PRODUCTION", "ENTITIES">>, <<"ENTITIES", "PROPOSAL">>,
                                                     <<"PROPOSAL", "KEY">>, <<"KEY", "AUDIT">>}
      PROVE  MongoInv'
  <2> DEFINE docs == {Doc(kind, id)}
  <2>1. txn[r].op = op /\ txn[r].at = "WRITING" /\ Has(txn[r], after)
    BY <1>1 DEF Write, Wrote, Has
  <2>2. Doc(kind, id) \in Docs /\ Doc(kind, id).kind = kind
    BY <1>1 DEF Docs, Doc
  <2>3. docs \in SUBSET Docs /\ \A doc \in docs : doc.kind = kind /\ doc = Doc(kind, id)
    BY <2>2
  <2> HIDE DEF docs
  <2>4. WritesInOrder(Holding(txn[r], docs))
    <3>1. WritesInOrder(txn[r]) /\ Asks(txn[r])
      BY <1>0 DEF TxnInv
    <3>2. CASE op = "DECIDE" /\ kind = "PROPOSAL" /\ after = "APPROVAL"
      BY <1>0, <1>1, <2>1, <2>3, <3>1, <3>2, OrderKept
    <3>3. CASE op = "DECIDE" /\ kind = "AUDIT" /\ after = "PROPOSAL"
      BY <1>0, <1>1, <2>1, <2>3, <3>1, <3>3, OrderKept
    <3>4. CASE op = "APPLY" /\ kind = "ENTITIES" /\ after = "PRODUCTION"
      BY <1>0, <1>1, <2>1, <2>3, <3>1, <3>4, OrderKept
    <3>5. CASE op = "APPLY" /\ kind = "PROPOSAL" /\ after = "ENTITIES"
      BY <1>0, <1>1, <2>1, <2>3, <3>1, <3>5, OrderKept
    <3>6. CASE op = "APPLY" /\ kind = "KEY" /\ after = "PROPOSAL"
      BY <1>0, <1>1, <2>1, <2>3, <3>1, <3>6, OrderKept
    <3>7. CASE op = "APPLY" /\ kind = "AUDIT" /\ after = "KEY"
      BY <1>0, <1>1, <2>1, <2>3, <3>1, <3>7, OrderKept
    <3> QED
      BY <1>1, <3>2, <3>3, <3>4, <3>5, <3>6, <3>7
  <2>5. WritesInOrder(Holding(txn[r], {Doc(kind, id)}))
    BY <2>4 DEF docs
  <2> QED
    BY <1>1, <2>2, <2>5, WriteStep
<1>2. ASSUME txn[r].op \in {"DECIDE", "APPLY"} PROVE txn[r].proposal \in ProposalIds
  BY <1>0, <1>2 DEF TxnInv, Asks
<1>3. ASSUME txn[r].op = "APPLY" PROVE txn[r].key \in Keys
  BY <1>0, <1>3 DEF TxnInv, Asks
<1>4. CASE UpsertAll(r)
  <2>1. Write(r, "APPLY", "PRODUCTION", "ENTITIES", None)
    BY <1>4 DEF UpsertAll
  <2> QED
    BY <1>1, <2>1 DEF Kinds
<1>5. CASE ReplaceIdempotency(r)
  <2>1. Write(r, "APPLY", "PROPOSAL", "KEY", txn[r].key) /\ txn[r].op = "APPLY"
    BY <1>5 DEF ReplaceIdempotency, Write
  <2> QED
    BY <1>1, <1>3, <2>1 DEF Kinds
<1>6. CASE Write(r, "APPLY", "ENTITIES", "PROPOSAL", txn[r].proposal)
  BY <1>1, <1>2, <1>6 DEF Kinds, Write
<1>7. CASE Write(r, "DECIDE", "APPROVAL", "PROPOSAL", txn[r].proposal)
  BY <1>1, <1>2, <1>7 DEF Kinds, Write
<1>8. CASE Write(r, "APPLY", "KEY", "AUDIT", r)
  BY <1>1, <1>8 DEF Kinds
<1>9. CASE Write(r, "DECIDE", "PROPOSAL", "AUDIT", r)
  BY <1>1, <1>9 DEF Kinds
<1> QED
  BY <1>4, <1>5, <1>6, <1>7, <1>8, <1>9 DEF ReplaceProposal, InsertAudit

LEMMA AnswersInv ==
    ASSUME MongoInv, NEW r \in Requests, Acknowledge(r) \/ Retry(r) \/ Throw(r)
    PROVE  MongoInv'
<1>0. TxnInv(txn[r]) /\ txn[r] \in Txns /\ None \in Maybe(Approvals \cup Nat)
  BY DEF MongoInv, Maybe
<1>1. CASE Acknowledge(r)
  <2> DEFINE answer == IF txn[r].op = "DECIDE" THEN "RECORDED" ELSE "COMMITTED"
  <2>1. txn[r].at = "LANDED" /\ txn' = [txn EXCEPT ![r] = Answered(txn[r], answer, None)]
        /\ UNCHANGED <<storeVars, load>>
    BY <1>1 DEF Acknowledge
  <2>2. txn[r].op \in {"DECIDE", "APPLY"}
    BY <1>0, <2>1 DEF TxnInv, Asks
  <2>3. /\ answer \in {"RECORDED", "COMMITTED"}
        /\ answer = "RECORDED" => txn[r].op = "DECIDE"
        /\ answer = "COMMITTED" => txn[r].op = "APPLY"
    BY <2>2
  <2> HIDE DEF answer
  <2>4. SaysSo(Answered(txn[r], answer, None))
    BY <1>0, <2>1, <2>3, AnsweredFields DEF TxnInv, SaysSo
  <2> QED
    BY <1>0, <2>1, <2>3, <2>4, AnswerStep
<1>2. CASE Retry(r)
  BY <1>2, RestartStep DEF Retry
<1>3. CASE Throw(r)
  <2>1. txn' = [txn EXCEPT ![r] = Answered(txn[r], "ERROR", None)]
        /\ UNCHANGED <<storeVars, load>>
    BY <1>3 DEF Throw
  <2>2. SaysSo(Answered(txn[r], "ERROR", None))
    BY <1>0, AnsweredFields DEF SaysSo
  <2> QED
    BY <1>0, <2>1, <2>2, AnswerStep
<1> QED
  BY <1>1, <1>2, <1>3

-----------------------------------------------------------------------------
(* The steps that change records.                                          *)

\* A transaction that commits is the first decision on its proposal, or an
\* apply at the version it checked.
LEMMA CommitIsAtomic ==
    ASSUME MongoInv, NEW r \in Requests, CommitLands(r)
    PROVE  /\ Doc("PROPOSAL", txn[r].proposal) \in txn[r].wrote
           /\ \/ /\ txn[r].op = "DECIDE"
                 /\ RecordProposalDecision(txn[r].approval, txn[r].record)
              \/ /\ txn[r].op = "APPLY" /\ Doc("PRODUCTION", None) \in txn[r].wrote
                 /\ ApplyProposalTransaction(txn[r].proposal, txn[r].record, txn[r].key,
                                             txn[r].record.base)
<1> DEFINE t == txn[r]
<1>1. /\ TxnInv(t) /\ t.at = "WRITING" /\ Has(t, "AUDIT")
      /\ \A kind : Wrote(r, kind) <=> Has(t, kind)
  BY DEF CommitLands, MongoInv, Wrote, Has
<1>2. /\ version' = IF Has(t, "PRODUCTION") THEN t.record.base + 1 ELSE version
      /\ commits' = IF Has(t, "ENTITIES")
                    THEN Append(commits, [proposal |-> t.proposal,
                                          digest |-> ComputeProposalDigest(t.record),
                                          key |-> t.key, base |-> version])
                    ELSE commits
      /\ approvals' = IF Has(t, "APPROVAL") THEN approvals \cup {t.approval} ELSE approvals
      /\ idempotency' = IF Has(t, "KEY")
                        THEN [idempotency EXCEPT ![t.key] =
                                [proposal |-> t.proposal, digest |-> t.record.digest,
                                 version |-> t.record.base + 1]]
                        ELSE idempotency
      /\ SaveProposal(t.proposal, t.record)
      /\ AppendAudit(AuditAction(t), t.proposal)
  BY <1>1 DEF CommitLands
<1> HIDE DEF t
<1>3. t.op \in {"DECIDE", "APPLY"} /\ Asks(t) /\ WritesInOrder(t)
  BY <1>1 DEF TxnInv, Asks
<1>4. Has(t, "PROPOSAL")
  BY <1>1, <1>3 DEF WritesInOrder
<1>5. Doc("PROPOSAL", t.proposal) \in t.wrote
  BY <1>1, <1>3, <1>4 DEF WritesInOrder, Has
<1>6. CASE t.op = "DECIDE"
  <2>1. Has(t, "APPROVAL") /\ ~Has(t, "PRODUCTION") /\ ~Has(t, "ENTITIES") /\ ~Has(t, "KEY")
    BY <1>1, <1>3, <1>4, <1>6 DEF WritesInOrder, Has
  <2>2. Doc("PROPOSAL", t.proposal) \notin t.stale
    BY <1>1, <1>5 DEF TxnInv, Fresh, Contested, Doc
  <2>3. DecisionsOn(t.proposal) = {}
    BY <1>1, <1>6, <2>2 DEF TxnInv, Unbeaten
  <2>4. t.approval.proposal = t.proposal
    BY <1>3, <1>6 DEF Asks
  <2>5. AuditAction(t) = IF t.approval.decision = "APPROVE" THEN "PROPOSAL_APPROVED"
                         ELSE "PROPOSAL_REJECTED"
    BY <1>6 DEF AuditAction
  <2>6. WriteDecision(t.approval, t.record)
    BY <1>2, <2>1, <2>4, <2>5 DEF WriteDecision
  <2> QED
    BY <1>5, <1>6, <2>3, <2>4, <2>6 DEF RecordProposalDecision, t
<1>7. CASE t.op = "APPLY"
  <2>1. Has(t, "PRODUCTION") /\ Has(t, "ENTITIES") /\ Has(t, "KEY")
    BY <1>1, <1>3, <1>4, <1>7 DEF WritesInOrder
  <2>2. ~Has(t, "APPROVAL")
    BY <1>1, <1>3, <1>7 DEF WritesInOrder, Has
  <2>3. version = t.record.base
    BY <1>1, <1>7 DEF TxnInv, AtBase
  <2>4. AuditAction(t) = "PROPOSAL_APPLIED"
    BY <1>7 DEF AuditAction
  <2>5. WriteApply(t.proposal, t.record, t.key, t.record.base)
    BY <1>2, <2>1, <2>2, <2>3, <2>4 DEF WriteApply
  <2>6. Doc("PRODUCTION", None) \in t.wrote
    BY <1>1, <1>3, <2>1 DEF WritesInOrder, Has
  <2> QED
    BY <1>5, <1>7, <2>3, <2>5, <2>6 DEF ApplyProposalTransaction, t
<1> QED
  BY <1>3, <1>6, <1>7

Invalidated(t, docs) ==
    IF t.at = "WRITING" THEN [t EXCEPT !.stale = t.stale \cup docs] ELSE t

LEMMA InvalidatedFields ==
    ASSUME NEW t \in Txns, NEW docs \in SUBSET Docs
    PROVE  LET u == Invalidated(t, docs)
           IN  /\ u \in Txns /\ u.wrote = t.wrote
               /\ u.at = t.at /\ u.answer = t.answer /\ u.told = t.told
               /\ u.op = t.op /\ u.proposal = t.proposal /\ u.approval = t.approval
               /\ u.record = t.record /\ u.key = t.key
               /\ u.stale = IF t.at = "WRITING" THEN t.stale \cup docs ELSE t.stale
<1>1. t.stale \cup docs \in SUBSET Docs
  BY DEF Txns
<1> QED
  BY <1>1 DEF Txns, Invalidated

\* A step that changes records keeps the invariant of another call: the
\* documents it changes are not that one's, and a first decision changes its
\* proposal's document.
LEMMA OtherCall ==
    ASSUME MongoInv, NEW t \in Txns, TxnInv(t), NEW docs \in SUBSET Docs, version' \in Nat,
           \A doc \in docs : Contested(doc) => doc \notin t.wrote,
           \A id \in ProposalIds \cup {None} :
              \/ DecisionsOn(id)' = DecisionsOn(id)
              \/ DecisionsOn(id) = {} /\ Doc("PROPOSAL", id) \in docs,
           version <= version',
           version' = version \/ Doc("PRODUCTION", None) \in docs,
           \A i \in DOMAIN commits : i \in DOMAIN commits' /\ commits'[i] = commits[i]
    PROVE  TxnInv(Invalidated(t, docs))'
<1> DEFINE v == Invalidated(t, docs)
<1>1. /\ v \in Txns /\ v.wrote = t.wrote
      /\ v.at = t.at /\ v.answer = t.answer /\ v.told = t.told
      /\ v.op = t.op /\ v.proposal = t.proposal /\ v.approval = t.approval
      /\ v.record = t.record /\ v.key = t.key
      /\ v.stale = IF t.at = "WRITING" THEN t.stale \cup docs ELSE t.stale
  BY InvalidatedFields
<1>2. t.proposal \in ProposalIds \cup {None}
  BY DEF Txns, Maybe
<1>3. version \in Nat
  BY DEF MongoInv, RecordsTypeOK
<1> SUFFICES ASSUME NEW w, w = v PROVE TxnInv(w)'
  BY DEF v
<1>4. /\ w \in Txns /\ w.wrote = t.wrote
      /\ w.at = t.at /\ w.answer = t.answer /\ w.told = t.told
      /\ w.op = t.op /\ w.proposal = t.proposal /\ w.approval = t.approval
      /\ w.record = t.record /\ w.key = t.key
      /\ w.stale = IF t.at = "WRITING" THEN t.stale \cup docs ELSE t.stale
  BY <1>1
<1> HIDE DEF v
<1>5. Asks(w)' /\ Quiet(w)'
  BY <1>4 DEF TxnInv, Asks, Quiet
<1>6. WritesInOrder(w)'
  BY <1>4 DEF TxnInv, WritesInOrder, Has
<1>7. Fresh(w)'
  BY <1>4 DEF TxnInv, Fresh
<1>8. Unbeaten(w)'
  BY <1>2, <1>4 DEF TxnInv, Unbeaten
<1>9. AtBase(w)'
  <2> SUFFICES ASSUME w.at = "WRITING", w.op = "APPLY" PROVE version' = w.record.base
    BY DEF AtBase
  <2>1. version = t.record.base /\ Has(t, "PRODUCTION") /\ WritesInOrder(t)
    BY <1>4 DEF TxnInv, AtBase, WritesInOrder
  <2>2. Doc("PRODUCTION", None) \in t.wrote
    BY <1>4, <2>1 DEF WritesInOrder, Has
  <2>3. Contested(Doc("PRODUCTION", None))
    BY DEF Contested, Doc
  <2> QED
    BY <1>4, <2>1, <2>2, <2>3
<1>10. SaysSo(w)'
  <2>1. ASSUME NEW a, DecisionsOn(t.proposal) = {a} PROVE DecisionsOn(w.proposal)' = {a}
    BY <1>2, <1>4, <2>1
  <2>2. ASSUME \E i \in DOMAIN commits :
                  commits[i].proposal = t.proposal /\ commits[i].key = t.key
        PROVE  \E i \in DOMAIN commits' :
                  commits'[i].proposal = w.proposal /\ commits'[i].key = w.key
    BY <1>4, <2>2
  <2>3. ASSUME t.told \in Nat, t.told <= version PROVE w.told <= version'
    BY <1>3, <1>4, <2>3
  <2> QED
    BY <1>4, <2>1, <2>2, <2>3 DEF TxnInv, SaysSo
<1> QED
  BY <1>4, <1>5, <1>6, <1>7, <1>8, <1>9, <1>10 DEF TxnInv

LEMMA RecordStep ==
    ASSUME MongoInv, NEW r \in Requests, NEW u, NEW docs \in SUBSET Docs,
           txn' = [s \in Requests |-> IF s = r THEN u ELSE Invalidated(txn[s], docs)],
           TxnInv(u)', u.wrote = {},
           RecordsTypeOK', OneDecision', UNCHANGED load,
           \A s \in Requests \ {r} : \A doc \in docs : Contested(doc) => doc \notin txn[s].wrote,
           \A id \in ProposalIds \cup {None} :
              \/ DecisionsOn(id)' = DecisionsOn(id)
              \/ DecisionsOn(id) = {} /\ Doc("PROPOSAL", id) \in docs,
           version <= version',
           version' = version \/ Doc("PRODUCTION", None) \in docs,
           \A i \in DOMAIN commits : i \in DOMAIN commits' /\ commits'[i] = commits[i]
    PROVE  MongoInv'
<1>0. version \in Nat /\ version' \in Nat
  BY DEF MongoInv, RecordsTypeOK
<1>1. ASSUME NEW s \in Requests, s # r PROVE TxnInv(txn[s])' /\ txn'[s].wrote = txn[s].wrote
  <2> SUFFICES ASSUME NEW t, t = txn[s] PROVE TxnInv(txn[s])' /\ txn'[s].wrote = t.wrote
    OBVIOUS
  <2>1. TxnInv(t) /\ t \in Txns
    BY DEF MongoInv
  <2>2. txn'[s] = Invalidated(t, docs) /\ txn'[s].wrote = t.wrote
    BY <1>1, <2>1, InvalidatedFields
  <2>3. TxnInv(Invalidated(t, docs))'
    BY <1>0, <1>1, <2>1, OtherCall
  <2>4. ASSUME NEW w, w = txn'[s], TxnInv(w)' PROVE TxnInv(txn[s])'
    BY <2>4 DEF TxnInv, Asks, Quiet, WritesInOrder, Has, Fresh, Unbeaten, AtBase, SaysSo
  <2>5. ASSUME NEW w, w = Invalidated(t, docs) PROVE TxnInv(w)'
    BY <2>3, <2>5
  <2> QED
    BY <2>2, <2>4, <2>5
<1>2. TxnInv(txn[r])' /\ txn'[r].wrote = {}
  BY DEF TxnInv, Asks, Quiet, WritesInOrder, Has, Fresh, Unbeaten, AtBase, SaysSo
<1>3. txn' \in [Requests -> Txns]
  <2>1. u \in Txns
    BY DEF TxnInv
  <2>2. \A s \in Requests : Invalidated(txn[s], docs) \in Txns
    BY InvalidatedFields DEF MongoInv
  <2> QED
    BY <2>1, <2>2
<1>4. Exclusive'
  <2> SUFFICES ASSUME NEW q \in Requests, NEW s \in Requests, q # s,
                      NEW doc \in txn'[q].wrote, Contested(doc)
               PROVE  doc \notin txn'[s].wrote
    BY DEF Exclusive
  <2>1. q # r
    BY <1>2
  <2>2. CASE s = r
    BY <1>2, <2>2
  <2>3. CASE s # r
    BY <1>1, <2>1, <2>3 DEF MongoInv, Exclusive
  <2> QED
    BY <2>2, <2>3
<1>5. LoadInv'
  <2>1. version \in Nat /\ version' \in Nat
    BY DEF MongoInv, RecordsTypeOK
  <2> QED
    BY <2>1 DEF MongoInv, LoadInv
<1> QED
  BY <1>1, <1>2, <1>3, <1>4, <1>5 DEF MongoInv

LEMMA InvalidateMeans ==
    ASSUME MongoInv, NEW r \in Requests, NEW u, u.at # "WRITING", NEW docs
    PROVE  Invalidate([txn EXCEPT ![r] = u], docs) =
             [s \in Requests |-> IF s = r THEN u ELSE Invalidated(txn[s], docs)]
<1> DEFINE ts == [txn EXCEPT ![r] = u]
<1>1. ts[r] = u /\ \A s \in Requests : s # r => ts[s] = txn[s]
  BY DEF MongoInv
<1>2. \A s \in Requests :
         (IF ts[s].at = "WRITING" THEN [ts[s] EXCEPT !.stale = ts[s].stale \cup docs] ELSE ts[s])
           = IF s = r THEN u ELSE Invalidated(txn[s], docs)
  BY <1>1 DEF Invalidated
<1>3. Invalidate(ts, docs) = [s \in Requests |->
        IF ts[s].at = "WRITING" THEN [ts[s] EXCEPT !.stale = ts[s].stale \cup docs] ELSE ts[s]]
  BY DEF Invalidate
<1> HIDE DEF ts
<1>4. Invalidate(ts, docs) = [s \in Requests |-> IF s = r THEN u ELSE Invalidated(txn[s], docs)]
  BY <1>2, <1>3
<1> QED
  BY <1>4 DEF ts

LEMMA SaveInv == ASSUME MongoInv, NEW r \in Requests, Save(r) PROVE MongoInv'
<1>1. PICK id \in ProposalIds :
        LET record == [proposals[id] EXCEPT !.validation = "INVALID", !.judgedAt = version]
        IN  /\ Doc("PROPOSAL", id) \notin HeldByOthers(r)
            /\ SaveProposal(id, record)
            /\ txn' = Invalidate([txn EXCEPT ![r] =
                 [Asked("SAVE", None, id, record, None) EXCEPT !.at = "DONE", !.answer = "SAVED"]],
                 {Doc("PROPOSAL", id)})
  BY DEF Save
<1> DEFINE record == [proposals[id] EXCEPT !.validation = "INVALID", !.judgedAt = version]
<1>a. SUFFICES ASSUME NEW u, u = [Asked("SAVE", None, id, record, None) EXCEPT
                                  !.at = "DONE", !.answer = "SAVED"],
                    NEW docs, docs = {Doc("PROPOSAL", id)}
             PROVE  MongoInv'
  OBVIOUS
<1>2. UNCHANGED <<version, commits, approvals, idempotency, audit, load>> /\ txn[r].at = "IDLE"
  BY DEF Save
<1>3. record \in ProposalRecords
  BY DEF MongoInv, RecordsTypeOK, ProposalRecords, Validations
<1>4. RecordsTypeOK' /\ OneDecision'
  BY <1>1, <1>2, <1>3 DEF MongoInv, RecordsTypeOK, OneDecision, SaveProposal
<1>5. txn' = Invalidate([txn EXCEPT ![r] = u], docs)
  BY <1>1, <1>a
<1> HIDE DEF record
<1>6. /\ u \in Txns /\ u.at = "DONE" /\ u.wrote = {} /\ u.stale = {} /\ u.answer = "SAVED"
      /\ u.op = "SAVE"
  BY <1>3, <1>a DEF Asked, Txns, Maybe
<1>7. docs \in SUBSET Docs /\ \A doc \in docs : doc = Doc("PROPOSAL", id) /\ doc.kind = "PROPOSAL"
  BY <1>a DEF Docs, Kinds, Doc
<1>8. \A s \in Requests \ {r} : \A doc \in docs : doc \notin txn[s].wrote
  <2> SUFFICES ASSUME NEW s \in Requests \ {r}, Doc("PROPOSAL", id) \in txn[s].wrote PROVE FALSE
    BY <1>7
  <2>1. s \in Open \ {r}
    BY DEF MongoInv, TxnInv, Quiet, Open
  <2> QED
    BY <1>1, <2>1 DEF HeldByOthers
<1>9. TxnInv(u)'
  BY <1>6 DEF TxnInv, Asks, Quiet, WritesInOrder, Fresh, Unbeaten, AtBase, SaysSo
<1>10. txn' = [s \in Requests |-> IF s = r THEN u ELSE Invalidated(txn[s], docs)]
  <2>1. u.at # "WRITING"
    BY <1>6
  <2> QED
    BY <1>5, <2>1, InvalidateMeans
<1>11. \A i \in DOMAIN commits : i \in DOMAIN commits' /\ commits'[i] = commits[i]
  BY <1>2
<1>12. \A x \in ProposalIds \cup {None} : DecisionsOn(x)' = DecisionsOn(x)
  BY <1>2 DEF DecisionsOn
<1>13. version \in Nat /\ version' = version /\ UNCHANGED load
  BY <1>2 DEF MongoInv, RecordsTypeOK
<1>14. version <= version'
  BY <1>13
<1>15. docs \in SUBSET Docs /\ u.wrote = {}
  BY <1>6, <1>7
<1>16. \A s \in Requests \ {r} : \A doc \in docs : Contested(doc) => doc \notin txn[s].wrote
  BY <1>8
<1> QED
  BY <1>4, <1>9, <1>10, <1>11, <1>12, <1>13, <1>14, <1>15, <1>16, RecordStep

LEMMA CommitInv == ASSUME MongoInv, NEW r \in Requests, CommitLands(r) PROVE MongoInv'
<1> SUFFICES ASSUME NEW t, t = txn[r],
                    NEW u, u = Landed(t),
                    NEW docs, docs = t.wrote
             PROVE  MongoInv'
  OBVIOUS
<1>1. /\ TxnInv(t) /\ t \in Txns /\ Asks(t) /\ t.at = "WRITING" /\ t.op \in {"DECIDE", "APPLY"}
      /\ t.answer = "NONE"
  BY DEF CommitLands, MongoInv, TxnInv, Asks, Quiet
<1>2. /\ u \in Txns /\ u.at = "LANDED" /\ u.wrote = {} /\ u.stale = {} /\ u.answer = "NONE"
      /\ u.op = t.op /\ u.proposal = t.proposal /\ u.approval = t.approval
      /\ u.record = t.record /\ u.key = t.key
  BY <1>1 DEF Txns, Landed
<1>3. docs \in SUBSET Docs /\ UNCHANGED load
  BY <1>1 DEF Txns, CommitLands
<1>4. \A s \in Requests \ {r} : \A doc \in docs : Contested(doc) => doc \notin txn[s].wrote
  BY DEF MongoInv, Exclusive
<1>5. txn' = [s \in Requests |-> IF s = r THEN u ELSE Invalidated(txn[s], docs)]
  <2>1. txn' = Invalidate([txn EXCEPT ![r] = u], docs)
    BY DEF CommitLands
  <2>2. u.at # "WRITING"
    BY <1>2
  <2> QED
    BY <2>1, <2>2, InvalidateMeans
<1>6. version \in Nat /\ commits \in Seq(Commits) /\ version = FirstVersion + Len(commits)
      /\ FirstVersion \in Nat
  BY FirstVersionIsPositive DEF MongoInv, RecordsTypeOK
<1>7. CASE t.op = "DECIDE"
  <2>1. /\ Doc("PROPOSAL", t.proposal) \in docs
        /\ DecisionsOn(t.proposal) = {} /\ t.approval.proposal = t.proposal
        /\ approvals' = approvals \cup {t.approval}
        /\ proposals' = [proposals EXCEPT ![t.proposal] = t.record]
        /\ UNCHANGED <<version, commits, idempotency>>
    BY <1>1, <1>7, CommitIsAtomic
    DEF RecordProposalDecision, WriteDecision, SaveProposal, Asks
  <2>2. /\ t.approval \in Approvals /\ t.proposal \in ProposalIds
        /\ t.record \in ProposalRecords
    BY <1>1, <1>7 DEF Asks
  <2>3. RecordsTypeOK'
    BY <2>1, <2>2 DEF MongoInv, RecordsTypeOK
  <2>4. OneDecision'
    BY <2>1 DEF MongoInv, OneDecision, DecisionsOn
  <2>5. DecisionsOn(t.proposal)' = {t.approval}
    <3>1. \A a \in approvals : a.proposal # t.proposal
      BY <2>1 DEF DecisionsOn
    <3>2. {a \in approvals \cup {t.approval} : a.proposal = t.proposal} = {t.approval}
      BY <2>1, <3>1
    <3> QED
      BY <2>1, <3>2 DEF DecisionsOn
  <2>6. \A id \in ProposalIds \cup {None} :
           \/ DecisionsOn(id)' = DecisionsOn(id)
           \/ DecisionsOn(id) = {} /\ Doc("PROPOSAL", id) \in docs
    <3> SUFFICES ASSUME NEW id, id # t.proposal PROVE DecisionsOn(id)' = DecisionsOn(id)
      BY <2>1
    <3> QED
      BY <2>1 DEF DecisionsOn
  <2>7. TxnInv(u)'
    BY <1>1, <1>2, <1>7, <2>2, <2>5
    DEF TxnInv, Asks, Quiet, WritesInOrder, Fresh, Unbeaten, AtBase, SaysSo
  <2>8. version' = version /\ version <= version'
    BY <1>6, <2>1
  <2>9. \A i \in DOMAIN commits : i \in DOMAIN commits' /\ commits'[i] = commits[i]
    BY <2>1
  <2> QED
    BY <1>2, <1>3, <1>4, <1>5, <2>3, <2>4, <2>6, <2>7, <2>8, <2>9, RecordStep
<1>8. CASE t.op = "APPLY"
  <2> DEFINE commit == [proposal |-> t.proposal, digest |-> ComputeProposalDigest(t.record),
                        key |-> t.key, base |-> version]
             done == [proposal |-> t.proposal, digest |-> t.record.digest,
                      version |-> t.record.base + 1]
  <2>1. /\ Doc("PRODUCTION", None) \in docs
        /\ version' = version + 1 /\ commits' = Append(commits, commit)
        /\ proposals' = [proposals EXCEPT ![t.proposal] = t.record]
        /\ idempotency' = [idempotency EXCEPT ![t.key] = done]
        /\ UNCHANGED approvals
    BY <1>8, CommitIsAtomic DEF ApplyProposalTransaction, WriteApply, SaveProposal
  <2>2. t.proposal \in ProposalIds /\ t.record \in ProposalRecords /\ t.key \in Keys
    BY <1>1, <1>8 DEF Asks
  <2>3. commit \in Commits /\ done \in IdempotencyRecords
        /\ commit.proposal = t.proposal /\ commit.key = t.key
    BY <1>6, <2>2
    DEF Commits, Digests, ProposalRecords, ComputeProposalDigest, IdempotencyRecords
  <2> HIDE DEF commit, done
  <2>4. /\ commits' \in Seq(Commits) /\ Len(commits') = Len(commits) + 1
        /\ commits'[Len(commits) + 1] = commit
        /\ \A i \in 1..Len(commits) : commits'[i] = commits[i]
    BY <1>6, <2>1, <2>3, AppendProperties
  <2>5. Len(commits) \in Nat /\ DOMAIN commits = 1..Len(commits)
        /\ DOMAIN commits' = 1..(Len(commits) + 1)
    BY <1>6, <2>4, LenProperties
  <2>6. RecordsTypeOK'
    <3>1. version' \in Nat /\ version' = FirstVersion + Len(commits')
      BY <1>6, <2>1, <2>4, <2>5
    <3>2. proposals' \in [ProposalIds -> ProposalRecords]
      BY <2>1, <2>2 DEF MongoInv, RecordsTypeOK
    <3>3. idempotency' \in [Keys -> IdempotencyRecords \cup {None}]
      BY <2>1, <2>2, <2>3 DEF MongoInv, RecordsTypeOK
    <3> QED
      BY <2>1, <2>4, <3>1, <3>2, <3>3 DEF MongoInv, RecordsTypeOK
  <2>7. OneDecision'
    BY <2>1 DEF MongoInv, OneDecision
  <2>8. \A i \in DOMAIN commits : i \in DOMAIN commits' /\ commits'[i] = commits[i]
    BY <2>4, <2>5
  <2>9. Len(commits) + 1 \in DOMAIN commits' /\ commits'[Len(commits) + 1].proposal = t.proposal
        /\ commits'[Len(commits) + 1].key = t.key
    BY <2>3, <2>4, <2>5
  <2>10. TxnInv(u)'
    BY <1>1, <1>2, <1>8, <2>2, <2>9
    DEF TxnInv, Asks, Quiet, WritesInOrder, Fresh, Unbeaten, AtBase, SaysSo
  <2>11. \A id \in ProposalIds \cup {None} : DecisionsOn(id)' = DecisionsOn(id)
    BY <2>1 DEF DecisionsOn
  <2>12. version <= version'
    BY <1>6, <2>1
  <2> QED
    BY <1>2, <1>3, <1>4, <1>5, <2>1, <2>6, <2>7, <2>8, <2>10, <2>11, <2>12, RecordStep
<1> QED
  BY <1>1, <1>7, <1>8

-----------------------------------------------------------------------------
(* The whole.                                                              *)

LEMMA OtherSteps ==
    ASSUME MongoInv, UNCHANGED <<storeVars, txn>>, LoadInv'
    PROVE  MongoInv'
<1>1. RecordsTypeOK' /\ OneDecision' /\ Exclusive' /\ txn' \in [Requests -> Txns]
  BY DEF MongoInv, RecordsTypeOK, OneDecision, Exclusive, storeVars
<1>2. ASSUME NEW r \in Requests PROVE TxnInv(txn[r])'
  <2>1. TxnInv(txn[r])
    BY DEF MongoInv
  <2> QED
    BY <2>1
    DEF TxnInv, Asks, Quiet, WritesInOrder, Has, Fresh, Unbeaten, AtBase, SaysSo, DecisionsOn,
        storeVars
<1> QED
  BY <1>1, <1>2 DEF MongoInv

LEMMA LoadSteps ==
    ASSUME MongoInv, LoadProduction \/ LoadEntities
    PROVE  MongoInv'
<1>1. version \in Nat /\ Len(commits) \in Nat /\ version = FirstVersion + Len(commits)
  BY LenProperties DEF MongoInv, RecordsTypeOK
<1>2. UNCHANGED <<storeVars, txn>> /\ version' = version
  BY DEF LoadProduction, LoadEntities, storeVars
<1>3. CASE LoadProduction
  <2>1. load' = [at |-> "PRODUCTION", since |-> version, loaded |-> version, entities |-> 0]
    BY <1>3 DEF LoadProduction
  <2>2. LoadInv'
    BY <1>1, <1>2, <2>1 DEF LoadInv
  <2> QED
    BY <1>2, <2>2, OtherSteps
<1>4. CASE LoadEntities
  <2>1. /\ load \in [at : {"PRODUCTION", "DONE"}, since : Nat, loaded : Nat, entities : Nat]
        /\ load.since = load.loaded /\ load.loaded <= version
        /\ load' = [load EXCEPT !.at = "DONE", !.entities = Len(commits)]
    BY <1>4 DEF LoadEntities, MongoInv, LoadInv
  <2>2. LoadInv'
    BY <1>1, <1>2, <2>1 DEF LoadInv
  <2> QED
    BY <1>2, <2>2, OtherSteps
<1> QED
  BY <1>3, <1>4

LEMMA MongoInitInv == MongoInit => MongoInv
<1> SUFFICES ASSUME MongoInit PROVE MongoInv
  OBVIOUS
<1>1. \A id \in ProposalIds : NewProposal(id) \in ProposalRecords
  <2> DEFINE c == CHOOSE x \in ChangeRequests : TRUE
             plan == CHOOSE x \in Plans : TRUE
             draft == [changeRequest |-> c, base |-> FirstVersion, operations |-> plan]
  <2>1. c \in ChangeRequests /\ plan \in Plans /\ FirstVersion \in Nat
    BY SomethingIsProposed, FirstVersionIsPositive
  <2>2. \A id : NewProposal(id) =
          [changeRequest |-> draft.changeRequest, base |-> draft.base,
           operations |-> draft.operations, digest |-> draft, validation |-> "VALID",
           status |-> "AWAITING_APPROVAL", judgedAt |-> FirstVersion]
    BY DEF NewProposal
  <2> HIDE DEF c, plan
  <2> QED
    BY <2>1, <2>2 DEF ProposalRecords, Digests, Validations, Statuses
<1>2. RecordsTypeOK
  BY <1>1, FirstVersionIsPositive DEF MongoInit, RecordsTypeOK
<1>3. Idle = [op |-> "NONE", at |-> "IDLE", wrote |-> {}, stale |-> {}, answer |-> "NONE",
              told |-> None, approval |-> None, proposal |-> None, record |-> None, key |-> None]
  BY DEF Idle, Asked
<1>4. Idle \in Txns
  BY <1>3 DEF Txns, Maybe
<1>5. TxnInv(Idle) /\ Idle.wrote = {}
  BY <1>3, <1>4
  DEF TxnInv, Asks, Quiet, WritesInOrder, Fresh, Unbeaten, AtBase, SaysSo
<1>6. \A r \in Requests : txn[r] = Idle
  BY DEF MongoInit
<1> QED
  BY <1>2, <1>4, <1>5, <1>6 DEF MongoInit, MongoInv, OneDecision, Exclusive, LoadInv

LEMMA MongoStepInv == MongoInv /\ [MongoNext]_<<storeVars, mongoVars>> => MongoInv'
<1> SUFFICES ASSUME MongoInv, [MongoNext]_<<storeVars, mongoVars>> PROVE MongoInv'
  OBVIOUS
<1>1. ASSUME NEW r \in Requests,
             \/ CallDecide(r) \/ ReadExisting(r) \/ InsertApproval(r) \/ ReadWinner(r)
             \/ CallApply(r) \/ BumpVersion(r) \/ UpsertAll(r) \/ ReplaceIdempotency(r)
             \/ ReplaceProposal(r) \/ InsertAudit(r) \/ CommitLands(r) \/ Acknowledge(r)
             \/ Retry(r) \/ Throw(r) \/ Save(r)
      PROVE  MongoInv'
  BY <1>1, CallDecideInv, ReadExistingInv, InsertApprovalInv, ReadWinnerInv, CallApplyInv,
     BumpVersionInv, WritesInv, CommitInv, AnswersInv, SaveInv
<1>2. ASSUME NEW s \in Starters, ListIndexes(s) \/ DropIndex(s) \/ CreateIndex(s)
      PROVE  MongoInv'
  <2>1. UNCHANGED <<storeVars, txn>> /\ UNCHANGED load
    BY <1>2 DEF ListIndexes, DropIndex, CreateIndex
  <2>2. LoadInv'
    BY <2>1 DEF MongoInv, LoadInv, storeVars
  <2> QED
    BY <2>1, <2>2, OtherSteps
<1>3. CASE UNCHANGED <<storeVars, mongoVars>>
  <2>1. UNCHANGED <<storeVars, txn>> /\ UNCHANGED load
    BY <1>3 DEF mongoVars
  <2>2. LoadInv'
    BY <2>1 DEF MongoInv, LoadInv, storeVars
  <2> QED
    BY <2>1, <2>2, OtherSteps
<1> QED
  BY <1>1, <1>2, <1>3, LoadSteps DEF MongoNext

\* Every step of a call that touches the database is an operation of the port.
LEMMA MongoStepIsAtomic ==
    MongoInv /\ [MongoNext]_<<storeVars, mongoVars>> =>
       [\E r \in Requests : AtomicStep(r)]_storeVars
<1> SUFFICES ASSUME MongoInv, [MongoNext]_<<storeVars, mongoVars>>
             PROVE  (\E r \in Requests : AtomicStep(r)) \/ UNCHANGED storeVars
  OBVIOUS
<1>1. ASSUME NEW r \in Requests,
             \/ CallDecide(r) \/ ReadExisting(r) \/ InsertApproval(r) \/ ReadWinner(r)
             \/ CallApply(r) \/ BumpVersion(r) \/ UpsertAll(r) \/ ReplaceIdempotency(r)
             \/ ReplaceProposal(r) \/ InsertAudit(r) \/ Acknowledge(r) \/ Retry(r) \/ Throw(r)
      PROVE  UNCHANGED storeVars
  BY <1>1
  DEF CallDecide, ReadExisting, InsertApproval, ReadWinner, CallApply, BumpVersion, UpsertAll,
      ReplaceIdempotency, ReplaceProposal, InsertAudit, Write, Acknowledge, Retry, Throw
<1>2. ASSUME NEW r \in Requests, CommitLands(r) PROVE AtomicStep(r)
  BY <1>2, CommitIsAtomic DEF AtomicStep
<1>3. ASSUME NEW r \in Requests, Save(r) PROVE AtomicStep(r)
  <2>1. PICK id \in ProposalIds :
          LET record == [proposals[id] EXCEPT !.validation = "INVALID", !.judgedAt = version]
          IN  /\ SaveProposal(id, record)
              /\ txn' = Invalidate([txn EXCEPT ![r] =
                   [Asked("SAVE", None, id, record, None) EXCEPT !.at = "DONE", !.answer = "SAVED"]],
                   {Doc("PROPOSAL", id)})
    BY <1>3 DEF Save
  <2>a. SUFFICES ASSUME NEW record,
                 record = [proposals[id] EXCEPT !.validation = "INVALID", !.judgedAt = version],
                 NEW u, u = [Asked("SAVE", None, id, record, None) EXCEPT
                               !.at = "DONE", !.answer = "SAVED"],
                 NEW docs, docs = {Doc("PROPOSAL", id)}
               PROVE  AtomicStep(r)
    OBVIOUS
  <2>2. SaveProposal(id, record) /\ txn' = Invalidate([txn EXCEPT ![r] = u], docs)
    BY <2>1, <2>a
  <2>3. u.at = "DONE" /\ u.op = "SAVE" /\ u.proposal = id /\ u.record = record
    BY <2>a DEF Asked
  <2>4. u.at # "WRITING"
    BY <2>3
  <2>5. txn' = [s \in Requests |-> IF s = r THEN u ELSE Invalidated(txn[s], docs)]
    BY <2>2, <2>4, InvalidateMeans
  <2>6. txn'[r] = u
    BY <2>5
  <2> QED
    BY <1>3, <2>2, <2>3, <2>6 DEF AtomicStep, Save
<1>4. ASSUME NEW s \in Starters, ListIndexes(s) \/ DropIndex(s) \/ CreateIndex(s)
      PROVE  UNCHANGED storeVars
  BY <1>4 DEF ListIndexes, DropIndex, CreateIndex
<1>5. CASE LoadProduction \/ LoadEntities
  BY <1>5 DEF LoadProduction, LoadEntities
<1> QED
  BY <1>1, <1>2, <1>3, <1>4, <1>5 DEF MongoNext

LEMMA MongoInvSuffices == MongoInv => AnswersAreTrue /\ LoadsAreAsAssumed
<1> SUFFICES ASSUME MongoInv PROVE AnswersAreTrue /\ LoadsAreAsAssumed
  OBVIOUS
<1>1. AnswersAreTrue
  BY DEF MongoInv, TxnInv, SaysSo, AnswersAreTrue
<1>2. LoadsAreAsAssumed
  <2> SUFFICES ASSUME load.at = "DONE"
               PROVE  /\ load.loaded \in load.since..version
                      /\ FirstVersion + load.entities >= load.loaded
    BY DEF LoadsAreAsAssumed
  <2> QED
    BY DEF MongoInv, LoadInv, RecordsTypeOK
<1> QED
  BY <1>1, <1>2

-----------------------------------------------------------------------------
(* The runs: the inductive invariant.                                      *)

Rows == [saved : BOOLEAN, rev : Nat, run : SUBSET Updaters]

RunCalls == [at : {"IDLE", "READ", "LOST", "DONE"}, read : Rows, attempt : Nat,
          result : {"NONE", "NULL", "LANDED", "CONTENTION", "FAILED"}]

RunTypeOK ==
    /\ row \in Rows
    /\ IsFiniteSet(row.run)
    /\ updates \in [Updaters -> RunCalls]

RevisionCounts ==
    /\ row.rev = IF row.saved THEN Cardinality(row.run) + 1 ELSE 0
    /\ ~row.saved => row.run = {}

LandedIsSeen(u) ==
    /\ updates[u].result = "LANDED" => u \in row.run
    /\ u \in row.run => updates[u].result \in {"LANDED", "FAILED"} /\ updates[u].at = "DONE"

ReadIsPast(u) ==
    updates[u].at \in {"READ", "LOST"} =>
       /\ row.saved
       /\ updates[u].read.run \subseteq row.run
       /\ updates[u].read.saved
       /\ updates[u].read.rev = Cardinality(updates[u].read.run) + 1
       /\ updates[u].attempt <= Cardinality(updates[u].read.run) + 1

AttemptsMetUpdates(u) ==
    /\ updates[u].at = "IDLE" => updates[u].attempt <= Cardinality(row.run) + 1
    /\ updates[u].result = "CONTENTION" => Cardinality(row.run) >= UpdateAttempts
    /\ updates[u].at \in {"IDLE", "READ"} => updates[u].result = "NONE"
    /\ updates[u].at = "LOST" => updates[u].result = "FAILED"

CallInv(u) == LandedIsSeen(u) /\ ReadIsPast(u) /\ AttemptsMetUpdates(u)

RunInv ==
    /\ RunTypeOK
    /\ RevisionCounts
    /\ \A u \in Updaters : CallInv(u)

LEMMA RunInitInv == RunInit => RunInv
<1> SUFFICES ASSUME RunInit PROVE RunInv
  OBVIOUS
<1>1. row.run = {} /\ IsFiniteSet(row.run) /\ Cardinality(row.run) = 0
  BY FS_EmptySet DEF RunInit
<1> QED
  BY <1>1, UpdateAttemptsIsPositive
  DEF RunInit, RunInv, RunTypeOK, Rows, RunCalls, RevisionCounts, CallInv, LandedIsSeen, ReadIsPast,
      AttemptsMetUpdates

\* A set of updates within the row's, at the row's revision, is the row's.
LEMMA PastIsSmaller ==
    ASSUME RunTypeOK, RevisionCounts, NEW u \in Updaters, ReadIsPast(u),
           updates[u].at \in {"READ", "LOST"}
    PROVE  LET read == updates[u].read
           IN  /\ IsFiniteSet(read.run)
               /\ Cardinality(read.run) \in Nat /\ Cardinality(row.run) \in Nat
               /\ read.rev = row.rev => read.run = row.run
               /\ read.rev # row.rev => Cardinality(read.run) < Cardinality(row.run)
<1> DEFINE read == updates[u].read
<1>1. read.run \subseteq row.run /\ IsFiniteSet(row.run)
  BY DEF RunTypeOK, ReadIsPast
<1>2. /\ IsFiniteSet(read.run) /\ Cardinality(read.run) <= Cardinality(row.run)
      /\ Cardinality(read.run) = Cardinality(row.run) => read.run = row.run
  BY <1>1, FS_Subset
<1>3. Cardinality(read.run) \in Nat /\ Cardinality(row.run) \in Nat
  BY <1>1, <1>2, FS_CardinalityType
<1>4. read.rev = Cardinality(read.run) + 1 /\ row.rev = Cardinality(row.run) + 1
  BY DEF ReadIsPast, RevisionCounts
<1> QED
  BY <1>2, <1>3, <1>4

\* What one call's step must show: its own record, and that the row did not
\* shrink under the others.
LEMMA CallStep ==
    ASSUME RunInv, NEW u \in Updaters, NEW call \in RunCalls,
           updates' = [updates EXCEPT ![u] = call],
           row' \in Rows, IsFiniteSet(row'.run), row.saved => row'.saved,
           row.run \subseteq row'.run, row'.run \subseteq row.run \cup {u},
           RevisionCounts', CallInv(u)'
    PROVE  RunInv'
<1>1. Cardinality(row.run) \in Nat /\ Cardinality(row'.run) \in Nat
      /\ Cardinality(row.run) <= Cardinality(row'.run)
  BY FS_Subset, FS_CardinalityType DEF RunInv, RunTypeOK
<1>2. RunTypeOK'
  BY DEF RunInv, RunTypeOK
<1>3. ASSUME NEW v \in Updaters, v # u PROVE CallInv(v)'
  <2>1. updates'[v] = updates[v] /\ updates[v] \in RunCalls /\ CallInv(v)
    BY <1>3 DEF RunInv, RunTypeOK
  <2>2. (LandedIsSeen(v) /\ ReadIsPast(v))'
    BY <1>3, <2>1 DEF CallInv, LandedIsSeen, ReadIsPast
  <2>3. AttemptsMetUpdates(v)'
    BY <1>1, <2>1, UpdateAttemptsIsPositive DEF CallInv, AttemptsMetUpdates, RunCalls
  <2> QED
    BY <2>2, <2>3 DEF CallInv
<1> QED
  BY <1>2, <1>3 DEF RunInv

\* A replace that matches adds its update to the row as it is, whether its
\* caller is told or has gone.
LEMMA LandingStep ==
    ASSUME RunInv, NEW u \in Updaters, updates[u].at \in {"READ", "LOST"},
           Land(u, updates[u].read),
           NEW call \in RunCalls, updates' = [updates EXCEPT ![u] = call],
           updates'[u].at = "DONE", updates'[u].result \in {"LANDED", "FAILED"}
    PROVE  RunInv'
<1>0. /\ row \in Rows /\ IsFiniteSet(row.run) /\ Cardinality(row.run) \in Nat
      /\ RevisionCounts /\ updates \in [Updaters -> RunCalls]
      /\ LandedIsSeen(u) /\ ReadIsPast(u) /\ AttemptsMetUpdates(u)
  BY FS_CardinalityType DEF RunInv, RunTypeOK, CallInv
<1>1. updates[u].read.run = row.run /\ updates[u].read.rev = row.rev
  BY <1>0, PastIsSmaller DEF RunInv, Land, SameRevision
<1>2. row' = [row EXCEPT !.rev = row.rev + 1, !.run = row.run \cup {u}]
  BY <1>1 DEF Land
<1>3. /\ row' \in Rows /\ row'.saved /\ row.saved
      /\ row'.rev = row.rev + 1 /\ row'.run = row.run \cup {u}
  <2>1. row.run \cup {u} \in SUBSET Updaters /\ row.rev + 1 \in Nat
    BY <1>0 DEF Rows
  <2>2. row.saved
    BY <1>0 DEF ReadIsPast
  <2> QED
    BY <1>0, <1>2, <2>1, <2>2 DEF Rows
<1>4. u \notin row.run
  BY <1>0 DEF LandedIsSeen
<1>5. IsFiniteSet(row'.run) /\ Cardinality(row'.run) = Cardinality(row.run) + 1
  <2>1. /\ IsFiniteSet(row.run \cup {u})
        /\ Cardinality(row.run \cup {u}) = Cardinality(row.run) + 1
    BY <1>0, <1>4, FS_AddElement
  <2> QED
    BY <1>3, <2>1
<1>6. RevisionCounts' /\ CallInv(u)'
  BY <1>0, <1>3, <1>5
  DEF RevisionCounts, CallInv, LandedIsSeen, ReadIsPast, AttemptsMetUpdates
<1> QED
  BY <1>3, <1>5, <1>6, CallStep

LEMMA RunStepInv == RunInv /\ [RunNext]_runVars => RunInv'
<1> SUFFICES ASSUME RunInv, [RunNext]_runVars PROVE RunInv'
  OBVIOUS
<1>0. /\ row \in Rows /\ IsFiniteSet(row.run) /\ Cardinality(row.run) \in Nat
      /\ RevisionCounts /\ updates \in [Updaters -> RunCalls]
  BY FS_CardinalityType DEF RunInv, RunTypeOK
<1>1. CASE SaveRun
  <2>1. /\ row' = [row EXCEPT !.saved = TRUE, !.rev = 1] /\ ~row.saved /\ row.run = {}
        /\ UNCHANGED updates
    BY <1>0, <1>1 DEF SaveRun, RevisionCounts
  <2>2. row' \in Rows /\ row'.saved /\ row'.rev = 1 /\ row'.run = row.run
    BY <1>0, <2>1 DEF Rows
  <2>3. RunTypeOK'
    BY <1>0, <2>1, <2>2 DEF RunTypeOK
  <2>4. RevisionCounts'
    BY <2>1, <2>2, FS_EmptySet DEF RevisionCounts
  <2>5. ASSUME NEW v \in Updaters PROVE CallInv(v)'
    BY <2>1, <2>2 DEF RunInv, CallInv, LandedIsSeen, ReadIsPast, AttemptsMetUpdates
  <2> QED
    BY <2>3, <2>4, <2>5 DEF RunInv
<1>2. ASSUME NEW u \in Updaters, ReadRun(u) PROVE RunInv'
  <2>0. UNCHANGED row /\ updates[u].at = "IDLE" /\ updates[u] \in RunCalls /\ CallInv(u)
    BY <1>0, <1>2 DEF ReadRun, RunInv
  <2>1. CASE row.saved
    <3> DEFINE call == [updates[u] EXCEPT !.at = "READ", !.read = row]
    <3>1. call \in RunCalls /\ updates' = [updates EXCEPT ![u] = call]
      BY <1>0, <1>2, <2>0, <2>1 DEF ReadRun, RunCalls
    <3>2. /\ updates'[u].at = "READ" /\ updates'[u].read = row
          /\ updates'[u].attempt = updates[u].attempt /\ updates'[u].result = updates[u].result
      BY <1>0, <2>0, <3>1 DEF RunCalls
    <3>3. RevisionCounts' /\ CallInv(u)'
      BY <1>0, <2>0, <2>1, <3>2
      DEF RevisionCounts, CallInv, LandedIsSeen, ReadIsPast, AttemptsMetUpdates
    <3> QED
      BY <1>0, <2>0, <3>1, <3>3, CallStep
  <2>2. CASE ~row.saved
    <3> DEFINE call == [updates[u] EXCEPT !.at = "DONE", !.result = "NULL"]
    <3>1. call \in RunCalls /\ updates' = [updates EXCEPT ![u] = call]
      BY <1>0, <1>2, <2>0, <2>2 DEF ReadRun, RunCalls
    <3>2. updates'[u].at = "DONE" /\ updates'[u].result = "NULL"
      BY <1>0, <2>0, <3>1 DEF RunCalls
    <3>3. RevisionCounts' /\ CallInv(u)'
      BY <1>0, <2>0, <2>2, <3>2
      DEF RevisionCounts, CallInv, LandedIsSeen, ReadIsPast, AttemptsMetUpdates
    <3> QED
      BY <1>0, <2>0, <3>1, <3>3, CallStep
  <2> QED
    BY <2>1, <2>2
<1>3. ASSUME NEW u \in Updaters, ReplaceRun(u) PROVE RunInv'
  <2>0. /\ updates[u].at = "READ" /\ updates[u] \in RunCalls
        /\ LandedIsSeen(u) /\ ReadIsPast(u) /\ AttemptsMetUpdates(u)
    BY <1>0, <1>3 DEF ReplaceRun, RunInv, CallInv
  <2>1. /\ Cardinality(updates[u].read.run) \in Nat
        /\ updates[u].read.rev = row.rev => updates[u].read.run = row.run
        /\ updates[u].read.rev # row.rev =>
             Cardinality(updates[u].read.run) < Cardinality(row.run)
    BY <2>0, PastIsSmaller DEF RunInv
  <2>2. CASE Land(u, updates[u].read)
             /\ updates' = [updates EXCEPT ![u].at = "DONE", ![u].result = "LANDED"]
    <3> DEFINE call == [updates[u] EXCEPT !.at = "DONE", !.result = "LANDED"]
    <3>1. call \in RunCalls /\ updates' = [updates EXCEPT ![u] = call]
      BY <1>0, <2>0, <2>2 DEF RunCalls
    <3>2. updates'[u].at = "DONE" /\ updates'[u].result = "LANDED"
      BY <1>0, <2>0, <3>1 DEF RunCalls
    <3> QED
      BY <2>0, <2>2, <3>1, <3>2, LandingStep
  <2>3. ASSUME ~SameRevision(updates[u].read), UNCHANGED row,
               NEW call \in RunCalls, updates' = [updates EXCEPT ![u] = call],
               \/ /\ call.at = "IDLE" /\ call.attempt = updates[u].attempt + 1 /\ call.result = "NONE"
               \/ /\ call.at = "DONE" /\ call.result = "CONTENTION"
                  /\ updates[u].attempt >= UpdateAttempts
        PROVE  RunInv'
    <3>1. updates[u].attempt <= Cardinality(row.run) /\ updates[u].attempt \in Nat
      BY <1>0, <2>0, <2>1, <2>3 DEF ReadIsPast, SameRevision, RunCalls
    <3>2. updates'[u] = call
      BY <1>0, <2>3
    <3>3. u \notin row.run
      BY <2>0 DEF LandedIsSeen
    <3>4. RevisionCounts' /\ CallInv(u)'
      BY <1>0, <2>3, <3>1, <3>2, <3>3, UpdateAttemptsIsPositive
      DEF RevisionCounts, CallInv, LandedIsSeen, ReadIsPast, AttemptsMetUpdates
    <3> QED
      BY <1>0, <2>3, <3>4, CallStep
  <2>4. CASE /\ ~SameRevision(updates[u].read) /\ UNCHANGED row
             /\ updates' = [updates EXCEPT ![u].at = "IDLE", ![u].attempt = @ + 1]
    <3> DEFINE call == [updates[u] EXCEPT !.at = "IDLE", !.attempt = updates[u].attempt + 1]
    <3>1. call \in RunCalls /\ updates' = [updates EXCEPT ![u] = call]
      BY <1>0, <2>0, <2>4 DEF RunCalls
    <3>2. call.at = "IDLE" /\ call.attempt = updates[u].attempt + 1 /\ call.result = "NONE"
      BY <2>0 DEF RunCalls, AttemptsMetUpdates
    <3> HIDE DEF call
    <3> QED
      BY <2>3, <2>4, <3>1, <3>2
  <2>5. CASE /\ ~SameRevision(updates[u].read) /\ UNCHANGED row
             /\ updates[u].attempt >= UpdateAttempts
             /\ updates' = [updates EXCEPT ![u].at = "DONE", ![u].result = "CONTENTION"]
    <3> DEFINE call == [updates[u] EXCEPT !.at = "DONE", !.result = "CONTENTION"]
    <3>1. call \in RunCalls /\ updates' = [updates EXCEPT ![u] = call]
      BY <1>0, <2>0, <2>5 DEF RunCalls
    <3>2. call.at = "DONE" /\ call.result = "CONTENTION"
      BY <2>0 DEF RunCalls
    <3> HIDE DEF call
    <3> QED
      BY <2>3, <2>5, <3>1, <3>2
  <2>6. CASE UNCHANGED row /\ updates' = [updates EXCEPT ![u].at = "LOST", ![u].result = "FAILED"]
    <3> DEFINE call == [updates[u] EXCEPT !.at = "LOST", !.result = "FAILED"]
    <3>1. call \in RunCalls /\ updates' = [updates EXCEPT ![u] = call]
      BY <1>0, <2>0, <2>6 DEF RunCalls
    <3>2. /\ updates'[u].at = "LOST" /\ updates'[u].result = "FAILED"
          /\ updates'[u].read = updates[u].read /\ updates'[u].attempt = updates[u].attempt
      BY <1>0, <2>0, <3>1 DEF RunCalls
    <3>3. RevisionCounts' /\ CallInv(u)'
      BY <1>0, <2>0, <2>6, <3>2
      DEF RevisionCounts, CallInv, LandedIsSeen, ReadIsPast, AttemptsMetUpdates
    <3> QED
      BY <1>0, <2>6, <3>1, <3>3, CallStep
  <2> QED
    BY <1>3, <2>2, <2>4, <2>5, <2>6 DEF ReplaceRun
<1>5. ASSUME NEW u \in Updaters, UpdateThrows(u) PROVE RunInv'
  <2>0. /\ UNCHANGED row /\ updates[u].at \in {"IDLE", "READ"} /\ updates[u] \in RunCalls /\ CallInv(u)
    BY <1>0, <1>5 DEF UpdateThrows, RunInv
  <2> DEFINE call == [updates[u] EXCEPT !.at = "DONE", !.result = "FAILED"]
  <2>1. call \in RunCalls /\ updates' = [updates EXCEPT ![u] = call]
    BY <1>0, <1>5, <2>0 DEF UpdateThrows, RunCalls
  <2>2. updates'[u].at = "DONE" /\ updates'[u].result = "FAILED"
    BY <1>0, <2>0, <2>1 DEF RunCalls
  <2>3. RevisionCounts' /\ CallInv(u)'
    BY <1>0, <2>0, <2>2
    DEF RevisionCounts, CallInv, LandedIsSeen, ReadIsPast, AttemptsMetUpdates
  <2> QED
    BY <1>0, <2>0, <2>1, <2>3, CallStep
<1>6. ASSUME NEW u \in Updaters, ReplaceLate(u) PROVE RunInv'
  <2>0. /\ updates[u].at = "LOST" /\ updates[u] \in RunCalls /\ CallInv(u)
    BY <1>0, <1>6 DEF ReplaceLate, RunInv
  <2> DEFINE call == [updates[u] EXCEPT !.at = "DONE"]
  <2>1. call \in RunCalls /\ updates' = [updates EXCEPT ![u] = call]
    BY <1>0, <1>6, <2>0 DEF ReplaceLate, RunCalls
  <2>2. updates'[u].at = "DONE" /\ updates'[u].result = "FAILED"
    BY <1>0, <2>0, <2>1 DEF RunCalls, CallInv, AttemptsMetUpdates
  <2> QED
    BY <1>6, <2>0, <2>1, <2>2, LandingStep DEF ReplaceLate
<1>4. CASE UNCHANGED runVars
  BY <1>4
  DEF runVars, RunInv, RunTypeOK, RevisionCounts, CallInv, LandedIsSeen, ReadIsPast,
      AttemptsMetUpdates
<1> QED
  BY <1>1, <1>2, <1>3, <1>4, <1>5, <1>6 DEF RunNext

LEMMA RunInvSuffices == RunInv => JobRunUpdatesLand
<1> SUFFICES ASSUME RunInv PROVE JobRunUpdatesLand
  OBVIOUS
<1>1. row.run \subseteq Updaters
  BY DEF RunInv, RunTypeOK, Rows
<1> QED
  BY <1>1 DEF RunInv, CallInv, LandedIsSeen, AttemptsMetUpdates, JobRunUpdatesLand

-----------------------------------------------------------------------------
(* The store.                                                              *)

\* The inductive invariant of both parts.
THEOREM StoreInvariant == Spec => [](MongoInv /\ RunInv)
<1>1. Init => MongoInv /\ RunInv
  BY MongoInitInv, RunInitInv DEF Init
<1>2. MongoInv /\ RunInv /\ [Next]_vars => (MongoInv /\ RunInv)'
  <2> SUFFICES ASSUME MongoInv, RunInv, [Next]_vars PROVE MongoInv' /\ RunInv'
    OBVIOUS
  <2>1. [MongoNext]_<<storeVars, mongoVars>> /\ [RunNext]_runVars
    BY DEF Next, vars, runVars
  <2> QED
    BY <2>1, MongoStepInv, RunStepInv
<1> QED
  BY <1>1, <1>2, PTL DEF Spec

\* Whatever is raced, retried, killed or answered late, the database changes
\* only by the operations of the port, each one whole (index.ts, the two
\* transactions and save).
THEOREM StoreChangesAtomically == Spec => StoreIsAtomic
<1>1. MongoInv /\ [Next]_vars => [\E r \in Requests : AtomicStep(r)]_storeVars
  <2> SUFFICES ASSUME MongoInv, [Next]_vars
               PROVE  [\E r \in Requests : AtomicStep(r)]_storeVars
    OBVIOUS
  <2>1. [MongoNext]_<<storeVars, mongoVars>>
    BY DEF Next, vars
  <2> QED
    BY <2>1, MongoStepIsAtomic
<1> QED
  BY <1>1, StoreInvariant, PTL DEF Spec, StoreIsAtomic

\* What a call answers is so, a load is no worse than the approval path
\* assumes, and no update of a run is lost (index.ts, job-runs.ts).
THEOREM StoreIsHonest == Spec => []StoreKeepsItsWord
<1>1. MongoInv /\ RunInv => StoreKeepsItsWord
  BY MongoInvSuffices, RunInvSuffices DEF StoreKeepsItsWord
<1> QED
  BY <1>1, StoreInvariant, PTL

=============================================================================
