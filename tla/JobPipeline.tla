----------------------------- MODULE JobPipeline -----------------------------
(***************************************************************************)
(* The job pipeline: HTTP routes start and continue job runs and enqueue   *)
(* jobs (apps/api/src/app.ts), the queue delivers them to the handlers     *)
(* that drive the stage machine (packages/application/src/jobs), and the   *)
(* binder announces on the run what the queue decided.  Runs are durable   *)
(* (Mongo); the queue dies with the process, and interrupted runs are      *)
(* reconciled at the next start.                                           *)
(*                                                                         *)
(* A handler is one action per call that reads or writes what others       *)
(* write.  A read followed by a monotone move is one action, since the     *)
(* move checks the stage again when it is written, and a use case that     *)
(* only reads and computes is the choice of where the step before it       *)
(* leads.  The queue runs one handler at a time; routes and the binder     *)
(* interleave with it.                                                     *)
(*                                                                         *)
(* Abstractions.  A use case is one step (ApprovalBoundary has the detail) *)
(* and a proposal is its fate, which no stale status write can change.     *)
(* Change requests are counted.  A run has a change request once it has    *)
(* reached analyzing, where the handler attaches it.  A history is its     *)
(* length, kept while a job's identity can depend on it.  An apply job     *)
(* always names its run's own proposal and finds it at awaiting_approval   *)
(* or beyond, since the route checked both and neither changes back: the   *)
(* handler's answers to other jobs are left out, and so is                 *)
(* VERIFY_PROPOSAL, which nothing enqueues.  A shutdown is a Restart.      *)
(***************************************************************************)
EXTENDS MemoryQueue

CONSTANTS
    Runs,           \* identities of job runs
    Keys,           \* idempotency keys of apply requests
    MaxProposals,   \* bounds of the model: proposals stored, restarts
    MaxRestarts

ASSUME MaxProposalsIsNatural == MaxProposals \in Nat
ASSUME MaxRestartsIsNatural == MaxRestarts \in Nat

VARIABLES
    runs,           \* the job runs, None when never started
    submitted,      \* how many change requests were stored for each run, 2 for more
    proposals,      \* the proposals in the order they were created
    spent,          \* the proposal each idempotency key was spent on, 0 for none
    handler,        \* where the running handler is, None when none runs
    binder,         \* the binder's unfinished reactions
    calls,          \* requests between their first step and their last
    restarts

appVars == <<runs, submitted, proposals, spent, handler, binder, calls, restarts>>
vars == <<queueVars, appVars>>

-----------------------------------------------------------------------------
(* The stage machine.                                                      *)

StageOrder ==
    <<"received", "resolving", "analyzing", "simulating", "validating", "awaiting_approval",
      "applying", "verifying", "completed">>
Stages == Range(StageOrder) \cup {"failed"}
TerminalStages == {"completed", "failed"}
WaitingOnHuman == {"resolving", "awaiting_approval"}

JobStageTransitions ==
    [received |-> {"resolving", "analyzing", "failed"},
     resolving |-> {"analyzing", "failed"},
     analyzing |-> {"simulating", "completed", "failed"},
     simulating |-> {"validating", "failed"},
     validating |-> {"awaiting_approval", "failed"},
     awaiting_approval |-> {"applying", "completed", "failed"},
     applying |-> {"verifying", "failed"},
     verifying |-> {"completed", "failed"},
     completed |-> {},
     failed |-> {}]

CanAdvance(from, to) == to \in JobStageTransitions[from]

Position(stage) == CHOOSE i \in DOMAIN StageOrder : StageOrder[i] = stage

IsAtOrBeyond(stage, target) == stage = "failed" \/ Position(stage) >= Position(target)

RunRecords == [stage : Stages, proposal : Nat, asked : BOOLEAN, length : Nat]
StartedRun == [stage |-> "received", proposal |-> 0, asked |-> FALSE, length |-> 1]

\* A move appends two events to the history, a failure or a note one.  The
\* length matters to the identity of a resumed job, at resolving.
Moved(run, to) ==
    [run EXCEPT !.stage = to, !.length = IF to = "resolving" THEN @ + 2 ELSE 0]
Noted(run, asked) ==
    [run EXCEPT !.asked = @ \/ asked, !.length = IF @ = 0 THEN 0 ELSE @ + 1]

IsTerminal(r) == runs[r].stage \in TerminalStages
HasChangeRequest(r) == runs[r].stage \notin {"received", "resolving"}

-----------------------------------------------------------------------------
(* Jobs.                                                                   *)

AnalyzePayload(r, resolved) ==
    [kind |-> "analyze", run |-> r, resolved |-> resolved, proposal |-> 0, key |-> None]
ApplyPayload(r, p, k) ==
    [kind |-> "apply", run |-> r, resolved |-> FALSE, proposal |-> p, key |-> k]

AnalyzeIdentity(r, length) == <<"analyze", r, length>>
ApplyIdentity(k) == <<"apply", k, 0>>

EnqueueCall(identity, job) == [kind |-> "enqueue", identity |-> identity, payload |-> job]
CloseCall(r, p) == [kind |-> "close", run |-> r, proposal |-> p]

Fates == {"open", "approved", "rejected", "applied", "failed"}
ProposalRecords == [run : Runs, fate : Fates]
Points ==
    {"read", "resolve", "submit", "analyzing", "simulating", "validating", "propose", "await",
     "ask", "close", "claim", "reread", "apply", "verifying", "verify", "refuse", "done", "failed"}

ASSUME NoneIsNoRun == None \notin RunRecords
ASSUME NoneIsNoPoint == None \notin Points

PipelineTypeOK ==
    /\ QueueTypeOK
    /\ runs \in [Runs -> RunRecords \cup {None}]
    /\ submitted \in [Runs -> 0..2]
    /\ proposals \in Seq(ProposalRecords)
    /\ spent \in [Keys -> 0..Len(proposals)]
    /\ handler \in Points \cup {None}
    /\ (handler = None) = (current = None)
    /\ \A b \in binder : b.run \in Runs /\ b.to \in {"note", "fail"}
    /\ \A c \in calls : c.kind \in {"enqueue", "close"}
    /\ restarts \in 0..MaxRestarts

Init ==
    /\ QueueInit
    /\ runs = [r \in Runs |-> None]
    /\ submitted = [r \in Runs |-> 0]
    /\ proposals = <<>>
    /\ spent = [k \in Keys |-> 0]
    /\ handler = None
    /\ binder = {}
    /\ calls = {}
    /\ restarts = 0

-----------------------------------------------------------------------------
(* Routes.  They are served once the queue was started.                    *)

Room == enqueued + Cardinality({c \in calls : c.kind = "enqueue"}) < MaxJobs

\* POST /changes: a new run, or the resumption of one that is resolving.
SubmitChange(r, resolved) ==
    /\ started /\ Room
    /\ runs[r] = None
    /\ runs' = [runs EXCEPT ![r] = StartedRun]
    /\ calls' = calls \cup {EnqueueCall(AnalyzeIdentity(r, 1), AnalyzePayload(r, resolved))}
    /\ UNCHANGED <<queueVars, submitted, proposals, spent, handler, binder, restarts>>

ResumeChange(r, resolved) ==
    /\ started /\ Room
    /\ runs[r] # None /\ runs[r].stage = "resolving"
    /\ calls' = calls \cup {EnqueueCall(AnalyzeIdentity(r, runs[r].length),
                                        AnalyzePayload(r, resolved))}
    /\ UNCHANGED <<queueVars, runs, submitted, proposals, spent, handler, binder, restarts>>

\* POST /proposals/:id/decision; a rejection that names the run closes it.  On
\* a run that no longer awaits the decision there is nothing to close.
Decide(p, decision, named) ==
    /\ started
    /\ proposals[p].fate \in {"open", decision}
    /\ proposals' = [proposals EXCEPT ![p].fate = decision]
    /\ \/ ~named /\ UNCHANGED calls
       \/ /\ named /\ decision = "rejected"
          /\ runs[proposals[p].run].proposal = p
          /\ runs[proposals[p].run].stage = "awaiting_approval"
          /\ calls' = calls \cup {CloseCall(proposals[p].run, p)}
    /\ UNCHANGED <<queueVars, runs, submitted, spent, handler, binder, restarts>>

\* POST /proposals/:id/apply with a run; the approval is the handler's concern.
RequestApply(r, k) ==
    /\ started /\ Room
    /\ runs[r] # None /\ runs[r].stage = "awaiting_approval"
    /\ calls' = calls \cup {EnqueueCall(ApplyIdentity(k), ApplyPayload(r, runs[r].proposal, k))}
    /\ UNCHANGED <<queueVars, runs, submitted, proposals, spent, handler, binder, restarts>>

ApplySucceeds(p, k) ==
    \/ spent[k] = p /\ UNCHANGED <<proposals, spent>>
    \/ /\ spent[k] = 0 /\ proposals[p].fate = "approved"
       /\ proposals' = [proposals EXCEPT ![p].fate = "applied"]
       /\ spent' = [spent EXCEPT ![k] = p]

ApplyRefuses(p, k) ==
    /\ spent[k] # p
    /\ UNCHANGED spent
    /\ \/ UNCHANGED proposals
       \/ /\ proposals[p].fate = "approved"
          /\ proposals' = [proposals EXCEPT ![p].fate = "failed"]

\* POST /proposals/:id/apply without a run.
DirectApply(p, k) ==
    /\ started
    /\ ApplySucceeds(p, k) \/ ApplyRefuses(p, k)
    /\ UNCHANGED <<queueVars, runs, submitted, handler, binder, calls, restarts>>

\* The second half of a route: enqueue, or close the run if it still awaits.
FinishEnqueue(c) ==
    /\ c.kind = "enqueue"
    /\ calls' = calls \ {c}
    /\ IF jobIdByKey[c.identity] = None THEN Enqueue(c.identity, c.payload) ELSE UNCHANGED queueVars
    /\ UNCHANGED <<runs, submitted, proposals, spent, handler, binder, restarts>>

FinishClose(c) ==
    /\ c.kind = "close"
    /\ calls' = calls \ {c}
    /\ runs' = IF runs[c.run].stage = "awaiting_approval" /\ runs[c.run].proposal = c.proposal
               THEN [runs EXCEPT ![c.run] = Moved(@, "completed")] ELSE runs
    /\ UNCHANGED <<queueVars, submitted, proposals, spent, handler, binder, restarts>>

FinishCall == \E c \in calls : FinishEnqueue(c) \/ FinishClose(c)

-----------------------------------------------------------------------------
(* The handlers: what every step does with the queue and the run.          *)

Job == jobs[current].payload
Run == Job.run

\* Mutant: the binder listens to retries only.
NotesOnly(outcome) == outcome = "RETRY" /\ jobs'[current].state = "QUEUED"

\* The binder hears of a retry or a failure, if the job's record outlived it;
\* on a run that ended it has nothing to do.
IsAnnounced(outcome) == outcome # "COMPLETED" /\ jobs'[current] # None /\ ~IsTerminal(Run)

Return(outcome) ==
    /\ Settle(outcome)
    /\ handler' = None
    /\ binder' =
         IF IsAnnounced(outcome)
         THEN binder \cup {[job |-> current, attempt |-> jobs[current].attempt, run |-> Run,
                            to |-> IF jobs'[current].state = "QUEUED" THEN "note" ELSE "fail"]}
         ELSE binder
    /\ UNCHANGED <<submitted, proposals, spent, calls, restarts>>

Goto(point) ==
    /\ handler' = point
    /\ UNCHANGED <<queueVars, binder, calls, restarts>>

Unstored == UNCHANGED <<submitted, proposals, spent>>

\* tracker.advance and tracker.fail throw when the graph has no such edge.
Advance(run, to, next) ==
    IF CanAdvance(runs[Run].stage, to)
    THEN runs' = [runs EXCEPT ![Run] = Moved(run, to)] /\ Goto(next) /\ Unstored
    ELSE UNCHANGED runs /\ Return("RETRY")

DeliverJob ==
    /\ Deliver
    /\ handler' = IF current' = None THEN None ELSE "read"
    /\ UNCHANGED <<runs, submitted, proposals, spent, binder, calls, restarts>>

\* A repository or model call threw.  At the point after a write this is also
\* a write that landed and was reported as failed.
Throw ==
    /\ handler # None
    /\ Return("RETRY")
    /\ UNCHANGED runs

HandlerReturns ==
    /\ \/ handler = "done" /\ Return("COMPLETED")
       \/ handler = "failed" /\ Return("FAILED")
    /\ UNCHANGED runs

-----------------------------------------------------------------------------
(* ANALYZE_CHANGE.                                                         *)

\* What interpretation leads to: an error, a question, or a change.
Interpreted == {"refuse", "ask", "submit"}

\* What a retry, a resolved change and a fresh sentence start with.
FirstSteps(r, resolved) ==
    IF HasChangeRequest(r) THEN {"analyzing"} ELSE IF resolved THEN {"submit"}
    ELSE IF runs[r].stage = "received" THEN {"resolve"} ELSE Interpreted

ReadForAnalyze ==
    /\ handler = "read" /\ Job.kind = "analyze"
    /\ IF IsTerminal(Run)
       THEN Return("COMPLETED")
       ELSE (\E point \in FirstSteps(Run, Job.resolved) : Goto(point)) /\ Unstored
    /\ UNCHANGED runs

Resolve ==
    /\ handler = "resolve"
    /\ \E point \in Interpreted : Advance(runs[Run], "resolving", point)

\* tracker.note on a terminal run throws.
Ask ==
    /\ handler = "ask"
    /\ IF IsTerminal(Run)
       THEN UNCHANGED runs /\ Return("RETRY")
       ELSE runs' = [runs EXCEPT ![Run] = Noted(@, TRUE)] /\ Goto("done") /\ Unstored

Submit ==
    /\ handler = "submit"
    /\ \/ Goto("refuse") /\ UNCHANGED submitted
       \/ Goto("analyzing") /\ submitted' = [submitted EXCEPT ![Run] = IF @ = 0 THEN 1 ELSE 2]
    /\ UNCHANGED <<runs, proposals, spent>>

ProgressTo(stage, next) ==
    /\ handler = stage
    /\ IF IsAtOrBeyond(runs[Run].stage, stage)
       THEN Goto(next) /\ Unstored /\ UNCHANGED runs
       ELSE Advance(runs[Run], stage, next)

\* Analysis and simulation may refuse the change; "close": there is nothing to
\* do, or no day can take the scenes.
Progress ==
    \/ \E next \in {"refuse", "close", "simulating"} : ProgressTo("analyzing", next)
    \/ \E next \in {"refuse", "validating"} : ProgressTo("simulating", next)
    \/ ProgressTo("validating", "propose")

\* An invalid proposal is stored too, but no run ever names it.
Propose ==
    /\ handler = "propose"
    /\ \/ Goto("refuse") /\ UNCHANGED proposals
       \/ /\ Len(proposals) < MaxProposals
          /\ Goto("await") /\ proposals' = Append(proposals, [run |-> Run, fate |-> "open"])
    /\ UNCHANGED <<runs, submitted, spent>>

\* The proposal is the one this handler just created, and only it creates any.
Await ==
    /\ handler = "await"
    /\ Advance([runs[Run] EXCEPT !.proposal = Len(proposals)], "awaiting_approval", "done")

Close == handler = "close" /\ Advance(runs[Run], "completed", "done")
Refuse == handler = "refuse" /\ Advance(runs[Run], "failed", "failed")

-----------------------------------------------------------------------------
(* APPLY_PROPOSAL.                                                         *)

\* Mutant: a redelivered job takes the apply for done.
ReadAppliedForApply ==
    /\ handler = "read" /\ Job.kind = "apply"
    /\ IF IsTerminal(Run)
       THEN Return("COMPLETED")
       ELSE /\ Goto(IF runs[Run].stage = "awaiting_approval" THEN "claim" ELSE "verifying")
            /\ Unstored
    /\ UNCHANGED runs

ReadForApply ==
    /\ handler = "read" /\ Job.kind = "apply"
    /\ IF IsTerminal(Run)
       THEN Return("COMPLETED")
       ELSE /\ Goto(IF runs[Run].stage = "awaiting_approval" THEN "claim" ELSE "reread")
            /\ Unstored
    /\ UNCHANGED runs

Claim == handler = "claim" /\ Advance(runs[Run], "applying", "reread")

Reread ==
    /\ handler = "reread"
    /\ Goto(IF runs[Run].stage = "applying" THEN "apply" ELSE "verify")
    /\ Unstored /\ UNCHANGED runs

Apply ==
    /\ handler = "apply"
    /\ \/ ApplySucceeds(Job.proposal, Job.key) /\ Goto("verifying")
       \/ ApplyRefuses(Job.proposal, Job.key) /\ Goto("refuse")
    /\ UNCHANGED <<runs, submitted>>

EnterVerifying == handler = "verifying" /\ Advance(runs[Run], "verifying", "verify")

\* Only a proposal that was written verifies; the production may have changed
\* since, so it may also fail.
Verify ==
    /\ handler = "verify"
    /\ \/ Goto("refuse")
       \/ proposals[Job.proposal].fate = "applied" /\ Goto("close")
    /\ Unstored /\ UNCHANGED runs

HandlerStep ==
    \/ ReadForAnalyze \/ Resolve \/ Ask \/ Submit \/ Progress \/ Propose \/ Await \/ Close \/ Refuse
    \/ ReadForApply \/ Claim \/ Reread \/ Apply \/ EnterVerifying \/ Verify
    \/ HandlerReturns

-----------------------------------------------------------------------------
(* The binder, the process, the specification.                             *)

\* A run that ended before the reaction read it is left alone.  One that ended
\* between that read and the move makes the move throw, which nobody handles
\* and which ends the process: a Restart, possible at any time.
BinderReacts(b) ==
    /\ binder' = binder \ {b}
    /\ runs' = [runs EXCEPT ![b.run] =
                  IF IsTerminal(b.run) THEN @
                  ELSE IF b.to = "note" THEN Noted(@, FALSE) ELSE Moved(@, "failed")]
    /\ UNCHANGED <<queueVars, submitted, proposals, spent, handler, calls, restarts>>

BinderStep == \E b \in binder : BinderReacts(b)

\* Mutant: a run that was only received counts as waiting.
ReconciledLess(run) ==
    IF run = None \/ run.stage \in TerminalStages \cup WaitingOnHuman \cup {"received"} THEN run
    ELSE Moved(run, "failed")

Reconciled(run) ==
    IF run = None \/ run.stage \in TerminalStages \cup WaitingOnHuman THEN run
    ELSE Moved(run, "failed")

Restart ==
    /\ restarts < MaxRestarts
    /\ restarts' = restarts + 1
    /\ jobs' = [id \in Ids |-> None]
    /\ jobIdByKey' = [identity \in Identities |-> None]
    /\ deadLetters' = {}
    /\ ready' = <<>> /\ waiting' = <<>>
    /\ started' = FALSE /\ scheduled' = FALSE
    /\ loop' = "idle" /\ current' = None
    /\ handler' = None /\ binder' = {} /\ calls' = {}
    /\ runs' = [r \in Runs |-> Reconciled(runs[r])]
    /\ UNCHANGED <<enqueued, submitted, proposals, spent>>

QueueStep(action) == action /\ UNCHANGED appVars

Client ==
    \/ \E r \in Runs, resolved \in BOOLEAN : SubmitChange(r, resolved) \/ ResumeChange(r, resolved)
    \/ \E p \in DOMAIN proposals, decision \in {"approved", "rejected"}, named \in BOOLEAN :
         Decide(p, decision, named)
    \/ \E r \in Runs, k \in Keys : RequestApply(r, k)
    \/ \E p \in DOMAIN proposals, k \in Keys : DirectApply(p, k)

Next ==
    \/ Client \/ FinishCall
    \/ QueueStep(StartQueue) \/ QueueStep(LoopFires) \/ QueueStep(LoopEnds) \/ QueueStep(LoopCleared)
    \/ \E id \in Ids : QueueStep(RetryFires(id))
    \/ DeliverJob \/ HandlerStep \/ Throw
    \/ BinderStep
    \/ Restart

Spec == Init /\ [][Next]_vars

\* Callbacks run and handlers go on, as in the queue; a route that was called
\* and a reaction that began finish.  Clients, faults and restarts may not come.
Fairness ==
    /\ WF_vars(FinishCall) /\ WF_vars(HandlerStep) /\ WF_vars(BinderStep)
    /\ WF_vars(QueueStep(StartQueue)) /\ WF_vars(QueueStep(LoopFires))
    /\ WF_vars(QueueStep(LoopEnds)) /\ WF_vars(QueueStep(LoopCleared)) /\ WF_vars(DeliverJob)
    /\ \A id \in Ids : WF_vars(QueueStep(RetryFires(id)))

FairSpec == Spec /\ Fairness

-----------------------------------------------------------------------------
(* Properties.                                                             *)

IsOwned(r) ==
    \/ \E c \in calls : c.kind = "enqueue" /\ c.payload.run = r
    \/ \E id \in Held(jobs) : jobs[id].payload.run = r /\ jobs[id].state \notin FinalStates
    \/ \E b \in binder : b.run = r /\ b.to = "fail"

\* A run in progress is somebody's: a route about to enqueue its job, a job
\* that will be delivered again, or the binder about to fail it.  What owns a
\* run changes hands between the queue, the handler, the binder and, after a
\* crash, the reconciliation.  A run that waits for a person only counts as
\* waiting at resolving if it was asked something or survived a restart.
NoRunIsStranded ==
    \A r \in Runs : runs[r] # None =>
      \/ IsTerminal(r) \/ runs[r].stage = "awaiting_approval"
      \/ runs[r].stage = "resolving" /\ (runs[r].asked \/ restarts > 0)
      \/ IsOwned(r)

\* A run that verifies has its proposal written, whichever attempt, job or
\* direct apply wrote it and whatever was thrown or restarted on the way.
VerifyingMeansApplied ==
    \A r \in Runs : runs[r] # None /\ runs[r].stage = "verifying" =>
      proposals[runs[r].proposal].fate = "applied"

\* Every run comes to rest: completed, failed, or waiting for a person.
EveryRunRests ==
    \A r \in Runs :
      runs[r] # None ~>
        /\ runs[r] # None
        /\ \/ runs[r].stage \in TerminalStages \cup {"awaiting_approval"}
           \/ runs[r].stage = "resolving" /\ (runs[r].asked \/ restarts > 0)

=============================================================================
