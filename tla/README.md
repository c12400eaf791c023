# Production change agent: TLA+ specifications and proofs

A film production's schedule, cast and locations are kept as a versioned
document. Somebody describes a change in a sentence; the program interprets it,
analyses its impact, generates candidate schedules, simulates them, stores one
as a *proposal*, and writes it only after a human approved exactly that content
on exactly that version. Everything that matters is a sequence of asynchronous
repository calls made by several callers at once. This directory models those
sequences in TLA+, checks them with TLC on small instances and proves the
safety properties of the core with TLAPS for every value of the constants.

Paths below are relative to `src/`; `packages/` is left out where it is clear.

## 1. The system

| Component | State it keeps | Operations | Interacts with |
|---|---|---|---|
| Approval use cases (`application/src/use-cases`: create-, validate-, decide-, apply-approved-, verify-applied-proposal) | the locals of each call between awaits | create, validate, decide, apply, verify | repositories; called by HTTP, MCP, queue handlers |
| Guards (`domain/src/invariants/guards.ts`, `digest.ts`) | none | may this be written? which content is this? | pure; called by the use cases |
| Production store (`adapters/memory-store`, `file-store`, `mongo-store`) | production and version, proposals, approvals, idempotency records, audit trail | reads, saves, two transactions (record a decision, apply) | one port, `RepositorySet` |
| File lock (`file-store/src/index.ts:548-742`) | lock file, data file | acquire, reclaim, read, replace, release | other processes |
| Memory queue (`adapters/memory-queue`) | records, identities, ready list, timers, dead letters | enqueue, start, stop, deliver, retry, prune | handlers, transition listeners |
| Job pipeline (`application/src/jobs`: handlers, binder, tracker, stage machine, recovery; routes of `apps/api/src/app.ts`) | durable job runs | start, resume, decide, apply; analyze and apply handlers; reconcile | queue, use cases, model |
| Change agent (`run-change-agent.ts` and the use cases it drives) | change requests | interpret, submit, analyse, generate, simulate | model port, domain, progress callbacks |
| Domain algorithms (`domain/src/simulation.ts`, `impact/`, `candidates.ts`, `verification.ts`) | none | applyOperations, simulateProposal, analyzeImpact, generate candidates, verify | pure |
| Realtime (`application/src/realtime`, `adapters/ws-gateway`, `realtime-client`) | sockets, subscriptions, held notifications, version marks | publish, authenticate, subscribe, recover | routes, tracker, browser |
| Model port guard (`application/src/ports/model.ts`) | slots, timers | limit, time out, check answers | interpreters |
| Rate limiter (`apps/api/src/rate-limit.ts`) | counters per address and per principal | count, sweep | HTTP |
| Admission (`apps/api/src/app.ts`, `invoke.ts`, `server.ts`, `origins.ts`, `apps/mcp-server/src/server.ts`, `adapters/local-auth`) | two limiters; the calls under way | parse, count, identify, authorize, route, answer | limiter, tokens, handlers |
| Console (`apps/web/src/app`) | open production, tracked job, followed view, a page's rows | navigate, submit, resolve, decide, refresh | REST, realtime client |
| Mongo job runs (`mongo-store/src/job-runs.ts`) | a row with a revision per run | save, update by compare-and-set | tracker of every process |
| CLI, bootstrap, contracts, fixtures | configuration, schemas | wiring | all of the above |

### What is hard about it

JavaScript runs one callback at a time, so the hazards sit at every `await`:

* **Stale reads.** Each use case reads a proposal, awaits, and acts on what it
  read. `validate` writes the whole stale record back; `apply` passes its gate
  two awaits before it writes.
* **Races of equals.** Two decisions, two applies, an apply and its own retry
  under the same idempotency key.
* **Torn reads.** The Mongo adapter reads a production's version and its
  entities one after the other, outside a session.
* **Partial failure.** A run, its change request, its proposal and its queue
  job are separate records; anything may throw between two of them.
* **Crashes.** The queue dies with its process, runs do not; a lock file
  outlives its owner.
* **Interleaved database operations.** On Mongo an atomic operation of the port
  is four or five operations in a transaction, which conflicts with others, is
  run again, and whose commit may land without its answer.
* **Late answers** in a console whose user navigates on.
* **Lost wake-ups and timers** in a queue whose delivery loop ends one microtask
  before it is marked as ended, and which may be stopped while a job retries.

`PROJECT.json` lists every such place at its line with the properties that
cover it.

### What makes each part correct

* Approval boundary: only what a permitted human approved is written, whole and
  once, on the version it was approved for; every answer a caller got stays
  true; the books agree with the writes.
* Store: writers exclude each other; what was reported written stays.
* Queue: an accepted job is delivered until it is finished, never beyond its
  attempts, never twice under one identity; nothing waits for a wake-up nobody
  sends; memory is bounded.
* Pipeline: a run in progress always has somebody who will move it; it ends or
  waits for a person; it says *verifying* only of a proposal that was written.
* Realtime: after recovery a client shows what a reload would show.
* Domain: the production stays sound; the analysis finds exactly what a change
  touches; a plan that is offered passes every later check on the version it was
  made for; applied twice it has the effect of once.
* Mongo store: whatever is retried or raced, the database changes by the port's
  atomic operations and what a call answers is so.
* Edges: limits are exact, are paid for once and are refused for the reason
  given; a call is answered alike on every surface; the screen is about one
  production and one job.

## 2. The modules

| Module | Models | Lines of code it stands for |
|---|---|---|
| `Guards` | guards and digest as operators | `domain/src/invariants/guards.ts`, `digest.ts`, the record schemas |
| `ProposalStore` | the repositories' records and operations, each atomic | `ports/repositories.ts`, the three adapters |
| `ApprovalBoundary` | the use cases, one action per repository call; its properties | the five use cases |
| `ApprovalContract` | what the boundary promises, with no calls, keys or statuses | `DOMAIN.md` INV-5 to INV-8 as the code keeps them |
| `ApprovalBoundaryProofs` | proofs: invariant, refinement | |
| `QueueContract` | what a queue promises, with no lists, timers or loop | `ports/queue.ts` as the queue keeps it |
| `MemoryQueue`, `MemoryQueueProofs` | the queue, one action per callback; proofs | `memory-queue/src/index.ts` |
| `JobPipeline`, `JobPipelineProofs` | routes, handlers, binder, reconciliation; EXTENDS `MemoryQueue` | `application/src/jobs`, `apps/api/src/app.ts` |
| `FileStoreLock`, `FileStoreLockProofs` | writers, one action per file system call; proofs | `file-store/src/index.ts:548-742` |
| `RealtimeRecovery`, `RealtimeRecoveryProofs` | hub, gateway, socket, client, snapshot reads | `realtime-client/src/index.ts`, `application/src/realtime`, `use-cases/recovery.ts`, `ws-gateway` (subscriptions) |
| `ShootDates`, `ProductionState`, `Simulation`, `ImpactAnalysis` | windows of days; a snapshot and its invariants; operations, simulation, verification; the analysis of each kind of change and the candidate days | `domain/src` |
| `ChangePlanning`, `ChangePlanningProofs` | one run of the change agent between two writers, one action per read of the production; proofs | `use-cases/run-change-agent.ts` and the use cases it calls |
| `MongoTransactions` | the approval path on Mongo, one action per database operation; the index migration of `connect` | `mongo-store/src/index.ts` |
| `MongoJobRuns` | the compare-and-set of a run | `mongo-store/src/job-runs.ts` |
| `MongoStore`, `MongoStoreProofs` | the sum of the two; proofs about both | |
| `ModelGuard` | slots, budget, abort, the checks of an answer | `application/src/ports/model.ts` |
| `RealtimeGateway` | upgrades, the chain of a socket's messages, rates, heartbeat, close | `adapters/ws-gateway/src/index.ts` |
| `RateLimit` | fixed windows and the sweep | `apps/api/src/rate-limit.ts` |
| `ApiRequests` | what a REST call, an upgrade and a tool call pass, and their answers; two INSTANCEs of `RateLimit` | `apps/api/src/app.ts`, `invoke.ts`, `server.ts`, `origins.ts`, `errors.ts`, `mcp-server/src/server.ts`, `contracts/src/identity.ts`, `local-auth` |
| `Console` | the browser's stores and its calls on the way | `apps/web/src/app` |
| `SystemEdges`, `SystemEdgesProofs` | the sum of the last five; proofs about each | |
| `MC…` | instances for TLC | |

`ApprovalBoundary` EXTENDS `ProposalStore`, which EXTENDS `Guards`: the use cases
act on the store through its operations. `JobPipeline` EXTENDS `MemoryQueue` and
lifts its actions with the application's state unchanged. `MongoTransactions`
EXTENDS `ProposalStore` too: its `StoreIsAtomic` says that the database moves only
by the operations `ApprovalBoundary` takes as atomic, which is what justifies
composing the approval path over either adapter. `ChangePlanning` EXTENDS the
domain modules in a chain. `ApprovalContract` is INSTANCEd by `ApprovalBoundary` with
the decision of a proposal defined from its approval record, `QueueContract` by
`MemoryQueue` with the job records and the count of ids.

### How state and actions correspond to the code

*ApprovalBoundary.* `req[r]` is one call in flight: `at` names the `await` it is
suspended at, the other fields are its local variables (`seen` is the proposal
record it read; `since` is the version from which a load that has begun may be
composed, 0 for an atomic load). Each action runs from one repository call to the
next, e.g. `FindKey`, `FindApproval`, `LoadForApply`, `CommitApply` are the
awaits of `apply-approved-proposal.ts`. A plan is a model value; which plans
simulate cleanly on which version is the constant `Clean`, so every domain is
covered. A digest is the content it covers (SHA-256 is taken to be injective).
`Abandon` is a crash, an exception or a timeout at any `await`.
`EditStoredOperations` edits a stored proposal without its digest, which is what
the recomputation in `checkApprovalFreshness` is there for. `commits` and
`answers` are history variables: what was written and what callers were told.

*MemoryQueue.* One action per callback. `ready`, `waiting`, `started`,
`scheduled` are the code's variables of the same purpose; `loop` is `idle`,
`running`, or `ending` (the loop looked at an empty list for the last time but
is not yet marked ended, lines 227-236).

*JobPipeline.* `handler` names the next call of the handler that runs (the queue
delivers one job at a time); `calls` are routes between their first write and
their enqueue; `binder` holds reactions to transitions that have begun. `Throw`
is an exception at any call of a handler, `Restart` the death and new start of
the process: the queue is empty, runs are reconciled.

*FileStoreLock.* `at[w]` is where a writer is, one action per call to the file
system: `Open` is `open(…, "wx")`, `Fill` the write of the pid and the `close`,
`Reclaim` the `rename` and `Release` the `unlink` of whatever is at the path at
that moment. Each of them may fail, and nobody removes the lock that a failed
write, `close` or `unlink` leaves; `left` is the history of those.

*RealtimeRecovery.* `entry` is what the client keeps of a followed production:
the view (`version`, `run`, `open`), the flags of its recovery, what it holds
back, and the snapshot read under way, whose `at` names its next repository
call. `up` and `down` are the two directions of a socket; `link` tells a socket
that was lost, or closed by the client, from one whose close event the client
has seen. `outbox` holds writes that landed and are not yet published, so a
notification may be late. One client, production and job run; the proposals are
a constant.

*Domain and ChangePlanning.* A snapshot is a record of functions from the
entities that exist to what they hold; a date is the number of its day, counted
from 1970-01-01 so that both ends of what the schema takes are there, and
`DayAfter` is what the merge makes of the end of a window; operations
and changes are records with the fields of their contracts. `agent` is what a run
holds between its reads, each of which may see a later version.

*MongoTransactions.* `txn[r]` is one call of the store: the documents it has
written and holds (`wrote`), the documents that changed since its snapshot
(`stale`). Writing a stale or held document is a conflict, and the driver runs
the callback again; `CommitLands` and `Acknowledge` are separate, so an answer
may be lost. `starter` is a process in `connect`, which may drop and create the
unique index while others write.

*MongoJobRuns.* A run is the set of updates it has seen; `updates[u].read` is the
row a call read and will only replace at the same revision. A call that throws
may have landed its replace, or land it later (`ReplaceLate`).

*ModelGuard.* A call is granted a slot in one turn of the event loop and uses it
in a later one; the race between provider, budget and abort is decided in one turn
and read in another. Prose is what the closed checks read of it.

*RealtimeGateway.* The upgrade counts its address after an awaited
authentication; a socket's messages are a chain that waits for the authorization
of the first.

*ApiRequests.* `requests[i]` is one call with the gate that answered it, the
answer, and what its handler did; a call runs to its first `await` in one step,
and what it awaits ends in another. What the parser of a body and the decoding of
a path may raise is answered by the error handler (`CodeOfError`); a path under no
production reaches neither allow-list nor quota of writes (`LeadsNowhere`). Use cases are an outcome here: they are the
subject of the other modules.

*Console.* `pending` holds the calls on the way. Effects of the framework run in
the step that changes a signal they read. The view is any later state of what
`RealtimeRecovery` converges to. `hurried` and `unread` are history variables:
somebody navigated while a production loaded or a form was being sent; the last
read of the tracked job failed.

*Sums.* `MongoStore`, `SystemEdges` and `MCQueueAndLock` put components side by side that share no
variable and whose actions read none of the others'. Their interleavings project
to behaviours of each alone, and the properties are about one component each, so
a behaviour that moves one of them is enough; `moving` says which.

## 3. What is checked

| Run | Instance | What it shows |
|---|---|---|
| `approval_races` | 2 calls, 2 proposals, 1 plan, 1 key, atomic loads; 1.3 million states | applied at most once, answers stand, books match, verified means applied, refinement of `ApprovalContract` |
| `approval_torn` | 2 calls, 1 proposal, 2 plans, 2 keys, torn loads, maker-checker; 0.69 million | written as approved, written plans are clean, decisions stand, statuses never overclaim |
| `approval_revived` | as `approval_races` | **violation**: a stale validation revives a rejected proposal |
| `queue_and_lock` | the queue: 5 jobs, 3 identities, 2 attempts, 1 record retained, stop and start; 41 thousand | no job lost, no wake-up lost, safe lookups, bounded retention, refinement of `QueueContract`, every job settles |
| | the lock: 2 writers in 2 of 3 processes, 1 crash, 2 mutations each, 1 poll, any call failing; 87 thousand | one writer at a time and no lost update while pids are written, no lock left but by a failing call, every mutation ends |
| `pipeline_ownership` | 1 run, 2 jobs, 2 attempts, 1 proposal, 1 restart; 0.96 million | no run is stranded, verifying means applied |
| `pipeline_liveness` | the same without the restart; 0.47 million | every run completes, fails or waits for a person |
| `lock_reclaimed` | 3 writers, 1 crash | **violation**: two waiters reclaim one after the other |
| `realtime_recovery` | 1 client, 1 proposal, 1 run, 3 writes, 1 fault, 3 calls, 1 follow; 0.49 million | a quiet view shows the records, a view that says it recovers is being recovered, every view converges |
| `realtime_refollowed` | 2 writes, 1 fault, 2 calls, 2 follows | **violation**: what was held for the first subscription is merged over the snapshot of the second |
| `change_planning` | 4 productions of 2 scenes, 3 days, 2 sheets; 19 changes, 12 hand-written plans, 2 writes; 0.19 million | windows mean their days, the production stays sound, the analysis is exact, unavailability is answered with a day that works or a reason, applied plans verify, retries have no second effect |
| `mongo_transactions` | 3 calls on 1 proposal and 2 keys, 2 processes that connect; 3 updates of a run with 2 attempts; 0.28 million | the database changes by atomic operations only; answers are so, loads are as the approval path assumes, no update is lost that was told it landed |
| `system_edges` | 3 model calls for 2 slots; 2 sockets for 1 place; 2 clients over 4 seconds; 2 calls of 26 kinds on three surfaces; a console with 2 productions and 1 job; 0.28 million | honest model calls, exact gateway limits, kept quotas, admitted calls, a consistent console, every model call settles |

**Bounds and why they are enough.** The approval properties relate a write to
one other call, so two calls in flight interleave in every way a pair of them
can; calls end and begin again without limit, so longer histories are sequences
of these. Two proposals with one key are needed for a key to be reused for
another proposal, two plans for an edited record. A version grows with each
write, which is at most one per proposal. In the queue, three identities with
one retained record force pruning, re-acceptance of a forgotten identity and a
retry in the same behaviour. In the pipeline, two jobs are an analysis and its
resumption or apply; two attempts are one retry. `MaxJobs`, `MaxProposals`,
`MaxRestarts`, `MaxMutations`, `MaxPolls`, `MaxCrashes`, `MaxWrites`, `MaxFaults`,
`MaxCalls`, `MaxWrites` of the agent, `LastSecond`, `LastTick`, `MaxMessages`,
`MaxTracked`, `MaxOpens`, `MaxFailures` and `MaxOnTheirWay` bound the model, not the
code. Three writes put one before, one
inside and one after a snapshot; three calls allow connect, close and connect
again, or a recovery or an unfollow at any point. `MaxRetained` is the code's, and
`NoRunIsStranded` depends on it: the binder is told of a transition after the
pruning, and asks for the record of a dead job; were it pruned, the run would
never be failed. Finished jobs are forgotten oldest first, so this needs as many
retained records as there are jobs accepted after the running one and finished
before it, plus one. `CurrentIsRetained` says so, `RunsAreNotStranded` is proved
from it, and `RetainedRunsAreNotStranded` from `MaxRetained >= MaxJobs`; the
code's default is 1000. The
productions of `change_planning` are chosen for their corners: windows that touch,
overlap, hold a shooting day or end on 9999-12-31, a scene on the target already, a
requirement named differently, a done and an open task. One poll is a wait that is
repeated once: longer waits repeat it. On Mongo three calls are a decision, a
decision or apply against it and a save; two processes can meet between listing
and dropping an index. Three model calls for two slots make one wait; one place
for two sockets makes the count per address decisive; two calls of the API share
or do not share an address and a principal, one token expires on the way. Two
calls on their way make two answers that may come in either order in the console;
two navigations leave a production and come back. The theorems need none of these
bounds.

**Fairness.** `ApprovalBoundary` assumes none: nothing there must happen. In
`MemoryQueue` timers fire, microtasks run and a handler that was called settles:
the event loop guarantees the first two, the time limits around every model and
repository call the third. Nobody has to enqueue, start or stop. `JobPipeline`
adds that a route which began enqueues, the handler goes on and a reaction of
the binder ends; clients, exceptions and restarts are not forced. In
`FileStoreLock` a living writer goes on with the mutation it began. In
`RealtimeRecovery` messages on an open socket arrive, reads are answered, timers
fire and a closed socket says so; writes, faults and calls are not forced.
In `ModelGuard` a granted call starts, its budget runs out and a decided race is
read (turns of the event loop and a timer); the provider owes nothing.
Deadlock is not checked where the system may rest: all bounds used up, everything
decided, or every process dead.

### Findings

Each violation contradicts a sentence the repository says of itself; the
quotations are in `PROJECT.json`.

1. `approval_revived`: `validate_proposal` saves the record it read before an
   await; a rejection in between is overwritten, and the proposal is open again.
   Nothing unapproved can be written: the approval record survives.
2. `lock_reclaimed`: with two waiters and one dead owner, the slower waiter's
   `rename` takes the lock the faster one has created since.
3. `realtime_refollowed`: a client that unfollows a production and follows it
   again on the same socket is acknowledged twice. If the read that the first
   acknowledgement starts fails, `recoverProduction` runs the pending retry for
   the second one and keeps what was held. A notification of the old
   subscription is then merged over a newer snapshot, and the one that corrects
   it was published between the two subscriptions: the view shows a superseded
   status for as long as the socket stays quiet. Every other call of
   `abandonRecovery` or `readSnapshot` either drops what is held or has received
   everything since (that is what the theorems below prove).

### Limits of the code met while modelling

The properties are stated so that they hold with these; each is what the code
does, and none has a run of its own.

*Runs.*
* A process that stops while it interprets a sentence leaves a run at `resolving`
  that was asked nothing; reconciliation keeps it as waiting for a person
  (`jobs/handlers.ts:97-99`, `jobs/recovery.ts:11-16`).
* A failure between storing the change request and attaching it to the run makes
  the retry store a second one (`run-change-agent.ts:275-286`).
* An analysis repeated on a run that already awaits approval (its last write
  landed and was reported as failed, or it was resumed twice) may complete that
  run while its proposal is open (`handlers.ts:159`, `169`): `EveryRunRests`
  counts the run as ended.
* The interpretation is asked for without the caller's signal
  (`run-change-agent.ts:255-259`); a provider that ignores its own works on after
  its slot was given back (`ports/model.ts:305-308`).
* Shutdown closes the store without waiting for the handler that runs
  (`apps/api/src/main.ts:145`).

*Realtime.*
* A proposal that changes status between two reads of a snapshot is listed twice;
  the notification that closes it removes one copy
  (`use-cases/recovery.ts:46-49`, `realtime-client/src/index.ts:304`, `318`).
* `QuietViewIsCurrent` needs `PublishedInOrder`. A store that answers two writes
  in either order (Mongo) lets their notifications arrive in the opposite order;
  the client merges the older one last and shows it until it recovers.

*File lock.*
* A failed write of the pid leaves a lock without one, and its writer, alive, at
  work on nothing (`file-store/src/index.ts:596-609`). Everybody is refused until
  it has grown old; then two waiters may reclaim it one after the other, as in
  finding 2 but with nobody dead. `OneWriterAtATime` and `NoUpdateIsLost` are
  stated as long as every pid was written (`PidsWritten`).
* A failed `close` or `unlink` leaves a lock with the pid of a living process,
  which refuses everybody until that process dies. `NoLockIsOrphaned` says that
  nothing else leaves a lock behind.

*Planning.*
* The day after a window is computed through a timestamp and compared as a string
  (`dates.ts:28-32`, `95`). After `9999-12-31` that string is `+010000-01`, which
  sorts before every date: a window that starts no earlier than one with that end
  stays unmerged behind it. `WindowsMeanTheirDays` states the exception; coverage
  is not affected. Years 0 to 99 are read as 1900 to 1999 (`Date.UTC`), so windows
  there are merged that do not touch: `DayAfter` has it, but the windows of the
  model begin in the year 100, and nothing is claimed of earlier ones.
* The agent analyses one version and plans on a later read: a scene moved in
  between may leave it without a candidate, on grounds no version has
  (`UnavailabilityIsAnswered` speaks of runs whose reads agree).
* A request to move scenes that already are on the target day plans a stale mark
  on a call sheet and nothing else. A scene that is not scheduled is reported as
  scheduled onto the day and then dropped from the plan
  (`impact/analyze.ts:331`, `run-change-agent.ts:420-423`).
* A hand-written plan that moves a scene away and back is applied and then fails
  its verification, which looks for the effect of each operation in the end.
* The collector of impacts keeps the first finding of an entity and reason, and
  with it a milder severity than a later one.
* A ranking's reasons are checked against zero conflicts and impacts
  (`ports/model.ts:247-272`): only a denial of warnings contradicts.

*Admission.*
* A body is parsed, and a malformed one refused, before the request is counted,
  although `app.ts:294-295` counts "before anything else spends work on it".
* A body over 256kb or of an unknown charset or encoding (`app.ts:272`), and a path
  with a name that does not decode, are answered `INTERNAL_ERROR`: the error
  handler knows one error of the caller (`app.ts:925-936`).
  `FailuresAreTheServersOrUnreadable` says that no other fault of a caller is
  told as a failure of the server.
* A tool whose output violates its contract answers `INTERNAL_ERROR` after its
  effect. A tool that is not wired is `TOOL_UNAUTHORIZED` over MCP and
  `INTERNAL_ERROR` over REST. MCP looks at the input before the allow-list, REST
  after it: `SurfacesAgree` compares calls that pass both.
* The window of a quota is fixed: twice the limit passes around its boundary.

*Console.*
* The answer of a submission is tracked under whatever production is open by
  then; two productions opened one after the other show and follow the one whose
  answer comes last, since the store does not use the `latestOnly` of the pages.
  `OneProductionIsShown` speaks of people who wait (`~hurried`).
* While a read of the tracked job is ahead of the view, each read starts another,
  until the socket catches up (`change-submission.service.ts:51-59` says of this
  case that there is nothing to do).
* A read that fails for the last event of a job is not repeated, although line
  167 counts on the next live event. Two moves of a run within one millisecond
  have one `updatedAt`, and the second is not seen.
* A late 401 answer to a call with an old token clears the token pasted since
  (`auth/auth.interceptor.ts:23`).

*Mongo.* An update of a run whose `replaceOne` throws may be in the row although its
caller was told it failed (`job-runs.ts:58`); a caller that tries again may find its
own effect. While the unique index is missing (`connect` of two processes drops and
creates it, `index.ts:220-239`) a proposal is still decided once, because every
decision also replaces the proposal's document: the index is not what the
guarantee rests on. `StoreIsAtomic` is proved without it.

## 4. What is proved

**Assumptions.** Constants are typed (named ASSUMEs in the modules that declare
them), `None` (`NoLock` for the lock) is none of the records it stands beside. Nothing is assumed of the
number of calls, proposals, plans, keys, principals, versions, jobs, writers.

**Approval boundary** (`ApprovalBoundaryProofs`). `Inv` is the inductive
invariant. The properties themselves are not inductive: that a commit is
approved follows only from what the call about to commit has read, two awaits
ago. `CallsSound` says what each local is worth at each point: the approval it
holds is on record (approvals are never changed); the version it read is not
above the current one; the verdict it holds is right if that version is still
current. The step that needed an idea is the idempotency key. An apply that found its key unused
may find it used when it commits. `KeyIsFree` says that a commit made under the
key since then is on a version at or above the one this proposal was made for,
so the version check of the transaction refuses, and no record is overwritten.
`Invariant` gives, for every constant, `TypeOK`, `AppliedAsApproved`,
`AppliedAtMostOnce`, `CommittedPlansAreClean`, `DecisionAnswersStand`,
`ApplyAnswersStand`, `BookkeepingMatchesCommits`, `StatusNeverOverclaims` and
`VerifiedMeansApplied`. `ImplementsContract` proves that the use cases implement
`ApprovalContract`: recording a decision is `Decide`, committing is `Commit`,
every other step stutters.

**Queue** (`MemoryQueueProofs`). The invariant is the types, `NoJobIsLost`,
`NoLostWakeup`, `LookupsAreSafe`, that ids not handed out are unused, and that a
handler runs only inside the loop. The last two are what make the first three
inductive. `UnfinishedIsNeverForgotten` is an action property from the same
invariant. `RetentionIsBounded` adds an argument of its own: finished jobs are
added one at a time, each followed by a pruning, and when there is one too many
the oldest of them has nothing before it and is forgotten. `QueueImplementsContract`
proves that the queue implements `QueueContract`: an enqueue is `Accept` (no held job
has the identity, by `LookupsAreSafe`), a delivery that finds its job queued is `Begin`
(nothing else runs, by `NoJobIsLost`), settling is `Repeat` or `Finish`, and the rest
is invisible. The records a `Finish` forgets have to be the oldest (`OldestGo`), no
more of them than the limit asks for (`NoMoreGo`: all of them are the youngest of
them or among its elders, which the code counts) and enough. That contract implies
`UnfinishedIsNeverForgotten`, which is why no run checks it. The queue of the
pipeline does not implement it: a restart empties it.

**Job pipeline** (`JobPipelineProofs`). `PInv` puts the queue's invariant, which the
pipeline's actions keep because each is one of the queue's or leaves it alone
(a restart empties it), beside what the routes, the handler and the binder rely
on. Every job, call and binding names a run that was started, and an apply job
names the proposal of its run (`JobsAreSound`, `CallsAreSound`, `BinderIsSound`);
the first call of a run finds its identity unused and is the only one to use it
(`FirstCallsEnqueue`); a key is spent only on a written proposal
(`SpentMeansApplied`); and `Knows` says, for each `await` of the handler, what it
may assume of its run and its proposal when it goes on, which another route may
have changed meanwhile. `VerifyingMeansApplied` is part of it: *verifying* is
entered from the answer of the apply or from the record of an earlier one.
`NoRunIsStranded` follows from `EveryRunIsOwned`, which is stronger in not
counting a later call of a run as its owner: such a call may find its identity
taken and enqueue nothing. Its proof follows the run from hand to hand: the
route's call, the job on the ready list, on a timer or running, and the binder;
the step that matters is the failure of a last attempt, where the record must
outlive the pruning (`CurrentIsRetained`). Assumed: the queue accepts the
pipeline's identities and payloads (`QueueTakesJobs`), and `CurrentIsRetained` as a
hypothesis on the behaviour or `MaxRetained >= MaxJobs`.

**File lock** (`FileStoreLockProofs`). For any number of writers and crashes, a lock
of a living process has its owner at work or was left by a failing call
(`LocksHaveOwners`): only the writer that made a lock fills it and goes on with it,
and it takes it along when it ends (`LocksAccounted`). With at most two writers
whatever dies, or any number of writers when nothing dies (`FewWaiters`), and as
long as every pid was written (`PidsWritten`), one writer owns the file and no
reported mutation is lost. The invariant says that a living writer at
work is named by the lock, that a waiter about to reclaim has a dead owner's
lock in front of it, and that a writer about to replace the file read what is in
it. Without `FewWaiters` the second part is false: that is finding 2, and the
hypothesis says how far the code's argument reaches; without `PidsWritten` it is
false for the reason given among the limits.

**Mongo** (`MongoStoreProofs`).
`StoreIsAtomic` is the refinement of this part: whatever the driver retries and
however transactions conflict, the database changes only by the operations of
`ProposalStore`, each one whole. `MongoInv` is its inductive invariant. Two open
transactions never wrote the same document; a transaction whose snapshot is not
stale still reads what is stored, which is what makes its commit the operation on
the state it lands in; no stored version is ahead of the production's; and an
apply that has bumped the version did it from the base of its proposal. The
unique index plays no part in it: two decisions meet in the proposal's own
document. For runs, `RunInv` says that the revision counts the updates that
landed, those whose call threw included, and that a call that has not landed read a
revision and a run no later than the row's. Assumed: a call is named by its caller (`RequestsArePrincipals`), there is a
change request and a plan to propose (`SomethingIsProposed`), the first version
is positive, and a run update makes at least one attempt.

**Edges** (`SystemEdgesProofs`). The gateway: the address is charged in the turn in
which a socket joins or leaves `Counted`, and of a connection's chain at most one
subscribe is being authorized, for which there was room when it began and still
is (`OneAtATime`): nothing else of that connection is handled meanwhile. The model
guard: whoever waits is in the queue exactly once, and a slot that is given back
goes to its head or, when nobody waits, to the free ones; a call's race, what its
provider was told and what its caller is told agree in every phase (`CallInv`).
An accepted ranking is a permutation of the candidate days: its days are as many
as its entries and cover them, and a map onto a set of the same size repeats
nothing, which is why comparing counts and ranks is enough.
A limiter: `served` holds how many requests of a key were let through by the end
of each second, so that what was served in a stretch is a difference. `KeyOK` says of
every key, tracked or forgotten, that a running window counts what was served since
it began *and* that at most a limit was served in a window's time before it; when
none runs, that at most a limit was served in the last window's time and nothing
in this second. The second half is what a new window needs to keep twice the limit,
and what lets the sweep forget a key. It is stated of plain values, so the same
lemmas serve `RateLimit` and its two instances in `ApiRequests`. Admission: where a
call is tells what the gates before it have found out (`CallIsSound`; a failure told
is one within the server or of a request that could not be read), and each
limiter has served as many requests as there are calls that pay (`PaidInv`), which a
step changes for one call at most.
The console: `OneProductionIsShown` is kept by what is on its way. As long as nobody
navigated under a call, at most one call is being sent (`OneIsSent`) and at most one
production is being read (`LoadsAreOfTheOpened`), each for what is open; every other
call names the production of its job (`CallsNameTheirProduction`), so an answer that
is tracked is about the open one. A page has no job and only its newest read is of
what is open (`PageOnly`). `TrackedJobIsRead` speaks of the moment when nothing is on
its way; what carries it is `ReadIsDue`: a tracked job that is behind the view has a
read on its way, unless its last one failed. An answer is tracked and looked at again
in the same step, which is why it does not matter which of two reads comes last.
Assumed: the limits are positive (`positiveIntFromEnv` of `main.ts`), an answer is of
one of the four kinds, a token that verifies names a role (`principalSchema`), and
`Nothing` is no production, stage or job.

**Realtime** (`RealtimeRecoveryProofs`). `RecoveryIsSound` is inductive with the
shape of an entry added (`RecoveryInv`), whatever order notifications come in.
`QuietViewIsCurrent` speaks of the moment when nothing is on its way, so its
invariant must say what is true while something is. `Current` does: a view, the
answers a read has so far and the notices held behind it are each right about a
proposal or a run, *or a later notice about it is still to come*, held, on the
socket or in the outbox. `SeqTrue` says this of a queue: each of its notices
agrees with the records unless a later one is about the same proposal. A list
that is read later than another keeps the promise because the write in between
was published after it was stored; a merge keeps it because the notice merged is
the next one. `FollowedOK` splits on the acknowledgement: before it arrives
nothing is held and the read is still to start, so nothing need be promised;
after it everything since has arrived. `SocketOK` says that a socket is not
subscribed before it is welcomed and that a welcome comes first. What a snapshot
merges is a recursive function over the held notices; its properties are proved
by induction on their number (`NaturalInduction`, from the least element of a set
of naturals). Assumed: notifications are published in the order of the writes
(`PublishedInOrder`), and either one follow (`FirstFollowersAreCurrent`) or
`RefollowsWait`, that a production is followed again on the same socket only when
the last subscription has been answered for and nothing of it is under way
(`QuietViewsAreCurrent`). Neither can be dropped: the first for the reason given
among the limits, the second because of finding 3.

**Planning** (`ChangePlanningProofs`). `PlanningInv` says that the production is well
formed, sound, and without a violation the source's own rules would find; that a
run's change and plan are parsed; and that the verdict stored with a proposal is the
verdict of its plan on the version it was made for, as long as that is the current
one. The last part is what an apply relies on: it judges nothing, it compares
versions. That soundness follows from a valid simulation is the longer half. The
source's rules do not look at whether a requirement is listed on its scene, nor
whether a scene has another like it, so those two are kept operation by operation
(`EffectKept`), through a list of any length (`AppliedKept`); the rest is read off
`CheckStateInvariants` (`CheckedIsSound`). The plans the agent makes are operation
lists whatever it read (`UnavailabilityPlans`, `RequirementPlans`, `SchedulePlans`).
The lemmas about dates are about any list of windows: inserting each window behind
those it does not precede sorts them, and one pass over sorted windows keeps their
days and leaves a free day between two (`Normalized`), except behind a window that
ends on the last day, which holds what stays unmerged behind it; so one merged window
holds a range exactly when each of its days is blocked (`CoveredMeansItsDays`). Retries: each
effect makes `IsOperationAlreadyApplied` true of what it leaves
(`EffectIsRecognised`). The analysis: in a production without violations a scene is
booked on a day exactly when that is the day the index finds, and recording a range
blocks for its entity the days of the range and nothing else (`NewlyBlocked`); so
the two rules, one walking scenes and one walking days, name the same conflicts.
`Sorting`, `Merging`, `Selected`, `Applying` and `Gathered` are recursive functions on
the positions of a list, which is what these inductions run over.

`AnswersInv` adds what the agent carries from one read to the next: the analysis and
the plan are those of the version they name for as long as that is the production's
(`AnalysisIsOf`, `PlanIsOf`), a run without a candidate saw a sound production that
has none (`NobodyIsLeft`), what is proposed for an unavailability is valid
(`AnswerIsGood`). The apply compares versions, so from `PlanIsOf` a plan that is applied
is one the agent would make on the production it is applied to. The rest is about
such plans. A plan for an unavailability is the fact, the moves of different scenes
onto one candidate day, and marks of different sheets: a candidate is free of the
conflicts the moves could meet (`BookedAreFree`), so every operation goes through
(`AnswerRuns`, `AnswerIsValid`). Later operations do not undo earlier ones, since
they are of different scenes and windows only grow, so each shows at the end
(`EverythingShows`); with a production that is sound this is what the verification
looks for (`ValidIsVerified`), and the change, analysed once more, blocks nothing
(`PlanVerifies`). A sheet is marked for a shoot day that loses a scene or receives
one, and the simulation reports each of them with the move
(`AnswerExplainsItsMarks`); an entity once told of stays told of
(`WhatIsFoundIsTold`). Conversely a day every blocked scene could move to without a
conflict is one of the candidates (`WhatWouldDoIsACandidate`), so `NO_CANDIDATE`
means there is none.

Assumed: a production is sound and without violations when it is set up (`ProductionsAreSound`, which
`fixtures/test/demo-movie.test.ts` asserts of the seeded one), `Nobody`, which stands
for the `null` of a scene without a shoot day, is not the identity of a day
(`NobodyIsNoDay`; identities are strings of the contracts), and changes and
operations have been parsed by their schemas, a hand-written list having at least one
(`InputsAreParsed`).

**Only model-checked.** Liveness (`EveryJobSettles`, `EveryRunRests`,
`EveryMutationEnds`, `EveryViewConverges`, `EveryModelCallSettles`), which TLAPS
does not cover under fairness. Every safety invariant and action property of a
passing run is a theorem.

## 5. What is not modelled

* `drain`, `redeliver` and a job type without a handler in the queue (used by
  tests only); the `VERIFY_PROPOSAL` handler, which nothing enqueues; published
  events of a run.
* The check after an apply that compares the stored version with the expected
  one: it repeats what the transaction returned.
* The wording of explanations and the rule model's regular expressions: text
  without state. Schemas, permissions of files, HTTP headers, static files, the
  signature of a token, rendering.
* Seeding, reset and the command line: wiring around the modelled operations.
* A pid that is reused by another process, and a living writer that takes more than
  30 seconds to write its pid.
* A provider that throws a `ModelError` of its own, which the guard would pass on as
  it is (`ports/model.ts:417-419`); no provider of the repository does.
* INV-4 (tenancy): no modelled operation changes a production id.
* The console's session (`auth.service.ts`); several clients in
  `RealtimeRecovery`.

## 6. Order of the development

1. `Guards`, `ProposalStore`, `ApprovalBoundary`, `ApprovalContract`: the reason
   the program exists. Theorems: the invariant, each safety property, refinement.
2. `MemoryQueue` with its theorems, then `JobPipeline` on the queue.
3. `FileStoreLock`: what the atomic store of one machine rests on, with its limits.
4. `RealtimeRecovery`: hub, client and recovery snapshot.
5. The domain modules and `ChangePlanning`.
6. `MongoTransactions` and `MongoJobRuns`: what the atomic store of several
   processes rests on, with theorems.
7. `ModelGuard`, `RealtimeGateway`, `RateLimit`, `ApiRequests`, `Console`: the edges.

Left: a second client in `RealtimeRecovery`.

## 7. Running it

`tlc -config ApprovalRaces.cfg MCApprovalBoundary` checks an instance and
`tlapm ApprovalBoundaryProofs.tla` the proofs of a module. Each configuration
names its module's instance in the table of `PROJECT.json`.
