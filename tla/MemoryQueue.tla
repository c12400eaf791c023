----------------------------- MODULE MemoryQueue -----------------------------
(***************************************************************************)
(* The in-process queue (packages/adapters/memory-queue/src/index.ts):     *)
(* jobs are delivered one at a time in the order they became ready, a      *)
(* retry waits on a timer, a job that exhausts its attempts becomes a dead *)
(* letter, and finished jobs beyond a limit are forgotten.                 *)
(*                                                                         *)
(* JavaScript runs one callback at a time, so an action is the code from   *)
(* one await to the next.  Timers fire only when the microtasks of the     *)
(* last callback are done; "ending" is the microtask between the delivery  *)
(* loop's last look at the ready list and the moment the loop is marked    *)
(* ended, in which other microtasks (an enqueue) may run but timers do     *)
(* not.                                                                    *)
(*                                                                         *)
(* Not modelled: drain and redeliver, which only tests call, and a job     *)
(* type without a handler, since every type is registered before start.    *)
(***************************************************************************)
EXTENDS Integers, Sequences, FiniteSets, Functions

CONSTANTS
    Identities,     \* (production, type, idempotency key) tuples
    Payloads,       \* what a job carries for its handler
    MaxAttempts,    \* policy.maxAttempts
    MaxRetained,    \* maxRetainedJobs
    MaxJobs,        \* bound of the model: jobs enqueued in a lifetime
    None

ASSUME MaxAttemptsIsPositive == MaxAttempts \in Nat \ {0}
ASSUME MaxRetainedIsNatural == MaxRetained \in Nat
ASSUME MaxJobsIsNatural == MaxJobs \in Nat
ASSUME NoneIsNoJob == None \notin Nat

VARIABLES
    jobs,           \* the records by id, None when there is none
    jobIdByKey,     \* the id of the retained job of each identity
    deadLetters,    \* ids of jobs given up on
    ready,          \* ids to deliver, in order
    waiting,        \* ids whose retry timer is running, in the order they were set
    started,
    scheduled,      \* a scheduleLoop(0) timer is pending; one stands for several
    loop,           \* the delivery loop
    current,        \* the job whose handler is running
    enqueued        \* how many ids were handed out

queueVars ==
    <<jobs, jobIdByKey, deadLetters, ready, waiting, started, scheduled, loop, current, enqueued>>

Ids == 1..MaxJobs
FinalStates == {"COMPLETED", "FAILED"}
States == {"QUEUED", "RUNNING"} \cup FinalStates
JobRecords ==
    [identity : Identities, payload : Payloads, state : States, attempt : 1..MaxAttempts]

ASSUME NoneIsNoRecord == None \notin JobRecords

QueueTypeOK ==
    /\ jobs \in [Ids -> JobRecords \cup {None}]
    /\ jobIdByKey \in [Identities -> Ids \cup {None}]
    /\ deadLetters \subseteq Ids
    /\ ready \in Seq(Ids)
    /\ waiting \in Seq(Ids)
    /\ started \in BOOLEAN
    /\ scheduled \in BOOLEAN
    /\ loop \in {"idle", "running", "ending"}
    /\ current \in Ids \cup {None}
    /\ enqueued \in 0..MaxJobs

QueueInit ==
    /\ jobs = [id \in Ids |-> None]
    /\ jobIdByKey = [k \in Identities |-> None]
    /\ deadLetters = {}
    /\ ready = <<>>
    /\ waiting = <<>>
    /\ started = FALSE
    /\ scheduled = FALSE
    /\ loop = "idle"
    /\ current = None
    /\ enqueued = 0

-----------------------------------------------------------------------------
(* Forgetting.                                                             *)

Held(js) == {id \in Ids : js[id] # None}
FinishedIn(js) == {id \in Held(js) : js[id].state \in FinalStates}

\* Mutants: the oldest records go, finished or not; one too many is kept.
ForgottenAny(js) ==
    {id \in Held(js) :
       Cardinality({j \in Held(js) : j < id}) < Cardinality(Held(js)) - MaxRetained}
ForgottenLate(js) ==
    {id \in FinishedIn(js) :
       Cardinality({j \in FinishedIn(js) : j < id}) < Cardinality(Held(js)) - MaxRetained - 1}

\* prune: the oldest finished jobs, as many as are held beyond the limit.  A
\* Map iterates in insertion order, which is the order of the ids here.
Forgotten(js) ==
    {id \in FinishedIn(js) :
       Cardinality({j \in FinishedIn(js) : j < id}) < Cardinality(Held(js)) - MaxRetained}

\* Mutant: the identities of forgotten jobs stay.
PruneRecordsOnly(js, dead) ==
    /\ jobs' = [id \in Ids |-> IF id \in Forgotten(js) THEN None ELSE js[id]]
    /\ deadLetters' = dead \ Forgotten(js)
    /\ UNCHANGED jobIdByKey

Prune(js, dead) ==
    /\ jobs' = [id \in Ids |-> IF id \in Forgotten(js) THEN None ELSE js[id]]
    /\ deadLetters' = dead \ Forgotten(js)
    /\ jobIdByKey' =
         [k \in Identities |->
            IF \E id \in Forgotten(js) : js[id].identity = k /\ jobIdByKey[k] = id
            THEN None ELSE jobIdByKey[k]]

-----------------------------------------------------------------------------
(* The port: enqueue, start, stop.                                         *)

\* Mutant: enqueueing runs the loop in place instead of on a timer.
WakeInPlace ==
    /\ loop' = IF started /\ loop = "idle" THEN "running" ELSE loop
    /\ UNCHANGED scheduled

Wake ==
    /\ scheduled' = (scheduled \/ started)
    /\ UNCHANGED loop

\* A job already held under the identity answers for the new one: nothing
\* changes.
Enqueue(identity, payload) ==
    /\ jobIdByKey[identity] = None
    /\ enqueued < MaxJobs
    /\ enqueued' = enqueued + 1
    /\ jobs' = [jobs EXCEPT ![enqueued + 1] = [identity |-> identity, payload |-> payload,
                                               state |-> "QUEUED", attempt |-> 1]]
    /\ jobIdByKey' = [jobIdByKey EXCEPT ![identity] = enqueued + 1]
    /\ ready' = Append(ready, enqueued + 1)
    /\ Wake
    /\ UNCHANGED <<deadLetters, waiting, started, current>>

StartQueue ==
    /\ ~started
    /\ started' = TRUE
    /\ scheduled' = (scheduled \/ ready # <<>>)
    /\ UNCHANGED <<jobs, jobIdByKey, deadLetters, ready, waiting, loop, current, enqueued>>

\* promoteWaiting: cancelled retries are ready at once.
StopQueue ==
    /\ started
    /\ started' = FALSE
    /\ ready' = ready \o waiting
    /\ waiting' = <<>>
    /\ UNCHANGED <<jobs, jobIdByKey, deadLetters, scheduled, loop, current, enqueued>>

-----------------------------------------------------------------------------
(* The delivery loop.                                                      *)

LoopFires ==
    /\ scheduled
    /\ loop # "ending"
    /\ scheduled' = FALSE
    /\ loop' = "running"
    /\ UNCHANGED <<jobs, jobIdByKey, deadLetters, ready, waiting, started, current, enqueued>>

Deliver ==
    /\ loop = "running"
    /\ current = None
    /\ ready # <<>>
    /\ ready' = Tail(ready)
    /\ IF jobs[Head(ready)] # None /\ jobs[Head(ready)].state = "QUEUED"
       THEN /\ jobs' = [jobs EXCEPT ![Head(ready)].state = "RUNNING"]
            /\ current' = Head(ready)
       ELSE UNCHANGED <<jobs, current>>
    /\ UNCHANGED <<jobIdByKey, deadLetters, waiting, started, scheduled, loop, enqueued>>

LoopEnds ==
    /\ loop = "running"
    /\ current = None
    /\ ready = <<>>
    /\ loop' = "ending"
    /\ UNCHANGED <<jobs, jobIdByKey, deadLetters, ready, waiting, started, scheduled, current,
                   enqueued>>

LoopCleared ==
    /\ loop = "ending"
    /\ loop' = "idle"
    /\ UNCHANGED <<jobs, jobIdByKey, deadLetters, ready, waiting, started, scheduled, current,
                   enqueued>>

\* The handler answered that the job is done, or cannot succeed.
FinishJob(state) ==
    /\ Prune([jobs EXCEPT ![current].state = state], deadLetters)
    /\ UNCHANGED <<ready, waiting>>

\* Mutants: the retry of a stopped queue waits for a timer nobody set; the
\* attempts are not counted.
RequeueSilently ==
    /\ jobs' = [jobs EXCEPT ![current].state = "QUEUED", ![current].attempt = @ + 1]
    /\ waiting' = IF started THEN Append(waiting, current) ELSE waiting
    /\ UNCHANGED <<ready, jobIdByKey, deadLetters>>
RequeueUncounted ==
    /\ jobs' = [jobs EXCEPT ![current].state = "QUEUED"]
    /\ IF started
       THEN waiting' = Append(waiting, current) /\ UNCHANGED ready
       ELSE ready' = Append(ready, current) /\ UNCHANGED waiting
    /\ UNCHANGED <<jobIdByKey, deadLetters>>

Requeue ==
    /\ jobs' = [jobs EXCEPT ![current].state = "QUEUED", ![current].attempt = @ + 1]
    /\ IF started
       THEN waiting' = Append(waiting, current) /\ UNCHANGED ready
       ELSE ready' = Append(ready, current) /\ UNCHANGED waiting
    /\ UNCHANGED <<jobIdByKey, deadLetters>>

GiveUp ==
    /\ Prune([jobs EXCEPT ![current].state = "FAILED"], deadLetters \cup {current})
    /\ UNCHANGED <<ready, waiting>>

\* Mutant: one attempt too many.
MayRetryOnceMore(job) == job.attempt <= MaxAttempts

MayRetry(job) == job.attempt < MaxAttempts

\* settle: what the handler answered, or RETRY when it threw.
Settle(outcome) ==
    /\ current # None
    /\ \/ outcome \in FinalStates /\ FinishJob(outcome)
       \/ outcome = "RETRY" /\ MayRetry(jobs[current]) /\ Requeue
       \/ outcome = "RETRY" /\ ~MayRetry(jobs[current]) /\ GiveUp
    /\ current' = None
    /\ UNCHANGED <<started, scheduled, loop, enqueued>>

Without(s, i) == SubSeq(s, 1, i - 1) \o SubSeq(s, i + 1, Len(s))

\* A retry's timer: the job is ready and the loop runs.
RetryFires(id) ==
    /\ loop # "ending"
    /\ \E i \in DOMAIN waiting : waiting[i] = id /\ waiting' = Without(waiting, i)
    /\ ready' = Append(ready, id)
    /\ loop' = "running"
    /\ UNCHANGED <<jobs, jobIdByKey, deadLetters, started, scheduled, current, enqueued>>

Outcomes == FinalStates \cup {"RETRY"}

QueueNext ==
    \/ \E identity \in Identities, payload \in Payloads : Enqueue(identity, payload)
    \/ StartQueue \/ StopQueue
    \/ LoopFires \/ Deliver \/ LoopEnds \/ LoopCleared
    \/ \E outcome \in Outcomes : Settle(outcome)
    \/ \E id \in Ids : RetryFires(id)

\* Callbacks run when they are due: the timers fire, the microtasks run, and
\* a handler returns (its model and repository calls are bounded by timeouts).
QueueFairness ==
    /\ WF_queueVars(LoopFires)
    /\ WF_queueVars(Deliver)
    /\ WF_queueVars(LoopEnds)
    /\ WF_queueVars(LoopCleared)
    /\ WF_queueVars(\E outcome \in Outcomes : Settle(outcome))
    /\ \A id \in Ids : WF_queueVars(RetryFires(id))

QueueSpec == QueueInit /\ [][QueueNext]_queueVars
FairQueueSpec == QueueSpec /\ QueueFairness

-----------------------------------------------------------------------------
(* Properties.                                                             *)

InState(id, state) == jobs[id] # None /\ jobs[id].state = state

\* A job that was accepted is always somewhere it will be delivered from: it
\* is on the ready list or on a retry timer, exactly once, or its handler is
\* running, and never in two of these places at once.
NoJobIsLost ==
    /\ IsInjective(ready) /\ IsInjective(waiting)
    /\ Range(ready) \cap Range(waiting) = {}
    /\ Range(ready) \cup Range(waiting) = {id \in Ids : InState(id, "QUEUED")}
    /\ {id \in Ids : InState(id, "RUNNING")} = {current} \ {None}

\* A started queue with work to deliver has a loop running or a timer that
\* will run it, although the loop ends one microtask before it is marked ended.
NoLostWakeup == started /\ ready # <<>> => loop = "running" \/ scheduled

\* The two lookups the code casts to a defined record are defined: a held
\* identity leads to the one held job of that identity, and the dead letters
\* are held jobs that failed on their last attempt.
LookupsAreSafe ==
    /\ \A identity \in Identities :
         jobIdByKey[identity] # None =>
           /\ jobs[jobIdByKey[identity]] # None
           /\ jobs[jobIdByKey[identity]].identity = identity
    /\ \A id \in Held(jobs) : jobIdByKey[jobs[id].identity] = id
    /\ \A id \in deadLetters : InState(id, "FAILED") /\ jobs[id].attempt = MaxAttempts

\* Finished jobs do not accumulate, whatever order jobs finish in.
RetentionIsBounded == Cardinality(FinishedIn(jobs)) <= MaxRetained

\* Only a finished job is ever forgotten, and a finished job never runs again:
\* an accepted identity is not accepted again while its job may still run.
UnfinishedIsNeverForgotten ==
    [][\A id \in Held(jobs) :
         \/ jobs'[id] # None /\ (jobs[id].state \in FinalStates => jobs'[id] = jobs[id])
         \/ jobs'[id] = None /\ (jobs[id].state \in FinalStates \/ id = current)]_queueVars

Promise == INSTANCE QueueContract WITH
    Numbers <- Ids, Names <- Identities, Loads <- Payloads, MostAttempts <- MaxAttempts,
    MostKept <- MaxRetained, Nothing <- None, held <- jobs, accepted <- enqueued

\* The queue keeps its promise to those who enqueue, whatever timers, stops and
\* retries interleave: one handler at a time, attempts counted, and an identity
\* accepted again only when its job has ended and was forgotten in its turn.
QueueKeepsPromise == Promise!Spec

\* If the queue is left started, every accepted job is finished in the end,
\* completed or failed, through retries, stops and starts.
EveryJobSettles ==
    <>[]started =>
      \A id \in Ids :
        (jobs[id] # None /\ jobs[id].state \notin FinalStates)
          ~> (jobs[id] = None \/ jobs[id].state \in FinalStates)

=============================================================================
