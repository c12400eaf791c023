-------------------------- MODULE JobPipelineProofs --------------------------
(***************************************************************************)
(* Proofs about JobPipeline for every number of runs, jobs, attempts, keys *)
(* and restarts: the pipeline is well typed, a run that verifies has its   *)
(* proposal written, and no run is stranded as long as the queue keeps the *)
(* record of the job it is running.                                        *)
(*                                                                         *)
(* The queue of the pipeline does what MemoryQueue says, except that a     *)
(* restart empties it, so its inductive invariant carries over.            *)
(***************************************************************************)
EXTENDS JobPipeline, MemoryQueueProofs

-----------------------------------------------------------------------------
(* The inductive invariant.                                                *)

\* The constants of the queue are wide enough for the jobs of the pipeline:
\* the code's identities and payloads are strings and objects of any length.
QueueTakesJobs ==
    /\ \A r \in Runs, n \in Nat : AnalyzeIdentity(r, n) \in Identities
    /\ \A k \in Keys : ApplyIdentity(k) \in Identities
    /\ \A r \in Runs, resolved \in BOOLEAN : AnalyzePayload(r, resolved) \in Payloads
    /\ \A r \in Runs, p \in Nat, k \in Keys : ApplyPayload(r, p, k) \in Payloads

\* The stages from which on a run has a proposal that never changes.
LateStages == {"awaiting_approval", "applying", "verifying", "completed", "failed"}

\* A job names a run that was started; an apply job names its run's proposal.
\* rs are the runs, and n proposals are stored.
IsSound(rs, n, identity, job) ==
    /\ job.run \in Runs /\ rs[job.run] # None
    /\ \/ /\ job.kind = "analyze"
          /\ \E resolved \in BOOLEAN : job = AnalyzePayload(job.run, resolved)
          /\ identity[3] \in Nat /\ identity = AnalyzeIdentity(job.run, identity[3])
       \/ /\ job.kind = "apply"
          /\ job.key \in Keys /\ identity = ApplyIdentity(job.key)
          /\ job = ApplyPayload(job.run, rs[job.run].proposal, job.key)
          /\ job.proposal \in 1..n
          /\ rs[job.run].stage \in LateStages

JobsAreSound ==
    \A id \in Held(jobs) : IsSound(runs, Len(proposals), jobs[id].identity, jobs[id].payload)

IsSoundCall(rs, n, c) ==
    \/ /\ c.kind = "enqueue" /\ c = EnqueueCall(c.identity, c.payload)
       /\ IsSound(rs, n, c.identity, c.payload)
    \/ c.kind = "close" /\ c.run \in Runs /\ rs[c.run] # None

CallsAreSound == \A c \in calls : IsSoundCall(runs, Len(proposals), c)

\* The call that starts a run is the only one of its identity, and nothing is
\* enqueued under it yet.
IsFirst(c) == c.kind = "enqueue" /\ c.identity = AnalyzeIdentity(c.payload.run, 1)

FirstCallsEnqueue ==
    \A c \in calls : IsFirst(c) =>
      /\ jobIdByKey[c.identity] = None
      /\ \A d \in calls : d.kind = "enqueue" /\ d.identity = c.identity => d = c

BinderIsSound == \A b \in binder : runs[b.run] # None

IsSoundRun(run, n) ==
    /\ run.stage \in {"awaiting_approval", "applying", "verifying"} => run.proposal \in 1..n
    /\ run.stage = "resolving" => run.length >= 2

RunsAreSound == \A r \in Runs : runs[r] # None => IsSoundRun(runs[r], Len(proposals))

ProposalsAreSound == \A p \in DOMAIN proposals : runs[proposals[p].run] # None

\* A key is spent on a proposal that was written.
SpentMeansApplied == \A k \in Keys : spent[k] # 0 => proposals[spent[k]].fate = "applied"

IsAtRest(run) ==
    \/ run.stage \in TerminalStages \cup {"awaiting_approval"}
    \/ run.stage = "resolving" /\ run.asked

ApplyPoints == {"claim", "reread", "apply", "verifying", "verify"}

\* What a handler that got to a point knows of its run, its job and the proposals.
Knows(point, run, job, ps) ==
    /\ point \in ApplyPoints => job.kind = "apply"
    /\ point = "await" => Len(ps) > 0
    /\ point = "verifying" => ps[job.proposal].fate = "applied"
    /\ point = "ask" => run.stage \in TerminalStages \cup {"resolving"}
    /\ point = "done" => IsAtRest(run)
    /\ point = "failed" => run.stage \in TerminalStages

PointIsSound == handler # None => Knows(handler, runs[Run], Job, proposals)

PInv ==
    /\ QInv /\ PipelineTypeOK
    /\ JobsAreSound /\ CallsAreSound /\ FirstCallsEnqueue /\ BinderIsSound
    /\ RunsAreSound /\ ProposalsAreSound /\ SpentMeansApplied
    /\ PointIsSound
    /\ VerifyingMeansApplied

\* Ownership that survives a call whose job another one answers for: of the
\* calls only the one that starts the run counts.
Owner(r) ==
    \/ \E c \in calls : IsFirst(c) /\ c.payload.run = r
    \/ \E id \in Held(jobs) : jobs[id].payload.run = r /\ jobs[id].state \notin FinalStates
    \/ \E b \in binder : b.run = r /\ b.to = "fail"

Rests(r) ==
    \/ IsTerminal(r) \/ runs[r].stage = "awaiting_approval"
    \/ runs[r].stage = "resolving" /\ (runs[r].asked \/ restarts > 0)

EveryRunIsOwned == \A r \in Runs : runs[r] # None => Rests(r) \/ Owner(r)

\* If the running job failed now for good, its record would still be there
\* when the binder asks for it: no more finished jobs are forgotten than are
\* older.
CurrentIsRetained ==
    current # None =>
      Cardinality({id \in FinishedIn(jobs) : id < current}) >= Cardinality(Held(jobs)) - MaxRetained

-----------------------------------------------------------------------------
(* What the queue does to the jobs, for the pipeline.                      *)

\* The steps of the queue other than accepting a job.
QueueAction ==
    \/ StartQueue \/ LoopFires \/ LoopEnds \/ LoopCleared \/ Deliver
    \/ \E id \in Ids : RetryFires(id)
    \/ \E outcome \in Outcomes : Settle(outcome)

\* A record that is held was held before and carries the same job.
JobsCarryOver ==
    \A id \in Held(jobs') :
      /\ id \in Held(jobs)
      /\ jobs'[id].identity = jobs[id].identity /\ jobs'[id].payload = jobs[id].payload

\* Unfinished jobs stay, except for the one whose handler returns.
UnfinishedStay ==
    \A id \in Held(jobs) : jobs[id].state \notin FinalStates /\ id # current =>
      id \in Held(jobs') /\ jobs'[id].state \notin FinalStates

IdentitiesFree == \A k \in Identities : jobIdByKey'[k] \in {None, jobIdByKey[k]}

\* A job whose handler returned is queued again, or final, or forgotten.
LEMMA SettleFrame ==
  ASSUME QInv, NEW outcome \in Outcomes, Settle(outcome)
  PROVE  /\ JobsCarryOver /\ UnfinishedStay /\ IdentitiesFree
         /\ current' = None
         /\ IF outcome = "RETRY" /\ MayRetry(jobs[current])
            THEN current \in Held(jobs') /\ jobs'[current].state = "QUEUED"
            ELSE jobs'[current] = None \/ jobs'[current].state \in FinalStates
<1>1. /\ current \in Ids /\ jobs[current] \in JobRecords /\ jobs[current] # None /\ current' = None
      /\ jobs \in [Ids -> JobRecords \cup {None}] /\ jobIdByKey \in [Identities -> Ids \cup {None}]
      /\ deadLetters \in SUBSET Ids
  BY CurrentRuns DEF Settle, QInv, QueueTypeOK
<1>2. CASE outcome = "RETRY" /\ MayRetry(jobs[current]) /\ Requeue
  <2>1. /\ \A id \in Ids \ {current} : jobs'[id] = jobs[id]
        /\ jobs'[current].identity = jobs[current].identity
        /\ jobs'[current].payload = jobs[current].payload
        /\ jobs'[current].state = "QUEUED"
        /\ UNCHANGED jobIdByKey
    BY <1>1, <1>2 DEF Requeue, JobRecords
  <2>2. jobs'[current] # None
    <3>1. jobs' = [jobs EXCEPT ![current].state = "QUEUED", ![current].attempt = jobs[current].attempt + 1]
      BY <1>1, <1>2 DEF Requeue
    <3>2. jobs'[current] = [jobs[current] EXCEPT !.state = "QUEUED", !.attempt = jobs[current].attempt + 1]
      BY <1>1, <3>1
    <3>3. jobs[current].attempt + 1 \in 1..MaxAttempts
      BY <1>1, <1>2, MaxAttemptsIsPositive DEF MayRetry, JobRecords
    <3>4. jobs'[current] \in JobRecords
      BY <1>1, <3>2, <3>3 DEF JobRecords, States
    <3> QED
      BY <3>4, NoneIsNoRecord
  <2>3. JobsCarryOver
    BY <1>1, <2>1 DEF JobsCarryOver, Held
  <2>4. UnfinishedStay
    BY <1>1, <2>1 DEF UnfinishedStay, Held
  <2>5. IdentitiesFree
    BY <2>1 DEF IdentitiesFree
  <2> QED
    BY <1>1, <1>2, <2>1, <2>2, <2>3, <2>4, <2>5 DEF Held, FinalStates
<1>3. ASSUME NEW state \in FinalStates, NEW dead \in SUBSET Ids,
             Prune([jobs EXCEPT ![current].state = state], dead)
      PROVE  /\ JobsCarryOver /\ UnfinishedStay /\ IdentitiesFree
             /\ jobs'[current] = None \/ jobs'[current].state \in FinalStates
  <2>a. SUFFICES ASSUME NEW js, js = [jobs EXCEPT ![current].state = state]
                 PROVE  /\ JobsCarryOver /\ UnfinishedStay /\ IdentitiesFree
                        /\ jobs'[current] = None \/ jobs'[current].state \in FinalStates
    OBVIOUS
  <2>1. /\ \A id \in Ids \ {current} : js[id] = jobs[id]
        /\ js[current].identity = jobs[current].identity
        /\ js[current].payload = jobs[current].payload
        /\ js[current].state = state
        /\ js[current] \in JobRecords
        /\ js \in [Ids -> JobRecords \cup {None}]
    BY <1>1, <2>a DEF JobRecords, States
  <2>2. Prune(js, dead)
    BY <1>3, <2>a
  <2>3. \A id \in Ids : \/ jobs'[id] = js[id]
                        \/ jobs'[id] = None /\ js[id] # None /\ js[id].state \in FinalStates
    BY <1>1, <2>1, <2>2, PruneKeeps
  <2>4. JobsCarryOver
    BY <1>1, <2>1, <2>3 DEF JobsCarryOver, Held
  <2>5. UnfinishedStay
    BY <1>1, <2>1, <2>3 DEF UnfinishedStay, Held
  <2>6. IdentitiesFree
    BY <2>2 DEF Prune, IdentitiesFree
  <2> QED
    BY <1>1, <2>1, <2>3, <2>4, <2>5, <2>6
<1>4. CASE outcome \in FinalStates /\ FinishJob(outcome)
  BY <1>1, <1>3, <1>4 DEF FinishJob, FinalStates
<1>5. CASE outcome = "RETRY" /\ ~MayRetry(jobs[current]) /\ GiveUp
  <2>1. "FAILED" \in FinalStates /\ deadLetters \cup {current} \in SUBSET Ids
    BY <1>1 DEF FinalStates
  <2> QED
    BY <1>1, <1>3, <1>5, <2>1 DEF GiveUp
<1> QED
  BY <1>2, <1>4, <1>5 DEF Settle

LEMMA DeliverFrame ==
  ASSUME QInv, Deliver
  PROVE  JobsCarryOver /\ UnfinishedStay /\ IdentitiesFree
<1>1. /\ jobs \in [Ids -> JobRecords \cup {None}] /\ UNCHANGED jobIdByKey
  BY DEF Deliver, QInv, QueueTypeOK
<1>2. CASE jobs' = jobs
  BY <1>1, <1>2 DEF JobsCarryOver, UnfinishedStay, IdentitiesFree
<1>3. CASE /\ jobs' = [jobs EXCEPT ![Head(ready)].state = "RUNNING"]
           /\ jobs[Head(ready)] # None
  <2>a. SUFFICES ASSUME NEW next, next = Head(ready)
                 PROVE  JobsCarryOver /\ UnfinishedStay /\ IdentitiesFree
    OBVIOUS
  <2>1. CASE next \in Ids
    <3>1. /\ \A id \in Ids \ {next} : jobs'[id] = jobs[id]
          /\ jobs[next] \in JobRecords
          /\ jobs'[next] = [jobs[next] EXCEPT !.state = "RUNNING"]
      BY <1>1, <1>3, <2>a, <2>1
    <3>2. /\ jobs'[next] \in JobRecords /\ jobs'[next].state = "RUNNING"
          /\ jobs'[next].identity = jobs[next].identity /\ jobs'[next].payload = jobs[next].payload
      BY <3>1 DEF JobRecords, States
    <3>3. jobs'[next] # None
      BY <3>2, NoneIsNoRecord
    <3> QED
      BY <1>1, <1>3, <2>a, <3>1, <3>2, <3>3
      DEF JobsCarryOver, UnfinishedStay, IdentitiesFree, Held, FinalStates
  <2>2. CASE next \notin Ids
    <3>1. jobs' = jobs
      BY <1>1, <1>3, <2>a, <2>2
    <3> QED
      BY <1>2, <3>1
  <2> QED
    BY <2>1, <2>2
<1> QED
  BY <1>2, <1>3 DEF Deliver

LEMMA QueueFrame ==
  ASSUME QInv, QueueAction
  PROVE  /\ QInv' /\ JobsCarryOver /\ IdentitiesFree
         /\ (\E outcome \in Outcomes : Settle(outcome)) \/ UnfinishedStay
<1>1. QInv'
  BY NextInv DEF QueueAction, QueueNext
<1>2. CASE \E outcome \in Outcomes : Settle(outcome)
  BY <1>1, <1>2, SettleFrame
<1>3. CASE Deliver
  BY <1>1, <1>3, DeliverFrame
<1>4. CASE StartQueue \/ LoopFires \/ LoopEnds \/ LoopCleared \/ (\E id \in Ids : RetryFires(id))
  <2>1. UNCHANGED <<jobs, jobIdByKey>>
    BY <1>4 DEF StartQueue, LoopFires, LoopEnds, LoopCleared, RetryFires
  <2> QED
    BY <1>1, <2>1 DEF JobsCarryOver, UnfinishedStay, IdentitiesFree
<1> QED
  BY <1>2, <1>3, <1>4 DEF QueueAction

-----------------------------------------------------------------------------
(* The stage machine.                                                      *)

LEMMA StagesAre ==
  Stages = {"received", "resolving", "analyzing", "simulating", "validating",
            "awaiting_approval", "applying", "verifying", "completed", "failed"}
<1>1. DOMAIN StageOrder = 1..9
  BY DEF StageOrder
<1>2. \A i \in 1..9 : i = 1 \/ i = 2 \/ i = 3 \/ i = 4 \/ i = 5 \/ i = 6 \/ i = 7 \/ i = 8 \/ i = 9
  OBVIOUS
<1>3. Range(StageOrder) = {StageOrder[i] : i \in 1..9}
  BY <1>1 DEF Range
<1>4. /\ StageOrder[1] = "received" /\ StageOrder[2] = "resolving" /\ StageOrder[3] = "analyzing"
      /\ StageOrder[4] = "simulating" /\ StageOrder[5] = "validating"
      /\ StageOrder[6] = "awaiting_approval" /\ StageOrder[7] = "applying"
      /\ StageOrder[8] = "verifying" /\ StageOrder[9] = "completed"
  BY DEF StageOrder
<1>5. 1 \in 1..9 /\ 2 \in 1..9 /\ 3 \in 1..9 /\ 4 \in 1..9 /\ 5 \in 1..9 /\ 6 \in 1..9
      /\ 7 \in 1..9 /\ 8 \in 1..9 /\ 9 \in 1..9
  OBVIOUS
<1> HIDE DEF StageOrder
<1>6. Range(StageOrder) =
        {"received", "resolving", "analyzing", "simulating", "validating",
         "awaiting_approval", "applying", "verifying", "completed"}
  BY <1>2, <1>3, <1>4, <1>5
<1> QED
  BY <1>6 DEF Stages

\* The graph leads only forwards, and nowhere from its ends.
LEMMA Edges ==
  ASSUME NEW from \in Stages, NEW to, CanAdvance(from, to)
  PROVE  /\ to \in Stages /\ from \notin TerminalStages
         /\ from \in LateStages => to \in LateStages
         /\ to = "resolving" => from = "received"
         /\ to = "awaiting_approval" => from = "validating"
         /\ to = "applying" => from = "awaiting_approval"
         /\ to = "verifying" => from = "applying"
         /\ from = "awaiting_approval" => to # "verifying"
BY StagesAre DEF CanAdvance, JobStageTransitions, TerminalStages, LateStages

\* What a run keeps of itself, whoever moves it.
Follows(x, y) ==
    /\ y \in RunRecords
    /\ x.stage \in LateStages => y.stage \in LateStages /\ y.proposal = x.proposal
    /\ x.stage \in TerminalStages => y.stage \in TerminalStages

\* What others do to the run of a handler: they end it or take a note.
Leaves(x, y) ==
    \/ y.stage \in TerminalStages
    \/ y.stage = x.stage /\ (x.asked => y.asked)

LEMMA MovedRun ==
  ASSUME NEW x \in RunRecords, NEW to \in Stages
  PROVE  /\ Moved(x, to) \in RunRecords
         /\ Moved(x, to).stage = to /\ Moved(x, to).proposal = x.proposal
         /\ Moved(x, to).asked = x.asked
         /\ to = "resolving" => Moved(x, to).length >= 2
<1>1. x.length + 2 \in Nat /\ x.length + 2 >= 2 /\ 0 \in Nat
  BY DEF RunRecords
<1>2. CASE to = "resolving"
  <2>1. Moved(x, to) = [x EXCEPT !.stage = to, !.length = x.length + 2]
    BY <1>2 DEF Moved
  <2> QED
    BY <1>1, <2>1 DEF RunRecords
<1>3. CASE to # "resolving"
  <2>1. Moved(x, to) = [x EXCEPT !.stage = to, !.length = 0]
    BY <1>3 DEF Moved
  <2> QED
    BY <1>1, <1>3, <2>1 DEF RunRecords
<1> QED
  BY <1>2, <1>3

LEMMA NotedRun ==
  ASSUME NEW x \in RunRecords, NEW asked \in BOOLEAN
  PROVE  /\ Noted(x, asked) \in RunRecords
         /\ Noted(x, asked).stage = x.stage /\ Noted(x, asked).proposal = x.proposal
         /\ Noted(x, asked).asked = (x.asked \/ asked)
         /\ x.length >= 2 => Noted(x, asked).length >= 2
<1>1. x.length + 1 \in Nat /\ 0 \in Nat /\ (x.asked \/ asked) \in BOOLEAN
  BY DEF RunRecords
<1>2. CASE x.length = 0
  <2>1. Noted(x, asked) = [x EXCEPT !.asked = x.asked \/ asked, !.length = 0]
    BY <1>2 DEF Noted
  <2> QED
    BY <1>1, <1>2, <2>1 DEF RunRecords
<1>3. CASE x.length # 0
  <2>a. SUFFICES ASSUME NEW n, n = x.length + 1, NEW both, both = (x.asked \/ asked)
                 PROVE  /\ Noted(x, asked) \in RunRecords
                        /\ Noted(x, asked).stage = x.stage
                        /\ Noted(x, asked).proposal = x.proposal
                        /\ Noted(x, asked).asked = both
                        /\ x.length >= 2 => Noted(x, asked).length >= 2
    OBVIOUS
  <2>1. Noted(x, asked) = [x EXCEPT !.asked = both, !.length = n]
    BY <1>3, <2>a DEF Noted
  <2>2. n \in Nat /\ (x.length >= 2 => n >= 2) /\ both \in BOOLEAN
    BY <1>1, <2>a DEF RunRecords
  <2> QED
    BY <2>1, <2>2 DEF RunRecords
<1> QED
  BY <1>2, <1>3

-----------------------------------------------------------------------------
(* What a step leaves true when it only moves the store on.                *)

StoreEvolves ==
    /\ \A r \in Runs : runs[r] # None => runs'[r] # None /\ Follows(runs[r], runs'[r])
    /\ Len(proposals) \in Nat /\ Len(proposals') \in Nat /\ Len(proposals) <= Len(proposals')
    /\ DOMAIN proposals = 1..Len(proposals) /\ DOMAIN proposals' = 1..Len(proposals')
    /\ \A p \in DOMAIN proposals :
         /\ proposals'[p].run = proposals[p].run
         /\ proposals[p].fate = "applied" => proposals'[p].fate = "applied"

\* Runs follow their graph and proposals are added: a sound job stays sound.
LEMMA SoundStays ==
  ASSUME NEW rs, NEW ss, NEW n \in Nat, NEW m \in Nat, n <= m,
         \A r \in Runs : rs[r] # None => ss[r] # None /\ Follows(rs[r], ss[r])
  PROVE  /\ \A identity, job : IsSound(rs, n, identity, job) => IsSound(ss, m, identity, job)
         /\ \A c : IsSoundCall(rs, n, c) => IsSoundCall(ss, m, c)
<1>1. ASSUME NEW identity, NEW job, IsSound(rs, n, identity, job)
      PROVE  IsSound(ss, m, identity, job)
  <2>1. /\ job.run \in Runs /\ rs[job.run] # None /\ ss[job.run] # None
        /\ Follows(rs[job.run], ss[job.run])
    BY <1>1 DEF IsSound
  <2>2. CASE job.kind = "analyze"
    BY <1>1, <2>1, <2>2 DEF IsSound
  <2>3. CASE job.kind = "apply"
    <3>1. /\ job.key \in Keys /\ identity = ApplyIdentity(job.key)
          /\ job = ApplyPayload(job.run, rs[job.run].proposal, job.key)
          /\ job.proposal \in 1..n
          /\ rs[job.run].stage \in LateStages
      BY <1>1, <2>3 DEF IsSound
    <3>2. ss[job.run].stage \in LateStages /\ ss[job.run].proposal = rs[job.run].proposal
      BY <2>1, <3>1 DEF Follows
    <3>3. job.proposal \in 1..m
      BY <3>1
    <3> QED
      BY <2>1, <2>3, <3>1, <3>2, <3>3 DEF IsSound
  <2> QED
    BY <1>1, <2>2, <2>3 DEF IsSound
<1>2. ASSUME NEW c, IsSoundCall(rs, n, c) PROVE IsSoundCall(ss, m, c)
  BY <1>1, <1>2 DEF IsSoundCall
<1> QED
  BY <1>1, <1>2

\* No job is added, and one call at most.
LEMMA QueueCarry ==
  ASSUME PInv, StoreEvolves, JobsCarryOver, NEW new, calls' \subseteq calls \cup {new},
         new \in calls \/ IsSoundCall(runs', Len(proposals'), new)
  PROVE  JobsAreSound' /\ CallsAreSound'
<1>1. /\ \A identity, job : IsSound(runs, Len(proposals), identity, job)
                              => IsSound(runs', Len(proposals'), identity, job)
      /\ \A c : IsSoundCall(runs, Len(proposals), c) => IsSoundCall(runs', Len(proposals'), c)
  BY SoundStays DEF StoreEvolves
<1>2. JobsAreSound'
  <2> SUFFICES ASSUME NEW id \in Held(jobs')
               PROVE  IsSound(runs', Len(proposals'), jobs'[id].identity, jobs'[id].payload)
    BY DEF JobsAreSound
  <2>1. IsSound(runs, Len(proposals), jobs[id].identity, jobs[id].payload)
    BY DEF PInv, JobsAreSound, JobsCarryOver
  <2> QED
    BY <1>1, <2>1 DEF JobsCarryOver
<1>3. CallsAreSound'
  <2> SUFFICES ASSUME NEW c \in calls' PROVE IsSoundCall(runs', Len(proposals'), c)
    BY DEF CallsAreSound
  <2>1. CASE c \in calls
    BY <1>1, <2>1 DEF PInv, CallsAreSound
  <2> QED
    BY <2>1
<1> QED
  BY <1>2, <1>3

\* The identity of an enqueue call is one the queue knows.
LEMMA CallIdentity ==
  ASSUME PInv, QueueTakesJobs, NEW c \in calls, c.kind = "enqueue"
  PROVE  /\ c.identity \in Identities /\ c.payload \in Payloads
         /\ IsSound(runs, Len(proposals), c.identity, c.payload)
<1>1. IsSound(runs, Len(proposals), c.identity, c.payload)
  BY DEF PInv, CallsAreSound, IsSoundCall
<1>2. CASE c.payload.kind = "analyze"
  BY <1>1, <1>2 DEF IsSound, QueueTakesJobs
<1>3. CASE c.payload.kind = "apply"
  <2>1. proposals \in Seq(ProposalRecords)
    BY DEF PInv, PipelineTypeOK
  <2>2. /\ c.payload.run \in Runs /\ c.payload.key \in Keys /\ c.identity = ApplyIdentity(c.payload.key)
        /\ c.payload.proposal \in 1..Len(proposals)
        /\ c.payload = ApplyPayload(c.payload.run, runs[c.payload.run].proposal, c.payload.key)
    BY <1>1, <1>3 DEF IsSound
  <2>3. c.payload.proposal = runs[c.payload.run].proposal
    BY <2>2 DEF ApplyPayload
  <2>4. c.payload.proposal \in Nat
    BY <2>1, <2>2
  <2> QED
    BY <1>1, <2>2, <2>3, <2>4 DEF QueueTakesJobs
<1> QED
  BY <1>1, <1>2, <1>3 DEF IsSound

LEMMA FirstCarry ==
  ASSUME PInv, QueueTakesJobs, IdentitiesFree, NEW new, calls' \subseteq calls \cup {new},
         \/ new \in calls \/ new.kind # "enqueue"
         \/ \A r : new.identity # AnalyzeIdentity(r, 1)
  PROVE  FirstCallsEnqueue'
<1> SUFFICES ASSUME NEW c \in calls', IsFirst(c)
             PROVE  /\ jobIdByKey'[c.identity] = None
                    /\ \A d \in calls' : d.kind = "enqueue" /\ d.identity = c.identity => d = c
  BY DEF FirstCallsEnqueue, IsFirst
<1>0. c \in calls
  BY DEF IsFirst
<1>1. c.identity \in Identities
  BY <1>0, CallIdentity DEF IsFirst
<1>2. /\ jobIdByKey[c.identity] = None
      /\ \A d \in calls : d.kind = "enqueue" /\ d.identity = c.identity => d = c
  BY <1>0 DEF PInv, FirstCallsEnqueue
<1> QED
  BY <1>1, <1>2 DEF IdentitiesFree, IsFirst

LEMMA ElementOf == ASSUME NEW S, NEW s \in Seq(S) PROVE \A i \in DOMAIN s : s[i] \in S
OBVIOUS

LEMMA UpdateOf ==
  ASSUME NEW S, NEW s \in Seq(S), NEW i, NEW x \in S
  PROVE  /\ [s EXCEPT ![i] = x] \in Seq(S)
         /\ Len([s EXCEPT ![i] = x]) = Len(s) /\ DOMAIN [s EXCEPT ![i] = x] = DOMAIN s
<1>a. SUFFICES ASSUME NEW t, t = [s EXCEPT ![i] = x]
               PROVE  t \in Seq(S) /\ Len(t) = Len(s) /\ DOMAIN t = DOMAIN s
  OBVIOUS
<1>1. DOMAIN s = 1..Len(s) /\ Len(s) \in Nat /\ \A j \in DOMAIN s : s[j] \in S
  OBVIOUS
<1>2. t = [j \in 1..Len(s) |-> IF j = i THEN x ELSE s[j]]
  BY <1>1, <1>a
<1>3. \A j \in 1..Len(s) : (IF j = i THEN x ELSE s[j]) \in S
  BY <1>1
<1> QED
  BY <1>1, <1>2, <1>3

LEMMA AppendIs ==
  ASSUME NEW S, NEW s \in Seq(S), NEW x \in S, NEW t, t = Append(s, x)
  PROVE  /\ t \in Seq(S) /\ Len(t) = Len(s) + 1
         /\ \A i \in DOMAIN s : t[i] = s[i]
         /\ \A i \in DOMAIN t : i \in DOMAIN s \/ t[i] = x
<1>1. t \in Seq(S) /\ Len(t) = Len(s) + 1 /\ Len(s) \in Nat /\ DOMAIN s = 1..Len(s)
  OBVIOUS
<1>2. \A i \in 1..Len(s) : t[i] = s[i]
  OBVIOUS
<1>3. t[Len(s) + 1] = x /\ DOMAIN t = 1..(Len(s) + 1)
  BY <1>1
<1>4. \A i \in DOMAIN t : i \in DOMAIN s \/ i = Len(s) + 1
  BY <1>1, <1>3
<1> QED
  BY <1>1, <1>2, <1>3, <1>4

LEMMA ProposalIs ==
  ASSUME NEW ps \in Seq(ProposalRecords)
  PROVE  /\ Len(ps) \in Nat /\ DOMAIN ps = 1..Len(ps)
         /\ \A p \in DOMAIN ps : ps[p] \in ProposalRecords /\ ps[p].run \in Runs
<1>1. Len(ps) \in Nat /\ DOMAIN ps = 1..Len(ps)
  OBVIOUS
<1>2. \A p \in DOMAIN ps : ps[p] \in ProposalRecords
  BY ElementOf
<1> QED
  BY <1>1, <1>2 DEF ProposalRecords

LEMMA StoreCarry ==
  ASSUME PInv, StoreEvolves,
         \A b \in binder' : b \in binder \/ (b.run \in Runs /\ runs[b.run] # None),
         \A p \in DOMAIN proposals' : p \in DOMAIN proposals \/ runs[proposals'[p].run] # None,
         proposals' \in Seq(ProposalRecords),
         \A k \in Keys : spent'[k] = spent[k] \/ proposals'[spent'[k]].fate = "applied",
         \A r \in Runs : runs'[r] # None /\ runs'[r].stage = "verifying" =>
           \/ runs[r] # None /\ runs[r].stage = "verifying"
           \/ proposals'[runs'[r].proposal].fate = "applied"
  PROVE  BinderIsSound' /\ ProposalsAreSound' /\ SpentMeansApplied' /\ VerifyingMeansApplied'
<1>1. BinderIsSound'
  BY DEF PInv, BinderIsSound, PipelineTypeOK, StoreEvolves
<1>2. ProposalsAreSound'
  <2> SUFFICES ASSUME NEW p \in DOMAIN proposals' PROVE runs'[proposals'[p].run] # None
    BY DEF ProposalsAreSound
  <2>1. proposals'[p].run \in Runs
    BY ProposalIs
  <2>2. runs[proposals'[p].run] # None
    BY DEF PInv, ProposalsAreSound, StoreEvolves
  <2> QED
    BY <2>1, <2>2 DEF StoreEvolves
<1>3. SpentMeansApplied'
  <2> SUFFICES ASSUME NEW k \in Keys, spent'[k] # 0 PROVE proposals'[spent'[k]].fate = "applied"
    BY DEF SpentMeansApplied
  <2>1. CASE spent'[k] = spent[k]
    <3>1. spent[k] \in DOMAIN proposals /\ proposals[spent[k]].fate = "applied"
      <4>1. spent[k] \in 0..Len(proposals) /\ spent[k] # 0
        BY <2>1 DEF PInv, PipelineTypeOK
      <4>2. spent[k] \in DOMAIN proposals
        BY <4>1 DEF StoreEvolves
      <4> QED
        BY <4>1, <4>2 DEF PInv, SpentMeansApplied
    <3> QED
      BY <2>1, <3>1 DEF StoreEvolves
  <2> QED
    BY <2>1
<1>4. VerifyingMeansApplied'
  <2> SUFFICES ASSUME NEW r \in Runs, runs'[r] # None, runs'[r].stage = "verifying",
                      runs[r] # None, runs[r].stage = "verifying"
               PROVE  proposals'[runs'[r].proposal].fate = "applied"
    BY DEF VerifyingMeansApplied
  <2>1. runs'[r].proposal = runs[r].proposal
    BY DEF StoreEvolves, Follows, LateStages
  <2>2. runs[r].proposal \in DOMAIN proposals /\ proposals[runs[r].proposal].fate = "applied"
    BY DEF PInv, VerifyingMeansApplied, RunsAreSound, IsSoundRun, StoreEvolves
  <2> QED
    BY <2>1, <2>2 DEF StoreEvolves
<1> QED
  BY <1>1, <1>2, <1>3, <1>4

\* The job of a handler names a run.
LEMMA HandlerOwns ==
  ASSUME PInv, handler # None
  PROVE  /\ current \in Ids /\ current # None /\ current \in Held(jobs) /\ QInv
         /\ jobs[current] \in JobRecords /\ jobs[current].state = "RUNNING"
         /\ IsSound(runs, Len(proposals), jobs[current].identity, Job)
         /\ Run \in Runs /\ runs[Run] # None /\ runs[Run] \in RunRecords
         /\ Len(proposals) \in Nat /\ DOMAIN proposals = 1..Len(proposals)
<1>1. current # None /\ QInv
  BY DEF PInv, PipelineTypeOK
<1>2. current \in Held(jobs)
  BY <1>1, CurrentRuns DEF Held
<1>3. IsSound(runs, Len(proposals), jobs[current].identity, Job)
  BY <1>2 DEF PInv, JobsAreSound, Job
<1>4. Run \in Runs /\ runs[Run] # None /\ runs[Run] \in RunRecords
  BY <1>3 DEF IsSound, Run, PInv, PipelineTypeOK
<1> QED
  BY <1>1, <1>2, <1>3, <1>4, CurrentRuns DEF PInv, PipelineTypeOK

\* A step of somebody else leaves a handler's knowledge true.
LEMMA PointStays ==
  ASSUME PInv, StoreEvolves, UNCHANGED <<handler, current>>, JobsCarryOver,
         handler # None => current \in Held(jobs'),
         \A r \in Runs : runs[r] # None => Leaves(runs[r], runs'[r])
  PROVE  PointIsSound'
<1> SUFFICES ASSUME handler # None PROVE PointIsSound'
  BY DEF PointIsSound
<1>1. /\ Run \in Runs /\ runs[Run] # None /\ Len(proposals) \in Nat
      /\ DOMAIN proposals = 1..Len(proposals)
      /\ IsSound(runs, Len(proposals), jobs[current].identity, Job)
  BY HandlerOwns
<1>2. Job' = Job /\ Run' = Run
  BY DEF JobsCarryOver, Job, Run
<1>a. SUFFICES ASSUME NEW r \in Runs, r = Run, NEW job, job = Job, NEW x, x = runs[r], NEW y, y = runs'[r]
               PROVE  PointIsSound'
  BY <1>1
<1>3. Leaves(x, y) /\ Follows(x, y)
  BY <1>1, <1>a DEF StoreEvolves
<1>4. Knows(handler, x, job, proposals)
  BY <1>a DEF PInv, PointIsSound
<1>5. handler = "verifying" => job.proposal \in DOMAIN proposals
  BY <1>1, <1>4, <1>a DEF ApplyPoints, IsSound, Knows
<1>6. Knows(handler, y, job, proposals')
  <2>1. /\ handler \in ApplyPoints => job.kind = "apply"
        /\ handler = "await" => Len(proposals') > 0
        /\ handler = "verifying" => proposals'[job.proposal].fate = "applied"
    BY <1>4, <1>5 DEF StoreEvolves, Knows
  <2>2. /\ handler = "ask" => y.stage \in TerminalStages \cup {"resolving"}
        /\ handler = "done" => IsAtRest(y)
        /\ handler = "failed" => y.stage \in TerminalStages
    BY <1>3, <1>4 DEF Leaves, Follows, Knows, IsAtRest
  <2> QED
    BY <2>1, <2>2 DEF Knows
<1> QED
  BY <1>2, <1>6, <1>a DEF PointIsSound

\* The same for a step without calls of its own.
LEMMA NoCallCarry ==
  ASSUME PInv, QueueTakesJobs, StoreEvolves, JobsCarryOver, IdentitiesFree, calls' \subseteq calls
  PROVE  JobsAreSound' /\ CallsAreSound' /\ FirstCallsEnqueue'
<1>1. CASE calls = {}
  <2>1. calls' = {}
    BY <1>1
  <2>2. CallsAreSound' /\ FirstCallsEnqueue'
    BY <2>1 DEF CallsAreSound, FirstCallsEnqueue
  <2>3. JobsAreSound'
    BY SoundStays DEF StoreEvolves, PInv, JobsAreSound, JobsCarryOver
  <2> QED
    BY <2>2, <2>3
<1>2. CASE calls # {}
  <2>1. PICK c \in calls : TRUE
    BY <1>2
  <2>2. calls' \subseteq calls \cup {c}
    OBVIOUS
  <2> QED
    BY <2>1, <2>2, QueueCarry, FirstCarry
<1> QED
  BY <1>1, <1>2

-----------------------------------------------------------------------------
(* The routes.                                                             *)

LEMMA FollowsItself == ASSUME NEW x \in RunRecords PROVE Follows(x, x) /\ Leaves(x, x)
BY DEF Follows, Leaves

\* Nothing of the store moves but the fates of proposals, and no applied one.
LEMMA RunsStay ==
  ASSUME PInv, UNCHANGED runs, proposals' \in Seq(ProposalRecords),
         Len(proposals') >= Len(proposals),
         \A p \in DOMAIN proposals :
           /\ proposals'[p].run = proposals[p].run
           /\ proposals[p].fate = "applied" => proposals'[p].fate = "applied"
  PROVE  /\ StoreEvolves /\ RunsAreSound'
         /\ \A r \in Runs : runs[r] # None => Leaves(runs[r], runs'[r])
<1>1. /\ Len(proposals) \in Nat /\ Len(proposals') \in Nat
      /\ DOMAIN proposals = 1..Len(proposals) /\ DOMAIN proposals' = 1..Len(proposals')
  BY ProposalIs DEF PInv, PipelineTypeOK
<1>2. \A r \in Runs : runs[r] # None => Follows(runs[r], runs[r]) /\ Leaves(runs[r], runs[r])
  BY FollowsItself DEF PInv, PipelineTypeOK
<1>3. StoreEvolves
  BY <1>1, <1>2 DEF StoreEvolves
<1>4. RunsAreSound'
  <2> SUFFICES ASSUME NEW r \in Runs, runs[r] # None PROVE IsSoundRun(runs[r], Len(proposals'))
    BY DEF RunsAreSound
  <2>1. IsSoundRun(runs[r], Len(proposals))
    BY DEF PInv, RunsAreSound
  <2> QED
    BY <1>1, <2>1 DEF IsSoundRun
<1> QED
  BY <1>2, <1>3, <1>4

\* The queue does not move.
LEMMA QueueStays ==
  ASSUME PInv, UNCHANGED queueVars
  PROVE  /\ QInv' /\ QueueTypeOK' /\ JobsCarryOver /\ UnfinishedStay /\ IdentitiesFree
         /\ UNCHANGED <<jobs, current, jobIdByKey>>
<1>1. QInv' /\ QueueTypeOK'
  BY StutterInv DEF PInv, QInv
<1> QED
  BY <1>1 DEF queueVars, JobsCarryOver, UnfinishedStay, IdentitiesFree

\* Routes that change nothing but the fates of proposals and their own calls.
LEMMA RouteInv ==
  ASSUME PInv, QueueTakesJobs, UNCHANGED <<queueVars, runs, submitted, handler, binder, restarts>>,
         proposals' \in Seq(ProposalRecords), Len(proposals') = Len(proposals),
         \A p \in DOMAIN proposals :
           /\ proposals'[p].run = proposals[p].run
           /\ proposals[p].fate = "applied" => proposals'[p].fate = "applied",
         spent' \in [Keys -> 0..Len(proposals)],
         \A k \in Keys : spent'[k] = spent[k] \/ proposals'[spent'[k]].fate = "applied",
         NEW new, calls' \subseteq calls \cup {new},
         \/ new \in calls
         \/ /\ IsSoundCall(runs', Len(proposals'), new)
            /\ new.kind # "enqueue" \/ \A r : new.identity # AnalyzeIdentity(r, 1)
  PROVE  PInv'
<1>1. /\ QInv' /\ QueueTypeOK' /\ JobsCarryOver /\ IdentitiesFree
      /\ UNCHANGED <<jobs, current>>
  BY QueueStays
<1>2. /\ Len(proposals) \in Nat /\ DOMAIN proposals' = DOMAIN proposals
      /\ DOMAIN proposals = 1..Len(proposals)
  BY ProposalIs DEF PInv, PipelineTypeOK
<1>3. /\ StoreEvolves /\ RunsAreSound'
      /\ \A r \in Runs : runs[r] # None => Leaves(runs[r], runs'[r])
  BY <1>2, RunsStay
<1>4. JobsAreSound' /\ CallsAreSound'
  BY <1>1, <1>3, QueueCarry
<1>5. FirstCallsEnqueue'
  BY <1>1, FirstCarry
<1>6. BinderIsSound' /\ ProposalsAreSound' /\ SpentMeansApplied' /\ VerifyingMeansApplied'
  BY <1>2, <1>3, StoreCarry
<1>7. PointIsSound'
  BY <1>1, <1>3, PointStays, HandlerOwns
<1>8. PipelineTypeOK'
  <2>1. new \notin calls => new.kind \in {"enqueue", "close"}
    BY DEF IsSoundCall
  <2> QED
    BY <1>1, <1>2, <2>1 DEF PInv, PipelineTypeOK
<1> QED
  BY <1>1, <1>3, <1>4, <1>5, <1>6, <1>7, <1>8 DEF PInv

LEMMA SubmitInv ==
  ASSUME PInv, QueueTakesJobs, NEW r \in Runs, NEW resolved \in BOOLEAN, SubmitChange(r, resolved)
  PROVE  PInv'
<1>a. SUFFICES ASSUME NEW first, first = StartedRun,
                      NEW new, new = EnqueueCall(AnalyzeIdentity(r, 1), AnalyzePayload(r, resolved))
               PROVE  PInv'
  OBVIOUS
<1>0. /\ runs \in [Runs -> RunRecords \cup {None}] /\ runs[r] = None
      /\ runs' = [runs EXCEPT ![r] = first] /\ calls' = calls \cup {new}
      /\ UNCHANGED <<queueVars, submitted, proposals, spent, handler, binder, restarts>>
      /\ proposals \in Seq(ProposalRecords)
  BY <1>a DEF SubmitChange, PInv, PipelineTypeOK
<1>1. /\ first \in RunRecords /\ first # None /\ first.stage = "received"
  <2>1. "received" \in Stages
    BY StagesAre
  <2>2. first = [stage |-> "received", proposal |-> 0, asked |-> FALSE, length |-> 1]
    BY <1>a DEF StartedRun
  <2>3. first \in RunRecords /\ first.stage = "received"
    BY <2>1, <2>2 DEF RunRecords
  <2> QED
    BY <2>3, NoneIsNoRun
<1>2. /\ QInv' /\ QueueTypeOK' /\ JobsCarryOver /\ IdentitiesFree
      /\ UNCHANGED <<jobs, current, jobIdByKey>>
  BY <1>0, QueueStays
<1>3. /\ Len(proposals) \in Nat /\ DOMAIN proposals = 1..Len(proposals)
      /\ \A p \in DOMAIN proposals : proposals[p].run \in Runs
  BY <1>0, ProposalIs
<1>4. \A s \in Runs : runs[s] # None => s # r /\ runs'[s] = runs[s] /\ runs[s] \in RunRecords
  BY <1>0
<1>5. /\ StoreEvolves
      /\ \A s \in Runs : runs[s] # None => Leaves(runs[s], runs'[s])
  BY <1>0, <1>3, <1>4, FollowsItself DEF StoreEvolves
<1>6. /\ new.kind = "enqueue" /\ new = EnqueueCall(new.identity, new.payload)
      /\ new.identity = AnalyzeIdentity(r, 1) /\ new.payload = AnalyzePayload(r, resolved)
  BY <1>a DEF EnqueueCall
<1>7. /\ new.payload.run = r /\ new.payload.kind = "analyze"
  BY <1>6 DEF AnalyzePayload
<1>8. IsSoundCall(runs', Len(proposals'), new)
  <2>1. runs'[r] # None /\ 1 \in Nat
    BY <1>0, <1>1
  <2>2. new.identity[3] = 1
    BY <1>6 DEF AnalyzeIdentity
  <2> QED
    BY <1>6, <1>7, <2>1, <2>2 DEF IsSoundCall, IsSound
<1>9. JobsAreSound' /\ CallsAreSound'
  BY <1>0, <1>2, <1>5, <1>8, QueueCarry
<1>10. \A i, j : IsSound(runs, Len(proposals), i, j) => i # AnalyzeIdentity(r, 1)
  <2> SUFFICES ASSUME NEW i, NEW j, IsSound(runs, Len(proposals), i, j), i = AnalyzeIdentity(r, 1)
               PROVE  FALSE
    OBVIOUS
  <2>1. j.run \in Runs /\ runs[j.run] # None /\ j.run # r
    BY <1>0 DEF IsSound
  <2>2. CASE i = AnalyzeIdentity(j.run, i[3])
    BY <2>1, <2>2 DEF AnalyzeIdentity
  <2>3. CASE i = ApplyIdentity(j.key)
    BY <2>3 DEF AnalyzeIdentity, ApplyIdentity
  <2> QED
    BY <2>2, <2>3 DEF IsSound
<1>11. \A c \in calls : c.kind = "enqueue" => c.identity # new.identity
  BY <1>6, <1>10, CallIdentity
<1>12. jobIdByKey[new.identity] = None
  <2>1. new.identity \in Identities
    BY <1>6 DEF QueueTakesJobs
  <2>2. SUFFICES ASSUME jobIdByKey[new.identity] # None PROVE FALSE
    OBVIOUS
  <2>3. PICK id \in Ids : id = jobIdByKey[new.identity]
    BY <2>1, <2>2 DEF PInv, QInv, QueueTypeOK
  <2>4. jobs[id] # None /\ jobs[id].identity = new.identity
    BY <2>1, <2>2, <2>3 DEF PInv, QInv, LookupsAreSafe
  <2>5. IsSound(runs, Len(proposals), jobs[id].identity, jobs[id].payload)
    BY <2>4 DEF PInv, JobsAreSound, Held
  <2> QED
    BY <1>6, <1>10, <2>4, <2>5
<1>13. FirstCallsEnqueue'
  <2> SUFFICES ASSUME NEW c \in calls', IsFirst(c)
               PROVE  /\ jobIdByKey[c.identity] = None
                      /\ \A d \in calls' : d.kind = "enqueue" /\ d.identity = c.identity => d = c
    BY <1>2 DEF FirstCallsEnqueue, IsFirst
  <2>1. CASE c = new
    BY <1>0, <1>11, <1>12, <2>1
  <2>2. CASE c \in calls
    BY <1>0, <1>11, <2>2 DEF PInv, FirstCallsEnqueue, IsFirst
  <2> QED
    BY <1>0, <2>1, <2>2
<1>14. BinderIsSound' /\ ProposalsAreSound' /\ SpentMeansApplied' /\ VerifyingMeansApplied'
  <2>1. \A b \in binder' : b \in binder
    BY <1>0
  <2>2. \A s \in Runs : runs'[s] # None /\ runs'[s].stage = "verifying" =>
          runs[s] # None /\ runs[s].stage = "verifying"
    BY <1>0, <1>1
  <2> QED
    BY <1>0, <1>5, <2>1, <2>2, StoreCarry
<1>15. RunsAreSound'
  <2> SUFFICES ASSUME NEW s \in Runs, runs'[s] # None PROVE IsSoundRun(runs'[s], Len(proposals))
    BY <1>0 DEF RunsAreSound
  <2>1. CASE s = r
    BY <1>0, <1>1, <2>1 DEF IsSoundRun
  <2>2. CASE s # r
    BY <1>0, <2>2 DEF PInv, RunsAreSound
  <2> QED
    BY <2>1, <2>2
<1>16. PointIsSound'
  BY <1>0, <1>2, <1>5, PointStays, HandlerOwns
<1>17. PipelineTypeOK'
  BY <1>0, <1>1, <1>2, <1>6 DEF PInv, PipelineTypeOK
<1> QED
  BY <1>2, <1>9, <1>13, <1>14, <1>15, <1>16, <1>17 DEF PInv

LEMMA ResumeInv ==
  ASSUME PInv, QueueTakesJobs, NEW r \in Runs, NEW resolved \in BOOLEAN, ResumeChange(r, resolved)
  PROVE  PInv'
<1>a. SUFFICES ASSUME NEW n, n = runs[r].length,
                      NEW new, new = EnqueueCall(AnalyzeIdentity(r, n), AnalyzePayload(r, resolved))
               PROVE  PInv'
  OBVIOUS
<1>1. /\ runs[r] # None /\ n \in Nat /\ n >= 2
  <2>1. runs[r] \in RunRecords /\ runs[r].stage = "resolving" /\ IsSoundRun(runs[r], Len(proposals))
    BY DEF ResumeChange, PInv, PipelineTypeOK, RunsAreSound
  <2> QED
    BY <1>a, <2>1 DEF ResumeChange, IsSoundRun, RunRecords
<1>2. /\ new.kind = "enqueue" /\ new = EnqueueCall(new.identity, new.payload)
      /\ new.identity = AnalyzeIdentity(r, n) /\ new.payload = AnalyzePayload(r, resolved)
  BY <1>a DEF EnqueueCall
<1>3. /\ new.payload.run = r /\ new.payload.kind = "analyze" /\ new.identity[3] = n
  BY <1>2 DEF AnalyzePayload, AnalyzeIdentity
<1>4. \A s : new.identity # AnalyzeIdentity(s, 1)
  BY <1>1, <1>2 DEF AnalyzeIdentity
<1>5. IsSoundCall(runs, Len(proposals), new)
  BY <1>1, <1>2, <1>3 DEF IsSoundCall, IsSound
<1>6. /\ UNCHANGED <<queueVars, runs, submitted, proposals, spent, handler, binder, restarts>>
      /\ calls' = calls \cup {new}
      /\ proposals \in Seq(ProposalRecords) /\ spent \in [Keys -> 0..Len(proposals)]
  BY <1>a DEF ResumeChange, PInv, PipelineTypeOK
<1> QED
  BY <1>4, <1>5, <1>6, RouteInv, ProposalIs

LEMMA RequestApplyInv ==
  ASSUME PInv, QueueTakesJobs, NEW r \in Runs, NEW k \in Keys, RequestApply(r, k)
  PROVE  PInv'
<1>a. SUFFICES ASSUME NEW p, p = runs[r].proposal,
                      NEW new, new = EnqueueCall(ApplyIdentity(k), ApplyPayload(r, p, k))
               PROVE  PInv'
  OBVIOUS
<1>1. runs[r] # None /\ p \in 1..Len(proposals) /\ runs[r].stage \in LateStages
  BY <1>a DEF RequestApply, PInv, RunsAreSound, IsSoundRun, LateStages
<1>2. /\ new.kind = "enqueue" /\ new = EnqueueCall(new.identity, new.payload)
      /\ new.identity = ApplyIdentity(k) /\ new.payload = ApplyPayload(r, p, k)
  BY <1>a DEF EnqueueCall
<1>3. /\ new.payload.run = r /\ new.payload.kind = "apply" /\ new.payload.key = k
      /\ new.payload.proposal = p
  BY <1>2 DEF ApplyPayload
<1>4. \A s : new.identity # AnalyzeIdentity(s, 1)
  BY <1>2 DEF AnalyzeIdentity, ApplyIdentity
<1>5. IsSoundCall(runs, Len(proposals), new)
  BY <1>1, <1>2, <1>3, <1>a DEF IsSoundCall, IsSound
<1>6. /\ UNCHANGED <<queueVars, runs, submitted, proposals, spent, handler, binder, restarts>>
      /\ calls' = calls \cup {new}
      /\ proposals \in Seq(ProposalRecords) /\ spent \in [Keys -> 0..Len(proposals)]
  BY <1>a DEF RequestApply, PInv, PipelineTypeOK
<1> QED
  BY <1>4, <1>5, <1>6, RouteInv, ProposalIs

\* What the fate of one proposal may become.
LEMMA FateIs ==
  ASSUME NEW ps \in Seq(ProposalRecords), NEW p \in DOMAIN ps, NEW fate \in Fates,
         NEW qs, qs = [ps EXCEPT ![p].fate = fate]
  PROVE  /\ qs \in Seq(ProposalRecords) /\ Len(qs) = Len(ps)
         /\ DOMAIN qs = DOMAIN ps
         /\ \A i \in DOMAIN ps : qs[i].run = ps[i].run
         /\ \A i \in DOMAIN ps : i # p => qs[i] = ps[i]
         /\ qs[p].fate = fate
<1>a. SUFFICES ASSUME NEW y, y = [ps[p] EXCEPT !.fate = fate], qs = [ps EXCEPT ![p] = y]
               PROVE  /\ qs \in Seq(ProposalRecords) /\ Len(qs) = Len(ps)
                      /\ DOMAIN qs = DOMAIN ps
                      /\ \A i \in DOMAIN ps : qs[i].run = ps[i].run
                      /\ \A i \in DOMAIN ps : i # p => qs[i] = ps[i]
                      /\ qs[p].fate = fate
  OBVIOUS
<1>1. /\ Len(ps) \in Nat /\ DOMAIN ps = 1..Len(ps) /\ ps[p] \in ProposalRecords
  BY ProposalIs
<1>2. y \in ProposalRecords /\ y.run = ps[p].run /\ y.fate = fate
  BY <1>a, <1>1 DEF ProposalRecords
<1>3. qs \in Seq(ProposalRecords) /\ Len(qs) = Len(ps) /\ DOMAIN qs = DOMAIN ps
  BY <1>a, <1>2, UpdateOf
<1>4. qs[p] = y /\ \A i \in DOMAIN ps : i # p => qs[i] = ps[i]
  BY <1>a
<1> QED
  BY <1>2, <1>3, <1>4

LEMMA FatesMove ==
  ASSUME proposals \in Seq(ProposalRecords), NEW p \in DOMAIN proposals, NEW fate \in Fates,
         proposals' = [proposals EXCEPT ![p].fate = fate]
  PROVE  /\ proposals' \in Seq(ProposalRecords) /\ Len(proposals') = Len(proposals)
         /\ DOMAIN proposals' = DOMAIN proposals
         /\ \A i \in DOMAIN proposals : proposals'[i].run = proposals[i].run
         /\ \A i \in DOMAIN proposals : i # p => proposals'[i] = proposals[i]
         /\ proposals'[p].fate = fate
<1>1. proposals' \in Seq(ProposalRecords)
  BY FateIs
<1>2. Len(proposals') = Len(proposals) /\ DOMAIN proposals' = DOMAIN proposals
  BY FateIs
<1>3. \A i \in DOMAIN proposals : proposals'[i].run = proposals[i].run
  BY FateIs
<1>4. \A i \in DOMAIN proposals : i # p => proposals'[i] = proposals[i]
  BY FateIs
<1>5. proposals'[p].fate = fate
  BY FateIs
<1> QED
  BY <1>1, <1>2, <1>3, <1>4, <1>5

LEMMA DecideInv ==
  ASSUME PInv, QueueTakesJobs, NEW p \in DOMAIN proposals, NEW decision \in {"approved", "rejected"},
         NEW named \in BOOLEAN, Decide(p, decision, named)
  PROVE  PInv'
<1>1. /\ proposals \in Seq(ProposalRecords) /\ decision \in Fates
      /\ Len(proposals) \in Nat /\ DOMAIN proposals = 1..Len(proposals)
      /\ spent \in [Keys -> 0..Len(proposals)]
  BY ProposalIs DEF PInv, PipelineTypeOK, Fates
<1>2. /\ proposals' = [proposals EXCEPT ![p].fate = decision]
      /\ proposals[p].fate # "applied" /\ proposals[p].run \in Runs
      /\ UNCHANGED <<queueVars, runs, submitted, spent, handler, binder, restarts>>
  BY <1>1, ProposalIs DEF Decide
<1>3. /\ proposals' \in Seq(ProposalRecords) /\ Len(proposals') = Len(proposals)
      /\ \A i \in DOMAIN proposals : proposals'[i].run = proposals[i].run
      /\ \A i \in DOMAIN proposals : i # p => proposals'[i] = proposals[i]
  BY <1>1, <1>2, FatesMove
<1>4. \A i \in DOMAIN proposals : proposals[i].fate = "applied" => proposals'[i].fate = "applied"
  BY <1>2, <1>3
<1>a. SUFFICES ASSUME NEW new, new = CloseCall(proposals[p].run, p) PROVE PInv'
  OBVIOUS
<1>5. /\ new.kind = "close" /\ new.run = proposals[p].run
      /\ IsSoundCall(runs', Len(proposals'), new)
  <2>1. new.kind = "close" /\ new.run = proposals[p].run
    BY <1>a DEF CloseCall
  <2> QED
    BY <1>2, <2>1 DEF IsSoundCall, PInv, ProposalsAreSound
<1>6. calls' \subseteq calls \cup {new}
  BY <1>a DEF Decide
<1> QED
  BY <1>1, <1>2, <1>3, <1>4, <1>5, <1>6, RouteInv

\* An apply never takes back what is written, and a key is spent on what was.
LEMMA ApplyIs ==
  ASSUME PInv, NEW p \in DOMAIN proposals, NEW k \in Keys,
         ApplySucceeds(p, k) \/ ApplyRefuses(p, k)
  PROVE  /\ proposals' \in Seq(ProposalRecords) /\ Len(proposals') = Len(proposals)
         /\ DOMAIN proposals' = DOMAIN proposals
         /\ \A i \in DOMAIN proposals :
              /\ proposals'[i].run = proposals[i].run
              /\ proposals[i].fate = "applied" => proposals'[i].fate = "applied"
         /\ spent' \in [Keys -> 0..Len(proposals)]
         /\ \A l \in Keys : spent'[l] = spent[l] \/ proposals'[spent'[l]].fate = "applied"
         /\ ApplySucceeds(p, k) => proposals'[p].fate = "applied"
<1>1. /\ proposals \in Seq(ProposalRecords)
      /\ Len(proposals) \in Nat /\ DOMAIN proposals = 1..Len(proposals)
      /\ spent \in [Keys -> 0..Len(proposals)] /\ p # 0 /\ p \in 0..Len(proposals)
      /\ spent[k] = p => proposals[p].fate = "applied"
  BY ProposalIs DEF PInv, PipelineTypeOK, SpentMeansApplied
<1>2. CASE UNCHANGED <<proposals, spent>> /\ (ApplySucceeds(p, k) => spent[k] = p)
  BY <1>1, <1>2
<1>3. CASE /\ proposals' = [proposals EXCEPT ![p].fate = "applied"]
           /\ spent' = [spent EXCEPT ![k] = p] /\ proposals[p].fate = "approved"
  <2>1. "applied" \in Fates
    BY DEF Fates
  <2>2. /\ proposals' \in Seq(ProposalRecords) /\ Len(proposals') = Len(proposals)
        /\ DOMAIN proposals' = DOMAIN proposals
        /\ \A i \in DOMAIN proposals : proposals'[i].run = proposals[i].run
        /\ \A i \in DOMAIN proposals : i # p => proposals'[i] = proposals[i]
        /\ proposals'[p].fate = "applied"
    BY <1>1, <1>3, <2>1, FatesMove
  <2>3. /\ spent' \in [Keys -> 0..Len(proposals)]
        /\ \A l \in Keys : spent'[l] = spent[l] \/ spent'[l] = p
    BY <1>1, <1>3
  <2> QED
    BY <2>2, <2>3
<1>4. CASE /\ proposals' = [proposals EXCEPT ![p].fate = "failed"]
           /\ proposals[p].fate = "approved" /\ UNCHANGED spent /\ spent[k] # p
  <2>1. "failed" \in Fates
    BY DEF Fates
  <2>2. /\ proposals' \in Seq(ProposalRecords) /\ Len(proposals') = Len(proposals)
        /\ DOMAIN proposals' = DOMAIN proposals
        /\ \A i \in DOMAIN proposals : proposals'[i].run = proposals[i].run
        /\ \A i \in DOMAIN proposals : i # p => proposals'[i] = proposals[i]
        /\ proposals'[p].fate = "failed"
    BY <1>1, <1>4, <2>1, FatesMove
  <2>3. ~ApplySucceeds(p, k)
    <3>1. "applied" \in Fates
      BY DEF Fates
    <3>2. proposals' = [proposals EXCEPT ![p].fate = "applied"] => proposals'[p].fate = "applied"
      BY <1>1, <3>1, FatesMove
    <3>3. proposals' # [proposals EXCEPT ![p].fate = "applied"]
      BY <2>2, <3>2
    <3> QED
      BY <1>4, <3>3 DEF ApplySucceeds
  <2> QED
    BY <1>1, <1>4, <2>2, <2>3
<1>5. CASE UNCHANGED <<proposals, spent>> /\ spent[k] # p
  <2>1. ApplySucceeds(p, k) => proposals[p].fate = "applied"
    <3>1. "applied" \in Fates
      BY DEF Fates
    <3>2. proposals' = [proposals EXCEPT ![p].fate = "applied"] => proposals'[p].fate = "applied"
      BY <1>1, <3>1, FatesMove
    <3> QED
      BY <1>5, <3>2 DEF ApplySucceeds
  <2> QED
    BY <1>1, <1>5, <2>1
<1>6. CASE ApplySucceeds(p, k)
  BY <1>2, <1>3, <1>6 DEF ApplySucceeds
<1>7. CASE ApplyRefuses(p, k)
  BY <1>4, <1>5, <1>7 DEF ApplyRefuses
<1> QED
  BY <1>6, <1>7

LEMMA DirectApplyInv ==
  ASSUME PInv, QueueTakesJobs, NEW p \in DOMAIN proposals, NEW k \in Keys, DirectApply(p, k)
  PROVE  PInv'
<1>1. /\ ApplySucceeds(p, k) \/ ApplyRefuses(p, k)
      /\ UNCHANGED <<queueVars, runs, submitted, handler, binder, calls, restarts>>
  BY DEF DirectApply
<1>2. /\ proposals' \in Seq(ProposalRecords) /\ Len(proposals') = Len(proposals)
      /\ \A i \in DOMAIN proposals :
           /\ proposals'[i].run = proposals[i].run
           /\ proposals[i].fate = "applied" => proposals'[i].fate = "applied"
      /\ spent' \in [Keys -> 0..Len(proposals)]
      /\ \A l \in Keys : spent'[l] = spent[l] \/ proposals'[spent'[l]].fate = "applied"
  BY <1>1, ApplyIs
<1>a. SUFFICES ASSUME NEW new, new = CloseCall(proposals[p].run, p) PROVE PInv'
  OBVIOUS
<1>3. /\ new.kind = "close" /\ new.run \in Runs /\ runs[new.run] # None
  BY <1>a, ProposalIs DEF CloseCall, PInv, ProposalsAreSound, PipelineTypeOK
<1>4. IsSoundCall(runs', Len(proposals'), new)
  BY <1>1, <1>3 DEF IsSoundCall
<1>5. calls' \subseteq calls \cup {new}
  BY <1>1
<1> QED
  BY <1>1, <1>2, <1>3, <1>4, <1>5, RouteInv

LEMMA EnqueueCallInv ==
  ASSUME PInv, QueueTakesJobs, NEW c \in calls, FinishEnqueue(c)
  PROVE  PInv'
<1>1. /\ c.kind = "enqueue" /\ calls' = calls \ {c} /\ proposals \in Seq(ProposalRecords)
      /\ UNCHANGED <<runs, submitted, proposals, spent, handler, binder, restarts>>
      /\ spent \in [Keys -> 0..Len(proposals)]
  BY DEF FinishEnqueue, PInv, PipelineTypeOK
<1>2. CASE UNCHANGED queueVars
  <2>1. calls' \subseteq calls \cup {c}
    BY <1>1
  <2> QED
    BY <1>1, <1>2, <2>1, RouteInv
<1>3. CASE jobIdByKey[c.identity] = None /\ Enqueue(c.identity, c.payload)
  <2>1. /\ c.identity \in Identities /\ c.payload \in Payloads
        /\ IsSound(runs, Len(proposals), c.identity, c.payload)
    BY <1>1, CallIdentity
  <2>a. SUFFICES ASSUME NEW identity \in Identities, NEW payload \in Payloads, NEW id,
                        identity = c.identity, payload = c.payload, id = enqueued + 1
                 PROVE  PInv'
    BY <2>1
  <2>2. QInv' /\ QueueTypeOK'
    <3>1. QInv'
      BY <1>3, <2>a, EnqueueInv DEF PInv
    <3> QED
      BY <3>1 DEF QInv
  <2>3. /\ id \in Ids /\ jobs[id] = None /\ jobs \in [Ids -> JobRecords \cup {None}]
        /\ jobIdByKey \in [Identities -> Ids \cup {None}] /\ UNCHANGED current
    BY <1>3, <2>a, MaxJobsIsNatural DEF Enqueue, PInv, QInv, QueueTypeOK, IdsAreFresh, Ids
  <2>4. /\ \A i \in Ids \ {id} : jobs'[i] = jobs[i]
        /\ jobs'[id].identity = identity /\ jobs'[id].payload = payload
        /\ \A k \in Identities \ {identity} : jobIdByKey'[k] = jobIdByKey[k]
    BY <1>3, <2>a, <2>3 DEF Enqueue
  <2>5. JobsAreSound'
    <3> SUFFICES ASSUME NEW i \in Held(jobs')
                 PROVE  IsSound(runs, Len(proposals), jobs'[i].identity, jobs'[i].payload)
      BY <1>1 DEF JobsAreSound
    <3>1. CASE i = id
      BY <2>1, <2>4, <2>a, <3>1
    <3>2. CASE i # id
      <4>1. i \in Held(jobs) /\ jobs'[i] = jobs[i]
        BY <2>4, <3>2 DEF Held
      <4> QED
        BY <4>1 DEF PInv, JobsAreSound
    <3> QED
      BY <3>1, <3>2
  <2>6. CallsAreSound'
    BY <1>1 DEF PInv, CallsAreSound
  <2>7. FirstCallsEnqueue'
    <3> SUFFICES ASSUME NEW d \in calls', IsFirst(d)
                 PROVE  /\ jobIdByKey'[d.identity] = None
                        /\ \A e \in calls' : e.kind = "enqueue" /\ e.identity = d.identity => e = d
      BY DEF FirstCallsEnqueue, IsFirst
    <3>1. /\ d \in calls /\ d # c /\ d.kind = "enqueue"
      BY <1>1 DEF IsFirst
    <3>2. /\ jobIdByKey[d.identity] = None
          /\ \A e \in calls : e.kind = "enqueue" /\ e.identity = d.identity => e = d
      BY <3>1 DEF PInv, FirstCallsEnqueue
    <3>3. d.identity # identity /\ d.identity \in Identities
      BY <1>1, <2>a, <3>1, <3>2, CallIdentity
    <3> QED
      BY <1>1, <2>4, <3>2, <3>3
  <2>8. /\ StoreEvolves /\ RunsAreSound'
        /\ \A r \in Runs : runs[r] # None => Leaves(runs[r], runs'[r])
    <3>1. Len(proposals) >= Len(proposals)
      BY <1>1, ProposalIs
    <3> QED
      BY <1>1, <3>1, RunsStay
  <2>9. BinderIsSound' /\ ProposalsAreSound' /\ SpentMeansApplied' /\ VerifyingMeansApplied'
    BY <1>1, <2>8, StoreCarry
  <2>10. PointIsSound'
    <3> SUFFICES ASSUME handler # None PROVE PointIsSound'
      BY <1>1 DEF PointIsSound
    <3>1. current \in Held(jobs)
      BY HandlerOwns
    <3>2. jobs'[current] = jobs[current]
      BY <2>3, <2>4, <3>1 DEF Held
    <3>3. Job' = Job /\ Run' = Run
      BY <2>3, <3>2 DEF Job, Run
    <3> QED
      BY <1>1, <3>3 DEF PInv, PointIsSound
  <2>11. PipelineTypeOK'
    BY <1>1, <2>2, <2>3 DEF PInv, PipelineTypeOK
  <2> QED
    BY <2>2, <2>5, <2>6, <2>7, <2>8, <2>9, <2>10, <2>11 DEF PInv
<1> QED
  BY <1>2, <1>3 DEF FinishEnqueue

\* A run that moves along its graph, the others staying where they are.
LEMMA OneRunMoves ==
  ASSUME PInv, UNCHANGED proposals, NEW r \in Runs, NEW y, runs[r] # None,
         runs' = [runs EXCEPT ![r] = y], Follows(runs[r], y), IsSoundRun(y, Len(proposals)),
         y.stage = "verifying" =>
           runs[r].stage = "verifying" \/ proposals[y.proposal].fate = "applied"
  PROVE  /\ StoreEvolves /\ RunsAreSound' /\ runs' \in [Runs -> RunRecords \cup {None}]
         /\ runs'[r] = y
         /\ \A s \in Runs : s # r => runs'[s] = runs[s]
         /\ \A s \in Runs : runs'[s] # None /\ runs'[s].stage = "verifying" =>
              \/ runs[s] # None /\ runs[s].stage = "verifying"
              \/ proposals'[runs'[s].proposal].fate = "applied"
         /\ Leaves(runs[r], y) => \A s \in Runs : runs[s] # None => Leaves(runs[s], runs'[s])
<1>1. runs \in [Runs -> RunRecords \cup {None}] /\ y \in RunRecords /\ y # None
  BY NoneIsNoRun DEF PInv, PipelineTypeOK, Follows
<1>2. runs'[r] = y /\ \A s \in Runs : s # r => runs'[s] = runs[s]
  BY <1>1
<1>3. \A s \in Runs : s # r /\ runs[s] # None => Follows(runs[s], runs[s]) /\ Leaves(runs[s], runs[s])
  BY <1>1, FollowsItself
<1>4. Len(proposals) \in Nat /\ DOMAIN proposals = 1..Len(proposals)
  BY ProposalIs DEF PInv, PipelineTypeOK
<1>5. StoreEvolves
  BY <1>1, <1>2, <1>3, <1>4 DEF StoreEvolves
<1>6. RunsAreSound'
  BY <1>1, <1>2 DEF PInv, RunsAreSound
<1>7. runs' \in [Runs -> RunRecords \cup {None}]
  BY <1>1
<1> QED
  BY <1>2, <1>3, <1>5, <1>6, <1>7

\* A failed or a completed run, or one that takes a note.
LEMMA EndedRun ==
  ASSUME NEW x \in RunRecords, NEW to \in TerminalStages, x.stage \notin TerminalStages, NEW n
  PROVE  /\ Follows(x, Moved(x, to)) /\ Leaves(x, Moved(x, to)) /\ IsSoundRun(Moved(x, to), n)
         /\ Moved(x, to).stage = to
<1>1. to \in Stages /\ to \in LateStages /\ to \notin {"awaiting_approval", "applying", "verifying", "resolving"}
  BY StagesAre DEF TerminalStages, LateStages
<1> QED
  BY <1>1, MovedRun DEF Follows, Leaves, IsSoundRun

LEMMA AnnotatedRun ==
  ASSUME NEW x \in RunRecords, NEW asked \in BOOLEAN, NEW n, IsSoundRun(x, n)
  PROVE  /\ Follows(x, Noted(x, asked)) /\ Leaves(x, Noted(x, asked)) /\ IsSoundRun(Noted(x, asked), n)
         /\ Noted(x, asked).stage = x.stage
<1>a. SUFFICES ASSUME NEW y, y = Noted(x, asked)
               PROVE  Follows(x, y) /\ Leaves(x, y) /\ IsSoundRun(y, n) /\ y.stage = x.stage
  OBVIOUS
<1>1. /\ y \in RunRecords /\ y.stage = x.stage /\ y.proposal = x.proposal
      /\ x.length >= 2 => y.length >= 2
  BY <1>a, NotedRun
<1>2. x.asked => y.asked
  BY <1>a, NotedRun
<1>3. IsSoundRun(y, n)
  BY <1>1 DEF IsSoundRun
<1> QED
  BY <1>1, <1>2, <1>3 DEF Follows, Leaves

LEMMA CloseCallInv ==
  ASSUME PInv, QueueTakesJobs, NEW c \in calls, FinishClose(c)
  PROVE  PInv'
<1>1. /\ c.kind = "close" /\ calls' = calls \ {c} /\ proposals \in Seq(ProposalRecords)
      /\ UNCHANGED <<queueVars, submitted, proposals, spent, handler, binder, restarts>>
      /\ spent \in [Keys -> 0..Len(proposals)] /\ calls' \subseteq calls \cup {c}
  BY DEF FinishClose, PInv, PipelineTypeOK
<1>2. CASE UNCHANGED runs
  BY <1>1, <1>2, RouteInv
<1>3. CASE /\ runs[c.run].stage = "awaiting_approval"
           /\ runs' = [runs EXCEPT ![c.run] = Moved(runs[c.run], "completed")]
  <2>1. c.run \in Runs /\ runs[c.run] # None /\ runs[c.run] \in RunRecords
    BY <1>1 DEF PInv, CallsAreSound, IsSoundCall, PipelineTypeOK
  <2>a. SUFFICES ASSUME NEW r \in Runs, NEW y, r = c.run, y = Moved(runs[r], "completed")
                 PROVE  PInv'
    BY <2>1
  <2>2. /\ Follows(runs[r], y) /\ Leaves(runs[r], y) /\ IsSoundRun(y, Len(proposals))
        /\ y.stage = "completed"
    BY <1>3, <2>1, <2>a, EndedRun DEF TerminalStages
  <2>3. /\ StoreEvolves /\ RunsAreSound' /\ runs' \in [Runs -> RunRecords \cup {None}]
        /\ \A s \in Runs : runs'[s] # None /\ runs'[s].stage = "verifying" =>
             \/ runs[s] # None /\ runs[s].stage = "verifying"
             \/ proposals'[runs'[s].proposal].fate = "applied"
        /\ \A s \in Runs : runs[s] # None => Leaves(runs[s], runs'[s])
    BY <1>1, <1>3, <2>1, <2>2, <2>a, OneRunMoves
  <2>4. /\ QInv' /\ QueueTypeOK' /\ JobsCarryOver /\ IdentitiesFree
        /\ UNCHANGED <<jobs, current, jobIdByKey>>
    BY <1>1, QueueStays
  <2>5. JobsAreSound' /\ CallsAreSound' /\ FirstCallsEnqueue'
    BY <1>1, <2>3, <2>4, NoCallCarry
  <2>6. BinderIsSound' /\ ProposalsAreSound' /\ SpentMeansApplied' /\ VerifyingMeansApplied'
    BY <1>1, <2>3, StoreCarry
  <2>7. PointIsSound'
    BY <1>1, <2>3, <2>4, PointStays, HandlerOwns
  <2>8. PipelineTypeOK'
    BY <1>1, <2>3, <2>4 DEF PInv, PipelineTypeOK
  <2> QED
    BY <2>3, <2>4, <2>5, <2>6, <2>7, <2>8 DEF PInv
<1> QED
  BY <1>2, <1>3 DEF FinishClose

-----------------------------------------------------------------------------
(* The queue and the binder.                                               *)

\* A step that leaves the store, the handler and the running job where they are.
LEMMA QueueOnlyInv ==
  ASSUME PInv, QueueTakesJobs, UNCHANGED appVars, UNCHANGED current,
         QInv', JobsCarryOver, IdentitiesFree, handler # None => current \in Held(jobs')
  PROVE  PInv'
<1>1. /\ proposals \in Seq(ProposalRecords) /\ Len(proposals) \in Nat
      /\ UNCHANGED <<runs, submitted, proposals, spent, handler, binder, calls, restarts>>
  BY ProposalIs DEF PInv, PipelineTypeOK, appVars
<1>2. /\ StoreEvolves /\ RunsAreSound'
      /\ \A r \in Runs : runs[r] # None => Leaves(runs[r], runs'[r])
  BY <1>1, RunsStay
<1>3. JobsAreSound' /\ CallsAreSound' /\ FirstCallsEnqueue'
  BY <1>1, <1>2, NoCallCarry
<1>4. BinderIsSound' /\ ProposalsAreSound' /\ SpentMeansApplied' /\ VerifyingMeansApplied'
  BY <1>1, <1>2, StoreCarry
<1>5. PointIsSound'
  BY <1>1, <1>2, PointStays
<1>6. PipelineTypeOK'
  BY <1>1 DEF PInv, PipelineTypeOK, QInv
<1> QED
  BY <1>2, <1>3, <1>4, <1>5, <1>6 DEF PInv

LEMMA QueueStepInv ==
  ASSUME PInv, QueueTakesJobs, UNCHANGED appVars,
         \/ StartQueue \/ LoopFires \/ LoopEnds \/ LoopCleared
         \/ \E id \in Ids : RetryFires(id)
  PROVE  PInv'
<1>1. QInv' /\ JobsCarryOver /\ IdentitiesFree
  BY QueueFrame DEF QueueAction, PInv
<1>2. UNCHANGED <<jobs, current>>
  BY DEF StartQueue, LoopFires, LoopEnds, LoopCleared, RetryFires
<1> QED
  BY <1>1, <1>2, QueueOnlyInv, HandlerOwns

\* The queue takes the job of the handler back or hands it one; what the binder
\* is told concerns a run.
LEMMA HandOverInv ==
  ASSUME PInv, QueueTakesJobs, UNCHANGED <<runs, submitted, proposals, spent, calls, restarts>>,
         QInv', JobsCarryOver, IdentitiesFree,
         handler' \in {"read", None}, (handler' = None) = (current' = None),
         \A b \in binder' :
           b \in binder \/ (b.to \in {"note", "fail"} /\ b.run \in Runs /\ runs[b.run] # None)
  PROVE  PInv'
<1>1. /\ proposals \in Seq(ProposalRecords) /\ Len(proposals) \in Nat
      /\ \A c \in binder : c.run \in Runs /\ runs[c.run] # None
  BY ProposalIs DEF PInv, PipelineTypeOK, BinderIsSound
<1>2. StoreEvolves /\ RunsAreSound'
  BY <1>1, RunsStay
<1>3. JobsAreSound' /\ CallsAreSound' /\ FirstCallsEnqueue'
  BY <1>2, NoCallCarry
<1>4. BinderIsSound' /\ ProposalsAreSound' /\ SpentMeansApplied' /\ VerifyingMeansApplied'
  <2>1. \A c \in binder' : c.run \in Runs /\ runs[c.run] # None
    BY <1>1
  <2> QED
    BY <1>1, <1>2, <2>1, StoreCarry
<1>5. PointIsSound'
  BY DEF PointIsSound, Knows, ApplyPoints
<1>6. PipelineTypeOK'
  <2>1. \A c \in binder' : c.run \in Runs /\ c.to \in {"note", "fail"}
    BY DEF PInv, PipelineTypeOK
  <2>2. handler' \in Points \cup {None}
    BY DEF Points
  <2> QED
    BY <2>1, <2>2 DEF PInv, PipelineTypeOK, QInv
<1> QED
  BY <1>2, <1>3, <1>4, <1>5, <1>6 DEF PInv

LEMMA DeliverJobInv == ASSUME PInv, QueueTakesJobs, DeliverJob PROVE PInv'
<1>1. QInv' /\ JobsCarryOver /\ IdentitiesFree
  BY QueueFrame DEF QueueAction, PInv, DeliverJob
<1>2. /\ UNCHANGED <<runs, submitted, proposals, spent, calls, restarts, binder>>
      /\ handler' \in {"read", None} /\ (handler' = None) = (current' = None)
  BY NoneIsNoPoint DEF DeliverJob, Points
<1> QED
  BY <1>1, <1>2, HandOverInv

LEMMA ReturnInv ==
  ASSUME PInv, QueueTakesJobs, NEW outcome \in Outcomes, Return(outcome), UNCHANGED runs
  PROVE  PInv'
<1>a. SUFFICES ASSUME NEW b, b = [job |-> current, attempt |-> jobs[current].attempt, run |-> Run,
                                  to |-> IF jobs'[current].state = "QUEUED" THEN "note" ELSE "fail"]
               PROVE  PInv'
  OBVIOUS
<1>1. Settle(outcome) /\ current # None /\ handler # None
  BY DEF Return, Settle, PInv, PipelineTypeOK
<1>2. Run \in Runs /\ runs[Run] # None
  BY <1>1, HandlerOwns
<1>3. QInv' /\ JobsCarryOver /\ IdentitiesFree /\ current' = None
  BY <1>1, QueueFrame, SettleFrame DEF QueueAction, PInv
<1>4. b.run = Run /\ b.to \in {"note", "fail"}
  BY <1>a
<1>5. binder' \subseteq binder \cup {b}
  BY <1>a DEF Return
<1>6. /\ UNCHANGED <<submitted, proposals, spent, calls, restarts>> /\ handler' = None
  BY DEF Return
<1>7. \A c \in binder' :
        c \in binder \/ (c.to \in {"note", "fail"} /\ c.run \in Runs /\ runs[c.run] # None)
  BY <1>2, <1>4, <1>5
<1> QED
  BY <1>3, <1>6, <1>7, HandOverInv

LEMMA BinderInv == ASSUME PInv, QueueTakesJobs, NEW b \in binder, BinderReacts(b) PROVE PInv'
<1>1. /\ b.run \in Runs /\ runs[b.run] # None /\ runs[b.run] \in RunRecords
      /\ proposals \in Seq(ProposalRecords)
  BY DEF PInv, PipelineTypeOK, BinderIsSound
<1>2. PICK r \in Runs : r = b.run
  BY <1>1
<1>a. SUFFICES ASSUME NEW y, y = IF IsTerminal(r) THEN runs[r]
                                 ELSE IF b.to = "note" THEN Noted(runs[r], FALSE)
                                 ELSE Moved(runs[r], "failed")
               PROVE  PInv'
  OBVIOUS
<1>3. /\ binder' = binder \ {b} /\ runs' = [runs EXCEPT ![r] = y]
      /\ UNCHANGED <<queueVars, submitted, proposals, spent, handler, calls, restarts>>
  BY <1>2, <1>a DEF BinderReacts
<1>4. IsSoundRun(runs[r], Len(proposals))
  BY <1>1, <1>2 DEF PInv, RunsAreSound
<1>5. /\ Follows(runs[r], y) /\ Leaves(runs[r], y) /\ IsSoundRun(y, Len(proposals))
      /\ y.stage = "verifying" => runs[r].stage = "verifying"
  <2>1. CASE IsTerminal(r)
    BY <1>1, <1>2, <1>4, <1>a, <2>1, FollowsItself
  <2>2. CASE ~IsTerminal(r) /\ b.to = "note"
    <3>1. y = Noted(runs[r], FALSE) /\ FALSE \in BOOLEAN
      BY <1>a, <2>2
    <3> QED
      BY <1>1, <1>2, <1>4, <3>1, AnnotatedRun
  <2>3. CASE ~IsTerminal(r) /\ b.to # "note"
    <3>1. y = Moved(runs[r], "failed") /\ runs[r].stage \notin TerminalStages /\ "failed" \in TerminalStages
      BY <1>a, <2>3 DEF IsTerminal, TerminalStages
    <3> QED
      BY <1>1, <1>2, <3>1, EndedRun
  <2> QED
    BY <2>1, <2>2, <2>3
<1>6. /\ StoreEvolves /\ RunsAreSound' /\ runs' \in [Runs -> RunRecords \cup {None}]
      /\ \A s \in Runs : runs'[s] # None /\ runs'[s].stage = "verifying" =>
           \/ runs[s] # None /\ runs[s].stage = "verifying"
           \/ proposals'[runs'[s].proposal].fate = "applied"
      /\ \A s \in Runs : runs[s] # None => Leaves(runs[s], runs'[s])
  BY <1>1, <1>2, <1>3, <1>5, OneRunMoves
<1>7. /\ QInv' /\ QueueTypeOK' /\ JobsCarryOver /\ IdentitiesFree
      /\ UNCHANGED <<jobs, current, jobIdByKey>>
  BY <1>3, QueueStays
<1>8. JobsAreSound' /\ CallsAreSound' /\ FirstCallsEnqueue'
  BY <1>3, <1>6, <1>7, NoCallCarry
<1>9. BinderIsSound' /\ ProposalsAreSound' /\ SpentMeansApplied' /\ VerifyingMeansApplied'
  BY <1>1, <1>3, <1>6, StoreCarry
<1>10. PointIsSound'
  BY <1>3, <1>6, <1>7, PointStays, HandlerOwns
<1>11. PipelineTypeOK'
  BY <1>3, <1>6, <1>7 DEF PInv, PipelineTypeOK
<1> QED
  BY <1>6, <1>7, <1>8, <1>9, <1>10, <1>11 DEF PInv

-----------------------------------------------------------------------------
(* A restart.                                                              *)

LEMMA RestartQueueInv == ASSUME PInv, Restart PROVE QInv'
<1>1. /\ jobs' = [id \in Ids |-> None] /\ jobIdByKey' = [k \in Identities |-> None]
      /\ deadLetters' = {} /\ ready' = <<>> /\ waiting' = <<>>
      /\ started' = FALSE /\ scheduled' = FALSE /\ loop' = "idle" /\ current' = None
      /\ enqueued' = enqueued /\ enqueued \in 0..MaxJobs
  BY DEF Restart, PInv, QInv, QueueTypeOK
<1>2. QueueTypeOK'
  <2>1. <<>> \in Seq(Ids)
    OBVIOUS
  <2>2. ready' \in Seq(Ids) /\ waiting' \in Seq(Ids)
    BY <1>1, <2>1
  <2> QED
    BY <1>1, <2>2 DEF QueueTypeOK
<1>3. NoJobIsLost'
  <2>1. Range(ready') = {} /\ Range(waiting') = {} /\ IsInjective(ready') /\ IsInjective(waiting')
    BY <1>1 DEF Range, IsInjective
  <2>2. \A id \in Ids : \A state : ~(jobs'[id] # None /\ jobs'[id].state = state)
    BY <1>1
  <2> QED
    BY <1>1, <2>1, <2>2 DEF NoJobIsLost, InState
<1>4. NoLostWakeup' /\ LookupsAreSafe' /\ IdsAreFresh' /\ HandlerRunsInLoop'
  BY <1>1 DEF NoLostWakeup, LookupsAreSafe, IdsAreFresh, HandlerRunsInLoop, Held
<1> QED
  BY <1>2, <1>3, <1>4 DEF QInv

LEMMA ReconciledRun ==
  ASSUME NEW x \in RunRecords, NEW n, IsSoundRun(x, n)
  PROVE  /\ Follows(x, Reconciled(x)) /\ IsSoundRun(Reconciled(x), n)
         /\ Reconciled(x).stage \in TerminalStages \cup {"resolving", "awaiting_approval"}
<1>1. CASE x.stage \in TerminalStages \cup WaitingOnHuman
  <2>1. Reconciled(x) = x
    BY <1>1 DEF Reconciled
  <2> QED
    BY <1>1, <2>1, FollowsItself DEF WaitingOnHuman
<1>2. CASE x.stage \notin TerminalStages \cup WaitingOnHuman
  <2>1. Reconciled(x) = Moved(x, "failed")
    BY <1>2, NoneIsNoRun DEF Reconciled
  <2>2. "failed" \in TerminalStages
    BY DEF TerminalStages
  <2> QED
    BY <1>2, <2>1, <2>2, EndedRun
<1> QED
  BY <1>1, <1>2

LEMMA RestartInv == ASSUME PInv, QueueTakesJobs, Restart PROVE PInv'
<1>1. /\ QInv' /\ QueueTypeOK'
  BY RestartQueueInv DEF QInv
<1>2. /\ jobs' = [id \in Ids |-> None] /\ current' = None /\ handler' = None
      /\ binder' = {} /\ calls' = {} /\ UNCHANGED <<submitted, proposals, spent>>
      /\ runs' = [r \in Runs |-> Reconciled(runs[r])] /\ restarts' \in 0..MaxRestarts
      /\ runs \in [Runs -> RunRecords \cup {None}] /\ proposals \in Seq(ProposalRecords)
  BY MaxRestartsIsNatural DEF Restart, PInv, PipelineTypeOK
<1>3. /\ Len(proposals) \in Nat /\ DOMAIN proposals = 1..Len(proposals)
  BY <1>2, ProposalIs
<1>4. \A r \in Runs : runs[r] = None => runs'[r] = None
  BY <1>2 DEF Reconciled
<1>5. \A r \in Runs : runs[r] # None =>
        /\ Follows(runs[r], runs'[r]) /\ IsSoundRun(runs'[r], Len(proposals))
        /\ runs'[r].stage \in TerminalStages \cup {"resolving", "awaiting_approval"}
        /\ runs'[r] \in RunRecords /\ runs'[r] # None
  <2> SUFFICES ASSUME NEW r \in Runs, runs[r] # None
               PROVE  /\ Follows(runs[r], runs'[r]) /\ IsSoundRun(runs'[r], Len(proposals))
                      /\ runs'[r].stage \in TerminalStages \cup {"resolving", "awaiting_approval"}
                      /\ runs'[r] \in RunRecords /\ runs'[r] # None
    OBVIOUS
  <2>1. runs[r] \in RunRecords /\ runs'[r] = Reconciled(runs[r]) /\ IsSoundRun(runs[r], Len(proposals))
    BY <1>2 DEF PInv, RunsAreSound
  <2> QED
    BY <2>1, ReconciledRun, NoneIsNoRun DEF Follows
<1>6. StoreEvolves /\ RunsAreSound'
  BY <1>2, <1>3, <1>4, <1>5 DEF StoreEvolves, RunsAreSound
<1>7. JobsAreSound' /\ CallsAreSound' /\ FirstCallsEnqueue'
  BY <1>2 DEF JobsAreSound, CallsAreSound, FirstCallsEnqueue, Held
<1>8. BinderIsSound' /\ ProposalsAreSound' /\ SpentMeansApplied' /\ VerifyingMeansApplied'
  <2>1. \A r \in Runs : runs'[r] # None => runs'[r].stage # "verifying"
    BY <1>4, <1>5 DEF TerminalStages
  <2> QED
    BY <1>2, <1>6, <2>1, StoreCarry
<1>9. PointIsSound'
  BY <1>2 DEF PointIsSound
<1>10. PipelineTypeOK'
  <2>1. runs' \in [Runs -> RunRecords \cup {None}]
    BY <1>2, <1>4, <1>5
  <2> QED
    BY <1>1, <1>2, <2>1 DEF PInv, PipelineTypeOK
<1> QED
  BY <1>1, <1>6, <1>7, <1>8, <1>9, <1>10 DEF PInv

-----------------------------------------------------------------------------
(* The handlers.                                                           *)

\* A handler goes to a point knowing what it must, and moves the store on.
LEMMA GotoInv ==
  ASSUME PInv, QueueTakesJobs, handler # None, NEW point \in Points, Goto(point),
         StoreEvolves, RunsAreSound', runs' \in [Runs -> RunRecords \cup {None}],
         submitted' \in [Runs -> 0..2], proposals' \in Seq(ProposalRecords),
         spent' \in [Keys -> 0..Len(proposals')],
         \A p \in DOMAIN proposals' : p \in DOMAIN proposals \/ runs[proposals'[p].run] # None,
         \A k \in Keys : spent'[k] = spent[k] \/ proposals'[spent'[k]].fate = "applied",
         \A r \in Runs : runs'[r] # None /\ runs'[r].stage = "verifying" =>
           \/ runs[r] # None /\ runs[r].stage = "verifying"
           \/ proposals'[runs'[r].proposal].fate = "applied",
         Knows(point, runs'[Run], Job, proposals')
  PROVE  PInv'
<1>1. /\ handler' = point /\ UNCHANGED <<queueVars, binder, calls, restarts>>
  BY DEF Goto
<1>2. /\ QInv' /\ QueueTypeOK' /\ JobsCarryOver /\ IdentitiesFree
      /\ UNCHANGED <<jobs, current, jobIdByKey>>
  BY <1>1, QueueStays
<1>3. JobsAreSound' /\ CallsAreSound' /\ FirstCallsEnqueue'
  BY <1>1, <1>2, NoCallCarry
<1>4. BinderIsSound' /\ ProposalsAreSound' /\ SpentMeansApplied' /\ VerifyingMeansApplied'
  BY <1>1, StoreCarry
<1>5. Job' = Job /\ Run' = Run
  BY <1>2 DEF Job, Run
<1>6. PointIsSound'
  BY <1>1, <1>5 DEF PointIsSound
<1>7. PipelineTypeOK'
  BY <1>1, <1>2, NoneIsNoPoint DEF PInv, PipelineTypeOK
<1> QED
  BY <1>2, <1>3, <1>4, <1>6, <1>7 DEF PInv

\* A handler goes on without writing anything.
LEMMA GotoOnlyInv ==
  ASSUME PInv, QueueTakesJobs, handler # None, NEW point \in Points, Goto(point),
         UNCHANGED <<runs, proposals, spent>>, submitted' \in [Runs -> 0..2],
         Knows(point, runs[Run], Job, proposals)
  PROVE  PInv'
<1>1. /\ proposals \in Seq(ProposalRecords) /\ Len(proposals) \in Nat
      /\ runs' \in [Runs -> RunRecords \cup {None}] /\ spent \in [Keys -> 0..Len(proposals)]
  BY ProposalIs DEF PInv, PipelineTypeOK
<1>2. StoreEvolves /\ RunsAreSound'
  BY <1>1, RunsStay
<1> QED
  BY <1>1, <1>2, GotoInv

\* The graph's edge, or a retry.
LEMMA AdvanceInv ==
  ASSUME PInv, QueueTakesJobs, handler # None, NEW x \in RunRecords, NEW to, NEW next \in Points,
         Advance(x, to, next), x.stage = runs[Run].stage,
         IF to = "awaiting_approval" THEN x.proposal \in DOMAIN proposals ELSE x = runs[Run],
         to = "verifying" => proposals[x.proposal].fate = "applied",
         to \in Stages => Knows(next, Moved(x, to), Job, proposals)
  PROVE  PInv'
<1>1. /\ Run \in Runs /\ runs[Run] # None /\ runs[Run] \in RunRecords
      /\ Len(proposals) \in Nat /\ DOMAIN proposals = 1..Len(proposals)
  BY HandlerOwns
<1>2. CASE UNCHANGED runs /\ Return("RETRY")
  BY <1>2, ReturnInv DEF Outcomes
<1>3. CASE /\ CanAdvance(runs[Run].stage, to)
           /\ runs' = [runs EXCEPT ![Run] = Moved(x, to)] /\ Goto(next) /\ Unstored
  <2>a. SUFFICES ASSUME NEW r \in Runs, NEW y, r = Run, y = Moved(x, to) PROVE PInv'
    BY <1>1
  <2>0. x.stage \in Stages
    BY DEF RunRecords
  <2>1. /\ to \in Stages /\ x.stage \notin TerminalStages
        /\ x.stage \in LateStages => to \in LateStages
        /\ to = "awaiting_approval" => x.stage = "validating"
        /\ to = "applying" => x.stage = "awaiting_approval"
        /\ to = "verifying" => x.stage = "applying"
    BY <1>3, <2>0, Edges
  <2>2. /\ y \in RunRecords /\ y.stage = to /\ y.proposal = x.proposal
        /\ to = "resolving" => y.length >= 2
    BY <2>1, <2>a, MovedRun
  <2>3. Follows(runs[r], y)
    BY <2>1, <2>2, <2>a DEF Follows, LateStages
  <2>4. IsSoundRun(runs[r], Len(proposals))
    BY <1>1, <2>a DEF PInv, RunsAreSound
  <2>5. IsSoundRun(y, Len(proposals))
    <3>1. CASE to = "awaiting_approval"
      <4>1. x.proposal \in 1..Len(proposals)
        BY <1>1, <3>1
      <4> QED
        BY <2>2, <3>1, <4>1 DEF IsSoundRun
    <3>2. CASE to # "awaiting_approval"
      BY <2>1, <2>2, <2>4, <2>a, <3>2 DEF IsSoundRun
    <3> QED
      BY <3>1, <3>2
  <2>6. y.stage = "verifying" => proposals[y.proposal].fate = "applied"
    BY <2>2
  <2>7. /\ StoreEvolves /\ RunsAreSound' /\ runs' \in [Runs -> RunRecords \cup {None}]
        /\ runs'[r] = y
        /\ \A s \in Runs : runs'[s] # None /\ runs'[s].stage = "verifying" =>
             \/ runs[s] # None /\ runs[s].stage = "verifying"
             \/ proposals'[runs'[s].proposal].fate = "applied"
    BY <1>1, <1>3, <2>3, <2>5, <2>6, <2>a, OneRunMoves DEF Unstored
  <2>8. /\ UNCHANGED <<submitted, proposals, spent>> /\ Knows(next, runs'[Run], Job, proposals')
        /\ submitted' \in [Runs -> 0..2] /\ proposals' \in Seq(ProposalRecords)
        /\ spent' \in [Keys -> 0..Len(proposals')]
    BY <1>3, <2>1, <2>7, <2>a DEF Unstored, PInv, PipelineTypeOK
  <2> QED
    BY <1>3, <2>7, <2>8, GotoInv
<1> QED
  BY <1>2, <1>3 DEF Advance

LEMMA AtPoint ==
  ASSUME PInv, NEW point \in Points, handler = point
  PROVE  /\ handler # None /\ Knows(point, runs[Run], Job, proposals)
         /\ Run \in Runs /\ runs[Run] # None /\ runs[Run] \in RunRecords
         /\ runs[Run].stage \in Stages /\ runs[Run].asked \in BOOLEAN
         /\ submitted \in [Runs -> 0..2]
         /\ Len(proposals) \in Nat /\ DOMAIN proposals = 1..Len(proposals)
<1>1. handler # None
  BY NoneIsNoPoint
<1> QED
  BY <1>1, HandlerOwns DEF PInv, PointIsSound, PipelineTypeOK, RunRecords

LEMMA ReadForAnalyzeInv == ASSUME PInv, QueueTakesJobs, ReadForAnalyze PROVE PInv'
<1>1. "read" \in Points /\ handler = "read" /\ UNCHANGED runs
  BY DEF ReadForAnalyze, Points
<1>2. handler # None /\ runs[Run].stage \in Stages /\ submitted \in [Runs -> 0..2]
  BY <1>1, AtPoint
<1>3. CASE Return("COMPLETED")
  BY <1>1, <1>3, ReturnInv DEF Outcomes, FinalStates
<1>4. ASSUME NEW point \in FirstSteps(Run, Job.resolved), Goto(point), Unstored, ~IsTerminal(Run)
      PROVE  PInv'
  <2>1. /\ point \in {"analyzing", "submit", "resolve", "refuse", "ask"}
        /\ point = "ask" => runs[Run].stage \notin {"received"} /\ ~HasChangeRequest(Run)
    BY <1>4 DEF FirstSteps, Interpreted
  <2>2. point = "ask" => runs[Run].stage = "resolving"
    BY <2>1 DEF HasChangeRequest
  <2>3. Knows(point, runs[Run], Job, proposals) /\ point \in Points
    BY <2>1, <2>2 DEF Knows, ApplyPoints, Points
  <2> QED
    BY <1>1, <1>2, <1>4, <2>3, GotoOnlyInv DEF Unstored
<1> QED
  BY <1>3, <1>4 DEF ReadForAnalyze

LEMMA ResolveInv == ASSUME PInv, QueueTakesJobs, Resolve PROVE PInv'
<1>1. "resolve" \in Points /\ handler = "resolve"
  BY DEF Resolve, Points
<1>2. handler # None /\ runs[Run] \in RunRecords
  BY <1>1, AtPoint
<1>3. PICK point \in Interpreted : Advance(runs[Run], "resolving", point)
  BY DEF Resolve
<1>4. point \in Points
  BY DEF Interpreted, Points
<1>5. "resolving" \in Stages => Knows(point, Moved(runs[Run], "resolving"), Job, proposals)
  BY <1>2, MovedRun DEF Knows, ApplyPoints, Interpreted
<1> QED
  BY <1>2, <1>3, <1>4, <1>5, AdvanceInv

LEMMA AskInv == ASSUME PInv, QueueTakesJobs, Ask PROVE PInv'
<1>1. "ask" \in Points /\ handler = "ask"
  BY DEF Ask, Points
<1>2. /\ handler # None /\ Run \in Runs /\ runs[Run] # None /\ runs[Run] \in RunRecords
      /\ Knows("ask", runs[Run], Job, proposals)
      /\ Len(proposals) \in Nat /\ DOMAIN proposals = 1..Len(proposals)
  BY <1>1, AtPoint
<1>3. CASE UNCHANGED runs /\ Return("RETRY")
  BY <1>3, ReturnInv DEF Outcomes
<1>4. CASE /\ ~IsTerminal(Run) /\ Goto("done") /\ Unstored
           /\ runs' = [runs EXCEPT ![Run] = Noted(runs[Run], TRUE)]
  <2>a. SUFFICES ASSUME NEW r \in Runs, NEW y, r = Run, y = Noted(runs[r], TRUE) PROVE PInv'
    BY <1>2
  <2>1. runs[r].stage = "resolving"
    BY <1>2, <1>4, <2>a DEF Knows, IsTerminal
  <2>2. IsSoundRun(runs[r], Len(proposals)) /\ TRUE \in BOOLEAN
    BY <1>2, <2>a DEF PInv, RunsAreSound
  <2>3. Follows(runs[r], y) /\ IsSoundRun(y, Len(proposals)) /\ y.stage = "resolving"
    BY <1>2, <2>1, <2>2, <2>a, AnnotatedRun
  <2>4. y.asked
    BY <1>2, <2>2, <2>a, NotedRun
  <2>5. /\ StoreEvolves /\ RunsAreSound' /\ runs' \in [Runs -> RunRecords \cup {None}]
        /\ runs'[r] = y
        /\ \A s \in Runs : runs'[s] # None /\ runs'[s].stage = "verifying" =>
             \/ runs[s] # None /\ runs[s].stage = "verifying"
             \/ proposals'[runs'[s].proposal].fate = "applied"
    BY <1>2, <1>4, <2>3, <2>a, OneRunMoves DEF Unstored
  <2>6. Knows("done", y, Job, proposals') /\ "done" \in Points
    BY <2>3, <2>4 DEF Knows, ApplyPoints, IsAtRest, Points
  <2>7. /\ submitted' \in [Runs -> 0..2] /\ proposals' \in Seq(ProposalRecords)
        /\ spent' \in [Keys -> 0..Len(proposals')] /\ UNCHANGED <<proposals, spent>>
    BY <1>4 DEF Unstored, PInv, PipelineTypeOK
  <2> QED
    BY <1>2, <1>4, <2>5, <2>6, <2>7, <2>a, GotoInv
<1> QED
  BY <1>3, <1>4 DEF Ask

LEMMA SubmitStepInv == ASSUME PInv, QueueTakesJobs, Submit PROVE PInv'
<1>1. "submit" \in Points /\ "refuse" \in Points /\ "analyzing" \in Points /\ handler = "submit"
      /\ UNCHANGED <<runs, proposals, spent>>
  BY DEF Submit, Points
<1>2. handler # None /\ submitted \in [Runs -> 0..2]
  BY <1>1, AtPoint
<1>3. submitted' \in [Runs -> 0..2]
  BY <1>2 DEF Submit
<1>4. PICK point \in {"refuse", "analyzing"} : Goto(point)
  BY DEF Submit
<1>5. Knows(point, runs[Run], Job, proposals)
  BY DEF Knows, ApplyPoints
<1> QED
  BY <1>1, <1>2, <1>3, <1>4, <1>5, GotoOnlyInv

LEMMA ProgressInv == ASSUME PInv, QueueTakesJobs, Progress PROVE PInv'
<1>1. PICK stage \in {"analyzing", "simulating", "validating"},
           next \in {"refuse", "close", "simulating", "validating", "propose"} : ProgressTo(stage, next)
  BY DEF Progress
<1>2. stage \in Points /\ next \in Points /\ handler = stage
  BY <1>1 DEF ProgressTo, Points
<1>3. handler # None /\ runs[Run] \in RunRecords /\ submitted \in [Runs -> 0..2]
  BY <1>2, AtPoint
<1>4. \A run : Knows(next, run, Job, proposals)
  BY DEF Knows, ApplyPoints
<1>5. CASE Goto(next) /\ Unstored /\ UNCHANGED runs
  BY <1>2, <1>3, <1>4, <1>5, GotoOnlyInv DEF Unstored
<1>6. CASE Advance(runs[Run], stage, next)
  BY <1>2, <1>3, <1>4, <1>6, AdvanceInv
<1> QED
  BY <1>1, <1>5, <1>6 DEF ProgressTo

LEMMA ProposeInv == ASSUME PInv, QueueTakesJobs, Propose PROVE PInv'
<1>1. "propose" \in Points /\ "refuse" \in Points /\ "await" \in Points /\ handler = "propose"
      /\ UNCHANGED <<runs, submitted, spent>>
  BY DEF Propose, Points
<1>2. /\ handler # None /\ submitted \in [Runs -> 0..2] /\ Run \in Runs /\ runs[Run] # None
      /\ Len(proposals) \in Nat /\ DOMAIN proposals = 1..Len(proposals)
  BY <1>1, AtPoint
<1>3. CASE Goto("refuse") /\ UNCHANGED proposals
  <2>1. Knows("refuse", runs[Run], Job, proposals)
    BY DEF Knows, ApplyPoints
  <2> QED
    BY <1>1, <1>2, <1>3, <2>1, GotoOnlyInv
<1>4. CASE Goto("await") /\ proposals' = Append(proposals, [run |-> Run, fate |-> "open"])
  <2>a. SUFFICES ASSUME NEW r \in Runs, r = Run, NEW new, new = [run |-> r, fate |-> "open"] PROVE PInv'
    BY <1>2
  <2>1. new \in ProposalRecords /\ new.run = r
    BY <2>a DEF ProposalRecords, Fates
  <2>2. /\ proposals \in Seq(ProposalRecords) /\ proposals' = Append(proposals, new)
        /\ spent \in [Keys -> 0..Len(proposals)] /\ runs \in [Runs -> RunRecords \cup {None}]
    BY <1>4, <2>a DEF PInv, PipelineTypeOK
  <2>3. /\ proposals' \in Seq(ProposalRecords) /\ Len(proposals') = Len(proposals) + 1
        /\ \A p \in DOMAIN proposals : proposals'[p] = proposals[p]
        /\ \A p \in DOMAIN proposals' : p \in DOMAIN proposals \/ proposals'[p] = new
    BY <2>1, <2>2, AppendIs
  <2>4. Len(proposals') >= Len(proposals) /\ 0..Len(proposals) \subseteq 0..Len(proposals')
    BY <1>2, <2>3
  <2>5. StoreEvolves /\ RunsAreSound'
    BY <1>1, <2>3, <2>4, RunsStay
  <2>6. spent' \in [Keys -> 0..Len(proposals')]
    BY <1>1, <2>2, <2>4
  <2>7. \A p \in DOMAIN proposals' : p \in DOMAIN proposals \/ runs[proposals'[p].run] # None
    BY <1>2, <2>1, <2>3, <2>a
  <2>8. Knows("await", runs'[Run], Job, proposals')
    BY <1>2, <2>3 DEF Knows, ApplyPoints
  <2> QED
    BY <1>1, <1>2, <1>4, <2>2, <2>3, <2>5, <2>6, <2>7, <2>8, GotoInv
<1> QED
  BY <1>3, <1>4 DEF Propose

LEMMA AwaitInv == ASSUME PInv, QueueTakesJobs, Await PROVE PInv'
<1>1. "await" \in Points /\ "done" \in Points /\ handler = "await"
  BY DEF Await, Points
<1>2. /\ handler # None /\ runs[Run] \in RunRecords /\ Knows("await", runs[Run], Job, proposals)
      /\ Len(proposals) \in Nat /\ DOMAIN proposals = 1..Len(proposals)
  BY <1>1, AtPoint
<1>a. SUFFICES ASSUME NEW x, x = [runs[Run] EXCEPT !.proposal = Len(proposals)] PROVE PInv'
  OBVIOUS
<1>3. /\ x \in RunRecords /\ x.stage = runs[Run].stage /\ x.proposal = Len(proposals)
      /\ Len(proposals) \in DOMAIN proposals
  BY <1>2, <1>a DEF RunRecords, Knows
<1>4. "awaiting_approval" \in Stages => Knows("done", Moved(x, "awaiting_approval"), Job, proposals)
  BY <1>3, MovedRun DEF Knows, ApplyPoints, IsAtRest
<1>5. Advance(x, "awaiting_approval", "done")
  BY <1>a DEF Await
<1> QED
  BY <1>1, <1>2, <1>3, <1>4, <1>5, AdvanceInv

LEMMA EndInv == ASSUME PInv, QueueTakesJobs, Close \/ Refuse PROVE PInv'
<1>1. PICK point \in {"close", "refuse"}, to \in TerminalStages, next \in {"done", "failed"} :
        handler = point /\ Advance(runs[Run], to, next)
  BY DEF Close, Refuse, TerminalStages
<1>2. point \in Points /\ next \in Points /\ to \notin {"awaiting_approval", "verifying"}
  BY <1>1 DEF Points, TerminalStages
<1>3. handler # None /\ runs[Run] \in RunRecords
  BY <1>1, <1>2, AtPoint
<1>4. to \in Stages => Knows(next, Moved(runs[Run], to), Job, proposals)
  BY <1>1, <1>3, MovedRun DEF Knows, ApplyPoints, IsAtRest
<1> QED
  BY <1>1, <1>2, <1>3, <1>4, AdvanceInv

LEMMA ReadForApplyInv == ASSUME PInv, QueueTakesJobs, ReadForApply PROVE PInv'
<1>1. "read" \in Points /\ handler = "read" /\ UNCHANGED runs /\ Job.kind = "apply"
  BY DEF ReadForApply, Points
<1>2. handler # None /\ submitted \in [Runs -> 0..2]
  BY <1>1, AtPoint
<1>3. CASE Return("COMPLETED")
  BY <1>1, <1>3, ReturnInv DEF Outcomes, FinalStates
<1>4. ASSUME NEW point \in {"claim", "reread"}, Goto(point), Unstored PROVE PInv'
  <2>1. point \in Points /\ Knows(point, runs[Run], Job, proposals)
    BY <1>1, <1>4 DEF Knows, Points
  <2> QED
    BY <1>1, <1>2, <1>4, <2>1, GotoOnlyInv DEF Unstored
<1> QED
  BY <1>3, <1>4 DEF ReadForApply

LEMMA ClaimInv == ASSUME PInv, QueueTakesJobs, Claim PROVE PInv'
<1>1. "claim" \in Points /\ "reread" \in Points /\ handler = "claim"
      /\ Advance(runs[Run], "applying", "reread")
  BY DEF Claim, Points
<1>2. handler # None /\ runs[Run] \in RunRecords /\ Knows("claim", runs[Run], Job, proposals)
  BY <1>1, AtPoint
<1>3. Knows("reread", Moved(runs[Run], "applying"), Job, proposals)
  BY <1>2 DEF Knows, ApplyPoints
<1> QED
  BY <1>1, <1>2, <1>3, AdvanceInv

LEMMA RereadInv == ASSUME PInv, QueueTakesJobs, Reread PROVE PInv'
<1>1. PICK point \in {"apply", "verify"} : Goto(point)
  BY DEF Reread
<1>2. "reread" \in Points /\ handler = "reread" /\ point \in Points
      /\ UNCHANGED <<runs, submitted, proposals, spent>>
  BY DEF Reread, Points, Unstored
<1>3. handler # None /\ submitted \in [Runs -> 0..2] /\ Knows("reread", runs[Run], Job, proposals)
  BY <1>2, AtPoint
<1>4. Knows(point, runs[Run], Job, proposals)
  BY <1>3 DEF Knows, ApplyPoints
<1> QED
  BY <1>1, <1>2, <1>3, <1>4, GotoOnlyInv

\* What an apply job knows of its run and its proposal.
LEMMA ApplyJob ==
  ASSUME PInv, NEW point \in ApplyPoints, handler = point
  PROVE  /\ point \in Points /\ handler # None /\ Knows(point, runs[Run], Job, proposals)
         /\ Job.proposal \in DOMAIN proposals /\ Job.key \in Keys
         /\ Job.proposal = runs[Run].proposal /\ runs[Run].stage \in LateStages
         /\ runs[Run] \in RunRecords
<1>1. point \in Points
  BY DEF ApplyPoints, Points
<1>2. handler # None /\ Knows(point, runs[Run], Job, proposals) /\ runs[Run] \in RunRecords
      /\ DOMAIN proposals = 1..Len(proposals)
  BY <1>1, AtPoint
<1>3. Job.kind = "apply" /\ IsSound(runs, Len(proposals), jobs[current].identity, Job)
  BY <1>2, HandlerOwns DEF Knows
<1>4. /\ Job.key \in Keys /\ Job = ApplyPayload(Run, runs[Run].proposal, Job.key)
      /\ Job.proposal \in 1..Len(proposals) /\ runs[Run].stage \in LateStages
  BY <1>3 DEF IsSound, Run
<1>5. Job.proposal = runs[Run].proposal
  BY <1>4 DEF ApplyPayload
<1> QED
  BY <1>1, <1>2, <1>4, <1>5

LEMMA ApplyStepInv == ASSUME PInv, QueueTakesJobs, Apply PROVE PInv'
<1>1. /\ "apply" \in ApplyPoints /\ handler = "apply" /\ UNCHANGED <<runs, submitted>>
      /\ "verifying" \in Points /\ "refuse" \in Points
  BY DEF Apply, ApplyPoints, Points
<1>2. /\ handler # None /\ Knows("apply", runs[Run], Job, proposals)
      /\ Job.proposal \in DOMAIN proposals /\ Job.key \in Keys
  BY <1>1, ApplyJob
<1>3. PICK point \in {"verifying", "refuse"} :
        /\ Goto(point)
        /\ point = "verifying" => ApplySucceeds(Job.proposal, Job.key)
        /\ ApplySucceeds(Job.proposal, Job.key) \/ ApplyRefuses(Job.proposal, Job.key)
  BY DEF Apply
<1>4. /\ proposals' \in Seq(ProposalRecords) /\ Len(proposals') = Len(proposals)
      /\ DOMAIN proposals' = DOMAIN proposals
      /\ \A i \in DOMAIN proposals :
           /\ proposals'[i].run = proposals[i].run
           /\ proposals[i].fate = "applied" => proposals'[i].fate = "applied"
      /\ spent' \in [Keys -> 0..Len(proposals)]
      /\ \A l \in Keys : spent'[l] = spent[l] \/ proposals'[spent'[l]].fate = "applied"
      /\ ApplySucceeds(Job.proposal, Job.key) => proposals'[Job.proposal].fate = "applied"
  BY <1>2, <1>3, ApplyIs
<1>5. Knows(point, runs'[Run], Job, proposals')
  BY <1>1, <1>2, <1>3, <1>4 DEF Knows, ApplyPoints
<1>6. /\ runs' \in [Runs -> RunRecords \cup {None}] /\ submitted' \in [Runs -> 0..2]
      /\ Len(proposals') >= Len(proposals)
  BY <1>1, <1>4, ProposalIs DEF PInv, PipelineTypeOK
<1>7. StoreEvolves /\ RunsAreSound'
  BY <1>1, <1>4, <1>6, RunsStay
<1>8. \A r \in Runs : runs'[r] # None /\ runs'[r].stage = "verifying" =>
        runs[r] # None /\ runs[r].stage = "verifying"
  BY <1>1
<1> QED
  BY <1>1, <1>2, <1>3, <1>4, <1>5, <1>6, <1>7, <1>8, GotoInv

LEMMA EnterVerifyingInv == ASSUME PInv, QueueTakesJobs, EnterVerifying PROVE PInv'
<1>1. /\ "verifying" \in ApplyPoints /\ handler = "verifying" /\ "verify" \in Points
      /\ Advance(runs[Run], "verifying", "verify")
  BY DEF EnterVerifying, ApplyPoints, Points
<1>2. /\ handler # None /\ Knows("verifying", runs[Run], Job, proposals)
      /\ Job.proposal = runs[Run].proposal /\ runs[Run] \in RunRecords
  BY <1>1, ApplyJob
<1>3. /\ Knows("verify", Moved(runs[Run], "verifying"), Job, proposals)
      /\ proposals[runs[Run].proposal].fate = "applied"
  BY <1>2 DEF Knows, ApplyPoints
<1> QED
  BY <1>1, <1>2, <1>3, AdvanceInv

LEMMA VerifyInv == ASSUME PInv, QueueTakesJobs, Verify PROVE PInv'
<1>1. PICK point \in {"refuse", "close"} : Goto(point)
  BY DEF Verify
<1>2. "verify" \in Points /\ handler = "verify" /\ point \in Points
      /\ UNCHANGED <<runs, submitted, proposals, spent>>
  BY DEF Verify, Points, Unstored
<1>3. handler # None /\ submitted \in [Runs -> 0..2] /\ Knows(point, runs[Run], Job, proposals)
  BY <1>2, AtPoint DEF Knows, ApplyPoints
<1> QED
  BY <1>1, <1>2, <1>3, GotoOnlyInv

LEMMA HandlerReturnsInv == ASSUME PInv, QueueTakesJobs, HandlerReturns \/ Throw PROVE PInv'
BY ReturnInv DEF HandlerReturns, Throw, Outcomes, FinalStates

-----------------------------------------------------------------------------
(* The specification.                                                      *)

LEMMA PipelineInit == ASSUME Init PROVE PInv
<1>1. QInv /\ QueueTypeOK
  BY InitInv DEF Init, QInv
<1>2. /\ jobs = [id \in Ids |-> None] /\ runs = [r \in Runs |-> None] /\ proposals = <<>>
      /\ spent = [k \in Keys |-> 0] /\ handler = None /\ current = None /\ binder = {} /\ calls = {}
      /\ submitted = [r \in Runs |-> 0] /\ restarts = 0
  BY DEF Init, QueueInit
<1>3. proposals \in Seq(ProposalRecords) /\ Len(proposals) = 0 /\ DOMAIN proposals = {}
  BY <1>2
<1>4. PipelineTypeOK
  BY <1>1, <1>2, <1>3, MaxRestartsIsNatural DEF PipelineTypeOK
<1>5. JobsAreSound /\ CallsAreSound /\ FirstCallsEnqueue /\ BinderIsSound /\ PointIsSound
  BY <1>2 DEF JobsAreSound, Held, CallsAreSound, FirstCallsEnqueue, BinderIsSound, PointIsSound
<1>6. RunsAreSound /\ ProposalsAreSound /\ SpentMeansApplied /\ VerifyingMeansApplied
  BY <1>2, <1>3 DEF RunsAreSound, ProposalsAreSound, SpentMeansApplied, VerifyingMeansApplied
<1> QED
  BY <1>1, <1>4, <1>5, <1>6 DEF PInv

LEMMA PipelineStutter == ASSUME PInv, QueueTakesJobs, UNCHANGED vars PROVE PInv'
<1>1. UNCHANGED queueVars /\ UNCHANGED appVars
  BY DEF vars
<1>2. /\ QInv' /\ JobsCarryOver /\ IdentitiesFree /\ UNCHANGED <<jobs, current>>
  BY <1>1, QueueStays
<1> QED
  BY <1>1, <1>2, QueueOnlyInv, HandlerOwns

LEMMA PipelineNext == ASSUME PInv, QueueTakesJobs, Next PROVE PInv'
<1>1. CASE Client
  BY <1>1, SubmitInv, ResumeInv, DecideInv, RequestApplyInv, DirectApplyInv DEF Client
<1>2. CASE FinishCall
  BY <1>2, EnqueueCallInv, CloseCallInv DEF FinishCall
<1>3. CASE \/ QueueStep(StartQueue) \/ QueueStep(LoopFires) \/ QueueStep(LoopEnds)
           \/ QueueStep(LoopCleared) \/ \E id \in Ids : QueueStep(RetryFires(id))
  BY <1>3, QueueStepInv DEF QueueStep
<1>4. CASE DeliverJob
  BY <1>4, DeliverJobInv
<1>5. CASE HandlerStep \/ Throw
  <2>1. CASE \/ ReadForAnalyze \/ Resolve \/ Ask \/ Submit \/ Progress \/ Propose \/ Await
             \/ Close \/ Refuse
    BY <2>1, ReadForAnalyzeInv, ResolveInv, AskInv, SubmitStepInv, ProgressInv, ProposeInv,
       AwaitInv, EndInv
  <2>2. CASE \/ ReadForApply \/ Claim \/ Reread \/ Apply \/ EnterVerifying \/ Verify
             \/ HandlerReturns \/ Throw
    BY <2>2, ReadForApplyInv, ClaimInv, RereadInv, ApplyStepInv, EnterVerifyingInv, VerifyInv,
       HandlerReturnsInv
  <2> QED
    BY <1>5, <2>1, <2>2 DEF HandlerStep
<1>6. CASE BinderStep
  BY <1>6, BinderInv DEF BinderStep
<1>7. CASE Restart
  BY <1>7, RestartInv
<1> QED
  BY <1>1, <1>2, <1>3, <1>4, <1>5, <1>6, <1>7 DEF Next

\* What is known of the queue, the runs, the calls, the handler and the
\* proposals together holds of every state the pipeline reaches, whatever is
\* thrown, retried, forgotten or restarted on the way.
THEOREM PipelineIsSound == ASSUME QueueTakesJobs PROVE Spec => []PInv
<1>1. Init => PInv
  BY PipelineInit
<1>2. PInv /\ [Next]_vars => PInv'
  BY PipelineNext, PipelineStutter
<1> QED
  BY <1>1, <1>2, PTL DEF Spec

\* The variables of the pipeline, the queue's included, keep their types.
THEOREM PipelineIsTyped == ASSUME QueueTakesJobs PROVE Spec => []PipelineTypeOK
<1>1. PInv => PipelineTypeOK
  BY DEF PInv
<1> QED
  BY <1>1, PipelineIsSound, PTL

\* A run is never at verifying unless its proposal is written, whichever
\* attempt, job or direct request wrote it.
THEOREM RunsVerifyWhatIsApplied == ASSUME QueueTakesJobs PROVE Spec => []VerifyingMeansApplied
<1>1. PInv => VerifyingMeansApplied
  BY DEF PInv
<1> QED
  BY <1>1, PipelineIsSound, PTL

-----------------------------------------------------------------------------
(* Whose a run is.                                                         *)

\* What owns a run still does.
OwnersStay(r) ==
    /\ \A c \in calls : IsFirst(c) /\ c.payload.run = r => c \in calls'
    /\ \A id \in Held(jobs) : jobs[id].payload.run = r /\ jobs[id].state \notin FinalStates =>
         /\ id \in Held(jobs') /\ jobs'[id].payload.run = r
         /\ jobs'[id].state \notin FinalStates
    /\ \A b \in binder : b.run = r /\ b.to = "fail" => b \in binder'

\* A run keeps its owner, comes to rest or gets an owner.
LEMMA OwnersCarry ==
  ASSUME EveryRunIsOwned,
         \A r \in Runs : runs'[r] # None =>
           \/ Rests(r)' \/ Owner(r)'
           \/ runs[r] = runs'[r] /\ restarts = restarts' /\ OwnersStay(r)
  PROVE  EveryRunIsOwned'
<1> SUFFICES ASSUME NEW r \in Runs, runs'[r] # None, runs[r] = runs'[r], restarts = restarts',
                    OwnersStay(r)
             PROVE  Rests(r)' \/ Owner(r)'
  BY DEF EveryRunIsOwned
<1>1. CASE Rests(r)
  BY <1>1 DEF Rests, IsTerminal
<1>2. CASE Owner(r)
  BY <1>2 DEF Owner, OwnersStay
<1> QED
  BY <1>1, <1>2 DEF EveryRunIsOwned

LEMMA QueueKeepsOwners ==
  ASSUME PInv, JobsCarryOver, UnfinishedStay, NEW r \in Runs,
         current = None \/ jobs[current].payload.run # r,
         calls \subseteq calls', binder \subseteq binder'
  PROVE  OwnersStay(r)
<1>1. \A id \in Held(jobs) : jobs[id].payload.run = r => id # current
  BY NoneIsNoJob DEF Held, Ids
<1> QED
  BY <1>1 DEF OwnersStay, UnfinishedStay, JobsCarryOver

\* A job whose failure is announced has its record when the binder asks for it.
LEMMA GivenUpIsHeld ==
  ASSUME QInv, CurrentIsRetained, Settle("RETRY")
  PROVE  jobs'[current] # None
<1>1. /\ current \in Ids /\ current # None /\ jobs[current] \in JobRecords /\ jobs[current] # None
      /\ jobs \in [Ids -> JobRecords \cup {None}]
  BY CurrentRuns DEF Settle, QInv, QueueTypeOK
<1>2. CASE GiveUp
  <2>a. SUFFICES ASSUME NEW js, js = [jobs EXCEPT ![current].state = "FAILED"]
                 PROVE  jobs'[current] # None
    OBVIOUS
  <2>1. /\ \A id \in Ids \ {current} : js[id] = jobs[id]
        /\ js[current] \in JobRecords /\ js[current].state = "FAILED"
    BY <1>1, <2>a DEF JobRecords, States, FinalStates
  <2>2. js[current] # None
    BY <2>1, NoneIsNoRecord
  <2>3. Held(js) = Held(jobs)
    BY <1>1, <2>1, <2>2 DEF Held
  <2>4. {j \in FinishedIn(js) : j < current} = {id \in FinishedIn(jobs) : id < current}
    BY <1>1, <2>1, <2>3 DEF FinishedIn, Held, Ids
  <2>5. current \notin Forgotten(js)
    <3>1. /\ Cardinality({id \in FinishedIn(jobs) : id < current}) \in Nat
          /\ Cardinality(Held(jobs)) \in Nat
      <4>1. IsFiniteSet(Ids)
        BY FS_Interval, MaxJobsIsNatural DEF Ids
      <4>2. IsFiniteSet(Held(jobs)) /\ IsFiniteSet({id \in FinishedIn(jobs) : id < current})
        BY <4>1, FS_Subset DEF Held, FinishedIn
      <4> QED
        BY <4>2, FS_CardinalityType
    <3>2. Cardinality({id \in FinishedIn(jobs) : id < current}) >= Cardinality(Held(jobs)) - MaxRetained
      BY <1>1 DEF CurrentIsRetained
    <3>3. ~ Cardinality({j \in FinishedIn(js) : j < current}) < Cardinality(Held(js)) - MaxRetained
      BY <2>3, <2>4, <3>1, <3>2, MaxRetainedIsNatural
    <3> QED
      BY <3>3 DEF Forgotten
  <2>6. jobs'[current] = js[current]
    BY <1>1, <1>2, <2>5, <2>a DEF GiveUp, Prune
  <2> QED
    BY <2>2, <2>6
<1>3. CASE MayRetry(jobs[current])
  BY <1>3, SettleFrame DEF Outcomes, Held
<1> QED
  BY <1>2, <1>3 DEF Settle, FinalStates

LEMMA RouteOwners ==
  ASSUME PInv, EveryRunIsOwned, UNCHANGED <<queueVars, runs, binder, restarts>>, calls \subseteq calls'
  PROVE  EveryRunIsOwned'
<1>1. UNCHANGED jobs
  BY DEF queueVars
<1>2. \A r \in Runs : OwnersStay(r)
  BY <1>1 DEF OwnersStay, Held
<1> QED
  BY <1>2, OwnersCarry

LEMMA ClientOwners == ASSUME PInv, EveryRunIsOwned, Client PROVE EveryRunIsOwned'
<1>1. ASSUME NEW r \in Runs, NEW resolved \in BOOLEAN, SubmitChange(r, resolved)
      PROVE  EveryRunIsOwned'
  <2>a. SUFFICES ASSUME NEW new, new = EnqueueCall(AnalyzeIdentity(r, 1), AnalyzePayload(r, resolved))
                 PROVE  EveryRunIsOwned'
    OBVIOUS
  <2>1. /\ new \in calls' /\ calls \subseteq calls' /\ \A s \in Runs : s # r => runs'[s] = runs[s]
        /\ UNCHANGED <<queueVars, binder, restarts>>
    BY <1>1, <2>a DEF SubmitChange, PInv, PipelineTypeOK
  <2>2. IsFirst(new) /\ new.payload.run = r
    BY <2>a DEF IsFirst, EnqueueCall, AnalyzePayload
  <2>3. Owner(r)'
    BY <2>1, <2>2 DEF Owner
  <2>4. \A s \in Runs : OwnersStay(s)
    BY <2>1 DEF OwnersStay, Held, queueVars
  <2> QED
    BY <2>1, <2>3, <2>4, OwnersCarry
<1>2. ASSUME NEW r \in Runs, NEW resolved \in BOOLEAN, ResumeChange(r, resolved)
      PROVE  EveryRunIsOwned'
  BY <1>2, RouteOwners DEF ResumeChange
<1>3. ASSUME NEW p \in DOMAIN proposals, NEW decision \in {"approved", "rejected"}, NEW named \in BOOLEAN,
             Decide(p, decision, named)
      PROVE  EveryRunIsOwned'
  BY <1>3, RouteOwners DEF Decide
<1>4. ASSUME NEW r \in Runs, NEW k \in Keys, RequestApply(r, k) PROVE EveryRunIsOwned'
  BY <1>4, RouteOwners DEF RequestApply
<1>5. ASSUME NEW p \in DOMAIN proposals, NEW k \in Keys, DirectApply(p, k) PROVE EveryRunIsOwned'
  BY <1>5, RouteOwners DEF DirectApply
<1> QED
  BY <1>1, <1>2, <1>3, <1>4, <1>5 DEF Client

\* The call that starts a run is the first of its identity, so it hands the run
\* over to a job of its own.
LEMMA EnqueueOwners ==
  ASSUME PInv, QueueTakesJobs, EveryRunIsOwned, NEW c \in calls, FinishEnqueue(c)
  PROVE  EveryRunIsOwned'
<1>1. /\ c.kind = "enqueue" /\ calls' = calls \ {c} /\ UNCHANGED <<runs, binder, restarts>>
  BY DEF FinishEnqueue
<1>2. /\ c.identity \in Identities /\ c.payload \in Payloads
  BY <1>1, CallIdentity
<1>3. CASE UNCHANGED queueVars /\ ~IsFirst(c)
  <2>1. \A r \in Runs : OwnersStay(r)
    BY <1>1, <1>3 DEF OwnersStay, Held, queueVars
  <2> QED
    BY <1>1, <2>1, OwnersCarry
<1>4. CASE Enqueue(c.identity, c.payload)
  <2>a. SUFFICES ASSUME NEW id, id = enqueued + 1, NEW job,
                        job = [identity |-> c.identity, payload |-> c.payload,
                               state |-> "QUEUED", attempt |-> 1]
                 PROVE  EveryRunIsOwned'
    OBVIOUS
  <2>1. /\ jobs \in [Ids -> JobRecords \cup {None}] /\ enqueued \in 0..MaxJobs /\ enqueued < MaxJobs
        /\ jobs' = [jobs EXCEPT ![id] = job] /\ IdsAreFresh
    BY <1>4, <2>a DEF Enqueue, PInv, QInv, QueueTypeOK
  <2>2. id \in Ids /\ jobs[id] = None
    BY <2>1, <2>a, MaxJobsIsNatural DEF Ids, IdsAreFresh
  <2>3. /\ job \in JobRecords /\ job.state \notin FinalStates /\ job.payload = c.payload
    BY <1>2, <2>a, MaxAttemptsIsPositive DEF JobRecords, States, FinalStates
  <2>4. /\ \A j \in Ids \ {id} : jobs'[j] = jobs[j]
        /\ id \in Held(jobs') /\ jobs'[id].state \notin FinalStates /\ jobs'[id].payload = c.payload
    BY <2>1, <2>2, <2>3, NoneIsNoRecord DEF Held
  <2>5. \A r \in Runs : r = c.payload.run => Owner(r)'
    BY <2>4 DEF Owner
  <2>6. \A r \in Runs : r # c.payload.run => OwnersStay(r)
    BY <1>1, <2>2, <2>4 DEF OwnersStay, Held
  <2> QED
    BY <1>1, <2>5, <2>6, OwnersCarry
<1>5. IsFirst(c) => jobIdByKey[c.identity] = None
  BY DEF PInv, FirstCallsEnqueue
<1> QED
  BY <1>3, <1>4, <1>5 DEF FinishEnqueue

LEMMA CloseOwners ==
  ASSUME PInv, EveryRunIsOwned, NEW c \in calls, FinishClose(c)
  PROVE  EveryRunIsOwned'
<1>1. /\ c.kind = "close" /\ calls' = calls \ {c} /\ UNCHANGED <<jobs, binder, restarts>>
      /\ c.run \in Runs /\ runs[c.run] \in RunRecords
      /\ runs \in [Runs -> RunRecords \cup {None}]
  BY DEF FinishClose, queueVars, PInv, CallsAreSound, IsSoundCall, PipelineTypeOK
<1>2. \A r \in Runs : OwnersStay(r)
  BY <1>1 DEF OwnersStay, Held, IsFirst
<1>3. CASE UNCHANGED runs
  BY <1>1, <1>2, <1>3, OwnersCarry
<1>4. CASE runs' = [runs EXCEPT ![c.run] = Moved(runs[c.run], "completed")]
  <2>a. SUFFICES ASSUME NEW r \in Runs, NEW y, r = c.run, y = Moved(runs[r], "completed")
                 PROVE  EveryRunIsOwned'
    BY <1>1
  <2>1. y.stage = "completed"
    BY <1>1, <2>a, StagesAre, MovedRun
  <2>2. runs'[r] = y /\ \A s \in Runs : s # r => runs'[s] = runs[s]
    BY <1>1, <1>4, <2>a
  <2>3. Rests(r)'
    BY <2>1, <2>2 DEF Rests, IsTerminal, TerminalStages
  <2> QED
    BY <1>1, <1>2, <2>2, <2>3, OwnersCarry
<1> QED
  BY <1>3, <1>4 DEF FinishClose

\* The queue's own steps forget no unfinished job.
LEMMA QueueStepOwners ==
  ASSUME PInv, EveryRunIsOwned, UNCHANGED <<runs, binder, calls, restarts>>, current = None \/ UNCHANGED jobs,
         JobsCarryOver, UnfinishedStay
  PROVE  EveryRunIsOwned'
<1>1. CASE UNCHANGED jobs
  <2>1. \A r \in Runs : OwnersStay(r)
    BY <1>1 DEF OwnersStay, Held
  <2> QED
    BY <2>1, OwnersCarry
<1>2. CASE current = None
  <2>1. \A r \in Runs : OwnersStay(r)
    BY <1>2, QueueKeepsOwners
  <2> QED
    BY <2>1, OwnersCarry
<1> QED
  BY <1>1, <1>2

\* The job of a handler that goes on owns its run.
LEMMA GotoOwners ==
  ASSUME PInv, EveryRunIsOwned, handler # None, NEW point, Goto(point),
         \A r \in Runs : r # Run => runs'[r] = runs[r]
  PROVE  EveryRunIsOwned'
<1>1. UNCHANGED <<jobs, binder, calls, restarts>>
  BY DEF Goto, queueVars
<1>2. /\ current \in Held(jobs) /\ jobs[current].state = "RUNNING"
  BY HandlerOwns
<1>3. \A r \in Runs : r = Run => Owner(r)'
  BY <1>1, <1>2 DEF Owner, Run, Job, Held, FinalStates
<1>4. \A r \in Runs : OwnersStay(r)
  BY <1>1 DEF OwnersStay, Held
<1> QED
  BY <1>1, <1>3, <1>4, OwnersCarry

\* A handler that returns leaves its run at rest, to the job's next attempt or
\* to the binder.
LEMMA ReturnOwners ==
  ASSUME PInv, EveryRunIsOwned, CurrentIsRetained, NEW outcome \in Outcomes, Return(outcome),
         UNCHANGED runs, outcome = "RETRY" \/ Rests(Run)
  PROVE  EveryRunIsOwned'
<1>1. Settle(outcome) /\ handler # None /\ current # None /\ UNCHANGED <<calls, restarts>>
  BY DEF Return, Settle, PInv, PipelineTypeOK
<1>2. /\ current \in Held(jobs) /\ QInv /\ current \in Ids /\ Run = jobs[current].payload.run
      /\ Run \in Runs
  BY <1>1, HandlerOwns DEF Run, Job
<1>3. /\ JobsCarryOver /\ UnfinishedStay
      /\ IF outcome = "RETRY" /\ MayRetry(jobs[current])
         THEN current \in Held(jobs') /\ jobs'[current].state = "QUEUED"
         ELSE jobs'[current] = None \/ jobs'[current].state \in FinalStates
  BY <1>1, <1>2, SettleFrame
<1>4. binder \subseteq binder'
  BY DEF Return
<1>5. \A r \in Runs : r # Run => OwnersStay(r)
  BY <1>1, <1>2, <1>3, <1>4, QueueKeepsOwners
<1>6. \A r \in Runs : r = Run => Rests(r)' \/ Owner(r)'
  <2>1. CASE Rests(Run)
    BY <1>1, <2>1 DEF Rests, IsTerminal
  <2>2. CASE outcome = "RETRY" /\ MayRetry(jobs[current])
    <3>1. current \in Held(jobs') /\ jobs'[current].payload.run = Run /\ jobs'[current].state \notin FinalStates
      BY <1>2, <1>3, <2>2 DEF JobsCarryOver, FinalStates
    <3> QED
      BY <3>1 DEF Owner
  <2>3. CASE outcome = "RETRY" /\ ~MayRetry(jobs[current]) /\ ~IsTerminal(Run)
    <3>1. jobs'[current] # None /\ jobs'[current].state # "QUEUED"
      BY <1>1, <1>2, <1>3, <2>3, GivenUpIsHeld DEF FinalStates
    <3>a. SUFFICES ASSUME NEW b, b = [job |-> current, attempt |-> jobs[current].attempt, run |-> Run,
                                      to |-> "fail"]
                   PROVE  \A r \in Runs : r = Run => Owner(r)'
      OBVIOUS
    <3>2. b \in binder' /\ b.run = Run /\ b.to = "fail"
      BY <2>3, <3>1, <3>a DEF Return, IsAnnounced
    <3> QED
      BY <3>2 DEF Owner
  <2> QED
    BY <2>1, <2>2, <2>3 DEF Rests
<1> QED
  BY <1>1, <1>5, <1>6, OwnersCarry

\* What a handler's step comes down to, for the runs.
LEMMA HandlerStepIs ==
  ASSUME PInv, HandlerStep \/ Throw
  PROVE  /\ handler # None
         /\ \/ /\ \E point \in Points : Goto(point)
               /\ \A r \in Runs : r # Run => runs'[r] = runs[r]
            \/ /\ UNCHANGED runs
               /\ \E outcome \in Outcomes : Return(outcome) /\ (outcome = "RETRY" \/ Rests(Run))
<1>a. DEFINE Goes == /\ handler # None
                     /\ \E point \in Points : Goto(point)
                     /\ \A r \in Runs : r # Run => runs'[r] = runs[r]
             Stops == /\ handler # None /\ UNCHANGED runs
                      /\ \E outcome \in Outcomes : Return(outcome) /\ (outcome = "RETRY" \/ Rests(Run))
<1>0. runs \in [Runs -> RunRecords \cup {None}] /\ "RETRY" \in Outcomes
  BY DEF PInv, PipelineTypeOK, Outcomes
<1>1. ASSUME NEW x, NEW to, NEW next \in Points, Advance(x, to, next), handler # None
      PROVE  Goes \/ Stops
  BY <1>0, <1>1 DEF Advance
<1>2. CASE ReadForAnalyze
  <2>1. handler # None /\ UNCHANGED runs
    BY <1>2, NoneIsNoPoint DEF ReadForAnalyze, Points
  <2>2. CASE IsTerminal(Run) /\ Return("COMPLETED")
    BY <2>1, <2>2 DEF Outcomes, FinalStates, Rests
  <2>3. CASE \E point \in FirstSteps(Run, Job.resolved) : Goto(point)
    BY <2>1, <2>3 DEF FirstSteps, Interpreted, Points
  <2> QED
    BY <1>2, <2>2, <2>3 DEF ReadForAnalyze
<1>3. CASE ReadForApply
  <2>1. handler # None /\ UNCHANGED runs
    BY <1>3, NoneIsNoPoint DEF ReadForApply, Points
  <2>2. CASE IsTerminal(Run) /\ Return("COMPLETED")
    BY <2>1, <2>2 DEF Outcomes, FinalStates, Rests
  <2>3. CASE \E point \in {"claim", "reread"} : Goto(point)
    BY <2>1, <2>3 DEF Points
  <2> QED
    BY <1>3, <2>2, <2>3 DEF ReadForApply
<1>4. CASE HandlerReturns
  <2>1. PICK point \in {"done", "failed"} : handler = point
    BY <1>4 DEF HandlerReturns
  <2>2. point \in Points
    BY <2>1 DEF Points
  <2>3. handler # None /\ Knows(point, runs[Run], Job, proposals)
    BY <2>1, <2>2, AtPoint
  <2>4. Rests(Run)
    BY <2>1, <2>3 DEF Knows, IsAtRest, Rests, IsTerminal
  <2> QED
    BY <1>4, <2>3, <2>4 DEF HandlerReturns, Outcomes, FinalStates
<1>5. CASE Throw
  BY <1>0, <1>5 DEF Throw
<1>6. CASE Ask
  <2>1. handler # None /\ "done" \in Points
    BY <1>6, NoneIsNoPoint DEF Ask, Points
  <2> QED
    BY <1>0, <1>6, <2>1 DEF Ask
<1>7. CASE Resolve \/ Await \/ Close \/ Refuse \/ Claim \/ EnterVerifying
  <2>1. handler # None
    BY <1>7, NoneIsNoPoint DEF Resolve, Await, Close, Refuse, Claim, EnterVerifying, Points
  <2>2. \E x, to, next : next \in Points /\ Advance(x, to, next)
    BY <1>7 DEF Resolve, Await, Close, Refuse, Claim, EnterVerifying, Points, Interpreted
  <2> QED
    BY <1>1, <2>1, <2>2
<1>8. CASE Progress
  <2>1. handler # None
    BY <1>8, NoneIsNoPoint DEF Progress, ProgressTo, Points
  <2>2. \/ \E x, to, next : next \in Points /\ Advance(x, to, next)
        \/ UNCHANGED runs /\ \E point \in Points : Goto(point)
    BY <1>8 DEF Progress, ProgressTo, Points
  <2> QED
    BY <1>1, <2>1, <2>2
<1>9. CASE Submit \/ Propose \/ Reread \/ Apply \/ Verify
  <2>1. handler # None /\ UNCHANGED runs
    BY <1>9, NoneIsNoPoint DEF Submit, Propose, Reread, Apply, Verify, Points
  <2>2. \E point \in Points : Goto(point)
    BY <1>9 DEF Submit, Propose, Reread, Apply, Verify, Points
  <2> QED
    BY <2>1, <2>2
<1> QED
  BY <1>2, <1>3, <1>4, <1>5, <1>6, <1>7, <1>8, <1>9 DEF HandlerStep

LEMMA HandlerOwners ==
  ASSUME PInv, EveryRunIsOwned, CurrentIsRetained, HandlerStep \/ Throw
  PROVE  EveryRunIsOwned'
BY HandlerStepIs, GotoOwners, ReturnOwners

\* The binder puts the run it fails to rest, and a note moves no run.
LEMMA BinderOwners ==
  ASSUME PInv, EveryRunIsOwned, NEW b \in binder, BinderReacts(b)
  PROVE  EveryRunIsOwned'
<1>1. /\ b.run \in Runs /\ runs[b.run] \in RunRecords /\ b.to \in {"note", "fail"}
      /\ runs \in [Runs -> RunRecords \cup {None}]
  BY DEF PInv, PipelineTypeOK, BinderIsSound
<1>a. SUFFICES ASSUME NEW r \in Runs, r = b.run,
                      NEW y, y = IF IsTerminal(r) THEN runs[r]
                                 ELSE IF b.to = "note" THEN Noted(runs[r], FALSE)
                                 ELSE Moved(runs[r], "failed")
               PROVE  EveryRunIsOwned'
  BY <1>1
<1>2. /\ binder' = binder \ {b} /\ runs' = [runs EXCEPT ![r] = y]
      /\ UNCHANGED <<jobs, calls, restarts>>
  BY <1>a DEF BinderReacts, queueVars
<1>3. runs'[r] = y /\ \A s \in Runs : s # r => runs'[s] = runs[s]
  BY <1>1, <1>2
<1>4. \A s \in Runs : s # r => OwnersStay(s)
  BY <1>2, <1>a DEF OwnersStay, Held
<1>5. CASE IsTerminal(r)
  BY <1>2, <1>3, <1>4, <1>5, <1>a, OwnersCarry DEF Rests, IsTerminal
<1>6. CASE ~IsTerminal(r) /\ b.to = "fail"
  <2>1. y = Moved(runs[r], "failed")
    BY <1>6, <1>a
  <2>2. y.stage = "failed"
    <3>1. runs[r] \in RunRecords /\ "failed" \in Stages
      BY <1>1, <1>a, StagesAre
    <3> QED
      BY <2>1, <3>1, MovedRun
  <2>3. Rests(r)'
    BY <1>3, <2>2 DEF Rests, IsTerminal, TerminalStages
  <2> QED
    BY <1>2, <1>3, <1>4, <2>3, OwnersCarry
<1>7. CASE ~IsTerminal(r) /\ b.to = "note"
  <2>1. y = Noted(runs[r], FALSE) /\ FALSE \in BOOLEAN
    BY <1>7, <1>a
  <2>2. y.stage = runs[r].stage /\ y.asked = (runs[r].asked \/ FALSE)
    <3>1. runs[r] \in RunRecords
      BY <1>1, <1>a
    <3> QED
      BY <2>1, <3>1, NotedRun
  <2>3. Rests(r) => Rests(r)'
    BY <1>2, <1>3, <2>2 DEF Rests, IsTerminal
  <2>4. Owner(r) => Owner(r)'
    BY <1>2, <1>7 DEF Owner, Held
  <2>5. Rests(r) \/ Owner(r)
    BY <1>1, <1>a, NoneIsNoRun DEF EveryRunIsOwned
  <2> QED
    BY <1>2, <1>3, <1>4, <2>3, <2>4, <2>5, OwnersCarry
<1> QED
  BY <1>1, <1>5, <1>6, <1>7

\* What is interrupted is failed, and what waits for a person waits.
LEMMA RestartOwners == ASSUME PInv, Restart PROVE EveryRunIsOwned'
<1> SUFFICES ASSUME NEW r \in Runs, runs'[r] # None PROVE Rests(r)'
  BY DEF EveryRunIsOwned
<1>1. /\ runs'[r] = Reconciled(runs[r]) /\ restarts' > 0
      /\ runs \in [Runs -> RunRecords \cup {None}]
  BY MaxRestartsIsNatural DEF Restart, PInv, PipelineTypeOK
<1>2. runs[r] # None /\ runs[r] \in RunRecords /\ IsSoundRun(runs[r], Len(proposals))
  BY <1>1 DEF Reconciled, PInv, RunsAreSound
<1>3. runs'[r].stage \in TerminalStages \cup {"resolving", "awaiting_approval"}
  BY <1>1, <1>2, ReconciledRun
<1> QED
  BY <1>1, <1>3 DEF Rests, IsTerminal

LEMMA OwnersNext ==
  ASSUME PInv, QueueTakesJobs, EveryRunIsOwned, CurrentIsRetained, [Next]_vars
  PROVE  EveryRunIsOwned'
<1>1. CASE Client
  BY <1>1, ClientOwners
<1>2. CASE FinishCall
  BY <1>2, EnqueueOwners, CloseOwners DEF FinishCall
<1>3. CASE \/ QueueStep(StartQueue) \/ QueueStep(LoopFires) \/ QueueStep(LoopEnds)
           \/ QueueStep(LoopCleared) \/ \E id \in Ids : QueueStep(RetryFires(id))
  <2>1. UNCHANGED <<runs, binder, calls, restarts, jobs>>
    BY <1>3 DEF QueueStep, appVars, StartQueue, LoopFires, LoopEnds, LoopCleared, RetryFires
  <2> QED
    BY <2>1, QueueStepOwners DEF JobsCarryOver, UnfinishedStay, Held
<1>4. CASE DeliverJob
  <2>1. Deliver /\ current = None /\ UNCHANGED <<runs, binder, calls, restarts>>
    BY <1>4 DEF DeliverJob, Deliver
  <2>2. JobsCarryOver /\ UnfinishedStay
    BY <2>1, DeliverFrame DEF PInv
  <2> QED
    BY <2>1, <2>2, QueueStepOwners
<1>5. CASE HandlerStep \/ Throw
  BY <1>5, HandlerOwners
<1>6. CASE BinderStep
  BY <1>6, BinderOwners DEF BinderStep
<1>7. CASE Restart
  BY <1>7, RestartOwners
<1>8. CASE UNCHANGED vars
  <2>1. UNCHANGED <<queueVars, runs, binder, restarts, calls>>
    BY <1>8 DEF vars, appVars
  <2> QED
    BY <2>1, RouteOwners
<1> QED
  BY <1>1, <1>2, <1>3, <1>4, <1>5, <1>6, <1>7, <1>8 DEF Next

LEMMA OwnedIsNotStranded == ASSUME EveryRunIsOwned PROVE NoRunIsStranded
BY DEF EveryRunIsOwned, Rests, Owner, NoRunIsStranded, IsOwned, IsFirst

\* No run in progress is ever left to nobody, as long as the job that runs would
\* not be forgotten the moment it fails: then the binder could not tell the run.
THEOREM RunsAreNotStranded ==
  ASSUME QueueTakesJobs PROVE Spec /\ []CurrentIsRetained => []NoRunIsStranded
<1>1. Init => EveryRunIsOwned
  BY DEF Init, EveryRunIsOwned
<1>2. PInv /\ CurrentIsRetained /\ EveryRunIsOwned /\ [Next]_vars => EveryRunIsOwned'
  BY OwnersNext
<1>3. EveryRunIsOwned => NoRunIsStranded
  BY OwnedIsNotStranded
<1> QED
  BY <1>1, <1>2, <1>3, PipelineIsSound, PTL DEF Spec

LEMMA EnoughIsRetained == ASSUME PInv, MaxRetained >= MaxJobs PROVE CurrentIsRetained
<1>1. IsFiniteSet(Ids) /\ Cardinality(Ids) = MaxJobs
  BY FS_Interval, MaxJobsIsNatural DEF Ids
<1>2. IsFiniteSet(Held(jobs)) /\ Cardinality(Held(jobs)) <= MaxJobs
  BY <1>1, FS_Subset DEF Held
<1>3. IsFiniteSet({id \in FinishedIn(jobs) : id < current})
  BY <1>2, FS_Subset DEF FinishedIn
<1>4. Cardinality(Held(jobs)) \in Nat /\ Cardinality({id \in FinishedIn(jobs) : id < current}) \in Nat
  BY <1>2, <1>3, FS_CardinalityType
<1> QED
  BY <1>2, <1>4, MaxRetainedIsNatural, MaxJobsIsNatural DEF CurrentIsRetained

\* In particular while the queue has not taken more jobs than it retains.
THEOREM RetainedRunsAreNotStranded ==
  ASSUME QueueTakesJobs, MaxRetained >= MaxJobs PROVE Spec => []NoRunIsStranded
<1>1. PInv => CurrentIsRetained
  BY EnoughIsRetained
<1> QED
  BY <1>1, PipelineIsSound, RunsAreNotStranded, PTL

=============================================================================
