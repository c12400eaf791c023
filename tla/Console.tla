------------------------------- MODULE Console -------------------------------
(***************************************************************************)
(* The console in the browser (apps/web/src/app): which production is      *)
(* open (app.ts, state/production.store.ts), which one the realtime        *)
(* client follows (realtime/realtime.service.ts), the job the workspace    *)
(* submitted and shows (workspace/change-submission.service.ts), and a     *)
(* page of rows (pages/page-load.ts, pages/audit-page.ts).                 *)
(*                                                                         *)
(* A call that reads or moves a job is asked, served, and returns, in      *)
(* three steps, any other in two; two answers come in either order.        *)
(* Effects run with the change of the signals they read.                   *)
(*                                                                         *)
(* Abstractions.  A job is its stage, which also stands for updatedAt, and *)
(* has the stages the console tells apart; the server and other people     *)
(* move it.  The view is what RealtimeRecovery converges to, late by any   *)
(* time.  Calls that are the same are one.                                 *)
(***************************************************************************)
EXTENDS Naturals, FiniteSets

CONSTANTS
    Homes,          \* the productions
    MaxTracked,     \* bounds: jobs submitted, navigations, calls that fail
    MaxOpens,
    MaxFailures,
    MaxOnTheirWay,  \* bound: the calls on their way when something else happens
    Nothing

VARIABLES
    onWorkspace,    \* the workspace is on the screen, or a page of rows
    opened,         \* store.productionId
    loadState,
    shown,          \* the production of store.production
    followed,       \* realtime.followedId
    view,           \* the followed production's jobs with their stages, Nothing before a snapshot
    job,            \* the tracked job, as last read
    request,        \* the jobs whose change request and impact are shown
    impact,
    state,          \* idle, submitting, error
    page,           \* the page: Nothing while it loads, the production of its rows, "error"
    jobs,           \* the server's jobs
    pending,        \* calls on their way
    opens, failures,
    hurried,        \* somebody navigated while a production loaded or a form was being sent
    unread          \* a read of the tracked job failed, and nothing happened since

storeVars == <<opened, loadState, shown>>
realtimeVars == <<followed, view>>
workVars == <<job, request, impact, state>>
consoleVars ==
    <<onWorkspace, storeVars, realtimeVars, workVars, page, jobs, pending, opens, failures, hurried, unread>>

-----------------------------------------------------------------------------
(* The server.                                                             *)

JobIds == 1..MaxTracked
NextStages ==
    [received |-> {"resolving", "awaiting_approval"}, resolving |-> {"awaiting_approval"},
     awaiting_approval |-> {"applying", "completed"}, applying |-> {"completed"}, completed |-> {}]

\* What is absent is no production, stage or job.
ASSUME NothingIsNothingElse ==
    /\ MaxTracked \in Nat
    /\ Nothing \notin Homes \cup DOMAIN NextStages
    /\ Nothing \notin [production : Homes, stage : DOMAIN NextStages]
    /\ Nothing \notin [id : JobIds, production : Homes, stage : DOMAIN NextStages]

\* The stages of a run that has recorded its change request.
HasRequest == {"awaiting_approval", "applying", "completed"}

Serving == <<onWorkspace, storeVars, realtimeVars, workVars, page, opens, hurried, unread>>

IsCalm == Cardinality(pending) < MaxOnTheirWay

JobMoves(id) ==
    /\ IsCalm
    /\ jobs[id] # Nothing
    /\ \E stage \in NextStages[jobs[id].stage] : jobs' = [jobs EXCEPT ![id].stage = stage]
    /\ UNCHANGED <<Serving, pending, failures>>

\* A call: what it asks for, for which production and job; whether a rejection
\* waits for it; for a page whether it is the newest; and its answer.
Call(kind, production, id) ==
    [kind |-> kind, production |-> production, job |-> id, ends |-> FALSE, newest |-> TRUE,
     answer |-> Nothing]

Served(call, answer) == pending' = (pending \ {call}) \cup {[call EXCEPT !.answer = answer]}

ServeSubmit(call) ==
    \E id \in JobIds :
      /\ \A j \in JobIds : (j < id) <=> (jobs[j] # Nothing)
      /\ jobs' = [jobs EXCEPT ![id] = [production |-> call.production, stage |-> "received"]]
      /\ pending' = (pending \ {call}) \cup {[call EXCEPT !.job = id, !.answer = "received"]}

\* A job that is where the call takes it is answered as it is, before what the
\* call begins; "completed" also stands for a job that failed or was cancelled.
ServeStep(call, taken, refused) ==
    \/ jobs[call.job].stage \in taken /\ Served(call, jobs[call.job].stage)
    \/ jobs[call.job].stage \in refused /\ Served(call, "refused")

\* The first rejection closes the job, if it can; repeated, it moves nothing.
CloseRejected(call) ==
    /\ jobs[call.job].stage = "awaiting_approval"
    /\ Served(call, "awaiting_approval")
    /\ jobs' = [jobs EXCEPT ![call.job].stage = "completed"]

IsAboutJobs(call) == call.kind \in {"submit", "resolve", "apply", "reject", "refresh"}

Serve(call) ==
    /\ call \in pending /\ call.answer = Nothing /\ IsAboutJobs(call)
    /\ CASE call.kind = "submit" -> ServeSubmit(call)
         [] call.kind = "resolve" ->
              ServeStep(call, {"resolving"}, DOMAIN NextStages \ {"resolving"}) /\ UNCHANGED jobs
         [] call.kind = "apply" ->
              ServeStep(call, HasRequest, {"received", "resolving", "completed"}) /\ UNCHANGED jobs
         [] call.kind = "reject" ->
              \/ CloseRejected(call)
              \/ /\ ServeStep(call, {"awaiting_approval", "completed"}, DOMAIN NextStages \ {"awaiting_approval"})
                 /\ UNCHANGED jobs
         [] call.kind = "refresh" -> Served(call, jobs[call.job].stage) /\ UNCHANGED jobs
    /\ UNCHANGED <<Serving, failures>>

Fail(call) ==
    /\ call \in pending /\ call.answer = Nothing
    /\ failures > 0
    /\ failures' = failures - 1
    /\ Served(call, "refused")
    /\ UNCHANGED <<Serving, jobs>>

-----------------------------------------------------------------------------
(* The workspace: reading the tracked job.                                 *)

\* The effect on the tracked job and the view: a stage that differs is read.
Look(tracked, known, way) ==
    IF tracked # Nothing /\ known # Nothing /\ tracked.id \in DOMAIN known /\ known[tracked.id] # tracked.stage
    THEN way \cup {Call("refresh", tracked.production, tracked.id)}
    ELSE way

Tracked(call) == [id |-> call.job, production |-> call.production, stage |-> call.answer]
StillTracks(call) == job # Nothing /\ job.id = call.job

\* loadChangeRequestIfKnown, of the run just read.
LoadChangeRequestIfKnown(call) ==
    IF call.answer \in HasRequest /\ request # call.job
    THEN {[Call("request", call.production, call.job) EXCEPT !.ends = call.ends]}
    ELSE {}

\* What ends a rejection once the reads after it are over.
StateAfter(call, next) == IF call.ends /\ next = {} THEN "idle" ELSE state

\* Mutant: only the view is looked at again.
TrackQuietly(call, next) ==
    job' = Tracked(call) /\ pending' = (pending \ {call}) \cup next /\ unread' = FALSE

\* The run an answer carries becomes the tracked one.
Track(call, next) ==
    /\ job' = Tracked(call)
    /\ pending' = Look(Tracked(call), view, (pending \ {call}) \cup next)
    /\ unread' = FALSE

\* The read of the tracked job is over, with nothing to do for it.
Drop(call) == pending' = pending \ {call} /\ state' = StateAfter(call, {}) /\ UNCHANGED <<job, request, impact>>

ReturnRefresh(call) ==
    /\ call.kind = "refresh"
    /\ IF call.answer = "refused" THEN Drop(call) /\ unread' = (unread \/ StillTracks(call))
       ELSE IF ~StillTracks(call) THEN Drop(call) /\ UNCHANGED unread
       ELSE LET next == LoadChangeRequestIfKnown(call) IN
            /\ Track(call, next)
            /\ state' = StateAfter(call, next)
            /\ UNCHANGED <<request, impact>>

ReturnRequest(call) ==
    /\ call.kind = "request"
    /\ IF call.answer = "refused" \/ ~StillTracks(call) THEN Drop(call)
       ELSE /\ request' = call.job
            /\ pending' = (pending \ {call})
                          \cup {[Call("impact", call.production, call.job) EXCEPT !.ends = call.ends]}
            /\ UNCHANGED <<job, impact, state>>
    /\ UNCHANGED unread

ReturnImpact(call) ==
    /\ call.kind = "impact"
    /\ IF call.answer = "refused" \/ ~StillTracks(call) THEN Drop(call)
       ELSE /\ impact' = call.job
            /\ pending' = pending \ {call}
            /\ state' = StateAfter(call, {})
            /\ UNCHANGED <<job, request>>
    /\ UNCHANGED unread

-----------------------------------------------------------------------------
(* The workspace: what the person at it does.                              *)

Reset == job' = Nothing /\ request' = Nothing /\ impact' = Nothing

Acting == <<onWorkspace, storeVars, realtimeVars, page, jobs, opens, failures, hurried, unread>>

\* A form cannot be sent while one is; decisions and choices are offered for
\* the job that waits for them, under the production that is open.
MaySend == IsCalm /\ onWorkspace /\ opened # Nothing /\ state # "submitting"

Submit ==
    /\ MaySend
    /\ \E j \in JobIds : jobs[j] = Nothing     \* bound
    /\ \A call \in pending : call.kind = "submit" => call.answer # Nothing
    /\ Reset
    /\ state' = "submitting"
    /\ pending' = pending \cup {Call("submit", opened, 0)}
    /\ UNCHANGED Acting

SendFor(stage, kind) ==
    /\ MaySend
    /\ job # Nothing /\ job.stage = stage
    /\ state' = "submitting"
    /\ pending' = pending \cup {Call(kind, opened, job.id)}
    /\ UNCHANGED <<Acting, job, request, impact>>

Resolve == SendFor("resolving", "resolve")
Reject == SendFor("awaiting_approval", "reject")
ApproveAndApply == SendFor("awaiting_approval", "approve")

Refused(call) ==
    /\ state' = "error" /\ pending' = pending \ {call}
    /\ UNCHANGED <<job, request, impact, unread>>

\* The answer of submit, of resolve and of apply is tracked, whatever is open
\* or tracked by then.
ReturnRun(call) ==
    /\ call.kind \in {"submit", "resolve", "apply"}
    /\ IF call.answer = "refused" THEN Refused(call)
       ELSE /\ Track(call, IF call.kind = "apply" THEN {} ELSE LoadChangeRequestIfKnown(call))
            /\ state' = "idle"
            /\ UNCHANGED <<request, impact>>

ReturnDecision(call) ==
    /\ call.kind \in {"approve", "reject"}
    /\ IF call.answer = "refused" THEN Refused(call)
       ELSE /\ pending' = (pending \ {call}) \cup
                 {IF call.kind = "approve" THEN Call("apply", call.production, call.job)
                  ELSE [Call("refresh", call.production, call.job) EXCEPT !.ends = TRUE]}
            /\ UNCHANGED <<workVars, unread>>

-----------------------------------------------------------------------------
(* Productions and pages.                                                  *)

Busy == loadState = "loading" \/ state = "submitting"
AlreadyOpen(production) == opened = production /\ loadState \notin {"idle", "error"}

\* Only the newest read of the page may show its rows.
Begin(way, production) ==
    {IF call.kind = "page" THEN [call EXCEPT !.newest = FALSE] ELSE call : call \in way}
      \cup {Call("page", production, 0)}

\* The workspace forgets its job when another production is opened; a page
\* starts the read of its rows.
OpenOnWorkspace == Reset /\ state' = "idle" /\ UNCHANGED page

OpenOnPage == page' = Nothing /\ UNCHANGED workVars

\* A navigation: the store opens the production.
Open(production) ==
    /\ opens > 0 /\ IsCalm
    /\ opens' = opens - 1
    /\ IF AlreadyOpen(production) THEN UNCHANGED <<storeVars, workVars, page, pending, hurried>>
       ELSE LET asked == pending \cup {Call("load", production, 0)} IN
            /\ opened' = production /\ loadState' = "loading" /\ UNCHANGED shown
            /\ hurried' = (hurried \/ (opened # Nothing /\ Busy))
            /\ IF opened = production THEN pending' = asked /\ UNCHANGED <<workVars, page>>
               ELSE IF onWorkspace THEN pending' = asked /\ OpenOnWorkspace
               ELSE pending' = Begin(asked, production) /\ OpenOnPage
    /\ UNCHANGED <<onWorkspace, realtimeVars, jobs, failures, unread>>

Follow(production) ==
    /\ followed' = production
    /\ view' = IF followed = production THEN view ELSE Nothing

\* The store shows the production it has read and follows it.
ReturnLoad(call) ==
    /\ call.kind = "load"
    /\ pending' = pending \ {call}
    /\ IF call.answer = "refused"
       THEN shown' = Nothing /\ loadState' = "error" /\ UNCHANGED realtimeVars
       ELSE shown' = call.production /\ loadState' = "ready" /\ Follow(call.production)
    /\ UNCHANGED <<opened, workVars, page, unread>>

ShowPage(call) == page' = IF call.answer = "refused" THEN "error" ELSE call.production

ReturnPage(call) ==
    /\ call.kind = "page"
    /\ pending' = pending \ {call}
    /\ IF call.newest THEN ShowPage(call) ELSE UNCHANGED page
    /\ UNCHANGED <<storeVars, realtimeVars, workVars, unread>>

Return(call) ==
    /\ call \in pending /\ (IsAboutJobs(call) => call.answer # Nothing)
    /\ \/ /\ \/ ReturnRefresh(call) \/ ReturnRequest(call) \/ ReturnImpact(call)
             \/ ReturnRun(call) \/ ReturnDecision(call)
          /\ UNCHANGED <<storeVars, realtimeVars, page>>
       \/ ReturnLoad(call)
       \/ ReturnPage(call)
    /\ UNCHANGED <<onWorkspace, jobs, opens, failures, hurried>>

\* The view catches up with the records of the production it follows.
ViewArrives ==
    /\ IsCalm
    /\ followed # Nothing
    /\ view' = [j \in {j \in JobIds : jobs[j] # Nothing /\ jobs[j].production = followed} |-> jobs[j].stage]
    /\ view' # view
    /\ pending' = Look(job, view', pending)
    /\ unread' = FALSE
    /\ UNCHANGED <<onWorkspace, storeVars, followed, workVars, page, jobs, opens, failures, hurried>>

ConsoleInit ==
    /\ onWorkspace \in BOOLEAN
    /\ opened = Nothing /\ loadState = "idle" /\ shown = Nothing
    /\ followed = Nothing /\ view = Nothing
    /\ job = Nothing /\ request = Nothing /\ impact = Nothing /\ state = "idle"
    /\ page = Nothing
    /\ jobs = [j \in JobIds |-> Nothing] /\ pending = {}
    /\ opens = MaxOpens /\ failures = MaxFailures /\ hurried = FALSE /\ unread = FALSE

ConsoleNext ==
    \/ \E production \in Homes : Open(production)
    \/ Submit \/ Resolve \/ Reject \/ ApproveAndApply
    \/ \E call \in pending : Serve(call) \/ Fail(call) \/ Return(call)
    \/ ViewArrives
    \/ \E id \in JobIds : JobMoves(id)

-----------------------------------------------------------------------------
Sending == {call \in pending : call.kind \in {"submit", "resolve", "approve", "apply", "reject"} \/ call.ends}

\* As long as nobody navigates while a production loads or a form is being
\* sent, everything on the screen is about one production and one job, and
\* every call for a job names the production the job belongs to.
OneProductionIsShown ==
    ~hurried =>
      /\ loadState = "ready" => shown = opened /\ followed = opened
      /\ job # Nothing => job.production = opened
      /\ {request, impact} \subseteq {Nothing, IF job = Nothing THEN Nothing ELSE job.id}
      /\ \A call \in pending : call.job # 0 => jobs[call.job].production = call.production
      /\ state = "submitting" <=> Sending # {}

\* The rows of a page are those of the production that is open, whatever was
\* read before.
PageIsOfItsProduction == ~onWorkspace => page \in {Nothing, "error", opened}

\* Once nothing is on its way the tracked job is as far as the view says,
\* unless the last read of it failed: whichever of two reads ended last.
TrackedJobIsRead ==
    pending = {} /\ job # Nothing /\ view # Nothing =>
      \/ job.id \notin DOMAIN view
      \/ view[job.id] = job.stage
      \/ unread

\* What the person at the console may rely on.
ConsoleIsConsistent == OneProductionIsShown /\ PageIsOfItsProduction /\ TrackedJobIsRead

=============================================================================
