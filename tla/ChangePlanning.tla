--------------------------- MODULE ChangePlanning ---------------------------
(***************************************************************************)
(* The change agent plans on a production that others write to             *)
(* (packages/application/src/use-cases/interpret-change.ts, submit-change- *)
(* request.ts, analyze-change-impact.ts, run-change-agent.ts, simulate-    *)
(* proposal.ts, create-proposal.ts), and the domain rules its plans are    *)
(* judged by.                                                              *)
(*                                                                         *)
(* The agent reads the production again at every await, and each read may  *)
(* see a later version: one action per read.  Two writers change it: the   *)
(* application of the agent's proposal, and of a proposal somebody wrote   *)
(* by hand.  Approval, digests and the transaction of an apply are modules *)
(* of their own (ApprovalBoundary, ProposalStore); here an approved        *)
(* proposal is applied in one step, on the version it was prepared for.    *)
(***************************************************************************)
EXTENDS ImpactAnalysis

CONSTANTS
    Productions,    \* the snapshots a production may start from
    Changes,        \* the typed changes a sentence may be interpreted as
    HandWritten,    \* the operation lists a person may propose
    MaxWrites       \* bound: proposals applied

-----------------------------------------------------------------------------
(* What the properties and the assumptions refer to.                       *)

\* Reference: the days of a list of windows, one by one.
DaysOf(windows) == UNION {windows[i].start..windows[i].end : i \in DOMAIN windows}

\* Reference: a production nobody would object to.  Every scheduled scene is
\* in one place, on a day its cast and its location are free; a requirement
\* is of a scene that lists it, which has no other like it.
IsSound(state) ==
    /\ \A d, e \in DOMAIN state.days : \A i \in DOMAIN state.days[d].scenes, j \in DOMAIN state.days[e].scenes :
          state.days[d].scenes[i] = state.days[e].scenes[j] => d = e /\ i = j
    /\ \A d \in DOMAIN state.days : \A i \in DOMAIN state.days[d].scenes :
         LET scene == state.scenes[state.days[d].scenes[i]]
         IN  /\ \A c \in scene.cast : state.days[d].date \notin DaysOf(state.cast[c])
             /\ state.days[d].date \notin DaysOf(state.locations[scene.location])
    /\ \A r \in DOMAIN state.requirements :
         /\ state.requirements[r].scene \in DOMAIN state.scenes
         /\ r \in state.scenes[state.requirements[r].scene].requirements
    /\ \A r, q \in DOMAIN state.requirements :
         /\ state.requirements[r].scene = state.requirements[q].scene
         /\ state.requirements[r].kind = state.requirements[q].kind
         /\ NormalName[state.requirements[r].name] = NormalName[state.requirements[q].name]
         => r = q

ASSUME MaxWritesIsNatural == MaxWrites \in Nat

\* What a schema asks of a change (change.ts).
IsUnavailability(change) == change.type \in {"CAST_UNAVAILABLE", "LOCATION_UNAVAILABLE"}

IsChange(change) ==
    /\ change.type \in {"CAST_UNAVAILABLE", "LOCATION_UNAVAILABLE", "SCENE_REQUIREMENT_CHANGED", "SCHEDULE_CHANGED"}
    /\ IsUnavailability(change) => change.unavailable \in DateRanges
    /\ change.type = "SCHEDULE_CHANGED" => change.scenes \in Seq(ToSet(change.scenes))

\* A production is sound when it is set up, and what comes in has been parsed.
ASSUME ProductionsAreSound ==
    \A start \in Productions : IsSnapshot(start) /\ IsSound(start) /\ CheckStateInvariants(start) = {}

\* Nobody, the null of the source, is not the identity of a shoot day.
ASSUME NobodyIsNoDay == \A start \in Productions : Nobody \notin DOMAIN start.days

ASSUME InputsAreParsed ==
    /\ \A operations \in HandWritten : operations # <<>> /\ IsOperationList(operations)
    /\ \A change \in Changes : IsChange(change)

-----------------------------------------------------------------------------
VARIABLES
    production,     \* the stored snapshot
    version,        \* production.version
    agent,          \* one run of the change agent
    last            \* the last applied plan and the change it answers

vars == <<production, version, agent, last>>

\* What a run holds between its awaits: the change, the version analysed, the
\* analysis, the snapshot planned on, the plan, and the verdict stored with it.
Run(phase, change, base, analysis, seen, plan, valid) ==
    [phase |-> phase, change |-> change, base |-> base, analysis |-> analysis, seen |-> seen,
     plan |-> plan, valid |-> valid]

NoRun == Run("IDLE", Nobody, 0, Nobody, Nobody, <<>>, FALSE)

-----------------------------------------------------------------------------
(* References of a change (references.ts).                                 *)

ReferencesExist(state, change) ==
    CASE change.type = "CAST_UNAVAILABLE" -> change.cast \in DOMAIN state.cast
      [] change.type = "LOCATION_UNAVAILABLE" -> change.location \in DOMAIN state.locations
      [] change.type = "SCENE_REQUIREMENT_CHANGED" -> change.scene \in DOMAIN state.scenes
      [] change.type = "SCHEDULE_CHANGED" ->
           ToSet(change.scenes) \subseteq DOMAIN state.scenes /\ change.to \in DOMAIN state.days

-----------------------------------------------------------------------------
(* The plan.                                                               *)

FactOperation(change) ==
    IF change.type = "CAST_UNAVAILABLE"
    THEN [type |-> "RECORD_CAST_UNAVAILABILITY", cast |-> change.cast, unavailable |-> change.unavailable]
    ELSE [type |-> "RECORD_LOCATION_UNAVAILABILITY", location |-> change.location,
          unavailable |-> change.unavailable]

\* The scenes the analysis found blocked that the snapshot planned on still
\* schedules.
BlockedByAnalysis(state, analysis) ==
    {i.id : i \in {i \in analysis.impacts : i.severity = "BLOCKING" /\ i.type = "SCENE"}}
      \cap Scheduled(state)

\* One move per day the scenes sit on, the target's own left out.  scenes is a
\* sequence and keeps its order, repetitions included.
MoveOperations(state, scenes, target) ==
    LET sources == {ScheduledShootDay(state, scenes[i]) : i \in DOMAIN scenes} \ {Nobody, target}
        move(d) == [type |-> "MOVE_SCENES", from |-> d, to |-> target,
                    scenes |-> Selected(scenes, {s \in ToSet(scenes) : ScheduledShootDay(state, s) = d})]
    IN  [i \in 1..Cardinality(sources) |-> move(SetToSeq(sources)[i])]

StaleMarks(state, sources, target) ==
    LET stale == SetToSeq(StaleCallSheetsForShootDays(state, sources \cup {target}))
    IN  [i \in DOMAIN stale |-> [type |-> "MARK_CALL_SHEET_STALE", sheet |-> stale[i]]]

SourceDays(state, scenes) == {ScheduledShootDay(state, s) : s \in scenes} \ {Nobody}

\* Mutant: the days are generated on the stored world, the fact not recorded.
CandidatesOnStoredWorld(state, change, scenes) == GenerateScheduleCandidates(state, scenes, {})

\* TASK-904: the days are generated on the world with the fact recorded.
CandidatesFor(state, change, scenes) ==
    GenerateScheduleCandidates(ApplyOperations(state, <<FactOperation(change)>>).state, scenes, {})

UnavailabilityPlan(state, change, scenes, target) ==
    <<FactOperation(change)>> \o MoveOperations(state, SetToSeq(scenes), target)
      \o StaleMarks(state, SourceDays(state, scenes), target)

RequirementPlan(state, change) ==
    <<[type |-> "ADD_SCENE_REQUIREMENT", scene |-> change.scene, kind |-> change.kind, name |-> change.name],
      [type |-> "CREATE_PREPARATION_TASK", on |-> <<"SCENE", change.scene>>,
       title |-> [name |-> change.name, scene |-> change.scene]]>>
      \o IF change.scene \in Scheduled(state)
         THEN StaleMarks(state, {}, ScheduledShootDay(state, change.scene))
         ELSE <<>>

SchedulePlan(state, change) ==
    MoveOperations(state, change.scenes, change.to)
      \o StaleMarks(state, SourceDays(state, ToSet(change.scenes)), change.to)

AlreadyPresent(analysis) ==
    \E i \in analysis.impacts : i.reason = "SCENE_REQUIREMENT_ALREADY_PRESENT"

-----------------------------------------------------------------------------
Init ==
    /\ production \in Productions
    /\ version = 1
    /\ agent = NoRun
    /\ last = [by |-> "NOBODY", plan |-> <<>>, change |-> Nobody]

\* The model reads a sentence as a typed change.  One that names what the
\* production does not have is refused; so are the sentences the model finds
\* ambiguous or unsupported, and nothing is recorded for those.
Interpret(change) ==
    /\ agent.phase = "IDLE"
    /\ ReferencesExist(production, change)
    /\ agent' = Run("INTERPRETED", change, 0, Nobody, Nobody, <<>>, FALSE)
    /\ UNCHANGED <<production, version, last>>

\* The change request is recorded, the references looked up once more.
SubmitChange ==
    /\ agent.phase = "INTERPRETED"
    /\ agent' = IF ReferencesExist(production, agent.change)
                THEN [agent EXCEPT !.phase = "SUBMITTED"] ELSE NoRun
    /\ UNCHANGED <<production, version, last>>

\* analyze reads the production: the analysis and the version it is of.
Analyze ==
    /\ agent.phase = "SUBMITTED"
    /\ agent' = IF ReferencesExist(production, agent.change)
                THEN [agent EXCEPT !.phase = "ANALYZED", !.base = version,
                                   !.analysis = AnalyzeImpact(production, agent.change)]
                ELSE NoRun
    /\ UNCHANGED <<production, version, last>>

\* The agent reads the production a second time and plans on what it reads.
\* The first of the ranked candidates is any of them: the guarded model
\* answers a permutation, and without an answer the earliest day is first.
PlanUnavailability ==
    LET scenes     == BlockedByAnalysis(production, agent.analysis)
        candidates == CandidatesFor(production, agent.change, scenes)
    IN  /\ IsUnavailability(agent.change)
        /\ \/ /\ scenes = {}
              /\ agent' = [agent EXCEPT !.phase = "PLANNED", !.plan = <<FactOperation(agent.change)>>]
           \/ /\ scenes # {} /\ candidates = {}
              /\ agent' = [agent EXCEPT !.phase = "NO_CANDIDATE", !.seen = production]
           \/ /\ scenes # {}
              /\ \E target \in candidates :
                    agent' = [agent EXCEPT !.phase = "PLANNED",
                                !.plan = UnavailabilityPlan(production, agent.change, scenes, target)]

PlanRequirement ==
    /\ agent.change.type = "SCENE_REQUIREMENT_CHANGED"
    /\ agent' = IF AlreadyPresent(agent.analysis) THEN NoRun
                ELSE [agent EXCEPT !.phase = "PLANNED", !.plan = RequirementPlan(production, agent.change)]

PlanSchedule ==
    /\ agent.change.type = "SCHEDULE_CHANGED"
    /\ agent' = [agent EXCEPT !.phase = "PLANNED", !.plan = SchedulePlan(production, agent.change)]

Plan ==
    /\ agent.phase = "ANALYZED"
    /\ PlanUnavailability \/ PlanRequirement \/ PlanSchedule
    /\ UNCHANGED <<production, version, last>>

\* NO_CANDIDATE ends the run.
ReportNoCandidate ==
    /\ agent.phase = "NO_CANDIDATE"
    /\ agent' = NoRun
    /\ UNCHANGED <<production, version, last>>

\* simulate_proposal: an empty plan is malformed, and a plan for another
\* version is refused.
Simulate ==
    /\ agent.phase = "PLANNED"
    /\ agent' = IF agent.plan # <<>> /\ version = agent.base
                THEN [agent EXCEPT !.phase = "SIMULATED"]
                ELSE NoRun
    /\ UNCHANGED <<production, version, last>>

\* create_proposal reads and judges the production once more.
Propose ==
    /\ agent.phase = "SIMULATED"
    /\ agent' = IF version = agent.base
                THEN [agent EXCEPT !.phase = "PROPOSED",
                                   !.valid = SimulateProposal(production, agent.plan).valid]
                ELSE NoRun
    /\ UNCHANGED <<production, version, last>>

Commit(plan) ==
    /\ production' = ApplyOperations(production, plan).state
    /\ version' = version + 1

\* The proposal is approved and applied, refused because it is invalid or
\* stale, or rejected.
ApplyProposal ==
    /\ agent.phase = "PROPOSED"
    /\ agent.valid /\ version = agent.base /\ version <= MaxWrites
    /\ Commit(agent.plan)
    /\ last' = [by |-> "AGENT", plan |-> agent.plan, change |-> agent.change]
    /\ agent' = NoRun

SetAside ==
    /\ agent.phase = "PROPOSED"
    /\ agent' = NoRun
    /\ UNCHANGED <<production, version, last>>

\* A proposal written by hand is created, approved and applied on one version.
ApplyHandWritten(operations) ==
    /\ version <= MaxWrites
    /\ SimulateProposal(production, operations).valid
    /\ Commit(operations)
    /\ last' = [by |-> "HAND", plan |-> operations, change |-> Nobody]
    /\ UNCHANGED agent

Next ==
    \/ \E change \in Changes : Interpret(change)
    \/ SubmitChange \/ Analyze \/ Plan \/ ReportNoCandidate \/ Simulate \/ Propose
    \/ ApplyProposal \/ SetAside
    \/ \E operations \in HandWritten : ApplyHandWritten(operations)

Spec == Init /\ [][Next]_vars

-----------------------------------------------------------------------------
(* Properties.  Those about the production alone are evaluated while the   *)
(* agent is idle: it is idle before and after every write.                 *)

Idle == agent.phase = "IDLE"

\* Merged windows block the same days, in order and with a free day between
\* two, and a range is covered exactly when each of its days is blocked.  The
\* windows are those recorded and one more, from the year 100 on (dates.ts).
\* Behind a window that ends on 9999-12-31 nothing is merged any more: the rest
\* lies inside it.
WindowsMeanTheirDays ==
    Idle =>
      \A who \in {c \in Changes : c.type = "CAST_UNAVAILABLE" /\ c.cast \in DOMAIN production.cast} :
         LET windows == production.cast[who.cast]
             range   == who.unavailable
             merged  == NormalizeDateRanges(Append(windows, range))
         IN  /\ DaysOf(merged) = DaysOf(windows) \cup (range.start..range.end)
             /\ \A i \in 1..(Len(merged) - 1) :
                   \/ merged[i].end + 1 < merged[i + 1].start
                   \/ \E h \in 1..i : merged[h].end = LastDay /\ merged[h].start <= merged[i + 1].start
             /\ IsRangeCovered(windows, range) <=> range.start..range.end \subseteq DaysOf(windows)

\* Whatever is applied, by the agent or by hand, in whatever order and on
\* whatever version it was prepared, the production stays sound, and no scene
\* holds one requirement twice (INV-1 to INV-3, INV-8).
ProductionStaysSound == IsSound(production)

\* The analysis of an unavailability names as blocked exactly the scenes that
\* recording the fact would put in conflict: two rules, written apart in
\* analyze.ts and invariants/state.ts, agree on every production.
AnalysisIsExact ==
    Idle =>
      \A change \in {c \in Changes : IsUnavailability(c) /\ ReferencesExist(production, c)} :
         AnalyzeImpact(production, change).conflicts =
           CheckStateInvariants(ApplyOperations(production, <<FactOperation(change)>>).state)

\* No plan of the agent's kind would do: every day it could have moved the
\* scenes to fails simulation.
NoDayWouldDo ==
    LET scenes == BlockedByAnalysis(agent.seen, agent.analysis)
    IN  \A d \in DOMAIN agent.seen.days :
          ~SimulateProposal(agent.seen, UnavailabilityPlan(agent.seen, agent.change, scenes, d)).valid

\* The coordinator is shown every sheet the plan marks stale, as an impact of
\* its simulation.
MarksAreExplained ==
    \A i \in {i \in DOMAIN agent.plan : agent.plan[i].type = "MARK_CALL_SHEET_STALE"} :
       \E impact \in SimulatedImpacts(production, agent.plan) :
          impact.type = "CALL_SHEET" /\ impact.id = agent.plan[i].sheet

\* The agent answers an unavailability honestly, though it found the scenes on
\* one reading of the production and the days on another (TASK-904, and the
\* version checks of simulation and proposal): a plan that is proposed is
\* valid, a plan that is simulated explains each sheet it marks, and no
\* candidate is only reported when there is none, provided both readings agree.
UnavailabilityIsAnswered ==
    (agent.phase # "IDLE" /\ IsUnavailability(agent.change)) =>
      /\ agent.phase = "PROPOSED" => agent.valid
      /\ agent.phase = "SIMULATED" /\ version = agent.base => MarksAreExplained
      /\ agent.phase = "NO_CANDIDATE" /\ agent.analysis = AnalyzeImpact(agent.seen, agent.change)
           => NoDayWouldDo

\* What a change asks for holds once its plan is applied: analysed again, it
\* blocks nothing, or is already there, and every scene it moves and that was
\* scheduled sits on its new day.
Settled(change) ==
    LET analysis == AnalyzeImpact(production, change)
    IN  CASE IsUnavailability(change) -> analysis.conflicts = {}
          [] change.type = "SCENE_REQUIREMENT_CHANGED" -> AlreadyPresent(analysis)
          [] change.type = "SCHEDULE_CHANGED" ->
               \A i \in DOMAIN change.scenes :
                  ScheduledShootDay(production, change.scenes[i]) \in {change.to, Nobody}

\* An applied plan of the agent passes its verification (every operation
\* shows, nobody unavailable is scheduled, every invariant holds) and settles
\* the change it was made for.
AppliedPlansVerify ==
    last.by = "AGENT" => Verified(production, last.plan) /\ Settled(last.change)

\* A written operation is recognised when it comes again: applied a second
\* time it is skipped, and the production does not change (INV-8).
RetriesAreSkipped ==
    Idle =>
      \A operations \in HandWritten :
         LET once  == ApplyOperations(production, SubSeq(operations, 1, 1))
             again == ApplyOperations(once.state, SubSeq(operations, 1, 1))
         IN  once.conflicts = {} => again.state = once.state /\ again.applied = <<>>

=============================================================================
