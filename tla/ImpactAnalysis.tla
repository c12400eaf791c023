--------------------------- MODULE ImpactAnalysis ---------------------------
(***************************************************************************)
(* Deterministic impact analysis of a typed change (packages/domain/src/   *)
(* impact/analyze.ts, impact/collector.ts) and the candidate days for the  *)
(* scenes it blocks (candidates.ts).                                       *)
(*                                                                         *)
(* An analysis is [impacts, conflicts].  The lists the source sorts are    *)
(* sets here: nothing that follows depends on their order.                 *)
(***************************************************************************)
EXTENDS Simulation

Impact(type, id, reason, severity) ==
    [type |-> type, id |-> id, reason |-> reason, severity |-> severity]

\* The collector keeps the first of several findings with one entity and
\* reason, whatever the severity of the later ones.
SameFinding(i, j) == i.type = j.type /\ i.id = j.id /\ i.reason = j.reason
Collect(collected, new) ==
    collected \cup {i \in new : \A j \in collected : ~SameFinding(i, j)}

UnknownReference(type, id) == [impacts |-> {}, conflicts |-> {Unknown(type, id)}]

-----------------------------------------------------------------------------
(* The ripple every disruption of scenes shares.                           *)

OpenTasks(state, type, id) ==
    {Impact("TASK", t, "TASK_LINKED_TO_AFFECTED_ENTITY", "INFO") :
       t \in {t \in TasksFor(state, type, id) : state.tasks[t].status = "OPEN"}}

\* A shoot day that holds, loses or gains an affected scene, its sheets, and
\* the open tasks of both.
DayRipple(state, day) ==
    {Impact("SHOOT_DAY", day, "SHOOT_DAY_CONTAINS_AFFECTED_SCENE", "WARNING")}
      \cup
    {Impact("CALL_SHEET", c, "CALL_SHEET_DERIVED_FROM_AFFECTED_SHOOT_DAY", "WARNING") :
       c \in CallSheetsFor(state, day)}
      \cup (UNION {OpenTasks(state, "CALL_SHEET", c) : c \in CallSheetsFor(state, day)})
      \cup OpenTasks(state, "SHOOT_DAY", day)

\* The cast and the location bound to a scene, the subject of the change left out.
AttachedEntities(state, scene, subject) ==
    {Impact("CAST_MEMBER", c, "CAST_ATTACHED_TO_AFFECTED_SCENE", "INFO") :
       c \in (state.scenes[scene].cast \cap DOMAIN state.cast) \ {subject}}
      \cup
    {Impact("LOCATION", l, "LOCATION_ATTACHED_TO_AFFECTED_SCENE", "INFO") :
       l \in ({state.scenes[scene].location} \cap DOMAIN state.locations) \ {subject}}

\* affected holds scenes that are scheduled.
PropagateFromScenes(state, affected, subject, includeAttached) ==
    (UNION {DayRipple(state, ScheduledShootDay(state, s)) : s \in affected})
      \cup (UNION {OpenTasks(state, "SCENE", s) : s \in affected})
      \cup IF includeAttached
           THEN UNION {AttachedEntities(state, s, subject) : s \in affected}
           ELSE {}

-----------------------------------------------------------------------------
(* Each kind of change.                                                    *)

\* Mutant: the scene's first blocked day is compared with the start of the
\* window alone.
ScheduledOnStart(state, scenes, range) ==
    {s \in scenes \cap Scheduled(state) : DateOf(state, ScheduledShootDay(state, s)) = range.start}

ScheduledWithin(state, scenes, range) ==
    {s \in scenes \cap Scheduled(state) :
       IsDateWithin(DateOf(state, ScheduledShootDay(state, s)), range)}

BlockedScenes(state, affected, subject, reason, code) ==
    [impacts   |-> {Impact("SCENE", s, reason, "BLOCKING") : s \in affected}
                     \cup PropagateFromScenes(state, affected, subject, TRUE),
     conflicts |-> {Conflict(code, "SCENE", s, DateOf(state, ScheduledShootDay(state, s))) :
                      s \in affected}]

AnalyzeCastUnavailable(state, change) ==
    IF change.cast \notin DOMAIN state.cast THEN UnknownReference("CAST_MEMBER", change.cast)
    ELSE BlockedScenes(state,
           ScheduledWithin(state, ScenesRequiringCast(state, change.cast), change.unavailable),
           change.cast, "SCENE_REQUIRES_UNAVAILABLE_CAST", "CAST_UNAVAILABLE_ON_SHOOT_DAY")

AnalyzeLocationUnavailable(state, change) ==
    IF change.location \notin DOMAIN state.locations THEN UnknownReference("LOCATION", change.location)
    ELSE BlockedScenes(state,
           ScheduledWithin(state, ScenesAtLocation(state, change.location), change.unavailable),
           change.location, "SCENE_AT_UNAVAILABLE_LOCATION", "LOCATION_UNAVAILABLE_ON_SHOOT_DAY")

RequirementPresent(state, existing) ==
    [impacts   |-> {Impact("REQUIREMENT", existing, "SCENE_REQUIREMENT_ALREADY_PRESENT", "INFO")}
                     \cup OpenTasks(state, "REQUIREMENT", existing),
     conflicts |-> {}]

AnalyzeSceneRequirementChanged(state, change) ==
    LET scene    == change.scene
        existing == EquivalentRequirements(state, scene, change.kind, change.name)
    IN  IF scene \notin DOMAIN state.scenes THEN UnknownReference("SCENE", scene)
        ELSE IF existing # {} THEN RequirementPresent(state, CHOOSE r \in existing : TRUE)
        ELSE [impacts   |-> {Impact("SCENE", scene, "SCENE_REQUIREMENT_ADDED", "INFO")}
                              \cup IF scene \in Scheduled(state)
                                   THEN PropagateFromScenes(state, {scene}, Nobody, FALSE)
                                   ELSE OpenTasks(state, "SCENE", scene),
              conflicts |-> {}]

\* Whether the cast and location a scene needs are free on the day it moves to.
TargetDayCast(state, scene, target) ==
    {Impact("CAST_MEMBER", c, "CAST_REQUIRED_ON_TARGET_DAY",
            IF IsBlockedOn(state.cast[c], DateOf(state, target)) THEN "BLOCKING" ELSE "WARNING") :
       c \in state.scenes[scene].cast \cap DOMAIN state.cast}

TargetDayLocation(state, scene, target) ==
    {Impact("LOCATION", l, "LOCATION_REQUIRED_ON_TARGET_DAY",
            IF IsBlockedOn(state.locations[l], DateOf(state, target)) THEN "BLOCKING" ELSE "WARNING") :
       l \in {state.scenes[scene].location} \cap DOMAIN state.locations}

BlockedAtTarget(state, scene, target) ==
    {Conflict("CAST_UNAVAILABLE_ON_SHOOT_DAY", "SCENE", scene, DateOf(state, target)) :
       i \in {i \in TargetDayCast(state, scene, target) : i.severity = "BLOCKING"}}
      \cup
    {Conflict("LOCATION_UNAVAILABLE_ON_SHOOT_DAY", "SCENE", scene, DateOf(state, target)) :
       i \in {i \in TargetDayLocation(state, scene, target) : i.severity = "BLOCKING"}}

AnalyzeScheduleChanged(state, change) ==
    LET target   == change.to
        named    == ToSet(change.scenes)
        known    == named \cap DOMAIN state.scenes
        arriving == {s \in known : ScheduledShootDay(state, s) # target}
        moving   == arriving \cap Scheduled(state)
    IN  IF target \notin DOMAIN state.days THEN UnknownReference("SHOOT_DAY", target)
        ELSE [impacts   |->
                {Impact("SCENE", s, "SCENE_RESCHEDULED", "INFO") : s \in arriving}
                  \cup (UNION {TargetDayCast(state, s, target) : s \in arriving})
                  \cup (UNION {TargetDayLocation(state, s, target) : s \in arriving})
                  \cup PropagateFromScenes(state, moving, Nobody, FALSE)
                  \cup IF arriving = {} THEN {} ELSE DayRipple(state, target),
              conflicts |->
                {Unknown("SCENE", s) : s \in named \ known}
                  \cup {Conflict("SCENE_ALREADY_ON_SHOOT_DAY", "SCENE", s, DateOf(state, target)) :
                          s \in known \ arriving}
                  \cup (UNION {BlockedAtTarget(state, s, target) : s \in arriving})]

AnalyzeImpact(state, change) ==
    CASE change.type = "CAST_UNAVAILABLE" -> AnalyzeCastUnavailable(state, change)
      [] change.type = "LOCATION_UNAVAILABLE" -> AnalyzeLocationUnavailable(state, change)
      [] change.type = "SCENE_REQUIREMENT_CHANGED" -> AnalyzeSceneRequirementChanged(state, change)
      [] change.type = "SCHEDULE_CHANGED" -> AnalyzeScheduleChanged(state, change)

-----------------------------------------------------------------------------
(* What a simulation tells the coordinator: the recorded facts, and the    *)
(* impacts of each applied move and requirement, read on the baseline.     *)

OperationImpacts(state, baseline, op) ==
    CASE op.type = "RECORD_CAST_UNAVAILABILITY" ->
           {Impact("CAST_MEMBER", c, "AVAILABILITY_RECORDED", "INFO") : c \in {op.cast} \cap DOMAIN state.cast}
      [] op.type = "RECORD_LOCATION_UNAVAILABILITY" ->
           {Impact("LOCATION", l, "AVAILABILITY_RECORDED", "INFO") :
              l \in {op.location} \cap DOMAIN state.locations}
      [] op.type = "MOVE_SCENES" ->
           AnalyzeImpact(baseline, [type |-> "SCHEDULE_CHANGED", scenes |-> op.scenes, to |-> op.to]).impacts
      [] op.type = "ADD_SCENE_REQUIREMENT" ->
           AnalyzeImpact(baseline, [type |-> "SCENE_REQUIREMENT_CHANGED", scene |-> op.scene,
                                    kind |-> op.kind, name |-> op.name]).impacts
      [] OTHER -> {}

\* What is told after each of the applied operations.
Telling(state, baseline, applied) ==
    LET told[n \in 0..Len(applied)] ==
          IF n = 0 THEN {} ELSE Collect(told[n - 1], OperationImpacts(state, baseline, applied[n]))
    IN  told

\* What is found of each element in turn, gathered by the collector of the source.
Gathered(list, Found(_)) ==
    LET told[n \in 0..Len(list)] == IF n = 0 THEN {} ELSE Collect(told[n - 1], Found(list[n]))
    IN  told[Len(list)]

SimulatedImpacts(state, operations) ==
    LET baseline == Baseline(state, operations)
    IN  Gathered(SimulateProposal(state, operations).applied,
                 LAMBDA op : OperationImpacts(state, baseline, op))

-----------------------------------------------------------------------------
(* Candidate days for scenes that must move together.                      *)

CanHost(state, day, scene) ==
    /\ state.scenes[scene].cast \subseteq DOMAIN state.cast
    /\ \A c \in state.scenes[scene].cast : ~IsBlockedOn(state.cast[c], DateOf(state, day))
    /\ state.scenes[scene].location \in DOMAIN state.locations
    /\ ~IsBlockedOn(state.locations[state.scenes[scene].location], DateOf(state, day))

GenerateScheduleCandidates(state, scenes, excludeDates) ==
    {d \in DOMAIN state.days :
       /\ DateOf(state, d) \notin excludeDates
       /\ scenes \subseteq DOMAIN state.scenes
       /\ \A s \in scenes : ScheduledShootDay(state, s) # d
       /\ \A s \in scenes : CanHost(state, d, s)}

=============================================================================
