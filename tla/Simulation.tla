----------------------------- MODULE Simulation -----------------------------
(***************************************************************************)
(* Applying a proposal's operations to a copy of a snapshot, judging the   *)
(* copy, and verifying the stored state afterwards (packages/domain/src/   *)
(* simulation.ts, operations.ts, verification.ts).                         *)
(*                                                                         *)
(* An operation is a record with a type and the fields of the contract.    *)
(***************************************************************************)
EXTENDS ProductionState

OperationTypes ==
    {"RECORD_CAST_UNAVAILABILITY", "RECORD_LOCATION_UNAVAILABILITY", "MOVE_SCENES",
     "ADD_SCENE_REQUIREMENT", "CREATE_PREPARATION_TASK", "MARK_CALL_SHEET_STALE"}

\* What a schema asks of an operation (proposal.ts).
IsOperation(op) ==
    /\ op.type \in OperationTypes
    /\ op.type \in {"RECORD_CAST_UNAVAILABILITY", "RECORD_LOCATION_UNAVAILABILITY"} =>
         op.unavailable \in DateRanges
    /\ op.type = "MOVE_SCENES" => op.scenes \in Seq(ToSet(op.scenes))
    /\ op.type = "CREATE_PREPARATION_TASK" => op.on = <<op.on[1], op.on[2]>>

IsOperationList(operations) ==
    operations \in Seq(ToSet(operations)) /\ \A i \in DOMAIN operations : IsOperation(operations[i])

-----------------------------------------------------------------------------
(* Natural idempotency (INV-8): whether the world already is as the        *)
(* operation would make it.                                                *)

ScenesMoved(state, op) ==
    /\ op.to \in DOMAIN state.days
    /\ \A i \in DOMAIN op.scenes :
          /\ op.scenes[i] \in ToSet(state.days[op.to].scenes)
          /\ op.from \in DOMAIN state.days => op.scenes[i] \notin ToSet(state.days[op.from].scenes)

IsOperationAlreadyApplied(state, op) ==
    CASE op.type = "RECORD_CAST_UNAVAILABILITY" ->
           op.cast \in DOMAIN state.cast /\ IsRangeCovered(state.cast[op.cast], op.unavailable)
      [] op.type = "RECORD_LOCATION_UNAVAILABILITY" ->
           /\ op.location \in DOMAIN state.locations
           /\ IsRangeCovered(state.locations[op.location], op.unavailable)
      [] op.type = "MOVE_SCENES" -> ScenesMoved(state, op)
      [] op.type = "ADD_SCENE_REQUIREMENT" ->
           EquivalentRequirements(state, op.scene, op.kind, op.name) # {}
      [] op.type = "CREATE_PREPARATION_TASK" -> EquivalentTasks(state, op.on, op.title) # {}
      [] op.type = "MARK_CALL_SHEET_STALE" ->
           op.sheet \in DOMAIN state.sheets /\ state.sheets[op.sheet].status = "DRAFT"

\* The call sheets that changes to these days invalidate.
StaleCallSheetsForShootDays(state, days) ==
    {c \in DOMAIN state.sheets : state.sheets[c].day \in days /\ state.sheets[c].status = "PUBLISHED"}

-----------------------------------------------------------------------------
(* Applying.                                                               *)

SceneProblems(state, op) ==
    UNION {LET s == op.scenes[i]
           IN  IF s \notin DOMAIN state.scenes THEN {Unknown("SCENE", s)}
               ELSE IF s \in ToSet(state.days[op.to].scenes)
               THEN {Conflict("SCENE_ALREADY_ON_SHOOT_DAY", "SCENE", s, DateOf(state, op.to))}
               ELSE IF s \notin ToSet(state.days[op.from].scenes)
               THEN {Conflict("SCENE_MISSING_FROM_SHOOT_DAY", "SCENE", s, DateOf(state, op.from))}
               ELSE {} : i \in DOMAIN op.scenes}

\* Why an operation cannot be applied at all.
Problems(state, op) ==
    CASE op.type = "RECORD_CAST_UNAVAILABILITY" ->
           IF op.cast \in DOMAIN state.cast THEN {} ELSE {Unknown("CAST_MEMBER", op.cast)}
      [] op.type = "RECORD_LOCATION_UNAVAILABILITY" ->
           IF op.location \in DOMAIN state.locations THEN {} ELSE {Unknown("LOCATION", op.location)}
      [] op.type = "MOVE_SCENES" ->
           IF op.from \notin DOMAIN state.days THEN {Unknown("SHOOT_DAY", op.from)}
           ELSE IF op.to \notin DOMAIN state.days THEN {Unknown("SHOOT_DAY", op.to)}
           ELSE SceneProblems(state, op)
      [] op.type = "ADD_SCENE_REQUIREMENT" ->
           IF op.scene \in DOMAIN state.scenes THEN {} ELSE {Unknown("SCENE", op.scene)}
      [] op.type = "CREATE_PREPARATION_TASK" ->
           IF EntityExists(state, op.on[1], op.on[2]) THEN {} ELSE {Unknown(op.on[1], op.on[2])}
      [] op.type = "MARK_CALL_SHEET_STALE" ->
           IF op.sheet \in DOMAIN state.sheets THEN {} ELSE {Unknown("CALL_SHEET", op.sheet)}

\* An identity the allocator has not handed out in this production.
FreshId(prefix, records) ==
    CHOOSE id \in {prefix} \X (1..(Cardinality(DOMAIN records) + 1)) : id \notin DOMAIN records

\* The members of a list that are in a set, in order and as often as they are there.
Selected(list, kept) ==
    LET chosen[n \in 0..Len(list)] ==
          IF n = 0 THEN <<>>
          ELSE IF list[n] \in kept THEN Append(chosen[n - 1], list[n]) ELSE chosen[n - 1]
    IN  chosen[Len(list)]

Without(scenes, moved) == Selected(scenes, ToSet(scenes) \ ToSet(moved))

MoveScenes(state, op) ==
    [state EXCEPT !.days[op.from].scenes = Without(@, op.scenes),
                  !.days[op.to].scenes = @ \o op.scenes]

With(records, id, record) == [i \in DOMAIN records \cup {id} |-> IF i = id THEN record ELSE records[i]]

\* Mutant: the requirement is not listed on its scene.
AddUnlistedRequirement(state, op) ==
    [state EXCEPT !.requirements =
       With(@, FreshId("REQ", @), [scene |-> op.scene, kind |-> op.kind, name |-> op.name])]

AddSceneRequirement(state, op) ==
    LET id == FreshId("REQ", state.requirements)
    IN  [state EXCEPT !.requirements = With(@, id, [scene |-> op.scene, kind |-> op.kind, name |-> op.name]),
                      !.scenes[op.scene].requirements = @ \cup {id}]

CreatePreparationTask(state, op) ==
    [state EXCEPT !.tasks =
       With(@, FreshId("T", @), [on |-> op.on, title |-> op.title, status |-> "OPEN"])]

\* The full effect of an operation without problems.
Effect(state, op) ==
    CASE op.type = "RECORD_CAST_UNAVAILABILITY" ->
           [state EXCEPT !.cast[op.cast] = NormalizeDateRanges(Append(@, op.unavailable))]
      [] op.type = "RECORD_LOCATION_UNAVAILABILITY" ->
           [state EXCEPT !.locations[op.location] = NormalizeDateRanges(Append(@, op.unavailable))]
      [] op.type = "MOVE_SCENES" -> MoveScenes(state, op)
      [] op.type = "ADD_SCENE_REQUIREMENT" -> AddSceneRequirement(state, op)
      [] op.type = "CREATE_PREPARATION_TASK" -> CreatePreparationTask(state, op)
      [] op.type = "MARK_CALL_SHEET_STALE" -> [state EXCEPT !.sheets[op.sheet].status = "DRAFT"]

\* One turn of the loop.
ApplyOperation(application, op) ==
    LET draft    == application.state
        problems == Problems(draft, op)
    IN  IF IsOperationAlreadyApplied(draft, op)
        THEN [application EXCEPT !.skipped = Append(@, op)]
        ELSE IF problems # {}
        THEN [application EXCEPT !.conflicts = @ \cup problems]
        ELSE [application EXCEPT !.state = Effect(draft, op), !.applied = Append(@, op)]

\* What has been applied after each operation; later ones see the effect of
\* earlier ones.
Applying(state, operations) ==
    LET after[n \in 0..Len(operations)] ==
          IF n = 0 THEN [state |-> state, applied |-> <<>>, skipped |-> <<>>, conflicts |-> {}]
          ELSE ApplyOperation(after[n - 1], operations[n])
    IN  after

ApplyOperations(state, operations) == Applying(state, operations)[Len(operations)]

-----------------------------------------------------------------------------
(* Judging.                                                                *)

IsFactOperation(op) == op.type \in {"RECORD_CAST_UNAVAILABILITY", "RECORD_LOCATION_UNAVAILABILITY"}

\* The world with the proposal's facts recorded and its remedy not applied.
Baseline(state, operations) ==
    ApplyOperations(state, Selected(operations, {op \in ToSet(operations) : IsFactOperation(op)})).state

\* The days whose scenes the applied operations changed.
ChangedDays(applied) ==
    UNION {{applied[i].from, applied[i].to} :
             i \in {i \in DOMAIN applied : applied[i].type = "MOVE_SCENES"}}

\* TASK-911: a changed day whose sheet would stay published.
PublishedSheetsForChangedDays(post, applied) ==
    {Conflict("CALL_SHEET_PUBLISHED_FOR_CHANGED_SHOOT_DAY", "CALL_SHEET", c,
              DateOf(post, post.sheets[c].day)) :
       c \in StaleCallSheetsForShootDays(post, ChangedDays(applied))}

SimulateProposal(state, operations) ==
    LET application == ApplyOperations(state, operations)
        after       == CheckStateInvariants(application.state)
        conflicts   == application.conflicts \cup after
                         \cup PublishedSheetsForChangedDays(application.state, application.applied)
    IN  [valid     |-> conflicts = {},
         conflicts |-> conflicts,
         resolved  |-> CheckStateInvariants(Baseline(state, operations)) \ after,
         applied   |-> application.applied,
         post      |-> application.state]

-----------------------------------------------------------------------------
(* Verifying the stored state against the operations that were applied.    *)

VerifyOperationApplied(state, op) ==
    CASE op.type = "RECORD_CAST_UNAVAILABILITY" ->
           op.cast \in DOMAIN state.cast /\ IsRangeCovered(state.cast[op.cast], op.unavailable)
      [] op.type = "RECORD_LOCATION_UNAVAILABILITY" ->
           /\ op.location \in DOMAIN state.locations
           /\ IsRangeCovered(state.locations[op.location], op.unavailable)
      [] op.type = "MOVE_SCENES" ->
           /\ op.to \in DOMAIN state.days
           /\ \A i \in DOMAIN op.scenes :
                 /\ ScheduledShootDay(state, op.scenes[i]) = op.to
                 /\ op.from \in DOMAIN state.days =>
                       op.scenes[i] \notin ToSet(state.days[op.from].scenes)
      [] op.type = "ADD_SCENE_REQUIREMENT" ->
           /\ op.scene \in DOMAIN state.scenes
           /\ \E r \in EquivalentRequirements(state, op.scene, op.kind, op.name) :
                 r \in state.scenes[op.scene].requirements
      [] op.type = "CREATE_PREPARATION_TASK" -> EquivalentTasks(state, op.on, op.title) # {}
      [] op.type = "MARK_CALL_SHEET_STALE" ->
           op.sheet \in DOMAIN state.sheets /\ state.sheets[op.sheet].status = "DRAFT"

VerifyOperationsApplied(state, operations) ==
    \A i \in DOMAIN operations : VerifyOperationApplied(state, operations[i])

\* The scenes of a recorded fact's subject.
SubjectScenes(state, op) ==
    IF op.type = "RECORD_CAST_UNAVAILABILITY" THEN ScenesRequiringCast(state, op.cast)
    ELSE ScenesAtLocation(state, op.location)

\* Nobody and nowhere recorded unavailable is still scheduled in the window.
VerifyAvailabilityHonoured(state, operations) ==
    \A i \in {i \in DOMAIN operations : IsFactOperation(operations[i])} :
       \A s \in SubjectScenes(state, operations[i]) \cap Scheduled(state) :
          ~IsDateWithin(DateOf(state, ScheduledShootDay(state, s)), operations[i].unavailable)

VerifyInvariantsHold(state) == CheckStateInvariants(state) = {}

Verified(state, operations) ==
    /\ VerifyOperationsApplied(state, operations)
    /\ VerifyAvailabilityHonoured(state, operations)
    /\ VerifyInvariantsHold(state)

=============================================================================
