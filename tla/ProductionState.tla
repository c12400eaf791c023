--------------------------- MODULE ProductionState ---------------------------
(***************************************************************************)
(* A snapshot of one production and the invariants that judge it           *)
(* (packages/domain/src/production-state.ts, invariants/state.ts,          *)
(* requirements.ts).                                                       *)
(*                                                                         *)
(* A snapshot is a record of functions from the identities of the entities *)
(* that exist to what they hold, so that DOMAIN state.scenes is the key    *)
(* set of sceneById and a reference is unknown when it is outside the      *)
(* domain.  The fields:                                                    *)
(*   scenes       [cast, location, requirements]                           *)
(*   cast         windows of unavailability                                *)
(*   locations    windows of unavailability                                *)
(*   days         [date, scenes], scenes in the order they were put there  *)
(*   sheets       [day, status]                                            *)
(*   requirements [scene, kind, name]                                      *)
(*   tasks        [on, title, status], on = <<entity type, identity>>      *)
(* INV-4 (tenancy) is not here: no operation changes a production id.      *)
(***************************************************************************)
EXTENDS ShootDates, FiniteSets

CONSTANTS
    NormalName,     \* requirement names to their normalised form
    Nobody          \* the null of the source

\* A requirement name, or a task title made of one, trimmed, with its spaces
\* collapsed and in lower case.
NormalizeRequirementName(name) == NormalName[name]
NormalTitle(title) == [title EXCEPT !.name = NormalizeRequirementName(@)]

Conflict(code, type, id, date) == [code |-> code, type |-> type, id |-> id, date |-> date]
NoDate == 0
Unknown(type, id) == Conflict("UNKNOWN_ENTITY_REFERENCE", type, id, NoDate)

\* What a snapshot is made of (entities.ts).
IsSnapshot(state) ==
    /\ state = [scenes |-> state.scenes, cast |-> state.cast, locations |-> state.locations, days |-> state.days,
                sheets |-> state.sheets, requirements |-> state.requirements, tasks |-> state.tasks]
    /\ state.scenes = [s \in DOMAIN state.scenes |->
                         [cast |-> state.scenes[s].cast, location |-> state.scenes[s].location,
                          requirements |-> state.scenes[s].requirements]]
    /\ state.cast \in [DOMAIN state.cast -> Seq(DateRanges)]
    /\ state.locations \in [DOMAIN state.locations -> Seq(DateRanges)]
    /\ state.days = [d \in DOMAIN state.days |->
                       [date |-> state.days[d].date, scenes |-> state.days[d].scenes]]
    /\ \A d \in DOMAIN state.days :
         state.days[d].date \in Int /\ state.days[d].scenes \in Seq(ToSet(state.days[d].scenes))
    /\ state.sheets = [c \in DOMAIN state.sheets |->
                         [day |-> state.sheets[c].day, status |-> state.sheets[c].status]]
    /\ state.requirements = [r \in DOMAIN state.requirements |->
                               [scene |-> state.requirements[r].scene, kind |-> state.requirements[r].kind,
                                name |-> state.requirements[r].name]]
    /\ IsFiniteSet(DOMAIN state.scenes) /\ IsFiniteSet(DOMAIN state.sheets)
    /\ IsFiniteSet(DOMAIN state.requirements) /\ IsFiniteSet(DOMAIN state.tasks)

-----------------------------------------------------------------------------
(* Looking things up.                                                      *)

\* The places of a scene in the schedule: more than one is an INV-3 violation.
Placements(state, scene) ==
    UNION {{<<d, i>> : i \in {i \in DOMAIN state.days[d].scenes : state.days[d].scenes[i] = scene}} :
             d \in DOMAIN state.days}

\* The single shoot day a scene sits on.  Every state the rules below call it
\* on holds a scene at most once; the source takes the first of several.
ScheduledShootDay(state, scene) ==
    IF Placements(state, scene) = {} THEN Nobody
    ELSE (CHOOSE p \in Placements(state, scene) : TRUE)[1]

Scheduled(state) == {s \in DOMAIN state.scenes : Placements(state, s) # {}}

DateOf(state, day) == state.days[day].date

TasksFor(state, type, id) == {t \in DOMAIN state.tasks : state.tasks[t].on = <<type, id>>}
RequirementsFor(state, scene) ==
    {r \in DOMAIN state.requirements : state.requirements[r].scene = scene}
CallSheetsFor(state, day) == {c \in DOMAIN state.sheets : state.sheets[c].day = day}
ScenesRequiringCast(state, cast) == {s \in DOMAIN state.scenes : cast \in state.scenes[s].cast}
ScenesAtLocation(state, location) ==
    {s \in DOMAIN state.scenes : state.scenes[s].location = location}

\* The requirements of a scene that mean the same thing.
EquivalentRequirements(state, scene, kind, name) ==
    {r \in RequirementsFor(state, scene) :
       /\ state.requirements[r].kind = kind
       /\ NormalizeRequirementName(state.requirements[r].name) = NormalizeRequirementName(name)}

\* Mutant: the title asked for is normalised, the recorded one is not.
TasksUnderNormalTitle(state, on, title) ==
    {t \in TasksFor(state, on[1], on[2]) :
       state.tasks[t].status = "OPEN" /\ state.tasks[t].title = NormalTitle(title)}

\* The open tasks of an entity under a title.
EquivalentTasks(state, on, title) ==
    {t \in TasksFor(state, on[1], on[2]) :
       /\ state.tasks[t].status = "OPEN"
       /\ NormalTitle(state.tasks[t].title) = NormalTitle(title)}

EntityExists(state, type, id) ==
    CASE type = "SCENE"       -> id \in DOMAIN state.scenes
      [] type = "SHOOT_DAY"   -> id \in DOMAIN state.days
      [] type = "CALL_SHEET"  -> id \in DOMAIN state.sheets
      [] type = "REQUIREMENT" -> id \in DOMAIN state.requirements

-----------------------------------------------------------------------------
(* The state invariants, each as the set of conflicts it reports.          *)

\* Scenes of this production on shoot days.
Bookings(state) ==
    {b \in (DOMAIN state.days) \X (DOMAIN state.scenes) : b[2] \in ToSet(state.days[b[1]].scenes)}

\* Mutant: only the first day of each window counts.
CheckCastFirstDay(state) ==
    {Conflict("CAST_UNAVAILABLE_ON_SHOOT_DAY", "SCENE", b[2], DateOf(state, b[1])) :
       b \in {b \in Bookings(state) :
                \E c \in state.scenes[b[2]].cast \cap DOMAIN state.cast :
                   \E i \in DOMAIN state.cast[c] : state.cast[c][i].start = DateOf(state, b[1])}}

\* INV-1.
CheckCastAvailability(state) ==
    {Conflict("CAST_UNAVAILABLE_ON_SHOOT_DAY", "SCENE", b[2], DateOf(state, b[1])) :
       b \in {b \in Bookings(state) :
                \E c \in state.scenes[b[2]].cast \cap DOMAIN state.cast :
                   IsBlockedOn(state.cast[c], DateOf(state, b[1]))}}

\* INV-2.
CheckLocationAvailability(state) ==
    {Conflict("LOCATION_UNAVAILABLE_ON_SHOOT_DAY", "SCENE", b[2], DateOf(state, b[1])) :
       b \in {b \in Bookings(state) :
                LET l == state.scenes[b[2]].location
                IN  l \in DOMAIN state.locations /\ IsBlockedOn(state.locations[l], DateOf(state, b[1]))}}

\* INV-3: what a scene, a day, a sheet, a requirement or a task refers to
\* exists, and a scene is scheduled at most once.
DanglingScenes(state) ==
    {Unknown("SCENE", s) : s \in {s \in DOMAIN state.scenes :
        \/ state.scenes[s].location \notin DOMAIN state.locations
        \/ ~(state.scenes[s].cast \subseteq DOMAIN state.cast)
        \/ ~(state.scenes[s].requirements \subseteq DOMAIN state.requirements)}}

DanglingDays(state) ==
    {Conflict("UNKNOWN_ENTITY_REFERENCE", "SHOOT_DAY", d, DateOf(state, d)) :
       d \in {d \in DOMAIN state.days : ~(ToSet(state.days[d].scenes) \subseteq DOMAIN state.scenes)}}

TwiceScheduled(state) ==
    {Conflict("SCENE_ALREADY_ON_SHOOT_DAY", "SCENE", s, NoDate) :
       s \in {s \in UNION {ToSet(state.days[d].scenes) : d \in DOMAIN state.days} :
                \E here, there \in Placements(state, s) : here # there}}

DanglingRecords(state) ==
    {Unknown("CALL_SHEET", c) :
       c \in {c \in DOMAIN state.sheets : state.sheets[c].day \notin DOMAIN state.days}}
      \cup
    {Unknown("REQUIREMENT", r) :
       r \in {r \in DOMAIN state.requirements : state.requirements[r].scene \notin DOMAIN state.scenes}}
      \cup
    {Unknown("TASK", t) :
       t \in {t \in DOMAIN state.tasks : ~EntityExists(state, state.tasks[t].on[1], state.tasks[t].on[2])}}

CheckSceneIntegrity(state) ==
    DanglingScenes(state) \cup DanglingDays(state) \cup TwiceScheduled(state) \cup DanglingRecords(state)

CheckStateInvariants(state) ==
    CheckCastAvailability(state) \cup CheckLocationAvailability(state) \cup CheckSceneIntegrity(state)

=============================================================================
