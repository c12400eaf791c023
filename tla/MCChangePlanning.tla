-------------------------- MODULE MCChangePlanning --------------------------
(* A small instance of ChangePlanning for TLC: two scenes that share a cast  *)
(* member and a location, three shoot days of which two are adjacent, and    *)
(* windows that end on the last day there is.                                *)
EXTENDS ChangePlanning

CONSTANTS s1, s2, ghost, sarah, john, studio, harbour, d1, d2, d3, c1, c2

Window(from, to) == [start |-> from, end |-> to]

\* Red car and red  car are one requirement.
MCNormalName == ("red car" :> "red car") @@ ("Red  Car" :> "red car")

\* Both scenes need sarah; one is at the studio, the other at the harbour.
\* Sheets: c1 for d1 and c2 for d2, both published.  Tasks: one open on c1, one
\* done on s1.
Schedule(first, second, third, windows) ==
    [scenes       |-> (s1 :> [cast |-> {sarah}, location |-> studio, requirements |-> {}])
                        @@ (s2 :> [cast |-> {sarah, john}, location |-> harbour, requirements |-> {}]),
     cast         |-> (sarah :> <<>>) @@ (john :> windows),
     locations    |-> (studio :> <<>>) @@ (harbour :> <<Window(4, 4)>>),
     days         |-> (d1 :> [date |-> 1, scenes |-> first]) @@ (d2 :> [date |-> 2, scenes |-> second])
                        @@ (d3 :> [date |-> 4, scenes |-> third]),
     sheets       |-> (c1 :> [day |-> d1, status |-> "PUBLISHED"])
                        @@ (c2 :> [day |-> d2, status |-> "PUBLISHED"]),
     requirements |-> <<>>,
     tasks        |-> (<<"T", 1>> :> [on |-> <<"CALL_SHEET", c1>>, status |-> "OPEN",
                                      title |-> [name |-> "red car", scene |-> s2]])
                        @@ (<<"T", 2>> :> [on |-> <<"SCENE", s1>>, status |-> "DONE",
                                           title |-> [name |-> "red car", scene |-> s1]])]

\* Scene s1 already has its red car.
WithCar(state) ==
    [state EXCEPT !.scenes[s1].requirements = {<<"REQ", 1>>},
       !.requirements = <<"REQ", 1>> :> [scene |-> s1, kind |-> "VEHICLE", name |-> "Red  Car"]]

MCProductions ==
    {Schedule(<<s1, s2>>, <<>>, <<>>, <<>>),
     Schedule(<<s1>>, <<s2>>, <<>>, <<Window(1, 1)>>),
     Schedule(<<>>, <<s2>>, <<s1>>, <<Window(4, 4), Window(1, 1)>>),
     WithCar(Schedule(<<s2>>, <<>>, <<s1>>, <<Window(LastDay - 1, LastDay), Window(2, 4)>>))}

Ranges == {Window(1, 1), Window(2, 2), Window(1, 2), Window(2, 4)}

MCChanges ==
    {[type |-> "CAST_UNAVAILABLE", cast |-> c, unavailable |-> r] : c \in {sarah, john}, r \in Ranges}
      \cup
    {[type |-> "CAST_UNAVAILABLE", cast |-> john, unavailable |-> Window(LastDay, LastDay)]}
      \cup
    {[type |-> "LOCATION_UNAVAILABLE", location |-> l, unavailable |-> r] :
       l \in {studio, harbour}, r \in {Window(1, 1), Window(2, 4)}}
      \cup
    {[type |-> "SCENE_REQUIREMENT_CHANGED", scene |-> s1, kind |-> "VEHICLE", name |-> n] :
       n \in DOMAIN MCNormalName}
      \cup
    {[type |-> "SCHEDULE_CHANGED", scenes |-> s, to |-> d] :
       s \in {<<s1>>, <<s2, s1>>, <<s2, s2>>}, d \in {d2, d3}}
      \cup
    {[type |-> "SCHEDULE_CHANGED", scenes |-> <<ghost>>, to |-> d1]}

Move(scenes, from, to) == [type |-> "MOVE_SCENES", scenes |-> scenes, from |-> from, to |-> to]
Mark(sheet) == [type |-> "MARK_CALL_SHEET_STALE", sheet |-> sheet]
Need(name) == [type |-> "ADD_SCENE_REQUIREMENT", scene |-> s1, kind |-> "VEHICLE", name |-> name]
Prepare(on, name) ==
    [type |-> "CREATE_PREPARATION_TASK", on |-> on, title |-> [name |-> name, scene |-> s1]]

MCHandWritten ==
    {<<Move(<<s1>>, d1, d2), Mark(c1), Mark(c2)>>,
     <<Move(<<s1>>, d1, d2), Mark(c2)>>,
     <<Move(<<s1, s1>>, d1, d3), Mark(c1)>>,
     <<Move(<<s1, s2>>, d1, d2), Mark(c1), Mark(c2)>>,
     <<Move(<<s2>>, d2, d3), Mark(c2)>>,
     <<Move(<<s1>>, d2, d1), Move(<<s1>>, d1, d2), Mark(c1), Mark(c2)>>,
     <<Move(<<s1>>, d3, d1), Mark(c1)>>,
     <<Need("red car"), Need("Red  Car")>>,
     <<Prepare(<<"SCENE", s1>>, "Red  Car"), Mark(c1)>>,
     <<Prepare(<<"CALL_SHEET", c1>>, "red car"), Prepare(<<"SCENE", ghost>>, "red car")>>,
     <<[type |-> "RECORD_CAST_UNAVAILABILITY", cast |-> sarah, unavailable |-> Window(3, 3)]>>,
     <<[type |-> "RECORD_LOCATION_UNAVAILABILITY", location |-> studio, unavailable |-> Window(2, 2)]>>}

=============================================================================
