----------------------------- MODULE ModelGuard -----------------------------
(***************************************************************************)
(* The guard in front of every model provider (packages/application/src/   *)
(* ports/model.ts): a semaphore of maxConcurrent slots, a budget and the   *)
(* caller's own signal raced against the provider, and the checks an       *)
(* answer must pass.                                                       *)
(*                                                                         *)
(* A call goes through the phases                                          *)
(*   IDLE -> (WAITING) -> GRANTED -> RUNNING -> DONE                       *)
(* in steps one turn of the event loop apart: a slot is granted in one and *)
(* used in a later one, the race is decided in one and read in a later     *)
(* one.  The provider is external: it may answer, fail, or stay silent,    *)
(* and may go on working after it was told to stop.  It fails with an      *)
(* error of its own: a ModelError, which no provider throws, would be      *)
(* passed on as it is (417-419).                                           *)
(***************************************************************************)
EXTENDS Naturals, Sequences, FiniteSets

CONSTANTS
    Calls,          \* the calls the process makes, each once
    MaxConcurrent,  \* options.maxConcurrent
    Days,           \* the candidate days a ranking is asked about
    WarningsOf,     \* the number of warnings of each candidate day
    Findings,       \* the conflicts, impacts and warnings a narrative is asked about
    Known,          \* the entities the model was shown
    Answers         \* what a provider may answer

ASSUME MaxConcurrentIsPositive == MaxConcurrent \in Nat \ {0}

ASSUME AnswersHaveAKind ==
    \A given \in Answers :
       /\ given.kind \in {"MALFORMED", "INTERPRETATION", "NARRATIVE", "RANKING"}
       /\ given.kind = "RANKING" => Len(given.ranked) \in Nat /\ DOMAIN given.ranked = 1..Len(given.ranked)

VARIABLES
    free,           \* the semaphore's free slots
    waiting,        \* callers queued for a slot
    calls           \* each call's record

modelVars == <<free, waiting, calls>>

ModelErrors == {"MALFORMED_OUTPUT", "UNGROUNDED_OUTPUT", "PROVIDER_ERROR", "TIMEOUT", "ABORTED"}

NoAnswer == [kind |-> "NONE"]

\* phase; gaveUp: the caller's signal is aborted; race: how the race was
\* decided; told: the provider's signal is aborted; working: the provider is
\* at work; answer: what won the race, and once it is judged what the caller is given;
\* outcome.
CallRecords ==
    [phase : {"IDLE", "WAITING", "GRANTED", "RUNNING", "DONE"}, gaveUp : BOOLEAN,
     race : {"OPEN", "ANSWER", "FAILED", "TIMEOUT", "ABORTED"}, told : BOOLEAN, working : BOOLEAN,
     answer : Answers \cup {NoAnswer}, outcome : ModelErrors \cup {"NONE", "OK"}]

ModelTypeOK ==
    /\ free \in 0..MaxConcurrent
    /\ waiting \in Seq(Calls)
    /\ calls \in [Calls -> CallRecords]

-----------------------------------------------------------------------------
(* What an answer must be.  Prose is reduced to what the closed checks     *)
(* read of it: whether it claims authority or safety, what it denies there *)
(* is any of, and the entities it names.                                   *)

\* A contradiction is a denial of what there is some of.
Contradicts(prose, facts) == \E what \in prose.denies : facts[what] > 0

AssertHonestProse(prose, facts) ==
    ~prose.claims /\ ~Contradicts(prose, facts) /\ prose.names \subseteq Known

\* Every change of an interpretation, the options of an ambiguous one included,
\* names what the model was shown.
AssertGroundedInterpretation(changes) == \A ids \in changes : ids \subseteq Known

AssertGroundedNarrative(prose) == AssertHonestProse(prose, Findings)

\* A reason is checked against the warnings of its day alone.
AssertGroundedReasons(ranked) ==
    \A i \in DOMAIN ranked :
       AssertHonestProse(ranked[i].reason,
                         [conflicts |-> 0, impacts |-> 0, warnings |-> WarningsOf[ranked[i].day]])

\* The sorted days returned are the sorted days offered.
AssertGroundedDays(ranked) ==
    /\ Len(ranked) = Cardinality(Days)
    /\ {ranked[i].day : i \in DOMAIN ranked} = Days

\* The sorted ranks are 1..n: n of them, and each of 1..n among them.
AssertGroundedRanks(ranked) == {ranked[i].rank : i \in DOMAIN ranked} = 1..Len(ranked)

Grounded(holds) == IF holds THEN "OK" ELSE "UNGROUNDED_OUTPUT"

\* The outcome of an answer that won the race.
Judge(answer) ==
    CASE answer.kind = "MALFORMED" -> "MALFORMED_OUTPUT"
      [] answer.kind = "INTERPRETATION" -> Grounded(AssertGroundedInterpretation(answer.changes))
      [] answer.kind = "NARRATIVE" -> Grounded(AssertGroundedNarrative(answer.prose))
      [] answer.kind = "RANKING" ->
           IF ~AssertGroundedDays(answer.ranked) THEN "UNGROUNDED_OUTPUT"
           ELSE IF ~AssertGroundedRanks(answer.ranked) THEN "MALFORMED_OUTPUT"
           ELSE Grounded(AssertGroundedReasons(answer.ranked))

-----------------------------------------------------------------------------
ModelInit ==
    /\ free = MaxConcurrent
    /\ waiting = <<>>
    /\ calls = [c \in Calls |->
         [phase |-> "IDLE", gaveUp |-> FALSE, race |-> "OPEN", told |-> FALSE, working |-> FALSE,
          answer |-> NoAnswer, outcome |-> "NONE"]]

Acquire(c) ==
    /\ calls[c].phase = "IDLE"
    /\ IF free > 0
       THEN /\ free' = free - 1
            /\ calls' = [calls EXCEPT ![c].phase = "GRANTED"]
            /\ UNCHANGED waiting
       ELSE /\ waiting' = Append(waiting, c)
            /\ calls' = [calls EXCEPT ![c].phase = "WAITING"]
            /\ UNCHANGED free

\* Mutant: a slot given back is always free, and the next waiter goes on waiting.
ReleaseToNobody(done) ==
    /\ free' = free + 1
    /\ calls' = done
    /\ UNCHANGED waiting

\* A slot given back goes straight to the caller that waited longest.
Release(done) ==
    IF waiting = <<>>
    THEN free' = free + 1 /\ calls' = done /\ UNCHANGED waiting
    ELSE /\ waiting' = Tail(waiting)
         /\ calls' = [done EXCEPT ![Head(waiting)].phase = "GRANTED"]
         /\ UNCHANGED free

\* A caller that gave up while it waited is answered without asking the provider.
Start(c) ==
    /\ calls[c].phase = "GRANTED"
    /\ IF calls[c].gaveUp
       THEN Release([calls EXCEPT ![c].phase = "DONE", ![c].outcome = "ABORTED"])
       ELSE /\ calls' = [calls EXCEPT ![c].phase = "RUNNING", ![c].working = TRUE]
            /\ UNCHANGED <<free, waiting>>

\* Mutant: the provider is told first, and what it throws at that decides the race.
AbortFirst(record, why) == [record EXCEPT !.race = "FAILED", !.told = TRUE, !.working = FALSE]

\* Reject, then abort: the race is decided before the provider hears of it.
Interrupt(record, why) == [record EXCEPT !.race = why, !.told = TRUE]

Timeout(c) ==
    /\ calls[c].phase = "RUNNING" /\ calls[c].race = "OPEN"
    /\ calls' = [calls EXCEPT ![c] = Interrupt(@, "TIMEOUT")]
    /\ UNCHANGED <<free, waiting>>

\* The caller's signal is aborted, whether the call is queued, running or decided.
GiveUp(c) ==
    /\ calls[c].phase \in {"WAITING", "GRANTED", "RUNNING"} /\ ~calls[c].gaveUp
    /\ calls' = [calls EXCEPT ![c] =
         IF calls[c].phase = "RUNNING" /\ calls[c].race = "OPEN"
         THEN [Interrupt(@, "ABORTED") EXCEPT !.gaveUp = TRUE]
         ELSE [@ EXCEPT !.gaveUp = TRUE]]
    /\ UNCHANGED <<free, waiting>>

\* The provider answers or fails; after the race is decided nobody listens.
ProviderAnswers(c) ==
    /\ calls[c].working
    /\ \E answer \in Answers :
         calls' = [calls EXCEPT ![c] =
           IF calls[c].race = "OPEN"
           THEN [@ EXCEPT !.working = FALSE, !.race = "ANSWER", !.answer = answer]
           ELSE [@ EXCEPT !.working = FALSE]]
    /\ UNCHANGED <<free, waiting>>

ProviderFails(c) ==
    /\ calls[c].working
    /\ calls' = [calls EXCEPT ![c] =
         [@ EXCEPT !.working = FALSE,
                   !.race = IF calls[c].race = "OPEN" THEN "FAILED" ELSE calls[c].race]]
    /\ UNCHANGED <<free, waiting>>

\* The race is read, the slot given back, the answer judged.
Settle(c) ==
    /\ calls[c].phase = "RUNNING" /\ calls[c].race # "OPEN"
    /\ LET outcome == CASE calls[c].race = "ANSWER" -> Judge(calls[c].answer)
                        [] calls[c].race = "FAILED" -> "PROVIDER_ERROR"
                        [] OTHER -> calls[c].race
       IN  Release([calls EXCEPT ![c].phase = "DONE", ![c].outcome = outcome,
                                 ![c].answer = IF outcome = "OK" THEN @ ELSE NoAnswer])

ModelNext ==
    \E c \in Calls :
       \/ Acquire(c) \/ Start(c) \/ Timeout(c) \/ GiveUp(c)
       \/ ProviderAnswers(c) \/ ProviderFails(c) \/ Settle(c)

\* Turns of the event loop come, and timers fire; a provider owes nothing.
ModelFairness == \A c \in Calls : WF_modelVars(Start(c) \/ Timeout(c) \/ Settle(c))

ModelSpec == ModelInit /\ [][ModelNext]_modelVars /\ ModelFairness

-----------------------------------------------------------------------------
Holding == {c \in Calls : calls[c].phase \in {"GRANTED", "RUNNING"}}

\* The semaphore conserves its slots: those held and those free are all there
\* are, the queue holds the callers that wait, each once, and nobody waits
\* while a slot is free (createSemaphore).
SlotsAreConserved ==
    /\ free + Cardinality(Holding) = MaxConcurrent
    /\ \A c \in Calls : calls[c].phase = "WAITING" <=> \E i \in DOMAIN waiting : waiting[i] = c
    /\ \A i, j \in DOMAIN waiting : waiting[i] = waiting[j] => i = j
    /\ waiting # <<>> => free = 0

\* A call the guard stopped is a timeout or an abort, never the provider's
\* error, and never an answer that came late (withBudget: reject first, then
\* abort); a caller that never gave up is not told that it did.
InterruptionsAreNamed ==
    \A c \in Calls : calls[c].phase = "DONE" =>
       /\ calls[c].told => calls[c].outcome \in {"TIMEOUT", "ABORTED"}
       /\ calls[c].outcome = "TIMEOUT" => calls[c].told
       /\ calls[c].outcome = "ABORTED" => calls[c].gaveUp

\* The agent moves scenes to the day ranked first: a ranking that is accepted
\* ranks every candidate once, and exactly one of them first.
AcceptedRankingsArePermutations ==
    \A c \in Calls :
       calls[c].outcome = "OK" /\ calls[c].answer.kind = "RANKING" =>
         LET ranked == calls[c].answer.ranked
         IN  /\ \A d \in Days : \E i \in DOMAIN ranked :
                   ranked[i].day = d /\ \A j \in DOMAIN ranked : ranked[j].day = d => j = i
             /\ \A k \in 1..Cardinality(Days) : \E i \in DOMAIN ranked :
                   ranked[i].rank = k /\ \A j \in DOMAIN ranked : ranked[j].rank = k => j = i

\* Slots, outcomes and rankings together: what the callers of a guarded model
\* rely on (model.ts).
GuardedCallsAreHonest ==
    SlotsAreConserved /\ InterruptionsAreNamed /\ AcceptedRankingsArePermutations

\* Every call made is answered, however the provider behaves and whoever gives
\* up: no slot leaks, and no waiter is forgotten.
EveryModelCallSettles == \A c \in Calls : calls[c].phase = "WAITING" \/ calls[c].phase = "RUNNING" ~> calls[c].phase = "DONE"

=============================================================================
