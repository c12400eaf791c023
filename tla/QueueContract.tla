---------------------------- MODULE QueueContract ----------------------------
(***************************************************************************)
(* What a job queue promises its callers (ports/queue.ts), with no lists,  *)
(* timers, delivery loop or lookup tables: a job is accepted unless one of *)
(* its identity is held, handlers run one at a time, a retry is counted    *)
(* and never exceeds the policy, and records go only after their job has   *)
(* ended, the oldest first and no more of them than the limit asks for.    *)
(***************************************************************************)
EXTENDS Integers, FiniteSets

CONSTANTS Numbers, Names, Loads, MostAttempts, MostKept, Nothing

VARIABLES
    held,           \* the record of each job, Nothing before and after
    accepted        \* how many jobs were accepted

contractVars == <<held, accepted>>

Init == held = [n \in Numbers |-> Nothing] /\ accepted = 0

Kept(records) == {n \in Numbers : records[n] # Nothing}
IsRunning(n) == n \in Kept(held) /\ held[n].state = "RUNNING"
Ends == {"COMPLETED", "FAILED"}
Ended(records) == {n \in Kept(records) : records[n].state \in Ends}

Accept(name, load) ==
    /\ \A n \in Kept(held) : held[n].identity # name
    /\ accepted + 1 \in Numbers
    /\ accepted' = accepted + 1
    /\ held' = [held EXCEPT ![accepted + 1] = [identity |-> name, payload |-> load,
                                               state |-> "QUEUED", attempt |-> 1]]

Begin(n) ==
    /\ n \in Kept(held) /\ held[n].state = "QUEUED"
    /\ \A m \in Numbers : ~IsRunning(m)
    /\ held' = [held EXCEPT ![n].state = "RUNNING"]
    /\ UNCHANGED accepted

Repeat(n) ==
    /\ IsRunning(n)
    /\ held[n].attempt < MostAttempts
    /\ held' = [held EXCEPT ![n].state = "QUEUED", ![n].attempt = @ + 1]
    /\ UNCHANGED accepted

\* A set of ended jobs that may be forgotten.
MayGo(gone, records) ==
    /\ gone \subseteq Ended(records)
    /\ \A g \in gone, k \in Ended(records) \ gone : g < k
    /\ gone # {} => Cardinality(Kept(records) \ gone) >= MostKept
    /\ Cardinality(Ended(records) \ gone) <= MostKept

Finish(n, state) ==
    LET records == [held EXCEPT ![n].state = state]
    IN  /\ IsRunning(n)
        /\ \E gone \in SUBSET Numbers :
             /\ MayGo(gone, records)
             /\ held' = [m \in Numbers |-> IF m \in gone THEN Nothing ELSE records[m]]
        /\ UNCHANGED accepted

Next ==
    \/ \E name \in Names, load \in Loads : Accept(name, load)
    \/ \E n \in Numbers : Begin(n) \/ Repeat(n) \/ (\E state \in Ends : Finish(n, state))

Spec == Init /\ [][Next]_contractVars

=============================================================================
