----------------------------- MODULE MongoJobRuns -----------------------------
(***************************************************************************)
(* One job run in Mongo (packages/adapters/mongo-store/src/job-runs.ts):   *)
(* update reads the row, transforms it and replaces it if its revision is  *)
(* still the one read, a bounded number of times.  Every call of the       *)
(* driver may throw, and a replace whose call threw may still land.  A run *)
(* is the set of the updates it has seen.                                  *)
(***************************************************************************)
EXTENDS Naturals, FiniteSets

CONSTANTS
    Updaters,           \* calls of update, each with its own transform
    UpdateAttempts      \* UPDATE_ATTEMPTS

ASSUME UpdateAttemptsIsPositive == UpdateAttempts \in Nat \ {0}

VARIABLES
    row,        \* [saved, rev, run]
    updates     \* each call: where it is, the row it read, its attempt and result

runVars == <<row, updates>>

RunInit ==
    /\ row = [saved |-> FALSE, rev |-> 0, run |-> {}]
    /\ updates = [u \in Updaters |->
         [at |-> "IDLE", read |-> row, attempt |-> 1, result |-> "NONE"]]

\* save, by which a submission creates the run: $set and $inc in one write.
SaveRun ==
    /\ ~row.saved
    /\ row' = [row EXCEPT !.saved = TRUE, !.rev = @ + 1]
    /\ UNCHANGED updates

ReadRun(u) ==
    /\ updates[u].at = "IDLE"
    /\ updates' = [updates EXCEPT ![u] =
         IF row.saved THEN [@ EXCEPT !.at = "READ", !.read = row]
         ELSE [@ EXCEPT !.at = "DONE", !.result = "NULL"]]
    /\ UNCHANGED row

\* The find throws, or the transform, or the schema refuses what it made.
UpdateThrows(u) ==
    /\ updates[u].at \in {"IDLE", "READ"}
    /\ updates' = [updates EXCEPT ![u].at = "DONE", ![u].result = "FAILED"]
    /\ UNCHANGED row

\* Mutant: the row is found by its id alone.
AnyRevision(read) == TRUE

SameRevision(read) == row.rev = read.rev

Land(u, read) ==
    /\ SameRevision(read)
    /\ row' = [row EXCEPT !.rev = read.rev + 1, !.run = read.run \cup {u}]

\* The replace: matched, or tried again until the attempts are used up, or its
\* call throws (network, timeout) and nobody knows.
ReplaceRun(u) ==
    LET call == updates[u]
    IN  /\ call.at = "READ"
        /\ \/ /\ Land(u, call.read)
              /\ updates' = [updates EXCEPT ![u].at = "DONE", ![u].result = "LANDED"]
           \/ /\ ~SameRevision(call.read) /\ call.attempt < UpdateAttempts
              /\ updates' = [updates EXCEPT ![u].at = "IDLE", ![u].attempt = @ + 1]
              /\ UNCHANGED row
           \/ /\ ~SameRevision(call.read) /\ call.attempt >= UpdateAttempts
              /\ updates' = [updates EXCEPT ![u].at = "DONE", ![u].result = "CONTENTION"]
              /\ UNCHANGED row
           \/ /\ updates' = [updates EXCEPT ![u].at = "LOST", ![u].result = "FAILED"]
              /\ UNCHANGED row

\* The server carries out a replace whose caller has been told that it failed.
ReplaceLate(u) ==
    /\ updates[u].at = "LOST"
    /\ Land(u, updates[u].read)
    /\ updates' = [updates EXCEPT ![u].at = "DONE"]

RunNext ==
    \/ SaveRun
    \/ \E u \in Updaters : ReadRun(u) \/ UpdateThrows(u) \/ ReplaceRun(u) \/ ReplaceLate(u)

\* The run has seen every update that reported a result, and none that was told
\* of contention or that there is no run: none was overwritten, and the only
\* updates that may be there unreported are those whose call threw.  A caller is
\* told of contention only when as many others landed as it had attempts
\* (update).
JobRunUpdatesLand ==
    LET told(result) == {u \in Updaters : updates[u].result = result}
    IN  /\ told("LANDED") \subseteq row.run
        /\ row.run \subseteq told("LANDED") \cup told("FAILED")
        /\ told("CONTENTION") # {} => Cardinality(row.run) >= UpdateAttempts

=============================================================================
