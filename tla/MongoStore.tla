------------------------------ MODULE MongoStore ------------------------------
(***************************************************************************)
(* The Mongo store of the API processes: the approval path's collections   *)
(* (MongoTransactions) and the job runs (MongoJobRuns).  No operation      *)
(* touches both, so a behaviour moves one of them and leaves the other as  *)
(* it began.                                                               *)
(***************************************************************************)
EXTENDS MongoTransactions, MongoJobRuns

VARIABLE moving

vars == <<storeVars, mongoVars, runVars, moving>>

Init == MongoInit /\ RunInit /\ moving \in {"RECORDS", "RUNS"}

Next ==
    /\ UNCHANGED moving
    /\ \/ moving = "RECORDS" /\ MongoNext /\ UNCHANGED runVars
       \/ moving = "RUNS" /\ RunNext /\ UNCHANGED <<storeVars, mongoVars>>

Spec == Init /\ [][Next]_vars

\* What a caller of the Mongo store may rely on: answers that are so, loads no
\* worse than the approval path assumes, updates that are not lost.
StoreKeepsItsWord == AnswersAreTrue /\ LoadsAreAsAssumed /\ JobRunUpdatesLand

=============================================================================
