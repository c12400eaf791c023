--------------------------- MODULE MCQueueAndLock ---------------------------
(***************************************************************************)
(* A small instance of the two adapters that give everybody a turn, for    *)
(* TLC: the memory queue and the lock of the data file.  They share no     *)
(* state and neither calls the other, so a behaviour moves one of them and *)
(* leaves the other as it began, where no fairness asks anything of it.    *)
(***************************************************************************)
EXTENDS MCFileStoreLock, MemoryQueue

CONSTANTS keyA, keyB, keyC, payload

VARIABLE moving

MCIdentities == {keyA, keyB, keyC}
MCPayloads == {payload}

TurnsInit == Init /\ QueueInit /\ moving \in {"LOCK", "QUEUE"}

TurnsNext ==
    /\ UNCHANGED moving
    /\ \/ moving = "LOCK" /\ Next /\ UNCHANGED queueVars
       \/ moving = "QUEUE" /\ QueueNext /\ UNCHANGED vars

Turns == TurnsInit /\ [][TurnsNext]_<<vars, queueVars, moving>>

TurnsSpec == Turns /\ QueueFairness /\ \A w \in Writers : WF_vars(Step(w))

=============================================================================
