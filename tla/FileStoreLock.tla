---------------------------- MODULE FileStoreLock ----------------------------
(***************************************************************************)
(* How the file adapter serialises writers (packages/adapters/file-store/  *)
(* src/index.ts): a mutation holds a lock file for its whole read-check-   *)
(* write, across instances and processes, and a lock left by a process     *)
(* that died is reclaimed.  ProposalStore takes a mutation for one step;   *)
(* this module is what that rests on.                                      *)
(*                                                                         *)
(* A writer is one FileStore: its own mutations queue up behind each       *)
(* other.  An action is one call to the file system.  The database is the  *)
(* set of mutations it holds.  Time passes only in that a writer gives up  *)
(* at some look at a lock that is held, after MaxPolls at the latest, and  *)
(* that an unreadable lock grows old only when nobody is about to fill it: *)
(* a writer that lives fills the lock it created within STALE_LOCK_MS, or  *)
(* fails to.  Any call to the file system may fail.                        *)
(***************************************************************************)
EXTENDS Integers, FiniteSets

CONSTANTS
    Writers,        \* FileStore instances on one data file
    Processes,
    ProcessOf,      \* the process each writer lives in
    MaxMutations,   \* bounds of the model: mutations of a writer, looks at a
    MaxPolls,       \* held lock before STORE_LOCKED, processes that may die
    MaxCrashes,
    NoLock

ASSUME ProcessOfIsFunction == ProcessOf \in [Writers -> Processes]
ASSUME BoundsAreNatural == MaxMutations \in Nat /\ MaxPolls \in Nat /\ MaxCrashes \in Nat
ASSUME NoLockIsNoRecord == NoLock \notin [by : Writers, filled : BOOLEAN]

VARIABLES
    lock,           \* the file at lockPath, NoLock when there is none
    database,       \* the mutations in the data file
    answered,       \* the mutations whose callers were told they were written
    at,             \* where each writer is
    seen,           \* the database each writer read
    count,          \* how many mutations each writer began
    polls,          \* how often it found the lock held
    dead,           \* the processes that died
    left            \* the locks that a failing call left at the path (history)

vars == <<lock, database, answered, at, seen, count, polls, dead, left>>

Points == {"idle", "open", "fill", "inspect", "reclaim", "read", "write", "release", "abort"}
Locks == [by : Writers, filled : BOOLEAN]
Mutations == Writers \X (1..MaxMutations)

TypeOK ==
    /\ lock \in Locks \cup {NoLock}
    /\ database \subseteq Mutations
    /\ answered \subseteq Mutations
    /\ at \in [Writers -> Points]
    /\ seen \in [Writers -> SUBSET Mutations]
    /\ count \in [Writers -> 0..MaxMutations]
    /\ polls \in [Writers -> 0..MaxPolls]
    /\ dead \subseteq Processes
    /\ left \subseteq Locks

Init ==
    /\ lock = NoLock
    /\ database = {}
    /\ answered = {}
    /\ at = [w \in Writers |-> "idle"]
    /\ seen = [w \in Writers |-> {}]
    /\ count = [w \in Writers |-> 0]
    /\ polls = [w \in Writers |-> 0]
    /\ dead = {}
    /\ left = {}

Lives(w) == ProcessOf[w] \notin dead
GoTo(w, point) == at' = [at EXCEPT ![w] = point]

-----------------------------------------------------------------------------
(* Acquiring the lock.                                                     *)

Mutate(w) ==
    /\ at[w] = "idle"
    /\ count[w] < MaxMutations
    /\ count' = [count EXCEPT ![w] = @ + 1]
    /\ polls' = [polls EXCEPT ![w] = 0]
    /\ GoTo(w, "open")
    /\ UNCHANGED <<lock, database, answered, seen, dead, left>>

\* Mutant: the lock is created without O_EXCL.
OpenShared(w) ==
    /\ at[w] = "open"
    /\ lock' = [by |-> w, filled |-> FALSE] /\ GoTo(w, "fill")
    /\ UNCHANGED <<database, answered, seen, count, polls, dead, left>>

\* open(lockPath, "wx"), which may fail for another reason than EEXIST.
Open(w) ==
    /\ at[w] = "open"
    /\ \/ lock = NoLock /\ lock' = [by |-> w, filled |-> FALSE] /\ GoTo(w, "fill")
       \/ lock # NoLock /\ GoTo(w, "inspect") /\ UNCHANGED lock
       \/ GoTo(w, "idle") /\ UNCHANGED lock
    /\ UNCHANGED <<database, answered, seen, count, polls, dead, left>>

\* The pid goes through the handle: into the file this writer created,
\* wherever that is by now.  When the write or the close fails the mutation is
\* refused, and nobody unlinks the file: without a pid in the one case, with
\* it in the other.
Fill(w) ==
    /\ at[w] = "fill"
    /\ \E written, closed \in BOOLEAN :
         /\ lock' = IF written /\ lock # NoLock /\ lock.by = w
                    THEN [lock EXCEPT !.filled = TRUE] ELSE lock
         /\ left' = IF written /\ closed THEN left
                    ELSE left \cup {[by |-> w, filled |-> written]}
         /\ GoTo(w, IF written /\ closed THEN "read" ELSE "idle")
    /\ UNCHANGED <<database, answered, seen, count, polls, dead>>

\* Mutant: a lock whose contents cannot be read is taken for abandoned at once.
AnyUnreadableIsAbandoned(held) == ~held.filled \/ ~Lives(held.by)

\* The pid in the lock is dead, or nobody will fill it and it has grown old.
IsAbandoned(held) == ~Lives(held.by) \/ (~held.filled /\ at[held.by] # "fill")

\* Mutant: a writer waits without a deadline.
InspectUncounted(w) ==
    /\ at[w] = "inspect"
    /\ \/ lock # NoLock /\ IsAbandoned(lock) /\ GoTo(w, "reclaim")
       \/ (lock # NoLock => (IsAbandoned(lock) => ~lock.filled)) /\ GoTo(w, "open")
    /\ UNCHANGED <<lock, database, answered, seen, count, polls, dead, left>>

Inspect(w) ==
    /\ at[w] = "inspect"
    /\ \/ lock = NoLock /\ GoTo(w, "open") /\ UNCHANGED polls
       \/ lock # NoLock /\ IsAbandoned(lock) /\ GoTo(w, "reclaim") /\ UNCHANGED polls
       \/ /\ lock # NoLock /\ (IsAbandoned(lock) => ~lock.filled)
          /\ polls[w] < MaxPolls
          /\ polls' = [polls EXCEPT ![w] = @ + 1]
          /\ GoTo(w, "open")
       \/ /\ lock # NoLock /\ (IsAbandoned(lock) => ~lock.filled)
          /\ GoTo(w, "idle") /\ UNCHANGED polls
    /\ UNCHANGED <<lock, database, answered, seen, count, dead, left>>

\* rename(lockPath, ...) takes whatever is at the path now.
Reclaim(w) ==
    /\ at[w] = "reclaim"
    /\ \/ lock' = NoLock /\ GoTo(w, "open")
       \/ GoTo(w, "idle") /\ UNCHANGED lock
    /\ UNCHANGED <<database, answered, seen, count, polls, dead, left>>

-----------------------------------------------------------------------------
(* The mutation.                                                           *)

Read(w) ==
    /\ at[w] = "read"
    /\ seen' = [seen EXCEPT ![w] = database]
    /\ GoTo(w, "write")
    /\ UNCHANGED <<lock, database, answered, count, polls, dead, left>>

\* The temporary file is renamed into place; or the transform threw, the
\* schema refused the result, or the write failed.
Write(w) ==
    /\ at[w] = "write"
    /\ \/ database' = seen[w] \cup {<<w, count[w]>>} /\ GoTo(w, "release")
       \/ UNCHANGED database /\ GoTo(w, "abort")
    /\ UNCHANGED <<lock, answered, seen, count, polls, dead, left>>

Answer(w) ==
    /\ answered' = IF at[w] = "release" THEN answered \cup {<<w, count[w]>>} ELSE answered
    /\ GoTo(w, "idle")

\* Mutant: the lock is not released when the mutation failed.
ReleaseWritten(w) ==
    /\ at[w] \in {"release", "abort"}
    /\ lock' = IF at[w] = "release" THEN NoLock ELSE lock
    /\ Answer(w)
    /\ UNCHANGED <<database, seen, count, polls, dead, left>>

\* unlink(lockPath) takes whatever is at the path now; nobody hears of it
\* when it fails.
Release(w) ==
    /\ at[w] \in {"release", "abort"}
    /\ \/ lock' = NoLock /\ UNCHANGED left
       \/ left' = left \cup {[by |-> w, filled |-> TRUE]} /\ UNCHANGED lock
    /\ Answer(w)
    /\ UNCHANGED <<database, seen, count, polls, dead>>

\* A process dies with all its writers.
Crash(process) ==
    /\ process \notin dead
    /\ Cardinality(dead) < MaxCrashes
    /\ dead' = dead \cup {process}
    /\ UNCHANGED <<lock, database, answered, at, seen, count, polls, left>>

Step(w) ==
    /\ Lives(w)
    /\ Open(w) \/ Fill(w) \/ Inspect(w) \/ Reclaim(w) \/ Read(w) \/ Write(w) \/ Release(w)

Next ==
    \/ \E w \in Writers : Step(w) \/ (Lives(w) /\ Mutate(w))
    \/ \E process \in Processes : Crash(process)

Spec == Init /\ [][Next]_vars

\* A living process goes on with what it began.
FairSpec == Spec /\ \A w \in Writers : WF_vars(Step(w))

-----------------------------------------------------------------------------
(* Properties.                                                             *)

\* Where a writer owns the data file.
Owning == {"fill", "read", "write", "release", "abort"}

\* No lock was left without its owner's pid.
PidsWritten == \A gone \in left : gone.filled

\* At most one living writer owns the data file, and the lock file says so; as
\* long as no pid could not be written (two waiters may find a lock without a
\* pid abandoned, and the slower one takes the faster one's fresh lock).
OneWriterAtATime ==
    PidsWritten => \A w \in Writers : Lives(w) /\ at[w] \in Owning =>
      /\ lock # NoLock /\ lock.by = w
      /\ \A v \in Writers : Lives(v) /\ at[v] \in Owning => v = w

\* A mutation whose caller was told it was written is in the data file for
\* good: no other writer, waiter, crash, failed close or failed unlink
\* overwrites it.  After a pid that could not be written this is not promised.
NoUpdateIsLost == PidsWritten => answered \subseteq database

\* Every mutation ends, written or refused, as long as its process lives:
\* nobody waits forever for a lock whose owner died or failed.
EveryMutationEnds == \A w \in Writers : at[w] # "idle" ~> (at[w] = "idle" \/ ~Lives(w))

\* The lock of a living process is that of a writer at work, however the
\* mutations before it ended, a throwing transform and a refused write
\* included.  The exceptions are the calls the code does not clean up after:
\* a failed write of the pid leaves a lock without a pid (it can be reclaimed),
\* a failed close or unlink one with a pid (everybody is refused until its
\* process dies).
NoLockIsOrphaned ==
    lock # NoLock /\ Lives(lock.by) /\ at[lock.by] \notin Owning => lock \in left

=============================================================================
