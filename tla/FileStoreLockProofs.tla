------------------------- MODULE FileStoreLockProofs -------------------------
(***************************************************************************)
(* What the lock file of FileStoreLock guarantees, for any number of       *)
(* mutations and polls.                                                    *)
(*                                                                         *)
(* For any number of writers, whatever dies and whatever fails: a lock of  *)
(* a living process is that of a writer at work, or one that a failing     *)
(* call left (LocksHaveOwners).  The lock of a writer at work has its pid  *)
(* from the moment the writer goes on (FilledInTurn).                      *)
(*                                                                         *)
(* One writer at a time and no lost mutation, as long as no more than one  *)
(* waiter can find a lock abandoned.  That is so with two writers,         *)
(* whatever dies, and with any number of writers when no process dies,     *)
(* until some pid could not be written.  With three writers and a crash it *)
(* is false: TLC's run LockReclaimed shows how.  The argument: a living    *)
(* writer at work is the one its lock names (Owns); a waiter about to      *)
(* reclaim still has a dead owner's lock in front of it (ReclaimsTheDead), *)
(* since it is the only living writer (OneReclaimer); so nobody takes a    *)
(* living writer's lock away, and what a writer read is what it replaces   *)
(* (SeenIsCurrent).                                                        *)
(***************************************************************************)
EXTENDS FileStoreLock, FiniteSetTheorems, TLAPS

FewWaiters ==
    \/ MaxCrashes = 0
    \/ \A u, v, w \in Writers : u = v \/ v = w \/ u = w

Began == \A w \in Writers : at[w] # "idle" => count[w] >= 1

FilledInTurn ==
    lock # NoLock =>
      /\ at[lock.by] = "fill" => ~lock.filled
      /\ at[lock.by] \in Owning \ {"fill"} => lock.filled

Owns ==
    \A w \in Writers : Lives(w) /\ at[w] \in Owning => lock # NoLock /\ lock.by = w

ReclaimsTheDead ==
    \A w \in Writers : Lives(w) /\ at[w] = "reclaim" => lock # NoLock /\ ~Lives(lock.by)

SeenIsCurrent ==
    \A w \in Writers : Lives(w) /\ at[w] = "write" => seen[w] = database

WrittenIsThere ==
    \A w \in Writers : Lives(w) /\ at[w] = "release" => <<w, count[w]>> \in database

NobodyDied == MaxCrashes = 0 => dead = {}

LocksAccounted == TypeOK /\ Began /\ FilledInTurn /\ NoLockIsOrphaned

Exclusive ==
    /\ Owns
    /\ ReclaimsTheDead
    /\ SeenIsCurrent
    /\ WrittenIsThere
    /\ answered \subseteq database

LockInv == LocksAccounted /\ NobodyDied /\ (PidsWritten => Exclusive)

-----------------------------------------------------------------------------
(* Every lock is accounted for, however many writers there are.            *)

LEMMA AccountedInitially == Init => LocksAccounted
<1> SUFFICES ASSUME Init PROVE LocksAccounted
  OBVIOUS
<1>1. TypeOK
  BY BoundsAreNatural DEF Init, TypeOK, Points
<1>2. Began /\ FilledInTurn /\ NoLockIsOrphaned
  BY DEF Init, Began, FilledInTurn, NoLockIsOrphaned
<1> QED
  BY <1>1, <1>2 DEF LocksAccounted

(* A step that leaves the lock alone and moves its writer between points   *)
(* at which it owns nothing, or between points at which it has filled its  *)
(* lock.                                                                   *)
LEMMA AccountedMoves ==
    ASSUME LocksAccounted, NEW w \in Writers, NEW point \in Points, GoTo(w, point),
           \/ at[w] \notin Owning /\ point \notin Owning
           \/ at[w] \in Owning \ {"fill"} /\ point \in Owning \ {"fill"},
           UNCHANGED <<lock, dead, left>>
    PROVE  FilledInTurn' /\ NoLockIsOrphaned'
<1> USE DEF LocksAccounted
<1>1. at'[w] = point /\ \A v \in Writers : v # w => at'[v] = at[v]
  BY DEF GoTo, TypeOK
<1> SUFFICES ASSUME lock # NoLock
             PROVE  FilledInTurn' /\ NoLockIsOrphaned'
  BY DEF FilledInTurn, NoLockIsOrphaned
<1>2. lock.by \in Writers
  BY DEF TypeOK, Locks
<1>3. CASE lock.by # w
  BY <1>1, <1>2, <1>3 DEF FilledInTurn, NoLockIsOrphaned, Lives
<1>4. CASE lock.by = w
  BY <1>1, <1>4 DEF FilledInTurn, NoLockIsOrphaned, Lives, Owning
<1> QED
  BY <1>3, <1>4

LEMMA AccountedOpen ==
    ASSUME LocksAccounted, NEW w \in Writers, Open(w)
    PROVE  LocksAccounted'
<1> USE DEF LocksAccounted
<1>1. at[w] = "open" /\ at \in [Writers -> Points] /\ count[w] >= 1
  BY DEF Open, Began, TypeOK
<1>2. CASE lock' = [by |-> w, filled |-> FALSE] /\ GoTo(w, "fill")
  <2>1. at' = [at EXCEPT ![w] = "fill"] /\ at'[w] = "fill"
    BY <1>1, <1>2 DEF GoTo
  <2>2. TypeOK'
    BY <1>2, <2>1 DEF Open, TypeOK, Points, Locks
  <2>3. Began'
    BY <1>1, <2>1 DEF Open, Began
  <2>4. FilledInTurn' /\ NoLockIsOrphaned'
    BY <1>2, <2>1 DEF FilledInTurn, NoLockIsOrphaned, Owning
  <2> QED
    BY <2>2, <2>3, <2>4
<1>3. CASE GoTo(w, "inspect") /\ UNCHANGED lock
  BY <1>1, <1>3, AccountedMoves DEF Open, TypeOK, Began, GoTo, Points, Owning
<1>4. CASE GoTo(w, "idle") /\ UNCHANGED lock
  BY <1>1, <1>4, AccountedMoves DEF Open, TypeOK, Began, GoTo, Points, Owning
<1> QED
  BY <1>2, <1>3, <1>4 DEF Open

LEMMA AccountedFill ==
    ASSUME LocksAccounted, NEW w \in Writers, Fill(w)
    PROVE  LocksAccounted'
<1> USE DEF LocksAccounted
<1>1. PICK written \in BOOLEAN, closed \in BOOLEAN :
        /\ lock' = IF written /\ lock # NoLock /\ lock.by = w
                   THEN [lock EXCEPT !.filled = TRUE] ELSE lock
        /\ left' = IF written /\ closed THEN left
                   ELSE left \cup {[by |-> w, filled |-> written]}
        /\ GoTo(w, IF written /\ closed THEN "read" ELSE "idle")
  BY DEF Fill
<1>2. /\ at[w] = "fill" /\ at \in [Writers -> Points] /\ count[w] >= 1
      /\ UNCHANGED <<database, answered, seen, count, polls, dead>>
  BY DEF Fill, Began, TypeOK
<1>3. /\ at'[w] = (IF written /\ closed THEN "read" ELSE "idle")
      /\ \A v \in Writers : v # w => at'[v] = at[v]
      /\ at' \in [Writers -> Points]
  BY <1>1, <1>2 DEF GoTo, Points
<1>6. left' \subseteq Locks
  <2>1. [by |-> w, filled |-> written] \in Locks
    BY DEF Locks
  <2> QED
    BY <1>1, <2>1 DEF TypeOK
<1>4. CASE lock # NoLock /\ lock.by = w
  <2>1. lock = [by |-> w, filled |-> FALSE]
    BY <1>2, <1>4 DEF TypeOK, Locks, FilledInTurn
  <2>2. lock' = [by |-> w, filled |-> written]
    BY <1>1, <1>4, <2>1
  <2>3. lock' \in Locks /\ lock'.by = w /\ lock'.filled = written
    BY <2>2 DEF Locks
  <2>4. TypeOK'
    BY <1>2, <1>3, <1>6, <2>3 DEF TypeOK
  <2>5. Began'
    BY <1>2, <1>3 DEF Began
  <2>6. (written /\ closed) \/ lock' \in left'
    BY <1>1, <2>2
  <2>7. FilledInTurn'
    BY <1>3, <2>3 DEF FilledInTurn, Owning
  <2>8. NoLockIsOrphaned'
    BY <1>3, <2>3, <2>6 DEF NoLockIsOrphaned, Owning
  <2> QED
    BY <2>4, <2>5, <2>7, <2>8
<1>5. CASE ~(lock # NoLock /\ lock.by = w)
  <2>1. lock' = lock
    BY <1>1, <1>5
  <2>2. TypeOK'
    BY <1>2, <1>3, <1>6, <2>1 DEF TypeOK
  <2>3. Began'
    BY <1>2, <1>3 DEF Began
  <2>4. FilledInTurn' /\ NoLockIsOrphaned'
    BY <1>1, <1>2, <1>3, <1>5, <2>1 DEF FilledInTurn, NoLockIsOrphaned, Lives, TypeOK, Locks
  <2> QED
    BY <2>2, <2>3, <2>4
<1> QED
  BY <1>4, <1>5

LEMMA AccountedRelease ==
    ASSUME LocksAccounted, NEW w \in Writers, Release(w)
    PROVE  LocksAccounted'
<1> USE DEF LocksAccounted
<1>1. /\ at[w] \in {"release", "abort"} /\ at \in [Writers -> Points] /\ count[w] >= 1
      /\ at' = [at EXCEPT ![w] = "idle"]
      /\ UNCHANGED <<database, seen, count, polls, dead>>
  BY DEF Release, Answer, GoTo, Began, TypeOK
<1>2. at'[w] = "idle" /\ \A v \in Writers : v # w => at'[v] = at[v]
  BY <1>1
<1>3. <<w, count[w]>> \in Mutations
  BY <1>1 DEF TypeOK, Mutations
<1>4. answered' \subseteq Mutations
  BY <1>3 DEF Release, Answer, TypeOK
<1>5. Began'
  BY <1>1, <1>2 DEF Began
<1>6. CASE lock' = NoLock /\ UNCHANGED left
  BY <1>1, <1>4, <1>5, <1>6 DEF TypeOK, Points, FilledInTurn, NoLockIsOrphaned
<1>7. CASE left' = left \cup {[by |-> w, filled |-> TRUE]} /\ UNCHANGED lock
  <2>4. left' \subseteq Locks
    <3>1. [by |-> w, filled |-> TRUE] \in Locks
      BY DEF Locks
    <3> QED
      BY <1>7, <3>1 DEF TypeOK
  <2>1. TypeOK'
    BY <1>1, <1>4, <1>7, <2>4 DEF TypeOK, Points
  <2>2. lock # NoLock /\ lock.by = w => lock = [by |-> w, filled |-> TRUE]
    BY <1>1 DEF TypeOK, Locks, FilledInTurn, Owning
  <2>3. FilledInTurn' /\ NoLockIsOrphaned'
    BY <1>1, <1>2, <1>7, <2>2 DEF FilledInTurn, NoLockIsOrphaned, Lives, TypeOK, Locks, Owning
  <2> QED
    BY <1>5, <2>1, <2>3
<1> QED
  BY <1>6, <1>7 DEF Release

LEMMA AccountedStep ==
    ASSUME LocksAccounted, NEW w \in Writers, Step(w)
    PROVE  LocksAccounted'
<1> USE DEF LocksAccounted
<1>1. CASE Inspect(w)
  <2>1. /\ at[w] = "inspect" /\ at \in [Writers -> Points] /\ count[w] >= 1
        /\ UNCHANGED <<lock, database, answered, seen, count, dead, left>>
    BY <1>1 DEF Inspect, Began, TypeOK
  <2>2. polls' \in [Writers -> 0..MaxPolls]
    BY <1>1, BoundsAreNatural DEF Inspect, TypeOK
  <2>3. PICK point \in {"open", "idle", "reclaim"} : GoTo(w, point)
    BY <1>1 DEF Inspect
  <2>4. point \in Points /\ point \notin Owning /\ at[w] \notin Owning
    BY <2>1 DEF Points, Owning
  <2> QED
    BY <2>1, <2>2, <2>3, <2>4, AccountedMoves DEF TypeOK, Began, GoTo
<1>2. CASE Reclaim(w)
  <2>1. /\ at[w] = "reclaim" /\ at \in [Writers -> Points] /\ count[w] >= 1
        /\ UNCHANGED <<database, answered, seen, count, polls, dead, left>>
    BY <1>2 DEF Reclaim, Began, TypeOK
  <2>2. CASE lock' = NoLock /\ GoTo(w, "open")
    BY <2>1, <2>2 DEF TypeOK, Began, FilledInTurn, NoLockIsOrphaned, GoTo, Points
  <2>3. CASE GoTo(w, "idle") /\ UNCHANGED lock
    BY <2>1, <2>3, AccountedMoves DEF TypeOK, Began, GoTo, Points, Owning
  <2> QED
    BY <1>2, <2>2, <2>3 DEF Reclaim
<1>3. CASE Read(w)
  <2>1. /\ at[w] = "read" /\ at \in [Writers -> Points] /\ GoTo(w, "write")
        /\ UNCHANGED <<lock, database, answered, count, polls, dead, left>>
        /\ seen' \in [Writers -> SUBSET Mutations]
    BY <1>3 DEF Read, TypeOK
  <2> QED
    BY <2>1, AccountedMoves DEF TypeOK, Began, GoTo, Points, Owning
<1>4. CASE Write(w)
  <2>1. /\ at[w] = "write" /\ at \in [Writers -> Points] /\ count[w] >= 1
        /\ UNCHANGED <<lock, answered, seen, count, polls, dead, left>>
    BY <1>4 DEF Write, Began, TypeOK
  <2>2. PICK point \in {"release", "abort"} : GoTo(w, point)
    BY <1>4 DEF Write
  <2>3. database' \subseteq Mutations
    BY <1>4, <2>1 DEF Write, TypeOK, Mutations
  <2>4. point \in Points /\ point \in Owning \ {"fill"} /\ at[w] \in Owning \ {"fill"}
    BY <2>1 DEF Points, Owning
  <2> QED
    BY <2>1, <2>2, <2>3, <2>4, AccountedMoves DEF TypeOK, Began, GoTo
<1> QED
  BY <1>1, <1>2, <1>3, <1>4, AccountedOpen, AccountedFill, AccountedRelease DEF Step

LEMMA AccountedNext == LocksAccounted /\ [Next]_vars => LocksAccounted'
<1> SUFFICES ASSUME LocksAccounted, [Next]_vars PROVE LocksAccounted'
  OBVIOUS
<1> USE DEF LocksAccounted
<1>1. CASE UNCHANGED vars
  BY <1>1 DEF vars, TypeOK, Began, FilledInTurn, NoLockIsOrphaned, Lives
<1>2. ASSUME NEW w \in Writers, Mutate(w) PROVE LocksAccounted'
  <2>1. /\ at[w] = "idle" /\ count[w] \in 0..MaxMutations /\ count[w] < MaxMutations
        /\ count' = [count EXCEPT ![w] = count[w] + 1]
        /\ at \in [Writers -> Points] /\ GoTo(w, "open")
        /\ UNCHANGED <<lock, database, answered, seen, dead, left>>
    BY <1>2 DEF Mutate, TypeOK
  <2>2. count' \in [Writers -> 0..MaxMutations] /\ polls' \in [Writers -> 0..MaxPolls]
    BY <1>2, <2>1, BoundsAreNatural DEF Mutate, TypeOK
  <2>3. FilledInTurn' /\ NoLockIsOrphaned'
    BY <2>1, AccountedMoves DEF Points, Owning
  <2>4. Began'
    BY <2>1 DEF Began, GoTo, TypeOK
  <2>5. TypeOK'
    BY <2>1, <2>2 DEF TypeOK, GoTo, Points
  <2> QED
    BY <2>3, <2>4, <2>5
<1>3. ASSUME NEW process \in Processes, Crash(process) PROVE LocksAccounted'
  BY <1>3 DEF Crash, TypeOK, Began, FilledInTurn, NoLockIsOrphaned, Lives
<1> QED
  BY <1>1, <1>2, <1>3, AccountedStep DEF Next

-----------------------------------------------------------------------------
(* Whoever is about to reclaim is the only living writer.                  *)
LEMMA OneReclaimer ==
    ASSUME FewWaiters, TypeOK, NobodyDied, ReclaimsTheDead,
           NEW v \in Writers, Lives(v), at[v] = "reclaim",
           NEW w \in Writers, Lives(w)
    PROVE  w = v
<1>1. lock # NoLock /\ lock.by \in Writers /\ ~Lives(lock.by)
  BY DEF ReclaimsTheDead, TypeOK, Locks
<1>2. dead # {}
  BY <1>1 DEF Lives
<1>3. \A x, y, z \in Writers : x = y \/ y = z \/ x = z
  BY <1>2 DEF FewWaiters, NobodyDied
<1>4. lock.by # v /\ lock.by # w
  BY <1>1
<1> QED
  BY <1>1, <1>3, <1>4

(* As long as every pid is written, a lock found abandoned is a dead one's. *)
LEMMA AbandonedMeansDead ==
    ASSUME LocksAccounted, PidsWritten, lock # NoLock, IsAbandoned(lock)
    PROVE  ~Lives(lock.by)
<1> SUFFICES ASSUME Lives(lock.by) PROVE FALSE
  OBVIOUS
<1>1. ~lock.filled /\ at[lock.by] # "fill"
  BY DEF IsAbandoned
<1>2. at[lock.by] \notin Owning
  BY <1>1 DEF LocksAccounted, FilledInTurn
<1> QED
  BY <1>1, <1>2 DEF LocksAccounted, NoLockIsOrphaned, PidsWritten

(* A writer that owns nothing before or after changes nothing anybody      *)
(* relies on.                                                              *)
LEMMA WaiterMoves ==
    ASSUME TypeOK, Exclusive, NEW w \in Writers, at[w] \notin Owning,
           NEW point \in Points \ Owning, GoTo(w, point),
           point = "reclaim" => lock # NoLock /\ ~Lives(lock.by),
           \A v \in Writers \ {w} : count'[v] = count[v],
           UNCHANGED <<lock, database, answered, seen, dead>>
    PROVE  Exclusive'
<1> USE DEF Exclusive
<1>1. at'[w] = point /\ \A v \in Writers : v # w => at'[v] = at[v]
  BY DEF GoTo, TypeOK
<1>2. \A v \in Writers : Lives(v)' = Lives(v)
  BY DEF Lives
<1>3. Owns'
  BY <1>1, <1>2 DEF Owns
<1>4. ReclaimsTheDead'
  BY <1>1, <1>2 DEF ReclaimsTheDead, TypeOK, Locks, Lives
<1>5. SeenIsCurrent' /\ WrittenIsThere'
  BY <1>1, <1>2 DEF SeenIsCurrent, WrittenIsThere, Owning
<1> QED
  BY <1>3, <1>4, <1>5

-----------------------------------------------------------------------------
(* One lemma for each step of an owner, and one for reclaiming.            *)

LEMMA OpenExcludes ==
    ASSUME TypeOK, Exclusive, NEW w \in Writers, Open(w),
           lock = NoLock, lock' = [by |-> w, filled |-> FALSE], GoTo(w, "fill")
    PROVE  Exclusive'
<1> USE DEF Exclusive
<1>1. /\ at'[w] = "fill" /\ \A v \in Writers : v # w => at'[v] = at[v]
      /\ UNCHANGED <<database, answered, seen, count, dead>>
  BY DEF Open, GoTo, TypeOK
<1>2. \A v \in Writers : Lives(v)' = Lives(v)
  BY <1>1 DEF Lives
<1>3. lock' # NoLock /\ lock'.by = w
  <2>1. lock' \in [by : Writers, filled : BOOLEAN]
    OBVIOUS
  <2> QED
    BY <2>1, NoLockIsNoRecord
<1>4. Owns' /\ ReclaimsTheDead'
  BY <1>1, <1>2, <1>3 DEF Owns, ReclaimsTheDead
<1>5. SeenIsCurrent' /\ WrittenIsThere'
  BY <1>1, <1>2 DEF SeenIsCurrent, WrittenIsThere
<1> QED
  BY <1>1, <1>4, <1>5

LEMMA FillExcludes ==
    ASSUME TypeOK, Exclusive, NEW w \in Writers, Lives(w), Fill(w), PidsWritten'
    PROVE  Exclusive'
<1> USE DEF Exclusive
<1>1. PICK written \in BOOLEAN, closed \in BOOLEAN :
        /\ lock' = IF written /\ lock # NoLock /\ lock.by = w
                   THEN [lock EXCEPT !.filled = TRUE] ELSE lock
        /\ left' = IF written /\ closed THEN left
                   ELSE left \cup {[by |-> w, filled |-> written]}
        /\ GoTo(w, IF written /\ closed THEN "read" ELSE "idle")
  BY DEF Fill
<1>2. /\ at[w] = "fill" /\ lock # NoLock /\ lock.by = w /\ lock \in Locks
      /\ at'[w] \in {"read", "idle"} /\ \A v \in Writers : v # w => at'[v] = at[v]
      /\ UNCHANGED <<database, answered, seen, count, dead>>
  BY <1>1 DEF Fill, GoTo, TypeOK, Owns, Owning
<1>3. written
  <2>1. ~written => [by |-> w, filled |-> FALSE] \in left'
    BY <1>1
  <2> QED
    BY <2>1 DEF PidsWritten
<1>4. lock' # NoLock /\ lock'.by = w
  <2>1. lock' = [by |-> w, filled |-> TRUE]
    BY <1>1, <1>2, <1>3 DEF Locks
  <2>2. lock' \in [by : Writers, filled : BOOLEAN]
    BY <2>1
  <2> QED
    BY <2>1, <2>2, NoLockIsNoRecord
<1>5. \A v \in Writers : Lives(v)' = Lives(v)
  BY <1>2 DEF Lives
<1>6. Owns'
  BY <1>2, <1>4, <1>5 DEF Owns, Owning
<1>7. ReclaimsTheDead'
  BY <1>2, <1>5 DEF ReclaimsTheDead
<1>8. SeenIsCurrent' /\ WrittenIsThere'
  BY <1>2, <1>5 DEF SeenIsCurrent, WrittenIsThere
<1> QED
  BY <1>2, <1>6, <1>7, <1>8

LEMMA ReclaimExcludes ==
    ASSUME FewWaiters, TypeOK, NobodyDied, Exclusive,
           NEW w \in Writers, Lives(w), Reclaim(w)
    PROVE  Exclusive'
<1> USE DEF Exclusive
<1>1. PICK point \in {"open", "idle"} : GoTo(w, point)
  BY DEF Reclaim
<1>2. /\ at[w] = "reclaim" /\ at'[w] = point
      /\ \A v \in Writers : v # w => at'[v] = at[v]
      /\ UNCHANGED <<database, answered, seen, count, dead>>
  BY <1>1 DEF Reclaim, GoTo, TypeOK
<1>3. \A v \in Writers : Lives(v)' => v = w
  BY <1>2, OneReclaimer DEF Lives
<1> QED
  BY <1>2, <1>3 DEF Owns, Owning, ReclaimsTheDead, SeenIsCurrent, WrittenIsThere

LEMMA ReadExcludes ==
    ASSUME TypeOK, Exclusive, NEW w \in Writers, Read(w)
    PROVE  Exclusive'
<1> USE DEF Exclusive
<1>1. /\ at[w] = "read" /\ at'[w] = "write" /\ seen'[w] = database
      /\ \A v \in Writers : v # w => at'[v] = at[v] /\ seen'[v] = seen[v]
      /\ UNCHANGED <<lock, database, answered, count, dead>>
  BY DEF Read, GoTo, TypeOK
<1>2. \A v \in Writers : Lives(v)' = Lives(v)
  BY <1>1 DEF Lives
<1>3. Owns' /\ ReclaimsTheDead'
  BY <1>1, <1>2 DEF Owns, Owning, ReclaimsTheDead, Lives
<1>4. SeenIsCurrent' /\ WrittenIsThere'
  BY <1>1, <1>2 DEF SeenIsCurrent, WrittenIsThere
<1> QED
  BY <1>1, <1>3, <1>4

LEMMA WriteExcludes ==
    ASSUME TypeOK, Exclusive, NEW w \in Writers, Lives(w), Write(w)
    PROVE  Exclusive'
<1> USE DEF Exclusive
<1>1. PICK point \in {"release", "abort"} :
        /\ GoTo(w, point)
        /\ point = "release" => database' = database \cup {<<w, count[w]>>}
        /\ point = "abort" => database' = database
  BY DEF Write, SeenIsCurrent
<1>2. /\ at[w] = "write" /\ at'[w] = point
      /\ \A v \in Writers : v # w => at'[v] = at[v]
      /\ UNCHANGED <<lock, answered, seen, count, dead>>
  BY <1>1 DEF Write, GoTo, TypeOK
<1>3. \A v \in Writers : Lives(v)' = Lives(v)
  BY <1>2 DEF Lives
<1>4. database \subseteq database'
  BY <1>1
<1>5. Owns' /\ ReclaimsTheDead'
  BY <1>2, <1>3 DEF Owns, Owning, ReclaimsTheDead, Lives
<1>6. SeenIsCurrent'
  <2>1. \A v \in Writers : Lives(v) /\ at[v] = "write" => v = w
    BY <1>2 DEF Owns, Owning
  <2> QED
    BY <1>2, <1>3, <2>1 DEF SeenIsCurrent
<1>7. WrittenIsThere'
  BY <1>1, <1>2, <1>3, <1>4 DEF WrittenIsThere
<1> QED
  BY <1>2, <1>4, <1>5, <1>6, <1>7

LEMMA ReleaseExcludes ==
    ASSUME FewWaiters, TypeOK, NobodyDied, Exclusive,
           NEW w \in Writers, Lives(w), Release(w)
    PROVE  Exclusive'
<1> USE DEF Exclusive
<1>1. /\ at[w] \in {"release", "abort"} /\ at'[w] = "idle"
      /\ \A v \in Writers : v # w => at'[v] = at[v]
      /\ UNCHANGED <<database, seen, count, dead>>
  BY DEF Release, Answer, GoTo, TypeOK
<1>2. \A v \in Writers : Lives(v)' = Lives(v)
  BY <1>1 DEF Lives
<1>3. answered' \subseteq database
  BY DEF Release, Answer, WrittenIsThere
<1>4. lock.by = w
  BY <1>1 DEF Owns, Owning
<1>5. \A v \in Writers : Lives(v) /\ at[v] \in Owning => v = w
  BY <1>4 DEF Owns
<1>6. \A v \in Writers : Lives(v) => at[v] # "reclaim"
  BY <1>1, OneReclaimer
<1>7. Owns' /\ ReclaimsTheDead'
  BY <1>1, <1>2, <1>5, <1>6 DEF Owns, Owning, ReclaimsTheDead
<1>8. SeenIsCurrent' /\ WrittenIsThere'
  BY <1>1, <1>2 DEF SeenIsCurrent, WrittenIsThere
<1> QED
  BY <1>1, <1>3, <1>7, <1>8

LEMMA StepExcludes ==
    ASSUME FewWaiters, LocksAccounted, NobodyDied, PidsWritten, PidsWritten', Exclusive,
           NEW w \in Writers, Step(w)
    PROVE  Exclusive'
<1>1. Lives(w) /\ TypeOK
  BY DEF Step, LocksAccounted
<1>2. CASE Open(w)
  <2>1. /\ at[w] \notin Owning
        /\ UNCHANGED <<database, answered, seen, count, dead>>
    BY <1>2 DEF Open, Owning
  <2>2. CASE lock = NoLock /\ lock' = [by |-> w, filled |-> FALSE] /\ GoTo(w, "fill")
    BY <1>1, <1>2, <2>2, OpenExcludes
  <2>3. CASE GoTo(w, "inspect") /\ UNCHANGED lock
    BY <1>1, <2>1, <2>3, WaiterMoves DEF Points, Owning
  <2>4. CASE GoTo(w, "idle") /\ UNCHANGED lock
    BY <1>1, <2>1, <2>4, WaiterMoves DEF Points, Owning
  <2> QED
    BY <1>2, <2>2, <2>3, <2>4 DEF Open
<1>3. CASE Inspect(w)
  <2>1. /\ at[w] \notin Owning
        /\ UNCHANGED <<lock, database, answered, seen, count, dead>>
    BY <1>3 DEF Inspect, Owning
  <2>2. PICK point \in {"open", "idle", "reclaim"} :
          GoTo(w, point) /\ (point = "reclaim" => lock # NoLock /\ ~Lives(lock.by))
    BY <1>3, AbandonedMeansDead DEF Inspect
  <2>3. point \in Points \ Owning
    BY DEF Points, Owning
  <2> QED
    BY <1>1, <2>1, <2>2, <2>3, WaiterMoves
<1> QED
  BY <1>1, <1>2, <1>3, FillExcludes, ReclaimExcludes, ReadExcludes, WriteExcludes, ReleaseExcludes
     DEF Step

-----------------------------------------------------------------------------
(* The steps together, and what follows.                                   *)

LEMMA NextExcludes ==
    ASSUME FewWaiters, LockInv, [Next]_vars
    PROVE  LockInv'
<1> USE DEF LockInv
<1>1. LocksAccounted'
  BY AccountedNext
<1>2. NobodyDied'
  <2>1. ASSUME NEW process \in Processes, Crash(process) PROVE NobodyDied'
    <3>1. dead' = dead \cup {process} /\ Cardinality(dead) < MaxCrashes
      BY <2>1 DEF Crash
    <3> QED
      BY <3>1, FS_EmptySet DEF NobodyDied
  <2>2. (\A process \in Processes : ~Crash(process)) => UNCHANGED dead
    BY DEF Next, Step, Mutate, Open, Fill, Inspect, Reclaim, Read, Write, Release, vars
  <2> QED
    BY <2>1, <2>2 DEF NobodyDied
<1> SUFFICES ASSUME PidsWritten' PROVE Exclusive'
  BY <1>1, <1>2
<1>3. left \subseteq left'
  BY DEF Next, Step, Mutate, Open, Fill, Inspect, Reclaim, Read, Write, Release, Crash, vars
<1>4. PidsWritten /\ Exclusive
  BY <1>3 DEF PidsWritten
<1>5. CASE UNCHANGED vars
  BY <1>4, <1>5 DEF vars, Exclusive, Owns, ReclaimsTheDead, SeenIsCurrent, WrittenIsThere, Lives
<1>6. ASSUME NEW w \in Writers, Mutate(w) PROVE Exclusive'
  <2>1. /\ at[w] \notin Owning /\ GoTo(w, "open") /\ TypeOK
        /\ UNCHANGED <<lock, database, answered, seen, dead>>
        /\ \A v \in Writers \ {w} : count'[v] = count[v]
    BY <1>6 DEF Mutate, Owning, LocksAccounted, TypeOK
  <2> QED
    BY <1>4, <2>1, WaiterMoves DEF Points, Owning
<1>7. ASSUME NEW process \in Processes, Crash(process) PROVE Exclusive'
  <2>1. /\ dead' = dead \cup {process}
        /\ UNCHANGED <<lock, database, answered, at, seen, count>>
    BY <1>7 DEF Crash
  <2> QED
    BY <1>4, <2>1 DEF Exclusive, Owns, ReclaimsTheDead, SeenIsCurrent, WrittenIsThere, Lives
<1> QED
  BY <1>4, <1>5, <1>6, <1>7, StepExcludes DEF Next

(* A lock whose owner lives has an owner at work, or was left by a call    *)
(* that failed: for any number of writers and crashes.                     *)
THEOREM LocksHaveOwners == Spec => []NoLockIsOrphaned
<1>1. LocksAccounted => NoLockIsOrphaned
  BY DEF LocksAccounted
<1> QED
  BY <1>1, AccountedInitially, AccountedNext, PTL DEF Spec

(* Every reachable state of the lock protocol satisfies the invariant.     *)
THEOREM LockInvariant ==
    ASSUME FewWaiters
    PROVE  Spec => []LockInv
<1>1. Init => LockInv
  <2> SUFFICES ASSUME Init PROVE NobodyDied /\ Exclusive
    BY AccountedInitially DEF LockInv
  <2> QED
    BY DEF Init, NobodyDied, Exclusive, Owns, Owning, ReclaimsTheDead, SeenIsCurrent, WrittenIsThere
<1>2. LockInv /\ [Next]_vars => LockInv'
  BY NextExcludes
<1> QED
  BY <1>1, <1>2, PTL DEF Spec

(* The lock excludes: as long as every pid is written, at most one living  *)
(* writer is between acquiring the lock and releasing it, and the lock     *)
(* file is its own.                                                        *)
THEOREM WritersExclude ==
    ASSUME FewWaiters
    PROVE  Spec => []OneWriterAtATime
<1>1. LockInv => OneWriterAtATime
  BY DEF LockInv, Exclusive, Owns, OneWriterAtATime
<1> QED
  BY <1>1, LockInvariant, PTL

(* A mutation reported as written stays in the data file, as long as every *)
(* pid is written.                                                         *)
THEOREM WrittenMutationsStay ==
    ASSUME FewWaiters
    PROVE  Spec => []NoUpdateIsLost
<1>1. LockInv => NoUpdateIsLost
  BY DEF LockInv, Exclusive, NoUpdateIsLost
<1> QED
  BY <1>1, LockInvariant, PTL

=============================================================================
