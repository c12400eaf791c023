-------------------------- MODULE MemoryQueueProofs --------------------------
(***************************************************************************)
(* Proofs about MemoryQueue for every number of jobs, attempts, retained   *)
(* records and identities: no accepted job is lost, no wakeup is lost, the *)
(* lookups are safe and only finished jobs are forgotten.                  *)
(***************************************************************************)
EXTENDS MemoryQueue, FiniteSetTheorems, TLAPS

-----------------------------------------------------------------------------
(* Sequences without repetition and their ranges.                          *)

\* Appending a new element adds it to the range and keeps the sequence free
\* of repetition (Enqueue, RetryFires, Requeue).
LEMMA AppendRange ==
  ASSUME NEW S, NEW s \in Seq(S), NEW x \in S
  PROVE  /\ Append(s, x) \in Seq(S)
         /\ Range(Append(s, x)) = Range(s) \cup {x}
         /\ IsInjective(s) /\ x \notin Range(s) => IsInjective(Append(s, x))
<1> DEFINE t == Append(s, x)
<1>1. t \in Seq(S) /\ DOMAIN t = 1..(Len(s) + 1) /\ DOMAIN s = 1..Len(s) /\ Len(s) \in Nat
  OBVIOUS
<1>2. \A i \in 1..Len(s) : t[i] = s[i]
  OBVIOUS
<1>3. t[Len(s) + 1] = x
  OBVIOUS
<1>4. \A i \in DOMAIN t : i \in 1..Len(s) \/ i = Len(s) + 1
  BY <1>1
<1> HIDE DEF t
<1>5. Range(t) = Range(s) \cup {x}
  <2>1. Range(t) \subseteq Range(s) \cup {x}
    BY <1>1, <1>2, <1>3, <1>4 DEF Range
  <2>2. Range(s) \subseteq Range(t)
    BY <1>1, <1>2 DEF Range
  <2>3. x \in Range(t)
    BY <1>1, <1>3 DEF Range
  <2> QED
    BY <2>1, <2>2, <2>3
<1>6. ASSUME IsInjective(s), x \notin Range(s) PROVE IsInjective(t)
  <2> SUFFICES ASSUME NEW i \in DOMAIN t, NEW j \in DOMAIN t, t[i] = t[j] PROVE i = j
    BY DEF IsInjective
  <2>1. \A k \in 1..Len(s) : s[k] # x
    BY <1>1, <1>6 DEF Range
  <2>2. \A k, l \in 1..Len(s) : s[k] = s[l] => k = l
    BY <1>1, <1>6 DEF IsInjective
  <2> QED
    BY <1>1, <1>2, <1>3, <1>4, <2>1, <2>2
<1> QED
  BY <1>1, <1>5, <1>6 DEF t

\* Taking the head off removes it from the range (Deliver).
LEMMA TailRange ==
  ASSUME NEW S, NEW s \in Seq(S), s # <<>>, IsInjective(s)
  PROVE  /\ Head(s) \in S /\ Head(s) \in Range(s) /\ Tail(s) \in Seq(S)
         /\ Range(Tail(s)) = Range(s) \ {Head(s)}
         /\ IsInjective(Tail(s))
<1> DEFINE t == Tail(s)
<1>1. /\ t \in Seq(S) /\ DOMAIN t = 1..(Len(s) - 1) /\ DOMAIN s = 1..Len(s)
      /\ Len(s) \in Nat /\ Len(s) > 0 /\ Head(s) = s[1] /\ Head(s) \in S
  OBVIOUS
<1>2. \A i \in 1..(Len(s) - 1) : t[i] = s[i + 1]
  OBVIOUS
<1>3. \A i, j \in 1..Len(s) : s[i] = s[j] => i = j
  BY <1>1 DEF IsInjective
<1> HIDE DEF t
<1>4. Range(t) \subseteq Range(s) \ {Head(s)}
  <2> SUFFICES ASSUME NEW i \in DOMAIN t PROVE t[i] \in Range(s) /\ t[i] # Head(s)
    BY DEF Range
  <2>1. t[i] = s[i + 1] /\ i + 1 \in 1..Len(s) /\ i + 1 # 1 /\ 1 \in 1..Len(s)
    BY <1>1, <1>2
  <2> QED
    BY <2>1, <1>1, <1>3 DEF Range
<1>5. Range(s) \ {Head(s)} \subseteq Range(t)
  <2> SUFFICES ASSUME NEW i \in DOMAIN s, s[i] # Head(s) PROVE s[i] \in Range(t)
    BY DEF Range
  <2>1. i # 1 /\ i - 1 \in 1..(Len(s) - 1) /\ (i - 1) + 1 = i
    BY <1>1
  <2>2. t[i - 1] = s[i]
    BY <2>1, <1>2
  <2> QED
    BY <2>1, <2>2, <1>1 DEF Range
<1>6. IsInjective(t)
  <2> SUFFICES ASSUME NEW i \in DOMAIN t, NEW j \in DOMAIN t, t[i] = t[j] PROVE i = j
    BY DEF IsInjective
  <2>1. t[i] = s[i + 1] /\ t[j] = s[j + 1] /\ i + 1 \in 1..Len(s) /\ j + 1 \in 1..Len(s)
    BY <1>1, <1>2
  <2>2. i + 1 = j + 1
    BY <2>1, <1>3
  <2> QED
    BY <2>2, <1>1
<1>7. Head(s) \in Range(s)
  BY <1>1 DEF Range
<1> QED
  BY <1>1, <1>4, <1>5, <1>6, <1>7 DEF t

\* Concatenating two sequences that share nothing (StopQueue, Without).
LEMMA ConcatRange ==
  ASSUME NEW S, NEW s \in Seq(S), NEW t \in Seq(S)
  PROVE  /\ s \o t \in Seq(S)
         /\ Range(s \o t) = Range(s) \cup Range(t)
         /\ IsInjective(s) /\ IsInjective(t) /\ Range(s) \cap Range(t) = {} => IsInjective(s \o t)
<1> DEFINE u == s \o t
<1>1. /\ u \in Seq(S) /\ DOMAIN u = 1..(Len(s) + Len(t))
      /\ DOMAIN s = 1..Len(s) /\ DOMAIN t = 1..Len(t) /\ Len(s) \in Nat /\ Len(t) \in Nat
  OBVIOUS
<1>2. \A i \in 1..Len(s) : u[i] = s[i]
  OBVIOUS
<1>3. \A i \in 1..Len(t) : u[Len(s) + i] = t[i]
  OBVIOUS
<1>4. \A i \in DOMAIN u : i \in 1..Len(s) \/ (i - Len(s) \in 1..Len(t) /\ Len(s) + (i - Len(s)) = i)
  BY <1>1
<1>5. \A i \in 1..Len(s) : i \in DOMAIN u
  BY <1>1
<1>6. \A i \in 1..Len(t) : Len(s) + i \in DOMAIN u
  BY <1>1
<1>7. \A i \in DOMAIN u : \/ i \in 1..Len(s) /\ u[i] = s[i]
                          \/ i - Len(s) \in 1..Len(t) /\ u[i] = t[i - Len(s)]
  BY <1>2, <1>3, <1>4
<1> HIDE DEF u
<1>8. Range(u) = Range(s) \cup Range(t)
  <2>1. Range(u) \subseteq Range(s) \cup Range(t)
    BY <1>1, <1>7 DEF Range
  <2>2. Range(s) \subseteq Range(u)
    BY <1>1, <1>2, <1>5 DEF Range
  <2>3. Range(t) \subseteq Range(u)
    BY <1>1, <1>3, <1>6 DEF Range
  <2> QED
    BY <2>1, <2>2, <2>3
<1>9. ASSUME IsInjective(s), IsInjective(t), Range(s) \cap Range(t) = {} PROVE IsInjective(u)
  <2> SUFFICES ASSUME NEW i \in DOMAIN u, NEW j \in DOMAIN u, u[i] = u[j] PROVE i = j
    BY DEF IsInjective
  <2>1. \A k \in 1..Len(s) : \A l \in 1..Len(t) : s[k] # t[l]
    BY <1>1, <1>9 DEF Range
  <2>2. \A k, l \in 1..Len(s) : s[k] = s[l] => k = l
    BY <1>1, <1>9 DEF IsInjective
  <2>3. \A k, l \in 1..Len(t) : t[k] = t[l] => k = l
    BY <1>1, <1>9 DEF IsInjective
  <2>4. i \in Int /\ j \in Int
    BY <1>1
  <2>5. CASE i \in 1..Len(s) /\ u[i] = s[i]
    <3>1. j \in 1..Len(s) /\ u[j] = s[j]
      BY <1>7, <2>5, <2>1
    <3> QED
      BY <3>1, <2>5, <2>2
  <2>6. CASE i - Len(s) \in 1..Len(t) /\ u[i] = t[i - Len(s)]
    <3>1. j - Len(s) \in 1..Len(t) /\ u[j] = t[j - Len(s)]
      BY <1>7, <2>6, <2>1
    <3>2. i - Len(s) = j - Len(s)
      BY <3>1, <2>6, <2>3
    <3> QED
      BY <3>2, <2>4, <1>1
  <2> QED
    BY <2>5, <2>6, <1>7
<1> QED
  BY <1>1, <1>8, <1>9 DEF u

\* Taking an element out (RetryFires).
LEMMA WithoutRange ==
  ASSUME NEW S, NEW s \in Seq(S), IsInjective(s), NEW i \in DOMAIN s
  PROVE  /\ Without(s, i) \in Seq(S)
         /\ Range(Without(s, i)) = Range(s) \ {s[i]}
         /\ IsInjective(Without(s, i))
<1> DEFINE a == SubSeq(s, 1, i - 1)
           b == SubSeq(s, i + 1, Len(s))
<1>1. DOMAIN s = 1..Len(s) /\ Len(s) \in Nat /\ i \in 1..Len(s)
  OBVIOUS
<1>2. /\ a \in Seq(S) /\ DOMAIN a = 1..(i - 1)
      /\ \A k \in 1..(i - 1) : a[k] = s[k]
  BY <1>1
<1>3. /\ b \in Seq(S) /\ DOMAIN b = 1..(Len(s) - i)
      /\ \A k \in 1..(Len(s) - i) : b[k] = s[i + k]
  BY <1>1
<1>4. \A k, l \in 1..Len(s) : s[k] = s[l] => k = l
  BY <1>1 DEF IsInjective
<1>5. Without(s, i) = a \o b
  BY DEF Without
<1> HIDE DEF a, b
<1>6. \A k \in 1..(i - 1) : k \in 1..Len(s) /\ k # i
  BY <1>1
<1>7. \A k \in 1..(Len(s) - i) : i + k \in 1..Len(s) /\ i + k # i
  BY <1>1
<1>8. IsInjective(a)
  BY <1>2, <1>4, <1>6 DEF IsInjective
<1>9. IsInjective(b)
  <2> SUFFICES ASSUME NEW k \in DOMAIN b, NEW l \in DOMAIN b, b[k] = b[l] PROVE k = l
    BY DEF IsInjective
  <2>1. i + k = i + l
    BY <1>3, <1>4, <1>7
  <2> QED
    BY <2>1, <1>1, <1>3
<1>10. Range(a) \cap Range(b) = {}
  <2> SUFFICES ASSUME NEW k \in 1..(i - 1), NEW l \in 1..(Len(s) - i) PROVE a[k] # b[l]
    BY <1>2, <1>3 DEF Range
  <2>1. k # i + l
    BY <1>1
  <2> QED
    BY <2>1, <1>2, <1>3, <1>4, <1>6, <1>7
<1>11. Range(a) \cup Range(b) = Range(s) \ {s[i]}
  <2>1. Range(a) \subseteq Range(s) \ {s[i]}
    BY <1>1, <1>2, <1>4, <1>6 DEF Range
  <2>2. Range(b) \subseteq Range(s) \ {s[i]}
    BY <1>1, <1>3, <1>4, <1>7 DEF Range
  <2>3. ASSUME NEW k \in DOMAIN s, s[k] # s[i] PROVE s[k] \in Range(a) \cup Range(b)
    <3>1. \/ k \in 1..(i - 1)
          \/ k - i \in 1..(Len(s) - i) /\ i + (k - i) = k
      BY <1>1, <2>3
    <3>2. CASE k \in 1..(i - 1)
      BY <3>2, <1>2 DEF Range
    <3>3. CASE k - i \in 1..(Len(s) - i) /\ i + (k - i) = k
      <4>1. b[k - i] = s[k]
        BY <3>3, <1>3
      <4> QED
        BY <4>1, <3>3, <1>3 DEF Range
    <3> QED
      BY <3>1, <3>2, <3>3
  <2>4. Range(s) \ {s[i]} \subseteq Range(a) \cup Range(b)
    BY <2>3 DEF Range
  <2> QED
    BY <2>1, <2>2, <2>4
<1> QED
  BY <1>2, <1>3, <1>5, <1>8, <1>9, <1>10, <1>11, ConcatRange

-----------------------------------------------------------------------------
(* The inductive invariant.                                                *)

\* What the properties need besides themselves: ids not handed out hold no
\* record, and a handler runs only inside the loop.
IdsAreFresh == \A id \in Ids : id > enqueued => jobs[id] = None
HandlerRunsInLoop == current # None => loop = "running"

QInv ==
    /\ QueueTypeOK
    /\ NoJobIsLost
    /\ NoLostWakeup
    /\ LookupsAreSafe
    /\ IdsAreFresh
    /\ HandlerRunsInLoop

\* The job whose handler runs is a held, running job.
LEMMA CurrentRuns ==
  ASSUME QInv, current # None
  PROVE  /\ current \in Ids /\ jobs[current] \in JobRecords /\ jobs[current] # None
         /\ jobs[current].state = "RUNNING"
         /\ current \notin Range(ready) /\ current \notin Range(waiting)
         /\ current \notin deadLetters
<1>1. current \in Ids /\ current \in {id \in Ids : InState(id, "RUNNING")}
  BY DEF QInv, NoJobIsLost, QueueTypeOK
<1>2. jobs[current] # None /\ jobs[current].state = "RUNNING"
  BY <1>1 DEF InState
<1>3. jobs[current] \in JobRecords
  BY <1>1, <1>2 DEF QInv, QueueTypeOK
<1>4. current \notin Range(ready) /\ current \notin Range(waiting)
  <2>1. current \notin {id \in Ids : InState(id, "QUEUED")}
    BY <1>2 DEF InState
  <2> QED
    BY <2>1 DEF QInv, NoJobIsLost
<1>5. current \notin deadLetters
  BY <1>2 DEF QInv, LookupsAreSafe, InState
<1> QED
  BY <1>1, <1>2, <1>3, <1>4, <1>5

\* What pruning does to the records: it takes finished ones out, with their
\* identities and their dead letters, and leaves the rest alone.
LEMMA PruneKeeps ==
  ASSUME NEW js \in [Ids -> JobRecords \cup {None}], NEW dead \in SUBSET Ids,
         jobIdByKey \in [Identities -> Ids \cup {None}],
         Prune(js, dead)
  PROVE  /\ jobs' \in [Ids -> JobRecords \cup {None}]
         /\ deadLetters' \in SUBSET Ids
         /\ jobIdByKey' \in [Identities -> Ids \cup {None}]
         /\ \A id \in Ids : \/ jobs'[id] = js[id] /\ (id \in deadLetters' <=> id \in dead)
                           \/ /\ jobs'[id] = None /\ id \notin deadLetters'
                              /\ js[id] # None /\ js[id].state \in FinalStates
         /\ \A k \in Identities :
              \/ /\ jobIdByKey'[k] = jobIdByKey[k]
                 /\ \A id \in Ids : jobs'[id] = js[id] \/ js[id].identity # k
                                                   \/ jobIdByKey[k] # id
              \/ /\ jobIdByKey'[k] = None
                 /\ \E id \in Ids : jobs'[id] = None /\ jobIdByKey[k] = id
<1> DEFINE gone == Forgotten(js)
<1>1. gone \subseteq Ids /\ \A id \in gone : js[id] # None /\ js[id].state \in FinalStates
  BY DEF Forgotten, FinishedIn, Held
<1>2. /\ jobs' = [id \in Ids |-> IF id \in gone THEN None ELSE js[id]]
      /\ deadLetters' = dead \ gone
      /\ jobIdByKey' = [k \in Identities |->
            IF \E id \in gone : js[id].identity = k /\ jobIdByKey[k] = id
            THEN None ELSE jobIdByKey[k]]
  BY DEF Prune
<1> HIDE DEF gone
<1>3. jobs' \in [Ids -> JobRecords \cup {None}] /\ deadLetters' \in SUBSET Ids
  BY <1>2
<1>4. jobIdByKey' \in [Identities -> Ids \cup {None}]
  BY <1>2
<1>5. ASSUME NEW id \in Ids
      PROVE \/ jobs'[id] = js[id] /\ (id \in deadLetters' <=> id \in dead)
            \/ /\ jobs'[id] = None /\ id \notin deadLetters'
               /\ js[id] # None /\ js[id].state \in FinalStates
  BY <1>1, <1>2
<1>6. ASSUME NEW k \in Identities
      PROVE \/ /\ jobIdByKey'[k] = jobIdByKey[k]
               /\ \A id \in Ids : jobs'[id] = js[id] \/ js[id].identity # k
                                                 \/ jobIdByKey[k] # id
            \/ /\ jobIdByKey'[k] = None
               /\ \E id \in Ids : jobs'[id] = None /\ jobIdByKey[k] = id
  <2>1. CASE \E id \in gone : js[id].identity = k /\ jobIdByKey[k] = id
    BY <2>1, <1>1, <1>2
  <2>2. CASE ~ \E id \in gone : js[id].identity = k /\ jobIdByKey[k] = id
    <3>1. jobIdByKey'[k] = jobIdByKey[k]
      BY <2>2, <1>2
    <3>2. \A id \in Ids : id \notin gone => jobs'[id] = js[id]
      BY <1>2
    <3> QED
      BY <3>1, <3>2, <2>2
  <2> QED
    BY <2>1, <2>2
<1> QED
  BY <1>3, <1>4, <1>5, <1>6

-----------------------------------------------------------------------------
(* Every step preserves the invariant.                                     *)

LEMMA InitInv == QueueInit => QInv
<1> SUFFICES ASSUME QueueInit PROVE QInv
  OBVIOUS
<1> USE DEF QueueInit
<1>1. QueueTypeOK
  <2>1. <<>> \in Seq(Ids) /\ 0 \in 0..MaxJobs
    BY MaxJobsIsNatural
  <2> QED
    BY <2>1 DEF QueueTypeOK
<1>2. Range(ready) = {} /\ Range(waiting) = {} /\ IsInjective(ready) /\ IsInjective(waiting)
  BY DEF Range, IsInjective
<1>3. NoJobIsLost
  BY <1>2 DEF NoJobIsLost, InState
<1>4. LookupsAreSafe
  BY DEF LookupsAreSafe, Held, InState
<1> QED
  BY <1>1, <1>3, <1>4 DEF QInv, NoLostWakeup, IdsAreFresh, HandlerRunsInLoop

LEMMA EnqueueInv ==
  ASSUME QInv, NEW identity \in Identities, NEW payload \in Payloads,
         Enqueue(identity, payload)
  PROVE  QInv'
<1> DEFINE new == enqueued + 1
           rec == [identity |-> identity, payload |-> payload, state |-> "QUEUED", attempt |-> 1]
<1> USE DEF Enqueue, Wake
<1>1. new \in Ids /\ jobs[new] = None /\ new # None
  BY MaxJobsIsNatural, NoneIsNoJob DEF QInv, QueueTypeOK, IdsAreFresh, Ids
<1>2. rec \in JobRecords /\ rec # None
  <2>1. 1 \in 1..MaxAttempts
    BY MaxAttemptsIsPositive
  <2>2. rec \in JobRecords
    BY <2>1 DEF JobRecords, States
  <2> QED
    BY <2>2, NoneIsNoRecord
<1>3. jobs' = [jobs EXCEPT ![new] = rec] /\ jobIdByKey' = [jobIdByKey EXCEPT ![identity] = new]
  OBVIOUS
<1>4. /\ jobs' \in [Ids -> JobRecords \cup {None}] /\ jobs'[new] = rec
      /\ \A id \in Ids : id # new => jobs'[id] = jobs[id]
  BY <1>1, <1>2, <1>3 DEF QInv, QueueTypeOK
<1>5. rec.identity = identity /\ rec.state = "QUEUED"
  OBVIOUS
<1> HIDE DEF rec
<1>6. new \notin Range(ready) /\ new \notin Range(waiting) /\ new \notin deadLetters
  <2>1. new \notin {id \in Ids : InState(id, "QUEUED")}
    BY <1>1 DEF InState
  <2> QED
    BY <2>1, <1>1 DEF QInv, NoJobIsLost, LookupsAreSafe, InState
<1>7. /\ ready' \in Seq(Ids) /\ Range(ready') = Range(ready) \cup {new} /\ IsInjective(ready')
      /\ waiting' = waiting
  BY <1>1, <1>6, AppendRange DEF QInv, QueueTypeOK, NoJobIsLost
<1>8. QueueTypeOK'
  BY <1>1, <1>3, <1>4, <1>7 DEF QInv, QueueTypeOK, Ids
<1>9. NoJobIsLost'
  <2>1. {id \in Ids : InState(id, "QUEUED")}' = {id \in Ids : InState(id, "QUEUED")} \cup {new}
    BY <1>1, <1>2, <1>4, <1>5 DEF InState
  <2>2. {id \in Ids : InState(id, "RUNNING")}' = {id \in Ids : InState(id, "RUNNING")}
    BY <1>1, <1>2, <1>4, <1>5 DEF InState
  <2> QED
    BY <2>1, <2>2, <1>6, <1>7 DEF QInv, NoJobIsLost
<1>10. NoLostWakeup'
  BY DEF NoLostWakeup
<1>11. LookupsAreSafe'
  <2>1. ASSUME NEW k \in Identities, jobIdByKey'[k] # None
        PROVE jobs'[jobIdByKey'[k]] # None /\ jobs'[jobIdByKey'[k]].identity = k
    <3>1. CASE k = identity
      BY <3>1, <1>2, <1>3, <1>4, <1>5 DEF QInv, QueueTypeOK
    <3>2. CASE k # identity
      <4>1. jobIdByKey'[k] = jobIdByKey[k] /\ jobIdByKey[k] \in Ids
        BY <3>2, <2>1, <1>3 DEF QInv, QueueTypeOK
      <4>2. jobs[jobIdByKey[k]] # None /\ jobs[jobIdByKey[k]].identity = k
        BY <4>1, <2>1 DEF QInv, LookupsAreSafe
      <4>3. jobIdByKey[k] # new
        BY <4>2, <1>1
      <4> QED
        BY <4>1, <4>2, <4>3, <1>4
    <3> QED
      BY <3>1, <3>2
  <2>2. ASSUME NEW id \in Ids, jobs'[id] # None PROVE jobIdByKey'[jobs'[id].identity] = id
    <3>1. CASE id = new
      BY <3>1, <1>3, <1>4, <1>5 DEF QInv, QueueTypeOK
    <3>2. CASE id # new
      <4>1. jobs'[id] = jobs[id] /\ jobs[id] \in JobRecords
        BY <3>2, <2>2, <1>4 DEF QInv, QueueTypeOK
      <4>2. jobs[id].identity \in Identities /\ jobIdByKey[jobs[id].identity] = id
        BY <4>1, <2>2 DEF QInv, LookupsAreSafe, Held, JobRecords
      <4>3. jobs[id].identity # identity
        BY <4>2, NoneIsNoJob DEF Ids
      <4> QED
        BY <4>1, <4>2, <4>3, <1>3 DEF QInv, QueueTypeOK
    <3> QED
      BY <3>1, <3>2
  <2>3. ASSUME NEW id \in deadLetters' PROVE InState(id, "FAILED")' /\ jobs'[id].attempt = MaxAttempts
    <3>1. id \in deadLetters /\ id \in Ids /\ id # new
      BY <2>3, <1>6 DEF QInv, QueueTypeOK
    <3> QED
      BY <3>1, <1>4 DEF QInv, LookupsAreSafe, InState
  <2> QED
    BY <2>1, <2>2, <2>3 DEF LookupsAreSafe, Held, InState
<1>12. IdsAreFresh'
  <2> SUFFICES ASSUME NEW id \in Ids, id > enqueued' PROVE jobs'[id] = None
    BY DEF IdsAreFresh
  <2>1. id \in Int /\ enqueued \in Int /\ enqueued' = enqueued + 1
    BY DEF QInv, QueueTypeOK, Ids
  <2>2. id > enqueued /\ id # new
    BY <2>1
  <2> QED
    BY <2>2, <1>4 DEF QInv, IdsAreFresh
<1>13. HandlerRunsInLoop'
  BY DEF QInv, HandlerRunsInLoop
<1> QED
  BY <1>8, <1>9, <1>10, <1>11, <1>12, <1>13 DEF QInv

\* The steps that move ids between the lists, or only the loop, and leave the
\* records alone.
LEMMA RecordsAloneInv ==
  ASSUME QInv, UNCHANGED <<jobs, jobIdByKey, deadLetters, current, enqueued>>,
         ready' \in Seq(Ids), waiting' \in Seq(Ids), IsInjective(ready'), IsInjective(waiting'),
         Range(ready') \cap Range(waiting') = {},
         Range(ready') \cup Range(waiting') = Range(ready) \cup Range(waiting),
         started' \in BOOLEAN, scheduled' \in BOOLEAN, loop' \in {"idle", "running", "ending"},
         NoLostWakeup', HandlerRunsInLoop'
  PROVE  QInv'
<1>1. QueueTypeOK'
  BY DEF QInv, QueueTypeOK
<1>2. NoJobIsLost'
  BY DEF QInv, NoJobIsLost, InState
<1>3. LookupsAreSafe' /\ IdsAreFresh'
  BY DEF QInv, LookupsAreSafe, IdsAreFresh, Held, InState
<1> QED
  BY <1>1, <1>2, <1>3 DEF QInv

LEMMA StartStopInv == QInv /\ (StartQueue \/ StopQueue) => QInv'
<1>1. ASSUME QInv, StartQueue PROVE QInv'
  <2>1. NoLostWakeup' /\ HandlerRunsInLoop'
    BY <1>1 DEF StartQueue, QInv, NoLostWakeup, HandlerRunsInLoop
  <2>2. scheduled' \in BOOLEAN
    BY <1>1 DEF StartQueue, QInv, QueueTypeOK
  <2> QED
    BY <1>1, <2>1, <2>2, RecordsAloneInv DEF StartQueue, QInv, QueueTypeOK, NoJobIsLost
<1>2. ASSUME QInv, StopQueue PROVE QInv'
  <2>1. NoLostWakeup' /\ HandlerRunsInLoop'
    BY <1>2 DEF StopQueue, QInv, NoLostWakeup, HandlerRunsInLoop
  <2>2. /\ ready' \in Seq(Ids) /\ IsInjective(ready')
        /\ Range(ready') = Range(ready) \cup Range(waiting)
    BY <1>2, ConcatRange DEF StopQueue, QInv, QueueTypeOK, NoJobIsLost
  <2>3. waiting' \in Seq(Ids) /\ Range(waiting') = {} /\ IsInjective(waiting')
    BY <1>2 DEF StopQueue, Range, IsInjective
  <2> QED
    BY <1>2, <2>1, <2>2, <2>3, RecordsAloneInv DEF StopQueue, QInv, QueueTypeOK
<1> QED
  BY <1>1, <1>2

LEMMA LoopInv == QInv /\ (LoopFires \/ LoopEnds \/ LoopCleared) => QInv'
<1> SUFFICES ASSUME QInv, LoopFires \/ LoopEnds \/ LoopCleared PROVE QInv'
  OBVIOUS
<1>1. CASE LoopFires
  <2>1. NoLostWakeup' /\ HandlerRunsInLoop' /\ scheduled' \in BOOLEAN
    BY <1>1 DEF LoopFires, NoLostWakeup, HandlerRunsInLoop
  <2> QED
    BY <1>1, <2>1, RecordsAloneInv DEF LoopFires, QInv, QueueTypeOK, NoJobIsLost
<1>2. CASE LoopEnds
  <2>1. NoLostWakeup' /\ HandlerRunsInLoop'
    BY <1>2 DEF LoopEnds, NoLostWakeup, HandlerRunsInLoop
  <2> QED
    BY <1>2, <2>1, RecordsAloneInv DEF LoopEnds, QInv, QueueTypeOK, NoJobIsLost
<1>3. CASE LoopCleared
  <2>1. loop # "running" /\ current = None
    BY <1>3 DEF LoopCleared, QInv, HandlerRunsInLoop
  <2>2. HandlerRunsInLoop'
    BY <1>3, <2>1 DEF LoopCleared, HandlerRunsInLoop
  <2>3. NoLostWakeup'
    BY <1>3, <2>1 DEF LoopCleared, QInv, NoLostWakeup
  <2> QED
    BY <1>3, <2>2, <2>3, RecordsAloneInv DEF LoopCleared, QInv, QueueTypeOK, NoJobIsLost
<1> QED
  BY <1>1, <1>2, <1>3

LEMMA RetryFiresInv == ASSUME QInv, NEW id \in Ids, RetryFires(id) PROVE QInv'
<1>1. PICK i \in DOMAIN waiting : waiting[i] = id /\ waiting' = Without(waiting, i)
  BY DEF RetryFires
<1>2. /\ waiting' \in Seq(Ids) /\ IsInjective(waiting')
      /\ Range(waiting') = Range(waiting) \ {id} /\ id \in Range(waiting)
  <2>1. waiting \in Seq(Ids) /\ IsInjective(waiting)
    BY DEF QInv, QueueTypeOK, NoJobIsLost
  <2>2. id \in Range(waiting)
    BY <1>1 DEF Range
  <2> QED
    BY <1>1, <2>1, <2>2, WithoutRange
<1>3. /\ ready' \in Seq(Ids) /\ IsInjective(ready') /\ Range(ready') = Range(ready) \cup {id}
  <2>1. id \notin Range(ready)
    BY <1>2 DEF QInv, NoJobIsLost
  <2> QED
    BY <2>1, AppendRange DEF RetryFires, QInv, QueueTypeOK, NoJobIsLost
<1>4. Range(ready) \cap Range(waiting) = {}
  BY DEF QInv, NoJobIsLost
<1>5. NoLostWakeup' /\ HandlerRunsInLoop'
  BY DEF RetryFires, NoLostWakeup, HandlerRunsInLoop
<1> QED
  BY <1>2, <1>3, <1>4, <1>5, RecordsAloneInv DEF RetryFires, QInv, QueueTypeOK

LEMMA DeliverInv == QInv /\ Deliver => QInv'
<1> SUFFICES ASSUME QInv, Deliver PROVE QInv'
  OBVIOUS
<1>0. PICK id : id = Head(ready)
  OBVIOUS
<1>1. /\ id \in Ids /\ id \in Range(ready) /\ ready' \in Seq(Ids)
      /\ Range(ready') = Range(ready) \ {id} /\ IsInjective(ready')
  BY <1>0, TailRange DEF Deliver, QInv, QueueTypeOK, NoJobIsLost
<1>2. jobs[id] # None /\ jobs[id].state = "QUEUED"
  BY <1>1 DEF QInv, NoJobIsLost, InState
<1>3. jobs' = [jobs EXCEPT ![id].state = "RUNNING"] /\ current' = id /\ current = None
  BY <1>0, <1>2 DEF Deliver
<1>4. jobs[id] \in JobRecords /\ jobs \in [Ids -> JobRecords \cup {None}]
  BY <1>1, <1>2 DEF QInv, QueueTypeOK
<1>5. /\ jobs'[id] = [jobs[id] EXCEPT !.state = "RUNNING"]
      /\ \A j \in Ids : j # id => jobs'[j] = jobs[j]
  BY <1>1, <1>3, <1>4
<1>6. /\ jobs'[id] \in JobRecords /\ jobs'[id] # None /\ jobs'[id].state = "RUNNING"
      /\ jobs'[id].identity = jobs[id].identity
  BY <1>4, <1>5, NoneIsNoRecord DEF JobRecords, States
<1>7. QueueTypeOK'
  <2>1. jobs' \in [Ids -> JobRecords \cup {None}]
    BY <1>3, <1>4, <1>5, <1>6
  <2> QED
    BY <2>1, <1>1, <1>3 DEF Deliver, QInv, QueueTypeOK
<1>8. NoJobIsLost'
  <2>1. {j \in Ids : InState(j, "QUEUED")}' = {j \in Ids : InState(j, "QUEUED")} \ {id}
    BY <1>1, <1>5, <1>6 DEF InState
  <2>2. {j \in Ids : InState(j, "RUNNING")} = {}
    BY <1>3 DEF QInv, NoJobIsLost
  <2>3. {j \in Ids : InState(j, "RUNNING")}' = {id}
    <3>1. \A j \in Ids : ~InState(j, "RUNNING")
      BY <2>2
    <3>2. \A j \in Ids : j # id => ~InState(j, "RUNNING")'
      BY <3>1, <1>5 DEF InState
    <3>3. InState(id, "RUNNING")'
      BY <1>1, <1>6 DEF InState
    <3> QED
      BY <1>1, <3>2, <3>3
  <2>4. id \notin Range(waiting) /\ waiting' = waiting /\ id # None
    BY <1>1, NoneIsNoJob DEF QInv, NoJobIsLost, Deliver, Ids
  <2> QED
    BY <2>1, <2>3, <2>4, <1>1, <1>3 DEF QInv, NoJobIsLost
<1>9. LookupsAreSafe'
  <2>0. jobIdByKey' = jobIdByKey /\ deadLetters' = deadLetters
    BY DEF Deliver
  <2>1. ASSUME NEW k \in Identities, jobIdByKey[k] # None
        PROVE jobs'[jobIdByKey[k]] # None /\ jobs'[jobIdByKey[k]].identity = k
    <3>1. /\ jobIdByKey[k] \in Ids /\ jobs[jobIdByKey[k]] # None
          /\ jobs[jobIdByKey[k]].identity = k
      BY <2>1 DEF QInv, QueueTypeOK, LookupsAreSafe
    <3> QED
      BY <3>1, <1>5, <1>6
  <2>2. ASSUME NEW j \in Ids, jobs'[j] # None PROVE jobIdByKey[jobs'[j].identity] = j
    <3>1. jobs[j] # None /\ jobs'[j].identity = jobs[j].identity
      BY <2>2, <1>2, <1>5, <1>6
    <3> QED
      BY <3>1 DEF QInv, LookupsAreSafe, Held
  <2>3. ASSUME NEW j \in deadLetters PROVE InState(j, "FAILED")' /\ jobs'[j].attempt = MaxAttempts
    <3>1. j \in Ids /\ j # id
      BY <2>3, <1>2 DEF QInv, QueueTypeOK, LookupsAreSafe, InState
    <3> QED
      BY <3>1, <1>5 DEF QInv, LookupsAreSafe, InState
  <2> QED
    BY <2>0, <2>1, <2>2, <2>3 DEF LookupsAreSafe, Held
<1>10. IdsAreFresh'
  BY <1>2, <1>5, <1>1 DEF Deliver, QInv, IdsAreFresh
<1>11. NoLostWakeup' /\ HandlerRunsInLoop'
  BY DEF Deliver, NoLostWakeup, HandlerRunsInLoop
<1> QED
  BY <1>7, <1>8, <1>9, <1>10, <1>11 DEF QInv

\* A finished job is pruned with the jobs that are older, or kept.
LEMMA FinishInv ==
  ASSUME QInv, current # None, NEW state \in FinalStates, NEW dead \in SUBSET Ids,
         Prune([jobs EXCEPT ![current].state = state], dead),
         \/ dead = deadLetters
         \/ dead = deadLetters \cup {current} /\ state = "FAILED" /\ jobs[current].attempt = MaxAttempts,
         current' = None, UNCHANGED <<ready, waiting, started, scheduled, loop, enqueued>>
  PROVE  QInv'
<1> DEFINE js == [jobs EXCEPT ![current].state = state]
<1>1. /\ current \in Ids /\ jobs[current] \in JobRecords /\ jobs[current] # None
      /\ jobs[current].state = "RUNNING"
      /\ current \notin Range(ready) /\ current \notin Range(waiting)
      /\ current \notin deadLetters
  BY CurrentRuns
<1>2. /\ jobs \in [Ids -> JobRecords \cup {None}]
      /\ jobIdByKey \in [Identities -> Ids \cup {None}]
  BY DEF QInv, QueueTypeOK
<1>3. /\ js[current] = [jobs[current] EXCEPT !.state = state]
      /\ \A id \in Ids : id # current => js[id] = jobs[id]
  BY <1>1, <1>2
<1>4. /\ js[current] \in JobRecords /\ js[current] # None /\ js[current].state = state
      /\ js[current].identity = jobs[current].identity
      /\ js[current].attempt = jobs[current].attempt
  BY <1>1, <1>3, NoneIsNoRecord DEF JobRecords, States
<1>5. js \in [Ids -> JobRecords \cup {None}]
  BY <1>2, <1>3, <1>4
<1>6. Prune(js, dead)
  OBVIOUS
<1> HIDE DEF js
<1>7. /\ jobs' \in [Ids -> JobRecords \cup {None}]
      /\ deadLetters' \in SUBSET Ids
      /\ jobIdByKey' \in [Identities -> Ids \cup {None}]
      /\ \A id \in Ids : \/ jobs'[id] = js[id] /\ (id \in deadLetters' <=> id \in dead)
                        \/ /\ jobs'[id] = None /\ id \notin deadLetters'
                           /\ js[id] # None /\ js[id].state \in FinalStates
      /\ \A k \in Identities :
           \/ /\ jobIdByKey'[k] = jobIdByKey[k]
              /\ \A id \in Ids : jobs'[id] = js[id] \/ js[id].identity # k
                                                \/ jobIdByKey[k] # id
           \/ /\ jobIdByKey'[k] = None
              /\ \E id \in Ids : jobs'[id] = None /\ jobIdByKey[k] = id
  BY <1>2, <1>5, <1>6, PruneKeeps
<1>8. QueueTypeOK'
  BY <1>7 DEF QInv, QueueTypeOK
<1>9. \A id \in Ids : jobs[id] = None => jobs'[id] = None
  BY <1>1, <1>3, <1>7
<1>10. NoJobIsLost'
  <2>1. \A id \in Ids : InState(id, "QUEUED")' <=> InState(id, "QUEUED")
    <3> SUFFICES ASSUME NEW id \in Ids PROVE InState(id, "QUEUED")' <=> InState(id, "QUEUED")
      OBVIOUS
    <3>1. CASE id = current
      <4>1. js[id].state # "QUEUED" /\ jobs[id].state # "QUEUED"
        BY <3>1, <1>1, <1>4 DEF FinalStates
      <4> QED
        BY <4>1, <1>7 DEF InState
    <3>2. CASE id # current
      <4>1. js[id] = jobs[id]
        BY <3>2, <1>3
      <4>2. CASE jobs'[id] = js[id]
        BY <4>1, <4>2 DEF InState
      <4>3. CASE jobs'[id] = None /\ js[id].state \in FinalStates
        BY <4>1, <4>3 DEF InState, FinalStates
      <4> QED
        BY <4>2, <4>3, <1>7
    <3> QED
      BY <3>1, <3>2
  <2>2. \A id \in Ids : ~InState(id, "RUNNING")'
    <3> SUFFICES ASSUME NEW id \in Ids PROVE ~InState(id, "RUNNING")'
      OBVIOUS
    <3>1. CASE id = current
      BY <3>1, <1>4, <1>7 DEF InState, FinalStates
    <3>2. CASE id # current
      <4>1. ~InState(id, "RUNNING")
        BY <3>2, <1>1 DEF QInv, NoJobIsLost
      <4> QED
        BY <4>1, <3>2, <1>3, <1>7 DEF InState
    <3> QED
      BY <3>1, <3>2
  <2>3. {id \in Ids : InState(id, "QUEUED")}' = {id \in Ids : InState(id, "QUEUED")}
    BY <2>1
  <2>4. {id \in Ids : InState(id, "RUNNING")}' = {}
    BY <2>2
  <2> QED
    BY <2>3, <2>4 DEF QInv, NoJobIsLost
<1>11. LookupsAreSafe'
  <2>1. ASSUME NEW k \in Identities, jobIdByKey'[k] # None
        PROVE jobs'[jobIdByKey'[k]] # None /\ jobs'[jobIdByKey'[k]].identity = k
    <3>1. jobIdByKey'[k] = jobIdByKey[k] /\ jobIdByKey[k] \in Ids
      BY <2>1, <1>2, <1>7
    <3>2. jobs[jobIdByKey[k]] # None /\ jobs[jobIdByKey[k]].identity = k
      BY <3>1, <2>1 DEF QInv, LookupsAreSafe
    <3>3. js[jobIdByKey[k]] # None /\ js[jobIdByKey[k]].identity = k
      BY <3>1, <3>2, <1>3, <1>4
    <3>4. jobs'[jobIdByKey[k]] = js[jobIdByKey[k]]
      BY <3>1, <3>3, <2>1, <1>7
    <3> QED
      BY <3>1, <3>3, <3>4
  <2>2. ASSUME NEW id \in Ids, jobs'[id] # None PROVE jobIdByKey'[jobs'[id].identity] = id
    <3>1. jobs'[id] = js[id] /\ js[id] # None
      BY <2>2, <1>7
    <3>2. jobs[id] # None /\ jobs'[id].identity = jobs[id].identity
      BY <3>1, <1>1, <1>3, <1>4
    <3>3. jobs[id].identity \in Identities /\ jobIdByKey[jobs[id].identity] = id
      BY <3>2, <1>2 DEF QInv, LookupsAreSafe, Held, JobRecords
    <3>4. jobIdByKey'[jobs[id].identity] = jobIdByKey[jobs[id].identity]
      BY <3>3, <2>2, <1>7
    <3> QED
      BY <3>2, <3>3, <3>4
  <2>3. ASSUME NEW id \in deadLetters' PROVE InState(id, "FAILED")' /\ jobs'[id].attempt = MaxAttempts
    <3>1. id \in Ids /\ jobs'[id] = js[id] /\ id \in dead
      BY <2>3, <1>7
    <3>2. CASE id = current
      BY <3>1, <3>2, <1>1, <1>4 DEF InState
    <3>3. CASE id # current
      BY <3>1, <3>3, <1>3 DEF QInv, LookupsAreSafe, InState
    <3> QED
      BY <3>2, <3>3
  <2> QED
    BY <2>1, <2>2, <2>3 DEF LookupsAreSafe, Held, InState
<1>12. IdsAreFresh' /\ NoLostWakeup' /\ HandlerRunsInLoop'
  BY <1>9 DEF QInv, IdsAreFresh, NoLostWakeup, HandlerRunsInLoop
<1> QED
  BY <1>8, <1>10, <1>11, <1>12 DEF QInv

LEMMA RequeueInv ==
  ASSUME QInv, current # None, MayRetry(jobs[current]), Requeue, current' = None,
         UNCHANGED <<started, scheduled, loop, enqueued>>
  PROVE  QInv'
<1>1. /\ current \in Ids /\ jobs[current] \in JobRecords /\ jobs[current] # None
      /\ jobs[current].state = "RUNNING"
      /\ current \notin Range(ready) /\ current \notin Range(waiting)
      /\ current \notin deadLetters
  BY CurrentRuns
<1>2. jobs \in [Ids -> JobRecords \cup {None}]
  BY DEF QInv, QueueTypeOK
<1>3. /\ jobs'[current] = [jobs[current] EXCEPT !.state = "QUEUED", !.attempt = jobs[current].attempt + 1]
      /\ \A id \in Ids : id # current => jobs'[id] = jobs[id]
      /\ DOMAIN jobs' = Ids /\ jobs' = [jobs EXCEPT ![current] = jobs'[current]]
  BY <1>1, <1>2 DEF Requeue
<1>4. jobs[current].attempt \in 1..MaxAttempts /\ jobs[current].attempt + 1 \in 1..MaxAttempts
  BY <1>1, MaxAttemptsIsPositive DEF JobRecords, MayRetry
<1>5. /\ jobs'[current] \in JobRecords /\ jobs'[current] # None /\ jobs'[current].state = "QUEUED"
      /\ jobs'[current].identity = jobs[current].identity
  BY <1>1, <1>3, <1>4, NoneIsNoRecord DEF JobRecords, States
<1>6. /\ ready' \in Seq(Ids) /\ waiting' \in Seq(Ids) /\ IsInjective(ready') /\ IsInjective(waiting')
      /\ Range(ready') \cap Range(waiting') = {}
      /\ Range(ready') \cup Range(waiting') = Range(ready) \cup Range(waiting) \cup {current}
  <2>1. /\ ready \in Seq(Ids) /\ waiting \in Seq(Ids) /\ IsInjective(ready) /\ IsInjective(waiting)
        /\ Range(ready) \cap Range(waiting) = {}
    BY DEF QInv, QueueTypeOK, NoJobIsLost
  <2>2. CASE started
    <3>1. waiting' = Append(waiting, current) /\ ready' = ready
      BY <2>2 DEF Requeue
    <3>2. /\ waiting' \in Seq(Ids) /\ IsInjective(waiting')
          /\ Range(waiting') = Range(waiting) \cup {current}
      BY <3>1, <2>1, <1>1, AppendRange
    <3> QED
      BY <3>1, <3>2, <2>1, <1>1
  <2>3. CASE ~started
    <3>1. ready' = Append(ready, current) /\ waiting' = waiting
      BY <2>3 DEF Requeue
    <3>2. /\ ready' \in Seq(Ids) /\ IsInjective(ready')
          /\ Range(ready') = Range(ready) \cup {current}
      BY <3>1, <2>1, <1>1, AppendRange
    <3> QED
      BY <3>1, <3>2, <2>1, <1>1
  <2> QED
    BY <2>2, <2>3
<1>7. jobIdByKey' = jobIdByKey /\ deadLetters' = deadLetters
  BY DEF Requeue
<1>8. QueueTypeOK'
  <2>1. jobs' \in [Ids -> JobRecords \cup {None}]
    BY <1>2, <1>3, <1>5
  <2> QED
    BY <2>1, <1>6, <1>7 DEF QInv, QueueTypeOK
<1>9. NoJobIsLost'
  <2>1. {id \in Ids : InState(id, "QUEUED")}' = {id \in Ids : InState(id, "QUEUED")} \cup {current}
    BY <1>1, <1>3, <1>5 DEF InState
  <2>2. \A id \in Ids : ~InState(id, "RUNNING")'
    <3> SUFFICES ASSUME NEW id \in Ids PROVE ~InState(id, "RUNNING")'
      OBVIOUS
    <3>1. CASE id = current
      BY <3>1, <1>5 DEF InState
    <3>2. CASE id # current
      <4>1. ~InState(id, "RUNNING")
        BY <3>2 DEF QInv, NoJobIsLost
      <4> QED
        BY <4>1, <3>2, <1>3 DEF InState
    <3> QED
      BY <3>1, <3>2
  <2>3. {id \in Ids : InState(id, "RUNNING")}' = {}
    BY <2>2
  <2> QED
    BY <2>1, <2>3, <1>6 DEF QInv, NoJobIsLost
<1>10. LookupsAreSafe'
  <2>1. ASSUME NEW k \in Identities, jobIdByKey[k] # None
        PROVE jobs'[jobIdByKey[k]] # None /\ jobs'[jobIdByKey[k]].identity = k
    <3>1. /\ jobIdByKey[k] \in Ids /\ jobs[jobIdByKey[k]] # None
          /\ jobs[jobIdByKey[k]].identity = k
      BY <2>1 DEF QInv, QueueTypeOK, LookupsAreSafe
    <3> QED
      BY <3>1, <1>3, <1>5
  <2>2. ASSUME NEW id \in Ids, jobs'[id] # None PROVE jobIdByKey[jobs'[id].identity] = id
    <3>1. jobs[id] # None /\ jobs'[id].identity = jobs[id].identity
      BY <2>2, <1>1, <1>3, <1>5
    <3> QED
      BY <3>1 DEF QInv, LookupsAreSafe, Held
  <2>3. ASSUME NEW id \in deadLetters PROVE InState(id, "FAILED")' /\ jobs'[id].attempt = MaxAttempts
    <3>1. id \in Ids /\ id # current
      BY <2>3, <1>1 DEF QInv, QueueTypeOK
    <3> QED
      BY <3>1, <1>3 DEF QInv, LookupsAreSafe, InState
  <2> QED
    BY <2>1, <2>2, <2>3, <1>7 DEF LookupsAreSafe, Held
<1>11. IdsAreFresh'
  BY <1>1, <1>3 DEF QInv, IdsAreFresh
<1>12. HandlerRunsInLoop'
  BY DEF HandlerRunsInLoop
<1>13. NoLostWakeup'
  BY DEF QInv, HandlerRunsInLoop, NoLostWakeup
<1> QED
  BY <1>8, <1>9, <1>10, <1>11, <1>12, <1>13 DEF QInv

LEMMA SettleInv == ASSUME QInv, NEW outcome \in Outcomes, Settle(outcome) PROVE QInv'
<1>1. current # None /\ current' = None /\ UNCHANGED <<started, scheduled, loop, enqueued>>
  BY DEF Settle
<1>2. deadLetters \in SUBSET Ids /\ current \in Ids /\ jobs[current] \in JobRecords
  BY <1>1, CurrentRuns DEF QInv, QueueTypeOK
<1>3. CASE outcome \in FinalStates /\ FinishJob(outcome)
  BY <1>1, <1>2, <1>3, FinishInv DEF FinishJob
<1>4. CASE outcome = "RETRY" /\ MayRetry(jobs[current]) /\ Requeue
  BY <1>1, <1>4, RequeueInv
<1>5. CASE outcome = "RETRY" /\ ~MayRetry(jobs[current]) /\ GiveUp
  <2>1. jobs[current].attempt = MaxAttempts
    BY <1>2, <1>5, MaxAttemptsIsPositive DEF MayRetry, JobRecords
  <2>2. "FAILED" \in FinalStates /\ deadLetters \cup {current} \in SUBSET Ids
    BY <1>2 DEF FinalStates
  <2> QED
    BY <1>1, <1>5, <2>1, <2>2, FinishInv DEF GiveUp
<1> QED
  BY <1>3, <1>4, <1>5 DEF Settle

LEMMA StutterInv == QInv /\ UNCHANGED queueVars => QInv'
BY DEF queueVars, QInv, QueueTypeOK, NoJobIsLost, NoLostWakeup, LookupsAreSafe, IdsAreFresh,
       HandlerRunsInLoop, Held, InState

LEMMA NextInv == QInv /\ [QueueNext]_queueVars => QInv'
<1> SUFFICES ASSUME QInv, [QueueNext]_queueVars PROVE QInv'
  OBVIOUS
<1>1. CASE \E identity \in Identities, payload \in Payloads : Enqueue(identity, payload)
  BY <1>1, EnqueueInv
<1>2. CASE StartQueue \/ StopQueue
  BY <1>2, StartStopInv
<1>3. CASE LoopFires \/ LoopEnds \/ LoopCleared
  BY <1>3, LoopInv
<1>4. CASE Deliver
  BY <1>4, DeliverInv
<1>5. CASE \E outcome \in Outcomes : Settle(outcome)
  BY <1>5, SettleInv
<1>6. CASE \E id \in Ids : RetryFires(id)
  BY <1>6, RetryFiresInv
<1>7. CASE UNCHANGED queueVars
  BY <1>7, StutterInv
<1> QED
  BY <1>1, <1>2, <1>3, <1>4, <1>5, <1>6, <1>7 DEF QueueNext

-----------------------------------------------------------------------------
(* The theorems.                                                           *)

\* The inductive invariant holds in every reachable state.
THEOREM QueueInvariant == QueueSpec => []QInv
<1>1. QueueInit => QInv
  BY InitInv
<1>2. QInv /\ [QueueNext]_queueVars => QInv'
  BY NextInv
<1> QED
  BY <1>1, <1>2, PTL DEF QueueSpec

\* Every reachable state is well typed: ids, records and lists of the queue
\* stay what the code takes them for, attempts within the policy's limit.
THEOREM QueueTypesAreRespected == QueueSpec => []QueueTypeOK
<1>1. QInv => QueueTypeOK
  BY DEF QInv
<1> QED
  BY <1>1, QueueInvariant, PTL

\* No accepted job is lost, whatever the order of enqueues, retries, stops
\* and starts: it is on exactly one list, exactly once, or it is running.
THEOREM NoAcceptedJobIsLost == QueueSpec => []NoJobIsLost
<1>1. QInv => NoJobIsLost
  BY DEF QInv
<1> QED
  BY <1>1, QueueInvariant, PTL

\* A started queue with work to deliver is awake or will be woken.
THEOREM NoWakeupIsLost == QueueSpec => []NoLostWakeup
<1>1. QInv => NoLostWakeup
  BY DEF QInv
<1> QED
  BY <1>1, QueueInvariant, PTL

\* The lookups of enqueue and listDeadLetters never find a forgotten record.
THEOREM EveryLookupIsSafe == QueueSpec => []LookupsAreSafe
<1>1. QInv => LookupsAreSafe
  BY DEF QInv
<1> QED
  BY <1>1, QueueInvariant, PTL

\* Only finished jobs are forgotten and finished jobs never run again.
THEOREM OnlyFinishedIsForgotten == QueueSpec => UnfinishedIsNeverForgotten
<1> DEFINE Kept(id) ==
      \/ jobs'[id] # None /\ (jobs[id].state \in FinalStates => jobs'[id] = jobs[id])
      \/ jobs'[id] = None /\ (jobs[id].state \in FinalStates \/ id = current)
<1>1. ASSUME QInv, [QueueNext]_queueVars, NEW id \in Held(jobs) PROVE Kept(id)
  <2>1. id \in Ids /\ jobs[id] # None /\ jobs \in [Ids -> JobRecords \cup {None}]
    BY <1>1 DEF Held, QInv, QueueTypeOK
  <2>2. CASE jobs' = jobs
    BY <2>1, <2>2
  <2>3. CASE \E identity \in Identities, payload \in Payloads : Enqueue(identity, payload)
    <3>1. PICK record : jobs' = [jobs EXCEPT ![enqueued + 1] = record]
      BY <2>3 DEF Enqueue
    <3>2. id # enqueued + 1
      BY <2>1, <1>1 DEF QInv, QueueTypeOK, IdsAreFresh, Ids
    <3> QED
      BY <2>1, <3>1, <3>2
  <2>4. CASE Deliver
    <3>1. CASE jobs' = jobs
      BY <2>1, <3>1
    <3>2. CASE /\ jobs' = [jobs EXCEPT ![Head(ready)].state = "RUNNING"]
               /\ jobs[Head(ready)].state = "QUEUED"
      <4>1. CASE id = Head(ready)
        <5>1. jobs[id] \in JobRecords /\ jobs[id].state = "QUEUED"
          BY <2>1, <3>2, <4>1
        <5>2. jobs'[id] = [jobs[id] EXCEPT !.state = "RUNNING"]
          BY <2>1, <3>2, <4>1
        <5>3. jobs'[id] \in JobRecords
          BY <5>1, <5>2 DEF JobRecords, States
        <5> QED
          BY <5>1, <5>3, NoneIsNoRecord DEF FinalStates
      <4>2. CASE id # Head(ready)
        BY <2>1, <3>2, <4>2
      <4> QED
        BY <4>1, <4>2
    <3> QED
      BY <2>4, <3>1, <3>2 DEF Deliver
  <2>5. CASE \E outcome \in Outcomes : Settle(outcome)
    <3>1. PICK outcome \in Outcomes : Settle(outcome)
      BY <2>5
    <3>2. /\ current \in Ids /\ jobs[current] \in JobRecords /\ jobs[current].state = "RUNNING"
      BY <1>1, <3>1, CurrentRuns DEF Settle
    <3>3. CASE Requeue
      <4>1. CASE id = current
        <5>1. jobs'[id] = [jobs[id] EXCEPT !.state = "QUEUED", !.attempt = jobs[id].attempt + 1]
          BY <2>1, <3>3, <4>1 DEF Requeue
        <5>2. CASE jobs'[id] = None
          BY <4>1, <5>2
        <5>3. CASE jobs'[id] # None
          BY <3>2, <4>1, <5>3 DEF FinalStates
        <5> QED
          BY <5>2, <5>3
      <4>2. CASE id # current
        BY <2>1, <3>3, <4>2 DEF Requeue
      <4> QED
        BY <4>1, <4>2
    <3>4. ASSUME NEW state \in FinalStates, NEW dead \in SUBSET Ids,
                 Prune([jobs EXCEPT ![current].state = state], dead)
          PROVE  Kept(id)
      <4> DEFINE js == [jobs EXCEPT ![current].state = state]
      <4>1. /\ js[current] = [jobs[current] EXCEPT !.state = state]
            /\ \A j \in Ids : j # current => js[j] = jobs[j]
        BY <2>1, <3>2
      <4>2. js[current] \in JobRecords
        BY <3>2, <4>1 DEF JobRecords, States
      <4>3. js \in [Ids -> JobRecords \cup {None}]
        BY <2>1, <4>1, <4>2
      <4>4. jobIdByKey \in [Identities -> Ids \cup {None}]
        BY <1>1 DEF QInv, QueueTypeOK
      <4>5. Prune(js, dead)
        BY <3>4
      <4> HIDE DEF js
      <4>6. jobs'[id] = js[id] \/ (jobs'[id] = None /\ js[id].state \in FinalStates)
        BY <2>1, <4>3, <4>4, <4>5, PruneKeeps
      <4>7. CASE id = current
        <5>1. jobs[id].state \notin FinalStates
          BY <3>2, <4>7 DEF FinalStates
        <5> QED
          BY <4>7, <5>1
      <4>8. CASE id # current
        BY <2>1, <4>1, <4>6, <4>8
      <4> QED
        BY <4>7, <4>8
    <3>5. CASE outcome \in FinalStates /\ FinishJob(outcome)
      BY <1>1, <3>4, <3>5 DEF FinishJob, QInv, QueueTypeOK
    <3>6. CASE GiveUp
      <4>1. "FAILED" \in FinalStates /\ deadLetters \cup {current} \in SUBSET Ids
        BY <1>1, <3>2 DEF FinalStates, QInv, QueueTypeOK
      <4> QED
        BY <3>4, <3>6, <4>1 DEF GiveUp
    <3> QED
      BY <3>1, <3>3, <3>5, <3>6 DEF Settle
  <2>6. CASE \/ StartQueue \/ StopQueue \/ LoopFires \/ LoopEnds \/ LoopCleared
             \/ (\E i \in Ids : RetryFires(i)) \/ UNCHANGED queueVars
    <3>1. jobs' = jobs
      BY <2>6 DEF StartQueue, StopQueue, LoopFires, LoopEnds, LoopCleared, RetryFires, queueVars
    <3> QED
      BY <2>2, <3>1
  <2> QED
    BY <1>1, <2>3, <2>4, <2>5, <2>6 DEF QueueNext
<1>2. QInv /\ [QueueNext]_queueVars => [\A id \in Held(jobs) : Kept(id)]_queueVars
  BY <1>1
<1> QED
  BY <1>2, QueueInvariant, PTL DEF QueueSpec, UnfinishedIsNeverForgotten

-----------------------------------------------------------------------------
(* Retention.                                                              *)

\* Where there are numbers there is a least one: the oldest finished job.
LEMMA LeastOf ==
  ASSUME NEW S, S \subseteq Nat, S # {}
  PROVE  \E m \in S : \A n \in S : ~(n < m)
<1>1. PICK m \in S : \A n \in S : <<n, m>> \notin OpToRel(<, Nat)
  BY WFMin, NatLessThanWellFounded, Zenon
<1>2. m \in Nat /\ \A n \in S : n \in Nat
  OBVIOUS
<1> QED
  BY <1>1, <1>2, Zenon DEF OpToRel

LEMMA FinishedIsFinite ==
  ASSUME NEW js
  PROVE  /\ IsFiniteSet(Held(js)) /\ IsFiniteSet(FinishedIn(js)) /\ FinishedIn(js) \subseteq Held(js)
         /\ Cardinality(Held(js)) \in Nat /\ Cardinality(FinishedIn(js)) \in Nat
         /\ Cardinality(FinishedIn(js)) <= Cardinality(Held(js))
<1>1. IsFiniteSet(Ids)
  BY MaxJobsIsNatural, FS_Interval DEF Ids
<1>2. Held(js) \in SUBSET Ids /\ FinishedIn(js) \in SUBSET Held(js)
  BY DEF Held, FinishedIn
<1>3. IsFiniteSet(Held(js))
  BY <1>1, <1>2, FS_Subset
<1> QED
  BY <1>2, <1>3, FS_Subset, FS_CardinalityType

\* One more finished job than may be kept is the most pruning ever meets, and
\* it forgets the oldest then.
LEMMA PruneBounds ==
  ASSUME NEW js, NEW dead, Prune(js, dead), None \notin JobRecords,
         Cardinality(FinishedIn(js)) <= MaxRetained + 1
  PROVE  Cardinality(FinishedIn(jobs')) <= MaxRetained
<1> DEFINE F == FinishedIn(js)
           G == FinishedIn(jobs')
<1>1. /\ IsFiniteSet(F) /\ F \subseteq Ids /\ Cardinality(F) \in Nat
      /\ Cardinality(Held(js)) \in Nat /\ Cardinality(F) <= Cardinality(Held(js))
  BY FinishedIsFinite DEF FinishedIn, Held
<1>2. jobs' = [id \in Ids |-> IF id \in Forgotten(js) THEN None ELSE js[id]]
  BY DEF Prune
<1>3. G \subseteq F \ Forgotten(js)
  BY <1>2 DEF FinishedIn, Held
<1>4. G \in SUBSET F
  BY <1>3
<1>5. Cardinality(G) <= Cardinality(F) /\ Cardinality(G) \in Nat
  BY <1>1, <1>4, FS_Subset, FS_CardinalityType
<1>6. CASE Cardinality(F) <= MaxRetained
  BY <1>1, <1>5, <1>6, MaxRetainedIsNatural
<1>7. CASE Cardinality(F) = MaxRetained + 1
  <2>1. F # {}
    BY <1>7, FS_EmptySet, MaxRetainedIsNatural
  <2>2. F \subseteq Nat
    BY <1>1 DEF Ids
  <2>3. PICK m \in F : \A n \in F : ~(n < m)
    BY <2>1, <2>2, LeastOf
  <2>4. {j \in F : j < m} = {}
    BY <2>3
  <2>5. Cardinality({j \in F : j < m}) = 0
    BY <2>4, FS_EmptySet
  <2>6. m \in Forgotten(js)
    BY <1>1, <1>7, <2>3, <2>5, MaxRetainedIsNatural DEF Forgotten
  <2>7. G \in SUBSET (F \ {m})
    BY <1>3, <2>6
  <2>8. IsFiniteSet(F \ {m}) /\ Cardinality(F \ {m}) = MaxRetained
    <3>1. Cardinality(F \ {m}) = Cardinality(F) - 1 /\ IsFiniteSet(F \ {m})
      BY <1>1, <2>3, FS_RemoveElement
    <3> QED
      BY <1>7, <3>1, MaxRetainedIsNatural
  <2> QED
    BY <2>7, <2>8, FS_Subset
<1> QED
  BY <1>1, <1>6, <1>7, MaxRetainedIsNatural

\* Finished jobs never accumulate beyond the limit, in whatever order jobs
\* finish, fail or are given up on (prune).
THEOREM FinishedJobsAreBounded == QueueSpec => []RetentionIsBounded
<1>1. QueueInit => RetentionIsBounded
  <2> SUFFICES ASSUME QueueInit PROVE RetentionIsBounded
    OBVIOUS
  <2>1. FinishedIn(jobs) = {}
    BY DEF QueueInit, FinishedIn, Held
  <2> QED
    BY <2>1, FS_EmptySet, MaxRetainedIsNatural DEF RetentionIsBounded
<1>2. ASSUME FinishedIn(jobs') \subseteq FinishedIn(jobs), RetentionIsBounded
      PROVE  RetentionIsBounded'
  <2>1. Cardinality(FinishedIn(jobs')) <= Cardinality(FinishedIn(jobs))
    BY <1>2, FinishedIsFinite, FS_Subset
  <2>2. Cardinality(FinishedIn(jobs')) \in Nat /\ Cardinality(FinishedIn(jobs)) \in Nat
    BY FinishedIsFinite
  <2>3. FinishedIn(jobs)' = FinishedIn(jobs')
    BY DEF FinishedIn, Held
  <2> QED
    BY <1>2, <2>1, <2>2, <2>3, MaxRetainedIsNatural DEF RetentionIsBounded
<1>3. ASSUME QInv, RetentionIsBounded, [QueueNext]_queueVars PROVE RetentionIsBounded'
  <2>1. jobs \in [Ids -> JobRecords \cup {None}]
    BY <1>3 DEF QInv, QueueTypeOK
  <2>2. CASE UNCHANGED jobs
    BY <1>2, <1>3, <2>2 DEF FinishedIn, Held
  <2>3. CASE \E identity \in Identities, payload \in Payloads : Enqueue(identity, payload)
    <3>1. PICK identity \in Identities, payload \in Payloads : Enqueue(identity, payload)
      BY <2>3
    <3>a. SUFFICES ASSUME NEW job, job = [identity |-> identity, payload |-> payload,
                                          state |-> "QUEUED", attempt |-> 1]
                   PROVE  RetentionIsBounded'
      OBVIOUS
    <3>2. jobs' = [jobs EXCEPT ![enqueued + 1] = job] /\ job.state = "QUEUED"
      BY <3>1, <3>a DEF Enqueue
    <3>3. FinishedIn(jobs') \subseteq FinishedIn(jobs)
      BY <2>1, <3>2 DEF FinishedIn, Held, FinalStates
    <3> QED
      BY <1>2, <1>3, <3>3
  <2>4. CASE Deliver
    <3>1. CASE UNCHANGED jobs
      BY <2>2, <3>1
    <3>2. CASE jobs' = [jobs EXCEPT ![Head(ready)].state = "RUNNING"]
      <4>1. FinishedIn(jobs') \subseteq FinishedIn(jobs)
        BY <2>1, <3>2, NoneIsNoRecord DEF FinishedIn, Held, FinalStates, JobRecords
      <4> QED
        BY <1>2, <1>3, <4>1
    <3> QED
      BY <2>4, <3>1, <3>2 DEF Deliver
  <2>5. ASSUME NEW outcome \in Outcomes, Settle(outcome) PROVE RetentionIsBounded'
    <3>1. /\ current \in Ids /\ jobs[current] \in JobRecords /\ jobs[current] # None
      BY <1>3, <2>5, CurrentRuns DEF Settle
    <3>2. CASE Requeue
      <4>1. /\ \A id \in Ids \ {current} : jobs'[id] = jobs[id]
            /\ jobs'[current].state = "QUEUED"
        BY <2>1, <3>1, <3>2 DEF Requeue, JobRecords
      <4>2. FinishedIn(jobs') \subseteq FinishedIn(jobs)
        BY <4>1 DEF FinishedIn, Held, FinalStates
      <4> QED
        BY <1>2, <1>3, <4>2
    <3>3. ASSUME NEW state \in FinalStates, NEW dead, Prune([jobs EXCEPT ![current].state = state], dead)
          PROVE  RetentionIsBounded'
      <4>a. SUFFICES ASSUME NEW js, js = [jobs EXCEPT ![current].state = state]
                     PROVE  RetentionIsBounded'
        OBVIOUS
      <4>1. FinishedIn(js) \in SUBSET (FinishedIn(jobs) \cup {current})
        BY <2>1, <3>1, <4>a DEF FinishedIn, Held
      <4>2. /\ IsFiniteSet(FinishedIn(jobs) \cup {current})
            /\ Cardinality(FinishedIn(jobs) \cup {current}) <= Cardinality(FinishedIn(jobs)) + 1
        <5>1. IsFiniteSet(FinishedIn(jobs)) /\ Cardinality(FinishedIn(jobs)) \in Nat
          BY FinishedIsFinite
        <5>2. /\ IsFiniteSet(FinishedIn(jobs) \cup {current})
              /\ \/ Cardinality(FinishedIn(jobs) \cup {current}) = Cardinality(FinishedIn(jobs))
                 \/ Cardinality(FinishedIn(jobs) \cup {current}) = Cardinality(FinishedIn(jobs)) + 1
          BY <5>1, FS_AddElement
        <5> QED
          BY <5>1, <5>2
      <4>3. Cardinality(FinishedIn(js)) <= Cardinality(FinishedIn(jobs) \cup {current})
        BY <4>1, <4>2, FS_Subset
      <4>4. Cardinality(FinishedIn(js)) <= MaxRetained + 1
        BY <1>3, <4>2, <4>3, FinishedIsFinite, FS_CardinalityType, MaxRetainedIsNatural
        DEF RetentionIsBounded
      <4>5. Cardinality(FinishedIn(jobs')) <= MaxRetained
        BY <3>3, <4>a, <4>4, PruneBounds, NoneIsNoRecord
      <4> QED
        BY <4>5 DEF RetentionIsBounded, FinishedIn, Held
    <3>4. CASE outcome \in FinalStates /\ FinishJob(outcome)
      BY <3>3, <3>4 DEF FinishJob
    <3>5. CASE GiveUp
      BY <3>3, <3>5 DEF GiveUp, FinalStates
    <3> QED
      BY <2>5, <3>2, <3>4, <3>5 DEF Settle
  <2> QED
    BY <1>3, <2>2, <2>3, <2>4, <2>5
    DEF QueueNext, StartQueue, StopQueue, LoopFires, LoopEnds, LoopCleared, RetryFires, queueVars
<1> QED
  BY <1>1, <1>3, QueueInvariant, PTL DEF QueueSpec

-----------------------------------------------------------------------------
(* The queue implements QueueContract: each callback accepts, begins,      *)
(* repeats or finishes a job, or is invisible.                             *)

LEMMA GreatestOf ==
  ASSUME NEW S, S \subseteq Ids, S # {}
  PROVE  \E m \in S : \A n \in S : n <= m
<1> DEFINE T == {MaxJobs - n : n \in S}
<1>1. \A n \in S : n \in Nat /\ n <= MaxJobs
  BY MaxJobsIsNatural DEF Ids
<1>2. T \subseteq Nat /\ T # {}
  BY <1>1, MaxJobsIsNatural
<1>3. PICK t \in T : \A u \in T : ~(u < t)
  BY <1>2, LeastOf
<1>4. PICK m \in S : t = MaxJobs - m
  BY <1>3
<1>5. ASSUME NEW n \in S PROVE n <= m
  <2>1. MaxJobs - n \in T /\ n \in Nat /\ m \in Nat
    BY <1>1
  <2>2. ~(MaxJobs - n < MaxJobs - m)
    BY <1>3, <1>4, <2>1
  <2> QED
    BY <2>1, <2>2, MaxJobsIsNatural
<1> QED
  BY <1>5

\* How many finished jobs are older than one.
Older(js, id) == {j \in FinishedIn(js) : j < id}

LEMMA OlderIsCounted ==
  ASSUME NEW js, NEW id
  PROVE  IsFiniteSet(Older(js, id)) /\ Cardinality(Older(js, id)) \in Nat
<1>1. Older(js, id) \in SUBSET FinishedIn(js)
  BY DEF Older
<1> QED
  BY <1>1, FinishedIsFinite, FS_Subset, FS_CardinalityType

\* Pruning forgets the oldest: what is older than a forgotten job is forgotten.
LEMMA OldestGo ==
  ASSUME NEW js, NEW gone, gone = Forgotten(js)
  PROVE  /\ gone \subseteq FinishedIn(js)
         /\ \A g \in gone, k \in FinishedIn(js) \ gone : g < k
<1>1. \A id : id \in gone <=>
        id \in FinishedIn(js) /\ Cardinality(Older(js, id)) < Cardinality(Held(js)) - MaxRetained
  BY DEF Forgotten, Older
<1>2. ASSUME NEW g \in gone, NEW k \in FinishedIn(js) \ gone PROVE g < k
  <2>1. g \in Nat /\ k \in Nat
    <3>1. FinishedIn(js) \subseteq Ids /\ g \in FinishedIn(js)
      BY <1>1 DEF FinishedIn, Held
    <3> QED
      BY <3>1 DEF Ids
  <2>2. SUFFICES ASSUME k <= g PROVE FALSE
    BY <2>1
  <2>3. Older(js, k) \in SUBSET Older(js, g)
    <3>1. ASSUME NEW j \in Older(js, k) PROVE j \in Older(js, g)
      <4>1. j \in FinishedIn(js) /\ j < k /\ j \in Nat
        BY MaxJobsIsNatural DEF Older, FinishedIn, Held, Ids
      <4> QED
        BY <2>1, <2>2, <4>1 DEF Older
    <3> QED
      BY <3>1
  <2>4. Cardinality(Older(js, k)) <= Cardinality(Older(js, g))
    BY <2>3, OlderIsCounted, FS_Subset
  <2>5. /\ Cardinality(Older(js, k)) \in Nat /\ Cardinality(Older(js, g)) \in Nat
        /\ Cardinality(Held(js)) \in Nat
    BY OlderIsCounted, FinishedIsFinite
  <2>6. Cardinality(Older(js, k)) < Cardinality(Held(js)) - MaxRetained
    BY <1>1, <2>4, <2>5, MaxRetainedIsNatural
  <2> QED
    BY <1>1, <2>6
<1> QED
  BY <1>1, <1>2

\* It forgets no more than it has to: the limit stays reached.
LEMMA NoMoreGo ==
  ASSUME NEW js, NEW gone, gone = Forgotten(js), gone # {}
  PROVE  Cardinality(Held(js) \ gone) >= MaxRetained
<1>1. gone \subseteq FinishedIn(js) /\ FinishedIn(js) \subseteq Held(js) /\ gone \subseteq Ids
  BY DEF Forgotten, FinishedIn, Held
<1>2. PICK m \in gone : \A n \in gone : n <= m
  BY <1>1, GreatestOf
<1>3. /\ m \in FinishedIn(js) /\ m \notin Older(js, m)
      /\ Cardinality(Older(js, m)) < Cardinality(Held(js)) - MaxRetained
  <2>1. m \in FinishedIn(js) /\ m \in Nat
    BY <1>1, MaxJobsIsNatural DEF Ids
  <2> QED
    BY <2>1 DEF Forgotten, Older
<1>4. gone \in SUBSET (Older(js, m) \cup {m})
  <2>1. ASSUME NEW g \in gone PROVE g \in Older(js, m) \cup {m}
    <3>1. g \in FinishedIn(js) /\ g \in Nat /\ m \in Nat /\ g <= m
      BY <1>1, <1>2, MaxJobsIsNatural DEF Ids
    <3> QED
      BY <3>1 DEF Older
  <2> QED
    BY <2>1
<1>5. /\ IsFiniteSet(Older(js, m) \cup {m})
      /\ Cardinality(Older(js, m) \cup {m}) = Cardinality(Older(js, m)) + 1
  BY <1>3, OlderIsCounted, FS_AddElement
<1>6. Cardinality(gone) <= Cardinality(Older(js, m)) + 1 /\ IsFiniteSet(gone) /\ Cardinality(gone) \in Nat
  BY <1>4, <1>5, FS_Subset, FS_CardinalityType
<1>7. Cardinality(Held(js) \ gone) = Cardinality(Held(js)) - Cardinality(gone)
  <2>1. Held(js) \cap gone = gone
    BY <1>1
  <2>2. IsFiniteSet(Held(js))
    BY FinishedIsFinite
  <2> QED
    BY <2>1, <2>2, FS_Difference
<1>8. Cardinality(Older(js, m)) \in Nat /\ Cardinality(Held(js)) \in Nat
  BY OlderIsCounted, FinishedIsFinite
<1> QED
  BY <1>3, <1>6, <1>7, <1>8, MaxRetainedIsNatural

\* Ending the running job adds at most one finished job.
LEMMA OneMoreEnds ==
  ASSUME QInv, RetentionIsBounded, current # None, NEW state \in FinalStates,
         NEW js, js = [jobs EXCEPT ![current].state = state]
  PROVE  Cardinality(FinishedIn(js)) <= MaxRetained + 1
<1>1. FinishedIn(js) \in SUBSET (FinishedIn(jobs) \cup {current})
  BY CurrentRuns DEF FinishedIn, Held, QInv, QueueTypeOK
<1>2. IsFiniteSet(FinishedIn(jobs)) /\ Cardinality(FinishedIn(jobs)) \in Nat
  BY FinishedIsFinite
<1>3. /\ IsFiniteSet(FinishedIn(jobs) \cup {current})
      /\ \/ Cardinality(FinishedIn(jobs) \cup {current}) = Cardinality(FinishedIn(jobs))
         \/ Cardinality(FinishedIn(jobs) \cup {current}) = Cardinality(FinishedIn(jobs)) + 1
  BY <1>2, FS_AddElement
<1>4. Cardinality(FinishedIn(js)) <= Cardinality(FinishedIn(jobs) \cup {current})
  BY <1>1, <1>3, FS_Subset
<1> QED
  BY <1>2, <1>3, <1>4, FinishedIsFinite, MaxRetainedIsNatural DEF RetentionIsBounded

\* The contract counts the records it keeps as the code does.
LEMMA SameRecords ==
  ASSUME NEW js
  PROVE  Promise!Kept(js) = Held(js) /\ Promise!Ended(js) = FinishedIn(js)
BY DEF Promise!Kept, Promise!Ended, Promise!Ends, Held, FinishedIn, FinalStates

\* And so it counts a set.
LEMMA SameCount ==
  ASSUME NEW S
  PROVE  Promise!Cardinality(S) = Cardinality(S)
BY DEF Promise!Cardinality, Cardinality

LEMMA EndingFinishes ==
  ASSUME QInv, RetentionIsBounded, current # None, NEW state \in FinalStates, NEW dead,
         Prune([jobs EXCEPT ![current].state = state], dead), UNCHANGED enqueued
  PROVE  Promise!Finish(current, state)
<1>a. SUFFICES ASSUME NEW js, js = [jobs EXCEPT ![current].state = state], Prune(js, dead)
               PROVE  Promise!Finish(current, state)
  OBVIOUS
<1>b. PICK gone : gone = Forgotten(js)
  OBVIOUS
<1>1. jobs' = [id \in Ids |-> IF id \in gone THEN None ELSE js[id]]
  BY <1>a, <1>b DEF Prune
<1>2. /\ gone \subseteq FinishedIn(js) /\ \A g \in gone, k \in FinishedIn(js) \ gone : g < k
      /\ gone # {} => Cardinality(Held(js) \ gone) >= MaxRetained
  BY <1>b, OldestGo, NoMoreGo
<1>3. FinishedIn(js) \ gone = FinishedIn(jobs')
  <2>1. FinishedIn(js) \subseteq Ids /\ FinishedIn(jobs') \subseteq Ids
    BY DEF FinishedIn, Held
  <2>2. ASSUME NEW id \in Ids PROVE id \in FinishedIn(js) \ gone <=> id \in FinishedIn(jobs')
    BY <1>1, <2>2 DEF FinishedIn, Held
  <2> QED
    BY <2>1, <2>2
<1>4. Cardinality(FinishedIn(js) \ gone) <= MaxRetained
  <2>1. Cardinality(FinishedIn(js)) <= MaxRetained + 1
    BY <1>a, OneMoreEnds
  <2>2. Cardinality(FinishedIn(jobs')) <= MaxRetained
    BY <1>a, <2>1, PruneBounds, NoneIsNoRecord
  <2> QED
    BY <1>3, <2>2
<1>5. Promise!MayGo(gone, js)
  <2>1. Promise!Kept(js) = Held(js) /\ Promise!Ended(js) = FinishedIn(js)
    BY SameRecords
  <2> QED
    BY <1>2, <1>4, <2>1, SameCount DEF Promise!MayGo
<1>6. Promise!IsRunning(current)
  <2>1. current \in Ids /\ jobs[current] # None /\ jobs[current].state = "RUNNING"
    BY CurrentRuns
  <2> QED
    BY <2>1, SameRecords DEF Promise!IsRunning, Held
<1>7. gone \in SUBSET Ids
  BY <1>2 DEF FinishedIn, Held
<1> QED
  BY <1>a, <1>1, <1>5, <1>6, <1>7 DEF Promise!Finish

LEMMA EnqueueAccepts ==
  ASSUME QInv, NEW identity \in Identities, NEW payload \in Payloads, Enqueue(identity, payload)
  PROVE  Promise!Accept(identity, payload)
<1>1. ASSUME NEW n \in Held(jobs), jobs[n].identity = identity PROVE FALSE
  <2>1. jobIdByKey[identity] = n /\ n \in Ids
    BY <1>1 DEF QInv, LookupsAreSafe, Held
  <2>2. n # None
    BY <2>1, NoneIsNoJob DEF Ids
  <2> QED
    BY <2>1, <2>2 DEF Enqueue
<1>2. enqueued + 1 \in Ids
  BY MaxJobsIsNatural DEF Enqueue, Ids, QInv, QueueTypeOK
<1> QED
  BY <1>1, <1>2, SameRecords DEF Enqueue, Promise!Accept

LEMMA DeliveryBegins ==
  ASSUME QInv, Deliver
  PROVE  UNCHANGED <<jobs, enqueued>> \/ Promise!Begin(Head(ready))
<1>1. UNCHANGED enqueued /\ current = None
  BY DEF Deliver
<1>2. CASE UNCHANGED jobs
  BY <1>1, <1>2
<1>3. CASE /\ jobs[Head(ready)] # None /\ jobs[Head(ready)].state = "QUEUED"
           /\ jobs' = [jobs EXCEPT ![Head(ready)].state = "RUNNING"]
  <2>1. Head(ready) \in Ids
    BY DEF Deliver, QInv, QueueTypeOK
  <2>2. \A m \in Ids : ~InState(m, "RUNNING")
    BY <1>1 DEF QInv, NoJobIsLost
  <2>3. \A m \in Ids : ~Promise!IsRunning(m)
    BY <2>2, SameRecords DEF Promise!IsRunning, InState, Held
  <2> QED
    BY <1>1, <1>3, <2>1, <2>3, SameRecords DEF Promise!Begin, Held
<1> QED
  BY <1>2, <1>3 DEF Deliver

LEMMA SettlingMoves ==
  ASSUME QInv, RetentionIsBounded, NEW outcome \in Outcomes, Settle(outcome)
  PROVE  Promise!Repeat(current) \/ \E state \in FinalStates : Promise!Finish(current, state)
<1>1. current # None /\ UNCHANGED enqueued
  BY DEF Settle
<1>2. current \in Ids /\ jobs[current] # None /\ jobs[current].state = "RUNNING"
  BY <1>1, CurrentRuns
<1>3. CASE outcome \in FinalStates /\ FinishJob(outcome)
  <2>1. Prune([jobs EXCEPT ![current].state = outcome], deadLetters)
    BY <1>3 DEF FinishJob
  <2> QED
    BY <1>1, <1>3, <2>1, EndingFinishes
<1>4. CASE MayRetry(jobs[current]) /\ Requeue
  <2>1. Promise!IsRunning(current)
    BY <1>2, SameRecords DEF Promise!IsRunning, Held
  <2> QED
    BY <1>1, <1>4, <2>1 DEF Promise!Repeat, MayRetry, Requeue
<1>5. CASE GiveUp
  <2>1. Prune([jobs EXCEPT ![current].state = "FAILED"], deadLetters \cup {current}) /\ "FAILED" \in FinalStates
    BY <1>5 DEF GiveUp, FinalStates
  <2> QED
    BY <1>1, <2>1, EndingFinishes
<1> QED
  BY <1>3, <1>4, <1>5 DEF Settle

LEMMA PromiseKept ==
  QInv /\ RetentionIsBounded /\ [QueueNext]_queueVars => [Promise!Next]_(Promise!contractVars)
<1> SUFFICES ASSUME QInv, RetentionIsBounded, [QueueNext]_queueVars
             PROVE  Promise!Next \/ UNCHANGED <<jobs, enqueued>>
  BY DEF Promise!contractVars
<1>1. CASE \E identity \in Identities, payload \in Payloads : Enqueue(identity, payload)
  BY <1>1, EnqueueAccepts DEF Promise!Next
<1>2. CASE Deliver
  <2>1. Head(ready) \in Ids
    BY <1>2 DEF Deliver, QInv, QueueTypeOK
  <2> QED
    BY <1>2, <2>1, DeliveryBegins DEF Promise!Next
<1>3. ASSUME NEW outcome \in Outcomes, Settle(outcome) PROVE Promise!Next
  <2>1. current \in Ids
    BY <1>3, CurrentRuns DEF Settle
  <2>2. FinalStates = Promise!Ends
    BY DEF FinalStates, Promise!Ends
  <2> QED
    BY <1>3, <2>1, <2>2, SettlingMoves DEF Promise!Next
<1>4. CASE \/ StartQueue \/ StopQueue \/ LoopFires \/ LoopEnds \/ LoopCleared
           \/ (\E id \in Ids : RetryFires(id)) \/ UNCHANGED queueVars
  BY <1>4 DEF StartQueue, StopQueue, LoopFires, LoopEnds, LoopCleared, RetryFires, queueVars
<1> QED
  BY <1>1, <1>2, <1>3, <1>4 DEF QueueNext

\* The queue implements its contract, for any number of jobs, attempts and retained records: handlers run
\* one at a time, no job is tried more often than the policy says, and no identity is accepted again
\* before its job has ended and was forgotten (memory-queue/src/index.ts, ports/queue.ts).
THEOREM QueueImplementsContract == QueueSpec => QueueKeepsPromise
<1>1. QueueInit => Promise!Init
  BY DEF QueueInit, Promise!Init
<1>2. QInv /\ RetentionIsBounded /\ [QueueNext]_queueVars => [Promise!Next]_(Promise!contractVars)
  BY PromiseKept
<1> QED
  BY <1>1, <1>2, QueueInvariant, FinishedJobsAreBounded, PTL DEF QueueSpec, QueueKeepsPromise, Promise!Spec

=============================================================================
