----------------------- MODULE RealtimeRecoveryProofs -----------------------
EXTENDS RealtimeRecovery, SequenceTheorems, WellFoundedInduction, TLAPS

-----------------------------------------------------------------------------
(* Induction over the naturals, and over the notices merged into a view.   *)

LEMMA LeastNatural ==
    ASSUME NEW T, T \subseteq Nat, T # {}
    PROVE  \E m \in T : \A n \in T : m <= n
<1> DEFINE Before == OpToRel(<, Nat)
<1>1. IsWellFoundedOn(Before, Nat)
  BY NatLessThanWellFounded
<1>2. \A x, y \in Nat : <<y, x>> \in Before <=> y < x
  BY DEF OpToRel
<1> HIDE DEF Before
<1>3. PICK m \in T : \A n \in T : ~(<<n, m>> \in Before)
  BY <1>1, WFMin
<1>4. ASSUME NEW n \in T PROVE m <= n
  <2>1. m \in Nat /\ n \in Nat /\ ~(n < m)
    BY <1>2, <1>3
  <2> QED
    BY <2>1
<1> QED
  BY <1>4

LEMMA NaturalInduction ==
    ASSUME NEW T, 0 \in T, \A n \in Nat : n \in T => n + 1 \in T
    PROVE  \A n \in Nat : n \in T
<1> DEFINE Missed == {n \in Nat : n \notin T}
<1>1. SUFFICES ASSUME Missed # {} PROVE FALSE
  OBVIOUS
<1>2. PICK m \in Missed : \A n \in Missed : m <= n
  BY <1>1, LeastNatural
<1>3. m # 0 /\ m - 1 \in Nat /\ m - 1 \notin Missed
  BY <1>2
<1> QED
  BY <1>2, <1>3

\* A function that merges the first k notices.
Merges(merged, k, e, notices) ==
    merged = [n \in 0..k |-> IF n = 0 THEN e ELSE ApplyNotification(merged[n - 1], notices[n])]

LEMMA SomethingMerges ==
    ASSUME NEW e, NEW notices
    PROVE  \A k \in Nat : \E merged : Merges(merged, k, e, notices)
<1> DEFINE T == {k \in Nat : \E merged : Merges(merged, k, e, notices)}
<1>1. 0 \in T
  <2> DEFINE first == [n \in 0..0 |-> e]
  <2>1. \A n \in 0..0 : n = 0
    OBVIOUS
  <2>2. first = [n \in 0..0 |-> IF n = 0 THEN e ELSE ApplyNotification(first[n - 1], notices[n])]
    BY <2>1
  <2>3. Merges(first, 0, e, notices)
    BY <2>2 DEF Merges
  <2> QED
    BY <2>3
<1>2. ASSUME NEW k \in Nat, k \in T PROVE k + 1 \in T
  <2>1. PICK merged : Merges(merged, k, e, notices)
    BY <1>2
  <2>a. SUFFICES ASSUME NEW more,
                        more = [n \in 0..(k + 1) |->
                                  IF n = k + 1 THEN ApplyNotification(merged[k], notices[k + 1]) ELSE merged[n]]
                 PROVE  k + 1 \in T
    OBVIOUS
  <2>2. \A n \in 0..k : /\ merged[n] = IF n = 0 THEN e ELSE ApplyNotification(merged[n - 1], notices[n])
                        /\ more[n] = merged[n]
    BY <2>1, <2>a DEF Merges
  <2>3. more[k + 1] = ApplyNotification(more[k], notices[k + 1])
    BY <2>2, <2>a
  <2>4. ASSUME NEW n \in 0..(k + 1)
        PROVE  more[n] = IF n = 0 THEN e ELSE ApplyNotification(more[n - 1], notices[n])
    <3>1. CASE n = k + 1
      BY <2>3, <3>1
    <3>2. CASE n # k + 1
      <4>1. n \in 0..k /\ (n # 0 => n - 1 \in 0..k)
        BY <3>2
      <4> QED
        BY <2>2, <4>1
    <3> QED
      BY <3>1, <3>2
  <2>5. more = [n \in 0..(k + 1) |-> more[n]]
    BY <2>a
  <2>6. more = [n \in 0..(k + 1) |-> IF n = 0 THEN e ELSE ApplyNotification(more[n - 1], notices[n])]
    BY <2>4, <2>5
  <2> QED
    BY <2>6 DEF Merges
<1> HIDE DEF T
<1>3. \A k \in Nat : k \in T
  BY <1>1, <1>2, NaturalInduction
<1> QED
  BY <1>3 DEF T

LEMMA MergingUnfolds ==
    ASSUME NEW e, NEW notices, Len(notices) \in Nat
    PROVE  /\ Merging(e, notices)[0] = e
           /\ \A n \in 1..Len(notices) :
                Merging(e, notices)[n] = ApplyNotification(Merging(e, notices)[n - 1], notices[n])
<1>1. \E merged : Merges(merged, Len(notices), e, notices)
  BY SomethingMerges
<1>2. Merging(e, notices) = CHOOSE merged : Merges(merged, Len(notices), e, notices)
  BY DEF Merging, Merges
<1>3. Merges(Merging(e, notices), Len(notices), e, notices)
  BY <1>1, <1>2
<1> QED
  BY <1>3 DEF Merges

-----------------------------------------------------------------------------
(* What is on its way to a view.                                           *)

About(m, p) == m.type = "proposal" /\ m.id = p
Elems(s) == {s[i] : i \in DOMAIN s}
Touched(p, pending) == \E m \in pending : About(m, p)

\* The view has it, or is told of it by what is pending.
VersionIsKnown(known, actual, pending) ==
    known = actual \/ \E m \in pending : m.type = "proposal" /\ m.status = "APPLIED"
RunIsKnown(known, moves, pending) ==
    known = moves \/ \E m \in pending : m.type = "job" /\ m.move = moves

\* A notice says what is stored, unless a later one is about the same proposal.
SaysWhatIsStored(m, later, stored) ==
    m.type = "proposal" => m.status = stored[m.id] \/ Touched(m.id, later)
SeqTrue(s, later, stored) ==
    \A i \in DOMAIN s : s[i].type = "proposal" =>
       \/ s[i].status = stored[s[i].id]
       \/ \E j \in DOMAIN s : j > i /\ About(s[j], s[i].id)
       \/ Touched(s[i].id, later)
JobsTrue(s, moves) == \A i \in DOMAIN s : s[i].type = "job" => s[i].move <= moves

\* Which lists have been read at a point of a read, and how many.
IsListed(record, at) ==
    \/ record = "AWAITING_APPROVAL" /\ at \in {"approved", "jobs", "answer"}
    \/ record = "APPROVED" /\ at \in {"jobs", "answer"}
Listings(at) == IF at \in {"version", "undecided"} THEN 0 ELSE IF at = "approved" THEN 1 ELSE 2

\* What a read has found so far is stored, but for what is pending.
ReadIsTrue(read, pending, actual, moves, stored) ==
    /\ read.at # "version" => VersionIsKnown(read.version, actual, pending)
    /\ read.at = "answer" => RunIsKnown(read.run, moves, pending)
    /\ \A p \in Proposals :
         Touched(p, pending) \/ read.open[p] = IF IsListed(stored[p], read.at) THEN <<stored[p]>> ELSE <<>>

\* So is what a view shows.
ViewIsTrue(e, pending, actual, moves, stored) ==
    /\ VersionIsKnown(e.version, actual, pending)
    /\ RunIsKnown(e.run, moves, pending)
    /\ \A p \in Proposals :
         \/ Touched(p, pending)
         \/ stored[p] \in OpenStatuses => e.open[p] # <<>> /\ e.open[p][1] = stored[p]

ReadShape(read, moves) ==
    read.run <= moves /\ \A p \in Proposals : Len(read.open[p]) <= Listings(read.at)

\* What holds of an entry wherever its socket is.
Shape(e, moves) ==
    /\ e \in Entries
    /\ e.run <= moves /\ JobsTrue(e.held, moves)
    /\ \A p \in Proposals : Len(e.open[p]) <= 2
    /\ e.read # None => ReadShape(e.read, moves)
    /\ e.recovering <=> e.read # None \/ e.retrying
    /\ e.read # None => ~e.retrying
    /\ e.held # <<>> => e.recovering

\* What holds of it while every notice since its read began reaches it.
Current(e, later, actual, moves, stored) ==
    /\ SeqTrue(e.held, later, stored)
    /\ e.read # None /\ ~e.dirty => ReadIsTrue(e.read, Elems(e.held) \cup later, actual, moves, stored)
    /\ ~e.recovering /\ ~e.dirty => ViewIsTrue(e, later, actual, moves, stored)

LEMMA NoneIsNothing == None \notin Entries /\ None \notin Reads /\ None \notin Statuses
  BY NoneIsNothingElse

LEMMA NoticeShape ==
    ASSUME NEW m \in Notifications
    PROVE  /\ m.type \in {"job", "proposal"}
           /\ m.type = "proposal" => m.id \in Proposals /\ m.status \in Statuses
           /\ m.type = "job" => m.move \in Nat
  BY DEF Notifications

LEMMA MessageShape ==
    ASSUME NEW m \in ServerMessages
    PROVE  /\ m \in Notifications \/ m.type \in {"welcome", "subscribed", "unsubscribed"}
           /\ m.type \in {"job", "proposal"} => m \in Notifications
  BY DEF ServerMessages, Notifications

LEMMA NothingRead ==
    /\ NoCopies \in Copies /\ \A p \in Proposals : NoCopies[p] = <<>> /\ Len(NoCopies[p]) = 0
    /\ FirstRead \in Reads /\ FirstRead.at = "version" /\ FirstRead.run = 0 /\ FirstRead.open = NoCopies
    /\ FirstRead # None
<1>1. <<>> \in Seq(Statuses) /\ Len(<<>>) = 0
  BY EmptySeq
<1>2. NoCopies \in Copies /\ \A p \in Proposals : NoCopies[p] = <<>> /\ Len(NoCopies[p]) = 0
  BY <1>1 DEF NoCopies, Copies
<1>3. FirstRead \in Reads
  BY <1>2 DEF FirstRead, Reads, ReadPoints
<1> QED
  BY <1>2, <1>3, NoneIsNothing DEF FirstRead

LEMMA EntryShape ==
    ASSUME NEW e \in Entries
    PROVE  /\ e.version \in Nat /\ e.run \in Nat /\ e.open \in Copies /\ e.recovering \in BOOLEAN
           /\ e.held \in Seq(Notifications) /\ e.dirty \in BOOLEAN /\ e.retrying \in BOOLEAN
           /\ e.read \in Reads \cup {None}
           /\ \A p \in Proposals : e.open[p] \in Seq(Statuses)
           /\ e # None
<1>1. e.open \in Copies
  BY DEF Entries
<1> QED
  BY <1>1, NoneIsNothing DEF Entries, Copies

LEMMA ReadsShape ==
    ASSUME NEW read \in Reads
    PROVE  /\ read.at \in ReadPoints /\ read.version \in Nat /\ read.run \in Nat /\ read.open \in Copies
           /\ \A p \in Proposals : read.open[p] \in Seq(Statuses)
           /\ read # None
<1>1. read.open \in Copies
  BY DEF Reads
<1> QED
  BY <1>1, NoneIsNothing DEF Reads, Copies

LEMMA ElemsOfAppend ==
    ASSUME NEW S, NEW s \in Seq(S), NEW x \in S
    PROVE  Elems(Append(s, x)) = Elems(s) \cup {x}
<1>a. SUFFICES ASSUME NEW t, t = Append(s, x) PROVE Elems(t) = Elems(s) \cup {x}
  OBVIOUS
<1>1. /\ Len(s) \in Nat /\ DOMAIN s = 1..Len(s) /\ DOMAIN t = 1..(Len(s) + 1)
      /\ t[Len(s) + 1] = x /\ \A i \in 1..Len(s) : t[i] = s[i]
  BY <1>a, LenProperties, AppendProperties
<1>2. ASSUME NEW y \in Elems(t) PROVE y \in Elems(s) \cup {x}
  BY <1>1, <1>2 DEF Elems
<1>3. ASSUME NEW y \in Elems(s) PROVE y \in Elems(t)
  <2>1. PICK i \in DOMAIN s : y = s[i]
    BY <1>3 DEF Elems
  <2> QED
    BY <1>1, <2>1 DEF Elems
<1>4. x \in Elems(t)
  BY <1>1 DEF Elems
<1> QED
  BY <1>2, <1>3, <1>4

LEMMA TailFacts ==
    ASSUME NEW S, NEW s \in Seq(S), s # <<>>
    PROVE  /\ Head(s) = s[1] /\ s[1] \in S /\ 1 \in DOMAIN s /\ Tail(s) \in Seq(S)
           /\ DOMAIN s = 1..Len(s) /\ Len(s) \in Nat \ {0} /\ DOMAIN Tail(s) = 1..(Len(s) - 1)
           /\ \A i \in DOMAIN Tail(s) : i + 1 \in DOMAIN s /\ Tail(s)[i] = s[i + 1]
<1>1. /\ Len(s) \in Nat /\ DOMAIN s = 1..Len(s) /\ Len(s) # 0
  BY LenProperties, EmptySeq
<1>2. /\ Head(s) \in S /\ Tail(s) \in Seq(S) /\ Len(Tail(s)) = Len(s) - 1
      /\ \A i \in 1..Len(Tail(s)) : Tail(s)[i] = s[i + 1]
  BY HeadTailProperties
<1>3. Head(s) = s[1]
  BY SMT
<1>4. DOMAIN Tail(s) = 1..(Len(s) - 1)
  BY <1>2, LenProperties
<1> QED
  BY <1>1, <1>2, <1>3, <1>4

LEMMA ElemsOfTail ==
    ASSUME NEW S, NEW s \in Seq(S), s # <<>>
    PROVE  Elems(s) = {s[1]} \cup Elems(Tail(s))
<1>1. ASSUME NEW y \in Elems(s) PROVE y \in {s[1]} \cup Elems(Tail(s))
  <2>1. PICK i \in DOMAIN s : y = s[i]
    BY <1>1 DEF Elems
  <2>2. \/ i = 1
        \/ i - 1 \in DOMAIN Tail(s) /\ Tail(s)[i - 1] = s[(i - 1) + 1] /\ (i - 1) + 1 = i
    BY <2>1, TailFacts
  <2> QED
    BY <2>1, <2>2 DEF Elems
<1>2. s[1] \in Elems(s)
  BY TailFacts DEF Elems
<1>3. ASSUME NEW y \in Elems(Tail(s)) PROVE y \in Elems(s)
  <2>1. PICK i \in DOMAIN Tail(s) : y = Tail(s)[i]
    BY <1>3 DEF Elems
  <2> QED
    BY <2>1, TailFacts DEF Elems
<1> QED
  BY <1>1, <1>2, <1>3

LEMMA SeqTrueTail ==
    ASSUME NEW S, NEW s \in Seq(S), s # <<>>, NEW later, NEW stored, SeqTrue(s, later, stored)
    PROVE  /\ SeqTrue(Tail(s), later, stored)
           /\ SaysWhatIsStored(s[1], Elems(Tail(s)) \cup later, stored)
<1>a. SUFFICES ASSUME NEW t, t = Tail(s)
               PROVE  SeqTrue(t, later, stored) /\ SaysWhatIsStored(s[1], Elems(t) \cup later, stored)
  OBVIOUS
<1>1. /\ 1 \in DOMAIN s /\ DOMAIN s = 1..Len(s) /\ Len(s) \in Nat /\ DOMAIN t = 1..(Len(s) - 1)
      /\ \A i \in DOMAIN t : i + 1 \in DOMAIN s /\ t[i] = s[i + 1]
  BY <1>a, TailFacts
<1>2. ASSUME NEW j \in DOMAIN s, j > 1 PROVE j - 1 \in DOMAIN t /\ t[j - 1] = s[j]
  <2>1. j - 1 \in DOMAIN t /\ t[j - 1] = s[(j - 1) + 1] /\ (j - 1) + 1 = j
    BY <1>1, <1>2
  <2> QED
    BY <2>1
<1>3. ASSUME NEW i \in DOMAIN t, t[i].type = "proposal"
      PROVE  \/ t[i].status = stored[t[i].id]
             \/ \E j \in DOMAIN t : j > i /\ About(t[j], t[i].id)
             \/ Touched(t[i].id, later)
  <2>1. i + 1 \in DOMAIN s /\ t[i] = s[i + 1]
    BY <1>1
  <2>2. CASE \E j \in DOMAIN s : j > i + 1 /\ About(s[j], t[i].id)
    <3>1. PICK j \in DOMAIN s : j > i + 1 /\ About(s[j], t[i].id)
      BY <2>2
    <3>2. j - 1 > i /\ j > 1
      BY <1>1, <3>1
    <3> QED
      BY <1>2, <3>1, <3>2
  <2> QED
    BY <1>3, <2>1, <2>2 DEF SeqTrue
<1>4. SaysWhatIsStored(s[1], Elems(t) \cup later, stored)
  <2>1. SUFFICES ASSUME s[1].type = "proposal", s[1].status # stored[s[1].id]
                 PROVE  Touched(s[1].id, Elems(t) \cup later)
    BY DEF SaysWhatIsStored
  <2>2. CASE \E j \in DOMAIN s : j > 1 /\ About(s[j], s[1].id)
    <3>1. PICK j \in DOMAIN s : j > 1 /\ About(s[j], s[1].id)
      BY <2>2
    <3>2. s[j] \in Elems(t)
      BY <1>2, <3>1 DEF Elems
    <3> QED
      BY <3>1, <3>2 DEF Touched
  <2>3. CASE Touched(s[1].id, later)
    BY <2>3 DEF Touched
  <2> QED
    BY <1>1, <2>1, <2>2, <2>3 DEF SeqTrue
<1> QED
  BY <1>3, <1>4 DEF SeqTrue

\* The first of what is to come is put last in the queue before it.
LEMMA SeqTrueAppend ==
    ASSUME NEW S, NEW s \in Seq(S), NEW m \in S, NEW later, NEW before, NEW stored,
           SeqTrue(s, before, stored), before \subseteq {m} \cup later, SaysWhatIsStored(m, later, stored)
    PROVE  SeqTrue(Append(s, m), later, stored)
<1>a. SUFFICES ASSUME NEW t, t = Append(s, m) PROVE SeqTrue(t, later, stored)
  OBVIOUS
<1>1. /\ Len(s) \in Nat /\ DOMAIN s = 1..Len(s) /\ DOMAIN t = 1..(Len(s) + 1)
      /\ t[Len(s) + 1] = m /\ \A i \in 1..Len(s) : t[i] = s[i]
  BY <1>a, LenProperties, AppendProperties
<1>2. ASSUME NEW i \in DOMAIN t, t[i].type = "proposal"
      PROVE  \/ t[i].status = stored[t[i].id]
             \/ \E j \in DOMAIN t : j > i /\ About(t[j], t[i].id)
             \/ Touched(t[i].id, later)
  <2>1. CASE i = Len(s) + 1
    BY <1>1, <1>2, <2>1 DEF SaysWhatIsStored
  <2>2. CASE i # Len(s) + 1
    <3>1. i \in DOMAIN s /\ t[i] = s[i] /\ Len(s) + 1 \in DOMAIN t /\ Len(s) + 1 > i
      BY <1>1, <2>2
    <3>2. CASE \E j \in DOMAIN s : j > i /\ About(s[j], s[i].id)
      BY <1>1, <3>1, <3>2
    <3>3. CASE Touched(s[i].id, before)
      <4>1. Touched(s[i].id, later) \/ About(m, s[i].id)
        BY <3>3 DEF Touched
      <4> QED
        BY <1>1, <3>1, <4>1
    <3> QED
      BY <1>2, <3>1, <3>2, <3>3 DEF SeqTrue
  <2> QED
    BY <2>1, <2>2
<1> QED
  BY <1>2 DEF SeqTrue

LEMMA JobsTrueAppend ==
    ASSUME NEW S, NEW s \in Seq(S), NEW m \in S, NEW moves, JobsTrue(s, moves),
           m.type = "job" => m.move <= moves
    PROVE  JobsTrue(Append(s, m), moves)
<1>1. /\ Len(s) \in Nat /\ DOMAIN s = 1..Len(s) /\ DOMAIN Append(s, m) = 1..(Len(s) + 1)
      /\ Append(s, m)[Len(s) + 1] = m /\ \A i \in 1..Len(s) : Append(s, m)[i] = s[i]
  BY LenProperties, AppendProperties
<1> QED
  BY <1>1 DEF JobsTrue

LEMMA JobsTrueTail ==
    ASSUME NEW S, NEW s \in Seq(S), s # <<>>, NEW moves, JobsTrue(s, moves)
    PROVE  JobsTrue(Tail(s), moves) /\ (s[1].type = "job" => s[1].move <= moves)
  BY TailFacts DEF JobsTrue

-----------------------------------------------------------------------------
(* What the client's operators make of an entry.                           *)

LEMMA SeqEqEmpty ==
    ASSUME NEW S, NEW s \in Seq(S)
    PROVE  /\ Len(s) \in Nat /\ DOMAIN s = 1..Len(s)
           /\ s = <<>> <=> Len(s) = 0
           /\ \A i \in DOMAIN s : s[i] \in S
  BY LenProperties, EmptySeq, ElementOfSeq

LEMMA NothingPends ==
    /\ Elems(<<>>) = {} /\ \A later, stored : SeqTrue(<<>>, later, stored)
    /\ \A moves : JobsTrue(<<>>, moves)
    /\ \A p : ~Touched(p, {})
<1>1. DOMAIN <<>> = {}
  OBVIOUS
<1> QED
  BY <1>1 DEF Elems, SeqTrue, JobsTrue, Touched

LEMMA ReadSnapshotMakes ==
    ASSUME NEW e \in Entries, NEW r, r = ReadSnapshot(e)
    PROVE  /\ r \in Entries
           /\ r.version = e.version /\ r.run = e.run /\ r.open = e.open /\ r.held = e.held /\ r.dirty = e.dirty
           /\ r.recovering = TRUE /\ r.retrying = FALSE /\ r.read = FirstRead
  BY NothingRead DEF ReadSnapshot, Entries

LEMMA AbandonRecoveryMakes ==
    ASSUME NEW e \in Entries, NEW r, r = AbandonRecovery(e)
    PROVE  /\ r \in Entries
           /\ r.version = e.version /\ r.run = e.run /\ r.open = e.open /\ r.read = e.read
           /\ r.held = <<>> /\ r.dirty = FALSE /\ r.retrying = FALSE
           /\ r.recovering = (e.recovering /\ ~e.retrying)
<1>1. <<>> \in Seq(Notifications)
  BY EmptySeq
<1> QED
  BY <1>1 DEF AbandonRecovery, Entries

WithDirty(e, dirty) == [e EXCEPT !.dirty = dirty]
WithRead(e, read) == [e EXCEPT !.read = read]
WithHeld(e, held) == [e EXCEPT !.held = held]
WithCopies(e, p, copies) == [e EXCEPT !.open[p] = copies]
WithStatus(copies, x) == [copies EXCEPT ![1] = x]

LEMMA DirtyMakes ==
    ASSUME NEW e \in Entries, NEW b \in BOOLEAN, NEW r, r = WithDirty(e, b)
    PROVE  /\ r \in Entries /\ r.dirty = b
           /\ r.version = e.version /\ r.run = e.run /\ r.open = e.open /\ r.held = e.held
           /\ r.recovering = e.recovering /\ r.retrying = e.retrying /\ r.read = e.read
  BY DEF Entries, WithDirty

LEMMA CleanMakes ==
    ASSUME NEW e \in Entries, NEW r, r = WithDirty(e, FALSE)
    PROVE  /\ r \in Entries /\ ~r.dirty
           /\ r.version = e.version /\ r.run = e.run /\ r.open = e.open /\ r.held = e.held
           /\ r.recovering = e.recovering /\ r.retrying = e.retrying /\ r.read = e.read
  BY DEF Entries, WithDirty

LEMMA HeldMakes ==
    ASSUME NEW e \in Entries, NEW h \in Seq(Notifications), NEW r, r = WithHeld(e, h)
    PROVE  /\ r \in Entries /\ r.held = h
           /\ r.version = e.version /\ r.run = e.run /\ r.open = e.open /\ r.dirty = e.dirty
           /\ r.recovering = e.recovering /\ r.retrying = e.retrying /\ r.read = e.read
  BY DEF Entries, WithHeld

LEMMA RunMakes ==
    ASSUME NEW e \in Entries, NEW n \in Nat, NEW r, r = [e EXCEPT !.run = n]
    PROVE  /\ r \in Entries /\ r.run = n
           /\ r.version = e.version /\ r.held = e.held /\ r.open = e.open /\ r.dirty = e.dirty
           /\ r.recovering = e.recovering /\ r.retrying = e.retrying /\ r.read = e.read
  BY DEF Entries

LEMMA ReadMakes ==
    ASSUME NEW e \in Entries, NEW read \in Reads, NEW r, r = WithRead(e, read)
    PROVE  /\ r \in Entries /\ r.read = read
           /\ r.version = e.version /\ r.held = e.held /\ r.open = e.open /\ r.dirty = e.dirty
           /\ r.recovering = e.recovering /\ r.retrying = e.retrying /\ r.run = e.run
  BY DEF Entries, WithRead

LEMMA CopiesMake ==
    ASSUME NEW e \in Entries, NEW p \in Proposals, NEW copies \in Seq(Statuses),
           NEW r, r = WithCopies(e, p, copies)
    PROVE  /\ r \in Entries
           /\ r.open[p] = copies /\ \A q \in Proposals : q # p => r.open[q] = e.open[q]
           /\ r.version = e.version /\ r.held = e.held /\ r.run = e.run /\ r.dirty = e.dirty
           /\ r.recovering = e.recovering /\ r.retrying = e.retrying /\ r.read = e.read
<1>1. e.open \in [Proposals -> Seq(Statuses)]
  BY DEF Entries, Copies
<1>2. r = [e EXCEPT !.open = [e.open EXCEPT ![p] = copies]]
  BY DEF Entries, WithCopies
<1>3. [e.open EXCEPT ![p] = copies] \in Copies
  BY <1>1 DEF Copies
<1>4. r \in Entries /\ r.open = [e.open EXCEPT ![p] = copies]
  BY <1>2, <1>3 DEF Entries
<1>5. /\ r.version = e.version /\ r.held = e.held /\ r.run = e.run /\ r.dirty = e.dirty
      /\ r.recovering = e.recovering /\ r.retrying = e.retrying /\ r.read = e.read
  BY <1>2 DEF Entries
<1> QED
  BY <1>1, <1>4, <1>5

LEMMA SnapshotMakes ==
    ASSUME NEW e \in Entries, e.read \in Reads, NEW r, r = Snapshot(e)
    PROVE  /\ r \in Entries
           /\ r.version = e.read.version /\ r.run = e.read.run /\ r.open = e.read.open
           /\ r.held = <<>> /\ r.dirty = e.dirty /\ r.recovering = FALSE /\ r.retrying = e.retrying /\ r.read = None
<1>1. <<>> \in Seq(Notifications)
  BY EmptySeq
<1>2. e.read.version \in Nat /\ e.read.run \in Nat /\ e.read.open \in Copies
  BY ReadsShape
<1> QED
  BY <1>1, <1>2 DEF Snapshot, Entries

LEMMA RecoverKeepsShape ==
    ASSUME NEW e, NEW moves \in Nat, Shape(e, moves), NEW r, r = RecoverProduction(e)
    PROVE  /\ Shape(r, moves) /\ r.recovering /\ r.held = e.held
           /\ ~e.recovering => r.dirty = e.dirty /\ r.read = FirstRead
           /\ r.dirty \/ r.read = FirstRead
<1>1. e \in Entries /\ e.recovering \in BOOLEAN /\ e.retrying \in BOOLEAN
  BY EntryShape DEF Shape
<1>2. CASE e.recovering /\ ~e.retrying
  <2>1. r = WithDirty(e, TRUE)
    BY <1>2 DEF RecoverProduction, WithDirty
  <2>2. /\ r \in Entries /\ r.dirty = TRUE
        /\ r.version = e.version /\ r.run = e.run /\ r.open = e.open /\ r.held = e.held
        /\ r.recovering = e.recovering /\ r.retrying = e.retrying /\ r.read = e.read
    BY <1>1, <2>1, DirtyMakes
  <2>3. Shape(r, moves)
    BY <2>2 DEF Shape
  <2> QED
    BY <1>2, <2>2, <2>3
<1>3. CASE ~(e.recovering /\ ~e.retrying)
  <2>1. r = ReadSnapshot(e)
    BY <1>3 DEF RecoverProduction
  <2>2. ReadShape(FirstRead, moves)
    BY NothingRead DEF ReadShape, Listings
  <2>3. /\ r \in Entries
        /\ r.version = e.version /\ r.run = e.run /\ r.open = e.open /\ r.held = e.held /\ r.dirty = e.dirty
        /\ r.recovering = TRUE /\ r.retrying = FALSE /\ r.read = FirstRead
    BY <1>1, <2>1, ReadSnapshotMakes
  <2>4. Shape(r, moves)
    BY <2>2, <2>3, NothingRead DEF Shape
  <2> QED
    BY <2>3, <2>4
<1> QED
  BY <1>2, <1>3

LEMMA FirstReadIsTrue ==
    ASSUME NEW pending, NEW actual, NEW moves, NEW stored
    PROVE  ReadIsTrue(FirstRead, pending, actual, moves, stored)
  BY NothingRead DEF ReadIsTrue, IsListed

\* A recovery makes no claim before it reads.
LEMMA RecoverIsCurrent ==
    ASSUME NEW e, NEW moves \in Nat, NEW later, NEW actual, NEW stored,
           Shape(e, moves), SeqTrue(e.held, later, stored), NEW r, r = RecoverProduction(e)
    PROVE  Current(r, later, actual, moves, stored)
<1>1. r.recovering /\ r.held = e.held /\ (r.dirty \/ r.read = FirstRead)
  BY RecoverKeepsShape
<1> QED
  BY <1>1, FirstReadIsTrue DEF Current

-----------------------------------------------------------------------------
(* Merging a notice.                                                       *)

LEMMA ReplacedCopies ==
    ASSUME NEW s \in Seq(Statuses), s # <<>>, NEW x \in Statuses, NEW t, t = WithStatus(s, x)
    PROVE  t \in Seq(Statuses) /\ Len(t) = Len(s) /\ t # <<>> /\ t[1] = x
<1>1. /\ Len(s) \in Nat /\ Len(s) # 0 /\ DOMAIN s = 1..Len(s) /\ \A i \in DOMAIN s : s[i] \in Statuses
  BY SeqEqEmpty
<1>2. 1 \in DOMAIN s
  BY <1>1
<1>3. t \in Seq(Statuses) /\ Len(t) = Len(s)
  BY <1>1, <1>2, ExceptSeq DEF WithStatus
<1> QED
  BY <1>1, <1>2, <1>3, EmptySeq DEF WithStatus

LEMMA MergeCases ==
    ASSUME NEW e \in Entries, NEW m \in Notifications
    PROVE  LET r == ApplyNotification(e, m) IN
           \/ e.recovering /\ r = WithHeld(e, Append(e.held, m))
           \/ ~e.recovering /\ r = RecoverProduction(e)
           \/ /\ ~e.recovering /\ m.type = "job"
              /\ \/ m.move <= e.run /\ r = e
                 \/ m.move > e.run /\ r = [e EXCEPT !.run = m.move]
           \/ /\ ~e.recovering /\ m.type = "proposal" /\ e.open[m.id] # <<>>
              /\ \/ m.status \in OpenStatuses /\ r = WithCopies(e, m.id, WithStatus(e.open[m.id], m.status))
                 \/ /\ m.status \notin OpenStatuses
                    /\ \/ r = WithCopies(e, m.id, Tail(e.open[m.id])) /\ m.status # "APPLIED"
                       \/ r = RecoverProduction(WithCopies(e, m.id, Tail(e.open[m.id])))
<1>1. m.type = "job" => m.move \in Nat
  BY NoticeShape
<1>2. e.run \in Nat
  BY EntryShape
<1>3. CASE e.recovering
  BY <1>3 DEF ApplyNotification, WithHeld
<1>4. CASE ~e.recovering /\ m.type = "job"
  BY <1>1, <1>2, <1>4 DEF ApplyNotification, ApplyJobEvent
<1>5. CASE ~e.recovering /\ m.type # "job"
  <2>1. m.type = "proposal" /\ ApplyNotification(e, m) = MergeProposal(e, m)
    BY <1>5, NoticeShape DEF ApplyNotification
  <2>2. CASE e.open[m.id] = <<>>
    BY <1>5, <2>1, <2>2 DEF MergeProposal
  <2>3. CASE e.open[m.id] # <<>> /\ m.status \in OpenStatuses
    BY <1>5, <2>1, <2>3 DEF MergeProposal, WithCopies, WithStatus
  <2>4. CASE e.open[m.id] # <<>> /\ m.status \notin OpenStatuses
    BY <1>5, <2>1, <2>4 DEF MergeProposal, WithCopies
  <2> QED
    BY <2>2, <2>3, <2>4
<1> QED
  BY <1>3, <1>4, <1>5


AreCopies(s) == s \in Seq(Statuses) /\ Len(s) <= 2

LEMMA CopiesKeepShape ==
    ASSUME NEW e, NEW moves \in Nat, Shape(e, moves), NEW p \in Proposals,
           NEW copies, AreCopies(copies), NEW r, r = WithCopies(e, p, copies)
    PROVE  Shape(r, moves)
<1>0. copies \in Seq(Statuses) /\ Len(copies) <= 2
  BY DEF AreCopies
<1>1. /\ r \in Entries
      /\ r.open[p] = copies /\ \A q \in Proposals : q # p => r.open[q] = e.open[q]
      /\ r.version = e.version /\ r.held = e.held /\ r.run = e.run /\ r.dirty = e.dirty
      /\ r.recovering = e.recovering /\ r.retrying = e.retrying /\ r.read = e.read
  BY <1>0, CopiesMake DEF Shape
<1>2. \A q \in Proposals : Len(r.open[q]) <= 2
  BY <1>0, <1>1 DEF Shape
<1> QED
  BY <1>1, <1>2 DEF Shape

LEMMA ClosedCopies ==
    ASSUME NEW e, NEW moves \in Nat, Shape(e, moves), NEW p \in Proposals, e.open[p] # <<>>
    PROVE  AreCopies(Tail(e.open[p]))
<1>1. e.open[p] \in Seq(Statuses) /\ Len(e.open[p]) <= 2
  BY EntryShape DEF Shape
<1>2. Tail(e.open[p]) \in Seq(Statuses) /\ Len(Tail(e.open[p])) = Len(e.open[p]) - 1 /\ Len(e.open[p]) \in Nat
  BY <1>1, HeadTailProperties, LenProperties
<1> QED
  BY <1>1, <1>2 DEF AreCopies

LEMMA OpenCopies ==
    ASSUME NEW e, NEW moves \in Nat, Shape(e, moves), NEW p \in Proposals, e.open[p] # <<>>,
           NEW x \in Statuses, NEW t, t = WithStatus(e.open[p], x)
    PROVE  AreCopies(t) /\ t # <<>> /\ t[1] = x
<1>1. e.open[p] \in Seq(Statuses) /\ Len(e.open[p]) <= 2
  BY EntryShape DEF Shape
<1>2. PICK copies : copies = e.open[p]
  OBVIOUS
<1>3. copies \in Seq(Statuses) /\ copies # <<>> /\ t = WithStatus(copies, x)
  BY <1>1, <1>2
<1>4. t \in Seq(Statuses) /\ Len(t) = Len(copies) /\ t # <<>> /\ t[1] = x
  BY <1>3, ReplacedCopies, Zenon
<1>5. Len(t) = Len(e.open[p])
  BY <1>2, <1>4
<1> QED
  BY <1>1, <1>4, <1>5 DEF AreCopies

LEMMA MergeKeepsShape ==
    ASSUME NEW e, NEW moves \in Nat, Shape(e, moves), NEW m \in Notifications,
           m.type = "job" => m.move <= moves, NEW r, r = ApplyNotification(e, m)
    PROVE  /\ Shape(r, moves) /\ r.dirty = e.dirty
           /\ e.recovering => r.recovering
           /\ r.recovering => e.recovering \/ r.read = FirstRead
<1>1. e \in Entries /\ e.recovering \in BOOLEAN /\ e.dirty \in BOOLEAN
  BY EntryShape DEF Shape
<1>2. CASE e.recovering /\ r = WithHeld(e, Append(e.held, m))
  <2>1. e.held \in Seq(Notifications) /\ Append(e.held, m) \in Seq(Notifications)
    BY <1>1, EntryShape, AppendProperties
  <2>a. PICK held : held = Append(e.held, m)
    OBVIOUS
  <2>b. held \in Seq(Notifications) /\ r = WithHeld(e, held)
    BY <1>2, <2>1, <2>a
  <2>c. /\ r \in Entries /\ r.held = held
        /\ r.version = e.version /\ r.run = e.run /\ r.open = e.open /\ r.dirty = e.dirty
        /\ r.recovering = e.recovering /\ r.retrying = e.retrying /\ r.read = e.read
    BY <1>1, <2>b, HeldMakes
  <2>2. /\ r \in Entries /\ r.held = Append(e.held, m)
        /\ r.version = e.version /\ r.run = e.run /\ r.open = e.open /\ r.dirty = e.dirty
        /\ r.recovering = e.recovering /\ r.retrying = e.retrying /\ r.read = e.read
    BY <2>a, <2>c
  <2>3. JobsTrue(Append(e.held, m), moves)
    BY <2>1, JobsTrueAppend DEF Shape
  <2>4. Shape(r, moves)
    BY <1>2, <2>2, <2>3 DEF Shape
  <2> QED
    BY <1>2, <2>2, <2>4
<1>3. CASE ~e.recovering /\ r = RecoverProduction(e)
  BY <1>3, RecoverKeepsShape
<1>4. CASE ~e.recovering /\ m.type = "job" /\ m.move > e.run /\ r = [e EXCEPT !.run = m.move]
  <2>1. m.move \in Nat
    BY <1>4, NoticeShape
  <2>2. /\ r \in Entries /\ r.run = m.move
        /\ r.version = e.version /\ r.held = e.held /\ r.open = e.open /\ r.dirty = e.dirty
        /\ r.recovering = e.recovering /\ r.retrying = e.retrying /\ r.read = e.read
    BY <1>1, <1>4, <2>1, RunMakes
  <2>3. Shape(r, moves)
    BY <1>4, <2>2 DEF Shape
  <2> QED
    BY <1>4, <2>2, <2>3
<1>5. CASE ~e.recovering /\ r = e
  BY <1>5
<1>6. CASE /\ ~e.recovering /\ m.type = "proposal" /\ e.open[m.id] # <<>> /\ m.status \in OpenStatuses
           /\ r = WithCopies(e, m.id, WithStatus(e.open[m.id], m.status))
  <2>1. m.id \in Proposals /\ m.status \in Statuses
    BY <1>6, NoticeShape
  <2>2. PICK t : t = WithStatus(e.open[m.id], m.status)
    OBVIOUS
  <2>3. AreCopies(t)
    BY <1>6, <2>1, <2>2, OpenCopies
  <2>s. t \in Seq(Statuses)
    BY <2>3 DEF AreCopies
  <2>4. r = WithCopies(e, m.id, t)
    BY <1>6, <2>2
  <2>5. Shape(r, moves)
    BY <2>1, <2>3, <2>4, CopiesKeepShape
  <2>6. r.dirty = e.dirty /\ r.recovering = e.recovering
    BY <1>1, <2>1, <2>s, <2>4, CopiesMake
  <2> QED
    BY <1>6, <2>5, <2>6
<1>7. ASSUME ~e.recovering, m.type = "proposal", e.open[m.id] # <<>>,
             NEW closed, closed = WithCopies(e, m.id, Tail(e.open[m.id]))
      PROVE  Shape(closed, moves) /\ closed.dirty = e.dirty /\ closed.recovering = e.recovering
  <2>1. m.id \in Proposals
    BY <1>7, NoticeShape
  <2>2. PICK t : t = Tail(e.open[m.id])
    OBVIOUS
  <2>a. AreCopies(t) /\ closed = WithCopies(e, m.id, t)
    BY <1>7, <2>1, <2>2, ClosedCopies
  <2>s. t \in Seq(Statuses)
    BY <2>a DEF AreCopies
  <2>3. Shape(closed, moves)
    BY <1>7, <2>1, <2>a, CopiesKeepShape
  <2>4. closed.dirty = e.dirty /\ closed.recovering = e.recovering
    BY <1>1, <1>7, <2>1, <2>a, <2>s, CopiesMake
  <2> QED
    BY <2>3, <2>4
<1>8. CASE /\ ~e.recovering /\ m.type = "proposal" /\ e.open[m.id] # <<>>
           /\ r = WithCopies(e, m.id, Tail(e.open[m.id]))
  BY <1>7, <1>8
<1>9. CASE /\ ~e.recovering /\ m.type = "proposal" /\ e.open[m.id] # <<>>
           /\ r = RecoverProduction(WithCopies(e, m.id, Tail(e.open[m.id])))
  <2>1. PICK closed : closed = WithCopies(e, m.id, Tail(e.open[m.id]))
    OBVIOUS
  <2>2. Shape(closed, moves) /\ closed.dirty = e.dirty /\ closed.recovering = e.recovering
    BY <1>7, <1>9, <2>1
  <2>3. r = RecoverProduction(closed)
    BY <1>9, <2>1
  <2> QED
    BY <1>9, <2>2, <2>3, RecoverKeepsShape
<1> QED
  BY <1>1, <1>2, <1>3, <1>4, <1>5, <1>6, <1>8, <1>9, MergeCases

LEMMA MergeIsCurrent ==
    ASSUME NEW e, NEW moves \in Nat, Shape(e, moves), NEW m \in Notifications,
           m.type = "job" => m.move <= moves, NEW r, r = ApplyNotification(e, m),
           NEW later, NEW actual, NEW stored,
           Current(e, {m} \cup later, actual, moves, stored), SaysWhatIsStored(m, later, stored)
    PROVE  Current(r, later, actual, moves, stored)
<1>1. e \in Entries /\ e.recovering \in BOOLEAN /\ e.dirty \in BOOLEAN /\ e.run \in Nat
  BY EntryShape DEF Shape
<1>m. r.dirty = e.dirty
  BY MergeKeepsShape
<1>2. CASE e.recovering /\ r = WithHeld(e, Append(e.held, m))
  <2>1. e.held \in Seq(Notifications) /\ Append(e.held, m) \in Seq(Notifications)
    BY <1>1, EntryShape, AppendProperties
  <2>a. PICK held : held = Append(e.held, m)
    OBVIOUS
  <2>b. held \in Seq(Notifications) /\ r = WithHeld(e, held)
    BY <1>2, <2>1, <2>a
  <2>c. r.held = held /\ r.recovering = e.recovering /\ r.read = e.read
    BY <1>1, <2>b, HeldMakes
  <2>2. r.held = Append(e.held, m) /\ r.recovering = e.recovering /\ r.read = e.read
    BY <2>a, <2>c
  <2>3. SeqTrue(r.held, later, stored)
    BY <2>1, <2>2, SeqTrueAppend DEF Current
  <2>4. Elems(r.held) \cup later = Elems(e.held) \cup ({m} \cup later)
    BY <2>1, <2>2, ElemsOfAppend
  <2> QED
    BY <1>2, <1>m, <2>2, <2>3, <2>4 DEF Current
<1>h. ~e.recovering => e.held = <<>> /\ e.read = None
  BY DEF Shape
<1>v. ~e.recovering /\ ~e.dirty => ViewIsTrue(e, {m} \cup later, actual, moves, stored)
  BY DEF Current
<1>3. CASE ~e.recovering /\ r = RecoverProduction(e)
  BY <1>3, <1>h, NothingPends, RecoverIsCurrent
<1>j. ASSUME m.type = "job"
      PROVE  \A p \in Proposals : Touched(p, {m} \cup later) => Touched(p, later)
  BY <1>j DEF Touched, About
<1>4. CASE ~e.recovering /\ m.type = "job" /\ m.move > e.run /\ r = [e EXCEPT !.run = m.move]
  <2>1. m.move \in Nat
    BY <1>4, NoticeShape
  <2>2. /\ r.run = m.move
        /\ r.version = e.version /\ r.held = e.held /\ r.open = e.open
        /\ r.recovering = e.recovering /\ r.read = e.read
    BY <1>1, <1>4, <2>1, RunMakes
  <2>3. ASSUME ~e.dirty PROVE ViewIsTrue(r, later, actual, moves, stored)
    <3>1. VersionIsKnown(r.version, actual, later)
      BY <1>4, <1>v, <2>2, <2>3 DEF ViewIsTrue, VersionIsKnown
    <3>2. RunIsKnown(e.run, moves, {m} \cup later)
      BY <1>4, <1>v, <2>3 DEF ViewIsTrue
    <3>3. RunIsKnown(r.run, moves, later)
      BY <1>1, <1>4, <2>1, <2>2, <3>2 DEF RunIsKnown
    <3> QED
      BY <1>4, <1>v, <1>j, <2>2, <2>3, <3>1, <3>3 DEF ViewIsTrue
  <2> QED
    BY <1>4, <1>h, <1>m, <2>2, <2>3, NothingPends DEF Current
<1>5. CASE ~e.recovering /\ m.type = "job" /\ m.move <= e.run /\ r = e
  <2>1. m.move \in Nat /\ e.run <= moves
    BY <1>5, NoticeShape DEF Shape
  <2>2. ASSUME ~e.dirty PROVE ViewIsTrue(e, later, actual, moves, stored)
    <3>1. VersionIsKnown(e.version, actual, later)
      BY <1>5, <1>v, <2>2 DEF ViewIsTrue, VersionIsKnown
    <3>2. RunIsKnown(e.run, moves, {m} \cup later)
      BY <1>5, <1>v, <2>2 DEF ViewIsTrue
    <3>3. RunIsKnown(e.run, moves, later)
      BY <1>1, <1>5, <2>1, <3>2 DEF RunIsKnown
    <3> QED
      BY <1>5, <1>v, <1>j, <2>2, <3>1, <3>3 DEF ViewIsTrue
  <2> QED
    BY <1>5, <1>h, <2>2, NothingPends DEF Current
<1>p. ASSUME m.type = "proposal"
      PROVE  /\ \A p \in Proposals : p # m.id /\ Touched(p, {m} \cup later) => Touched(p, later)
             /\ Touched(m.id, later) \/ m.status = stored[m.id]
             /\ RunIsKnown(e.run, moves, {m} \cup later) => RunIsKnown(e.run, moves, later)
             /\ m.status # "APPLIED" /\ VersionIsKnown(e.version, actual, {m} \cup later)
                  => VersionIsKnown(e.version, actual, later)
  <2>1. \A p \in Proposals : p # m.id /\ Touched(p, {m} \cup later) => Touched(p, later)
    BY DEF Touched, About
  <2>2. Touched(m.id, later) \/ m.status = stored[m.id]
    BY <1>p DEF SaysWhatIsStored
  <2>3. RunIsKnown(e.run, moves, {m} \cup later) => RunIsKnown(e.run, moves, later)
    BY <1>p DEF RunIsKnown
  <2>4. m.status # "APPLIED" /\ VersionIsKnown(e.version, actual, {m} \cup later)
                  => VersionIsKnown(e.version, actual, later)
    BY DEF VersionIsKnown
  <2> QED
    BY <2>1, <2>2, <2>3, <2>4
<1>6. ASSUME ~e.recovering, m.type = "proposal", m.status # "APPLIED",
             NEW copies \in Seq(Statuses), r = WithCopies(e, m.id, copies),
             m.status \in OpenStatuses => copies # <<>> /\ copies[1] = m.status
      PROVE  Current(r, later, actual, moves, stored)
  <2>1. m.id \in Proposals
    BY <1>6, NoticeShape
  <2>2. /\ r.open[m.id] = copies /\ \A q \in Proposals : q # m.id => r.open[q] = e.open[q]
        /\ r.version = e.version /\ r.held = e.held /\ r.run = e.run
        /\ r.recovering = e.recovering /\ r.read = e.read
    BY <1>1, <1>6, <2>1, CopiesMake
  <2>3. ASSUME ~e.dirty PROVE ViewIsTrue(r, later, actual, moves, stored)
    <3>0. ViewIsTrue(e, {m} \cup later, actual, moves, stored)
      BY <1>6, <1>v, <2>3
    <3>1. VersionIsKnown(r.version, actual, later)
      BY <1>6, <1>p, <2>2, <3>0 DEF ViewIsTrue
    <3>2. RunIsKnown(r.run, moves, later)
      BY <1>6, <1>p, <2>2, <3>0 DEF ViewIsTrue
    <3>3. ASSUME NEW p \in Proposals, ~Touched(p, later), stored[p] \in OpenStatuses
          PROVE  r.open[p] # <<>> /\ r.open[p][1] = stored[p]
      <4>1. CASE p = m.id
        BY <1>6, <1>p, <2>2, <3>3, <4>1
      <4>2. CASE p # m.id
        BY <1>6, <1>p, <2>2, <3>0, <3>3, <4>2 DEF ViewIsTrue
      <4> QED
        BY <4>1, <4>2
    <3> QED
      BY <3>1, <3>2, <3>3 DEF ViewIsTrue
  <2> QED
    BY <1>6, <1>h, <1>m, <2>2, <2>3, NothingPends DEF Current
<1>7. CASE /\ ~e.recovering /\ m.type = "proposal" /\ e.open[m.id] # <<>> /\ m.status \in OpenStatuses
           /\ r = WithCopies(e, m.id, WithStatus(e.open[m.id], m.status))
  <2>1. m.id \in Proposals /\ m.status \in Statuses /\ m.status # "APPLIED"
    BY <1>7, NoticeShape DEF OpenStatuses
  <2>2. PICK t : t = WithStatus(e.open[m.id], m.status)
    OBVIOUS
  <2>a. AreCopies(t) /\ t # <<>> /\ t[1] = m.status
    BY <1>7, <2>1, <2>2, OpenCopies
  <2>3. t \in Seq(Statuses) /\ t # <<>> /\ t[1] = m.status
    BY <2>a DEF AreCopies
  <2>4. r = WithCopies(e, m.id, t)
    BY <1>7, <2>2
  <2> QED
    BY <1>6, <1>7, <2>1, <2>3, <2>4
<1>8. CASE /\ ~e.recovering /\ m.type = "proposal" /\ e.open[m.id] # <<>> /\ m.status \notin OpenStatuses
           /\ m.status # "APPLIED" /\ r = WithCopies(e, m.id, Tail(e.open[m.id]))
  <2>1. m.id \in Proposals
    BY <1>8, NoticeShape
  <2>2. Tail(e.open[m.id]) \in Seq(Statuses)
    BY <1>8, <2>1, ClosedCopies DEF AreCopies
  <2> QED
    BY <1>6, <1>8, <2>2
<1>9. CASE /\ ~e.recovering /\ m.type = "proposal" /\ e.open[m.id] # <<>>
           /\ r = RecoverProduction(WithCopies(e, m.id, Tail(e.open[m.id])))
  <2>1. PICK closed : closed = WithCopies(e, m.id, Tail(e.open[m.id]))
    OBVIOUS
  <2>2. m.id \in Proposals
    BY <1>9, NoticeShape
  <2>3. PICK t : t = Tail(e.open[m.id])
    OBVIOUS
  <2>a. AreCopies(t) /\ closed = WithCopies(e, m.id, t)
    BY <1>9, <2>1, <2>2, <2>3, ClosedCopies
  <2>s. t \in Seq(Statuses)
    BY <2>a DEF AreCopies
  <2>4. Shape(closed, moves) /\ closed.held = e.held
    BY <1>1, <2>a, <2>s, <2>2, CopiesKeepShape, CopiesMake
  <2>5. r = RecoverProduction(closed) /\ SeqTrue(closed.held, later, stored)
    BY <1>9, <1>h, <2>1, <2>4, NothingPends
  <2> QED
    BY <2>4, <2>5, RecoverIsCurrent
<1> QED
  BY <1>1, <1>2, <1>3, <1>4, <1>5, <1>7, <1>8, <1>9, MergeCases

-----------------------------------------------------------------------------
(* Merging what was held into a snapshot.                                  *)

\* What is still to be merged after k notices.
Rest(s, k) == {s[i] : i \in {j \in DOMAIN s : j > k}}

LEMMA RestFacts ==
    ASSUME NEW S, NEW s \in Seq(S), NEW n, n = Len(s)
    PROVE  /\ n \in Nat /\ DOMAIN s = 1..n /\ Rest(s, 0) = Elems(s) /\ Rest(s, n) = {}
           /\ \A k \in Nat : k < n =>
                /\ k + 1 \in DOMAIN s /\ s[k + 1] \in S
                /\ Rest(s, k) = {s[k + 1]} \cup Rest(s, k + 1)
<1>1. n \in Nat /\ DOMAIN s = 1..n /\ \A i \in DOMAIN s : s[i] \in S
  BY SeqEqEmpty
<1>2. {j \in DOMAIN s : j > 0} = DOMAIN s /\ {j \in DOMAIN s : j > n} = {}
  BY <1>1
<1>3. Rest(s, 0) = Elems(s) /\ Rest(s, n) = {}
  BY <1>2 DEF Rest, Elems
<1>4. ASSUME NEW k \in Nat, k < n
      PROVE  /\ k + 1 \in DOMAIN s /\ s[k + 1] \in S
             /\ Rest(s, k) = {s[k + 1]} \cup Rest(s, k + 1)
  <2>1. k + 1 \in DOMAIN s
    BY <1>1, <1>4
  <2>2. {j \in DOMAIN s : j > k} = {k + 1} \cup {j \in DOMAIN s : j > k + 1}
    BY <1>1, <1>4
  <2>3. Rest(s, k) = {s[k + 1]} \cup Rest(s, k + 1)
    BY <2>2 DEF Rest
  <2> QED
    BY <1>1, <2>1, <2>3
<1> QED
  BY <1>1, <1>3, <1>4

LEMMA SaysWhatIsStoredInIt ==
    ASSUME NEW s, NEW k, k \in DOMAIN s, NEW later, NEW stored, SeqTrue(s, later, stored)
    PROVE  SaysWhatIsStored(s[k], Rest(s, k) \cup later, stored)
<1>1. SUFFICES ASSUME s[k].type = "proposal", s[k].status # stored[s[k].id]
               PROVE  Touched(s[k].id, Rest(s, k) \cup later)
  BY DEF SaysWhatIsStored
<1>2. CASE \E j \in DOMAIN s : j > k /\ About(s[j], s[k].id)
  <2>1. PICK j \in DOMAIN s : j > k /\ About(s[j], s[k].id)
    BY <1>2
  <2>2. s[j] \in Rest(s, k)
    BY <2>1 DEF Rest
  <2> QED
    BY <2>1, <2>2 DEF Touched
<1>3. CASE Touched(s[k].id, later)
  BY <1>3 DEF Touched
<1> QED
  BY <1>1, <1>2, <1>3 DEF SeqTrue

LEMMA MergingKeepsShape ==
    ASSUME NEW e, NEW moves \in Nat, Shape(e, moves), NEW notices \in Seq(Notifications),
           JobsTrue(notices, moves), NEW n, n = Len(notices),
           NEW merged, merged = Merging(e, notices)
    PROVE  \A k \in 0..n : Shape(merged[k], moves) /\ merged[k].dirty = e.dirty
<1>1. n \in Nat /\ DOMAIN notices = 1..n /\ \A i \in DOMAIN notices : notices[i] \in Notifications
  BY SeqEqEmpty
<1>2. merged[0] = e /\ \A k \in 1..n : merged[k] = ApplyNotification(merged[k - 1], notices[k])
  BY <1>1, MergingUnfolds
<1> DEFINE T == {k \in Nat : k <= n => Shape(merged[k], moves) /\ merged[k].dirty = e.dirty}
<1>3. 0 \in T
  BY <1>2
<1>4. ASSUME NEW k \in Nat, k \in T PROVE k + 1 \in T
  <2>1. SUFFICES ASSUME k + 1 <= n
                 PROVE  Shape(merged[k + 1], moves) /\ merged[k + 1].dirty = e.dirty
    OBVIOUS
  <2>2. PICK f, r, m : f = merged[k] /\ r = merged[k + 1] /\ m = notices[k + 1]
    OBVIOUS
  <2>3. Shape(f, moves) /\ f.dirty = e.dirty
    BY <1>1, <1>4, <2>1, <2>2
  <2>4. k + 1 \in 1..n /\ (k + 1) - 1 = k
    BY <1>1, <2>1
  <2>5. m \in Notifications /\ r = ApplyNotification(f, m) /\ (m.type = "job" => m.move <= moves)
    BY <1>1, <1>2, <2>2, <2>4 DEF JobsTrue
  <2> QED
    BY <2>2, <2>3, <2>5, MergeKeepsShape
<1> HIDE DEF T
<1>5. \A k \in Nat : k \in T
  BY <1>3, <1>4, NaturalInduction
<1> QED
  BY <1>1, <1>5 DEF T

LEMMA MergingIsCurrent ==
    ASSUME NEW e, NEW moves \in Nat, Shape(e, moves), NEW notices \in Seq(Notifications),
           JobsTrue(notices, moves), NEW n, n = Len(notices),
           NEW later, NEW actual, NEW stored,
           SeqTrue(notices, later, stored), Current(e, Elems(notices) \cup later, actual, moves, stored),
           NEW merged, merged = Merging(e, notices)
    PROVE  Current(merged[n], later, actual, moves, stored)
<1>1. n \in Nat /\ DOMAIN notices = 1..n /\ \A i \in DOMAIN notices : notices[i] \in Notifications
  BY SeqEqEmpty
<1>2. merged[0] = e /\ \A k \in 1..n : merged[k] = ApplyNotification(merged[k - 1], notices[k])
  BY <1>1, MergingUnfolds
<1>s. \A k \in 0..n : Shape(merged[k], moves)
  BY MergingKeepsShape
<1>r. Rest(notices, 0) = Elems(notices) /\ Rest(notices, n) = {}
  BY RestFacts
<1> DEFINE T == {k \in Nat : k <= n => Current(merged[k], Rest(notices, k) \cup later, actual, moves, stored)}
<1>3. 0 \in T
  BY <1>2, <1>r
<1>4. ASSUME NEW k \in Nat, k \in T PROVE k + 1 \in T
  <2>1. SUFFICES ASSUME k + 1 <= n
                 PROVE  Current(merged[k + 1], Rest(notices, k + 1) \cup later, actual, moves, stored)
    OBVIOUS
  <2>2. PICK f, r, m, rest : /\ f = merged[k] /\ r = merged[k + 1] /\ m = notices[k + 1]
                             /\ rest = Rest(notices, k + 1) \cup later
    OBVIOUS
  <2>3. k + 1 \in 1..n /\ (k + 1) - 1 = k /\ k < n /\ k <= n /\ k \in 0..n
    BY <1>1, <2>1
  <2>4. m \in Notifications /\ r = ApplyNotification(f, m) /\ (m.type = "job" => m.move <= moves)
    BY <1>1, <1>2, <2>2, <2>3 DEF JobsTrue
  <2>5. Rest(notices, k) = {m} \cup Rest(notices, k + 1)
    BY <2>2, <2>3, RestFacts
  <2>6. Rest(notices, k) \cup later = {m} \cup rest
    BY <2>2, <2>5
  <2>7. Shape(f, moves) /\ Current(f, {m} \cup rest, actual, moves, stored)
    BY <1>4, <1>s, <2>2, <2>3, <2>6
  <2>8. SaysWhatIsStored(m, rest, stored)
    BY <1>1, <2>2, <2>3, SaysWhatIsStoredInIt
  <2>9. Current(r, rest, actual, moves, stored)
    BY <2>4, <2>7, <2>8, MergeIsCurrent
  <2> QED
    BY <2>2, <2>9
<1> HIDE DEF T
<1>5. \A k \in Nat : k \in T
  BY <1>3, <1>4, NaturalInduction
<1>6. Current(merged[n], Rest(notices, n) \cup later, actual, moves, stored)
  <2>1. n \in T /\ n <= n
    BY <1>1, <1>5
  <2> QED
    BY <2>1 DEF T
<1>7. Rest(notices, n) \cup later = later
  BY <1>r
<1> QED
  BY <1>6, <1>7

LEMMA SnapshotKeepsShape ==
    ASSUME NEW e, NEW moves \in Nat, Shape(e, moves), e.read # None, NEW r, r = Snapshot(e)
    PROVE  Shape(r, moves) /\ r.dirty = e.dirty /\ ~r.recovering /\ r.held = <<>> /\ r.read = None
<1>1. e \in Entries /\ e.read \in Reads /\ ~e.retrying /\ ReadShape(e.read, moves)
  BY EntryShape DEF Shape
<1>2. /\ r \in Entries
      /\ r.version = e.read.version /\ r.run = e.read.run /\ r.open = e.read.open
      /\ r.held = <<>> /\ r.dirty = e.dirty /\ r.recovering = FALSE /\ r.retrying = e.retrying /\ r.read = None
  BY <1>1, SnapshotMakes
<1>3. ASSUME NEW p \in Proposals PROVE Len(r.open[p]) <= 2
  <2>1. r.open[p] \in Seq(Statuses) /\ Len(r.open[p]) <= Listings(e.read.at)
    BY <1>1, <1>2, EntryShape DEF ReadShape
  <2>2. Listings(e.read.at) \in 0..2
    BY DEF Listings
  <2>3. Len(r.open[p]) \in Nat
    BY <2>1, SeqEqEmpty
  <2> QED
    BY <2>1, <2>2, <2>3
<1>4. Shape(r, moves)
  BY <1>1, <1>2, <1>3, NothingPends DEF Shape, ReadShape
<1> QED
  BY <1>2, <1>4

LEMMA SnapshotIsCurrent ==
    ASSUME NEW e, NEW moves \in Nat, Shape(e, moves), e.read # None, e.read.at = "answer",
           NEW later, NEW actual, NEW stored, stored \in [Proposals -> Statuses \cup {None}],
           Current(e, later, actual, moves, stored), NEW r, r = Snapshot(e)
    PROVE  Current(r, Elems(e.held) \cup later, actual, moves, stored)
<1>1. e \in Entries /\ e.read \in Reads
  BY EntryShape DEF Shape
<1>2. /\ r.version = e.read.version /\ r.run = e.read.run /\ r.open = e.read.open
      /\ r.held = <<>> /\ r.dirty = e.dirty /\ r.recovering = FALSE /\ r.read = None
  BY <1>1, SnapshotMakes
<1>3. ASSUME ~e.dirty PROVE ViewIsTrue(r, Elems(e.held) \cup later, actual, moves, stored)
  <2>1. ReadIsTrue(e.read, Elems(e.held) \cup later, actual, moves, stored)
    BY <1>3 DEF Current
  <2>2. /\ VersionIsKnown(r.version, actual, Elems(e.held) \cup later)
        /\ RunIsKnown(r.run, moves, Elems(e.held) \cup later)
    BY <1>2, <2>1 DEF ReadIsTrue
  <2>3. ASSUME NEW p \in Proposals, ~Touched(p, Elems(e.held) \cup later), stored[p] \in OpenStatuses
        PROVE  r.open[p] # <<>> /\ r.open[p][1] = stored[p]
    <3>1. r.open[p] = <<stored[p]>>
      BY <1>2, <2>1, <2>3 DEF ReadIsTrue, IsListed, OpenStatuses
    <3> QED
      BY <3>1
  <2> QED
    BY <2>2, <2>3 DEF ViewIsTrue
<1> QED
  BY <1>2, <1>3, NothingPends DEF Current

LEMMA RecoveredKeepsShape ==
    ASSUME NEW e, NEW moves \in Nat, Shape(e, moves), e.read # None, NEW r, r = Recovered(e)
    PROVE  Shape(r, moves) /\ (r.dirty => r.recovering)
<1>1. PICK s, n, merged, f, u : /\ s = Snapshot(e) /\ n = Len(e.held) /\ merged = Merging(s, e.held)
                                /\ f = merged[n] /\ u = WithDirty(f, FALSE)
  OBVIOUS
<1>2. r = IF f.dirty THEN RecoverProduction(u) ELSE f
  BY <1>1 DEF Recovered, WithDirty
<1>3. e.held \in Seq(Notifications) /\ JobsTrue(e.held, moves) /\ n \in Nat
  BY <1>1, EntryShape, SeqEqEmpty DEF Shape
<1>4. Shape(s, moves)
  BY <1>1, SnapshotKeepsShape
<1>5. Shape(f, moves) /\ f \in Entries /\ f.dirty \in BOOLEAN
  <2>1. Shape(f, moves)
    BY <1>1, <1>3, <1>4, MergingKeepsShape
  <2> QED
    BY <2>1, EntryShape DEF Shape
<1>6. Shape(u, moves)
  <2>0. u = WithDirty(f, FALSE)
    BY <1>1
  <2>1. /\ u \in Entries
        /\ u.version = f.version /\ u.run = f.run /\ u.open = f.open /\ u.held = f.held
        /\ u.recovering = f.recovering /\ u.retrying = f.retrying /\ u.read = f.read
    BY <1>5, <2>0, CleanMakes
  <2> QED
    BY <1>5, <2>1 DEF Shape
<1>7. CASE f.dirty
  BY <1>2, <1>6, <1>7, RecoverKeepsShape
<1>8. CASE ~f.dirty
  BY <1>2, <1>5, <1>8
<1> QED
  BY <1>7, <1>8

LEMMA RecoveredIsCurrent ==
    ASSUME NEW e, NEW moves \in Nat, Shape(e, moves), e.read # None, e.read.at = "answer",
           NEW later, NEW actual, NEW stored, stored \in [Proposals -> Statuses \cup {None}],
           Current(e, later, actual, moves, stored), NEW r, r = Recovered(e)
    PROVE  Current(r, later, actual, moves, stored)
<1>1. PICK s, n, merged, f, u : /\ s = Snapshot(e) /\ n = Len(e.held) /\ merged = Merging(s, e.held)
                                /\ f = merged[n] /\ u = WithDirty(f, FALSE)
  OBVIOUS
<1>2. r = IF f.dirty THEN RecoverProduction(u) ELSE f
  BY <1>1 DEF Recovered, WithDirty
<1>3. e.held \in Seq(Notifications) /\ JobsTrue(e.held, moves) /\ n \in Nat /\ SeqTrue(e.held, later, stored)
  BY <1>1, EntryShape, SeqEqEmpty DEF Shape, Current
<1>4. Shape(s, moves) /\ Current(s, Elems(e.held) \cup later, actual, moves, stored)
  BY <1>1, SnapshotKeepsShape, SnapshotIsCurrent
<1>5. Shape(f, moves) /\ f \in Entries /\ f.dirty \in BOOLEAN
  <2>1. Shape(f, moves)
    BY <1>1, <1>3, <1>4, MergingKeepsShape
  <2> QED
    BY <2>1, EntryShape DEF Shape
<1>6. Current(f, later, actual, moves, stored)
  BY <1>1, <1>3, <1>4, MergingIsCurrent
<1>7. Shape(u, moves) /\ u.held = f.held
  <2>0. u = WithDirty(f, FALSE)
    BY <1>1
  <2>1. /\ u \in Entries
        /\ u.version = f.version /\ u.run = f.run /\ u.open = f.open /\ u.held = f.held
        /\ u.recovering = f.recovering /\ u.retrying = f.retrying /\ u.read = f.read
    BY <1>5, <2>0, CleanMakes
  <2> QED
    BY <1>5, <2>1 DEF Shape
<1>8. CASE f.dirty
  <2>1. SeqTrue(u.held, later, stored)
    BY <1>6, <1>7 DEF Current
  <2> QED
    BY <1>2, <1>7, <1>8, <2>1, RecoverIsCurrent
<1>9. CASE ~f.dirty
  BY <1>2, <1>6, <1>9
<1> QED
  BY <1>8, <1>9

-----------------------------------------------------------------------------
(* Sequences without one of their elements.                                *)

LEMMA RemoveFacts ==
    ASSUME NEW S, NEW s \in Seq(S), NEW i \in DOMAIN s, NEW t, t = RemoveAt(s, i)
    PROVE  t \in Seq(S) /\ \A j \in DOMAIN t : \E k \in DOMAIN s : t[j] = s[k]
<1>1. PICK n : n = Len(s)
  OBVIOUS
<1>2. n \in Nat /\ DOMAIN s = 1..n /\ i \in 1..n /\ \A k \in 1..n : s[k] \in S
  BY <1>1, SeqEqEmpty
<1>3. PICK a, b : a = SubSeq(s, 1, i - 1) /\ b = SubSeq(s, i + 1, n)
  OBVIOUS
<1>4. t = a \o b
  BY <1>1, <1>3 DEF RemoveAt
<1>5. a \in Seq(S) /\ Len(a) = i - 1 /\ \A k \in 1..(i - 1) : a[k] = s[k]
  <2>1. \A k \in 1..(i - 1) : s[k] \in S
    BY <1>2
  <2>2. /\ SubSeq(s, 1, i - 1) \in Seq(S)
        /\ Len(SubSeq(s, 1, i - 1)) = IF 1 <= i - 1 THEN (i - 1) - 1 + 1 ELSE 0
        /\ \A k \in 1..((i - 1) - 1 + 1) : SubSeq(s, 1, i - 1)[k] = s[1 + k - 1]
    BY <1>2, <2>1, SubSeqProperties
  <2> QED
    BY <1>2, <1>3, <2>2
<1>6. b \in Seq(S) /\ Len(b) = n - i /\ \A k \in 1..(n - i) : b[k] = s[k + i]
  <2>1. \A k \in (i + 1)..n : s[k] \in S
    BY <1>2
  <2>2. /\ SubSeq(s, i + 1, n) \in Seq(S)
        /\ Len(SubSeq(s, i + 1, n)) = IF i + 1 <= n THEN n - (i + 1) + 1 ELSE 0
        /\ \A k \in 1..(n - (i + 1) + 1) : SubSeq(s, i + 1, n)[k] = s[(i + 1) + k - 1]
    BY <1>2, <2>1, SubSeqProperties
  <2> QED
    BY <1>2, <1>3, <2>2
<1>7. /\ t \in Seq(S) /\ Len(t) = n - 1 /\ DOMAIN t = 1..(n - 1)
      /\ \A k \in 1..(n - 1) : t[k] = IF k <= i - 1 THEN a[k] ELSE b[k - (i - 1)]
  <2>1. /\ a \o b \in Seq(S) /\ Len(a \o b) = Len(a) + Len(b)
        /\ \A k \in 1..(Len(a) + Len(b)) : (a \o b)[k] = IF k <= Len(a) THEN a[k] ELSE b[k - Len(a)]
    BY <1>5, <1>6, ConcatProperties
  <2>2. Len(a) = i - 1 /\ Len(a) + Len(b) = n - 1
    BY <1>2, <1>5, <1>6
  <2>3. /\ t \in Seq(S) /\ Len(t) = n - 1
        /\ \A k \in 1..(n - 1) : t[k] = IF k <= i - 1 THEN a[k] ELSE b[k - (i - 1)]
    BY <1>4, <2>1, <2>2
  <2>4. DOMAIN t = 1..(n - 1)
    BY <2>3, SeqEqEmpty
  <2> QED
    BY <2>3, <2>4
<1>8. ASSUME NEW j \in DOMAIN t PROVE \E k \in DOMAIN s : t[j] = s[k]
  <2>1. CASE j <= i - 1
    <3>1. j \in 1..(i - 1) /\ j \in 1..n /\ t[j] = a[j]
      BY <1>2, <1>7, <2>1
    <3> QED
      BY <1>2, <1>5, <3>1
  <2>2. CASE j > i - 1
    <3>1. /\ j - (i - 1) \in 1..(n - i) /\ t[j] = b[j - (i - 1)]
          /\ (j - (i - 1)) + i = j + 1 /\ j + 1 \in 1..n
      BY <1>2, <1>7, <2>2
    <3>2. b[j - (i - 1)] = s[(j - (i - 1)) + i]
      BY <1>6, <3>1
    <3> QED
      BY <1>2, <3>1, <3>2
  <2> QED
    BY <1>2, <1>7, <2>1, <2>2
<1> QED
  BY <1>7, <1>8

LEMMA FirstRemoved ==
    ASSUME NEW S, NEW s \in Seq(S), s # <<>>
    PROVE  RemoveAt(s, 1) = Tail(s)
<1>1. PICK n : n = Len(s)
  OBVIOUS
<1>2. n \in Nat /\ DOMAIN s = 1..n /\ \A k \in 1..n : s[k] \in S
  BY <1>1, SeqEqEmpty
<1>3. SubSeq(s, 1, 1 - 1) = <<>>
  BY SubSeqEmpty
<1>4. Tail(s) = SubSeq(s, 2, n)
  BY <1>1, TailIsSubSeq
<1>5. PICK t : t = Tail(s)
  OBVIOUS
<1>6. t \in Seq(S)
  BY <1>5, HeadTailProperties
<1>7. RemoveAt(s, 1) = <<>> \o t
  BY <1>1, <1>3, <1>4, <1>5 DEF RemoveAt
<1>8. <<>> \o t = t
  BY <1>6, ConcatEmptySeq
<1> QED
  BY <1>5, <1>7, <1>8

-----------------------------------------------------------------------------
(* Every recovery is under way, in whatever order notices are published.   *)

WorldOK ==
    /\ version \in Nat /\ run \in Nat
    /\ records \in [Proposals -> Statuses \cup {None}]
    /\ outbox \in Seq(Notifications) /\ JobsTrue(outbox, run)
    /\ link \in {"none", "connecting", "open", "lost", "closing"}
    /\ subscribed \in BOOLEAN
    /\ up \in Seq(ClientMessages)
    /\ down \in Seq(ServerMessages) /\ JobsTrue(down, run)
    /\ status \in {"idle", "connecting", "open", "reconnecting", "closed"}
    /\ closedByUser \in BOOLEAN /\ reconnecting \in BOOLEAN
    /\ budget \in Budgets

EntryOK(e, moves) == e # None => Shape(e, moves) /\ (e.dirty => e.recovering)

RecoveryInv == WorldOK /\ EntryOK(entry, run)

LEMMA RecoveryInvIsSound == RecoveryInv => RecoveryIsSound
  BY DEF RecoveryInv, WorldOK, EntryOK, Shape, RecoveryIsSound, RealtimeTypeOK, RecoveryIsUnderWay

LEMMA SpendingIsTyped ==
    ASSUME budget \in Budgets, NEW kind \in {"writes", "faults", "calls", "follows"}, Spend(kind)
    PROVE  budget' \in Budgets
<1>1. /\ budget' = [budget EXCEPT ![kind] = budget[kind] - 1] /\ budget[kind] > 0
      /\ MaxWrites \in Nat /\ MaxFaults \in Nat /\ MaxCalls \in Nat /\ MaxFollows \in Nat
  BY BudgetsAreNatural DEF Spend
<1>2. CASE kind = "writes"
  BY <1>1, <1>2 DEF Budgets
<1>3. CASE kind = "faults"
  BY <1>1, <1>3 DEF Budgets
<1>4. CASE kind = "calls"
  BY <1>1, <1>4 DEF Budgets
<1>5. CASE kind = "follows"
  BY <1>1, <1>5 DEF Budgets
<1> QED
  BY <1>2, <1>3, <1>4, <1>5

LEMMA MoreMoves ==
    ASSUME NEW moves \in Nat, NEW more \in Nat, moves <= more
    PROVE  /\ \A s \in Seq(Notifications) : JobsTrue(s, moves) => JobsTrue(s, more)
           /\ \A s \in Seq(ServerMessages) : JobsTrue(s, moves) => JobsTrue(s, more)
           /\ \A e : EntryOK(e, moves) => EntryOK(e, more)
<1>1. ASSUME NEW s \in Seq(Notifications), JobsTrue(s, moves) PROVE JobsTrue(s, more)
  <2>1. ASSUME NEW i \in DOMAIN s, s[i].type = "job" PROVE s[i].move <= more
    <3>1. s[i] \in Notifications
      BY SeqEqEmpty
    <3>2. s[i].move \in Nat /\ s[i].move <= moves
      BY <1>1, <2>1, <3>1, NoticeShape DEF JobsTrue
    <3> QED
      BY <3>2
  <2> QED
    BY <2>1 DEF JobsTrue
<1>2. ASSUME NEW s \in Seq(ServerMessages), JobsTrue(s, moves) PROVE JobsTrue(s, more)
  <2>1. ASSUME NEW i \in DOMAIN s, s[i].type = "job" PROVE s[i].move <= more
    <3>1. s[i] \in ServerMessages
      BY SeqEqEmpty
    <3>2. s[i].move \in Nat /\ s[i].move <= moves
      BY <1>2, <2>1, <3>1, MessageShape, NoticeShape DEF JobsTrue
    <3> QED
      BY <3>2
  <2> QED
    BY <2>1 DEF JobsTrue
<1>3. ASSUME NEW e, Shape(e, moves) PROVE Shape(e, more)
  <2>1. e \in Entries /\ e.run \in Nat /\ e.held \in Seq(Notifications) /\ e.read \in Reads \cup {None}
    BY <1>3, EntryShape DEF Shape
  <2>2. e.run <= more /\ JobsTrue(e.held, more)
    BY <1>1, <1>3, <2>1 DEF Shape
  <2>3. ASSUME e.read # None PROVE ReadShape(e.read, more)
    <3>1. e.read.run \in Nat
      BY <2>1, <2>3, ReadsShape
    <3>2. ReadShape(e.read, moves)
      BY <1>3, <2>3 DEF Shape
    <3> QED
      BY <3>1, <3>2 DEF ReadShape
  <2> QED
    BY <1>3, <2>1, <2>2, <2>3 DEF Shape
<1> QED
  BY <1>1, <1>2, <1>3 DEF EntryOK

LEMMA EmptyEntryShape ==
    ASSUME NEW moves \in Nat
    PROVE  /\ Shape(EmptyEntry, moves) /\ EntryOK(EmptyEntry, moves)
           /\ EmptyEntry # None /\ EmptyEntry.held = <<>>
<1>1. <<>> \in Seq(Notifications)
  BY EmptySeq
<1>2. EmptyEntry \in Entries
  BY <1>1, NothingRead DEF EmptyEntry, Entries
<1>3. /\ EmptyEntry.run = 0 /\ EmptyEntry.held = <<>> /\ EmptyEntry.read = None /\ EmptyEntry.recovering = FALSE
      /\ EmptyEntry.retrying = FALSE /\ EmptyEntry.dirty = FALSE /\ EmptyEntry.open = NoCopies
  BY DEF EmptyEntry
<1>4. Shape(EmptyEntry, moves)
  BY <1>2, <1>3, NothingRead, NothingPends DEF Shape
<1> QED
  BY <1>2, <1>3, <1>4, NoneIsNothing DEF EntryOK

LEMMA RecoveryInit == Init => RecoveryInv
<1>1. <<>> \in Seq(Notifications) /\ <<>> \in Seq(ClientMessages) /\ <<>> \in Seq(ServerMessages)
  BY EmptySeq
<1>2. Init => budget \in Budgets
  BY BudgetsAreNatural DEF Init, Budgets
<1>3. ASSUME Init PROVE WorldOK
  <2>1. /\ outbox \in Seq(Notifications) /\ up \in Seq(ClientMessages) /\ down \in Seq(ServerMessages)
        /\ JobsTrue(outbox, run) /\ JobsTrue(down, run)
    BY <1>1, <1>3, NothingPends DEF Init
  <2>2. records \in [Proposals -> Statuses \cup {None}]
    BY <1>3 DEF Init
  <2> QED
    BY <1>2, <1>3, <2>1, <2>2 DEF Init, WorldOK
<1> QED
  BY <1>3 DEF Init, RecoveryInv, EntryOK

-----------------------------------------------------------------------------
(* What a step makes of an entry.                                          *)

LEMMA AbandonKeepsShape ==
    ASSUME NEW e, NEW moves \in Nat, Shape(e, moves), NEW r, r = AbandonRecovery(e)
    PROVE  Shape(r, moves) /\ ~r.dirty /\ r.held = <<>> /\ EntryOK(r, moves)
<1>1. e \in Entries /\ e.recovering \in BOOLEAN /\ e.retrying \in BOOLEAN
  BY EntryShape DEF Shape
<1>2. /\ r \in Entries
      /\ r.version = e.version /\ r.run = e.run /\ r.open = e.open /\ r.read = e.read
      /\ r.held = <<>> /\ r.dirty = FALSE /\ r.retrying = FALSE
      /\ r.recovering = (e.recovering /\ ~e.retrying)
  BY <1>1, AbandonRecoveryMakes
<1>3. Shape(r, moves)
  BY <1>1, <1>2, NothingPends DEF Shape
<1> QED
  BY <1>2, <1>3 DEF EntryOK

LEMMA ReadSnapshotKeepsShape ==
    ASSUME NEW e, NEW moves \in Nat, Shape(e, moves), NEW r, r = ReadSnapshot(e)
    PROVE  /\ Shape(r, moves) /\ r.recovering /\ r.held = e.held /\ r.dirty = e.dirty /\ r.read = FirstRead
           /\ EntryOK(r, moves)
<1>1. e \in Entries
  BY DEF Shape
<1>2. /\ r \in Entries
      /\ r.version = e.version /\ r.run = e.run /\ r.open = e.open /\ r.held = e.held /\ r.dirty = e.dirty
      /\ r.recovering = TRUE /\ r.retrying = FALSE /\ r.read = FirstRead
  BY <1>1, ReadSnapshotMakes
<1>3. ReadShape(FirstRead, moves)
  BY NothingRead DEF ReadShape, Listings
<1>4. Shape(r, moves)
  BY <1>2, <1>3, NothingRead DEF Shape
<1> QED
  BY <1>2, <1>4 DEF EntryOK

LEMMA FailedReadKeepsShape ==
    ASSUME NEW e, NEW moves \in Nat, Shape(e, moves), e.read # None,
           NEW r, r = [e EXCEPT !.retrying = TRUE, !.read = None]
    PROVE  /\ Shape(r, moves) /\ r.recovering /\ r.held = e.held /\ r.dirty = e.dirty /\ r.read = None
           /\ EntryOK(r, moves)
<1>1. e \in Entries /\ e.recovering /\ e.recovering \in BOOLEAN
  BY EntryShape DEF Shape
<1>2. /\ r \in Entries
      /\ r.version = e.version /\ r.run = e.run /\ r.open = e.open /\ r.held = e.held /\ r.dirty = e.dirty
      /\ r.recovering = e.recovering /\ r.retrying = TRUE /\ r.read = None
  BY <1>1 DEF Entries
<1>3. Shape(r, moves)
  BY <1>1, <1>2 DEF Shape
<1> QED
  BY <1>1, <1>2, <1>3 DEF EntryOK

LEMMA GivenUpReadKeepsShape ==
    ASSUME NEW e, NEW moves \in Nat, Shape(e, moves),
           NEW r, r = [AbandonRecovery(e) EXCEPT !.recovering = FALSE, !.read = None]
    PROVE  Shape(r, moves) /\ r.held = <<>> /\ EntryOK(r, moves)
<1>1. PICK a : a = AbandonRecovery(e)
  OBVIOUS
<1>2. Shape(a, moves) /\ ~a.dirty /\ a.held = <<>> /\ a \in Entries /\ a.retrying = FALSE
  BY <1>1, AbandonKeepsShape, AbandonRecoveryMakes DEF Shape
<1>3. r = [a EXCEPT !.recovering = FALSE, !.read = None]
  BY <1>1
<1>4. /\ r \in Entries
      /\ r.version = a.version /\ r.run = a.run /\ r.open = a.open /\ r.held = a.held /\ r.dirty = a.dirty
      /\ r.recovering = FALSE /\ r.retrying = a.retrying /\ r.read = None
  BY <1>2, <1>3 DEF Entries
<1>5. Shape(r, moves)
  BY <1>2, <1>4 DEF Shape
<1> QED
  BY <1>2, <1>4, <1>5 DEF EntryOK

LEMMA ReadOnKeepsShape ==
    ASSUME NEW e, NEW moves \in Nat, Shape(e, moves), e.read # None,
           NEW read \in Reads, ReadShape(read, moves), NEW r, r = WithRead(e, read)
    PROVE  /\ Shape(r, moves) /\ r.recovering /\ r.held = e.held /\ r.dirty = e.dirty /\ r.read = read
           /\ EntryOK(r, moves)
<1>0. e \in Entries
  BY DEF Shape
<1>1. e.recovering /\ read # None /\ ~e.retrying
  BY ReadsShape DEF Shape
<1>2. /\ r \in Entries /\ r.read = read
      /\ r.version = e.version /\ r.held = e.held /\ r.open = e.open /\ r.dirty = e.dirty
      /\ r.recovering = e.recovering /\ r.retrying = e.retrying /\ r.run = e.run
  BY <1>0, ReadMakes
<1>3. Shape(r, moves)
  BY <1>0, <1>1, <1>2 DEF Shape
<1> QED
  BY <1>1, <1>2, <1>3 DEF EntryOK

LEMMA RecoverIsOK ==
    ASSUME NEW e, NEW moves \in Nat, Shape(e, moves), NEW r, r = RecoverProduction(e)
    PROVE  EntryOK(r, moves)
  BY RecoverKeepsShape DEF EntryOK

LEMMA MergeIsOK ==
    ASSUME NEW e, NEW moves \in Nat, Shape(e, moves), e.dirty => e.recovering, NEW m \in Notifications,
           m.type = "job" => m.move <= moves, NEW r, r = ApplyNotification(e, m)
    PROVE  EntryOK(r, moves)
<1>1. Shape(r, moves) /\ r.dirty = e.dirty /\ (e.recovering => r.recovering)
  BY MergeKeepsShape
<1> QED
  BY <1>1 DEF EntryOK

-----------------------------------------------------------------------------
(* The calls of a recovery's read.                                         *)

ListedIn(stored, open, wanted) ==
    [p \in Proposals |-> IF stored[p] = wanted THEN Append(open[p], wanted) ELSE open[p]]

AfterVersion(read, actual) == [[read EXCEPT !.version = actual] EXCEPT !.at = "undecided"]
AfterUndecided(read, stored) ==
    [[read EXCEPT !.open = ListedIn(stored, read.open, "AWAITING_APPROVAL")] EXCEPT !.at = "approved"]
AfterApproved(read, stored) ==
    [[read EXCEPT !.open = ListedIn(stored, read.open, "APPROVED")] EXCEPT !.at = "jobs"]
AfterJobs(read, moves) == [[read EXCEPT !.run = moves] EXCEPT !.at = "answer"]

LEMMA VersionIsRead ==
    ASSUME NEW before \in Reads, before.at = "version", NEW actual \in Nat, NEW moves \in Nat,
           ReadShape(before, moves), NEW read, read = AfterVersion(before, actual)
    PROVE  /\ read \in Reads /\ ReadShape(read, moves)
           /\ \A pending, stored : ReadIsTrue(before, pending, actual, moves, stored)
                                     => ReadIsTrue(read, pending, actual, moves, stored)
<1>1. /\ read \in Reads /\ read.at = "undecided" /\ read.version = actual
      /\ read.run = before.run /\ read.open = before.open
  BY DEF Reads, ReadPoints, AfterVersion
<1>2. ReadShape(read, moves)
  BY <1>1 DEF ReadShape, Listings
<1>3. ASSUME NEW pending, NEW stored, ReadIsTrue(before, pending, actual, moves, stored)
      PROVE  ReadIsTrue(read, pending, actual, moves, stored)
  BY <1>1, <1>3 DEF ReadIsTrue, IsListed, VersionIsKnown
<1> QED
  BY <1>1, <1>2, <1>3

LEMMA RunIsRead ==
    ASSUME NEW before \in Reads, before.at = "jobs", NEW moves \in Nat,
           ReadShape(before, moves), NEW read, read = AfterJobs(before, moves)
    PROVE  /\ read \in Reads /\ ReadShape(read, moves)
           /\ \A pending, actual, stored : ReadIsTrue(before, pending, actual, moves, stored)
                                             => ReadIsTrue(read, pending, actual, moves, stored)
<1>1. /\ read \in Reads /\ read.at = "answer" /\ read.run = moves
      /\ read.version = before.version /\ read.open = before.open
  BY DEF Reads, ReadPoints, AfterJobs
<1>2. ReadShape(read, moves)
  BY <1>1 DEF ReadShape, Listings
<1>3. ASSUME NEW pending, NEW actual, NEW stored, ReadIsTrue(before, pending, actual, moves, stored)
      PROVE  ReadIsTrue(read, pending, actual, moves, stored)
  BY <1>1, <1>3 DEF ReadIsTrue, IsListed, RunIsKnown
<1> QED
  BY <1>1, <1>2, <1>3

LEMMA ListedCopies ==
    ASSUME NEW open \in Copies, NEW wanted \in Statuses, NEW stored, NEW listed, listed = ListedIn(stored, open, wanted)
    PROVE  /\ listed \in Copies
           /\ \A p \in Proposals :
                /\ stored[p] # wanted => listed[p] = open[p]
                /\ stored[p] = wanted => listed[p] = Append(open[p], wanted)
                /\ \A n \in Nat : Len(open[p]) <= n => Len(listed[p]) <= n + 1
<1>1. \A p \in Proposals : open[p] \in Seq(Statuses)
  BY DEF Copies
<1>2. ASSUME NEW p \in Proposals
      PROVE  /\ Append(open[p], wanted) \in Seq(Statuses) /\ Len(Append(open[p], wanted)) = Len(open[p]) + 1
             /\ Len(open[p]) \in Nat
  BY <1>1, AppendProperties, SeqEqEmpty
<1>3. \A p \in Proposals : listed[p] = IF stored[p] = wanted THEN Append(open[p], wanted) ELSE open[p]
  BY DEF ListedIn
<1>4. listed \in Copies
  <2>1. \A p \in Proposals : listed[p] \in Seq(Statuses)
    BY <1>1, <1>2, <1>3
  <2>2. listed = [p \in Proposals |-> listed[p]]
    BY DEF ListedIn
  <2> QED
    BY <2>1, <2>2 DEF Copies
<1>5. ASSUME NEW p \in Proposals, NEW n \in Nat, Len(open[p]) <= n PROVE Len(listed[p]) <= n + 1
  <2>1. Len(open[p]) \in Nat /\ Len(Append(open[p], wanted)) = Len(open[p]) + 1
    BY <1>2
  <2>2. listed[p] = open[p] \/ listed[p] = Append(open[p], wanted)
    BY <1>3
  <2>3. Len(listed[p]) = Len(open[p]) \/ Len(listed[p]) = Len(open[p]) + 1
    BY <2>1, <2>2
  <2> QED
    BY <1>5, <2>1, <2>3
<1> QED
  BY <1>3, <1>4, <1>5

LEMMA UndecidedAreRead ==
    ASSUME NEW before \in Reads, before.at = "undecided", NEW moves \in Nat, NEW stored,
           ReadShape(before, moves),
           NEW read, read = AfterUndecided(before, stored)
    PROVE  /\ read \in Reads /\ ReadShape(read, moves)
           /\ \A pending, actual : ReadIsTrue(before, pending, actual, moves, stored)
                                     => ReadIsTrue(read, pending, actual, moves, stored)
<1>1. PICK listed : listed = ListedIn(stored, before.open, "AWAITING_APPROVAL")
  OBVIOUS
<1>2. before.open \in Copies /\ "AWAITING_APPROVAL" \in Statuses
  BY ReadsShape DEF Statuses, OpenStatuses
<1>3. /\ listed \in Copies
      /\ \A p \in Proposals :
           /\ stored[p] # "AWAITING_APPROVAL" => listed[p] = before.open[p]
           /\ stored[p] = "AWAITING_APPROVAL" => listed[p] = Append(before.open[p], "AWAITING_APPROVAL")
           /\ \A n \in Nat : Len(before.open[p]) <= n => Len(listed[p]) <= n + 1
  BY <1>1, <1>2, ListedCopies
<1>4. /\ read \in Reads /\ read.at = "approved" /\ read.open = listed
      /\ read.version = before.version /\ read.run = before.run
  BY <1>1, <1>3 DEF Reads, ReadPoints, AfterUndecided
<1>5. ReadShape(read, moves)
  <2>1. \A p \in Proposals : Len(before.open[p]) <= 0
    BY DEF ReadShape, Listings
  <2>2. \A p \in Proposals : Len(listed[p]) <= 1
    BY <1>3, <2>1
  <2> QED
    BY <1>4, <2>2 DEF ReadShape, Listings
<1>6. ASSUME NEW pending, NEW actual, ReadIsTrue(before, pending, actual, moves, stored)
      PROVE  ReadIsTrue(read, pending, actual, moves, stored)
  <2>1. ASSUME NEW p \in Proposals, ~Touched(p, pending)
        PROVE  read.open[p] = IF IsListed(stored[p], "approved") THEN <<stored[p]>> ELSE <<>>
    <3>1. before.open[p] = <<>>
      BY <1>6, <2>1 DEF ReadIsTrue, IsListed
    <3>2. Append(<<>>, "AWAITING_APPROVAL") = <<"AWAITING_APPROVAL">>
      OBVIOUS
    <3> QED
      BY <1>3, <1>4, <3>1, <3>2 DEF IsListed
  <2> QED
    BY <1>4, <1>6, <2>1 DEF ReadIsTrue
<1> QED
  BY <1>4, <1>5, <1>6

LEMMA ApprovedAreRead ==
    ASSUME NEW before \in Reads, before.at = "approved", NEW moves \in Nat, NEW stored,
           ReadShape(before, moves),
           NEW read, read = AfterApproved(before, stored)
    PROVE  /\ read \in Reads /\ ReadShape(read, moves)
           /\ \A pending, actual : ReadIsTrue(before, pending, actual, moves, stored)
                                     => ReadIsTrue(read, pending, actual, moves, stored)
<1>1. PICK listed : listed = ListedIn(stored, before.open, "APPROVED")
  OBVIOUS
<1>2. before.open \in Copies /\ "APPROVED" \in Statuses
  BY ReadsShape DEF Statuses, OpenStatuses
<1>3. /\ listed \in Copies
      /\ \A p \in Proposals :
           /\ stored[p] # "APPROVED" => listed[p] = before.open[p]
           /\ stored[p] = "APPROVED" => listed[p] = Append(before.open[p], "APPROVED")
           /\ \A n \in Nat : Len(before.open[p]) <= n => Len(listed[p]) <= n + 1
  BY <1>1, <1>2, ListedCopies
<1>4. /\ read \in Reads /\ read.at = "jobs" /\ read.open = listed
      /\ read.version = before.version /\ read.run = before.run
  BY <1>1, <1>3 DEF Reads, ReadPoints, AfterApproved
<1>5. ReadShape(read, moves)
  <2>1. \A p \in Proposals : Len(before.open[p]) <= 1
    BY DEF ReadShape, Listings
  <2>2. \A p \in Proposals : Len(listed[p]) <= 2
    BY <1>3, <2>1
  <2> QED
    BY <1>4, <2>2 DEF ReadShape, Listings
<1>6. ASSUME NEW pending, NEW actual, ReadIsTrue(before, pending, actual, moves, stored)
      PROVE  ReadIsTrue(read, pending, actual, moves, stored)
  <2>1. ASSUME NEW p \in Proposals, ~Touched(p, pending)
        PROVE  read.open[p] = IF IsListed(stored[p], "jobs") THEN <<stored[p]>> ELSE <<>>
    <3>1. before.open[p] = IF IsListed(stored[p], "approved") THEN <<stored[p]>> ELSE <<>>
      BY <1>6, <2>1 DEF ReadIsTrue
    <3>2. Append(<<>>, "APPROVED") = <<"APPROVED">>
      OBVIOUS
    <3> QED
      BY <1>3, <1>4, <3>1, <3>2 DEF IsListed
  <2> QED
    BY <1>4, <1>6, <2>1 DEF ReadIsTrue
<1> QED
  BY <1>4, <1>5, <1>6

-----------------------------------------------------------------------------
(* Steps of the world.                                                     *)

LEMMA AppendIsSeq ==
    ASSUME NEW S, NEW s \in Seq(S), NEW x \in S
    PROVE  Append(s, x) \in Seq(S)
  BY AppendProperties

LEMMA TailIsSeq ==
    ASSUME NEW S, NEW s \in Seq(S), s # <<>>
    PROVE  Tail(s) \in Seq(S) /\ Head(s) = s[1] /\ s[1] \in S
  BY TailFacts

LEMMA JobsTrueAppendNotice ==
    ASSUME NEW moves, NEW m, m.type = "job" => m.move <= moves
    PROVE  /\ \A s \in Seq(Notifications) : m \in Notifications /\ JobsTrue(s, moves) => JobsTrue(Append(s, m), moves)
           /\ \A s \in Seq(ServerMessages) : m \in ServerMessages /\ JobsTrue(s, moves) => JobsTrue(Append(s, m), moves)
  BY JobsTrueAppend

LEMMA AnswersAreMessages ==
    /\ \A t \in {"welcome", "subscribed", "unsubscribed"} :
         [type |-> t] \in ServerMessages /\ [type |-> t].type = t
    /\ Notifications \subseteq ServerMessages
  BY DEF ServerMessages

LEMMA WrittenIsStatus ==
    ASSUME NEW old \in Statuses \cup {None}
    PROVE  Written(old) \subseteq Statuses
  BY DEF Written, Statuses, OpenStatuses, ClosedStatuses

LEMMA WriteNotice ==
    ASSUME NEW p \in Proposals, NEW new \in Statuses, NEW m, m = [type |-> "proposal", id |-> p, status |-> new]
    PROVE  m \in Notifications /\ m.type = "proposal" /\ m.id = p /\ m.status = new
  BY DEF Notifications

LEMMA MoveNotice ==
    ASSUME NEW n \in Nat, NEW m, m = [type |-> "job", move |-> n]
    PROVE  m \in Notifications /\ m.type = "job" /\ m.move = n
  BY DEF Notifications

LEMMA WriteStep ==
    ASSUME WorldOK, NEW p \in Proposals, WriteProposal(p)
    PROVE  \E new \in Written(records[p]), m \in Notifications :
             /\ m.type = "proposal" /\ m.id = p /\ m.status = new /\ new \in Statuses
             /\ outbox' = Append(outbox, m)
             /\ records' = [records EXCEPT ![p] = new]
             /\ version' = IF new = "APPLIED" THEN version + 1 ELSE version
<1>1. PICK new \in Written(records[p]) :
        /\ records' = [records EXCEPT ![p] = new]
        /\ version' = IF new = "APPLIED" THEN version + 1 ELSE version
        /\ outbox' = Append(outbox, [type |-> "proposal", id |-> p, status |-> new])
  BY DEF WriteProposal
<1>2. new \in Statuses
  <2>1. records[p] \in Statuses \cup {None}
    BY DEF WorldOK
  <2> QED
    BY <1>1, <2>1, WrittenIsStatus
<1>3. PICK m : m = [type |-> "proposal", id |-> p, status |-> new]
  OBVIOUS
<1>4. m \in Notifications /\ m.type = "proposal" /\ m.id = p /\ m.status = new
  BY <1>2, <1>3, WriteNotice
<1>5. outbox' = Append(outbox, m)
  BY <1>1, <1>3
<1> QED
  BY <1>1, <1>2, <1>4, <1>5

LEMMA MoveStep ==
    ASSUME WorldOK, MoveRun
    PROVE  /\ run' = run + 1 /\ run' \in Nat
           /\ \E m \in Notifications : m.type = "job" /\ m.move = run' /\ outbox' = Append(outbox, m)
<1>1. run' = run + 1 /\ run' \in Nat /\ outbox' = Append(outbox, [type |-> "job", move |-> run'])
  BY DEF MoveRun, WorldOK
<1>2. PICK m : m = [type |-> "job", move |-> run']
  OBVIOUS
<1>3. m \in Notifications /\ m.type = "job" /\ m.move = run'
  BY <1>1, <1>2, MoveNotice
<1> QED
  BY <1>1, <1>2, <1>3

LEMMA PublishStep ==
    ASSUME WorldOK, Publish
    PROVE  /\ outbox' \in Seq(Notifications) /\ JobsTrue(outbox', run)
           /\ down' \in Seq(ServerMessages) /\ JobsTrue(down', run)
<1>0. /\ outbox \in Seq(Notifications) /\ JobsTrue(outbox, run)
      /\ down \in Seq(ServerMessages) /\ JobsTrue(down, run)
  BY DEF WorldOK
<1>1. PICK i \in DOMAIN outbox :
        /\ outbox' = RemoveAt(outbox, i)
        /\ down' = IF IsConnected /\ subscribed THEN Append(down, outbox[i]) ELSE down
  BY DEF Publish
<1>2. PICK m : m = outbox[i]
  OBVIOUS
<1>3. m \in Notifications /\ m \in ServerMessages /\ (m.type = "job" => m.move <= run)
  BY <1>0, <1>1, <1>2, SeqEqEmpty, AnswersAreMessages DEF JobsTrue
<1>4. outbox' \in Seq(Notifications) /\ \A j \in DOMAIN outbox' : \E k \in DOMAIN outbox : outbox'[j] = outbox[k]
  BY <1>0, <1>1, RemoveFacts
<1>5. JobsTrue(outbox', run)
  BY <1>0, <1>4 DEF JobsTrue
<1>6. Append(down, m) \in Seq(ServerMessages) /\ JobsTrue(Append(down, m), run)
  BY <1>0, <1>3, AppendIsSeq, JobsTrueAppendNotice
<1> QED
  BY <1>0, <1>1, <1>2, <1>4, <1>5, <1>6

LEMMA WorldStep ==
    ASSUME WorldOK, Next
    PROVE  WorldOK' /\ run' \in Nat /\ run <= run'
<1>0. /\ version \in Nat /\ run \in Nat
      /\ records \in [Proposals -> Statuses \cup {None}]
      /\ outbox \in Seq(Notifications) /\ JobsTrue(outbox, run)
      /\ link \in {"none", "connecting", "open", "lost", "closing"}
      /\ subscribed \in BOOLEAN
      /\ up \in Seq(ClientMessages)
      /\ down \in Seq(ServerMessages) /\ JobsTrue(down, run)
      /\ status \in {"idle", "connecting", "open", "reconnecting", "closed"}
      /\ closedByUser \in BOOLEAN /\ reconnecting \in BOOLEAN
      /\ budget \in Budgets
  BY DEF WorldOK
<1>e. /\ <<>> \in Seq(Notifications) /\ <<>> \in Seq(ClientMessages) /\ <<>> \in Seq(ServerMessages)
      /\ JobsTrue(<<>>, run)
  BY EmptySeq, NothingPends
<1>s. /\ Append(up, "subscribe") \in Seq(ClientMessages) /\ Append(up, "unsubscribe") \in Seq(ClientMessages)
      /\ up # <<>> => Tail(up) \in Seq(ClientMessages)
  BY <1>0, AppendIsSeq, TailIsSeq DEF ClientMessages
<1>1. ASSUME NEW p \in Proposals, WriteProposal(p) PROVE WorldOK' /\ run' \in Nat /\ run <= run'
  <2>1. PICK new \in Written(records[p]), m \in Notifications :
             /\ m.type = "proposal" /\ m.id = p /\ m.status = new /\ new \in Statuses
             /\ outbox' = Append(outbox, m)
             /\ records' = [records EXCEPT ![p] = new]
             /\ version' = IF new = "APPLIED" THEN version + 1 ELSE version
    BY <1>1, WriteStep
  <2>2. outbox' \in Seq(Notifications) /\ JobsTrue(outbox', run)
    BY <1>0, <2>1, AppendIsSeq, JobsTrueAppendNotice
  <2>3. records' \in [Proposals -> Statuses \cup {None}] /\ version' \in Nat
    BY <1>0, <2>1
  <2>4. UNCHANGED <<run, link, subscribed, up, down, status, closedByUser, reconnecting>> /\ budget' \in Budgets
    BY <1>0, <1>1, SpendingIsTyped DEF WriteProposal, socketVars, clientVars
  <2> QED
    BY <1>0, <2>2, <2>3, <2>4 DEF WorldOK
<1>2. CASE MoveRun
  <2>1. run' = run + 1 /\ run' \in Nat /\ run <= run'
    BY <1>0, <1>2, MoveStep
  <2>2. PICK m \in Notifications : m.type = "job" /\ m.move = run' /\ outbox' = Append(outbox, m)
    BY <1>2, MoveStep
  <2>3. JobsTrue(outbox, run') /\ JobsTrue(down, run')
    BY <1>0, <2>1, MoreMoves
  <2>a. m.move \in Nat /\ m.move <= run'
    BY <2>1, <2>2
  <2>4. outbox' \in Seq(Notifications) /\ JobsTrue(outbox', run')
    BY <1>0, <2>2, <2>3, <2>a, AppendIsSeq, JobsTrueAppendNotice
  <2>5. /\ UNCHANGED <<version, records, link, subscribed, up, down, status, closedByUser, reconnecting>>
        /\ budget' \in Budgets
    BY <1>0, <1>2, SpendingIsTyped DEF MoveRun, socketVars, clientVars
  <2> QED
    BY <1>0, <2>1, <2>3, <2>4, <2>5 DEF WorldOK
<1>3. CASE Publish
  <2>1. /\ outbox' \in Seq(Notifications) /\ JobsTrue(outbox', run)
        /\ down' \in Seq(ServerMessages) /\ JobsTrue(down', run)
    BY <1>3, PublishStep
  <2>2. UNCHANGED <<version, run, records, link, subscribed, up, status, closedByUser, reconnecting, budget>>
    BY <1>3 DEF Publish, clientVars
  <2> QED
    BY <1>0, <2>1, <2>2 DEF WorldOK
<1>4. CASE Accept
  <2>1. PICK m : m = [type |-> "welcome"]
    OBVIOUS
  <2>2. m \in ServerMessages /\ m.type = "welcome" /\ down' = <<m>>
    BY <1>4, <2>1, AnswersAreMessages DEF Accept
  <2>3. <<m>> \in Seq(ServerMessages) /\ JobsTrue(<<m>>, run)
    BY <2>2 DEF JobsTrue
  <2>4. /\ link' = "open" /\ subscribed' \in BOOLEAN
        /\ UNCHANGED <<version, run, records, outbox, up, status, closedByUser, reconnecting, budget>>
    BY <1>4 DEF Accept, serverVars, clientVars
  <2> QED
    BY <1>0, <2>2, <2>3, <2>4 DEF WorldOK
<1>5. CASE AnswerClient
  <2>1. PICK m : m = [type |-> IF Head(up) = "subscribe" THEN "subscribed" ELSE "unsubscribed"]
    OBVIOUS
  <2>2. m \in ServerMessages /\ m.type # "job" /\ down' = Append(down, m)
    BY <1>5, <2>1, AnswersAreMessages DEF AnswerClient
  <2>3. Append(down, m) \in Seq(ServerMessages) /\ JobsTrue(Append(down, m), run)
    BY <1>0, <2>2, AppendIsSeq, JobsTrueAppendNotice
  <2>4. /\ up' \in Seq(ClientMessages) /\ subscribed' \in BOOLEAN
        /\ UNCHANGED <<version, run, records, outbox, link, status, closedByUser, reconnecting, budget>>
    BY <1>5, <1>s DEF AnswerClient, serverVars, clientVars
  <2> QED
    BY <1>0, <2>2, <2>3, <2>4 DEF WorldOK
<1>6. CASE LoseSocket
  <2>1. /\ link' = "lost" /\ subscribed' \in BOOLEAN /\ up' = <<>> /\ down' = <<>> /\ outbox' \in {outbox, <<>>}
        /\ UNCHANGED <<version, run, records, status, closedByUser, reconnecting>> /\ budget' \in Budgets
    BY <1>0, <1>6, SpendingIsTyped DEF LoseSocket, clientVars
  <2>2. /\ outbox' \in Seq(Notifications) /\ JobsTrue(outbox', run)
        /\ up' \in Seq(ClientMessages) /\ down' \in Seq(ServerMessages) /\ JobsTrue(down', run)
    BY <1>0, <1>e, <2>1
  <2> QED
    BY <1>0, <2>1, <2>2 DEF WorldOK
<1>7. CASE Reading
  BY <1>0, <1>7 DEF Reading, LoadVersion, ListUndecided, ListApproved, ListJobs, SnapshotArrives, ReadOn, Update,
                    serverVars, socketVars, WorldOK
<1>8. CASE ReadFails
  <2>1. UNCHANGED <<serverVars, socketVars, status, closedByUser, reconnecting>> /\ budget' \in Budgets
    BY <1>0, <1>8, SpendingIsTyped DEF ReadFails, Update
  <2> QED
    BY <1>0, <2>1 DEF serverVars, socketVars, WorldOK
<1>9. CASE RetryFires
  BY <1>0, <1>9 DEF RetryFires, Update, serverVars, socketVars, WorldOK
<1>10. CASE Receive
  <2>1. down # <<>> /\ down' = Tail(down) /\ UNCHANGED <<version, run, records, outbox, link, subscribed, budget>>
    BY <1>10 DEF Receive, serverVars
  <2>2. down' \in Seq(ServerMessages) /\ JobsTrue(down', run)
    BY <1>0, <2>1, TailIsSeq, JobsTrueTail
  <2>3. up' \in {up, Append(up, "subscribe")} /\ status' \in {status, "open"} /\ UNCHANGED <<closedByUser, reconnecting>>
    BY <1>10 DEF Receive, ReceiveWelcome, ReceiveSubscribed, ReceiveNotification, Send, Update, clientVars
  <2> QED
    BY <1>0, <1>s, <2>1, <2>2, <2>3 DEF WorldOK
<1>11. CASE ReconnectFires
  <2>1. /\ UNCHANGED <<version, run, records, outbox, subscribed, up, down, closedByUser, budget>>
        /\ reconnecting' \in BOOLEAN /\ link' = "connecting" /\ status' \in {status, "connecting"}
    BY <1>11 DEF ReconnectFires, OpenSocket, serverVars
  <2> QED
    BY <1>0, <2>1 DEF WorldOK
<1>12. CASE SocketCloses
  <2>1. /\ UNCHANGED <<version, run, records, outbox, closedByUser, budget>>
        /\ subscribed' \in BOOLEAN /\ link' = "none" /\ up' = <<>> /\ down' = <<>>
        /\ status' \in {"closed", "reconnecting"}
    BY <1>12 DEF SocketCloses, serverVars
  <2>2. reconnecting' \in BOOLEAN
    BY <1>12 DEF SocketCloses
  <2> QED
    BY <1>0, <1>e, <2>1, <2>2 DEF WorldOK
<1>13. CASE Connect
  <2>1. budget' \in Budgets
    BY <1>0, <1>13, SpendingIsTyped DEF Connect
  <2> QED
    <3>1. /\ UNCHANGED <<version, run, records, outbox, subscribed, up, down, reconnecting>>
          /\ closedByUser' \in BOOLEAN /\ link' = "connecting" /\ status' \in {status, "connecting"}
      BY <1>13 DEF Connect, OpenSocket, serverVars
    <3> QED
      BY <1>0, <2>1, <3>1 DEF WorldOK
<1>14. CASE Follow
  <2>1. budget' \in Budgets
    BY <1>0, <1>14, SpendingIsTyped DEF Follow
  <2>2. up' \in {up, Append(up, "subscribe")}
    BY <1>14 DEF Follow, Send
  <2>3. up' \in Seq(ClientMessages)
    BY <1>0, <1>s, <2>2
  <2> QED
    <3>1. UNCHANGED <<version, run, records, outbox, link, subscribed, down, status, closedByUser, reconnecting>>
      BY <1>14 DEF Follow, serverVars
    <3> QED
      BY <1>0, <2>1, <2>3, <3>1 DEF WorldOK
<1>15. CASE Unfollow
  <2>1. budget' \in Budgets
    BY <1>0, <1>15, SpendingIsTyped DEF Unfollow
  <2>2. up' \in {up, Append(up, "unsubscribe")}
    BY <1>15 DEF Unfollow, Send
  <2>3. up' \in Seq(ClientMessages)
    BY <1>0, <1>s, <2>2
  <2> QED
    <3>1. UNCHANGED <<version, run, records, outbox, link, subscribed, down, status, closedByUser, reconnecting>>
      BY <1>15 DEF Unfollow, serverVars
    <3> QED
      BY <1>0, <2>1, <2>3, <3>1 DEF WorldOK
<1>16. CASE Recover
  <2>1. budget' \in Budgets
    BY <1>0, <1>16, SpendingIsTyped DEF Recover
  <2> QED
    BY <1>0, <1>16, <2>1 DEF Recover, Update, serverVars, socketVars, WorldOK
<1>17. CASE Close
  <2>1. budget' \in Budgets
    BY <1>0, <1>17, SpendingIsTyped DEF Close
  <2> QED
    <3>1. /\ UNCHANGED <<version, run, records, outbox, subscribed, up, down>>
          /\ closedByUser' \in BOOLEAN /\ reconnecting' \in BOOLEAN
          /\ link' \in {link, "closing"} /\ status' \in {status, "closed"}
      BY <1>17 DEF Close, serverVars
    <3> QED
      BY <1>0, <2>1, <3>1 DEF WorldOK
<1> QED
  BY <1>1, <1>2, <1>3, <1>4, <1>5, <1>6, <1>7, <1>8, <1>9, <1>10, <1>11, <1>12, <1>13, <1>14, <1>15, <1>16, <1>17
  DEF Next, Server, User

-----------------------------------------------------------------------------
(* Steps of the entry.                                                     *)

\* One of the four calls of a read.
ReadsOn == LoadVersion \/ ListUndecided \/ ListApproved \/ ListJobs

LEMMA ReadsOnStep ==
    ASSUME WorldOK, entry # None, Shape(entry, run), ReadsOn
    PROVE  \E read \in Reads :
             /\ entry.read # None /\ entry' = WithRead(entry, read) /\ ReadShape(read, run)
             /\ \A pending : ReadIsTrue(entry.read, pending, version, run, records)
                               => ReadIsTrue(read, pending, version, run, records)
<1>1. version \in Nat /\ run \in Nat
  BY DEF WorldOK
<1>2. entry \in Entries /\ entry.read # None
  BY DEF Shape, ReadsOn, LoadVersion, ListUndecided, ListApproved, ListJobs, ReadOn, IsReading
<1>3. PICK before : before = entry.read
  OBVIOUS
<1>4. before \in Reads /\ ReadShape(before, run)
  BY <1>2, <1>3, EntryShape DEF Shape
<1>5. CASE LoadVersion
  <2>1. PICK read : read = AfterVersion(before, version)
    OBVIOUS
  <2>2. before.at = "version" /\ entry' = WithRead(entry, read)
    BY <1>3, <1>5, <2>1 DEF LoadVersion, ReadOn, IsReading, Update, WithRead, AfterVersion
  <2>3. /\ read \in Reads /\ ReadShape(read, run)
        /\ \A pending : ReadIsTrue(before, pending, version, run, records)
                           => ReadIsTrue(read, pending, version, run, records)
    BY <1>1, <1>4, <2>1, <2>2, VersionIsRead
  <2> QED
    BY <1>2, <1>3, <2>2, <2>3
<1>6. CASE ListUndecided
  <2>1. PICK read : read = AfterUndecided(before, records)
    OBVIOUS
  <2>2. before.at = "undecided" /\ entry' = WithRead(entry, read)
    BY <1>3, <1>6, <2>1 DEF ListUndecided, Listed, ListedIn, ReadOn, IsReading, Update, WithRead, AfterUndecided
  <2>3. /\ read \in Reads /\ ReadShape(read, run)
        /\ \A pending : ReadIsTrue(before, pending, version, run, records)
                           => ReadIsTrue(read, pending, version, run, records)
    BY <1>1, <1>4, <2>1, <2>2, UndecidedAreRead
  <2> QED
    BY <1>2, <1>3, <2>2, <2>3
<1>7. CASE ListApproved
  <2>1. PICK read : read = AfterApproved(before, records)
    OBVIOUS
  <2>2. before.at = "approved" /\ entry' = WithRead(entry, read)
    BY <1>3, <1>7, <2>1 DEF ListApproved, Listed, ListedIn, ReadOn, IsReading, Update, WithRead, AfterApproved
  <2>3. /\ read \in Reads /\ ReadShape(read, run)
        /\ \A pending : ReadIsTrue(before, pending, version, run, records)
                           => ReadIsTrue(read, pending, version, run, records)
    BY <1>1, <1>4, <2>1, <2>2, ApprovedAreRead
  <2> QED
    BY <1>2, <1>3, <2>2, <2>3
<1>8. CASE ListJobs
  <2>1. PICK read : read = AfterJobs(before, run)
    OBVIOUS
  <2>2. before.at = "jobs" /\ entry' = WithRead(entry, read)
    BY <1>3, <1>8, <2>1 DEF ListJobs, ReadOn, IsReading, Update, WithRead, AfterJobs
  <2>3. /\ read \in Reads /\ ReadShape(read, run)
        /\ \A pending : ReadIsTrue(before, pending, version, run, records)
                           => ReadIsTrue(read, pending, version, run, records)
    BY <1>1, <1>4, <2>1, <2>2, RunIsRead
  <2> QED
    BY <1>2, <1>3, <2>2, <2>3
<1> QED
  BY <1>5, <1>6, <1>7, <1>8 DEF ReadsOn

\* What a message from the gateway does, by its type.
ReceiveCases ==
    \/ down[1].type = "welcome" /\ ReceiveWelcome
    \/ down[1].type = "subscribed" /\ ReceiveSubscribed
    \/ down[1] \in Notifications /\ ReceiveNotification(down[1])
    \/ down[1].type = "unsubscribed" /\ UNCHANGED <<up, clientVars>>

LEMMA ReceiveStep ==
    ASSUME WorldOK, Receive
    PROVE  /\ down # <<>> /\ down' = Tail(down) /\ link \in {"open", "closing"} /\ ReceiveCases
           /\ down[1] \in ServerMessages /\ (down[1].type = "job" => down[1].move <= run)
           /\ UNCHANGED <<link, subscribed, serverVars, budget>>
<1>1. /\ down \in Seq(ServerMessages) /\ JobsTrue(down, run) /\ down # <<>>
  BY DEF WorldOK, Receive
<1>2. Head(down) = down[1] /\ down[1] \in ServerMessages /\ (down[1].type = "job" => down[1].move <= run)
  BY <1>1, TailIsSeq, JobsTrueTail
<1>3. PICK m : m = down[1]
  OBVIOUS
<1>4. /\ m \in Notifications \/ m.type \in {"welcome", "subscribed", "unsubscribed"}
      /\ m.type \in {"job", "proposal"} => m \in Notifications
      /\ m \in Notifications => m.type \in {"job", "proposal"}
  BY <1>2, <1>3, MessageShape, NoticeShape
<1>5. /\ m.type = "welcome" => ReceiveWelcome
      /\ m.type = "subscribed" => ReceiveSubscribed
      /\ m.type \in {"job", "proposal"} => ReceiveNotification(m)
      /\ m.type = "unsubscribed" => UNCHANGED <<up, clientVars>>
  <2>1. Head(down) = m
    BY <1>2, <1>3
  <2> QED
    BY <2>1 DEF Receive
<1>6. ReceiveCases
  BY <1>3, <1>4, <1>5 DEF ReceiveCases
<1>7. /\ down' = Tail(down) /\ link \in {"open", "closing"}
      /\ UNCHANGED <<link, subscribed, serverVars, budget>>
  BY DEF Receive, IsConnected
<1> QED
  BY <1>1, <1>2, <1>6, <1>7

LEMMA EntryStep ==
    ASSUME RecoveryInv, Next
    PROVE  EntryOK(entry', run')
<1>0. WorldOK /\ EntryOK(entry, run) /\ run \in Nat /\ run' \in Nat /\ run <= run'
  BY WorldStep DEF RecoveryInv, WorldOK
<1>u. entry' = entry => EntryOK(entry', run')
  BY <1>0, MoreMoves
<1>n. entry' = None => EntryOK(entry', run')
  BY DEF EntryOK
<1>e. entry # None => Shape(entry, run) /\ (entry.dirty => entry.recovering)
  BY <1>0 DEF EntryOK
<1>1. CASE \/ \E p \in Proposals : WriteProposal(p)
           \/ MoveRun \/ Server \/ LoseSocket \/ ReconnectFires \/ Connect
  BY <1>1, <1>u DEF WriteProposal, MoveRun, Server, Publish, Accept, AnswerClient, LoseSocket, ReconnectFires,
                    Connect, clientVars
<1>2. CASE ReadsOn
  <2>1. run' = run /\ entry # None
    BY <1>2 DEF ReadsOn, LoadVersion, ListUndecided, ListApproved, ListJobs, ReadOn, IsReading, serverVars
  <2>2. PICK read \in Reads : entry.read # None /\ entry' = WithRead(entry, read) /\ ReadShape(read, run)
    BY <1>0, <1>2, <1>e, <2>1, ReadsOnStep
  <2> QED
    BY <1>0, <1>e, <2>1, <2>2, ReadOnKeepsShape
<1>3. CASE SnapshotArrives
  <2>1. run' = run /\ entry # None /\ entry.read # None /\ entry' = Recovered(entry)
    BY <1>3 DEF SnapshotArrives, IsReading, Update, serverVars
  <2>2. Shape(entry', run) /\ (entry'.dirty => entry'.recovering)
    BY <1>0, <1>e, <2>1, RecoveredKeepsShape
  <2> QED
    BY <2>1, <2>2 DEF EntryOK
<1>4. CASE ReadFails
  <2>1. run' = run /\ entry # None /\ entry.read # None
    BY <1>4 DEF ReadFails, serverVars
  <2>2. \/ entry' = [AbandonRecovery(entry) EXCEPT !.recovering = FALSE, !.read = None]
        \/ entry' = [entry EXCEPT !.retrying = TRUE, !.read = None]
    BY <1>4 DEF ReadFails, Update
  <2> QED
    BY <1>0, <1>e, <2>1, <2>2, GivenUpReadKeepsShape, FailedReadKeepsShape
<1>5. CASE RetryFires
  <2>1. run' = run /\ entry # None /\ entry' = ReadSnapshot(entry)
    BY <1>5 DEF RetryFires, Update, serverVars
  <2> QED
    BY <1>0, <1>e, <2>1, ReadSnapshotKeepsShape
<1>6. CASE Receive
  <2>1. run' = run /\ ReceiveCases /\ (down[1].type = "job" => down[1].move <= run)
    BY <1>0, <1>6, ReceiveStep DEF serverVars
  <2>2. CASE ReceiveNotification(down[1]) /\ down[1] \in Notifications
    <3>1. entry # None => entry' = ApplyNotification(entry, down[1])
      BY <2>2 DEF ReceiveNotification, Update
    <3>2. entry = None => entry' = entry
      BY <2>2 DEF ReceiveNotification, clientVars
    <3>3. ASSUME entry # None PROVE EntryOK(entry', run)
      BY <1>0, <1>e, <2>1, <2>2, <3>1, <3>3, MergeIsOK
    <3> QED
      BY <1>u, <2>1, <3>2, <3>3
  <2>3. CASE ReceiveSubscribed
    <3>1. entry # None => entry' = RecoverProduction(entry)
      BY <2>3 DEF ReceiveSubscribed, Update
    <3>2. entry = None => entry' = entry
      BY <2>3 DEF ReceiveSubscribed, clientVars
    <3> QED
      BY <1>0, <1>e, <1>u, <2>1, <3>1, <3>2, RecoverIsOK
  <2>4. CASE ReceiveWelcome \/ UNCHANGED <<up, clientVars>>
    BY <1>u, <2>4 DEF ReceiveWelcome, clientVars
  <2> QED
    BY <2>1, <2>2, <2>3, <2>4 DEF ReceiveCases
<1>7. CASE SocketCloses \/ Close
  <2>1. run' = run /\ entry' = IF entry = None THEN None ELSE AbandonRecovery(entry)
    BY <1>7 DEF SocketCloses, Close, serverVars
  <2> QED
    BY <1>0, <1>e, <1>n, <2>1, AbandonKeepsShape
<1>8. CASE Follow
  BY <1>0, <1>8, EmptyEntryShape DEF Follow
<1>9. CASE Unfollow
  BY <1>9, <1>n DEF Unfollow
<1>10. CASE Recover
  <2>1. run' = run /\ entry # None /\ entry' = RecoverProduction(entry)
    BY <1>10 DEF Recover, Update, serverVars
  <2> QED
    BY <1>0, <1>e, <2>1, RecoverIsOK
<1> QED
  BY <1>1, <1>2, <1>3, <1>4, <1>5, <1>6, <1>7, <1>8, <1>9, <1>10 DEF Next, Reading, ReadsOn, User

LEMMA RecoveryStep == RecoveryInv /\ [Next]_vars => RecoveryInv'
<1>1. ASSUME RecoveryInv, Next PROVE RecoveryInv'
  <2>1. WorldOK'
    BY <1>1, WorldStep DEF RecoveryInv
  <2>2. EntryOK(entry', run')
    BY <1>1, EntryStep
  <2> QED
    BY <2>1, <2>2 DEF RecoveryInv
<1>2. ASSUME RecoveryInv, UNCHANGED vars PROVE RecoveryInv'
  BY <1>2 DEF RecoveryInv, WorldOK, vars, serverVars, socketVars, clientVars
<1> QED
  BY <1>1, <1>2

\* The records of a followed production are always well formed, and a recovery
\* that is shown as running has a read or a timer behind it: for any proposals
\* and bounds, and in whatever order the server publishes.
THEOREM RecoveryStaysSound == Spec => []RecoveryIsSound
<1>1. RecoveryInv => RecoveryIsSound
  BY RecoveryInvIsSound
<1> QED
  BY <1>1, RecoveryInit, RecoveryStep, PTL DEF Spec

-----------------------------------------------------------------------------
(* What is known stays known, or is told of.                               *)

\* A write, and the notice that tells of it.
IsNews(n, actual, moves, stored, actual2, moves2, stored2) ==
    /\ actual2 = actual \/ (n.type = "proposal" /\ n.status = "APPLIED")
    /\ moves2 = moves \/ (n.type = "job" /\ n.move = moves2)
    /\ \A p \in Proposals : stored2[p] = stored[p] \/ About(n, p)

LEMMA NewsIsPending ==
    ASSUME NEW n, NEW actual, NEW moves, NEW stored, NEW actual2, NEW moves2, NEW stored2,
           IsNews(n, actual, moves, stored, actual2, moves2, stored2),
           NEW S, NEW S2, S \subseteq S2, n \in S2
    PROVE  /\ \A known : VersionIsKnown(known, actual, S) => VersionIsKnown(known, actual2, S2)
           /\ \A known : RunIsKnown(known, moves, S) => moves2 # moves \/ RunIsKnown(known, moves2, S2)
           /\ \A known : moves2 # moves => RunIsKnown(known, moves2, S2)
           /\ \A p \in Proposals : Touched(p, S) => Touched(p, S2)
           /\ \A p \in Proposals : Touched(p, S2) \/ stored2[p] = stored[p]
<1>1. \A known : VersionIsKnown(known, actual, S) => VersionIsKnown(known, actual2, S2)
  BY DEF VersionIsKnown, IsNews
<1>2. \A known : RunIsKnown(known, moves, S) => moves2 # moves \/ RunIsKnown(known, moves2, S2)
  BY DEF RunIsKnown, IsNews
<1>3. \A known : moves2 # moves => RunIsKnown(known, moves2, S2)
  BY DEF RunIsKnown, IsNews
<1>4. \A p \in Proposals : Touched(p, S) => Touched(p, S2)
  BY DEF Touched
<1>5. \A p \in Proposals : Touched(p, S2) \/ stored2[p] = stored[p]
  BY DEF Touched, IsNews
<1> QED
  BY <1>1, <1>2, <1>3, <1>4, <1>5

LEMMA NewsForReads ==
    ASSUME NEW n, NEW actual, NEW moves, NEW stored, NEW actual2, NEW moves2, NEW stored2,
           IsNews(n, actual, moves, stored, actual2, moves2, stored2),
           NEW S, NEW S2, S \subseteq S2, n \in S2, NEW read, ReadIsTrue(read, S, actual, moves, stored)
    PROVE  ReadIsTrue(read, S2, actual2, moves2, stored2)
<1>1. read.at # "version" => VersionIsKnown(read.version, actual2, S2)
  BY NewsIsPending DEF ReadIsTrue
<1>2. read.at = "answer" => RunIsKnown(read.run, moves2, S2)
  BY NewsIsPending DEF ReadIsTrue
<1>3. ASSUME NEW p \in Proposals, ~Touched(p, S2)
      PROVE  read.open[p] = IF IsListed(stored2[p], read.at) THEN <<stored2[p]>> ELSE <<>>
  <2>1. ~Touched(p, S) /\ stored2[p] = stored[p]
    BY <1>3, NewsIsPending
  <2> QED
    BY <2>1 DEF ReadIsTrue
<1> QED
  BY <1>1, <1>2, <1>3 DEF ReadIsTrue

LEMMA NewsForViews ==
    ASSUME NEW n, NEW actual, NEW moves, NEW stored, NEW actual2, NEW moves2, NEW stored2,
           IsNews(n, actual, moves, stored, actual2, moves2, stored2),
           NEW S, NEW S2, S \subseteq S2, n \in S2, NEW e, ViewIsTrue(e, S, actual, moves, stored)
    PROVE  ViewIsTrue(e, S2, actual2, moves2, stored2)
<1>1. VersionIsKnown(e.version, actual2, S2) /\ RunIsKnown(e.run, moves2, S2)
  BY NewsIsPending DEF ViewIsTrue
<1>2. ASSUME NEW p \in Proposals, ~Touched(p, S2), stored2[p] \in OpenStatuses
      PROVE  e.open[p] # <<>> /\ e.open[p][1] = stored2[p]
  <2>1. ~Touched(p, S) /\ stored2[p] = stored[p]
    BY <1>2, NewsIsPending
  <2> QED
    BY <1>2, <2>1 DEF ViewIsTrue
<1> QED
  BY <1>1, <1>2 DEF ViewIsTrue

LEMMA NewsForSequences ==
    ASSUME NEW n, NEW actual, NEW moves, NEW stored, NEW actual2, NEW moves2, NEW stored2,
           IsNews(n, actual, moves, stored, actual2, moves2, stored2),
           NEW S, NEW S2, S \subseteq S2, n \in S2, NEW s, SeqTrue(s, S, stored),
           \A i \in DOMAIN s : s[i].type = "proposal" => s[i].id \in Proposals
    PROVE  SeqTrue(s, S2, stored2)
<1>1. ASSUME NEW i \in DOMAIN s, s[i].type = "proposal"
      PROVE  \/ s[i].status = stored2[s[i].id]
             \/ \E j \in DOMAIN s : j > i /\ About(s[j], s[i].id)
             \/ Touched(s[i].id, S2)
  <2>1. PICK p \in Proposals : p = s[i].id
    BY <1>1
  <2>2. Touched(p, S2) \/ (stored2[p] = stored[p] /\ ~Touched(p, S))
    BY NewsIsPending
  <2> QED
    BY <1>1, <2>1, <2>2 DEF SeqTrue
<1> QED
  BY <1>1 DEF SeqTrue

LEMMA NewsForEntries ==
    ASSUME NEW n, NEW actual, NEW moves, NEW stored, NEW actual2, NEW moves2, NEW stored2,
           IsNews(n, actual, moves, stored, actual2, moves2, stored2),
           NEW S, NEW S2, S \subseteq S2, n \in S2, NEW e, e.held \in Seq(Notifications),
           Current(e, S, actual, moves, stored)
    PROVE  Current(e, S2, actual2, moves2, stored2)
<1>1. \A i \in DOMAIN e.held : e.held[i].type = "proposal" => e.held[i].id \in Proposals
  BY SeqEqEmpty, NoticeShape
<1>2. SeqTrue(e.held, S2, stored2)
  BY <1>1, NewsForSequences DEF Current
<1>3. ASSUME e.read # None, ~e.dirty
      PROVE  ReadIsTrue(e.read, Elems(e.held) \cup S2, actual2, moves2, stored2)
  <2>1. PICK T, T2 : T = Elems(e.held) \cup S /\ T2 = Elems(e.held) \cup S2
    OBVIOUS
  <2>2. T \subseteq T2 /\ n \in T2 /\ ReadIsTrue(e.read, T, actual, moves, stored)
    BY <1>3, <2>1 DEF Current
  <2>3. ReadIsTrue(e.read, T2, actual2, moves2, stored2)
    BY <2>2, NewsForReads
  <2> QED
    BY <2>1, <2>3
<1>4. ASSUME ~e.recovering, ~e.dirty PROVE ViewIsTrue(e, S2, actual2, moves2, stored2)
  <2>1. ViewIsTrue(e, S, actual, moves, stored)
    BY <1>4 DEF Current
  <2> QED
    BY <2>1, NewsForViews
<1> QED
  BY <1>2, <1>3, <1>4 DEF Current

\* Only notices tell of anything.
LEMMA OnlyNoticesTell ==
    ASSUME NEW S, NEW S2, \A m \in S : m.type \in {"job", "proposal"} => m \in S2,
           NEW actual, NEW moves, NEW stored
    PROVE  /\ \A e : Current(e, S, actual, moves, stored) => Current(e, S2, actual, moves, stored)
           /\ \A s : SeqTrue(s, S, stored) => SeqTrue(s, S2, stored)
<1>1. \A p : Touched(p, S) => Touched(p, S2)
  BY DEF Touched, About
<1>2. \A s : SeqTrue(s, S, stored) => SeqTrue(s, S2, stored)
  BY <1>1 DEF SeqTrue
<1>3. ASSUME NEW e, Current(e, S, actual, moves, stored) PROVE Current(e, S2, actual, moves, stored)
  <2>1. SeqTrue(e.held, S2, stored)
    BY <1>2, <1>3 DEF Current
  <2>2. ASSUME e.read # None, ~e.dirty PROVE ReadIsTrue(e.read, Elems(e.held) \cup S2, actual, moves, stored)
    <3>1. ReadIsTrue(e.read, Elems(e.held) \cup S, actual, moves, stored)
      BY <1>3, <2>2 DEF Current
    <3>2. \A p : Touched(p, Elems(e.held) \cup S) => Touched(p, Elems(e.held) \cup S2)
      BY <1>1 DEF Touched
    <3>3. \A known : VersionIsKnown(known, actual, Elems(e.held) \cup S)
                       => VersionIsKnown(known, actual, Elems(e.held) \cup S2)
      BY DEF VersionIsKnown
    <3>4. \A known : RunIsKnown(known, moves, Elems(e.held) \cup S)
                       => RunIsKnown(known, moves, Elems(e.held) \cup S2)
      BY DEF RunIsKnown
    <3> QED
      BY <3>1, <3>2, <3>3, <3>4 DEF ReadIsTrue
  <2>3. ASSUME ~e.recovering, ~e.dirty PROVE ViewIsTrue(e, S2, actual, moves, stored)
    <3>1. ViewIsTrue(e, S, actual, moves, stored)
      BY <1>3, <2>3 DEF Current
    <3>2. \A known : VersionIsKnown(known, actual, S) => VersionIsKnown(known, actual, S2)
      BY DEF VersionIsKnown
    <3>3. \A known : RunIsKnown(known, moves, S) => RunIsKnown(known, moves, S2)
      BY DEF RunIsKnown
    <3> QED
      BY <1>1, <3>1, <3>2, <3>3 DEF ViewIsTrue
  <2> QED
    BY <2>1, <2>2, <2>3 DEF Current
<1> QED
  BY <1>2, <1>3

-----------------------------------------------------------------------------
(* A followed production, where its socket is open.                        *)

QuietDown(d) == \A i \in DOMAIN d : d[i].type \in {"welcome", "unsubscribed"}
Acked(d) == \E i \in DOMAIN d : d[i].type = "subscribed"
AcksFirst(d) ==
    \A i, j \in DOMAIN d : d[i].type = "subscribed" =>
       /\ d[j].type \in {"job", "proposal"} => j > i
       /\ d[j].type = "subscribed" => j = i

\* Subscribed and told so, the view follows the records; before that nothing is
\* held, and the answer will start a recovery.
FollowedOK(e, sub, u, d, o, actual, moves, stored) ==
    /\ u = <<>> \/ u = <<"subscribe">>
    /\ u # <<>> => ~sub
    /\ ~sub => e.held = <<>> /\ QuietDown(d)
    /\ sub => AcksFirst(d) /\ SeqTrue(d, Elems(o), stored)
    /\ sub /\ Acked(d) => e.held = <<>>
    /\ sub /\ ~Acked(d) => Current(e, Elems(d) \cup Elems(o), actual, moves, stored)

LEMMA AppendFacts ==
    ASSUME NEW S, NEW s \in Seq(S), NEW x \in S, NEW t, t = Append(s, x), NEW n, n = Len(s)
    PROVE  /\ t \in Seq(S) /\ n \in Nat /\ DOMAIN s = 1..n /\ DOMAIN t = 1..(n + 1) /\ t[n + 1] = x
           /\ \A i \in DOMAIN s : i \in DOMAIN t /\ t[i] = s[i] /\ i < n + 1
           /\ \A i \in DOMAIN t : i \in DOMAIN s \/ i = n + 1
           /\ n + 1 \in DOMAIN t
<1>1. t \in Seq(S) /\ n \in Nat /\ DOMAIN s = 1..n /\ DOMAIN t = 1..(n + 1) /\ t[n + 1] = x
      /\ \A i \in 1..n : t[i] = s[i]
  BY LenProperties, AppendProperties
<1> QED
  BY <1>1

LEMMA QuietAppend ==
    ASSUME NEW s \in Seq(ServerMessages), NEW x \in ServerMessages, NEW t, t = Append(s, x)
    PROVE  /\ x.type \in {"welcome", "unsubscribed"} /\ QuietDown(s) => QuietDown(t)
           /\ x.type \in {"job", "proposal"} /\ AcksFirst(s) => AcksFirst(t)
           /\ x.type \in {"job", "proposal"} => (Acked(t) <=> Acked(s))
           /\ x.type = "subscribed" /\ QuietDown(s) => AcksFirst(t) /\ Acked(t)
           /\ x.type = "subscribed" /\ QuietDown(s) => \A later, stored : SeqTrue(t, later, stored)
<1>1. PICK n : n = Len(s)
  OBVIOUS
<1>2. /\ n \in Nat /\ DOMAIN s = 1..n /\ DOMAIN t = 1..(n + 1) /\ t[n + 1] = x
      /\ \A i \in DOMAIN s : i \in DOMAIN t /\ t[i] = s[i] /\ i < n + 1
      /\ \A i \in DOMAIN t : i \in DOMAIN s \/ i = n + 1
      /\ n + 1 \in DOMAIN t
  BY <1>1, AppendFacts
<1>3. x.type \in {"welcome", "unsubscribed"} /\ QuietDown(s) => QuietDown(t)
  BY <1>2 DEF QuietDown
<1>4. ASSUME x.type \in {"job", "proposal"}, AcksFirst(s) PROVE AcksFirst(t)
  <2>1. SUFFICES ASSUME NEW i \in DOMAIN t, NEW j \in DOMAIN t, t[i].type = "subscribed"
                 PROVE  /\ t[j].type \in {"job", "proposal"} => j > i
                        /\ t[j].type = "subscribed" => j = i
    BY DEF AcksFirst
  <2>2. i \in DOMAIN s /\ t[i] = s[i] /\ i < n + 1
    BY <1>2, <1>4, <2>1
  <2>3. CASE j \in DOMAIN s
    BY <1>2, <1>4, <2>1, <2>2, <2>3 DEF AcksFirst
  <2>4. CASE j = n + 1
    BY <1>2, <1>4, <2>2, <2>4
  <2> QED
    BY <1>2, <2>3, <2>4
<1>5. x.type \in {"job", "proposal"} => (Acked(t) <=> Acked(s))
  BY <1>2 DEF Acked
<1>6. ASSUME x.type = "subscribed", QuietDown(s) PROVE AcksFirst(t) /\ Acked(t)
  <2>1. Acked(t)
    BY <1>2, <1>6 DEF Acked
  <2>2. \A i \in DOMAIN t : t[i].type \in {"job", "proposal", "subscribed"} => i = n + 1
    BY <1>2, <1>6 DEF QuietDown
  <2>3. \A i \in DOMAIN t : t[i].type \notin {"job", "proposal"}
    BY <1>2, <1>6 DEF QuietDown
  <2> QED
    BY <2>1, <2>2, <2>3 DEF AcksFirst
<1>7. ASSUME x.type = "subscribed", QuietDown(s), NEW later, NEW stored PROVE SeqTrue(t, later, stored)
  <2>1. \A i \in DOMAIN t : t[i].type # "proposal"
    BY <1>2, <1>7 DEF QuietDown
  <2> QED
    BY <2>1 DEF SeqTrue
<1> QED
  BY <1>3, <1>4, <1>5, <1>6, <1>7

LEMMA QuietTail ==
    ASSUME NEW s \in Seq(ServerMessages), s # <<>>, NEW t, t = Tail(s)
    PROVE  /\ QuietDown(s) => QuietDown(t) /\ s[1].type \in {"welcome", "unsubscribed"}
           /\ AcksFirst(s) => AcksFirst(t)
           /\ Acked(s) <=> s[1].type = "subscribed" \/ Acked(t)
           /\ AcksFirst(s) /\ s[1].type \in {"job", "proposal"} => ~Acked(s)
           /\ AcksFirst(s) /\ s[1].type = "subscribed" => ~Acked(t)
           /\ (\A i \in DOMAIN s : s[i].type = "welcome" => i = 1) => \A i \in DOMAIN t : t[i].type # "welcome"
<1>1. PICK n : n = Len(s)
  OBVIOUS
<1>2. /\ 1 \in DOMAIN s /\ DOMAIN s = 1..n /\ n \in Nat \ {0} /\ DOMAIN t = 1..(n - 1)
      /\ \A i \in DOMAIN t : i + 1 \in DOMAIN s /\ t[i] = s[i + 1]
  BY <1>1, TailFacts
<1>3. ASSUME NEW i \in DOMAIN s, i # 1 PROVE i - 1 \in DOMAIN t /\ t[i - 1] = s[i]
  <2>1. i - 1 \in DOMAIN t /\ (i - 1) + 1 = i
    BY <1>2, <1>3
  <2> QED
    BY <1>2, <2>1
<1>4. QuietDown(s) => QuietDown(t) /\ s[1].type \in {"welcome", "unsubscribed"}
  BY <1>2 DEF QuietDown
<1>5. ASSUME AcksFirst(s) PROVE AcksFirst(t)
  <2>1. SUFFICES ASSUME NEW i \in DOMAIN t, NEW j \in DOMAIN t, t[i].type = "subscribed"
                 PROVE  /\ t[j].type \in {"job", "proposal"} => j > i
                        /\ t[j].type = "subscribed" => j = i
    BY DEF AcksFirst
  <2>2. i + 1 \in DOMAIN s /\ j + 1 \in DOMAIN s /\ t[i] = s[i + 1] /\ t[j] = s[j + 1]
    BY <1>2
  <2>3. /\ t[j].type \in {"job", "proposal"} => j + 1 > i + 1
        /\ t[j].type = "subscribed" => j + 1 = i + 1
    BY <1>5, <2>1, <2>2 DEF AcksFirst
  <2>4. i \in Int /\ j \in Int
    BY <1>2
  <2> QED
    BY <2>3, <2>4
<1>6. Acked(s) <=> s[1].type = "subscribed" \/ Acked(t)
  <2>1. ASSUME Acked(s) PROVE s[1].type = "subscribed" \/ Acked(t)
    <3>1. PICK i \in DOMAIN s : s[i].type = "subscribed"
      BY <2>1 DEF Acked
    <3>2. CASE i # 1
      BY <1>3, <3>1, <3>2 DEF Acked
    <3> QED
      BY <3>1, <3>2
  <2>2. ASSUME s[1].type = "subscribed" \/ Acked(t) PROVE Acked(s)
    BY <1>2, <2>2 DEF Acked
  <2> QED
    BY <2>1, <2>2
<1>7. ASSUME AcksFirst(s), s[1].type \in {"job", "proposal"} PROVE ~Acked(s)
  <2>1. \A i \in DOMAIN s : s[i].type = "subscribed" => 1 > i
    BY <1>2, <1>7 DEF AcksFirst
  <2>2. \A i \in DOMAIN s : ~(1 > i)
    BY <1>2
  <2> QED
    BY <2>1, <2>2 DEF Acked
<1>8. ASSUME AcksFirst(s), s[1].type = "subscribed" PROVE ~Acked(t)
  <2>1. \A i \in DOMAIN s : s[i].type = "subscribed" => i = 1
    BY <1>2, <1>8 DEF AcksFirst
  <2>2. \A i \in DOMAIN t : i + 1 # 1
    BY <1>2
  <2> QED
    BY <1>2, <2>1, <2>2 DEF Acked
<1>9. ASSUME \A i \in DOMAIN s : s[i].type = "welcome" => i = 1
      PROVE  \A i \in DOMAIN t : t[i].type # "welcome"
  <2>1. \A i \in DOMAIN t : i + 1 # 1
    BY <1>2
  <2> QED
    BY <1>2, <1>9, <2>1
<1> QED
  BY <1>4, <1>5, <1>6, <1>7, <1>8, <1>9


\* Written out, the equality is substituted away before the lemmas can be matched.
Appended(o2, o, n) == o2 = Append(o, n)

LEMMA FollowedWrite ==
    ASSUME NEW n \in Notifications, NEW actual, NEW moves, NEW stored, NEW actual2, NEW moves2, NEW stored2,
           IsNews(n, actual, moves, stored, actual2, moves2, stored2),
           NEW e \in Entries, NEW sub \in BOOLEAN, NEW u, NEW d \in Seq(ServerMessages), NEW o \in Seq(Notifications),
           FollowedOK(e, sub, u, d, o, actual, moves, stored), NEW o2, Appended(o2, o, n)
    PROVE  FollowedOK(e, sub, u, d, o2, actual2, moves2, stored2)
<1>1. Elems(o2) = Elems(o) \cup {n}
  BY ElemsOfAppend DEF Appended
<1>2. Elems(o) \subseteq Elems(o2) /\ n \in Elems(o2)
  BY <1>1
<1>3. \A i \in DOMAIN d : d[i].type = "proposal" => d[i].id \in Proposals
  BY SeqEqEmpty, MessageShape, NoticeShape
<1>4. SeqTrue(d, Elems(o), stored) => SeqTrue(d, Elems(o2), stored2)
  BY <1>2, <1>3, NewsForSequences
<1>5. PICK S, S2 : S = Elems(d) \cup Elems(o) /\ S2 = Elems(d) \cup Elems(o2)
  OBVIOUS
<1>6. S \subseteq S2 /\ n \in S2 /\ e.held \in Seq(Notifications)
  BY <1>2, <1>5, EntryShape
<1>7. Current(e, S, actual, moves, stored) => Current(e, S2, actual2, moves2, stored2)
  BY <1>6, NewsForEntries
<1> QED
  BY <1>4, <1>5, <1>7 DEF FollowedOK

LEMMA FollowedPublish ==
    ASSUME NEW actual, NEW moves, NEW stored,
           NEW e, NEW sub \in BOOLEAN, NEW u, NEW d \in Seq(ServerMessages),
           NEW o \in Seq(Notifications), o # <<>>, SeqTrue(o, {}, stored),
           FollowedOK(e, sub, u, d, o, actual, moves, stored),
           NEW m, m = o[1], NEW o2, o2 = Tail(o), NEW d2, d2 = IF sub THEN Append(d, m) ELSE d
    PROVE  FollowedOK(e, sub, u, d2, o2, actual, moves, stored)
<1>1. m \in Notifications /\ m \in ServerMessages /\ m.type \in {"job", "proposal"} /\ o2 \in Seq(Notifications)
  BY TailIsSeq, NoticeShape, AnswersAreMessages
<1>2. Elems(o) = {m} \cup Elems(o2)
  BY ElemsOfTail
<1>3. SaysWhatIsStored(m, Elems(o2), stored)
  <2>1. SaysWhatIsStored(m, Elems(o2) \cup {}, stored)
    BY SeqTrueTail
  <2>2. Elems(o2) \cup {} = Elems(o2)
    OBVIOUS
  <2> QED
    BY <2>1, <2>2
<1>4. CASE sub
  <2>1. d2 = Append(d, m)
    BY <1>4
  <2>2. AcksFirst(d2) /\ (Acked(d2) <=> Acked(d))
    BY <1>1, <1>4, <2>1, QuietAppend DEF FollowedOK
  <2>3. SeqTrue(d2, Elems(o2), stored)
    <3>1. SeqTrue(d, Elems(o), stored) /\ Elems(o) \subseteq {m} \cup Elems(o2)
      BY <1>2, <1>4 DEF FollowedOK
    <3>2. PICK before, later : before = Elems(o) /\ later = Elems(o2)
      OBVIOUS
    <3>3. SeqTrue(d, before, stored) /\ before \subseteq {m} \cup later /\ SaysWhatIsStored(m, later, stored)
      BY <1>3, <3>1, <3>2
    <3>4. SeqTrue(d2, later, stored)
      BY <1>1, <2>1, <3>3, SeqTrueAppend
    <3> QED
      BY <3>2, <3>4
  <2>4. Elems(d2) = Elems(d) \cup {m}
    BY <1>1, <2>1, ElemsOfAppend
  <2>5. Elems(d2) \cup Elems(o2) = Elems(d) \cup Elems(o)
    BY <1>2, <2>4
  <2> QED
    BY <1>4, <2>2, <2>3, <2>5 DEF FollowedOK
<1>5. CASE ~sub
  BY <1>5 DEF FollowedOK
<1> QED
  BY <1>4, <1>5

Acknowledged(sub2, u2, d2, d, m) == sub2 = TRUE /\ u2 = <<>> /\ d2 = Append(d, m)

LEMMA FollowedAnswer ==
    ASSUME NEW actual, NEW moves, NEW stored,
           NEW e, NEW sub \in BOOLEAN, NEW u, u # <<>>, NEW d \in Seq(ServerMessages), NEW o,
           FollowedOK(e, sub, u, d, o, actual, moves, stored),
           NEW m \in ServerMessages, m.type = "subscribed",
           NEW d2, NEW sub2, NEW u2, Acknowledged(sub2, u2, d2, d, m)
    PROVE  u = <<"subscribe">> /\ FollowedOK(e, sub2, u2, d2, o, actual, moves, stored)
<1>1. u = <<"subscribe">> /\ ~sub /\ e.held = <<>> /\ QuietDown(d)
  BY DEF FollowedOK
<1>2. AcksFirst(d2) /\ Acked(d2) /\ SeqTrue(d2, Elems(o), stored)
  BY <1>1, QuietAppend DEF Acknowledged
<1> QED
  BY <1>1, <1>2 DEF FollowedOK, Acknowledged

LEMMA FollowedWelcome ==
    ASSUME NEW actual, NEW moves, NEW stored,
           NEW e, NEW sub \in BOOLEAN, ~sub, NEW u, NEW d \in Seq(ServerMessages), d # <<>>, NEW o,
           FollowedOK(e, sub, u, d, o, actual, moves, stored), NEW d2, d2 = Tail(d)
    PROVE  FollowedOK(e, sub, <<"subscribe">>, d2, o, actual, moves, stored)
<1>1. e.held = <<>> /\ QuietDown(d2)
  BY QuietTail DEF FollowedOK
<1> QED
  BY <1>1 DEF FollowedOK

LEMMA FollowedTail ==
    ASSUME NEW actual, NEW moves, NEW stored,
           NEW e, NEW sub \in BOOLEAN, NEW u, NEW d \in Seq(ServerMessages), d # <<>>, NEW o,
           FollowedOK(e, sub, u, d, o, actual, moves, stored), d[1].type \notin {"subscribed", "job", "proposal"},
           NEW d2, d2 = Tail(d)
    PROVE  FollowedOK(e, sub, u, d2, o, actual, moves, stored)
<1>1. /\ QuietDown(d) => QuietDown(d2)
      /\ AcksFirst(d) => AcksFirst(d2)
      /\ Acked(d) <=> d[1].type = "subscribed" \/ Acked(d2)
  BY QuietTail
<1>2. Acked(d) <=> Acked(d2)
  BY <1>1
<1>3. SeqTrue(d, Elems(o), stored) => SeqTrue(d2, Elems(o), stored)
  BY SeqTrueTail
<1>4. Elems(d) = {d[1]} \cup Elems(d2)
  BY ElemsOfTail
<1>5. PICK S, S2 : S = Elems(d) \cup Elems(o) /\ S2 = Elems(d2) \cup Elems(o)
  OBVIOUS
<1>6. \A x \in S : x.type \in {"job", "proposal"} => x \in S2
  BY <1>4, <1>5
<1>7. Current(e, S, actual, moves, stored) => Current(e, S2, actual, moves, stored)
  BY <1>6, OnlyNoticesTell
<1> QED
  BY <1>1, <1>2, <1>3, <1>5, <1>7 DEF FollowedOK

LEMMA FollowedAcknowledged ==
    ASSUME NEW actual, NEW moves \in Nat, NEW stored,
           NEW e, Shape(e, moves), NEW sub \in BOOLEAN, NEW u, NEW d \in Seq(ServerMessages), d # <<>>, NEW o,
           FollowedOK(e, sub, u, d, o, actual, moves, stored), d[1].type = "subscribed",
           NEW d2, d2 = Tail(d), NEW r, r = RecoverProduction(e)
    PROVE  FollowedOK(r, sub, u, d2, o, actual, moves, stored)
<1>1. /\ QuietDown(d) => d[1].type \in {"welcome", "unsubscribed"}
      /\ AcksFirst(d) => AcksFirst(d2) /\ ~Acked(d2)
      /\ Acked(d)
  BY QuietTail
<1>2. sub /\ AcksFirst(d) /\ SeqTrue(d, Elems(o), stored) /\ e.held = <<>>
  BY <1>1 DEF FollowedOK
<1>3. SeqTrue(d2, Elems(o), stored)
  BY <1>2, SeqTrueTail
<1>4. PICK later : later = Elems(d2) \cup Elems(o)
  OBVIOUS
<1>5. SeqTrue(e.held, later, stored)
  BY <1>2, NothingPends
<1>6. Current(r, later, actual, moves, stored)
  BY <1>5, RecoverIsCurrent
<1> QED
  BY <1>1, <1>2, <1>3, <1>4, <1>6 DEF FollowedOK

LEMMA FollowedNotice ==
    ASSUME NEW actual, NEW moves \in Nat, NEW stored,
           NEW e, Shape(e, moves), NEW sub \in BOOLEAN, NEW u, NEW d \in Seq(ServerMessages), d # <<>>, NEW o,
           FollowedOK(e, sub, u, d, o, actual, moves, stored),
           NEW m \in Notifications, m = d[1], m.type = "job" => m.move <= moves,
           NEW d2, d2 = Tail(d), NEW r, r = ApplyNotification(e, m)
    PROVE  FollowedOK(r, sub, u, d2, o, actual, moves, stored)
<1>0. m.type \in {"job", "proposal"}
  BY NoticeShape
<1>1. /\ QuietDown(d) => d[1].type \in {"welcome", "unsubscribed"}
      /\ AcksFirst(d) => AcksFirst(d2) /\ ~Acked(d)
      /\ Acked(d2) => Acked(d)
  BY <1>0, QuietTail
<1>2. sub /\ AcksFirst(d) /\ SeqTrue(d, Elems(o), stored) /\ ~Acked(d) /\ ~Acked(d2)
  BY <1>0, <1>1 DEF FollowedOK
<1>3. SeqTrue(d2, Elems(o), stored) /\ SaysWhatIsStored(m, Elems(d2) \cup Elems(o), stored)
  BY <1>2, SeqTrueTail
<1>4. PICK later : later = Elems(d2) \cup Elems(o)
  OBVIOUS
<1>5. Elems(d) \cup Elems(o) = {m} \cup later
  BY <1>4, ElemsOfTail
<1>6. Current(e, {m} \cup later, actual, moves, stored)
  BY <1>2, <1>5 DEF FollowedOK
<1>7. SaysWhatIsStored(m, later, stored)
  BY <1>3, <1>4
<1>8. Current(r, later, actual, moves, stored)
  BY <1>6, <1>7, MergeIsCurrent
<1> QED
  BY <1>1, <1>2, <1>3, <1>4, <1>8 DEF FollowedOK

\* The client's own steps: what it holds stays, and stays true.
LEMMA FollowedClient ==
    ASSUME NEW actual, NEW moves, NEW stored,
           NEW e, NEW sub, NEW u, NEW d, NEW o,
           FollowedOK(e, sub, u, d, o, actual, moves, stored),
           NEW r, e.held = <<>> => r.held = <<>>,
           \A later : Current(e, later, actual, moves, stored) => Current(r, later, actual, moves, stored)
    PROVE  FollowedOK(r, sub, u, d, o, actual, moves, stored)
  BY DEF FollowedOK

LEMMA ReadsOnIsCurrent ==
    ASSUME NEW e, NEW actual, NEW moves \in Nat, NEW stored, Shape(e, moves), e.read # None,
           NEW read \in Reads, ReadShape(read, moves), NEW r, r = WithRead(e, read),
           \A pending : ReadIsTrue(e.read, pending, actual, moves, stored)
                          => ReadIsTrue(read, pending, actual, moves, stored),
           NEW later, Current(e, later, actual, moves, stored)
    PROVE  Current(r, later, actual, moves, stored)
<1>1. r.recovering /\ r.held = e.held /\ r.dirty = e.dirty /\ r.read = read
  BY ReadOnKeepsShape
<1>2. ASSUME ~e.dirty PROVE ReadIsTrue(read, Elems(e.held) \cup later, actual, moves, stored)
  BY <1>2 DEF Current
<1> QED
  BY <1>1, <1>2 DEF Current

LEMMA HoldsStillNothing ==
    ASSUME NEW e, NEW moves \in Nat, Shape(e, moves), e.read # None, e.held = <<>>, NEW r, r = Recovered(e)
    PROVE  r.held = <<>>
<1>1. PICK s, n, merged, f, u : /\ s = Snapshot(e) /\ n = Len(e.held) /\ merged = Merging(s, e.held)
                                /\ f = merged[n] /\ u = WithDirty(f, FALSE)
  OBVIOUS
<1>2. Shape(s, moves) /\ s.held = <<>> /\ s \in Entries
  BY <1>1, SnapshotKeepsShape DEF Shape
<1>3. Len(e.held) = 0
  OBVIOUS
<1>4. merged[0] = s
  BY <1>1, <1>3, MergingUnfolds
<1>a. f = s
  BY <1>1, <1>3, <1>4
<1>b. r = IF f.dirty THEN RecoverProduction(u) ELSE f
  BY <1>1 DEF Recovered, WithDirty
<1>5. r = IF s.dirty THEN RecoverProduction(u) ELSE s
  BY <1>a, <1>b
<1>6. /\ u \in Entries
      /\ u.version = s.version /\ u.run = s.run /\ u.open = s.open /\ u.held = s.held
      /\ u.recovering = s.recovering /\ u.retrying = s.retrying /\ u.read = s.read
  <2>1. u = WithDirty(s, FALSE)
    BY <1>1, <1>a
  <2> QED
    BY <1>2, <2>1, CleanMakes
<1>7. Shape(u, moves) /\ u.held = <<>>
  BY <1>2, <1>6 DEF Shape
<1> QED
  BY <1>2, <1>5, <1>7, RecoverKeepsShape

-----------------------------------------------------------------------------
(* The socket.                                                             *)

WelcomesFirst(d) == \A i \in DOMAIN d : d[i].type = "welcome" => i = 1
NotWelcomed(d) == \A i \in DOMAIN d : d[i].type # "welcome"
NoSubscribe(u) == \A i \in DOMAIN u : u[i] # "subscribe"

\* A client is not subscribed before it is welcomed, and a closed one has no
\* socket that could be.
SocketOK(l, sub, u, d, st, closed, timer) ==
    /\ l \in {"none", "connecting", "lost"} => u = <<>> /\ d = <<>> /\ ~sub
    /\ timer => l = "none" /\ ~closed
    /\ closed => l \notin {"connecting", "open"}
    /\ l = "connecting" => st # "open"
    /\ WelcomesFirst(d)
    /\ l = "open" /\ st # "open" => ~sub /\ QuietDown(d) /\ NoSubscribe(u)
    /\ l = "open" /\ st = "open" => NotWelcomed(d)

SocketInv == SocketOK(link, subscribed, up, down, status, closedByUser, reconnecting)

LEMMA EmptyQueues ==
    WelcomesFirst(<<>>) /\ NotWelcomed(<<>>) /\ NoSubscribe(<<>>) /\ QuietDown(<<>>)
<1>1. DOMAIN <<>> = {}
  OBVIOUS
<1> QED
  BY <1>1 DEF WelcomesFirst, NotWelcomed, NoSubscribe, QuietDown

LEMMA WelcomesAppend ==
    ASSUME NEW s \in Seq(ServerMessages), NEW x \in ServerMessages, x.type # "welcome", NEW t, t = Append(s, x)
    PROVE  (WelcomesFirst(s) => WelcomesFirst(t)) /\ (NotWelcomed(s) => NotWelcomed(t))
<1>1. PICK n : n = Len(s)
  OBVIOUS
<1>2. /\ t[n + 1] = x
      /\ \A i \in DOMAIN s : i \in DOMAIN t /\ t[i] = s[i]
      /\ \A i \in DOMAIN t : i \in DOMAIN s \/ i = n + 1
  BY <1>1, AppendFacts
<1> QED
  BY <1>2 DEF WelcomesFirst, NotWelcomed

LEMMA WelcomesTail ==
    ASSUME NEW s \in Seq(ServerMessages), s # <<>>, NEW t, t = Tail(s)
    PROVE  (WelcomesFirst(s) => NotWelcomed(t)) /\ (NotWelcomed(t) => WelcomesFirst(t))
<1>1. WelcomesFirst(s) => NotWelcomed(t)
  BY QuietTail DEF WelcomesFirst, NotWelcomed
<1> QED
  BY <1>1 DEF WelcomesFirst, NotWelcomed

LEMMA UnsubscribeAppend ==
    ASSUME NEW s \in Seq(ClientMessages), NoSubscribe(s), NEW t, t = Append(s, "unsubscribe")
    PROVE  NoSubscribe(t)
<1>1. PICK n : n = Len(s)
  OBVIOUS
<1>2. /\ t[n + 1] = "unsubscribe"
      /\ \A i \in DOMAIN s : i \in DOMAIN t /\ t[i] = s[i]
      /\ \A i \in DOMAIN t : i \in DOMAIN s \/ i = n + 1
  BY <1>1, AppendFacts DEF ClientMessages
<1> QED
  BY <1>2 DEF NoSubscribe

LEMMA NoSubscribeTail ==
    ASSUME NEW s \in Seq(ClientMessages), s # <<>>, NoSubscribe(s), NEW t, t = Tail(s)
    PROVE  NoSubscribe(t) /\ Head(s) = "unsubscribe"
<1>1. /\ Head(s) = s[1] /\ s[1] \in ClientMessages /\ 1 \in DOMAIN s
      /\ \A i \in DOMAIN t : i + 1 \in DOMAIN s /\ t[i] = s[i + 1]
  BY TailFacts
<1> QED
  BY <1>1 DEF NoSubscribe, ClientMessages

\* The answer to the first of the client's messages.
LEMMA AnswerStep ==
    ASSUME WorldOK, AnswerClient
    PROVE  \E m \in ServerMessages :
             /\ up # <<>> /\ up' = Tail(up) /\ down' = Append(down, m) /\ link \in {"open", "closing"}
             /\ \/ Head(up) = "subscribe" /\ subscribed' = TRUE /\ m.type = "subscribed"
                \/ Head(up) # "subscribe" /\ subscribed' = FALSE /\ m.type = "unsubscribed"
<1>1. PICK m : m = [type |-> IF Head(up) = "subscribe" THEN "subscribed" ELSE "unsubscribed"]
  OBVIOUS
<1>2. m \in ServerMessages /\ m.type = IF Head(up) = "subscribe" THEN "subscribed" ELSE "unsubscribed"
  BY <1>1, AnswersAreMessages
<1>3. up # <<>> /\ up' = Tail(up) /\ down' = Append(down, m) /\ link \in {"open", "closing"}
  BY <1>1 DEF AnswerClient, IsConnected
<1>4. CASE Head(up) = "subscribe"
  <2>1. subscribed' = TRUE /\ m.type = "subscribed"
    BY <1>2, <1>4 DEF AnswerClient
  <2> QED
    BY <1>2, <1>3, <1>4, <2>1
<1>5. CASE Head(up) # "subscribe"
  <2>1. subscribed' = FALSE /\ m.type = "unsubscribed"
    BY <1>2, <1>5 DEF AnswerClient
  <2> QED
    BY <1>2, <1>3, <1>5, <2>1
<1> QED
  BY <1>4, <1>5

LEMMA SocketStep ==
    ASSUME WorldOK, SocketInv, Next
    PROVE  SocketInv'
<1>0. /\ subscribed \in BOOLEAN /\ up \in Seq(ClientMessages) /\ down \in Seq(ServerMessages)
      /\ closedByUser \in BOOLEAN /\ reconnecting \in BOOLEAN
      /\ link \in {"none", "connecting", "open", "lost", "closing"}
  BY DEF WorldOK
<1>u. ASSUME UNCHANGED <<link, subscribed, up, down, status, closedByUser, reconnecting>> PROVE SocketInv'
  BY <1>u DEF SocketInv
<1>1. CASE \/ \E p \in Proposals : WriteProposal(p)
           \/ MoveRun \/ Reading \/ ReadFails \/ RetryFires \/ Recover
  BY <1>1, <1>u DEF WriteProposal, MoveRun, Reading, LoadVersion, ListUndecided, ListApproved, ListJobs,
                    SnapshotArrives, ReadOn, ReadFails, RetryFires, Recover, Update, socketVars, clientVars
<1>2. CASE Publish
  <2>1. PICK i \in DOMAIN outbox :
          down' = IF IsConnected /\ subscribed THEN Append(down, outbox[i]) ELSE down
    BY <1>2 DEF Publish
  <2>2. PICK m : m = outbox[i]
    OBVIOUS
  <2>3. m \in Notifications
    BY <2>1, <2>2, SeqEqEmpty DEF WorldOK
  <2>4. m \in ServerMessages /\ m.type # "welcome"
    BY <2>3, NoticeShape, AnswersAreMessages
  <2>5. UNCHANGED <<link, subscribed, up, status, closedByUser, reconnecting>>
    BY <1>2 DEF Publish, clientVars
  <2>6. CASE IsConnected /\ subscribed
    <3>1. down' = Append(down, m)
      BY <2>1, <2>2, <2>6
    <3>2. (WelcomesFirst(down) => WelcomesFirst(down')) /\ (NotWelcomed(down) => NotWelcomed(down'))
      BY <1>0, <2>4, <3>1, WelcomesAppend
    <3> QED
      BY <2>5, <2>6, <3>2 DEF SocketInv, SocketOK, IsConnected
  <2>7. CASE ~(IsConnected /\ subscribed)
    BY <1>u, <2>1, <2>5, <2>7
  <2> QED
    BY <2>6, <2>7
<1>3. CASE Accept
  <2>1. PICK m : m = [type |-> "welcome"]
    OBVIOUS
  <2>2. m.type = "welcome" /\ down' = <<m>>
    BY <1>3, <2>1, AnswersAreMessages DEF Accept
  <2>3. QuietDown(<<m>>) /\ WelcomesFirst(<<m>>)
    BY <2>2 DEF QuietDown, WelcomesFirst
  <2>4. /\ link = "connecting" /\ link' = "open" /\ ~subscribed' /\ UNCHANGED <<up, status, closedByUser, reconnecting>>
    BY <1>3 DEF Accept, clientVars
  <2>5. up = <<>> /\ status # "open" /\ ~closedByUser /\ ~reconnecting
    BY <2>4 DEF SocketInv, SocketOK
  <2> QED
    BY <2>2, <2>3, <2>4, <2>5, EmptyQueues DEF SocketInv, SocketOK
<1>4. CASE AnswerClient
  <2>1. PICK m \in ServerMessages :
             /\ up # <<>> /\ up' = Tail(up) /\ down' = Append(down, m) /\ link \in {"open", "closing"}
             /\ \/ Head(up) = "subscribe" /\ subscribed' = TRUE /\ m.type = "subscribed"
                \/ Head(up) # "subscribe" /\ subscribed' = FALSE /\ m.type = "unsubscribed"
    BY <1>4, AnswerStep
  <2>2. UNCHANGED <<link, status, closedByUser, reconnecting>>
    BY <1>4 DEF AnswerClient, clientVars
  <2>3. (WelcomesFirst(down) => WelcomesFirst(down')) /\ (NotWelcomed(down) => NotWelcomed(down'))
    BY <1>0, <2>1, WelcomesAppend
  <2>4. ASSUME link = "open", status # "open"
        PROVE  ~subscribed' /\ QuietDown(down') /\ NoSubscribe(up')
    <3>1. QuietDown(down) /\ NoSubscribe(up)
      BY <2>4 DEF SocketInv, SocketOK
    <3>2. NoSubscribe(up') /\ Head(up) = "unsubscribe"
      BY <1>0, <2>1, <3>1, NoSubscribeTail
    <3>3. m.type = "unsubscribed" /\ ~subscribed'
      BY <2>1, <3>2
    <3>4. QuietDown(down')
      BY <1>0, <2>1, <3>1, <3>3, QuietAppend
    <3> QED
      BY <3>2, <3>3, <3>4
  <2> QED
    BY <2>1, <2>2, <2>3, <2>4 DEF SocketInv, SocketOK
<1>5. CASE LoseSocket
  <2>1. /\ link \in {"connecting", "open"} /\ link' = "lost" /\ ~subscribed' /\ up' = <<>> /\ down' = <<>>
        /\ UNCHANGED <<status, closedByUser, reconnecting>>
    BY <1>5 DEF LoseSocket, clientVars
  <2> QED
    BY <2>1, EmptyQueues DEF SocketInv, SocketOK
<1>6. CASE Receive
  <2>1. /\ down # <<>> /\ down' = Tail(down) /\ link \in {"open", "closing"} /\ ReceiveCases
        /\ UNCHANGED <<link, subscribed>>
    BY <1>6, ReceiveStep
  <2>2. WelcomesFirst(down) /\ WelcomesFirst(down') /\ NotWelcomed(down')
    BY <1>0, <2>1, WelcomesTail DEF SocketInv, SocketOK
  <2>3. QuietDown(down) => QuietDown(down')
    BY <1>0, <2>1, QuietTail
  <2>4. CASE ReceiveWelcome
    <3>1. status' = "open" /\ UNCHANGED <<closedByUser, reconnecting>>
      BY <2>4 DEF ReceiveWelcome
    <3> QED
      BY <2>1, <2>2, <3>1 DEF SocketInv, SocketOK
  <2>5. CASE UNCHANGED up /\ UNCHANGED <<status, closedByUser, reconnecting>>
    BY <2>1, <2>2, <2>3, <2>5 DEF SocketInv, SocketOK
  <2> QED
    BY <2>1, <2>4, <2>5 DEF ReceiveCases, ReceiveSubscribed, ReceiveNotification, Update, clientVars
<1>7. CASE ReconnectFires
  <2>1. /\ reconnecting /\ ~reconnecting' /\ link' = "connecting" /\ UNCHANGED <<closedByUser, subscribed, up, down>>
        /\ status' = IF status = "reconnecting" THEN status ELSE "connecting"
    BY <1>7 DEF ReconnectFires, OpenSocket
  <2>2. status' # "open"
    BY <2>1
  <2>3. link = "none" /\ ~closedByUser
    BY <2>1 DEF SocketInv, SocketOK
  <2> QED
    BY <2>1, <2>2, <2>3 DEF SocketInv, SocketOK
<1>8. CASE SocketCloses
  <2>1. /\ link' = "none" /\ ~subscribed' /\ up' = <<>> /\ down' = <<>> /\ UNCHANGED closedByUser
        /\ reconnecting' => ~closedByUser
    BY <1>8 DEF SocketCloses
  <2> QED
    BY <2>1, EmptyQueues DEF SocketInv, SocketOK
<1>9. CASE Connect
  <2>1. /\ link = "none" /\ ~reconnecting /\ UNCHANGED <<reconnecting, subscribed, up, down>>
        /\ ~closedByUser' /\ link' = "connecting"
        /\ status' = IF status = "reconnecting" THEN status ELSE "connecting"
    BY <1>9 DEF Connect, OpenSocket
  <2>2. status' # "open"
    BY <2>1
  <2> QED
    BY <2>1, <2>2 DEF SocketInv, SocketOK
<1>10. CASE Follow
  <2>1. /\ UNCHANGED <<link, subscribed, down, status, closedByUser, reconnecting>>
        /\ link # "open" \/ status # "open" => up' = up
    BY <1>10 DEF Follow, Send
  <2> QED
    BY <2>1 DEF SocketInv, SocketOK
<1>11. CASE Unfollow
  <2>1. /\ UNCHANGED <<link, subscribed, down, status, closedByUser, reconnecting>>
        /\ up' = IF link = "open" THEN Append(up, "unsubscribe") ELSE up
    BY <1>11 DEF Unfollow, Send
  <2>2. CASE link = "open"
    <3>1. NoSubscribe(up) => NoSubscribe(up')
      BY <1>0, <2>1, <2>2, UnsubscribeAppend
    <3> QED
      BY <2>1, <2>2, <3>1 DEF SocketInv, SocketOK
  <2>3. CASE link # "open"
    BY <1>u, <2>1, <2>3
  <2> QED
    BY <2>2, <2>3
<1>12. CASE Close
  <2>1. /\ ~reconnecting' /\ UNCHANGED <<subscribed, up, down>>
        /\ link' = IF link \in {"connecting", "open"} THEN "closing" ELSE link
    BY <1>12 DEF Close
  <2>2. link' \notin {"connecting", "open"} /\ (link' \in {"none", "connecting", "lost"} => link' = link)
    BY <2>1
  <2> QED
    BY <2>1, <2>2 DEF SocketInv, SocketOK
<1> QED
  BY <1>1, <1>2, <1>3, <1>4, <1>5, <1>6, <1>7, <1>8, <1>9, <1>10, <1>11, <1>12 DEF Next, Server, User

-----------------------------------------------------------------------------
(* A view that is told of every change.                                    *)

\* A production is followed again on the same socket only once the gateway has
\* answered the unsubscription and nothing it sent before is on its way.
RefollowsWait ==
    entry = None /\ entry' # None /\ link = "open" => ~subscribed /\ up = <<>> /\ QuietDown(down)

FollowInv ==
    /\ RecoveryInv /\ SocketInv
    /\ SeqTrue(outbox, {}, records)
    /\ entry # None /\ link \in {"none", "connecting"} => entry.held = <<>>
    /\ entry # None /\ link = "open" => FollowedOK(entry, subscribed, up, down, outbox, version, run, records)

LEMMA FollowInvShowsTheRecords ==
    ASSUME FollowInv
    PROVE  QuietViewIsCurrent
<1>1. SUFFICES ASSUME IsQuiet PROVE Shows(entry)
  BY DEF QuietViewIsCurrent
<1>2. /\ entry # None /\ link = "open" /\ subscribed /\ down = <<>> /\ outbox = <<>> /\ ~entry.recovering
  BY <1>1 DEF IsQuiet
<1>3. Shape(entry, run) /\ ~entry.dirty /\ entry \in Entries
  BY <1>2 DEF FollowInv, RecoveryInv, EntryOK, Shape
<1>4. FollowedOK(entry, subscribed, up, down, outbox, version, run, records)
  BY <1>2 DEF FollowInv
<1>5. ~Acked(down) /\ Elems(down) \cup Elems(outbox) = {}
  <2>1. DOMAIN <<>> = {}
    OBVIOUS
  <2> QED
    BY <1>2, <2>1, NothingPends DEF Acked
<1>6. Current(entry, {}, version, run, records)
  BY <1>2, <1>4, <1>5 DEF FollowedOK
<1>7. ViewIsTrue(entry, {}, version, run, records)
  BY <1>2, <1>3, <1>6 DEF Current
<1>8. entry.version = version /\ entry.run = run
  BY <1>7 DEF ViewIsTrue, VersionIsKnown, RunIsKnown
<1>9. ASSUME NEW p \in Proposals, records[p] \in OpenStatuses
      PROVE  entry.open[p] # <<>> /\ Head(entry.open[p]) = records[p]
  <2>1. entry.open[p] # <<>> /\ entry.open[p][1] = records[p]
    BY <1>7, <1>9, NothingPends DEF ViewIsTrue
  <2>2. PICK copies : copies = entry.open[p]
    OBVIOUS
  <2>3. copies \in Seq(Statuses) /\ copies # <<>>
    BY <1>3, <2>1, <2>2, EntryShape
  <2>4. Head(copies) = copies[1]
    BY <2>3, TailIsSeq
  <2> QED
    BY <2>1, <2>2, <2>4
<1> QED
  BY <1>8, <1>9 DEF Shows

\* Every write is one whose notice is put last in the outbox.
LEMMA WriteIsNews ==
    ASSUME WorldOK, (\E p \in Proposals : WriteProposal(p)) \/ MoveRun
    PROVE  \E n \in Notifications :
             /\ outbox' = Append(outbox, n) /\ IsNews(n, version, run, records, version', run', records')
             /\ n.type = "proposal" => n.id \in Proposals /\ n.status = records'[n.id]
<1>1. ASSUME NEW p \in Proposals, WriteProposal(p)
      PROVE  \E n \in Notifications :
             /\ outbox' = Append(outbox, n) /\ IsNews(n, version, run, records, version', run', records')
             /\ n.type = "proposal" => n.id \in Proposals /\ n.status = records'[n.id]
  <2>1. PICK new \in Written(records[p]), m \in Notifications :
             /\ m.type = "proposal" /\ m.id = p /\ m.status = new /\ new \in Statuses
             /\ outbox' = Append(outbox, m)
             /\ records' = [records EXCEPT ![p] = new]
             /\ version' = IF new = "APPLIED" THEN version + 1 ELSE version
    BY <1>1, WriteStep
  <2>2. run' = run /\ records \in [Proposals -> Statuses \cup {None}]
    BY <1>1 DEF WriteProposal, WorldOK
  <2>3. records'[p] = new /\ \A q \in Proposals : q # p => records'[q] = records[q]
    BY <2>1, <2>2
  <2>4. IsNews(m, version, run, records, version', run', records')
    BY <2>1, <2>2, <2>3 DEF IsNews, About
  <2> QED
    BY <2>1, <2>3, <2>4
<1>2. ASSUME MoveRun
      PROVE  \E n \in Notifications :
             /\ outbox' = Append(outbox, n) /\ IsNews(n, version, run, records, version', run', records')
             /\ n.type = "proposal" => n.id \in Proposals /\ n.status = records'[n.id]
  <2>1. PICK m \in Notifications : m.type = "job" /\ m.move = run' /\ outbox' = Append(outbox, m)
    BY <1>2, MoveStep
  <2>2. UNCHANGED <<version, records>>
    BY <1>2 DEF MoveRun
  <2>3. IsNews(m, version, run, records, version', run', records')
    BY <2>1, <2>2 DEF IsNews
  <2> QED
    BY <2>1, <2>3
<1> QED
  BY <1>1, <1>2

LEMMA PublishInOrderStep ==
    ASSUME PublishedInOrder, WorldOK, Publish
    PROVE  /\ outbox \in Seq(Notifications) /\ outbox # <<>> /\ outbox' = Tail(outbox)
           /\ down' = IF IsConnected /\ subscribed THEN Append(down, outbox[1]) ELSE down
<1>1. PICK i \in DOMAIN outbox :
        /\ PublishedInOrder => i = 1
        /\ outbox' = RemoveAt(outbox, i)
        /\ down' = IF IsConnected /\ subscribed THEN Append(down, outbox[i]) ELSE down
  BY DEF Publish
<1>2. i = 1 /\ outbox \in Seq(Notifications)
  BY <1>1 DEF WorldOK
<1>3. outbox # <<>>
  <2>1. DOMAIN outbox # {} /\ DOMAIN <<>> = {}
    BY <1>1
  <2> QED
    BY <2>1
<1> QED
  BY <1>1, <1>2, <1>3, FirstRemoved

LEMMA OutboxStep ==
    ASSUME PublishedInOrder, FollowInv, Next
    PROVE  SeqTrue(outbox', {}, records')
<1>0. WorldOK /\ SeqTrue(outbox, {}, records) /\ outbox \in Seq(Notifications)
  BY DEF FollowInv, RecoveryInv, WorldOK
<1>1. CASE (\E p \in Proposals : WriteProposal(p)) \/ MoveRun
  <2>1. PICK n \in Notifications :
             /\ outbox' = Append(outbox, n) /\ IsNews(n, version, run, records, version', run', records')
             /\ n.type = "proposal" => n.id \in Proposals /\ n.status = records'[n.id]
    BY <1>0, <1>1, WriteIsNews
  <2>2. \A i \in DOMAIN outbox : outbox[i].type = "proposal" => outbox[i].id \in Proposals
    BY <1>0, SeqEqEmpty, NoticeShape
  <2>3. PICK before, after : before = {n} /\ after = {}
    OBVIOUS
  <2>4. after \subseteq before /\ n \in before /\ before \subseteq {n} \cup after /\ SeqTrue(outbox, after, records)
    BY <1>0, <2>3
  <2>5. SeqTrue(outbox, before, records')
    BY <2>1, <2>2, <2>4, NewsForSequences
  <2>6. SaysWhatIsStored(n, after, records')
    BY <2>1 DEF SaysWhatIsStored
  <2>7. SeqTrue(Append(outbox, n), after, records')
    BY <1>0, <2>4, <2>5, <2>6, SeqTrueAppend
  <2> QED
    BY <2>1, <2>3, <2>7
<1>2. CASE Publish
  <2>1. outbox # <<>> /\ outbox' = Tail(outbox) /\ records' = records
    BY <1>0, <1>2, PublishInOrderStep DEF Publish
  <2> QED
    BY <1>0, <2>1, SeqTrueTail
<1>3. CASE LoseSocket
  <2>1. outbox' = outbox \/ outbox' = <<>>
    BY <1>3 DEF LoseSocket
  <2>2. records' = records
    BY <1>3 DEF LoseSocket
  <2> QED
    BY <1>0, <2>1, <2>2, NothingPends
<1>4. CASE UNCHANGED <<records, outbox>>
  BY <1>0, <1>4
<1> QED
  BY <1>1, <1>2, <1>3, <1>4
  DEF Next, Server, Accept, AnswerClient, Reading, LoadVersion, ListUndecided, ListApproved, ListJobs, SnapshotArrives,
      ReadOn, ReadFails, RetryFires, Receive, ReconnectFires, SocketCloses, User, Connect, Follow, Unfollow, Recover,
      Close, serverVars

\* What the client's own steps make of an entry on an open socket.
LEMMA ClientStep ==
    ASSUME FollowInv, entry # None, link = "open",
           Reading \/ ReadFails \/ RetryFires \/ Recover
    PROVE  /\ entry.held = <<>> => entry'.held = <<>>
           /\ \A later : Current(entry, later, version, run, records) => Current(entry', later, version, run, records)
<1>0. /\ WorldOK /\ Shape(entry, run) /\ run \in Nat /\ ~closedByUser
      /\ records \in [Proposals -> Statuses \cup {None}]
  BY DEF FollowInv, RecoveryInv, WorldOK, EntryOK, SocketInv, SocketOK
<1>1. CASE ReadsOn
  <2>1. PICK read \in Reads :
             /\ entry.read # None /\ entry' = WithRead(entry, read) /\ ReadShape(read, run)
             /\ \A pending : ReadIsTrue(entry.read, pending, version, run, records)
                               => ReadIsTrue(read, pending, version, run, records)
    BY <1>0, <1>1, ReadsOnStep
  <2>2. entry'.held = entry.held
    BY <1>0, <2>1, ReadOnKeepsShape
  <2>3. \A later : Current(entry, later, version, run, records) => Current(entry', later, version, run, records)
    BY <1>0, <2>1, ReadsOnIsCurrent
  <2> QED
    BY <2>2, <2>3
<1>2. CASE SnapshotArrives
  <2>1. entry.read # None /\ entry.read.at = "answer" /\ entry' = Recovered(entry)
    BY <1>2 DEF SnapshotArrives, IsReading, Update
  <2>2. entry.held = <<>> => entry'.held = <<>>
    BY <1>0, <2>1, HoldsStillNothing
  <2>3. \A later : Current(entry, later, version, run, records) => Current(entry', later, version, run, records)
    BY <1>0, <2>1, RecoveredIsCurrent
  <2> QED
    BY <2>2, <2>3
<1>3. CASE ReadFails
  <2>1. entry.read # None /\ entry' = [entry EXCEPT !.retrying = TRUE, !.read = None]
    BY <1>0, <1>3 DEF ReadFails, Update
  <2>2. entry'.recovering /\ entry'.held = entry.held /\ entry'.read = None
    BY <1>0, <2>1, FailedReadKeepsShape
  <2> QED
    BY <2>2 DEF Current
<1>4. CASE RetryFires
  <2>1. entry' = ReadSnapshot(entry)
    BY <1>4 DEF RetryFires, Update
  <2>2. entry'.recovering /\ entry'.held = entry.held /\ entry'.read = FirstRead
    BY <1>0, <2>1, ReadSnapshotKeepsShape
  <2> QED
    BY <2>2, FirstReadIsTrue DEF Current
<1>5. CASE Recover
  <2>1. entry' = RecoverProduction(entry)
    BY <1>5 DEF Recover, Update
  <2>2. entry'.held = entry.held
    BY <1>0, <2>1, RecoverKeepsShape
  <2>3. ASSUME NEW later, Current(entry, later, version, run, records)
        PROVE  Current(entry', later, version, run, records)
    <3>1. SeqTrue(entry.held, later, records)
      BY <2>3 DEF Current
    <3> QED
      BY <1>0, <2>1, <3>1, RecoverIsCurrent
  <2> QED
    BY <2>2, <2>3
<1> QED
  BY <1>1, <1>2, <1>3, <1>4, <1>5 DEF Reading, ReadsOn


LEMMA HeldStep ==
    ASSUME FollowInv, Next, entry' # None, link' \in {"none", "connecting"}
    PROVE  entry'.held = <<>>
<1>0. WorldOK /\ run \in Nat /\ (entry # None => Shape(entry, run))
  BY DEF FollowInv, RecoveryInv, WorldOK, EntryOK
<1>1. CASE SocketCloses \/ Close
  <2>1. entry # None /\ entry' = AbandonRecovery(entry)
    BY <1>1 DEF SocketCloses, Close
  <2> QED
    BY <1>0, <2>1, AbandonKeepsShape
<1>2. CASE Follow
  BY <1>0, <1>2, EmptyEntryShape DEF Follow
<1>3. CASE ReconnectFires \/ Connect
  <2>1. link = "none" /\ entry' = entry
    BY <1>3 DEF ReconnectFires, Connect, FollowInv, SocketInv, SocketOK
  <2> QED
    BY <2>1 DEF FollowInv
<1>4. ASSUME UNCHANGED link, entry # None
      PROVE  entry.held = <<>>
  BY <1>4 DEF FollowInv
<1>5. CASE \/ \E p \in Proposals : WriteProposal(p)
           \/ MoveRun \/ Publish
  BY <1>4, <1>5 DEF WriteProposal, MoveRun, Publish, socketVars, clientVars
<1>6. CASE ReadsOn
  <2>1. link' = link /\ entry # None
    BY <1>6 DEF ReadsOn, LoadVersion, ListUndecided, ListApproved, ListJobs, ReadOn, IsReading, socketVars
  <2>2. PICK read \in Reads : entry.read # None /\ entry' = WithRead(entry, read) /\ ReadShape(read, run)
    BY <1>0, <1>6, <2>1, ReadsOnStep
  <2>3. entry'.held = entry.held
    BY <1>0, <2>1, <2>2, ReadOnKeepsShape
  <2> QED
    BY <1>4, <2>1, <2>3
<1>7. CASE SnapshotArrives
  <2>1. link' = link /\ entry # None /\ entry.read # None /\ entry' = Recovered(entry)
    BY <1>7 DEF SnapshotArrives, IsReading, Update, socketVars
  <2> QED
    BY <1>0, <1>4, <2>1, HoldsStillNothing
<1>8. CASE ReadFails
  <2>1. link' = link /\ entry # None /\ entry.read # None
    BY <1>8 DEF ReadFails, socketVars
  <2>2. \/ entry' = [AbandonRecovery(entry) EXCEPT !.recovering = FALSE, !.read = None]
        \/ entry' = [entry EXCEPT !.retrying = TRUE, !.read = None]
    BY <1>8 DEF ReadFails, Update
  <2> QED
    BY <1>0, <1>4, <2>1, <2>2, GivenUpReadKeepsShape, FailedReadKeepsShape
<1>9. CASE RetryFires
  <2>1. link' = link /\ entry # None /\ entry' = ReadSnapshot(entry)
    BY <1>9 DEF RetryFires, Update, socketVars
  <2> QED
    BY <1>0, <1>4, <2>1, ReadSnapshotKeepsShape
<1>10. CASE Recover
  <2>1. link' = link /\ entry # None /\ entry' = RecoverProduction(entry)
    BY <1>10 DEF Recover, Update, socketVars
  <2> QED
    BY <1>0, <1>4, <2>1, RecoverKeepsShape
<1>11. CASE Receive \/ AnswerClient
  BY <1>0, <1>11 DEF Receive, AnswerClient, IsConnected
<1>12. CASE Accept \/ LoseSocket \/ Unfollow
  BY <1>12 DEF Accept, LoseSocket, Unfollow
<1> QED
  BY <1>1, <1>2, <1>3, <1>5, <1>6, <1>7, <1>8, <1>9, <1>10, <1>11, <1>12 DEF Next, Server, Reading, ReadsOn, User

LEMMA FollowedStep ==
    ASSUME PublishedInOrder, FollowInv, Next, RefollowsWait, entry' # None, link' = "open"
    PROVE  FollowedOK(entry', subscribed', up', down', outbox', version', run', records')
<1>0. /\ WorldOK /\ run \in Nat /\ subscribed \in BOOLEAN /\ up \in Seq(ClientMessages)
      /\ down \in Seq(ServerMessages) /\ outbox \in Seq(Notifications)
      /\ entry # None => Shape(entry, run) /\ entry \in Entries
  BY DEF FollowInv, RecoveryInv, WorldOK, EntryOK, Shape
<1>f. entry # None /\ link = "open" => FollowedOK(entry, subscribed, up, down, outbox, version, run, records)
  BY DEF FollowInv
<1>1. CASE (\E p \in Proposals : WriteProposal(p)) \/ MoveRun
  <2>1. PICK n \in Notifications :
             outbox' = Append(outbox, n) /\ IsNews(n, version, run, records, version', run', records')
    BY <1>0, <1>1, WriteIsNews
  <2>2. UNCHANGED <<entry, link, subscribed, up, down>>
    BY <1>1 DEF WriteProposal, MoveRun, socketVars, clientVars
  <2>3. entry # None /\ link = "open"
    BY <2>2
  <2>4. PICK o2, v2, r2, s2 : o2 = outbox' /\ v2 = version' /\ r2 = run' /\ s2 = records'
    OBVIOUS
  <2>5. Appended(o2, outbox, n) /\ IsNews(n, version, run, records, v2, r2, s2)
    BY <2>1, <2>4 DEF Appended
  <2>6. FollowedOK(entry, subscribed, up, down, outbox, version, run, records) /\ entry \in Entries
    BY <1>0, <1>f, <2>3
  <2>7. FollowedOK(entry, subscribed, up, down, o2, v2, r2, s2)
    BY <1>0, <2>5, <2>6, FollowedWrite
  <2> QED
    BY <2>2, <2>4, <2>7
<1>2. CASE Publish
  <2>1. /\ outbox # <<>> /\ outbox' = Tail(outbox)
        /\ down' = IF IsConnected /\ subscribed THEN Append(down, outbox[1]) ELSE down
    BY <1>0, <1>2, PublishInOrderStep
  <2>2. UNCHANGED <<entry, link, subscribed, up, version, run, records>>
    BY <1>2 DEF Publish, clientVars
  <2>3. entry # None /\ link = "open" /\ down' = IF subscribed THEN Append(down, outbox[1]) ELSE down
    BY <2>1, <2>2 DEF IsConnected
  <2>4. SeqTrue(outbox, {}, records)
    BY DEF FollowInv
  <2>5. PICK m : m = outbox[1]
    OBVIOUS
  <2>6. down' = IF subscribed THEN Append(down, m) ELSE down
    BY <2>3, <2>5
  <2>7. FollowedOK(entry, subscribed, up, down', outbox', version, run, records)
    BY <1>0, <1>f, <2>1, <2>3, <2>4, <2>5, <2>6, FollowedPublish
  <2> QED
    BY <2>2, <2>7
<1>3. CASE Accept
  <2>1. /\ link = "connecting" /\ ~subscribed' /\ down' = <<[type |-> "welcome"]>> /\ UNCHANGED <<up, entry>>
    BY <1>3 DEF Accept, clientVars
  <2>2. up = <<>>
    BY <2>1 DEF FollowInv, SocketInv, SocketOK
  <2>3. entry.held = <<>>
    BY <2>1 DEF FollowInv
  <2>4. QuietDown(down')
    BY <2>1, AnswersAreMessages DEF QuietDown
  <2> QED
    BY <2>1, <2>2, <2>3, <2>4 DEF FollowedOK
<1>4. CASE AnswerClient
  <2>1. PICK m \in ServerMessages :
             /\ up # <<>> /\ up' = Tail(up) /\ down' = Append(down, m) /\ link \in {"open", "closing"}
             /\ \/ Head(up) = "subscribe" /\ subscribed' = TRUE /\ m.type = "subscribed"
                \/ Head(up) # "subscribe" /\ subscribed' = FALSE /\ m.type = "unsubscribed"
    BY <1>0, <1>4, AnswerStep
  <2>2. UNCHANGED <<link, entry, version, run, records, outbox>>
    BY <1>4 DEF AnswerClient, serverVars, clientVars
  <2>3. FollowedOK(entry, subscribed, up, down, outbox, version, run, records)
    BY <1>f, <2>2
  <2>4. up = <<"subscribe">>
    BY <2>1, <2>3 DEF FollowedOK
  <2>5. Head(up) = "subscribe" /\ Tail(up) = <<>>
    BY <2>4
  <2>6. m.type = "subscribed" /\ subscribed' = TRUE /\ up' = <<>>
    BY <2>1, <2>5
  <2>7. PICK s2, u2, d2 : s2 = subscribed' /\ u2 = up' /\ d2 = down'
    OBVIOUS
  <2>8. Acknowledged(s2, u2, d2, down, m)
    BY <2>1, <2>6, <2>7 DEF Acknowledged
  <2>9. up # <<>> /\ m.type = "subscribed"
    BY <2>1, <2>6
  <2>10. FollowedOK(entry, s2, u2, d2, outbox, version, run, records)
    BY <1>0, <2>3, <2>8, <2>9, FollowedAnswer
  <2> QED
    BY <2>2, <2>7, <2>10
<1>5. CASE Receive
  <2>1. /\ down # <<>> /\ down' = Tail(down) /\ ReceiveCases
        /\ down[1].type = "job" => down[1].move <= run
        /\ UNCHANGED <<link, subscribed, version, run, records, outbox>>
    BY <1>0, <1>5, ReceiveStep DEF serverVars
  <2>2. CASE down[1].type = "welcome" /\ ReceiveWelcome
    <3>1. entry' = entry /\ entry # None /\ link = "open"
      BY <2>1, <2>2 DEF ReceiveWelcome
    <3>2. up' = Append(up, "subscribe")
      BY <2>2, <3>1 DEF ReceiveWelcome, Send
    <3>3. ~NotWelcomed(down)
      BY <1>0, <2>1, <2>2, TailFacts DEF NotWelcomed
    <3>4. ~subscribed /\ NoSubscribe(up)
      BY <3>1, <3>3 DEF FollowInv, SocketInv, SocketOK
    <3>5. up = <<>>
      <4>1. up = <<>> \/ up = <<"subscribe">>
        BY <1>f, <3>1 DEF FollowedOK
      <4>2. NoSubscribe(<<"subscribe">>) => FALSE
        BY DEF NoSubscribe
      <4> QED
        BY <3>4, <4>1, <4>2
    <3>6. up' = <<"subscribe">>
      BY <3>2, <3>5
    <3>7. FollowedOK(entry, subscribed, <<"subscribe">>, down', outbox, version, run, records)
      BY <1>0, <1>f, <2>1, <3>1, <3>4, FollowedWelcome
    <3> QED
      BY <2>1, <3>1, <3>6, <3>7
  <2>3. CASE down[1].type = "subscribed" /\ ReceiveSubscribed
    <3>1. entry # None
      BY <2>3 DEF ReceiveSubscribed, clientVars
    <3>2. entry' = RecoverProduction(entry) /\ up' = up
      BY <2>3, <3>1 DEF ReceiveSubscribed, Update
    <3>3. FollowedOK(entry', subscribed, up, down', outbox, version, run, records)
      BY <1>0, <1>f, <2>1, <2>3, <3>1, <3>2, FollowedAcknowledged
    <3> QED
      BY <2>1, <3>2, <3>3
  <2>4. CASE down[1] \in Notifications /\ ReceiveNotification(down[1])
    <3>1. entry # None
      BY <2>4 DEF ReceiveNotification, clientVars
    <3>2. entry' = ApplyNotification(entry, down[1]) /\ up' = up
      BY <2>4, <3>1 DEF ReceiveNotification, Update
    <3>3. PICK m : m = down[1]
      OBVIOUS
    <3>4. m \in Notifications /\ entry' = ApplyNotification(entry, m) /\ (m.type = "job" => m.move <= run)
      BY <2>1, <2>4, <3>2, <3>3
    <3>5. FollowedOK(entry', subscribed, up, down', outbox, version, run, records)
      BY <1>0, <1>f, <2>1, <3>1, <3>3, <3>4, FollowedNotice
    <3> QED
      BY <2>1, <3>2, <3>5
  <2>5. CASE down[1].type = "unsubscribed" /\ UNCHANGED <<up, clientVars>>
    <3>1. entry' = entry /\ up' = up /\ entry # None /\ link = "open"
      BY <2>1, <2>5 DEF clientVars
    <3>2. FollowedOK(entry, subscribed, up, down', outbox, version, run, records)
      BY <1>0, <1>f, <2>1, <2>5, <3>1, FollowedTail
    <3> QED
      BY <2>1, <3>1, <3>2
  <2> QED
    BY <2>1, <2>2, <2>3, <2>4, <2>5 DEF ReceiveCases
<1>6. CASE Reading \/ ReadFails \/ RetryFires \/ Recover
  <2>1. entry # None /\ UNCHANGED <<link, subscribed, up, down, version, run, records, outbox>>
    BY <1>6 DEF Reading, LoadVersion, ListUndecided, ListApproved, ListJobs, SnapshotArrives, ReadOn, ReadFails,
                RetryFires, Recover, IsReading, serverVars, socketVars
  <2>2. /\ entry.held = <<>> => entry'.held = <<>>
        /\ \A later : Current(entry, later, version, run, records) => Current(entry', later, version, run, records)
    BY <1>6, <2>1, ClientStep
  <2>3. FollowedOK(entry', subscribed, up, down, outbox, version, run, records)
    BY <1>f, <2>1, <2>2, FollowedClient
  <2> QED
    BY <2>1, <2>3
<1>7. CASE Follow
  <2>1. /\ entry = None /\ entry' = EmptyEntry
        /\ UNCHANGED <<link, subscribed, down, version, run, records, outbox>>
        /\ up' = IF status = "open" /\ link = "open" THEN Append(up, "subscribe") ELSE up
    BY <1>7 DEF Follow, Send, serverVars
  <2>2. ~subscribed /\ up = <<>> /\ QuietDown(down)
    BY <2>1 DEF RefollowsWait
  <2>3. up' = <<>> \/ up' = <<"subscribe">>
    BY <2>1, <2>2
  <2>4. entry'.held = <<>>
    BY <1>0, <2>1, EmptyEntryShape
  <2> QED
    BY <2>1, <2>2, <2>3, <2>4 DEF FollowedOK
<1>8. CASE LoseSocket \/ ReconnectFires \/ SocketCloses \/ Connect \/ Unfollow \/ Close
  BY <1>8 DEF LoseSocket, ReconnectFires, SocketCloses, Connect, OpenSocket, Unfollow, Close
<1> QED
  BY <1>1, <1>2, <1>3, <1>4, <1>5, <1>6, <1>7, <1>8 DEF Next, Server, User

LEMMA FollowInit == Init => FollowInv
<1>1. ASSUME Init PROVE FollowInv
  <2>1. RecoveryInv
    BY <1>1, RecoveryInit
  <2>2. SocketInv /\ SeqTrue(outbox, {}, records)
    BY <1>1, NothingPends, EmptyQueues DEF Init, SocketInv, SocketOK
  <2> QED
    BY <1>1, <2>1, <2>2 DEF Init, FollowInv
<1> QED
  BY <1>1

LEMMA FollowStep ==
    ASSUME PublishedInOrder
    PROVE  FollowInv /\ [Next]_vars /\ [RefollowsWait]_vars => FollowInv'
<1>1. ASSUME FollowInv, Next, RefollowsWait PROVE FollowInv'
  <2>1. RecoveryInv'
    BY <1>1, RecoveryStep DEF FollowInv
  <2>2. SocketInv'
    BY <1>1, SocketStep DEF FollowInv, RecoveryInv
  <2>3. SeqTrue(outbox', {}, records')
    BY <1>1, OutboxStep
  <2>4. entry' # None /\ link' \in {"none", "connecting"} => entry'.held = <<>>
    BY <1>1, HeldStep
  <2>5. entry' # None /\ link' = "open"
          => FollowedOK(entry', subscribed', up', down', outbox', version', run', records')
    BY <1>1, FollowedStep
  <2> QED
    BY <2>1, <2>2, <2>3, <2>4, <2>5 DEF FollowInv
<1>2. ASSUME FollowInv, UNCHANGED vars PROVE FollowInv'
  BY <1>2, RecoveryStep DEF FollowInv, SocketInv, vars, serverVars, socketVars, clientVars
<1> QED
  BY <1>1, <1>2

\* A client whose store publishes in order, and who follows a production again
\* on the same socket only when the gateway has nothing left to say about it,
\* shows the records whenever nothing is on its way.
THEOREM QuietViewsAreCurrent ==
    ASSUME PublishedInOrder
    PROVE  Spec /\ [][RefollowsWait]_vars => []QuietViewIsCurrent
<1>1. FollowInv => QuietViewIsCurrent
  BY FollowInvShowsTheRecords
<1>2. FollowInv /\ [Next]_vars /\ [RefollowsWait]_vars => FollowInv'
  BY FollowStep
<1> QED
  BY <1>1, <1>2, FollowInit, PTL DEF Spec

-----------------------------------------------------------------------------
(* A production that is followed once is never followed again.             *)

FollowedOnce ==
    /\ budget \in Budgets
    /\ budget.follows = MaxFollows =>
         entry = None /\ ~subscribed /\ up = <<>> /\ QuietDown(down)

LEMMA FollowedOnceStep ==
    ASSUME MaxFollows <= 1
    PROVE  FollowedOnce /\ RecoveryInv /\ [Next]_vars => FollowedOnce' /\ [RefollowsWait]_vars
<1>0. MaxFollows \in Nat
  BY BudgetsAreNatural
<1>1. ASSUME FollowedOnce, RecoveryInv, Next PROVE FollowedOnce' /\ RefollowsWait
  <2>0. /\ WorldOK /\ WorldOK' /\ budget \in Budgets /\ budget' \in Budgets
        /\ down \in Seq(ServerMessages) /\ up \in Seq(ClientMessages)
    BY <1>1, WorldStep DEF RecoveryInv, WorldOK
  <2>1. budget.follows \in 0..MaxFollows /\ budget'.follows \in 0..MaxFollows
    BY <2>0 DEF Budgets
  <2>2. CASE Follow
    <3>1. budget.follows > 0 /\ budget'.follows = budget.follows - 1
      BY <2>0, <2>2 DEF Follow, Spend, Budgets
    <3>2. budget.follows = MaxFollows /\ budget'.follows # MaxFollows
      BY <1>0, <2>1, <3>1
    <3> QED
      BY <1>1, <2>0, <3>2 DEF FollowedOnce, RefollowsWait
  <2>3. CASE ~Follow
    <3>1. ASSUME entry = None PROVE entry' = None
      BY <1>1, <2>3, <3>1
      DEF Next, WriteProposal, MoveRun, Server, Publish, Accept, AnswerClient, LoseSocket, Reading, LoadVersion,
          ListUndecided, ListApproved, ListJobs, SnapshotArrives, ReadOn, IsReading, ReadFails, RetryFires, Receive,
          ReceiveWelcome, ReceiveSubscribed, ReceiveNotification, ReconnectFires, SocketCloses, User, Connect,
          Unfollow, Recover, Close, clientVars
    <3>2. budget'.follows = budget.follows
      BY <1>1, <2>0, <2>3
      DEF Next, WriteProposal, MoveRun, Server, Publish, Accept, AnswerClient, LoseSocket, Reading, LoadVersion,
          ListUndecided, ListApproved, ListJobs, SnapshotArrives, ReadOn, ReadFails, RetryFires, Receive,
          ReconnectFires, SocketCloses, User, Connect, Unfollow, Recover, Close, Spend, Budgets
    <3>3. ASSUME entry = None, ~subscribed, up = <<>>, QuietDown(down)
          PROVE  ~subscribed' /\ up' = <<>> /\ QuietDown(down')
      <4>1. CASE Publish
        BY <3>3, <4>1 DEF Publish
      <4>2. CASE Accept
        <5>1. ~subscribed' /\ up' = <<>> /\ down' = <<[type |-> "welcome"]>>
          BY <3>3, <4>2 DEF Accept
        <5> QED
          BY <5>1, AnswersAreMessages DEF QuietDown
      <4>3. CASE LoseSocket \/ SocketCloses
        BY <3>3, <4>3, EmptyQueues DEF LoseSocket, SocketCloses
      <4>4. CASE Receive
        <5>1. down # <<>> /\ down' = Tail(down) /\ subscribed' = subscribed /\ ReceiveCases
          BY <2>0, <4>4, ReceiveStep
        <5>2. up' = up
          BY <3>3, <5>1 DEF ReceiveCases, ReceiveWelcome, ReceiveSubscribed, ReceiveNotification, clientVars
        <5>3. QuietDown(down')
          BY <2>0, <3>3, <5>1, QuietTail
        <5> QED
          BY <3>3, <5>1, <5>2, <5>3
      <4>5. CASE UNCHANGED <<subscribed, up, down>>
        BY <3>3, <4>5
      <4> QED
        BY <1>1, <2>3, <3>3, <4>1, <4>2, <4>3, <4>4, <4>5
        DEF Next, WriteProposal, MoveRun, Server, AnswerClient, Reading, LoadVersion, ListUndecided, ListApproved,
            ListJobs, SnapshotArrives, ReadOn, IsReading, ReadFails, RetryFires, ReconnectFires, User, Connect,
            Unfollow, Recover, Close, socketVars
    <3> QED
      BY <1>1, <2>0, <3>1, <3>2, <3>3 DEF FollowedOnce, RefollowsWait
  <2> QED
    BY <2>2, <2>3
<1>2. ASSUME FollowedOnce, UNCHANGED vars PROVE FollowedOnce'
  BY <1>2 DEF FollowedOnce, vars, serverVars, socketVars, clientVars
<1> QED
  BY <1>1, <1>2

LEMMA FollowedOnceInit == Init => FollowedOnce
<1>1. ASSUME Init PROVE FollowedOnce
  <2>1. budget \in Budgets
    BY <1>1, RecoveryInit DEF RecoveryInv, WorldOK
  <2> QED
    BY <1>1, <2>1, EmptyQueues DEF Init, FollowedOnce
<1> QED
  BY <1>1

\* A client that follows its production once shows the records whenever nothing
\* is on its way, wherever writes fell between the parts of a snapshot, the
\* subscription and the notifications, and whatever was lost or failed before.
THEOREM FirstFollowersAreCurrent ==
    ASSUME PublishedInOrder, MaxFollows <= 1
    PROVE  Spec => []QuietViewIsCurrent
<1>1. FollowInv => QuietViewIsCurrent
  BY FollowInvShowsTheRecords
<1>2. FollowInv /\ [Next]_vars /\ [RefollowsWait]_vars => FollowInv'
  BY FollowStep
<1>3. FollowedOnce /\ RecoveryInv /\ [Next]_vars => FollowedOnce' /\ [RefollowsWait]_vars
  BY FollowedOnceStep
<1>4. FollowInv => RecoveryInv
  BY DEF FollowInv
<1>5. (FollowInv /\ FollowedOnce) /\ [Next]_vars => (FollowInv /\ FollowedOnce)'
  BY <1>2, <1>3, <1>4
<1>6. Init => FollowInv /\ FollowedOnce
  BY FollowInit, FollowedOnceInit
<1>7. FollowInv /\ FollowedOnce => QuietViewIsCurrent
  BY <1>1
<1> QED
  BY <1>5, <1>6, <1>7, PTL DEF Spec

=============================================================================
