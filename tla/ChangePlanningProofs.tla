------------------------ MODULE ChangePlanningProofs ------------------------
(***************************************************************************)
(* Whatever is applied, by the agent or by hand, in whatever order and on  *)
(* whatever version it was prepared, the production stays sound, windows   *)
(* mean their days, retries are skipped and analyses are exact. A plan of  *)
(* the agent that is applied settles its change, and an unavailability is  *)
(* answered unless no day would do: for any productions, changes and       *)
(* operation lists.                                                        *)
(***************************************************************************)
EXTENDS ChangePlanning, FiniteSetTheorems, SequenceTheorems, WellFoundedInduction, TLAPS

-----------------------------------------------------------------------------
(* Induction, and functions that compute step by step.                     *)

\* A set of naturals that is not empty has a least element.
LEMMA LeastNatural ==
    ASSUME NEW T, T \subseteq Nat, T # {}
    PROVE  \E m \in T : \A n \in T : m <= n
<1> DEFINE Before == OpToRel(<, Nat)
<1>1. IsWellFoundedOn(Before, Nat)
  BY NatLessThanWellFounded
<1>2. \A x, y \in Nat : <<y, x>> \in Before <=> y < x
  BY DEF OpToRel
<1> HIDE DEF Before
<1>3. PICK m \in T : \A n \in T : ~(<<n, m>> \in Before)
  BY <1>1, WFMin
<1>4. ASSUME NEW n \in T PROVE m <= n
  <2>1. m \in Nat /\ n \in Nat /\ ~(n < m)
    BY <1>2, <1>3
  <2> QED
    BY <2>1
<1> QED
  BY <1>4

\* Induction over a set of naturals.
LEMMA NaturalInduction ==
    ASSUME NEW T, 0 \in T, \A n \in Nat : n \in T => n + 1 \in T
    PROVE  \A n \in Nat : n \in T
<1> DEFINE Missed == {n \in Nat : n \notin T}
<1>1. SUFFICES ASSUME Missed # {} PROVE FALSE
  OBVIOUS
<1>2. PICK m \in Missed : \A n \in Missed : m <= n
  BY <1>1, LeastNatural
<1>3. m # 0 /\ m - 1 \in Nat /\ m - 1 \notin Missed
  BY <1>2
<1> QED
  BY <1>2, <1>3

\* Induction up to a bound.
LEMMA BoundedInduction ==
    ASSUME NEW k \in Nat, NEW T, 0 \in T, \A n \in 1..k : n - 1 \in T => n \in T
    PROVE  \A n \in 0..k : n \in T
<1> DEFINE U == {n \in Nat : n <= k => n \in T}
<1>1. 0 \in U
  OBVIOUS
<1>2. ASSUME NEW n \in Nat, n \in U PROVE n + 1 \in U
  <2>1. SUFFICES ASSUME n + 1 <= k PROVE n + 1 \in T
    OBVIOUS
  <2>2. n + 1 \in 1..k /\ (n + 1) - 1 = n /\ n \in T
    BY <1>2, <2>1
  <2> QED
    BY <2>2
<1> HIDE DEF U
<1>3. \A n \in Nat : n \in U
  BY <1>1, <1>2, NaturalInduction
<1> QED
  BY <1>3 DEF U

\* A function that is begun, and stepped on k times.
Stepped(f, k, V, begun, step) ==
    /\ f \in [0..k -> V] /\ f[0] = begun
    /\ \A n \in 1..k : f[n] = step[n][f[n - 1]]

\* A step of a computation whose states are those of V.
IsStep(step, k, V) == step \in [1..k -> [V -> V]]

\* There is one when the values stay in a set.
LEMMA SomethingSteps ==
    ASSUME NEW k \in Nat, NEW V, NEW begun \in V, NEW step, IsStep(step, k, V)
    PROVE  \E f : Stepped(f, k, V, begun, step)
<1> USE DEF IsStep
<1> DEFINE Folds(f, j) == /\ f \in [0..j -> V] /\ f[0] = begun
                          /\ \A n \in 1..j : f[n] = step[n][f[n - 1]]
           T == {j \in Nat : \E f : Folds(f, j)}
<1>1. 0 \in T
  <2>1. PICK f : f = [n \in 0..0 |-> begun]
    OBVIOUS
  <2>2. Folds(f, 0)
    BY <2>1
  <2> QED
    BY <2>2
<1>2. ASSUME NEW j \in 1..k, j - 1 \in T PROVE j \in T
  <2>1. PICK f : Folds(f, j - 1)
    BY <1>2
  <2>2. PICK g : g = [n \in 0..j |-> IF n = j THEN step[j][f[j - 1]] ELSE f[n]]
    OBVIOUS
  <2>3. j \in Nat /\ j - 1 \in 0..(j - 1) /\ f[j - 1] \in V /\ j # 0
    BY <2>1
  <2>4. g[j] = step[j][f[j - 1]] /\ g[j] \in V
    BY <2>2, <2>3
  <2>5. \A n \in 0..(j - 1) : g[n] = f[n] /\ g[n] \in V
    BY <2>1, <2>2
  <2>6. \A n \in 0..j : n = j \/ n \in 0..(j - 1)
    OBVIOUS
  <2>7. g \in [0..j -> V] /\ g[0] = begun
    BY <2>1, <2>2, <2>3, <2>4, <2>5, <2>6
  <2>8. ASSUME NEW n \in 1..j PROVE g[n] = step[n][g[n - 1]]
    <3>1. n - 1 \in 0..(j - 1)
      OBVIOUS
    <3>2. CASE n = j
      BY <2>4, <2>5, <3>1, <3>2
    <3>3. CASE n # j
      <4>1. n \in 1..(j - 1) /\ n \in 0..(j - 1)
        BY <3>3
      <4> QED
        BY <2>1, <2>5, <3>1, <4>1
    <3> QED
      BY <3>2, <3>3
  <2>9. Folds(g, j)
    BY <2>7, <2>8
  <2> QED
    BY <2>3, <2>9
<1> HIDE DEF T
<1>3. \A j \in 0..k : j \in T
  BY <1>1, <1>2, BoundedInduction
<1>4. k \in 0..k
  OBVIOUS
<1> QED
  BY <1>3, <1>4 DEF T, Stepped

-----------------------------------------------------------------------------
(* Windows of days.                                                        *)

\* Windows in the order they are merged in.
InOrder(sorted) == \A i, j \in 1..Len(sorted) : i < j => ~StartsBefore(sorted[j], sorted[i])

\* Lists of windows that are sorted.
SortedLists == {sorted \in Seq(DateRanges) : InOrder(sorted)}

\* There is a place for a window among sorted ones.
LEMMA PlaceExists ==
    ASSUME NEW sorted \in SortedLists, NEW window \in DateRanges
    PROVE  LET k == PlaceFor(sorted, window)
           IN  /\ k \in 0..Len(sorted)
               /\ \A i \in 1..k : ~StartsBefore(window, sorted[i])
               /\ \A i \in (k + 1)..Len(sorted) : StartsBefore(window, sorted[i])
<1>1. Len(sorted) \in Nat /\ \A i \in 1..Len(sorted) : sorted[i] \in DateRanges
  BY DEF SortedLists
<1>2. SUFFICES \E k \in 0..Len(sorted) : /\ \A i \in 1..k : ~StartsBefore(window, sorted[i])
                                         /\ \A i \in (k + 1)..Len(sorted) : StartsBefore(window, sorted[i])
  BY DEF PlaceFor
<1> DEFINE Later == {i \in 1..Len(sorted) : StartsBefore(window, sorted[i])}
<1>3. CASE Later = {}
  <2>1. \A i \in (Len(sorted) + 1)..Len(sorted) : FALSE
    BY <1>1
  <2> QED
    BY <1>1, <1>3, <2>1
<1>4. CASE Later # {}
  <2>1. PICK m \in Later : \A i \in Later : m <= i
    <3>1. Later \subseteq Nat
      BY <1>1
    <3> QED
      BY <1>4, <3>1, LeastNatural
  <2>2. PICK k : k = m - 1
    OBVIOUS
  <2>3. k \in 0..Len(sorted) /\ m \in 1..Len(sorted) /\ StartsBefore(window, sorted[m])
    BY <1>1, <2>1, <2>2
  <2>4. ASSUME NEW i \in 1..k PROVE ~StartsBefore(window, sorted[i])
    <3>1. i \in 1..Len(sorted) /\ ~(m <= i)
      BY <1>1, <2>2, <2>3
    <3> QED
      BY <2>1, <3>1
  <2>5. ASSUME NEW i \in (k + 1)..Len(sorted) PROVE StartsBefore(window, sorted[i])
    <3>1. i \in 1..Len(sorted) /\ m <= i
      BY <1>1, <2>2, <2>3
    <3>2. CASE m = i
      BY <2>3, <3>2
    <3>3. CASE m < i
      <4>1. ~StartsBefore(sorted[i], sorted[m])
        BY <2>3, <3>1, <3>3 DEF SortedLists, InOrder
      <4> QED
        BY <1>1, <2>3, <3>1, <4>1 DEF StartsBefore, DateRanges
    <3> QED
      BY <1>1, <2>3, <3>1, <3>2, <3>3
  <2> QED
    BY <2>3, <2>4, <2>5
<1> QED
  BY <1>3, <1>4

\* Inserted there, it leaves them sorted.
LEMMA InsertedIsSorted ==
    ASSUME NEW sorted \in SortedLists, NEW window \in DateRanges,
           NEW longer, longer = Inserted(sorted, window)
    PROVE  /\ longer \in SortedLists /\ Len(longer) = Len(sorted) + 1
           /\ ToSet(longer) = ToSet(sorted) \cup {window}
<1>1. PICK n \in Nat : n = Len(sorted)
  BY DEF SortedLists
<1>2. \A i \in 1..n : sorted[i] \in DateRanges
  BY <1>1 DEF SortedLists
<1>3. PICK k \in 0..n : /\ k = PlaceFor(sorted, window)
                        /\ \A i \in 1..k : ~StartsBefore(window, sorted[i])
                        /\ \A i \in (k + 1)..n : StartsBefore(window, sorted[i])
  BY <1>1, PlaceExists
<1>4. longer = [i \in 1..(n + 1) |-> IF i <= k THEN sorted[i] ELSE IF i = k + 1 THEN window ELSE sorted[i - 1]]
  BY <1>1, <1>3 DEF Inserted
<1>5. /\ \A i \in 1..k : i \in 1..n /\ i \in 1..(n + 1) /\ longer[i] = sorted[i]
      /\ k + 1 \in 1..(n + 1) /\ longer[k + 1] = window
      /\ \A i \in (k + 2)..(n + 1) : i - 1 \in 1..n /\ i - 1 \in (k + 1)..n /\ longer[i] = sorted[i - 1]
      /\ \A i \in 1..(n + 1) : i \in 1..k \/ i = k + 1 \/ i \in (k + 2)..(n + 1)
  BY <1>4
<1>6. \A i \in 1..(n + 1) : longer[i] \in DateRanges
  BY <1>2, <1>5
<1>7. longer \in Seq(DateRanges) /\ Len(longer) = n + 1
  BY <1>4, <1>6
<1>8. ASSUME NEW i \in 1..(n + 1), NEW j \in 1..(n + 1), i < j PROVE ~StartsBefore(longer[j], longer[i])
  <2>1. \A a, b \in 1..n : a < b => ~StartsBefore(sorted[b], sorted[a])
    BY <1>1 DEF SortedLists, InOrder
  <2>2. CASE i \in 1..k /\ j \in 1..k
    BY <1>5, <1>8, <2>1, <2>2
  <2>3. CASE i \in 1..k /\ j = k + 1
    BY <1>3, <1>5, <2>3
  <2>4. CASE i \in 1..k /\ j \in (k + 2)..(n + 1)
    BY <1>5, <2>1, <2>4
  <2>5. CASE i = k + 1 /\ j \in (k + 2)..(n + 1)
    <3>1. StartsBefore(window, longer[j]) /\ longer[j] \in DateRanges
      BY <1>3, <1>5, <1>6, <2>5
    <3> QED
      BY <1>5, <2>5, <3>1 DEF StartsBefore, DateRanges
  <2>6. CASE i \in (k + 2)..(n + 1) /\ j \in (k + 2)..(n + 1)
    <3>1. i - 1 < j - 1
      BY <1>8
    <3> QED
      BY <1>5, <2>1, <2>6, <3>1
  <2>7. \/ i \in 1..k /\ j \in 1..k
        \/ i \in 1..k /\ j = k + 1
        \/ i \in 1..k /\ j \in (k + 2)..(n + 1)
        \/ i = k + 1 /\ j \in (k + 2)..(n + 1)
        \/ i \in (k + 2)..(n + 1) /\ j \in (k + 2)..(n + 1)
    BY <1>8
  <2> QED
    BY <2>2, <2>3, <2>4, <2>5, <2>6, <2>7
<1>9. ToSet(longer) = ToSet(sorted) \cup {window}
  <2>1. DOMAIN longer = 1..(n + 1) /\ DOMAIN sorted = 1..n
    BY <1>1, <1>7 DEF SortedLists
  <2>2. ASSUME NEW x \in ToSet(longer) PROVE x \in ToSet(sorted) \cup {window}
    BY <1>5, <2>1 DEF ToSet
  <2>3. ASSUME NEW x \in ToSet(sorted) PROVE x \in ToSet(longer)
    <3>1. PICK i \in 1..n : x = sorted[i]
      BY <2>1 DEF ToSet
    <3>2. CASE i \in 1..k
      BY <1>5, <2>1, <3>1, <3>2 DEF ToSet
    <3>3. CASE i \notin 1..k
      <4>1. i + 1 \in (k + 2)..(n + 1) /\ (i + 1) - 1 = i /\ i + 1 \in 1..(n + 1)
        BY <3>3
      <4>2. longer[i + 1] = x
        BY <1>5, <3>1, <4>1
      <4> QED
        BY <2>1, <4>1, <4>2 DEF ToSet
    <3> QED
      BY <3>2, <3>3
  <2>4. window \in ToSet(longer)
    BY <1>5, <2>1 DEF ToSet
  <2> QED
    BY <2>2, <2>3, <2>4
<1> QED
  BY <1>1, <1>7, <1>8, <1>9 DEF SortedLists, InOrder

\* Sorting inserts one window after the other.
LEMMA SortingUnfolds ==
    ASSUME NEW windows \in Seq(DateRanges)
    PROVE  /\ Sorting(windows)[0] = <<>>
           /\ \A n \in 1..Len(windows) : Sorting(windows)[n] = Inserted(Sorting(windows)[n - 1], windows[n])
<1>1. PICK k \in Nat : k = Len(windows)
  OBVIOUS
<1>2. \A n \in 1..k : windows[n] \in DateRanges
  BY <1>1
<1> DEFINE Sorts(f) == f = [n \in 0..k |-> IF n = 0 THEN <<>> ELSE Inserted(f[n - 1], windows[n])]
<1>3. \E f : Sorts(f)
  <2>1. PICK step : step = [n \in 1..k |-> [sorted \in SortedLists |-> Inserted(sorted, windows[n])]]
    OBVIOUS
  <2>2. ASSUME NEW n \in 1..k, NEW sorted \in SortedLists
        PROVE  step[n][sorted] = Inserted(sorted, windows[n]) /\ Inserted(sorted, windows[n]) \in SortedLists
    BY <1>2, <2>1, InsertedIsSorted
  <2>3. step \in [1..k -> [SortedLists -> SortedLists]]
    BY <2>1, <2>2
  <2>a. <<>> \in SortedLists
    BY DEF SortedLists, InOrder
  <2>4. PICK none \in SortedLists : none = <<>>
    BY <2>a
  <2>b. IsStep(step, k, SortedLists)
    BY <2>3 DEF IsStep
  <2>c. PICK f : Stepped(f, k, SortedLists, none, step)
    BY <2>b, SomethingSteps
  <2>5. /\ f \in [0..k -> SortedLists] /\ f[0] = <<>>
        /\ \A n \in 1..k : f[n] = step[n][f[n - 1]]
    BY <2>4, <2>c DEF Stepped
  <2>6. ASSUME NEW n \in 0..k PROVE f[n] = IF n = 0 THEN <<>> ELSE Inserted(f[n - 1], windows[n])
    <3>1. CASE n = 0
      BY <2>5, <3>1
    <3>2. CASE n # 0
      <4>1. n \in 1..k /\ n - 1 \in 0..k
        BY <3>2
      <4> QED
        BY <2>2, <2>5, <3>2, <4>1
    <3> QED
      BY <3>1, <3>2
  <2>7. f = [n \in 0..k |-> f[n]]
    BY <2>5
  <2>8. Sorts(f)
    BY <2>6, <2>7
  <2> QED
    BY <2>8
<1>4. Sorting(windows) = CHOOSE f : Sorts(f)
  BY <1>1 DEF Sorting
<1>5. Sorts(Sorting(windows))
  BY <1>3, <1>4
<1> QED
  BY <1>1, <1>5

\* Sorting loses none of the windows and adds none.
LEMMA SortedWindows ==
    ASSUME NEW windows \in Seq(DateRanges), NEW sorted, sorted = Sorting(windows)[Len(windows)]
    PROVE  sorted \in SortedLists /\ ToSet(sorted) = ToSet(windows)
<1>1. PICK k \in Nat : k = Len(windows)
  OBVIOUS
<1>2. PICK f : f = Sorting(windows)
  OBVIOUS
<1>3. f[0] = <<>> /\ \A n \in 1..k : f[n] = Inserted(f[n - 1], windows[n])
  BY <1>1, <1>2, SortingUnfolds
<1> DEFINE T == {n \in 0..k : f[n] \in SortedLists /\ ToSet(f[n]) = {windows[i] : i \in 1..n}}
<1>4. 0 \in T
  <2>1. f[0] \in SortedLists
    BY <1>3 DEF SortedLists, InOrder
  <2>2. ToSet(f[0]) = {}
    BY <1>3 DEF ToSet
  <2> QED
    BY <2>1, <2>2
<1>5. ASSUME NEW n \in 1..k, n - 1 \in T PROVE n \in T
  <2>1. /\ f[n] \in SortedLists
        /\ ToSet(f[n]) = ToSet(f[n - 1]) \cup {windows[n]}
    BY <1>1, <1>3, <1>5, InsertedIsSorted
  <2>2. 1..n = 1..(n - 1) \cup {n}
    OBVIOUS
  <2> QED
    BY <1>5, <2>1, <2>2
<1> HIDE DEF T
<1>6. \A n \in 0..k : n \in T
  BY <1>4, <1>5, BoundedInduction
<1>7. f[k] \in SortedLists /\ ToSet(f[k]) = {windows[i] : i \in 1..k}
  <2>1. k \in 0..k
    OBVIOUS
  <2> QED
    BY <1>6, <2>1 DEF T
<1>8. ToSet(windows) = {windows[i] : i \in 1..k}
  BY <1>1 DEF ToSet
<1> QED
  BY <1>1, <1>2, <1>7, <1>8

-----------------------------------------------------------------------------
(* Merging.                                                                *)

\* Windows in order, with a free day between two, or behind one that ends on the last day.
Apart(merged) ==
    \A i, j \in 1..Len(merged) : i < j =>
      /\ merged[i].start <= merged[j].start
      /\ merged[i].end + 1 < merged[j].start \/ \E h \in 1..i : merged[h].end = LastDay

\* Lists of windows that are in order, with a free day between two.
MergedLists == {merged \in Seq(DateRanges) : Apart(merged)}

\* What is merged before a window that starts at a day.
Reaches(merged, day) == \A i \in 1..Len(merged) : merged[i].start <= day

\* From the year 100 on, the merge takes the next day for the day after, and
\* none for the day after the last.
LEMMA DaysFollow ==
    ASSUME NEW range \in DateRanges
    PROVE  /\ DayAfter(range.end) \in Int /\ DayAfter(range.end) <= range.end + 1
           /\ range.end # LastDay => DayAfter(range.end) = range.end + 1
  BY DEF DateRanges, DayAfter, FirstDay, Year100, LastDay

\* A window that reaches the previous one adds its days to it.
LEMMA MergeExtends ==
    ASSUME NEW merged \in MergedLists, NEW window \in DateRanges, Reaches(merged, window.start),
           merged # <<>>, window.start <= DayAfter(Last(merged).end),
           NEW next, next = MergeWindow(merged, window)
    PROVE  /\ next \in MergedLists /\ Reaches(next, window.start)
           /\ DaysOf(next) = DaysOf(merged) \cup (window.start..window.end)
<1>1. PICK n \in Nat : n = Len(merged)
  BY DEF MergedLists
<1>2. n \in 1..n /\ \A i \in 1..n : merged[i] \in DateRanges
  BY <1>1 DEF MergedLists
<1>3. PICK tail : tail = merged[n] /\ tail \in DateRanges
  BY <1>2
<1>4. PICK finish : finish = IF window.end > tail.end THEN window.end ELSE tail.end
  OBVIOUS
<1>5. PICK wide : wide = [start |-> tail.start, end |-> finish]
  OBVIOUS
<1>6. Last(merged) = tail
  BY <1>1, <1>3 DEF Last
<1>7. next = [merged EXCEPT ![n] = wide]
  <2>1. next = [merged EXCEPT ![n].end = IF window.end > @ THEN window.end ELSE @]
    BY <1>1 DEF MergeWindow
  <2>2. next = [merged EXCEPT ![n] = [tail EXCEPT !.end = IF window.end > @ THEN window.end ELSE @]]
    BY <1>1, <1>2, <1>3, <2>1 DEF MergedLists
  <2>3. wide = [tail EXCEPT !.end = IF window.end > @ THEN window.end ELSE @]
    BY <1>3, <1>4, <1>5 DEF DateRanges
  <2> QED
    BY <2>2, <2>3
<1>8. /\ wide \in DateRanges
      /\ tail.start <= window.start /\ window.start <= tail.end + 1
  <2>1. window.start <= DayAfter(tail.end) /\ DayAfter(tail.end) <= tail.end + 1
    BY <1>3, <1>6, DaysFollow
  <2>2. DayAfter(tail.end) \in Int
    BY <1>3, DaysFollow
  <2>3. tail.start <= window.start /\ window.start <= tail.end + 1
    BY <1>1, <1>2, <1>3, <2>1, <2>2 DEF DateRanges, Reaches
  <2>4. wide \in DateRanges
    BY <1>3, <1>4, <1>5 DEF DateRanges
  <2> QED
    BY <2>3, <2>4
<1>9. wide.start..wide.end = (tail.start..tail.end) \cup (window.start..window.end)
  BY <1>3, <1>4, <1>5, <1>8 DEF DateRanges
<1>10. /\ next \in Seq(DateRanges) /\ Len(next) = n /\ next[n] = wide
       /\ \A i \in 1..n : i # n => next[i] = merged[i]
  BY <1>1, <1>2, <1>7, <1>8 DEF MergedLists
<1>11. Apart(next)
  <2>1. ASSUME NEW i \in 1..n, NEW j \in 1..n, i < j
        PROVE  /\ next[i].start <= next[j].start
               /\ next[i].end + 1 < next[j].start \/ \E h \in 1..i : next[h].end = LastDay
    <3>1. i # n /\ \A h \in 1..i : h \in 1..n /\ h # n
      BY <2>1
    <3>2. /\ merged[i].start <= merged[j].start
          /\ merged[i].end + 1 < merged[j].start \/ \E h \in 1..i : merged[h].end = LastDay
      BY <1>1, <2>1 DEF MergedLists, Apart
    <3>3. next[j].start = merged[j].start
      BY <1>3, <1>5, <1>10
    <3> QED
      BY <1>10, <3>1, <3>2, <3>3
  <2> QED
    BY <1>10, <2>1 DEF Apart
<1>12. Reaches(next, window.start)
  BY <1>1, <1>5, <1>8, <1>10 DEF Reaches
<1>13. DaysOf(next) = DaysOf(merged) \cup (window.start..window.end)
  <2>1. DOMAIN next = 1..n /\ DOMAIN merged = 1..n
    BY <1>1, <1>10 DEF MergedLists
  <2>2. ASSUME NEW day \in DaysOf(next) PROVE day \in DaysOf(merged) \cup (window.start..window.end)
    <3>1. PICK i \in 1..n : day \in next[i].start..next[i].end
      BY <2>1 DEF DaysOf
    <3> QED
      BY <1>3, <1>9, <1>10, <2>1, <3>1 DEF DaysOf
  <2>3. ASSUME NEW day \in DaysOf(merged) PROVE day \in DaysOf(next)
    <3>1. PICK i \in 1..n : day \in merged[i].start..merged[i].end
      BY <2>1 DEF DaysOf
    <3>2. day \in next[i].start..next[i].end
      BY <1>3, <1>9, <1>10, <3>1
    <3> QED
      BY <2>1, <3>2 DEF DaysOf
  <2>4. ASSUME NEW day \in window.start..window.end PROVE day \in DaysOf(next)
    <3>1. day \in next[n].start..next[n].end
      BY <1>9, <1>10, <2>4
    <3> QED
      BY <1>2, <2>1, <3>1 DEF DaysOf
  <2> QED
    BY <2>2, <2>3, <2>4
<1> QED
  BY <1>10, <1>11, <1>12, <1>13 DEF MergedLists

\* A window that does not follows it.
LEMMA MergeAppends ==
    ASSUME NEW merged \in MergedLists, NEW window \in DateRanges, Reaches(merged, window.start),
           ~(merged # <<>> /\ window.start <= DayAfter(Last(merged).end)),
           NEW next, next = MergeWindow(merged, window)
    PROVE  /\ next \in MergedLists /\ Reaches(next, window.start)
           /\ DaysOf(next) = DaysOf(merged) \cup (window.start..window.end)
<1>1. PICK n \in Nat : n = Len(merged)
  BY DEF MergedLists
<1>2. \A i \in 1..n : merged[i] \in DateRanges
  BY <1>1 DEF MergedLists
<1>3. next = Append(merged, window)
  BY DEF MergeWindow
<1>4. /\ next \in Seq(DateRanges) /\ Len(next) = n + 1 /\ next[n + 1] = window
      /\ \A i \in 1..n : next[i] = merged[i]
  BY <1>1, <1>3 DEF MergedLists
<1>5. ASSUME NEW i \in 1..n
      PROVE  /\ merged[i].start <= window.start
             /\ merged[i].end + 1 < window.start \/ \E h \in 1..i : merged[h].end = LastDay
  <2>1. /\ merged # <<>> /\ Last(merged) = merged[n] /\ n \in 1..n
        /\ merged[n] \in DateRanges /\ merged[i] \in DateRanges
    BY <1>1, <1>2, <1>5 DEF Last
  <2>2. /\ merged[i].start <= window.start
        /\ merged[n].start <= window.start
    BY <1>1, <2>1 DEF Reaches
  <2>3. merged[n].end = LastDay \/ merged[n].end + 1 < window.start
    <3>1. ~(window.start <= DayAfter(merged[n].end)) /\ DayAfter(merged[n].end) \in Int
      BY <2>1, DaysFollow
    <3>2. merged[n].end # LastDay => DayAfter(merged[n].end) = merged[n].end + 1
      BY <2>1, DaysFollow
    <3> QED
      BY <3>1, <3>2 DEF DateRanges
  <2>4. CASE i = n
    BY <2>2, <2>3, <2>4
  <2>5. CASE i # n
    <3>1. merged[i].end + 1 < merged[n].start \/ \E h \in 1..i : merged[h].end = LastDay
      BY <1>1, <2>1, <2>5 DEF MergedLists, Apart
    <3> QED
      BY <2>1, <2>2, <3>1 DEF DateRanges
  <2> QED
    BY <2>4, <2>5
<1>6. Apart(next)
  <2>1. ASSUME NEW i \in 1..(n + 1), NEW j \in 1..(n + 1), i < j
        PROVE  /\ next[i].start <= next[j].start
               /\ next[i].end + 1 < next[j].start \/ \E h \in 1..i : next[h].end = LastDay
    <3>1. i \in 1..n /\ \A h \in 1..i : next[h] = merged[h]
      BY <1>4, <2>1
    <3>2. CASE j = n + 1
      BY <1>4, <1>5, <3>1, <3>2
    <3>3. CASE j # n + 1
      <4>1. j \in 1..n /\ next[j] = merged[j] /\ next[i] = merged[i]
        BY <1>4, <2>1, <3>1, <3>3
      <4>2. /\ merged[i].start <= merged[j].start
            /\ merged[i].end + 1 < merged[j].start \/ \E h \in 1..i : merged[h].end = LastDay
        BY <1>1, <2>1, <3>1, <4>1 DEF MergedLists, Apart
      <4> QED
        BY <3>1, <4>1, <4>2
    <3> QED
      BY <3>2, <3>3
  <2> QED
    BY <1>4, <2>1 DEF Apart
<1>7. Reaches(next, window.start)
  <2>1. ASSUME NEW i \in 1..(n + 1) PROVE next[i].start <= window.start
    <3>1. CASE i = n + 1
      BY <1>4, <3>1 DEF DateRanges
    <3>2. CASE i # n + 1
      BY <1>1, <1>4, <3>2 DEF Reaches
    <3> QED
      BY <3>1, <3>2
  <2> QED
    BY <1>4, <2>1 DEF Reaches
<1>8. DaysOf(next) = DaysOf(merged) \cup (window.start..window.end)
  <2>1. DOMAIN next = 1..(n + 1) /\ DOMAIN merged = 1..n /\ 1..(n + 1) = 1..n \cup {n + 1}
    BY <1>1, <1>4 DEF MergedLists
  <2> QED
    BY <1>4, <2>1 DEF DaysOf
<1> QED
  BY <1>4, <1>6, <1>7, <1>8 DEF MergedLists

\* One more window, that starts no earlier than those merged so far.
LEMMA MergeStep ==
    ASSUME NEW merged \in MergedLists, NEW window \in DateRanges, Reaches(merged, window.start),
           NEW next, next = MergeWindow(merged, window)
    PROVE  /\ next \in MergedLists /\ Reaches(next, window.start)
           /\ DaysOf(next) = DaysOf(merged) \cup (window.start..window.end)
  BY MergeExtends, MergeAppends

\* A merge step makes windows of windows.
LEMMA MergeIsTyped ==
    ASSUME NEW merged \in Seq(DateRanges), NEW window \in DateRanges
    PROVE  MergeWindow(merged, window) \in Seq(DateRanges)
<1>1. CASE merged # <<>> /\ window.start <= DayAfter(Last(merged).end)
  <2>1. PICK n \in Nat : n = Len(merged)
    OBVIOUS
  <2>2. n \in 1..n /\ merged[n] \in DateRanges
    BY <1>1, <2>1
  <2>3. PICK old : old = merged[n]
    OBVIOUS
  <2>4. PICK wide : wide = [old EXCEPT !.end = IF window.end > @ THEN window.end ELSE @]
    OBVIOUS
  <2>5. wide \in DateRanges
    <3>1. /\ old \in [start : Int, end : Int] /\ old.start <= old.end /\ window.end \in Int
          /\ Year100 <= old.start /\ old.end <= LastDay /\ window.end <= LastDay
      BY <2>2, <2>3 DEF DateRanges
    <3>2. wide \in [start : Int, end : Int] /\ wide.start = old.start
      BY <2>4, <3>1
    <3>3. wide.end = IF window.end > old.end THEN window.end ELSE old.end
      BY <2>4, <3>1
    <3>4. Year100 <= wide.start /\ wide.start <= wide.end /\ wide.end <= LastDay
      BY <3>1, <3>2, <3>3 DEF LastDay
    <3> QED
      BY <3>2, <3>4 DEF DateRanges
  <2>6. MergeWindow(merged, window) = [merged EXCEPT ![n] = wide]
    <3>1. MergeWindow(merged, window) = [merged EXCEPT ![n].end = IF window.end > @ THEN window.end ELSE @]
      BY <1>1, <2>1 DEF MergeWindow
    <3> QED
      BY <2>1, <2>2, <2>3, <2>4, <3>1
  <2> QED
    BY <2>1, <2>2, <2>5, <2>6
<1>2. CASE ~(merged # <<>> /\ window.start <= DayAfter(Last(merged).end))
  BY <1>2 DEF MergeWindow
<1> QED
  BY <1>1, <1>2

\* Merging takes one sorted window after the other.
LEMMA MergingUnfolds ==
    ASSUME NEW sorted \in Seq(DateRanges)
    PROVE  /\ Merging(sorted)[0] = <<>>
           /\ \A n \in 1..Len(sorted) : Merging(sorted)[n] = MergeWindow(Merging(sorted)[n - 1], sorted[n])
<1>1. PICK k \in Nat : k = Len(sorted)
  OBVIOUS
<1>2. \A n \in 1..k : sorted[n] \in DateRanges
  BY <1>1
<1> DEFINE Merges(f) == f = [n \in 0..k |-> IF n = 0 THEN <<>> ELSE MergeWindow(f[n - 1], sorted[n])]
<1>3. \E f : Merges(f)
  <2>1. PICK step : step = [n \in 1..k |-> [merged \in Seq(DateRanges) |-> MergeWindow(merged, sorted[n])]]
    OBVIOUS
  <2>2. ASSUME NEW n \in 1..k, NEW merged \in Seq(DateRanges)
        PROVE  /\ step[n][merged] = MergeWindow(merged, sorted[n])
               /\ MergeWindow(merged, sorted[n]) \in Seq(DateRanges)
    BY <1>2, <2>1, MergeIsTyped
  <2>3. IsStep(step, k, Seq(DateRanges))
    BY <2>1, <2>2 DEF IsStep
  <2>a. <<>> \in Seq(DateRanges)
    OBVIOUS
  <2>4. PICK none \in Seq(DateRanges) : none = <<>>
    BY <2>a
  <2>5. PICK V : V = Seq(DateRanges)
    OBVIOUS
  <2>6. PICK f : Stepped(f, k, V, none, step)
    BY <2>3, <2>5, SomethingSteps
  <2>7. /\ f \in [0..k -> Seq(DateRanges)] /\ f[0] = <<>>
        /\ \A n \in 1..k : f[n] = step[n][f[n - 1]]
    BY <2>4, <2>5, <2>6 DEF Stepped
  <2>8. ASSUME NEW n \in 0..k PROVE f[n] = IF n = 0 THEN <<>> ELSE MergeWindow(f[n - 1], sorted[n])
    <3>1. CASE n = 0
      BY <2>7, <3>1
    <3>2. CASE n # 0
      <4>1. n \in 1..k /\ n - 1 \in 0..k
        BY <3>2
      <4> QED
        BY <2>2, <2>7, <3>2, <4>1
    <3> QED
      BY <3>1, <3>2
  <2>9. f = [n \in 0..k |-> f[n]]
    BY <2>7
  <2>10. Merges(f)
    BY <2>8, <2>9
  <2> QED
    BY <2>10
<1>4. Merging(sorted) = CHOOSE f : Merges(f)
  BY <1>1 DEF Merging
<1>5. Merges(Merging(sorted))
  BY <1>3, <1>4
<1> QED
  BY <1>1, <1>5

\* Sorted windows are merged into ones that are apart, of the same days.
LEMMA MergedSorted ==
    ASSUME NEW sorted \in SortedLists, NEW merged, merged = Merging(sorted)[Len(sorted)]
    PROVE  merged \in MergedLists /\ DaysOf(merged) = DaysOf(sorted)
<1>0. sorted \in Seq(DateRanges)
  BY DEF SortedLists
<1>1. PICK k \in Nat : k = Len(sorted)
  BY <1>0
<1>2. PICK f : f = Merging(sorted)
  OBVIOUS
<1>3. f[0] = <<>> /\ \A n \in 1..k : f[n] = MergeWindow(f[n - 1], sorted[n])
  BY <1>0, <1>1, <1>2, MergingUnfolds
<1>4. \A n \in 1..k : sorted[n] \in DateRanges
  BY <1>0, <1>1
<1> DEFINE Days(n) == UNION {sorted[i].start..sorted[i].end : i \in 1..n}
           T == {n \in 0..k : /\ f[n] \in MergedLists /\ DaysOf(f[n]) = Days(n)
                              /\ n > 0 => Reaches(f[n], sorted[n].start)}
<1>5. 0 \in T
  <2>1. f[0] \in MergedLists
    BY <1>3 DEF MergedLists, Apart
  <2>2. DaysOf(f[0]) = {} /\ Days(0) = {}
    BY <1>3 DEF DaysOf
  <2> QED
    BY <2>1, <2>2
<1>6. ASSUME NEW n \in 1..k, n - 1 \in T PROVE n \in T
  <2>1. Reaches(f[n - 1], sorted[n].start)
    <3>1. CASE n = 1
      BY <1>3, <3>1 DEF Reaches
    <3>2. CASE n # 1
      <4>1. n - 1 \in 1..k /\ n - 1 > 0 /\ n - 1 < n
        BY <3>2
      <4>2. Reaches(f[n - 1], sorted[n - 1].start) /\ f[n - 1] \in MergedLists
        BY <1>6, <4>1
      <4>3. ~StartsBefore(sorted[n], sorted[n - 1])
        BY <1>1, <4>1 DEF SortedLists, InOrder
      <4>4. sorted[n - 1].start <= sorted[n].start
        BY <1>4, <4>1, <4>3 DEF StartsBefore, DateRanges
      <4>7. f[n - 1] \in Seq(DateRanges)
        BY <4>2 DEF MergedLists
      <4>8. Len(f[n - 1]) \in Nat /\ \A i \in 1..Len(f[n - 1]) : f[n - 1][i] \in DateRanges
        BY <4>7
      <4>5. \A i \in 1..Len(f[n - 1]) : f[n - 1][i].start \in Int
        BY <4>8 DEF DateRanges
      <4>6. sorted[n].start \in Int /\ sorted[n - 1].start \in Int
        BY <1>4, <4>1 DEF DateRanges
      <4>9. \A i \in 1..Len(f[n - 1]) : f[n - 1][i].start <= sorted[n - 1].start
        BY <4>2 DEF Reaches
      <4> QED
        BY <4>4, <4>5, <4>6, <4>9 DEF Reaches
    <3> QED
      BY <3>1, <3>2
  <2>2. f[n - 1] \in MergedLists /\ DaysOf(f[n - 1]) = Days(n - 1)
    BY <1>6
  <2>3. /\ f[n] \in MergedLists /\ Reaches(f[n], sorted[n].start)
        /\ DaysOf(f[n]) = DaysOf(f[n - 1]) \cup (sorted[n].start..sorted[n].end)
    BY <1>3, <1>4, <2>1, <2>2, MergeStep
  <2>4. 1..n = 1..(n - 1) \cup {n}
    OBVIOUS
  <2>5. Days(n) = Days(n - 1) \cup (sorted[n].start..sorted[n].end)
    BY <2>4
  <2> QED
    BY <2>2, <2>3, <2>5
<1>7. DaysOf(sorted) = Days(k)
  BY <1>0, <1>1 DEF DaysOf
<1> HIDE DEF T
<1>8. \A n \in 0..k : n \in T
  BY <1>5, <1>6, BoundedInduction
<1>9. f[k] \in MergedLists /\ DaysOf(f[k]) = Days(k)
  <2>1. k \in 0..k
    OBVIOUS
  <2> QED
    BY <1>8, <2>1 DEF T
<1> QED
  BY <1>1, <1>2, <1>7, <1>9

\* The days of windows do not depend on their order.
LEMMA DaysOfAnyOrder ==
    ASSUME NEW left \in Seq(DateRanges), NEW right \in Seq(DateRanges), ToSet(left) = ToSet(right)
    PROVE  DaysOf(left) = DaysOf(right)
<1>1. \A list \in {left, right} : DaysOf(list) = UNION {w.start..w.end : w \in ToSet(list)}
  BY DEF DaysOf, ToSet
<1> QED
  BY <1>1

\* What normalizeDateRanges answers is apart and blocks the days of what it was given.
LEMMA Normalized ==
    ASSUME NEW windows \in Seq(DateRanges)
    PROVE  NormalizeDateRanges(windows) \in MergedLists /\ DaysOf(NormalizeDateRanges(windows)) = DaysOf(windows)
<1>1. PICK sorted : sorted = Sorting(windows)[Len(windows)]
  OBVIOUS
<1>2. sorted \in SortedLists /\ ToSet(sorted) = ToSet(windows)
  BY <1>1, SortedWindows
<1>3. NormalizeDateRanges(windows) = Merging(sorted)[Len(sorted)]
  BY <1>1 DEF NormalizeDateRanges
<1>4. DaysOf(sorted) = DaysOf(windows)
  BY <1>2, DaysOfAnyOrder DEF SortedLists
<1> QED
  BY <1>2, <1>3, <1>4, MergedSorted

\* A range is covered exactly when each of its days is blocked.
LEMMA CoveredMeansItsDays ==
    ASSUME NEW windows \in Seq(DateRanges), NEW range \in DateRanges
    PROVE  IsRangeCovered(windows, range) <=> range.start..range.end \subseteq DaysOf(windows)
<1>1. PICK merged \in MergedLists : merged = NormalizeDateRanges(windows)
  BY Normalized
<1>2. DaysOf(merged) = DaysOf(windows)
  BY <1>1, Normalized
<1>3. DOMAIN merged = 1..Len(merged) /\ \A i \in DOMAIN merged : merged[i] \in DateRanges
  BY DEF MergedLists
<1>4. IsRangeCovered(windows, range) <=>
        \E i \in DOMAIN merged : merged[i].start <= range.start /\ range.end <= merged[i].end
  BY <1>1 DEF IsRangeCovered
<1>5. ASSUME NEW i \in DOMAIN merged, merged[i].start <= range.start, range.end <= merged[i].end
      PROVE  range.start..range.end \subseteq DaysOf(merged)
  <2>1. range.start..range.end \subseteq merged[i].start..merged[i].end
    BY <1>3, <1>5 DEF DateRanges
  <2> QED
    BY <2>1 DEF DaysOf
<1>6. ASSUME range.start..range.end \subseteq DaysOf(merged)
      PROVE  \E i \in DOMAIN merged : merged[i].start <= range.start /\ range.end <= merged[i].end
  <2>12. SUFFICES ASSUME \A i \in DOMAIN merged : ~(merged[i].start <= range.start /\ range.end <= merged[i].end)
                  PROVE  FALSE
    OBVIOUS
  <2>1. range.start \in range.start..range.end /\ range.start \in Int /\ range.end \in Int
    BY DEF DateRanges
  <2>2. PICK i \in DOMAIN merged : range.start \in merged[i].start..merged[i].end
    BY <1>6, <2>1 DEF DaysOf
  <2>3. merged[i].start \in Int /\ merged[i].end \in Int
    BY <1>3 DEF DateRanges
  <2>4. ~(range.end <= merged[i].end)
    BY <2>2, <2>3, <2>12
  <2>5. merged[i].end + 1 \in range.start..range.end
    BY <2>1, <2>2, <2>3, <2>4
  <2>6. PICK j \in DOMAIN merged : merged[i].end + 1 \in merged[j].start..merged[j].end
    BY <1>6, <2>5 DEF DaysOf
  <2>7. merged[j].start \in Int /\ merged[j].end \in Int
    BY <1>3 DEF DateRanges
  <2>8. i # j
    BY <2>3, <2>6
  <2>11. ASSUME NEW h \in DOMAIN merged, h <= i, merged[h].end = LastDay PROVE FALSE
    <3>1. merged[h].start <= merged[i].start
      BY <1>3, <2>3, <2>11 DEF MergedLists, Apart
    <3>2. merged[h].start \in Int /\ range.end <= LastDay
      BY <1>3 DEF DateRanges
    <3>3. merged[h].start <= range.start /\ range.end <= merged[h].end
      BY <2>1, <2>2, <2>3, <2>11, <3>1, <3>2
    <3> QED
      BY <2>12, <3>3
  <2>9. CASE i < j
    <3>1. merged[i].end + 1 < merged[j].start \/ \E h \in 1..i : merged[h].end = LastDay
      BY <1>3, <2>9 DEF MergedLists, Apart
    <3>2. ~(merged[i].end + 1 < merged[j].start)
      BY <2>3, <2>6, <2>7
    <3> QED
      BY <1>3, <2>11, <3>1, <3>2
  <2>10. CASE j < i
    <3>1. merged[j].end + 1 < merged[i].start \/ \E h \in 1..j : merged[h].end = LastDay
      BY <1>3, <2>10 DEF MergedLists, Apart
    <3>2. ~(merged[j].end + 1 < merged[i].start)
      BY <2>2, <2>3, <2>6, <2>7
    <3>3. \A h \in 1..j : h \in DOMAIN merged /\ h <= i
      BY <1>3, <2>10
    <3> QED
      BY <2>11, <3>1, <3>2, <3>3
  <2> QED
    BY <1>3, <2>8, <2>9, <2>10
<1> QED
  BY <1>2, <1>4, <1>5, <1>6

\* Recording one more range adds its days.
LEMMA RecordingAddsDays ==
    ASSUME NEW windows \in Seq(DateRanges), NEW range \in DateRanges,
           NEW merged, merged = NormalizeDateRanges(Append(windows, range))
    PROVE  /\ merged \in MergedLists /\ merged \in Seq(DateRanges)
           /\ DaysOf(merged) = DaysOf(windows) \cup (range.start..range.end)
           /\ IsRangeCovered(merged, range)
<1>0. Append(windows, range) \in Seq(DateRanges)
  OBVIOUS
<1>1. PICK longer \in Seq(DateRanges) : longer = Append(windows, range)
  BY <1>0
<1>2. merged \in MergedLists /\ DaysOf(merged) = DaysOf(longer)
  BY <1>1, Normalized
<1>3. DaysOf(longer) = DaysOf(windows) \cup (range.start..range.end)
  <2>1. DOMAIN longer = 1..(Len(windows) + 1) /\ 1..(Len(windows) + 1) = 1..Len(windows) \cup {Len(windows) + 1}
    BY <1>1
  <2>2. longer[Len(windows) + 1] = range /\ \A i \in 1..Len(windows) : longer[i] = windows[i]
    BY <1>1
  <2> QED
    BY <2>1, <2>2 DEF DaysOf
<1>4. merged \in Seq(DateRanges)
  BY <1>2 DEF MergedLists
<1> QED
  BY <1>2, <1>3, <1>4, CoveredMeansItsDays

-----------------------------------------------------------------------------
(* Lists and identities.                                                   *)

\* Selecting looks at one member after the other.
LEMMA SelectedUnfolds ==
    ASSUME NEW list, NEW k \in Nat, k = Len(list), \A n \in 1..k : list[n] \in ToSet(list), NEW kept
    PROVE  \E f : /\ Selected(list, kept) = f[k] /\ f[0] = <<>>
                  /\ \A n \in 1..k : f[n] = IF list[n] \in kept THEN Append(f[n - 1], list[n]) ELSE f[n - 1]
<1> DEFINE Chooses(f) ==
             f = [n \in 0..k |-> IF n = 0 THEN <<>>
                                 ELSE IF list[n] \in kept THEN Append(f[n - 1], list[n]) ELSE f[n - 1]]
<1>1. PICK V : V = Seq(ToSet(list))
  OBVIOUS
<1>2. \E f : Chooses(f)
  <2>1. PICK step : step = [n \in 1..k |-> [chosen \in V |->
                              IF list[n] \in kept THEN Append(chosen, list[n]) ELSE chosen]]
    OBVIOUS
  <2>2. ASSUME NEW n \in 1..k, NEW chosen \in V
        PROVE  /\ step[n][chosen] = IF list[n] \in kept THEN Append(chosen, list[n]) ELSE chosen
               /\ step[n][chosen] \in V
    BY <1>1, <2>1
  <2>3. IsStep(step, k, V)
    BY <2>1, <2>2 DEF IsStep
  <2>a. <<>> \in V
    BY <1>1
  <2>4. PICK none \in V : none = <<>>
    BY <2>a
  <2>6. PICK f : Stepped(f, k, V, none, step)
    BY <2>3, SomethingSteps
  <2>7. f \in [0..k -> V] /\ f[0] = <<>> /\ \A n \in 1..k : f[n] = step[n][f[n - 1]]
    BY <2>4, <2>6 DEF Stepped
  <2>8. ASSUME NEW n \in 0..k
        PROVE  f[n] = IF n = 0 THEN <<>>
                      ELSE IF list[n] \in kept THEN Append(f[n - 1], list[n]) ELSE f[n - 1]
    <3>1. CASE n = 0
      BY <2>7, <3>1
    <3>2. CASE n # 0
      <4>1. n \in 1..k /\ n - 1 \in 0..k
        BY <3>2
      <4>2. PICK old \in V : old = f[n - 1]
        BY <2>7, <4>1
      <4>3. f[n] = step[n][old]
        BY <2>7, <4>1, <4>2
      <4>4. step[n][old] = IF list[n] \in kept THEN Append(old, list[n]) ELSE old
        BY <2>2, <4>1
      <4> QED
        BY <3>2, <4>2, <4>3, <4>4
    <3> QED
      BY <3>1, <3>2
  <2>9. f = [n \in 0..k |-> f[n]]
    BY <2>7
  <2>10. Chooses(f)
    BY <2>8, <2>9
  <2> QED
    BY <2>10
<1>3. PICK f : f = CHOOSE g : Chooses(g)
  OBVIOUS
<1>4. Selected(list, kept) = f[k]
  BY <1>3 DEF Selected
<1>5. Chooses(f)
  BY <1>2, <1>3
<1>6. f[0] = <<>>
  BY <1>5
<1>7. ASSUME NEW n \in 1..k
      PROVE  f[n] = IF list[n] \in kept THEN Append(f[n - 1], list[n]) ELSE f[n - 1]
  <2>1. n \in 0..k /\ n # 0
    OBVIOUS
  <2>2. \A m \in 0..k : f[m] = IF m = 0 THEN <<>>
                               ELSE IF list[m] \in kept THEN Append(f[m - 1], list[m]) ELSE f[m - 1]
    BY <1>5
  <2>3. f[n] = IF n = 0 THEN <<>>
               ELSE IF list[n] \in kept THEN Append(f[n - 1], list[n]) ELSE f[n - 1]
    BY <2>1, <2>2
  <2> QED
    BY <2>1, <2>3
<1> QED
  BY <1>4, <1>6, <1>7

\* It keeps what is to be kept and nothing else.
LEMMA SelectedMembers ==
    ASSUME NEW list, list \in Seq(ToSet(list)), NEW kept
    PROVE  /\ Selected(list, kept) \in Seq(ToSet(list))
           /\ ToSet(Selected(list, kept)) = ToSet(list) \cap kept
<1>1. PICK k \in Nat : k = Len(list)
  OBVIOUS
<1>2. \A n \in 1..k : list[n] \in ToSet(list)
  BY <1>1
<1>3. PICK f : /\ Selected(list, kept) = f[k] /\ f[0] = <<>>
               /\ \A n \in 1..k : f[n] = IF list[n] \in kept THEN Append(f[n - 1], list[n]) ELSE f[n - 1]
  BY <1>1, <1>2, SelectedUnfolds
<1>4. PICK S : S = ToSet(list)
  OBVIOUS
<1> DEFINE First(n) == {list[i] : i \in 1..n}
           T == {n \in 0..k : f[n] \in Seq(S) /\ ToSet(f[n]) = First(n) \cap kept}
<1>5. 0 \in T
  <2>1. f[0] \in Seq(S)
    BY <1>3
  <2>2. ToSet(f[0]) = {} /\ First(0) = {}
    BY <1>3 DEF ToSet
  <2> QED
    BY <2>1, <2>2
<1>6. ASSUME NEW n \in 1..k, n - 1 \in T PROVE n \in T
  <2>1. PICK old \in Seq(S) : old = f[n - 1]
    BY <1>6
  <2>2. ToSet(old) = First(n - 1) \cap kept /\ list[n] \in S
    BY <1>2, <1>4, <1>6, <2>1
  <2>3. First(n) = First(n - 1) \cup {list[n]}
    <3>1. 1..n = 1..(n - 1) \cup {n}
      OBVIOUS
    <3> QED
      BY <3>1
  <2>4. CASE list[n] \in kept
    <3>1. PICK new : new = Append(old, list[n])
      OBVIOUS
    <3>2. new \in Seq(S) /\ DOMAIN new = DOMAIN old \cup {Len(old) + 1}
      BY <2>2, <3>1
    <3>3. new[Len(old) + 1] = list[n] /\ \A i \in DOMAIN old : new[i] = old[i]
      BY <3>1
    <3>4. ToSet(new) = ToSet(old) \cup {list[n]}
      BY <3>2, <3>3 DEF ToSet
    <3>5. f[n] = new
      BY <1>3, <2>1, <2>4, <3>1
    <3> QED
      BY <2>2, <2>3, <2>4, <3>2, <3>4, <3>5
  <2>5. CASE list[n] \notin kept
    BY <1>3, <2>1, <2>2, <2>3, <2>5
  <2> QED
    BY <2>4, <2>5
<1> HIDE DEF T
<1>7. \A n \in 0..k : n \in T
  BY <1>5, <1>6, BoundedInduction
<1>8. f[k] \in Seq(S) /\ ToSet(f[k]) = First(k) \cap kept
  <2>1. k \in 0..k
    OBVIOUS
  <2> QED
    BY <1>7, <2>1 DEF T
<1>9. ToSet(list) = First(k)
  BY <1>1 DEF ToSet
<1> QED
  BY <1>3, <1>4, <1>8, <1>9

\* Among one more identities than there are records one is free.
LEMMA FreshIsNew ==
    ASSUME NEW prefix, NEW records, IsFiniteSet(DOMAIN records)
    PROVE  FreshId(prefix, records) \notin DOMAIN records
<1>1. PICK used : used = DOMAIN records
  OBVIOUS
<1>2. PICK n \in Nat : n = Cardinality(used)
  BY <1>1, FS_CardinalityType
<1>3. IsFiniteSet(used)
  BY <1>1
<1>4. SUFFICES ASSUME \A i \in 1..(n + 1) : <<prefix, i>> \in used PROVE FALSE
  BY <1>1, <1>2 DEF FreshId
<1>5. PICK f : f = [i \in 1..(n + 1) |-> <<prefix, i>>]
  OBVIOUS
<1>6. f \in [1..(n + 1) -> used] /\ \A i, j \in 1..(n + 1) : f[i] = f[j] => i = j
  BY <1>4, <1>5
<1>7. f \in Injection(1..(n + 1), used)
  BY <1>6 DEF Injection, IsInjective
<1>8. IsFiniteSet(1..(n + 1)) /\ Cardinality(1..(n + 1)) = n + 1
  BY FS_Interval
<1>9. Cardinality(1..(n + 1)) <= Cardinality(used)
  BY <1>3, <1>7, FS_Injection DEF ExistsInjection
<1> QED
  BY <1>2, <1>8, <1>9

-----------------------------------------------------------------------------
(* Applying operations one by one.                                         *)

\* What the loop of applyOperations starts from.
Begun(state) == [state |-> state, applied |-> <<>>, skipped |-> <<>>, conflicts |-> {}]

\* A function that applies the first k operations.
Applies(after, k, begun, operations) ==
    after = [n \in 0..k |-> IF n = 0 THEN begun ELSE ApplyOperation(after[n - 1], operations[n])]

\* There is such a function for every number of operations.
LEMMA SomethingApplies ==
    ASSUME NEW begun, NEW operations
    PROVE  \A k \in Nat : \E after : Applies(after, k, begun, operations)
<1> DEFINE T == {k \in Nat : \E after : Applies(after, k, begun, operations)}
<1>1. 0 \in T
  <2> DEFINE first == [n \in 0..0 |-> begun]
  <2>1. \A n \in 0..0 : n = 0
    OBVIOUS
  <2>2. first = [n \in 0..0 |-> IF n = 0 THEN begun ELSE ApplyOperation(first[n - 1], operations[n])]
    BY <2>1
  <2>3. Applies(first, 0, begun, operations)
    BY <2>2 DEF Applies
  <2> QED
    BY <2>3
<1>2. ASSUME NEW k \in Nat, k \in T PROVE k + 1 \in T
  <2>1. PICK after : Applies(after, k, begun, operations)
    BY <1>2
  <2>a. SUFFICES ASSUME NEW more,
                        more = [n \in 0..(k + 1) |->
                                  IF n = k + 1 THEN ApplyOperation(after[k], operations[k + 1]) ELSE after[n]]
                 PROVE  k + 1 \in T
    OBVIOUS
  <2>2. \A n \in 0..k : /\ after[n] = IF n = 0 THEN begun ELSE ApplyOperation(after[n - 1], operations[n])
                        /\ more[n] = after[n]
    BY <2>1, <2>a DEF Applies
  <2>3. more[k + 1] = ApplyOperation(more[k], operations[k + 1])
    BY <2>2, <2>a
  <2>4. ASSUME NEW n \in 0..(k + 1)
        PROVE  more[n] = IF n = 0 THEN begun ELSE ApplyOperation(more[n - 1], operations[n])
    <3>1. CASE n = k + 1
      BY <2>3, <3>1
    <3>2. CASE n # k + 1
      <4>1. n \in 0..k /\ (n # 0 => n - 1 \in 0..k)
        BY <3>2
      <4> QED
        BY <2>2, <4>1
    <3> QED
      BY <3>1, <3>2
  <2>5. more = [n \in 0..(k + 1) |-> more[n]]
    BY <2>a
  <2>6. more = [n \in 0..(k + 1) |-> IF n = 0 THEN begun ELSE ApplyOperation(more[n - 1], operations[n])]
    BY <2>4, <2>5
  <2> QED
    BY <2>6 DEF Applies
<1> HIDE DEF T
<1>3. \A k \in Nat : k \in T
  BY <1>1, <1>2, NaturalInduction
<1> QED
  BY <1>3 DEF T

\* What the loop of applyOperations holds after each operation is what one turn makes of what it held
\* before.
LEMMA ApplyingUnfolds ==
    ASSUME NEW state, NEW operations, Len(operations) \in Nat
    PROVE  /\ Applying(state, operations)[0] = Begun(state)
           /\ \A n \in 1..Len(operations) :
                Applying(state, operations)[n] = ApplyOperation(Applying(state, operations)[n - 1], operations[n])
<1>1. \E after : Applies(after, Len(operations), Begun(state), operations)
  BY SomethingApplies
<1>2. Applying(state, operations) = CHOOSE after : Applies(after, Len(operations), Begun(state), operations)
  BY DEF Applying, Applies, Begun
<1>3. Applies(Applying(state, operations), Len(operations), Begun(state), operations)
  BY <1>1, <1>2
<1> QED
  BY <1>3 DEF Applies

-----------------------------------------------------------------------------
(* No scene holds one requirement twice, and a snapshot stays one.         *)

\* A requirement its scene lists.
IsListed(state, r) ==
    /\ state.requirements[r].scene \in DOMAIN state.scenes
    /\ r \in state.scenes[state.requirements[r].scene].requirements

\* Requirements that mean the same thing.
AreAlike(state, r, q) ==
    /\ state.requirements[r].scene = state.requirements[q].scene
    /\ state.requirements[r].kind = state.requirements[q].kind
    /\ NormalName[state.requirements[r].name] = NormalName[state.requirements[q].name]

\* What the invariants of the source do not look at.
RequirementsAreListed(state) ==
    /\ \A r \in DOMAIN state.requirements : IsListed(state, r)
    /\ \A r, q \in DOMAIN state.requirements : AreAlike(state, r, q) => r = q

\* What every effect keeps.
IsKept(state) == IsSnapshot(state) /\ RequirementsAreListed(state)

\* The windows of every member of the cast, or every location.
WindowsAreKept(windows) == windows \in [DOMAIN windows -> Seq(DateRanges)]

\* Shoot days.
DaysAreKept(days) ==
    /\ days = [d \in DOMAIN days |-> [date |-> days[d].date, scenes |-> days[d].scenes]]
    /\ \A d \in DOMAIN days : days[d].date \in Int /\ days[d].scenes \in Seq(ToSet(days[d].scenes))

\* Call sheets.
SheetsAreKept(sheets) ==
    /\ sheets = [c \in DOMAIN sheets |-> [day |-> sheets[c].day, status |-> sheets[c].status]]
    /\ IsFiniteSet(DOMAIN sheets)

\* A snapshot by its parts.
LEMMA SnapshotParts ==
    ASSUME NEW state
    PROVE  IsSnapshot(state) <=>
             /\ state = [scenes |-> state.scenes, cast |-> state.cast, locations |-> state.locations,
                         days |-> state.days, sheets |-> state.sheets, requirements |-> state.requirements,
                         tasks |-> state.tasks]
             /\ state.scenes = [s \in DOMAIN state.scenes |->
                                  [cast |-> state.scenes[s].cast, location |-> state.scenes[s].location,
                                   requirements |-> state.scenes[s].requirements]]
             /\ state.requirements = [r \in DOMAIN state.requirements |->
                                        [scene |-> state.requirements[r].scene, kind |-> state.requirements[r].kind,
                                         name |-> state.requirements[r].name]]
             /\ IsFiniteSet(DOMAIN state.scenes) /\ IsFiniteSet(DOMAIN state.requirements)
             /\ WindowsAreKept(state.cast) /\ WindowsAreKept(state.locations)
             /\ DaysAreKept(state.days) /\ SheetsAreKept(state.sheets) /\ IsFiniteSet(DOMAIN state.tasks)
  BY DEF IsSnapshot, WindowsAreKept, DaysAreKept, SheetsAreKept

\* An effect that leaves the requirements and the scenes alone.
LEMMA OtherFieldsKept ==
    ASSUME NEW state, IsKept(state), NEW post,
           post = [scenes |-> state.scenes, cast |-> post.cast, locations |-> post.locations, days |-> post.days,
                   sheets |-> post.sheets, requirements |-> state.requirements, tasks |-> post.tasks],
           WindowsAreKept(post.cast), WindowsAreKept(post.locations), DaysAreKept(post.days),
           SheetsAreKept(post.sheets), IsFiniteSet(DOMAIN post.tasks)
    PROVE  IsKept(post)
<1>1. post.scenes = state.scenes /\ post.requirements = state.requirements
  OBVIOUS
<1>2. post = [scenes |-> post.scenes, cast |-> post.cast, locations |-> post.locations, days |-> post.days,
              sheets |-> post.sheets, requirements |-> post.requirements, tasks |-> post.tasks]
  OBVIOUS
<1>3. IsSnapshot(post)
  BY <1>1, <1>2, SnapshotParts DEF IsKept
<1>4. RequirementsAreListed(post)
  BY <1>1 DEF IsKept, RequirementsAreListed, IsListed, AreAlike
<1> QED
  BY <1>3, <1>4 DEF IsKept

\* Recording a range on one of them.
LEMMA RecordingKeepsWindows ==
    ASSUME NEW windows, WindowsAreKept(windows), NEW id, NEW range \in DateRanges,
           NEW post, post = [windows EXCEPT ![id] = NormalizeDateRanges(Append(@, range))]
    PROVE  WindowsAreKept(post)
<1>1. CASE id \in DOMAIN windows
  <2>1. windows[id] \in Seq(DateRanges)
    BY <1>1 DEF WindowsAreKept
  <2>2. PICK merged : merged = NormalizeDateRanges(Append(windows[id], range))
    OBVIOUS
  <2>3. merged \in Seq(DateRanges)
    BY <2>1, <2>2, RecordingAddsDays
  <2>4. post = [windows EXCEPT ![id] = merged]
    BY <2>2
  <2> QED
    BY <2>3, <2>4 DEF WindowsAreKept
<1>2. CASE id \notin DOMAIN windows
  BY <1>2 DEF WindowsAreKept
<1> QED
  BY <1>1, <1>2

\* What a move of scenes from a day to a day makes of a state.
HasMoved(state, op, post) ==
    /\ post = [scenes |-> state.scenes, cast |-> state.cast, locations |-> state.locations,
               days |-> post.days, sheets |-> state.sheets, requirements |-> state.requirements,
               tasks |-> state.tasks]
    /\ DaysAreKept(post.days) /\ DOMAIN post.days = DOMAIN state.days
    /\ \A d \in DOMAIN state.days : d # op.from /\ d # op.to => post.days[d] = state.days[d]
    /\ \A d \in DOMAIN state.days : post.days[d].date = state.days[d].date
    /\ post.days[op.from].scenes = Without(state.days[op.from].scenes, op.scenes)
    /\ post.days[op.to].scenes = state.days[op.to].scenes \o op.scenes

\* A move between two days does just that.
LEMMA MovingKeepsDays ==
    ASSUME NEW state, IsKept(state), NEW op, op.scenes \in Seq(ToSet(op.scenes)),
           op.from \in DOMAIN state.days, op.to \in DOMAIN state.days, op.from # op.to
    PROVE  HasMoved(state, op, MoveScenes(state, op))
<1>p. PICK post : post = MoveScenes(state, op)
  OBVIOUS
<1>0. /\ state = [scenes |-> state.scenes, cast |-> state.cast, locations |-> state.locations,
                  days |-> state.days, sheets |-> state.sheets, requirements |-> state.requirements,
                  tasks |-> state.tasks]
      /\ DaysAreKept(state.days)
  BY SnapshotParts DEF IsKept
<1>1. PICK days : days = state.days
  OBVIOUS
<1>2. PICK from, to : from = op.from /\ to = op.to
  OBVIOUS
<1>3. PICK less, more : less = Without(days[from].scenes, op.scenes) /\ more = days[to].scenes \o op.scenes
  OBVIOUS
<1>4. /\ days = [d \in DOMAIN days |-> [date |-> days[d].date, scenes |-> days[d].scenes]]
      /\ \A d \in DOMAIN days : days[d].date \in Int /\ days[d].scenes \in Seq(ToSet(days[d].scenes))
      /\ from \in DOMAIN days /\ to \in DOMAIN days /\ from # to
  BY <1>0, <1>1, <1>2 DEF DaysAreKept
<1>5. less \in Seq(ToSet(less))
  <2>1. PICK list : list = days[from].scenes
    OBVIOUS
  <2>2. list \in Seq(ToSet(list))
    BY <1>4, <2>1
  <2>3. less \in Seq(ToSet(list))
    BY <1>3, <2>1, <2>2, SelectedMembers DEF Without
  <2> QED
    BY <2>3 DEF ToSet
<1>6. more \in Seq(ToSet(more))
  <2>1. PICK a, b : a = days[to].scenes /\ b = op.scenes
    OBVIOUS
  <2>2. PICK S : S = ToSet(a) \cup ToSet(b)
    OBVIOUS
  <2>3. a \in Seq(S) /\ b \in Seq(S)
    BY <1>4, <2>1, <2>2
  <2>4. more \in Seq(S)
    BY <1>3, <2>1, <2>3
  <2> QED
    BY <2>4 DEF ToSet
<1>7. PICK at, at2 : /\ at = [date |-> days[from].date, scenes |-> less]
                     /\ at2 = [date |-> days[to].date, scenes |-> more]
  OBVIOUS
<1>b. PICK moved : moved = [days EXCEPT ![from] = at, ![to] = at2]
  OBVIOUS
<1>c. [days EXCEPT ![from].scenes = less, ![to].scenes = more] = moved
  <2>1. days[from] = [date |-> days[from].date, scenes |-> days[from].scenes]
        /\ days[to] = [date |-> days[to].date, scenes |-> days[to].scenes]
    BY <1>4
  <2>2. PICK old, old2 : old = days[from] /\ old2 = days[to]
    OBVIOUS
  <2>3. [old EXCEPT !.scenes = less] = at
    BY <1>7, <2>1, <2>2
  <2>4. [old2 EXCEPT !.scenes = more] = at2
    BY <1>7, <2>1, <2>2
  <2>5. [days EXCEPT ![from].scenes = less, ![to].scenes = more] =
        [days EXCEPT ![from] = [old EXCEPT !.scenes = less], ![to] = [old2 EXCEPT !.scenes = more]]
    BY <1>4, <2>2
  <2> QED
    BY <1>b, <2>3, <2>4, <2>5
<1>8. /\ DOMAIN moved = DOMAIN days
      /\ moved[from] = at /\ moved[to] = at2
      /\ \A d \in DOMAIN days : d # from /\ d # to => moved[d] = days[d]
      /\ moved = [d \in DOMAIN moved |-> moved[d]]
  BY <1>4, <1>b
<1>9. DaysAreKept(moved)
  <2>1. ASSUME NEW d \in DOMAIN moved
        PROVE  /\ moved[d] = [date |-> moved[d].date, scenes |-> moved[d].scenes]
               /\ moved[d].date \in Int /\ moved[d].scenes \in Seq(ToSet(moved[d].scenes))
    <3>1. CASE d = from
      <4>1. moved[d] = at /\ at.date \in Int /\ at.scenes = less
        BY <1>4, <1>7, <1>8, <3>1
      <4> QED
        BY <1>5, <1>7, <4>1
    <3>2. CASE d = to
      <4>1. moved[d] = at2 /\ at2.date \in Int /\ at2.scenes = more
        BY <1>4, <1>7, <1>8, <3>2
      <4> QED
        BY <1>6, <1>7, <4>1
    <3>3. CASE d # from /\ d # to
      BY <1>4, <1>8, <3>3
    <3> QED
      BY <3>1, <3>2, <3>3
  <2> QED
    BY <1>8, <2>1 DEF DaysAreKept
<1>10. post.days = moved
       /\ post = [scenes |-> state.scenes, cast |-> state.cast, locations |-> state.locations,
                  days |-> post.days, sheets |-> state.sheets, requirements |-> state.requirements,
                  tasks |-> state.tasks]
  <2>1. MoveScenes(state, op) = [state EXCEPT !.days = [days EXCEPT ![from].scenes = less, ![to].scenes = more]]
    BY <1>0, <1>1, <1>2, <1>3, <1>4 DEF MoveScenes
  <2>2. post = [state EXCEPT !.days = moved]
    BY <1>0, <1>c, <1>p, <2>1
  <2> QED
    BY <1>0, <2>2
<1>d. at.scenes = less /\ at2.scenes = more
  BY <1>7
<1>e. \A d \in DOMAIN days : moved[d].date = days[d].date
  BY <1>7, <1>8
<1>f. moved[from].scenes = less /\ moved[to].scenes = more
  BY <1>8, <1>d
<1>g. HasMoved(state, op, post)
  BY <1>1, <1>2, <1>3, <1>8, <1>9, <1>10, <1>e, <1>f DEF HasMoved
<1> QED
  BY <1>p, <1>g

\* A move that is not made already and meets no problem is between two days.
LEMMA MovesAreBetweenDays ==
    ASSUME NEW state, NEW op, op.type = "MOVE_SCENES",
           ~IsOperationAlreadyApplied(state, op), Problems(state, op) = {}
    PROVE  /\ op.from \in DOMAIN state.days /\ op.to \in DOMAIN state.days /\ op.from # op.to
           /\ \A i \in DOMAIN op.scenes :
                /\ op.scenes[i] \in DOMAIN state.scenes
                /\ op.scenes[i] \notin ToSet(state.days[op.to].scenes)
                /\ op.scenes[i] \in ToSet(state.days[op.from].scenes)
<1>1. op.from \in DOMAIN state.days /\ op.to \in DOMAIN state.days /\ SceneProblems(state, op) = {}
  <2>1. Problems(state, op) = IF op.from \notin DOMAIN state.days THEN {Unknown("SHOOT_DAY", op.from)}
                              ELSE IF op.to \notin DOMAIN state.days THEN {Unknown("SHOOT_DAY", op.to)}
                              ELSE SceneProblems(state, op)
    BY DEF Problems
  <2> QED
    BY <2>1
<1>2. ASSUME NEW i \in DOMAIN op.scenes
      PROVE  /\ op.scenes[i] \in DOMAIN state.scenes
             /\ op.scenes[i] \notin ToSet(state.days[op.to].scenes)
             /\ op.scenes[i] \in ToSet(state.days[op.from].scenes)
  BY <1>1 DEF SceneProblems
<1>3. op.from # op.to
  <2>1. ~ScenesMoved(state, op)
    BY DEF IsOperationAlreadyApplied
  <2>2. PICK i \in DOMAIN op.scenes :
          ~(/\ op.scenes[i] \in ToSet(state.days[op.to].scenes)
            /\ op.from \in DOMAIN state.days => op.scenes[i] \notin ToSet(state.days[op.from].scenes))
    BY <1>1, <2>1 DEF ScenesMoved
  <2> QED
    BY <1>2
<1> QED
  BY <1>1, <1>2, <1>3

\* Every effect but that of a new requirement leaves what is there well formed.
LEMMA OtherEffectsKept ==
    ASSUME NEW state, IsKept(state), NEW op, IsOperation(op), op.type # "ADD_SCENE_REQUIREMENT",
           ~IsOperationAlreadyApplied(state, op), Problems(state, op) = {},
           NEW post, post = Effect(state, op)
    PROVE  IsKept(post)
<1>1. /\ state = [scenes |-> state.scenes, cast |-> state.cast, locations |-> state.locations,
                  days |-> state.days, sheets |-> state.sheets, requirements |-> state.requirements,
                  tasks |-> state.tasks]
      /\ WindowsAreKept(state.cast) /\ WindowsAreKept(state.locations)
      /\ DaysAreKept(state.days) /\ SheetsAreKept(state.sheets) /\ IsFiniteSet(DOMAIN state.tasks)
  BY SnapshotParts DEF IsKept
<1>2. CASE op.type = "RECORD_CAST_UNAVAILABILITY"
  <2>1. PICK cast : cast = [state.cast EXCEPT ![op.cast] = NormalizeDateRanges(Append(@, op.unavailable))]
    OBVIOUS
  <2>2. post = [state EXCEPT !.cast = cast]
    BY <1>1, <1>2, <2>1 DEF Effect
  <2>3. op.unavailable \in DateRanges
    BY <1>2 DEF IsOperation
  <2>4. WindowsAreKept(cast)
    BY <1>1, <2>1, <2>3, RecordingKeepsWindows
  <2>5. /\ post = [scenes |-> state.scenes, cast |-> post.cast, locations |-> post.locations, days |-> post.days,
                   sheets |-> post.sheets, requirements |-> state.requirements, tasks |-> post.tasks]
        /\ post.cast = cast /\ post.locations = state.locations /\ post.days = state.days
        /\ post.sheets = state.sheets /\ post.tasks = state.tasks
    BY <1>1, <2>2
  <2> QED
    BY <1>1, <2>4, <2>5, OtherFieldsKept
<1>3. CASE op.type = "RECORD_LOCATION_UNAVAILABILITY"
  <2>1. PICK locations :
          locations = [state.locations EXCEPT ![op.location] = NormalizeDateRanges(Append(@, op.unavailable))]
    OBVIOUS
  <2>2. post = [state EXCEPT !.locations = locations]
    BY <1>1, <1>3, <2>1 DEF Effect
  <2>3. op.unavailable \in DateRanges
    BY <1>3 DEF IsOperation
  <2>4. WindowsAreKept(locations)
    BY <1>1, <2>1, <2>3, RecordingKeepsWindows
  <2>5. /\ post = [scenes |-> state.scenes, cast |-> post.cast, locations |-> post.locations, days |-> post.days,
                   sheets |-> post.sheets, requirements |-> state.requirements, tasks |-> post.tasks]
        /\ post.cast = state.cast /\ post.locations = locations /\ post.days = state.days
        /\ post.sheets = state.sheets /\ post.tasks = state.tasks
    BY <1>1, <2>2
  <2> QED
    BY <1>1, <2>4, <2>5, OtherFieldsKept
<1>4. CASE op.type = "MOVE_SCENES"
  <2>1. op.from \in DOMAIN state.days /\ op.to \in DOMAIN state.days /\ op.from # op.to
    BY <1>4, MovesAreBetweenDays
  <2>2. op.scenes \in Seq(ToSet(op.scenes))
    BY <1>4 DEF IsOperation
  <2>3. post = MoveScenes(state, op)
    BY <1>4 DEF Effect
  <2>a. HasMoved(state, op, post)
    BY <2>1, <2>2, <2>3, MovingKeepsDays
  <2>4. /\ post = [scenes |-> state.scenes, cast |-> state.cast, locations |-> state.locations,
                   days |-> post.days, sheets |-> state.sheets, requirements |-> state.requirements,
                   tasks |-> state.tasks]
        /\ DaysAreKept(post.days)
    BY <2>a DEF HasMoved
  <2>5. post.cast = state.cast /\ post.locations = state.locations
        /\ post.sheets = state.sheets /\ post.tasks = state.tasks
    BY <2>4
  <2>6. post = [scenes |-> state.scenes, cast |-> post.cast, locations |-> post.locations, days |-> post.days,
                sheets |-> post.sheets, requirements |-> state.requirements, tasks |-> post.tasks]
    BY <2>4
  <2> QED
    BY <1>1, <2>4, <2>5, <2>6, OtherFieldsKept
<1>5. CASE op.type = "CREATE_PREPARATION_TASK"
  <2>1. PICK task : task = [on |-> op.on, title |-> op.title, status |-> "OPEN"]
    OBVIOUS
  <2>2. PICK tasks : tasks = With(state.tasks, FreshId("T", state.tasks), task)
    OBVIOUS
  <2>3. post = [state EXCEPT !.tasks = tasks]
    BY <1>1, <1>5, <2>1, <2>2 DEF Effect, CreatePreparationTask
  <2>4. IsFiniteSet(DOMAIN tasks)
    <3>1. PICK made, id : made = DOMAIN state.tasks /\ id = FreshId("T", state.tasks)
      OBVIOUS
    <3>2. IsFiniteSet(made)
      BY <1>1, <3>1
    <3>3. IsFiniteSet(made \cup {id})
      BY <3>2, FS_AddElement
    <3>4. DOMAIN tasks = made \cup {id}
      BY <2>2, <3>1 DEF With
    <3> QED
      BY <3>3, <3>4
  <2>5. /\ post = [scenes |-> state.scenes, cast |-> post.cast, locations |-> post.locations, days |-> post.days,
                   sheets |-> post.sheets, requirements |-> state.requirements, tasks |-> post.tasks]
        /\ post.cast = state.cast /\ post.locations = state.locations /\ post.days = state.days
        /\ post.sheets = state.sheets /\ post.tasks = tasks
    BY <1>1, <2>3
  <2> QED
    BY <1>1, <2>4, <2>5, OtherFieldsKept
<1>6. CASE op.type = "MARK_CALL_SHEET_STALE"
  <2>1. PICK sheets : sheets = [state.sheets EXCEPT ![op.sheet].status = "DRAFT"]
    OBVIOUS
  <2>2. post = [state EXCEPT !.sheets = sheets]
    BY <1>1, <1>6, <2>1 DEF Effect
  <2>3. SheetsAreKept(sheets)
    <3>1. op.sheet \in DOMAIN state.sheets
      BY <1>6 DEF Problems
    <3>2. PICK old, c : old = state.sheets /\ c = op.sheet
      OBVIOUS
    <3>3. old = [x \in DOMAIN old |-> [day |-> old[x].day, status |-> old[x].status]]
          /\ IsFiniteSet(DOMAIN old) /\ c \in DOMAIN old
      BY <1>1, <3>1, <3>2 DEF SheetsAreKept
    <3>4. PICK sheet : sheet = [day |-> old[c].day, status |-> "DRAFT"]
      OBVIOUS
    <3>5. sheets = [old EXCEPT ![c] = sheet]
      <4>1. old[c] = [day |-> old[c].day, status |-> old[c].status]
        BY <3>3
      <4>2. PICK was : was = old[c]
        OBVIOUS
      <4>3. [was EXCEPT !.status = "DRAFT"] = sheet
        BY <3>4, <4>1, <4>2
      <4>4. sheets = [old EXCEPT ![c] = [was EXCEPT !.status = "DRAFT"]]
        BY <2>1, <3>2, <4>2
      <4> QED
        BY <4>3, <4>4
    <3>6. DOMAIN sheets = DOMAIN old
      BY <3>5
    <3>7. \A x \in DOMAIN sheets : sheets[x] = [day |-> sheets[x].day, status |-> sheets[x].status]
      BY <3>3, <3>4, <3>5
    <3>8. sheets = [x \in DOMAIN sheets |-> sheets[x]]
      BY <3>5
    <3> QED
      BY <3>3, <3>6, <3>7, <3>8 DEF SheetsAreKept
  <2>5. /\ post = [scenes |-> state.scenes, cast |-> post.cast, locations |-> post.locations, days |-> post.days,
                   sheets |-> post.sheets, requirements |-> state.requirements, tasks |-> post.tasks]
        /\ post.cast = state.cast /\ post.locations = state.locations /\ post.days = state.days
        /\ post.sheets = sheets /\ post.tasks = state.tasks
    BY <1>1, <2>2
  <2> QED
    BY <1>1, <2>3, <2>5, OtherFieldsKept
<1>7. op.type \in OperationTypes
  BY DEF IsOperation
<1> QED
  BY <1>2, <1>3, <1>4, <1>5, <1>6, <1>7 DEF OperationTypes

\* A new requirement is listed on its scene, which had none like it.
LEMMA RequirementKept ==
    ASSUME NEW state, IsKept(state), NEW op, op.type = "ADD_SCENE_REQUIREMENT",
           ~IsOperationAlreadyApplied(state, op), Problems(state, op) = {},
           NEW post, post = Effect(state, op)
    PROVE  IsKept(post)
<1>0. /\ state = [scenes |-> state.scenes, cast |-> state.cast, locations |-> state.locations, days |-> state.days,
                  sheets |-> state.sheets, requirements |-> state.requirements, tasks |-> state.tasks]
      /\ WindowsAreKept(state.cast) /\ WindowsAreKept(state.locations)
      /\ DaysAreKept(state.days) /\ SheetsAreKept(state.sheets)
      /\ IsFiniteSet(DOMAIN state.scenes) /\ IsFiniteSet(DOMAIN state.tasks)
  BY SnapshotParts DEF IsKept
<1>s. /\ state.scenes = [s \in DOMAIN state.scenes |->
                           [cast |-> state.scenes[s].cast, location |-> state.scenes[s].location,
                            requirements |-> state.scenes[s].requirements]]
      /\ state.requirements = [r \in DOMAIN state.requirements |->
                                 [scene |-> state.requirements[r].scene, kind |-> state.requirements[r].kind,
                                  name |-> state.requirements[r].name]]
  BY SnapshotParts DEF IsKept
<1>1. op.scene \in DOMAIN state.scenes
  BY DEF Problems
<1>2. PICK new : new = FreshId("REQ", state.requirements)
  OBVIOUS
<1>3. PICK rec : rec = [scene |-> op.scene, kind |-> op.kind, name |-> op.name]
  OBVIOUS
<1>4. PICK more : more = With(state.requirements, new, rec)
  OBVIOUS
<1>5. PICK scene : scene = [state.scenes[op.scene] EXCEPT !.requirements = @ \cup {new}]
  OBVIOUS
<1>6. post = [state EXCEPT !.requirements = more, !.scenes[op.scene] = scene]
  BY <1>0, <1>2, <1>3, <1>4, <1>5 DEF Effect, AddSceneRequirement
<1>7. /\ DOMAIN more = DOMAIN state.requirements \cup {new}
      /\ more[new] = rec
      /\ \A r \in DOMAIN state.requirements : r # new => more[r] = state.requirements[r]
      /\ more = [r \in DOMAIN more |-> more[r]]
  BY <1>4 DEF With
<1>8. new \notin DOMAIN state.requirements /\ IsFiniteSet(DOMAIN more)
  <2>1. PICK made, old : made = DOMAIN state.requirements /\ old = state.requirements
    OBVIOUS
  <2>2. IsFiniteSet(made) /\ IsFiniteSet(DOMAIN old)
    <3>1. IsFiniteSet(DOMAIN state.requirements)
      BY SnapshotParts DEF IsKept
    <3> QED
      BY <2>1, <3>1
  <2>3. new \notin made
    BY <1>2, <2>1, <2>2, FreshIsNew
  <2>4. IsFiniteSet(made \cup {new})
    BY <2>2, FS_AddElement
  <2>5. DOMAIN more = made \cup {new}
    BY <1>7, <2>1
  <2> QED
    BY <2>1, <2>3, <2>4, <2>5
<1>9. /\ state.scenes[op.scene] = [cast |-> state.scenes[op.scene].cast, location |-> state.scenes[op.scene].location,
                                   requirements |-> state.scenes[op.scene].requirements]
      /\ scene = [cast |-> scene.cast, location |-> scene.location, requirements |-> scene.requirements]
      /\ scene.requirements = state.scenes[op.scene].requirements \cup {new}
  <2>1. PICK old : old = state.scenes[op.scene]
    OBVIOUS
  <2>3. old = [cast |-> old.cast, location |-> old.location, requirements |-> old.requirements]
    BY <1>1, <1>s, <2>1
  <2>4. scene = [old EXCEPT !.requirements = @ \cup {new}]
    BY <1>5, <2>1
  <2>5. /\ scene = [cast |-> scene.cast, location |-> scene.location, requirements |-> scene.requirements]
        /\ scene.requirements = old.requirements \cup {new}
    BY <2>3, <2>4
  <2> QED
    BY <2>1, <2>3, <2>5
<1>10. /\ post = [scenes |-> post.scenes, cast |-> state.cast, locations |-> state.locations, days |-> state.days,
                  sheets |-> state.sheets, requirements |-> more, tasks |-> state.tasks]
       /\ post.scenes = [state.scenes EXCEPT ![op.scene] = scene]
  BY <1>0, <1>6
<1>11. post.requirements = more /\ post.sheets = state.sheets /\ DOMAIN post.scenes = DOMAIN state.scenes
  BY <1>10
<1>12. /\ post.scenes[op.scene] = scene
       /\ \A s \in DOMAIN state.scenes : s # op.scene => post.scenes[s] = state.scenes[s]
  BY <1>1, <1>10
<1>13. IsSnapshot(post)
  <2>1. post.scenes = [s \in DOMAIN post.scenes |->
                         [cast |-> post.scenes[s].cast, location |-> post.scenes[s].location,
                          requirements |-> post.scenes[s].requirements]]
    <3>1. \A s \in DOMAIN post.scenes :
            post.scenes[s] = [cast |-> post.scenes[s].cast, location |-> post.scenes[s].location,
                              requirements |-> post.scenes[s].requirements]
      BY <1>s, <1>9, <1>11, <1>12
    <3>2. post.scenes = [s \in DOMAIN post.scenes |-> post.scenes[s]]
      BY <1>10
    <3> QED
      BY <3>1, <3>2
  <2>2. more = [r \in DOMAIN more |-> [scene |-> more[r].scene, kind |-> more[r].kind, name |-> more[r].name]]
    <3>1. \A r \in DOMAIN more : more[r] = [scene |-> more[r].scene, kind |-> more[r].kind, name |-> more[r].name]
      BY <1>s, <1>3, <1>7
    <3> QED
      BY <1>7, <3>1
  <2>3. post = [scenes |-> post.scenes, cast |-> post.cast, locations |-> post.locations, days |-> post.days,
                sheets |-> post.sheets, requirements |-> post.requirements, tasks |-> post.tasks]
    BY <1>10
  <2>4. post.cast = state.cast /\ post.locations = state.locations /\ post.days = state.days
        /\ post.tasks = state.tasks
    BY <1>10
  <2>5. /\ WindowsAreKept(post.cast) /\ WindowsAreKept(post.locations)
        /\ DaysAreKept(post.days) /\ SheetsAreKept(post.sheets)
    BY <1>0, <1>11, <2>4
  <2>6. /\ IsFiniteSet(DOMAIN post.scenes) /\ IsFiniteSet(DOMAIN post.requirements)
        /\ IsFiniteSet(DOMAIN post.tasks)
    BY <1>0, <1>8, <1>11, <2>4
  <2>7. post.requirements = [r \in DOMAIN post.requirements |->
                               [scene |-> post.requirements[r].scene, kind |-> post.requirements[r].kind,
                                name |-> post.requirements[r].name]]
    BY <1>11, <2>2
  <2> QED
    BY <2>1, <2>3, <2>5, <2>6, <2>7, SnapshotParts
<1>14. \A r \in DOMAIN state.requirements : more[r] = state.requirements[r]
  BY <1>7, <1>8
<1>15. ASSUME NEW r \in DOMAIN more PROVE IsListed(post, r)
  <2>1. CASE r = new
    BY <1>1, <1>3, <1>7, <1>9, <1>11, <1>12, <2>1 DEF IsListed
  <2>2. CASE r # new
    <3>1. r \in DOMAIN state.requirements /\ more[r] = state.requirements[r]
      BY <1>7, <1>14, <2>2
    <3>2. IsListed(state, r)
      BY <3>1 DEF IsKept, RequirementsAreListed
    <3> QED
      BY <1>9, <1>11, <1>12, <3>1, <3>2 DEF IsListed
  <2> QED
    BY <2>1, <2>2
<1>16. \A r \in DOMAIN state.requirements :
         ~(/\ state.requirements[r].scene = op.scene /\ state.requirements[r].kind = op.kind
           /\ NormalName[state.requirements[r].name] = NormalName[op.name])
  BY DEF IsOperationAlreadyApplied, EquivalentRequirements, RequirementsFor, NormalizeRequirementName
<1>17. ASSUME NEW r \in DOMAIN more, NEW q \in DOMAIN more, AreAlike(post, r, q) PROVE r = q
  <2>1. CASE r = new /\ q # new
    BY <1>3, <1>7, <1>11, <1>14, <1>16, <1>17, <2>1 DEF AreAlike
  <2>2. CASE r # new /\ q = new
    BY <1>3, <1>7, <1>11, <1>14, <1>16, <1>17, <2>2 DEF AreAlike
  <2>3. CASE r # new /\ q # new
    <3>1. r \in DOMAIN state.requirements /\ q \in DOMAIN state.requirements
      BY <1>7, <2>3
    <3>2. AreAlike(state, r, q)
      BY <1>11, <1>14, <1>17, <3>1 DEF AreAlike
    <3> QED
      BY <3>1, <3>2 DEF IsKept, RequirementsAreListed
  <2> QED
    BY <2>1, <2>2, <2>3
<1> QED
  BY <1>11, <1>13, <1>15, <1>17 DEF IsKept, RequirementsAreListed

\* Every effect of an operation leaves what is there well formed.
LEMMA EffectKept ==
    ASSUME NEW state, IsKept(state), NEW op, IsOperation(op),
           ~IsOperationAlreadyApplied(state, op), Problems(state, op) = {},
           NEW post, post = Effect(state, op)
    PROVE  IsKept(post)
  BY RequirementKept, OtherEffectsKept

\* What one turn of the loop holds.
IsApplication(application) ==
    /\ application = [state |-> application.state, applied |-> application.applied,
                      skipped |-> application.skipped, conflicts |-> application.conflicts]
    /\ IsKept(application.state)

\* So does a turn of the loop, whichever way it goes.
LEMMA TurnKept ==
    ASSUME NEW application, IsApplication(application), NEW op, IsOperation(op),
           NEW next, next = ApplyOperation(application, op)
    PROVE  IsApplication(next)
<1>1. PICK draft : draft = application.state
  OBVIOUS
<1>2. application = [state |-> draft, applied |-> application.applied,
                     skipped |-> application.skipped, conflicts |-> application.conflicts]
  BY <1>1 DEF IsApplication
<1>3. IsKept(draft)
  BY <1>1 DEF IsApplication
<1>4. CASE IsOperationAlreadyApplied(draft, op)
  <2>1. next = [application EXCEPT !.skipped = Append(@, op)]
    BY <1>1, <1>4 DEF ApplyOperation
  <2> QED
    BY <1>2, <1>3, <2>1 DEF IsApplication
<1>5. CASE ~IsOperationAlreadyApplied(draft, op) /\ Problems(draft, op) # {}
  <2>1. next = [application EXCEPT !.conflicts = @ \cup Problems(draft, op)]
    BY <1>1, <1>5 DEF ApplyOperation
  <2> QED
    BY <1>2, <1>3, <2>1 DEF IsApplication
<1>6. CASE ~IsOperationAlreadyApplied(draft, op) /\ Problems(draft, op) = {}
  <2>1. PICK post : post = Effect(draft, op)
    OBVIOUS
  <2>2. next = [application EXCEPT !.state = post, !.applied = Append(@, op)]
    BY <1>1, <1>6, <2>1 DEF ApplyOperation
  <2>3. IsKept(post)
    BY <1>3, <1>6, <2>1, EffectKept
  <2> QED
    BY <1>2, <2>2, <2>3 DEF IsApplication
<1> QED
  BY <1>4, <1>5, <1>6

\* What an operation list is, member by member.
LEMMA OperationListFacts ==
    ASSUME NEW operations, IsOperationList(operations)
    PROVE  /\ Len(operations) \in Nat /\ DOMAIN operations = 1..Len(operations)
           /\ \A i \in 1..Len(operations) : IsOperation(operations[i])
  BY DEF IsOperationList

\* So does applying a whole list, by induction on its length.
LEMMA AppliedKept ==
    ASSUME NEW state, IsKept(state), NEW operations, IsOperationList(operations)
    PROVE  IsApplication(ApplyOperations(state, operations))
<1>1. Len(operations) \in Nat /\ \A n \in 1..Len(operations) : IsOperation(operations[n])
  BY OperationListFacts
<1>2. PICK after : after = Applying(state, operations)
  OBVIOUS
<1>3. after[0] = Begun(state) /\ \A n \in 1..Len(operations) : after[n] = ApplyOperation(after[n - 1], operations[n])
  BY <1>1, <1>2, ApplyingUnfolds
<1> DEFINE T == {n \in Nat : n <= Len(operations) => IsApplication(after[n])}
<1>4. 0 \in T
  BY <1>3 DEF Begun, IsApplication
<1>5. ASSUME NEW n \in Nat, n \in T PROVE n + 1 \in T
  <2>1. SUFFICES ASSUME n + 1 <= Len(operations) PROVE IsApplication(after[n + 1])
    OBVIOUS
  <2>2. n + 1 \in 1..Len(operations) /\ (n + 1) - 1 = n /\ n <= Len(operations)
    BY <1>1, <2>1
  <2>3. after[n + 1] = ApplyOperation(after[n], operations[n + 1]) /\ IsApplication(after[n])
    BY <1>3, <1>5, <2>2
  <2>4. IsOperation(operations[n + 1])
    BY <1>1, <2>2
  <2> QED
    BY <2>3, <2>4, TurnKept
<1> HIDE DEF T
<1>6. \A n \in Nat : n \in T
  BY <1>4, <1>5, NaturalInduction
<1>7. IsApplication(after[Len(operations)])
  BY <1>1, <1>6 DEF T
<1> QED
  BY <1>2, <1>7 DEF ApplyOperations

-----------------------------------------------------------------------------
(* The agent's plans are operation lists.                                  *)

\* A list of n operations is an operation list.
LEMMA ListOf ==
    ASSUME NEW n \in Nat, NEW list, list = [i \in 1..n |-> list[i]],
           \A i \in 1..n : IsOperation(list[i])
    PROVE  IsOperationList(list)
<1>1. DOMAIN list = 1..n
  OBVIOUS
<1>2. \A i \in 1..n : list[i] \in ToSet(list)
  BY <1>1 DEF ToSet
<1>3. list \in [1..n -> ToSet(list)]
  BY <1>2
<1>4. list \in Seq(ToSet(list))
  BY <1>3
<1> QED
  BY <1>1, <1>4 DEF IsOperationList

\* So are two of them, one after the other.
LEMMA Joined ==
    ASSUME NEW a, NEW b, IsOperationList(a), IsOperationList(b)
    PROVE  IsOperationList(a \o b)
<1>1. a \in Seq(ToSet(a) \cup ToSet(b)) /\ b \in Seq(ToSet(a) \cup ToSet(b))
  BY DEF IsOperationList
<1>2. PICK n \in Nat : n = Len(a) + Len(b)
  BY <1>1
<1>3. PICK joined : joined = a \o b
  OBVIOUS
<1>4. /\ joined = [i \in 1..n |-> joined[i]]
      /\ \A i \in 1..n : joined[i] = IF i <= Len(a) THEN a[i] ELSE b[i - Len(a)]
  <2>1. PICK S : S = ToSet(a) \cup ToSet(b)
    OBVIOUS
  <2>2. a \in Seq(S) /\ b \in Seq(S)
    BY <1>1, <2>1
  <2>3. /\ joined \in Seq(S) /\ Len(joined) = n
        /\ \A i \in 1..n : joined[i] = IF i <= Len(a) THEN a[i] ELSE b[i - Len(a)]
    BY <1>2, <1>3, <2>2, ConcatProperties
  <2> QED
    BY <2>3, LenProperties
<1>5. ASSUME NEW i \in 1..n PROVE IsOperation(joined[i])
  <2>1. CASE i <= Len(a)
    BY <1>2, <1>4, <2>1, OperationListFacts
  <2>2. CASE ~(i <= Len(a))
    <3>1. i - Len(a) \in 1..Len(b)
      BY <1>1, <1>2, <2>2
    <3> QED
      BY <1>4, <2>2, <3>1, OperationListFacts
  <2> QED
    BY <2>1, <2>2
<1> QED
  BY <1>3, <1>4, <1>5, ListOf

\* A finite set has a sequence.
LEMMA SeqOfSet ==
    ASSUME NEW S, IsFiniteSet(S)
    PROVE  /\ Cardinality(S) \in Nat /\ DOMAIN SetToSeq(S) = 1..Cardinality(S)
           /\ SetToSeq(S) \in Seq(ToSet(SetToSeq(S)))
           /\ ToSet(SetToSeq(S)) = S
<1>1. Cardinality(S) \in Nat /\ Bijection(1..Cardinality(S), S) # {}
  BY FS_CardinalityType DEF ExistsBijection
<1>2. \E f \in [1..Cardinality(S) -> S] : IsInjective(f)
  BY <1>1 DEF Bijection, Injection
<1>3. PICK list : list = SetToSeq(S)
  OBVIOUS
<1>4. list \in [1..Cardinality(S) -> S] /\ IsInjective(list)
  BY <1>2, <1>3 DEF SetToSeq
<1>5. ToSet(list) = S
  <2>1. PICK n \in Nat : n = Cardinality(S)
    BY <1>1
  <2>2. PICK seen : seen = ToSet(list)
    OBVIOUS
  <2>3. seen \subseteq S /\ list \in [1..n -> seen] /\ \A x \in seen : \E i \in 1..n : list[i] = x
    BY <1>4, <2>1, <2>2 DEF ToSet
  <2>4. list \in Injection(1..n, seen) /\ list \in Surjection(1..n, seen)
    BY <1>4, <2>1, <2>3 DEF Injection, Surjection
  <2>5. list \in Bijection(1..n, seen)
    BY <2>4 DEF Bijection
  <2>6. IsFiniteSet(seen) /\ Cardinality(seen) = n
    BY <2>5, FS_NatBijection, FS_CountingElements DEF ExistsBijection
  <2>7. seen = S
    BY <2>1, <2>3, <2>6, FS_Subset
  <2> QED
    BY <2>2, <2>7
<1>6. list \in [1..Cardinality(S) -> ToSet(list)]
  BY <1>4, <1>5
<1>7. list \in Seq(ToSet(list))
  BY <1>1, <1>6
<1> QED
  BY <1>1, <1>3, <1>4, <1>5, <1>7

\* What a part of a list selects is a list.
LEMMA SelectedIsAList ==
    ASSUME NEW list, list \in Seq(ToSet(list)), NEW kept
    PROVE  Selected(list, kept) \in Seq(ToSet(Selected(list, kept)))
<1>1. PICK part : part = Selected(list, kept)
  OBVIOUS
<1>2. part \in Seq(ToSet(list))
  BY <1>1, SelectedMembers
<1>3. part \in Seq(ToSet(part))
  BY <1>2 DEF ToSet
<1> QED
  BY <1>1, <1>3

\* The moves of a plan.
LEMMA MovesAreOperations ==
    ASSUME NEW state, NEW scenes, scenes \in Seq(ToSet(scenes)), NEW target
    PROVE  IsOperationList(MoveOperations(state, scenes, target))
<1>0. PICK n \in Nat : DOMAIN scenes = 1..n
  OBVIOUS
<1>1. PICK days : days = {ScheduledShootDay(state, scenes[i]) : i \in DOMAIN scenes}
  OBVIOUS
<1>2. IsFiniteSet(days)
  <2>1. PICK at : at = [i \in 1..n |-> ScheduledShootDay(state, scenes[i])]
    OBVIOUS
  <2>2. at \in [1..n -> days] /\ \A d \in days : \E i \in 1..n : at[i] = d
    BY <1>0, <1>1, <2>1
  <2>3. at \in Surjection(1..n, days)
    BY <2>2 DEF Surjection
  <2> QED
    BY <2>3, FS_NatSurjection DEF ExistsSurjection
<1>3. PICK sources : sources = days \ {Nobody, target}
  OBVIOUS
<1>4. IsFiniteSet(sources)
  BY <1>2, <1>3, FS_Subset
<1>5. Cardinality(sources) \in Nat
  BY <1>4, FS_CardinalityType
<1>6. PICK m \in Nat : m = Cardinality(sources)
  BY <1>5
<1>7. PICK moves : moves = MoveOperations(state, scenes, target)
  OBVIOUS
<1> DEFINE OnDay(d) == {s \in ToSet(scenes) : ScheduledShootDay(state, s) = d}
<1>8. moves = [i \in 1..m |->
                 [type |-> "MOVE_SCENES", from |-> SetToSeq(sources)[i], to |-> target,
                  scenes |-> Selected(scenes, OnDay(SetToSeq(sources)[i]))]]
  BY <1>1, <1>3, <1>6, <1>7 DEF MoveOperations
<1>9. \A d : Selected(scenes, OnDay(d)) \in Seq(ToSet(Selected(scenes, OnDay(d))))
  BY SelectedIsAList
<1> HIDE DEF OnDay
<1>10. ASSUME NEW i \in 1..m PROVE IsOperation(moves[i])
  <2>1. PICK kept : kept = OnDay(SetToSeq(sources)[i])
    OBVIOUS
  <2>2. PICK part : part = Selected(scenes, kept)
    OBVIOUS
  <2>3. part \in Seq(ToSet(part))
    BY <1>9, <2>1, <2>2
  <2>4. PICK op : op = moves[i]
    OBVIOUS
  <2>5. op = [type |-> "MOVE_SCENES", from |-> SetToSeq(sources)[i], to |-> target, scenes |-> part]
    BY <1>8, <2>1, <2>2, <2>4
  <2>6. op.type = "MOVE_SCENES" /\ op.scenes = part
    BY <2>5
  <2>7. IsOperation(op)
    BY <2>3, <2>6 DEF IsOperation, OperationTypes
  <2> QED
    BY <2>4, <2>7
<1>11. moves = [i \in 1..m |-> moves[i]]
  BY <1>8
<1> QED
  BY <1>7, <1>10, <1>11, ListOf

\* Its stale marks.
LEMMA MarksAreOperations ==
    ASSUME NEW state, IsFiniteSet(DOMAIN state.sheets), NEW sources, NEW target
    PROVE  IsOperationList(StaleMarks(state, sources, target))
<1>1. PICK stale : stale = StaleCallSheetsForShootDays(state, sources \cup {target})
  OBVIOUS
<1>2. IsFiniteSet(stale)
  BY <1>1, FS_Subset DEF StaleCallSheetsForShootDays
<1>3. PICK m \in Nat : DOMAIN SetToSeq(stale) = 1..m
  BY <1>2, SeqOfSet
<1>4. PICK marks : marks = StaleMarks(state, sources, target)
  OBVIOUS
<1>5. marks = [i \in 1..m |-> [type |-> "MARK_CALL_SHEET_STALE", sheet |-> SetToSeq(stale)[i]]]
  BY <1>1, <1>3, <1>4 DEF StaleMarks
<1>6. marks = [i \in 1..m |-> marks[i]] /\ \A i \in 1..m : marks[i].type = "MARK_CALL_SHEET_STALE"
  BY <1>5
<1>7. \A i \in 1..m : IsOperation(marks[i])
  BY <1>6 DEF IsOperation, OperationTypes
<1> QED
  BY <1>4, <1>6, <1>7, ListOf

\* The fact it records.
LEMMA FactIsOperation ==
    ASSUME NEW change, IsChange(change), IsUnavailability(change)
    PROVE  IsOperation(FactOperation(change)) /\ IsOperationList(<<FactOperation(change)>>)
<1>0. PICK fact : fact = FactOperation(change)
  OBVIOUS
<1>1. /\ fact.type \in {"RECORD_CAST_UNAVAILABILITY", "RECORD_LOCATION_UNAVAILABILITY"}
      /\ fact.unavailable = change.unavailable
  BY <1>0 DEF FactOperation
<1>2. change.unavailable \in DateRanges
  BY DEF IsChange
<1>3. IsOperation(fact)
  BY <1>1, <1>2 DEF IsOperation, OperationTypes
<1>4. PICK list : list = <<fact>>
  OBVIOUS
<1>5. list = [i \in 1..1 |-> list[i]] /\ \A i \in 1..1 : IsOperation(list[i])
  BY <1>3, <1>4
<1> QED
  BY <1>0, <1>3, <1>4, <1>5, ListOf

\* The plan that answers an unavailability.
LEMMA UnavailabilityPlans ==
    ASSUME NEW state, IsSnapshot(state), NEW change, IsChange(change), IsUnavailability(change),
           NEW analysis, NEW target, NEW scenes, scenes = BlockedByAnalysis(state, analysis)
    PROVE  IsOperationList(UnavailabilityPlan(state, change, scenes, target))
<1>1. IsFiniteSet(scenes)
  BY FS_Subset DEF BlockedByAnalysis, Scheduled, IsSnapshot
<1>2. PICK list : list = SetToSeq(scenes)
  OBVIOUS
<1>a. list \in Seq(ToSet(list))
  BY <1>1, <1>2, SeqOfSet
<1>3. IsOperationList(MoveOperations(state, SetToSeq(scenes), target))
  BY <1>2, <1>a, MovesAreOperations
<1>4. IsOperationList(StaleMarks(state, SourceDays(state, scenes), target))
  BY MarksAreOperations DEF IsSnapshot
<1>5. IsOperationList(<<FactOperation(change)>> \o MoveOperations(state, SetToSeq(scenes), target))
  BY <1>3, FactIsOperation, Joined
<1> QED
  BY <1>4, <1>5, Joined DEF UnavailabilityPlan

\* The plan that adds a requirement.
LEMMA RequirementPlans ==
    ASSUME NEW state, IsSnapshot(state), NEW change
    PROVE  IsOperationList(RequirementPlan(state, change))
<1>1. PICK first, second :
        /\ first = [type |-> "ADD_SCENE_REQUIREMENT", scene |-> change.scene, kind |-> change.kind,
                    name |-> change.name]
        /\ second = [type |-> "CREATE_PREPARATION_TASK", on |-> <<"SCENE", change.scene>>,
                     title |-> [name |-> change.name, scene |-> change.scene]]
  OBVIOUS
<1>2. IsOperation(first) /\ IsOperation(second)
  <2>1. IsOperation(first)
    BY <1>1 DEF IsOperation, OperationTypes
  <2>2. second.type = "CREATE_PREPARATION_TASK" /\ second.on = <<"SCENE", change.scene>>
    BY <1>1
  <2>3. second.on = <<second.on[1], second.on[2]>>
    BY <2>2
  <2> QED
    BY <2>1, <2>2, <2>3 DEF IsOperation, OperationTypes
<1>3. PICK list : list = <<first, second>>
  OBVIOUS
<1>4. list = [i \in 1..2 |-> list[i]] /\ \A i \in 1..2 : IsOperation(list[i])
  BY <1>2, <1>3
<1>5. IsOperationList(list)
  BY <1>4, ListOf
<1>6. PICK marks : marks = IF change.scene \in Scheduled(state)
                           THEN StaleMarks(state, {}, ScheduledShootDay(state, change.scene)) ELSE <<>>
  OBVIOUS
<1>7. IsOperationList(marks)
  <2>1. IsOperationList(StaleMarks(state, {}, ScheduledShootDay(state, change.scene)))
    BY MarksAreOperations DEF IsSnapshot
  <2>2. PICK none : none = <<>>
    OBVIOUS
  <2>3. none = [i \in 1..0 |-> none[i]] /\ \A i \in 1..0 : IsOperation(none[i])
    BY <2>2
  <2>4. IsOperationList(none)
    BY <2>3, ListOf
  <2> QED
    BY <1>6, <2>1, <2>2, <2>4
<1>8. RequirementPlan(state, change) = list \o marks
  BY <1>1, <1>3, <1>6 DEF RequirementPlan
<1> QED
  BY <1>5, <1>7, <1>8, Joined

\* The plan that moves named scenes.
LEMMA SchedulePlans ==
    ASSUME NEW state, IsSnapshot(state), NEW change, change.scenes \in Seq(ToSet(change.scenes))
    PROVE  IsOperationList(SchedulePlan(state, change))
<1>2. IsOperationList(MoveOperations(state, change.scenes, change.to))
  BY MovesAreOperations
<1>3. IsOperationList(StaleMarks(state, SourceDays(state, ToSet(change.scenes)), change.to))
  BY MarksAreOperations DEF IsSnapshot
<1> QED
  BY <1>2, <1>3, Joined DEF SchedulePlan

-----------------------------------------------------------------------------
(* A valid simulation ends in a sound production.                          *)

\* A day of a window is blocked.
LEMMA DaysAreBlocked ==
    ASSUME NEW windows, NEW day, day \in DaysOf(windows)
    PROVE  IsBlockedOn(windows, day)
  BY DEF DaysOf, IsBlockedOn, IsDateWithin

\* No conflict is found: what days and scenes refer to exists (INV-3).
LEMMA NothingDangles ==
    ASSUME NEW state, CheckStateInvariants(state) = {}
    PROVE  /\ \A d \in DOMAIN state.days : ToSet(state.days[d].scenes) \subseteq DOMAIN state.scenes
           /\ \A s \in DOMAIN state.scenes : /\ state.scenes[s].location \in DOMAIN state.locations
                                             /\ state.scenes[s].cast \subseteq DOMAIN state.cast
<1>1. DanglingDays(state) = {} /\ DanglingScenes(state) = {}
  BY DEF CheckStateInvariants, CheckSceneIntegrity
<1>2. \A d \in DOMAIN state.days : ToSet(state.days[d].scenes) \subseteq DOMAIN state.scenes
  BY <1>1 DEF DanglingDays
<1>3. \A s \in DOMAIN state.scenes : /\ state.scenes[s].location \in DOMAIN state.locations
                                     /\ state.scenes[s].cast \subseteq DOMAIN state.cast
  BY <1>1 DEF DanglingScenes
<1> QED
  BY <1>2, <1>3

\* No conflict is found: a scene is in one place (INV-3).
LEMMA ScheduledOnce ==
    ASSUME NEW state, CheckStateInvariants(state) = {},
           NEW d \in DOMAIN state.days, NEW i \in DOMAIN state.days[d].scenes,
           NEW e \in DOMAIN state.days, NEW j \in DOMAIN state.days[e].scenes,
           state.days[d].scenes[i] = state.days[e].scenes[j]
    PROVE  d = e /\ i = j
<1>1. TwiceScheduled(state) = {}
  BY DEF CheckStateInvariants, CheckSceneIntegrity
<1>2. PICK s : s = state.days[d].scenes[i]
  OBVIOUS
<1>3. s \in UNION {ToSet(state.days[f].scenes) : f \in DOMAIN state.days}
  BY <1>2 DEF ToSet
<1>4. \A here, there \in Placements(state, s) : here = there
  BY <1>1, <1>3 DEF TwiceScheduled
<1>5. <<d, i>> \in Placements(state, s) /\ <<e, j>> \in Placements(state, s)
  BY <1>2 DEF Placements
<1>6. <<d, i>> = <<e, j>>
  BY <1>4, <1>5
<1> QED
  BY <1>6

\* No conflict is found: cast and location of a scheduled scene are free (INV-1, INV-2).
LEMMA NobodyIsBlocked ==
    ASSUME NEW state, CheckStateInvariants(state) = {},
           NEW d \in DOMAIN state.days, NEW i \in DOMAIN state.days[d].scenes,
           NEW s, s = state.days[d].scenes[i]
    PROVE  /\ \A c \in state.scenes[s].cast : state.days[d].date \notin DaysOf(state.cast[c])
           /\ state.days[d].date \notin DaysOf(state.locations[state.scenes[s].location])
<1>1. CheckCastAvailability(state) = {} /\ CheckLocationAvailability(state) = {}
  BY DEF CheckStateInvariants
<1>2. s \in ToSet(state.days[d].scenes)
  BY DEF ToSet
<1>3. s \in DOMAIN state.scenes
  BY <1>2, NothingDangles
<1>4. PICK b : b = <<d, s>>
  OBVIOUS
<1>5. b \in Bookings(state) /\ b[1] = d /\ b[2] = s
  BY <1>2, <1>3, <1>4 DEF Bookings
<1>6. state.scenes[s].location \in DOMAIN state.locations /\ state.scenes[s].cast \subseteq DOMAIN state.cast
  BY <1>3, NothingDangles
<1>7. ASSUME NEW c \in state.scenes[s].cast PROVE ~IsBlockedOn(state.cast[c], state.days[d].date)
  <2>1. c \in state.scenes[s].cast \cap DOMAIN state.cast
    BY <1>6
  <2> QED
    BY <1>1, <1>5, <2>1 DEF CheckCastAvailability, DateOf
<1>8. ~IsBlockedOn(state.locations[state.scenes[s].location], state.days[d].date)
  BY <1>1, <1>5, <1>6 DEF CheckLocationAvailability, DateOf
<1> QED
  BY <1>7, <1>8, DaysAreBlocked

\* The invariants of the source, and requirements that are listed, make a production sound.
LEMMA CheckedIsSound ==
    ASSUME NEW state, RequirementsAreListed(state), CheckStateInvariants(state) = {}
    PROVE  IsSound(state)
<1>1. \A d, e \in DOMAIN state.days : \A i \in DOMAIN state.days[d].scenes, j \in DOMAIN state.days[e].scenes :
        state.days[d].scenes[i] = state.days[e].scenes[j] => d = e /\ i = j
  BY ScheduledOnce
<1>2. \A d \in DOMAIN state.days : \A i \in DOMAIN state.days[d].scenes :
        /\ \A c \in state.scenes[state.days[d].scenes[i]].cast : state.days[d].date \notin DaysOf(state.cast[c])
        /\ state.days[d].date \notin DaysOf(state.locations[state.scenes[state.days[d].scenes[i]].location])
  BY NobodyIsBlocked
<1>3. /\ \A r \in DOMAIN state.requirements :
           /\ state.requirements[r].scene \in DOMAIN state.scenes
           /\ r \in state.scenes[state.requirements[r].scene].requirements
      /\ \A r, q \in DOMAIN state.requirements :
           /\ state.requirements[r].scene = state.requirements[q].scene
           /\ state.requirements[r].kind = state.requirements[q].kind
           /\ NormalName[state.requirements[r].name] = NormalName[state.requirements[q].name]
           => r = q
  BY DEF RequirementsAreListed, IsListed, AreAlike
<1> QED
  BY <1>1, <1>2, <1>3 DEF IsSound

\* The converse, as far as it goes.
LEMMA SoundIsListed ==
    ASSUME NEW state, IsSound(state) PROVE RequirementsAreListed(state)
  BY DEF IsSound, RequirementsAreListed, IsListed, AreAlike

\* Operations whose simulation is valid turn a sound production into a sound one.
LEMMA ValidStaysSound ==
    ASSUME NEW state, IsSnapshot(state), IsSound(state), NEW operations, IsOperationList(operations),
           SimulateProposal(state, operations).valid,
           NEW post, post = ApplyOperations(state, operations).state
    PROVE  IsSnapshot(post) /\ IsSound(post) /\ CheckStateInvariants(post) = {}
<1>1. IsKept(state)
  BY SoundIsListed DEF IsKept
<1>2. IsKept(post)
  BY <1>1, AppliedKept DEF IsApplication
<1>3. CheckStateInvariants(post) = {}
  BY DEF SimulateProposal
<1> QED
  BY <1>2, <1>3, CheckedIsSound DEF IsKept

-----------------------------------------------------------------------------
(* The invariant.                                                          *)

\* The production is sound, and the rules of the source find it so.
ProductionIsWell ==
    IsSnapshot(production) /\ IsSound(production) /\ CheckStateInvariants(production) = {}

\* A run holds what its steps gave it.
RunIsARecord ==
    agent = Run(agent.phase, agent.change, agent.base, agent.analysis, agent.seen, agent.plan, agent.valid)

\* Its change and its plan are parsed.
PlanIsParsed ==
    /\ agent.phase # "IDLE" => agent.change \in Changes
    /\ agent.phase \in {"PLANNED", "SIMULATED", "PROPOSED"} => IsOperationList(agent.plan)

\* The verdict stored with a proposal is that of the version it was made for.
VerdictIsOfItsVersion ==
    /\ version \in Nat /\ agent.base \in Nat /\ agent.base <= version
    /\ agent.phase = "PROPOSED" /\ agent.valid /\ version = agent.base
         => SimulateProposal(production, agent.plan).valid

\* What is known of the run.
AgentIsWell == RunIsARecord /\ PlanIsParsed /\ VerdictIsOfItsVersion

\* The inductive invariant.
PlanningInv == ProductionIsWell /\ AgentIsWell

\* A run that has not proposed holds no verdict.
LEMMA StepsOfARun ==
    ASSUME NEW phase, NEW change, NEW base, NEW analysis, NEW seen, NEW plan, NEW valid,
           agent' = Run(phase, change, base, analysis, seen, plan, valid),
           UNCHANGED <<production, version>>, PlanningInv,
           base \in Nat, base <= version, phase # "PROPOSED",
           phase # "IDLE" => change \in Changes,
           phase \in {"PLANNED", "SIMULATED"} => IsOperationList(plan)
    PROVE  PlanningInv'
<1>1. /\ agent'.phase = phase /\ agent'.change = change /\ agent'.base = base /\ agent'.plan = plan
      /\ RunIsARecord'
  <2>1. PICK run : run = agent'
    OBVIOUS
  <2>2. run = Run(phase, change, base, analysis, seen, plan, valid)
    BY <2>1
  <2>3. /\ run.phase = phase /\ run.change = change /\ run.base = base /\ run.plan = plan
        /\ run = Run(run.phase, run.change, run.base, run.analysis, run.seen, run.plan, run.valid)
    BY <2>2 DEF Run
  <2> QED
    BY <2>1, <2>3 DEF RunIsARecord
<1>2. PlanIsParsed'
  BY <1>1 DEF PlanIsParsed
<1>3. VerdictIsOfItsVersion'
  BY <1>1 DEF VerdictIsOfItsVersion, PlanningInv, AgentIsWell
<1>4. ProductionIsWell'
  BY DEF ProductionIsWell, PlanningInv
<1> QED
  BY <1>1, <1>2, <1>3, <1>4 DEF PlanningInv, AgentIsWell

\* Nor does one that ends.
LEMMA RunEnds ==
    ASSUME agent' = NoRun, UNCHANGED <<production, version>>, PlanningInv
    PROVE  PlanningInv'
<1>1. version \in Nat
  BY DEF PlanningInv, AgentIsWell, VerdictIsOfItsVersion
<1>2. PICK plan, valid : plan = <<>> /\ valid = FALSE
  OBVIOUS
<1>3. agent' = Run("IDLE", Nobody, 0, Nobody, Nobody, plan, valid)
  BY <1>2 DEF NoRun
<1> QED
  BY <1>1, <1>3, StepsOfARun

\* The invariant holds of a production that is set up, with no run.
LEMMA PlanningStarts == Init => PlanningInv
<1> SUFFICES ASSUME Init PROVE PlanningInv
  OBVIOUS
<1>1. ProductionIsWell
  BY ProductionsAreSound DEF Init, ProductionIsWell
<1>2. /\ agent.phase = "IDLE" /\ agent.base = 0 /\ RunIsARecord
  BY DEF Init, NoRun, Run, RunIsARecord
<1> QED
  BY <1>1, <1>2 DEF PlanningInv, AgentIsWell, PlanIsParsed, VerdictIsOfItsVersion, Init

\* A run was prepared for a version that has been.
LEMMA BoundedBase == PlanningInv => version \in Nat /\ agent.base \in Nat /\ agent.base <= version
  BY DEF PlanningInv, AgentIsWell, VerdictIsOfItsVersion

\* A sentence is read as a change.
LEMMA InterpretKeeps ==
    ASSUME PlanningInv, NEW change \in Changes, Interpret(change) PROVE PlanningInv'
<1>1. PICK plan, valid : plan = <<>> /\ valid = FALSE
  OBVIOUS
<1>2. agent' = Run("INTERPRETED", change, 0, Nobody, Nobody, plan, valid) /\ UNCHANGED <<production, version>>
  BY <1>1 DEF Interpret
<1> QED
  BY <1>2, BoundedBase, StepsOfARun

\* The change is recorded, or the run ends.
LEMMA SubmitKeeps ==
    ASSUME PlanningInv, SubmitChange PROVE PlanningInv'
<1>1. UNCHANGED <<production, version>> /\ agent.phase = "INTERPRETED"
  BY DEF SubmitChange
<1>2. CASE ReferencesExist(production, agent.change)
  <2>1. agent' = Run("SUBMITTED", agent.change, agent.base, agent.analysis, agent.seen, agent.plan, agent.valid)
    BY <1>2 DEF SubmitChange, PlanningInv, AgentIsWell, RunIsARecord, Run
  <2>2. agent.change \in Changes
    BY <1>1 DEF PlanningInv, AgentIsWell, PlanIsParsed
  <2> QED
    BY <1>1, <2>1, <2>2, BoundedBase, StepsOfARun
<1>3. CASE ~ReferencesExist(production, agent.change)
  BY <1>1, <1>3, RunEnds DEF SubmitChange
<1> QED
  BY <1>2, <1>3

\* It is analysed on the version read.
LEMMA AnalyzeKeeps ==
    ASSUME PlanningInv, Analyze PROVE PlanningInv'
<1>1. UNCHANGED <<production, version>> /\ agent.phase = "SUBMITTED"
  BY DEF Analyze
<1>2. CASE ReferencesExist(production, agent.change)
  <2>1. agent' = Run("ANALYZED", agent.change, version, AnalyzeImpact(production, agent.change),
                     agent.seen, agent.plan, agent.valid)
    BY <1>2 DEF Analyze, PlanningInv, AgentIsWell, RunIsARecord, Run
  <2>2. agent.change \in Changes
    BY <1>1 DEF PlanningInv, AgentIsWell, PlanIsParsed
  <2> QED
    BY <1>1, <2>1, <2>2, BoundedBase, StepsOfARun
<1>3. CASE ~ReferencesExist(production, agent.change)
  BY <1>1, <1>3, RunEnds DEF Analyze
<1> QED
  BY <1>2, <1>3

\* A plan is made of operations.
LEMMA PlannedKeeps ==
    ASSUME PlanningInv, agent.phase # "IDLE", UNCHANGED <<production, version>>, NEW plan, IsOperationList(plan),
           agent' = [agent EXCEPT !.phase = "PLANNED", !.plan = plan]
    PROVE  PlanningInv'
<1>1. agent' = Run("PLANNED", agent.change, agent.base, agent.analysis, agent.seen, plan, agent.valid)
  BY DEF PlanningInv, AgentIsWell, RunIsARecord, Run
<1>2. agent.change \in Changes
  BY DEF PlanningInv, AgentIsWell, PlanIsParsed
<1> QED
  BY <1>1, <1>2, BoundedBase, StepsOfARun

\* An unavailability is planned for, with a day, without, or not at all.
LEMMA PlanUnavailabilityKeeps ==
    ASSUME PlanningInv, agent.phase = "ANALYZED", PlanUnavailability, UNCHANGED <<production, version>>
    PROVE  PlanningInv'
<1>1. PICK scenes : scenes = BlockedByAnalysis(production, agent.analysis)
  OBVIOUS
<1>2. PICK candidates : candidates = CandidatesFor(production, agent.change, scenes)
  OBVIOUS
<1>3. IsSnapshot(production) /\ agent.change \in Changes
  BY DEF PlanningInv, AgentIsWell, PlanIsParsed, ProductionIsWell
<1>a. IsUnavailability(agent.change) /\ IsChange(agent.change)
  BY <1>3, InputsAreParsed DEF PlanUnavailability
<1>b. IsOperationList(<<FactOperation(agent.change)>>)
  BY <1>a, FactIsOperation
<1>4. CASE agent' = [agent EXCEPT !.phase = "PLANNED", !.plan = <<FactOperation(agent.change)>>]
  BY <1>4, <1>b, PlannedKeeps
<1>5. CASE agent' = [agent EXCEPT !.phase = "NO_CANDIDATE", !.seen = production]
  <2>1. agent' = Run("NO_CANDIDATE", agent.change, agent.base, agent.analysis, production, agent.plan, agent.valid)
    BY <1>5 DEF PlanningInv, AgentIsWell, RunIsARecord, Run
  <2> QED
    BY <1>3, <2>1, BoundedBase, StepsOfARun
<1>6. ASSUME NEW target \in candidates,
             agent' = [agent EXCEPT !.phase = "PLANNED",
                                    !.plan = UnavailabilityPlan(production, agent.change, scenes, target)]
      PROVE  PlanningInv'
  <2>1. IsOperationList(UnavailabilityPlan(production, agent.change, scenes, target))
    BY <1>1, <1>3, <1>a, UnavailabilityPlans
  <2> QED
    BY <1>6, <2>1, PlannedKeeps
<1> QED
  BY <1>1, <1>2, <1>4, <1>5, <1>6 DEF PlanUnavailability

\* A requirement is planned for, unless the scene has it.
LEMMA PlanRequirementKeeps ==
    ASSUME PlanningInv, agent.phase = "ANALYZED", PlanRequirement, UNCHANGED <<production, version>>
    PROVE  PlanningInv'
<1>1. CASE AlreadyPresent(agent.analysis)
  BY <1>1, RunEnds DEF PlanRequirement
<1>2. CASE ~AlreadyPresent(agent.analysis)
  <2>1. IsOperationList(RequirementPlan(production, agent.change))
    BY RequirementPlans DEF PlanningInv, ProductionIsWell
  <2> QED
    BY <1>2, <2>1, PlannedKeeps DEF PlanRequirement
<1> QED
  BY <1>1, <1>2

\* Moves are planned.
LEMMA PlanScheduleKeeps ==
    ASSUME PlanningInv, agent.phase = "ANALYZED", PlanSchedule, UNCHANGED <<production, version>>
    PROVE  PlanningInv'
<1>1. agent.change \in Changes /\ agent.change.type = "SCHEDULE_CHANGED" /\ IsSnapshot(production)
  BY DEF PlanningInv, AgentIsWell, PlanIsParsed, ProductionIsWell, PlanSchedule
<1>a. agent.change.scenes \in Seq(ToSet(agent.change.scenes))
  BY <1>1, InputsAreParsed DEF IsChange
<1>2. IsOperationList(SchedulePlan(production, agent.change))
  BY <1>1, <1>a, SchedulePlans
<1> QED
  BY <1>2, PlannedKeeps DEF PlanSchedule

\* Whatever kind of change it is.
LEMMA PlanKeeps == ASSUME PlanningInv, Plan PROVE PlanningInv'
  BY PlanUnavailabilityKeeps, PlanRequirementKeeps, PlanScheduleKeeps DEF Plan

\* The plan is simulated, or refused.
LEMMA SimulateKeeps == ASSUME PlanningInv, Simulate PROVE PlanningInv'
<1>1. UNCHANGED <<production, version>> /\ agent.phase = "PLANNED"
  BY DEF Simulate
<1>2. CASE agent' = NoRun
  BY <1>1, <1>2, RunEnds
<1>3. CASE agent' = [agent EXCEPT !.phase = "SIMULATED"]
  <2>1. agent' = Run("SIMULATED", agent.change, agent.base, agent.analysis, agent.seen, agent.plan, agent.valid)
    BY <1>3 DEF PlanningInv, AgentIsWell, RunIsARecord, Run
  <2>2. agent.change \in Changes /\ IsOperationList(agent.plan)
    BY <1>1 DEF PlanningInv, AgentIsWell, PlanIsParsed
  <2> QED
    BY <1>1, <2>1, <2>2, BoundedBase, StepsOfARun
<1> QED
  BY <1>2, <1>3 DEF Simulate

\* The verdict stored is that of the version the plan was made for, or nothing is stored.
LEMMA ProposeKeeps == ASSUME PlanningInv, Propose PROVE PlanningInv'
<1>1. UNCHANGED <<production, version>> /\ agent.phase = "SIMULATED"
  BY DEF Propose
<1>2. CASE agent' = NoRun
  BY <1>1, <1>2, RunEnds
<1>3. CASE agent' = [agent EXCEPT !.phase = "PROPOSED", !.valid = SimulateProposal(production, agent.plan).valid]
  <2>1. PICK verdict : verdict = SimulateProposal(production, agent.plan).valid
    OBVIOUS
  <2>2. agent' = Run("PROPOSED", agent.change, agent.base, agent.analysis, agent.seen, agent.plan, verdict)
    BY <1>3, <2>1 DEF PlanningInv, AgentIsWell, RunIsARecord, Run
  <2>3. /\ agent'.change = agent.change /\ agent'.base = agent.base /\ agent'.plan = agent.plan
        /\ agent'.valid = verdict /\ agent'.phase = "PROPOSED" /\ RunIsARecord'
    BY <2>2 DEF Run, RunIsARecord
  <2>4. PlanIsParsed'
    BY <1>1, <2>3 DEF PlanningInv, AgentIsWell, PlanIsParsed
  <2>5. SimulateProposal(production, agent.plan)' = SimulateProposal(production, agent.plan)
    BY <1>1, <2>3
  <2>6. VerdictIsOfItsVersion'
    BY <1>1, <2>1, <2>3, <2>5, BoundedBase DEF VerdictIsOfItsVersion
  <2>7. ProductionIsWell'
    BY <1>1 DEF PlanningInv, ProductionIsWell
  <2> QED
    BY <2>3, <2>4, <2>6, <2>7 DEF PlanningInv, AgentIsWell
<1> QED
  BY <1>2, <1>3 DEF Propose

\* An apply finds the version of the verdict, so the verdict still holds of what it writes.
LEMMA ApplyProposalKeeps == ASSUME PlanningInv, ApplyProposal PROVE PlanningInv'
<1>1. IsOperationList(agent.plan) /\ SimulateProposal(production, agent.plan).valid
  BY DEF ApplyProposal, PlanningInv, AgentIsWell, PlanIsParsed, VerdictIsOfItsVersion
<1>2. production' = ApplyOperations(production, agent.plan).state /\ version' = version + 1 /\ agent' = NoRun
  BY DEF ApplyProposal, Commit
<1>3. ProductionIsWell'
  BY <1>1, <1>2, ValidStaysSound DEF PlanningInv, ProductionIsWell
<1>4. agent'.phase = "IDLE" /\ agent'.base = 0 /\ RunIsARecord'
  BY <1>2 DEF NoRun, Run, RunIsARecord
<1> QED
  BY <1>2, <1>3, <1>4, BoundedBase DEF PlanningInv, AgentIsWell, PlanIsParsed, VerdictIsOfItsVersion

\* A proposal that is set aside writes nothing.
LEMMA SetAsideKeeps == ASSUME PlanningInv, SetAside PROVE PlanningInv'
  BY RunEnds DEF SetAside

\* A plan by hand is written on the version it was judged on, and leaves the proposal of a run behind.
LEMMA ApplyHandWrittenKeeps ==
    ASSUME PlanningInv, NEW operations \in HandWritten, ApplyHandWritten(operations) PROVE PlanningInv'
<1>1. IsOperationList(operations) /\ SimulateProposal(production, operations).valid
  BY InputsAreParsed DEF ApplyHandWritten
<1>2. production' = ApplyOperations(production, operations).state /\ version' = version + 1 /\ agent' = agent
  BY DEF ApplyHandWritten, Commit
<1>3. ProductionIsWell'
  BY <1>1, <1>2, ValidStaysSound DEF PlanningInv, ProductionIsWell
<1>4. RunIsARecord' /\ PlanIsParsed'
  BY <1>2 DEF PlanningInv, AgentIsWell, RunIsARecord, PlanIsParsed
<1>5. version' # agent'.base /\ version' \in Nat /\ agent'.base \in Nat /\ agent'.base <= version'
  BY <1>2, BoundedBase
<1>6. VerdictIsOfItsVersion'
  BY <1>5 DEF VerdictIsOfItsVersion
<1> QED
  BY <1>3, <1>4, <1>6 DEF PlanningInv, AgentIsWell

\* The invariant speaks of the state alone.
LEMMA PlanningStutters == ASSUME PlanningInv, UNCHANGED vars PROVE PlanningInv'
  BY DEF vars, PlanningInv, ProductionIsWell, AgentIsWell, RunIsARecord, PlanIsParsed, VerdictIsOfItsVersion

\* No step of the agent or of a person leaves the invariant.
LEMMA PlanningKeepsInvariant == PlanningInv /\ [Next]_vars => PlanningInv'
<1> SUFFICES ASSUME PlanningInv, [Next]_vars PROVE PlanningInv'
  OBVIOUS
<1>1. ASSUME NEW change \in Changes, Interpret(change) PROVE PlanningInv'
  BY <1>1, InterpretKeeps
<1>2. ASSUME NEW operations \in HandWritten, ApplyHandWritten(operations) PROVE PlanningInv'
  BY <1>2, ApplyHandWrittenKeeps
<1>3. CASE ReportNoCandidate
  BY <1>3, RunEnds DEF ReportNoCandidate
<1> QED
  BY <1>1, <1>2, <1>3, SubmitKeeps, AnalyzeKeeps, PlanKeeps, SimulateKeeps, ProposeKeeps, ApplyProposalKeeps,
     SetAsideKeeps, PlanningStutters DEF Next

\* The invariant holds of every behaviour: the production is sound, and a proposal that could be
\* applied was judged on it.
THEOREM PlanningIsInvariant == Spec => []PlanningInv
  BY PlanningStarts, PlanningKeepsInvariant, PTL DEF Spec

\* Whatever the agent or a person applies, the production stays sound: scenes in one place, on days their
\* cast and location are free, each requirement listed on its scene and once
\* (simulation.ts, apply-approved-proposal.ts).
THEOREM ProductionsStaySound == Spec => []ProductionStaysSound
<1>1. PlanningInv => ProductionStaysSound
  BY DEF PlanningInv, ProductionIsWell, ProductionStaysSound
<1> QED
  BY <1>1, PlanningIsInvariant, PTL

-----------------------------------------------------------------------------
(* What the operations of one kind leave behind.                           *)

\* Normalised windows block the days of the windows they were made from and the range, apart from each other.
THEOREM WindowsKeepMeaning == Spec => []WindowsMeanTheirDays
<1>1. ASSUME PlanningInv PROVE WindowsMeanTheirDays
  <2>1. ASSUME NEW change \in Changes, change.type = "CAST_UNAVAILABLE", change.cast \in DOMAIN production.cast,
               NEW windows, windows = production.cast[change.cast],
               NEW range, range = change.unavailable,
               NEW merged, merged = NormalizeDateRanges(Append(windows, range))
        PROVE  /\ DaysOf(merged) = DaysOf(windows) \cup (range.start..range.end)
               /\ \A i \in 1..(Len(merged) - 1) :
                     \/ merged[i].end + 1 < merged[i + 1].start
                     \/ \E h \in 1..i : merged[h].end = LastDay /\ merged[h].start <= merged[i + 1].start
               /\ IsRangeCovered(windows, range) <=> range.start..range.end \subseteq DaysOf(windows)
    <3>1. WindowsAreKept(production.cast)
      BY <1>1, SnapshotParts DEF PlanningInv, ProductionIsWell
    <3>2. windows \in Seq(DateRanges)
      BY <2>1, <3>1 DEF WindowsAreKept
    <3>3. range \in DateRanges
      BY <2>1, InputsAreParsed DEF IsChange, IsUnavailability
    <3>4. merged \in MergedLists /\ DaysOf(merged) = DaysOf(windows) \cup (range.start..range.end)
      BY <2>1, <3>2, <3>3, RecordingAddsDays
    <3>5. ASSUME NEW i \in 1..(Len(merged) - 1)
          PROVE  \/ merged[i].end + 1 < merged[i + 1].start
                 \/ \E h \in 1..i : merged[h].end = LastDay /\ merged[h].start <= merged[i + 1].start
      <4>1. /\ i \in 1..Len(merged) /\ i + 1 \in 1..Len(merged) /\ i < i + 1
            /\ \A h \in 1..i : h \in 1..Len(merged) /\ h < i + 1
        BY <3>4 DEF MergedLists
      <4> QED
        BY <3>4, <4>1 DEF MergedLists, Apart
    <3> QED
      BY <3>2, <3>3, <3>4, <3>5, CoveredMeansItsDays
  <2> QED
    BY <2>1 DEF WindowsMeanTheirDays
<1> QED
  BY <1>1, PlanningIsInvariant, PTL

\* A list of one operation is one turn of the loop.
LEMMA OneTurn ==
    ASSUME NEW state, NEW list, NEW op, list = <<op>>
    PROVE  ApplyOperations(state, list) = ApplyOperation(Begun(state), op)
<1>1. Len(list) = 1 /\ list[1] = op
  OBVIOUS
<1>2. /\ Applying(state, list)[0] = Begun(state)
      /\ \A n \in 1..Len(list) : Applying(state, list)[n] = ApplyOperation(Applying(state, list)[n - 1], list[n])
  BY <1>1, ApplyingUnfolds
<1>3. Applying(state, list)[1] = ApplyOperation(Applying(state, list)[0], op)
  <2>1. 1 \in 1..Len(list) /\ 1 - 1 = 0
    BY <1>1
  <2> QED
    BY <1>1, <1>2, <2>1
<1> QED
  BY <1>1, <1>2, <1>3 DEF ApplyOperations

\* What one turn makes of a state.
LEMMA TurnOfOne ==
    ASSUME NEW state, NEW op, NEW turn, turn = ApplyOperation(Begun(state), op)
    PROVE  /\ IsOperationAlreadyApplied(state, op) =>
                turn.state = state /\ turn.applied = <<>> /\ turn.conflicts = {}
           /\ ~IsOperationAlreadyApplied(state, op) /\ Problems(state, op) # {} =>
                turn.state = state /\ turn.applied = <<>> /\ turn.conflicts # {}
           /\ ~IsOperationAlreadyApplied(state, op) /\ Problems(state, op) = {} =>
                turn.state = Effect(state, op) /\ turn.conflicts = {}
<1>1. PICK begun : begun = Begun(state)
  OBVIOUS
<1>2. /\ begun = [state |-> state, applied |-> <<>>, skipped |-> <<>>, conflicts |-> {}]
      /\ begun.state = state
  BY <1>1 DEF Begun
<1>3. CASE IsOperationAlreadyApplied(state, op)
  <2>1. turn = [begun EXCEPT !.skipped = Append(@, op)]
    BY <1>1, <1>2, <1>3 DEF ApplyOperation
  <2> QED
    BY <1>2, <1>3, <2>1
<1>4. CASE ~IsOperationAlreadyApplied(state, op) /\ Problems(state, op) # {}
  <2>1. turn = [begun EXCEPT !.conflicts = @ \cup Problems(state, op)]
    BY <1>1, <1>2, <1>4 DEF ApplyOperation
  <2> QED
    BY <1>2, <1>4, <2>1
<1>5. CASE ~IsOperationAlreadyApplied(state, op) /\ Problems(state, op) = {}
  <2>1. turn = [begun EXCEPT !.state = Effect(state, op), !.applied = Append(@, op)]
    BY <1>1, <1>2, <1>5 DEF ApplyOperation
  <2> QED
    BY <1>2, <1>5, <2>1
<1> QED
  BY <1>3, <1>4, <1>5

\* Scenes that were moved are on their new day, and on their old day no longer.
LEMMA MovedIsRecognised ==
    ASSUME NEW state, IsKept(state), NEW op, IsOperation(op), op.type = "MOVE_SCENES",
           ~IsOperationAlreadyApplied(state, op), Problems(state, op) = {},
           NEW post, post = Effect(state, op)
    PROVE  IsOperationAlreadyApplied(post, op)
<1>1. op.from \in DOMAIN state.days /\ op.to \in DOMAIN state.days /\ op.from # op.to
  BY MovesAreBetweenDays
<1>2. op.scenes \in Seq(ToSet(op.scenes))
  BY DEF IsOperation
<1>3. HasMoved(state, op, post)
  BY <1>1, <1>2, MovingKeepsDays DEF Effect
<1>4. PICK there, moved : there = state.days[op.to].scenes /\ moved = op.scenes
  OBVIOUS
<1>5. PICK here : here = state.days[op.from].scenes
  OBVIOUS
<1>6. here \in Seq(ToSet(here)) /\ there \in Seq(ToSet(there)) /\ moved \in Seq(ToSet(moved))
  BY <1>1, <1>2, <1>4, <1>5, SnapshotParts DEF IsKept, DaysAreKept
<1>7. /\ post.days[op.from].scenes = Without(here, moved) /\ post.days[op.to].scenes = there \o moved
      /\ DOMAIN post.days = DOMAIN state.days
  BY <1>3, <1>4, <1>5 DEF HasMoved
<1>8. ToSet(Without(here, moved)) = ToSet(here) \ ToSet(moved)
  <2>1. PICK kept : kept = ToSet(here) \ ToSet(moved)
    OBVIOUS
  <2>2. ToSet(Selected(here, kept)) = ToSet(here) \cap kept
    BY <1>6, SelectedMembers
  <2> QED
    BY <2>1, <2>2 DEF Without
<1>9. ASSUME NEW i \in DOMAIN moved PROVE moved[i] \in ToSet(there \o moved)
  <2>1. PICK S : S = ToSet(there) \cup ToSet(moved)
    OBVIOUS
  <2>2. there \in Seq(S) /\ moved \in Seq(S)
    BY <1>6, <2>1
  <2>3. PICK joined : joined = there \o moved
    OBVIOUS
  <2>4. /\ i \in 1..Len(moved) /\ Len(there) \in Nat
        /\ i + Len(there) \in DOMAIN joined /\ joined[i + Len(there)] = moved[i]
    BY <2>2, <2>3
  <2> QED
    BY <2>3, <2>4 DEF ToSet
<1>10. ASSUME NEW i \in DOMAIN moved PROVE moved[i] \notin ToSet(Without(here, moved))
  <2>1. moved[i] \in ToSet(moved)
    BY DEF ToSet
  <2> QED
    BY <1>8, <2>1
<1>11. ScenesMoved(post, op)
  BY <1>1, <1>4, <1>7, <1>9, <1>10 DEF ScenesMoved
<1> QED
  BY <1>11 DEF IsOperationAlreadyApplied

\* A requirement that was added is found under its name.
LEMMA RequirementIsRecognised ==
    ASSUME NEW state, IsKept(state), NEW op, op.type = "ADD_SCENE_REQUIREMENT",
           Problems(state, op) = {}, NEW post, post = Effect(state, op)
    PROVE  IsOperationAlreadyApplied(post, op)
<1>1. PICK id : id = FreshId("REQ", state.requirements)
  OBVIOUS
<1>2. PICK rec : rec = [scene |-> op.scene, kind |-> op.kind, name |-> op.name]
  OBVIOUS
<1>3. PICK more : more = With(state.requirements, id, rec)
  OBVIOUS
<1>4. state = [scenes |-> state.scenes, cast |-> state.cast, locations |-> state.locations, days |-> state.days,
               sheets |-> state.sheets, requirements |-> state.requirements, tasks |-> state.tasks]
  BY SnapshotParts DEF IsKept
<1>5. post = [state EXCEPT !.requirements = more, !.scenes[op.scene].requirements = @ \cup {id}]
  BY <1>1, <1>2, <1>3, <1>4 DEF Effect, AddSceneRequirement
<1>6. post.requirements = more
  BY <1>4, <1>5
<1>7. id \in DOMAIN more /\ more[id] = rec
  BY <1>3 DEF With
<1>8. rec.scene = op.scene /\ rec.kind = op.kind /\ rec.name = op.name
  BY <1>2
<1>9. id \in EquivalentRequirements(post, op.scene, op.kind, op.name)
  BY <1>6, <1>7, <1>8 DEF EquivalentRequirements, RequirementsFor
<1> QED
  BY <1>9 DEF IsOperationAlreadyApplied

\* A task that was created is found under its title.
LEMMA TaskIsRecognised ==
    ASSUME NEW state, IsKept(state), NEW op, IsOperation(op), op.type = "CREATE_PREPARATION_TASK",
           NEW post, post = Effect(state, op)
    PROVE  IsOperationAlreadyApplied(post, op)
<1>1. PICK id : id = FreshId("T", state.tasks)
  OBVIOUS
<1>2. PICK task : task = [on |-> op.on, title |-> op.title, status |-> "OPEN"]
  OBVIOUS
<1>3. PICK more : more = With(state.tasks, id, task)
  OBVIOUS
<1>4. state = [scenes |-> state.scenes, cast |-> state.cast, locations |-> state.locations, days |-> state.days,
               sheets |-> state.sheets, requirements |-> state.requirements, tasks |-> state.tasks]
  BY SnapshotParts DEF IsKept
<1>5. post = [state EXCEPT !.tasks = more]
  BY <1>1, <1>2, <1>3, <1>4 DEF Effect, CreatePreparationTask
<1>6. post.tasks = more
  BY <1>4, <1>5
<1>7. id \in DOMAIN more /\ more[id] = task
  BY <1>3 DEF With
<1>8. task.on = op.on /\ task.title = op.title /\ task.status = "OPEN"
  BY <1>2
<1>9. op.on = <<op.on[1], op.on[2]>>
  BY DEF IsOperation
<1>10. id \in EquivalentTasks(post, op.on, op.title)
  BY <1>6, <1>7, <1>8, <1>9 DEF EquivalentTasks, TasksFor
<1> QED
  BY <1>10 DEF IsOperationAlreadyApplied

\* A range that was recorded is covered, and a sheet that was marked is a draft.
LEMMA OtherEffectsAreRecognised ==
    ASSUME NEW state, IsKept(state), NEW op, IsOperation(op), Problems(state, op) = {},
           op.type \notin {"MOVE_SCENES", "ADD_SCENE_REQUIREMENT", "CREATE_PREPARATION_TASK"},
           NEW post, post = Effect(state, op)
    PROVE  IsOperationAlreadyApplied(post, op)
<1>1. /\ state = [scenes |-> state.scenes, cast |-> state.cast, locations |-> state.locations, days |-> state.days,
                  sheets |-> state.sheets, requirements |-> state.requirements, tasks |-> state.tasks]
      /\ WindowsAreKept(state.cast) /\ WindowsAreKept(state.locations) /\ SheetsAreKept(state.sheets)
  BY SnapshotParts DEF IsKept
<1>2. CASE op.type = "RECORD_CAST_UNAVAILABILITY"
  <2>1. op.cast \in DOMAIN state.cast /\ op.unavailable \in DateRanges
    BY <1>2 DEF Problems, IsOperation
  <2>2. PICK merged : merged = NormalizeDateRanges(Append(state.cast[op.cast], op.unavailable))
    OBVIOUS
  <2>3. state.cast[op.cast] \in Seq(DateRanges)
    BY <1>1, <2>1 DEF WindowsAreKept
  <2>4. IsRangeCovered(merged, op.unavailable)
    BY <2>1, <2>2, <2>3, RecordingAddsDays
  <2>5. post = [state EXCEPT !.cast[op.cast] = merged]
    BY <1>2, <2>2 DEF Effect
  <2>6. op.cast \in DOMAIN post.cast /\ post.cast[op.cast] = merged
    BY <1>1, <2>1, <2>5
  <2> QED
    BY <1>2, <2>4, <2>6 DEF IsOperationAlreadyApplied
<1>3. CASE op.type = "RECORD_LOCATION_UNAVAILABILITY"
  <2>1. op.location \in DOMAIN state.locations /\ op.unavailable \in DateRanges
    BY <1>3 DEF Problems, IsOperation
  <2>2. PICK merged : merged = NormalizeDateRanges(Append(state.locations[op.location], op.unavailable))
    OBVIOUS
  <2>3. state.locations[op.location] \in Seq(DateRanges)
    BY <1>1, <2>1 DEF WindowsAreKept
  <2>4. IsRangeCovered(merged, op.unavailable)
    BY <2>1, <2>2, <2>3, RecordingAddsDays
  <2>5. post = [state EXCEPT !.locations[op.location] = merged]
    BY <1>3, <2>2 DEF Effect
  <2>6. op.location \in DOMAIN post.locations /\ post.locations[op.location] = merged
    BY <1>1, <2>1, <2>5
  <2> QED
    BY <1>3, <2>4, <2>6 DEF IsOperationAlreadyApplied
<1>4. CASE op.type = "MARK_CALL_SHEET_STALE"
  <2>1. op.sheet \in DOMAIN state.sheets
    BY <1>4 DEF Problems
  <2>2. state.sheets[op.sheet] = [day |-> state.sheets[op.sheet].day, status |-> state.sheets[op.sheet].status]
    BY <1>1, <2>1 DEF SheetsAreKept
  <2>3. PICK sheets : sheets = [state.sheets EXCEPT ![op.sheet].status = "DRAFT"]
    OBVIOUS
  <2>4. post = [state EXCEPT !.sheets = sheets]
    BY <1>1, <1>4, <2>3 DEF Effect
  <2>5. post.sheets = sheets
    BY <1>1, <2>4
  <2>6. op.sheet \in DOMAIN sheets /\ sheets[op.sheet].status = "DRAFT"
    BY <2>1, <2>2, <2>3
  <2> QED
    BY <1>4, <2>5, <2>6 DEF IsOperationAlreadyApplied
<1>5. op.type \in OperationTypes
  BY DEF IsOperation
<1> QED
  BY <1>2, <1>3, <1>4, <1>5 DEF OperationTypes

\* Whatever an operation does, it finds done when it comes again (INV-8).
LEMMA EffectIsRecognised ==
    ASSUME NEW state, IsKept(state), NEW op, IsOperation(op),
           ~IsOperationAlreadyApplied(state, op), Problems(state, op) = {},
           NEW post, post = Effect(state, op)
    PROVE  IsOperationAlreadyApplied(post, op)
<1>1. CASE op.type = "MOVE_SCENES"
  BY <1>1, MovedIsRecognised
<1>2. CASE op.type = "ADD_SCENE_REQUIREMENT"
  BY <1>2, RequirementIsRecognised
<1>3. CASE op.type = "CREATE_PREPARATION_TASK"
  BY <1>3, TaskIsRecognised
<1>4. CASE op.type \notin {"MOVE_SCENES", "ADD_SCENE_REQUIREMENT", "CREATE_PREPARATION_TASK"}
  BY <1>4, OtherEffectsAreRecognised
<1> QED
  BY <1>1, <1>2, <1>3, <1>4

\* The first of a list, as a list.
LEMMA FirstOfAList ==
    ASSUME NEW V, NEW list \in Seq(V), list # <<>>
    PROVE  SubSeq(list, 1, 1) = <<list[1]>>
<1>1. PICK n \in Int : n = 1
  OBVIOUS
<1>2. \A i \in n..n : list[i] \in V
  BY <1>1
<1>3. PICK part : part = SubSeq(list, n, n)
  OBVIOUS
<1>4. part \in Seq(V) /\ Len(part) = (IF n <= n THEN n - n + 1 ELSE 0)
  BY <1>2, <1>3, SubSeqProperties
<1>5. \A i \in 1..(n - n + 1) : SubSeq(list, n, n)[i] = list[n + i - 1]
  BY <1>2, SubSeqProperties
<1>6. part[1] = list[1]
  BY <1>1, <1>3, <1>5
<1>7. Len(part) = 1 
  BY <1>1, <1>4
<1>8. part = <<list[1]>>
  BY <1>4, <1>6, <1>7
<1> QED
  BY <1>1, <1>3, <1>8

\* A retried operation is skipped and changes nothing (INV-8, operations.ts).
THEOREM RetriesChangeNothing == Spec => []RetriesAreSkipped
<1>1. ASSUME PlanningInv PROVE RetriesAreSkipped
  <2>1. ASSUME NEW operations \in HandWritten,
               NEW first, first = SubSeq(operations, 1, 1),
               NEW once, once = ApplyOperations(production, first), once.conflicts = {},
               NEW again, again = ApplyOperations(once.state, first)
        PROVE  again.state = once.state /\ again.applied = <<>>
    <3>1. operations # <<>> /\ operations \in Seq(ToSet(operations))
          /\ \A i \in DOMAIN operations : IsOperation(operations[i])
      BY InputsAreParsed DEF IsOperationList
    <3>2. PICK op : op = operations[1]
      OBVIOUS
    <3>3. IsOperation(op)
      BY <3>1, <3>2
    <3>4. first = <<op>>
      <4>1. PICK V : V = ToSet(operations)
        OBVIOUS
      <4>2. operations \in Seq(V) /\ operations # <<>>
        BY <3>1, <4>1
      <4>3. SubSeq(operations, 1, 1) = <<operations[1]>>
        BY <4>2, FirstOfAList
      <4> QED
        BY <2>1, <3>2, <4>3
    <3>5. once = ApplyOperation(Begun(production), op)
      BY <2>1, <3>4, OneTurn
    <3>6. PICK state : state = once.state
      OBVIOUS
    <3>7. again = ApplyOperation(Begun(state), op)
      BY <2>1, <3>4, <3>6, OneTurn
    <3>8. IsKept(production)
      BY <1>1, SoundIsListed DEF PlanningInv, ProductionIsWell, IsKept
    <3>9. IsOperationAlreadyApplied(state, op)
      <4>1. CASE IsOperationAlreadyApplied(production, op)
        BY <3>5, <3>6, <4>1, TurnOfOne
      <4>2. CASE ~IsOperationAlreadyApplied(production, op)
        <5>1. Problems(production, op) = {}
          BY <2>1, <3>5, <4>2, TurnOfOne
        <5>2. state = Effect(production, op)
          BY <3>5, <3>6, <4>2, <5>1, TurnOfOne
        <5> QED
          BY <3>3, <3>8, <4>2, <5>1, <5>2, EffectIsRecognised
      <4> QED
        BY <4>1, <4>2
    <3> QED
      BY <3>6, <3>7, <3>9, TurnOfOne
  <2> QED
    BY <2>1 DEF RetriesAreSkipped
<1> QED
  BY <1>1, PlanningIsInvariant, PTL

-----------------------------------------------------------------------------
(* The analysis of an unavailability and the invariants that judge it.     *)

\* A scene that is placed is placed by the day it is said to be scheduled on.
LEMMA ScheduledSomewhere ==
    ASSUME NEW state, NEW s, Placements(state, s) # {}
    PROVE  \E d \in DOMAIN state.days : /\ ScheduledShootDay(state, s) = d
                                        /\ \E i \in DOMAIN state.days[d].scenes : state.days[d].scenes[i] = s
<1>1. PICK places : places = Placements(state, s)
  OBVIOUS
<1> DEFINE At(d) == {<<d, i>> : i \in {i \in DOMAIN state.days[d].scenes : state.days[d].scenes[i] = s}}
<1>2. places = UNION {At(d) : d \in DOMAIN state.days}
  BY <1>1 DEF Placements
<1>3. PICK p : p = CHOOSE q \in places : TRUE
  OBVIOUS
<1>4. p \in places
  BY <1>1, <1>3
<1>5. PICK d \in DOMAIN state.days : p \in At(d)
  BY <1>2, <1>4
<1>6. PICK i \in DOMAIN state.days[d].scenes : p = <<d, i>> /\ state.days[d].scenes[i] = s
  BY <1>5
<1>7. ScheduledShootDay(state, s) = p[1]
  BY <1>1, <1>3 DEF ScheduledShootDay
<1> QED
  BY <1>6, <1>7

\* Without conflicts, a scene is booked on a day exactly when that is the day it is scheduled on.
LEMMA BookedIsScheduled ==
    ASSUME NEW state, CheckStateInvariants(state) = {}, NEW d \in DOMAIN state.days, NEW s \in DOMAIN state.scenes
    PROVE  s \in ToSet(state.days[d].scenes) <=> s \in Scheduled(state) /\ ScheduledShootDay(state, s) = d
<1>1. ASSUME s \in ToSet(state.days[d].scenes)
      PROVE  s \in Scheduled(state) /\ ScheduledShootDay(state, s) = d
  <2>1. PICK i \in DOMAIN state.days[d].scenes : state.days[d].scenes[i] = s
    BY <1>1 DEF ToSet
  <2>2. <<d, i>> \in Placements(state, s)
    BY <2>1 DEF Placements
  <2>3. PICK e \in DOMAIN state.days : /\ ScheduledShootDay(state, s) = e
                                       /\ \E j \in DOMAIN state.days[e].scenes : state.days[e].scenes[j] = s
    BY <2>2, ScheduledSomewhere
  <2>4. PICK j \in DOMAIN state.days[e].scenes : state.days[e].scenes[j] = s
    BY <2>3
  <2>5. e = d
    BY <2>1, <2>4, ScheduledOnce
  <2> QED
    BY <2>2, <2>3, <2>5 DEF Scheduled
<1>2. ASSUME s \in Scheduled(state), ScheduledShootDay(state, s) = d
      PROVE  s \in ToSet(state.days[d].scenes)
  <2>1. Placements(state, s) # {}
    BY <1>2 DEF Scheduled
  <2>2. \E i \in DOMAIN state.days[d].scenes : state.days[d].scenes[i] = s
    BY <1>2, <2>1, ScheduledSomewhere
  <2> QED
    BY <2>2 DEF ToSet
<1> QED
  BY <1>1, <1>2

\* A scheduled scene is on a day that there is.
LEMMA ScheduledDayExists ==
    ASSUME NEW state, NEW s \in Scheduled(state)
    PROVE  ScheduledShootDay(state, s) \in DOMAIN state.days
  BY ScheduledSomewhere DEF Scheduled

\* A day is blocked by the windows that hold it.
LEMMA BlockedMeansItsDay ==
    ASSUME NEW windows \in Seq(DateRanges), NEW day \in Int
    PROVE  IsBlockedOn(windows, day) <=> day \in DaysOf(windows)
<1>1. \A i \in DOMAIN windows : windows[i].start \in Int /\ windows[i].end \in Int
  BY DEF DateRanges
<1> QED
  BY <1>1 DEF IsBlockedOn, IsDateWithin, DaysOf

\* What recording a range on an entity makes of its windows and of nobody else's.
RangeIsRecorded(old, new, id, range) ==
    /\ DOMAIN new = DOMAIN old /\ WindowsAreKept(new)
    /\ \A other \in DOMAIN old : other # id => new[other] = old[other]
    /\ DaysOf(new[id]) = DaysOf(old[id]) \cup (range.start..range.end)

\* A range that is covered already.
LEMMA AlreadyRecorded ==
    ASSUME NEW old, WindowsAreKept(old), NEW id \in DOMAIN old, NEW range \in DateRanges,
           IsRangeCovered(old[id], range)
    PROVE  RangeIsRecorded(old, old, id, range)
<1>1. PICK windows : windows = old[id]
  OBVIOUS
<1>2. windows \in Seq(DateRanges)
  BY <1>1 DEF WindowsAreKept
<1>3. range.start..range.end \subseteq DaysOf(windows)
  BY <1>1, <1>2, CoveredMeansItsDays
<1> QED
  BY <1>1, <1>3 DEF RangeIsRecorded

\* A range that is added.
LEMMA NewlyRecorded ==
    ASSUME NEW old, WindowsAreKept(old), NEW id \in DOMAIN old, NEW range \in DateRanges,
           NEW new, new = [old EXCEPT ![id] = NormalizeDateRanges(Append(@, range))]
    PROVE  RangeIsRecorded(old, new, id, range)
<1>1. PICK windows, merged : windows = old[id] /\ merged = NormalizeDateRanges(Append(old[id], range))
  OBVIOUS
<1>2. windows \in Seq(DateRanges)
  BY <1>1 DEF WindowsAreKept
<1>3. DaysOf(merged) = DaysOf(windows) \cup (range.start..range.end)
  BY <1>1, <1>2, RecordingAddsDays
<1>4. WindowsAreKept(new)
  BY RecordingKeepsWindows
<1>5. new = [old EXCEPT ![id] = merged]
  BY <1>1
<1>6. DOMAIN new = DOMAIN old /\ new[id] = merged /\ \A other \in DOMAIN old : other # id => new[other] = old[other]
  BY <1>5
<1> QED
  BY <1>1, <1>3, <1>4, <1>6 DEF RangeIsRecorded

\* The state after a fact about a member of the cast was recorded, now or before.
LEMMA CastFactRecorded ==
    ASSUME NEW state, IsSnapshot(state), NEW op, op.type = "RECORD_CAST_UNAVAILABILITY",
           op.cast \in DOMAIN state.cast, op.unavailable \in DateRanges,
           NEW list, list = <<op>>, NEW post, post = ApplyOperations(state, list).state
    PROVE  /\ RangeIsRecorded(state.cast, post.cast, op.cast, op.unavailable)
           /\ post.scenes = state.scenes /\ post.days = state.days /\ post.locations = state.locations
           /\ post.sheets = state.sheets /\ post.requirements = state.requirements /\ post.tasks = state.tasks
<1>1. state = [scenes |-> state.scenes, cast |-> state.cast, locations |-> state.locations, days |-> state.days,
               sheets |-> state.sheets, requirements |-> state.requirements, tasks |-> state.tasks]
      /\ WindowsAreKept(state.cast)
  BY SnapshotParts
<1>2. PICK turn : turn = ApplyOperation(Begun(state), op)
  OBVIOUS
<1>3. post = turn.state
  BY <1>2, OneTurn
<1>4. Problems(state, op) = {}
  BY DEF Problems
<1>5. CASE IsOperationAlreadyApplied(state, op)
  <2>1. post = state
    BY <1>2, <1>3, <1>5, TurnOfOne
  <2>2. IsRangeCovered(state.cast[op.cast], op.unavailable)
    BY <1>5 DEF IsOperationAlreadyApplied
  <2>3. RangeIsRecorded(state.cast, state.cast, op.cast, op.unavailable)
    BY <1>1, <2>2, AlreadyRecorded
  <2> QED
    BY <2>1, <2>3
<1>6. CASE ~IsOperationAlreadyApplied(state, op)
  <2>1. post = Effect(state, op)
    BY <1>2, <1>3, <1>4, <1>6, TurnOfOne
  <2>2. PICK cast : cast = [state.cast EXCEPT ![op.cast] = NormalizeDateRanges(Append(@, op.unavailable))]
    OBVIOUS
  <2>3. post = [state EXCEPT !.cast = cast]
    BY <1>1, <2>1, <2>2 DEF Effect
  <2>4. RangeIsRecorded(state.cast, cast, op.cast, op.unavailable)
    BY <1>1, <2>2, NewlyRecorded
  <2>5. post.cast = cast
        /\ post.scenes = state.scenes /\ post.days = state.days /\ post.locations = state.locations
        /\ post.sheets = state.sheets /\ post.requirements = state.requirements /\ post.tasks = state.tasks
    BY <1>1, <2>3
  <2> QED
    BY <2>4, <2>5
<1> QED
  BY <1>5, <1>6

\* The state after a fact about a location was recorded, now or before.
LEMMA LocationFactRecorded ==
    ASSUME NEW state, IsSnapshot(state), NEW op, op.type = "RECORD_LOCATION_UNAVAILABILITY",
           op.location \in DOMAIN state.locations, op.unavailable \in DateRanges,
           NEW list, list = <<op>>, NEW post, post = ApplyOperations(state, list).state
    PROVE  /\ RangeIsRecorded(state.locations, post.locations, op.location, op.unavailable)
           /\ post.scenes = state.scenes /\ post.days = state.days /\ post.cast = state.cast
           /\ post.sheets = state.sheets /\ post.requirements = state.requirements /\ post.tasks = state.tasks
<1>1. state = [scenes |-> state.scenes, cast |-> state.cast, locations |-> state.locations, days |-> state.days,
               sheets |-> state.sheets, requirements |-> state.requirements, tasks |-> state.tasks]
      /\ WindowsAreKept(state.locations)
  BY SnapshotParts
<1>2. PICK turn : turn = ApplyOperation(Begun(state), op)
  OBVIOUS
<1>3. post = turn.state
  BY <1>2, OneTurn
<1>4. Problems(state, op) = {}
  BY DEF Problems
<1>5. CASE IsOperationAlreadyApplied(state, op)
  <2>1. post = state
    BY <1>2, <1>3, <1>5, TurnOfOne
  <2>2. IsRangeCovered(state.locations[op.location], op.unavailable)
    BY <1>5 DEF IsOperationAlreadyApplied
  <2>3. RangeIsRecorded(state.locations, state.locations, op.location, op.unavailable)
    BY <1>1, <2>2, AlreadyRecorded
  <2> QED
    BY <2>1, <2>3
<1>6. CASE ~IsOperationAlreadyApplied(state, op)
  <2>1. post = Effect(state, op)
    BY <1>2, <1>3, <1>4, <1>6, TurnOfOne
  <2>2. PICK locations :
          locations = [state.locations EXCEPT ![op.location] = NormalizeDateRanges(Append(@, op.unavailable))]
    OBVIOUS
  <2>3. post = [state EXCEPT !.locations = locations]
    BY <1>1, <2>1, <2>2 DEF Effect
  <2>4. RangeIsRecorded(state.locations, locations, op.location, op.unavailable)
    BY <1>1, <2>2, NewlyRecorded
  <2>5. post.locations = locations
        /\ post.scenes = state.scenes /\ post.days = state.days /\ post.cast = state.cast
        /\ post.sheets = state.sheets /\ post.requirements = state.requirements /\ post.tasks = state.tasks
    BY <1>1, <2>3
  <2> QED
    BY <2>4, <2>5
<1> QED
  BY <1>5, <1>6

\* What the invariants of references and places look at.
SameFrame(state, post) ==
    /\ post.scenes = state.scenes /\ post.days = state.days /\ post.sheets = state.sheets
    /\ post.requirements = state.requirements /\ post.tasks = state.tasks
    /\ DOMAIN post.cast = DOMAIN state.cast /\ DOMAIN post.locations = DOMAIN state.locations

\* They find the same in two states that agree on it.
LEMMA SameIntegrity ==
    ASSUME NEW state, NEW post, SameFrame(state, post)
    PROVE  CheckSceneIntegrity(post) = CheckSceneIntegrity(state) /\ Bookings(post) = Bookings(state)
<1>1. DanglingScenes(post) = DanglingScenes(state)
  BY DEF SameFrame, DanglingScenes
<1>2. DanglingDays(post) = DanglingDays(state)
  BY DEF SameFrame, DanglingDays, DateOf
<1>3. TwiceScheduled(post) = TwiceScheduled(state)
  BY DEF SameFrame, TwiceScheduled, Placements
<1>4. DanglingRecords(post) = DanglingRecords(state)
  <2>1. \A type, id : EntityExists(post, type, id) = EntityExists(state, type, id)
    BY DEF SameFrame, EntityExists
  <2> QED
    BY <2>1 DEF SameFrame, DanglingRecords
<1>5. Bookings(post) = Bookings(state)
  BY DEF SameFrame, Bookings
<1> QED
  BY <1>1, <1>2, <1>3, <1>4, <1>5 DEF CheckSceneIntegrity

\* Whether a day that was free is free once a range is recorded.
LEMMA NewlyBlocked ==
    ASSUME NEW old, WindowsAreKept(old), NEW new, NEW id \in DOMAIN old, NEW range,
           RangeIsRecorded(old, new, id, range), NEW other \in DOMAIN old,
           NEW day \in Int, ~IsBlockedOn(old[other], day)
    PROVE  IsBlockedOn(new[other], day) <=> other = id /\ day \in range.start..range.end
<1>1. PICK before, after : before = old[other] /\ after = new[other]
  OBVIOUS
<1>2. before \in Seq(DateRanges) /\ after \in Seq(DateRanges)
  BY <1>1 DEF RangeIsRecorded, WindowsAreKept
<1>3. (IsBlockedOn(after, day) <=> day \in DaysOf(after)) /\ day \notin DaysOf(before)
  BY <1>1, <1>2, BlockedMeansItsDay
<1>4. CASE other = id
  BY <1>1, <1>3, <1>4 DEF RangeIsRecorded
<1>5. CASE other # id
  BY <1>1, <1>3, <1>5 DEF RangeIsRecorded
<1> QED
  BY <1>4, <1>5

\* The days of bookings are days.
LEMMA BookedDays ==
    ASSUME NEW state, IsSnapshot(state), CheckStateInvariants(state) = {}, NEW d, NEW s
    PROVE  <<d, s>> \in Bookings(state) <=>
             s \in DOMAIN state.scenes /\ s \in Scheduled(state) /\ d = ScheduledShootDay(state, s)
<1>1. ASSUME <<d, s>> \in Bookings(state)
      PROVE  s \in DOMAIN state.scenes /\ s \in Scheduled(state) /\ d = ScheduledShootDay(state, s)
  <2>1. d \in DOMAIN state.days /\ s \in DOMAIN state.scenes /\ s \in ToSet(state.days[d].scenes)
    BY <1>1 DEF Bookings
  <2> QED
    BY <2>1, BookedIsScheduled
<1>2. ASSUME s \in DOMAIN state.scenes, s \in Scheduled(state), d = ScheduledShootDay(state, s)
      PROVE  <<d, s>> \in Bookings(state)
  <2>1. d \in DOMAIN state.days
    BY <1>2, ScheduledDayExists
  <2>2. s \in ToSet(state.days[d].scenes)
    BY <1>2, <2>1, BookedIsScheduled
  <2> QED
    BY <1>2, <2>1, <2>2 DEF Bookings
<1> QED
  BY <1>1, <1>2

\* The scenes an analysis of an absence blocks are those the cast invariant finds once it is recorded.
LEMMA CastAnalysisIsExact ==
    ASSUME NEW state, IsSnapshot(state), CheckStateInvariants(state) = {}, NEW id \in DOMAIN state.cast,
           NEW range \in DateRanges, NEW post, SameFrame(state, post), post.locations = state.locations,
           RangeIsRecorded(state.cast, post.cast, id, range)
    PROVE  CheckStateInvariants(post) =
             {Conflict("CAST_UNAVAILABLE_ON_SHOOT_DAY", "SCENE", s, DateOf(state, ScheduledShootDay(state, s))) :
                s \in ScheduledWithin(state, ScenesRequiringCast(state, id), range)}
<1> DEFINE code == "CAST_UNAVAILABLE_ON_SHOOT_DAY"
           affected == ScheduledWithin(state, ScenesRequiringCast(state, id), range)
           Found(s) == Conflict(code, "SCENE", s, DateOf(state, ScheduledShootDay(state, s)))
           Blocked(s, d) == \E c \in state.scenes[s].cast \cap DOMAIN state.cast :
                              IsBlockedOn(post.cast[c], DateOf(state, d))
<1>1. CheckSceneIntegrity(post) = {} /\ CheckLocationAvailability(post) = {}
  <2>1. CheckSceneIntegrity(state) = {} /\ CheckLocationAvailability(state) = {}
    BY DEF CheckStateInvariants
  <2>2. CheckLocationAvailability(post) = CheckLocationAvailability(state)
    BY SameIntegrity DEF CheckLocationAvailability, SameFrame, DateOf
  <2> QED
    BY <2>1, <2>2, SameIntegrity
<1>2. CheckStateInvariants(post) = CheckCastAvailability(post)
  BY <1>1 DEF CheckStateInvariants
<1>3. CheckCastAvailability(post) =
        {Conflict(code, "SCENE", b[2], DateOf(state, b[1])) : b \in {b \in Bookings(state) : Blocked(b[2], b[1])}}
  BY SameIntegrity DEF CheckCastAvailability, SameFrame, DateOf
<1>4. ASSUME NEW d, NEW s, <<d, s>> \in Bookings(state)
      PROVE  Blocked(s, d) <=> id \in state.scenes[s].cast /\ DateOf(state, d) \in range.start..range.end
  <2>1. d \in DOMAIN state.days /\ s \in DOMAIN state.scenes
    BY <1>4 DEF Bookings
  <2>2. DateOf(state, d) \in Int
    BY <2>1 DEF IsSnapshot, DateOf
  <2>3. WindowsAreKept(state.cast)
    BY SnapshotParts
  <2>4. ASSUME NEW c \in state.scenes[s].cast \cap DOMAIN state.cast
        PROVE  ~IsBlockedOn(state.cast[c], DateOf(state, d))
    <3>1. CheckCastAvailability(state) = {}
      BY DEF CheckStateInvariants
    <3>2. PICK b : b = <<d, s>>
      OBVIOUS
    <3>3. b \in Bookings(state) /\ b[1] = d /\ b[2] = s
      BY <1>4, <3>2
    <3> QED
      BY <2>4, <3>1, <3>3 DEF CheckCastAvailability
  <2>5. \A c \in state.scenes[s].cast \cap DOMAIN state.cast :
           IsBlockedOn(post.cast[c], DateOf(state, d)) <=> c = id /\ DateOf(state, d) \in range.start..range.end
    BY <2>2, <2>3, <2>4, NewlyBlocked
  <2> QED
    BY <2>5
<1>5. \A s : s \in affected <=> /\ s \in DOMAIN state.scenes /\ s \in Scheduled(state)
                                /\ id \in state.scenes[s].cast
                                /\ DateOf(state, ScheduledShootDay(state, s)) \in range.start..range.end
  <2>1. ASSUME NEW s, s \in Scheduled(state) PROVE DateOf(state, ScheduledShootDay(state, s)) \in Int
    BY <2>1, ScheduledDayExists DEF IsSnapshot, DateOf
  <2>2. range.start \in Int /\ range.end \in Int
    BY DEF DateRanges
  <2> QED
    BY <2>1, <2>2 DEF ScheduledWithin, ScenesRequiringCast, IsDateWithin
<1> HIDE DEF affected, Blocked
<1>6. ASSUME NEW x, x \in CheckCastAvailability(post) PROVE x \in {Found(s) : s \in affected}
  <2>1. PICK b \in Bookings(state) : Blocked(b[2], b[1]) /\ x = Conflict(code, "SCENE", b[2], DateOf(state, b[1]))
    BY <1>3, <1>6
  <2>2. PICK d, s : d = b[1] /\ s = b[2] /\ b = <<d, s>>
    BY DEF Bookings
  <2>3. s \in DOMAIN state.scenes /\ s \in Scheduled(state) /\ d = ScheduledShootDay(state, s)
    BY <2>2, BookedDays
  <2>4. s \in affected
    BY <1>4, <1>5, <2>1, <2>2, <2>3
  <2>5. x = Found(s)
    BY <2>1, <2>2, <2>3
  <2> QED
    BY <2>4, <2>5
<1>7. ASSUME NEW s \in affected PROVE Found(s) \in CheckCastAvailability(post)
  <2>1. PICK d : d = ScheduledShootDay(state, s)
    OBVIOUS
  <2>2. <<d, s>> \in Bookings(state)
    BY <1>5, <2>1, BookedDays
  <2>3. Blocked(s, d)
    BY <1>4, <1>5, <2>1, <2>2
  <2>4. PICK b : b = <<d, s>>
    OBVIOUS
  <2>5. b \in Bookings(state) /\ Blocked(b[2], b[1]) /\ Found(s) = Conflict(code, "SCENE", b[2], DateOf(state, b[1]))
    BY <2>1, <2>2, <2>3, <2>4
  <2> QED
    BY <1>3, <2>5
<1>8. CheckCastAvailability(post) = {Found(s) : s \in affected}
  <2>1. CheckCastAvailability(post) \subseteq {Found(s) : s \in affected}
    BY <1>6
  <2>2. {Found(s) : s \in affected} \subseteq CheckCastAvailability(post)
    BY <1>7
  <2> QED
    BY <2>1, <2>2
<1> QED
  BY <1>2, <1>8 DEF affected

\* The same of a location.
LEMMA LocationAnalysisIsExact ==
    ASSUME NEW state, IsSnapshot(state), CheckStateInvariants(state) = {}, NEW id \in DOMAIN state.locations,
           NEW range \in DateRanges, NEW post, SameFrame(state, post), post.cast = state.cast,
           RangeIsRecorded(state.locations, post.locations, id, range)
    PROVE  CheckStateInvariants(post) =
             {Conflict("LOCATION_UNAVAILABLE_ON_SHOOT_DAY", "SCENE", s, DateOf(state, ScheduledShootDay(state, s))) :
                s \in ScheduledWithin(state, ScenesAtLocation(state, id), range)}
<1> DEFINE code == "LOCATION_UNAVAILABLE_ON_SHOOT_DAY"
           affected == ScheduledWithin(state, ScenesAtLocation(state, id), range)
           Found(s) == Conflict(code, "SCENE", s, DateOf(state, ScheduledShootDay(state, s)))
           Blocked(s, d) == /\ state.scenes[s].location \in DOMAIN state.locations
                            /\ IsBlockedOn(post.locations[state.scenes[s].location], DateOf(state, d))
<1>1. CheckSceneIntegrity(post) = {} /\ CheckCastAvailability(post) = {}
  <2>1. CheckSceneIntegrity(state) = {} /\ CheckCastAvailability(state) = {}
    BY DEF CheckStateInvariants
  <2>2. CheckCastAvailability(post) = CheckCastAvailability(state)
    BY SameIntegrity DEF CheckCastAvailability, SameFrame, DateOf
  <2> QED
    BY <2>1, <2>2, SameIntegrity
<1>2. CheckStateInvariants(post) = CheckLocationAvailability(post)
  BY <1>1 DEF CheckStateInvariants
<1>3. CheckLocationAvailability(post) =
        {Conflict(code, "SCENE", b[2], DateOf(state, b[1])) : b \in {b \in Bookings(state) : Blocked(b[2], b[1])}}
  BY SameIntegrity DEF CheckLocationAvailability, SameFrame, DateOf
<1>4. ASSUME NEW d, NEW s, <<d, s>> \in Bookings(state)
      PROVE  Blocked(s, d) <=> id = state.scenes[s].location /\ DateOf(state, d) \in range.start..range.end
  <2>1. d \in DOMAIN state.days /\ s \in DOMAIN state.scenes
    BY <1>4 DEF Bookings
  <2>2. DateOf(state, d) \in Int
    BY <2>1 DEF IsSnapshot, DateOf
  <2>3. WindowsAreKept(state.locations)
    BY SnapshotParts
  <2>4. PICK l : l = state.scenes[s].location
    OBVIOUS
  <2>5. ASSUME l \in DOMAIN state.locations
        PROVE  ~IsBlockedOn(state.locations[l], DateOf(state, d))
    <3>1. CheckLocationAvailability(state) = {}
      BY DEF CheckStateInvariants
    <3>2. PICK b : b = <<d, s>>
      OBVIOUS
    <3>3. b \in Bookings(state) /\ b[1] = d /\ b[2] = s
      BY <1>4, <3>2
    <3> QED
      BY <2>4, <2>5, <3>1, <3>3 DEF CheckLocationAvailability
  <2>6. l \in DOMAIN state.locations =>
          (IsBlockedOn(post.locations[l], DateOf(state, d)) <=> l = id /\ DateOf(state, d) \in range.start..range.end)
    BY <2>2, <2>3, <2>5, NewlyBlocked
  <2> QED
    BY <2>4, <2>6
<1>5. \A s : s \in affected <=> /\ s \in DOMAIN state.scenes /\ s \in Scheduled(state)
                                /\ id = state.scenes[s].location
                                /\ DateOf(state, ScheduledShootDay(state, s)) \in range.start..range.end
  <2>1. ASSUME NEW s, s \in Scheduled(state) PROVE DateOf(state, ScheduledShootDay(state, s)) \in Int
    BY <2>1, ScheduledDayExists DEF IsSnapshot, DateOf
  <2>2. range.start \in Int /\ range.end \in Int
    BY DEF DateRanges
  <2> QED
    BY <2>1, <2>2 DEF ScheduledWithin, ScenesAtLocation, IsDateWithin
<1> HIDE DEF affected, Blocked
<1>6. ASSUME NEW x, x \in CheckLocationAvailability(post) PROVE x \in {Found(s) : s \in affected}
  <2>1. PICK b \in Bookings(state) : Blocked(b[2], b[1]) /\ x = Conflict(code, "SCENE", b[2], DateOf(state, b[1]))
    BY <1>3, <1>6
  <2>2. PICK d, s : d = b[1] /\ s = b[2] /\ b = <<d, s>>
    BY DEF Bookings
  <2>3. s \in DOMAIN state.scenes /\ s \in Scheduled(state) /\ d = ScheduledShootDay(state, s)
    BY <2>2, BookedDays
  <2>4. s \in affected
    BY <1>4, <1>5, <2>1, <2>2, <2>3
  <2>5. x = Found(s)
    BY <2>1, <2>2, <2>3
  <2> QED
    BY <2>4, <2>5
<1>7. ASSUME NEW s \in affected PROVE Found(s) \in CheckLocationAvailability(post)
  <2>1. PICK d : d = ScheduledShootDay(state, s)
    OBVIOUS
  <2>2. <<d, s>> \in Bookings(state)
    BY <1>5, <2>1, BookedDays
  <2>3. Blocked(s, d)
    BY <1>4, <1>5, <2>1, <2>2
  <2>4. PICK b : b = <<d, s>>
    OBVIOUS
  <2>5. b \in Bookings(state) /\ Blocked(b[2], b[1]) /\ Found(s) = Conflict(code, "SCENE", b[2], DateOf(state, b[1]))
    BY <2>1, <2>2, <2>3, <2>4
  <2> QED
    BY <1>3, <2>5
<1>8. CheckLocationAvailability(post) = {Found(s) : s \in affected}
  <2>1. CheckLocationAvailability(post) \subseteq {Found(s) : s \in affected}
    BY <1>6
  <2>2. {Found(s) : s \in affected} \subseteq CheckLocationAvailability(post)
    BY <1>7
  <2> QED
    BY <2>1, <2>2
<1> QED
  BY <1>2, <1>8 DEF affected

\* An unavailability of whatever kind, analysed and recorded.
LEMMA FactAnalysisIsExact ==
    ASSUME NEW state, IsSnapshot(state), CheckStateInvariants(state) = {}, NEW change, IsChange(change),
           IsUnavailability(change), ReferencesExist(state, change)
    PROVE  AnalyzeImpact(state, change).conflicts =
             CheckStateInvariants(ApplyOperations(state, <<FactOperation(change)>>).state)
<1>1. PICK range \in DateRanges : range = change.unavailable
  BY DEF IsChange
<1>2. PICK op : op = FactOperation(change)
  OBVIOUS
<1>3. PICK list : list = <<op>>
  OBVIOUS
<1>4. PICK post : post = ApplyOperations(state, list).state
  OBVIOUS
<1>5. CASE change.type = "CAST_UNAVAILABLE"
  <2>1. PICK id : id = change.cast
    OBVIOUS
  <2>2. id \in DOMAIN state.cast
    BY <1>5, <2>1 DEF ReferencesExist
  <2>3. op.type = "RECORD_CAST_UNAVAILABILITY" /\ op.cast = id /\ op.unavailable = range
    BY <1>1, <1>2, <1>5, <2>1 DEF FactOperation
  <2>4. /\ RangeIsRecorded(state.cast, post.cast, id, range)
        /\ post.scenes = state.scenes /\ post.days = state.days /\ post.locations = state.locations
        /\ post.sheets = state.sheets /\ post.requirements = state.requirements /\ post.tasks = state.tasks
    BY <1>3, <1>4, <2>2, <2>3, CastFactRecorded
  <2>5. SameFrame(state, post)
    BY <2>4 DEF SameFrame, RangeIsRecorded
  <2>6. CheckStateInvariants(post) =
          {Conflict("CAST_UNAVAILABLE_ON_SHOOT_DAY", "SCENE", s, DateOf(state, ScheduledShootDay(state, s))) :
             s \in ScheduledWithin(state, ScenesRequiringCast(state, id), range)}
    BY <2>2, <2>4, <2>5, CastAnalysisIsExact
  <2>7. AnalyzeImpact(state, change) =
          BlockedScenes(state, ScheduledWithin(state, ScenesRequiringCast(state, id), range), id,
                        "SCENE_REQUIRES_UNAVAILABLE_CAST", "CAST_UNAVAILABLE_ON_SHOOT_DAY")
    BY <1>1, <1>5, <2>1, <2>2 DEF AnalyzeImpact, AnalyzeCastUnavailable
  <2>8. AnalyzeImpact(state, change).conflicts = CheckStateInvariants(post)
    BY <2>6, <2>7 DEF BlockedScenes
  <2> QED
    BY <1>2, <1>3, <1>4, <2>8
<1>6. CASE change.type = "LOCATION_UNAVAILABLE"
  <2>1. PICK id : id = change.location
    OBVIOUS
  <2>2. id \in DOMAIN state.locations
    BY <1>6, <2>1 DEF ReferencesExist
  <2>3. op.type = "RECORD_LOCATION_UNAVAILABILITY" /\ op.location = id /\ op.unavailable = range
    BY <1>1, <1>2, <1>6, <2>1 DEF FactOperation
  <2>4. /\ RangeIsRecorded(state.locations, post.locations, id, range)
        /\ post.scenes = state.scenes /\ post.days = state.days /\ post.cast = state.cast
        /\ post.sheets = state.sheets /\ post.requirements = state.requirements /\ post.tasks = state.tasks
    BY <1>3, <1>4, <2>2, <2>3, LocationFactRecorded
  <2>5. SameFrame(state, post)
    BY <2>4 DEF SameFrame, RangeIsRecorded
  <2>6. CheckStateInvariants(post) =
          {Conflict("LOCATION_UNAVAILABLE_ON_SHOOT_DAY", "SCENE", s, DateOf(state, ScheduledShootDay(state, s))) :
             s \in ScheduledWithin(state, ScenesAtLocation(state, id), range)}
    BY <2>2, <2>4, <2>5, LocationAnalysisIsExact
  <2>7. AnalyzeImpact(state, change) =
          BlockedScenes(state, ScheduledWithin(state, ScenesAtLocation(state, id), range), id,
                        "SCENE_AT_UNAVAILABLE_LOCATION", "LOCATION_UNAVAILABLE_ON_SHOOT_DAY")
    BY <1>1, <1>6, <2>1, <2>2 DEF AnalyzeImpact, AnalyzeLocationUnavailable
  <2>8. AnalyzeImpact(state, change).conflicts = CheckStateInvariants(post)
    BY <2>6, <2>7 DEF BlockedScenes
  <2> QED
    BY <1>2, <1>3, <1>4, <2>8
<1> QED
  BY <1>5, <1>6 DEF IsUnavailability

\* The analysis of an unavailability names as blocked what recording it would put in conflict, on every
\* production the plans can reach (analyze.ts, invariants/state.ts).
THEOREM AnalysesAreExact == Spec => []AnalysisIsExact
<1>1. ASSUME PlanningInv PROVE AnalysisIsExact
  <2>1. ASSUME NEW change \in Changes, IsUnavailability(change), ReferencesExist(production, change)
        PROVE  AnalyzeImpact(production, change).conflicts =
                 CheckStateInvariants(ApplyOperations(production, <<FactOperation(change)>>).state)
    <3>1. IsChange(change)
      BY InputsAreParsed
    <3>2. IsSnapshot(production) /\ CheckStateInvariants(production) = {}
      BY <1>1 DEF PlanningInv, ProductionIsWell
    <3> QED
      BY <2>1, <3>1, <3>2, FactAnalysisIsExact
  <2> QED
    BY <2>1 DEF AnalysisIsExact
<1> QED
  BY <1>1, PlanningIsInvariant, PTL

-----------------------------------------------------------------------------
(* Without conflicts, every operation shows in the state it ends in.       *)

\* A turn that met no problem: the operation was done already, or has its effect.
HasTurned(before, op, after) ==
    \/ /\ IsOperationAlreadyApplied(before.state, op)
       /\ after.state = before.state /\ after.applied = before.applied
    \/ /\ ~IsOperationAlreadyApplied(before.state, op) /\ Problems(before.state, op) = {}
       /\ after.state = Effect(before.state, op) /\ after.applied = Append(before.applied, op)

\* A turn takes no conflict back, and meets no problem when it adds none.
LEMMA TurnWithoutConflict ==
    ASSUME NEW before, IsApplication(before), NEW op, NEW after, after = ApplyOperation(before, op)
    PROVE  /\ before.conflicts \subseteq after.conflicts
           /\ after.conflicts = {} => HasTurned(before, op, after)
<1>1. before = [state |-> before.state, applied |-> before.applied,
                skipped |-> before.skipped, conflicts |-> before.conflicts]
  BY DEF IsApplication
<1>2. CASE IsOperationAlreadyApplied(before.state, op)
  <2>1. after = [before EXCEPT !.skipped = Append(@, op)]
    BY <1>2 DEF ApplyOperation
  <2>2. after.state = before.state /\ after.applied = before.applied /\ after.conflicts = before.conflicts
    BY <1>1, <2>1
  <2> QED
    BY <1>2, <2>2 DEF HasTurned
<1>3. CASE ~IsOperationAlreadyApplied(before.state, op) /\ Problems(before.state, op) # {}
  <2>1. after = [before EXCEPT !.conflicts = @ \cup Problems(before.state, op)]
    BY <1>3 DEF ApplyOperation
  <2>2. after.conflicts = before.conflicts \cup Problems(before.state, op)
    BY <1>1, <2>1
  <2> QED
    BY <1>3, <2>2
<1>4. CASE ~IsOperationAlreadyApplied(before.state, op) /\ Problems(before.state, op) = {}
  <2>1. PICK post : post = Effect(before.state, op)
    OBVIOUS
  <2>2. after = [before EXCEPT !.state = post, !.applied = Append(@, op)]
    BY <1>4, <2>1 DEF ApplyOperation
  <2>3. after.state = post /\ after.applied = Append(before.applied, op) /\ after.conflicts = before.conflicts
    BY <1>1, <2>2
  <2> QED
    BY <1>4, <2>1, <2>3 DEF HasTurned
<1> QED
  BY <1>2, <1>3, <1>4

\* What the loop holds after each operation is well formed.
LEMMA EveryTurnKept ==
    ASSUME NEW state, IsKept(state), NEW operations, IsOperationList(operations),
           NEW after, after = Applying(state, operations)
    PROVE  /\ after[0] = Begun(state)
           /\ \A n \in 1..Len(operations) : after[n] = ApplyOperation(after[n - 1], operations[n])
           /\ \A n \in 0..Len(operations) : IsApplication(after[n])
           /\ after[Len(operations)] = ApplyOperations(state, operations)
<1>1. Len(operations) \in Nat /\ \A n \in 1..Len(operations) : IsOperation(operations[n])
  BY OperationListFacts
<1>2. after[0] = Begun(state) /\ \A n \in 1..Len(operations) : after[n] = ApplyOperation(after[n - 1], operations[n])
  BY <1>1, ApplyingUnfolds
<1> DEFINE T == {n \in 0..Len(operations) : IsApplication(after[n])}
<1>3. 0 \in T
  BY <1>1, <1>2 DEF Begun, IsApplication
<1>4. ASSUME NEW n \in 1..Len(operations), n - 1 \in T PROVE n \in T
  BY <1>1, <1>2, <1>4, TurnKept
<1> HIDE DEF T
<1>5. \A n \in 0..Len(operations) : n \in T
  BY <1>1, <1>3, <1>4, BoundedInduction
<1> QED
  BY <1>2, <1>5 DEF T, ApplyOperations

\* When no conflict is reported in the end, none was on the way.
LEMMA NoConflictOnTheWay ==
    ASSUME NEW state, IsKept(state), NEW operations, IsOperationList(operations),
           NEW after, after = Applying(state, operations), ApplyOperations(state, operations).conflicts = {}
    PROVE  \A n \in 1..Len(operations) : HasTurned(after[n - 1], operations[n], after[n])
<1>1. PICK k \in Nat : k = Len(operations)
  BY OperationListFacts
<1>2. /\ \A n \in 1..k : after[n] = ApplyOperation(after[n - 1], operations[n])
      /\ \A n \in 0..k : IsApplication(after[n])
      /\ after[k].conflicts = {}
  BY <1>1, EveryTurnKept
<1> DEFINE T == {m \in 0..k : after[k - m].conflicts = {}}
<1>3. 0 \in T
  BY <1>2
<1>4. ASSUME NEW m \in 1..k, m - 1 \in T PROVE m \in T
  <2>1. k - (m - 1) \in 1..k /\ (k - (m - 1)) - 1 = k - m /\ k - m \in 0..k
    OBVIOUS
  <2>2. after[k - m].conflicts \subseteq after[k - (m - 1)].conflicts
    BY <1>2, <2>1, TurnWithoutConflict
  <2> QED
    BY <1>4, <2>2
<1> HIDE DEF T
<1>5. \A m \in 0..k : m \in T
  BY <1>3, <1>4, BoundedInduction
<1>6. ASSUME NEW n \in 1..k PROVE HasTurned(after[n - 1], operations[n], after[n])
  <2>1. k - n \in 0..k /\ k - (k - n) = n /\ n - 1 \in 0..k
    OBVIOUS
  <2>2. after[n].conflicts = {}
    BY <1>5, <2>1 DEF T
  <2> QED
    BY <1>2, <2>1, <2>2, TurnWithoutConflict
<1> QED
  BY <1>1, <1>6

-----------------------------------------------------------------------------
(* What was done stays done.                                               *)

\* An operation that may come after another and leave what it did: no fact and no requirement, no
\* second task, and of moves only those to the same day from others.
Follows(op, later) ==
    /\ later.type \in {"MOVE_SCENES", "CREATE_PREPARATION_TASK", "MARK_CALL_SHEET_STALE"}
    /\ op.type = "CREATE_PREPARATION_TASK" => later.type # "CREATE_PREPARATION_TASK"
    /\ op.type = "MOVE_SCENES" /\ later.type = "MOVE_SCENES" =>
         later.to = op.to /\ op.from # op.to /\ later.from # later.to

\* Moves to a day leave there what was moved there, and take nothing back to where it was.
LEMMA MovedStaysMoved ==
    ASSUME NEW state, IsKept(state), NEW op, op.type = "MOVE_SCENES", ScenesMoved(state, op),
           NEW later, IsOperation(later), later.type = "MOVE_SCENES", Follows(op, later),
           ~IsOperationAlreadyApplied(state, later), Problems(state, later) = {},
           NEW post, post = Effect(state, later)
    PROVE  ScenesMoved(post, op)
<1>1. later.from \in DOMAIN state.days /\ later.to \in DOMAIN state.days /\ later.from # later.to
  BY MovesAreBetweenDays
<1>2. later.scenes \in Seq(ToSet(later.scenes))
  BY DEF IsOperation
<1>3. HasMoved(state, later, post)
  BY <1>1, <1>2, MovingKeepsDays DEF Effect
<1>4. later.to = op.to /\ op.from # op.to
  BY DEF Follows
<1>5. PICK here, there, moved : here = state.days[later.from].scenes /\ there = state.days[later.to].scenes
                                /\ moved = later.scenes
  OBVIOUS
<1>6. here \in Seq(ToSet(here)) /\ there \in Seq(ToSet(there)) /\ moved \in Seq(ToSet(moved))
  BY <1>1, <1>2, <1>5, SnapshotParts DEF IsKept, DaysAreKept
<1>7. ToSet(Without(here, moved)) \subseteq ToSet(here)
  BY <1>6, SelectedMembers DEF Without
<1>8. ToSet(there) \subseteq ToSet(there \o moved)
  <2>1. PICK S : S = ToSet(there) \cup ToSet(moved)
    OBVIOUS
  <2>2. there \in Seq(S) /\ moved \in Seq(S)
    BY <1>6, <2>1
  <2>3. PICK joined : joined = there \o moved
    OBVIOUS
  <2>4. \A i \in DOMAIN there : i \in DOMAIN joined /\ joined[i] = there[i]
    BY <2>2, <2>3
  <2> QED
    BY <2>3, <2>4 DEF ToSet
<1>9. /\ DOMAIN post.days = DOMAIN state.days
      /\ post.days[later.from].scenes = Without(here, moved) /\ post.days[later.to].scenes = there \o moved
      /\ \A d \in DOMAIN state.days : d # later.from /\ d # later.to => post.days[d] = state.days[d]
  BY <1>3, <1>5 DEF HasMoved
<1>10. \A s : s \in ToSet(state.days[op.to].scenes) => s \in ToSet(post.days[op.to].scenes)
  BY <1>4, <1>5, <1>8, <1>9
<1>11. ASSUME NEW s, op.from \in DOMAIN state.days, s \notin ToSet(state.days[op.from].scenes)
       PROVE  s \notin ToSet(post.days[op.from].scenes)
  <2>1. CASE op.from = later.from
    BY <1>5, <1>7, <1>9, <1>11, <2>1
  <2>2. CASE op.from # later.from
    BY <1>4, <1>9, <1>11, <2>2
  <2> QED
    BY <2>1, <2>2
<1> QED
  BY <1>4, <1>9, <1>10, <1>11 DEF ScenesMoved

\* What a later operation leaves alone.
LEMMA LaterLeaves ==
    ASSUME NEW state, IsKept(state), NEW later, IsOperation(later),
           later.type \in {"MOVE_SCENES", "CREATE_PREPARATION_TASK", "MARK_CALL_SHEET_STALE"},
           ~IsOperationAlreadyApplied(state, later), Problems(state, later) = {},
           NEW post, post = Effect(state, later)
    PROVE  /\ post.scenes = state.scenes /\ post.cast = state.cast /\ post.locations = state.locations
           /\ post.requirements = state.requirements
           /\ DOMAIN post.days = DOMAIN state.days
           /\ \A d \in DOMAIN state.days : post.days[d].date = state.days[d].date
           /\ later.type # "MOVE_SCENES" => post.days = state.days
           /\ later.type # "CREATE_PREPARATION_TASK" => post.tasks = state.tasks
           /\ DOMAIN post.sheets = DOMAIN state.sheets
           /\ \A c \in DOMAIN state.sheets : /\ post.sheets[c].day = state.sheets[c].day
                                             /\ post.sheets[c].status \in {state.sheets[c].status, "DRAFT"}
           /\ later.type # "MARK_CALL_SHEET_STALE" => post.sheets = state.sheets
<1>1. /\ state = [scenes |-> state.scenes, cast |-> state.cast, locations |-> state.locations, days |-> state.days,
                  sheets |-> state.sheets, requirements |-> state.requirements, tasks |-> state.tasks]
      /\ SheetsAreKept(state.sheets)
  BY SnapshotParts DEF IsKept
<1>2. CASE later.type = "MOVE_SCENES"
  <2>1. later.from \in DOMAIN state.days /\ later.to \in DOMAIN state.days /\ later.from # later.to
    BY <1>2, MovesAreBetweenDays
  <2>2. HasMoved(state, later, post)
    BY <1>2, <2>1, MovingKeepsDays DEF Effect, IsOperation
  <2> QED
    BY <1>2, <2>2 DEF HasMoved
<1>3. CASE later.type = "CREATE_PREPARATION_TASK"
  <2>1. PICK tasks : tasks = With(state.tasks, FreshId("T", state.tasks),
                                  [on |-> later.on, title |-> later.title, status |-> "OPEN"])
    OBVIOUS
  <2>2. post = [state EXCEPT !.tasks = tasks]
    BY <1>1, <1>3, <2>1 DEF Effect, CreatePreparationTask
  <2>3. /\ post.scenes = state.scenes /\ post.cast = state.cast /\ post.locations = state.locations
        /\ post.requirements = state.requirements /\ post.days = state.days /\ post.sheets = state.sheets
    BY <1>1, <2>2
  <2> QED
    BY <1>3, <2>3
<1>4. CASE later.type = "MARK_CALL_SHEET_STALE"
  <2>1. PICK sheets : sheets = [state.sheets EXCEPT ![later.sheet].status = "DRAFT"]
    OBVIOUS
  <2>2. post = [state EXCEPT !.sheets = sheets]
    BY <1>1, <1>4, <2>1 DEF Effect
  <2>3. /\ post.scenes = state.scenes /\ post.cast = state.cast /\ post.locations = state.locations
        /\ post.requirements = state.requirements /\ post.days = state.days /\ post.tasks = state.tasks
        /\ post.sheets = sheets
    BY <1>1, <2>2
  <2>4. \A c \in DOMAIN state.sheets :
          state.sheets[c] = [day |-> state.sheets[c].day, status |-> state.sheets[c].status]
    BY <1>1 DEF SheetsAreKept
  <2>5. DOMAIN sheets = DOMAIN state.sheets
        /\ \A c \in DOMAIN state.sheets :
             /\ sheets[c].day = state.sheets[c].day
             /\ sheets[c].status = IF c = later.sheet THEN "DRAFT" ELSE state.sheets[c].status
    BY <2>1, <2>4
  <2> QED
    BY <1>4, <2>3, <2>5
<1> QED
  BY <1>2, <1>3, <1>4

\* What an operation did is found done after those that follow it.
LEMMA DoneStaysDone ==
    ASSUME NEW state, IsKept(state), NEW op, IsOperation(op), IsOperationAlreadyApplied(state, op),
           NEW later, IsOperation(later), Follows(op, later),
           ~IsOperationAlreadyApplied(state, later), Problems(state, later) = {},
           NEW post, post = Effect(state, later)
    PROVE  IsOperationAlreadyApplied(post, op)
<1>1. /\ post.cast = state.cast /\ post.locations = state.locations /\ post.requirements = state.requirements
      /\ DOMAIN post.sheets = DOMAIN state.sheets
      /\ \A c \in DOMAIN state.sheets : post.sheets[c].status \in {state.sheets[c].status, "DRAFT"}
      /\ later.type # "MOVE_SCENES" => post.days = state.days
      /\ later.type # "CREATE_PREPARATION_TASK" => post.tasks = state.tasks
  BY LaterLeaves DEF Follows
<1>2. CASE op.type = "RECORD_CAST_UNAVAILABILITY"
  BY <1>1, <1>2 DEF IsOperationAlreadyApplied
<1>3. CASE op.type = "RECORD_LOCATION_UNAVAILABILITY"
  BY <1>1, <1>3 DEF IsOperationAlreadyApplied
<1>4. CASE op.type = "MOVE_SCENES"
  <2>1. ScenesMoved(state, op)
    BY <1>4 DEF IsOperationAlreadyApplied
  <2>2. ScenesMoved(post, op)
    <3>1. CASE later.type = "MOVE_SCENES"
      BY <1>4, <2>1, <3>1, MovedStaysMoved
    <3>2. CASE later.type # "MOVE_SCENES"
      BY <1>1, <2>1, <3>2 DEF ScenesMoved
    <3> QED
      BY <3>1, <3>2
  <2> QED
    BY <1>4, <2>2 DEF IsOperationAlreadyApplied
<1>5. CASE op.type = "ADD_SCENE_REQUIREMENT"
  BY <1>1, <1>5 DEF IsOperationAlreadyApplied, EquivalentRequirements, RequirementsFor
<1>6. CASE op.type = "CREATE_PREPARATION_TASK"
  <2>1. post.tasks = state.tasks
    BY <1>1, <1>6 DEF Follows
  <2> QED
    BY <1>6, <2>1 DEF IsOperationAlreadyApplied, EquivalentTasks, TasksFor
<1>7. CASE op.type = "MARK_CALL_SHEET_STALE"
  BY <1>1, <1>7 DEF IsOperationAlreadyApplied
<1> QED
  BY <1>2, <1>3, <1>4, <1>5, <1>6, <1>7 DEF IsOperation, OperationTypes

\* A list whose operations leave what those before them did.
IsOrderly(operations) ==
    \A i, j \in 1..Len(operations) : i < j => Follows(operations[i], operations[j])

\* After a turn without conflict the operation shows.
LEMMA TurnShows ==
    ASSUME NEW before, IsApplication(before), NEW op, IsOperation(op), NEW after, HasTurned(before, op, after)
    PROVE  IsOperationAlreadyApplied(after.state, op)
  BY EffectIsRecognised DEF HasTurned, IsApplication

\* And what showed before it shows after it.
LEMMA TurnShowsStill ==
    ASSUME NEW before, IsApplication(before), NEW op, IsOperation(op), NEW later, IsOperation(later),
           Follows(op, later), IsOperationAlreadyApplied(before.state, op),
           NEW after, HasTurned(before, later, after)
    PROVE  IsOperationAlreadyApplied(after.state, op)
  BY DoneStaysDone DEF HasTurned, IsApplication

\* An orderly list without conflicts ends in a state that shows every operation.
LEMMA EverythingShows ==
    ASSUME NEW state, IsKept(state), NEW operations, IsOperationList(operations), IsOrderly(operations),
           ApplyOperations(state, operations).conflicts = {},
           NEW post, post = ApplyOperations(state, operations).state
    PROVE  \A i \in 1..Len(operations) : IsOperationAlreadyApplied(post, operations[i])
<1>1. PICK k \in Nat : k = Len(operations)
  BY OperationListFacts
<1>2. PICK after : after = Applying(state, operations)
  OBVIOUS
<1>3. /\ \A n \in 0..k : IsApplication(after[n])
      /\ \A n \in 1..k : HasTurned(after[n - 1], operations[n], after[n]) /\ IsOperation(operations[n])
      /\ post = after[k].state
  BY <1>1, <1>2, EveryTurnKept, NoConflictOnTheWay, OperationListFacts
<1>4. ASSUME NEW i \in 1..k PROVE IsOperationAlreadyApplied(post, operations[i])
  <2> DEFINE T == {n \in 0..k : n >= i => IsOperationAlreadyApplied(after[n].state, operations[i])}
  <2>1. 0 \in T
    OBVIOUS
  <2>2. ASSUME NEW n \in 1..k, n - 1 \in T PROVE n \in T
    <3>1. n - 1 \in 0..k
      OBVIOUS
    <3>2. CASE n < i
      BY <3>2
    <3>3. CASE n = i
      BY <1>3, <3>1, <3>3, TurnShows
    <3>4. CASE n > i
      <4>1. n - 1 >= i /\ Follows(operations[i], operations[n])
        BY <1>1, <3>4 DEF IsOrderly
      <4>2. IsOperationAlreadyApplied(after[n - 1].state, operations[i])
        BY <2>2, <4>1
      <4>3. IsOperationAlreadyApplied(after[n].state, operations[i])
        BY <1>3, <3>1, <4>1, <4>2, TurnShowsStill
      <4> QED
        BY <4>3
    <3> QED
      BY <3>2, <3>3, <3>4
  <2> HIDE DEF T
  <2>3. \A n \in 0..k : n \in T
    BY <2>1, <2>2, BoundedInduction
  <2>4. k \in 0..k /\ k >= i
    OBVIOUS
  <2> QED
    BY <1>3, <2>3, <2>4 DEF T
<1> QED
  BY <1>1, <1>4

-----------------------------------------------------------------------------
(* What shows in a state without conflicts passes its verification.        *)

\* Every operation.
LEMMA ShownIsVerified ==
    ASSUME NEW state, IsKept(state), CheckStateInvariants(state) = {}, NEW op, IsOperation(op),
           IsOperationAlreadyApplied(state, op)
    PROVE  VerifyOperationApplied(state, op)
<1>1. CASE op.type = "RECORD_CAST_UNAVAILABILITY"
  BY <1>1 DEF IsOperationAlreadyApplied, VerifyOperationApplied
<1>2. CASE op.type = "RECORD_LOCATION_UNAVAILABILITY"
  BY <1>2 DEF IsOperationAlreadyApplied, VerifyOperationApplied
<1>3. CASE op.type = "MOVE_SCENES"
  <2>1. ScenesMoved(state, op)
    BY <1>3 DEF IsOperationAlreadyApplied
  <2>2. op.to \in DOMAIN state.days
    BY <2>1 DEF ScenesMoved
  <2>3. ASSUME NEW i \in DOMAIN op.scenes
        PROVE  ScheduledShootDay(state, op.scenes[i]) = op.to
    <3>1. op.scenes[i] \in ToSet(state.days[op.to].scenes)
      BY <2>1 DEF ScenesMoved
    <3>2. op.scenes[i] \in DOMAIN state.scenes
      BY <2>2, <3>1, NothingDangles
    <3> QED
      BY <2>2, <3>1, <3>2, BookedIsScheduled
  <2> QED
    BY <1>3, <2>1, <2>3 DEF ScenesMoved, VerifyOperationApplied
<1>4. CASE op.type = "ADD_SCENE_REQUIREMENT"
  <2>1. PICK r \in EquivalentRequirements(state, op.scene, op.kind, op.name) : TRUE
    BY <1>4 DEF IsOperationAlreadyApplied
  <2>2. r \in DOMAIN state.requirements /\ state.requirements[r].scene = op.scene
    BY DEF EquivalentRequirements, RequirementsFor
  <2>3. IsListed(state, r)
    BY <2>2 DEF IsKept, RequirementsAreListed
  <2>4. op.scene \in DOMAIN state.scenes /\ r \in state.scenes[op.scene].requirements
    BY <2>2, <2>3 DEF IsListed
  <2> QED
    BY <1>4, <2>4 DEF VerifyOperationApplied
<1>5. CASE op.type = "CREATE_PREPARATION_TASK"
  BY <1>5 DEF IsOperationAlreadyApplied, VerifyOperationApplied
<1>6. CASE op.type = "MARK_CALL_SHEET_STALE"
  BY <1>6 DEF IsOperationAlreadyApplied, VerifyOperationApplied
<1> QED
  BY <1>1, <1>2, <1>3, <1>4, <1>5, <1>6 DEF IsOperation, OperationTypes

\* Nobody whose absence is recorded is scheduled in it.
LEMMA AbsentIsNotScheduled ==
    ASSUME NEW state, IsKept(state), CheckStateInvariants(state) = {}, NEW op, IsOperation(op), IsFactOperation(op),
           IsOperationAlreadyApplied(state, op), NEW s \in SubjectScenes(state, op) \cap Scheduled(state)
    PROVE  ~IsDateWithin(DateOf(state, ScheduledShootDay(state, s)), op.unavailable)
<1>0. WindowsAreKept(state.cast) /\ WindowsAreKept(state.locations) /\ op.unavailable \in DateRanges
  BY SnapshotParts DEF IsKept, IsOperation, IsFactOperation
<1>1. PICK d \in DOMAIN state.days : /\ ScheduledShootDay(state, s) = d
                                     /\ \E i \in DOMAIN state.days[d].scenes : state.days[d].scenes[i] = s
  BY ScheduledSomewhere DEF Scheduled
<1>2. PICK i \in DOMAIN state.days[d].scenes : state.days[d].scenes[i] = s
  BY <1>1
<1>3. /\ \A c \in state.scenes[s].cast : state.days[d].date \notin DaysOf(state.cast[c])
      /\ state.days[d].date \notin DaysOf(state.locations[state.scenes[s].location])
  BY <1>2, NobodyIsBlocked
<1>4. DateOf(state, d) \in Int /\ DateOf(state, d) = state.days[d].date
  BY SnapshotParts DEF IsKept, DaysAreKept, DateOf
<1>5. /\ op.unavailable.start \in Int /\ op.unavailable.end \in Int
      /\ IsDateWithin(DateOf(state, d), op.unavailable) <=>
           DateOf(state, d) \in op.unavailable.start..op.unavailable.end
  BY <1>0, <1>4 DEF DateRanges, IsDateWithin
<1>6. CASE op.type = "RECORD_CAST_UNAVAILABILITY"
  <2>1. op.cast \in DOMAIN state.cast /\ IsRangeCovered(state.cast[op.cast], op.unavailable)
    BY <1>6 DEF IsOperationAlreadyApplied
  <2>2. state.cast[op.cast] \in Seq(DateRanges)
    BY <1>0, <2>1 DEF WindowsAreKept
  <2>3. op.unavailable.start..op.unavailable.end \subseteq DaysOf(state.cast[op.cast])
    BY <1>0, <2>1, <2>2, CoveredMeansItsDays
  <2>4. op.cast \in state.scenes[s].cast
    BY <1>6 DEF SubjectScenes, ScenesRequiringCast
  <2> QED
    BY <1>1, <1>3, <1>4, <1>5, <2>3, <2>4
<1>7. CASE op.type = "RECORD_LOCATION_UNAVAILABILITY"
  <2>1. op.location \in DOMAIN state.locations /\ IsRangeCovered(state.locations[op.location], op.unavailable)
    BY <1>7 DEF IsOperationAlreadyApplied
  <2>2. state.locations[op.location] \in Seq(DateRanges)
    BY <1>0, <2>1 DEF WindowsAreKept
  <2>3. op.unavailable.start..op.unavailable.end \subseteq DaysOf(state.locations[op.location])
    BY <1>0, <2>1, <2>2, CoveredMeansItsDays
  <2>4. state.scenes[s].location = op.location
    BY <1>7 DEF SubjectScenes, ScenesAtLocation
  <2> QED
    BY <1>1, <1>3, <1>4, <1>5, <2>3, <2>4
<1> QED
  BY <1>6, <1>7 DEF IsFactOperation

\* An orderly list whose simulation is valid passes its verification once it is applied, and every
\* operation of it would be found done.
LEMMA ValidIsVerified ==
    ASSUME NEW state, IsSnapshot(state), IsSound(state), NEW operations, IsOperationList(operations),
           IsOrderly(operations), SimulateProposal(state, operations).valid,
           NEW post, post = ApplyOperations(state, operations).state
    PROVE  /\ IsKept(post) /\ CheckStateInvariants(post) = {}
           /\ \A i \in 1..Len(operations) : IsOperationAlreadyApplied(post, operations[i])
           /\ Verified(post, operations)
<1>1. IsKept(state)
  BY SoundIsListed DEF IsKept
<1>2. IsKept(post) /\ CheckStateInvariants(post) = {}
  BY <1>1, AppliedKept, ValidStaysSound DEF IsApplication
<1>3. ApplyOperations(state, operations).conflicts = {}
  BY DEF SimulateProposal
<1>4. \A i \in 1..Len(operations) : IsOperationAlreadyApplied(post, operations[i])
  BY <1>1, <1>3, EverythingShows
<1>5. DOMAIN operations = 1..Len(operations) /\ \A i \in 1..Len(operations) : IsOperation(operations[i])
  BY OperationListFacts
<1>6. VerifyOperationsApplied(post, operations)
  BY <1>2, <1>4, <1>5, ShownIsVerified DEF VerifyOperationsApplied
<1>7. VerifyAvailabilityHonoured(post, operations)
  BY <1>2, <1>4, <1>5, AbsentIsNotScheduled DEF VerifyAvailabilityHonoured
<1> QED
  BY <1>2, <1>4, <1>6, <1>7 DEF Verified, VerifyInvariantsHold

-----------------------------------------------------------------------------
(* What the plans of the agent are made of.                                *)

\* The members of two lists in one.
LEMMA JoinedAt ==
    ASSUME NEW a, NEW b, IsOperationList(a), IsOperationList(b)
    PROVE  /\ Len(a) \in Nat /\ Len(b) \in Nat /\ Len(a \o b) = Len(a) + Len(b)
           /\ \A i \in 1..(Len(a) + Len(b)) : (a \o b)[i] = IF i <= Len(a) THEN a[i] ELSE b[i - Len(a)]
<1>1. PICK S : S = ToSet(a) \cup ToSet(b)
  OBVIOUS
<1>2. a \in Seq(S) /\ b \in Seq(S)
  BY <1>1 DEF IsOperationList
<1> QED
  BY <1>2, ConcatProperties

\* Orderly lists stay so together, when what is in the second may follow what is in the first.
LEMMA OrderlyTogether ==
    ASSUME NEW a, NEW b, IsOperationList(a), IsOperationList(b), IsOrderly(a), IsOrderly(b),
           \A i \in 1..Len(a), j \in 1..Len(b) : Follows(a[i], b[j])
    PROVE  IsOrderly(a \o b)
<1>1. PICK m \in Nat, n \in Nat : m = Len(a) /\ n = Len(b)
  BY JoinedAt
<1>2. PICK joined : joined = a \o b
  OBVIOUS
<1>3. Len(joined) = m + n /\ \A i \in 1..(m + n) : joined[i] = IF i <= m THEN a[i] ELSE b[i - m]
  BY <1>1, <1>2, JoinedAt
<1>4. ASSUME NEW i \in 1..(m + n), NEW j \in 1..(m + n), i < j PROVE Follows(joined[i], joined[j])
  <2>1. CASE j <= m
    <3>1. i \in 1..m /\ j \in 1..m /\ i <= m
      BY <1>4, <2>1
    <3> QED
      BY <1>1, <1>3, <1>4, <2>1, <3>1 DEF IsOrderly
  <2>2. CASE i <= m /\ ~(j <= m)
    <3>1. i \in 1..m /\ j - m \in 1..n
      BY <2>2
    <3> QED
      BY <1>1, <1>3, <2>2, <3>1
  <2>3. CASE ~(i <= m)
    <3>1. i - m \in 1..n /\ j - m \in 1..n /\ i - m < j - m /\ ~(j <= m)
      BY <1>4, <2>3
    <3> QED
      BY <1>1, <1>3, <2>3, <3>1 DEF IsOrderly
  <2> QED
    BY <2>1, <2>2, <2>3
<1> QED
  BY <1>2, <1>3, <1>4 DEF IsOrderly

\* The sequence of a set has each of its members once.
LEMMA SeqOfSetOnce ==
    ASSUME NEW S, IsFiniteSet(S), NEW i \in DOMAIN SetToSeq(S), NEW j \in DOMAIN SetToSeq(S),
           SetToSeq(S)[i] = SetToSeq(S)[j]
    PROVE  i = j
<1>1. Cardinality(S) \in Nat /\ Bijection(1..Cardinality(S), S) # {}
  BY FS_CardinalityType DEF ExistsBijection
<1>2. \E f \in [1..Cardinality(S) -> S] : IsInjective(f)
  BY <1>1 DEF Bijection, Injection
<1>3. PICK list : list = SetToSeq(S)
  OBVIOUS
<1>4. IsInjective(list)
  BY <1>2, <1>3 DEF SetToSeq
<1> QED
  BY <1>3, <1>4 DEF IsInjective

\* The scenes of a list that sit on a day.
OnDay(state, scenes, d) == {s \in ToSet(scenes) : ScheduledShootDay(state, s) = d}

\* The days scenes are moved from to a day.
SourcesOf(state, scenes, target) == {ScheduledShootDay(state, s) : s \in ToSet(scenes)} \ {Nobody, target}

\* One move for each of those days, of the scenes that sit there.
AreMovesOf(moves, state, scenes, target) ==
    /\ \A i \in 1..Len(moves) :
         /\ moves[i].type = "MOVE_SCENES" /\ moves[i].to = target
         /\ moves[i].from \in SourcesOf(state, scenes, target)
         /\ moves[i].scenes = Selected(scenes, OnDay(state, scenes, moves[i].from))
         /\ ToSet(moves[i].scenes) = OnDay(state, scenes, moves[i].from)
    /\ \A d \in SourcesOf(state, scenes, target) : \E i \in 1..Len(moves) : moves[i].from = d
    /\ \A i, j \in 1..Len(moves) : moves[i].from = moves[j].from => i = j

\* That is what the moves of a plan are.
LEMMA MovesOfAPlan ==
    ASSUME NEW state, NEW scenes, scenes \in Seq(ToSet(scenes)), NEW target,
           NEW moves, moves = MoveOperations(state, scenes, target)
    PROVE  AreMovesOf(moves, state, scenes, target)
<1>0. PICK n \in Nat : DOMAIN scenes = 1..n
  OBVIOUS
<1>1. PICK days : days = {ScheduledShootDay(state, scenes[i]) : i \in DOMAIN scenes}
  OBVIOUS
<1>2. IsFiniteSet(days)
  <2>1. PICK at : at = [i \in 1..n |-> ScheduledShootDay(state, scenes[i])]
    OBVIOUS
  <2>2. at \in [1..n -> days] /\ \A d \in days : \E i \in 1..n : at[i] = d
    BY <1>0, <1>1, <2>1
  <2>3. at \in Surjection(1..n, days)
    BY <2>2 DEF Surjection
  <2> QED
    BY <2>3, FS_NatSurjection DEF ExistsSurjection
<1>3. PICK sources : sources = days \ {Nobody, target}
  OBVIOUS
<1>4. sources = SourcesOf(state, scenes, target)
  BY <1>1, <1>3 DEF SourcesOf, ToSet
<1>5. IsFiniteSet(sources)
  BY <1>2, <1>3, FS_Subset
<1>6. PICK list : list = SetToSeq(sources)
  OBVIOUS
<1>7. PICK m \in Nat : m = Cardinality(sources) /\ DOMAIN list = 1..m /\ ToSet(list) = sources
  BY <1>5, <1>6, SeqOfSet
<1>8. \A i, j \in 1..m : list[i] = list[j] => i = j
  BY <1>5, <1>6, <1>7, SeqOfSetOnce
<1>9. \A d \in sources : \E i \in 1..m : list[i] = d
  BY <1>7 DEF ToSet
<1>10. \A i \in 1..m : list[i] \in sources
  BY <1>7 DEF ToSet
<1>11. moves = [i \in 1..m |->
                  [type |-> "MOVE_SCENES", from |-> list[i], to |-> target,
                   scenes |-> Selected(scenes, OnDay(state, scenes, list[i]))]]
  BY <1>1, <1>3, <1>6, <1>7 DEF MoveOperations, OnDay
<1>12. Len(moves) = m
  BY <1>11
<1>13. \A i \in 1..m : /\ moves[i].type = "MOVE_SCENES" /\ moves[i].to = target /\ moves[i].from = list[i]
                       /\ moves[i].scenes = Selected(scenes, OnDay(state, scenes, list[i]))
  BY <1>11
<1>14. \A d : ToSet(Selected(scenes, OnDay(state, scenes, d))) = OnDay(state, scenes, d)
  <2>1. \A d : OnDay(state, scenes, d) \subseteq ToSet(scenes)
    BY DEF OnDay
  <2>2. \A d : ToSet(Selected(scenes, OnDay(state, scenes, d))) = ToSet(scenes) \cap OnDay(state, scenes, d)
    BY SelectedMembers
  <2> QED
    BY <2>1, <2>2
<1> QED
  BY <1>4, <1>8, <1>9, <1>10, <1>12, <1>13, <1>14 DEF AreMovesOf

\* Marks of all published sheets of some days, and of nothing else.
AreMarksOf(marks, state, days) ==
    /\ \A i \in 1..Len(marks) : /\ marks[i].type = "MARK_CALL_SHEET_STALE"
                                /\ marks[i].sheet \in StaleCallSheetsForShootDays(state, days)
    /\ \A c \in StaleCallSheetsForShootDays(state, days) : \E i \in 1..Len(marks) : marks[i].sheet = c

\* That is what the marks of a plan are.
LEMMA MarksOfAPlan ==
    ASSUME NEW state, IsFiniteSet(DOMAIN state.sheets), NEW sources, NEW target,
           NEW marks, marks = StaleMarks(state, sources, target)
    PROVE  AreMarksOf(marks, state, sources \cup {target})
<1>1. PICK stale : stale = StaleCallSheetsForShootDays(state, sources \cup {target})
  OBVIOUS
<1>2. IsFiniteSet(stale)
  BY <1>1, FS_Subset DEF StaleCallSheetsForShootDays
<1>3. PICK list : list = SetToSeq(stale)
  OBVIOUS
<1>4. PICK m \in Nat : DOMAIN list = 1..m /\ ToSet(list) = stale
  BY <1>2, <1>3, SeqOfSet
<1>5. marks = [i \in 1..m |-> [type |-> "MARK_CALL_SHEET_STALE", sheet |-> list[i]]]
  BY <1>1, <1>3, <1>4 DEF StaleMarks
<1>6. Len(marks) = m /\ \A i \in 1..m : marks[i].type = "MARK_CALL_SHEET_STALE" /\ marks[i].sheet = list[i]
  BY <1>5
<1>7. (\A i \in 1..m : list[i] \in stale) /\ \A c \in stale : \E i \in 1..m : list[i] = c
  BY <1>4 DEF ToSet
<1>8. \A i \in 1..Len(marks) : marks[i].type = "MARK_CALL_SHEET_STALE" /\ marks[i].sheet \in stale
  BY <1>6, <1>7
<1>9. \A c \in stale : \E i \in 1..Len(marks) : marks[i].sheet = c
  BY <1>6, <1>7
<1> QED
  BY <1>1, <1>8, <1>9 DEF AreMarksOf

\* Moves to one day from others are orderly, and so are marks, and marks may follow anything.
LEMMA MovesAndMarksAreOrderly ==
    ASSUME NEW state, NEW scenes, NEW target, NEW days, NEW moves, AreMovesOf(moves, state, scenes, target),
           NEW marks, AreMarksOf(marks, state, days)
    PROVE  /\ IsOrderly(moves) /\ IsOrderly(marks)
           /\ \A op : \A j \in 1..Len(marks) : Follows(op, marks[j])
           /\ \A op : \A j \in 1..Len(moves) : op.type # "MOVE_SCENES" => Follows(op, moves[j])
<1>1. \A i \in 1..Len(moves) : moves[i].type = "MOVE_SCENES" /\ moves[i].to = target /\ moves[i].from # target
  BY DEF AreMovesOf, SourcesOf
<1>2. \A j \in 1..Len(marks) : marks[j].type = "MARK_CALL_SHEET_STALE"
  BY DEF AreMarksOf
<1>3. \A i, j \in 1..Len(moves) : Follows(moves[i], moves[j])
  BY <1>1 DEF Follows
<1>4. \A op : \A j \in 1..Len(marks) : Follows(op, marks[j])
  BY <1>2 DEF Follows
<1>5. \A op : \A j \in 1..Len(moves) : op.type # "MOVE_SCENES" => Follows(op, moves[j])
  BY <1>1 DEF Follows
<1> QED
  BY <1>3, <1>4, <1>5 DEF IsOrderly

\* Days the sheets of which an answer to an unavailability marks.
DaysOfAnAnswer(state, scenes, target) == SourceDays(state, scenes) \cup {target}

\* The fact, the moves, the marks.
IsMadeOf(plan, fact, moves, marks, state, list, target) ==
    /\ plan = (<<fact>> \o moves) \o marks
    /\ IsOperationList(<<fact>>) /\ IsOperationList(moves) /\ IsOperationList(marks)
    /\ IsOperationList(<<fact>> \o moves)
    /\ list \in Seq(ToSet(list))
    /\ AreMovesOf(moves, state, list, target)
    /\ AreMarksOf(marks, state, DaysOfAnAnswer(state, ToSet(list), target))
    /\ IsFactOperation(fact)

\* The plan that answers an unavailability is made of them.
LEMMA AnswerParts ==
    ASSUME NEW state, IsSnapshot(state), NEW change, IsChange(change), IsUnavailability(change),
           NEW target, NEW scenes, IsFiniteSet(scenes), NEW list, list = SetToSeq(scenes),
           NEW fact, fact = FactOperation(change),
           NEW moves, moves = MoveOperations(state, list, target),
           NEW marks, marks = StaleMarks(state, SourceDays(state, scenes), target)
    PROVE  IsMadeOf(UnavailabilityPlan(state, change, scenes, target), fact, moves, marks, state, list, target)
           /\ ToSet(list) = scenes
<1>1. list \in Seq(ToSet(list)) /\ ToSet(list) = scenes
  BY SeqOfSet
<1>2. IsOperationList(<<fact>>)
  BY FactIsOperation
<1>3. IsOperationList(moves) /\ AreMovesOf(moves, state, list, target)
  BY <1>1, MovesAreOperations, MovesOfAPlan
<1>4. IsFiniteSet(DOMAIN state.sheets)
  BY DEF IsSnapshot
<1>5. IsOperationList(marks) /\ AreMarksOf(marks, state, DaysOfAnAnswer(state, scenes, target))
  BY <1>4, MarksAreOperations, MarksOfAPlan DEF DaysOfAnAnswer
<1>6. IsOperationList(<<fact>> \o moves)
  BY <1>2, <1>3, Joined
<1>7. UnavailabilityPlan(state, change, scenes, target) = (<<fact>> \o moves) \o marks
  BY DEF UnavailabilityPlan
<1>8. IsFactOperation(fact)
  BY DEF FactOperation, IsFactOperation
<1> QED
  BY <1>1, <1>2, <1>3, <1>5, <1>6, <1>7, <1>8 DEF IsMadeOf

\* It is orderly.
LEMMA AnswerIsOrderly ==
    ASSUME NEW state, IsSnapshot(state), NEW change, IsChange(change), IsUnavailability(change),
           NEW target, NEW scenes, IsFiniteSet(scenes)
    PROVE  /\ IsOperationList(UnavailabilityPlan(state, change, scenes, target))
           /\ IsOrderly(UnavailabilityPlan(state, change, scenes, target))
<1>1. PICK list, fact : list = SetToSeq(scenes) /\ fact = FactOperation(change)
  OBVIOUS
<1>2. PICK moves, marks : /\ moves = MoveOperations(state, list, target)
                          /\ marks = StaleMarks(state, SourceDays(state, scenes), target)
  OBVIOUS
<1>a. IsMadeOf(UnavailabilityPlan(state, change, scenes, target), fact, moves, marks, state, list, target)
  BY <1>1, <1>2, AnswerParts
<1>3. /\ UnavailabilityPlan(state, change, scenes, target) = (<<fact>> \o moves) \o marks
      /\ IsOperationList(<<fact>>) /\ IsOperationList(moves) /\ IsOperationList(marks)
      /\ IsOperationList(<<fact>> \o moves)
      /\ AreMovesOf(moves, state, list, target)
      /\ AreMarksOf(marks, state, DaysOfAnAnswer(state, ToSet(list), target))
      /\ IsFactOperation(fact)
  BY <1>a DEF IsMadeOf
<1>4. /\ IsOrderly(moves) /\ IsOrderly(marks)
      /\ \A op : \A j \in 1..Len(marks) : Follows(op, marks[j])
      /\ \A op : \A j \in 1..Len(moves) : op.type # "MOVE_SCENES" => Follows(op, moves[j])
  BY <1>3, MovesAndMarksAreOrderly
<1>5. PICK first : first = <<fact>>
  OBVIOUS
<1>6. Len(first) = 1 /\ first[1] = fact /\ fact.type # "MOVE_SCENES"
  BY <1>3, <1>5 DEF IsFactOperation
<1>7. IsOrderly(first) /\ \A i \in 1..Len(first), j \in 1..Len(moves) : Follows(first[i], moves[j])
  BY <1>4, <1>6 DEF IsOrderly
<1>8. IsOrderly(first \o moves)
  BY <1>3, <1>4, <1>5, <1>7, OrderlyTogether
<1>9. IsOrderly((first \o moves) \o marks) /\ IsOperationList((first \o moves) \o marks)
  BY <1>3, <1>4, <1>5, <1>8, OrderlyTogether, Joined
<1> QED
  BY <1>3, <1>5, <1>9

\* So is the plan that records the fact alone.
LEMMA FactIsOrderly ==
    ASSUME NEW change, IsChange(change), IsUnavailability(change)
    PROVE  IsOperationList(<<FactOperation(change)>>) /\ IsOrderly(<<FactOperation(change)>>)
<1>1. PICK fact, list : fact = FactOperation(change) /\ list = <<fact>>
  OBVIOUS
<1>2. Len(list) = 1
  BY <1>1
<1>3. IsOrderly(list)
  BY <1>2 DEF IsOrderly
<1> QED
  BY <1>1, <1>3, FactIsOperation

\* And the plan that adds a requirement.
LEMMA RequirementIsOrderly ==
    ASSUME NEW state, IsSnapshot(state), NEW change
    PROVE  /\ IsOperationList(RequirementPlan(state, change)) /\ IsOrderly(RequirementPlan(state, change))
           /\ Len(RequirementPlan(state, change)) >= 2 /\ Len(RequirementPlan(state, change)) \in Nat
           /\ RequirementPlan(state, change)[1] =
                [type |-> "ADD_SCENE_REQUIREMENT", scene |-> change.scene, kind |-> change.kind, name |-> change.name]
<1>1. PICK first, second :
        /\ first = [type |-> "ADD_SCENE_REQUIREMENT", scene |-> change.scene, kind |-> change.kind,
                    name |-> change.name]
        /\ second = [type |-> "CREATE_PREPARATION_TASK", on |-> <<"SCENE", change.scene>>,
                     title |-> [name |-> change.name, scene |-> change.scene]]
  OBVIOUS
<1>2. IsOperation(first) /\ IsOperation(second)
  <2>1. IsOperation(first)
    BY <1>1 DEF IsOperation, OperationTypes
  <2>2. second.type = "CREATE_PREPARATION_TASK" /\ second.on = <<"SCENE", change.scene>>
    BY <1>1
  <2>3. second.on = <<second.on[1], second.on[2]>>
    BY <2>2
  <2> QED
    BY <2>1, <2>2, <2>3 DEF IsOperation, OperationTypes
<1>3. PICK list : list = <<first, second>>
  OBVIOUS
<1>4. /\ list = [i \in 1..2 |-> list[i]] /\ \A i \in 1..2 : IsOperation(list[i])
      /\ Len(list) = 2 /\ list[1] = first /\ list[2] = second
  BY <1>2, <1>3
<1>5. IsOperationList(list)
  BY <1>4, ListOf
<1>6. IsOrderly(list)
  <2>1. first.type = "ADD_SCENE_REQUIREMENT" /\ second.type = "CREATE_PREPARATION_TASK"
    BY <1>1
  <2>2. Follows(first, second)
    BY <2>1 DEF Follows
  <2>3. \A i, j \in 1..2 : i < j => i = 1 /\ j = 2
    OBVIOUS
  <2> QED
    BY <1>4, <2>2, <2>3 DEF IsOrderly
<1>7. PICK marks : marks = IF change.scene \in Scheduled(state)
                           THEN StaleMarks(state, {}, ScheduledShootDay(state, change.scene)) ELSE <<>>
  OBVIOUS
<1>8. IsOperationList(marks) /\ \A j \in 1..Len(marks) : marks[j].type = "MARK_CALL_SHEET_STALE"
  <2>0. IsFiniteSet(DOMAIN state.sheets)
    BY DEF IsSnapshot
  <2>1. PICK stale : stale = StaleMarks(state, {}, ScheduledShootDay(state, change.scene))
    OBVIOUS
  <2>a. IsOperationList(stale) /\ AreMarksOf(stale, state, {} \cup {ScheduledShootDay(state, change.scene)})
    BY <2>0, <2>1, MarksAreOperations, MarksOfAPlan
  <2>2. IsOperationList(stale) /\ \A j \in 1..Len(stale) : stale[j].type = "MARK_CALL_SHEET_STALE"
    BY <2>a DEF AreMarksOf
  <2>3. PICK none : none = <<>>
    OBVIOUS
  <2>4. none = [i \in 1..0 |-> none[i]] /\ \A i \in 1..0 : IsOperation(none[i])
    BY <2>3
  <2>5. IsOperationList(none) /\ Len(none) = 0
    BY <2>3, <2>4, ListOf
  <2>6. CASE change.scene \in Scheduled(state)
    BY <1>7, <2>1, <2>2, <2>6
  <2>7. CASE change.scene \notin Scheduled(state)
    BY <1>7, <2>3, <2>5, <2>7
  <2> QED
    BY <2>6, <2>7
<1>9. (\A op : \A j \in 1..Len(marks) : Follows(op, marks[j])) /\ IsOrderly(marks)
  BY <1>8 DEF Follows, IsOrderly
<1>10. RequirementPlan(state, change) = list \o marks
  BY <1>1, <1>3, <1>7 DEF RequirementPlan
<1>11. IsOrderly(list \o marks) /\ IsOperationList(list \o marks)
  BY <1>5, <1>6, <1>8, <1>9, OrderlyTogether, Joined
<1>12. Len(list \o marks) = 2 + Len(marks) /\ Len(marks) \in Nat /\ (list \o marks)[1] = first
  <2>1. 1 \in 1..(Len(list) + Len(marks)) /\ 1 <= Len(list)
    BY <1>4, <1>5, <1>8, JoinedAt
  <2> QED
    BY <1>4, <1>5, <1>8, <2>1, JoinedAt
<1> QED
  BY <1>1, <1>10, <1>11, <1>12

\* And the plan that moves named scenes, which begins with its moves.
LEMMA ScheduleIsOrderly ==
    ASSUME NEW state, IsSnapshot(state), NEW change, change.scenes \in Seq(ToSet(change.scenes)),
           NEW moves, moves = MoveOperations(state, change.scenes, change.to),
           NEW plan, plan = SchedulePlan(state, change)
    PROVE  /\ IsOperationList(plan) /\ IsOrderly(plan)
           /\ AreMovesOf(moves, state, change.scenes, change.to)
           /\ Len(moves) \in Nat /\ Len(plan) \in Nat /\ Len(moves) <= Len(plan)
           /\ \A i \in 1..Len(moves) : plan[i] = moves[i]
           /\ \A i \in 1..Len(plan) : i > Len(moves) => plan[i].type = "MARK_CALL_SHEET_STALE"
<1>1. PICK marks : marks = StaleMarks(state, SourceDays(state, ToSet(change.scenes)), change.to)
  OBVIOUS
<1>2. IsOperationList(moves) /\ AreMovesOf(moves, state, change.scenes, change.to)
  BY MovesAreOperations, MovesOfAPlan
<1>3. IsFiniteSet(DOMAIN state.sheets)
  BY DEF IsSnapshot
<1>4. /\ IsOperationList(marks)
      /\ AreMarksOf(marks, state, SourceDays(state, ToSet(change.scenes)) \cup {change.to})
  BY <1>1, <1>3, MarksAreOperations, MarksOfAPlan
<1>5. plan = moves \o marks
  BY <1>1 DEF SchedulePlan
<1>6. /\ IsOrderly(moves) /\ IsOrderly(marks)
      /\ \A op : \A j \in 1..Len(marks) : Follows(op, marks[j])
  BY <1>2, <1>4, MovesAndMarksAreOrderly
<1>7. IsOperationList(plan) /\ IsOrderly(plan)
  BY <1>2, <1>4, <1>5, <1>6, OrderlyTogether, Joined
<1>8. PICK m \in Nat, n \in Nat : m = Len(moves) /\ n = Len(marks)
  BY <1>2, <1>4, JoinedAt
<1>9. Len(plan) = m + n /\ \A i \in 1..(m + n) : plan[i] = IF i <= m THEN moves[i] ELSE marks[i - m]
  BY <1>2, <1>4, <1>5, <1>8, JoinedAt
<1>10. \A i \in 1..n : marks[i].type = "MARK_CALL_SHEET_STALE"
  BY <1>4, <1>8 DEF AreMarksOf
<1>11. \A i \in 1..m : plan[i] = moves[i]
  BY <1>9
<1>12. ASSUME NEW i \in 1..(m + n), i > m PROVE plan[i].type = "MARK_CALL_SHEET_STALE"
  <2>1. i - m \in 1..n /\ ~(i <= m)
    BY <1>12
  <2> QED
    BY <1>9, <1>10, <2>1
<1>13. m <= m + n
  OBVIOUS
<1> QED
  BY <1>2, <1>7, <1>8, <1>9, <1>11, <1>12, <1>13

-----------------------------------------------------------------------------
(* Where scenes are after an operation.                                    *)

\* The scenes of a shoot day.
Holds(state, d) == ToSet(state.days[d].scenes)

\* The members of two sequences in one.
LEMMA ConcatMembers ==
    ASSUME NEW a, NEW b, a \in Seq(ToSet(a)), b \in Seq(ToSet(b))
    PROVE  ToSet(a \o b) = ToSet(a) \cup ToSet(b)
<1>1. PICK S : S = ToSet(a) \cup ToSet(b)
  OBVIOUS
<1>2. a \in Seq(S) /\ b \in Seq(S)
  BY <1>1
<1>3. PICK joined : joined = a \o b
  OBVIOUS
<1>4. PICK m \in Nat, n \in Nat : m = Len(a) /\ n = Len(b)
  BY <1>2
<1>5. /\ DOMAIN joined = 1..(m + n) /\ DOMAIN a = 1..m /\ DOMAIN b = 1..n
      /\ \A i \in 1..(m + n) : joined[i] = IF i <= m THEN a[i] ELSE b[i - m]
  BY <1>2, <1>3, <1>4, ConcatProperties, LenProperties
<1>6. ASSUME NEW i \in 1..(m + n) PROVE joined[i] \in S
  <2>1. i <= m \/ i - m \in 1..n
    OBVIOUS
  <2>2. i <= m => a[i] \in ToSet(a)
    BY <1>5 DEF ToSet
  <2>3. i - m \in 1..n => b[i - m] \in ToSet(b)
    BY <1>5 DEF ToSet
  <2> QED
    BY <1>1, <1>5, <2>1, <2>2, <2>3
<1>7. ASSUME NEW i \in 1..m PROVE a[i] \in ToSet(joined)
  <2>1. i \in 1..(m + n) /\ i <= m
    OBVIOUS
  <2> QED
    BY <1>5, <2>1 DEF ToSet
<1>8. ASSUME NEW i \in 1..n PROVE b[i] \in ToSet(joined)
  <2>1. i + m \in 1..(m + n) /\ ~(i + m <= m) /\ (i + m) - m = i
    OBVIOUS
  <2>2. joined[i + m] = b[i]
    BY <1>5, <2>1
  <2> QED
    BY <1>5, <2>1, <2>2 DEF ToSet
<1>9. ToSet(joined) \subseteq S
  BY <1>5, <1>6 DEF ToSet
<1>10. ToSet(a) \subseteq ToSet(joined) /\ ToSet(b) \subseteq ToSet(joined)
  BY <1>5, <1>7, <1>8 DEF ToSet
<1> QED
  BY <1>1, <1>3, <1>9, <1>10

\* A move takes its scenes from one day to another and leaves the other days alone.
LEMMA MovedScenes ==
    ASSUME NEW state, IsKept(state), NEW op, IsOperation(op), op.type = "MOVE_SCENES",
           ~IsOperationAlreadyApplied(state, op), Problems(state, op) = {},
           NEW post, post = Effect(state, op)
    PROVE  /\ HasMoved(state, op, post)
           /\ op.from \in DOMAIN state.days /\ op.to \in DOMAIN state.days /\ op.from # op.to
           /\ Holds(post, op.from) = Holds(state, op.from) \ ToSet(op.scenes)
           /\ Holds(post, op.to) = Holds(state, op.to) \cup ToSet(op.scenes)
           /\ \A d \in DOMAIN state.days \ {op.from, op.to} : Holds(post, d) = Holds(state, d)
<1>1. op.from \in DOMAIN state.days /\ op.to \in DOMAIN state.days /\ op.from # op.to
  BY MovesAreBetweenDays
<1>2. op.scenes \in Seq(ToSet(op.scenes))
  BY DEF IsOperation
<1>3. HasMoved(state, op, post)
  BY <1>1, <1>2, MovingKeepsDays DEF Effect
<1>4. PICK here, there : here = state.days[op.from].scenes /\ there = state.days[op.to].scenes
  OBVIOUS
<1>5. here \in Seq(ToSet(here)) /\ there \in Seq(ToSet(there))
  BY <1>1, <1>4, SnapshotParts DEF IsKept, DaysAreKept
<1>6. ToSet(Without(here, op.scenes)) = ToSet(here) \ ToSet(op.scenes)
  <2>1. PICK kept : kept = ToSet(here) \ ToSet(op.scenes)
    OBVIOUS
  <2>2. ToSet(Selected(here, kept)) = ToSet(here) \cap kept
    BY <1>5, SelectedMembers
  <2> QED
    BY <2>1, <2>2 DEF Without
<1>7. ToSet(there \o op.scenes) = ToSet(there) \cup ToSet(op.scenes)
  BY <1>2, <1>5, ConcatMembers
<1>8. /\ post.days[op.from].scenes = Without(here, op.scenes)
      /\ post.days[op.to].scenes = there \o op.scenes
      /\ \A d \in DOMAIN state.days : d # op.from /\ d # op.to => post.days[d] = state.days[d]
  BY <1>3, <1>4 DEF HasMoved
<1> QED
  BY <1>1, <1>3, <1>4, <1>6, <1>7, <1>8 DEF Holds

\* Other operations leave the days alone.
LEMMA OtherOperationsLeaveDays ==
    ASSUME NEW state, IsKept(state), NEW op, IsOperation(op), op.type # "MOVE_SCENES",
           NEW post, post = Effect(state, op)
    PROVE  post.days = state.days
<1>1. state = [scenes |-> state.scenes, cast |-> state.cast, locations |-> state.locations, days |-> state.days,
               sheets |-> state.sheets, requirements |-> state.requirements, tasks |-> state.tasks]
  BY SnapshotParts DEF IsKept
<1>2. CASE op.type = "RECORD_CAST_UNAVAILABILITY"
  <2>1. PICK cast : cast = [state.cast EXCEPT ![op.cast] = NormalizeDateRanges(Append(@, op.unavailable))]
    OBVIOUS
  <2>2. post = [state EXCEPT !.cast = cast]
    BY <1>1, <1>2, <2>1 DEF Effect
  <2> QED
    BY <1>1, <2>2
<1>3. CASE op.type = "RECORD_LOCATION_UNAVAILABILITY"
  <2>1. PICK locations :
          locations = [state.locations EXCEPT ![op.location] = NormalizeDateRanges(Append(@, op.unavailable))]
    OBVIOUS
  <2>2. post = [state EXCEPT !.locations = locations]
    BY <1>1, <1>3, <2>1 DEF Effect
  <2> QED
    BY <1>1, <2>2
<1>4. CASE op.type = "ADD_SCENE_REQUIREMENT"
  <2>1. PICK id : id = FreshId("REQ", state.requirements)
    OBVIOUS
  <2>2. PICK more : more = With(state.requirements, id, [scene |-> op.scene, kind |-> op.kind, name |-> op.name])
    OBVIOUS
  <2>3. PICK scenes : scenes = [state.scenes EXCEPT ![op.scene].requirements = @ \cup {id}]
    OBVIOUS
  <2>4. post = [state EXCEPT !.requirements = more, !.scenes = scenes]
    BY <1>1, <1>4, <2>1, <2>2, <2>3 DEF Effect, AddSceneRequirement
  <2> QED
    BY <1>1, <2>4
<1>5. CASE op.type = "CREATE_PREPARATION_TASK"
  <2>1. PICK tasks : tasks = With(state.tasks, FreshId("T", state.tasks),
                                  [on |-> op.on, title |-> op.title, status |-> "OPEN"])
    OBVIOUS
  <2>2. post = [state EXCEPT !.tasks = tasks]
    BY <1>1, <1>5, <2>1 DEF Effect, CreatePreparationTask
  <2> QED
    BY <1>1, <2>2
<1>6. CASE op.type = "MARK_CALL_SHEET_STALE"
  <2>1. PICK sheets : sheets = [state.sheets EXCEPT ![op.sheet].status = "DRAFT"]
    OBVIOUS
  <2>2. post = [state EXCEPT !.sheets = sheets]
    BY <1>1, <1>6, <2>1 DEF Effect
  <2> QED
    BY <1>1, <2>2
<1> QED
  BY <1>2, <1>3, <1>4, <1>5, <1>6 DEF IsOperation, OperationTypes

\* Operations whose moves all go to one day from others.
AllMoveTo(operations, target) ==
    \A i \in 1..Len(operations) :
       operations[i].type = "MOVE_SCENES" => operations[i].to = target /\ operations[i].from # target

\* That day loses no scene, and no day gains a scene that is not moved.
LEMMA DaysThroughAList ==
    ASSUME NEW state, IsKept(state), NEW operations, IsOperationList(operations),
           NEW target, AllMoveTo(operations, target),
           ApplyOperations(state, operations).conflicts = {},
           NEW post, post = ApplyOperations(state, operations).state
    PROVE  /\ DOMAIN post.days = DOMAIN state.days
           /\ \A d \in DOMAIN state.days : DateOf(post, d) = DateOf(state, d)
           /\ target \in DOMAIN state.days => Holds(state, target) \subseteq Holds(post, target)
           /\ \A s : \/ \E i \in 1..Len(operations) :
                           operations[i].type = "MOVE_SCENES" /\ s \in ToSet(operations[i].scenes)
                     \/ \A d \in DOMAIN state.days : s \in Holds(post, d) => s \in Holds(state, d)
<1>1. PICK k \in Nat : k = Len(operations)
  BY OperationListFacts
<1>2. PICK after : after = Applying(state, operations)
  OBVIOUS
<1>3. /\ after[0] = Begun(state) /\ \A n \in 0..k : IsApplication(after[n])
      /\ \A n \in 1..k : HasTurned(after[n - 1], operations[n], after[n]) /\ IsOperation(operations[n])
      /\ post = after[k].state
  BY <1>1, <1>2, EveryTurnKept, NoConflictOnTheWay, OperationListFacts
<1> DEFINE moved == UNION {ToSet(operations[i].scenes) : i \in {i \in 1..k : operations[i].type = "MOVE_SCENES"}}
           Good(now) == /\ DOMAIN now.days = DOMAIN state.days
                        /\ \A d \in DOMAIN state.days : DateOf(now, d) = DateOf(state, d)
                        /\ target \in DOMAIN state.days => Holds(state, target) \subseteq Holds(now, target)
                        /\ \A d \in DOMAIN state.days : Holds(now, d) \subseteq Holds(state, d) \cup moved
           T == {n \in 0..k : Good(after[n].state)}
<1>4. 0 \in T
  <2>1. after[0].state = state
    BY <1>3 DEF Begun
  <2> QED
    BY <2>1
<1>5. ASSUME NEW n \in 1..k, n - 1 \in T PROVE n \in T
  <2>1. PICK old, new, op : old = after[n - 1].state /\ new = after[n].state /\ op = operations[n]
    OBVIOUS
  <2>2. Good(old)
    BY <1>5, <2>1
  <2>3. IsKept(old) /\ IsOperation(op) /\ (op.type = "MOVE_SCENES" => op.to = target /\ op.from # target)
    <3>1. n - 1 \in 0..k
      OBVIOUS
    <3>2. IsApplication(after[n - 1])
      BY <1>3, <3>1
    <3>3. IsKept(old)
      BY <2>1, <3>2 DEF IsApplication
    <3>4. IsOperation(op) /\ (op.type = "MOVE_SCENES" => op.to = target /\ op.from # target)
      BY <1>1, <1>3, <2>1 DEF AllMoveTo
    <3> QED
      BY <3>3, <3>4
  <2>4. new = old \/ (~IsOperationAlreadyApplied(old, op) /\ Problems(old, op) = {} /\ new = Effect(old, op))
    BY <1>3, <2>1 DEF HasTurned
  <2>5. CASE new = old
    <3>1. Good(new)
      BY <2>2, <2>5
    <3> QED
      BY <2>1, <3>1
  <2>6. CASE new # old /\ op.type = "MOVE_SCENES"
    <3>1. /\ HasMoved(old, op, new)
          /\ Holds(new, op.from) = Holds(old, op.from) \ ToSet(op.scenes)
          /\ Holds(new, op.to) = Holds(old, op.to) \cup ToSet(op.scenes)
          /\ \A d \in DOMAIN old.days \ {op.from, op.to} : Holds(new, d) = Holds(old, d)
      BY <2>3, <2>4, <2>6, MovedScenes
    <3>2. DOMAIN new.days = DOMAIN old.days /\ \A d \in DOMAIN old.days : DateOf(new, d) = DateOf(old, d)
      BY <3>1 DEF HasMoved, DateOf
    <3>3. ToSet(op.scenes) \subseteq moved
      BY <2>1, <2>6
    <3> HIDE DEF moved
    <3>4. \A d \in DOMAIN old.days : Holds(new, d) \subseteq Holds(old, d) \cup moved
      BY <3>1, <3>3
    <3>5. op.to = target => Holds(old, target) \subseteq Holds(new, target)
      BY <3>1
    <3>6. Good(new)
      BY <2>2, <2>3, <2>6, <3>2, <3>4, <3>5
    <3> QED
      BY <2>1, <3>6
  <2>7. CASE new # old /\ op.type # "MOVE_SCENES"
    <3>1. new.days = old.days
      BY <2>3, <2>4, <2>7, OtherOperationsLeaveDays
    <3>2. Good(new)
      BY <2>2, <3>1 DEF Holds, DateOf
    <3> QED
      BY <2>1, <3>2
  <2> QED
    BY <2>5, <2>6, <2>7
<1> HIDE DEF T
<1>6. \A n \in 0..k : n \in T
  BY <1>4, <1>5, BoundedInduction
<1>7. Good(post)
  <2>1. k \in 0..k
    OBVIOUS
  <2> QED
    BY <1>3, <1>6, <2>1 DEF T
<1>8. ASSUME NEW s, s \in moved
      PROVE  \E i \in 1..Len(operations) : operations[i].type = "MOVE_SCENES" /\ s \in ToSet(operations[i].scenes)
  BY <1>1, <1>8
<1> HIDE DEF moved
<1> QED
  BY <1>7, <1>8

-----------------------------------------------------------------------------
(* What a change asks for holds once its plan is applied.                  *)

\* Nobody who is recorded absent is found blocked again.
LEMMA AnswerSettles ==
    ASSUME NEW state, IsKept(state), CheckStateInvariants(state) = {}, NEW change, IsChange(change),
           IsUnavailability(change), IsOperationAlreadyApplied(state, FactOperation(change))
    PROVE  AnalyzeImpact(state, change).conflicts = {}
<1>1. PICK op : op = FactOperation(change)
  OBVIOUS
<1>2. IsOperation(op) /\ IsFactOperation(op) /\ op.unavailable = change.unavailable
  BY <1>1, FactIsOperation DEF FactOperation, IsFactOperation
<1>3. \A s \in SubjectScenes(state, op) \cap Scheduled(state) :
         ~IsDateWithin(DateOf(state, ScheduledShootDay(state, s)), change.unavailable)
  BY <1>1, <1>2, AbsentIsNotScheduled
<1>4. ScheduledWithin(state, SubjectScenes(state, op), change.unavailable) = {}
  BY <1>3 DEF ScheduledWithin
<1>5. \A affected, subject, reason, code :
        affected = {} => BlockedScenes(state, affected, subject, reason, code).conflicts = {}
  BY DEF BlockedScenes
<1>6. CASE change.type = "CAST_UNAVAILABLE"
  <2>1. op.type = "RECORD_CAST_UNAVAILABILITY" /\ op.cast = change.cast
    BY <1>1, <1>6 DEF FactOperation
  <2>2. change.cast \in DOMAIN state.cast
    BY <1>1, <2>1 DEF IsOperationAlreadyApplied
  <2>3. SubjectScenes(state, op) = ScenesRequiringCast(state, change.cast)
    BY <2>1 DEF SubjectScenes
  <2> QED
    BY <1>4, <1>5, <1>6, <2>2, <2>3 DEF AnalyzeImpact, AnalyzeCastUnavailable
<1>7. CASE change.type = "LOCATION_UNAVAILABLE"
  <2>1. op.type = "RECORD_LOCATION_UNAVAILABILITY" /\ op.location = change.location
    BY <1>1, <1>7 DEF FactOperation
  <2>2. change.location \in DOMAIN state.locations
    BY <1>1, <2>1 DEF IsOperationAlreadyApplied
  <2>3. SubjectScenes(state, op) = ScenesAtLocation(state, change.location)
    BY <2>1 DEF SubjectScenes
  <2> QED
    BY <1>4, <1>5, <1>7, <2>2, <2>3 DEF AnalyzeImpact, AnalyzeLocationUnavailable
<1> QED
  BY <1>6, <1>7 DEF IsUnavailability

\* A requirement that was added is found there again.
LEMMA RequirementSettles ==
    ASSUME NEW state, IsKept(state), NEW change, change.type = "SCENE_REQUIREMENT_CHANGED",
           NEW op, op = [type |-> "ADD_SCENE_REQUIREMENT", scene |-> change.scene, kind |-> change.kind,
                         name |-> change.name],
           IsOperationAlreadyApplied(state, op)
    PROVE  AlreadyPresent(AnalyzeImpact(state, change))
<1>1. op.type = "ADD_SCENE_REQUIREMENT" /\ op.scene = change.scene /\ op.kind = change.kind /\ op.name = change.name
  OBVIOUS
<1>2. PICK existing : existing = EquivalentRequirements(state, change.scene, change.kind, change.name)
  OBVIOUS
<1>3. existing # {}
  BY <1>1, <1>2 DEF IsOperationAlreadyApplied
<1>4. PICK r \in existing : TRUE
  BY <1>3
<1>5. r \in DOMAIN state.requirements /\ state.requirements[r].scene = change.scene
  BY <1>2, <1>4 DEF EquivalentRequirements, RequirementsFor
<1>6. change.scene \in DOMAIN state.scenes
  BY <1>5 DEF IsKept, RequirementsAreListed, IsListed
<1>7. PICK first : first = CHOOSE q \in existing : TRUE
  OBVIOUS
<1>8. AnalyzeImpact(state, change) = RequirementPresent(state, first)
  BY <1>2, <1>3, <1>6, <1>7 DEF AnalyzeImpact, AnalyzeSceneRequirementChanged
<1>9. PICK found : found = Impact("REQUIREMENT", first, "SCENE_REQUIREMENT_ALREADY_PRESENT", "INFO")
  OBVIOUS
<1>10. found.reason = "SCENE_REQUIREMENT_ALREADY_PRESENT"
  BY <1>9 DEF Impact
<1>11. found \in RequirementPresent(state, first).impacts
  BY <1>9 DEF RequirementPresent
<1> QED
  BY <1>8, <1>10, <1>11 DEF AlreadyPresent

\* A scene on no day is Nobody's.
LEMMA OnNoDay ==
    ASSUME NEW state, DaysAreKept(state.days), NEW s
    PROVE  /\ (\A d \in DOMAIN state.days : s \notin Holds(state, d)) => ScheduledShootDay(state, s) = Nobody
           /\ ScheduledShootDay(state, s) \in DOMAIN state.days =>
                s \in Holds(state, ScheduledShootDay(state, s)) \/ ScheduledShootDay(state, s) = Nobody
           /\ \A d \in DOMAIN state.days : s \in Holds(state, d) => Placements(state, s) # {}
<1>1. CASE Placements(state, s) = {}
  <2>1. ScheduledShootDay(state, s) = Nobody
    BY <1>1 DEF ScheduledShootDay
  <2>2. ASSUME NEW d \in DOMAIN state.days, s \in Holds(state, d) PROVE FALSE
    <3>1. PICK i \in DOMAIN state.days[d].scenes : state.days[d].scenes[i] = s
      BY <2>2 DEF Holds, ToSet
    <3>2. <<d, i>> \in Placements(state, s)
      BY <3>1 DEF Placements
    <3> QED
      BY <1>1, <3>2
  <2> QED
    BY <2>1, <2>2
<1>2. CASE Placements(state, s) # {}
  <2>1. PICK d \in DOMAIN state.days : /\ ScheduledShootDay(state, s) = d
                                       /\ \E i \in DOMAIN state.days[d].scenes : state.days[d].scenes[i] = s
    BY <1>2, ScheduledSomewhere
  <2>2. s \in Holds(state, d)
    BY <2>1 DEF Holds, ToSet
  <2> QED
    BY <1>2, <2>1, <2>2
<1> QED
  BY <1>1, <1>2

\* Every scene a schedule change names is on its new day, or was on none.
LEMMA ScheduleSettles ==
    ASSUME NEW state, IsSnapshot(state), IsSound(state), Nobody \notin DOMAIN state.days,
           NEW change, change.scenes \in Seq(ToSet(change.scenes)), change.to \in DOMAIN state.days,
           NEW plan, plan = SchedulePlan(state, change), SimulateProposal(state, plan).valid,
           NEW post, post = ApplyOperations(state, plan).state,
           NEW s \in ToSet(change.scenes)
    PROVE  ScheduledShootDay(post, s) \in {change.to, Nobody}
<1>1. PICK moves : moves = MoveOperations(state, change.scenes, change.to)
  OBVIOUS
<1>2. /\ IsOperationList(plan) /\ IsOrderly(plan)
      /\ AreMovesOf(moves, state, change.scenes, change.to)
      /\ Len(moves) \in Nat /\ Len(plan) \in Nat /\ Len(moves) <= Len(plan)
      /\ \A i \in 1..Len(moves) : plan[i] = moves[i]
      /\ \A i \in 1..Len(plan) : i > Len(moves) => plan[i].type = "MARK_CALL_SHEET_STALE"
  BY <1>1, ScheduleIsOrderly
<1>3. /\ IsKept(post) /\ CheckStateInvariants(post) = {}
      /\ \A i \in 1..Len(plan) : IsOperationAlreadyApplied(post, plan[i])
  BY <1>2, ValidIsVerified
<1>4. IsKept(state)
  BY SoundIsListed DEF IsKept
<1>5. \A i \in 1..Len(plan) : plan[i].type = "MOVE_SCENES" => i \in 1..Len(moves)
  <2>1. ASSUME NEW i \in 1..Len(plan), plan[i].type = "MOVE_SCENES" PROVE i \in 1..Len(moves)
    <3>1. ~(i > Len(moves))
      BY <1>2, <2>1
    <3> QED
      BY <1>2, <3>1
  <2> QED
    BY <2>1
<1>6. AllMoveTo(plan, change.to)
  BY <1>2, <1>5 DEF AllMoveTo, AreMovesOf, SourcesOf
<1>7. ApplyOperations(state, plan).conflicts = {}
  BY DEF SimulateProposal
<1>8. /\ DOMAIN post.days = DOMAIN state.days
      /\ Holds(state, change.to) \subseteq Holds(post, change.to)
      /\ \/ \E i \in 1..Len(plan) : plan[i].type = "MOVE_SCENES" /\ s \in ToSet(plan[i].scenes)
         \/ \A d \in DOMAIN state.days : s \in Holds(post, d) => s \in Holds(state, d)
  BY <1>2, <1>4, <1>6, <1>7, DaysThroughAList
<1>9. DaysAreKept(state.days) /\ DaysAreKept(post.days)
  BY <1>3, <1>4, SnapshotParts DEF IsKept
<1>10. ASSUME s \in Holds(post, change.to) PROVE ScheduledShootDay(post, s) = change.to
  <2>1. s \in DOMAIN post.scenes
    BY <1>3, <1>8, <1>10, NothingDangles DEF Holds
  <2> QED
    BY <1>3, <1>8, <1>10, <2>1, BookedIsScheduled DEF Holds
<1>a. /\ \A i \in 1..Len(moves) :
           /\ moves[i].type = "MOVE_SCENES" /\ moves[i].to = change.to
           /\ moves[i].from \in SourcesOf(state, change.scenes, change.to)
           /\ ToSet(moves[i].scenes) = OnDay(state, change.scenes, moves[i].from)
      /\ \A d \in SourcesOf(state, change.scenes, change.to) : \E i \in 1..Len(moves) : moves[i].from = d
  BY <1>2 DEF AreMovesOf
<1>11. CASE ScheduledShootDay(state, s) \notin {Nobody, change.to}
  <2>0. PICK here : here = ScheduledShootDay(state, s)
    OBVIOUS
  <2>a. here \in SourcesOf(state, change.scenes, change.to) /\ s \in OnDay(state, change.scenes, here)
    BY <1>11, <2>0 DEF SourcesOf, OnDay
  <2>1. PICK j \in 1..Len(moves) : moves[j].from = here
    BY <1>a, <2>a
  <2>2. moves[j].type = "MOVE_SCENES" /\ moves[j].to = change.to /\ s \in ToSet(moves[j].scenes)
    BY <1>a, <2>1, <2>a
  <2>3. j \in 1..Len(plan)
    BY <1>2
  <2>4. ScenesMoved(post, moves[j])
    BY <1>2, <1>3, <2>2, <2>3 DEF IsOperationAlreadyApplied
  <2>b. PICK i \in DOMAIN moves[j].scenes : moves[j].scenes[i] = s
    BY <2>2 DEF ToSet
  <2>5. s \in Holds(post, change.to)
    BY <2>2, <2>4, <2>b DEF ScenesMoved, Holds
  <2> QED
    BY <1>10, <2>5
<1>12. CASE ScheduledShootDay(state, s) = change.to
  <2>1. s \in Holds(state, change.to)
    BY <1>9, <1>12, OnNoDay
  <2> QED
    BY <1>8, <1>10, <2>1
<1>13. CASE ScheduledShootDay(state, s) = Nobody
  <2>1. Placements(state, s) = {}
    BY <1>13, ScheduledSomewhere
  <2>2. \A d \in DOMAIN state.days : s \notin Holds(state, d)
    BY <1>9, <2>1, OnNoDay
  <2>3. ASSUME NEW i \in 1..Len(plan), plan[i].type = "MOVE_SCENES", s \in ToSet(plan[i].scenes) PROVE FALSE
    <3>1. i \in 1..Len(moves) /\ plan[i] = moves[i]
      BY <1>2, <1>5, <2>3
    <3>2. s \in OnDay(state, change.scenes, moves[i].from)
      BY <1>a, <2>3, <3>1
    <3>3. ScheduledShootDay(state, s) \in SourcesOf(state, change.scenes, change.to)
      BY <1>a, <3>1, <3>2 DEF OnDay
    <3> QED
      BY <1>13, <3>3 DEF SourcesOf
  <2>4. \A d \in DOMAIN post.days : s \notin Holds(post, d)
    BY <1>8, <2>2, <2>3
  <2> QED
    BY <1>9, <2>4, OnNoDay
<1> QED
  BY <1>11, <1>12, <1>13

-----------------------------------------------------------------------------
(* What an answer to an unavailability leaves alone, once the fact is      *)
(* recorded.                                                               *)

\* Moves and marks change where scenes are and which sheets are drafts.
LeavesAlone(state, now) ==
    /\ now.scenes = state.scenes /\ now.cast = state.cast /\ now.locations = state.locations
    /\ now.requirements = state.requirements /\ now.tasks = state.tasks
    /\ DOMAIN now.days = DOMAIN state.days
    /\ \A d \in DOMAIN state.days : DateOf(now, d) = DateOf(state, d)
    /\ DOMAIN now.sheets = DOMAIN state.sheets
    /\ \A c \in DOMAIN state.sheets : /\ now.sheets[c].day = state.sheets[c].day
                                      /\ now.sheets[c].status \in {state.sheets[c].status, "DRAFT"}

\* A turn without conflict.
LEMMA TurnLeaves ==
    ASSUME NEW before, IsApplication(before), NEW op, IsOperation(op),
           op.type \in {"MOVE_SCENES", "MARK_CALL_SHEET_STALE"}, NEW after, HasTurned(before, op, after)
    PROVE  LeavesAlone(before.state, after.state)
<1>1. CASE after.state = before.state
  BY <1>1 DEF LeavesAlone
<1>2. CASE /\ ~IsOperationAlreadyApplied(before.state, op) /\ Problems(before.state, op) = {}
           /\ after.state = Effect(before.state, op)
  <2>1. PICK old, new : old = before.state /\ new = after.state
    OBVIOUS
  <2>2. IsKept(old)
    BY <2>1 DEF IsApplication
  <2>3. /\ new.scenes = old.scenes /\ new.cast = old.cast /\ new.locations = old.locations
        /\ new.requirements = old.requirements /\ new.tasks = old.tasks
        /\ DOMAIN new.days = DOMAIN old.days
        /\ \A d \in DOMAIN old.days : new.days[d].date = old.days[d].date
        /\ DOMAIN new.sheets = DOMAIN old.sheets
        /\ \A c \in DOMAIN old.sheets : /\ new.sheets[c].day = old.sheets[c].day
                                        /\ new.sheets[c].status \in {old.sheets[c].status, "DRAFT"}
    BY <1>2, <2>1, <2>2, LaterLeaves
  <2>4. LeavesAlone(old, new)
    BY <2>3 DEF LeavesAlone, DateOf
  <2> QED
    BY <2>1, <2>4
<1> QED
  BY <1>1, <1>2 DEF HasTurned

\* And then another.
LEMMA LeavesStillAlone ==
    ASSUME NEW state, NEW now, NEW then, LeavesAlone(state, now), LeavesAlone(now, then)
    PROVE  LeavesAlone(state, then)
  BY DEF LeavesAlone

\* The state with the fact recorded differs from the stored one in the windows alone.
LEMMA FactRecorded ==
    ASSUME NEW state, IsKept(state), NEW change, IsChange(change), IsUnavailability(change),
           ReferencesExist(state, change), NEW fact, fact = FactOperation(change),
           NEW turn, turn = ApplyOperation(Begun(state), fact)
    PROVE  /\ SameFrame(state, turn.state) /\ turn.conflicts = {} /\ IsKept(turn.state)
           /\ turn.state = ApplyOperations(state, <<fact>>).state
<1>1. PICK range \in DateRanges : range = change.unavailable
  BY DEF IsChange
<1>2. PICK list : list = <<fact>>
  OBVIOUS
<1>3. PICK post : post = ApplyOperations(state, list).state
  OBVIOUS
<1>4. turn.state = post /\ turn = ApplyOperations(state, list)
  BY <1>2, <1>3, OneTurn
<1>5. IsOperationList(list)
  BY <1>2, FactIsOperation
<1>6. IsKept(post)
  BY <1>3, <1>5, AppliedKept DEF IsApplication
<1>7. IsSnapshot(state)
  BY DEF IsKept
<1>8. SameFrame(state, post) /\ Problems(state, fact) = {}
  <2>1. CASE change.type = "CAST_UNAVAILABLE"
    <3>1. fact.type = "RECORD_CAST_UNAVAILABILITY" /\ fact.cast = change.cast /\ fact.unavailable = range
      BY <1>1, <2>1 DEF FactOperation
    <3>2. change.cast \in DOMAIN state.cast
      BY <2>1 DEF ReferencesExist
    <3>3. /\ RangeIsRecorded(state.cast, post.cast, change.cast, range)
          /\ post.scenes = state.scenes /\ post.days = state.days /\ post.locations = state.locations
          /\ post.sheets = state.sheets /\ post.requirements = state.requirements /\ post.tasks = state.tasks
      BY <1>2, <1>3, <1>7, <3>1, <3>2, CastFactRecorded
    <3>4. Problems(state, fact) = {}
      BY <3>1, <3>2 DEF Problems
    <3> QED
      BY <3>3, <3>4 DEF SameFrame, RangeIsRecorded
  <2>2. CASE change.type = "LOCATION_UNAVAILABLE"
    <3>1. fact.type = "RECORD_LOCATION_UNAVAILABILITY" /\ fact.location = change.location /\ fact.unavailable = range
      BY <1>1, <2>2 DEF FactOperation
    <3>2. change.location \in DOMAIN state.locations
      BY <2>2 DEF ReferencesExist
    <3>3. /\ RangeIsRecorded(state.locations, post.locations, change.location, range)
          /\ post.scenes = state.scenes /\ post.days = state.days /\ post.cast = state.cast
          /\ post.sheets = state.sheets /\ post.requirements = state.requirements /\ post.tasks = state.tasks
      BY <1>2, <1>3, <1>7, <3>1, <3>2, LocationFactRecorded
    <3>4. Problems(state, fact) = {}
      BY <3>1, <3>2 DEF Problems
    <3> QED
      BY <3>3, <3>4 DEF SameFrame, RangeIsRecorded
  <2> QED
    BY <2>1, <2>2 DEF IsUnavailability
<1>9. turn.conflicts = {}
  BY <1>8, TurnOfOne
<1> QED
  BY <1>2, <1>3, <1>4, <1>6, <1>8, <1>9

\* The rest of a list of moves and marks leaves alone what its first operation made.
LEMMA AfterTheFirst ==
    ASSUME NEW state, IsKept(state), NEW operations, IsOperationList(operations), Len(operations) >= 1,
           \A i \in 1..Len(operations) : i > 1 => operations[i].type \in {"MOVE_SCENES", "MARK_CALL_SHEET_STALE"},
           ApplyOperations(state, operations).conflicts = {},
           NEW post, post = ApplyOperations(state, operations).state
    PROVE  LeavesAlone(ApplyOperation(Begun(state), operations[1]).state, post)
<1>1. PICK k \in Nat : k = Len(operations) /\ k >= 1
  BY OperationListFacts
<1>2. PICK after : after = Applying(state, operations)
  OBVIOUS
<1>3. /\ after[0] = Begun(state)
      /\ \A n \in 1..k : after[n] = ApplyOperation(after[n - 1], operations[n])
      /\ \A n \in 0..k : IsApplication(after[n])
      /\ \A n \in 1..k : HasTurned(after[n - 1], operations[n], after[n]) /\ IsOperation(operations[n])
      /\ post = after[k].state
  BY <1>1, <1>2, EveryTurnKept, NoConflictOnTheWay, OperationListFacts
<1>4. PICK first : first = ApplyOperation(Begun(state), operations[1]).state
  OBVIOUS
<1>5. after[1].state = first
  <2>1. 1 \in 1..k /\ 1 - 1 = 0
    BY <1>1
  <2> QED
    BY <1>3, <1>4, <2>1
<1> DEFINE T == {n \in 0..k : n >= 1 => LeavesAlone(first, after[n].state)}
<1>6. 0 \in T
  OBVIOUS
<1>7. ASSUME NEW n \in 1..k, n - 1 \in T PROVE n \in T
  <2>1. CASE n = 1
    <3>1. LeavesAlone(first, after[n].state)
      BY <1>5, <2>1 DEF LeavesAlone
    <3> QED
      BY <3>1
  <2>2. CASE n > 1
    <3>1. n - 1 >= 1 /\ n - 1 \in 0..k
      BY <2>2
    <3>2. LeavesAlone(first, after[n - 1].state)
      BY <1>7, <3>1
    <3>3. LeavesAlone(after[n - 1].state, after[n].state)
      BY <1>1, <1>3, <2>2, <3>1, TurnLeaves
    <3>4. LeavesAlone(first, after[n].state)
      BY <3>2, <3>3, LeavesStillAlone
    <3> QED
      BY <3>4
  <2> QED
    BY <2>1, <2>2
<1> HIDE DEF T
<1>8. \A n \in 0..k : n \in T
  BY <1>6, <1>7, BoundedInduction
<1>9. k \in 0..k /\ k >= 1
  BY <1>1
<1> QED
  BY <1>3, <1>4, <1>8, <1>9 DEF T

\* Where a scene is depends on the days alone.
LEMMA SameDaysSamePlace ==
    ASSUME NEW state, NEW now, now.days = state.days, NEW s
    PROVE  ScheduledShootDay(now, s) = ScheduledShootDay(state, s) /\ Placements(now, s) = Placements(state, s)
<1>1. Placements(now, s) = Placements(state, s)
  BY DEF Placements
<1> QED
  BY <1>1 DEF ScheduledShootDay

-----------------------------------------------------------------------------
(* No candidate means that no day would do.                                *)

\* The ripple of a disruption names no scene.
LEMMA RippleNamesNoScene ==
    ASSUME NEW state, NEW affected, NEW subject, NEW includeAttached,
           NEW i \in PropagateFromScenes(state, affected, subject, includeAttached)
    PROVE  i.type # "SCENE"
<1>0. \A type, id, reason, severity : Impact(type, id, reason, severity).type = type
  BY DEF Impact
<1>1. \A type, id : \A j \in OpenTasks(state, type, id) : j.type = "TASK"
  BY <1>0 DEF OpenTasks
<1>2. ASSUME NEW day, NEW j \in DayRipple(state, day) PROVE j.type # "SCENE"
  <2>1. \/ j = Impact("SHOOT_DAY", day, "SHOOT_DAY_CONTAINS_AFFECTED_SCENE", "WARNING")
        \/ \E c : j = Impact("CALL_SHEET", c, "CALL_SHEET_DERIVED_FROM_AFFECTED_SHOOT_DAY", "WARNING")
        \/ \E c : j \in OpenTasks(state, "CALL_SHEET", c)
        \/ j \in OpenTasks(state, "SHOOT_DAY", day)
    BY <1>2 DEF DayRipple
  <2> QED
    BY <1>0, <1>1, <2>1
<1>3. \A s : \A j \in AttachedEntities(state, s, subject) : j.type # "SCENE"
  BY DEF AttachedEntities, Impact
<1>4. \/ \E s \in affected : i \in DayRipple(state, ScheduledShootDay(state, s))
      \/ \E s \in affected : i \in OpenTasks(state, "SCENE", s)
      \/ \E s \in affected : i \in AttachedEntities(state, s, subject)
  <2>1. PICK days, tasks, attached :
          /\ days = UNION {DayRipple(state, ScheduledShootDay(state, s)) : s \in affected}
          /\ tasks = UNION {OpenTasks(state, "SCENE", s) : s \in affected}
          /\ attached = UNION {AttachedEntities(state, s, subject) : s \in affected}
    OBVIOUS
  <2>2. i \in days \cup tasks \cup attached
    <3>1. PropagateFromScenes(state, affected, subject, includeAttached) =
            days \cup tasks \cup IF includeAttached THEN attached ELSE {}
      BY <2>1 DEF PropagateFromScenes
    <3> QED
      BY <3>1
  <2>3. i \in days => \E s \in affected : i \in DayRipple(state, ScheduledShootDay(state, s))
    BY <2>1
  <2>4. i \in tasks => \E s \in affected : i \in OpenTasks(state, "SCENE", s)
    BY <2>1
  <2>5. i \in attached => \E s \in affected : i \in AttachedEntities(state, s, subject)
    BY <2>1
  <2> QED
    BY <2>2, <2>3, <2>4, <2>5
<1> QED
  BY <1>1, <1>2, <1>3, <1>4

\* The scenes an analysis blocks.
LEMMA BlockingImpacts ==
    ASSUME NEW state, NEW affected, NEW subject, NEW reason, NEW code
    PROVE  {i.id : i \in {i \in BlockedScenes(state, affected, subject, reason, code).impacts :
                            i.severity = "BLOCKING" /\ i.type = "SCENE"}} = affected
<1>1. PICK own : own = {Impact("SCENE", s, reason, "BLOCKING") : s \in affected}
  OBVIOUS
<1>2. PICK ripple : ripple = PropagateFromScenes(state, affected, subject, TRUE)
  OBVIOUS
<1>3. \A i \in ripple : i.type # "SCENE"
  BY <1>2, RippleNamesNoScene
<1>a. \A s : LET i == Impact("SCENE", s, reason, "BLOCKING")
             IN  i.type = "SCENE" /\ i.severity = "BLOCKING" /\ i.id = s
  BY DEF Impact
<1>4. \A i \in own : i.type = "SCENE" /\ i.severity = "BLOCKING" /\ i.id \in affected
  BY <1>1, <1>a
<1>5. \A s \in affected : \E i \in own : i.id = s
  BY <1>1, <1>a
<1>6. BlockedScenes(state, affected, subject, reason, code).impacts = own \cup ripple
  BY <1>1, <1>2 DEF BlockedScenes
<1> QED
  BY <1>3, <1>4, <1>5, <1>6

\* They are the subject's scenes scheduled in the window.
LEMMA BlockedAre ==
    ASSUME NEW state, NEW change, IsUnavailability(change), ReferencesExist(state, change)
    PROVE  BlockedByAnalysis(state, AnalyzeImpact(state, change)) =
             ScheduledWithin(state, SubjectScenes(state, FactOperation(change)), change.unavailable)
<1>1. PICK scenes : scenes = SubjectScenes(state, FactOperation(change))
  OBVIOUS
<1>2. PICK affected : affected = ScheduledWithin(state, scenes, change.unavailable)
  OBVIOUS
<1>3. affected \subseteq Scheduled(state)
  BY <1>2 DEF ScheduledWithin
<1>4. \E subject, reason, code : AnalyzeImpact(state, change) = BlockedScenes(state, affected, subject, reason, code)
  <2>1. CASE change.type = "CAST_UNAVAILABLE"
    <3>1. change.cast \in DOMAIN state.cast
      BY <2>1 DEF ReferencesExist
    <3>2. scenes = ScenesRequiringCast(state, change.cast)
      BY <1>1, <2>1 DEF SubjectScenes, FactOperation
    <3> QED
      BY <1>2, <2>1, <3>1, <3>2 DEF AnalyzeImpact, AnalyzeCastUnavailable
  <2>2. CASE change.type = "LOCATION_UNAVAILABLE"
    <3>1. change.location \in DOMAIN state.locations
      BY <2>2 DEF ReferencesExist
    <3>2. scenes = ScenesAtLocation(state, change.location)
      BY <1>1, <2>2 DEF SubjectScenes, FactOperation
    <3> QED
      BY <1>2, <2>2, <3>1, <3>2 DEF AnalyzeImpact, AnalyzeLocationUnavailable
  <2> QED
    BY <2>1, <2>2 DEF IsUnavailability
<1>5. PICK subject, reason, code :
        AnalyzeImpact(state, change) = BlockedScenes(state, affected, subject, reason, code)
  BY <1>4
<1>6. {i.id : i \in {i \in AnalyzeImpact(state, change).impacts :
                       i.severity = "BLOCKING" /\ i.type = "SCENE"}} = affected
  BY <1>5, BlockingImpacts
<1> QED
  BY <1>1, <1>2, <1>3, <1>6 DEF BlockedByAnalysis

\* An analysis that blocks something is of somebody who exists.
LEMMA BlockedExist ==
    ASSUME NEW state, NEW change, IsUnavailability(change), AnalyzeImpact(state, change).impacts # {}
    PROVE  ReferencesExist(state, change)
<1>1. \A type, id : UnknownReference(type, id).impacts = {}
  BY DEF UnknownReference
<1>2. CASE change.type = "CAST_UNAVAILABLE"
  BY <1>1, <1>2 DEF AnalyzeImpact, AnalyzeCastUnavailable, ReferencesExist
<1>3. CASE change.type = "LOCATION_UNAVAILABLE"
  BY <1>1, <1>3 DEF AnalyzeImpact, AnalyzeLocationUnavailable, ReferencesExist
<1> QED
  BY <1>2, <1>3 DEF IsUnavailability

\* The parts of an answer, by place.
LEMMA PlacesInAnAnswer ==
    ASSUME NEW plan, NEW fact, NEW moves, NEW marks, NEW state, NEW list, NEW target,
           IsMadeOf(plan, fact, moves, marks, state, list, target)
    PROVE  /\ Len(moves) \in Nat /\ Len(marks) \in Nat /\ Len(plan) = 1 + Len(moves) + Len(marks)
           /\ plan[1] = fact
           /\ \A i \in 1..Len(moves) : plan[1 + i] = moves[i]
           /\ \A i \in 1..Len(marks) : plan[1 + Len(moves) + i] = marks[i]
<1>1. /\ plan = (<<fact>> \o moves) \o marks
      /\ IsOperationList(<<fact>>) /\ IsOperationList(moves) /\ IsOperationList(marks)
      /\ IsOperationList(<<fact>> \o moves)
  BY DEF IsMadeOf
<1>2. PICK first, some : first = <<fact>> /\ some = first \o moves
  OBVIOUS
<1>3. PICK m \in Nat, n \in Nat : m = Len(moves) /\ n = Len(marks)
  BY <1>1, JoinedAt
<1>4. Len(first) = 1 /\ first[1] = fact
  BY <1>2
<1>5. Len(some) = 1 + m /\ \A i \in 1..(1 + m) : some[i] = IF i <= 1 THEN first[i] ELSE moves[i - 1]
  BY <1>1, <1>2, <1>3, <1>4, JoinedAt
<1>6. /\ Len(plan) = (1 + m) + n
      /\ \A i \in 1..((1 + m) + n) : plan[i] = IF i <= 1 + m THEN some[i] ELSE marks[i - (1 + m)]
  BY <1>1, <1>2, <1>3, <1>5, JoinedAt
<1>7. plan[1] = fact
  <2>1. 1 \in 1..((1 + m) + n) /\ 1 <= 1 + m /\ 1 \in 1..(1 + m)
    OBVIOUS
  <2> QED
    BY <1>4, <1>5, <1>6, <2>1
<1>8. ASSUME NEW i \in 1..m PROVE plan[1 + i] = moves[i]
  <2>1. 1 + i \in 1..((1 + m) + n) /\ 1 + i <= 1 + m /\ 1 + i \in 1..(1 + m) /\ ~(1 + i <= 1) /\ (1 + i) - 1 = i
    OBVIOUS
  <2> QED
    BY <1>5, <1>6, <2>1
<1>9. ASSUME NEW i \in 1..n PROVE plan[1 + m + i] = marks[i]
  <2>1. /\ 1 + m + i \in 1..((1 + m) + n) /\ ~(1 + m + i <= 1 + m) /\ (1 + m + i) - (1 + m) = i
    OBVIOUS
  <2> QED
    BY <1>6, <2>1
<1> QED
  BY <1>3, <1>6, <1>7, <1>8, <1>9

\* What comes after the fact moves to the target or marks.
LEMMA RestOfAnAnswer ==
    ASSUME NEW plan, NEW fact, NEW moves, NEW marks, NEW state, NEW list, NEW target,
           IsMadeOf(plan, fact, moves, marks, state, list, target)
    PROVE  /\ \A i \in 1..Len(plan) : i > 1 => plan[i].type \in {"MOVE_SCENES", "MARK_CALL_SHEET_STALE"}
           /\ AllMoveTo(plan, target)
<1>1. /\ Len(moves) \in Nat /\ Len(marks) \in Nat /\ Len(plan) = 1 + Len(moves) + Len(marks)
      /\ plan[1] = fact
      /\ \A i \in 1..Len(moves) : plan[1 + i] = moves[i]
      /\ \A i \in 1..Len(marks) : plan[1 + Len(moves) + i] = marks[i]
  BY PlacesInAnAnswer
<1>2. PICK m \in Nat, n \in Nat : m = Len(moves) /\ n = Len(marks)
  BY <1>1
<1>3. /\ \A i \in 1..m : moves[i].type = "MOVE_SCENES" /\ moves[i].to = target /\ moves[i].from # target
      /\ \A i \in 1..n : marks[i].type = "MARK_CALL_SHEET_STALE"
      /\ fact.type # "MOVE_SCENES"
  BY <1>2 DEF IsMadeOf, AreMovesOf, AreMarksOf, SourcesOf, IsFactOperation
<1>4. ASSUME NEW i \in 1..Len(plan)
      PROVE  /\ i > 1 => plan[i].type \in {"MOVE_SCENES", "MARK_CALL_SHEET_STALE"}
             /\ plan[i].type = "MOVE_SCENES" => plan[i].to = target /\ plan[i].from # target
  <2>1. CASE i = 1
    BY <1>1, <1>3, <2>1
  <2>2. CASE i > 1 /\ i <= 1 + m
    <3>1. i - 1 \in 1..m /\ 1 + (i - 1) = i
      BY <2>2
    <3>2. plan[i] = moves[i - 1]
      BY <1>1, <1>2, <3>1
    <3> QED
      BY <1>3, <3>1, <3>2
  <2>3. CASE i > 1 + m
    <3>1. i - (1 + m) \in 1..n /\ 1 + m + (i - (1 + m)) = i
      BY <1>1, <1>2, <2>3
    <3>2. plan[i] = marks[i - (1 + m)]
      BY <1>1, <1>2, <3>1
    <3> QED
      BY <1>3, <3>1, <3>2
  <2> QED
    BY <1>1, <1>2, <2>1, <2>2, <2>3
<1> QED
  BY <1>4 DEF AllMoveTo

\* The subject of a fact is the same in states with the same scenes.
LEMMA SameSubject ==
    ASSUME NEW state, NEW now, now.scenes = state.scenes, NEW op
    PROVE  SubjectScenes(now, op) = SubjectScenes(state, op)
  BY DEF SubjectScenes, ScenesRequiringCast, ScenesAtLocation

\* Scenes named by an analysis exist and are on days.
LEMMA WithinAreScheduled ==
    ASSUME NEW state, NEW subjects, NEW range, NEW s \in ScheduledWithin(state, subjects, range)
    PROVE  /\ s \in subjects /\ s \in DOMAIN state.scenes /\ s \in Scheduled(state)
           /\ ScheduledShootDay(state, s) \in DOMAIN state.days
           /\ s \in Holds(state, ScheduledShootDay(state, s))
           /\ IsDateWithin(DateOf(state, ScheduledShootDay(state, s)), range)
<1>1. s \in subjects /\ s \in Scheduled(state) /\ IsDateWithin(DateOf(state, ScheduledShootDay(state, s)), range)
  BY DEF ScheduledWithin
<1>2. s \in DOMAIN state.scenes /\ Placements(state, s) # {}
  BY <1>1 DEF Scheduled
<1>3. PICK d \in DOMAIN state.days : /\ ScheduledShootDay(state, s) = d
                                     /\ \E i \in DOMAIN state.days[d].scenes : state.days[d].scenes[i] = s
  BY <1>2, ScheduledSomewhere
<1>4. s \in Holds(state, d)
  BY <1>3 DEF Holds, ToSet
<1> QED
  BY <1>1, <1>2, <1>3, <1>4

\* A day an answer would do for is a candidate.
LEMMA WhatWouldDoIsACandidate ==
    ASSUME NEW state, IsSnapshot(state), IsSound(state), Nobody \notin DOMAIN state.days,
           NEW change, IsChange(change), IsUnavailability(change), ReferencesExist(state, change),
           NEW scenes, scenes = BlockedByAnalysis(state, AnalyzeImpact(state, change)),
           NEW d \in DOMAIN state.days,
           NEW plan, plan = UnavailabilityPlan(state, change, scenes, d), SimulateProposal(state, plan).valid
    PROVE  d \in CandidatesFor(state, change, scenes)
<1>1. PICK fact : fact = FactOperation(change)
  OBVIOUS
<1>2. IsOperation(fact) /\ IsFactOperation(fact) /\ fact.unavailable = change.unavailable
  BY <1>1, FactIsOperation DEF FactOperation, IsFactOperation
<1>3. scenes = ScheduledWithin(state, SubjectScenes(state, fact), change.unavailable)
  BY <1>1, BlockedAre
<1>4. IsFiniteSet(scenes) /\ scenes \subseteq DOMAIN state.scenes
  <2>1. scenes \subseteq DOMAIN state.scenes
    BY <1>3, WithinAreScheduled
  <2>2. IsFiniteSet(DOMAIN state.scenes)
    BY DEF IsSnapshot
  <2> QED
    BY <2>1, <2>2, FS_Subset
<1>5. PICK list : list = SetToSeq(scenes)
  OBVIOUS
<1>6. PICK moves, marks : /\ moves = MoveOperations(state, list, d)
                          /\ marks = StaleMarks(state, SourceDays(state, scenes), d)
  OBVIOUS
<1>7. IsMadeOf(plan, fact, moves, marks, state, list, d) /\ ToSet(list) = scenes
  BY <1>1, <1>4, <1>5, <1>6, AnswerParts
<1>8. PICK post : post = ApplyOperations(state, plan).state
  OBVIOUS
<1>9. IsOperationList(plan) /\ IsOrderly(plan)
  BY <1>4, AnswerIsOrderly
<1>10. /\ IsKept(post) /\ CheckStateInvariants(post) = {}
       /\ \A i \in 1..Len(plan) : IsOperationAlreadyApplied(post, plan[i])
  BY <1>8, <1>9, ValidIsVerified
<1>11. ApplyOperations(state, plan).conflicts = {} /\ IsKept(state)
  BY SoundIsListed DEF SimulateProposal, IsKept
<1>12. /\ Len(moves) \in Nat /\ Len(marks) \in Nat /\ Len(plan) = 1 + Len(moves) + Len(marks)
       /\ plan[1] = fact
       /\ \A i \in 1..Len(moves) : plan[1 + i] = moves[i]
  BY <1>7, PlacesInAnAnswer
<1>13. /\ \A i \in 1..Len(plan) : i > 1 => plan[i].type \in {"MOVE_SCENES", "MARK_CALL_SHEET_STALE"}
       /\ AllMoveTo(plan, d)
  BY <1>7, RestOfAnAnswer
<1>14. PICK turn : turn = ApplyOperation(Begun(state), fact)
  OBVIOUS
<1>15. PICK now : now = turn.state
  OBVIOUS
<1>16. SameFrame(state, now) /\ IsKept(now) /\ now = ApplyOperations(state, <<fact>>).state
  BY <1>1, <1>11, <1>14, <1>15, FactRecorded
<1>17. LeavesAlone(now, post)
  <2>1. Len(plan) >= 1
    BY <1>12
  <2> QED
    BY <1>8, <1>9, <1>11, <1>12, <1>13, <1>14, <1>15, <2>1, AfterTheFirst
<1>18. /\ DOMAIN post.days = DOMAIN state.days /\ DateOf(post, d) = DateOf(state, d)
       /\ Holds(state, d) \subseteq Holds(post, d)
  BY <1>8, <1>9, <1>11, <1>13, DaysThroughAList
<1>19. /\ post.scenes = state.scenes /\ post.cast = now.cast /\ post.locations = now.locations
       /\ now.scenes = state.scenes /\ now.days = state.days
  BY <1>16, <1>17 DEF LeavesAlone, SameFrame
<1>20. ASSUME NEW s \in scenes
       PROVE  /\ s \in Holds(post, d) /\ s \in Scheduled(post) /\ ScheduledShootDay(post, s) = d
              /\ ScheduledShootDay(state, s) # d
  <2>1. PICK here : here = ScheduledShootDay(state, s)
    OBVIOUS
  <2>2. /\ s \in SubjectScenes(state, fact) /\ s \in DOMAIN state.scenes
        /\ here \in DOMAIN state.days /\ s \in Holds(state, here)
        /\ IsDateWithin(DateOf(state, here), change.unavailable)
    BY <1>3, <2>1, WithinAreScheduled
  <2>3. ASSUME here = d PROVE s \in Holds(post, d)
    BY <1>18, <2>2, <2>3
  <2>4. ASSUME here # d PROVE s \in Holds(post, d)
    <3>1. here \in SourcesOf(state, list, d) /\ s \in OnDay(state, list, here)
      BY <1>7, <2>1, <2>2, <2>4 DEF SourcesOf, OnDay
    <3>2. AreMovesOf(moves, state, list, d)
      BY <1>7 DEF IsMadeOf
    <3>3. PICK j \in 1..Len(moves) : moves[j].from = here
      BY <3>1, <3>2 DEF AreMovesOf
    <3>4. moves[j].type = "MOVE_SCENES" /\ moves[j].to = d /\ ToSet(moves[j].scenes) = OnDay(state, list, here)
      BY <3>2, <3>3 DEF AreMovesOf
    <3>5. 1 + j \in 1..Len(plan)
      BY <1>12
    <3>6. ScenesMoved(post, moves[j])
      BY <1>10, <1>12, <3>4, <3>5 DEF IsOperationAlreadyApplied
    <3>7. PICK i \in DOMAIN moves[j].scenes : moves[j].scenes[i] = s
      BY <3>1, <3>4 DEF ToSet
    <3> QED
      BY <3>4, <3>6, <3>7 DEF ScenesMoved, Holds
  <2>5. s \in Holds(post, d)
    BY <2>3, <2>4
  <2>6. s \in Scheduled(post) /\ ScheduledShootDay(post, s) = d
    BY <1>10, <1>18, <1>19, <2>2, <2>5, BookedIsScheduled DEF Holds
  <2>7. ASSUME here = d PROVE FALSE
    <3>1. s \in SubjectScenes(post, fact)
      BY <1>19, <2>2, SameSubject
    <3>2. IsOperationAlreadyApplied(post, fact)
      <4>1. 1 \in 1..Len(plan)
        BY <1>12
      <4> QED
        BY <1>10, <1>12, <4>1
    <3>3. ~IsDateWithin(DateOf(post, d), change.unavailable)
      BY <1>2, <1>10, <2>6, <3>1, <3>2, AbsentIsNotScheduled
    <3> QED
      BY <1>18, <2>2, <2>7, <3>3
  <2> QED
    BY <2>1, <2>5, <2>6, <2>7
<1>21. ASSUME NEW s \in scenes PROVE CanHost(now, d, s)
  <2>1. s \in Holds(post, d) /\ s \in DOMAIN post.scenes
    BY <1>4, <1>19, <1>20
  <2>2. PICK i \in DOMAIN post.days[d].scenes : s = post.days[d].scenes[i]
    BY <2>1 DEF Holds, ToSet
  <2>3. PICK day : day = post.days[d].date
    OBVIOUS
  <2>4. /\ \A c \in post.scenes[s].cast : day \notin DaysOf(post.cast[c])
        /\ day \notin DaysOf(post.locations[post.scenes[s].location])
    BY <1>10, <1>18, <2>2, <2>3, NobodyIsBlocked
  <2>5. post.scenes[s].location \in DOMAIN post.locations /\ post.scenes[s].cast \subseteq DOMAIN post.cast
    BY <1>10, <2>1, NothingDangles
  <2>6. WindowsAreKept(post.cast) /\ WindowsAreKept(post.locations) /\ DaysAreKept(post.days)
    BY <1>10, SnapshotParts DEF IsKept
  <2>7. day \in Int /\ day = DateOf(now, d)
    BY <1>18, <1>19, <2>3, <2>6 DEF DaysAreKept, DateOf
  <2>8. \A c \in post.scenes[s].cast : ~IsBlockedOn(post.cast[c], day)
    <3>1. ASSUME NEW c \in post.scenes[s].cast PROVE ~IsBlockedOn(post.cast[c], day)
      <4>1. post.cast[c] \in Seq(DateRanges)
        BY <2>5, <2>6 DEF WindowsAreKept
      <4> QED
        BY <2>4, <2>7, <4>1, BlockedMeansItsDay
    <3> QED
      BY <3>1
  <2>9. ~IsBlockedOn(post.locations[post.scenes[s].location], day)
    <3>1. post.locations[post.scenes[s].location] \in Seq(DateRanges)
      BY <2>5, <2>6 DEF WindowsAreKept
    <3> QED
      BY <2>4, <2>7, <3>1, BlockedMeansItsDay
  <2> QED
    BY <1>19, <2>5, <2>7, <2>8, <2>9 DEF CanHost
<1>22. \A s \in scenes : ScheduledShootDay(now, s) # d
  BY <1>19, <1>20, SameDaysSamePlace
<1>23. d \in GenerateScheduleCandidates(now, scenes, {})
  BY <1>4, <1>19, <1>21, <1>22 DEF GenerateScheduleCandidates
<1> QED
  BY <1>1, <1>16, <1>23 DEF CandidatesFor

-----------------------------------------------------------------------------
(* Lists that hold nothing twice.                                          *)

\* A list that holds nothing twice.
IsOnce(list) == \A i, j \in DOMAIN list : list[i] = list[j] => i = j

\* Something new at the end.
LEMMA AppendOnce ==
    ASSUME NEW list, NEW n \in Nat, DOMAIN list = 1..n, IsOnce(list), NEW e, e \notin ToSet(list),
           NEW longer, DOMAIN longer = 1..(n + 1), longer[n + 1] = e, \A i \in 1..n : longer[i] = list[i]
    PROVE  ToSet(longer) = ToSet(list) \cup {e} /\ IsOnce(longer)
<1>3. \A i \in 1..n : list[i] # e
  BY DEF ToSet
<1>4. \A i \in 1..(n + 1) : i \in 1..n \/ i = n + 1
  OBVIOUS
<1>5. IsOnce(longer)
  <2>1. ASSUME NEW i \in 1..(n + 1), NEW j \in 1..(n + 1), longer[i] = longer[j] PROVE i = j
    <3>1. CASE i \in 1..n /\ j \in 1..n
      BY <2>1, <3>1 DEF IsOnce
    <3>2. CASE i = n + 1 /\ j \in 1..n
      BY <1>3, <2>1, <3>2
    <3>3. CASE i \in 1..n /\ j = n + 1
      BY <1>3, <2>1, <3>3
    <3> QED
      BY <1>4, <3>1, <3>2, <3>3
  <2> QED
    BY <2>1 DEF IsOnce
<1>6. ToSet(longer) = ToSet(list) \cup {e}
  <2>1. 1..(n + 1) = 1..n \cup {n + 1}
    OBVIOUS
  <2> QED
    BY <2>1 DEF ToSet
<1> QED
  BY <1>5, <1>6

\* What is selected from such a list.
LEMMA SelectedOnce ==
    ASSUME NEW list, list \in Seq(ToSet(list)), IsOnce(list), NEW kept
    PROVE  IsOnce(Selected(list, kept))
<1>1. PICK k \in Nat : k = Len(list) /\ DOMAIN list = 1..k
  OBVIOUS
<1>2. \A n \in 1..k : list[n] \in ToSet(list)
  BY <1>1
<1>3. PICK f : /\ Selected(list, kept) = f[k] /\ f[0] = <<>>
               /\ \A n \in 1..k : f[n] = IF list[n] \in kept THEN Append(f[n - 1], list[n]) ELSE f[n - 1]
  BY <1>1, <1>2, SelectedUnfolds
<1>4. PICK S : S = ToSet(list)
  OBVIOUS
<1> DEFINE First(n) == {list[i] : i \in 1..n}
           T == {n \in 0..k : f[n] \in Seq(S) /\ ToSet(f[n]) \subseteq First(n) /\ IsOnce(f[n])}
<1>5. 0 \in T
  <2>1. f[0] \in Seq(S) /\ DOMAIN f[0] = {}
    BY <1>3
  <2>2. ToSet(f[0]) = {} /\ IsOnce(f[0])
    BY <2>1 DEF ToSet, IsOnce
  <2> QED
    BY <2>1, <2>2
<1>6. ASSUME NEW n \in 1..k, n - 1 \in T PROVE n \in T
  <2>1. PICK old \in Seq(S) : old = f[n - 1]
    BY <1>6
  <2>2. ToSet(old) \subseteq First(n - 1) /\ IsOnce(old) /\ list[n] \in S
    BY <1>2, <1>4, <1>6, <2>1
  <2>3. First(n) = First(n - 1) \cup {list[n]}
    <3>1. 1..n = 1..(n - 1) \cup {n}
      OBVIOUS
    <3> QED
      BY <3>1
  <2>4. list[n] \notin First(n - 1)
    <3>1. \A i \in 1..(n - 1) : i \in 1..k /\ i # n
      OBVIOUS
    <3>2. \A i \in 1..(n - 1) : list[i] # list[n]
      BY <1>1, <3>1 DEF IsOnce
    <3> QED
      BY <3>2
  <2>5. CASE list[n] \in kept
    <3>1. PICK new : new = Append(old, list[n])
      OBVIOUS
    <3>a. list[n] \notin ToSet(old)
      BY <2>2, <2>4
    <3>2. new \in Seq(S) /\ ToSet(new) = ToSet(old) \cup {list[n]} /\ IsOnce(new)
      <4>1. PICK m \in Nat : m = Len(old) /\ DOMAIN old = 1..m
        BY <2>1
      <4>2. new \in Seq(S) /\ DOMAIN new = 1..(m + 1) /\ new[m + 1] = list[n] /\ \A i \in 1..m : new[i] = old[i]
        BY <2>2, <3>1, <4>1
      <4> QED
        BY <2>2, <3>a, <4>1, <4>2, AppendOnce
    <3>3. f[n] = new
      BY <1>3, <2>1, <2>5, <3>1
    <3> HIDE DEF First
    <3> QED
      BY <2>2, <2>3, <3>2, <3>3
  <2>6. CASE list[n] \notin kept
    <3>1. f[n] = old
      BY <1>3, <2>1, <2>6
    <3> HIDE DEF First
    <3> QED
      BY <2>2, <2>3, <3>1
  <2> QED
    BY <2>5, <2>6
<1> HIDE DEF T
<1>7. k \in 0..k /\ \A n \in 0..k : n \in T
  BY <1>5, <1>6, BoundedInduction
<1> QED
  BY <1>3, <1>7 DEF T

\* Two such lists without a common member in one.
LEMMA ConcatOnce ==
    ASSUME NEW a, NEW b, a \in Seq(ToSet(a)), b \in Seq(ToSet(b)), IsOnce(a), IsOnce(b),
           ToSet(a) \cap ToSet(b) = {}
    PROVE  IsOnce(a \o b)
<1>1. PICK S : S = ToSet(a) \cup ToSet(b)
  OBVIOUS
<1>2. a \in Seq(S) /\ b \in Seq(S)
  BY <1>1
<1>3. PICK joined : joined = a \o b
  OBVIOUS
<1>4. PICK m \in Nat, n \in Nat : m = Len(a) /\ n = Len(b)
  BY <1>2
<1>5. /\ DOMAIN joined = 1..(m + n) /\ DOMAIN a = 1..m /\ DOMAIN b = 1..n
      /\ \A i \in 1..(m + n) : joined[i] = IF i <= m THEN a[i] ELSE b[i - m]
  BY <1>2, <1>3, <1>4, ConcatProperties, LenProperties
<1>6. \A i \in 1..m, j \in 1..n : a[i] # b[j]
  BY <1>5 DEF ToSet
<1>7. ASSUME NEW i \in 1..(m + n), NEW j \in 1..(m + n), joined[i] = joined[j] PROVE i = j
  <2>1. CASE i <= m /\ j <= m
    <3>1. i \in 1..m /\ j \in 1..m
      BY <2>1
    <3> QED
      BY <1>5, <1>7, <2>1, <3>1 DEF IsOnce
  <2>2. CASE i <= m /\ ~(j <= m)
    <3>1. i \in 1..m /\ j - m \in 1..n
      BY <2>2
    <3> QED
      BY <1>5, <1>6, <1>7, <2>2, <3>1
  <2>3. CASE ~(i <= m) /\ j <= m
    <3>1. j \in 1..m /\ i - m \in 1..n
      BY <2>3
    <3> QED
      BY <1>5, <1>6, <1>7, <2>3, <3>1
  <2>4. CASE ~(i <= m) /\ ~(j <= m)
    <3>1. i - m \in 1..n /\ j - m \in 1..n
      BY <2>4
    <3>2. b[i - m] = b[j - m]
      BY <1>5, <1>7, <2>4
    <3>3. i - m = j - m
      BY <1>5, <3>1, <3>2 DEF IsOnce
    <3> QED
      BY <3>3
  <2> QED
    BY <2>1, <2>2, <2>3, <2>4
<1> QED
  BY <1>3, <1>5, <1>7 DEF IsOnce

-----------------------------------------------------------------------------
(* The moves of an answer, one after the other.                            *)

\* Scenes that are gone from their days to the target, and nothing else is elsewhere.
HaveGone(state, now, target, gone) ==
    /\ DOMAIN now.days = DOMAIN state.days
    /\ \A d \in DOMAIN state.days :
         /\ Holds(now, d) = IF d = target THEN Holds(state, d) \cup gone ELSE Holds(state, d) \ gone
         /\ IsOnce(now.days[d].scenes)

\* A move of the scenes one day still holds goes through, whatever was moved from other days before.
LEMMA MoveGoesThrough ==
    ASSUME NEW state, IsKept(state), CheckStateInvariants(state) = {},
           NEW list, list \in Seq(ToSet(list)), IsOnce(list), ToSet(list) \subseteq Scheduled(state),
           NEW target \in DOMAIN state.days, NEW gone,
           NEW op, IsOperation(op), op.type = "MOVE_SCENES", op.to = target,
           op.from \in SourcesOf(state, list, target),
           op.scenes = Selected(list, OnDay(state, list, op.from)),
           ToSet(op.scenes) = OnDay(state, list, op.from),
           \A s \in gone : ScheduledShootDay(state, s) # op.from,
           NEW now, IsKept(now), HaveGone(state, now, target, gone), now.scenes = state.scenes
    PROVE  /\ ~IsOperationAlreadyApplied(now, op) /\ Problems(now, op) = {}
           /\ HaveGone(state, Effect(now, op), target, gone \cup OnDay(state, list, op.from))
<1>1. PICK from, moved : from = op.from /\ moved = OnDay(state, list, op.from)
  OBVIOUS
<1>2. \A s \in moved : /\ s \in DOMAIN state.scenes /\ s \in Scheduled(state) /\ ScheduledShootDay(state, s) = from
                       /\ s \notin gone
  BY <1>1 DEF OnDay, Scheduled
<1>3. moved # {}
  <2>1. PICK s \in ToSet(list) : ScheduledShootDay(state, s) = from
    BY <1>1 DEF SourcesOf
  <2> QED
    BY <1>1, <2>1 DEF OnDay
<1>4. from \in DOMAIN state.days /\ from # target
  <2>1. PICK s \in moved : TRUE
    BY <1>3
  <2>2. from \in DOMAIN state.days
    BY <1>2, <2>1, ScheduledDayExists
  <2> QED
    BY <1>1, <2>2 DEF SourcesOf
<1>5. \A s \in moved : \A d \in DOMAIN state.days : s \in Holds(state, d) <=> d = from
  BY <1>2, BookedIsScheduled DEF Holds
<1>6. /\ DOMAIN now.days = DOMAIN state.days
      /\ \A d \in DOMAIN state.days :
           /\ Holds(now, d) = IF d = target THEN Holds(state, d) \cup gone ELSE Holds(state, d) \ gone
           /\ IsOnce(now.days[d].scenes)
  BY DEF HaveGone
<1>7. \A s \in moved : s \in Holds(now, from) /\ s \notin Holds(now, target)
  BY <1>2, <1>4, <1>5, <1>6
<1>8. \A i \in DOMAIN op.scenes : op.scenes[i] \in moved
  BY <1>1 DEF ToSet
<1>9. ~IsOperationAlreadyApplied(now, op)
  <2>1. PICK i \in DOMAIN op.scenes : op.scenes[i] \in moved
    BY <1>1, <1>3, <1>8 DEF ToSet
  <2> QED
    BY <1>7, <2>1 DEF IsOperationAlreadyApplied, ScenesMoved, Holds
<1>10. Problems(now, op) = {}
  <2>1. ASSUME NEW i \in DOMAIN op.scenes
        PROVE  /\ op.scenes[i] \in DOMAIN now.scenes /\ op.scenes[i] \notin ToSet(now.days[op.to].scenes)
               /\ op.scenes[i] \in ToSet(now.days[op.from].scenes)
    BY <1>1, <1>2, <1>7, <1>8 DEF Holds
  <2>2. SceneProblems(now, op) = {}
    BY <2>1 DEF SceneProblems
  <2> QED
    BY <1>1, <1>4, <1>6, <2>2 DEF Problems
<1>11. PICK post : post = Effect(now, op)
  OBVIOUS
<1>12. /\ HasMoved(now, op, post)
       /\ Holds(post, from) = Holds(now, from) \ moved
       /\ Holds(post, target) = Holds(now, target) \cup moved
       /\ \A d \in DOMAIN now.days \ {from, target} : Holds(post, d) = Holds(now, d)
  <2>1. /\ HasMoved(now, op, post)
        /\ Holds(post, op.from) = Holds(now, op.from) \ ToSet(op.scenes)
        /\ Holds(post, op.to) = Holds(now, op.to) \cup ToSet(op.scenes)
        /\ \A d \in DOMAIN now.days \ {op.from, op.to} : Holds(post, d) = Holds(now, d)
    BY <1>9, <1>10, <1>11, MovedScenes
  <2> QED
    BY <1>1, <2>1
<1>13. PICK here, there : here = now.days[from].scenes /\ there = now.days[target].scenes
  OBVIOUS
<1>14. /\ DOMAIN post.days = DOMAIN now.days
       /\ post.days[from].scenes = Without(here, op.scenes) /\ post.days[target].scenes = there \o op.scenes
       /\ \A d \in DOMAIN now.days : d # from /\ d # target => post.days[d] = now.days[d]
  BY <1>1, <1>12, <1>13 DEF HasMoved
<1>15. here \in Seq(ToSet(here)) /\ there \in Seq(ToSet(there)) /\ op.scenes \in Seq(ToSet(op.scenes))
  BY <1>4, <1>6, <1>13, SnapshotParts DEF IsKept, DaysAreKept, IsOperation
<1>16. IsOnce(here) /\ IsOnce(there) /\ IsOnce(op.scenes)
  BY <1>4, <1>6, <1>13, SelectedOnce
<1>17. IsOnce(Without(here, op.scenes))
  BY <1>15, <1>16, SelectedOnce DEF Without
<1>18. IsOnce(there \o op.scenes)
  <2>1. ToSet(there) \cap ToSet(op.scenes) = {}
    BY <1>1, <1>7, <1>13 DEF Holds
  <2> QED
    BY <1>15, <1>16, <2>1, ConcatOnce
<1>19. ASSUME NEW d \in DOMAIN state.days
       PROVE  /\ Holds(post, d) = IF d = target THEN Holds(state, d) \cup (gone \cup moved)
                                  ELSE Holds(state, d) \ (gone \cup moved)
              /\ IsOnce(post.days[d].scenes)
  <2>1. CASE d = from
    BY <1>4, <1>6, <1>12, <1>14, <1>17, <2>1
  <2>2. CASE d = target
    BY <1>4, <1>6, <1>12, <1>14, <1>18, <2>2
  <2>3. CASE d # from /\ d # target
    <3>1. Holds(post, d) = Holds(state, d) \ gone /\ IsOnce(post.days[d].scenes)
      BY <1>6, <1>12, <1>14, <2>3
    <3>2. \A s \in moved : s \notin Holds(state, d)
      BY <1>5, <2>3
    <3> QED
      BY <2>3, <3>1, <3>2
  <2> QED
    BY <2>1, <2>2, <2>3
<1> QED
  BY <1>1, <1>6, <1>9, <1>10, <1>11, <1>14, <1>19 DEF HaveGone

-----------------------------------------------------------------------------
(* An answer to an unavailability goes through.                            *)

\* A turn without problems adds no conflict.
LEMMA TurnGoesThrough ==
    ASSUME NEW before, IsApplication(before), NEW op,
           IsOperationAlreadyApplied(before.state, op) \/ Problems(before.state, op) = {},
           NEW after, after = ApplyOperation(before, op)
    PROVE  after.conflicts = before.conflicts /\ HasTurned(before, op, after)
<1>1. before = [state |-> before.state, applied |-> before.applied,
                skipped |-> before.skipped, conflicts |-> before.conflicts]
  BY DEF IsApplication
<1>2. CASE IsOperationAlreadyApplied(before.state, op)
  <2>1. after = [before EXCEPT !.skipped = Append(@, op)]
    BY <1>2 DEF ApplyOperation
  <2>2. after.state = before.state /\ after.applied = before.applied /\ after.conflicts = before.conflicts
    BY <1>1, <2>1
  <2> QED
    BY <1>2, <2>2 DEF HasTurned
<1>3. CASE ~IsOperationAlreadyApplied(before.state, op) /\ Problems(before.state, op) = {}
  <2>1. PICK post : post = Effect(before.state, op)
    OBVIOUS
  <2>2. after = [before EXCEPT !.state = post, !.applied = Append(@, op)]
    BY <1>3, <2>1 DEF ApplyOperation
  <2>3. after.state = post /\ after.applied = Append(before.applied, op) /\ after.conflicts = before.conflicts
    BY <1>1, <2>2
  <2> QED
    BY <1>3, <2>1, <2>3 DEF HasTurned
<1> QED
  BY <1>2, <1>3

\* It adds its operation to those applied, unless it was done already.
LEMMA TurnAdds ==
    ASSUME NEW before, NEW op, NEW after, HasTurned(before, op, after),
           NEW S, before.applied \in Seq(S), op \in S
    PROVE  /\ after.applied \in Seq(S) /\ ToSet(before.applied) \subseteq ToSet(after.applied)
           /\ ~IsOperationAlreadyApplied(before.state, op) => op \in ToSet(after.applied)
<1>1. CASE IsOperationAlreadyApplied(before.state, op)
  BY <1>1 DEF HasTurned
<1>2. CASE ~IsOperationAlreadyApplied(before.state, op)
  <2>1. PICK old \in Seq(S) : old = before.applied
    OBVIOUS
  <2>2. PICK new : new = Append(old, op)
    OBVIOUS
  <2>3. after.applied = new
    BY <1>2, <2>1, <2>2 DEF HasTurned
  <2>4. PICK n \in Nat : n = Len(old) /\ DOMAIN old = 1..n
    OBVIOUS
  <2>5. new \in Seq(S) /\ DOMAIN new = 1..(n + 1) /\ new[n + 1] = op /\ \A i \in 1..n : new[i] = old[i]
    BY <2>2, <2>4
  <2>6. op \in ToSet(new)
    <3>1. n + 1 \in 1..(n + 1)
      OBVIOUS
    <3> QED
      BY <2>5, <3>1 DEF ToSet
  <2>7. ToSet(old) \subseteq ToSet(new)
    <3>1. \A i \in 1..n : i \in 1..(n + 1)
      OBVIOUS
    <3> QED
      BY <2>4, <2>5, <3>1 DEF ToSet
  <2> QED
    BY <2>1, <2>3, <2>5, <2>6, <2>7
<1> QED
  BY <1>1, <1>2

\* What holds along the way.
IsUnderWay(state, application, plan, target, gone) ==
    /\ application.conflicts = {} /\ application.applied \in Seq(ToSet(plan))
    /\ HaveGone(state, application.state, target, gone)
    /\ application.state.scenes = state.scenes /\ DOMAIN application.state.sheets = DOMAIN state.sheets

\* At first nothing is gone.
LEMMA NothingGone ==
    ASSUME NEW state, CheckStateInvariants(state) = {}, NEW now, now.days = state.days, NEW target
    PROVE  HaveGone(state, now, target, {})
<1>1. ASSUME NEW d \in DOMAIN state.days PROVE IsOnce(now.days[d].scenes)
  BY ScheduledOnce DEF IsOnce
<1>2. \A d \in DOMAIN state.days : Holds(now, d) = Holds(state, d)
  BY DEF Holds
<1> QED
  BY <1>1, <1>2 DEF HaveGone

\* Recording the fact moves nothing.
LEMMA FactGoesThrough ==
    ASSUME NEW state, IsKept(state), CheckStateInvariants(state) = {}, NEW change, IsChange(change),
           IsUnavailability(change), ReferencesExist(state, change), NEW fact, fact = FactOperation(change),
           NEW plan, fact \in ToSet(plan), NEW target, NEW after, after = ApplyOperation(Begun(state), fact)
    PROVE  IsUnderWay(state, after, plan, target, {})
<1>1. SameFrame(state, after.state) /\ after.conflicts = {}
  BY FactRecorded
<1>2. PICK begun : begun = Begun(state)
  OBVIOUS
<1>3. IsApplication(begun) /\ begun.conflicts = {} /\ begun.applied = <<>>
  BY <1>2 DEF Begun, IsApplication
<1>4. HasTurned(begun, fact, after)
  BY <1>1, <1>2, <1>3, TurnWithoutConflict
<1>5. begun.applied \in Seq(ToSet(plan))
  BY <1>3
<1>6. after.applied \in Seq(ToSet(plan))
  BY <1>4, <1>5, TurnAdds
<1>7. HaveGone(state, after.state, target, {})
  BY <1>1, NothingGone DEF SameFrame
<1> QED
  BY <1>1, <1>6, <1>7 DEF IsUnderWay, SameFrame

\* A mark moves nothing.
LEMMA MarkGoesThrough ==
    ASSUME NEW state, NEW before, IsApplication(before), NEW plan, NEW target, NEW gone,
           IsUnderWay(state, before, plan, target, gone),
           NEW op, IsOperation(op), op \in ToSet(plan),
           op.type = "MARK_CALL_SHEET_STALE", op.sheet \in DOMAIN state.sheets,
           NEW after, after = ApplyOperation(before, op)
    PROVE  IsUnderWay(state, after, plan, target, gone) /\ ToSet(before.applied) \subseteq ToSet(after.applied)
<1>1. Problems(before.state, op) = {}
  BY DEF Problems, IsUnderWay
<1>2. after.conflicts = {} /\ HasTurned(before, op, after)
  BY <1>1, TurnGoesThrough DEF IsUnderWay
<1>3. after.applied \in Seq(ToSet(plan)) /\ ToSet(before.applied) \subseteq ToSet(after.applied)
  BY <1>2, TurnAdds DEF IsUnderWay
<1>4. LeavesAlone(before.state, after.state)
  BY <1>2, TurnLeaves
<1>5. after.state.days = before.state.days
  <2>1. CASE after.state = before.state
    BY <2>1
  <2>2. CASE after.state = Effect(before.state, op)
    BY <2>2, OtherOperationsLeaveDays DEF IsApplication
  <2> QED
    BY <1>2, <2>1, <2>2 DEF HasTurned
<1>6. HaveGone(state, after.state, target, gone)
  BY <1>5 DEF IsUnderWay, HaveGone, Holds
<1> QED
  BY <1>2, <1>3, <1>4, <1>6 DEF IsUnderWay, LeavesAlone

\* A move takes its scenes along.
LEMMA NextMoveGoesThrough ==
    ASSUME NEW state, IsKept(state), CheckStateInvariants(state) = {},
           NEW list, list \in Seq(ToSet(list)), IsOnce(list), ToSet(list) \subseteq Scheduled(state),
           NEW target \in DOMAIN state.days, NEW gone,
           NEW op, IsOperation(op), op.type = "MOVE_SCENES", op.to = target,
           op.from \in SourcesOf(state, list, target),
           op.scenes = Selected(list, OnDay(state, list, op.from)),
           ToSet(op.scenes) = OnDay(state, list, op.from),
           \A s \in gone : ScheduledShootDay(state, s) # op.from,
           NEW before, IsApplication(before), NEW plan, op \in ToSet(plan),
           IsUnderWay(state, before, plan, target, gone),
           NEW after, after = ApplyOperation(before, op)
    PROVE  /\ IsUnderWay(state, after, plan, target, gone \cup OnDay(state, list, op.from))
           /\ ToSet(before.applied) \subseteq ToSet(after.applied) /\ op \in ToSet(after.applied)
<1>1. PICK now : now = before.state
  OBVIOUS
<1>2. IsKept(now) /\ HaveGone(state, now, target, gone) /\ now.scenes = state.scenes
  BY <1>1 DEF IsApplication, IsUnderWay
<1>3. /\ ~IsOperationAlreadyApplied(now, op) /\ Problems(now, op) = {}
      /\ HaveGone(state, Effect(now, op), target, gone \cup OnDay(state, list, op.from))
  BY <1>2, MoveGoesThrough
<1>4. after.conflicts = {} /\ HasTurned(before, op, after)
  BY <1>1, <1>3, TurnGoesThrough DEF IsUnderWay
<1>5. after.state = Effect(now, op)
  BY <1>1, <1>3, <1>4 DEF HasTurned
<1>6. /\ after.applied \in Seq(ToSet(plan)) /\ ToSet(before.applied) \subseteq ToSet(after.applied)
      /\ op \in ToSet(after.applied)
  BY <1>1, <1>3, <1>4, TurnAdds DEF IsUnderWay
<1>7. LeavesAlone(before.state, after.state)
  BY <1>4, TurnLeaves
<1> QED
  BY <1>3, <1>4, <1>5, <1>6, <1>7 DEF IsUnderWay, LeavesAlone

\* The scenes of a list that are not on the target yet.
Leaving(state, list, target) == {s \in ToSet(list) : ScheduledShootDay(state, s) # target}

\* From the first operation of an answer to its last, no conflict; then every blocked scene is on the
\* target, and every other one where it was.
LEMMA AnswerGoesThrough ==
    ASSUME NEW state, IsKept(state), CheckStateInvariants(state) = {}, Nobody \notin DOMAIN state.days,
           NEW change, IsChange(change), IsUnavailability(change), ReferencesExist(state, change),
           NEW plan, NEW fact, fact = FactOperation(change), NEW moves, NEW marks, NEW list,
           NEW target \in DOMAIN state.days,
           IsMadeOf(plan, fact, moves, marks, state, list, target), IsOperationList(plan),
           IsOnce(list), ToSet(list) \subseteq Scheduled(state),
           NEW run, run = ApplyOperations(state, plan)
    PROVE  /\ run.conflicts = {} /\ run.applied \in Seq(ToSet(plan))
           /\ HaveGone(state, run.state, target, Leaving(state, list, target))
           /\ \A i \in 1..Len(moves) : moves[i] \in ToSet(run.applied)
<1>1. PICK m \in Nat, n \in Nat : m = Len(moves) /\ n = Len(marks)
  BY PlacesInAnAnswer
<1>2. PICK k \in Nat : k = 1 + m + n /\ k = Len(plan)
  BY <1>1, PlacesInAnAnswer
<1>3. /\ plan[1] = fact
      /\ \A i \in 1..m : plan[1 + i] = moves[i]
      /\ \A i \in 1..n : plan[1 + m + i] = marks[i]
  BY <1>1, PlacesInAnAnswer
<1>4. /\ \A i \in 1..k : IsOperation(plan[i]) /\ plan[i] \in ToSet(plan)
  BY <1>2, OperationListFacts DEF ToSet
<1>5. PICK after : after = Applying(state, plan)
  OBVIOUS
<1>6. /\ after[0] = Begun(state) /\ run = after[k]
      /\ \A i \in 1..k : after[i] = ApplyOperation(after[i - 1], plan[i])
      /\ \A i \in 0..k : IsApplication(after[i])
  <2>1. /\ after[0] = Begun(state)
        /\ \A i \in 1..Len(plan) : after[i] = ApplyOperation(after[i - 1], plan[i])
        /\ \A i \in 0..Len(plan) : IsApplication(after[i])
        /\ after[Len(plan)] = ApplyOperations(state, plan)
    BY <1>5, EveryTurnKept
  <2> QED
    BY <1>2, <2>1
<1>7. list \in Seq(ToSet(list)) /\ AreMovesOf(moves, state, list, target)
      /\ AreMarksOf(marks, state, DaysOfAnAnswer(state, ToSet(list), target))
  BY DEF IsMadeOf
<1>8. /\ \A i \in 1..m :
           /\ moves[i].type = "MOVE_SCENES" /\ moves[i].to = target
           /\ moves[i].from \in SourcesOf(state, list, target)
           /\ moves[i].scenes = Selected(list, OnDay(state, list, moves[i].from))
           /\ ToSet(moves[i].scenes) = OnDay(state, list, moves[i].from)
      /\ \A d \in SourcesOf(state, list, target) : \E i \in 1..m : moves[i].from = d
      /\ \A i, j \in 1..m : moves[i].from = moves[j].from => i = j
      /\ \A i \in 1..n : marks[i].type = "MARK_CALL_SHEET_STALE" /\ marks[i].sheet \in DOMAIN state.sheets
  BY <1>1, <1>7 DEF AreMovesOf, AreMarksOf, StaleCallSheetsForShootDays
<1> DEFINE Gone(j) == {s \in ToSet(list) : \E i \in 1..m : 1 + i <= j /\ ScheduledShootDay(state, s) = moves[i].from}
           Known(j) == \A i \in 1..m : 1 + i <= j => moves[i] \in ToSet(after[j].applied)
           T == {j \in 0..k : j >= 1 => IsUnderWay(state, after[j], plan, target, Gone(j)) /\ Known(j)}
<1>9. 0 \in T
  OBVIOUS
<1>10. ASSUME NEW j \in 1..k, j - 1 \in T PROVE j \in T
  <2>1. after[j] = ApplyOperation(after[j - 1], plan[j]) /\ IsOperation(plan[j]) /\ plan[j] \in ToSet(plan)
    BY <1>4, <1>6
  <2>2. CASE j = 1
    <3>1. after[j] = ApplyOperation(Begun(state), fact)
      BY <1>3, <1>6, <2>1, <2>2
    <3>2. IsUnderWay(state, after[j], plan, target, {})
      BY <1>3, <2>1, <2>2, <3>1, FactGoesThrough
    <3>3. \A i \in 1..m : ~(1 + i <= j)
      BY <2>2
    <3>4. Gone(j) = {} /\ Known(j)
      BY <3>3
    <3> QED
      BY <3>2, <3>4
  <2>3. CASE j > 1 /\ j <= 1 + m
    <3>1. PICK i \in 1..m : i = j - 1 /\ 1 + i = j
      BY <2>3
    <3>2. PICK op, before : op = moves[i] /\ before = after[j - 1]
      OBVIOUS
    <3>3. plan[j] = op /\ j - 1 \in 0..k /\ j - 1 >= 1
      BY <1>3, <2>3, <3>1, <3>2
    <3>4. IsUnderWay(state, before, plan, target, Gone(j - 1)) /\ Known(j - 1) /\ IsApplication(before)
      BY <1>6, <1>10, <3>2, <3>3
    <3>5. \A q \in 1..m : 1 + q <= j - 1 => q # i
      BY <3>1
    <3>6. \A s \in Gone(j - 1) : ScheduledShootDay(state, s) # op.from
      BY <1>8, <3>2, <3>5
    <3>7. \A q \in 1..m : 1 + q <= j <=> (1 + q <= j - 1 \/ q = i)
      BY <3>1
    <3>8. Gone(j) = Gone(j - 1) \cup OnDay(state, list, op.from)
      BY <3>2, <3>7 DEF OnDay
    <3>9. PICK sofar : sofar = Gone(j - 1)
      OBVIOUS
    <3>10. /\ op.type = "MOVE_SCENES" /\ op.to = target /\ op.from \in SourcesOf(state, list, target)
           /\ op.scenes = Selected(list, OnDay(state, list, op.from))
           /\ ToSet(op.scenes) = OnDay(state, list, op.from)
           /\ IsOperation(op) /\ op \in ToSet(plan) /\ after[j] = ApplyOperation(before, op)
      BY <1>8, <2>1, <3>2, <3>3
    <3>11. /\ IsUnderWay(state, before, plan, target, sofar)
           /\ \A s \in sofar : ScheduledShootDay(state, s) # op.from
      BY <3>4, <3>6, <3>9
    <3> HIDE DEF Gone
    <3>12. /\ IsUnderWay(state, after[j], plan, target, sofar \cup OnDay(state, list, op.from))
           /\ ToSet(before.applied) \subseteq ToSet(after[j].applied) /\ op \in ToSet(after[j].applied)
      BY <1>7, <3>4, <3>10, <3>11, NextMoveGoesThrough
    <3>13. Known(j)
      BY <3>2, <3>4, <3>7, <3>12
    <3>14. IsUnderWay(state, after[j], plan, target, Gone(j))
      BY <3>8, <3>9, <3>12
    <3> QED
      BY <3>13, <3>14
  <2>4. CASE j > 1 + m
    <3>1. PICK i \in 1..n : i = j - (1 + m) /\ 1 + m + i = j
      BY <1>2, <2>4
    <3>2. PICK op, before : op = marks[i] /\ before = after[j - 1]
      OBVIOUS
    <3>3. plan[j] = op /\ j - 1 \in 0..k /\ j - 1 >= 1
      BY <1>3, <2>4, <3>1, <3>2
    <3>4. IsUnderWay(state, before, plan, target, Gone(j - 1)) /\ Known(j - 1) /\ IsApplication(before)
      BY <1>6, <1>10, <3>2, <3>3
    <3>5. \A q \in 1..m : 1 + q <= j - 1 /\ 1 + q <= j
      BY <2>4
    <3>6. Gone(j) = Gone(j - 1)
      BY <3>5
    <3>7. /\ op.type = "MARK_CALL_SHEET_STALE" /\ op.sheet \in DOMAIN state.sheets
          /\ IsOperation(op) /\ op \in ToSet(plan) /\ after[j] = ApplyOperation(before, op)
      BY <1>8, <2>1, <3>2, <3>3
    <3> HIDE DEF Gone
    <3>8. /\ IsUnderWay(state, after[j], plan, target, Gone(j - 1))
          /\ ToSet(before.applied) \subseteq ToSet(after[j].applied)
      BY <3>4, <3>7, MarkGoesThrough
    <3>9. Known(j)
      BY <3>2, <3>4, <3>5, <3>8
    <3> QED
      BY <3>6, <3>8, <3>9
  <2> QED
    BY <2>2, <2>3, <2>4
<1> HIDE DEF T
<1>11. k \in 0..k /\ k >= 1 /\ \A j \in 0..k : j \in T
  <2>1. k \in 0..k /\ k >= 1
    BY <1>2
  <2>2. \A j \in 0..k : j \in T
    BY <1>9, <1>10, BoundedInduction
  <2> QED
    BY <2>1, <2>2
<1>12. IsUnderWay(state, run, plan, target, Gone(k)) /\ Known(k)
  BY <1>6, <1>11 DEF T
<1>13. \A i \in 1..m : 1 + i <= k
  BY <1>2
<1>14. Gone(k) = Leaving(state, list, target)
  <2>1. ASSUME NEW s \in ToSet(list), ScheduledShootDay(state, s) # target PROVE s \in Gone(k)
    <3>1. PICK here : here = ScheduledShootDay(state, s)
      OBVIOUS
    <3>2. here \in DOMAIN state.days
      BY <3>1, ScheduledDayExists
    <3>3. here # Nobody
      BY <3>2
    <3>4. here \in SourcesOf(state, list, target)
      BY <2>1, <3>1, <3>3 DEF SourcesOf
    <3>5. PICK i \in 1..m : moves[i].from = here
      BY <1>8, <3>4
    <3> QED
      BY <1>13, <3>1, <3>5
  <2>2. ASSUME NEW s \in Gone(k) PROVE s \in ToSet(list) /\ ScheduledShootDay(state, s) # target
    <3>1. PICK i \in 1..m : ScheduledShootDay(state, s) = moves[i].from
      BY <2>2
    <3> QED
      BY <1>8, <2>2, <3>1 DEF SourcesOf
  <2> QED
    BY <2>1, <2>2 DEF Leaving
<1>15. \A i \in 1..m : moves[i] \in ToSet(run.applied)
  BY <1>6, <1>12, <1>13
<1> HIDE DEF Gone
<1> QED
  BY <1>1, <1>12, <1>14, <1>15 DEF IsUnderWay

-----------------------------------------------------------------------------
(* What an answer leaves is in order.                                      *)

\* An analysis finds conflicts of the scenes it blocks alone.
LEMMA ConflictsAreOfTheBlocked ==
    ASSUME NEW state, NEW change, IsUnavailability(change), ReferencesExist(state, change),
           NEW conflict \in AnalyzeImpact(state, change).conflicts
    PROVE  conflict.id \in BlockedByAnalysis(state, AnalyzeImpact(state, change))
<1>1. PICK affected :
        affected = ScheduledWithin(state, SubjectScenes(state, FactOperation(change)), change.unavailable)
  OBVIOUS
<1>2. BlockedByAnalysis(state, AnalyzeImpact(state, change)) = affected
  BY <1>1, BlockedAre
<1>3. \E subject, reason, code : AnalyzeImpact(state, change) = BlockedScenes(state, affected, subject, reason, code)
  <2>1. CASE change.type = "CAST_UNAVAILABLE"
    <3>1. change.cast \in DOMAIN state.cast
      BY <2>1 DEF ReferencesExist
    <3>2. SubjectScenes(state, FactOperation(change)) = ScenesRequiringCast(state, change.cast)
      BY <2>1 DEF SubjectScenes, FactOperation
    <3> QED
      BY <1>1, <2>1, <3>1, <3>2 DEF AnalyzeImpact, AnalyzeCastUnavailable
  <2>2. CASE change.type = "LOCATION_UNAVAILABLE"
    <3>1. change.location \in DOMAIN state.locations
      BY <2>2 DEF ReferencesExist
    <3>2. SubjectScenes(state, FactOperation(change)) = ScenesAtLocation(state, change.location)
      BY <2>2 DEF SubjectScenes, FactOperation
    <3> QED
      BY <1>1, <2>2, <3>1, <3>2 DEF AnalyzeImpact, AnalyzeLocationUnavailable
  <2> QED
    BY <2>1, <2>2 DEF IsUnavailability
<1>4. PICK subject, reason, code :
        AnalyzeImpact(state, change) = BlockedScenes(state, affected, subject, reason, code)
  BY <1>3
<1>5. AnalyzeImpact(state, change).conflicts =
        {Conflict(code, "SCENE", s, DateOf(state, ScheduledShootDay(state, s))) : s \in affected}
  BY <1>4 DEF BlockedScenes
<1>6. \A s, date : Conflict(code, "SCENE", s, date).id = s
  BY DEF Conflict
<1> QED
  BY <1>2, <1>5, <1>6

\* Once the fact is recorded, no other scene is in conflict.
LEMMA OthersAreFree ==
    ASSUME NEW state, IsSnapshot(state), CheckStateInvariants(state) = {}, NEW change, IsChange(change),
           IsUnavailability(change), ReferencesExist(state, change),
           NEW now, now = ApplyOperations(state, <<FactOperation(change)>>).state,
           NEW d \in DOMAIN now.days, NEW s \in DOMAIN now.scenes, s \in Holds(now, d),
           s \notin BlockedByAnalysis(state, AnalyzeImpact(state, change))
    PROVE  /\ \A c \in now.scenes[s].cast \cap DOMAIN now.cast : ~IsBlockedOn(now.cast[c], DateOf(now, d))
           /\ LET l == now.scenes[s].location
              IN  l \in DOMAIN now.locations => ~IsBlockedOn(now.locations[l], DateOf(now, d))
<1>1. AnalyzeImpact(state, change).conflicts = CheckStateInvariants(now)
  BY FactAnalysisIsExact
<1>2. \A conflict \in CheckStateInvariants(now) : conflict.id # s
  BY <1>1, ConflictsAreOfTheBlocked
<1>3. PICK b : b = <<d, s>>
  OBVIOUS
<1>4. b \in Bookings(now) /\ b[1] = d /\ b[2] = s
  BY <1>3 DEF Bookings, Holds
<1>5. \A code, date : Conflict(code, "SCENE", s, date).id = s
  BY DEF Conflict
<1>6. ASSUME NEW c \in now.scenes[s].cast \cap DOMAIN now.cast, IsBlockedOn(now.cast[c], DateOf(now, d)) PROVE FALSE
  <2>1. Conflict("CAST_UNAVAILABLE_ON_SHOOT_DAY", "SCENE", s, DateOf(now, d)) \in CheckCastAvailability(now)
    BY <1>4, <1>6 DEF CheckCastAvailability
  <2> QED
    BY <1>2, <1>5, <2>1 DEF CheckStateInvariants
<1>7. ASSUME now.scenes[s].location \in DOMAIN now.locations,
             IsBlockedOn(now.locations[now.scenes[s].location], DateOf(now, d))
      PROVE  FALSE
  <2>1. Conflict("LOCATION_UNAVAILABLE_ON_SHOOT_DAY", "SCENE", s, DateOf(now, d)) \in CheckLocationAvailability(now)
    BY <1>4, <1>7 DEF CheckLocationAvailability
  <2> QED
    BY <1>2, <1>5, <2>1 DEF CheckStateInvariants
<1> QED
  BY <1>6, <1>7

\* Moving scenes to one day breaks no reference, and puts none in two places.
LEMMA NothingIsLost ==
    ASSUME NEW state, CheckStateInvariants(state) = {}, NEW now, SameFrame(state, now),
           NEW post, LeavesAlone(now, post), NEW target \in DOMAIN state.days,
           NEW gone, gone \subseteq DOMAIN state.scenes, HaveGone(state, post, target, gone)
    PROVE  CheckSceneIntegrity(post) = {}
<1>1. /\ post.scenes = state.scenes /\ post.requirements = state.requirements /\ post.tasks = state.tasks
      /\ DOMAIN post.cast = DOMAIN state.cast /\ DOMAIN post.locations = DOMAIN state.locations
      /\ DOMAIN post.days = DOMAIN state.days /\ DOMAIN post.sheets = DOMAIN state.sheets
      /\ \A c \in DOMAIN state.sheets : post.sheets[c].day = state.sheets[c].day
  BY DEF SameFrame, LeavesAlone
<1>2. CheckSceneIntegrity(state) = {}
  BY DEF CheckStateInvariants
<1>3. DanglingScenes(post) = DanglingScenes(state)
  BY <1>1 DEF DanglingScenes
<1>4. \A d \in DOMAIN state.days :
        /\ Holds(post, d) = IF d = target THEN Holds(state, d) \cup gone ELSE Holds(state, d) \ gone
        /\ IsOnce(post.days[d].scenes)
  BY DEF HaveGone
<1>5. \A d \in DOMAIN state.days : Holds(state, d) \subseteq DOMAIN state.scenes
  BY NothingDangles DEF Holds
<1>6. DanglingDays(post) = {}
  <2>1. \A d \in DOMAIN post.days : Holds(post, d) \subseteq DOMAIN post.scenes
    BY <1>1, <1>4, <1>5
  <2> QED
    BY <2>1 DEF DanglingDays, Holds
<1>7. ASSUME NEW d \in DOMAIN state.days, NEW e \in DOMAIN state.days, NEW s,
             s \in Holds(state, d), s \in Holds(state, e)
      PROVE  d = e
  <2>1. PICK i \in DOMAIN state.days[d].scenes : state.days[d].scenes[i] = s
    BY <1>7 DEF Holds, ToSet
  <2>2. PICK j \in DOMAIN state.days[e].scenes : state.days[e].scenes[j] = s
    BY <1>7 DEF Holds, ToSet
  <2> QED
    BY <2>1, <2>2, ScheduledOnce
<1>8. ASSUME NEW d \in DOMAIN state.days, NEW e \in DOMAIN state.days, NEW s,
             s \in Holds(post, d), s \in Holds(post, e)
      PROVE  d = e
  <2>1. \A f \in DOMAIN state.days \ {target} : s \in Holds(post, f) => s \in Holds(state, f) /\ s \notin gone
    BY <1>4
  <2>2. s \in Holds(post, target) => s \in Holds(state, target) \/ s \in gone
    BY <1>4
  <2> QED
    BY <1>7, <1>8, <2>1, <2>2
<1>9. TwiceScheduled(post) = {}
  <2>1. ASSUME NEW s, NEW here \in Placements(post, s), NEW there \in Placements(post, s) PROVE here = there
    <3>1. PICK d \in DOMAIN state.days :
            \E i \in DOMAIN post.days[d].scenes : here = <<d, i>> /\ post.days[d].scenes[i] = s
      BY <1>1 DEF Placements
    <3>a. PICK i \in DOMAIN post.days[d].scenes : here = <<d, i>> /\ post.days[d].scenes[i] = s
      BY <3>1
    <3>2. PICK e \in DOMAIN state.days :
            \E j \in DOMAIN post.days[e].scenes : there = <<e, j>> /\ post.days[e].scenes[j] = s
      BY <1>1 DEF Placements
    <3>b. PICK j \in DOMAIN post.days[e].scenes : there = <<e, j>> /\ post.days[e].scenes[j] = s
      BY <3>2
    <3>3. s \in Holds(post, d) /\ s \in Holds(post, e)
      BY <3>a, <3>b DEF Holds, ToSet
    <3>4. d = e
      BY <1>8, <3>3
    <3>5. i = j
      BY <1>4, <3>a, <3>b, <3>4 DEF IsOnce
    <3> QED
      BY <3>a, <3>b, <3>4, <3>5
  <2> QED
    BY <2>1 DEF TwiceScheduled
<1>10. DanglingRecords(post) = DanglingRecords(state)
  <2>1. \A type, id : EntityExists(post, type, id) = EntityExists(state, type, id)
    BY <1>1 DEF EntityExists
  <2> QED
    BY <1>1, <2>1 DEF DanglingRecords
<1> QED
  BY <1>2, <1>3, <1>6, <1>9, <1>10 DEF CheckSceneIntegrity

\* The moves in an answer are its moves.
LEMMA MovesInAnAnswer ==
    ASSUME NEW plan, NEW fact, NEW moves, NEW marks, NEW state, NEW list, NEW target,
           IsMadeOf(plan, fact, moves, marks, state, list, target),
           NEW j \in 1..Len(plan), plan[j].type = "MOVE_SCENES"
    PROVE  \E i \in 1..Len(moves) : plan[j] = moves[i]
<1>1. /\ Len(moves) \in Nat /\ Len(marks) \in Nat /\ Len(plan) = 1 + Len(moves) + Len(marks)
      /\ plan[1] = fact
      /\ \A i \in 1..Len(moves) : plan[1 + i] = moves[i]
      /\ \A i \in 1..Len(marks) : plan[1 + Len(moves) + i] = marks[i]
  BY PlacesInAnAnswer
<1>2. PICK m \in Nat, n \in Nat : m = Len(moves) /\ n = Len(marks)
  BY <1>1
<1>3. /\ \A i \in 1..n : marks[i].type = "MARK_CALL_SHEET_STALE"
      /\ fact.type # "MOVE_SCENES"
  BY <1>2 DEF IsMadeOf, AreMarksOf, IsFactOperation
<1>4. j # 1
  BY <1>1, <1>3
<1>5. ASSUME j > 1 + m PROVE FALSE
  <2>1. j - (1 + m) \in 1..n /\ 1 + m + (j - (1 + m)) = j
    BY <1>1, <1>2, <1>5
  <2>2. plan[j] = marks[j - (1 + m)]
    BY <1>1, <1>2, <2>1
  <2> QED
    BY <1>3, <2>1, <2>2
<1>6. j - 1 \in 1..m /\ 1 + (j - 1) = j
  BY <1>1, <1>2, <1>4, <1>5
<1> QED
  BY <1>1, <1>2, <1>6

\* No sheet of a day it changes stays published.
LEMMA NoSheetIsForgotten ==
    ASSUME NEW state, NEW now, SameFrame(state, now), NEW post, LeavesAlone(now, post),
           NEW plan, NEW fact, NEW moves, NEW marks, NEW list, NEW target,
           IsMadeOf(plan, fact, moves, marks, state, list, target), IsOperationList(plan),
           \A i \in 1..Len(plan) : IsOperationAlreadyApplied(post, plan[i]),
           NEW applied \in Seq(ToSet(plan))
    PROVE  PublishedSheetsForChangedDays(post, applied) = {}
<1>1. PICK days : days = DaysOfAnAnswer(state, ToSet(list), target)
  OBVIOUS
<1>2. AreMovesOf(moves, state, list, target) /\ AreMarksOf(marks, state, days)
  BY <1>1 DEF IsMadeOf
<1>3. ASSUME NEW i \in DOMAIN applied, applied[i].type = "MOVE_SCENES"
      PROVE  applied[i].from \in days /\ applied[i].to \in days
  <2>1. PICK j \in 1..Len(plan) : applied[i] = plan[j]
    BY OperationListFacts DEF ToSet
  <2>2. PICK q \in 1..Len(moves) : plan[j] = moves[q]
    BY <1>3, <2>1, MovesInAnAnswer
  <2>3. moves[q].to = target /\ moves[q].from \in SourcesOf(state, list, target)
    BY <1>2 DEF AreMovesOf
  <2> QED
    BY <1>1, <2>1, <2>2, <2>3 DEF SourcesOf, DaysOfAnAnswer, SourceDays
<1>4. ChangedDays(applied) \subseteq days
  <2>1. \A i \in {i \in DOMAIN applied : applied[i].type = "MOVE_SCENES"} :
          {applied[i].from, applied[i].to} \subseteq days
    BY <1>3
  <2> QED
    BY <2>1 DEF ChangedDays
<1>5. /\ DOMAIN post.sheets = DOMAIN state.sheets
      /\ \A c \in DOMAIN state.sheets : /\ post.sheets[c].day = state.sheets[c].day
                                        /\ post.sheets[c].status \in {state.sheets[c].status, "DRAFT"}
  BY DEF SameFrame, LeavesAlone
<1>6. ASSUME NEW c \in StaleCallSheetsForShootDays(post, ChangedDays(applied)) PROVE FALSE
  <2>1. c \in DOMAIN state.sheets /\ state.sheets[c].day \in days /\ post.sheets[c].status = "PUBLISHED"
    BY <1>4, <1>5 DEF StaleCallSheetsForShootDays
  <2>2. state.sheets[c].status = "PUBLISHED"
    BY <1>5, <2>1
  <2>3. c \in StaleCallSheetsForShootDays(state, days)
    BY <2>1, <2>2 DEF StaleCallSheetsForShootDays
  <2>4. PICK i \in 1..Len(marks) : marks[i].sheet = c /\ marks[i].type = "MARK_CALL_SHEET_STALE"
    BY <1>2, <2>3 DEF AreMarksOf
  <2>5. /\ Len(moves) \in Nat /\ Len(marks) \in Nat /\ Len(plan) = 1 + Len(moves) + Len(marks)
        /\ plan[1 + Len(moves) + i] = marks[i]
    BY PlacesInAnAnswer
  <2>6. 1 + Len(moves) + i \in 1..Len(plan)
    BY <2>5
  <2>7. IsOperationAlreadyApplied(post, marks[i])
    BY <2>5, <2>6
  <2>8. post.sheets[c].status = "DRAFT"
    BY <2>4, <2>7 DEF IsOperationAlreadyApplied
  <2> QED
    BY <2>1, <2>8
<1> QED
  BY <1>6 DEF PublishedSheetsForChangedDays

\* The run of an answer to the analysis of the state it is made for, on one of the candidates.
LEMMA AnswerRuns ==
    ASSUME NEW state, IsSnapshot(state), IsSound(state), CheckStateInvariants(state) = {},
           Nobody \notin DOMAIN state.days,
           NEW change, IsChange(change), IsUnavailability(change), ReferencesExist(state, change),
           NEW scenes, scenes = BlockedByAnalysis(state, AnalyzeImpact(state, change)),
           NEW target \in CandidatesFor(state, change, scenes),
           NEW plan, plan = UnavailabilityPlan(state, change, scenes, target),
           NEW fact, fact = FactOperation(change), NEW list, list = SetToSeq(scenes),
           NEW moves, moves = MoveOperations(state, list, target),
           NEW marks, marks = StaleMarks(state, SourceDays(state, scenes), target),
           NEW now, now = ApplyOperations(state, <<fact>>).state,
           NEW run, run = ApplyOperations(state, plan)
    PROVE  /\ IsMadeOf(plan, fact, moves, marks, state, list, target) /\ IsOperationList(plan)
           /\ ToSet(list) = scenes /\ scenes \subseteq Scheduled(state) /\ SameFrame(state, now) /\ IsKept(now)
           /\ target \in DOMAIN state.days
           /\ \A s \in scenes : CanHost(now, target, s) /\ ScheduledShootDay(state, s) # target
           /\ run.conflicts = {} /\ run.applied \in Seq(ToSet(plan))
           /\ HaveGone(state, run.state, target, scenes) /\ LeavesAlone(now, run.state)
           /\ \A i \in 1..Len(moves) : moves[i] \in ToSet(run.applied)
           /\ \A i \in 1..Len(plan) : IsOperationAlreadyApplied(run.state, plan[i])
<1>1. IsKept(state)
  BY SoundIsListed DEF IsKept
<1>2. scenes = ScheduledWithin(state, SubjectScenes(state, fact), change.unavailable)
  BY BlockedAre
<1>3. scenes \subseteq Scheduled(state) /\ scenes \subseteq DOMAIN state.scenes
  BY <1>2, WithinAreScheduled
<1>4. IsFiniteSet(scenes)
  BY <1>3, FS_Subset DEF IsSnapshot
<1>5. IsMadeOf(plan, fact, moves, marks, state, list, target) /\ ToSet(list) = scenes
  BY <1>4, AnswerParts
<1>6. IsOperationList(plan) /\ IsOrderly(plan)
  BY <1>4, AnswerIsOrderly
<1>7. IsOnce(list)
  BY <1>4, SeqOfSetOnce DEF IsOnce
<1>8. PICK turn : turn = ApplyOperation(Begun(state), fact)
  OBVIOUS
<1>9. SameFrame(state, now) /\ IsKept(now) /\ now = turn.state
  BY <1>1, <1>8, FactRecorded
<1>10. target \in GenerateScheduleCandidates(now, scenes, {})
  BY DEF CandidatesFor
<1>11. /\ target \in DOMAIN state.days
       /\ \A s \in scenes : CanHost(now, target, s) /\ ScheduledShootDay(now, s) # target
  BY <1>9, <1>10 DEF GenerateScheduleCandidates, SameFrame
<1>12. \A s : ScheduledShootDay(now, s) = ScheduledShootDay(state, s)
  BY <1>9, SameDaysSamePlace DEF SameFrame
<1>13. scenes = Leaving(state, list, target)
  BY <1>5, <1>11, <1>12 DEF Leaving
<1>14. /\ run.conflicts = {} /\ run.applied \in Seq(ToSet(plan))
       /\ HaveGone(state, run.state, target, scenes)
       /\ \A i \in 1..Len(moves) : moves[i] \in ToSet(run.applied)
  <2>1. IsKept(state) /\ IsOnce(list) /\ ToSet(list) \subseteq Scheduled(state) /\ target \in DOMAIN state.days
    BY <1>1, <1>3, <1>5, <1>7, <1>11
  <2>2. IsMadeOf(plan, fact, moves, marks, state, list, target) /\ IsOperationList(plan)
    BY <1>5, <1>6
  <2> QED
    BY ONLY CheckStateInvariants(state) = {}, Nobody \notin DOMAIN state.days, IsChange(change),
       IsUnavailability(change), ReferencesExist(state, change), fact = FactOperation(change),
       run = ApplyOperations(state, plan), <1>13, <2>1, <2>2, AnswerGoesThrough, SMTT(30)
<1>15. LeavesAlone(now, run.state)
  <2>1. plan[1] = fact /\ Len(plan) >= 1
    BY <1>5, PlacesInAnAnswer
  <2>2. \A i \in 1..Len(plan) : i > 1 => plan[i].type \in {"MOVE_SCENES", "MARK_CALL_SHEET_STALE"}
    BY <1>5, RestOfAnAnswer
  <2> QED
    BY <1>1, <1>6, <1>8, <1>9, <1>14, <2>1, <2>2, AfterTheFirst
<1>16. \A i \in 1..Len(plan) : IsOperationAlreadyApplied(run.state, plan[i])
  BY <1>1, <1>6, <1>14, EverythingShows
<1> QED
  BY <1>3, <1>5, <1>6, <1>9, <1>11, <1>12, <1>14, <1>15, <1>16

\* Once the blocked scenes are on a candidate day, nobody and no location is booked while unavailable.
LEMMA BookedAreFree ==
    ASSUME NEW state, IsSnapshot(state), CheckStateInvariants(state) = {}, NEW change, IsChange(change),
           IsUnavailability(change), ReferencesExist(state, change),
           NEW scenes, scenes = BlockedByAnalysis(state, AnalyzeImpact(state, change)),
           NEW now, now = ApplyOperations(state, <<FactOperation(change)>>).state, SameFrame(state, now),
           NEW post, LeavesAlone(now, post), NEW target \in DOMAIN state.days,
           HaveGone(state, post, target, scenes), \A s \in scenes : CanHost(now, target, s)
    PROVE  CheckCastAvailability(post) = {} /\ CheckLocationAvailability(post) = {}
<1>1. /\ post.scenes = now.scenes /\ post.cast = now.cast /\ post.locations = now.locations
      /\ DOMAIN post.days = DOMAIN state.days /\ now.days = state.days
      /\ \A d \in DOMAIN state.days : DateOf(post, d) = DateOf(now, d)
  BY DEF SameFrame, LeavesAlone
<1>2. ASSUME NEW d \in DOMAIN post.days, NEW s \in DOMAIN post.scenes, s \in Holds(post, d)
      PROVE  /\ \A c \in post.scenes[s].cast \cap DOMAIN post.cast : ~IsBlockedOn(post.cast[c], DateOf(post, d))
             /\ post.scenes[s].location \in DOMAIN post.locations =>
                  ~IsBlockedOn(post.locations[post.scenes[s].location], DateOf(post, d))
  <2>1. Holds(post, d) = IF d = target THEN Holds(state, d) \cup scenes ELSE Holds(state, d) \ scenes
    BY <1>1, <1>2 DEF HaveGone
  <2>2. CASE s \in scenes
    <3>1. d = target
      BY <1>2, <2>1, <2>2
    <3>2. CanHost(now, d, s)
      BY <2>2, <3>1
    <3>3. DateOf(post, d) = DateOf(now, d)
      BY <1>1, <1>2
    <3> QED
      BY <1>1, <3>2, <3>3 DEF CanHost
  <2>3. CASE s \notin scenes
    <3>1. s \in Holds(now, d) /\ d \in DOMAIN now.days /\ s \in DOMAIN now.scenes
      BY <1>1, <1>2, <2>1, <2>3 DEF Holds
    <3>2. /\ \A c \in now.scenes[s].cast \cap DOMAIN now.cast : ~IsBlockedOn(now.cast[c], DateOf(now, d))
          /\ LET l == now.scenes[s].location
             IN  l \in DOMAIN now.locations => ~IsBlockedOn(now.locations[l], DateOf(now, d))
      BY <2>3, <3>1, OthersAreFree
    <3>3. DateOf(post, d) = DateOf(now, d)
      BY <1>1, <1>2
    <3> QED
      BY <1>1, <3>2, <3>3
  <2> QED
    BY <2>2, <2>3
<1>3. ASSUME NEW b \in Bookings(post)
      PROVE  b[1] \in DOMAIN post.days /\ b[2] \in DOMAIN post.scenes /\ b[2] \in Holds(post, b[1])
  BY DEF Bookings, Holds
<1>4. CheckCastAvailability(post) = {}
  BY <1>2, <1>3 DEF CheckCastAvailability
<1>5. CheckLocationAvailability(post) = {}
  BY <1>2, <1>3 DEF CheckLocationAvailability
<1> QED
  BY <1>4, <1>5

\* A plan that moves what an unavailability blocks to one of the candidates is valid.
LEMMA AnswerIsValid ==
    ASSUME NEW state, IsSnapshot(state), IsSound(state), CheckStateInvariants(state) = {},
           Nobody \notin DOMAIN state.days,
           NEW change, IsChange(change), IsUnavailability(change), ReferencesExist(state, change),
           NEW scenes, scenes = BlockedByAnalysis(state, AnalyzeImpact(state, change)),
           NEW target \in CandidatesFor(state, change, scenes),
           NEW plan, plan = UnavailabilityPlan(state, change, scenes, target)
    PROVE  SimulateProposal(state, plan).valid
<1>1. PICK fact, list : fact = FactOperation(change) /\ list = SetToSeq(scenes)
  OBVIOUS
<1>2. PICK moves, marks : /\ moves = MoveOperations(state, list, target)
                          /\ marks = StaleMarks(state, SourceDays(state, scenes), target)
  OBVIOUS
<1>3. PICK now, run : now = ApplyOperations(state, <<fact>>).state /\ run = ApplyOperations(state, plan)
  OBVIOUS
<1>4. /\ IsMadeOf(plan, fact, moves, marks, state, list, target) /\ IsOperationList(plan)
      /\ ToSet(list) = scenes /\ scenes \subseteq Scheduled(state) /\ SameFrame(state, now) /\ IsKept(now)
      /\ target \in DOMAIN state.days
      /\ \A s \in scenes : CanHost(now, target, s) /\ ScheduledShootDay(state, s) # target
      /\ run.conflicts = {} /\ run.applied \in Seq(ToSet(plan))
      /\ HaveGone(state, run.state, target, scenes) /\ LeavesAlone(now, run.state)
      /\ \A i \in 1..Len(plan) : IsOperationAlreadyApplied(run.state, plan[i])
  BY <1>1, <1>2, <1>3, AnswerRuns
<1>5. PublishedSheetsForChangedDays(run.state, run.applied) = {}
  BY <1>4, NoSheetIsForgotten
<1>6. scenes \subseteq DOMAIN state.scenes
  BY <1>4 DEF Scheduled
<1>7. CheckSceneIntegrity(run.state) = {}
  BY <1>4, <1>6, NothingIsLost
<1>8. CheckCastAvailability(run.state) = {} /\ CheckLocationAvailability(run.state) = {}
  BY <1>1, <1>3, <1>4, BookedAreFree
<1>9. CheckStateInvariants(run.state) = {}
  BY <1>7, <1>8 DEF CheckStateInvariants
<1> QED
  BY <1>3, <1>4, <1>5, <1>9 DEF SimulateProposal

\* Nor does anything else keep the plan that only records it from being valid when it blocks nothing.
LEMMA FactAloneIsValid ==
    ASSUME NEW state, IsSnapshot(state), IsSound(state), CheckStateInvariants(state) = {},
           NEW change, IsChange(change), IsUnavailability(change), ReferencesExist(state, change),
           BlockedByAnalysis(state, AnalyzeImpact(state, change)) = {},
           NEW plan, plan = <<FactOperation(change)>>
    PROVE  SimulateProposal(state, plan).valid
<1>1. PICK fact, run : fact = FactOperation(change) /\ run = ApplyOperations(state, <<fact>>)
  OBVIOUS
<1>2. IsKept(state)
  BY SoundIsListed DEF IsKept
<1>3. AnalyzeImpact(state, change).conflicts = CheckStateInvariants(run.state)
  BY <1>1, FactAnalysisIsExact
<1>4. CheckStateInvariants(run.state) = {}
  BY <1>3, ConflictsAreOfTheBlocked
<1>5. PICK turn : turn = ApplyOperation(Begun(state), fact)
  OBVIOUS
<1>6. turn.conflicts = {}
  BY <1>1, <1>2, <1>5, FactRecorded
<1>7. run = turn
  BY <1>1, <1>5, OneTurn
<1>8. IsOperationList(<<fact>>)
  BY <1>1, FactIsOperation
<1>9. /\ fact.type # "MOVE_SCENES"
  BY <1>1 DEF FactOperation
<1>10. \A i \in DOMAIN run.applied : run.applied[i].type # "MOVE_SCENES"
  <2>1. PICK list : list = <<fact>>
    OBVIOUS
  <2>2. ToSet(list) = {fact}
    BY <2>1 DEF ToSet
  <2>3. fact \in ToSet(list)
    BY <2>2
  <2>4. IsUnderWay(state, turn, list, Nobody, {})
    BY <1>1, <1>2, <1>5, <2>3, FactGoesThrough
  <2>5. run.applied \in Seq({fact})
    BY <1>7, <2>2, <2>4 DEF IsUnderWay
  <2>6. \A i \in DOMAIN run.applied : run.applied[i] = fact
    BY <2>5
  <2> QED
    BY <1>9, <2>6
<1>11. PublishedSheetsForChangedDays(run.state, run.applied) = {}
  BY <1>10 DEF PublishedSheetsForChangedDays, ChangedDays, StaleCallSheetsForShootDays
<1> QED
  BY <1>1, <1>4, <1>6, <1>7, <1>11 DEF SimulateProposal

-----------------------------------------------------------------------------
(* What a simulation tells the coordinator of an answer.                   *)

\* The impacts collected from the first applied operations.
Tells(f, k, state, baseline, applied) ==
    /\ f[0] = {}
    /\ \A n \in 1..k : f[n] = Collect(f[n - 1], OperationImpacts(state, baseline, applied[n]))

\* The impacts are collected from one applied operation after the other.
LEMMA ImpactsUnfold ==
    ASSUME NEW state, NEW operations, NEW baseline, baseline = Baseline(state, operations),
           NEW applied, applied = SimulateProposal(state, operations).applied, NEW k \in Nat, k = Len(applied)
    PROVE  \E f : SimulatedImpacts(state, operations) = f[k] /\ Tells(f, k, state, baseline, applied)
<1> DEFINE Unfolds(f) ==
             f = [n \in 0..k |-> IF n = 0 THEN {}
                                 ELSE Collect(f[n - 1], OperationImpacts(state, baseline, applied[n]))]
<1>1. PICK found : found = [n \in 1..k |-> OperationImpacts(state, baseline, applied[n])]
  OBVIOUS
<1>2. PICK V : V = SUBSET (UNION {found[n] : n \in 1..k})
  OBVIOUS
<1>3. \E f : Unfolds(f)
  <2>1. PICK step : step = [n \in 1..k |-> [collected \in V |-> Collect(collected, found[n])]]
    OBVIOUS
  <2>2. ASSUME NEW n \in 1..k, NEW collected \in V
        PROVE  step[n][collected] = Collect(collected, found[n]) /\ step[n][collected] \in V
    <3>1. step[n][collected] = Collect(collected, found[n])
      BY <2>1
    <3>2. Collect(collected, found[n]) \subseteq collected \cup found[n]
      BY DEF Collect
    <3>3. collected \subseteq UNION {found[m] : m \in 1..k} /\ found[n] \subseteq UNION {found[m] : m \in 1..k}
      BY <1>2
    <3> QED
      BY <1>2, <3>1, <3>2, <3>3
  <2>3. IsStep(step, k, V)
    BY <2>1, <2>2 DEF IsStep
  <2>4. PICK none \in V : none = {}
    BY <1>2
  <2>5. PICK f : Stepped(f, k, V, none, step)
    BY <2>3, SomethingSteps
  <2>6. f \in [0..k -> V] /\ f[0] = {} /\ \A n \in 1..k : f[n] = step[n][f[n - 1]]
    BY <2>4, <2>5 DEF Stepped
  <2>7. ASSUME NEW n \in 0..k
        PROVE  f[n] = IF n = 0 THEN {} ELSE Collect(f[n - 1], OperationImpacts(state, baseline, applied[n]))
    <3>1. CASE n = 0
      BY <2>6, <3>1
    <3>2. CASE n # 0
      <4>1. n \in 1..k /\ n - 1 \in 0..k
        BY <3>2
      <4>2. PICK old \in V : old = f[n - 1]
        BY <2>6, <4>1
      <4>3. f[n] = Collect(old, found[n])
        BY <2>2, <2>6, <4>1, <4>2
      <4>4. found[n] = OperationImpacts(state, baseline, applied[n])
        BY <1>1, <4>1
      <4> QED
        BY <3>2, <4>2, <4>3, <4>4
    <3> QED
      BY <3>1, <3>2
  <2>8. f = [n \in 0..k |-> f[n]]
    BY <2>6
  <2>9. Unfolds(f)
    BY <2>7, <2>8
  <2> QED
    BY <2>9
<1>4. PICK f : f = CHOOSE g : Unfolds(g)
  OBVIOUS
<1>5. SimulatedImpacts(state, operations) = f[k]
  BY <1>4 DEF SimulatedImpacts, Gathered
<1>6. Unfolds(f)
  BY <1>3, <1>4
<1>7. f[0] = {}
  BY <1>6
<1>8. ASSUME NEW n \in 1..k PROVE f[n] = Collect(f[n - 1], OperationImpacts(state, baseline, applied[n]))
  <2>1. n \in 0..k /\ n # 0
    OBVIOUS
  <2>2. \A m \in 0..k : f[m] = IF m = 0 THEN {}
                               ELSE Collect(f[m - 1], OperationImpacts(state, baseline, applied[m]))
    BY <1>6
  <2> QED
    BY <2>1, <2>2
<1> QED
  BY <1>5, <1>7, <1>8 DEF Tells

\* Something of every entity an applied operation affects is told.
LEMMA WhatIsFoundIsTold ==
    ASSUME NEW state, NEW operations, NEW baseline, baseline = Baseline(state, operations),
           NEW applied, applied = SimulateProposal(state, operations).applied, NEW k \in Nat, k = Len(applied),
           NEW n \in 1..k, NEW impact \in OperationImpacts(state, baseline, applied[n])
    PROVE  \E told \in SimulatedImpacts(state, operations) : told.type = impact.type /\ told.id = impact.id
<1>1. PICK f : SimulatedImpacts(state, operations) = f[k] /\ Tells(f, k, state, baseline, applied)
  BY ImpactsUnfold
<1> DEFINE Told(m) == \E told \in f[m] : told.type = impact.type /\ told.id = impact.id
           T == {m \in 0..k : m >= n => Told(m)}
<1>2. 0 \in T
  OBVIOUS
<1>3. ASSUME NEW m \in 1..k, m - 1 \in T PROVE m \in T
  <2>1. f[m] = Collect(f[m - 1], OperationImpacts(state, baseline, applied[m]))
    BY <1>1 DEF Tells
  <2>2. CASE m < n
    BY <2>2
  <2>3. CASE m = n
    <3>1. impact \in OperationImpacts(state, baseline, applied[m])
      BY <2>3
    <3>2. CASE \A j \in f[m - 1] : ~SameFinding(impact, j)
      <4>1. impact \in f[m]
        BY <2>1, <3>1, <3>2 DEF Collect
      <4> QED
        BY <4>1
    <3>3. CASE \E j \in f[m - 1] : SameFinding(impact, j)
      <4>1. PICK j \in f[m - 1] : SameFinding(impact, j)
        BY <3>3
      <4>2. j \in f[m]
        BY <2>1 DEF Collect
      <4> QED
        BY <4>1, <4>2 DEF SameFinding
    <3> QED
      BY <3>2, <3>3
  <2>4. CASE m > n
    <3>1. m - 1 >= n
      BY <2>4
    <3>2. PICK told \in f[m - 1] : told.type = impact.type /\ told.id = impact.id
      BY <1>3, <3>1
    <3>3. told \in f[m]
      BY <2>1 DEF Collect
    <3> QED
      BY <3>2, <3>3
  <2> QED
    BY <2>2, <2>3, <2>4
<1> HIDE DEF T
<1>4. \A m \in 0..k : m \in T
  BY <1>2, <1>3, BoundedInduction
<1>5. k \in 0..k /\ k >= n
  OBVIOUS
<1>6. k \in T
  BY <1>4, <1>5
<1> QED
  BY <1>1, <1>5, <1>6 DEF T

\* A move of a scene affects the call sheets of the day it leaves and of the day it goes to.
LEMMA MoveAffectsSheets ==
    ASSUME NEW state, NEW now, NEW op, op.type = "MOVE_SCENES", op.to \in DOMAIN now.days,
           NEW s \in ToSet(op.scenes), s \in Scheduled(now), ScheduledShootDay(now, s) # op.to,
           NEW c \in DOMAIN now.sheets, now.sheets[c].day \in {ScheduledShootDay(now, s), op.to}
    PROVE  \E impact \in OperationImpacts(state, now, op) : impact.type = "CALL_SHEET" /\ impact.id = c
<1>1. PICK change : change = [type |-> "SCHEDULE_CHANGED", scenes |-> op.scenes, to |-> op.to]
  OBVIOUS
<1>2. change.type = "SCHEDULE_CHANGED" /\ change.scenes = op.scenes /\ change.to = op.to
  BY <1>1
<1>3. OperationImpacts(state, now, op) = AnalyzeScheduleChanged(now, change).impacts
  BY <1>1, <1>2 DEF OperationImpacts, AnalyzeImpact
<1>4. PICK arriving : arriving = {q \in ToSet(op.scenes) \cap DOMAIN now.scenes : ScheduledShootDay(now, q) # op.to}
  OBVIOUS
<1>5. s \in arriving /\ s \in arriving \cap Scheduled(now)
  BY <1>4 DEF Scheduled
<1>6. /\ PropagateFromScenes(now, arriving \cap Scheduled(now), Nobody, FALSE)
           \subseteq OperationImpacts(state, now, op)
      /\ DayRipple(now, op.to) \subseteq OperationImpacts(state, now, op)
  BY <1>2, <1>3, <1>4, <1>5 DEF AnalyzeScheduleChanged
<1>7. DayRipple(now, ScheduledShootDay(now, s)) \subseteq OperationImpacts(state, now, op)
  BY <1>5, <1>6 DEF PropagateFromScenes
<1>8. PICK impact : impact = Impact("CALL_SHEET", c, "CALL_SHEET_DERIVED_FROM_AFFECTED_SHOOT_DAY", "WARNING")
  OBVIOUS
<1>9. impact \in DayRipple(now, now.sheets[c].day)
  BY <1>8 DEF DayRipple, CallSheetsFor
<1>10. impact \in OperationImpacts(state, now, op)
  BY <1>6, <1>7, <1>9
<1>11. impact.type = "CALL_SHEET" /\ impact.id = c
  BY <1>8 DEF Impact
<1> QED
  BY <1>10, <1>11

\* The marks in an answer are its marks.
LEMMA MarksInAnAnswer ==
    ASSUME NEW plan, NEW fact, NEW moves, NEW marks, NEW state, NEW list, NEW target,
           IsMadeOf(plan, fact, moves, marks, state, list, target),
           NEW j \in 1..Len(plan), plan[j].type = "MARK_CALL_SHEET_STALE"
    PROVE  \E i \in 1..Len(marks) : plan[j] = marks[i]
<1>1. /\ Len(moves) \in Nat /\ Len(marks) \in Nat /\ Len(plan) = 1 + Len(moves) + Len(marks)
      /\ plan[1] = fact
      /\ \A i \in 1..Len(moves) : plan[1 + i] = moves[i]
      /\ \A i \in 1..Len(marks) : plan[1 + Len(moves) + i] = marks[i]
  BY PlacesInAnAnswer
<1>2. PICK m \in Nat, n \in Nat : m = Len(moves) /\ n = Len(marks)
  BY <1>1
<1>3. (\A i \in 1..m : moves[i].type = "MOVE_SCENES") /\ fact.type # "MARK_CALL_SHEET_STALE"
  BY <1>2 DEF IsMadeOf, AreMovesOf, IsFactOperation
<1>4. j # 1
  BY <1>1, <1>3
<1>5. ASSUME j <= 1 + m PROVE FALSE
  <2>1. j - 1 \in 1..m /\ 1 + (j - 1) = j
    BY <1>1, <1>2, <1>4, <1>5
  <2>2. plan[j] = moves[j - 1]
    BY <1>1, <1>2, <2>1
  <2> QED
    BY <1>3, <2>1, <2>2
<1>6. j - (1 + m) \in 1..n /\ 1 + m + (j - (1 + m)) = j
  BY <1>1, <1>2, <1>5
<1> QED
  BY <1>1, <1>2, <1>6

\* The baseline of an answer is the world with its fact.
LEMMA BaselineOfAnAnswer ==
    ASSUME NEW plan, NEW fact, NEW moves, NEW marks, NEW state, NEW list, NEW target,
           IsMadeOf(plan, fact, moves, marks, state, list, target), IsOperationList(plan)
    PROVE  Baseline(state, plan) = ApplyOperations(state, <<fact>>).state
<1>1. PICK k \in Nat : k = Len(plan) /\ k >= 1
  BY PlacesInAnAnswer
<1>2. plan[1] = fact
  BY PlacesInAnAnswer
<1>3. \A i \in 1..k : i > 1 => plan[i].type \in {"MOVE_SCENES", "MARK_CALL_SHEET_STALE"}
  BY <1>1, RestOfAnAnswer
<1>4. PICK kept : kept = {op \in ToSet(plan) : IsFactOperation(op)}
  OBVIOUS
<1>5. \A i \in 1..k : plan[i] \in ToSet(plan)
  BY <1>1, OperationListFacts DEF ToSet
<1>6. PICK f : /\ Selected(plan, kept) = f[k] /\ f[0] = <<>>
               /\ \A n \in 1..k : f[n] = IF plan[n] \in kept THEN Append(f[n - 1], plan[n]) ELSE f[n - 1]
  BY <1>1, <1>5, SelectedUnfolds
<1>7. IsFactOperation(fact)
  BY DEF IsMadeOf
<1> DEFINE T == {n \in 0..k : n >= 1 => f[n] = <<fact>>}
<1>8. 0 \in T
  OBVIOUS
<1>9. ASSUME NEW n \in 1..k, n - 1 \in T PROVE n \in T
  <2>1. CASE n = 1
    <3>1. plan[n] \in kept
      BY <1>2, <1>4, <1>5, <1>7, <2>1
    <3>2. f[n] = Append(f[n - 1], plan[n])
      BY <1>6, <3>1
    <3>3. f[n - 1] = <<>> /\ plan[n] = fact
      <4>1. n - 1 = 0
        BY <2>1
      <4> QED
        BY <1>2, <1>6, <2>1, <4>1
    <3>4. f[n] = <<fact>>
      BY <3>2, <3>3
    <3> QED
      BY <3>4
  <2>2. CASE n > 1
    <3>1. plan[n] \notin kept
      BY <1>3, <1>4, <2>2 DEF IsFactOperation
    <3>2. f[n] = f[n - 1]
      BY <1>6, <3>1
    <3> QED
      BY <1>9, <2>2, <3>2
  <2> QED
    BY <2>1, <2>2
<1> HIDE DEF T
<1>10. \A n \in 0..k : n \in T
  BY <1>8, <1>9, BoundedInduction
<1>11. f[k] = <<fact>>
  BY <1>1, <1>10 DEF T
<1> QED
  BY <1>4, <1>6, <1>11 DEF Baseline

\* Simulated, an answer tells of every sheet it marks.
LEMMA AnswerExplainsItsMarks ==
    ASSUME NEW state, IsSnapshot(state), IsSound(state), CheckStateInvariants(state) = {},
           Nobody \notin DOMAIN state.days,
           NEW change, IsChange(change), IsUnavailability(change), ReferencesExist(state, change),
           NEW scenes, scenes = BlockedByAnalysis(state, AnalyzeImpact(state, change)), scenes # {},
           NEW target \in CandidatesFor(state, change, scenes),
           NEW plan, plan = UnavailabilityPlan(state, change, scenes, target),
           NEW j \in DOMAIN plan, plan[j].type = "MARK_CALL_SHEET_STALE"
    PROVE  \E impact \in SimulatedImpacts(state, plan) : impact.type = "CALL_SHEET" /\ impact.id = plan[j].sheet
<1>1. PICK fact, list : fact = FactOperation(change) /\ list = SetToSeq(scenes)
  OBVIOUS
<1>2. PICK moves, marks : /\ moves = MoveOperations(state, list, target)
                          /\ marks = StaleMarks(state, SourceDays(state, scenes), target)
  OBVIOUS
<1>3. PICK now, run : now = ApplyOperations(state, <<fact>>).state /\ run = ApplyOperations(state, plan)
  OBVIOUS
<1>4. /\ IsMadeOf(plan, fact, moves, marks, state, list, target) /\ IsOperationList(plan)
      /\ ToSet(list) = scenes /\ scenes \subseteq Scheduled(state) /\ SameFrame(state, now)
      /\ target \in DOMAIN state.days
      /\ \A s \in scenes : ScheduledShootDay(state, s) # target
      /\ run.applied \in Seq(ToSet(plan))
      /\ \A i \in 1..Len(moves) : moves[i] \in ToSet(run.applied)
  BY <1>1, <1>2, <1>3, AnswerRuns
<1>5. PICK days : days = DaysOfAnAnswer(state, ToSet(list), target)
  OBVIOUS
<1>6. AreMovesOf(moves, state, list, target) /\ AreMarksOf(marks, state, days)
  BY <1>4, <1>5 DEF IsMadeOf
<1>7. PICK c : c = plan[j].sheet
  OBVIOUS
<1>8. c \in StaleCallSheetsForShootDays(state, days)
  <2>1. j \in 1..Len(plan)
    BY <1>4, OperationListFacts
  <2>2. PICK i \in 1..Len(marks) : plan[j] = marks[i]
    BY <1>4, <2>1, MarksInAnAnswer
  <2> QED
    BY <1>6, <1>7, <2>2 DEF AreMarksOf
<1>9. c \in DOMAIN state.sheets /\ state.sheets[c].day \in days
  BY <1>8 DEF StaleCallSheetsForShootDays
<1>10. PICK s \in scenes : state.sheets[c].day \in {ScheduledShootDay(state, s), target}
  BY <1>4, <1>5, <1>9 DEF DaysOfAnAnswer, SourceDays
<1>11. PICK from : from = ScheduledShootDay(state, s)
  OBVIOUS
<1>12. from \in DOMAIN state.days /\ from # target
  BY <1>4, <1>11, ScheduledDayExists
<1>13. from \in SourcesOf(state, list, target)
  BY <1>4, <1>11, <1>12 DEF SourcesOf
<1>14. PICK q \in 1..Len(moves) : moves[q].from = from
  BY <1>6, <1>13 DEF AreMovesOf
<1>15. PICK op : op = moves[q]
  OBVIOUS
<1>16. /\ op.type = "MOVE_SCENES" /\ op.to = target /\ op.from = from
       /\ ToSet(op.scenes) = OnDay(state, list, from)
  BY <1>6, <1>14, <1>15 DEF AreMovesOf
<1>17. s \in ToSet(op.scenes)
  BY <1>4, <1>11, <1>16 DEF OnDay
<1>18. /\ op.to \in DOMAIN now.days /\ ScheduledShootDay(now, s) = from /\ s \in Scheduled(now)
       /\ c \in DOMAIN now.sheets /\ now.sheets[c].day \in {from, op.to}
  <2>1. /\ now.days = state.days /\ now.scenes = state.scenes /\ now.sheets = state.sheets
    BY <1>4 DEF SameFrame
  <2>2. Placements(now, s) = Placements(state, s) /\ ScheduledShootDay(now, s) = from
    BY <1>11, <2>1, SameDaysSamePlace
  <2> QED
    BY <1>4, <1>9, <1>10, <1>11, <1>16, <2>1, <2>2 DEF Scheduled
<1>19. PICK impact \in OperationImpacts(state, now, op) : impact.type = "CALL_SHEET" /\ impact.id = c
  BY <1>12, <1>16, <1>17, <1>18, MoveAffectsSheets
<1>20. PICK applied : applied = SimulateProposal(state, plan).applied
  OBVIOUS
<1>21. applied = run.applied
  BY <1>3, <1>20 DEF SimulateProposal
<1>22. PICK k \in Nat : k = Len(applied) /\ DOMAIN applied = 1..k
  BY <1>4, <1>21
<1>23. PICK n \in 1..k : applied[n] = op
  BY <1>4, <1>15, <1>21, <1>22 DEF ToSet
<1>24. now = Baseline(state, plan)
  BY <1>3, <1>4, BaselineOfAnAnswer
<1>25. impact \in OperationImpacts(state, now, applied[n])
  BY <1>19, <1>23
<1>26. \E told \in SimulatedImpacts(state, plan) : told.type = impact.type /\ told.id = impact.id
  BY <1>20, <1>22, <1>24, <1>25, WhatIsFoundIsTold
<1> QED
  BY <1>7, <1>19, <1>26

-----------------------------------------------------------------------------
(* What was planned on the version it is applied to.                       *)

\* A plan the agent could have made for an unavailability on a state.
IsAnswer(state, change, plan) ==
    LET scenes == BlockedByAnalysis(state, AnalyzeImpact(state, change))
    IN  \/ scenes = {} /\ plan = <<FactOperation(change)>>
        \/ /\ scenes # {}
           /\ \E target \in CandidatesFor(state, change, scenes) :
                plan = UnavailabilityPlan(state, change, scenes, target)

\* A plan the agent could have made for a change on a state.
IsPlanFor(state, change, plan) ==
    \/ IsUnavailability(change) /\ IsAnswer(state, change, plan)
    \/ change.type = "SCENE_REQUIREMENT_CHANGED" /\ plan = RequirementPlan(state, change)
    \/ change.type = "SCHEDULE_CHANGED" /\ plan = SchedulePlan(state, change)

\* A production without an objection, whose days have identities.
IsWell(state) ==
    IsSnapshot(state) /\ IsSound(state) /\ CheckStateInvariants(state) = {} /\ Nobody \notin DOMAIN state.days

\* Whether a change is settled in a state.
SettledIn(state, change) ==
    LET analysis == AnalyzeImpact(state, change)
    IN  CASE IsUnavailability(change) -> analysis.conflicts = {}
          [] change.type = "SCENE_REQUIREMENT_CHANGED" -> AlreadyPresent(analysis)
          [] change.type = "SCHEDULE_CHANGED" ->
               \A i \in DOMAIN change.scenes : ScheduledShootDay(state, change.scenes[i]) \in {change.to, Nobody}

\* The plans of each kind are orderly, and begin with what settles the change.
LEMMA AnswerBegins ==
    ASSUME NEW state, IsWell(state), NEW change, IsChange(change), IsUnavailability(change),
           ReferencesExist(state, change), NEW plan, IsAnswer(state, change, plan)
    PROVE  IsOperationList(plan) /\ IsOrderly(plan) /\ 1 \in 1..Len(plan) /\ plan[1] = FactOperation(change)
<1>1. PICK scenes, fact : /\ scenes = BlockedByAnalysis(state, AnalyzeImpact(state, change))
                          /\ fact = FactOperation(change)
  OBVIOUS
<1>2. CASE scenes = {} /\ plan = <<fact>>
  <2>1. IsOperationList(plan) /\ IsOrderly(plan)
    BY <1>1, <1>2, FactIsOrderly
  <2> QED
    BY <1>1, <1>2, <2>1
<1>3. ASSUME NEW target \in CandidatesFor(state, change, scenes),
             plan = UnavailabilityPlan(state, change, scenes, target)
      PROVE  IsOperationList(plan) /\ IsOrderly(plan) /\ 1 \in 1..Len(plan) /\ plan[1] = fact
  <2>1. scenes \subseteq DOMAIN state.scenes
    BY <1>1, BlockedAre, WithinAreScheduled
  <2>2. IsFiniteSet(scenes)
    BY <2>1, FS_Subset DEF IsWell, IsSnapshot
  <2>3. IsOperationList(plan) /\ IsOrderly(plan)
    BY <1>3, <2>2, AnswerIsOrderly DEF IsWell
  <2>4. PICK list, moves, marks :
          /\ list = SetToSeq(scenes) /\ moves = MoveOperations(state, SetToSeq(scenes), target)
          /\ marks = StaleMarks(state, SourceDays(state, scenes), target)
    OBVIOUS
  <2>5. IsMadeOf(plan, fact, moves, marks, state, list, target)
    BY <1>1, <1>3, <2>2, <2>4, AnswerParts DEF IsWell
  <2>6. plan[1] = fact /\ Len(plan) = 1 + Len(moves) + Len(marks) /\ Len(moves) \in Nat /\ Len(marks) \in Nat
    BY <2>5, PlacesInAnAnswer
  <2> QED
    BY <2>3, <2>6
<1> QED
  BY <1>1, <1>2, <1>3 DEF IsAnswer

\* Applied where it was planned, and found valid, a plan passes its verification and settles its change.
LEMMA PlanVerifies ==
    ASSUME NEW state, IsWell(state), NEW change, IsChange(change), ReferencesExist(state, change),
           NEW plan, IsPlanFor(state, change, plan), SimulateProposal(state, plan).valid,
           NEW post, post = ApplyOperations(state, plan).state
    PROVE  Verified(post, plan) /\ SettledIn(post, change)
<1>1. IsSnapshot(state) /\ IsSound(state) /\ CheckStateInvariants(state) = {} /\ Nobody \notin DOMAIN state.days
  BY DEF IsWell
<1>2. CASE IsUnavailability(change) /\ IsAnswer(state, change, plan)
  <2>1. IsOperationList(plan) /\ IsOrderly(plan) /\ 1 \in 1..Len(plan) /\ plan[1] = FactOperation(change)
    BY <1>2, AnswerBegins
  <2>2. /\ IsKept(post) /\ CheckStateInvariants(post) = {} /\ Verified(post, plan)
        /\ \A i \in 1..Len(plan) : IsOperationAlreadyApplied(post, plan[i])
    BY <1>1, <2>1, ValidIsVerified
  <2>3. IsOperationAlreadyApplied(post, FactOperation(change))
    BY <2>1, <2>2
  <2>4. AnalyzeImpact(post, change).conflicts = {}
    BY <1>2, <2>2, <2>3, AnswerSettles
  <2> QED
    BY <1>2, <2>2, <2>4 DEF SettledIn, IsUnavailability
<1>3. CASE change.type = "SCENE_REQUIREMENT_CHANGED" /\ plan = RequirementPlan(state, change)
  <2>1. PICK op : op = [type |-> "ADD_SCENE_REQUIREMENT", scene |-> change.scene, kind |-> change.kind,
                        name |-> change.name]
    OBVIOUS
  <2>2. /\ IsOperationList(plan) /\ IsOrderly(plan) /\ Len(plan) >= 2 /\ Len(plan) \in Nat /\ plan[1] = op
    BY <1>1, <1>3, <2>1, RequirementIsOrderly
  <2>3. /\ IsKept(post) /\ CheckStateInvariants(post) = {} /\ Verified(post, plan)
        /\ \A i \in 1..Len(plan) : IsOperationAlreadyApplied(post, plan[i])
    BY <1>1, <2>2, ValidIsVerified
  <2>4. IsOperationAlreadyApplied(post, op)
    <3>1. 1 \in 1..Len(plan)
      BY <2>2
    <3> QED
      BY <2>2, <2>3, <3>1
  <2>5. AlreadyPresent(AnalyzeImpact(post, change))
    BY <1>3, <2>1, <2>3, <2>4, RequirementSettles
  <2> QED
    BY <1>3, <2>3, <2>5 DEF SettledIn, IsUnavailability
<1>4. CASE change.type = "SCHEDULE_CHANGED" /\ plan = SchedulePlan(state, change)
  <2>1. change.scenes \in Seq(ToSet(change.scenes)) /\ change.to \in DOMAIN state.days
    BY <1>4 DEF IsChange, ReferencesExist
  <2>2. IsOperationList(plan) /\ IsOrderly(plan)
    BY <1>1, <1>4, <2>1, ScheduleIsOrderly
  <2>3. Verified(post, plan)
    BY <1>1, <2>2, ValidIsVerified
  <2>4. \A s \in ToSet(change.scenes) : ScheduledShootDay(post, s) \in {change.to, Nobody}
    BY <1>1, <1>4, <2>1, ScheduleSettles
  <2>5. \A i \in DOMAIN change.scenes : change.scenes[i] \in ToSet(change.scenes)
    BY DEF ToSet
  <2> QED
    BY <1>4, <2>3, <2>4, <2>5 DEF SettledIn, IsUnavailability
<1> QED
  BY <1>2, <1>3, <1>4 DEF IsPlanFor

\* The days of a production are those it was set up with.
LEMMA SameDays ==
    ASSUME NEW state, IsKept(state), NEW operations, IsOperationList(operations),
           ApplyOperations(state, operations).conflicts = {},
           NEW post, post = ApplyOperations(state, operations).state
    PROVE  DOMAIN post.days = DOMAIN state.days
<1>1. PICK k \in Nat : k = Len(operations)
  BY OperationListFacts
<1>2. PICK after : after = Applying(state, operations)
  OBVIOUS
<1>3. /\ after[0] = Begun(state) /\ \A n \in 0..k : IsApplication(after[n])
      /\ after[k] = ApplyOperations(state, operations)
  BY <1>1, <1>2, EveryTurnKept
<1>4. \A n \in 1..k : HasTurned(after[n - 1], operations[n], after[n]) /\ IsOperation(operations[n])
  BY <1>1, <1>2, NoConflictOnTheWay, OperationListFacts
<1> DEFINE T == {n \in 0..k : DOMAIN after[n].state.days = DOMAIN state.days}
<1>5. 0 \in T
  BY <1>3 DEF Begun
<1>6. ASSUME NEW n \in 1..k, n - 1 \in T PROVE n \in T
  <2>1. PICK before, op : before = after[n - 1] /\ op = operations[n]
    OBVIOUS
  <2>2. IsKept(before.state) /\ IsOperation(op) /\ HasTurned(before, op, after[n])
    <3>1. n - 1 \in 0..k
      OBVIOUS
    <3> QED
      BY <1>3, <1>4, <2>1, <3>1 DEF IsApplication
  <2>3. PICK old, new : old = before.state /\ new = after[n].state
    OBVIOUS
  <2>a. DOMAIN old.days = DOMAIN state.days
    BY <1>6, <2>1, <2>3
  <2>b. DOMAIN new.days = DOMAIN old.days => n \in T
    BY <2>3, <2>a
  <2>4. CASE new = old
    BY <2>4, <2>b
  <2>5. CASE ~IsOperationAlreadyApplied(old, op) /\ Problems(old, op) = {} /\ new = Effect(old, op)
    <3>1. CASE op.type = "MOVE_SCENES"
      <4>1. HasMoved(old, op, new)
        BY <2>2, <2>3, <2>5, <3>1, MovedScenes
      <4> QED
        BY <2>b, <4>1 DEF HasMoved
    <3>2. CASE op.type # "MOVE_SCENES"
      <4>1. new.days = old.days
        BY <2>2, <2>3, <2>5, <3>2, OtherOperationsLeaveDays
      <4> QED
        BY <2>b, <4>1
    <3> QED
      BY <3>1, <3>2
  <2> QED
    BY <2>2, <2>3, <2>4, <2>5 DEF HasTurned
<1> HIDE DEF T
<1>7. \A n \in 0..k : n \in T
  BY <1>5, <1>6, BoundedInduction
<1>8. DOMAIN after[k].state.days = DOMAIN state.days
  BY <1>7 DEF T
<1> QED
  BY <1>3, <1>8

\* What is applied leaves a production well.
LEMMA ValidStaysWell ==
    ASSUME NEW state, IsWell(state), NEW operations, IsOperationList(operations),
           SimulateProposal(state, operations).valid,
           NEW post, post = ApplyOperations(state, operations).state
    PROVE  IsWell(post)
<1>1. ApplyOperations(state, operations).conflicts = {}
  BY DEF SimulateProposal
<1>2. IsKept(state)
  BY SoundIsListed DEF IsWell, IsKept
<1>3. DOMAIN post.days = DOMAIN state.days
  BY <1>1, <1>2, SameDays
<1>4. IsSnapshot(post) /\ IsSound(post) /\ CheckStateInvariants(post) = {}
  BY ValidStaysSound DEF IsWell
<1> QED
  BY <1>3, <1>4 DEF IsWell

-----------------------------------------------------------------------------
(* The invariant of the agent's answers.                                   *)

\* The analysis a run carries is that of the version it says it is of.
AnalysisIsOf(phase, change, base, analysis) ==
    phase \notin {"IDLE", "INTERPRETED", "SUBMITTED"} /\ version = base =>
      ReferencesExist(production, change) /\ analysis = AnalyzeImpact(production, change)

\* So is its plan.
PlanIsOf(phase, change, base, plan) ==
    phase \in {"PLANNED", "SIMULATED", "PROPOSED"} /\ version = base => IsPlanFor(production, change, plan)

\* A run that found no day found none on a production that was well.
NobodyIsLeft(phase, change, analysis, seen) ==
    phase = "NO_CANDIDATE" =>
      /\ IsWell(seen) /\ IsUnavailability(change)
      /\ BlockedByAnalysis(seen, analysis) # {}
      /\ CandidatesFor(seen, change, BlockedByAnalysis(seen, analysis)) = {}

\* What is proposed for an unavailability is valid.
AnswerIsGood(phase, change, valid) == phase = "PROPOSED" /\ IsUnavailability(change) => valid

\* What is known of a run's findings.
RunIsHonest(run) ==
    /\ AnalysisIsOf(run.phase, run.change, run.base, run.analysis)
    /\ PlanIsOf(run.phase, run.change, run.base, run.plan)
    /\ NobodyIsLeft(run.phase, run.change, run.analysis, run.seen)
    /\ AnswerIsGood(run.phase, run.change, run.valid)

\* The inductive invariant.
AnswersInv == PlanningInv /\ Nobody \notin DOMAIN production.days /\ RunIsHonest(agent) /\ AppliedPlansVerify

\* A production that is well stays so while nothing is applied.
LEMMA ProductionIsWellNow == AnswersInv => IsWell(production)
  BY DEF AnswersInv, PlanningInv, ProductionIsWell, IsWell

\* A step that applies nothing leaves what was applied verified.
LEMMA NothingApplied ==
    ASSUME UNCHANGED <<production, version, last>>, AnswersInv, PlanningInv',
           RunIsHonest(agent)'
    PROVE  AnswersInv'
<1>1. AppliedPlansVerify'
  BY DEF AnswersInv, AppliedPlansVerify, Settled
<1> QED
  BY <1>1 DEF AnswersInv

\* A step of a run that applies nothing.
LEMMA HonestStep ==
    ASSUME NEW phase, NEW change, NEW base, NEW analysis, NEW seen, NEW plan, NEW valid,
           agent' = Run(phase, change, base, analysis, seen, plan, valid),
           UNCHANGED <<production, version, last>>, AnswersInv, PlanningInv',
           AnalysisIsOf(phase, change, base, analysis), PlanIsOf(phase, change, base, plan),
           NobodyIsLeft(phase, change, analysis, seen), AnswerIsGood(phase, change, valid)
    PROVE  AnswersInv'
<1>1. PICK run : run = agent'
  OBVIOUS
<1>2. /\ run.phase = phase /\ run.change = change /\ run.base = base /\ run.analysis = analysis
      /\ run.seen = seen /\ run.plan = plan /\ run.valid = valid
  BY <1>1 DEF Run
<1>3. RunIsHonest(run)
  BY <1>2 DEF RunIsHonest
<1>4. RunIsHonest(agent)'
  BY <1>1, <1>3 DEF RunIsHonest, AnalysisIsOf, PlanIsOf
<1> QED
  BY <1>4, NothingApplied

\* A run that ends claims nothing.
LEMMA EndIsHonest ==
    ASSUME agent' = NoRun, UNCHANGED <<production, version, last>>, AnswersInv, PlanningInv'
    PROVE  AnswersInv'
<1>1. PICK plan, valid : plan = <<>> /\ valid = FALSE
  OBVIOUS
<1>2. agent' = Run("IDLE", Nobody, 0, Nobody, Nobody, plan, valid)
  BY <1>1 DEF NoRun
<1>3. /\ AnalysisIsOf("IDLE", Nobody, 0, Nobody) /\ PlanIsOf("IDLE", Nobody, 0, plan)
      /\ NobodyIsLeft("IDLE", Nobody, Nobody, Nobody) /\ AnswerIsGood("IDLE", Nobody, valid)
  BY DEF AnalysisIsOf, PlanIsOf, NobodyIsLeft, AnswerIsGood
<1> QED
  BY <1>2, <1>3, HonestStep

\* At first nothing is claimed and nothing is applied.
LEMMA AnswersStart == Init => AnswersInv
<1> SUFFICES ASSUME Init PROVE AnswersInv
  OBVIOUS
<1>1. Nobody \notin DOMAIN production.days
  BY NobodyIsNoDay DEF Init
<1>2. agent.phase = "IDLE"
  BY DEF Init, NoRun, Run
<1>3. RunIsHonest(agent)
  BY <1>2 DEF RunIsHonest, AnalysisIsOf, PlanIsOf, NobodyIsLeft, AnswerIsGood
<1>4. AppliedPlansVerify
  BY DEF Init, AppliedPlansVerify
<1> QED
  BY <1>1, <1>3, <1>4, PlanningStarts DEF AnswersInv

\* A run is made of its parts.
LEMMA PartsOfARun ==
    AnswersInv =>
      /\ agent = Run(agent.phase, agent.change, agent.base, agent.analysis, agent.seen, agent.plan, agent.valid)
      /\ AnalysisIsOf(agent.phase, agent.change, agent.base, agent.analysis)
      /\ PlanIsOf(agent.phase, agent.change, agent.base, agent.plan)
      /\ NobodyIsLeft(agent.phase, agent.change, agent.analysis, agent.seen)
      /\ AnswerIsGood(agent.phase, agent.change, agent.valid)
  BY DEF AnswersInv, PlanningInv, AgentIsWell, RunIsARecord, RunIsHonest

\* Reading a sentence claims nothing of the production.
LEMMA InterpretIsHonest ==
    ASSUME AnswersInv, PlanningInv', NEW change, Interpret(change) PROVE AnswersInv'
<1>1. PICK plan, valid : plan = <<>> /\ valid = FALSE
  OBVIOUS
<1>2. agent' = Run("INTERPRETED", change, 0, Nobody, Nobody, plan, valid) /\ UNCHANGED <<production, version, last>>
  BY <1>1 DEF Interpret
<1>3. /\ AnalysisIsOf("INTERPRETED", change, 0, Nobody) /\ PlanIsOf("INTERPRETED", change, 0, plan)
      /\ NobodyIsLeft("INTERPRETED", change, Nobody, Nobody) /\ AnswerIsGood("INTERPRETED", change, valid)
  BY DEF AnalysisIsOf, PlanIsOf, NobodyIsLeft, AnswerIsGood
<1> QED
  BY <1>2, <1>3, HonestStep

\* Nor does recording the change, or looking its references up once more.
LEMMA SubmitIsHonest ==
    ASSUME AnswersInv, PlanningInv', SubmitChange PROVE AnswersInv'
<1>1. UNCHANGED <<production, version, last>>
  BY DEF SubmitChange
<1>2. CASE agent' = NoRun
  BY <1>1, <1>2, EndIsHonest
<1>3. CASE agent' = [agent EXCEPT !.phase = "SUBMITTED"]
  <2>1. agent' = Run("SUBMITTED", agent.change, agent.base, agent.analysis, agent.seen, agent.plan, agent.valid)
    BY <1>3, PartsOfARun DEF Run
  <2>2. /\ AnalysisIsOf("SUBMITTED", agent.change, agent.base, agent.analysis)
        /\ PlanIsOf("SUBMITTED", agent.change, agent.base, agent.plan)
        /\ NobodyIsLeft("SUBMITTED", agent.change, agent.analysis, agent.seen)
        /\ AnswerIsGood("SUBMITTED", agent.change, agent.valid)
    BY DEF AnalysisIsOf, PlanIsOf, NobodyIsLeft, AnswerIsGood
  <2> QED
    BY <1>1, <2>1, <2>2, HonestStep
<1> QED
  BY <1>2, <1>3 DEF SubmitChange

\* The analysis and the version are of one reading.
LEMMA AnalyzeIsHonest ==
    ASSUME AnswersInv, PlanningInv', Analyze PROVE AnswersInv'
<1>1. UNCHANGED <<production, version, last>>
  BY DEF Analyze
<1>2. CASE agent' = NoRun
  BY <1>1, <1>2, EndIsHonest
<1>3. CASE ReferencesExist(production, agent.change)
  <2>1. PICK analysis : analysis = AnalyzeImpact(production, agent.change)
    OBVIOUS
  <2>2. agent' = Run("ANALYZED", agent.change, version, analysis, agent.seen, agent.plan, agent.valid)
    BY <1>3, <2>1, PartsOfARun DEF Analyze, Run
  <2>3. /\ AnalysisIsOf("ANALYZED", agent.change, version, analysis)
        /\ PlanIsOf("ANALYZED", agent.change, version, agent.plan)
        /\ NobodyIsLeft("ANALYZED", agent.change, analysis, agent.seen)
        /\ AnswerIsGood("ANALYZED", agent.change, agent.valid)
    BY <1>3, <2>1 DEF AnalysisIsOf, PlanIsOf, NobodyIsLeft, AnswerIsGood
  <2> QED
    BY <1>1, <2>2, <2>3, HonestStep
<1> QED
  BY <1>2, <1>3 DEF Analyze

\* A plan is made on a second reading, which is of the version analysed unless somebody wrote meanwhile.
LEMMA PlannedIsHonest ==
    ASSUME AnswersInv, PlanningInv', agent.phase = "ANALYZED", UNCHANGED <<production, version, last>>, NEW plan,
           agent' = [agent EXCEPT !.phase = "PLANNED", !.plan = plan],
           version = agent.base => IsPlanFor(production, agent.change, plan)
    PROVE  AnswersInv'
<1>1. agent' = Run("PLANNED", agent.change, agent.base, agent.analysis, agent.seen, plan, agent.valid)
  BY PartsOfARun DEF Run
<1>2. /\ AnalysisIsOf("PLANNED", agent.change, agent.base, agent.analysis)
      /\ PlanIsOf("PLANNED", agent.change, agent.base, plan)
      /\ NobodyIsLeft("PLANNED", agent.change, agent.analysis, agent.seen)
      /\ AnswerIsGood("PLANNED", agent.change, agent.valid)
  BY PartsOfARun DEF AnalysisIsOf, PlanIsOf, NobodyIsLeft, AnswerIsGood
<1> QED
  BY <1>1, <1>2, HonestStep

\* The plan for an unavailability is an answer when both readings agree; without a candidate there is none.
LEMMA PlanUnavailabilityIsHonest ==
    ASSUME AnswersInv, PlanningInv', agent.phase = "ANALYZED", PlanUnavailability,
           UNCHANGED <<production, version, last>>
    PROVE  AnswersInv'
<1>1. PICK scenes : scenes = BlockedByAnalysis(production, agent.analysis)
  OBVIOUS
<1>2. PICK candidates : candidates = CandidatesFor(production, agent.change, scenes)
  OBVIOUS
<1>3. IsUnavailability(agent.change)
  BY DEF PlanUnavailability
<1>4. version = agent.base => scenes = BlockedByAnalysis(production, AnalyzeImpact(production, agent.change))
  BY <1>1, PartsOfARun DEF AnalysisIsOf
<1>5. ASSUME scenes = {}, NEW plan, plan = <<FactOperation(agent.change)>>,
             agent' = [agent EXCEPT !.phase = "PLANNED", !.plan = plan]
      PROVE  AnswersInv'
  <2>1. version = agent.base => IsPlanFor(production, agent.change, plan)
    BY <1>3, <1>4, <1>5 DEF IsPlanFor, IsAnswer
  <2> QED
    BY <1>5, <2>1, PlannedIsHonest
<1>6. ASSUME scenes # {}, candidates = {}, agent' = [agent EXCEPT !.phase = "NO_CANDIDATE", !.seen = production]
      PROVE  AnswersInv'
  <2>1. agent' = Run("NO_CANDIDATE", agent.change, agent.base, agent.analysis, production, agent.plan, agent.valid)
    BY <1>6, PartsOfARun DEF Run
  <2>2. NobodyIsLeft("NO_CANDIDATE", agent.change, agent.analysis, production)
    BY <1>1, <1>2, <1>3, <1>6, ProductionIsWellNow DEF NobodyIsLeft
  <2>3. /\ AnalysisIsOf("NO_CANDIDATE", agent.change, agent.base, agent.analysis)
        /\ PlanIsOf("NO_CANDIDATE", agent.change, agent.base, agent.plan)
        /\ AnswerIsGood("NO_CANDIDATE", agent.change, agent.valid)
    BY PartsOfARun DEF AnalysisIsOf, PlanIsOf, AnswerIsGood
  <2> QED
    BY <2>1, <2>2, <2>3, HonestStep
<1>7. ASSUME scenes # {}, NEW target \in candidates,
             NEW plan, plan = UnavailabilityPlan(production, agent.change, scenes, target),
             agent' = [agent EXCEPT !.phase = "PLANNED", !.plan = plan]
      PROVE  AnswersInv'
  <2>1. version = agent.base => IsPlanFor(production, agent.change, plan)
    BY <1>2, <1>3, <1>4, <1>7 DEF IsPlanFor, IsAnswer
  <2> QED
    BY <1>7, <2>1, PlannedIsHonest
<1> QED
  BY <1>1, <1>2, <1>5, <1>6, <1>7 DEF PlanUnavailability

\* So are the plans for the other changes what they would be on that version.
LEMMA PlanIsHonest ==
    ASSUME AnswersInv, PlanningInv', Plan PROVE AnswersInv'
<1>1. agent.phase = "ANALYZED" /\ UNCHANGED <<production, version, last>>
  BY DEF Plan
<1>2. CASE PlanUnavailability
  BY <1>1, <1>2, PlanUnavailabilityIsHonest
<1>3. CASE PlanRequirement
  <2>1. PICK plan : plan = RequirementPlan(production, agent.change)
    OBVIOUS
  <2>2. IsPlanFor(production, agent.change, plan)
    BY <1>3, <2>1 DEF PlanRequirement, IsPlanFor
  <2>3. agent' = NoRun \/ agent' = [agent EXCEPT !.phase = "PLANNED", !.plan = plan]
    BY <1>3, <2>1 DEF PlanRequirement
  <2> QED
    BY <1>1, <2>2, <2>3, EndIsHonest, PlannedIsHonest
<1>4. CASE PlanSchedule
  <2>1. PICK plan : plan = SchedulePlan(production, agent.change)
    OBVIOUS
  <2>2. IsPlanFor(production, agent.change, plan)
    BY <1>4, <2>1 DEF PlanSchedule, IsPlanFor
  <2>3. agent' = [agent EXCEPT !.phase = "PLANNED", !.plan = plan]
    BY <1>4, <2>1 DEF PlanSchedule
  <2> QED
    BY <1>1, <2>2, <2>3, PlannedIsHonest
<1> QED
  BY <1>2, <1>3, <1>4 DEF Plan

\* An answer is valid where it was planned, and its simulation explains what it marks.
LEMMA AnswersDo ==
    ASSUME NEW state, IsWell(state), NEW change, IsChange(change), IsUnavailability(change),
           ReferencesExist(state, change), NEW plan, IsAnswer(state, change, plan)
    PROVE  /\ SimulateProposal(state, plan).valid
           /\ \A j \in DOMAIN plan : plan[j].type = "MARK_CALL_SHEET_STALE" =>
                \E impact \in SimulatedImpacts(state, plan) :
                   impact.type = "CALL_SHEET" /\ impact.id = plan[j].sheet
<1>1. PICK scenes : scenes = BlockedByAnalysis(state, AnalyzeImpact(state, change))
  OBVIOUS
<1>2. IsSnapshot(state) /\ IsSound(state) /\ CheckStateInvariants(state) = {} /\ Nobody \notin DOMAIN state.days
  BY DEF IsWell
<1>3. CASE scenes = {} /\ plan = <<FactOperation(change)>>
  <2>1. SimulateProposal(state, plan).valid
    BY <1>1, <1>2, <1>3, FactAloneIsValid
  <2>2. PICK fact : fact = FactOperation(change)
    OBVIOUS
  <2>3. fact.type # "MARK_CALL_SHEET_STALE"
    BY <2>2 DEF FactOperation
  <2>4. \A j \in DOMAIN plan : plan[j] = fact
    BY <1>3, <2>2
  <2> QED
    BY <2>1, <2>3, <2>4
<1>4. ASSUME scenes # {}, NEW target \in CandidatesFor(state, change, scenes),
             plan = UnavailabilityPlan(state, change, scenes, target)
      PROVE  /\ SimulateProposal(state, plan).valid
             /\ \A j \in DOMAIN plan : plan[j].type = "MARK_CALL_SHEET_STALE" =>
                  \E impact \in SimulatedImpacts(state, plan) :
                     impact.type = "CALL_SHEET" /\ impact.id = plan[j].sheet
  <2>1. SimulateProposal(state, plan).valid
    BY <1>1, <1>2, <1>4, AnswerIsValid
  <2>2. ASSUME NEW j \in DOMAIN plan, plan[j].type = "MARK_CALL_SHEET_STALE"
        PROVE  \E impact \in SimulatedImpacts(state, plan) : impact.type = "CALL_SHEET" /\ impact.id = plan[j].sheet
    BY <1>1, <1>2, <1>4, <2>2, AnswerExplainsItsMarks
  <2> QED
    BY <2>1, <2>2
<1> QED
  BY <1>1, <1>3, <1>4 DEF IsAnswer

\* The change a run is about.
LEMMA ChangeOfARun ==
    AnswersInv /\ agent.phase # "IDLE" => IsChange(agent.change)
  BY InputsAreParsed DEF AnswersInv, PlanningInv, AgentIsWell, PlanIsParsed

\* Simulation keeps the plan, and proposal adds a verdict that is good for an unavailability.
LEMMA SimulateIsHonest ==
    ASSUME AnswersInv, PlanningInv', Simulate PROVE AnswersInv'
<1>1. UNCHANGED <<production, version, last>> /\ agent.phase = "PLANNED"
  BY DEF Simulate
<1>2. CASE agent' = NoRun
  BY <1>1, <1>2, EndIsHonest
<1>3. CASE agent' = [agent EXCEPT !.phase = "SIMULATED"]
  <2>1. agent' = Run("SIMULATED", agent.change, agent.base, agent.analysis, agent.seen, agent.plan, agent.valid)
    BY <1>3, PartsOfARun DEF Run
  <2>2. /\ AnalysisIsOf("SIMULATED", agent.change, agent.base, agent.analysis)
        /\ PlanIsOf("SIMULATED", agent.change, agent.base, agent.plan)
        /\ NobodyIsLeft("SIMULATED", agent.change, agent.analysis, agent.seen)
        /\ AnswerIsGood("SIMULATED", agent.change, agent.valid)
    BY <1>1, PartsOfARun DEF AnalysisIsOf, PlanIsOf, NobodyIsLeft, AnswerIsGood
  <2> QED
    BY <1>1, <2>1, <2>2, HonestStep
<1> QED
  BY <1>2, <1>3 DEF Simulate

\* Proposal adds a verdict, which is good for an unavailability.
LEMMA ProposeIsHonest ==
    ASSUME AnswersInv, PlanningInv', Propose PROVE AnswersInv'
<1>1. UNCHANGED <<production, version, last>> /\ agent.phase = "SIMULATED"
  BY DEF Propose
<1>2. CASE agent' = NoRun
  BY <1>1, <1>2, EndIsHonest
<1>3. PICK verdict : verdict = SimulateProposal(production, agent.plan).valid
  OBVIOUS
<1>4. CASE version = agent.base /\ agent' = [agent EXCEPT !.phase = "PROPOSED", !.valid = verdict]
  <2>1. agent' = Run("PROPOSED", agent.change, agent.base, agent.analysis, agent.seen, agent.plan, verdict)
    BY <1>4, PartsOfARun DEF Run
  <2>2. /\ AnalysisIsOf("PROPOSED", agent.change, agent.base, agent.analysis)
        /\ PlanIsOf("PROPOSED", agent.change, agent.base, agent.plan)
        /\ NobodyIsLeft("PROPOSED", agent.change, agent.analysis, agent.seen)
    BY <1>1, PartsOfARun DEF AnalysisIsOf, PlanIsOf, NobodyIsLeft
  <2>3. ASSUME IsUnavailability(agent.change) PROVE verdict
    <3>1. ReferencesExist(production, agent.change) /\ IsPlanFor(production, agent.change, agent.plan)
      BY <1>1, <1>4, PartsOfARun DEF AnalysisIsOf, PlanIsOf
    <3>2. IsAnswer(production, agent.change, agent.plan)
      BY <2>3, <3>1 DEF IsPlanFor, IsUnavailability
    <3> QED
      BY <1>1, <1>3, <2>3, <3>1, <3>2, ProductionIsWellNow, ChangeOfARun, AnswersDo
  <2>4. AnswerIsGood("PROPOSED", agent.change, verdict)
    BY <2>3 DEF AnswerIsGood
  <2> QED
    BY <1>1, <2>1, <2>2, <2>4, HonestStep
<1> QED
  BY <1>2, <1>3, <1>4 DEF Propose

\* What is applied was planned on the version it is applied to, and so passes its verification.
LEMMA ApplyProposalIsHonest ==
    ASSUME AnswersInv, PlanningInv', ApplyProposal PROVE AnswersInv'
<1>1. /\ agent.phase = "PROPOSED" /\ agent.valid /\ version = agent.base
      /\ production' = ApplyOperations(production, agent.plan).state /\ agent' = NoRun
      /\ last' = [by |-> "AGENT", plan |-> agent.plan, change |-> agent.change]
  BY DEF ApplyProposal, Commit
<1>2. IsOperationList(agent.plan) /\ SimulateProposal(production, agent.plan).valid
  BY <1>1 DEF AnswersInv, PlanningInv, AgentIsWell, PlanIsParsed, VerdictIsOfItsVersion
<1>3. PICK post : post = ApplyOperations(production, agent.plan).state
  OBVIOUS
<1>4. IsWell(post)
  BY <1>2, <1>3, ProductionIsWellNow, ValidStaysWell
<1>5. ReferencesExist(production, agent.change) /\ IsPlanFor(production, agent.change, agent.plan)
  BY <1>1, PartsOfARun DEF AnalysisIsOf, PlanIsOf
<1>6. Verified(post, agent.plan) /\ SettledIn(post, agent.change)
  BY <1>1, <1>2, <1>3, <1>5, ProductionIsWellNow, ChangeOfARun, PlanVerifies
<1>7. last'.plan = agent.plan /\ last'.change = agent.change /\ production' = post
  BY <1>1, <1>3
<1>8. AppliedPlansVerify'
  BY <1>6, <1>7 DEF AppliedPlansVerify, Settled, SettledIn
<1>9. agent'.phase = "IDLE"
  BY <1>1 DEF NoRun, Run
<1>10. RunIsHonest(agent)'
  BY <1>9 DEF RunIsHonest, AnalysisIsOf, PlanIsOf, NobodyIsLeft, AnswerIsGood
<1>11. Nobody \notin DOMAIN production'.days
  BY <1>4, <1>7 DEF IsWell
<1> QED
  BY <1>8, <1>10, <1>11 DEF AnswersInv

\* What is written by hand is nobody's answer, and leaves the run's version behind.
LEMMA ApplyHandWrittenIsHonest ==
    ASSUME AnswersInv, PlanningInv', NEW operations \in HandWritten, ApplyHandWritten(operations)
    PROVE  AnswersInv'
<1>1. /\ SimulateProposal(production, operations).valid /\ agent' = agent /\ version' = version + 1
      /\ production' = ApplyOperations(production, operations).state /\ last'.by = "HAND"
  BY DEF ApplyHandWritten, Commit
<1>2. IsOperationList(operations)
  BY InputsAreParsed
<1>3. IsWell(production')
  BY <1>1, <1>2, ProductionIsWellNow, ValidStaysWell
<1>4. version' # agent'.base
  BY <1>1, BoundedBase DEF AnswersInv
<1>5. NobodyIsLeft(agent.phase, agent.change, agent.analysis, agent.seen)
      /\ AnswerIsGood(agent.phase, agent.change, agent.valid)
  BY PartsOfARun
<1>6. /\ AnalysisIsOf(agent.phase, agent.change, agent.base, agent.analysis)'
      /\ PlanIsOf(agent.phase, agent.change, agent.base, agent.plan)'
  BY <1>4 DEF AnalysisIsOf, PlanIsOf
<1>7. RunIsHonest(agent)'
  BY <1>1, <1>5, <1>6 DEF RunIsHonest
<1>8. AppliedPlansVerify'
  BY <1>1 DEF AppliedPlansVerify
<1> QED
  BY <1>3, <1>7, <1>8 DEF AnswersInv, IsWell

\* The invariant speaks of the state alone.
LEMMA AnswersStutter == ASSUME AnswersInv, PlanningInv', UNCHANGED vars PROVE AnswersInv'
<1>1. UNCHANGED <<production, version, last>> /\ agent' = agent
  BY DEF vars
<1>2. RunIsHonest(agent)'
  BY <1>1 DEF AnswersInv, RunIsHonest, AnalysisIsOf, PlanIsOf
<1> QED
  BY <1>1, <1>2, NothingApplied

\* No step of the agent or of a person leaves the invariant.
LEMMA AnswersKeep == AnswersInv /\ [Next]_vars => AnswersInv'
<1> SUFFICES ASSUME AnswersInv, [Next]_vars PROVE AnswersInv'
  OBVIOUS
<1>1. PlanningInv'
  BY PlanningKeepsInvariant DEF AnswersInv
<1>2. ASSUME NEW change \in Changes, Interpret(change) PROVE AnswersInv'
  BY <1>1, <1>2, InterpretIsHonest
<1>3. ASSUME NEW operations \in HandWritten, ApplyHandWritten(operations) PROVE AnswersInv'
  BY <1>1, <1>3, ApplyHandWrittenIsHonest
<1>4. CASE ReportNoCandidate
  BY <1>1, <1>4, EndIsHonest DEF ReportNoCandidate
<1>5. CASE SetAside
  BY <1>1, <1>5, EndIsHonest DEF SetAside
<1> QED
  BY <1>1, <1>2, <1>3, <1>4, <1>5, SubmitIsHonest, AnalyzeIsHonest, PlanIsHonest, SimulateIsHonest,
     ProposeIsHonest, ApplyProposalIsHonest, AnswersStutter DEF Next

\* A plan, an analysis and a verdict that are carried from one reading to the next are those of the
\* version they name, for as long as that is the production's (run-change-agent.ts, simulate-proposal.ts,
\* create-proposal.ts).
THEOREM AnswersAreInvariant == Spec => []AnswersInv
  BY AnswersStart, AnswersKeep, PTL DEF Spec

\* Every plan of the agent that is applied passes the verification that follows and settles its change
\* (verification.ts).
THEOREM AppliedPlansAreVerified == Spec => []AppliedPlansVerify
<1>1. AnswersInv => AppliedPlansVerify
  BY DEF AnswersInv
<1> QED
  BY <1>1, AnswersAreInvariant, PTL

\* An unavailability is answered with a valid plan whose simulation explains what it marks, or there is
\* no day that would do (run-change-agent.ts, candidates.ts).
THEOREM UnavailabilitiesAreAnswered == Spec => []UnavailabilityIsAnswered
<1>1. ASSUME AnswersInv, agent.phase # "IDLE", IsUnavailability(agent.change) PROVE UnavailabilityIsAnswered
  <2>1. ASSUME agent.phase = "PROPOSED" PROVE agent.valid
    BY <1>1, <2>1, PartsOfARun DEF AnswerIsGood
  <2>2. ASSUME agent.phase = "SIMULATED", version = agent.base PROVE MarksAreExplained
    <3>1. ReferencesExist(production, agent.change) /\ IsPlanFor(production, agent.change, agent.plan)
      BY <1>1, <2>2, PartsOfARun DEF AnalysisIsOf, PlanIsOf
    <3>2. IsAnswer(production, agent.change, agent.plan)
      BY <1>1, <3>1 DEF IsPlanFor, IsUnavailability
    <3>3. \A j \in DOMAIN agent.plan : agent.plan[j].type = "MARK_CALL_SHEET_STALE" =>
            \E impact \in SimulatedImpacts(production, agent.plan) :
               impact.type = "CALL_SHEET" /\ impact.id = agent.plan[j].sheet
      BY <1>1, <3>1, <3>2, ProductionIsWellNow, ChangeOfARun, AnswersDo
    <3> QED
      BY <3>3 DEF MarksAreExplained
  <2>3. ASSUME agent.phase = "NO_CANDIDATE", agent.analysis = AnalyzeImpact(agent.seen, agent.change)
        PROVE  NoDayWouldDo
    <3>1. PICK seen, change, scenes :
            seen = agent.seen /\ change = agent.change /\ scenes = BlockedByAnalysis(agent.seen, agent.analysis)
      OBVIOUS
    <3>2. /\ IsWell(seen) /\ IsUnavailability(change) /\ scenes # {}
          /\ CandidatesFor(seen, change, scenes) = {}
      BY <1>1, <2>3, <3>1, PartsOfARun DEF NobodyIsLeft
    <3>3. scenes = BlockedByAnalysis(seen, AnalyzeImpact(seen, change))
      BY <2>3, <3>1
    <3>4. AnalyzeImpact(seen, change).impacts # {}
      BY <3>2, <3>3 DEF BlockedByAnalysis
    <3>5. ReferencesExist(seen, change) /\ IsChange(change)
      BY <1>1, <3>1, <3>2, <3>4, BlockedExist, ChangeOfARun
    <3>6. ASSUME NEW d \in DOMAIN seen.days, NEW plan, plan = UnavailabilityPlan(seen, change, scenes, d),
                 SimulateProposal(seen, plan).valid
          PROVE  FALSE
      <4>1. d \in CandidatesFor(seen, change, scenes)
        BY <3>2, <3>3, <3>5, <3>6, WhatWouldDoIsACandidate DEF IsWell
      <4> QED
        BY <3>2, <4>1
    <3>7. ASSUME NEW d \in DOMAIN seen.days
          PROVE  ~SimulateProposal(seen, UnavailabilityPlan(seen, change, scenes, d)).valid
      BY <3>6
    <3> QED
      BY <3>1, <3>7 DEF NoDayWouldDo
  <2> QED
    BY <2>1, <2>2, <2>3 DEF UnavailabilityIsAnswered
<1>2. AnswersInv => UnavailabilityIsAnswered
  BY <1>1 DEF UnavailabilityIsAnswered
<1> QED
  BY <1>2, AnswersAreInvariant, PTL

=============================================================================
