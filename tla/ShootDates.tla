------------------------------ MODULE ShootDates ------------------------------
(***************************************************************************)
(* Production-local calendar arithmetic (packages/domain/src/dates.ts).    *)
(* A date is the number of its day, counted from 1970-01-01: the source    *)
(* compares YYYY-MM-DD strings lexicographically, which is the order of    *)
(* days.  Windows are sequences, because the merge below depends on the    *)
(* order they are visited in.                                              *)
(***************************************************************************)
EXTENDS Integers, Sequences, SequencesExt

FirstDay == -719528     \* 0000-01-01
Year100  == -683003     \* 0100-01-01
LastDay  == 2932896     \* 9999-12-31

\* A window of days, from its first to its last (dateRangeSchema).  The schema
\* takes dates of the years 0000 to 0099 as well; the model knows what the
\* merge makes of them, but its productions have no such windows.
DateRanges ==
    {range \in [start : Int, end : Int] :
       Year100 <= range.start /\ range.start <= range.end /\ range.end <= LastDay}

\* Date.UTC reads the years 0 to 99 as 1900 to 1999.  1900 is no leap year:
\* 0000-02-29 becomes the first of March.
ReadAs1900s(date) == (date - FirstDay) - 25567 - (IF date - FirstDay < 60 THEN 0 ELSE 1)

\* The day after, as the string the merge compares with: behind the last one
\* it is "+010000-01", which sorts before every date.
DayAfter(date) ==
    IF date = LastDay THEN FirstDay - 1
    ELSE IF date < Year100 THEN ReadAs1900s(date) + 1
    ELSE date + 1

IsDateWithin(date, range) == range.start <= date /\ date <= range.end

IsBlockedOn(windows, date) ==
    \E i \in DOMAIN windows : IsDateWithin(date, windows[i])

StartsBefore(left, right) ==
    \/ left.start < right.start
    \/ left.start = right.start /\ left.end < right.end

\* Mutant: the later window replaces the end of the one it is merged into.
MergeForgettingEnd(merged, window) ==
    IF merged # <<>> /\ window.start <= DayAfter(Last(merged).end)
    THEN [merged EXCEPT ![Len(merged)].end = window.end]
    ELSE Append(merged, window)

\* One step of the merge: a window that overlaps the previous one, or starts
\* on the day after it, extends it.
MergeWindow(merged, window) ==
    IF merged # <<>> /\ window.start <= DayAfter(Last(merged).end)
    THEN [merged EXCEPT ![Len(merged)].end = IF window.end > @ THEN window.end ELSE @]
    ELSE Append(merged, window)

\* Behind every window it does not start before.
PlaceFor(sorted, window) ==
    CHOOSE k \in 0..Len(sorted) :
       /\ \A i \in 1..k : ~StartsBefore(window, sorted[i])
       /\ \A i \in (k + 1)..Len(sorted) : StartsBefore(window, sorted[i])

Inserted(sorted, window) ==
    LET k == PlaceFor(sorted, window)
    IN  [i \in 1..(Len(sorted) + 1) |->
           IF i <= k THEN sorted[i] ELSE IF i = k + 1 THEN window ELSE sorted[i - 1]]

\* The first windows sorted, and the first sorted windows merged.
Sorting(windows) ==
    LET sorted[n \in 0..Len(windows)] == IF n = 0 THEN <<>> ELSE Inserted(sorted[n - 1], windows[n])
    IN  sorted

Merging(sorted) ==
    LET merged[n \in 0..Len(sorted)] == IF n = 0 THEN <<>> ELSE MergeWindow(merged[n - 1], sorted[n])
    IN  merged

NormalizeDateRanges(windows) ==
    LET sorted == Sorting(windows)[Len(windows)]
    IN  Merging(sorted)[Len(sorted)]

\* Whether one of the merged windows holds the whole range.
IsRangeCovered(windows, range) ==
    LET merged == NormalizeDateRanges(windows)
    IN  \E i \in DOMAIN merged : merged[i].start <= range.start /\ range.end <= merged[i].end

=============================================================================
