------------------------------ MODULE RateLimit ------------------------------
(***************************************************************************)
(* The request quotas of the API (apps/api/src/rate-limit.ts): a fixed     *)
(* window per key, held in memory, swept when there are many keys.  Time   *)
(* is counted in seconds.                                                  *)
(***************************************************************************)
EXTENDS Integers, FiniteSets

CONSTANTS
    Keys,           \* client addresses, or principals
    Limit,          \* rule.limit
    Window,         \* rule.windowMs
    SweepAbove,     \* SWEEP_ABOVE
    LastSecond      \* bound: the seconds the model runs for

ASSUME RateLimitAssumption ==
    Limit \in Nat \ {0} /\ Window \in Nat \ {0} /\ SweepAbove \in Nat /\ LastSecond \in Nat

VARIABLES
    now,            \* the clock
    windows,        \* tracked keys to [startedAt, count]
    served,         \* how many requests of each key were let through by the end of each second
    retryAt         \* the second each refused key was told to come back, or none

limitVars == <<now, windows, served, retryAt>>

NoRetry == LastSecond + Window + 1

RateInit ==
    /\ now = 0
    /\ windows = [k \in {} |-> 0]
    /\ served = [k \in Keys |-> [s \in 0..LastSecond |-> 0]]
    /\ retryAt = [k \in Keys |-> NoRetry]

IsStale(window) == now - window.startedAt >= Window

\* Mutant: every key is forgotten, those still in their window included.
SweepAll == [k \in {} |-> 0]

Sweep == [k \in {k \in DOMAIN windows : ~IsStale(windows[k])} |-> windows[k]]

Swept == IF Cardinality(DOMAIN windows) > SweepAbove THEN Sweep ELSE windows

With(tracked, key, window) ==
    [k \in DOMAIN tracked \cup {key} |-> IF k = key THEN window ELSE tracked[k]]

LetThrough(key) ==
    /\ served' = [served EXCEPT ![key] =
                     [s \in 0..LastSecond |-> IF s < now THEN served[key][s] ELSE served[key][s] + 1]]
    /\ retryAt' = [retryAt EXCEPT ![key] = NoRetry]

BeginsWindow(key) == key \notin DOMAIN Swept \/ IsStale(Swept[key])

IsOver(key) == ~BeginsWindow(key) /\ Swept[key].count >= Limit

Hit(key) ==
    /\ IF BeginsWindow(key)
       THEN windows' = With(Swept, key, [startedAt |-> now, count |-> 1]) /\ LetThrough(key)
       ELSE IF IsOver(key)
       THEN /\ windows' = Swept
            /\ retryAt' = [retryAt EXCEPT ![key] = Swept[key].startedAt + Window]
            /\ UNCHANGED served
       ELSE windows' = [Swept EXCEPT ![key].count = @ + 1] /\ LetThrough(key)
    /\ UNCHANGED now

SecondPasses ==
    /\ now < LastSecond
    /\ now' = now + 1
    /\ UNCHANGED <<windows, served, retryAt>>

RateNext == SecondPasses \/ \E key \in Keys : Hit(key)

RateSpec == RateInit /\ [][RateNext]_limitVars

-----------------------------------------------------------------------------
ServedBy(key, second) ==
    IF second < 0 THEN 0 ELSE served[key][IF second < LastSecond THEN second ELSE LastSecond]

ServedBetween(key, from, to) == ServedBy(key, to) - ServedBy(key, from - 1)

\* A key is let through at most Limit times from the start of its window, and
\* the sweep never makes it forget one that runs; in any Window seconds, at
\* most twice Limit, since the windows are fixed and two may meet.
WindowsCountWhatTheyServe ==
    /\ \A key \in DOMAIN windows :
         ~IsStale(windows[key]) =>
           /\ windows[key].count <= Limit
           /\ ServedBetween(key, windows[key].startedAt, now) = windows[key].count
    /\ \A key \in Keys : \A s \in 0..LastSecond : ServedBetween(key, s, s + Window - 1) <= 2 * Limit

\* A key is only refused after Limit requests within a window, and one that
\* comes back when it was told to is let through.
RefusalsAreHonest ==
    \A key \in {key \in Keys : retryAt[key] # NoRetry} :
       /\ ServedBetween(key, retryAt[key] - Window, retryAt[key] - 1) >= Limit
       /\ now >= retryAt[key] => key \notin DOMAIN windows \/ IsStale(windows[key])

\* More than SweepAbove + 1 keys are tracked only while all of them began
\* within one window: what is stale does not accumulate.
StaleKeysAreForgotten ==
    Cardinality(DOMAIN windows) > SweepAbove + 1 =>
      \A j, k \in DOMAIN windows : windows[j].startedAt < windows[k].startedAt + Window

\* What a client, and the memory of the process, may rely on (rate-limit.ts).
QuotaIsKept == WindowsCountWhatTheyServe /\ RefusalsAreHonest /\ StaleKeysAreForgotten

=============================================================================
