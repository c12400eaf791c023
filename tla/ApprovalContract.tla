--------------------------- MODULE ApprovalContract ---------------------------
(***************************************************************************)
(* What the approval boundary promises (DOMAIN.md INV-5 to INV-8), with no *)
(* calls, keys, statuses or stale reads: a proposal is decided once and    *)
(* for good, and the production changes only by writing, whole and once, a *)
(* plan that was approved for exactly the version it is written on.        *)
(***************************************************************************)
EXTENDS Integers, Sequences

CONSTANTS Subjects, Contents, FirstVersion, Undecided

VARIABLES
    version,        \* the production's version
    decisions,      \* the decision on each proposal, Undecided until there is one
    commits         \* what was written, in order

contractVars == <<version, decisions, commits>>

Init ==
    /\ version = FirstVersion
    /\ decisions = [p \in Subjects |-> Undecided]
    /\ commits = <<>>

Rulings == [verdict : {"APPROVE", "REJECT"}, content : Contents, base : Nat]

Decide(p) ==
    /\ decisions[p] = Undecided
    /\ decisions'[p] \in Rulings
    /\ decisions'[p].base <= version
    /\ decisions' = [decisions EXCEPT ![p] = decisions'[p]]
    /\ UNCHANGED <<version, commits>>

Commit(p) ==
    /\ decisions[p] # Undecided
    /\ decisions[p].verdict = "APPROVE"
    /\ decisions[p].base = version
    /\ \A i \in DOMAIN commits : commits[i].proposal # p
    /\ version' = version + 1
    /\ commits' = Append(commits, [proposal |-> p, content |-> decisions[p].content])
    /\ UNCHANGED decisions

Next == \E p \in Subjects : Decide(p) \/ Commit(p)

Spec == Init /\ [][Next]_contractVars

=============================================================================
