--------------------------- MODULE MCJobPipeline ---------------------------
(* Small instances of JobPipeline for TLC. *)
EXTENDS JobPipeline

CONSTANTS run1, run2, key1

\* A history of a resolving run: three events, a question or a retry note for
\* each attempt of each job.
MaxLength == 3 + MaxJobs * MaxAttempts

MCIdentities ==
    {AnalyzeIdentity(r, n) : r \in Runs, n \in 1..MaxLength} \cup {ApplyIdentity(k) : k \in Keys}

MCPayloads ==
    {AnalyzePayload(r, resolved) : r \in Runs, resolved \in BOOLEAN}
      \cup {ApplyPayload(r, p, k) : r \in Runs, p \in 1..MaxProposals, k \in Keys}

MCOneRun == {run1}
MCTwoRuns == {run1, run2}
MCOneKey == {key1}

=============================================================================
