------------------------- MODULE MCRealtimeRecovery -------------------------
(* Small instances of RealtimeRecovery for TLC. *)
EXTENDS RealtimeRecovery

CONSTANTS p1, p2

MCOneProposal == {p1}
MCProposals == {p1, p2}

=============================================================================
