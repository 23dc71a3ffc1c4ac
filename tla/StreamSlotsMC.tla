---------------------------- MODULE StreamSlotsMC ----------------------------
(* Instances of StreamSlots for TLC.                                       *)
EXTENDS StreamSlots, TLC

\* Sessions are interchangeable, and so are the play handlers.
Symmetry == Permutations(Session) \cup Permutations(Handler)

\* Bound: one heartbeat and one revoked session at a time.  Either touches no
\* lease but its own.
OneBeat == Cardinality({s \in Session : beat[s]}) <= 1

OneRevoked == Cardinality({s \in Session : row[s] = "revoked"}) <= 1

\* What the bound on the overshoot can depend on: not the history.
WithoutHistory == <<limit, row, token, lease, player, beat, play, evicting>>

=============================================================================
