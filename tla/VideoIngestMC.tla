---------------------------- MODULE VideoIngestMC ----------------------------
(* Model values are interchangeable where no liveness is checked.          *)
EXTENDS VideoIngest, TLC

\* The safety properties speak of a slot nobody has misplaced a write in, and a
\* misplaced write is never forgotten: what follows one need not be explored.
UntilMisplaced == ~misplaced

\* The histories decide nothing of what the system does next.
WithoutHistory == <<row, video, op, queue>>

Symmetry == Permutations(Handler) \cup Permutations(Video)

=============================================================================
