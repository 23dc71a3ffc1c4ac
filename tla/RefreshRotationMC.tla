-------------------------- MODULE RefreshRotationMC --------------------------
(* Instances of RefreshRotation for TLC.                                   *)
EXTENDS RefreshRotation, TLC

\* Tokens are interchangeable; so are tabs and request slots in safety runs.
Symmetry == Permutations(Token) \cup Permutations(Request) \cup Permutations(Tab)

=============================================================================
