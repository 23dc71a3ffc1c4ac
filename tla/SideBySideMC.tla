----------------------------- MODULE SideBySideMC -----------------------------
(* DeviceCap's requests are model values, and interchangeable.             *)
EXTENDS SideBySide, TLC

Symmetry == Permutations(Handler)

\* Bounds: an announcement during which the world changed twice is followed no
\* further, nor, after a restart, one during which it changed at all.
ChangesOnce == which = "announce" => \A h \in Handler : x6[h].changes < 2
SettledByRestart ==
    which = "announce" /\ x8 > 0 => \A h \in Handler : x6[h].changes = 0

\* Bound: one session at a time whose last write of lastSeenAt was lost.
OneLost == which = "cap" => Cardinality(owed) <= 1

=============================================================================
