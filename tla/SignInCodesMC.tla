---------------------------- MODULE SignInCodesMC ----------------------------
(* Instances of SignInCodes for TLC: the requests are interchangeable.     *)
EXTENDS SignInCodes, TLC

Symmetry == Permutations(Handler)

\* Bound: a third code only while nothing but asking for codes has happened,
\* to see the limits exceeded without every other history of three codes.
OnlyAsking == person = 0 /\ \A h \in Handler : hnd[h].live = {} /\ hnd[h].stage # "matched"

ThirdCodeOnlyAsking == row[MaxCodes] # "absent" => OnlyAsking /\ \A c \in Code : attempts[c] = 0

\* Bound: the same without the limits, and Verify first with no gateway known,
\* since either alone makes the number a metered one.
OneWayMetered == /\ route = "first" => ~configured
                 /\ ~Metered => OnlyAsking

=============================================================================
