----------------------------- MODULE OneTimeCode -----------------------------
(***************************************************************************)
(* What a sign-in code promises, whoever serves it: it is issued once, it  *)
(* is spent once, it admits nobody before it is spent, and Admits people   *)
(* in all.  With Admits = 1 it is the one-time code its name says it is.   *)
(***************************************************************************)
EXTENDS Naturals

CONSTANTS Code, Admits

VARIABLES
    state,    \* of each code: unissued, usable, spent
    entered   \* how many sign-ins each code has admitted

vars == <<state, entered>>

Init ==
    /\ state = [c \in Code |-> "unissued"]
    /\ entered = [c \in Code |-> 0]

Issue(c) ==
    /\ state[c] = "unissued"
    /\ state' = [state EXCEPT ![c] = "usable"]
    /\ UNCHANGED entered

\* Codes are spent together: one sign-in retires every code of the number.
Spend(spent) ==
    /\ \A c \in spent : state[c] = "usable"
    /\ state' = [c \in Code |-> IF c \in spent THEN "spent" ELSE state[c]]
    /\ UNCHANGED entered

Enter(c) ==
    /\ state[c] = "spent" /\ entered[c] < Admits
    /\ entered' = [entered EXCEPT ![c] = @ + 1]
    /\ UNCHANGED state

Next ==
    \/ \E c \in Code : Issue(c) \/ Enter(c)
    \/ \E spent \in SUBSET Code : Spend(spent)

Spec == Init /\ [][Next]_vars

=============================================================================
