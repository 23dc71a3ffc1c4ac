------------------------------ MODULE PinSignIn ------------------------------
(***************************************************************************)
(* Signing in with a PIN, and the form that sets, changes and removes it:  *)
(* PinService and the profile page's PinSection.                           *)
(*                                                                         *)
(* verify() reads the account, compares, and only then writes what it      *)
(* concluded from the copy it read; other requests run in between.         *)
(* PinSection knows from an earlier answer whether a PIN is set.           *)
(***************************************************************************)
EXTENDS Integers, FiniteSets

CONSTANTS
    Handler,       \* slots for PIN sign-ins being served
    MaxFailures,   \* PIN_MAX_FAILURES
    Pins           \* acceptable PINs (digits, not too few, not too obvious)

None == "none"

VARIABLES
    row,      \* the account: [pin, banned, failures, lock]; lock is pinLockedUntil
    verify,   \* the sign-ins being served: [stage, failures]
    form,     \* the profile page: [open, pinSet, current, new, stage]
    guesses   \* history: wrong PINs compared since the owner last settled
              \* the account or a lock ran its time

vars == <<row, verify, form, guesses>>

Free == [stage |-> "free", failures |-> 0]
FreshForm == [open |-> FALSE, pinSet |-> FALSE, current |-> None, new |-> None,
              stage |-> "idle"]

Init ==
    /\ row = [pin |-> None, banned |-> FALSE, failures |-> 0, lock |-> "none"]
    /\ verify = [h \in Handler |-> Free]
    /\ form = FreshForm
    /\ guesses = 0

-----------------------------------------------------------------------------
(* verify                                                                  *)

\* mutant: the lock is only looked at when the form asks for the method
MutMayTry(r) == r.pin # None /\ ~r.banned

\* Neither unknown, without a PIN, suspended nor locked.  isAvailableFor
\* asks the same of the row, and answers for it without changing anything.
MayTry(r) == r.pin # None /\ ~r.banned /\ r.lock # "future"

\* A correct PIN reaches issueSession; what the row shows of earlier trouble
\* is wiped first.  A refused request leaves the row alone.
Compare(h, p) ==
    /\ verify[h].stage = "free" /\ MayTry(row)
    /\ IF p # row.pin
       THEN /\ verify' = [verify EXCEPT ![h] = [stage |-> "wrong", failures |-> row.failures]]
            /\ guesses' = guesses + 1
       ELSE /\ row.failures > 0 \/ row.lock # "none"
            /\ verify' = [verify EXCEPT ![h] = [stage |-> "right", failures |-> row.failures]]
            /\ UNCHANGED guesses
    /\ UNCHANGED <<row, form>>

\* The count comes from the copy read before the comparison, and so does the
\* decision to lock: a late write takes a lock away that was put meanwhile.
WriteWrong(h) ==
    /\ verify[h].stage = "wrong"
    /\ LET failures == verify[h].failures + 1
           locked == failures >= MaxFailures
       IN row' = [row EXCEPT !.failures = IF locked THEN 0 ELSE failures,
                             !.lock = IF locked THEN "future" ELSE "none"]
    /\ verify' = [verify EXCEPT ![h] = Free]
    /\ UNCHANGED <<form, guesses>>

WriteRight(h) ==
    /\ verify[h].stage = "right"
    /\ row' = [row EXCEPT !.failures = 0, !.lock = "none"]
    /\ verify' = [verify EXCEPT ![h] = Free]
    /\ guesses' = 0
    /\ UNCHANGED form

\* PIN_LOCKOUT_MINUTES later; a request takes far less.
LockRunsOut ==
    /\ row.lock = "future" /\ \A h \in Handler : verify[h].stage = "free"
    /\ row' = [row EXCEPT !.lock = "past"]
    /\ guesses' = 0
    /\ UNCHANGED <<verify, form>>

\* Support suspends the account, or lifts the suspension.
Suspend ==
    /\ row' = [row EXCEPT !.banned = ~row.banned]
    /\ UNCHANGED <<verify, form, guesses>>

-----------------------------------------------------------------------------
(* PinSection, and set() and clear() which it calls                        *)

\* The page is told whether a PIN is set when it loads, and onChanged.
Reload ==
    /\ form.stage = "idle"
    /\ form' = [form EXCEPT !.pinSet = row.pin # None]
    /\ UNCHANGED <<row, verify, guesses>>

OpenForm ==
    /\ ~form.open /\ form.stage = "idle"
    /\ form' = [form EXCEPT !.open = TRUE]
    /\ UNCHANGED <<row, verify, guesses>>

Cancel ==
    /\ form.open /\ form.stage = "idle"
    /\ form' = [form EXCEPT !.open = FALSE, !.current = None, !.new = None]
    /\ UNCHANGED <<row, verify, guesses>>

\* Both entries of the new PIN agree.  The field for the current one is there,
\* and sent, only when the page believes there is a PIN.
Save(new, current) ==
    /\ form.open /\ form.stage = "idle"
    /\ current = None \/ form.pinSet
    /\ form' = [form EXCEPT !.new = new, !.current = current, !.stage = "set"]
    /\ UNCHANGED <<row, verify, guesses>>

\* set() reads the account; a refusal leaves the form open with its error.
ReadForSet ==
    /\ form.stage = "set"
    /\ form' = [form EXCEPT !.stage =
          IF form.new \in Pins /\ row.pin \in {None, form.current} THEN "write" ELSE "idle"]
    /\ UNCHANGED <<row, verify, guesses>>

WriteSet ==
    /\ form.stage = "write"
    /\ row' = [row EXCEPT !.pin = form.new, !.failures = 0, !.lock = "none"]
    /\ form' = [FreshForm EXCEPT !.pinSet = TRUE]
    /\ guesses' = 0
    /\ UNCHANGED verify

\* Offered while the form is closed and a PIN is believed set; confirmed.
Remove ==
    /\ ~form.open /\ form.stage = "idle" /\ form.pinSet
    /\ row' = [row EXCEPT !.pin = None, !.failures = 0, !.lock = "none"]
    /\ form' = [form EXCEPT !.pinSet = FALSE]
    /\ guesses' = 0
    /\ UNCHANGED verify

-----------------------------------------------------------------------------
Next ==
    \/ \E h \in Handler :
          \/ \E p \in Pins \cup {"wrong"} : Compare(h, p)
          \/ WriteWrong(h) \/ WriteRight(h)
    \/ LockRunsOut \/ Suspend \/ Reload \/ OpenForm \/ Cancel
    \/ \E new \in Pins \cup {"obvious"}, current \in Pins \cup {None} : Save(new, current)
    \/ ReadForSet \/ WriteSet \/ Remove

Spec == Init /\ [][Next]_vars

-----------------------------------------------------------------------------
(* Property                                                                *)

\* How many of the handlers, each of which holds a count of 0 .. MaxFailures, hold
\* no more than each of the counts that do not lock: there are
\* (MaxFailures + H over H) such tallies of H handlers.
Tallies ==
    {t \in [0 .. MaxFailures - 1 -> 0 .. Cardinality(Handler)] :
        \A i, j \in 0 .. MaxFailures - 1 : i <= j => t[i] <= t[j]}

(***************************************************************************)
(* "Five attempts per fifteen minutes" (pin.service.ts:15) is what a       *)
(* handler at a time allows.  Two at a time lose counts to one another,    *)
(* and a late write takes off a lock; but each such write carries its      *)
(* count one up.  So the counts that handlers hold never come back to what *)
(* they were, and before a lock stands for its fifteen minutes, fewer      *)
(* wrong PINs are compared than there are tallies of those counts: with    *)
(* one handler MaxFailures of them, and with two                           *)
(* MaxFailures * (MaxFailures + 3) / 2.                                    *)
(***************************************************************************)
GuessesPerLock == guesses < Cardinality(Tallies)

-----------------------------------------------------------------------------
(* Inductive invariant                                                     *)

TypeOK ==
    /\ row \in [pin: Pins \cup {None}, banned: BOOLEAN, failures: 0 .. MaxFailures - 1,
                lock: {"none", "future", "past"}]
    /\ verify \in [Handler -> [stage: {"free", "wrong", "right"}, failures: 0 .. MaxFailures - 1]]
    /\ form \in [open: BOOLEAN, pinSet: BOOLEAN, current: Pins \cup {None},
                 new: Pins \cup {None, "obvious"}, stage: {"idle", "set", "write"}]
    /\ form.stage = "write" => form.new \in Pins
    /\ guesses \in Nat

\* The count each handler works on: what the row shows, a lock being the last
\* count, unless it has read less.
RowAt == IF row.lock = "future" THEN MaxFailures ELSE row.failures
Level(h) == IF verify[h].stage = "wrong" /\ verify[h].failures < RowAt
            THEN verify[h].failures ELSE RowAt
AtMost(v) == {h \in Handler : Level(h) <= v}
Tally == [v \in 0 .. MaxFailures - 1 |-> Cardinality(AtMost(v))]

\* Tallies in the order in which they are reached: counts go up, the lowest last.
Before(s, t) ==
    \E v \in 0 .. MaxFailures - 1 : t[v] < s[v] /\ \A u \in 0 .. v - 1 : t[u] = s[u]
Behind == {t \in Tallies : Before(t, Tally)}

\* Every wrong PIN compared was written, which took the handlers to a later
\* tally, or is yet to be.
Unwritten == {h \in Handler : verify[h].stage = "wrong"}
GuessesTallied == guesses <= Cardinality(Behind) + Cardinality(Unwritten)

IInv == TypeOK /\ GuessesTallied

=============================================================================
