----------------------------- MODULE MasterCode -----------------------------
(***************************************************************************)
(* The break-glass sign-in code that opens any subscriber's account:       *)
(* MasterCodeService, its part of verifyOtp, and the admin's panel.        *)
(*                                                                         *)
(* A wrong code is compared with the active master code first and charged  *)
(* to the active one afterwards; by then another may be active.  issue()   *)
(* retires the codes its transaction can see and adds its own.             *)
(***************************************************************************)
EXTENDS Integers, FiniteSets, Sequences

CONSTANTS
    Handler,       \* slots for sign-ins whose code matched no code of their own
    Admin,         \* slots for admins issuing a code
    MaxFailures,   \* MASTER_CODE_MAX_FAILURES
    MaxCodes       \* bound of the model: codes ever issued

VARIABLES
    codes,     \* the rows, oldest first: [failures, revoked, expired]
    attempt,   \* the sign-ins: [stage, code]
    issue,     \* the transactions that issue a code: [stage, sees]
    panel,     \* the admin's page: [status, issued]
    guesses    \* history: wrong codes compared with each master code

vars == <<codes, attempt, issue, panel, guesses>>

None == 0
Code == 1 .. Len(codes)
Free == [stage |-> "free", code |-> None]

Init ==
    /\ codes = <<>> /\ guesses = <<>>
    /\ attempt = [h \in Handler |-> Free]
    /\ issue = [a \in Admin |-> [stage |-> "free", sees |-> {}]]
    /\ panel = [status |-> "loading", issued |-> None]

-----------------------------------------------------------------------------
(* MasterCodeService                                                       *)

\* mutant: only the panel looks at the count
MutUsable(c) == ~c.revoked /\ ~c.expired

Usable(c) == ~c.revoked /\ ~c.expired /\ c.failures < MaxFailures

\* active(): the newest usable code.
Active ==
    LET usable == {i \in Code : Usable(codes[i])}
    IN  IF usable = {} THEN None ELSE CHOOSE i \in usable : \A j \in usable : i >= j

\* status() looks at the latest code only.
Status ==
    IF codes = <<>> THEN "none-issued"
    ELSE LET c == codes[Len(codes)]
         IN  IF c.revoked THEN "revoked"
             ELSE IF c.failures >= MaxFailures THEN "locked-out"
             ELSE IF c.expired THEN "expired" ELSE "active"

\* matches(), on a wrong code.  The right one is compared and signs in, or is
\* refused for its account; neither touches the row but to count the use.
Match(h) ==
    /\ attempt[h].stage = "free"
    /\ guesses' = IF Active = None THEN guesses ELSE [guesses EXCEPT ![Active] = @ + 1]
    /\ attempt' = [attempt EXCEPT ![h] = [stage |-> "charge", code |-> None]]
    /\ UNCHANGED <<codes, issue, panel>>

\* recordFailure() asks for the active code again ...
ReadForCharge(h) ==
    /\ attempt[h].stage = "charge"
    /\ attempt' = [attempt EXCEPT ![h] =
                     IF Active = None THEN Free ELSE [stage |-> "add", code |-> Active]]
    /\ UNCHANGED <<codes, issue, panel, guesses>>

\* ... and counts the failure in the row.
Charge(h) ==
    /\ attempt[h].stage = "add"
    /\ codes' = [codes EXCEPT ![attempt[h].code].failures = @ + 1]
    /\ attempt' = [attempt EXCEPT ![h] = Free]
    /\ UNCHANGED <<issue, panel, guesses>>

Expire(i) ==
    /\ ~codes[i].expired
    /\ codes' = [codes EXCEPT ![i].expired = TRUE]
    /\ UNCHANGED <<attempt, issue, panel, guesses>>

-----------------------------------------------------------------------------
(* MasterCodePanel, and issue() and revoke() which it calls                *)

\* The page shows nothing until its status has come.
Load ==
    /\ panel' = [panel EXCEPT !.status = Status]
    /\ UNCHANGED <<codes, attempt, issue, guesses>>

\* Offered while none is believed live.  The transaction revokes the codes
\* committed so far; what another one adds meanwhile it does not see.
Issue(a) ==
    /\ panel.status \notin {"loading", "active"}
    /\ issue[a].stage = "free"
    /\ issue' = [issue EXCEPT ![a] =
                   [stage |-> "commit", sees |-> {i \in Code : ~codes[i].revoked}]]
    /\ UNCHANGED <<codes, attempt, panel, guesses>>

Fresh == [failures |-> 0, revoked |-> FALSE, expired |-> FALSE]

\* The code is shown, and the status asked for anew.
Commit(a) ==
    /\ issue[a].stage = "commit" /\ Len(codes) < MaxCodes
    /\ codes' = Append([i \in Code |-> IF i \in issue[a].sees
                                       THEN [codes[i] EXCEPT !.revoked = TRUE] ELSE codes[i]],
                       Fresh)
    /\ guesses' = Append(guesses, 0)
    /\ issue' = [issue EXCEPT ![a] = [stage |-> "free", sees |-> {}]]
    /\ panel' = [panel EXCEPT !.issued = Len(codes) + 1]
    /\ UNCHANGED attempt

\* Offered while one is believed live.
Revoke ==
    /\ panel.status = "active"
    /\ codes' = [i \in Code |-> [codes[i] EXCEPT !.revoked = TRUE]]
    /\ panel' = [panel EXCEPT !.issued = None]
    /\ UNCHANGED <<attempt, issue, guesses>>

-----------------------------------------------------------------------------
Next ==
    \/ \E h \in Handler : Match(h) \/ ReadForCharge(h) \/ Charge(h)
    \/ \E i \in Code : Expire(i)
    \/ \E a \in Admin : Issue(a) \/ Commit(a)
    \/ Load \/ Revoke

Spec == Init /\ [][Next]_vars

-----------------------------------------------------------------------------
(* Property                                                                *)

\* Codes that a code may share its life with.
Rivals(i) == IF Cardinality(Admin) = 1 THEN 0 ELSE Len(codes) - i

(***************************************************************************)
(* "guessing wrong ten times" (master-code.service.ts:15) is what kills a  *)
(* code when guesses come one at a time.  Served together, those already   *)
(* past the check come on top; and where two admins issued codes together  *)
(* and left both live, a guess compared with one may be charged to the     *)
(* other, once for each guess then in flight.  No code stands more.        *)
(***************************************************************************)
GuessesPerCode ==
    \A i \in Code : guesses[i] < MaxFailures + Cardinality(Handler) * (1 + Rivals(i))

-----------------------------------------------------------------------------
(* Inductive invariant                                                     *)

TypeOK ==
    /\ codes \in Seq([failures: Nat, revoked: BOOLEAN, expired: BOOLEAN])
    /\ guesses \in Seq(Nat) /\ Len(guesses) = Len(codes)
    /\ attempt \in [Handler -> [stage: {"free", "charge", "add"}, code: Nat]]
    /\ \A h \in Handler : attempt[h].stage = "add" => attempt[h].code \in Code
    /\ issue \in [Admin -> [stage: {"free", "commit"}, sees: SUBSET Nat]]

\* What a single admin issues replaces all there was.
AloneReplaces ==
    Cardinality(Admin) = 1 =>
        /\ \A i \in Code : i < Len(codes) => codes[i].revoked
        /\ \A a \in Admin : issue[a].stage = "commit" =>
              \A i \in Code : codes[i].revoked \/ i \in issue[a].sees

\* As long as a code may be guessed at again, a guess at it has been charged to it
\* or will be, except for those in flight when a rival was issued.
Adding(i) == {h \in Handler : attempt[h].stage = "add" /\ attempt[h].code = i}
InFlight(i) == {h \in Handler : attempt[h].stage = "charge"} \cup Adding(i)
Charged(i) ==
    guesses[i] <= codes[i].failures + Cardinality(IF Active = i THEN InFlight(i) ELSE Adding(i))
                    + Cardinality(Handler) * Rivals(i)
GuessesCharged == \A i \in Code : Usable(codes[i]) => Charged(i)

IInv == TypeOK /\ AloneReplaces /\ GuessesCharged /\ GuessesPerCode

=============================================================================
