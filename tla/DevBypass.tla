----------------------------- MODULE DevBypass ------------------------------
(***************************************************************************)
(* The development sign-in code: a fixed code for a few listed numbers,    *)
(* kept in the settings row.  DevBypassService, its part of verifyOtp and  *)
(* the panel of the settings page.                                         *)
(*                                                                         *)
(* A wrong code is compared on one reading of the row, charged on another, *)
(* and switches the bypass off by a third statement; admins may configure  *)
(* in between, on several pages, each of which learns of a change from an  *)
(* answer that another change may overtake, or that is lost.               *)
(***************************************************************************)
EXTENDS Integers, FiniteSets

CONSTANTS
    Handler,       \* slots for sign-ins with a code that matched none of their own
    Panel,         \* the admins' pages
    MaxFailures,   \* DEV_BYPASS_MAX_FAILURES
    Cap            \* bound of the model: failures beyond it are not counted

VARIABLES
    row,       \* the settings: [enabled, set, listed, failures]
    attempt,   \* the sign-ins: what each does next
    panel,     \* the pages: [shows, patch, overtaken] - what the page shows of the
               \* switch; what is under way: nothing, a change that was made, an answer
               \* with the switch on or off; history: the row was changed by another
               \* page since it was read for this one, or by this one without an answer
    guesses    \* history: wrong codes compared since an admin's last change or the
               \* last count of a right code

vars == <<row, attempt, panel, guesses>>

Init ==
    /\ row = [enabled |-> FALSE, set |-> FALSE, listed |-> FALSE, failures |-> 0]
    /\ attempt = [h \in Handler |-> "free"]
    /\ panel = [p \in Panel |-> [shows |-> "nothing", patch |-> "no", overtaken |-> FALSE]]
    /\ guesses = 0

Goes(h, stage) == attempt' = [attempt EXCEPT ![h] = stage]

-----------------------------------------------------------------------------
(* verifyOtp, for one of the numbers an admin may list                     *)

Answers == row.enabled /\ row.set /\ row.listed /\ row.failures < MaxFailures

\* matches(): the right code signs in, and starts the count anew; a refusal
\* and a wrong code go on to be charged.
Match(h) ==
    /\ attempt[h] = "free"
    /\ \/ Answers /\ row.failures > 0 /\ Goes(h, "reset") /\ UNCHANGED guesses
       \/ Goes(h, "charge") /\ guesses' = IF Answers THEN guesses + 1 ELSE guesses
    /\ UNCHANGED <<row, panel>>

Reset(h) ==
    /\ attempt[h] = "reset" /\ Goes(h, "free")
    /\ row' = [row EXCEPT !.failures = 0] /\ guesses' = 0
    /\ UNCHANGED panel

\* recordFailure(): read again ...
ReadForCharge(h) ==
    /\ attempt[h] = "charge"
    /\ Goes(h, IF row.enabled /\ row.listed THEN "add" ELSE "free")
    /\ UNCHANGED <<row, panel, guesses>>

\* mutant: the last failure starts the count anew, as PinService's does
MutCharge(h) ==
    /\ attempt[h] = "add"
    /\ row' = [row EXCEPT !.failures = (@ + 1) % MaxFailures]
    /\ Goes(h, IF row'.failures = 0 THEN "off" ELSE "free")
    /\ UNCHANGED <<panel, guesses>>

\* ... counted ...
Charge(h) ==
    /\ attempt[h] = "add"
    /\ row' = [row EXCEPT !.failures = IF @ < Cap THEN @ + 1 ELSE Cap]
    /\ Goes(h, IF row'.failures >= MaxFailures THEN "off" ELSE "free")
    /\ UNCHANGED <<panel, guesses>>

\* ... and switched off, whatever an admin has done since.
SwitchOff(h) ==
    /\ attempt[h] = "off" /\ Goes(h, "free")
    /\ row' = [row EXCEPT !.enabled = FALSE]
    /\ UNCHANGED <<panel, guesses>>

-----------------------------------------------------------------------------
(* DevBypassPanel and configure()                                          *)

\* load() on a page opened, or opened anew: the row is read ...
Load(p) ==
    /\ panel' = [panel EXCEPT ![p] = [shows |-> "nothing", overtaken |-> FALSE,
                                      patch |-> IF row.enabled THEN "on" ELSE "off"]]
    /\ UNCHANGED <<row, attempt, guesses>>

\* mutant: the page keeps what it shows of the switch once it shows it
MutLand(p) ==
    /\ panel[p].patch \in {"on", "off"}
    /\ panel' = [panel EXCEPT ![p].patch = "no",
                              ![p].shows = IF @ = "nothing" THEN panel[p].patch ELSE @]
    /\ UNCHANGED <<row, attempt, guesses>>

\* ... and the answer shown: of a load as of a change.
Land(p) ==
    /\ panel[p].patch \in {"on", "off"}
    /\ panel' = [panel EXCEPT ![p].patch = "no", ![p].shows = panel[p].patch]
    /\ UNCHANGED <<row, attempt, guesses>>

\* An answer that does not arrive leaves the page with what it showed.
Lost(p) ==
    /\ panel[p].patch # "no"
    /\ panel' = [panel EXCEPT ![p].patch = "no", ![p].overtaken = TRUE]
    /\ UNCHANGED <<row, attempt, guesses>>

Refuses(new) == new.enabled /\ (~new.set \/ ~new.listed)

\* The row is written first and looked at afterwards: enabling a bypass that
\* has no code or no numbers is refused, and has happened.  A refusal tells
\* the page nothing of the row.
Configured(p, new) ==
    /\ panel[p].shows # "nothing" /\ panel[p].patch = "no"
    /\ row' = new
    /\ panel' = [q \in Panel |->
                   IF q # p THEN [panel[q] EXCEPT !.overtaken = TRUE]
                   ELSE [panel[q] EXCEPT !.patch = IF Refuses(new) THEN "no" ELSE "written"]]
    /\ guesses' = 0
    /\ UNCHANGED attempt

\* "Save" sends the numbers, and the code if one was typed: too short a code
\* and too many numbers are refused before anything is written.
Save(p, code, numbers) ==
    Configured(p, [row EXCEPT !.listed = numbers, !.set = @ \/ code,
                              !.failures = IF code THEN 0 ELSE @])

\* The switch shows what the page knows, and asks for the opposite.
Toggle(p) ==
    Configured(p, [row EXCEPT !.enabled = panel[p].shows = "off",
                              !.failures = IF panel[p].shows = "on" THEN @ ELSE 0])

\* What a change answers is read from the row again: status().
Status(p) ==
    /\ panel[p].patch = "written"
    /\ panel' = [panel EXCEPT ![p].overtaken = FALSE,
                              ![p].patch = IF row.enabled THEN "on" ELSE "off"]
    /\ UNCHANGED <<row, attempt, guesses>>

-----------------------------------------------------------------------------
Next ==
    \/ \E h \in Handler :
          Match(h) \/ Reset(h) \/ ReadForCharge(h) \/ Charge(h) \/ SwitchOff(h)
    \/ \E p \in Panel :
          \/ Load(p) \/ Land(p) \/ Lost(p) \/ Toggle(p) \/ Status(p)
          \/ \E code, numbers \in BOOLEAN : Save(p, code, numbers)

Spec == Init /\ [][Next]_vars

-----------------------------------------------------------------------------
\* Between two changes by an admin, nobody compares more codes than
\* the bypass allows and the requests served at a time: the guesses a refusal
\* leaves uncharged are over with the bypass itself.
BypassGuessesBounded == guesses < MaxFailures + Cardinality(Handler)

\* A page that shows the bypass off, with nothing under way, is never looking
\* at one that answers, unless another page changed the row since it was read
\* for this one, or the answer to a change of its own was lost.  Enabling the
\* bypass without a code or a number is refused after it was written, and the
\* row stays on behind the refusal until the numbers are saved: what that
\* answers must turn the switch on the page.
PanelShowsALiveCode ==
    \A p \in Panel : panel[p] = [shows |-> "off", patch |-> "no", overtaken |-> FALSE]
                         => ~Answers

-----------------------------------------------------------------------------
(* Inductive invariant                                                     *)

TypeOK ==
    /\ row \in [enabled: BOOLEAN, set: BOOLEAN, listed: BOOLEAN, failures: 0..Cap]
    /\ attempt \in [Handler -> {"free", "reset", "charge", "add", "off"}]
    /\ panel \in [Panel -> [shows: {"nothing", "on", "off"}, overtaken: BOOLEAN,
                            patch: {"no", "written", "on", "off"}]]
    /\ guesses \in Nat

\* While the bypass is there to be guessed at, every guess has been counted or
\* is about to be; what a dead bypass leaves uncounted is guessed no further.
Charging == {h \in Handler : attempt[h] \in {"charge", "add"}}
GuessesCounted ==
    row.enabled /\ row.listed /\ row.failures < MaxFailures
        => guesses <= row.failures + Cardinality(Charging)

\* Failures do not keep the row from answering for good: a right code under way
\* starts the count anew.
OffMeansDead == \A p \in Panel : ~panel[p].overtaken =>
    /\ panel[p].patch = "off" => ~row.enabled
    /\ panel[p].shows = "off" /\ panel[p].patch = "no"
         => ~(row.enabled /\ row.set /\ row.listed)

IInv == TypeOK /\ GuessesCounted /\ OffMeansDead /\ BypassGuessesBounded

=============================================================================
