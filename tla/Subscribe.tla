------------------------------ MODULE Subscribe ------------------------------
(***************************************************************************)
(* Paying as the customer sees it: the website's subscribe page, the page  *)
(* a hosted checkout returns to, and the app's screen.  Each asks for the  *)
(* outcome every two seconds, whether or not the last answer is in, and    *)
(* gives up after a number of tries.  How the server arrives at an outcome *)
(* is PaymentConfirmation's matter; a failure that the server took for one *)
(* without the customer having declined (its `astray`) is not followed     *)
(* here: what the server calls failed is what was declined.                *)
(***************************************************************************)
EXTENDS Naturals, FiniteSets

CONSTANTS
    MaxPayments,   \* bound: payments begun
    Poll,          \* bound: slots for polls in flight
    MaxTries       \* polls that may come to nothing: 60, on the callback page 30

VARIABLES
    screen,    \* [kind, at, ref, stuck, leaving]: page, callback or app; what
               \* it shows; the payment whose interval is in pollRef; whether the
               \* buttons stay disabled; whether it is about to leave for "/"
    payment,   \* of each: [how, charge, status, tries]
    asking,    \* those whose checkout call is out
    timer,     \* those whose interval runs
    poll,      \* [of, says]; of is 0 in a free slot
    doubtful   \* history: payments given up on, cancelled or reloaded away, whose
               \* checkout's answer was lost, or begun before another was over

vars == <<screen, payment, asking, timer, poll, doubtful>>

Payment == 1 .. MaxPayments
Unbegun == [how |-> "none", charge |-> "none", status |-> "none", tries |-> 0]
NoPoll == [of |-> 0, says |-> "none"]
Fresh(kind) == [kind |-> kind, at |-> "plans", ref |-> 0, stuck |-> FALSE, leaving |-> FALSE]
Newest == Cardinality({n \in Payment : payment[n].how # "none"})

Init ==
    /\ screen \in {Fresh("page"), Fresh("app")}
    /\ payment = [n \in Payment |-> Unbegun]
    /\ asking = {} /\ timer = {} /\ doubtful = {}
    /\ poll = [s \in Poll |-> NoPoll]

Shows(at) == screen' = [screen EXCEPT !.at = at]
Quiet == poll = [s \in Poll |-> NoPoll]
Silence == timer' = {} /\ poll' = [s \in Poll |-> NoPoll]   \* a page is unloaded
Doubt(n) == doubtful' = doubtful \cup {n}

-----------------------------------------------------------------------------
(* payByMobileMoney, payByCard; _payMobileMoney, _payCard                  *)

\* Asked at a prompt on the phone, or at a page of the provider's.  The page
\* disables its buttons while a call is out; the app does not.
Pay(how) ==
    /\ screen.at = "plans" /\ screen.kind \in {"page", "app"}
    /\ screen.kind = "page" => asking = {} /\ ~screen.stuck
    /\ Newest < MaxPayments
    /\ payment' = [payment EXCEPT ![Newest + 1].how = how]
    /\ asking' = asking \cup {Newest + 1}
    /\ IF asking = {} /\ timer = {} /\ Quiet THEN UNCHANGED doubtful ELSE Doubt(Newest + 1)
    /\ UNCHANGED <<screen, timer, poll>>

\* The server creates the payment, though nobody may wait for it any more; a
\* prompt goes out at once.
Checkout(n) ==
    /\ payment[n].how # "none" /\ payment[n].status = "none" /\ payment[n].charge # "refused"
    /\ payment' = [payment EXCEPT ![n].status = "pending",
                     ![n].charge = IF payment[n].how = "prompt" THEN "open" ELSE "none"]
    /\ UNCHANGED <<screen, asking, timer, poll, doubtful>>

\* The customer is shown what to do, and the screen begins to poll - unless
\* the browser leaves for the provider's page.
Prompted(n) ==
    /\ n \in asking /\ payment[n].status # "none" /\ payment[n].how = "prompt"
    /\ screen' = [screen EXCEPT !.at = "waiting", !.ref = n]
    /\ asking' = asking \ {n} /\ timer' = timer \cup {n}
    /\ UNCHANGED <<payment, poll, doubtful>>

Redirected(n) ==
    /\ n \in asking /\ payment[n].status # "none" /\ payment[n].how # "prompt"
    /\ payment' = [payment EXCEPT ![n].charge = "open"]
    /\ asking' = asking \ {n}
    /\ IF screen.kind = "app"
       THEN timer' = timer \cup {n} /\ UNCHANGED <<screen, poll>>
       ELSE Silence /\ screen' = [screen EXCEPT !.at = "away", !.ref = n]
    /\ UNCHANGED doubtful

\* payByCard has no catch: its buttons stay disabled.
Unanswered(n) ==
    /\ n \in asking
    /\ asking' = asking \ {n}
    /\ CASE screen.kind = "app" -> UNCHANGED screen
         [] screen.kind # "app" /\ payment[n].how = "card" -> screen' = [screen EXCEPT !.stuck = TRUE]
         [] screen.kind # "app" /\ payment[n].how # "card" -> Shows("failed")
    /\ UNCHANGED <<timer, poll>>

\* The server refuses, or its answer is lost.
Refused(n) ==
    /\ payment[n].status = "none"
    /\ Unanswered(n)
    /\ payment' = [payment EXCEPT ![n].charge = "refused"]
    /\ UNCHANGED doubtful

Lost(n) == Unanswered(n) /\ Doubt(n) /\ UNCHANGED payment

-----------------------------------------------------------------------------
(* The customer, the provider and the server                               *)

Decide(n) ==
    /\ payment[n].charge = "open"
    /\ \E c \in {"paid", "declined"} : payment' = [payment EXCEPT ![n].charge = c]
    /\ UNCHANGED <<screen, asking, timer, poll, doubtful>>

\* What the server makes of a charge once it looks.
Found(p) == CASE p.charge = "paid" -> "successful"
              [] p.charge = "declined" -> "failed"
              [] OTHER -> "pending"

Notified(n) ==
    /\ payment[n].status = "pending" /\ payment[n].charge \in {"paid", "declined"}
    /\ payment' = [payment EXCEPT ![n].status = Found(payment[n])]
    /\ UNCHANGED <<screen, asking, timer, poll, doubtful>>

\* getStatus: the provider may be silent.
GetStatus(s) ==
    LET n == poll[s].of IN
    /\ poll[s].says = "sent"
    /\ \E status \in {payment[n].status, Found(payment[n])} :
          /\ payment[n].status # "pending" => status = payment[n].status
          /\ payment' = [payment EXCEPT ![n].status = status]
          /\ poll' = [poll EXCEPT ![s].says = status]
    /\ UNCHANGED <<screen, asking, timer, doubtful>>

-----------------------------------------------------------------------------
(* The intervals: payByMobileMoney, CallbackContent, _pollThenClose        *)

Tick(n) ==
    /\ n \in timer
    /\ \E s \in Poll : poll[s] = NoPoll /\ poll' = [poll EXCEPT ![s] = [of |-> n, says |-> "sent"]]
    /\ payment' = [payment EXCEPT ![n].tries = IF @ > MaxTries THEN @ ELSE @ + 1]
    /\ UNCHANGED <<screen, asking, timer, doubtful>>

\* The subscribe page stops what is in pollRef, whoever is heard.
Stopped(n) == timer' = timer \ {IF screen.kind = "page" THEN screen.ref ELSE n}

\* mutant: an answer that does not arrive is a failure
MutOver(n, says) == says \in {"failed", "lost"} \/ payment[n].tries > MaxTries

Over(n, says) == says = "failed" \/ payment[n].tries > MaxTries

\* An answer, or the failure to get one, which counts as "pending".
Heard(s, says) ==
    LET n == poll[s].of IN
    /\ n # 0 /\ says \in {poll[s].says, "lost"} \ {"sent"}
    /\ poll' = [poll EXCEPT ![s] = NoPoll]
    /\ \/ /\ says = "successful"
          /\ Stopped(n)
          /\ screen' = IF screen.kind = "app" THEN [screen EXCEPT !.at = "gone"]
                       ELSE [screen EXCEPT !.at = "confirmed", !.leaving = TRUE]
          /\ UNCHANGED doubtful
       \/ /\ says # "successful" /\ Over(n, says)
          /\ Stopped(n)
          /\ Shows(IF screen.kind = "callback" /\ says # "failed" THEN "unsure" ELSE "failed")
          /\ IF payment[n].tries > MaxTries THEN Doubt(n) ELSE UNCHANGED doubtful
       \/ /\ says # "successful" /\ ~Over(n, says)
          /\ UNCHANGED <<screen, timer, doubtful>>
    /\ UNCHANGED <<payment, asking>>

-----------------------------------------------------------------------------
(* Coming back, trying again, leaving                                      *)

\* The provider sends the browser to the callback page, cancelled or not.
Return ==
    /\ screen.at = "away"
    /\ screen' = [screen EXCEPT !.kind = "callback", !.at = "checking"]
    /\ timer' = {screen.ref}
    /\ UNCHANGED <<payment, asking, poll, doubtful>>

ReturnCancelled ==
    /\ screen.at = "away"
    /\ screen' = [screen EXCEPT !.kind = "callback", !.at = "failed"]
    /\ Doubt(screen.ref)
    /\ UNCHANGED <<payment, asking, timer, poll>>

\* "Try again" on the page; "Cancel" in the app, at any time.
TryAgain ==
    /\ \/ screen.at = "failed" /\ screen.kind # "callback"
       \/ screen.at = "waiting" /\ screen.kind = "app"
    /\ Shows("plans")
    /\ UNCHANGED <<payment, asking, timer, poll, doubtful>>

\* The subscribe page anew: by a reload, or from the callback page.
Reload ==
    /\ screen.kind # "app" /\ screen.at \notin {"away", "confirmed", "gone"}
    /\ screen' = Fresh("page")
    /\ asking' = {} /\ Silence
    /\ IF Newest = 0 THEN UNCHANGED doubtful ELSE Doubt(Newest)
    /\ UNCHANGED payment

\* router.push("/"), whatever is shown by then
Leave ==
    /\ screen.leaving
    /\ Shows("gone")
    /\ UNCHANGED <<payment, asking, timer, poll, doubtful>>

Next ==
    /\ screen.at # "gone"
    /\ \/ \E how \in {"prompt", "hosted", "card"} : Pay(how)
       \/ \E n \in Payment : \/ Checkout(n) \/ Prompted(n) \/ Redirected(n) \/ Refused(n) \/ Lost(n)
                             \/ Decide(n) \/ Notified(n) \/ Tick(n)
       \/ \E s \in Poll : \/ GetStatus(s)
                          \/ \E says \in {"successful", "pending", "failed", "lost"} : Heard(s, says)
       \/ Return \/ ReturnCancelled \/ TryAgain \/ Reload \/ Leave

Spec == Init /\ [][Next]_vars

-----------------------------------------------------------------------------
\* What the customer is told holds, although late answers about one payment
\* reach a screen that is about another: a screen that waits is polling what
\* it waits for; "confirmed" is said when something was paid for; "not
\* completed" only when the newest payment has taken nothing and never will;
\* and nobody pays twice.  The exceptions are the doubtful ones.
ScreenTells ==
    /\ screen.at \in {"waiting", "checking"} => screen.ref \in timer
    /\ screen.at = "confirmed" => \E n \in Payment : payment[n].charge = "paid"
    /\ screen.at = "failed" =>
          Newest \in doubtful \/ payment[Newest].charge \in {"none", "refused", "declined"}
    /\ \A n, k \in Payment : n # k /\ payment[n].charge = "paid" /\ payment[k].charge = "paid"
          => n \in doubtful \/ k \in doubtful

-----------------------------------------------------------------------------
(* Inductive invariant                                                     *)

Statuses == {"none", "pending", "successful", "failed"}
TypeOK ==
    /\ screen \in [kind: {"page", "callback", "app"}, ref: 0 .. MaxPayments,
                   at: {"plans", "waiting", "away", "checking", "confirmed", "failed",
                        "unsure", "gone"},
                   stuck: BOOLEAN, leaving: BOOLEAN]
    /\ payment \in [Payment -> [how: {"none", "prompt", "hosted", "card"}, tries: Nat,
                                charge: {"none", "open", "paid", "declined", "refused"},
                                status: Statuses]]
    /\ asking \subseteq Payment /\ timer \subseteq Payment /\ doubtful \subseteq Payment
    /\ poll \in [Poll -> [of: 0 .. MaxPayments, says: Statuses \cup {"sent"}]]

\* Payments are begun one after the other, and only those are heard of.
Begun == {n \in Payment : payment[n].how # "none"}
InOrder ==
    /\ \A n \in Payment : n \in Begun <=> n <= Newest
    /\ asking \cup timer \subseteq Begun
    /\ \A s \in Poll : poll[s].of # 0 => poll[s].of \in Begun
    /\ \A s \in Poll : poll[s].of = 0 => poll[s].says = "none"
    /\ screen.at = "away" => screen.ref \in Begun /\ screen.kind # "app"

\* What is known of a payment, by the server and in an answer, has happened.
Known ==
    /\ \A n \in Payment :
          /\ payment[n].status = "none" => payment[n].charge \in {"none", "refused"}
          /\ payment[n].status = "successful" => payment[n].charge = "paid"
          /\ payment[n].status = "failed" => payment[n].charge = "declined"
          /\ n \in asking /\ payment[n].how # "prompt" => payment[n].charge = "none"
          /\ n \notin Begun => payment[n].charge = "none"
    /\ \A s \in Poll :
          /\ poll[s].says = "successful" => payment[poll[s].of].charge = "paid"
          /\ poll[s].says = "failed" => payment[poll[s].of].charge = "declined"

\* Unless the newest payment is doubtful, everything under way is about it.
NewestAlone ==
    Newest \notin doubtful =>
        /\ asking \cup timer \subseteq {Newest}
        /\ \A s \in Poll : poll[s].of \in {0, Newest}
        /\ screen.at = "away" => screen.ref = Newest

\* A payment that is not doubtful and may be, or has been, paid is the only such
\* one; it is being asked for or waited for, and where the page or the browser is
\* no other can be begun.
Hope(n) == n \in Begun /\ n \notin doubtful /\ payment[n].charge \notin {"refused", "declined"}
OneHope == \A n, k \in Payment : Hope(n) /\ Hope(k) => n = k
HopeKept ==
    \A n \in Payment : Hope(n) /\ screen.at # "gone" =>
        \/ n \in asking
        \/ n \in timer /\ screen.kind = "app"
        \/ n \in timer /\ screen.ref = n /\ screen.at \in {"waiting", "checking"}
        \/ screen.at \in {"away", "confirmed"} /\ screen.kind # "app"
HopeNewest == screen.kind # "app" => \A n \in Payment : Hope(n) => n = Newest

FailedTells ==
    screen.at = "failed" =>
        /\ Newest \in Payment
        /\ Newest \in doubtful \/ payment[Newest].charge \in {"refused", "declined"}
ConfirmedTells ==
    screen.at = "confirmed" => \E n \in Payment : payment[n].charge = "paid"
WaitingTells == screen.at \in {"waiting", "checking"} => screen.ref \in timer

IInv ==
    /\ TypeOK /\ InOrder /\ Known /\ NewestAlone /\ OneHope /\ HopeKept /\ HopeNewest
    /\ FailedTells /\ ConfirmedTells /\ WaitingTells

===============================================================================
