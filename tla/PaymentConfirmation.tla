------------------------- MODULE PaymentConfirmation -------------------------
(***************************************************************************)
(* The life of one payment: PaymentsService.checkout, the two ways by      *)
(* which the backend learns that it was paid - a client's status poll that *)
(* asks the provider, and the provider's own notification - and            *)
(* grantEntitlement, which flips the status and creates the subscription   *)
(* or purchase in one transaction.                                         *)
(*                                                                         *)
(* Every request is served by a handler whose reads, provider calls and    *)
(* writes are separate steps; the browser polls every two seconds whether  *)
(* or not the previous poll has been answered, and providers redeliver.    *)
(***************************************************************************)
EXTENDS Integers, FiniteSets

CONSTANTS
    Providers,   \* the processors to consider
    Handler,     \* slots for status polls and notifications being served
    MaxGrants,   \* grants beyond this many are not counted
    Allowed      \* the faults this instance admits, see below

Provider == {"flutterwave", "stripe", "momo", "yo", "dpo"}
Hosted == {"flutterwave", "stripe", "dpo"}  \* the customer pays at a URL we hand out

(***************************************************************************)
(* "crash"    the backend restarts, or a provider's answer is lost         *)
(* "rate"     STRIPE_UGX_PER_USD changes with a restart                    *)
(***************************************************************************)
ASSUME PaymentAssumption ==
    /\ Providers \subseteq Provider
    /\ IsFiniteSet(Handler)
    /\ MaxGrants \in Nat \ {0}
    /\ Allowed \subseteq {"crash", "rate"}

VARIABLES
    provider,  \* Payment.provider
    checkout,  \* the checkout call: new, created, asked, done or lost
    status,    \* Payment.status
    txid,      \* Payment.providerTxId has been written
    grants,    \* subscriptions or purchases created for this payment
    charge,    \* what the provider knows of it
    declined,  \* an earlier transaction of the same tx_ref was declined
    early,     \* history: a Stripe checkout completed before its money arrived
    astray,    \* history: a verdict was taken that is not the charge's own
    dearer,    \* the recomputed charge now exceeds what the customer was asked
    serve      \* stage of each handler

vars == <<provider, checkout, status, txid, grants, charge, declined, early, astray,
          dearer, serve>>
payment == <<status, txid, grants>>
outside == <<provider, checkout, charge, declined, early, dearer>>

Stages == {"free", "polling", "elsewhere", "verifiedPaid", "verifiedDeclined", "confirm", "grant", "fail"}

TypeOK ==
    /\ provider \in Providers
    /\ checkout \in {"new", "created", "asked", "done", "lost"}
    /\ status \in {"absent", "pending", "successful", "failed"}
    /\ txid \in BOOLEAN
    /\ grants \in 0..MaxGrants
    /\ charge \in {"none", "open", "completed", "declined", "paid"}
    /\ declined \in BOOLEAN
    /\ early \in BOOLEAN /\ astray \in BOOLEAN
    /\ dearer \in BOOLEAN
    /\ serve \in [Handler -> Stages]

Init ==
    /\ provider \in Providers
    /\ checkout = "new" /\ status = "absent" /\ txid = FALSE /\ grants = 0
    /\ charge = "none" /\ declined = FALSE /\ early = FALSE
    /\ astray = FALSE /\ dearer = FALSE
    /\ serve = [h \in Handler |-> "free"]

Becomes(h, stage) == serve' = [serve EXCEPT ![h] = stage]

-----------------------------------------------------------------------------
(* checkout                                                                *)

CreatePayment ==
    /\ checkout = "new"
    /\ checkout' = "created" /\ status' = "pending"
    /\ UNCHANGED <<provider, txid, grants, charge, declined, early, dearer, astray, serve>>

\* MoMo and Yo push a prompt to the phone here and now; the others open a page.
AskForMoney ==
    /\ checkout = "created"
    /\ checkout' = "asked" /\ charge' = "open"
    /\ UNCHANGED <<provider, payment, declined, early, dearer, astray, serve>>

\* The provider refuses, or cannot be reached: the call throws.
AskRefused ==
    /\ checkout = "created"
    /\ checkout' = "lost"
    /\ UNCHANGED <<provider, payment, charge, declined, early, dearer, astray, serve>>

\* Flutterwave has no transaction yet; only now do the others' pages have a URL.
StoreTransaction ==
    /\ checkout = "asked"
    /\ checkout' = "done"
    /\ txid' = (txid \/ provider # "flutterwave")
    /\ UNCHANGED <<provider, status, grants, charge, declined, early, dearer, astray, serve>>

-----------------------------------------------------------------------------
(* The customer and the provider                                           *)

CanPay == charge = "open" /\ (provider \in Hosted => checkout = "done")

CustomerPays ==
    /\ CanPay \/ charge = "completed"
    /\ charge' = "paid"
    /\ UNCHANGED <<provider, checkout, payment, declined, early, dearer, astray, serve>>

\* Flutterwave's page lets the customer try again with another transaction.
CustomerDeclines ==
    /\ CanPay \/ charge = "completed"
    /\ IF provider = "flutterwave"
       THEN declined' = TRUE /\ charge' = charge
       ELSE declined' = declined /\ charge' = "declined"
    /\ UNCHANGED <<provider, checkout, payment, early, dearer, astray, serve>>

\* A delayed method: the session completes before its money has arrived.
CustomerCompletes ==
    /\ provider = "stripe" /\ CanPay
    /\ charge' = "completed" /\ early' = TRUE
    /\ UNCHANGED <<provider, checkout, payment, declined, dearer, astray, serve>>

-----------------------------------------------------------------------------
(* GET /payments/:id and /payments/by-ref/:txRef: getStatus                *)

\* Only a pending payment whose reference was stored is looked into.
Poll(h) ==
    /\ serve[h] = "free" /\ checkout = "done"
    /\ status = "pending" /\ txid /\ provider # "flutterwave"
    /\ Becomes(h, "polling")
    /\ UNCHANGED <<payment, outside, astray>>

MutProviderAnswers(h) ==   \* mutant: whatever is not paid has failed
    /\ serve[h] = "polling"
    /\ CASE charge = "paid" /\ provider # "stripe" -> Becomes(h, "grant")
         [] charge = "paid" /\ provider = "stripe" -> Becomes(h, "confirm")
         [] OTHER -> Becomes(h, "fail")
    /\ UNCHANGED <<payment, outside, astray>>

\* retrieveSession, momo.getStatus, yo.getStatus or dpo.verifyToken.
ProviderAnswers(h) ==
    /\ serve[h] = "polling"
    /\ CASE charge = "paid" /\ provider # "stripe" -> Becomes(h, "grant")
         [] charge = "paid" /\ provider = "stripe" -> Becomes(h, "confirm")
         [] charge = "declined" /\ provider # "stripe" -> Becomes(h, "fail")
         [] OTHER -> Becomes(h, "free")
    /\ UNCHANGED <<payment, outside, astray>>

\* dpo.verifyToken: whatever is neither paid nor waiting has failed, a passing
\* error of the processor included.
AnswersFailed(h) ==
    /\ serve[h] = "polling" /\ provider = "dpo"
    /\ Becomes(h, "fail")
    /\ astray' = (astray \/ charge # "declined")
    /\ UNCHANGED <<payment, outside>>

ProviderSilent(h) ==
    /\ serve[h] = "polling"
    /\ Becomes(h, "free")
    /\ UNCHANGED <<payment, outside, astray>>

-----------------------------------------------------------------------------
(* Notifications                                                           *)

MutNotifyPaid(h) ==   \* mutant: the body is believed without verification
    /\ serve[h] = "free" /\ provider = "flutterwave"
    /\ charge = "paid" \/ declined
    /\ Becomes(h, "verifiedPaid")
    /\ UNCHANGED <<payment, outside, astray>>

\* confirmFromWebhook asks Flutterwave before it reads the payment.
NotifyPaid(h) ==
    /\ serve[h] = "free" /\ provider = "flutterwave" /\ charge = "paid"
    /\ Becomes(h, "verifiedPaid")
    /\ UNCHANGED <<payment, outside, astray>>
NotifyDeclined(h) ==
    /\ serve[h] = "free" /\ provider = "flutterwave" /\ declined
    /\ Becomes(h, "verifiedDeclined")
    /\ UNCHANGED <<payment, outside, astray>>

MutReadPending(h) ==   \* mutant: a failed payment is taken for processed as well
    /\ serve[h] \in {"verifiedPaid", "verifiedDeclined"}
    /\ Becomes(h, CASE status # "pending" -> "free"
                    [] status = "pending" /\ serve[h] = "verifiedPaid" -> "grant"
                    [] OTHER -> "fail")
    /\ UNCHANGED <<payment, outside, astray>>

ReadVerified(h) ==
    /\ serve[h] \in {"verifiedPaid", "verifiedDeclined"}
    /\ Becomes(h, CASE status = "successful" -> "free"
                    [] status # "successful" /\ serve[h] = "verifiedPaid" -> "grant"
                    [] OTHER -> "fail")
    /\ UNCHANGED <<payment, outside, astray>>

\* checkout.session.completed: the signature is the verification.
NotifyStripe(h) ==
    /\ serve[h] = "free" /\ provider = "stripe" /\ charge \in {"completed", "paid"}
    /\ Becomes(h, "confirm")
    /\ UNCHANGED <<payment, outside, astray>>

MutConfirmSession(h) ==   \* mutant: without "already processed"
    /\ serve[h] = "confirm"
    /\ Becomes(h, IF dearer THEN "fail" ELSE "grant")
    /\ UNCHANGED <<payment, outside, astray>>

\* confirmStripeSession, shared by the poll and the event.
ConfirmSession(h) ==
    /\ serve[h] = "confirm"
    /\ Becomes(h, CASE status = "successful" -> "free"
                    [] status # "successful" /\ dearer -> "fail"
                    [] OTHER -> "grant")
    /\ UNCHANGED <<payment, outside, astray>>

\* confirmYoIpn asks about the reference that was stored, and where none was,
\* about the one in the notification, which need not belong to this payment.
NotifyYo(h) ==
    /\ serve[h] = "free" /\ provider = "yo" /\ status \notin {"absent", "successful"}
    /\ Becomes(h, "polling") \/ (~txid /\ Becomes(h, "elsewhere"))
    /\ UNCHANGED <<payment, outside, astray>>

\* What Yo then says of that other transaction is taken for this one's.
AnswersElsewhere(h) ==
    /\ serve[h] = "elsewhere"
    /\ \/ astray' = TRUE /\ (Becomes(h, "grant") \/ Becomes(h, "fail"))
       \/ astray' = astray /\ Becomes(h, "free")
    /\ UNCHANGED <<payment, outside>>

-----------------------------------------------------------------------------
(* What a handler does to the payment in the end                           *)

MutGrant(h) ==   \* mutant: the flip and the grant are two statements, no transaction
    /\ serve[h] = "grant"
    /\ status' = "successful" /\ txid' = TRUE
    /\ \/ grants' = grants
       \/ grants' = IF grants < MaxGrants THEN grants + 1 ELSE grants
    /\ Becomes(h, "free")
    /\ UNCHANGED <<outside, astray>>

\* grantEntitlement: one transaction, whatever the status has become.
Grant(h) ==
    /\ serve[h] = "grant"
    /\ status' = "successful" /\ txid' = TRUE
    /\ grants' = IF grants < MaxGrants THEN grants + 1 ELSE grants
    /\ Becomes(h, "free")
    /\ UNCHANGED <<outside, astray>>

\* The failed writes are unconditional too.
Fail(h) ==
    /\ serve[h] = "fail"
    /\ status' = "failed"
    /\ txid' = (txid \/ provider \in {"flutterwave", "stripe"})
    /\ Becomes(h, "free")
    /\ UNCHANGED <<grants, outside, astray>>

\* Calls in progress are gone; a new rate may have come with the restart.
Restart ==
    /\ "crash" \in Allowed \/ "rate" \in Allowed
    /\ checkout' = IF checkout \in {"created", "asked"} THEN "lost" ELSE checkout
    /\ serve' = [h \in Handler |-> "free"]
    /\ dearer' \in IF "rate" \in Allowed /\ charge # "none" THEN BOOLEAN ELSE {dearer}
    /\ UNCHANGED <<provider, payment, charge, declined, early, astray>>

-----------------------------------------------------------------------------
Work(h) ==
    \/ ProviderAnswers(h) \/ AnswersFailed(h) \/ ProviderSilent(h) \/ AnswersElsewhere(h)
    \/ ReadVerified(h) \/ ConfirmSession(h) \/ Grant(h) \/ Fail(h)
Arrive(h) ==
    \/ Poll(h) \/ NotifyPaid(h) \/ NotifyDeclined(h) \/ NotifyStripe(h) \/ NotifyYo(h)

Next ==
    \/ CreatePayment \/ AskForMoney \/ AskRefused \/ StoreTransaction
    \/ CustomerPays \/ CustomerDeclines \/ CustomerCompletes
    \/ \E h \in Handler : Arrive(h) \/ Work(h)
    \/ Restart

Spec == Init /\ [][Next]_vars

\* Handlers get on with their work, providers answer if asked often enough, and
\* Flutterwave and Stripe redeliver what was not acknowledged.
Fairness ==
    \A h \in Handler :
        /\ SF_vars(ProviderAnswers(h)) /\ SF_vars(ConfirmSession(h))
        /\ SF_vars(ReadVerified(h) /\ serve[h] = "verifiedPaid")
        /\ SF_vars(ReadVerified(h) /\ serve[h] = "verifiedDeclined")
        /\ SF_vars(Grant(h)) /\ SF_vars(Fail(h))
        /\ SF_vars(NotifyPaid(h)) /\ SF_vars(NotifyStripe(h))

FairSpec == Spec /\ Fairness

-----------------------------------------------------------------------------
(* Properties                                                              *)

(***************************************************************************)
(* Nothing is granted that was not paid, by any path, in any order         *)
(* ("never trust webhook body alone", flutterwave.service.ts:52) - but for *)
(* a Stripe session completed by a delayed method, whose event is taken    *)
(* for the money, and a Yo payment whose own reference was not stored when *)
(* a notification came with another one (payments.service.ts:352).         *)
(***************************************************************************)
Backed == charge = "paid" \/ early \/ (astray /\ provider = "yo")

GrantOnlyIfPaid == grants > 0 => Backed

(***************************************************************************)
(* A payment is granted once ("already processed - idempotent",            *)
(* payments.service.ts:371).  Holds while one request is served at a time. *)
(***************************************************************************)
GrantOnce == grants <= 1

(***************************************************************************)
(* Served together, k requests grant at most k times: once one of them has *)
(* granted, only those that looked before can still grant.  Not so for     *)
(* Flutterwave, whose stale failures reopen the payment, nor once a        *)
(* verdict went astray: a failure DPO did not mean, or one about another   *)
(* transaction of Yo.                                                      *)
(***************************************************************************)
Final == provider # "flutterwave" /\ ~astray

GrantsBounded == Final => grants <= Cardinality(Handler)

(***************************************************************************)
(* The status tells whether there is an entitlement: the webhook "flips    *)
(* status and then creates the subscription row in the same transaction"   *)
(* (streaming-app-schema.md:154).  Holds one request at a time.            *)
(***************************************************************************)
StatusTellsGrant == status = "successful" <=> grants > 0

(***************************************************************************)
(* While the provider's verdicts are final, it holds for any number of     *)
(* requests served together: a granted payment is never reopened, and      *)
(* none is successful without its subscription or purchase.                *)
(***************************************************************************)
GrantStands == Final => StatusTellsGrant

(***************************************************************************)
(* A payment that was paid is not put down as failed, while the provider's *)
(* verdicts are final: "recomputing is safe" (payments.service.ts:376).    *)
(***************************************************************************)
PaidIsNotFailed == charge = "paid" /\ Final => status # "failed"

(***************************************************************************)
(* Where the provider notifies until it is heard, a paid payment is        *)
(* granted in the end, although the backend keeps restarting and whatever  *)
(* became of the polls (getStatus's self-heal is not needed for it).       *)
(***************************************************************************)
NotifiedPaymentGranted ==
    provider \in {"flutterwave", "stripe"} => (charge = "paid" ~> grants > 0)

(***************************************************************************)
(* A client that polls for as long as it reads pending gets what it paid   *)
(* for, although the provider may not always answer and the backend keeps  *)
(* restarting: the status never leaves pending for nothing.  (Once paid or *)
(* granted, always so: time and again means in the end.)  One answer that  *)
(* went astray is enough to lose the payment: only pending ones are asked  *)
(* about.                                                                  *)
(***************************************************************************)
PolledPaymentGranted ==
    LET paidPending == charge = "paid" /\ status = "pending"
        polled == \E h \in Handler : serve[h] = "polling"
    IN  []<>(polled \/ ~paidPending) => []<>(charge = "paid" /\ ~astray => grants > 0)

-----------------------------------------------------------------------------
(* Inductive invariants                                                    *)

\* What comes before what.
Ordered ==
    /\ checkout \in {"new", "created"} => charge = "none" /\ ~declined
    /\ checkout = "new" => /\ status = "absent" /\ grants = 0
                           /\ \A h \in Handler : serve[h] = "free"

\* Only what was paid gets as far as a grant.
StagesAreJustified ==
    /\ charge = "completed" => early
    /\ early => provider = "stripe"
    /\ astray => provider \in {"dpo", "yo"}
    /\ \A h \in Handler : serve[h] = "elsewhere" => provider = "yo"
    /\ \A h \in Handler :
         serve[h] \in {"verifiedPaid", "confirm", "grant"} => Backed

\* Only what was declined gets as far as a failure, where the verdict is final
\* and the amount expected is the amount that was asked.
FailuresAreJustified ==
    /\ ~dearer
    /\ \A h \in Handler :
         serve[h] \in {"verifiedPaid", "verifiedDeclined"} => provider = "flutterwave"
    /\ Final =>
         /\ status = "failed" => charge = "declined"
         /\ \A h \in Handler :
              serve[h] = "fail" => charge = "declined" /\ provider # "stripe"

\* Handlers that will grant although the payment is granted already.
Granting == {h \in Handler : \/ serve[h] = "grant"
                             \/ serve[h] = "polling" /\ provider # "stripe"}

GrantsReserved ==
    Final =>
        /\ StatusTellsGrant
        /\ grants + Cardinality(Granting) <= Cardinality(Handler)

\* One at a time, a handler about to write knows the payment as it is.
StagesAreFresh ==
    \A h \in Handler : serve[h] \in {"grant", "fail", "polling", "elsewhere"} => status # "successful"

PInv == TypeOK /\ Ordered /\ GrantOnlyIfPaid /\ StagesAreJustified
BInv == PInv /\ FailuresAreJustified /\ GrantsReserved
SInv == PInv /\ StatusTellsGrant /\ GrantOnce /\ StagesAreFresh

=============================================================================
