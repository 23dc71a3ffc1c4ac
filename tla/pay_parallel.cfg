\* Polls and notifications served together, with restarts.
SPECIFICATION FairSpec
CONSTANTS
    Providers = {"flutterwave", "stripe", "momo", "yo", "dpo"}
    Handler = {h1, h2}
    MaxGrants = 3
    Allowed = {"crash"}

INVARIANTS
    GrantOnlyIfPaid
    GrantsBounded
    PaidIsNotFailed
    GrantStands
PROPERTIES
    NotifiedPaymentGranted
    PolledPaymentGranted

\* A payment may be left alone for good.
CHECK_DEADLOCK FALSE
