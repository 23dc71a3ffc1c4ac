------------------------------ MODULE SideBySide ------------------------------
(***************************************************************************)
(* Components that share no state, side by side in one specification.      *)
(* `which` names the one that moves, and stays.  DeviceCap's               *)
(* variables are its own, and keep still while another moves; the          *)
(* variables of the others are x1 to x8, whichever of them it is.  What    *)
(* holds of every behaviour of this specification holds of each component  *)
(* alone, for every value of its constants.                                *)
(***************************************************************************)
EXTENDS DeviceCap

CONSTANTS
    Pins, PinLimit,                   \* of PinSignIn
    Admin, MasterLimit, MaxCodes,     \* of MasterCode
    BypassLimit, BypassCap,           \* of DevBypass
    User, Subscribers, Handset,       \* of Announcements, and of Catalogue
    PushAudience, MaxRestarts,
    Gateway, MaxChanges,              \* of SmsDelivery
    Call, Value, NoValue,             \* of Secrets
    MaxPayments, Poll, MaxTries       \* of Subscribe

ASSUME SideAssumption ==
    /\ IsFiniteSet(Admin)
    /\ Gateway \subseteq {"routemobile", "bulksms", "twilio", "custom", "africastalking"}
    /\ PinLimit \in Nat \ {0} /\ MasterLimit \in Nat \ {0} /\ BypassLimit \in Nat \ {0}
    /\ MaxCodes \in Nat /\ BypassCap \in Nat /\ BypassCap >= BypassLimit
    /\ Subscribers \subseteq User
    /\ PushAudience \in {"all", "subscribers"} /\ MaxRestarts \in Nat
    /\ MaxPayments \in Nat /\ MaxTries \in Nat

VARIABLES which, x1, x2, x3, x4, x5, x6, x7, x8

xs == <<x1, x2, x3, x4, x5, x6, x7, x8>>

Pin == INSTANCE PinSignIn WITH
         MaxFailures <- PinLimit,
         row <- x1, verify <- x2, form <- x3, guesses <- x4
Master == INSTANCE MasterCode WITH
         MaxFailures <- MasterLimit,
         codes <- x1, attempt <- x2, issue <- x3, panel <- x4, guesses <- x5
Bypass == INSTANCE DevBypass WITH
         Panel <- Handler,
         MaxFailures <- BypassLimit, Cap <- BypassCap,
         row <- x1, attempt <- x2, panel <- x3, guesses <- x4
Announce == INSTANCE Announcements WITH
         title <- x1, live <- x2, account <- x3, device <- x4,
         send <- x5, stale <- x6, announced <- x7, restarts <- x8
Pages == INSTANCE Catalogue WITH
         title <- x1, live <- x2, account <- x3, listed <- x4, jar <- x5,
         page <- x6, stale <- x7, token <- x8
Sms == INSTANCE SmsDelivery WITH
         mode <- x1, configured <- x2, changes <- x3, relay <- x4, send <- x5
Secret == INSTANCE Secrets WITH
         Handler <- Call, None <- NoValue,
         row <- x1, cached <- x2, cache <- x3, call <- x4, stale <- x5

Paying == INSTANCE Subscribe WITH
         screen <- x1, payment <- x2, asking <- x3, timer <- x4, poll <- x5,
         doubtful <- x6

Idle4 == <<x5, x6, x7, x8>>
Idle5 == <<x6, x7, x8>>
Idle6 == <<x7, x8>>

Zero6 == x7 = 0 /\ x8 = 0
Zero5 == x6 = 0 /\ Zero6
Zero4 == x5 = 0 /\ Zero5
Zero == x1 = 0 /\ x2 = 0 /\ x3 = 0 /\ x4 = 0 /\ Zero4

MCInit ==
    /\ Init
    /\ \/ which = "cap" /\ Zero
       \/ which = "pin" /\ Pin!Init /\ Zero4
       \/ which = "master" /\ Master!Init /\ Zero5
       \/ which = "bypass" /\ Bypass!Init /\ Zero4
       \/ which = "announce" /\ Announce!Init
       \/ which = "pages" /\ Pages!Init
       \/ which = "sms" /\ Sms!Init /\ Zero5
       \/ which = "secret" /\ Secret!Init /\ Zero5
       \/ which = "paying" /\ Paying!Init /\ Zero6

MCNext ==
    /\ UNCHANGED which
    /\ \/ which = "cap" /\ Next /\ UNCHANGED xs
       \/ which = "pin" /\ Pin!Next /\ UNCHANGED <<vars, Idle4>>
       \/ which = "master" /\ Master!Next /\ UNCHANGED <<vars, Idle5>>
       \/ which = "bypass" /\ Bypass!Next /\ UNCHANGED <<vars, Idle4>>
       \/ which = "announce" /\ Announce!Next /\ UNCHANGED vars
       \/ which = "pages" /\ Pages!Next /\ UNCHANGED vars
       \/ which = "sms" /\ Sms!Next /\ UNCHANGED <<vars, Idle5>>
       \/ which = "secret" /\ Secret!Next /\ UNCHANGED <<vars, Idle5>>
       \/ which = "paying" /\ Paying!Next /\ UNCHANGED <<vars, Idle6>>

MCSpec == MCInit /\ [][MCNext]_<<which, vars, xs>>

-----------------------------------------------------------------------------
\* The invariants of the components: see there for what each one says.

\* PIN sign-in: wrong PINs compared before the lock.
GuessesPerLock == which = "pin" => Pin!GuessesPerLock
\* Master codes: guesses at one code.
GuessesPerCode == which = "master" => Master!GuessesPerCode
\* Development bypass: codes compared before it switches itself off.
BypassGuessesBounded == which = "bypass" => Bypass!BypassGuessesBounded
\* Development bypass: what the admin's panel shows.
PanelShowsALiveCode == which = "bypass" => Bypass!PanelShowsALiveCode
\* Announcements: how often a title is announced.
AnnouncementsBounded == which = "announce" => Announce!AnnouncementsBounded
\* Announcements: whoever is pushed may open the title.
PushedMayOpen == which = "announce" => Announce!PushedMayOpen
\* Catalogue: an account sees one catalogue in the app and on the website.
OneCatalogue == which = "pages" => Pages!OneCatalogue
\* SMS: what send answers can be relied on.
AnswerTells == which = "sms" => Sms!AnswerTells
\* Credentials: what is served is what was set last.
CacheCurrent == which = "secret" => Secret!CacheCurrent
\* Paying: what the customer is told holds.
ScreenTells == which = "paying" => Paying!ScreenTells

=============================================================================
