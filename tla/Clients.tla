------------------------------- MODULE Clients -------------------------------
(***************************************************************************)
(* The ingest of one slot, and six clients that share no state with it or  *)
(* each other, side by side in one specification, the way SideBySide does. *)
(***************************************************************************)
EXTENDS VideoIngest

CONSTANTS
    MaxSessions, MaxAttempts,      \* of WebSignIn
    Text, Art, NoText,             \* of TitleEditor
    MaxRequests,                   \* of SettingsPage
    MaxQueued,                     \* of Downloads
    Name, Part, Master, Workers,   \* of R2Upload
    Player, App,                   \* of Bookmark
    MaxPosition, MaxRecoveries

ASSUME ClientsAssumption ==
    /\ MaxSessions \in Nat /\ MaxAttempts \in Nat
    /\ NoText \notin Text /\ NoText \notin Art
    /\ MaxRequests \in Nat /\ MaxQueued \in Nat
    /\ None \notin Name /\ "ep" \notin Name
    /\ Master \in Part /\ Workers \in Nat \ {0}
    /\ App \subseteq Player
    /\ MaxPosition \in Nat /\ MaxRecoveries \in Nat

VARIABLES which, x1, x2, x3, x4, x5, x6, x7, x8

xs == <<x1, x2, x3, x4, x5, x6, x7, x8>>

Web == INSTANCE WebSignIn WITH
         Load <- Handler,
         form <- x1, store <- x2, account <- x3, cookie <- x4, me <- x5,
         load <- x6, call <- x7, kept <- x8
Editor == INSTANCE TitleEditor WITH
         Empty <- NoText,
         row <- x1, form <- x2, request <- x3, save <- x4, upload <- x5, current <- x6
Settings == INSTANCE SettingsPage WITH
         row <- x1, form <- x2, request <- x3, chosen <- x4, sure <- x5
Offline == INSTANCE Downloads WITH
         Episode <- Video, MaxJobs <- MaxQueued,
         entries <- x1, index <- x2, files <- x3, queue <- x4, inFlight <- x5,
         task <- x6, spoilt <- x7
Bucket == INSTANCE R2Upload WITH
         Tab <- Handler,
         bucket <- x1, ladder <- x2, episode <- x3, upload <- x4, jobs <- x5,
         job <- x6, mixed <- x7
Watch == INSTANCE Bookmark WITH
         bookmark <- x1, reports <- x2, tile <- x3, player <- x4, low <- x5, ghosts <- x6

Zero == x1 = 0 /\ x2 = 0 /\ x3 = 0 /\ x4 = 0 /\ x5 = 0 /\ x6 = 0 /\ x7 = 0 /\ x8 = 0

MCInit ==
    /\ Init
    /\ \/ which = "ingest" /\ Zero
       \/ which = "web" /\ Web!Init
       \/ which = "editor" /\ Editor!Init /\ x7 = 0 /\ x8 = 0
       \/ which = "settings" /\ Settings!Init /\ x6 = 0 /\ x7 = 0 /\ x8 = 0
       \/ which = "offline" /\ Offline!Init /\ x8 = 0
       \/ which = "bucket" /\ Bucket!Init /\ x8 = 0
       \/ which = "watch" /\ Watch!Init /\ x7 = 0 /\ x8 = 0

MCNext ==
    /\ UNCHANGED which
    /\ \/ which = "ingest" /\ Next /\ UNCHANGED xs
       \/ which = "web" /\ Web!Next /\ UNCHANGED vars
       \/ which = "editor" /\ Editor!Next /\ UNCHANGED <<vars, x7, x8>>
       \/ which = "settings" /\ Settings!Next /\ UNCHANGED <<vars, x6, x7, x8>>
       \/ which = "offline" /\ Offline!Next /\ UNCHANGED <<vars, x8>>
       \/ which = "bucket" /\ Bucket!Next /\ UNCHANGED <<vars, x8>>
       \/ which = "watch" /\ Watch!Next /\ UNCHANGED <<vars, x7, x8>>

MCSpec == MCInit /\ [][MCNext]_<<which, vars, xs>>

-----------------------------------------------------------------------------
\* The invariants of the clients: see there for what each one says.

\* Website: who has signed in stays signed in.
LoginStands == which = "web" => Web!LoginStands
\* Title editor: saving what the form shows takes nothing back.
ShownIsStored == which = "editor" => Editor!ShownIsStored
\* Settings page: a tab takes back nothing outside the group it saves.
ChoiceStands == which = "settings" => Settings!ChoiceStands
\* Offline copies: what is listed plays, and is listed once.
ListedOnceAndPlays == which = "offline" => Offline!ListedOnceAndPlays
\* R2: what a ready episode names is there, and all of it.
ServedIsWhole == which = "bucket" => Bucket!ServedIsWhole
\* Watching: the saved position does not fall back by itself.
BookmarkStands == which = "watch" => Watch!BookmarkStands

=============================================================================
