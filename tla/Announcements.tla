--------------------------- MODULE Announcements ----------------------------
(***************************************************************************)
(* The push notification that announces one title: NotificationsService,   *)
(* PushService, the publish that sets it going without waiting for it, and *)
(* the admin's notifications page.                                         *)
(*                                                                         *)
(* An announcement reads the title, the settings, the catalogue mode and   *)
(* the handsets one after the other and sends for seconds; everything it   *)
(* has read may change meanwhile, and so may the flag that says the title  *)
(* has been announced.                                                     *)
(***************************************************************************)
EXTENDS Integers, FiniteSets, Audience

CONSTANTS
    User,          \* accounts
    Subscribers,   \* those with a subscription that has not run out
    Handset,       \* push tokens
    Handler,       \* slots for announcements and broadcasts under way
    PushAudience,  \* AppSettings.pushAudience: "all" or "subscribers"
    MaxRestarts    \* bound of the model

VARIABLES
    title,      \* [exists, published, isTest, notified]
    live,       \* AppSettings.catalogueMode
    account,    \* of each user [tester, early, banned]
    device,     \* the user each handset is registered to, or "gone"
    send,       \* the announcements under way
    stale,      \* history, of each announcement: how often anything above changed since
                \* it read the title (once or more), and whose handsets could open the
                \* title before it changed once
    announced,  \* history: unforced announcements that reached somebody
    restarts

world == <<title, live, account, device>>
vars == <<world, send, stale, announced, restarts>>

Free == [stage |-> "free"]
NoTitle == [exists |-> FALSE, published |-> FALSE, isTest |-> FALSE, notified |-> FALSE]

Unchanged == [changes |-> 0, before |-> {}]

Init ==
    /\ title = NoTitle
    /\ live = FALSE
    /\ account \in [User -> [tester: BOOLEAN, early: BOOLEAN, banned: {FALSE}]]
    /\ device = [d \in Handset |-> "gone"]
    /\ send = [h \in Handler |-> Free]
    /\ stale = [h \in Handler |-> Unchanged]
    /\ announced = 0 /\ restarts = 0

Busy == {h \in Handler : send[h].stage # "free"}

\* The handsets of those who may open a title t in mode m, with accounts a and
\* registrations reg, as far as they are to be told of anything.
OpenersOf(t, m, a, reg) ==
    {d \in Handset :
        /\ reg[d] # "gone" /\ ~a[reg[d]].banned
        /\ PushAudience = "subscribers" => reg[d] \in Subscribers
        /\ MayViewTitle([tester |-> a[reg[d]].tester, early |-> a[reg[d]].early], t, m)}
Openers == OpenersOf(title, live, account, device)

\* The announcement has read something of the world.
Holds(h) == send[h].stage \in {"settings", "tokens", "send"} /\ send[h].what # "broadcast"

Overtake ==
    stale' = [h \in Handler |->
                IF ~Holds(h) THEN stale[h]
                ELSE IF stale[h].changes = 0 THEN [changes |-> 1, before |-> Openers]
                ELSE [changes |-> 2, before |-> {}]]
Change == Overtake /\ UNCHANGED <<send, announced, restarts>>

Flags(u) == [tester |-> account[u].tester, early |-> account[u].early]

-----------------------------------------------------------------------------
(* Editors, admins and handsets                                            *)

\* Bound of the model: one title, whose identifier nobody uses yet.
Create ==
    /\ ~title.exists /\ announced = 0 /\ Busy = {}
    /\ \E test, on \in BOOLEAN :
          title' = [exists |-> TRUE, published |-> on, isTest |-> test, notified |-> FALSE]
    /\ Change /\ UNCHANGED <<live, account, device>>

\* PATCH takes any of the fields, and tells nobody; so does unpublishing.
Update ==
    /\ title.exists
    /\ \E test, on \in BOOLEAN : title' = [title EXCEPT !.isTest = test, !.published = on]
    /\ Change /\ UNCHANGED <<live, account, device>>

Remove ==
    /\ title.exists
    /\ title' = NoTitle
    /\ Change /\ UNCHANGED <<live, account, device>>

SwitchMode ==
    /\ live' = ~live
    /\ Change /\ UNCHANGED <<title, account, device>>

Suspend(u) ==
    /\ account' = [account EXCEPT ![u].banned = TRUE]
    /\ Change /\ UNCHANGED <<title, live, device>>

\* Upsert by token: it is whoever's who registered it last.
Register(d, u) ==
    /\ device' = [device EXCEPT ![d] = u]
    /\ Change /\ UNCHANGED <<title, live, account>>

Unregister(d) ==
    /\ device[d] # "gone" /\ device' = [device EXCEPT ![d] = "gone"]
    /\ Change /\ UNCHANGED <<title, live, account>>

-----------------------------------------------------------------------------
(* announceTitle and broadcast                                             *)

Step(h, next) ==
    /\ send' = [send EXCEPT ![h] = next]
    /\ stale' = IF next.stage \in {"settings", "tokens", "send"} THEN stale
                ELSE [stale EXCEPT ![h] = Unchanged]

Begin(h, what) ==
    /\ send[h].stage = "free"
    /\ send' = [send EXCEPT ![h] = [stage |-> "title", what |-> what]]

\* The announcement is not awaited.
Publish(h) ==
    /\ title.exists
    /\ title' = [title EXCEPT !.published = TRUE]
    /\ Begin(h, "publish") /\ Overtake
    /\ UNCHANGED <<live, account, device, announced, restarts>>

\* "Announce now", be it again.
Resend(h) ==
    /\ title.exists
    /\ Begin(h, "resend")
    /\ UNCHANGED <<world, stale, announced, restarts>>

ReadTitle(h) ==
    /\ send[h].stage = "title"
    /\ Step(h, IF ~title.exists \/ ~title.published
                  \/ (title.notified /\ send[h].what = "publish") THEN Free
               ELSE [stage |-> "settings", what |-> send[h].what,
                     title |-> [isTest |-> title.isTest, published |-> TRUE]])
    /\ UNCHANGED <<world, announced, restarts>>

\* mutant: ordinary viewers are told of whatever is published
MutReadSettings(h) ==
    /\ send[h].stage = "settings"
    /\ Step(h, [stage |-> "tokens", what |-> send[h].what,
                visible |-> [NotifiableAudience(send[h].title, live) EXCEPT
                               !.ordinary = send[h].title.published]])
    /\ UNCHANGED <<world, announced, restarts>>

\* Nothing goes out while push is switched off or has no credential, which is
\* read here and may be changed at any time; otherwise, to which kinds of
\* account.
ReadSettings(h) ==
    /\ send[h].stage = "settings"
    /\ \/ Step(h, Free)
       \/ Step(h, [stage |-> "tokens", what |-> send[h].what,
                   visible |-> NotifiableAudience(send[h].title, live)])
    /\ UNCHANGED <<world, announced, restarts>>

\* A broadcast is about no title: it begins here, and goes to everybody.
Tokens(visible) ==
    {d \in Handset :
        /\ device[d] # "gone" /\ ~account[device[d]].banned
        /\ PushAudience = "subscribers" => device[d] \in Subscribers
        /\ Told(Flags(device[d]), visible)}

Broadcast(h) ==
    /\ send[h].stage = "free"
    /\ Step(h, [stage |-> "send", what |-> "broadcast",
                tokens |-> Tokens([ordinary |-> TRUE, testers |-> TRUE])])
    /\ UNCHANGED <<world, announced, restarts>>

ReadTokens(h) ==
    /\ send[h].stage = "tokens"
    /\ Step(h, [stage |-> "send", what |-> send[h].what, tokens |-> Tokens(send[h].visible)])
    /\ UNCHANGED <<world, announced, restarts>>

\* Firebase takes some, calls some dead and fails the rest; a credential it
\* does not accept reaches nobody.
Send(h) ==
    /\ send[h].stage = "send"
    /\ \E sent, dead \in SUBSET send[h].tokens :
         /\ sent \cap dead = {}
         /\ Step(h, [stage |-> "mark", what |-> send[h].what, sent |-> sent # {}, dead |-> dead])
         /\ announced' = IF sent # {} /\ send[h].what = "publish" THEN announced + 1 ELSE announced
    /\ UNCHANGED <<world, restarts>>

\* By token, whoever has registered it since.
Prune(h) ==
    /\ send[h].stage = "mark" /\ send[h].dead # {}
    /\ device' = [d \in Handset |-> IF d \in send[h].dead THEN "gone" ELSE device[d]]
    /\ send' = [send EXCEPT ![h].dead = {}] /\ Overtake
    /\ UNCHANGED <<title, live, account, announced, restarts>>

\* mutant: the flag is set to what came of this announcement
MutMark(h) ==
    /\ send[h].stage = "mark" /\ send[h].dead = {}
    /\ title' = [title EXCEPT !.notified = send[h].what # "broadcast" /\ send[h].sent /\ title.exists]
    /\ Step(h, Free)
    /\ UNCHANGED <<live, account, device, announced, restarts>>

\* Announced only if somebody got it; a title that has gone cannot be marked.
Mark(h) ==
    /\ send[h].stage = "mark" /\ send[h].dead = {}
    /\ title' = IF send[h].what # "broadcast" /\ send[h].sent /\ title.exists
                THEN [title EXCEPT !.notified = TRUE] ELSE title
    /\ Step(h, Free)
    /\ UNCHANGED <<live, account, device, announced, restarts>>

Restart ==
    /\ restarts < MaxRestarts /\ Busy # {} /\ restarts' = restarts + 1
    /\ send' = [h \in Handler |-> Free] /\ stale' = [h \in Handler |-> Unchanged]
    /\ UNCHANGED <<world, announced>>

-----------------------------------------------------------------------------
Next ==
    \/ Create \/ Update \/ Remove \/ SwitchMode \/ Restart
    \/ \E u \in User : Suspend(u) \/ \E d \in Handset : Register(d, u)
    \/ \E d \in Handset : Unregister(d)
    \/ \E h \in Handler :
          \/ Publish(h) \/ Resend(h) \/ Broadcast(h)
          \/ ReadTitle(h) \/ ReadSettings(h) \/ ReadTokens(h) \/ Send(h) \/ Prune(h) \/ Mark(h)

Spec == Init /\ [][Next]_vars

-----------------------------------------------------------------------------
(* Properties                                                              *)

(***************************************************************************)
(* "an admin toggling publish while fixing artwork does not notify the     *)
(* whole user base repeatedly" (notifications.service.ts:58): however      *)
(* often a title is published, what goes out unasked goes out once; served *)
(* together, or cut off before it is marked, once for each.                *)
(***************************************************************************)
AnnouncementsBounded == announced <= Cardinality(Handler) * (1 + restarts)

(***************************************************************************)
(* "a push that announces a title the tap cannot open is worse than no     *)
(* push at all" (audience.ts:75): those about to be pushed are those who   *)
(* may open the title.  If anything changed once since the announcement    *)
(* read the title - it was edited, the mode switched, an account suspended *)
(* or a handset registered, whichever reading that falls between - they    *)
(* are those who may open it now or those who could before.                *)
(***************************************************************************)
PushedMayOpen ==
    \A h \in Handler : send[h].stage = "send" /\ send[h].what # "broadcast" =>
        /\ stale[h].changes = 0 => send[h].tokens = Openers
        /\ stale[h].changes = 1 => send[h].tokens \in {stale[h].before, Openers}

-----------------------------------------------------------------------------
(* Inductive invariant                                                     *)

What == {"publish", "resend", "broadcast"}
Sending ==
    {Free} \cup [stage: {"title"}, what: What]
    \cup [stage: {"settings"}, what: What, title: [isTest: BOOLEAN, published: BOOLEAN]]
    \cup [stage: {"tokens"}, what: What, visible: [ordinary: BOOLEAN, testers: BOOLEAN]]
    \cup [stage: {"send"}, what: What, tokens: SUBSET Handset]
    \cup [stage: {"mark"}, what: What, sent: BOOLEAN, dead: SUBSET Handset]

TypeOK ==
    /\ title \in [exists: BOOLEAN, published: BOOLEAN, isTest: BOOLEAN, notified: BOOLEAN]
    /\ live \in BOOLEAN
    /\ account \in [User -> [tester: BOOLEAN, early: BOOLEAN, banned: BOOLEAN]]
    /\ device \in [Handset -> User \cup {"gone"}]
    /\ send \in [Handler -> Sending]
    /\ stale \in [Handler -> [changes: 0..2, before: SUBSET Handset]]
    /\ announced \in Nat /\ restarts \in Nat

\* What an announcement carries comes of one world, [title, mode, accounts,
\* registrations], ...
Seen(t) == [isTest |-> t.isTest, published |-> t.published]
Carries(s, t, m, a, reg) ==
    /\ s.stage = "settings" => s.title = Seen(t)
    /\ s.stage = "tokens" => s.visible = NotifiableAudience(t, m)
    /\ s.stage = "send" => s.tokens = OpenersOf(t, m, a, reg)

\* ... of the present one, or of it and one before it that differs in one part.
OneApart(t, m, a, reg) ==
    \/ m = live /\ a = account /\ reg = device
    \/ t = Seen(title) /\ a = account /\ reg = device
    \/ t = Seen(title) /\ m = live /\ reg = device
    \/ t = Seen(title) /\ m = live /\ a = account
Before(h, t, m, a, reg) ==
    /\ OneApart(t, m, a, reg)
    /\ stale[h].before = OpenersOf(t, m, a, reg)
    /\ Carries(send[h], t, m, a, reg) \/ Carries(send[h], title, live, account, device)

Worlds == [title: [isTest: BOOLEAN, published: BOOLEAN], live: BOOLEAN,
           account: [User -> [tester: BOOLEAN, early: BOOLEAN, banned: BOOLEAN]],
           device: [Handset -> User \cup {"gone"}]]
Sound(h) ==
    /\ ~Holds(h) => stale[h] = Unchanged
    /\ Holds(h) /\ stale[h].changes = 0 => Carries(send[h], title, live, account, device)
    /\ Holds(h) /\ stale[h].changes = 1 =>
          \E w \in Worlds : Before(h, w.title, w.live, w.account, w.device)
CarriesTheWorld == \A h \in Handler : Sound(h)

\* The publishes that found the title unannounced and have not reached anybody,
\* and those that have and are not marked: while the title can be announced at
\* all, every announcement since the last restart is of the second kind.
Undecided(s) == s.stage \in {"settings", "tokens", "send"} /\ s.what = "publish"
Delivered(s) == s.stage = "mark" /\ s.what = "publish" /\ s.sent
OnTheWay == {h \in Handler : Undecided(send[h])}
Unmarked == {h \in Handler : Delivered(send[h])}
AnnouncementsCounted ==
    /\ announced + Cardinality(OnTheWay) <= Cardinality(Handler) * (1 + restarts)
    /\ title.exists /\ ~title.notified =>
          announced <= Cardinality(Handler) * restarts + Cardinality(Unmarked)

IInv == TypeOK /\ CarriesTheWorld /\ AnnouncementsCounted

=============================================================================
