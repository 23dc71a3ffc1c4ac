----------------------------- MODULE Catalogue ------------------------------
(***************************************************************************)
(* The pages that list one title, and who they take their reader for:      *)
(* OptionalJwtGuard, the queries of TitlesService and "my list".           *)
(*                                                                         *)
(* A page is answered in steps: the guard works out an audience from the   *)
(* account's token or from the browser's cookies, the mode is read, and    *)
(* the queries follow; accounts, sessions and titles change in between.    *)
(***************************************************************************)
EXTENDS Audience

CONSTANT User   \* accounts

VARIABLES
    title,    \* [exists, published, isTest]
    live,     \* AppSettings.catalogueMode
    account,  \* of each user [tester, early, banned]
    listed,   \* the users who have the title on their list
    jar,      \* of each user's browser: [session, hint], the two cookies - a session
              \* that counts, one whose token is of the old form, or none; and
              \* whether the hint says "test"
    token,    \* of each user's app: an access token that is "good", "old" or "none"
    page,     \* the page being served
    stale     \* history: something changed since the page was asked for

world == <<title, live, account, jar, token>>
vars == <<world, listed, page, stale>>

Free == [stage |-> "free"]

Init ==
    /\ title \in [exists: {TRUE}, published: BOOLEAN, isTest: BOOLEAN]
    /\ live \in BOOLEAN
    /\ account \in [User -> [tester: BOOLEAN, early: BOOLEAN, banned: {FALSE}]]
    /\ listed = {}
    /\ jar \in [User -> [session: {"none", "legacy"}, hint: BOOLEAN]]
    /\ token = [u \in User |-> "none"]
    /\ page = Free /\ stale = FALSE

Change == stale' = TRUE /\ UNCHANGED page

Flags(u) == [tester |-> account[u].tester, early |-> account[u].early]

-----------------------------------------------------------------------------
(* Admins                                                                  *)

Edit ==
    /\ title.exists
    /\ \E on, test \in BOOLEAN : title' = [title EXCEPT !.published = on, !.isTest = test]
    /\ Change /\ UNCHANGED <<live, account, jar, token, listed>>

Remove ==
    /\ title.exists /\ title' = [title EXCEPT !.exists = FALSE] /\ listed' = {}
    /\ Change /\ UNCHANGED <<live, account, jar, token>>

SwitchMode ==
    /\ live' = ~live
    /\ Change /\ UNCHANGED <<title, account, jar, token, listed>>

Toggle(u) ==
    /\ \E f \in {"tester", "early", "banned"} : account' = [account EXCEPT ![u][f] = ~account[u][f]]
    /\ Change /\ UNCHANGED <<title, live, jar, token, listed>>

-----------------------------------------------------------------------------
(* Browsers and apps                                                       *)

\* A sign-in on the website sets both cookies.
SignIn(u) ==
    /\ ~account[u].banned
    /\ jar' = [jar EXCEPT ![u] = [session |-> "live", hint |-> account[u].tester]]
    /\ Change /\ UNCHANGED <<title, live, account, token, listed>>

\* A refresh gives a session of the old form the new one, and sets the hint to
\* "live" for everybody: its result does not name the user.
Refresh(u) ==
    /\ jar[u].session # "none" /\ ~account[u].banned
    /\ jar' = [jar EXCEPT ![u] = [session |-> "live", hint |-> FALSE]]
    /\ Change /\ UNCHANGED <<title, live, account, token, listed>>

\* Ended from elsewhere, a session leaves its cookies behind, and one of them
\* names nobody ...
EndSession(u) ==
    /\ jar[u].session # "none"
    /\ jar' = [jar EXCEPT ![u].session = "none"]
    /\ Change /\ UNCHANGED <<title, live, account, token, listed>>

\* ... a sign-out clears both.
Logout(u) ==
    /\ ~account[u].banned
    /\ jar' = [jar EXCEPT ![u] = [session |-> "none", hint |-> FALSE]]
    /\ Change /\ UNCHANGED <<title, live, account, token, listed>>

\* The app gets an access token by signing in, and by refreshing once a request
\* was refused ...
Obtain(u) ==
    /\ token[u] # "good" /\ ~account[u].banned
    /\ token' = [token EXCEPT ![u] = "good"]
    /\ Change /\ UNCHANGED <<title, live, account, jar, listed>>

\* ... it holds for 15 minutes ...
Expire(u) ==
    /\ token[u] = "good" /\ token' = [token EXCEPT ![u] = "old"]
    /\ Change /\ UNCHANGED <<title, live, account, jar, listed>>

\* ... and is dropped at a sign-out, or when the refresh is refused.
Forget(u) ==
    /\ token[u] # "none" /\ token' = [token EXCEPT ![u] = "none"]
    /\ Change /\ UNCHANGED <<title, live, account, jar, listed>>

FromHint(u) == [Nobody EXCEPT !.tester = jar[u].hint]

\* mutant: the two-valued hint answers although there is a session to ask
MutAudienceFromCookies(u) == FromHint(u)

\* The account of the session decides, if there is one that counts.  One whose
\* token is of the old form cannot be looked up.
AudienceFromCookies(u) ==
    IF jar[u].session = "live" /\ ~account[u].banned THEN Flags(u) ELSE FromHint(u)

\* canActivate(), which refuses nobody: the app sends the token it has and no
\* cookies, and what has expired is as good as nothing.
AudienceFromToken(u) ==
    IF token[u] = "good" /\ ~account[u].banned THEN Flags(u) ELSE Nobody

Ask(u, by, viewer) ==
    /\ page.stage = "free"
    /\ page' = [stage |-> "mode", user |-> u, by |-> by, viewer |-> viewer]
    /\ stale' = FALSE
    /\ UNCHANGED <<world, listed>>

\* A page of the app; a server-rendered page, which has the cookies alone; and
\* the user's list, which JwtAuthGuard refuses until the token is good.
Visit(u) ==
    \/ Ask(u, "app", AudienceFromToken(u))
    \/ Ask(u, "web", AudienceFromCookies(u))
    \/ token[u] = "good" /\ ~account[u].banned /\ Ask(u, "list", Flags(u))

ReadMode ==
    /\ page.stage = "mode"
    /\ page' = [stage |-> "query", user |-> page.user, by |-> page.by,
                viewer |-> page.viewer, live |-> live]
    /\ UNCHANGED <<world, listed, stale>>

-----------------------------------------------------------------------------
(* The queries, each of which joins the filter to conditions of its own;   *)
(* the title is taken to meet those.                                       *)

\* browse and search, a title's own page, what is similar, the rails of home.
Found == title.exists /\ Admits(AudienceWhere(page.viewer, page.live), title)

\* Once by SQL, and the titles it names once more by the filter.
InTop10 == AudienceSql(page.viewer, page.live, title) /\ Found

OnMyList == page.user \in listed /\ Found

Query ==
    /\ page.stage = "query"
    /\ page' = [stage |-> "shown", user |-> page.user, by |-> page.by,
                rails |-> IF page.by = "list" THEN {OnMyList} ELSE {Found, InTop10}]
    /\ UNCHANGED <<world, listed, stale>>

Leave ==
    /\ page.stage = "shown" /\ page' = Free
    /\ UNCHANGED <<world, listed, stale>>

\* Adding is an upsert and removing takes whatever there is; neither asks
\* whether its user may see the title.
Add(u) ==
    /\ title.exists /\ listed' = listed \cup {u}
    /\ Change /\ UNCHANGED world

Take(u) ==
    /\ listed' = listed \ {u}
    /\ Change /\ UNCHANGED world

-----------------------------------------------------------------------------
Next ==
    \/ Edit \/ Remove \/ SwitchMode
    \/ \E u \in User :
          \/ Toggle(u) \/ Add(u) \/ Take(u)
          \/ SignIn(u) \/ Refresh(u) \/ EndSession(u) \/ Logout(u)
          \/ Obtain(u) \/ Expire(u) \/ Forget(u)
          \/ Visit(u)
    \/ ReadMode \/ Query \/ Leave

Spec == Init /\ [][Next]_vars

-----------------------------------------------------------------------------
(* Property                                                                *)

(***************************************************************************)
(* An account has one catalogue, on the phone and on the website and in    *)
(* every rail: a viewer who is known - a session with a token that can be  *)
(* looked up, an access token that has not expired - is shown the title    *)
(* where titles are shown exactly if the account may view it, and on the   *)
(* viewer's own list exactly if it is there besides, unless something      *)
(* changed since the page was asked for.                                   *)
(* "an Early access account ... was served the test catalogue on the       *)
(* website while the phone app ... correctly showed them everything"       *)
(* (optional-jwt.guard.ts:85).                                             *)
(***************************************************************************)
Known(u) ==
    /\ IF page.by = "web" THEN jar[u].session = "live" ELSE token[u] = "good"
    /\ ~account[u].banned

OneCatalogue ==
    LET u == page.user
        mayView == title.exists /\ MayViewTitle(Flags(u), title, live)
    IN  page.stage = "shown" /\ ~stale /\ Known(u) =>
          page.rails = {mayView /\ (page.by = "list" => u \in listed)}

-----------------------------------------------------------------------------
(* Inductive invariant                                                     *)

TypeOK ==
    /\ title \in [exists: BOOLEAN, published: BOOLEAN, isTest: BOOLEAN]
    /\ live \in BOOLEAN
    /\ account \in [User -> [tester: BOOLEAN, early: BOOLEAN, banned: BOOLEAN]]

\* The page is about an account that still counts.
Identified == page.user \in User /\ Known(page.user)

\* What a page being served has read is still so.
ReadsCurrent ==
    /\ page.stage \in {"mode", "query"} /\ Identified => page.viewer = Flags(page.user)
    /\ page.stage = "query" => page.live = live

Served == page.stage # "free" => page.user \in User

IInv == TypeOK /\ Served /\ (~stale => ReadsCurrent) /\ OneCatalogue

=============================================================================
