------------------------------ MODULE WebSignIn ------------------------------
(***************************************************************************)
(* A browser tab that signs in: the login form (LoginForm), the provider   *)
(* of `me` (AuthProvider), the stored tokens and their refresh (lib/auth,  *)
(* apiFetch).  A pair of tokens is named by its session; what a rotation   *)
(* does to it is in RefreshRotation.  Each answer arrives as a step of its *)
(* own, and what waits for none of them goes on meanwhile: loads of `me`   *)
(* retry from a timer, and the one refresh is shared.                      *)
(***************************************************************************)
EXTENDS Integers

CONSTANTS
    Load,         \* slots for runs of attemptLoad
    MaxSessions,  \* bound: sessions the account gets
    MaxAttempts   \* runs of attemptLoad before it gives up

VARIABLES
    form,     \* the login page: [step, busy, pending]; step "gone" is any other page
    store,    \* localStorage: [s, fresh]; s is 0 without tokens, fresh the access token
    account,  \* the server: [made, ended, pinSet]; the cookie is the browser's
    cookie,   \* the session of the httpOnly cookie, or 0
    me,       \* [is, leaving]: is "unknown" (checking), "in" or "out"; leaving is the
              \* session whose POST /auth/logout is under way, or 0
    load,     \* [at, n, fresh, login] for each slot
    call,     \* the refresh in flight: [on, sent, refused, late]
    kept      \* history: the session last signed in to here, 0 once it may be lost

vars == <<form, store, account, cookie, me, load, call, kept>>

Nothing == [s |-> 0, fresh |-> FALSE]
NoLoad == [at |-> "idle", n |-> 0, fresh |-> FALSE, login |-> FALSE]
NoCall == [on |-> FALSE, sent |-> 0, refused |-> FALSE, late |-> FALSE]
FreshForm == [step |-> "phone", busy |-> "no", pending |-> 0]
Gone == [step |-> "gone", busy |-> "no", pending |-> 0]

\* A visitor with or without an old session, which may have been ended.
Init ==
    /\ \E e \in SUBSET {1}, c \in {0, 1}, f \in BOOLEAN, p \in BOOLEAN :
        /\ account = [made |-> 1, ended |-> e, pinSet |-> p]
        /\ cookie = c
        /\ store \in {Nothing, [s |-> c, fresh |-> f /\ c = 1]}
    /\ form \in {FreshForm, Gone}
    /\ me = [is |-> "unknown", leaving |-> 0]
    /\ \E l \in Load : load = [[k \in Load |-> NoLoad] EXCEPT ![l].at = "start"]
    /\ call = NoCall
    /\ kept = 0

-----------------------------------------------------------------------------
(* refreshAccessToken                                                      *)

\* One refresh at a time.  The stored token goes with it, the cookie without.
Begin == IF call.on THEN call
         ELSE LET t == IF store.s # 0 THEN store.s ELSE cookie
              IN [on |-> TRUE, sent |-> t, refused |-> t \in account.ended \cup {0},
                  late |-> FALSE]

\* mutant: whatever is not OK ends the session, a restart of the server too
MutClears(refused) == TRUE

\* Only a refusal empties the store.
Clears(refused) == refused

\* Who waited goes on: a first request asks for `me`, a repeated one is sent
\* again.  apiFetch, given nothing, tells an outage from a refusal by
\* whether tokens are still stored.
Resumed(l, granted, left) ==
    LET r == load[l]
    IN CASE r.at \in {"first", "again"} /\ granted ->
                [r EXCEPT !.at = IF r.at = "first" THEN "me" ELSE "retry", !.fresh = TRUE]
         [] r.at = "first" /\ ~granted -> [r EXCEPT !.at = "out"]
         [] r.at = "again" /\ ~granted -> [r EXCEPT !.at = IF left THEN "failed" ELSE "refused"]
         [] OTHER -> r

\* A logout that waited is sent again with the new tokens.
Granted ==
    /\ call.on /\ ~call.refused
    /\ store' = [s |-> call.sent, fresh |-> TRUE]
    /\ cookie' = call.sent
    /\ load' = [l \in Load |-> Resumed(l, TRUE, TRUE)]
    /\ kept' = IF call.late THEN 0 ELSE kept
    /\ call' = NoCall
    /\ \/ UNCHANGED me
       \/ me.leaving # 0 /\ me' = [me EXCEPT !.leaving = call.sent]
    /\ UNCHANGED <<form, account>>

\* A refusal, or no answer, a proxy's 502, a restart.
NotGranted(refused) ==
    /\ call.on
    /\ refused => call.sent \in account.ended \cup {0}
    /\ store' = IF Clears(refused) THEN Nothing ELSE store
    /\ load' = [l \in Load |-> Resumed(l, FALSE, store'.s # 0)]
    /\ kept' = IF refused /\ call.late THEN 0 ELSE kept
    /\ call' = NoCall
    /\ UNCHANGED <<form, account, cookie, me>>

\* Any page's request may meet an expired access token.
AnyPage ==
    /\ ~call.on /\ store.s # 0 /\ ~store.fresh
    /\ call' = Begin
    /\ UNCHANGED <<form, store, account, cookie, me, load, kept>>

-----------------------------------------------------------------------------
(* attemptLoad                                                             *)

At(l, stage) == load[l].at = stage
To(l, stage) == load' = [load EXCEPT ![l].at = stage]

\* A run's promise resolves when it is over or waits for its timer; the
\* login that awaits it then leaves the page.
Resolve(l, r) ==
    /\ load' = [load EXCEPT ![l] = r]
    /\ form' = IF load[l].login THEN Gone ELSE form

Start(l) ==
    /\ At(l, "start")
    /\ IF store.s # 0
       THEN load' = [load EXCEPT ![l].at = "me", ![l].fresh = store.fresh] /\ UNCHANGED call
       ELSE To(l, "first") /\ call' = Begin
    /\ UNCHANGED <<form, store, account, cookie, me, kept>>

\* 401: the access token has expired.
Expired(l) ==
    /\ At(l, "me") /\ ~load[l].fresh
    /\ To(l, "again")
    /\ call' = Begin
    /\ UNCHANGED <<form, store, account, cookie, me, kept>>

Known(l) ==
    /\ At(l, "retry") \/ (At(l, "me") /\ load[l].fresh)
    /\ me' = [me EXCEPT !.is = "in"]
    /\ Resolve(l, NoLoad)
    /\ UNCHANGED <<store, account, cookie, call, kept>>

\* Nothing to recover from; or the server refused, and still nothing is stored
\* when the catch looks: clearStoredTokens has nothing left to clear.
Unknown(l) ==
    /\ At(l, "out") \/ (At(l, "refused") /\ store.s = 0)
    /\ me' = [me EXCEPT !.is = "out"]
    /\ Resolve(l, NoLoad)
    /\ UNCHANGED <<store, account, cookie, call, kept>>

\* An outage, however it showed: again in five seconds, then no more.
Fail(l) ==
    /\ load[l].at \in {"me", "retry", "failed"} \/ (At(l, "refused") /\ store.s # 0)
    /\ IF load[l].n + 1 < MaxAttempts
       THEN /\ Resolve(l, [NoLoad EXCEPT !.at = "timer", !.n = load[l].n + 1])
            /\ UNCHANGED me
       ELSE /\ Resolve(l, NoLoad)
            /\ me' = [me EXCEPT !.is = "out"]
    /\ UNCHANGED <<store, account, cookie, call, kept>>

Timer(l) ==
    /\ At(l, "timer")
    /\ To(l, "start")
    /\ UNCHANGED <<form, store, account, cookie, me, call, kept>>

-----------------------------------------------------------------------------
(* The login form                                                          *)

Step(s, b) == form' = [form EXCEPT !.step = s, !.busy = b]
FormOnly == UNCHANGED <<store, account, cookie, me, load, call, kept>>
Ready(s) == form.step = s /\ form.busy = "no"

Submit ==
    /\ \/ Ready("phone") /\ Step("phone", "method")
       \/ Ready("pin") /\ (Step("pin", "pin") \/ Step("pin", "code"))
       \/ Ready("code") /\ Step("code", "verify")
       \/ Ready("set-pin") /\ Step("set-pin", "savePin")
    /\ FormOnly

\* "I already have a code" asks nobody, not even whether the form is busy.
HaveCode ==
    /\ form.step = "phone"
    /\ Step("code", form.busy)
    /\ FormOnly

MethodIs ==
    /\ form.busy = "method"
    /\ IF account.pinSet THEN Step("pin", "no") ELSE Step(form.step, "code")
    /\ FormOnly

CodeSent == form.busy = "code" /\ Step("code", "no") /\ FormOnly

\* Refused, or nobody answered: an error is shown.
Refused == form.busy \notin {"no", "login"} /\ Step(form.step, "no") /\ FormOnly

\* login: store the tokens, then load `me`.  A refresh still in flight was
\* sent for what was stored before.
Login(l, s, b) ==
    /\ At(l, "idle")
    /\ store' = [s |-> s, fresh |-> TRUE]
    /\ load' = [load EXCEPT ![l] = [NoLoad EXCEPT !.at = "start", !.login = TRUE]]
    /\ call' = [call EXCEPT !.late = call.on]
    /\ form' = [form EXCEPT !.busy = b]
    /\ kept' = IF s \in account.ended THEN 0 ELSE s
    /\ UNCHANGED me

\* The server opens a session and sets the cookie; the tokens are held back
\* from an account without a PIN until it sets one or skips.
SignedIn ==
    /\ account.made < MaxSessions
    /\ LET s == account.made + 1
       IN /\ account' = [account EXCEPT !.made = s]
          /\ cookie' = s
          /\ \/ /\ \/ form.busy = "pin" /\ account.pinSet
                   \/ form.busy = "verify" /\ account.pinSet
                /\ \E l \in Load : Login(l, s, "login")
             \/ /\ form.busy = "verify" /\ ~account.pinSet
                /\ form' = [step |-> "set-pin", busy |-> "no", pending |-> s]
                /\ UNCHANGED <<store, me, load, call, kept>>

PinSaved ==
    /\ form.busy = "savePin"
    /\ account' = [account EXCEPT !.pinSet = TRUE]
    /\ \E l \in Load : Login(l, form.pending, "login")
    /\ UNCHANGED cookie

Skip ==
    /\ Ready("set-pin")
    /\ \E l \in Load : Login(l, form.pending, "no")
    /\ UNCHANGED <<account, cookie>>

-----------------------------------------------------------------------------
(* The rest of the tab                                                     *)

\* Afterwards the home page; a login form that waits for an answer goes on
\* with it even so.
Home == form' = IF form.busy = "no" THEN Gone ELSE form

\* HeaderAuth's button, pressed once.  The tokens stay until the server has
\* answered; without any, nobody is asked.
Logout ==
    /\ me.is = "in" /\ me.leaving = 0
    /\ \/ store.s # 0 /\ me' = [me EXCEPT !.leaving = store.s] /\ UNCHANGED form
       \/ store.s = 0 /\ me' = [me EXCEPT !.is = "out"] /\ Home
    /\ UNCHANGED <<store, account, cookie, load, call, kept>>

\* The server has ended the session and cleared the cookie, or could not be
\* reached.  The tab forgets whatever is stored by now, be it of a sign-in
\* that completed meanwhile.
LoggedOut ==
    /\ me.leaving # 0
    /\ \/ UNCHANGED <<account, cookie>>
       \/ /\ account' = [account EXCEPT !.ended = @ \cup {me.leaving}]
          /\ cookie' = 0
    /\ store' = Nothing
    /\ me' = [is |-> "out", leaving |-> 0]
    /\ kept' = 0
    /\ Home
    /\ UNCHANGED <<load, call>>

Visit ==
    /\ form.step = "gone"
    /\ form' = FreshForm
    /\ FormOnly

\* A reload forgets all but the store and the cookie, a logout too.
Reload ==
    /\ form' \in {FreshForm, Gone}
    /\ me' = [is |-> "unknown", leaving |-> 0]
    /\ \E l \in Load : load' = [[k \in Load |-> NoLoad] EXCEPT ![l].at = "start"]
    /\ call' = NoCall
    /\ UNCHANGED <<store, account, cookie, kept>>

\* Fifteen minutes later.
Expire ==
    /\ store.fresh
    /\ store' = [store EXCEPT !.fresh = FALSE]
    /\ UNCHANGED <<form, account, cookie, me, load, call, kept>>

\* From another device: eviction, revocation.
End(s) ==
    /\ s <= account.made
    /\ account' = [account EXCEPT !.ended = @ \cup {s}]
    /\ kept' = IF kept = s THEN 0 ELSE kept
    /\ UNCHANGED <<form, store, cookie, me, load, call>>

Next ==
    \/ Granted
    \/ \E r \in BOOLEAN : NotGranted(r)
    \/ AnyPage
    \/ \E l \in Load : Start(l) \/ Expired(l) \/ Known(l) \/ Unknown(l) \/ Fail(l) \/ Timer(l)
    \/ Submit \/ HaveCode \/ MethodIs \/ CodeSent \/ Refused \/ SignedIn \/ PinSaved \/ Skip
    \/ Logout \/ LoggedOut \/ Visit \/ Reload \/ Expire
    \/ \E s \in 1..MaxSessions : End(s)

Spec == Init /\ [][Next]_vars

-----------------------------------------------------------------------------
\* Who has signed in stays signed in: until a sign-out is over or the session
\* is ended, the tab keeps its tokens through failed loads, outages, restarts
\* and reloads.  The exceptions are two answers about the session before: of
\* a refresh that was under way when the tokens were stored, which replaces
\* or clears them, and of a logout, after which whatever is stored goes.
LoginStands == kept # 0 => store.s = kept

-----------------------------------------------------------------------------
(* Inductive invariant                                                     *)

TypeOK ==
    /\ form \in [step : {"phone", "pin", "code", "set-pin", "gone"}, pending : Nat,
                busy : {"no", "method", "pin", "code", "verify", "savePin", "login"}]
    /\ store \in [s : Nat, fresh : BOOLEAN]
    /\ account \in [made : Nat, ended : SUBSET Nat, pinSet : BOOLEAN]
    /\ cookie \in Nat
    /\ me \in [is : {"unknown", "in", "out"}, leaving : Nat]
    /\ load \in [Load -> [at : {"idle", "start", "first", "me", "again", "retry", "out", "failed",
                               "refused", "timer"},
                          n : Nat, fresh : BOOLEAN, login : BOOLEAN]]
    /\ call \in [on : BOOLEAN, sent : Nat, refused : BOOLEAN, late : BOOLEAN]
    /\ kept \in Nat

\* The session kept has not ended, and a refresh under way that is not late was
\* sent for it.
KeptLives == kept # 0 => kept \notin account.ended
SentForKept == kept # 0 /\ call.on /\ ~call.late => call.sent = kept

IInv == TypeOK /\ KeptLives /\ SentForKept /\ LoginStands

=============================================================================
