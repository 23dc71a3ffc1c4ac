--------------------------- MODULE RefreshRotation ---------------------------
(***************************************************************************)
(* One signed-in session and the browser (or handset) that holds it: the   *)
(* rotating refresh token of AuthService.refresh, together with the two    *)
(* places the client keeps its copy of that token.                         *)
(*                                                                         *)
(* The backend is one Node process, so a handler is interleaved with the   *)
(* others at every await.  /auth/refresh awaits three times: it reads the  *)
(* session row (findSessionForToken), then - if the token is current - it  *)
(* reads the row AGAIN (issueTokenPair), then writes it.  Each of those is *)
(* a step here, and what an earlier one read is kept in the request.       *)
(*                                                                         *)
(* Tokens are identities.  A secret is 256 random bits, so a token that    *)
(* nobody holds any longer may stand for the next one minted: the model    *)
(* is finite without a bound on the number of refreshes.                   *)
(***************************************************************************)
EXTENDS Naturals, FiniteSets

CONSTANTS
    Tab,          \* browser tabs (a handset is one tab)
    Request,      \* slots for /auth/refresh calls in flight
    Token,        \* tokens in the lookup.secret format
    LegacyToken,  \* a token issued before refreshLookup existed
    None,         \* no token, no call (null)
    Refused,      \* the answer 401
    Allowed       \* the environment faults this instance admits, see below

(***************************************************************************)
(* "late"   a call the client gave up on still reaches, or is still being  *)
(*          served by, the backend                                         *)
(* "lapse"  REFRESH_GRACE_MS passes                                        *)
(* "purge"  Safari empties localStorage and leaves the cookie              *)
(* "legacy" the session starts out holding a token without a lookup half   *)
(***************************************************************************)
Fault == {"late", "lapse", "purge", "legacy"}

ASSUME AllowedAssumption == Allowed \subseteq Fault
ASSUME TokenAssumption ==
    /\ LegacyToken \notin Token
    /\ None \notin Token \cup {LegacyToken} \cup Request
    /\ Refused \notin Token \cup {LegacyToken, None}

VARIABLES
    session,   \* the row in the sessions table
    suspended, \* users.status is not 'active'
    req,       \* the refresh calls in flight, each with its handler's locals
    wait,      \* the call each tab's refreshInFlight promise stands for
    stale,     \* the tab's access token has lapsed: its next call gets a 401
    store,     \* localStorage / keychain copy of the refresh token
    cookie,    \* the httpOnly copy, set by response headers
    ended,     \* history: someone ended the session or suspended the account
    parked     \* history: the grace lapsed on a client still holding `prev`

vars == <<session, suspended, req, wait, stale, store, cookie, ended, parked>>
clientVars == <<wait, stale, store, cookie>>
historyVars == <<ended, parked>>

AnyToken == Token \cup {LegacyToken}
MaybeToken == AnyToken \cup {None}

Session == [ cur: AnyToken,        \* refreshHash
             prev: MaybeToken,     \* prevRefreshHash
             fresh: BOOLEAN,       \* prevRefreshAt is within REFRESH_GRACE_MS
             hasLookup: BOOLEAN,   \* refreshLookup is not null
             revoked: BOOLEAN ]    \* revokedAt is not null

Stage == {"free", "sent", "matched", "rotating", "rewinding", "replayed",
          "answered", "arrived"}

\* val is the handler's one local that outlives an await: the refreshHash
\* issueTokenPair read while "rotating", then the answer.
Call == [stage: Stage, tok: MaybeToken, val: MaybeToken \cup {Refused}]

\* A request slot nobody is using.
FreeCall == [stage |-> "free", tok |-> None, val |-> None]

TypeOK ==
    /\ session \in Session
    /\ suspended \in BOOLEAN
    /\ req \in [Request -> Call]
    /\ wait \in [Tab -> Request \cup {None}]
    /\ stale \in [Tab -> BOOLEAN]
    /\ store \in MaybeToken
    /\ cookie \in MaybeToken
    /\ ended \in BOOLEAN
    /\ parked \in BOOLEAN

(***************************************************************************)
(* The session has just been issued and stored.                            *)
(***************************************************************************)
Init ==
    /\ \E t \in (IF "legacy" \in Allowed THEN AnyToken ELSE Token) :
        /\ session = [cur |-> t, prev |-> None, fresh |-> FALSE,
                      hasLookup |-> t # LegacyToken, revoked |-> FALSE]
        /\ store = t
        /\ cookie = IF t = LegacyToken THEN None ELSE t
    /\ suspended = FALSE
    /\ req = [r \in Request |-> FreeCall]
    /\ wait = [t \in Tab |-> None]
    /\ stale = [t \in Tab |-> FALSE]
    /\ ended = FALSE
    /\ parked = FALSE

-----------------------------------------------------------------------------
(* Helpers                                                                 *)

At(r, stage) == req[r].stage = stage

\* Call r moves on to a stage, its handler holding v.
Move(r, s, v) == req' = [req EXCEPT ![r] = [stage |-> s, tok |-> req[r].tok, val |-> v]]
Free(r) == req' = [req EXCEPT ![r] = FreeCall]

\* Somebody still waits for the call.
Awaited(r) == \E t \in Tab : wait[t] = r

\* Every token some party could still present or be given.
InUse == {session.cur, session.prev, store, cookie}
            \cup UNION {{req[r].tok, req[r].val} : r \in Request}

\* findSessionForToken: by lookup when the token has one, else a scan of the
\* sessions without a lookup comparing the current hash only.
Finds(tok) ==
    /\ ~session.revoked
    /\ IF tok = LegacyToken
       THEN ~session.hasLookup /\ session.cur = tok
       ELSE session.hasLookup

\* The `prev` arm of refresh.
InGrace(tok) == session.prev = tok /\ session.fresh

\* The token would be accepted if it were presented now.
Redeemable(tok) == Finds(tok) /\ (tok = session.cur \/ InGrace(tok))

-----------------------------------------------------------------------------
(* The backend: POST /auth/refresh                                         *)

\* The session is not found, or the account may not sign in: 401.
RefuseRefresh(r) ==
    /\ At(r, "sent")
    /\ ~Finds(req[r].tok) \/ suspended
    /\ Move(r, "answered", Refused)
    /\ UNCHANGED <<session, suspended, clientVars, historyVars>>

MutMatchWithoutGrace(r) ==   \* mutant: the `prev` arm is dropped
    /\ At(r, "sent")
    /\ Finds(req[r].tok) /\ ~suspended
    /\ \/ req[r].tok = session.cur /\ Move(r, "matched", None)
       \/ req[r].tok # session.cur /\ Move(r, "replayed", None)
    /\ UNCHANGED <<session, suspended, clientVars, historyVars>>

\* The row is read and the token compared with what was read.
MatchToken(r) ==
    /\ At(r, "sent")
    /\ Finds(req[r].tok) /\ ~suspended
    /\ \/ req[r].tok = session.cur /\ Move(r, "matched", None)
       \/ req[r].tok # session.cur /\ InGrace(req[r].tok) /\ Move(r, "rewinding", None)
       \/ ~Redeemable(req[r].tok) /\ Move(r, "replayed", None)
    /\ UNCHANGED <<session, suspended, clientVars, historyVars>>

\* issueTokenPair reads the row a second time.
ReadCurrent(r) ==
    /\ At(r, "matched")
    /\ Move(r, "rotating", session.cur)
    /\ UNCHANGED <<session, suspended, clientVars, historyVars>>

MutRotateForgetsPrevious(r) ==   \* mutant: the outgoing token is not retained
    /\ At(r, "rotating")
    /\ \E t \in Token \ InUse :
        /\ session' = [session EXCEPT !.cur = t, !.prev = None, !.fresh = FALSE,
                                      !.hasLookup = TRUE]
        /\ Move(r, "answered", t)
    /\ UNCHANGED <<suspended, clientVars, historyVars>>

MutRotateWritesRow(r) ==   \* mutant: the whole row as first read is written back
    /\ At(r, "rotating")
    /\ \E t \in Token \ InUse :
        /\ session' = [session EXCEPT !.cur = t, !.prev = req[r].val, !.fresh = TRUE,
                                      !.hasLookup = TRUE, !.revoked = FALSE]
        /\ Move(r, "answered", t)
    /\ UNCHANGED <<suspended, clientVars, historyVars>>

\* ... and writes a new secret, keeping what it READ as the previous one.
Rotate(r) ==
    /\ At(r, "rotating")
    /\ \E t \in Token \ InUse :
        /\ session' = [session EXCEPT !.cur = t, !.prev = req[r].val,
                                      !.fresh = TRUE, !.hasLookup = TRUE]
        /\ Move(r, "answered", t)
    /\ UNCHANGED <<suspended, clientVars, historyVars>>

MutRewindWithoutAdopting(r) ==   \* mutant: reissued but not made current
    /\ At(r, "rewinding")
    /\ session' = [session EXCEPT !.prev = None, !.fresh = FALSE]
    /\ Move(r, "answered", req[r].tok)
    /\ UNCHANGED <<suspended, clientVars, historyVars>>

\* The token is the one just replaced: it becomes current again.
Rewind(r) ==
    /\ At(r, "rewinding")
    /\ session' = [session EXCEPT !.cur = req[r].tok, !.prev = None, !.fresh = FALSE]
    /\ Move(r, "answered", req[r].tok)
    /\ UNCHANGED <<suspended, clientVars, historyVars>>

\* The token is neither: the session is taken for stolen and revoked.
RevokeReplayed(r) ==
    /\ At(r, "replayed")
    /\ session' = [session EXCEPT !.revoked = TRUE]
    /\ Move(r, "answered", Refused)
    /\ UNCHANGED <<suspended, clientVars, historyVars>>

Serve(r) ==
    \/ RefuseRefresh(r) \/ MatchToken(r) \/ ReadCurrent(r)
    \/ Rotate(r) \/ Rewind(r) \/ RevokeReplayed(r)

\* pm2 restarts the process: handlers in progress are gone, and the tabs
\* waiting for them see a network failure.
InHandler == {"matched", "rotating", "rewinding", "replayed"}
Restart ==
    /\ \E r \in Request : req[r].stage \in InHandler
    /\ req' = [r \in Request |-> IF req[r].stage \in InHandler THEN FreeCall ELSE req[r]]
    /\ wait' = [t \in Tab |->
                  IF wait[t] # None /\ req[wait[t]].stage \in InHandler
                  THEN None ELSE wait[t]]
    /\ UNCHANGED <<session, suspended, stale, store, cookie, historyVars>>

-----------------------------------------------------------------------------
(* The client: refreshAccessToken, setTokens, clearTokens                  *)

\* The body carries the stored token; with nothing stored the controller
\* falls back on the cookie.
Credential == IF store # None THEN store ELSE cookie

AccessTokenLapses(t) ==
    /\ stale' = [stale EXCEPT ![t] = TRUE]
    /\ ~stale[t]
    /\ UNCHANGED <<session, suspended, req, wait, store, cookie, historyVars>>

\* One refresh in flight per tab: each tab has its own refreshInFlight.
AskForTokens(t) ==
    /\ stale[t] /\ wait[t] = None /\ Credential # None
    /\ \E r \in Request :
        /\ At(r, "free")
        /\ req' = [req EXCEPT ![r] = [stage |-> "sent", tok |-> Credential, val |-> None]]
        /\ wait' = [wait EXCEPT ![t] = r]
    /\ UNCHANGED <<session, suspended, stale, store, cookie, historyVars>>

\* The headers of a 2xx arrive and the browser applies Set-Cookie ...
ReceiveHeaders(t) ==
    /\ wait[t] # None /\ At(wait[t], "answered") /\ req[wait[t]].val # Refused
    /\ cookie' = req[wait[t]].val
    /\ Move(wait[t], "arrived", req[wait[t]].val)
    /\ UNCHANGED <<session, suspended, wait, stale, store, historyVars>>

\* ... then the script reads the body and stores the pair.
StoreTokens(t) ==
    /\ wait[t] # None /\ At(wait[t], "arrived")
    /\ store' = req[wait[t]].val
    /\ stale' = [stale EXCEPT ![t] = FALSE]
    /\ Free(wait[t])
    /\ wait' = [wait EXCEPT ![t] = None]
    /\ UNCHANGED <<session, suspended, cookie, historyVars>>

MutKeepRefusedTokens(t) ==   \* mutant: a refusal is treated like an outage
    /\ wait[t] # None /\ At(wait[t], "answered") /\ req[wait[t]].val = Refused
    /\ Free(wait[t])
    /\ wait' = [wait EXCEPT ![t] = None]
    /\ UNCHANGED <<session, suspended, stale, store, cookie, historyVars>>

\* A 401 clears localStorage; only the server may end a session.
ClearTokens(t) ==
    /\ wait[t] # None /\ At(wait[t], "answered") /\ req[wait[t]].val = Refused
    /\ store' = None
    /\ Free(wait[t])
    /\ wait' = [wait EXCEPT ![t] = None]
    /\ UNCHANGED <<session, suspended, stale, cookie, historyVars>>

\* Timeout, network failure, closed tab: nothing is cleared.  Without "late"
\* the call was lost on its way in, or served completely and the answer lost.
GiveUp(t) ==
    /\ wait[t] # None
    /\ wait' = [wait EXCEPT ![t] = None]
    /\ \/ /\ req[wait[t]].stage \in {"sent", "answered", "arrived"}
          /\ Free(wait[t])
       \/ /\ "late" \in Allowed
          /\ req[wait[t]].stage \notin {"answered", "arrived"}
          /\ UNCHANGED req
    /\ UNCHANGED <<session, suspended, stale, store, cookie, historyVars>>

\* The answer to a call nobody waits for goes nowhere.
DropAnswer(r) ==
    /\ At(r, "answered") /\ ~Awaited(r)
    /\ Free(r)
    /\ UNCHANGED <<session, suspended, clientVars, historyVars>>

Purge ==
    /\ "purge" \in Allowed /\ store # None
    /\ \A t \in Tab : wait[t] = None
    /\ store' = None
    /\ UNCHANGED <<session, suspended, req, wait, stale, cookie, historyVars>>

-----------------------------------------------------------------------------
(* Time and people                                                         *)

\* REFRESH_GRACE_MS after the last rotation.
GraceLapses ==
    /\ "lapse" \in Allowed /\ session.fresh
    /\ session' = [session EXCEPT !.fresh = FALSE]
    /\ parked' = (parked \/ Credential = session.prev)
    /\ UNCHANGED <<suspended, req, clientVars, ended>>

\* POST /auth/logout with a live access token.
Logout(t) ==
    /\ ~stale[t] /\ wait[t] = None /\ store # None
    /\ session' = [session EXCEPT !.revoked = TRUE]
    /\ store' = None /\ cookie' = None /\ ended' = TRUE
    /\ UNCHANGED <<suspended, req, wait, stale, parked>>

\* The logout call fails; the page forgets its tokens all the same, but the
\* cookie is out of its reach and the session lives on.
LogoutUnheard(t) ==
    /\ wait[t] = None /\ store # None
    /\ store' = None /\ ended' = TRUE
    /\ UNCHANGED <<session, suspended, req, wait, stale, cookie, parked>>

\* DELETE /auth/sessions/:id from another device, or the device cap.
EndElsewhere ==
    /\ ~session.revoked
    /\ session' = [session EXCEPT !.revoked = TRUE]
    /\ ended' = TRUE
    /\ UNCHANGED <<suspended, req, clientVars, parked>>

\* An administrator suspends the account, or reinstates it.
SetSuspended(b) ==
    /\ suspended # b
    /\ suspended' = b
    /\ ended' = TRUE
    /\ UNCHANGED <<session, req, clientVars, parked>>

-----------------------------------------------------------------------------
Next ==
    \/ \E r \in Request : Serve(r) \/ DropAnswer(r)
    \/ \E t \in Tab : \/ AccessTokenLapses(t) \/ AskForTokens(t)
                      \/ ReceiveHeaders(t) \/ StoreTokens(t) \/ ClearTokens(t)
                      \/ GiveUp(t) \/ Logout(t) \/ LogoutUnheard(t)
    \/ Restart \/ Purge \/ GraceLapses \/ EndElsewhere
    \/ \E b \in BOOLEAN : SetSuspended(b)

Spec == Init /\ [][Next]_vars

\* Node runs a handler to its end unless the process dies; a call that is
\* retried is not for ever killed, or given up on, at the same await; the
\* client asks again while its access token is stale; a network that keeps
\* being tried lets an answer through in the end.
Fairness ==
    /\ \A r \in Request :
        /\ WF_vars(Serve(r)) /\ WF_vars(DropAnswer(r))
        /\ SF_vars(Awaited(r) /\ RefuseRefresh(r))
        /\ SF_vars(Awaited(r) /\ MatchToken(r))
        /\ SF_vars(Awaited(r) /\ ReadCurrent(r))
        /\ SF_vars(Awaited(r) /\ Rotate(r))
        /\ SF_vars(Awaited(r) /\ Rewind(r))
        /\ SF_vars(Awaited(r) /\ RevokeReplayed(r))
    /\ \A t \in Tab : /\ WF_vars(AskForTokens(t))
                      /\ SF_vars(ReceiveHeaders(t))
                      /\ SF_vars(StoreTokens(t))
                      /\ SF_vars(ClearTokens(t))

FairSpec == Spec /\ Fairness

-----------------------------------------------------------------------------
(* Properties                                                              *)

(***************************************************************************)
(* The replay arm of refresh never fires on the session's own client: a    *)
(* session is revoked only because somebody ended it, or because the       *)
(* client sat on a replaced token for longer than the grace window.        *)
(* ("a legitimate client cannot reach this state", auth.service.ts:544)    *)
(***************************************************************************)
NeverMistakenForReplay == session.revoked => ended \/ parked

(***************************************************************************)
(* Whatever answer was lost on the way, the token an idle client would     *)
(* present next is one the backend accepts: retaining the outgoing token   *)
(* leaves no client stranded.  (issueTokenPair, auth.service.ts:613)       *)
(***************************************************************************)
ClientNotStranded ==
    (\A t \in Tab : wait[t] = None) => ended \/ parked \/ Redeemable(Credential)

(***************************************************************************)
(* Why the two hold for a single client whose calls are served or lost as  *)
(* a whole: until the session is ended (or the client is parked past the   *)
(* grace) its stored token is the current one or the one in grace, and     *)
(* whatever the one call in flight has read is still so.                   *)
(***************************************************************************)
CallSound(c) ==
    /\ c.stage # "replayed"
    /\ c.stage \in {"sent", "matched", "rotating", "rewinding"} => c.tok = store
    /\ c.stage \in {"matched", "rotating"} => store = session.cur
    /\ c.stage = "rotating" => c.val = session.cur
    /\ c.stage = "rewinding" => store = session.prev
    /\ c.stage \in {"answered", "arrived"} => c.val = session.cur

TokenHeld ==
    /\ ~session.revoked /\ ~suspended /\ session.hasLookup
    /\ session.cur \in Token /\ store \in Token
    /\ store = session.cur \/ InGrace(store)
    /\ \A r \in Request : CallSound(req[r])

ClientSound == ended \/ parked \/ TokenHeld

NoOrphanCall == \A r \in Request : ~At(r, "free") => \E t \in Tab : wait[t] = r

\* A call in flight presents a token; what a rotation read, and what a tab
\* takes off the wire to store, is a token and not a refusal.
CallTyped ==
    \A r \in Request :
        /\ ~At(r, "free") => req[r].tok \in AnyToken
        /\ req[r].stage \in {"rotating", "arrived"} => req[r].val # Refused

IInv == TypeOK /\ CallTyped /\ NoOrphanCall /\ ClientSound

(***************************************************************************)
(* A refresh that matched its token before the session was ended finishes  *)
(* afterwards: its write must not bring the session back to life.          *)
(***************************************************************************)
RevocationIsFinal == [][session.revoked => session'.revoked]_session

(***************************************************************************)
(* A client whose access token lapsed gets a new one, unless its session   *)
(* was ended: losses delay a refresh and never defeat it.                  *)
(***************************************************************************)
RefreshSucceeds ==
    \A t \in Tab : stale[t] ~> (~stale[t] \/ ended \/ parked)

(***************************************************************************)
(* Whatever faults occur, a tab whose access token lapsed does not go on   *)
(* asking forever: it is renewed, or told it is signed out.                *)
(***************************************************************************)
RefreshSettles ==
    \A t \in Tab : stale[t] ~> (~stale[t] \/ store = None)

=============================================================================
