----------------------------- MODULE StreamSlots -----------------------------
(***************************************************************************)
(* The concurrent-stream limit of one account: StreamLeaseService, the     *)
(* sessions that hold leases, and the players that keep them alive.        *)
(*                                                                         *)
(* A lease row belongs to a session.  Starting playback counts the OTHER   *)
(* sessions' live leases and then upserts its own: two statements, between *)
(* which other handlers run.  The heartbeat and the release are one        *)
(* statement each.  Time enters only as "more than STALE_AFTER_MS since    *)
(* the last heartbeat": a lease that is "stale" is one the cutoff hides,   *)
(* and one that a heartbeat brought back from there is "revived".          *)
(***************************************************************************)
EXTENDS Integers, FiniteSets

CONSTANTS
    Session,   \* the account's sessions, present and to come
    Handler,   \* slots for /episodes/:id/play calls being served
    Limits,    \* values of AppSettings.maxStreams to consider
    Nobody     \* no session

ASSUME SlotsAssumption ==
    /\ IsFiniteSet(Session) /\ IsFiniteSet(Handler)
    /\ Limits \subseteq Nat
    /\ Nobody \notin Session

VARIABLES
    limit,    \* AppSettings.maxStreams; 0 turns the feature off
    row,      \* the session's row: not yet there, live, revoked
    token,    \* the device holds an access token that has not lapsed
    lease,    \* the session's row in stream_leases; that a live one was
              \* revived is a history, the row does not say so
    player,   \* whether the device has a player open
    beat,     \* a progress report of this session is on its way
    play,     \* the play handlers, each with the session it serves
    evicting, \* sessions issueSession revoked and whose leases it is about to end
    evicted   \* history: the session fell to the device cap

vars == <<limit, row, token, lease, player, beat, play, evicting, evicted>>
accountVars == <<row, token, evicting, evicted>>

FreeHandler == [stage |-> "free", of |-> Nobody]
PlayCall == [stage: {"free", "asked", "counted"}, of: Session \cup {Nobody}]

TypeOK ==
    /\ limit \in Limits
    /\ row \in [Session -> {"absent", "live", "revoked"}]
    /\ token \in [Session -> BOOLEAN]
    /\ lease \in [Session -> {"none", "live", "stale", "revived", "ended"}]
    /\ player \in [Session -> {"away", "watching"}]
    /\ beat \in [Session -> BOOLEAN]
    /\ play \in [Handler -> PlayCall]
    /\ evicting \subseteq Session
    /\ evicted \in [Session -> BOOLEAN]

Init ==
    /\ limit \in Limits
    /\ row = [s \in Session |-> "absent"]
    /\ token = [s \in Session |-> FALSE]
    /\ lease = [s \in Session |-> "none"]
    /\ player = [s \in Session |-> "away"]
    /\ beat = [s \in Session |-> FALSE]
    /\ play = [h \in Handler |-> FreeHandler]
    /\ evicting = {}
    /\ evicted = [s \in Session |-> FALSE]

\* mutant: the cutoff is left out
MutLiveForgetsCutoff == {s \in Session : lease[s] \in {"live", "stale", "revived"}}

\* The leases the cutoff lets through.
Live == {s \in Session : lease[s] \in {"live", "revived"}}

\* Those that were alive all the time since a play call counted and wrote them.
Counted == {s \in Session : lease[s] = "live"}

\* A handler that has passed the count and will write its lease.
Pending == {play[h].of : h \in {g \in Handler : play[g].stage = "counted"}}

-----------------------------------------------------------------------------
(* Starting, keeping and stopping a stream                                 *)

\* JwtAuthGuard admits whoever holds a valid access token.
AskToPlay(h, s) ==
    /\ play[h].stage = "free" /\ token[s]
    /\ play' = [play EXCEPT ![h] = [stage |-> "asked", of |-> s]]
    /\ UNCHANGED <<limit, lease, player, beat, accountVars>>

\* A limit of 0 means unlimited: no lease is taken at all.
PlayUnlimited(h) ==
    /\ play[h].stage = "asked" /\ limit <= 0
    /\ player' = [player EXCEPT ![play[h].of] = "watching"]
    /\ play' = [play EXCEPT ![h] = FreeHandler]
    /\ UNCHANGED <<limit, lease, beat, accountVars>>

MutCountSlots(h) ==   \* mutant: one stream too many is let in
    /\ play[h].stage = "asked" /\ limit > 0
    /\ Cardinality(Live \ {play[h].of}) <= limit
    /\ play' = [play EXCEPT ![h] = [stage |-> "counted", of |-> play[h].of]]
    /\ UNCHANGED <<limit, lease, player, beat, accountVars>>

\* acquire counts the other sessions that are genuinely still watching ...
CountSlots(h) ==
    /\ play[h].stage = "asked" /\ limit > 0
    /\ Cardinality(Live \ {play[h].of}) < limit
    /\ play' = [play EXCEPT ![h] = [stage |-> "counted", of |-> play[h].of]]
    /\ UNCHANGED <<limit, lease, player, beat, accountVars>>

\* ... refuses with 409, and the player shows the message instead ...
RefuseStream(h) ==
    /\ play[h].stage = "asked" /\ limit > 0
    /\ Cardinality(Live \ {play[h].of}) >= limit
    /\ player' = [player EXCEPT ![play[h].of] = "away"]
    /\ play' = [play EXCEPT ![h] = FreeHandler]
    /\ UNCHANGED <<limit, lease, beat, accountVars>>

\* ... or writes the lease, and the player starts.
UpsertLease(h) ==
    /\ play[h].stage = "counted"
    /\ lease' = [lease EXCEPT ![play[h].of] = "live"]
    /\ player' = [player EXCEPT ![play[h].of] = "watching"]
    /\ play' = [play EXCEPT ![h] = FreeHandler]
    /\ UNCHANGED <<limit, beat, accountVars>>

\* A downloaded copy takes no slot and reports its position all the same.
PlayDownload(s) ==
    /\ player[s] = "away" /\ row[s] # "absent"
    /\ player' = [player EXCEPT ![s] = "watching"]
    /\ UNCHANGED <<limit, lease, beat, play, accountVars>>

\* A player reports progress every 15 s while it plays, and as it stops; the
\* page sends nothing while it is paused, the app while it is suspended.
ReportProgress(s) ==
    /\ player[s] = "watching" /\ token[s] /\ ~beat[s]
    /\ beat' = [beat EXCEPT ![s] = TRUE]
    /\ UNCHANGED <<limit, lease, player, play, accountVars>>

\* touch: only where endedAt is null - stale or not, and with no count.
Touch(s) ==
    /\ beat[s]
    /\ beat' = [beat EXCEPT ![s] = FALSE]
    /\ lease' = [lease EXCEPT ![s] = IF @ = "stale" THEN "revived" ELSE @]
    /\ UNCHANGED <<limit, player, play, accountVars>>

\* The page or screen goes away and hands the slot back.
StopPlaying(s) ==
    /\ player[s] = "watching" /\ token[s]
    /\ player' = [player EXCEPT ![s] = "away"]
    /\ lease' = [lease EXCEPT ![s] = IF @ = "none" THEN @ ELSE "ended"]
    /\ UNCHANGED <<limit, beat, play, accountVars>>

\* The app is killed or the network lost: nothing is handed back.
Vanish(s) ==
    /\ player[s] # "away"
    /\ player' = [player EXCEPT ![s] = "away"]
    /\ UNCHANGED <<limit, lease, beat, play, accountVars>>

\* STALE_AFTER_MS without a heartbeat: the player is paused, suspended or gone,
\* the device asleep, or its reports are held up.
GoStale(s) ==
    /\ s \in Live
    /\ lease' = [lease EXCEPT ![s] = "stale"]
    /\ UNCHANGED <<limit, player, beat, play, accountVars>>

\* No heartbeat is on its way, nor will any be sent.
Silent(s) == ~beat[s] /\ ~(player[s] = "watching" /\ (token[s] \/ row[s] = "live"))

-----------------------------------------------------------------------------
(* Sessions: signing in, the device cap, signing out                       *)

SignIn(s) ==
    /\ row[s] = "absent"
    /\ row' = [row EXCEPT ![s] = "live"]
    /\ token' = [token EXCEPT ![s] = TRUE]
    /\ UNCHANGED <<limit, lease, player, beat, play, evicting, evicted>>

\* issueSession revokes the least recently used session for a new one ...
Evict(s) ==
    /\ row[s] = "live"
    /\ row' = [row EXCEPT ![s] = "revoked"]
    /\ evicting' = evicting \cup {s}
    /\ evicted' = [evicted EXCEPT ![s] = TRUE]
    /\ UNCHANGED <<limit, token, lease, player, beat, play>>

\* ... and then ends the lease it held.
EndEvictedLease(s) ==
    /\ s \in evicting
    /\ evicting' = evicting \ {s}
    /\ lease' = [lease EXCEPT ![s] = IF @ = "none" THEN @ ELSE "ended"]
    /\ UNCHANGED <<limit, row, token, player, beat, play, evicted>>

\* POST /auth/logout, or DELETE /auth/sessions/:id from another device:
\* the session is revoked and its lease is not touched.
Logout(s) ==
    /\ row[s] = "live" /\ token[s]
    /\ row' = [row EXCEPT ![s] = "revoked"]
    /\ token' = [token EXCEPT ![s] = FALSE]
    /\ player' = [player EXCEPT ![s] = "away"]
    /\ UNCHANGED <<limit, lease, beat, play, evicting, evicted>>
RevokeElsewhere(s) ==
    /\ row[s] = "live"
    /\ row' = [row EXCEPT ![s] = "revoked"]
    /\ UNCHANGED <<limit, token, lease, player, beat, play, evicting, evicted>>

\* ACCESS_TOKEN_TTL passes; only a live session gets another one.
TokenLapses(s) ==
    /\ token[s]
    /\ token' = [token EXCEPT ![s] = FALSE]
    /\ UNCHANGED <<limit, row, lease, player, beat, play, evicting, evicted>>

MutRenewToken(s) ==   \* mutant: a revoked session is refreshed all the same
    /\ ~token[s] /\ row[s] # "absent"
    /\ token' = [token EXCEPT ![s] = TRUE]
    /\ UNCHANGED <<limit, row, lease, player, beat, play, evicting, evicted>>

RenewToken(s) ==
    /\ ~token[s] /\ row[s] = "live"
    /\ token' = [token EXCEPT ![s] = TRUE]
    /\ UNCHANGED <<limit, row, lease, player, beat, play, evicting, evicted>>

\* The process restarts: handlers are gone, the rows stay as they were.
Restart ==
    /\ \/ evicting # {}
       \/ \E h \in Handler : play[h].stage # "free"
       \/ \E s \in Session : beat[s]
    /\ play' = [h \in Handler |-> FreeHandler]
    /\ beat' = [s \in Session |-> FALSE]
    /\ evicting' = {}
    /\ UNCHANGED <<limit, row, token, lease, player, evicted>>

-----------------------------------------------------------------------------
Serve(h) ==
    PlayUnlimited(h) \/ CountSlots(h) \/ RefuseStream(h) \/ UpsertLease(h)

Next ==
    \/ \E h \in Handler : Serve(h) \/ \E s \in Session : AskToPlay(h, s)
    \/ \E s \in Session :
        \/ PlayDownload(s) \/ ReportProgress(s) \/ Touch(s)
        \/ StopPlaying(s) \/ Vanish(s) \/ GoStale(s)
        \/ SignIn(s) \/ Evict(s) \/ EndEvictedLease(s) \/ Logout(s)
        \/ RevokeElsewhere(s) \/ TokenLapses(s) \/ RenewToken(s)
    \/ Restart

Spec == Init /\ [][Next]_vars

\* Time passes, a lease without heartbeats goes stale, tokens lapse and are renewed, and a request that is made again
\* and again is not killed by a restart every time.
Fairness ==
    /\ \A h \in Handler : /\ SF_vars(PlayUnlimited(h)) /\ SF_vars(CountSlots(h))
                          /\ SF_vars(RefuseStream(h)) /\ SF_vars(UpsertLease(h))
    /\ \A s \in Session : /\ WF_vars(Touch(s)) /\ WF_vars(Silent(s) /\ GoStale(s))
                          /\ WF_vars(TokenLapses(s)) /\ WF_vars(RenewToken(s))
                          /\ WF_vars(EndEvictedLease(s))

FairSpec == Spec /\ Fairness

-----------------------------------------------------------------------------
(* Properties                                                              *)

(***************************************************************************)
(* What the limit promises: no more sessions hold live leases than the     *)
(* account may have streams.  ("maxStreams caps how many may play at       *)
(* once", schema.prisma:86.)  It does not hold of the code as it stands:   *)
(* play calls served together overshoot it (next property), and a device   *)
(* that reports again after its lease went stale revives it               *)
(* (slots_resume).                                                         *)
(***************************************************************************)
WithinLimit == limit > 0 => Cardinality(Live) <= limit

(***************************************************************************)
(* What the count-then-write does guarantee, whatever becomes of heartbeats*)
(* and of the process: the limit is overshot by at most the play calls     *)
(* that were served at the same moment, less one - and so not at all when  *)
(* they are served one at a time.  Only a lease that went stale and was    *)
(* revived comes on top.                                                   *)
(***************************************************************************)
OvershootBounded ==
    limit > 0 => Cardinality(Counted) <= limit + Cardinality(Handler) - 1

\* The reason: a lease about to be written was already allowed for.
SlotsReserved ==
    limit > 0 => Cardinality(Counted \cup Pending) <= limit + Cardinality(Handler) - 1

\* A play call in progress serves a session that signed in, and only such
\* sessions have tokens and players.
CallsServeSessions ==
    /\ \A h \in Handler : play[h].stage # "free"
                            => play[h].of \in Session /\ row[play[h].of] # "absent"
    /\ \A s \in Session : row[s] = "absent"
                            => player[s] = "away" /\ ~token[s] /\ ~beat[s]

IInv == TypeOK /\ CallsServeSessions /\ SlotsReserved

(***************************************************************************)
(* "An evicted device is also no longer allowed to hold a stream slot"     *)
(* (auth.service.ts:583).  Its access token outlives it, so it may take a  *)
(* new one; but whatever it does, its slot returns for good once the token *)
(* has lapsed - even when the process dies between revoking the session    *)
(* and ending the lease.                                                   *)
(***************************************************************************)
EvictedSlotReturns ==
    \A s \in Session : evicted[s] ~> [](s \notin Live)

(***************************************************************************)
(* Slots are not stranded: when the other devices have gone away for good, *)
(* a viewer who keeps asking gets in, although nobody handed a slot back.  *)
(***************************************************************************)
Alone(s) ==
    /\ \A o \in Session \ {s} : player[o] = "away"
    /\ \A h \in Handler : play[h].of \in {s, Nobody}

PatientViewerGetsIn ==
    \A s \in Session :
        []<>(\E h \in Handler : play[h] = [stage |-> "asked", of |-> s])
            => []<>(~Alone(s) \/ player[s] = "watching")

=============================================================================
