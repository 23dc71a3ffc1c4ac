------------------------------ MODULE DeviceCap ------------------------------
(***************************************************************************)
(* How many devices an account keeps signed in, and which one goes when a  *)
(* new one arrives: AuthService.issueSession, and the lastSeenAt column    *)
(* that JwtAuthGuard.touchSession and refresh keep for it.                 *)
(*                                                                         *)
(* issueSession reads the active sessions, revokes the least recently seen *)
(* ones and creates the new one: three statements, between which other     *)
(* handlers run.  touchSession is not awaited; what it may skip is decided *)
(* by a map in the process's memory, what it may write by the row.         *)
(*                                                                         *)
(* Time is counted in half touch intervals and ages saturate at MaxAge.    *)
(***************************************************************************)
EXTENDS Integers, FiniteSets, FiniteSetsExt

CONSTANTS
    Session,   \* ids of session rows; an id nobody refers to stands for a new one
    Handler,   \* slots for sign-ins being served
    Caps,      \* values of AppSettings.maxSessions to consider
    MaxAge,    \* ages beyond this are not told apart
    Allowed    \* faults: "lost" a touch write fails, "crash" the process restarts

Interval == 2   \* TOUCH_INTERVAL_MS, in time units

ASSUME CapAssumption ==
    /\ IsFiniteSet(Session) /\ IsFiniteSet(Handler)
    /\ Caps \subseteq Nat
    /\ MaxAge \in Nat /\ MaxAge > 2 * Interval
    /\ Allowed \subseteq {"lost", "crash"}

VARIABLES
    cap,      \* AppSettings.maxSessions; 0 disables the cap
    active,   \* the sessions with revokedAt null
    seen,     \* age of each row's lastSeenAt
    touched,  \* lastTouched: age of the session's entry, Interval once it is old
    signIn,   \* the sign-in handlers
    spared,   \* history: the session answered a request within the last unit
    owed      \* history: the session's last due write of lastSeenAt was lost

vars == <<cap, active, seen, touched, signIn, spared, owed>>

Stages == {"free", "revoking", "creating"}
Idle == [stage |-> "free", victims |-> {}]

TypeOK ==
    /\ cap \in Caps
    /\ active \subseteq Session
    /\ seen \in [Session -> 0..MaxAge]
    /\ touched \in [Session -> 0..Interval]
    /\ signIn \in [Handler -> [stage: Stages, victims: SUBSET Session]]
    /\ \A h \in Handler : signIn[h].stage # "revoking" => signIn[h].victims = {}
    /\ spared \subseteq Session
    /\ owed \subseteq Session

Init ==
    /\ cap \in Caps
    /\ active = {}
    /\ seen = [s \in Session |-> 0]
    /\ touched = [s \in Session |-> Interval]
    /\ signIn = [h \in Handler |-> Idle]
    /\ spared = {}
    /\ owed = {}

-----------------------------------------------------------------------------
(* issueSession                                                            *)

\* v is a least recently seen part of the active sessions (ties go anywhere).
LeastRecent(v) == \A s \in v, t \in active \ v : seen[s] >= seen[t]

\* mutant: the least recent session goes, however many there are
MutSurplusOne == IF cap > 0 /\ Cardinality(active) >= cap THEN 1 ELSE 0

\* The slice of the active list that makes room for one more under the cap.
Surplus == IF cap > 0 /\ Cardinality(active) >= cap
           THEN Cardinality(active) - cap + 1
           ELSE 0

ReadActive(h) ==
    /\ signIn[h].stage = "free"
    /\ \E v \in kSubset(Surplus, active) :
        /\ LeastRecent(v)
        /\ signIn' = [signIn EXCEPT ![h] =
             [stage |-> IF v = {} THEN "creating" ELSE "revoking", victims |-> v]]
    /\ UNCHANGED <<cap, active, seen, touched, spared, owed>>

\* By id, whatever has become of them since.
RevokeVictims(h) ==
    /\ signIn[h].stage = "revoking"
    /\ active' = active \ signIn[h].victims
    /\ signIn' = [signIn EXCEPT ![h] = [stage |-> "creating", victims |-> {}]]
    /\ UNCHANGED <<cap, seen, touched, spared, owed>>

CreateSession(h) ==
    /\ signIn[h].stage = "creating"
    /\ \E s \in Session \ active :
        /\ \A g \in Handler : s \notin signIn[g].victims
        /\ active' = active \cup {s}
        /\ seen' = [seen EXCEPT ![s] = 0]
        /\ touched' = [touched EXCEPT ![s] = Interval]
        /\ spared' = spared \ {s} /\ owed' = owed \ {s}
    /\ signIn' = [signIn EXCEPT ![h] = Idle]
    /\ UNCHANGED cap

-----------------------------------------------------------------------------
(* Sessions in use                                                         *)

\* The map says a write is due; the row's own predicate has the last word.
MutWritten(s) == seen[s]   \* mutant: only a refresh moves lastSeenAt
TouchDue(s) == touched[s] >= Interval
Written(s) == IF seen[s] > Interval THEN 0 ELSE seen[s]

\* An authenticated request: touchSession.
Request(s) ==
    /\ s \in active
    /\ spared' = spared \cup {s}
    /\ \/ /\ ~TouchDue(s)
          /\ UNCHANGED <<seen, touched, owed>>
       \/ /\ TouchDue(s)
          /\ touched' = [touched EXCEPT ![s] = 0]
          /\ seen' = [seen EXCEPT ![s] = Written(s)]
          /\ owed' = owed \ {s}
    /\ UNCHANGED <<cap, active, signIn>>

\* The write is not awaited, and its failure is swallowed.
RequestWriteLost(s) ==
    /\ "lost" \in Allowed
    /\ s \in active /\ TouchDue(s)
    /\ touched' = [touched EXCEPT ![s] = 0]
    /\ spared' = spared \cup {s} /\ owed' = owed \cup {s}
    /\ UNCHANGED <<cap, active, seen, signIn>>

\* A refresh writes lastSeenAt itself and knows nothing of the map.
Refresh(s) ==
    /\ s \in active
    /\ seen' = [seen EXCEPT ![s] = 0]
    /\ spared' = spared \cup {s} /\ owed' = owed \ {s}
    /\ UNCHANGED <<cap, active, touched, signIn>>

\* Logout, or DELETE /auth/sessions/:id.
EndSession(s) ==
    /\ s \in active
    /\ active' = active \ {s}
    /\ UNCHANGED <<cap, seen, touched, signIn, spared, owed>>

\* Sign-ins take far less than a time unit.
Tick ==
    /\ \A h \in Handler : signIn[h].stage = "free"
    /\ seen' = [s \in Session |-> IF seen[s] < MaxAge THEN seen[s] + 1 ELSE MaxAge]
    /\ touched' = [s \in Session |-> IF touched[s] < Interval THEN touched[s] + 1 ELSE Interval]
    /\ spared' = {}
    /\ UNCHANGED <<cap, active, signIn, owed>>

\* The map and the handlers are memory.
Restart ==
    /\ "crash" \in Allowed
    /\ touched' = [s \in Session |-> Interval]
    /\ signIn' = [h \in Handler |-> Idle]
    /\ UNCHANGED <<cap, active, seen, spared, owed>>

-----------------------------------------------------------------------------
Next ==
    \/ \E h \in Handler : ReadActive(h) \/ RevokeVictims(h) \/ CreateSession(h)
    \/ \E s \in Session : Request(s) \/ RequestWriteLost(s) \/ Refresh(s) \/ EndSession(s)
    \/ Tick \/ Restart

Spec == Init /\ [][Next]_vars

-----------------------------------------------------------------------------
(* Properties                                                              *)

(***************************************************************************)
(* "maxSessions caps how many devices may stay signed in"                  *)
(* (schema.prisma:82).  Holds when sign-ins are served one at a time.      *)
(***************************************************************************)
WithinCap == cap > 0 => Cardinality(active) <= cap

(***************************************************************************)
(* Served together, k sign-ins overshoot the cap by at most k - 1, however *)
(* often it happens: the next sign-in evicts the surplus.                  *)
(***************************************************************************)
OvershootBounded == cap > 0 => Cardinality(active) <= cap + Cardinality(Handler) - 1

(***************************************************************************)
(* Why, and it is not obvious: a handler may revoke a list it read long    *)
(* ago, and find nothing left on it.  For every set Q of handlers about to *)
(* revoke, suppose their lists carried out: what stays active, plus every  *)
(* handler that would then add a session without removing any, is within   *)
(* the bound.                                                              *)
(***************************************************************************)
Revoking == {h \in Handler : signIn[h].stage = "revoking"}
Doomed(Q) == UNION {signIn[h].victims : h \in Q}
Coming(Q) == {h \in Handler : \/ signIn[h].stage = "creating"
                              \/ /\ signIn[h].stage = "revoking"
                                 /\ signIn[h].victims \cap active \subseteq Doomed(Q)}
RoomReserved ==
    cap > 0 => \A Q \in SUBSET Revoking :
        Cardinality(active \ Doomed(Q)) + Cardinality(Coming(Q))
            <= cap + Cardinality(Handler) - 1

IInv == TypeOK /\ RoomReserved

(***************************************************************************)
(* A session that is answering requests never looks more than two touch    *)
(* intervals old, although the map may skip a write and the row's own      *)
(* predicate refuse one: "a session cannot look stale while its holder is  *)
(* active" (jwt-auth.guard.ts:15).  A session whose last due write was     *)
(* lost is excepted: "a lost write only means the next request does it     *)
(* instead" (jwt-auth.guard.ts:88) is not so, since the map remembers the  *)
(* lost write as made for a whole interval.                                *)
(***************************************************************************)
ActiveLooksActive == \A s \in (active \cap spared) \ owed : seen[s] <= 2 * Interval

=============================================================================
