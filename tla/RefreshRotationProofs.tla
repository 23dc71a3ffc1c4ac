------------------------ MODULE RefreshRotationProofs ------------------------
(***************************************************************************)
(* What holds of the refresh rotation for every set of tokens and request  *)
(* slots.  Type correctness holds under every fault.  That the replay arm  *)
(* never fires on the session's own client is proved for one client whose  *)
(* calls are served or lost as a whole; run refresh_two_tabs shows that it *)
(* does not hold of two.                                                   *)
(***************************************************************************)
EXTENDS RefreshRotation, TLAPS

\* One tab, and no call outlives its caller's interest in it.
SingleClient ==
    /\ \A t, u \in Tab : t = u
    /\ Allowed \subseteq {"lapse"}

-----------------------------------------------------------------------------
\* The shape of a free slot.
LEMMA FreeCallTyped == FreeCall \in Call /\ FreeCall.stage = "free"
  BY DEF FreeCall, Call, Stage, MaybeToken

\* One slot changes, to a call that is itself well formed.
LEMMA OneCallChanges ==
  ASSUME req \in [Request -> Call], CallTyped, NEW r \in Request, NEW c \in Call,
         req' = [req EXCEPT ![r] = c],
         c.stage # "free" => c.tok \in AnyToken,
         c.stage \in {"rotating", "arrived"} => c.val # Refused
  PROVE  req' \in [Request -> Call] /\ CallTyped'
<1>1. req' \in [Request -> Call]
  OBVIOUS
<1>2. \A q \in Request : req'[q] = IF q = r THEN c ELSE req[q]
  OBVIOUS
<1>3. QED
  BY <1>1, <1>2 DEF CallTyped, At

LEMMA Tokens ==
  /\ None \in MaybeToken /\ AnyToken \subseteq MaybeToken /\ Token \subseteq AnyToken
  /\ Refused \notin MaybeToken /\ None \notin AnyToken
  /\ MaybeToken = AnyToken \cup {None}
  BY TokenAssumption DEF MaybeToken, AnyToken

\* A call in flight moves to another stage.
LEMMA MoveTyped ==
  ASSUME req \in [Request -> Call], CallTyped, NEW r \in Request, ~At(r, "free"),
         NEW s \in Stage, NEW v \in MaybeToken \cup {Refused},
         s \in {"rotating", "arrived"} => v # Refused,
         Move(r, s, v)
  PROVE  req' \in [Request -> Call] /\ CallTyped'
<1> DEFINE c == [stage |-> s, tok |-> req[r].tok, val |-> v]
<1>1. req[r].tok \in AnyToken
  BY DEF CallTyped
<1>2. c \in Call
  BY <1>1, Tokens DEF Call
<1>3. req' = [req EXCEPT ![r] = c]
  BY DEF Move
<1>4. QED
  BY <1>1, <1>2, <1>3, OneCallChanges

\* A slot is released.
LEMMA FreeTyped ==
  ASSUME req \in [Request -> Call], CallTyped, NEW r \in Request, Free(r)
  PROVE  req' \in [Request -> Call] /\ CallTyped'
  BY FreeCallTyped, OneCallChanges DEF Free

LEMMA SessionTypes ==
  ASSUME session \in Session
  PROVE  session.cur \in AnyToken /\ session.prev \in MaybeToken
  BY DEF Session

LEMMA CallTypes ==
  ASSUME NEW c \in Call
  PROVE  c.stage \in Stage /\ c.tok \in MaybeToken /\ c.val \in MaybeToken \cup {Refused}
  BY DEF Call

LEMMA Stages ==
  {"free", "sent", "matched", "rotating", "rewinding", "replayed", "answered",
   "arrived"} = Stage
  BY DEF Stage

TypeInv == TypeOK /\ CallTyped

\* A step that leaves the calls alone keeps what is said of them.
LEMMA CallsUnchanged ==
  ASSUME CallTyped, UNCHANGED req PROVE CallTyped'
  BY DEF CallTyped, At

\* Every step of every client and handler keeps the state well typed.
LEMMA TypeStep == TypeInv /\ [Next]_vars => TypeInv'
<1> SUFFICES ASSUME TypeInv, [Next]_vars PROVE TypeInv'
  OBVIOUS
<1> USE DEF TypeInv, TypeOK, clientVars, historyVars
<1>1. ASSUME NEW r \in Request, RefuseRefresh(r) PROVE TypeInv'
  BY <1>1, MoveTyped, Stages DEF RefuseRefresh, At
<1>2. ASSUME NEW r \in Request, MatchToken(r) PROVE TypeInv'
  BY <1>2, MoveTyped, Stages, Tokens DEF MatchToken, At
<1>3. ASSUME NEW r \in Request, ReadCurrent(r) PROVE TypeInv'
  BY <1>3, MoveTyped, SessionTypes, Stages, Tokens DEF ReadCurrent, At
<1>4. ASSUME NEW r \in Request, Rotate(r) PROVE TypeInv'
  <2>1. PICK t \in Token \ InUse :
          /\ session' = [session EXCEPT !.cur = t, !.prev = req[r].val,
                                        !.fresh = TRUE, !.hasLookup = TRUE]
          /\ Move(r, "answered", t)
    BY <1>4 DEF Rotate
  <2>2. req[r].val \in MaybeToken
    BY <1>4, CallTypes DEF Rotate, CallTyped, At
  <2>3. session' \in Session
    BY <2>1, <2>2, Tokens DEF Session
  <2>4. QED
    BY <1>4, <2>1, <2>3, MoveTyped, Stages, Tokens DEF Rotate, At
<1>5. ASSUME NEW r \in Request, Rewind(r) PROVE TypeInv'
  <2>1. req[r].tok \in AnyToken
    BY <1>5 DEF Rewind, CallTyped, At
  <2>2. session' \in Session
    BY <1>5, <2>1, Tokens DEF Rewind, Session
  <2>3. QED
    BY <1>5, <2>1, <2>2, MoveTyped, Stages, Tokens DEF Rewind, At
<1>6. ASSUME NEW r \in Request, RevokeReplayed(r) PROVE TypeInv'
  <2>1. session' \in Session
    BY <1>6 DEF RevokeReplayed, Session
  <2>2. QED
    BY <1>6, <2>1, MoveTyped, Stages DEF RevokeReplayed, At
<1>7. ASSUME NEW r \in Request, DropAnswer(r) PROVE TypeInv'
  BY <1>7, FreeTyped DEF DropAnswer
<1>8. ASSUME NEW t \in Tab, AccessTokenLapses(t) PROVE TypeInv'
  BY <1>8, CallsUnchanged DEF AccessTokenLapses
<1>9. ASSUME NEW t \in Tab, AskForTokens(t) PROVE TypeInv'
  <2> DEFINE c == [stage |-> "sent", tok |-> Credential, val |-> None]
  <2>1. Credential \in AnyToken
    BY <1>9, Tokens DEF AskForTokens, Credential
  <2>2. c \in Call
    BY <2>1, Tokens, Stages DEF Call
  <2>3. PICK r \in Request : /\ req' = [req EXCEPT ![r] = c]
                             /\ wait' = [wait EXCEPT ![t] = r]
    BY <1>9 DEF AskForTokens
  <2>4. req' \in [Request -> Call] /\ CallTyped'
    BY <2>1, <2>2, <2>3, OneCallChanges
  <2>5. QED
    BY <1>9, <2>3, <2>4 DEF AskForTokens
<1>10. ASSUME NEW t \in Tab, ReceiveHeaders(t) PROVE TypeInv'
  <2>1. wait[t] \in Request /\ req[wait[t]] \in Call
    BY <1>10 DEF ReceiveHeaders
  <2>2. req[wait[t]].val \in MaybeToken
    BY <1>10, <2>1, CallTypes DEF ReceiveHeaders
  <2>3. req' \in [Request -> Call] /\ CallTyped'
    BY <1>10, <2>1, <2>2, MoveTyped, Stages DEF ReceiveHeaders, At
  <2>4. QED
    BY <1>10, <2>2, <2>3 DEF ReceiveHeaders
<1>11. ASSUME NEW t \in Tab, StoreTokens(t) PROVE TypeInv'
  <2>1. wait[t] \in Request /\ req[wait[t]] \in Call
    BY <1>11 DEF StoreTokens
  <2>2. req[wait[t]].val \in MaybeToken
    BY <1>11, <2>1, CallTypes DEF StoreTokens, CallTyped, At
  <2>3. QED
    BY <1>11, <2>1, <2>2, FreeTyped DEF StoreTokens
<1>12. ASSUME NEW t \in Tab, ClearTokens(t) PROVE TypeInv'
  BY <1>12, FreeTyped, Tokens DEF ClearTokens
<1>13. ASSUME NEW t \in Tab, GiveUp(t) PROVE TypeInv'
  BY <1>13, FreeTyped, CallsUnchanged DEF GiveUp
<1>14. ASSUME NEW t \in Tab, Logout(t) PROVE TypeInv'
  <2>1. session' \in Session
    BY <1>14 DEF Logout, Session
  <2>2. QED
    BY <1>14, <2>1, CallsUnchanged, Tokens DEF Logout
<1>21. ASSUME NEW t \in Tab, LogoutUnheard(t) PROVE TypeInv'
  BY <1>21, CallsUnchanged, Tokens DEF LogoutUnheard
<1>15. CASE Restart
  <2>1. req' \in [Request -> Call] /\ CallTyped'
    BY <1>15, FreeCallTyped DEF Restart, CallTyped, At
  <2>2. QED
    BY <1>15, <2>1 DEF Restart
<1>16. CASE Purge
  BY <1>16, CallsUnchanged, Tokens DEF Purge
<1>17. CASE GraceLapses
  <2>1. session' \in Session
    BY <1>17 DEF GraceLapses, Session
  <2>2. parked' \in BOOLEAN
    BY <1>17 DEF GraceLapses
  <2>3. QED
    BY <1>17, <2>1, <2>2, CallsUnchanged DEF GraceLapses
<1>18. CASE EndElsewhere
  <2>1. session' \in Session
    BY <1>18 DEF EndElsewhere, Session
  <2>2. QED
    BY <1>18, <2>1, CallsUnchanged DEF EndElsewhere
<1>19. ASSUME NEW b \in BOOLEAN, SetSuspended(b) PROVE TypeInv'
  BY <1>19, CallsUnchanged DEF SetSuspended
<1>20. CASE UNCHANGED vars
  BY <1>20, CallsUnchanged DEF vars
<1>22. QED
  BY <1>21, <1>1, <1>2, <1>3, <1>4, <1>5, <1>6, <1>7, <1>8, <1>9, <1>10, <1>11, <1>12,
     <1>13, <1>14, <1>15, <1>16, <1>17, <1>18, <1>19, <1>20 DEF Next, Serve

-----------------------------------------------------------------------------
(* One client, no late calls                                               *)

\* At most one call is in flight.
LEMMA OneInFlight ==
  ASSUME SingleClient, NoOrphanCall,
         NEW r \in Request, NEW q \in Request, ~At(r, "free"), ~At(q, "free")
  PROVE  r = q
  BY DEF SingleClient, NoOrphanCall

\* Calls do not lose the tab that waits for them.
LEMMA NoOrphanStep ==
  ASSUME SingleClient, TypeInv, NoOrphanCall, [Next]_vars
  PROVE  NoOrphanCall'
<1> USE DEF TypeInv, TypeOK, NoOrphanCall, At
<1>1. ASSUME NEW r \in Request, NEW s, NEW v, ~At(r, "free"), Move(r, s, v), UNCHANGED wait
      PROVE  NoOrphanCall'
  BY <1>1 DEF Move
<1>2. ASSUME NEW r \in Request, Serve(r) PROVE NoOrphanCall'
  BY <1>1, <1>2 DEF Serve, RefuseRefresh, MatchToken, ReadCurrent, Rotate, Rewind,
                    RevokeReplayed, clientVars
<1>3. ASSUME NEW r \in Request, DropAnswer(r) PROVE NoOrphanCall'
  BY <1>3, FreeCallTyped DEF DropAnswer, Free, clientVars
<1>4. ASSUME NEW t \in Tab, AskForTokens(t) PROVE NoOrphanCall'
  <2>1. PICK r \in Request :
          /\ req' = [req EXCEPT ![r] = [stage |-> "sent", tok |-> Credential, val |-> None]]
          /\ wait' = [wait EXCEPT ![t] = r]
    BY <1>4 DEF AskForTokens
  <2>2. \A q \in Request : req[q].stage = "free"
    BY <1>4, TokenAssumption DEF AskForTokens, SingleClient
  <2>3. \A q \in Request : q # r => req'[q].stage = "free"
    BY <2>1, <2>2
  <2>4. wait'[t] = r
    BY <2>1
  <2>5. QED
    BY <2>3, <2>4
<1>5. ASSUME NEW t \in Tab, ReceiveHeaders(t) PROVE NoOrphanCall'
  BY <1>1, <1>5 DEF ReceiveHeaders
<1>6. ASSUME NEW t \in Tab, Free(wait[t]), wait[t] # None,
             wait' = [wait EXCEPT ![t] = None]
      PROVE  NoOrphanCall'
  BY <1>6, FreeCallTyped DEF Free, SingleClient
<1>7. ASSUME NEW t \in Tab, StoreTokens(t) \/ ClearTokens(t) PROVE NoOrphanCall'
  BY <1>6, <1>7 DEF StoreTokens, ClearTokens
<1>8. ASSUME NEW t \in Tab, GiveUp(t) PROVE NoOrphanCall'
  BY <1>6, <1>8 DEF GiveUp, SingleClient
<1>9. CASE Restart
  BY <1>9, FreeCallTyped DEF Restart
<1>10. CASE UNCHANGED <<req, wait>>
  BY <1>10
<1>11. QED
  BY <1>2, <1>3, <1>4, <1>5, <1>7, <1>8, <1>9, <1>10
     DEF Next, AccessTokenLapses, Logout, LogoutUnheard, Purge, GraceLapses, EndElsewhere,
         SetSuspended, clientVars, vars

\* History is only added to.
LEMMA HistoryGrows ==
  ASSUME [Next]_vars, ended \/ parked, TypeOK PROVE ended' \/ parked'
  BY DEF Next, Serve, RefuseRefresh, MatchToken, ReadCurrent, Rotate, Rewind,
         RevokeReplayed, DropAnswer, AccessTokenLapses, AskForTokens, ReceiveHeaders,
         StoreTokens, ClearTokens, GiveUp, Logout, LogoutUnheard, Restart, Purge, GraceLapses,
         EndElsewhere, SetSuspended, historyVars, vars, TypeOK

\* A client holding the current token, or the one in grace, goes on doing so.
LEMMA SoundStep ==
  ASSUME SingleClient, TypeInv, NoOrphanCall, TokenHeld, [Next]_vars
  PROVE  ClientSound'
<1> USE DEF TypeInv, TypeOK, historyVars, clientVars
<1>a. None \notin Token /\ Refused \notin Token /\ LegacyToken \notin Token
  BY TokenAssumption
<1>b. \A r, q \in Request : ~At(r, "free") /\ ~At(q, "free") => r = q
  BY OneInFlight
<1>c. \A r \in Request : CallSound(req[r])
  BY DEF TokenHeld
<1>d. store # None /\ Credential = store /\ Finds(store) /\ Redeemable(store)
  BY <1>a DEF TokenHeld, Credential, Finds, Redeemable
\* The row and the stored token stay; one call moves to a sound state.
<1>e. ASSUME NEW r \in Request, NEW c, req' = [req EXCEPT ![r] = c], CallSound(c),
             UNCHANGED <<session, suspended, store>>
      PROVE  TokenHeld'
  <2>1. \A q \in Request : req'[q] = IF q = r THEN c ELSE req[q]
    BY <1>e
  <2>2. (\A q \in Request : CallSound(req[q]))'
    BY <1>c, <1>e, <2>1 DEF CallSound
  <2>3. QED
    BY <1>e, <2>2 DEF TokenHeld, InGrace
<1>1. ASSUME NEW r \in Request, RefuseRefresh(r) PROVE FALSE
  BY <1>1, <1>c, <1>d DEF RefuseRefresh, CallSound, TokenHeld, At
<1>2. ASSUME NEW r \in Request, MatchToken(r) PROVE TokenHeld'
  <2>1. req[r].tok = store
    BY <1>2, <1>c DEF MatchToken, CallSound, At
  <2>2. CASE store = session.cur /\ Move(r, "matched", None)
    <3> DEFINE c == [stage |-> "matched", tok |-> store, val |-> None]
    <3>1. req' = [req EXCEPT ![r] = c] /\ UNCHANGED <<session, suspended, store>>
      BY <1>2, <2>1, <2>2 DEF MatchToken, Move
    <3>2. CallSound(c)
      BY <2>2 DEF CallSound
    <3>3. QED
      BY <1>e, <3>1, <3>2
  <2>3. CASE store # session.cur /\ InGrace(store) /\ Move(r, "rewinding", None)
    <3> DEFINE c == [stage |-> "rewinding", tok |-> store, val |-> None]
    <3>1. req' = [req EXCEPT ![r] = c] /\ UNCHANGED <<session, suspended, store>>
      BY <1>2, <2>1, <2>3 DEF MatchToken, Move
    <3>2. CallSound(c)
      BY <2>3 DEF CallSound, InGrace
    <3>3. QED
      BY <1>e, <3>1, <3>2
  <2>4. QED
    BY <1>2, <1>d, <2>1, <2>2, <2>3 DEF MatchToken
<1>3. ASSUME NEW r \in Request, ReadCurrent(r) PROVE TokenHeld'
  <2> DEFINE c == [stage |-> "rotating", tok |-> req[r].tok, val |-> session.cur]
  <2>1. req' = [req EXCEPT ![r] = c] /\ UNCHANGED <<session, suspended, store>>
    BY <1>3 DEF ReadCurrent, Move
  <2>2. CallSound(c)
    BY <1>3, <1>c DEF ReadCurrent, CallSound, At
  <2>3. QED
    BY <1>e, <2>1, <2>2
<1>4. ASSUME NEW r \in Request, Rotate(r) PROVE TokenHeld'
  <2>1. PICK t \in Token \ InUse :
          /\ session' = [session EXCEPT !.cur = t, !.prev = req[r].val,
                                        !.fresh = TRUE, !.hasLookup = TRUE]
          /\ Move(r, "answered", t)
    BY <1>4 DEF Rotate
  <2>2. req[r].stage = "rotating" /\ req[r].val = store /\ store' = store /\ suspended' = suspended
    BY <1>4, <1>c DEF Rotate, CallSound, At
  <2>3. /\ session'.cur = t /\ session'.prev = store /\ session'.fresh
        /\ session'.hasLookup /\ session'.revoked = session.revoked
    BY <2>1, <2>2 DEF Session
  <2>4. (\A q \in Request : CallSound(req[q]))'
    BY <1>b, <2>1, <2>2, <2>3 DEF Move, CallSound, At
  <2>5. QED
    BY <2>2, <2>3, <2>4 DEF TokenHeld, InGrace
<1>5. ASSUME NEW r \in Request, Rewind(r) PROVE TokenHeld'
  <2>1. req[r].stage = "rewinding" /\ req[r].tok = store /\ store' = store /\ suspended' = suspended
    BY <1>5, <1>c DEF Rewind, CallSound, At
  <2>2. /\ session'.cur = store /\ session'.hasLookup = session.hasLookup
        /\ session'.revoked = session.revoked
    BY <1>5, <2>1 DEF Rewind, Session
  <2>3. (\A q \in Request : CallSound(req[q]))'
    BY <1>5, <1>b, <2>1, <2>2 DEF Rewind, Move, CallSound, At
  <2>4. QED
    BY <2>1, <2>2, <2>3 DEF TokenHeld
<1>6. ASSUME NEW r \in Request, RevokeReplayed(r) PROVE FALSE
  BY <1>6, <1>c DEF RevokeReplayed, CallSound, At
<1>f. CallSound(FreeCall)
  BY DEF CallSound, FreeCall
<1>7. ASSUME NEW r \in Request, DropAnswer(r) PROVE TokenHeld'
  BY <1>7, <1>e, <1>f DEF DropAnswer, Free
<1>8. ASSUME NEW t \in Tab, AskForTokens(t) PROVE TokenHeld'
  <2> DEFINE c == [stage |-> "sent", tok |-> Credential, val |-> None]
  <2>1. PICK r \in Request : req' = [req EXCEPT ![r] = c]
    BY <1>8 DEF AskForTokens
  <2>2. CallSound(c)
    BY <1>d DEF CallSound
  <2>3. UNCHANGED <<session, suspended, store>>
    BY <1>8 DEF AskForTokens
  <2>4. QED
    BY <1>e, <2>1, <2>2, <2>3
<1>9. ASSUME NEW t \in Tab, ReceiveHeaders(t) PROVE TokenHeld'
  <2> DEFINE r == wait[t]
             c == [stage |-> "arrived", tok |-> req[r].tok, val |-> req[r].val]
  <2>1. r \in Request /\ req' = [req EXCEPT ![r] = c] /\ UNCHANGED <<session, suspended, store>>
    BY <1>9 DEF ReceiveHeaders, Move
  <2>2. CallSound(c)
    BY <1>9, <1>c, <2>1 DEF ReceiveHeaders, CallSound, At
  <2> HIDE DEF c, r
  <2>3. QED
    BY <1>e, <2>1, <2>2
<1>10. ASSUME NEW t \in Tab, StoreTokens(t) PROVE TokenHeld'
  <2>1. wait[t] \in Request /\ store' = session.cur /\ UNCHANGED <<session, suspended>>
    BY <1>10, <1>c DEF StoreTokens, CallSound, At
  <2>2. \A q \in Request : req'[q].stage = "free"
    BY <1>10, <1>b, <2>1, FreeCallTyped DEF StoreTokens, Free, At
  <2>3. QED
    BY <2>1, <2>2 DEF TokenHeld, CallSound
<1>11. ASSUME NEW t \in Tab, ClearTokens(t) PROVE FALSE
  BY <1>11, <1>a, <1>c DEF ClearTokens, CallSound, At, TokenHeld
<1>12. ASSUME NEW t \in Tab, GiveUp(t) PROVE TokenHeld'
  BY <1>12, <1>e, <1>f DEF GiveUp, SingleClient, Free
<1>13. CASE Restart
  <2>1. \A q \in Request : req'[q] = FreeCall \/ req'[q] = req[q]
    BY <1>13 DEF Restart
  <2>2. (\A q \in Request : CallSound(req[q]))'
    BY <1>13, <1>c, <1>f, <2>1 DEF Restart, CallSound
  <2>3. QED
    BY <1>13, <2>2 DEF Restart, TokenHeld, InGrace, ClientSound
<1>14. CASE GraceLapses
  <2>1. CASE store = session.prev
    BY <1>14, <1>d, <2>1 DEF GraceLapses, ClientSound
  <2>2. CASE store # session.prev
    <3>1. store = session.cur
      BY <2>2 DEF TokenHeld, InGrace
    <3>2. /\ session'.cur = session.cur /\ session'.prev = session.prev
          /\ session'.hasLookup = session.hasLookup /\ session'.revoked = session.revoked
      BY <1>14 DEF GraceLapses, Session
    <3>3. (\A q \in Request : CallSound(req[q]))'
      BY <1>14, <1>c, <3>2 DEF GraceLapses, CallSound
    <3>4. QED
      BY <1>14, <3>1, <3>2, <3>3 DEF GraceLapses, TokenHeld, ClientSound
  <2>3. QED
    BY <2>1, <2>2
<1>15. CASE Purge
  BY <1>15 DEF Purge, SingleClient
<1>16. ASSUME (\E t \in Tab : Logout(t) \/ LogoutUnheard(t)) \/ EndElsewhere \/ (\E b \in BOOLEAN : SetSuspended(b))
       PROVE  ended'
  BY <1>16 DEF Logout, LogoutUnheard, EndElsewhere, SetSuspended
<1>17. CASE UNCHANGED <<session, suspended, req, store>>
  BY <1>17, <1>c DEF TokenHeld, CallSound, InGrace, ClientSound
<1>18. QED
  BY <1>1, <1>2, <1>3, <1>4, <1>5, <1>6, <1>7, <1>8, <1>9, <1>10, <1>11, <1>12,
     <1>13, <1>14, <1>15, <1>16, <1>17
     DEF Next, Serve, ClientSound, AccessTokenLapses, vars

LEMMA SoundInit == SingleClient /\ Init => IInv
<1> SUFFICES ASSUME SingleClient, Init PROVE IInv
  OBVIOUS
<1>1. PICK t \in Token :
        /\ session = [cur |-> t, prev |-> None, fresh |-> FALSE,
                      hasLookup |-> t # LegacyToken, revoked |-> FALSE]
        /\ store = t
        /\ cookie = IF t = LegacyToken THEN None ELSE t
  BY DEF Init, SingleClient
<1>2. t # LegacyToken /\ t \in AnyToken
  BY TokenAssumption DEF AnyToken
<1>3. TypeOK
  BY <1>1, <1>2, Tokens, FreeCallTyped DEF Init, TypeOK, Session
<1>4. CallTyped /\ NoOrphanCall
  BY FreeCallTyped DEF Init, CallTyped, NoOrphanCall, At, FreeCall
<1>5. TokenHeld
  BY <1>1, <1>2 DEF Init, TokenHeld, CallSound, FreeCall
<1>6. QED
  BY <1>3, <1>4, <1>5 DEF IInv, ClientSound

(***************************************************************************)
(* Under every fault, with any number of tabs: the state is well typed.    *)
(***************************************************************************)
THEOREM TypeCorrect == Spec => []TypeOK
<1>1. Init => TypeInv
  <2> SUFFICES ASSUME Init PROVE TypeInv
    OBVIOUS
  <2>1. PICK t \in AnyToken :
          /\ session = [cur |-> t, prev |-> None, fresh |-> FALSE,
                        hasLookup |-> t # LegacyToken, revoked |-> FALSE]
          /\ store = t
          /\ cookie = IF t = LegacyToken THEN None ELSE t
    BY Tokens DEF Init
  <2>2. TypeOK
    BY <2>1, Tokens, FreeCallTyped DEF Init, TypeOK, Session
  <2>3. CallTyped
    BY FreeCallTyped DEF Init, CallTyped, At, FreeCall
  <2>4. QED
    BY <2>2, <2>3 DEF TypeInv
<1>2. TypeInv => TypeOK
  BY DEF TypeInv
<1>3. QED
  BY <1>1, <1>2, TypeStep, PTL DEF Spec

(***************************************************************************)
(* For a single client whose calls are served or lost as a whole, the      *)
(* inductive invariant.                                                    *)
(***************************************************************************)
THEOREM SoundInvariant == ASSUME SingleClient PROVE Spec => []IInv
<1>1. Init => IInv
  BY SoundInit
<1>2. IInv /\ [Next]_vars => IInv'
  <2> SUFFICES ASSUME IInv, [Next]_vars PROVE IInv'
    OBVIOUS
  <2>1. TypeInv /\ TypeInv'
    BY TypeStep DEF IInv, TypeInv
  <2>2. NoOrphanCall'
    BY <2>1, NoOrphanStep DEF IInv
  <2>3. ASSUME ended \/ parked PROVE ClientSound'
    BY <2>3, HistoryGrows DEF IInv, ClientSound
  <2>4. ASSUME TokenHeld PROVE ClientSound'
    BY <2>1, <2>4, SoundStep DEF IInv
  <2>5. ClientSound'
    BY <2>3, <2>4 DEF IInv, ClientSound
  <2>6. QED
    BY <2>1, <2>2, <2>5 DEF IInv, TypeInv
<1>3. QED
  BY <1>1, <1>2, PTL DEF Spec

(***************************************************************************)
(* The replay arm of refresh never fires on the session's own client.      *)
(***************************************************************************)
THEOREM ReplayNeverLegitimate ==
  ASSUME SingleClient PROVE Spec => []NeverMistakenForReplay
<1>1. IInv => NeverMistakenForReplay
  BY DEF IInv, ClientSound, TokenHeld, NeverMistakenForReplay
<1>2. QED
  BY <1>1, SoundInvariant, PTL

(***************************************************************************)
(* A lost answer leaves the client with a token the backend accepts.       *)
(***************************************************************************)
THEOREM LostAnswerStrandsNobody ==
  ASSUME SingleClient PROVE Spec => []ClientNotStranded
<1>1. IInv => ClientNotStranded
  BY TokenAssumption
     DEF IInv, ClientSound, TokenHeld, ClientNotStranded, Credential, Redeemable, Finds
<1>2. QED
  BY <1>1, SoundInvariant, PTL

-----------------------------------------------------------------------------
(* The end of a session, under every fault and for any number of tabs      *)

\* The one column a step may not clear is never cleared: each write of the row
\* names the columns it sets, and none of them but an end sets this one.
LEMMA RevocationStep ==
  ASSUME TypeOK, [Next]_vars, session.revoked PROVE session'.revoked
<1>1. session \in Session
  BY DEF TypeOK
<1>2. ASSUME NEW r \in Request, Rotate(r) PROVE session'.revoked
  BY <1>1, <1>2 DEF Rotate, Session
<1>3. ASSUME NEW r \in Request, Rewind(r) PROVE session'.revoked
  BY <1>1, <1>3 DEF Rewind, Session
<1>4. ASSUME NEW r \in Request, RevokeReplayed(r) PROVE session'.revoked
  BY <1>1, <1>4 DEF RevokeReplayed, Session
<1>5. ASSUME NEW t \in Tab, Logout(t) PROVE session'.revoked
  BY <1>1, <1>5 DEF Logout, Session
<1>6. CASE GraceLapses
  BY <1>1, <1>6 DEF GraceLapses, Session
<1>7. CASE EndElsewhere
  BY <1>7 DEF EndElsewhere
<1>8. CASE UNCHANGED session
  BY <1>8
<1>9. QED
  BY <1>2, <1>3, <1>4, <1>5, <1>6, <1>7, <1>8
     DEF Next, Serve, RefuseRefresh, MatchToken, ReadCurrent, DropAnswer,
         AccessTokenLapses, AskForTokens, ReceiveHeaders, StoreTokens, ClearTokens,
         GiveUp, LogoutUnheard, Restart, Purge, SetSuspended, vars

(***************************************************************************)
(* A session that was ended stays ended, whatever refreshes had matched    *)
(* their token before and finish afterwards, and whatever is lost or       *)
(* restarted meanwhile: for every number of tabs and calls.                *)
(***************************************************************************)
THEOREM EndedForGood == Spec => RevocationIsFinal
<1>1. TypeOK /\ [Next]_vars => [session.revoked => session'.revoked]_session
  BY RevocationStep
<1>2. Spec => []TypeOK
  BY TypeCorrect
<1>3. QED
  BY <1>1, <1>2, PTL DEF Spec, RevocationIsFinal

=============================================================================
