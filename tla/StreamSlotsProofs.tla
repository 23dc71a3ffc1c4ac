-------------------------- MODULE StreamSlotsProofs --------------------------
(***************************************************************************)
(* What the count-then-write of a stream lease guarantees for any number   *)
(* of sessions, play handlers and any limit: but for leases revived after  *)
(* they went stale, the limit is overshot by at most the number of play    *)
(* calls served at once, less one.                                         *)
(***************************************************************************)
EXTENDS StreamSlots, FiniteSetTheorems, TLAPS

-----------------------------------------------------------------------------
(* Types, and what a call in progress refers to                            *)

TypeInv == TypeOK /\ CallsServeSessions

LEMMA TypeInit == Init => TypeInv
  BY SlotsAssumption
     DEF Init, TypeInv, TypeOK, CallsServeSessions, PlayCall, FreeHandler

LEMMA TypeStep == TypeInv /\ [Next]_vars => TypeInv'
<1> SUFFICES ASSUME TypeInv, [Next]_vars PROVE TypeInv'
  OBVIOUS
<1> USE DEF TypeInv, TypeOK, CallsServeSessions, accountVars
<1>1. ASSUME NEW h \in Handler, NEW s \in Session, AskToPlay(h, s) PROVE TypeInv'
  BY <1>1 DEF AskToPlay, PlayCall
<1>2. ASSUME NEW h \in Handler, PlayUnlimited(h) PROVE TypeInv'
  BY <1>2 DEF PlayUnlimited, PlayCall, FreeHandler
<1>3. ASSUME NEW h \in Handler, CountSlots(h) PROVE TypeInv'
  BY <1>3 DEF CountSlots, PlayCall
<1>4. ASSUME NEW h \in Handler, RefuseStream(h) PROVE TypeInv'
  BY <1>4 DEF RefuseStream, PlayCall, FreeHandler
<1>5. ASSUME NEW h \in Handler, UpsertLease(h) PROVE TypeInv'
  BY <1>5 DEF UpsertLease, PlayCall, FreeHandler
<1>6. ASSUME NEW s \in Session,
             \/ PlayDownload(s) \/ ReportProgress(s) \/ Touch(s)
             \/ StopPlaying(s) \/ Vanish(s) \/ GoStale(s)
      PROVE  TypeInv'
  BY <1>6 DEF PlayDownload, ReportProgress, Touch, StopPlaying, Vanish, GoStale
<1>7. ASSUME NEW s \in Session,
             \/ SignIn(s) \/ Evict(s) \/ EndEvictedLease(s) \/ Logout(s)
             \/ RevokeElsewhere(s) \/ TokenLapses(s) \/ RenewToken(s)
      PROVE  TypeInv'
  <2>1. UNCHANGED <<limit, play, beat>> /\ limit' \in Limits
    BY <1>7 DEF SignIn, Evict, EndEvictedLease, Logout, RevokeElsewhere,
                TokenLapses, RenewToken
  <2>2. row' \in [Session -> {"absent", "live", "revoked"}]
    BY <1>7 DEF SignIn, Evict, EndEvictedLease, Logout, RevokeElsewhere,
                TokenLapses, RenewToken
  <2>3. token' \in [Session -> BOOLEAN]
    BY <1>7 DEF SignIn, Evict, EndEvictedLease, Logout, RevokeElsewhere,
                TokenLapses, RenewToken
  <2>4. lease' \in [Session -> {"none", "live", "stale", "revived", "ended"}]
    BY <1>7 DEF SignIn, Evict, EndEvictedLease, Logout, RevokeElsewhere,
                TokenLapses, RenewToken
  <2>5. player' \in [Session -> {"away", "watching"}]
    BY <1>7 DEF SignIn, Evict, EndEvictedLease, Logout, RevokeElsewhere,
                TokenLapses, RenewToken
  <2>6. evicting' \subseteq Session /\ evicted' \in [Session -> BOOLEAN]
    BY <1>7 DEF SignIn, Evict, EndEvictedLease, Logout, RevokeElsewhere,
                TokenLapses, RenewToken
  <2>7. \A q \in Session : row'[q] = "absent" =>
            row[q] = "absent" /\ player'[q] = player[q] /\ ~token'[q]
    BY <1>7 DEF SignIn, Evict, EndEvictedLease, Logout, RevokeElsewhere,
                TokenLapses, RenewToken
  <2>8. QED
    BY <2>1, <2>2, <2>3, <2>4, <2>5, <2>6, <2>7
<1>8. CASE Restart
  BY <1>8 DEF Restart, PlayCall, FreeHandler
<1>9. CASE UNCHANGED vars
  BY <1>9 DEF vars
<1>10. QED
  BY <1>1, <1>2, <1>3, <1>4, <1>5, <1>6, <1>7, <1>8, <1>9 DEF Next, Serve

(***************************************************************************)
(* Type correctness, under every fault.                                    *)
(***************************************************************************)
THEOREM TypeCorrect == Spec => []TypeOK
<1>1. TypeInv => TypeOK
  BY DEF TypeInv
<1>2. QED
  BY <1>1, TypeInit, TypeStep, PTL DEF Spec

-----------------------------------------------------------------------------
(* Counting                                                                *)

LEMMA CountedFinite == IsFiniteSet(Counted) /\ Cardinality(Counted) \in Nat
  BY SlotsAssumption, FS_Subset, FS_CardinalityType DEF Counted

\* At most one pending session per handler.
LEMMA PendingSmall ==
  /\ IsFiniteSet(Pending) /\ Cardinality(Pending) \in Nat
  /\ Cardinality(Handler) \in Nat
  /\ Cardinality(Pending) <= Cardinality(Handler)
<1> DEFINE C == {g \in Handler : play[g].stage = "counted"}
           f == [h \in C |-> play[h].of]
<1>1. IsFiniteSet(C) /\ Cardinality(C) <= Cardinality(Handler) /\ Cardinality(C) \in Nat
  BY SlotsAssumption, FS_Subset, FS_CardinalityType
<1>2. f \in Surjection(C, Pending)
  BY DEF Surjection, Pending
<1> HIDE DEF f, C
<1>3. IsFiniteSet(Pending) /\ Cardinality(Pending) <= Cardinality(C)
  BY <1>1, <1>2, FS_Surjection
<1>4. QED
  BY <1>1, <1>3, SlotsAssumption, FS_CardinalityType

LEMMA SlotsFinite ==
  IsFiniteSet(Counted \cup Pending) /\ Cardinality(Counted \cup Pending) \in Nat
  BY CountedFinite, PendingSmall, FS_Union, FS_CardinalityType

\* A step that adds no slot keeps the reservation.
LEMMA FewerSlots ==
  ASSUME TypeOK, SlotsReserved, limit' = limit,
         Counted' \cup Pending' \subseteq Counted \cup Pending
  PROVE  SlotsReserved'
<1>1. Cardinality(Counted' \cup Pending') <= Cardinality(Counted \cup Pending)
  BY SlotsFinite, FS_Subset
<1>2. Cardinality(Counted' \cup Pending') \in Nat
  BY SlotsFinite, FS_Subset, FS_CardinalityType
<1>3. limit \in Nat /\ Cardinality(Handler) \in Nat
  BY SlotsAssumption, FS_CardinalityType DEF TypeOK
<1>4. QED
  BY <1>1, <1>2, <1>3, SlotsFinite DEF SlotsReserved

\* Counting reserves one slot for a session that has none yet.
LEMMA CountReserves ==
  ASSUME TypeInv, NEW h \in Handler, CountSlots(h)
  PROVE  SlotsReserved'
<1> DEFINE s == play[h].of
           A == Counted \ {s}
           P == Pending'
<1>1. s \in P
  BY DEF CountSlots, Pending, TypeInv, TypeOK
<1>2. Counted' = Counted /\ limit' = limit
  BY DEF CountSlots, Counted
<1>3. Counted' \cup P = A \cup P
  BY <1>1, <1>2
<1>4. IsFiniteSet(P) /\ Cardinality(P) \in Nat /\ Cardinality(P) <= Cardinality(Handler)
  <2>1. /\ IsFiniteSet(Pending)' /\ (Cardinality(Pending) \in Nat)'
        /\ (Cardinality(Pending) <= Cardinality(Handler))'
    BY PendingSmall, PTL
  <2>2. QED
    BY <2>1
<1>5. IsFiniteSet(A) /\ Cardinality(A) \in Nat /\ Cardinality(A) < limit
  <2>1. IsFiniteSet(A) /\ Cardinality(A) \in Nat
    BY CountedFinite, FS_Subset, FS_CardinalityType
  <2>2. A \subseteq Live \ {s}
    BY DEF Counted, Live
  <2>3. IsFiniteSet(Live \ {s}) /\ Cardinality(Live \ {s}) \in Nat
    BY SlotsAssumption, FS_Subset, FS_CardinalityType DEF Live
  <2>4. Cardinality(A) <= Cardinality(Live \ {s})
    BY <2>2, <2>3, FS_Subset
  <2>5. Cardinality(Live \ {s}) < limit /\ limit \in Nat
    BY SlotsAssumption DEF CountSlots, TypeInv, TypeOK
  <2>6. QED
    BY <2>1, <2>3, <2>4, <2>5
<1>6. limit \in Nat /\ Cardinality(Handler) \in Nat
  BY SlotsAssumption, FS_CardinalityType DEF TypeInv, TypeOK
<1>7. Cardinality(A \cup P) = Cardinality(A) + Cardinality(P) - Cardinality(A \cap P)
  BY <1>4, <1>5, FS_Union
<1>8. Cardinality(A \cap P) \in Nat
  BY <1>5, FS_Intersection, FS_CardinalityType
<1> HIDE DEF s, A, P
<1>9. Cardinality(A \cup P) <= limit + Cardinality(Handler) - 1
  BY <1>4, <1>5, <1>6, <1>7, <1>8
<1>10. QED
  BY <1>2, <1>3, <1>9 DEF SlotsReserved, P

LEMMA ReservedStep ==
  ASSUME IInv, [Next]_vars
  PROVE  SlotsReserved'
<1> USE DEF IInv, TypeOK, CallsServeSessions, accountVars
<1>0. TypeInv
  BY DEF TypeInv
<1>1. ASSUME NEW h \in Handler, CountSlots(h) PROVE SlotsReserved'
  BY <1>0, <1>1, CountReserves
<1>2. ASSUME NEW h \in Handler, NEW s \in Session, AskToPlay(h, s) PROVE SlotsReserved'
  <2>1. limit' = limit /\ Counted' = Counted /\ Pending' \subseteq Pending
    BY <1>2 DEF AskToPlay, Counted, Pending
  <2>2. QED
    BY <2>1, FewerSlots
<1>3. ASSUME NEW h \in Handler, PlayUnlimited(h) \/ RefuseStream(h) PROVE SlotsReserved'
  <2>1. limit' = limit /\ Counted' = Counted /\ Pending' \subseteq Pending
    BY <1>3 DEF PlayUnlimited, RefuseStream, Counted, Pending, FreeHandler
  <2>2. QED
    BY <2>1, FewerSlots
<1>4. ASSUME NEW h \in Handler, UpsertLease(h) PROVE SlotsReserved'
  <2>1. limit' = limit /\ Pending' \subseteq Pending
    BY <1>4 DEF UpsertLease, Pending, FreeHandler
  <2>2. Counted' \subseteq Counted \cup Pending
    BY <1>4 DEF UpsertLease, Counted, Pending
  <2>3. QED
    BY <2>1, <2>2, FewerSlots
<1>5. ASSUME NEW s \in Session,
             \/ PlayDownload(s) \/ ReportProgress(s) \/ Touch(s)
             \/ StopPlaying(s) \/ Vanish(s) \/ GoStale(s)
      PROVE  SlotsReserved'
  <2>1. limit' = limit /\ Pending' = Pending /\ Counted' \subseteq Counted
    BY <1>5 DEF PlayDownload, ReportProgress, Touch, StopPlaying, Vanish, GoStale,
                Counted, Pending
  <2>2. QED
    BY <2>1, FewerSlots
<1>6. ASSUME NEW s \in Session,
             \/ SignIn(s) \/ Evict(s) \/ EndEvictedLease(s) \/ Logout(s)
             \/ RevokeElsewhere(s) \/ TokenLapses(s) \/ RenewToken(s)
      PROVE  SlotsReserved'
  <2>1. limit' = limit /\ Pending' = Pending /\ Counted' \subseteq Counted
    BY <1>6 DEF SignIn, Evict, EndEvictedLease, Logout, RevokeElsewhere,
                TokenLapses, RenewToken, Counted, Pending
  <2>2. QED
    BY <2>1, FewerSlots
<1>7. CASE Restart
  <2>1. limit' = limit /\ Counted' = Counted /\ Pending' \subseteq Pending
    BY <1>7 DEF Restart, Counted, Pending, FreeHandler
  <2>2. QED
    BY <2>1, FewerSlots
<1>8. CASE UNCHANGED vars
  <2>1. limit' = limit /\ Counted' = Counted /\ Pending' = Pending
    BY <1>8 DEF vars, Counted, Pending
  <2>2. QED
    BY <2>1, FewerSlots
<1>9. QED
  BY <1>1, <1>2, <1>3, <1>4, <1>5, <1>6, <1>7, <1>8 DEF Next, Serve

-----------------------------------------------------------------------------
(***************************************************************************)
(* The inductive invariant: every request about to take a slot has one     *)
(* left.                                                                   *)
(***************************************************************************)
THEOREM ReservedInvariant == Spec => []IInv
<1>1. Init => IInv
  <2> SUFFICES ASSUME Init PROVE IInv
    OBVIOUS
  <2>1. TypeInv
    BY TypeInit
  <2>3. Counted = {} /\ Pending = {}
    BY DEF Init, Counted, Pending, FreeHandler
  <2>4. Cardinality(Counted \cup Pending) = 0
    BY <2>3, FS_EmptySet
  <2>5. limit \in Nat /\ Cardinality(Handler) \in Nat
    BY SlotsAssumption, FS_CardinalityType DEF Init
  <2>6. SlotsReserved
    BY <2>4, <2>5 DEF SlotsReserved
  <2>7. QED
    BY <2>1, <2>6 DEF IInv, TypeInv
<1>2. IInv /\ [Next]_vars => IInv'
  <2> SUFFICES ASSUME IInv, [Next]_vars PROVE IInv'
    OBVIOUS
  <2>1. TypeInv /\ TypeInv'
    BY TypeStep DEF IInv, TypeInv
  <2>2. QED
    BY <2>1, ReservedStep DEF IInv, TypeInv
<1>3. QED
  BY <1>1, <1>2, PTL DEF Spec

(***************************************************************************)
(* k play calls served at once overshoot the limit by at most k - 1        *)
(* streams, not counting those whose lease was revived.                    *)
(***************************************************************************)
THEOREM OvershootIsBounded == Spec => []OvershootBounded
<1>1. IInv => OvershootBounded
  <2> SUFFICES ASSUME IInv, limit > 0
               PROVE  Cardinality(Counted) <= limit + Cardinality(Handler) - 1
    BY DEF OvershootBounded
  <2>1. Cardinality(Counted) <= Cardinality(Counted \cup Pending)
    BY SlotsFinite, FS_Subset
  <2>2. limit \in Nat /\ Cardinality(Handler) \in Nat
    BY SlotsAssumption, FS_CardinalityType DEF IInv, TypeOK
  <2>3. QED
    BY <2>1, <2>2, CountedFinite, SlotsFinite DEF IInv, SlotsReserved
<1>2. QED
  BY <1>1, ReservedInvariant, PTL

(***************************************************************************)
(* Served one at a time, play calls keep the account within its limit, as  *)
(* long as no lease comes back from being stale.                           *)
(***************************************************************************)
THEOREM OneAtATimeWithinLimit ==
  ASSUME Cardinality(Handler) = 1
  PROVE  Spec => []((\A s \in Session : lease[s] # "revived") => WithinLimit)
<1>1. TypeOK /\ OvershootBounded => ((\A s \in Session : lease[s] # "revived") => WithinLimit)
  <2> SUFFICES ASSUME TypeOK, OvershootBounded, limit > 0,
                      \A s \in Session : lease[s] # "revived"
               PROVE  Cardinality(Live) <= limit
    BY DEF WithinLimit
  <2>1. limit \in Nat /\ Live = Counted
    BY SlotsAssumption DEF TypeOK, Live, Counted
  <2>2. QED
    BY <2>1, CountedFinite DEF OvershootBounded
<1>2. QED
  BY <1>1, TypeCorrect, OvershootIsBounded, PTL

=============================================================================
