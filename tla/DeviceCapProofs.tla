--------------------------- MODULE DeviceCapProofs ---------------------------
(***************************************************************************)
(* How far concurrent sign-ins can overshoot the device cap, for any       *)
(* number of sessions, sign-ins and any cap: by at most the number of      *)
(* sign-ins served at once, less one, however often it happens, and under  *)
(* lost writes and restarts.                                               *)
(***************************************************************************)
EXTENDS DeviceCap, FiniteSetTheorems, TLAPS

LEMMA TypeInit == Init => TypeOK
  BY CapAssumption DEF Init, TypeOK, Idle, Stages, Interval

\* Actions that leave the handlers and the set of active sessions alone.
Quiet ==
  \/ \E s \in Session : Request(s) \/ RequestWriteLost(s) \/ Refresh(s)
  \/ Tick \/ UNCHANGED vars

LEMMA QuietStep ==
  ASSUME TypeOK, Quiet
  PROVE  TypeOK' /\ UNCHANGED <<cap, active, signIn>>
<1>1. UNCHANGED <<cap, active, signIn>>
  BY DEF Quiet, Request, RequestWriteLost, Refresh, Tick, vars
<1>2. seen' \in [Session -> 0..MaxAge]
  BY CapAssumption
     DEF TypeOK, Quiet, Request, RequestWriteLost, Refresh, Tick, Written, vars
<1>3. touched' \in [Session -> 0..Interval]
  BY DEF TypeOK, Quiet, Request, RequestWriteLost, Refresh, Tick, vars, Interval
<1>4. spared' \subseteq Session /\ owed' \subseteq Session
  BY DEF TypeOK, Quiet, Request, RequestWriteLost, Refresh, Tick, vars
<1>5. QED
  BY <1>1, <1>2, <1>3, <1>4 DEF TypeOK

\* A handler is given a well-formed state.
LEMMA HandlerTyped ==
  ASSUME TypeOK, NEW h \in Handler, NEW st \in Stages, NEW v \in SUBSET Session,
         st # "revoking" => v = {},
         signIn' = [signIn EXCEPT ![h] = [stage |-> st, victims |-> v]]
  PROVE  /\ signIn' \in [Handler -> [stage: Stages, victims: SUBSET Session]]
         /\ \A g \in Handler : signIn'[g].stage # "revoking" => signIn'[g].victims = {}
         /\ \A g \in Handler :
              signIn'[g] = IF g = h THEN [stage |-> st, victims |-> v] ELSE signIn[g]
  BY DEF TypeOK

LEMMA ReadTyped ==
  ASSUME TypeOK, NEW h \in Handler, ReadActive(h)
  PROVE  /\ TypeOK' /\ active' = active /\ cap' = cap
         /\ \E v \in kSubset(Surplus, active) :
              \A g \in Handler :
                signIn'[g] = IF g = h
                             THEN [stage |-> IF v = {} THEN "creating" ELSE "revoking",
                                   victims |-> v]
                             ELSE signIn[g]
<1>1. PICK v \in kSubset(Surplus, active) :
        signIn' = [signIn EXCEPT ![h] =
                     [stage |-> IF v = {} THEN "creating" ELSE "revoking", victims |-> v]]
  BY DEF ReadActive
<1> DEFINE st == IF v = {} THEN "creating" ELSE "revoking"
<1>2. v \in SUBSET Session /\ st \in Stages /\ (st # "revoking" => v = {})
  BY DEF kSubset, TypeOK, Stages
<1>3. signIn' = [signIn EXCEPT ![h] = [stage |-> st, victims |-> v]]
  BY <1>1
<1> HIDE DEF st
<1>4. /\ signIn' \in [Handler -> [stage: Stages, victims: SUBSET Session]]
      /\ \A g \in Handler : signIn'[g].stage # "revoking" => signIn'[g].victims = {}
      /\ \A g \in Handler :
              signIn'[g] = IF g = h THEN [stage |-> st, victims |-> v] ELSE signIn[g]
  BY <1>2, <1>3, HandlerTyped
<1>5. UNCHANGED <<cap, active, seen, touched, spared, owed>>
  BY DEF ReadActive
<1>6. TypeOK'
  BY <1>4, <1>5 DEF TypeOK
<1>7. \A g \in Handler :
        signIn'[g] = IF g = h
                     THEN [stage |-> IF v = {} THEN "creating" ELSE "revoking",
                           victims |-> v]
                     ELSE signIn[g]
  BY <1>4 DEF st
<1>8. QED
  BY <1>5, <1>6, <1>7

LEMMA RevokeTyped ==
  ASSUME TypeOK, NEW h \in Handler, RevokeVictims(h)
  PROVE  /\ TypeOK' /\ active' = active \ signIn[h].victims /\ cap' = cap
         /\ \A g \in Handler :
              signIn'[g] = IF g = h THEN [stage |-> "creating", victims |-> {}]
                                    ELSE signIn[g]
<1>1. /\ signIn' \in [Handler -> [stage: Stages, victims: SUBSET Session]]
      /\ \A g \in Handler : signIn'[g].stage # "revoking" => signIn'[g].victims = {}
      /\ \A g \in Handler :
              signIn'[g] = IF g = h THEN [stage |-> "creating", victims |-> {}]
                                    ELSE signIn[g]
  <2>1. signIn' = [signIn EXCEPT ![h] = [stage |-> "creating", victims |-> {}]]
    BY DEF RevokeVictims
  <2>2. QED
    BY <2>1 DEF TypeOK, Stages
<1>2. QED
  BY <1>1 DEF RevokeVictims, TypeOK

LEMMA CreateTyped ==
  ASSUME TypeOK, NEW h \in Handler, CreateSession(h)
  PROVE  /\ TypeOK' /\ cap' = cap
         /\ \E s \in Session \ active :
              /\ \A g \in Handler : s \notin signIn[g].victims
              /\ active' = active \cup {s}
         /\ \A g \in Handler : signIn'[g] = IF g = h THEN Idle ELSE signIn[g]
<1>1. /\ signIn' \in [Handler -> [stage: Stages, victims: SUBSET Session]]
      /\ \A g \in Handler : signIn'[g].stage # "revoking" => signIn'[g].victims = {}
      /\ \A g \in Handler :
              signIn'[g] = IF g = h THEN [stage |-> "free", victims |-> {}]
                                    ELSE signIn[g]
  <2>1. signIn' = [signIn EXCEPT ![h] = [stage |-> "free", victims |-> {}]]
    BY DEF CreateSession, Idle
  <2>2. QED
    BY <2>1 DEF TypeOK, Stages
<1>2. PICK s \in Session \ active :
        /\ \A g \in Handler : s \notin signIn[g].victims
        /\ active' = active \cup {s}
        /\ seen' = [seen EXCEPT ![s] = 0]
        /\ touched' = [touched EXCEPT ![s] = Interval]
        /\ spared' = spared \ {s} /\ owed' = owed \ {s}
  BY DEF CreateSession
<1>3. seen' \in [Session -> 0..MaxAge] /\ touched' \in [Session -> 0..Interval]
  BY <1>2, CapAssumption DEF TypeOK, Interval
<1>4. cap' = cap
  BY DEF CreateSession
<1>5. TypeOK'
  BY <1>1, <1>2, <1>3, <1>4 DEF TypeOK
<1>6. QED
  BY <1>1, <1>2, <1>4, <1>5 DEF Idle

LEMMA EndTyped ==
  ASSUME TypeOK, NEW s \in Session, EndSession(s)
  PROVE  TypeOK' /\ active' = active \ {s} /\ UNCHANGED <<cap, signIn>>
  BY DEF EndSession, TypeOK

LEMMA RestartTyped ==
  ASSUME TypeOK, Restart
  PROVE  TypeOK' /\ UNCHANGED <<cap, active>> /\ signIn' = [h \in Handler |-> Idle]
  BY DEF Restart, TypeOK, Idle, Stages, Interval

\* Every step is one of these.
LEMMA Steps ==
  ASSUME [Next]_vars
  PROVE  \/ Quiet \/ Restart
         \/ \E h \in Handler : ReadActive(h) \/ RevokeVictims(h) \/ CreateSession(h)
         \/ \E s \in Session : EndSession(s)
  BY DEF Next, Quiet

LEMMA TypeStep == TypeOK /\ [Next]_vars => TypeOK'
BY Steps, QuietStep, RestartTyped, ReadTyped, RevokeTyped, CreateTyped, EndTyped

(***************************************************************************)
(* Type correctness, under every fault.                                    *)
(***************************************************************************)
THEOREM TypeCorrect == Spec => []TypeOK
BY TypeStep, TypeInit, PTL DEF Spec

-----------------------------------------------------------------------------
(* The reservation argument                                                *)

Bound == cap + Cardinality(Handler) - 1
RoomFor(Q) == Cardinality(active \ Doomed(Q)) + Cardinality(Coming(Q)) <= Bound

\* The sets being counted are finite.
LEMMA Finite ==
  ASSUME TypeOK
  PROVE  /\ cap \in Nat /\ Cardinality(Handler) \in Nat
         /\ \A A \in SUBSET Session : IsFiniteSet(A) /\ Cardinality(A) \in Nat
         /\ \A C \in SUBSET Handler :
              /\ IsFiniteSet(C) /\ Cardinality(C) \in Nat
              /\ Cardinality(C) <= Cardinality(Handler)
<1>1. cap \in Nat /\ Cardinality(Handler) \in Nat
  BY CapAssumption, FS_CardinalityType DEF TypeOK
<1>2. ASSUME NEW A \in SUBSET Session PROVE IsFiniteSet(A) /\ Cardinality(A) \in Nat
  BY CapAssumption, FS_Subset, FS_CardinalityType
<1>3. ASSUME NEW C \in SUBSET Handler
      PROVE  /\ IsFiniteSet(C) /\ Cardinality(C) \in Nat
             /\ Cardinality(C) <= Cardinality(Handler)
  BY CapAssumption, FS_Subset, FS_CardinalityType
<1>4. QED
  BY <1>1, <1>2, <1>3

\* Fewer active sessions and fewer newcomers leave room.
LEMMA LessIsFine ==
  ASSUME TypeOK, NEW A \in SUBSET Session, NEW C \in SUBSET Handler,
         NEW A2 \in SUBSET A, NEW C2 \in SUBSET C,
         Cardinality(A) + Cardinality(C) <= Bound
  PROVE  Cardinality(A2) + Cardinality(C2) <= Bound
<1>1. A2 \in SUBSET Session /\ C2 \in SUBSET Handler
  OBVIOUS
<1>2. Cardinality(A2) <= Cardinality(A) /\ Cardinality(C2) <= Cardinality(C)
  BY Finite, FS_Subset
<1>3. /\ Cardinality(A) \in Nat /\ Cardinality(C) \in Nat
      /\ Cardinality(A2) \in Nat /\ Cardinality(C2) \in Nat
      /\ Bound \in Int
  BY <1>1, Finite DEF Bound
<1>4. QED
  BY <1>2, <1>3

\* After a list has been read, carrying it out makes room for every handler.
LEMMA ReadMakesRoom ==
  ASSUME TypeOK, cap > 0, NEW v \in kSubset(Surplus, active)
  PROVE  \A C \in SUBSET Handler :
           Cardinality(active \ v) + Cardinality(C) <= Bound
<1>1. active \in SUBSET Session /\ v \in SUBSET active /\ Cardinality(v) = Surplus
  BY DEF kSubset, TypeOK
<1>2. active \cap v = v /\ IsFiniteSet(active) /\ Cardinality(active) \in Nat
  BY <1>1, Finite
<1>3. Cardinality(active \ v) = Cardinality(active) - Cardinality(v)
  BY <1>2, FS_Difference
<1>4. Cardinality(active \ v) <= cap - 1
  BY <1>1, <1>2, <1>3, Finite DEF Surplus
<1>5. Cardinality(active \ v) \in Nat
  BY <1>1, Finite
<1>6. QED
  BY <1>4, <1>5, Finite DEF Bound

LEMMA ReadStep ==
  ASSUME IInv, cap > 0, NEW h \in Handler, ReadActive(h), NEW Q \in SUBSET (Revoking')
  PROVE  RoomFor(Q)'
<1>1. TypeOK /\ TypeOK' /\ active' = active /\ cap' = cap
  BY ReadTyped DEF IInv
<1>2. PICK v \in kSubset(Surplus, active) :
        \A g \in Handler :
          signIn'[g] = IF g = h
                       THEN [stage |-> IF v = {} THEN "creating" ELSE "revoking",
                             victims |-> v]
                       ELSE signIn[g]
  BY ReadTyped DEF IInv
<1>3. v \in SUBSET active
  BY DEF kSubset
<1>4. Coming(Q)' \in SUBSET Handler /\ Q \in SUBSET Handler
  BY DEF Coming, Revoking
<1>5. CASE h \in Q \/ h \in Coming(Q)'
  <2>1. v \subseteq Doomed(Q)'
    <3>1. /\ signIn'[h].victims = v
          /\ signIn'[h].stage = IF v = {} THEN "creating" ELSE "revoking"
      <4>1. signIn'[h] = [stage |-> IF v = {} THEN "creating" ELSE "revoking",
                          victims |-> v]
        BY <1>2
      <4>2. QED
        BY <4>1
    <3>2. CASE h \in Q
      BY <3>1, <3>2 DEF Doomed
    <3>3. CASE h \in Coming(Q)'
      <4>1. CASE v = {}
        BY <4>1
      <4>2. CASE v # {}
        <5>1. signIn'[h].victims \cap active' \subseteq Doomed(Q)'
          BY <3>1, <3>3, <4>2 DEF Coming
        <5>2. QED
          BY <1>1, <1>3, <3>1, <5>1
      <4>3. QED
        BY <4>1, <4>2
    <3>4. QED
      BY <1>5, <3>2, <3>3
  <2>2. active \ v \in SUBSET Session
    BY <1>1 DEF TypeOK
  <2>3. active' \ Doomed(Q)' \in SUBSET (active \ v)
    BY <1>1, <2>1
  <2>4. Cardinality(active \ v) + Cardinality(Coming(Q)') <= Bound
    BY <1>1, <1>4, ReadMakesRoom
  <2>5. Cardinality(active' \ Doomed(Q)') + Cardinality(Coming(Q)') <= Bound
    BY <1>1, <1>4, <2>2, <2>3, <2>4, LessIsFine
  <2>6. QED
    BY <1>1, <2>5 DEF RoomFor, Bound
<1>6. CASE h \notin Q /\ h \notin Coming(Q)'
  <2>1. Q \in SUBSET Revoking
    BY <1>2, <1>4, <1>6 DEF Revoking
  <2>2. Doomed(Q)' = Doomed(Q)
    BY <1>2, <1>4, <1>6 DEF Doomed
  <2>3. Coming(Q)' \in SUBSET Coming(Q) /\ Coming(Q) \in SUBSET Handler
    BY <1>1, <1>2, <1>6, <2>2 DEF Coming
  <2>4. Cardinality(active \ Doomed(Q)) + Cardinality(Coming(Q)) <= Bound
    BY <2>1 DEF IInv, RoomReserved, Bound
  <2>5. active \ Doomed(Q) \in SUBSET Session
    BY <1>1 DEF TypeOK
  <2>6. Cardinality(active \ Doomed(Q)) + Cardinality(Coming(Q)') <= Bound
    BY <1>1, <2>3, <2>4, <2>5, LessIsFine
  <2>7. QED
    BY <1>1, <2>2, <2>6 DEF RoomFor, Bound
<1>7. QED
  BY <1>5, <1>6

LEMMA RevokeStep ==
  ASSUME IInv, cap > 0, NEW h \in Handler, RevokeVictims(h), NEW Q \in SUBSET (Revoking')
  PROVE  RoomFor(Q)'
<1> DEFINE R == Q \cup {h}
<1>1. /\ TypeOK /\ TypeOK' /\ active' = active \ signIn[h].victims /\ cap' = cap
      /\ \A g \in Handler :
           signIn'[g] = IF g = h THEN [stage |-> "creating", victims |-> {}]
                                 ELSE signIn[g]
  BY RevokeTyped DEF IInv
<1>2. Q \in SUBSET Handler /\ h \notin Q /\ R \in SUBSET Revoking
  BY <1>1 DEF Revoking, RevokeVictims
<1>3. Doomed(Q)' = Doomed(Q) /\ Doomed(R) = Doomed(Q) \cup signIn[h].victims
  BY <1>1, <1>2 DEF Doomed
<1>4. active' \ Doomed(Q)' = active \ Doomed(R)
  BY <1>1, <1>3
<1>5. Coming(Q)' \in SUBSET Coming(R) /\ Coming(R) \in SUBSET Handler
  <2>1. ASSUME NEW g \in Handler, g \in Coming(Q)' PROVE g \in Coming(R)
    <3>1. CASE g = h
      BY <1>2, <1>3, <3>1 DEF Coming, Revoking
    <3>2. CASE g # h
      BY <1>1, <1>3, <2>1, <3>2 DEF Coming
    <3>3. QED
      BY <3>1, <3>2
  <2>2. QED
    BY <2>1 DEF Coming
<1>6. Cardinality(active \ Doomed(R)) + Cardinality(Coming(R)) <= Bound
  BY <1>2 DEF IInv, RoomReserved, Bound
<1>7. active \ Doomed(R) \in SUBSET Session
  BY <1>1 DEF TypeOK
<1> DEFINE A == active \ Doomed(R)
           C == Coming(R)
           D == Coming(Q)'
<1>8. Cardinality(A) + Cardinality(D) <= Bound
  <2>1. /\ A \in SUBSET Session /\ A \in SUBSET A
        /\ C \in SUBSET Handler /\ D \in SUBSET C
        /\ Cardinality(A) + Cardinality(C) <= Bound
    BY <1>5, <1>6, <1>7
  <2> HIDE DEF A, C, D, R
  <2>2. QED
    BY <1>1, <2>1, LessIsFine
<1>9. QED
  BY <1>1, <1>4, <1>8 DEF RoomFor, Bound

LEMMA CreateStep ==
  ASSUME IInv, cap > 0, NEW h \in Handler, CreateSession(h), NEW Q \in SUBSET (Revoking')
  PROVE  RoomFor(Q)'
<1>1. /\ TypeOK /\ TypeOK' /\ cap' = cap
      /\ \A g \in Handler : signIn'[g] = IF g = h THEN Idle ELSE signIn[g]
  BY CreateTyped DEF IInv
<1>2. PICK s \in Session \ active :
        /\ \A g \in Handler : s \notin signIn[g].victims
        /\ active' = active \cup {s}
  BY CreateTyped DEF IInv
<1>3. Q \in SUBSET Revoking /\ Q \in SUBSET Handler /\ h \notin Q
  BY <1>1 DEF Revoking, Idle
<1>4. Doomed(Q)' = Doomed(Q)
  BY <1>1, <1>3 DEF Doomed
<1> DEFINE A == active \ Doomed(Q)
           C == Coming(Q)
<1>5. active' \ Doomed(Q)' \in SUBSET (A \cup {s})
  BY <1>2, <1>4
<1>6. C \in SUBSET Handler /\ h \in C /\ Coming(Q)' \in SUBSET (C \ {h})
  <2>1. h \in C
    BY DEF Coming, CreateSession
  <2>2. h \notin Coming(Q)'
    BY <1>1 DEF Coming, Idle
  <2>3. ASSUME NEW g \in Handler, g # h, g \in Coming(Q)' PROVE g \in C
    BY <1>1, <1>2, <1>4, <2>3 DEF Coming
  <2>4. QED
    BY <2>1, <2>2, <2>3 DEF Coming
<1>7. A \in SUBSET Session /\ A \cup {s} \in SUBSET Session /\ C \ {h} \in SUBSET Handler
  BY <1>1, <1>6 DEF TypeOK
<1>8. Cardinality(A) + Cardinality(C) <= Bound
  BY <1>3 DEF IInv, RoomReserved, Bound
<1> HIDE DEF A, C
<1>9. /\ IsFiniteSet(A) /\ Cardinality(A) \in Nat
      /\ IsFiniteSet(C) /\ Cardinality(C) \in Nat
  BY <1>1, <1>6, <1>7, Finite
<1>10. Cardinality(A \cup {s}) <= Cardinality(A) + 1 /\ Cardinality(A \cup {s}) \in Nat
  BY <1>1, <1>7, <1>9, Finite, FS_AddElement
<1>11. Cardinality(C \ {h}) = Cardinality(C) - 1
  BY <1>6, <1>9, FS_RemoveElement
<1>12. Bound \in Int
  BY <1>1, Finite DEF Bound
<1>13. Cardinality(A \cup {s}) + Cardinality(C \ {h}) <= Bound
  BY <1>8, <1>9, <1>10, <1>11, <1>12
<1>14. Cardinality(active' \ Doomed(Q)') + Cardinality(Coming(Q)') <= Bound
  BY <1>1, <1>5, <1>6, <1>7, <1>13, LessIsFine
<1>15. QED
  BY <1>1, <1>14 DEF RoomFor, Bound

LEMMA EndStep ==
  ASSUME IInv, cap > 0, NEW s \in Session, EndSession(s), NEW Q \in SUBSET (Revoking')
  PROVE  RoomFor(Q)'
<1>1. TypeOK /\ TypeOK' /\ active' = active \ {s} /\ cap' = cap /\ signIn' = signIn
  BY EndTyped DEF IInv
<1>2. Q \in SUBSET Revoking /\ Q \in SUBSET Handler /\ Doomed(Q)' = Doomed(Q)
  BY <1>1 DEF Revoking, Doomed
<1>3. \E R \in SUBSET Revoking :
        /\ active' \ Doomed(Q) \in SUBSET (active \ Doomed(R))
        /\ Coming(Q)' \in SUBSET Coming(R)
  <2>1. CASE \E r \in Revoking :
               s \in signIn[r].victims /\ signIn[r].victims \cap active \subseteq Doomed(Q) \cup {s}
    <3>1. PICK r \in Revoking :
               s \in signIn[r].victims /\ signIn[r].victims \cap active \subseteq Doomed(Q) \cup {s}
      BY <2>1
    <3> DEFINE R == Q \cup {r}
    <3>2. R \in SUBSET Revoking /\ Doomed(R) = Doomed(Q) \cup signIn[r].victims
      BY <1>2, <3>1 DEF Doomed
    <3>3. active' \ Doomed(Q) \in SUBSET (active \ Doomed(R))
      BY <1>1, <3>1, <3>2
    <3>4. ASSUME NEW g \in Handler, g \in Coming(Q)' PROVE g \in Coming(R)
      <4>1. CASE signIn[g].stage = "creating"
        BY <4>1 DEF Coming
      <4>2. CASE signIn[g].stage # "creating"
        <5>1. signIn[g].stage = "revoking" /\ signIn[g].victims \cap active' \subseteq Doomed(Q)
          BY <1>1, <1>2, <3>4, <4>2 DEF Coming
        <5>2. signIn[g].victims \cap active \subseteq Doomed(R)
          BY <1>1, <3>1, <3>2, <5>1
        <5>3. QED
          BY <5>1, <5>2 DEF Coming
      <4>3. QED
        BY <4>1, <4>2
    <3>5. Coming(Q)' \in SUBSET Coming(R)
      BY <3>4 DEF Coming
    <3>6. QED
      BY <3>2, <3>3, <3>5
  <2>2. CASE ~\E r \in Revoking :
               s \in signIn[r].victims /\ signIn[r].victims \cap active \subseteq Doomed(Q) \cup {s}
    <3>1. active' \ Doomed(Q) \in SUBSET (active \ Doomed(Q))
      BY <1>1
    <3>2. ASSUME NEW g \in Handler, g \in Coming(Q)' PROVE g \in Coming(Q)
      <4>1. CASE signIn[g].stage = "creating"
        BY <4>1 DEF Coming
      <4>2. CASE signIn[g].stage # "creating"
        <5>1. signIn[g].stage = "revoking" /\ signIn[g].victims \cap active' \subseteq Doomed(Q)
          BY <1>1, <1>2, <3>2, <4>2 DEF Coming
        <5>2. g \in Revoking /\ signIn[g].victims \cap active \subseteq Doomed(Q) \cup {s}
          BY <1>1, <5>1 DEF Revoking
        <5>3. s \notin signIn[g].victims
          BY <2>2, <5>2
        <5>4. QED
          BY <1>1, <5>1, <5>3 DEF Coming
      <4>3. QED
        BY <4>1, <4>2
    <3>3. Coming(Q)' \in SUBSET Coming(Q)
      BY <3>2 DEF Coming
    <3>4. QED
      BY <1>2, <3>1, <3>3
  <2>3. QED
    BY <2>1, <2>2
<1>4. PICK R \in SUBSET Revoking :
        /\ active' \ Doomed(Q) \in SUBSET (active \ Doomed(R))
        /\ Coming(Q)' \in SUBSET Coming(R)
  BY <1>3
<1>5. Cardinality(active \ Doomed(R)) + Cardinality(Coming(R)) <= Bound
  BY DEF IInv, RoomReserved, Bound
<1>6. active \ Doomed(R) \in SUBSET Session /\ Coming(R) \in SUBSET Handler
  BY <1>1 DEF TypeOK, Coming
<1>7. Cardinality(active' \ Doomed(Q)) + Cardinality(Coming(Q)') <= Bound
  BY <1>1, <1>4, <1>5, <1>6, LessIsFine
<1>8. QED
  BY <1>1, <1>2, <1>7 DEF RoomFor, Bound

\* With no list pending, what is counted is the active sessions themselves.
LEMMA NothingDoomed ==
  ASSUME IInv, cap > 0
  PROVE  Cardinality(active) + Cardinality(Coming({})) <= Bound
<1>1. active \ Doomed({}) = active
  BY DEF Doomed
<1>2. {} \in SUBSET Revoking
  OBVIOUS
<1>3. Cardinality(active \ Doomed({})) + Cardinality(Coming({})) <= Bound
  BY <1>2 DEF IInv, RoomReserved, Bound
<1>4. QED
  BY <1>1, <1>3

LEMMA RestartStep ==
  ASSUME IInv, cap > 0, Restart, NEW Q \in SUBSET (Revoking')
  PROVE  RoomFor(Q)'
<1>1. TypeOK /\ TypeOK' /\ UNCHANGED <<cap, active>> /\ signIn' = [h \in Handler |-> Idle]
  BY RestartTyped DEF IInv
<1>2. Coming(Q)' = {}
  BY <1>1 DEF Coming, Idle
<1>3. active' \ Doomed(Q)' \in SUBSET active /\ active \in SUBSET Session
  BY <1>1 DEF TypeOK
<1>4. Coming({}) \in SUBSET Handler /\ Coming(Q)' \in SUBSET Coming({})
  BY <1>2 DEF Coming
<1>5. Cardinality(active' \ Doomed(Q)') + Cardinality(Coming(Q)') <= Bound
  BY <1>1, <1>3, <1>4, NothingDoomed, LessIsFine
<1>6. QED
  BY <1>1, <1>5 DEF RoomFor, Bound

(***************************************************************************)
(* The inductive invariant: every sign-in under way has its room under the *)
(* bound, whatever stale list it still carries out.                        *)
(***************************************************************************)
THEOREM ReservedInvariant == Spec => []IInv
<1>1. Init => IInv
  <2> SUFFICES ASSUME Init PROVE IInv
    OBVIOUS
  <2>1. TypeOK
    BY TypeInit
  <2>2. ASSUME cap > 0, NEW Q \in SUBSET Revoking
        PROVE  Cardinality(active \ Doomed(Q)) + Cardinality(Coming(Q))
                 <= cap + Cardinality(Handler) - 1
    <3>1. active \ Doomed(Q) = {} /\ Coming(Q) = {}
      BY DEF Init, Coming, Idle
    <3>2. QED
      BY <2>1, <2>2, <3>1, Finite, FS_EmptySet
  <2>3. QED
    BY <2>1, <2>2 DEF IInv, RoomReserved
<1>2. IInv /\ [Next]_vars => IInv'
  <2> SUFFICES ASSUME IInv, [Next]_vars PROVE IInv'
    OBVIOUS
  <2>1. TypeOK'
    BY Steps, QuietStep, RestartTyped, ReadTyped, RevokeTyped, CreateTyped, EndTyped
       DEF IInv
  <2>2. cap' = cap
    BY Steps, QuietStep, RestartTyped, ReadTyped, RevokeTyped, CreateTyped, EndTyped
       DEF IInv
  <2>3. ASSUME cap > 0, NEW Q \in SUBSET (Revoking') PROVE RoomFor(Q)'
    <3>1. CASE Quiet
      <4>1. UNCHANGED <<cap, active, signIn>>
        BY <3>1, QuietStep DEF IInv
      <4>2. QED
        BY <2>3, <4>1 DEF IInv, RoomReserved, RoomFor, Bound, Revoking, Doomed, Coming
    <3>2. CASE Restart
      BY <2>3, <3>2, RestartStep
    <3>3. CASE \E h \in Handler : ReadActive(h)
      BY <2>3, <3>3, ReadStep
    <3>4. CASE \E h \in Handler : RevokeVictims(h)
      BY <2>3, <3>4, RevokeStep
    <3>5. CASE \E h \in Handler : CreateSession(h)
      BY <2>3, <3>5, CreateStep
    <3>6. CASE \E s \in Session : EndSession(s)
      BY <2>3, <3>6, EndStep
    <3>7. QED
      BY <3>1, <3>2, <3>3, <3>4, <3>5, <3>6, Steps
  <2>4. RoomReserved'
    BY <2>2, <2>3 DEF RoomReserved, RoomFor, Bound
  <2>5. QED
    BY <2>1, <2>4 DEF IInv
<1>3. QED
  BY <1>1, <1>2, PTL DEF Spec

(***************************************************************************)
(* k sign-ins served together overshoot the device cap by at most k - 1,   *)
(* and repeating it does not add up.                                       *)
(***************************************************************************)
THEOREM OvershootIsBounded == Spec => []OvershootBounded
<1>1. IInv => OvershootBounded
  <2> SUFFICES ASSUME IInv, cap > 0
               PROVE  Cardinality(active) <= cap + Cardinality(Handler) - 1
    BY DEF OvershootBounded
  <2>1. TypeOK /\ active \in SUBSET Session /\ Coming({}) \in SUBSET Handler
    BY DEF IInv, TypeOK, Coming
  <2>2. Cardinality(active) \in Nat /\ Cardinality(Coming({})) \in Nat
    BY <2>1, Finite
  <2>3. QED
    BY <2>1, <2>2, Finite, NothingDoomed DEF Bound
<1>2. QED
  BY <1>1, ReservedInvariant, PTL

(***************************************************************************)
(* Served one at a time, sign-ins respect the device cap.                  *)
(***************************************************************************)
THEOREM OneAtATimeWithinCap ==
  ASSUME Cardinality(Handler) = 1 PROVE Spec => []WithinCap
<1>1. TypeOK /\ OvershootBounded => WithinCap
  <2> SUFFICES ASSUME TypeOK, OvershootBounded, cap > 0 PROVE Cardinality(active) <= cap
    BY DEF WithinCap
  <2>1. Cardinality(active) \in Nat /\ cap \in Nat
    BY Finite DEF TypeOK
  <2>2. QED
    BY <2>1 DEF OvershootBounded
<1>2. QED
  BY <1>1, TypeCorrect, OvershootIsBounded, PTL

(***************************************************************************)
(* Why a session that answers requests looks active: the map skips a write *)
(* only within an interval of one the row accepted, and the row refuses one *)
(* only when it is no older than an interval.                              *)
(***************************************************************************)
NoStaleMap ==
    \A s \in active \ owed :
        touched[s] < Interval \/ s \in spared => seen[s] <= touched[s] + Interval

LEMMA NoStaleMapStep == TypeOK /\ NoStaleMap /\ [Next]_vars => NoStaleMap'
<1> SUFFICES ASSUME TypeOK, NoStaleMap, [Next]_vars, NEW s \in active' \ owed',
                    touched'[s] < Interval \/ s \in spared'
             PROVE  seen'[s] <= touched'[s] + Interval
  BY DEF NoStaleMap
<1> USE DEF Interval
<1>1. s \in Session /\ seen[s] \in Nat /\ touched[s] \in 0..2
  BY TypeStep DEF TypeOK
<1>2. ASSUME s \in active \ owed, touched[s] < 2 \/ s \in spared
      PROVE  seen[s] <= touched[s] + 2
  BY <1>2 DEF NoStaleMap
<1>3. ASSUME NEW h \in Handler, CreateSession(h) PROVE seen'[s] <= touched'[s] + 2
  BY <1>1, <1>2, <1>3 DEF CreateSession, TypeOK
<1>4. ASSUME NEW r \in Session, Request(r) \/ RequestWriteLost(r) \/ Refresh(r)
      PROVE  seen'[s] <= touched'[s] + 2
  <2>1. CASE r = s
    <3>1. CASE Request(r)
      BY <1>1, <1>2, <2>1, <3>1 DEF Request, TouchDue, Written, TypeOK
    <3>2. CASE RequestWriteLost(r)
      BY <2>1, <3>2 DEF RequestWriteLost
    <3>3. CASE Refresh(r)
      BY <1>1, <2>1, <3>3 DEF Refresh, TypeOK
    <3>4. QED
      BY <1>4, <3>1, <3>2, <3>3
  <2>2. CASE r # s
    <3>1. seen'[s] = seen[s] /\ touched'[s] = touched[s]
      BY <1>1, <1>4, <2>2 DEF Request, RequestWriteLost, Refresh, TypeOK
    <3>2. s \in active \ owed /\ (s \in spared' => s \in spared)
      BY <1>4, <2>2 DEF Request, RequestWriteLost, Refresh
    <3>3. QED
      BY <1>1, <1>2, <3>1, <3>2
  <2>3. QED
    BY <2>1, <2>2
<1>5. CASE Tick
  <2>1. /\ seen'[s] = IF seen[s] < MaxAge THEN seen[s] + 1 ELSE MaxAge
        /\ touched'[s] = IF touched[s] < 2 THEN touched[s] + 1 ELSE 2
    BY <1>1, <1>5 DEF Tick
  <2>2. touched'[s] < 2 /\ s \in active \ owed
    BY <1>5 DEF Tick
  <2>3. touched[s] < 2 /\ touched'[s] = touched[s] + 1
    BY <1>1, <2>1, <2>2
  <2>4. seen'[s] <= seen[s] + 1
    BY <1>1, <2>1, CapAssumption DEF TypeOK
  <2>5. seen'[s] \in Nat
    BY <1>1, <2>1, CapAssumption
  <2>6. QED
    BY <1>1, <1>2, <2>2, <2>3, <2>4, <2>5
<1>6. CASE Restart
  BY <1>1, <1>2, <1>6 DEF Restart, TypeOK
<1>7. ASSUME UNCHANGED <<seen, touched, spared, owed>>, active' \subseteq active
      PROVE  seen'[s] <= touched'[s] + 2
  BY <1>1, <1>2, <1>7
<1>8. ASSUME NEW h \in Handler, ReadActive(h) \/ RevokeVictims(h)
      PROVE  seen'[s] <= touched'[s] + 2
  BY <1>7, <1>8 DEF ReadActive, RevokeVictims
<1>9. ASSUME NEW r \in Session, EndSession(r) PROVE seen'[s] <= touched'[s] + 2
  BY <1>7, <1>9 DEF EndSession
<1>10. CASE UNCHANGED vars
  BY <1>7, <1>10 DEF vars
<1>11. QED
  BY <1>3, <1>4, <1>5, <1>6, <1>8, <1>9, <1>10 DEF Next

(***************************************************************************)
(* A session that answers requests never looks more than two intervals old, *)
(* whatever the map forgets and whenever it was last written, unless its   *)
(* last due write was lost.                                                *)
(***************************************************************************)
THEOREM ActiveNeverLooksStale == Spec => []ActiveLooksActive
<1>1. Init => NoStaleMap
  BY DEF Init, NoStaleMap
<1>2. TypeOK /\ NoStaleMap => ActiveLooksActive
  <2> SUFFICES ASSUME TypeOK, NoStaleMap, NEW s \in (active \cap spared) \ owed
               PROVE  seen[s] <= 2 * Interval
    BY DEF ActiveLooksActive
  <2>1. seen[s] \in Nat /\ touched[s] \in 0..2
    BY DEF TypeOK, Interval
  <2>2. QED
    BY <2>1 DEF NoStaleMap, Interval
<1>3. QED
  BY <1>1, <1>2, NoStaleMapStep, TypeCorrect, PTL DEF Spec

=============================================================================
