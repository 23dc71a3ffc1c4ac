-------------------------- MODULE SignInCodesProofs --------------------------
(***************************************************************************)
(* Proofs about SignInCodes, for any number of codes, requests served at   *)
(* once and limits.  A code that is no longer open is held only by the     *)
(* verifications that read it while it was, and each of them signs in at   *)
(* most once; a limit is exceeded only by requests that had passed it      *)
(* together.                                                               *)
(***************************************************************************)
EXTENDS SignInCodes, FiniteSetTheorems, WellFoundedInduction, TLAPS

-----------------------------------------------------------------------------
(* Counting                                                                *)

\* The handlers are finitely many, and so is every set of them.
LEMMA HandlersFinite ==
    /\ IsFiniteSet(Handler) /\ Cardinality(Handler) \in Nat
    /\ \A S \in SUBSET Handler : /\ IsFiniteSet(S) /\ Cardinality(S) \in Nat
                                 /\ Cardinality(S) <= Cardinality(Handler)
<1>1. IsFiniteSet(Handler)
  BY CodesAssumption
<1>2. Cardinality(Handler) \in Nat
  BY <1>1, FS_CardinalityType
<1>3. ASSUME NEW S \in SUBSET Handler
      PROVE  IsFiniteSet(S) /\ Cardinality(S) \in Nat /\ Cardinality(S) <= Cardinality(Handler)
  BY <1>1, FS_Subset, FS_CardinalityType
<1> QED BY <1>1, <1>2, <1>3

\* A part of a set of handlers is no larger, and smaller by one without one.
LEMMA FewerHandlers ==
    ASSUME NEW S \in SUBSET Handler, NEW R \in SUBSET S
    PROVE  /\ Cardinality(R) <= Cardinality(S)
           /\ Cardinality(R) \in Nat /\ Cardinality(S) \in Nat
           /\ \A h \in S : h \notin R => Cardinality(R) + 1 <= Cardinality(S)
<1>1. IsFiniteSet(S)
  BY HandlersFinite
<1>2. Cardinality(R) <= Cardinality(S) /\ Cardinality(R) \in Nat /\ Cardinality(S) \in Nat
  BY <1>1, FS_Subset, FS_CardinalityType
<1>3. ASSUME NEW h \in S, h \notin R PROVE Cardinality(R) + 1 <= Cardinality(S)
  <2>1. IsFiniteSet(S \ {h}) /\ Cardinality(S \ {h}) = Cardinality(S) - 1
    BY <1>1, FS_RemoveElement
  <2>2. R \subseteq S \ {h}
    BY <1>3
  <2>3. Cardinality(R) <= Cardinality(S \ {h})
    BY <2>1, <2>2, FS_Subset
  <2> QED BY <2>1, <2>3, <1>2
<1> QED BY <1>2, <1>3

\* One more handler makes a set larger by at most one.
LEMMA OneMoreHandler ==
    ASSUME NEW S \in SUBSET Handler, NEW R \in SUBSET Handler, NEW h \in Handler,
           R \subseteq S \cup {h}
    PROVE  Cardinality(R) <= Cardinality(S) + 1
<1>1. IsFiniteSet(S) /\ IsFiniteSet(R)
  BY HandlersFinite
<1>2. /\ IsFiniteSet(S \cup {h})
      /\ Cardinality(S \cup {h}) = IF h \in S THEN Cardinality(S) ELSE Cardinality(S) + 1
  BY <1>1, FS_AddElement
<1>3. Cardinality(R) <= Cardinality(S \cup {h})
  BY <1>2, FS_Subset
<1>4. Cardinality(R) \in Nat /\ Cardinality(S) \in Nat
  BY <1>1, FS_CardinalityType
<1> QED BY <1>2, <1>3, <1>4

\* The codes are finitely many.
LEMMA CodesFinite ==
    ASSUME NEW S \in SUBSET Code
    PROVE  IsFiniteSet(S) /\ Cardinality(S) \in Nat
<1>1. IsFiniteSet(Code)
  BY CodesAssumption, FS_Interval DEF Code
<1> QED BY <1>1, FS_Subset, FS_CardinalityType

-----------------------------------------------------------------------------
(* Types                                                                   *)

\* The records a handler's slot is set to are slots.
LEMMA SlotsTyped ==
    /\ Idle \in Slot
    /\ \A st \in Stages, c \in Code \cup {None} : AtCode(st, c) \in Slot
    /\ \A st \in Stages, c \in Code \cup {None}, L \in SUBSET Code : Holding(st, L, c) \in Slot
    /\ \A st \in Stages, c \in Code \cup {None}, w \in 0..MaxPeople : About(st, c, w) \in Slot
<1>1. 0 \in 0..MaxPeople
  BY CodesAssumption
<1>2. "idle" \in Stages
  BY DEF Stages, Plain
<1>3. Idle \in Slot
  BY <1>1, <1>2 DEF Idle, Slot
<1>4. ASSUME NEW st \in Stages, NEW c \in Code \cup {None} PROVE AtCode(st, c) \in Slot
  BY <1>1, <1>4 DEF AtCode, Slot
<1>5. ASSUME NEW st \in Stages, NEW c \in Code \cup {None}, NEW L \in SUBSET Code
      PROVE  Holding(st, L, c) \in Slot
  BY <1>1, <1>5 DEF Holding, Slot
<1>6. ASSUME NEW st \in Stages, NEW c \in Code \cup {None}, NEW w \in 0..MaxPeople
      PROVE  About(st, c, w) \in Slot
  BY <1>1, <1>6 DEF About, Slot
<1> QED BY <1>3, <1>4, <1>5, <1>6

\* What Becomes(h, r) makes of the slots, field by field.
LEMMA SlotSet ==
    ASSUME hnd \in [Handler -> Slot], NEW h \in Handler, NEW r \in Slot, Becomes(h, r)
    PROVE  /\ hnd' \in [Handler -> Slot]
           /\ hnd'[h] = r
           /\ \A g \in Handler \ {h} : hnd'[g] = hnd[g]
BY DEF Becomes

\* The stages that actions name.
LEMMA StagesNamed ==
    {"idle", "allowed", "started", "refused", "special", "retired", "asking", "unmatched",
     "matched", "entering", "issuing", "sending", "sendingLast", "converting",
     "deleting"} \subseteq Stages
BY DEF Stages, Comparing, Entering, Plain

\* Among some codes there is a newest one.
LEMMA NewestExists == ASSUME NEW S \in SUBSET Code, S # {} PROVE \E c \in S : Newest(c, S)
<1> DEFINE T == {m \in Nat : \E c \in S : m = MaxCodes - c}
<1>1. T \subseteq Nat /\ T # {}
  <2>1. PICK c \in S : TRUE
    OBVIOUS
  <2>2. MaxCodes - c \in Nat
    BY <2>1, CodesAssumption DEF Code
  <2> QED BY <2>1, <2>2
<1>2. PICK m \in T : \A k \in T : <<k, m>> \notin OpToRel(<, Nat)
  BY <1>1, WFMin, NatLessThanWellFounded, Zenon
<1>3. \A k \in T : ~(k < m)
  BY <1>2, Zenon DEF OpToRel
<1>4. PICK c \in S : m = MaxCodes - c
  BY <1>2
<1>5. ASSUME NEW d \in S PROVE d <= c
  <2>1. MaxCodes - d \in T /\ c \in Int /\ d \in Int
    BY <1>5, CodesAssumption DEF Code
  <2>2. ~(MaxCodes - d < MaxCodes - c)
    BY <1>3, <1>4, <2>1
  <2> QED BY <2>1, <2>2, CodesAssumption
<1> QED BY <1>4, <1>5 DEF Newest

\* The fields of a typed slot.
LEMMA SlotFields ==
    ASSUME hnd \in [Handler -> Slot], NEW h \in Handler
    PROVE  /\ hnd[h] \in Slot /\ hnd[h].stage \in Stages /\ hnd[h].live \in SUBSET Code
           /\ hnd[h].code \in Code \cup {None} /\ hnd[h].who \in 0..MaxPeople
BY DEF Slot

-----------------------------------------------------------------------------
(* Type correctness and the shape of the requests                          *)

\* Every action keeps every variable in its type.
LEMMA TypeStep == ASSUME TypeOK, HandlerShape, CurrentAccount, [Next]_vars PROVE TypeOK'
<1> USE CodesAssumption
<1>0. hnd \in [Handler -> Slot]
  BY DEF TypeOK
<1>1. ASSUME NEW h \in Handler, RequestStep(h) PROVE TypeOK'
  <2>1. CASE EnforceOtpLimits(h)
    BY <2>1, SlotsTyped, StagesNamed, SlotSet DEF EnforceOtpLimits, TypeOK, codeVars, userVars
  <2>2. CASE StartVerify(h)
    <3>1. hnd' \in [Handler -> Slot]
      BY <2>2, <1>0, SlotsTyped, StagesNamed, SlotSet DEF StartVerify
    <3>2. remote' \in BOOLEAN
      BY <2>2 DEF StartVerify, TypeOK
    <3> QED BY <2>2, <3>1, <3>2 DEF StartVerify, TypeOK, codeVars, userVars
  <2>3. CASE RecordVerify(h)
    <3>1. hnd' \in [Handler -> Slot]
      BY <2>3, <1>0, SlotsTyped, SlotSet DEF RecordVerify, Ends
    <3> QED BY <2>3, <3>1 DEF RecordVerify, CreateCode, TypeOK, codeVars, userVars
  <2>4. CASE CreateOtp(h)
    <3>1. hnd' \in [Handler -> Slot]
      BY <2>4, <1>0, SlotsTyped, StagesNamed, SlotSet DEF CreateOtp
    <3> QED BY <2>4, <3>1 DEF CreateOtp, CreateCode, TypeOK, codeVars, userVars
  <2>5. CASE SendOtp(h)
    <3>1. hnd' \in [Handler -> Slot]
      BY <2>5, <1>0, SlotsTyped, SlotSet DEF SendOtp, Ends
    <3> QED BY <2>5, <3>1 DEF SendOtp, TypeOK, codeVars, userVars
  <2>6. CASE StartVerifyLast(h)
    <3>1. hnd' \in [Handler -> Slot]
      BY <2>6, <1>0, SlotFields, SlotsTyped, StagesNamed, SlotSet DEF StartVerifyLast
    <3> QED BY <2>6, <3>1 DEF StartVerifyLast, TypeOK, codeVars, userVars
  <2>7. CASE ConvertToVerify(h)
    <3>1. hnd' \in [Handler -> Slot]
      BY <2>7, <1>0, SlotsTyped, SlotSet DEF ConvertToVerify, Ends
    <3> QED BY <2>7, <3>1 DEF ConvertToVerify, TypeOK, userVars
  <2> QED BY <1>1, <2>1, <2>2, <2>3, <2>4, <2>5, <2>6, <2>7 DEF RequestStep
<1>2. ASSUME NEW h \in Handler, VerifyStep(h) PROVE TypeOK'
  <2>1. CASE ReadCodes(h)
    <3>1. Live \in SUBSET Code /\ AtTwilio \in SUBSET Code
      BY DEF Live, Open, AtTwilio
    <3>2. hnd' \in [Handler -> Slot]
      BY <2>1, <1>0, <3>1, SlotsTyped, StagesNamed, SlotSet DEF ReadCodes
    <3> QED BY <2>1, <3>2 DEF ReadCodes, TypeOK, codeVars, userVars
  <2>2. CASE AskTwilio(h)
    <3>1. hnd' \in [Handler -> Slot]
      BY <2>2, <1>0, SlotFields, SlotsTyped, StagesNamed, SlotSet DEF AskTwilio
    <3>2. remote' \in BOOLEAN
      BY <2>2 DEF AskTwilio, TypeOK
    <3> QED BY <2>2, <3>1, <3>2 DEF AskTwilio, TypeOK, codeVars, userVars
  <2>3. CASE MatchSpecial(h)
    <3>1. hnd' \in [Handler -> Slot]
      BY <2>3, <1>0, SlotsTyped, StagesNamed, SlotSet DEF MatchSpecial
    <3> QED BY <2>3, <3>1 DEF MatchSpecial, TypeOK, codeVars, userVars
  <2>4. CASE ChargeGuess(h)
    <3>1. hnd' \in [Handler -> Slot]
      BY <2>4, <1>0, SlotsTyped, SlotSet DEF ChargeGuess, Ends
    <3>2. attempts' \in [Code -> Nat]
      BY <2>4 DEF ChargeGuess, TypeOK
    <3> QED BY <2>4, <3>1, <3>2 DEF ChargeGuess, TypeOK, userVars
  <2>5. CASE ConsumeCodes(h)
    <3>1. hnd' \in [Handler -> Slot]
      BY <2>5, <1>0, SlotFields, SlotsTyped, StagesNamed, SlotSet DEF ConsumeCodes
    <3> QED BY <2>5, <3>1 DEF ConsumeCodes, ConsumeAll, TypeOK, userVars
  <2>6. CASE UpsertUser(h)
    <3>0. person \in 0..MaxPeople /\ (person < MaxPeople => person + 1 \in 0..MaxPeople)
      BY DEF TypeOK
    <3>a. "issuing" \in Stages /\ hnd[h].code \in Code \cup {None}
      BY <1>0, SlotFields, StagesNamed
    <3>b. /\ About("issuing", hnd[h].code, person) \in Slot /\ Idle \in Slot
          /\ person < MaxPeople => About("issuing", hnd[h].code, person + 1) \in Slot
      BY <3>0, <3>a, SlotsTyped
    <3>1. hnd' \in [Handler -> Slot]
      BY <2>6, <1>0, <3>b, SlotSet DEF UpsertUser, Ends
    <3>2. person' \in 0..MaxPeople /\ status' \in {"none", "active", "banned"}
      BY <2>6 DEF UpsertUser, TypeOK
    <3> QED BY <2>6, <3>1, <3>2 DEF UpsertUser, TypeOK, codeVars
  <2>7. CASE EnterSpecially(h)
    <3>1. hnd' \in [Handler -> Slot]
      BY <2>7, <1>0, SlotsTyped, StagesNamed, SlotSet DEF EnterSpecially, Ends, TypeOK
    <3> QED BY <2>7, <3>1 DEF EnterSpecially, ConsumeAll, TypeOK, userVars
  <2>8. CASE IssueSession(h)
    <3>1. hnd' \in [Handler -> Slot]
      BY <2>8, <1>0, SlotsTyped, SlotSet DEF IssueSession, Ends
    <3>2. inside' \subseteq People
      BY <2>8 DEF IssueSession, HandlerShape, SlotShape, At, TypeOK
    <3>3. opened' \in [Code -> Nat]
      <4>1. CASE hnd[h].code = None
        BY <2>8, <4>1 DEF IssueSession, TypeOK
      <4>2. CASE hnd[h].code # None
        BY <2>8, <4>2, <1>0, SlotFields DEF IssueSession, TypeOK
      <4> QED BY <4>1, <4>2
    <3> QED BY <2>8, <3>1, <3>2, <3>3 DEF IssueSession, TypeOK, codeVars
  <2> QED BY <1>2, <2>1, <2>2, <2>3, <2>4, <2>5, <2>6, <2>7, <2>8 DEF VerifyStep
<1>3. ASSUME NEW h \in Handler, AccountStep(h) PROVE TypeOK'
  <2>1. CASE RetireCodes(h)
    <3>1. hnd' \in [Handler -> Slot]
      BY <2>1, <1>0, SlotsTyped, StagesNamed, SlotSet DEF RetireCodes
    <3> QED BY <2>1, <3>1 DEF RetireCodes, ConsumeAll, TypeOK, userVars
  <2>2. CASE CreateRecovery(h)
    <3>1. hnd' \in [Handler -> Slot]
      BY <2>2, <1>0, SlotsTyped, SlotSet DEF CreateRecovery, Ends
    <3> QED BY <2>2, <3>1 DEF CreateRecovery, CreateCode, TypeOK, userVars
  <2>3. CASE AskDeletion(h)
    <3>1. \A w \in inside : w \in 0..MaxPeople
      BY DEF TypeOK, People
    <3>2. hnd' \in [Handler -> Slot]
      BY <2>3, <1>0, <3>1, SlotsTyped, StagesNamed, SlotSet DEF AskDeletion
    <3> QED BY <2>3, <3>2 DEF AskDeletion, TypeOK, codeVars, userVars
  <2>4. CASE DeleteAccount(h)
    <3>1. hnd' \in [Handler -> Slot]
      BY <2>4, <1>0, SlotsTyped, SlotSet DEF DeleteAccount, Ends
    <3>2. deleted' \subseteq People /\ inside' \subseteq People
      BY <2>4 DEF DeleteAccount, HandlerShape, SlotShape, At, TypeOK
    <3> QED BY <2>4, <3>1, <3>2 DEF DeleteAccount, DeletedRows, TypeOK
  <2> QED BY <1>3, <2>1, <2>2, <2>3, <2>4 DEF AccountStep
<1>4. CASE SetStatus
  BY <1>4 DEF SetStatus, TypeOK, codeVars
<1>5. ASSUME NEW c \in Code, GrowOlder(c) PROVE TypeOK'
  <2>1. age' \in [Code -> Ages]
    BY <1>5 DEF GrowOlder, TypeOK, Ages, Oldest
  <2> QED BY <1>5, <2>1 DEF GrowOlder, TypeOK, userVars
<1>6. CASE Restart
  BY <1>6, SlotsTyped DEF Restart, TypeOK, codeVars, userVars
<1>7. CASE UNCHANGED vars
  BY <1>7 DEF vars, codeVars, userVars, TypeOK
<1> QED BY <1>1, <1>2, <1>3, <1>4, <1>5, <1>6, <1>7 DEF Next

-----------------------------------------------------------------------------
(* What a step does to the codes                                           *)

\* Rows only move on: a row that is not open never becomes so again.
RowsMoveOn ==
    /\ \A c \in Code : row[c] # "absent" => row'[c] # "absent"
    /\ \A c \in Code : row[c] \notin {"absent", "open"} => row'[c] \notin {"absent", "open"}

\* A step that leaves the slots of all but one request alone, whose new
\* contents hold only what the old did and what is open.
Narrows(h, r) ==
    /\ Becomes(h, r)
    /\ \A c \in r.live : c \in hnd[h].live \/ c \in Live
    /\ r.stage \in Entering /\ r.code # None =>
         \/ row[r.code] = "open"
         \/ r.code \in hnd[h].live
         \/ hnd[h].stage \in Entering /\ hnd[h].code = r.code

\* Any step on the requests narrows one of them, or drops them all.
HandlersStep ==
    \/ \E h \in Handler, r \in Slot : Narrows(h, r)
    \/ hnd' = [h \in Handler |-> Idle]
    \/ hnd' = hnd

\* Every step moves rows on.
LEMMA RowsStep == ASSUME TypeOK, [Next]_vars PROVE RowsMoveOn
<1>1. ASSUME NEW h \in Handler, RequestStep(h) PROVE RowsMoveOn
  <2>1. CASE RecordVerify(h)
    BY <2>1 DEF RecordVerify, CreateCode, RowsMoveOn, TypeOK
  <2>2. CASE CreateOtp(h)
    BY <2>2 DEF CreateOtp, CreateCode, RowsMoveOn, TypeOK
  <2>3. CASE ConvertToVerify(h)
    BY <2>3 DEF ConvertToVerify, RowsMoveOn
  <2> QED
    BY <1>1, <2>1, <2>2, <2>3
    DEF RequestStep, EnforceOtpLimits, StartVerify, SendOtp, StartVerifyLast, codeVars, RowsMoveOn
<1>2. ASSUME NEW h \in Handler, VerifyStep(h) PROVE RowsMoveOn
  <2>1. CASE ConsumeCodes(h)
    BY <2>1 DEF ConsumeCodes, ConsumeAll, RowsMoveOn
  <2>2. CASE EnterSpecially(h)
    BY <2>2 DEF EnterSpecially, ConsumeAll, RowsMoveOn
  <2> QED
    BY <1>2, <2>1, <2>2
    DEF VerifyStep, ReadCodes, AskTwilio, MatchSpecial, ChargeGuess, UpsertUser, IssueSession,
        codeVars, RowsMoveOn
<1>3. ASSUME NEW h \in Handler, AccountStep(h) PROVE RowsMoveOn
  <2>1. CASE RetireCodes(h)
    BY <2>1 DEF RetireCodes, ConsumeAll, RowsMoveOn
  <2>2. CASE CreateRecovery(h)
    BY <2>2 DEF CreateRecovery, CreateCode, RowsMoveOn, TypeOK
  <2>3. CASE DeleteAccount(h)
    BY <2>3 DEF DeleteAccount, DeletedRows, RowsMoveOn
  <2> QED
    BY <1>3, <2>1, <2>2, <2>3 DEF AccountStep, AskDeletion, codeVars, RowsMoveOn
<1>4. ASSUME SetStatus \/ Restart \/ UNCHANGED vars \/ (\E c \in Code : GrowOlder(c)) PROVE RowsMoveOn
  BY <1>4 DEF SetStatus, Restart, GrowOlder, vars, codeVars, RowsMoveOn
<1> QED BY <1>1, <1>2, <1>3, <1>4 DEF Next

\* Every step narrows one request, drops them all, or leaves them alone.
LEMMA NarrowStep == ASSUME TypeOK, HandlerShape, [Next]_vars PROVE HandlersStep
<1>0. hnd \in [Handler -> Slot] /\ Idle \in Slot
  BY SlotsTyped DEF TypeOK
<1>1. ASSUME NEW h \in Handler, NEW r \in Slot, Becomes(h, r), r.live = {}, r.stage \notin Entering
      PROVE  HandlersStep
  BY <1>1 DEF HandlersStep, Narrows
<1>2. /\ Idle.live = {} /\ Idle.stage \notin Entering
      /\ \A st, c : AtCode(st, c).live = {} /\ AtCode(st, c).stage = st /\ AtCode(st, c).code = c
      /\ \A st, c, w : About(st, c, w).live = {} /\ About(st, c, w).stage = st
                        /\ About(st, c, w).code = c
      /\ \A st, c, L : Holding(st, L, c).live = L /\ Holding(st, L, c).stage = st
  BY DEF Idle, AtCode, About, Holding, Entering
<1>3. ASSUME NEW h \in Handler, Ends(h) PROVE HandlersStep
  BY <1>0, <1>1, <1>2, <1>3 DEF Ends
<1>4. ASSUME NEW h \in Handler, NEW st \in Stages, NEW c \in Code \cup {None},
             Becomes(h, AtCode(st, c)), st \notin Entering
      PROVE  HandlersStep
  BY <1>1, <1>2, <1>4, SlotsTyped
<1>e. /\ {"allowed", "started", "refused", "special", "retired", "sending", "sendingLast",
           "converting", "deleting", "asking", "unmatched"} \cap Entering = {}
      /\ {"matched", "entering", "issuing"} = Entering
  BY DEF Entering
<1>5. ASSUME NEW h \in Handler, RequestStep(h) PROVE HandlersStep
  <2>1. CASE EnforceOtpLimits(h)
    BY <2>1, <1>4, <1>e, StagesNamed DEF EnforceOtpLimits
  <2>2. CASE StartVerify(h)
    BY <2>2, <1>4, <1>e, StagesNamed DEF StartVerify
  <2>3. CASE RecordVerify(h)
    BY <2>3, <1>3 DEF RecordVerify
  <2>4. CASE CreateOtp(h)
    BY <2>4, <1>4, <1>e, StagesNamed DEF CreateOtp
  <2>5. CASE SendOtp(h)
    BY <2>5, <1>3 DEF SendOtp
  <2>6. CASE StartVerifyLast(h)
    BY <2>6, <1>0, <1>4, <1>e, StagesNamed, SlotFields DEF StartVerifyLast
  <2>7. CASE ConvertToVerify(h)
    BY <2>7, <1>3 DEF ConvertToVerify
  <2> QED BY <1>5, <2>1, <2>2, <2>3, <2>4, <2>5, <2>6, <2>7 DEF RequestStep
<1>6. ASSUME NEW h \in Handler, VerifyStep(h) PROVE HandlersStep
  <2>0. hnd[h].live \in SUBSET Code /\ hnd[h].code \in Code \cup {None}
    BY <1>0, SlotFields
  <2>1. CASE ReadCodes(h)
    <3>1. \A c \in Live : row[c] = "open" /\ c \in Code
      BY DEF Live, Open
    <3>2. ASSUME NEW c \in Live, Becomes(h, AtCode("matched", c)) PROVE HandlersStep
      <4>1. AtCode("matched", c) \in Slot
        BY <3>1, SlotsTyped, StagesNamed
      <4> QED BY <4>1, <3>1, <3>2, <1>2 DEF HandlersStep, Narrows
    <3>3. ASSUME NEW c \in Code \cup {None}, NEW st \in {"asking", "unmatched"},
                 Becomes(h, Holding(st, Live, c))
          PROVE  HandlersStep
      <4>1. Holding(st, Live, c) \in Slot
        BY <3>1, SlotsTyped, StagesNamed
      <4> QED BY <4>1, <3>1, <3>3, <1>2, <1>e DEF HandlersStep, Narrows
    <3> QED BY <2>1, <3>2, <3>3 DEF ReadCodes
  <2>2. CASE AskTwilio(h)
    <3>1. CASE Becomes(h, Holding("unmatched", hnd[h].live, None))
      <4>1. Holding("unmatched", hnd[h].live, None) \in Slot
        BY <2>0, SlotsTyped, StagesNamed
      <4> QED BY <4>1, <3>1, <1>2, <1>e DEF HandlersStep, Narrows
    <3>2. CASE Becomes(h, AtCode("matched", hnd[h].code))
      <4>1. AtCode("matched", hnd[h].code) \in Slot /\ hnd[h].code \in hnd[h].live
        BY <2>0, <2>2, SlotsTyped, StagesNamed DEF HandlerShape, SlotShape, At, AskTwilio
      <4> QED BY <4>1, <3>2, <1>2 DEF HandlersStep, Narrows
    <3> QED BY <2>2, <3>1, <3>2 DEF AskTwilio
  <2>3. CASE MatchSpecial(h)
    BY <2>3, <1>4, <1>e, StagesNamed DEF MatchSpecial
  <2>4. CASE ChargeGuess(h)
    BY <2>4, <1>3 DEF ChargeGuess
  <2>5. CASE ConsumeCodes(h)
    <3>1. AtCode("entering", hnd[h].code) \in Slot
      BY <2>0, SlotsTyped, StagesNamed
    <3> QED BY <3>1, <2>5, <1>2 DEF HandlersStep, Narrows, ConsumeCodes, At, Entering
  <2>6. CASE UpsertUser(h)
    <3>1. ASSUME NEW w \in 0..MaxPeople, Becomes(h, About("issuing", hnd[h].code, w))
          PROVE  HandlersStep
      <4>1. About("issuing", hnd[h].code, w) \in Slot
        BY <2>0, SlotsTyped, StagesNamed
      <4> QED BY <4>1, <3>1, <2>6, <1>2 DEF HandlersStep, Narrows, UpsertUser, At, Entering
    <3>2. person \in 0..MaxPeople /\ (person < MaxPeople => person + 1 \in 0..MaxPeople)
      BY CodesAssumption DEF TypeOK
    <3> QED BY <2>6, <3>1, <3>2, <1>3 DEF UpsertUser
  <2>7. CASE EnterSpecially(h)
    <3>1. ASSUME Becomes(h, About("issuing", None, person)) PROVE HandlersStep
      <4>1. About("issuing", None, person) \in Slot
        BY SlotsTyped, StagesNamed DEF TypeOK
      <4> QED BY <4>1, <3>1, <1>2 DEF HandlersStep, Narrows
    <3> QED BY <2>7, <3>1, <1>3 DEF EnterSpecially
  <2>8. CASE IssueSession(h)
    BY <2>8, <1>3 DEF IssueSession
  <2> QED BY <1>6, <2>1, <2>2, <2>3, <2>4, <2>5, <2>6, <2>7, <2>8 DEF VerifyStep
<1>7. ASSUME NEW h \in Handler, AccountStep(h) PROVE HandlersStep
  <2>1. CASE AskDeletion(h)
    <3>1. \A w \in inside : w \in 0..MaxPeople
      BY DEF TypeOK, People
    <3>2. PICK w \in inside : Becomes(h, About("deleting", None, w))
      BY <2>1 DEF AskDeletion
    <3>3. About("deleting", None, w) \in Slot
      BY <3>1, SlotsTyped, StagesNamed
    <3> QED BY <3>2, <3>3, <1>1, <1>2, <1>e
  <2>2. CASE RetireCodes(h)
    BY <2>2, <1>4, <1>e, StagesNamed DEF RetireCodes
  <2> QED BY <1>7, <2>1, <2>2, <1>3 DEF AccountStep, CreateRecovery, DeleteAccount
<1>8. ASSUME SetStatus \/ Restart \/ UNCHANGED vars \/ (\E c \in Code : GrowOlder(c))
      PROVE  HandlersStep
  BY <1>8 DEF SetStatus, Restart, GrowOlder, vars, HandlersStep
<1> QED BY <1>5, <1>6, <1>7, <1>8 DEF Next

-----------------------------------------------------------------------------
(* The shape of the requests                                               *)

\* The slots a step does not touch keep their shape.
LEMMA OtherSlots ==
    ASSUME TypeOK, HandlerShape, RowsMoveOn, TypeOK',
           NEW h \in Handler, NEW r \in Slot, Becomes(h, r), SlotShape(r, row')
    PROVE  HandlerShape'
<1>1. ASSUME NEW g \in Handler \ {h} PROVE SlotShape(hnd'[g], row')
  <2>1. hnd'[g] = hnd[g] /\ SlotShape(hnd[g], row) /\ hnd[g] \in Slot
    BY <1>1, SlotSet DEF TypeOK, HandlerShape
  <2>2. hnd[g].code \in Code /\ row[hnd[g].code] \in {"consumed", "deleted"}
          => row'[hnd[g].code] \in {"consumed", "deleted"}
    BY DEF RowsMoveOn, TypeOK
  <2>3. hnd[g].code \in Code \cup {None}
    BY <2>1 DEF Slot
  <2> QED BY <2>1, <2>2, <2>3 DEF SlotShape
<1>2. SlotShape(hnd'[h], row')
  <2>1. hnd'[h] = r
    BY SlotSet DEF TypeOK
  <2> QED BY <2>1 DEF SlotShape
<1> QED BY <1>1, <1>2 DEF HandlerShape

\* Every step keeps the shape of the requests.
LEMMA ShapeStep == ASSUME IInv, [Next]_vars, TypeOK', RowsMoveOn PROVE HandlerShape'
<1>0. /\ TypeOK /\ HandlerShape /\ HeldCodes /\ CurrentAccount
      /\ hnd \in [Handler -> Slot] /\ Idle \in Slot
  BY SlotsTyped DEF IInv, TypeOK
<1>1. ASSUME NEW h \in Handler, Ends(h) PROVE HandlerShape'
  <2>1. SlotShape(Idle, row')
    BY DEF SlotShape, Idle
  <2> QED BY <2>1, <1>0, <1>1, OtherSlots DEF Ends
<1>2. ASSUME NEW h \in Handler, NEW st \in Plain, Becomes(h, AtCode(st, None)) PROVE HandlerShape'
  <2>1. SlotShape(AtCode(st, None), row') /\ AtCode(st, None) \in Slot
    BY SlotsTyped DEF SlotShape, AtCode, Plain, Stages
  <2> QED BY <2>1, <1>0, <1>2, OtherSlots
<1>3. ASSUME NEW h \in Handler, NEW st \in {"sending", "sendingLast", "converting", "matched"},
             NEW c \in Code, Becomes(h, AtCode(st, c))
      PROVE  HandlerShape'
  <2>1. SlotShape(AtCode(st, c), row')
    BY DEF SlotShape, AtCode
  <2>2. AtCode(st, c) \in Slot
    BY SlotsTyped, StagesNamed
  <2> QED BY <2>1, <2>2, <1>0, <1>3, OtherSlots
<1>p. {"allowed", "started", "refused", "special", "retired"} \subseteq Plain
  BY DEF Plain
<1>4. ASSUME NEW h \in Handler, RequestStep(h) PROVE HandlerShape'
  <2>1. CASE EnforceOtpLimits(h)
    BY <2>1, <1>2, <1>p DEF EnforceOtpLimits
  <2>2. CASE StartVerify(h)
    BY <2>2, <1>2, <1>p DEF StartVerify
  <2>3. CASE CreateOtp(h)
    BY <2>3, <1>3 DEF CreateOtp
  <2>4. CASE StartVerifyLast(h)
    <3>1. hnd[h].code \in Code
      BY <2>4, <1>0 DEF StartVerifyLast, HandlerShape, SlotShape, At
    <3> QED BY <2>4, <3>1, <1>3 DEF StartVerifyLast
  <2> QED
    BY <1>4, <2>1, <2>2, <2>3, <2>4, <1>1 DEF RequestStep, RecordVerify, SendOtp, ConvertToVerify
<1>5. ASSUME NEW h \in Handler, VerifyStep(h) PROVE HandlerShape'
  <2>1. CASE ReadCodes(h)
    <3>1. ASSUME NEW c \in Live \ AtTwilio, Becomes(h, AtCode("matched", c)) PROVE HandlerShape'
      BY <3>1, <1>3 DEF Live, Open
    <3>2. ASSUME NEW c \in Code, Newest(c, AtTwilio), Becomes(h, Holding("asking", Live, c))
          PROVE  HandlerShape'
      <4>1. SlotShape(Holding("asking", Live, c), row')
        BY <3>2 DEF SlotShape, Holding, Comparing, Newest, AtTwilio
      <4>2. Holding("asking", Live, c) \in Slot
        BY SlotsTyped, StagesNamed DEF Live, Open
      <4> QED BY <4>1, <4>2, <3>2, <1>0, OtherSlots
    <3>3. ASSUME Becomes(h, Holding("unmatched", Live, None)) PROVE HandlerShape'
      <4>1. SlotShape(Holding("unmatched", Live, None), row')
        BY DEF SlotShape, Holding, Comparing
      <4>2. Holding("unmatched", Live, None) \in Slot
        BY SlotsTyped, StagesNamed DEF Live, Open
      <4> QED BY <4>1, <4>2, <3>3, <1>0, OtherSlots
    <3> QED BY <2>1, <3>1, <3>2, <3>3 DEF ReadCodes
  <2>2. CASE AskTwilio(h)
    <3>0. hnd[h].live \in SUBSET Code /\ hnd[h].code \in hnd[h].live
      BY <2>2, <1>0, SlotFields DEF AskTwilio, HandlerShape, SlotShape, At
    <3>1. ASSUME Becomes(h, Holding("unmatched", hnd[h].live, None)) PROVE HandlerShape'
      <4>1. SlotShape(Holding("unmatched", hnd[h].live, None), row')
        BY DEF SlotShape, Holding, Comparing
      <4>2. Holding("unmatched", hnd[h].live, None) \in Slot
        BY <3>0, SlotsTyped, StagesNamed
      <4> QED BY <4>1, <4>2, <3>1, <1>0, OtherSlots
    <3> QED BY <2>2, <3>0, <3>1, <1>3 DEF AskTwilio
  <2>3. CASE MatchSpecial(h)
    BY <2>3, <1>2, <1>p DEF MatchSpecial
  <2>4. CASE ConsumeCodes(h)
    <3> DEFINE c == hnd[h].code
    <3>1. c \in Code /\ h \in Holders(c)
      BY <2>4, <1>0 DEF ConsumeCodes, HandlerShape, SlotShape, At, Holders, Entering
    <3>2. row[c] # "absent" /\ row[c] \in {"absent", "open", "consumed", "deleted"}
      BY <3>1, <1>0 DEF HeldCodes, TypeOK
    <3>3. row'[c] \in {"consumed", "deleted"}
      BY <2>4, <3>1, <3>2 DEF ConsumeCodes, ConsumeAll
    <3>4. SlotShape(AtCode("entering", c), row')
      BY <3>1, <3>3 DEF SlotShape, AtCode, Comparing
    <3>5. AtCode("entering", c) \in Slot
      BY <3>1, SlotsTyped, StagesNamed
    <3> QED BY <2>4, <3>4, <3>5, <1>0, OtherSlots DEF ConsumeCodes
  <2>5. CASE UpsertUser(h)
    <3>1. /\ hnd[h].code \in Code /\ row[hnd[h].code] \in {"consumed", "deleted"}
          /\ row' = row
      BY <2>5, <1>0, CodesAssumption DEF UpsertUser, HandlerShape, SlotShape, At, codeVars
    <3>2. ASSUME NEW w \in People, Becomes(h, About("issuing", hnd[h].code, w)) PROVE HandlerShape'
      <4>1. SlotShape(About("issuing", hnd[h].code, w), row')
        BY <3>1, <3>2 DEF SlotShape, About, Comparing
      <4>2. About("issuing", hnd[h].code, w) \in Slot
        BY <3>1, <3>2, SlotsTyped, StagesNamed DEF People
      <4> QED BY <4>1, <4>2, <3>2, <1>0, OtherSlots
    <3>3. /\ person < MaxPeople => person + 1 \in People
          /\ status = "active" => person \in People
      BY <1>0, CodesAssumption DEF TypeOK, CurrentAccount, People
    <3> QED BY <2>5, <3>2, <3>3, <1>1 DEF UpsertUser
  <2>6. CASE EnterSpecially(h)
    <3>1. ASSUME status = "active", Becomes(h, About("issuing", None, person)) PROVE HandlerShape'
      <4>1. person \in People /\ person \in 0..MaxPeople
        BY <3>1, <1>0, CodesAssumption DEF TypeOK, CurrentAccount, People
      <4>2. SlotShape(About("issuing", None, person), row')
        BY <4>1 DEF SlotShape, About, Comparing
      <4>3. About("issuing", None, person) \in Slot
        BY <4>1, SlotsTyped, StagesNamed
      <4> QED BY <4>2, <4>3, <3>1, <1>0, OtherSlots
    <3> QED BY <2>6, <3>1, <1>1 DEF EnterSpecially
  <2> QED
    BY <1>5, <2>1, <2>2, <2>3, <2>4, <2>5, <2>6, <1>1 DEF VerifyStep, ChargeGuess, IssueSession
<1>6. ASSUME NEW h \in Handler, AccountStep(h) PROVE HandlerShape'
  <2>1. CASE RetireCodes(h)
    BY <2>1, <1>2, <1>p DEF RetireCodes
  <2>2. CASE AskDeletion(h)
    <3>1. PICK w \in inside : Becomes(h, About("deleting", None, w))
      BY <2>2 DEF AskDeletion
    <3>2. w \in People /\ w \in 0..MaxPeople
      BY <1>0 DEF TypeOK, People
    <3>3. SlotShape(About("deleting", None, w), row')
      BY <3>2 DEF SlotShape, About, Comparing
    <3>4. About("deleting", None, w) \in Slot
      BY <3>2, SlotsTyped, StagesNamed
    <3> QED BY <3>1, <3>3, <3>4, <1>0, OtherSlots
  <2> QED BY <1>6, <2>1, <2>2, <1>1 DEF AccountStep, CreateRecovery, DeleteAccount
<1>7. ASSUME hnd' = hnd PROVE HandlerShape'
  <2>1. \A g \in Handler : hnd[g] \in Slot /\ SlotShape(hnd[g], row)
    BY <1>0 DEF HandlerShape
  <2>2. \A c \in Code : row[c] \in {"consumed", "deleted"} => row'[c] \in {"consumed", "deleted"}
    BY DEF RowsMoveOn, TypeOK
  <2> QED BY <1>7, <2>1, <2>2 DEF HandlerShape, SlotShape, Slot
<1>8. CASE Restart
  <2>1. \A h \in Handler : hnd'[h] = Idle
    BY <1>8 DEF Restart
  <2> QED BY <2>1 DEF HandlerShape, SlotShape, Idle
<1> QED BY <1>4, <1>5, <1>6, <1>7, <1>8 DEF Next, SetStatus, GrowOlder, vars

-----------------------------------------------------------------------------
(* Who holds a code                                                        *)

\* A code that is not open gains no holders; one that is not live, no guesses.
LEMMA HoldersShrink ==
    ASSUME hnd \in [Handler -> Slot], HandlersStep, NEW c \in Code
    PROVE  /\ row[c] # "open" => Holders(c)' \subseteq Holders(c)
           /\ c \notin Live => Guessing(c)' \subseteq Guessing(c)
<1>0. c \in Live => row[c] = "open"
  BY DEF Live, Open
<1>1. ASSUME NEW h \in Handler, NEW r \in Slot, Narrows(h, r)
      PROVE  /\ row[c] # "open" => Holders(c)' \subseteq Holders(c)
             /\ c \notin Live => Guessing(c)' \subseteq Guessing(c)
  <2>1. hnd'[h] = r /\ (\A g \in Handler \ {h} : hnd'[g] = hnd[g])
    BY <1>1, SlotSet DEF Narrows
  <2>2. None \notin Code
    BY CodesAssumption DEF Code
  <2>3. \A d \in r.live : d \in hnd[h].live \/ d \in Live
    BY <1>1 DEF Narrows
  <2>4. r.stage \in Entering /\ r.code # None =>
          row[r.code] = "open" \/ r.code \in hnd[h].live
            \/ (hnd[h].stage \in Entering /\ hnd[h].code = r.code)
    BY <1>1 DEF Narrows
  <2>5. ASSUME c \notin Live PROVE Guessing(c)' \subseteq Guessing(c)
    BY <2>1, <2>3, <2>5 DEF Guessing
  <2>6. ASSUME row[c] # "open" PROVE Holders(c)' \subseteq Holders(c)
    BY <1>0, <2>1, <2>2, <2>3, <2>4, <2>6 DEF Holders
  <2> QED BY <2>5, <2>6
<1>2. ASSUME hnd' = [h \in Handler |-> Idle]
      PROVE  Holders(c)' = {} /\ Guessing(c)' = {}
  BY <1>2 DEF Holders, Guessing, Idle, Entering
<1>3. ASSUME hnd' = hnd PROVE Holders(c)' = Holders(c) /\ Guessing(c)' = Guessing(c)
  BY <1>3 DEF Holders, Guessing
<1> QED BY <1>1, <1>2, <1>3 DEF HandlersStep

\* Only issuing a session counts a sign-in.
LEMMA OpenedStep == ASSUME [Next]_vars PROVE opened' = opened \/ \E h \in Handler : IssueSession(h)
BY DEF Next, RequestStep, EnforceOtpLimits, StartVerify, RecordVerify, CreateOtp, SendOtp,
       StartVerifyLast, ConvertToVerify, VerifyStep, ReadCodes, AskTwilio, MatchSpecial,
       ChargeGuess, ConsumeCodes, UpsertUser, EnterSpecially, AccountStep, RetireCodes,
       CreateRecovery, AskDeletion, DeleteAccount, SetStatus, GrowOlder, Restart, vars

\* Only a wrong guess is charged.
LEMMA AttemptsStep == ASSUME [Next]_vars PROVE attempts' = attempts \/ \E h \in Handler : ChargeGuess(h)
BY DEF Next, RequestStep, EnforceOtpLimits, StartVerify, RecordVerify, CreateOtp, SendOtp,
       StartVerifyLast, ConvertToVerify, VerifyStep, ReadCodes, AskTwilio, MatchSpecial,
       ConsumeCodes, UpsertUser, EnterSpecially, IssueSession, AccountStep, RetireCodes,
       CreateRecovery, AskDeletion, DeleteAccount, SetStatus, GrowOlder, Restart, vars, codeVars,
       CreateCode

\* Every step keeps the accounting of who holds which code.
LEMMA HeldStep ==
    ASSUME IInv, [Next]_vars, TypeOK', RowsMoveOn, HandlersStep
    PROVE  HeldCodes'
<1>0. TypeOK /\ HandlerShape /\ HeldCodes /\ hnd \in [Handler -> Slot]
  BY DEF IInv, TypeOK
<1> SUFFICES ASSUME NEW c \in Code
             PROVE  /\ row'[c] = "absent" => Holders(c)' = {}
                    /\ row'[c] \in {"absent", "open"} => opened'[c] = 0
                    /\ opened'[c] + Cardinality(Holders(c)') <= Cardinality(Handler)
  BY DEF HeldCodes
<1>1. /\ Holders(c) \in SUBSET Handler /\ Holders(c)' \in SUBSET Handler
      /\ opened[c] \in Nat /\ opened'[c] \in Nat
      /\ row[c] \in {"absent", "open", "consumed", "deleted"}
  BY <1>0 DEF Holders, TypeOK
<1>2. /\ row[c] = "absent" => Holders(c) = {}
      /\ row[c] \in {"absent", "open"} => opened[c] = 0
      /\ opened[c] + Cardinality(Holders(c)) <= Cardinality(Handler)
  BY <1>0 DEF HeldCodes
<1>3. row[c] # "open" => Holders(c)' \subseteq Holders(c)
  BY <1>0, HoldersShrink
<1>4. /\ row'[c] = "absent" => row[c] = "absent"
      /\ row'[c] \in {"absent", "open"} => row[c] \in {"absent", "open"}
  BY <1>1 DEF RowsMoveOn
<1>5. /\ Cardinality(Holders(c)') \in Nat /\ Cardinality(Holders(c)) \in Nat
      /\ Cardinality(Holders(c)') <= Cardinality(Handler)
  BY <1>1, HandlersFinite
<1>6. CASE opened' = opened
  <2>1. opened[c] + Cardinality(Holders(c)') <= Cardinality(Handler)
    <3>1. CASE row[c] \in {"absent", "open"}
      BY <1>1, <1>2, <1>5, <3>1
    <3>2. CASE row[c] \notin {"absent", "open"}
      <4>1. Cardinality(Holders(c)') <= Cardinality(Holders(c))
        BY <1>1, <1>3, <3>2, FewerHandlers
      <4>2. Cardinality(Handler) \in Nat
        BY HandlersFinite
      <4> QED BY <1>1, <1>2, <1>5, <4>1, <4>2
    <3> QED BY <3>1, <3>2
  <2> QED BY <1>2, <1>3, <1>4, <1>6, <2>1
<1>7. ASSUME NEW h \in Handler, IssueSession(h)
      PROVE  /\ row'[c] \in {"absent", "open"} => opened'[c] = 0
             /\ opened'[c] + Cardinality(Holders(c)') <= Cardinality(Handler)
  <2>1. /\ hnd[h].stage = "issuing" /\ row' = row /\ hnd'[h] = Idle
        /\ hnd[h].code \in Code \cup {None} /\ None \notin Code
    <3>1. hnd'[h] = Idle
      BY <1>0, <1>7, SlotsTyped, SlotSet DEF IssueSession, Ends
    <3> QED BY <3>1, <1>0, <1>7, SlotFields, CodesAssumption DEF IssueSession, At, codeVars
  <2>2. h \notin Holders(c)'
    BY <2>1 DEF Holders, Idle, Entering
  <2>3. CASE hnd[h].code = c
    <3>1. row[c] \in {"consumed", "deleted"}
      BY <1>0, <2>1, <2>3 DEF HandlerShape, SlotShape
    <3>2. opened'[c] = opened[c] + 1
      BY <1>0, <1>7, <2>1, <2>3 DEF IssueSession, TypeOK
    <3>3. h \in Holders(c)
      BY <2>1, <2>3 DEF Holders, Entering
    <3>4. Cardinality(Holders(c)') + 1 <= Cardinality(Holders(c))
      BY <1>1, <1>3, <2>2, <3>1, <3>3, FewerHandlers
    <3>5. Cardinality(Handler) \in Nat
      BY HandlersFinite
    <3>6. opened[c] + 1 + Cardinality(Holders(c)') <= Cardinality(Handler)
      BY <1>1, <1>2, <1>5, <3>4, <3>5
    <3> QED BY <2>1, <3>1, <3>2, <3>6
  <2>4. CASE hnd[h].code # c
    <3>1. opened'[c] = opened[c]
      BY <1>0, <1>7, <2>1, <2>4 DEF IssueSession, TypeOK
    <3>2. CASE row[c] \in {"absent", "open"}
      BY <1>1, <1>2, <1>5, <2>1, <3>1, <3>2
    <3>3. CASE row[c] \notin {"absent", "open"}
      <4>1. Cardinality(Holders(c)') <= Cardinality(Holders(c))
        BY <1>1, <1>3, <3>3, FewerHandlers
      <4>2. Cardinality(Handler) \in Nat
        BY HandlersFinite
      <4>3. opened[c] + Cardinality(Holders(c)') <= Cardinality(Handler)
        BY <1>1, <1>2, <1>5, <4>1, <4>2
      <4> QED BY <2>1, <3>1, <3>3, <4>3
    <3> QED BY <3>2, <3>3
  <2> QED BY <2>3, <2>4
<1> QED BY <1>2, <1>3, <1>4, <1>6, <1>7, OpenedStep

\* Every step keeps the accounting of the guesses.
LEMMA ChargeStep ==
    ASSUME IInv, [Next]_vars, TypeOK', HandlersStep
    PROVE  ChargesBounded'
<1>0. TypeOK /\ ChargesBounded /\ hnd \in [Handler -> Slot]
  BY DEF IInv, TypeOK
<1> SUFFICES ASSUME NEW c \in Code
             PROVE  attempts'[c] + Cardinality(Guessing(c)')
                      <= MaxAttempts - 1 + Cardinality(Handler)
  BY DEF ChargesBounded
<1>1. /\ Guessing(c) \in SUBSET Handler /\ Guessing(c)' \in SUBSET Handler
      /\ attempts[c] \in Nat /\ attempts'[c] \in Nat
  BY <1>0 DEF Guessing, TypeOK
<1>2. attempts[c] + Cardinality(Guessing(c)) <= MaxAttempts - 1 + Cardinality(Handler)
  BY <1>0 DEF ChargesBounded
<1>3. c \notin Live => Guessing(c)' \subseteq Guessing(c)
  BY <1>0, HoldersShrink
<1>4. /\ Cardinality(Guessing(c)') \in Nat /\ Cardinality(Guessing(c)) \in Nat
      /\ Cardinality(Guessing(c)') <= Cardinality(Handler) /\ Cardinality(Handler) \in Nat
      /\ MaxAttempts \in Nat
  BY <1>1, HandlersFinite, CodesAssumption
<1>5. CASE attempts' = attempts
  <2>1. CASE c \in Live
    <3>1. attempts[c] < MaxAttempts
      BY <2>1 DEF Live
    <3> QED BY <1>1, <1>4, <1>5, <3>1
  <2>2. CASE c \notin Live
    <3>1. Cardinality(Guessing(c)') <= Cardinality(Guessing(c))
      BY <1>1, <1>3, <2>2, FewerHandlers
    <3> QED BY <1>1, <1>2, <1>4, <1>5, <3>1
  <2> QED BY <2>1, <2>2
<1>6. ASSUME NEW h \in Handler, ChargeGuess(h)
      PROVE  attempts'[c] + Cardinality(Guessing(c)') <= MaxAttempts - 1 + Cardinality(Handler)
  <2>1. hnd'[h] = Idle /\ \A g \in Handler \ {h} : hnd'[g] = hnd[g]
    BY <1>0, <1>6, SlotsTyped, SlotSet DEF ChargeGuess, Ends
  <2>2. Guessing(c)' \subseteq Guessing(c) /\ h \notin Guessing(c)'
    BY <2>1 DEF Guessing, Idle
  <2>3. Cardinality(Guessing(c)') <= Cardinality(Guessing(c))
    BY <1>1, <2>2, FewerHandlers
  <2>4. CASE c \in hnd[h].live
    <3>1. Cardinality(Guessing(c)') + 1 <= Cardinality(Guessing(c))
      BY <1>1, <2>2, <2>4, FewerHandlers DEF Guessing
    <3>2. attempts'[c] <= attempts[c] + 1
      BY <1>1, <1>6 DEF ChargeGuess
    <3> QED BY <1>1, <1>2, <1>4, <3>1, <3>2
  <2>5. CASE c \notin hnd[h].live
    <3>1. attempts'[c] = attempts[c]
      BY <1>6, <2>5 DEF ChargeGuess
    <3> QED BY <1>1, <1>2, <1>4, <2>3, <3>1
  <2> QED BY <2>4, <2>5
<1> QED BY <1>5, <1>6, AttemptsStep

-----------------------------------------------------------------------------
(* The limits                                                              *)

\* Only a stored code counts one more, and it is one code.
LEMMA ChargeableStep ==
    ASSUME TypeOK, [Next]_vars, NEW o \in Nat
    PROVE  \/ Chargeable(o)' \subseteq Chargeable(o)
           \/ \E h \in Handler, c \in Code :
                /\ RecordVerify(h) \/ CreateOtp(h)
                /\ Chargeable(o)' \subseteq Chargeable(o) \cup {c}
<1>1. ASSUME NEW h \in Handler, NEW c \in Code, NEW by, CreateCode(c, by, FALSE),
             RecordVerify(h) \/ CreateOtp(h)
      PROVE  Chargeable(o)' \subseteq Chargeable(o) \cup {c}
  BY <1>1 DEF CreateCode, Chargeable, Stored, TypeOK
<1>2. ASSUME NEW h \in Handler, RecordVerify(h) \/ CreateOtp(h)
      PROVE  \E c \in Code : Chargeable(o)' \subseteq Chargeable(o) \cup {c}
  BY <1>1, <1>2 DEF RecordVerify, CreateOtp
<1>3. ASSUME row' = row \/ (\E h \in Handler : row' = ConsumeAll(h)), byAdmin' = byAdmin, age' = age
      PROVE  Chargeable(o)' \subseteq Chargeable(o)
  BY <1>3 DEF Chargeable, Stored, ConsumeAll
<1>4. ASSUME NEW h \in Handler, CreateRecovery(h)
      PROVE  Chargeable(o)' \subseteq Chargeable(o)
  BY <1>4 DEF CreateRecovery, CreateCode, Chargeable, Stored, TypeOK
<1>5. ASSUME NEW h \in Handler, DeleteAccount(h)
      PROVE  Chargeable(o)' \subseteq Chargeable(o)
  BY <1>5 DEF DeleteAccount, DeletedRows, Chargeable, Stored
<1>6. ASSUME NEW c \in Code, GrowOlder(c) PROVE Chargeable(o)' \subseteq Chargeable(o)
  <2>1. \A d \in Code : age'[d] \in Int /\ age[d] \in Int /\ age'[d] >= age[d]
    BY <1>6 DEF GrowOlder, TypeOK, Ages, Oldest
  <2> QED BY <1>6, <2>1 DEF GrowOlder, Chargeable, Stored
<1>7. ASSUME NEW h \in Handler, RequestStep(h), ~RecordVerify(h), ~CreateOtp(h)
      PROVE  Chargeable(o)' \subseteq Chargeable(o)
  BY <1>3, <1>7 DEF RequestStep, EnforceOtpLimits, StartVerify, SendOtp, StartVerifyLast,
                    ConvertToVerify, codeVars
<1>8. ASSUME NEW h \in Handler, VerifyStep(h) PROVE Chargeable(o)' \subseteq Chargeable(o)
  BY <1>3, <1>8 DEF VerifyStep, ReadCodes, AskTwilio, MatchSpecial, ChargeGuess, ConsumeCodes,
                    UpsertUser, EnterSpecially, IssueSession, codeVars
<1>9. ASSUME NEW h \in Handler, AccountStep(h) PROVE Chargeable(o)' \subseteq Chargeable(o)
  BY <1>3, <1>4, <1>5, <1>9 DEF AccountStep, RetireCodes, AskDeletion, codeVars
<1>10. ASSUME SetStatus \/ Restart \/ UNCHANGED vars
       PROVE  Chargeable(o)' \subseteq Chargeable(o)
  BY <1>3, <1>10 DEF SetStatus, Restart, vars, codeVars
<1> QED BY <1>2, <1>6, <1>7, <1>8, <1>9, <1>10 DEF Next

\* A request is granted by the limits only.
LEMMA GrantedStep ==
    ASSUME TypeOK, [Next]_vars
    PROVE  \/ Granted' \subseteq Granted
           \/ \E h \in Handler : EnforceOtpLimits(h) /\ Granted' \subseteq Granted \cup {h}
<1>0. hnd \in [Handler -> Slot]
  BY DEF TypeOK
<1>1. ASSUME NEW h \in Handler, NEW r, Becomes(h, r)
      PROVE  /\ Granted' \subseteq Granted \cup {h}
             /\ r.stage \notin {"allowed", "started", "refused"} => Granted' \subseteq Granted
             /\ hnd[h].stage \in {"allowed", "started", "refused"} => Granted' \subseteq Granted
  BY <1>0, <1>1 DEF Becomes, Granted
<1>2. ASSUME NEW h \in Handler, Ends(h) PROVE Granted' \subseteq Granted
  BY <1>1, <1>2 DEF Ends, Idle
<1>3. ASSUME NEW h \in Handler, RequestStep(h), ~EnforceOtpLimits(h) PROVE Granted' \subseteq Granted
  <2>1. CASE StartVerify(h)
    BY <2>1, <1>1 DEF StartVerify, At
  <2>2. CASE CreateOtp(h)
    <3>1. PICK r : Becomes(h, r) /\ r.stage \in {"sending", "sendingLast"}
      BY <2>2 DEF CreateOtp, AtCode
    <3> QED BY <3>1, <1>0 DEF Becomes, Granted
  <2>3. CASE StartVerifyLast(h)
    BY <2>3, <1>0 DEF StartVerifyLast, Becomes, AtCode, Granted
  <2> QED BY <1>3, <2>1, <2>2, <2>3, <1>2 DEF RequestStep, RecordVerify, SendOtp, ConvertToVerify
<1>4. ASSUME NEW h \in Handler, VerifyStep(h) PROVE Granted' \subseteq Granted
  <2>1. CASE ReadCodes(h)
    <3>1. hnd'[h].stage \in {"matched", "asking", "unmatched"}
      BY <2>1, <1>0 DEF ReadCodes, Becomes, AtCode, Holding
    <3>2. \A g \in Handler \ {h} : hnd'[g] = hnd[g]
      BY <2>1, <1>0 DEF ReadCodes, Becomes
    <3> QED BY <3>1, <3>2 DEF Granted
  <2>2. CASE AskTwilio(h)
    <3>1. CASE Becomes(h, Holding("unmatched", hnd[h].live, None))
      BY <3>1, <1>0 DEF Becomes, Holding, Granted
    <3>2. CASE Becomes(h, AtCode("matched", hnd[h].code))
      BY <3>2, <1>0 DEF Becomes, AtCode, Granted
    <3> QED BY <2>2, <3>1, <3>2 DEF AskTwilio
  <2>a. CASE MatchSpecial(h) \/ ConsumeCodes(h)
    BY <2>a, <1>0 DEF MatchSpecial, ConsumeCodes, Becomes, AtCode, Granted
  <2>3. CASE UpsertUser(h) \/ EnterSpecially(h)
    BY <2>3, <1>0, <1>2 DEF UpsertUser, EnterSpecially, Becomes, About, Granted
  <2> QED BY <1>4, <2>1, <2>2, <2>a, <2>3, <1>2 DEF VerifyStep, ChargeGuess, IssueSession
<1>5. ASSUME NEW h \in Handler, AccountStep(h) PROVE Granted' \subseteq Granted
  <2>1. CASE RetireCodes(h) \/ AskDeletion(h)
    BY <2>1, <1>0 DEF RetireCodes, AskDeletion, Becomes, AtCode, About, Granted
  <2> QED BY <1>5, <2>1, <1>2 DEF AccountStep, CreateRecovery, DeleteAccount
<1>6. ASSUME hnd' = hnd \/ hnd' = [h \in Handler |-> Idle] PROVE Granted' \subseteq Granted
  BY <1>6 DEF Granted, Idle
<1>7. ASSUME NEW h \in Handler, EnforceOtpLimits(h) PROVE Granted' \subseteq Granted \cup {h}
  BY <1>1, <1>7 DEF EnforceOtpLimits
<1> QED BY <1>3, <1>4, <1>5, <1>6, <1>7 DEF Next, SetStatus, GrowOlder, Restart, vars

\* Past the cooldown no code is of age 0.
LEMMA CooldownClears ==
    ASSUME TypeOK, RowOrder, Cooldown, ~Cooling
    PROVE  Chargeable(0) = {}
<1>1. Stored \ byAdmin \subseteq Code /\ Chargeable(0) \subseteq Stored \ byAdmin
  BY DEF Stored, Chargeable
<1>2. SUFFICES ASSUME Stored \ byAdmin # {} PROVE Chargeable(0) = {}
  BY <1>1
<1>3. PICK c \in Stored \ byAdmin : Newest(c, Stored \ byAdmin)
  BY <1>1, <1>2, NewestExists
<1>4. c \in Code /\ age[c] \in Nat /\ age[c] # 0
  BY <1>1, <1>3 DEF Cooling, TypeOK, Ages, Oldest
<1>5. ASSUME NEW d \in Chargeable(0) PROVE FALSE
  <2>1. d \in Code /\ d \in Stored \ byAdmin /\ d <= c /\ age[d] <= 0
    BY <1>1, <1>3, <1>5 DEF Newest, Chargeable
  <2>2. age[c] <= age[d] /\ age[d] \in Nat
    BY <2>1, <1>4 DEF RowOrder, Code, TypeOK, Ages, Oldest
  <2> QED BY <1>4, <2>1, <2>2
<1> QED BY <1>5

\* One more code makes a set of codes larger by at most one.
LEMMA OneMoreCode ==
    ASSUME NEW S \in SUBSET Code, NEW R \in SUBSET Code
    PROVE  /\ R \subseteq S => Cardinality(R) <= Cardinality(S)
           /\ \A c \in Code : R \subseteq S \cup {c} => Cardinality(R) <= Cardinality(S) + 1
           /\ Cardinality(R) \in Nat /\ Cardinality(S) \in Nat
<1>1. IsFiniteSet(S) /\ IsFiniteSet(R) /\ Cardinality(R) \in Nat /\ Cardinality(S) \in Nat
  BY CodesFinite
<1>2. ASSUME NEW c \in Code, R \subseteq S \cup {c} PROVE Cardinality(R) <= Cardinality(S) + 1
  <2>1. /\ IsFiniteSet(S \cup {c})
        /\ Cardinality(S \cup {c}) = IF c \in S THEN Cardinality(S) ELSE Cardinality(S) + 1
    BY <1>1, FS_AddElement
  <2>2. Cardinality(R) <= Cardinality(S \cup {c})
    BY <1>2, <2>1, FS_Subset
  <2> QED BY <1>1, <2>1, <2>2
<1> QED BY <1>1, <1>2, FS_Subset

\* A window's codes and granted requests stay within a bound they are within
\* whenever the limits let a request pass.
LEMMA WindowStep ==
    ASSUME TypeOK, [Next]_vars, TypeOK', NEW o \in Nat, NEW bound \in Nat,
           Cardinality(Chargeable(o)) + Cardinality(Granted) <= bound,
           Metered, WithinOtpLimits => Cardinality(Chargeable(o)) + Cardinality(Handler) <= bound
    PROVE  Cardinality(Chargeable(o)') + Cardinality(Granted') <= bound
<1>1. /\ Chargeable(o) \in SUBSET Code /\ Chargeable(o)' \in SUBSET Code
      /\ Granted \in SUBSET Handler /\ Granted' \in SUBSET Handler
  BY DEF Chargeable, Stored, Granted
<1>2. /\ Cardinality(Chargeable(o)) \in Nat /\ Cardinality(Chargeable(o)') \in Nat
      /\ Cardinality(Granted) \in Nat /\ Cardinality(Granted') \in Nat
      /\ Cardinality(Granted') <= Cardinality(Handler) /\ Cardinality(Handler) \in Nat
  BY <1>1, CodesFinite, HandlersFinite
<1>3. ASSUME NEW h \in Handler, EnforceOtpLimits(h)
      PROVE  Cardinality(Chargeable(o)') + Cardinality(Granted') <= bound
  <2>1. Chargeable(o)' = Chargeable(o) /\ WithinOtpLimits
    BY <1>3 DEF EnforceOtpLimits, codeVars, Chargeable, Stored
  <2> QED BY <1>2, <2>1
<1>4. ASSUME NEW h \in Handler, NEW c \in Code, RecordVerify(h) \/ CreateOtp(h),
             Chargeable(o)' \subseteq Chargeable(o) \cup {c}
      PROVE  Cardinality(Chargeable(o)') + Cardinality(Granted') <= bound
  <2>1. Granted' \subseteq Granted /\ h \in Granted /\ h \notin Granted'
    <3>1. hnd[h].stage \in {"allowed", "started", "refused"}
      BY <1>4 DEF RecordVerify, CreateOtp, At
    <3>2. /\ hnd'[h].stage \in {"idle", "sending", "sendingLast"}
          /\ \A g \in Handler \ {h} : hnd'[g] = hnd[g]
      <4>1. CASE Ends(h)
        BY <4>1 DEF Ends, Becomes, Idle, TypeOK
      <4>2. ASSUME NEW st \in {"sending", "sendingLast"}, NEW d \in Code, Becomes(h, AtCode(st, d))
            PROVE  /\ hnd'[h].stage \in {"idle", "sending", "sendingLast"}
                   /\ \A g \in Handler \ {h} : hnd'[g] = hnd[g]
        BY <4>2 DEF Becomes, AtCode, TypeOK
      <4> QED BY <1>4, <4>1, <4>2 DEF RecordVerify, CreateOtp
    <3> QED BY <3>1, <3>2 DEF Granted
  <2>2. Cardinality(Granted') + 1 <= Cardinality(Granted)
    BY <1>1, <2>1, FewerHandlers
  <2>3. Cardinality(Chargeable(o)') <= Cardinality(Chargeable(o)) + 1
    BY <1>1, <1>4, OneMoreCode
  <2> QED BY <1>2, <2>2, <2>3
<1>5. ASSUME Granted' \subseteq Granted, Chargeable(o)' \subseteq Chargeable(o)
      PROVE  Cardinality(Chargeable(o)') + Cardinality(Granted') <= bound
  <2>1. Cardinality(Granted') <= Cardinality(Granted)
    BY <1>1, <1>5, FewerHandlers
  <2>2. Cardinality(Chargeable(o)') <= Cardinality(Chargeable(o))
    BY <1>1, <1>5, OneMoreCode
  <2> QED BY <1>2, <2>1, <2>2
<1> QED BY <1>3, <1>4, <1>5, ChargeableStep, GrantedStep

\* Every step keeps the limits, counting the granted requests.
LEMMA LimitStep ==
    ASSUME IInv, [Next]_vars, TypeOK'
    PROVE  LimitsReserved'
<1>m. Metered' <=> Metered
  <2>1. route' = route /\ configured' = configured
    BY DEF Next, RequestStep, EnforceOtpLimits, StartVerify, RecordVerify, CreateOtp, SendOtp,
           StartVerifyLast, ConvertToVerify, VerifyStep, ReadCodes, AskTwilio, MatchSpecial,
           ChargeGuess, ConsumeCodes, UpsertUser, EnterSpecially, IssueSession, AccountStep,
           RetireCodes, CreateRecovery, AskDeletion, DeleteAccount, SetStatus, GrowOlder,
           Restart, vars
  <2> QED BY <2>1 DEF Metered
<1> SUFFICES ASSUME Metered PROVE LimitsReserved'
  BY <1>m DEF LimitsReserved
<1>0. TypeOK /\ RowOrder /\ LimitsReserved
  BY DEF IInv
<1>1. Cardinality(Handler) \in Nat /\ PerHour \in Nat /\ PerDay \in Nat /\ Hour \in Nat /\ Day \in Nat
  BY HandlersFinite, CodesAssumption
<1>2. ASSUME NEW o \in Nat, NEW limit \in Nat, limit > 0, ~Exhausted(limit, o)
      PROVE  Cardinality(Chargeable(o)) + Cardinality(Handler) <= limit + Cardinality(Handler) - 1
  <2>1. Cardinality(Chargeable(o)) \in Nat
    BY CodesFinite DEF Chargeable, Stored
  <2> QED BY <1>1, <1>2, <2>1 DEF Exhausted
<1>3. ASSUME Cooldown
      PROVE  Cardinality(Chargeable(0)') + Cardinality(Granted') <= Cardinality(Handler)
  <2>1. ASSUME WithinOtpLimits
        PROVE  Cardinality(Chargeable(0)) + Cardinality(Handler) <= Cardinality(Handler)
    <3>1. Chargeable(0) = {}
      BY <1>0, <1>3, <2>1, CooldownClears DEF WithinOtpLimits
    <3> QED BY <1>1, <3>1, FS_EmptySet
  <2>2. Cardinality(Chargeable(0)) + Cardinality(Granted) <= Cardinality(Handler)
    BY <1>0, <1>3 DEF LimitsReserved
  <2> QED BY <1>0, <1>1, <2>1, <2>2, WindowStep
<1>4. ASSUME PerHour > 0
      PROVE  Cardinality(Chargeable(Hour)') + Cardinality(Granted') <= PerHour + Cardinality(Handler) - 1
  <2>1. PerHour + Cardinality(Handler) - 1 \in Nat
    BY <1>1, <1>4
  <2>2. Cardinality(Chargeable(Hour)) + Cardinality(Granted) <= PerHour + Cardinality(Handler) - 1
    BY <1>0, <1>4 DEF LimitsReserved
  <2>3. WithinOtpLimits =>
          Cardinality(Chargeable(Hour)) + Cardinality(Handler) <= PerHour + Cardinality(Handler) - 1
    BY <1>1, <1>2, <1>4 DEF WithinOtpLimits
  <2> QED BY <1>0, <1>1, <2>1, <2>2, <2>3, WindowStep
<1>5. ASSUME PerDay > 0
      PROVE  Cardinality(Chargeable(Day)') + Cardinality(Granted') <= PerDay + Cardinality(Handler) - 1
  <2>1. PerDay + Cardinality(Handler) - 1 \in Nat
    BY <1>1, <1>5
  <2>2. Cardinality(Chargeable(Day)) + Cardinality(Granted) <= PerDay + Cardinality(Handler) - 1
    BY <1>0, <1>5 DEF LimitsReserved
  <2>3. WithinOtpLimits =>
          Cardinality(Chargeable(Day)) + Cardinality(Handler) <= PerDay + Cardinality(Handler) - 1
    BY <1>1, <1>2, <1>5 DEF WithinOtpLimits
  <2> QED BY <1>0, <1>1, <2>1, <2>2, <2>3, WindowStep
<1>6. LimitsReserved' <=>
        /\ Cooldown => Cardinality(Chargeable(0)') + Cardinality(Granted') <= Cardinality(Handler)
        /\ PerHour > 0 => Cardinality(Chargeable(Hour)') + Cardinality(Granted')
                             <= PerHour + Cardinality(Handler) - 1
        /\ PerDay > 0 => Cardinality(Chargeable(Day)') + Cardinality(Granted')
                             <= PerDay + Cardinality(Handler) - 1
  BY <1>m DEF LimitsReserved
<1> QED BY <1>3, <1>4, <1>5, <1>6

-----------------------------------------------------------------------------
(* Accounts, and the order of the rows                                     *)

\* Every step keeps the account of the number among those it had.
LEMMA CurrentStep == ASSUME TypeOK, CurrentAccount, [Next]_vars PROVE CurrentAccount'
<1>0. person \in Nat
  BY CodesAssumption DEF TypeOK
<1>1. ASSUME NEW h \in Handler, UpsertUser(h) PROVE CurrentAccount'
  <2>1. CASE person' = person + 1
    BY <1>0, <2>1 DEF CurrentAccount
  <2>2. CASE person' = person /\ status' = status
    BY <2>2 DEF CurrentAccount
  <2> QED BY <1>1, <2>1, <2>2 DEF UpsertUser
<1>2. ASSUME NEW h \in Handler, DeleteAccount(h) PROVE CurrentAccount'
  BY <1>2 DEF DeleteAccount, CurrentAccount
<1>3. ASSUME NEW h \in Handler, VerifyStep(h) \/ RequestStep(h) \/ AccountStep(h),
             ~UpsertUser(h), ~DeleteAccount(h)
      PROVE  person' = person /\ status' = status
  BY <1>3
     DEF RequestStep, EnforceOtpLimits, StartVerify, RecordVerify, CreateOtp, SendOtp,
         StartVerifyLast, ConvertToVerify, VerifyStep, ReadCodes, AskTwilio, MatchSpecial,
         ChargeGuess, ConsumeCodes, EnterSpecially, IssueSession, AccountStep, RetireCodes,
         CreateRecovery, AskDeletion, userVars
<1>4. CASE SetStatus
  BY <1>4 DEF SetStatus, CurrentAccount
<1>5. ASSUME Restart \/ UNCHANGED vars \/ (\E c \in Code : GrowOlder(c))
      PROVE  person' = person /\ status' = status
  BY <1>5 DEF Restart, vars, GrowOlder, userVars
<1>6. ASSUME person' = person, status' = status PROVE CurrentAccount'
  BY <1>6 DEF CurrentAccount
<1> QED BY <1>1, <1>2, <1>3, <1>4, <1>5, <1>6 DEF Next

\* Every step keeps the rows in the order of their ages.
LEMMA OrderStep == ASSUME TypeOK, RowOrder, [Next]_vars PROVE RowOrder'
<1>0. /\ \A c \in Code : age[c] \in Nat /\ c \in Int
      /\ \A c \in Code : row[c] = "absent" => age[c] = 0
      /\ \A c, d \in Code : c < d => age[d] <= age[c]
  BY DEF TypeOK, RowOrder, Ages, Oldest, Code
<1>1. ASSUME age' = age, \A c \in Code : row'[c] = "absent" => row[c] = "absent"
      PROVE  RowOrder'
  BY <1>0, <1>1 DEF RowOrder
<1>2. ASSUME RowsMoveOn, age' = age PROVE RowOrder'
  BY <1>1, <1>2 DEF RowsMoveOn
<1>3. ASSUME NEW c \in Code, GrowOlder(c) PROVE RowOrder'
  <2>1. /\ age'[c] = age[c] + 1
        /\ \A d \in Code : d # c => age'[d] = age[d]
    BY <1>3 DEF GrowOlder, TypeOK
  <2>2. row[c] # "absent" /\ row' = row /\ \A d \in Code : d < c => age[d] > age[c]
    BY <1>3 DEF GrowOlder
  <2>3. ASSUME NEW d \in Code, NEW e \in Code, d < e PROVE age'[e] <= age'[d]
    <3>1. CASE e = c
      <4>1. d # c /\ age[d] > age[c]
        BY <1>0, <2>2, <2>3, <3>1
      <4> QED BY <1>0, <2>1, <3>1, <4>1
    <3>2. CASE e # c
      <4>1. age[e] <= age[d]
        BY <1>0, <2>3
      <4>2. age'[d] = age[d] \/ age'[d] = age[d] + 1
        BY <2>1
      <4> QED BY <1>0, <2>1, <3>2, <4>1, <4>2
    <3> QED BY <3>1, <3>2
  <2>4. \A d \in Code : row'[d] = "absent" => age'[d] = 0
    BY <1>0, <2>1, <2>2
  <2> QED BY <2>3, <2>4 DEF RowOrder
<1>4. ASSUME NEW h \in Handler, RequestStep(h) \/ VerifyStep(h) \/ AccountStep(h)
      PROVE  age' = age
  BY <1>4
     DEF RequestStep, EnforceOtpLimits, StartVerify, RecordVerify, CreateOtp, CreateCode, SendOtp,
         StartVerifyLast, ConvertToVerify, VerifyStep, ReadCodes, AskTwilio, MatchSpecial,
         ChargeGuess, ConsumeCodes, UpsertUser, EnterSpecially, IssueSession, AccountStep,
         RetireCodes, CreateRecovery, AskDeletion, DeleteAccount, codeVars
<1>5. ASSUME SetStatus \/ Restart \/ UNCHANGED vars PROVE age' = age
  BY <1>5 DEF SetStatus, Restart, vars, codeVars
<1> QED BY <1>2, <1>3, <1>4, <1>5, RowsStep DEF Next

-----------------------------------------------------------------------------
(* The theorems                                                            *)

\* The invariant holds at the start ...
LEMMA InitIInv == Init => IInv
<1> SUFFICES ASSUME Init PROVE IInv
  OBVIOUS
<1>1. TypeOK
  <2>1. hnd \in [Handler -> Slot]
    BY SlotsTyped DEF Init
  <2>2. age \in [Code -> Ages] /\ person \in 0..MaxPeople
    BY CodesAssumption DEF Init, Ages, Oldest
  <2> QED BY <2>1, <2>2 DEF Init, TypeOK
<1>2. HandlerShape
  BY DEF Init, HandlerShape, SlotShape, Idle
<1>3. \A c \in Code : Holders(c) = {} /\ Guessing(c) = {}
  BY DEF Init, Holders, Guessing, Idle, Entering
<1>4. Cardinality(Handler) \in Nat /\ Cardinality({}) = 0
  BY HandlersFinite, FS_EmptySet
<1>5. HeldCodes
  <2>1. \A c \in Code : row[c] = "absent" /\ opened[c] = 0
    BY DEF Init
  <2>2. \A c \in Code : Cardinality(Holders(c)) = 0
    BY <1>3, <1>4
  <2>3. \A c \in Code : opened[c] + Cardinality(Holders(c)) <= Cardinality(Handler)
    BY <1>4, <2>1, <2>2
  <2> QED BY <1>3, <2>1, <2>3 DEF HeldCodes
<1>6. ChargesBounded
  <2>1. \A c \in Code : attempts[c] = 0
    BY DEF Init
  <2>2. \A c \in Code : Cardinality(Guessing(c)) = 0
    BY <1>3, <1>4
  <2>3. MaxAttempts - 1 \in Nat
    BY CodesAssumption
  <2> QED BY <1>4, <2>1, <2>2, <2>3 DEF ChargesBounded
<1>7. Granted = {} /\ Chargeable(0) = {} /\ Chargeable(Hour) = {} /\ Chargeable(Day) = {}
  BY DEF Init, Granted, Idle, Chargeable, Stored
<1>8. LimitsReserved
  <2>1. /\ Cardinality(Granted) = 0 /\ Cardinality(Chargeable(0)) = 0
        /\ Cardinality(Chargeable(Hour)) = 0 /\ Cardinality(Chargeable(Day)) = 0
    BY <1>4, <1>7
  <2>2. PerHour \in Nat /\ PerDay \in Nat
    BY CodesAssumption
  <2> QED BY <1>4, <2>1, <2>2 DEF LimitsReserved
<1>9. CurrentAccount /\ RowOrder
  BY DEF Init, CurrentAccount, RowOrder
<1> QED BY <1>1, <1>2, <1>5, <1>6, <1>8, <1>9 DEF IInv

\* ... and every step keeps it.
LEMMA NextIInv == IInv /\ [Next]_vars => IInv'
<1> SUFFICES ASSUME IInv, [Next]_vars PROVE IInv'
  OBVIOUS
<1>1. TypeOK /\ HandlerShape /\ CurrentAccount /\ RowOrder
  BY DEF IInv
<1>2. TypeOK'
  BY <1>1, TypeStep
<1>3. RowsMoveOn /\ HandlersStep
  BY <1>1, RowsStep, NarrowStep DEF IInv
<1>4. HandlerShape'
  BY <1>1, <1>2, <1>3, ShapeStep DEF IInv
<1>5. HeldCodes' /\ ChargesBounded'
  BY <1>2, <1>3, HeldStep, ChargeStep
<1>6. LimitsReserved'
  BY <1>2, LimitStep
<1>7. CurrentAccount' /\ RowOrder'
  BY <1>1, CurrentStep, OrderStep
<1> QED BY <1>2, <1>4, <1>5, <1>6, <1>7 DEF IInv

\* The invariant holds throughout.
THEOREM InvariantHolds == Spec => []IInv
BY InitIInv, NextIInv, PTL DEF Spec

\* A code signs in at most as often as verifications are served together.
THEOREM SignInsBoundedHolds == Spec => []SignInsBounded
<1>1. IInv => SignInsBounded
  <2> SUFFICES ASSUME IInv, NEW c \in Code PROVE opened[c] <= Cardinality(Handler)
    BY DEF SignInsBounded
  <2>1. opened[c] + Cardinality(Holders(c)) <= Cardinality(Handler) /\ opened[c] \in Nat
    BY DEF IInv, HeldCodes, TypeOK
  <2>2. Cardinality(Holders(c)) \in Nat /\ Cardinality(Handler) \in Nat
    BY HandlersFinite DEF Holders
  <2> QED BY <2>1, <2>2
<1> QED BY <1>1, InvariantHolds, PTL

\* The guesses at one code exceed the attempts by at most those served
\* together, less one.
THEOREM GuessesBoundedHolds == Spec => []GuessesBounded
<1>1. IInv => GuessesBounded
  <2> SUFFICES ASSUME IInv, NEW c \in Code
               PROVE  attempts[c] <= MaxAttempts + Cardinality(Handler) - 1
    BY DEF GuessesBounded
  <2>1. /\ attempts[c] + Cardinality(Guessing(c)) <= MaxAttempts - 1 + Cardinality(Handler)
        /\ attempts[c] \in Nat
    BY DEF IInv, ChargesBounded, TypeOK
  <2>2. Cardinality(Guessing(c)) \in Nat /\ Cardinality(Handler) \in Nat /\ MaxAttempts \in Nat
    BY HandlersFinite, CodesAssumption DEF Guessing
  <2> QED BY <2>1, <2>2
<1> QED BY <1>1, InvariantHolds, PTL

\* Requests served together exceed each limit by at most their number, less
\* one.
THEOREM OtpLimitsHoldAlways == Spec => []OtpLimitsHold
<1>1. IInv => OtpLimitsHold
  <2> SUFFICES ASSUME IInv PROVE OtpLimitsHold
    OBVIOUS
  <2>1. /\ Cardinality(Granted) \in Nat /\ Cardinality(Handler) \in Nat
        /\ Cardinality(Chargeable(0)) \in Nat /\ Cardinality(Chargeable(Hour)) \in Nat
        /\ Cardinality(Chargeable(Day)) \in Nat /\ PerHour \in Nat /\ PerDay \in Nat
    BY HandlersFinite, CodesFinite, CodesAssumption DEF Granted, Chargeable, Stored
  <2>2. LimitsReserved
    BY DEF IInv
  <2> QED BY <2>1, <2>2 DEF LimitsReserved, OtpLimitsHold
<1> QED BY <1>1, InvariantHolds, PTL

-----------------------------------------------------------------------------
(* The refinement                                                          *)

\* A row that becomes open is the abstract code issued.
LEMMA IssueSimulated ==
    ASSUME TypeOK, NEW c \in Code, NEW by, NEW admin, CreateCode(c, by, admin), opened' = opened
    PROVE  Promise!Next
<1>1. Shown[c] = "unissued"
  BY DEF Shown, CreateCode
<1>2. Shown' = [Shown EXCEPT ![c] = "usable"]
  <2>1. \A d \in Code : row'[d] = IF d = c THEN "open" ELSE row[d]
    BY DEF CreateCode, TypeOK
  <2> QED BY <2>1 DEF Shown
<1>3. Promise!Issue(c)
  BY <1>1, <1>2 DEF Promise!Issue
<1> QED BY <1>3 DEF Promise!Next

\* Open rows that are consumed or deleted together are the codes spent.
LEMMA SpendSimulated ==
    ASSUME TypeOK, opened' = opened,
           row' = DeletedRows \/ \E h \in Handler : row' = ConsumeAll(h)
    PROVE  Promise!Next
<1>1. Open \in SUBSET Code /\ \A c \in Open : Shown[c] = "usable"
  BY DEF Open, Shown
<1>2. ASSUME NEW c \in Code
      PROVE  /\ row[c] = "absent" => row'[c] = "absent"
             /\ row[c] # "absent" => row'[c] # "absent" /\ row'[c] # "open"
  <2>1. CASE row' = DeletedRows
    BY <2>1 DEF DeletedRows
  <2>2. ASSUME NEW h \in Handler, row' = ConsumeAll(h)
        PROVE  /\ row[c] = "absent" => row'[c] = "absent"
               /\ row[c] # "absent" => row'[c] # "absent" /\ row'[c] # "open"
    BY <2>2 DEF ConsumeAll
  <2> QED BY <2>1, <2>2
<1>3. Shown' = [c \in Code |-> IF c \in Open THEN "spent" ELSE Shown[c]]
  <2>1. ASSUME NEW c \in Code
        PROVE  Shown'[c] = IF c \in Open THEN "spent" ELSE Shown[c]
    <3>1. CASE row[c] = "absent"
      <4>1. row'[c] = "absent" /\ c \notin Open
        BY <1>2, <3>1 DEF Open
      <4> QED BY <3>1, <4>1 DEF Shown
    <3>2. CASE row[c] # "absent"
      <4>1. row'[c] # "absent" /\ row'[c] # "open"
        BY <1>2, <3>2
      <4>2. Shown'[c] = "spent"
        BY <4>1 DEF Shown
      <4>3. c \notin Open => Shown[c] = "spent"
        BY <3>2 DEF Shown, Open
      <4> QED BY <4>2, <4>3
    <3> QED BY <3>1, <3>2
  <2> QED BY <2>1 DEF Shown
<1>4. Promise!Spend(Open)
  BY <1>1, <1>3 DEF Promise!Spend
<1> QED BY <1>1, <1>4 DEF Promise!Next

\* A session issued for a code is a sign-in it admits.
LEMMA EnterSimulated ==
    ASSUME IInv, NEW h \in Handler, IssueSession(h)
    PROVE  Promise!Next \/ UNCHANGED Promise!vars
<1> DEFINE c == hnd[h].code
<1>0. TypeOK /\ HandlerShape /\ HeldCodes /\ hnd[h].stage = "issuing" /\ row' = row
  BY DEF IInv, IssueSession, At, codeVars
<1>1. c \in Code \cup {None} /\ Shown' = Shown
  BY <1>0, SlotFields DEF TypeOK, Shown
<1>2. CASE c = None
  BY <1>1, <1>2 DEF IssueSession, Promise!vars
<1>3. CASE c # None
  <2>1. c \in Code /\ row[c] \in {"consumed", "deleted"}
    BY <1>0, <1>1, <1>3 DEF HandlerShape, SlotShape
  <2>2. Shown[c] = "spent"
    BY <2>1 DEF Shown
  <2>3. h \in Holders(c) /\ Holders(c) \in SUBSET Handler
    BY <1>0 DEF Holders, Entering
  <2>4. Cardinality({}) + 1 <= Cardinality(Holders(c))
    BY <2>3, FewerHandlers
  <2>5. opened[c] < Cardinality(Handler)
    <3>1. opened[c] + Cardinality(Holders(c)) <= Cardinality(Handler) /\ opened[c] \in Nat
      BY <1>0, <2>1 DEF HeldCodes, TypeOK
    <3>2. Cardinality(Holders(c)) \in Nat /\ Cardinality(Handler) \in Nat /\ Cardinality({}) = 0
      BY <2>3, HandlersFinite, FS_EmptySet
    <3> QED BY <2>4, <3>1, <3>2
  <2>6. Promise!Enter(c)
    BY <1>1, <1>3, <2>2, <2>5 DEF Promise!Enter, IssueSession
  <2> QED BY <2>1, <2>6 DEF Promise!Next
<1> QED BY <1>2, <1>3

\* Every step is a step of the promise, or leaves it alone.
LEMMA PromiseStep == ASSUME IInv, [Next]_vars PROVE Promise!Next \/ UNCHANGED Promise!vars
<1>0. TypeOK
  BY DEF IInv
<1>1. ASSUME row' = row, opened' = opened PROVE UNCHANGED Promise!vars
  BY <1>1 DEF Promise!vars, Shown
<1>2. ASSUME NEW h \in Handler, RequestStep(h) PROVE Promise!Next \/ UNCHANGED Promise!vars
  <2>1. CASE RecordVerify(h) \/ CreateOtp(h)
    BY <2>1, <1>0, IssueSimulated DEF RecordVerify, CreateOtp
  <2> QED BY <1>2, <2>1, <1>1
          DEF RequestStep, EnforceOtpLimits, StartVerify, SendOtp, StartVerifyLast,
              ConvertToVerify, codeVars
<1>3. ASSUME NEW h \in Handler, VerifyStep(h) PROVE Promise!Next \/ UNCHANGED Promise!vars
  <2>1. CASE ConsumeCodes(h)
    BY <2>1, <1>0, SpendSimulated DEF ConsumeCodes
  <2>2. CASE EnterSpecially(h)
    BY <2>2, <1>0, <1>1, SpendSimulated DEF EnterSpecially
  <2>3. CASE IssueSession(h)
    BY <2>3, EnterSimulated
  <2> QED BY <1>3, <2>1, <2>2, <2>3, <1>1
          DEF VerifyStep, ReadCodes, AskTwilio, MatchSpecial, ChargeGuess, UpsertUser, codeVars
<1>4. ASSUME NEW h \in Handler, AccountStep(h) PROVE Promise!Next \/ UNCHANGED Promise!vars
  <2>1. CASE RetireCodes(h)
    BY <2>1, <1>0, SpendSimulated DEF RetireCodes
  <2>2. CASE CreateRecovery(h)
    BY <2>2, <1>0, IssueSimulated DEF CreateRecovery
  <2>3. CASE DeleteAccount(h)
    BY <2>3, <1>0, SpendSimulated DEF DeleteAccount
  <2> QED BY <1>4, <2>1, <2>2, <2>3, <1>1 DEF AccountStep, AskDeletion, codeVars
<1>5. ASSUME SetStatus \/ Restart \/ UNCHANGED vars \/ (\E c \in Code : GrowOlder(c))
      PROVE  UNCHANGED Promise!vars
  BY <1>5, <1>1 DEF SetStatus, Restart, vars, GrowOlder, codeVars
<1> QED BY <1>2, <1>3, <1>4, <1>5 DEF Next

(***************************************************************************)
(* Verifications served together keep what OneTimeCode promises, with as   *)
(* many admitted as are served at a time: one step of verifyOtp that       *)
(* consumes the codes is the abstract Spend, and a session issued the      *)
(* abstract Enter.                                                         *)
(***************************************************************************)
THEOREM RefinesPromise == Spec => KeepsPromise
<1>1. Init => Promise!Init
  BY DEF Init, Promise!Init, Shown
<1>2. IInv /\ [Next]_vars => [Promise!Next]_(Promise!vars)
  BY PromiseStep
<1> QED BY <1>1, <1>2, InvariantHolds, PTL DEF Spec, KeepsPromise, Promise!Spec

=============================================================================
