---------------------- MODULE PaymentConfirmationProofs ----------------------
(***************************************************************************)
(* Three results about one payment, for any set of processors and any      *)
(* number of requests served together:                                     *)
(*                                                                         *)
(*   - nothing is granted that was not paid, but for the two exceptions    *)
(*     that Backed names (PInv);                                           *)
(*   - k requests served together grant at most k times, and a payment     *)
(*     that was paid is not put down as failed, while the provider's       *)
(*     verdicts are final and none has gone astray (BInv);                 *)
(*   - served one at a time, requests grant exactly once, and the status   *)
(*     tells whether they did (SInv).                                      *)
(***************************************************************************)
EXTENDS PaymentConfirmation, FiniteSetTheorems, TLAPS

-----------------------------------------------------------------------------
(* Types                                                                   *)

LEMMA TypeInit == Init => TypeOK
<1>1. 0 \in 0..MaxGrants
  BY PaymentAssumption
<1>2. QED
  BY <1>1 DEF Init, TypeOK, Stages

LEMMA BecomesTyped ==
  ASSUME TypeOK, NEW h \in Handler, NEW stage \in Stages, Becomes(h, stage)
  PROVE  /\ serve' \in [Handler -> Stages]
         /\ \A g \in Handler : serve'[g] = IF g = h THEN stage ELSE serve[g]
  BY DEF TypeOK, Becomes

\* What a request's arrival and its work do to its own stage.
LEMMA WorkTyped ==
  ASSUME TypeOK, NEW h \in Handler, Arrive(h) \/ Work(h)
  PROVE  serve' \in [Handler -> Stages]
  BY DEF TypeOK, Stages, Becomes, Arrive, Work, Poll, NotifyPaid, NotifyDeclined,
         NotifyStripe, NotifyYo, ProviderAnswers, ProviderSilent, AnswersFailed,
         AnswersElsewhere, ReadVerified,
         ConfirmSession, Grant, Fail

LEMMA PaymentTyped ==
  ASSUME TypeOK, NEW h \in Handler, Arrive(h) \/ Work(h)
  PROVE  /\ status' \in {"absent", "pending", "successful", "failed"}
         /\ txid' \in BOOLEAN
         /\ grants' \in 0..MaxGrants
         /\ astray' \in BOOLEAN
         /\ UNCHANGED outside
<1> USE DEF Arrive, Work, Poll, NotifyPaid, NotifyDeclined, NotifyStripe, NotifyYo,
            ProviderAnswers, ProviderSilent, AnswersFailed,
         AnswersElsewhere, ReadVerified, ConfirmSession, Grant, Fail,
            payment
<1>1. status' \in {"absent", "pending", "successful", "failed"}
  BY DEF TypeOK
<1>2. txid' \in BOOLEAN
  BY DEF TypeOK
<1>3. grants' \in 0..MaxGrants
  BY PaymentAssumption DEF TypeOK
<1>4. UNCHANGED outside
  OBVIOUS
<1>5. astray' \in BOOLEAN
  BY DEF TypeOK
<1>6. QED
  BY <1>1, <1>2, <1>3, <1>4, <1>5

LEMMA TypeStep == TypeOK /\ [Next]_vars => TypeOK'
<1> SUFFICES ASSUME TypeOK, [Next]_vars PROVE TypeOK'
  OBVIOUS
<1>1. CASE CreatePayment \/ AskForMoney \/ AskRefused \/ StoreTransaction
  BY <1>1 DEF CreatePayment, AskForMoney, AskRefused, StoreTransaction, TypeOK, payment
<1>2. CASE CustomerPays \/ CustomerDeclines \/ CustomerCompletes
  BY <1>2 DEF CustomerPays, CustomerDeclines, CustomerCompletes, TypeOK, payment
<1>3. ASSUME NEW h \in Handler, Arrive(h) \/ Work(h) PROVE TypeOK'
  BY <1>3, WorkTyped, PaymentTyped DEF TypeOK, outside
<1>4. CASE Restart
  BY <1>4 DEF Restart, TypeOK, Stages, payment
<1>5. CASE UNCHANGED vars
  BY <1>5 DEF vars, TypeOK
<1>6. QED
  BY <1>1, <1>2, <1>3, <1>4, <1>5 DEF Next

(***************************************************************************)
(* Type correctness, under every fault.                                    *)
(***************************************************************************)
THEOREM TypeCorrect == Spec => []TypeOK
<1>1. QED
  BY TypeInit, TypeStep, PTL DEF Spec

-----------------------------------------------------------------------------
(* Nothing is granted that was not paid                                    *)

LEMMA PaidInvariant == Spec => []PInv
<1>1. Init => PInv
  BY TypeInit DEF Init, PInv, Ordered, GrantOnlyIfPaid, StagesAreJustified, Backed
<1>2. PInv /\ [Next]_vars => PInv'
  <2> SUFFICES ASSUME PInv, [Next]_vars PROVE PInv'
    OBVIOUS
  <2>1. TypeOK /\ TypeOK'
    BY TypeStep DEF PInv
  <2>2. CASE CreatePayment \/ AskForMoney \/ AskRefused \/ StoreTransaction
    BY <2>1, <2>2
       DEF PInv, CreatePayment, AskForMoney, AskRefused, StoreTransaction, payment,
           Ordered, GrantOnlyIfPaid, StagesAreJustified, Backed
  <2>3. CASE CustomerPays \/ CustomerDeclines \/ CustomerCompletes
    BY <2>1, <2>3
       DEF PInv, CustomerPays, CustomerDeclines, CustomerCompletes, CanPay, payment,
           Ordered, GrantOnlyIfPaid, StagesAreJustified, Backed
  <2>4. ASSUME NEW h \in Handler, Arrive(h) \/ Work(h) PROVE PInv'
    <3>1. UNCHANGED outside
      BY <2>1, <2>4, PaymentTyped
    <3>2. checkout # "new"
      BY <2>1, <2>4
         DEF PInv, Ordered, TypeOK, Arrive, Work, Poll, NotifyPaid, NotifyDeclined, NotifyStripe,
             NotifyYo, ProviderAnswers, ProviderSilent, AnswersFailed,
         AnswersElsewhere, ReadVerified, ConfirmSession,
             Grant, Fail
    <3>3. Ordered'
      BY <3>1, <3>2 DEF PInv, Ordered, outside
    <3>4. GrantOnlyIfPaid'
      BY <2>4, <3>1
         DEF PInv, GrantOnlyIfPaid, StagesAreJustified, Backed, outside, payment,
             Arrive, Work, Poll,
             NotifyPaid, NotifyDeclined, NotifyStripe, NotifyYo, ProviderAnswers,
             ProviderSilent, AnswersFailed,
         AnswersElsewhere, ReadVerified, ConfirmSession, Grant, Fail
    <3>5. ASSUME NEW g \in Handler, serve'[g] \in {"verifiedPaid", "confirm", "grant"}
          PROVE  Backed'
      BY <2>1, <2>4, <3>1, <3>5
         DEF PInv, TypeOK, StagesAreJustified, Backed, outside, Becomes,
             Arrive, Work, Poll, NotifyPaid,
             NotifyDeclined, NotifyStripe, NotifyYo, ProviderAnswers, ProviderSilent, AnswersFailed,
         AnswersElsewhere,
             ReadVerified, ConfirmSession, Grant, Fail
    <3>8. ASSUME NEW g \in Handler, serve'[g] = "elsewhere" PROVE provider = "yo"
      BY <2>1, <2>4, <3>8
         DEF PInv, TypeOK, StagesAreJustified, Becomes, Arrive, Work, Poll, NotifyPaid,
             NotifyDeclined, NotifyStripe, NotifyYo, ProviderAnswers, ProviderSilent,
             AnswersFailed, AnswersElsewhere, ReadVerified, ConfirmSession, Grant, Fail
    <3>9. astray' => provider \in {"dpo", "yo"}
      BY <2>4
         DEF PInv, StagesAreJustified, Arrive, Work, Poll, NotifyPaid, NotifyDeclined,
             NotifyStripe, NotifyYo, ProviderAnswers, ProviderSilent, AnswersFailed,
             AnswersElsewhere, ReadVerified, ConfirmSession, Grant, Fail
    <3>6. StagesAreJustified'
      BY <3>1, <3>5, <3>8, <3>9 DEF PInv, StagesAreJustified, outside
    <3>7. QED
      BY <2>1, <3>3, <3>4, <3>6 DEF PInv
  <2>5. CASE Restart
    BY <2>1, <2>5
       DEF PInv, Restart, payment, Ordered, GrantOnlyIfPaid, StagesAreJustified, Backed
  <2>6. CASE UNCHANGED vars
    BY <2>1, <2>6 DEF PInv, vars, Ordered, GrantOnlyIfPaid, StagesAreJustified, Backed
  <2>7. QED
    BY <2>2, <2>3, <2>4, <2>5, <2>6 DEF Next
<1>3. QED
  BY <1>1, <1>2, PTL DEF Spec

(***************************************************************************)
(* Whatever is polled, notified, replayed, cut short or served together,   *)
(* nothing is granted that was not paid - but for a Stripe session that a  *)
(* delayed method completed, and a Yo payment confirmed by a notification  *)
(* about another transaction before its own reference was stored.          *)
(***************************************************************************)
THEOREM NothingGrantedUnpaid == Spec => []GrantOnlyIfPaid
<1>1. PInv => GrantOnlyIfPaid
  BY DEF PInv
<1>2. QED
  BY <1>1, PaidInvariant, PTL

-----------------------------------------------------------------------------
(* How often k requests served together can grant                          *)

\* A verdict that went astray is never called back.
LEMMA AstrayStays ==
  ASSUME NEW h \in Handler, Arrive(h) \/ Work(h)
  PROVE  astray => astray'
BY DEF Arrive, Work, Poll, NotifyPaid, NotifyDeclined, NotifyStripe, NotifyYo,
       ProviderAnswers, ProviderSilent, AnswersFailed, AnswersElsewhere, ReadVerified,
       ConfirmSession, Grant, Fail

LEMMA FailuresStep ==
  ASSUME PInv, FailuresAreJustified, [Next]_vars, "rate" \notin Allowed
  PROVE  FailuresAreJustified'
<1>1. TypeOK
  BY DEF PInv
<1>2. CASE CreatePayment \/ AskForMoney \/ AskRefused \/ StoreTransaction
  BY <1>1, <1>2
     DEF CreatePayment, AskForMoney, AskRefused, StoreTransaction, payment,
         PInv, Ordered, FailuresAreJustified, Final
<1>3. CASE CustomerPays \/ CustomerDeclines \/ CustomerCompletes
  BY <1>1, <1>3
     DEF CustomerPays, CustomerDeclines, CustomerCompletes, CanPay, payment,
         PInv, StagesAreJustified, FailuresAreJustified, Final
<1>4. ASSUME NEW h \in Handler, Arrive(h) \/ Work(h) PROVE FailuresAreJustified'
  <2>1. UNCHANGED outside
    BY <1>1, <1>4, PaymentTyped
  <2>2. ASSUME NEW g \in Handler, serve'[g] \in {"verifiedPaid", "verifiedDeclined"}
        PROVE  provider = "flutterwave"
    BY <1>1, <1>4, <2>2
       DEF TypeOK, FailuresAreJustified, Becomes, Arrive, Work, Poll, NotifyPaid,
           NotifyDeclined, NotifyStripe, NotifyYo, ProviderAnswers, ProviderSilent, AnswersFailed,
         AnswersElsewhere,
           ReadVerified, ConfirmSession, Grant, Fail
  <2>6. Final' => Final
    BY <1>1, <1>4, <2>1, AstrayStays DEF Final, outside
  <2>3. ASSUME Final', NEW g \in Handler, serve'[g] = "fail"
        PROVE  charge = "declined" /\ provider # "stripe"
    BY <1>1, <1>4, <2>3, <2>6
       DEF TypeOK, FailuresAreJustified, Final, Becomes, Arrive, Work, Poll, NotifyPaid,
           NotifyDeclined, NotifyStripe, NotifyYo, ProviderAnswers, ProviderSilent, AnswersFailed,
         AnswersElsewhere,
           ReadVerified, ConfirmSession, Grant, Fail
  <2>4. ASSUME Final', status' = "failed"
        PROVE  charge = "declined"
    BY <1>4, <2>4, <2>6
       DEF FailuresAreJustified, payment, Arrive, Work, Poll, NotifyPaid,
           NotifyDeclined, NotifyStripe, NotifyYo, ProviderAnswers, ProviderSilent, AnswersFailed,
         AnswersElsewhere,
           ReadVerified, ConfirmSession, Grant, Fail
  <2>5. QED
    BY <2>1, <2>2, <2>3, <2>4 DEF FailuresAreJustified, outside
<1>5. CASE Restart
  BY <1>1, <1>5 DEF Restart, payment, FailuresAreJustified, Final
<1>6. CASE UNCHANGED vars
  BY <1>6 DEF vars, FailuresAreJustified, Final
<1>7. QED
  BY <1>2, <1>3, <1>4, <1>5, <1>6 DEF Next

\* Sets of handlers and their sizes.
LEMMA Sizes ==
  /\ Cardinality(Handler) \in Nat
  /\ \A G \in SUBSET Handler :
       /\ IsFiniteSet(G) /\ Cardinality(G) \in Nat
       /\ Cardinality(G) <= Cardinality(Handler)
       /\ \A F \in SUBSET G : Cardinality(F) <= Cardinality(G)
       /\ \A h \in G : Cardinality(G \ {h}) = Cardinality(G) - 1
<1>1. Cardinality(Handler) \in Nat
  BY PaymentAssumption, FS_CardinalityType
<1>2. ASSUME NEW G \in SUBSET Handler
      PROVE  /\ IsFiniteSet(G) /\ Cardinality(G) \in Nat
             /\ Cardinality(G) <= Cardinality(Handler)
             /\ \A F \in SUBSET G : Cardinality(F) <= Cardinality(G)
             /\ \A h \in G : Cardinality(G \ {h}) = Cardinality(G) - 1
  <2>1. IsFiniteSet(G) /\ Cardinality(G) <= Cardinality(Handler)
    BY PaymentAssumption, FS_Subset
  <2>2. QED
    BY <2>1, FS_CardinalityType, FS_Subset, FS_RemoveElement
<1>3. QED
  BY <1>1, <1>2

\* A step after which nobody new is granting, and nothing more is granted.
LEMMA QuietStep ==
  ASSUME TypeOK, GrantsReserved, UNCHANGED <<provider, grants>>, astray => astray',
         StatusTellsGrant => StatusTellsGrant',
         Granting' \subseteq Granting
  PROVE  GrantsReserved'
<1> SUFFICES ASSUME Final'
             PROVE  /\ StatusTellsGrant'
                    /\ grants + Cardinality(Granting') <= Cardinality(Handler)
  BY DEF GrantsReserved
<1>0. Final
  BY DEF Final
<1>1. Granting \in SUBSET Handler /\ Granting' \in SUBSET Granting
  BY DEF Granting
<1>2. grants \in Nat
  BY PaymentAssumption DEF TypeOK
<1>3. Cardinality(Granting') <= Cardinality(Granting) /\ Cardinality(Granting') \in Nat
  BY <1>1, Sizes
<1>4. Cardinality(Granting) \in Nat /\ Cardinality(Handler) \in Nat
  BY <1>1, Sizes
<1>5. QED
  BY <1>0, <1>2, <1>3, <1>4 DEF GrantsReserved

\* A step taken before anything was granted: any number may be granting.
LEMMA FirstStep ==
  ASSUME TypeOK, grants = 0, UNCHANGED grants, status' # "successful"
  PROVE  GrantsReserved'
<1>1. Granting' \in SUBSET Handler
  BY DEF Granting
<1>2. Cardinality(Granting') \in Nat /\ Cardinality(Granting') <= Cardinality(Handler)
  BY <1>1, Sizes
<1>3. grants' + Cardinality(Granting') <= Cardinality(Handler)
  BY <1>2, Sizes
<1>4. ~(grants' > 0)
  OBVIOUS
<1>5. StatusTellsGrant'
  BY <1>4 DEF StatusTellsGrant
<1>6. QED
  BY <1>3, <1>5 DEF GrantsReserved

LEMMA GrantStep ==
  ASSUME TypeOK, GrantsReserved, NEW h \in Handler, Grant(h)
  PROVE  GrantsReserved'
<1>0. StatusTellsGrant'
  <2>1. grants' > 0
    BY PaymentAssumption DEF Grant, TypeOK
  <2>2. QED
    BY <2>1 DEF Grant, StatusTellsGrant
<1> SUFFICES ASSUME Final
             PROVE  grants' + Cardinality(Granting') <= Cardinality(Handler)
  BY <1>0 DEF GrantsReserved, Final, Grant, outside
<1>1. h \in Granting /\ Granting \in SUBSET Handler
  BY DEF Granting, Grant
<1>2. Granting' \in SUBSET (Granting \ {h})
  <2>1. "free" \in Stages /\ Becomes(h, "free")
    BY DEF Stages, Grant
  <2>2. \A g \in Handler : serve'[g] = IF g = h THEN "free" ELSE serve[g]
    BY <2>1, BecomesTyped
  <2>3. provider' = provider
    BY DEF Grant, outside
  <2>4. QED
    BY <2>2, <2>3 DEF Granting
<1>3. Granting \ {h} \in SUBSET Handler
  BY <1>1
<1>4. /\ Cardinality(Granting') \in Nat /\ Cardinality(Granting) \in Nat
      /\ Cardinality(Granting') <= Cardinality(Granting) - 1
      /\ Cardinality(Handler) \in Nat
  BY <1>1, <1>2, <1>3, Sizes
<1>5. grants \in Nat /\ grants' \in Nat /\ grants' <= grants + 1
  BY PaymentAssumption DEF TypeOK, Grant
<1>6. grants + Cardinality(Granting) <= Cardinality(Handler)
  BY DEF GrantsReserved
<1>7. QED
  BY <1>4, <1>5, <1>6

LEMMA ReservedStep ==
  ASSUME PInv, FailuresAreJustified, GrantsReserved, [Next]_vars
  PROVE  GrantsReserved'
<1>1. TypeOK /\ grants \in Nat
  BY PaymentAssumption DEF PInv, TypeOK
<1>2. CASE CreatePayment
  <2>1. grants = 0 /\ UNCHANGED grants /\ status' = "pending"
    BY <1>2 DEF CreatePayment, PInv, Ordered
  <2>2. QED
    BY <1>1, <2>1, FirstStep
<1>3. CASE \/ AskForMoney \/ AskRefused \/ StoreTransaction
           \/ CustomerPays \/ CustomerDeclines \/ CustomerCompletes \/ UNCHANGED vars
  <2>1. UNCHANGED <<provider, grants, status, serve, astray>>
    BY <1>3 DEF AskForMoney, AskRefused, StoreTransaction, CustomerPays, CustomerDeclines,
                CustomerCompletes, payment, vars
  <2>2. (StatusTellsGrant => StatusTellsGrant') /\ Granting' = Granting
    BY <2>1 DEF StatusTellsGrant, Granting
  <2>3. QED
    BY <1>1, <2>1, <2>2, QuietStep
<1>4. CASE Restart
  <2>1. UNCHANGED <<provider, grants, status, astray>> /\ Granting' = {}
    BY <1>4 DEF Restart, payment, Granting
  <2>2. StatusTellsGrant => StatusTellsGrant'
    BY <2>1 DEF StatusTellsGrant
  <2>3. QED
    BY <1>1, <2>1, <2>2, QuietStep
<1>5. ASSUME NEW h \in Handler, Arrive(h) PROVE GrantsReserved'
  <2>1. UNCHANGED <<provider, grants, status, astray>>
    BY <1>5 DEF Arrive, Poll, NotifyPaid, NotifyDeclined, NotifyStripe, NotifyYo,
                payment, outside
  <2>5. StatusTellsGrant => StatusTellsGrant'
    BY <2>1 DEF StatusTellsGrant
  <2>2. CASE Poll(h) \/ NotifyYo(h)
    <3>1. status # "successful"
      BY <2>2 DEF Poll, NotifyYo
    <3>2. CASE Final
      <4>1. grants = 0
        BY <1>1, <3>1, <3>2 DEF GrantsReserved, StatusTellsGrant
      <4>2. QED
        BY <1>1, <2>1, <3>1, <4>1, FirstStep
    <3>3. CASE ~Final
      BY <2>1, <3>3 DEF Final, GrantsReserved
    <3>4. QED
      BY <3>2, <3>3
  <2>3. CASE NotifyPaid(h) \/ NotifyDeclined(h) \/ NotifyStripe(h)
    <3>1. Granting' \subseteq Granting
      BY <1>1, <2>1, <2>3
         DEF Granting, NotifyPaid, NotifyDeclined, NotifyStripe, Becomes, TypeOK
    <3>2. QED
      BY <1>1, <2>1, <2>5, <3>1, QuietStep
  <2>4. QED
    BY <1>5, <2>2, <2>3 DEF Arrive
<1>6. ASSUME NEW h \in Handler, Work(h) PROVE GrantsReserved'
  <2>1. CASE Grant(h)
    BY <1>1, <2>1, GrantStep
  <2>2. CASE \/ ProviderAnswers(h) \/ AnswersFailed(h) \/ ProviderSilent(h)
            \/ (AnswersElsewhere(h) /\ UNCHANGED astray /\ Becomes(h, "free"))
    <3>5. astray => astray'
      BY <1>6, AstrayStays
    <3>1. UNCHANGED <<provider, grants, status>>
      BY <2>2 DEF ProviderAnswers, AnswersFailed, ProviderSilent, AnswersElsewhere,
                  payment, outside
    <3>2. Granting' \subseteq Granting
      BY <1>1, <2>2, <3>1
         DEF Granting, ProviderAnswers, AnswersFailed, ProviderSilent, AnswersElsewhere,
             Becomes, TypeOK
    <3>3. StatusTellsGrant => StatusTellsGrant'
      BY <3>1 DEF StatusTellsGrant
    <3>4. QED
      BY <1>1, <3>1, <3>2, <3>3, <3>5, QuietStep
  <2>7. CASE AnswersElsewhere(h) /\ astray' = TRUE
    BY <2>7 DEF AnswersElsewhere, GrantsReserved, Final
  <2>3. CASE ReadVerified(h)
    <3>1. provider = "flutterwave" /\ provider' = provider
      BY <2>3 DEF ReadVerified, FailuresAreJustified, outside
    <3>2. QED
      BY <3>1 DEF GrantsReserved, Final
  <2>4. CASE ConfirmSession(h)
    <3>1. UNCHANGED <<provider, grants, status, astray>>
      BY <2>4 DEF ConfirmSession, payment, outside
    <3>5. StatusTellsGrant => StatusTellsGrant'
      BY <3>1 DEF StatusTellsGrant
    <3>2. CASE grants = 0
      <4>1. CASE ~Final
        BY <3>1, <4>1 DEF GrantsReserved, Final
      <4>2. CASE Final
        <5>1. status # "successful"
          BY <3>2, <4>2 DEF GrantsReserved, StatusTellsGrant
        <5>2. QED
          BY <1>1, <3>1, <3>2, <5>1, FirstStep
      <4>3. QED
        BY <4>1, <4>2
    <3>3. CASE grants # 0
      <4>1. CASE ~Final
        BY <3>1, <4>1 DEF GrantsReserved, Final
      <4>2. CASE Final
        <5>1. status = "successful"
          BY <1>1, <3>3, <4>2 DEF GrantsReserved, StatusTellsGrant
        <5>2. Becomes(h, "free")
          BY <2>4, <5>1 DEF ConfirmSession
        <5>3. Granting' \subseteq Granting
          BY <1>1, <3>1, <5>2 DEF Granting, Becomes, TypeOK
        <5>4. QED
          BY <1>1, <3>5, <3>1, <5>3, QuietStep
      <4>3. QED
        BY <4>1, <4>2
    <3>4. QED
      BY <3>2, <3>3
  <2>5. CASE Fail(h)
    <3>1. UNCHANGED <<provider, grants, astray>> /\ Becomes(h, "free")
      BY <2>5 DEF Fail, outside
    <3>2. Granting' \subseteq Granting
      BY <1>1, <3>1 DEF Granting, Becomes, TypeOK
    <3>3. CASE ~Final
      BY <3>1, <3>3 DEF GrantsReserved, Final
    <3>4. CASE Final
      <4>1. charge = "declined" /\ provider # "stripe"
        BY <2>5, <3>4 DEF Fail, FailuresAreJustified
      <4>2. grants = 0
        BY <1>1, <3>1, <3>4, <4>1 DEF Final, Backed, TypeOK, PInv, GrantOnlyIfPaid,
                                     StagesAreJustified
      <4>3. status' # "successful"
        BY <2>5 DEF Fail
      <4>4. QED
        BY <1>1, <3>1, <4>2, <4>3, FirstStep
    <3>5. QED
      BY <3>3, <3>4
  <2>8. CASE AnswersElsewhere(h)
    <3>1. astray' = TRUE \/ (UNCHANGED astray /\ Becomes(h, "free"))
      BY <2>8 DEF AnswersElsewhere
    <3>2. QED
      BY <2>2, <2>7, <2>8, <3>1
  <2>6. QED
    BY <1>6, <2>1, <2>2, <2>3, <2>4, <2>5, <2>8 DEF Work
<1>7. QED
  BY <1>2, <1>3, <1>4, <1>5, <1>6 DEF Next

(***************************************************************************)
(* The inductive invariant while the rate stands: failures are justified,  *)
(* and every request about to grant has its grant reserved, as long as no  *)
(* verdict has gone astray.                                                *)
(***************************************************************************)
THEOREM BoundedInvariant ==
  ASSUME "rate" \notin Allowed
  PROVE  Spec => []BInv
<1>1. Init => FailuresAreJustified /\ GrantsReserved
  <2> SUFFICES ASSUME Init PROVE FailuresAreJustified /\ GrantsReserved
    OBVIOUS
  <2>1. FailuresAreJustified
    BY DEF Init, FailuresAreJustified
  <2>2. Granting = {} /\ grants = 0
    BY DEF Init, Granting
  <2>3. Cardinality(Granting) = 0
    BY <2>2, FS_EmptySet
  <2>4. StatusTellsGrant
    BY DEF Init, StatusTellsGrant
  <2>5. QED
    BY <2>1, <2>2, <2>3, <2>4, Sizes DEF GrantsReserved
<1>2. /\ PInv /\ FailuresAreJustified /\ GrantsReserved /\ [Next]_vars
      => FailuresAreJustified' /\ GrantsReserved'
  BY FailuresStep, ReservedStep
<1>3. QED
  BY <1>1, <1>2, PaidInvariant, PTL DEF Spec, BInv

(***************************************************************************)
(* For any number of requests served together: they grant at most as often *)
(* as there are of them, unless Flutterwave's stale failures reopen the    *)
(* payment, or a verdict that was not the charge's own does.               *)
(***************************************************************************)
THEOREM GrantsAreBounded ==
  ASSUME "rate" \notin Allowed
  PROVE  Spec => []GrantsBounded
<1>1. TypeOK /\ GrantsReserved => GrantsBounded
  <2> SUFFICES ASSUME TypeOK, GrantsReserved, Final
               PROVE  grants <= Cardinality(Handler)
    BY DEF GrantsBounded
  <2>1. grants \in Nat /\ Granting \in SUBSET Handler
    BY PaymentAssumption DEF TypeOK, Granting
  <2>2. Cardinality(Granting) \in Nat /\ Cardinality(Handler) \in Nat
    BY <2>1, Sizes
  <2>3. QED
    BY <2>1, <2>2 DEF GrantsReserved
<1>2. QED
  BY <1>1, BoundedInvariant, PTL DEF BInv, PInv

(***************************************************************************)
(* While the provider's verdicts are final and none has gone astray, a     *)
(* granted payment stays successful and none is successful without its     *)
(* grant.                                                                  *)
(***************************************************************************)
THEOREM GrantNeverReopened ==
  ASSUME "rate" \notin Allowed
  PROVE  Spec => []GrantStands
<1>1. GrantsReserved => GrantStands
  BY DEF GrantsReserved, GrantStands
<1>2. QED
  BY <1>1, BoundedInvariant, PTL DEF BInv

(***************************************************************************)
(* While the provider's verdicts are final and none has gone astray, no    *)
(* interleaving of polls and notifications puts a payment that was paid    *)
(* down as failed.                                                         *)
(***************************************************************************)
THEOREM PaidNeverFails ==
  ASSUME "rate" \notin Allowed
  PROVE  Spec => []PaidIsNotFailed
<1>1. FailuresAreJustified => PaidIsNotFailed
  BY DEF FailuresAreJustified, PaidIsNotFailed
<1>2. QED
  BY <1>1, BoundedInvariant, PTL DEF BInv

-----------------------------------------------------------------------------
(* One request at a time                                                   *)

Serial == StatusTellsGrant /\ GrantOnce /\ StagesAreFresh

\* The stages of a handler that knows the payment as it is.
LEMMA SerialWork ==
  ASSUME PInv, Serial, NEW h \in Handler, \A g \in Handler : g = h, Arrive(h) \/ Work(h)
  PROVE  Serial'
<1>1. TypeOK /\ grants \in Nat /\ MaxGrants \in Nat \ {0} /\ grants <= MaxGrants
  BY PaymentAssumption DEF PInv, TypeOK
<1>2. CASE Grant(h)
  <2>1. grants = 0
    BY <1>1, <1>2 DEF Serial, StagesAreFresh, StatusTellsGrant, Grant
  <2>2. grants' = 1 /\ status' = "successful"
    BY <1>1, <1>2, <2>1 DEF Grant
  <2>3. \A g \in Handler : serve'[g] = "free"
    BY <1>1, <1>2 DEF Grant, Becomes, TypeOK
  <2>4. QED
    BY <2>2, <2>3 DEF Serial, StatusTellsGrant, GrantOnce, StagesAreFresh
<1>3. CASE Fail(h)
  <2>1. grants = 0
    BY <1>1, <1>3 DEF Serial, StagesAreFresh, StatusTellsGrant, Fail
  <2>2. grants' = 0 /\ status' = "failed"
    BY <1>3, <2>1 DEF Fail
  <2>3. QED
    BY <2>2 DEF Serial, StatusTellsGrant, GrantOnce, StagesAreFresh
<1>4. CASE ~Grant(h) /\ ~Fail(h)
  <2>1. UNCHANGED <<grants, status>>
    BY <1>4 DEF Arrive, Work, Poll, NotifyPaid, NotifyDeclined, NotifyStripe, NotifyYo,
                ProviderAnswers, ProviderSilent, AnswersFailed,
         AnswersElsewhere, ReadVerified, ConfirmSession, payment
  <2>2. ASSUME serve'[h] \in {"grant", "fail", "polling", "elsewhere"}
        PROVE  status # "successful"
    BY <1>1, <1>4, <2>2
       DEF Serial, StagesAreFresh, TypeOK, Becomes, Arrive, Work, Poll, NotifyPaid,
           NotifyDeclined, NotifyStripe, NotifyYo, ProviderAnswers, ProviderSilent, AnswersFailed,
         AnswersElsewhere,
           ReadVerified, ConfirmSession
  <2>3. StagesAreFresh'
    BY <2>1, <2>2 DEF StagesAreFresh
  <2>4. QED
    BY <2>1, <2>3 DEF Serial, StatusTellsGrant, GrantOnce
<1>5. QED
  BY <1>2, <1>3, <1>4

LEMMA SerialInvariant ==
  ASSUME Cardinality(Handler) = 1
  PROVE  Spec => []SInv
<1>1. Init => Serial
  BY DEF Init, Serial, StatusTellsGrant, GrantOnce, StagesAreFresh
<1>2. PInv /\ Serial /\ [Next]_vars => Serial'
  <2> SUFFICES ASSUME PInv, Serial, [Next]_vars PROVE Serial'
    OBVIOUS
  <2>1. CASE CreatePayment
    BY <2>1 DEF CreatePayment, PInv, Ordered, Serial, StatusTellsGrant, GrantOnce,
                StagesAreFresh
  <2>2. CASE \/ AskForMoney \/ AskRefused \/ StoreTransaction
             \/ CustomerPays \/ CustomerDeclines \/ CustomerCompletes \/ UNCHANGED vars
    <3>1. UNCHANGED <<grants, status, serve>>
      BY <2>2 DEF AskForMoney, AskRefused, StoreTransaction, CustomerPays, CustomerDeclines,
                  CustomerCompletes, payment, vars
    <3>2. QED
      BY <3>1 DEF Serial, StatusTellsGrant, GrantOnce, StagesAreFresh
  <2>3. ASSUME NEW h \in Handler, Arrive(h) \/ Work(h) PROVE Serial'
    <3>1. PICK o : Handler = {o}
      BY PaymentAssumption, FS_Singleton
    <3>2. \A g \in Handler : g = h
      BY <3>1
    <3>3. QED
      BY <2>3, <3>2, SerialWork
  <2>4. CASE Restart
    BY <2>4 DEF Restart, payment, Serial, StatusTellsGrant, GrantOnce, StagesAreFresh
  <2>5. QED
    BY <2>1, <2>2, <2>3, <2>4 DEF Next
<1>3. PInv /\ Serial => SInv
  BY DEF Serial, SInv
<1>4. QED
  BY <1>1, <1>2, <1>3, PaidInvariant, PTL DEF Spec

(***************************************************************************)
(* Served one at a time, requests grant a payment at most once, whatever   *)
(* is replayed, restarted or repriced.                                     *)
(***************************************************************************)
THEOREM OneAtATimeGrantsOnce ==
  ASSUME Cardinality(Handler) = 1
  PROVE  Spec => []GrantOnce
<1>1. SInv => GrantOnce
  BY DEF SInv
<1>2. QED
  BY <1>1, SerialInvariant, PTL

(***************************************************************************)
(* Served one at a time, the status tells whether an entitlement exists.   *)
(***************************************************************************)
THEOREM OneAtATimeStatusTells ==
  ASSUME Cardinality(Handler) = 1
  PROVE  Spec => []StatusTellsGrant
<1>1. SInv => StatusTellsGrant
  BY DEF SInv
<1>2. QED
  BY <1>1, SerialInvariant, PTL

=============================================================================
