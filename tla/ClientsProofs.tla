----------------------------- MODULE ClientsProofs -----------------------------
(***************************************************************************)
(* The invariants of the clients that Clients puts beside the ingest, for  *)
(* every value of their constants.  Each client has a section: lemmas      *)
(* about its own actions, named after it, then a theorem about the whole.  *)
(* Only the one chosen by `which` moves, so that an invariant of its Init  *)
(* and Next is one of MCSpec.                                              *)
(***************************************************************************)
EXTENDS Clients, Sequences, FiniteSetTheorems, TLAPS

-----------------------------------------------------------------------------
(* Facts about numbers and sequences                                       *)

\* A set of numbers that is not empty has a least one.
LEMMA Least == ASSUME NEW T, T \subseteq Nat, T # {} PROVE \E m \in T : \A k \in T : m <= k
<1>1. PICK m \in T : \A k \in T : <<k, m>> \notin OpToRel(<, Nat)
  BY WFMin, NatLessThanWellFounded, Zenon
<1>2. \A k \in T : ~(k < m)
  BY <1>1, Zenon DEF OpToRel
<1>3. m \in Nat /\ \A k \in T : k \in Nat
  OBVIOUS
<1>4. \A k \in T : m <= k
  BY <1>2, <1>3
<1>5. QED
  BY <1>4

LEMMA SeqElement ==
  ASSUME NEW S, NEW s \in Seq(S), NEW i \in 1 .. Len(s) PROVE s[i] \in S
  OBVIOUS

-----------------------------------------------------------------------------
(* WebSignIn: x1 form, x2 store, x3 account, x4 cookie, x5 me, x6 load,    *)
(* x7 call, x8 kept                                                        *)

\* The states of the form, of a load and of a refresh.
WebForms == [step : {"phone", "pin", "code", "set-pin", "gone"}, pending : Nat,
          busy : {"no", "method", "pin", "code", "verify", "savePin", "login"}]
WebLoads == [at : {"idle", "start", "first", "me", "again", "retry", "out", "failed", "refused",
                "timer"},
          n : Nat, fresh : BOOLEAN, login : BOOLEAN]
WebMes == [is : {"unknown", "in", "out"}, leaving : Nat]
WebCalls == [on : BOOLEAN, sent : Nat, refused : BOOLEAN, late : BOOLEAN]

\* The same type, with these names.
LEMMA WebTypes ==
  Web!TypeOK <=> /\ x1 \in WebForms
                 /\ x2 \in [s : Nat, fresh : BOOLEAN]
                 /\ x3 \in [made : Nat, ended : SUBSET Nat, pinSet : BOOLEAN]
                 /\ x4 \in Nat /\ x5 \in WebMes
                 /\ x6 \in [Handler -> WebLoads] /\ x7 \in WebCalls /\ x8 \in Nat
BY DEF Web!TypeOK, WebForms, WebLoads, WebCalls, WebMes

LEMMA WebEmpties ==
  /\ Web!Nothing \in [s : Nat, fresh : BOOLEAN] /\ Web!Nothing.s = 0
  /\ Web!NoLoad \in WebLoads /\ Web!NoLoad.n = 0
  /\ Web!NoCall \in WebCalls /\ Web!NoCall.on = FALSE
  /\ Web!FreshForm \in WebForms /\ Web!Gone \in WebForms
  /\ \A i \in {"unknown", "in", "out"} : [is |-> i, leaving |-> 0] \in WebMes
BY DEF WebMes, Web!Nothing, Web!NoLoad, WebLoads, Web!NoCall, WebCalls, Web!FreshForm,
       Web!Gone, WebForms

\* A page just loaded has one load under way.
LEMMA WebOneLoad ==
  ASSUME NEW l \in Handler, NEW x, x = [[k \in Handler |-> Web!NoLoad] EXCEPT ![l].at = "start"]
  PROVE  x \in [Handler -> WebLoads]
BY WebEmpties DEF WebLoads

LEMMA WebInitially == Web!Init => Web!IInv
<1> SUFFICES ASSUME Web!Init PROVE Web!IInv
  OBVIOUS
<1>1. PICK e \in SUBSET {1}, c \in {0, 1}, f \in BOOLEAN, p \in BOOLEAN :
        /\ x3 = [made |-> 1, ended |-> e, pinSet |-> p]
        /\ x4 = c
        /\ x2 \in {Web!Nothing, [s |-> c, fresh |-> f /\ c = 1]}
  BY DEF Web!Init
<1>2. x2 \in [s : Nat, fresh : BOOLEAN]
  <2>1. PICK b \in BOOLEAN : b = (f /\ c = 1)
    OBVIOUS
  <2>2. [s |-> c, fresh |-> b] \in [s : Nat, fresh : BOOLEAN]
    OBVIOUS
  <2>3. QED
    BY <1>1, <2>1, <2>2, WebEmpties
<1>3. x3 \in [made : Nat, ended : SUBSET Nat, pinSet : BOOLEAN] /\ x4 \in Nat
  BY <1>1
<1>4. x6 \in [Handler -> WebLoads]
  BY WebOneLoad DEF Web!Init
<1>5. Web!TypeOK
  BY <1>2, <1>3, <1>4, WebEmpties, WebTypes DEF Web!Init
<1>6. Web!KeptLives /\ Web!SentForKept /\ Web!LoginStands
  BY DEF Web!Init, Web!KeptLives, Web!SentForKept, Web!LoginStands
<1>7. QED
  BY <1>5, <1>6 DEF Web!IInv

\* A refresh is sent for the session that is kept.
LEMMA WebBeginSends ==
  ASSUME Web!IInv
  PROVE  /\ Web!Begin \in WebCalls
         /\ x8 # 0 /\ Web!Begin.on /\ ~Web!Begin.late => Web!Begin.sent = x8
<1>1. CASE x7.on
  BY <1>1, WebTypes DEF Web!Begin, Web!IInv, Web!SentForKept
<1>2. CASE ~x7.on
  <2>1. PICK t \in Nat : t = IF x2.s # 0 THEN x2.s ELSE x4
    <3>1. x2.s \in Nat /\ x4 \in Nat
      BY WebTypes DEF Web!IInv
    <3>2. QED
      BY <3>1
  <2>2. PICK b \in BOOLEAN : b = (t \in x3.ended \cup {0})
    <3>1. (t \in x3.ended \cup {0}) \in BOOLEAN
      OBVIOUS
    <3>2. QED
      BY <3>1, Zenon
  <2>3. Web!Begin = [on |-> TRUE, sent |-> t, refused |-> b, late |-> FALSE]
    BY <1>2, <2>1, <2>2 DEF Web!Begin
  <2>4. QED
    BY <2>1, <2>3 DEF WebCalls, Web!IInv, Web!LoginStands
<1>3. QED
  BY <1>1, <1>2

\* A load that waited for the refresh.
LEMMA WebResumedType ==
  ASSUME NEW l \in Handler, x6 \in [Handler -> WebLoads], NEW granted \in BOOLEAN, NEW left \in BOOLEAN
  PROVE  Web!Resumed(l, granted, left) \in WebLoads
<1>1. PICK r \in WebLoads : r = x6[l]
  OBVIOUS
<1>2. /\ [r EXCEPT !.at = "me", !.fresh = TRUE] \in WebLoads
      /\ [r EXCEPT !.at = "retry", !.fresh = TRUE] \in WebLoads
      /\ [r EXCEPT !.at = "out"] \in WebLoads
      /\ [r EXCEPT !.at = "failed"] \in WebLoads
      /\ [r EXCEPT !.at = "refused"] \in WebLoads
  BY DEF WebLoads
<1>3. QED
  BY <1>1, <1>2 DEF Web!Resumed

\* What the invariant needs of a step that leaves the tokens alone.
LEMMA WebTokensStay ==
  ASSUME Web!IInv, UNCHANGED <<x2, x3, x4, x8>>,
         x7' \in WebCalls, x8 # 0 /\ x7'.on /\ ~x7'.late => x7'.sent = x8,
         x1' \in WebForms, x5' \in WebMes, x6' \in [Handler -> WebLoads]
  PROVE  Web!IInv'
<1>1. /\ x8' = x8 /\ x2' = x2 /\ x3' = x3 /\ x4' = x4
      /\ Web!TypeOK /\ Web!KeptLives /\ Web!LoginStands
  BY DEF Web!IInv
<1>2. Web!TypeOK'
  BY <1>1, WebTypes DEF Web!TypeOK, WebForms, WebLoads, WebCalls, WebMes
<1>3. Web!KeptLives' /\ Web!SentForKept' /\ Web!LoginStands'
  BY <1>1 DEF Web!KeptLives, Web!SentForKept, Web!LoginStands
<1>4. QED
  BY <1>2, <1>3 DEF Web!IInv

\* The form, of which only the step and what it waits for change.
LEMMA WebStepType ==
  ASSUME x1 \in WebForms,
         NEW s \in {"phone", "pin", "code", "set-pin", "gone"},
         NEW b \in {"no", "method", "pin", "code", "verify", "savePin", "login"}, Web!Step(s, b)
  PROVE  x1' \in WebForms
BY DEF Web!Step, WebForms

\* Tokens are stored, of a session that may have ended meanwhile.
LEMMA WebLoginKeeps ==
  ASSUME Web!IInv, NEW l \in Handler, NEW s \in Nat, NEW b \in {"login", "no"}, Web!Login(l, s, b),
         x3' \in [made : Nat, ended : SUBSET Nat, pinSet : BOOLEAN],
         x3'.ended = x3.ended, x4' \in Nat
  PROVE  Web!IInv'
<1>1. /\ x2' = [s |-> s, fresh |-> TRUE]
      /\ x6' = [x6 EXCEPT ![l] = [Web!NoLoad EXCEPT !.at = "start", !.login = TRUE]]
      /\ x7' = [x7 EXCEPT !.late = x7.on]
      /\ x1' = [x1 EXCEPT !.busy = b]
      /\ x8' = IF s \in x3.ended THEN 0 ELSE s
      /\ x5' = x5
  BY DEF Web!Login
<1>2. /\ x1 \in WebForms /\ x6 \in [Handler -> WebLoads] /\ x7 \in WebCalls
      /\ x5 \in WebMes
  BY WebTypes DEF Web!IInv
<1>3. x6' \in [Handler -> WebLoads]
  BY <1>1, <1>2, WebEmpties DEF WebLoads
<1>4. x7' \in WebCalls /\ x7'.late = x7.on /\ x7'.on = x7.on
  BY <1>1, <1>2 DEF WebCalls
<1>5. x1' \in WebForms
  BY <1>1, <1>2 DEF WebForms
<1>6. x8' \in Nat /\ x2' \in [s : Nat, fresh : BOOLEAN]
  BY <1>1
<1>7. Web!TypeOK'
  BY <1>1, <1>2, <1>3, <1>4, <1>5, <1>6 DEF Web!TypeOK, WebForms, WebLoads, WebCalls, WebMes
<1>8. Web!KeptLives' /\ Web!SentForKept' /\ Web!LoginStands'
  BY <1>1, <1>4 DEF Web!KeptLives, Web!SentForKept, Web!LoginStands
<1>9. QED
  BY <1>7, <1>8 DEF Web!IInv

\* The refresh is answered.
LEMMA WebAnswerKeeps ==
  ASSUME Web!IInv, Web!Granted \/ \E r \in BOOLEAN : Web!NotGranted(r) PROVE Web!IInv'
<1>1. /\ Web!TypeOK /\ Web!KeptLives /\ Web!SentForKept /\ Web!LoginStands
      /\ x1 \in WebForms /\ x6 \in [Handler -> WebLoads] /\ x7 \in WebCalls
      /\ x2 \in [s : Nat, fresh : BOOLEAN] /\ x8 \in Nat /\ x4 \in Nat
      /\ x3 \in [made : Nat, ended : SUBSET Nat, pinSet : BOOLEAN]
      /\ x5 \in WebMes
  BY WebTypes DEF Web!IInv
<1>2. ASSUME Web!Granted PROVE Web!IInv'
  <2>1. /\ x7.on /\ x2' = [s |-> x7.sent, fresh |-> TRUE] /\ x4' = x7.sent
        /\ x6' = [l \in Handler |-> Web!Resumed(l, TRUE, TRUE)]
        /\ x8' = (IF x7.late THEN 0 ELSE x8)
        /\ x7' = Web!NoCall /\ UNCHANGED <<x1, x3>>
        /\ x5' = x5 \/ x5' = [x5 EXCEPT !.leaving = x7.sent]
    BY <1>2 DEF Web!Granted
  <2>2. x6' \in [Handler -> WebLoads]
    BY <1>1, <2>1, WebResumedType
  <2>3. /\ x2' \in [s : Nat, fresh : BOOLEAN] /\ x4' \in Nat /\ x8' \in Nat
        /\ x5' \in WebMes
    BY <1>1, <2>1 DEF WebCalls, WebMes
  <2>4. Web!TypeOK'
    BY <1>1, <2>1, <2>2, <2>3, WebEmpties DEF Web!TypeOK, WebForms, WebLoads, WebCalls, WebMes
  <2>5. Web!KeptLives' /\ Web!SentForKept' /\ Web!LoginStands'
    BY <1>1, <2>1, WebEmpties DEF Web!KeptLives, Web!SentForKept, Web!LoginStands
  <2>6. QED
    BY <2>4, <2>5 DEF Web!IInv
<1>3. ASSUME NEW r \in BOOLEAN, Web!NotGranted(r) PROVE Web!IInv'
  <2>1. /\ x7.on /\ (r => x7.sent \in x3.ended \cup {0})
        /\ x2' = (IF r THEN Web!Nothing ELSE x2)
        /\ x6' = [l \in Handler |-> Web!Resumed(l, FALSE, x2'.s # 0)]
        /\ x8' = (IF r /\ x7.late THEN 0 ELSE x8)
        /\ x7' = Web!NoCall /\ UNCHANGED <<x1, x3, x4, x5>>
    BY <1>3 DEF Web!NotGranted, Web!Clears
  <2>2. x6' \in [Handler -> WebLoads]
    <3>1. PICK b \in BOOLEAN : b = (x2'.s # 0)
      OBVIOUS
    <3>2. x6' = [l \in Handler |-> Web!Resumed(l, FALSE, b)]
      BY <2>1, <3>1
    <3>3. QED
      BY <1>1, <3>2, WebResumedType
  <2>3. x2' \in [s : Nat, fresh : BOOLEAN] /\ x8' \in Nat
    BY <1>1, <2>1, WebEmpties
  <2>4. Web!TypeOK'
    BY <1>1, <2>1, <2>2, <2>3, WebEmpties DEF Web!TypeOK, WebForms, WebLoads, WebCalls, WebMes
  <2>5. r /\ ~x7.late => x8 = 0
    BY <1>1, <2>1 DEF Web!KeptLives, Web!SentForKept, WebCalls
  <2>6. Web!KeptLives' /\ Web!SentForKept' /\ Web!LoginStands'
    BY <1>1, <2>1, <2>5, WebEmpties DEF Web!KeptLives, Web!SentForKept, Web!LoginStands
  <2>7. QED
    BY <2>4, <2>6 DEF Web!IInv
<1>4. QED
  BY <1>2, <1>3

\* A load goes one step on.
LEMMA WebLoadKeeps ==
  ASSUME Web!IInv, NEW l \in Handler,
         Web!Start(l) \/ Web!Expired(l) \/ Web!Known(l) \/ Web!Unknown(l) \/ Web!Fail(l) \/ Web!Timer(l)
  PROVE  Web!IInv'
<1>1. /\ x6 \in [Handler -> WebLoads] /\ x1 \in WebForms /\ x7 \in WebCalls
      /\ x5 \in WebMes /\ x2.fresh \in BOOLEAN
      /\ Web!SentForKept
  BY WebTypes DEF Web!IInv
<1>2. /\ Web!Begin \in WebCalls
      /\ x8 # 0 /\ Web!Begin.on /\ ~Web!Begin.late => Web!Begin.sent = x8
      /\ x8 # 0 /\ x7.on /\ ~x7.late => x7.sent = x8
  BY <1>1, WebBeginSends DEF Web!SentForKept
<1>3. \A r \in WebLoads : [x6 EXCEPT ![l] = r] \in [Handler -> WebLoads]
  BY <1>1
<1>4. x6[l] \in WebLoads /\ x6[l].n \in Nat
  BY <1>1 DEF WebLoads
<1>5. \A stage \in {"first", "again", "start"} :
         [x6 EXCEPT ![l].at = stage] \in [Handler -> WebLoads]
  BY <1>1 DEF WebLoads
<1>6. ASSUME Web!Start(l) PROVE Web!IInv'
  <2>1. x6' \in [Handler -> WebLoads]
    BY <1>1, <1>5, <1>6 DEF Web!Start, Web!To, WebLoads
  <2>2. (x7' = Web!Begin \/ x7' = x7) /\ UNCHANGED <<x1, x2, x3, x4, x5, x8>>
    BY <1>6 DEF Web!Start
  <2>3. QED
    BY <1>1, <1>2, <2>1, <2>2, WebTokensStay
<1>7. ASSUME Web!Expired(l) PROVE Web!IInv'
  BY <1>1, <1>2, <1>5, <1>7, WebTokensStay DEF Web!Expired, Web!To
<1>8. ASSUME NEW r \in WebLoads, Web!Resolve(l, r), x5' \in WebMes,
             UNCHANGED <<x2, x3, x4, x7, x8>>
      PROVE  Web!IInv'
  <2>1. x6' \in [Handler -> WebLoads] /\ x1' \in WebForms
    BY <1>1, <1>3, <1>8, WebEmpties DEF Web!Resolve
  <2>2. QED
    BY <1>1, <1>2, <1>8, <2>1, WebTokensStay
<1>9. ASSUME Web!Known(l) \/ Web!Unknown(l) PROVE Web!IInv'
  <2>1. x5' \in WebMes
    BY <1>1, <1>9 DEF Web!Known, Web!Unknown, WebMes
  <2>2. QED
    BY <1>8, <1>9, <2>1, WebEmpties DEF Web!Known, Web!Unknown
<1>10. ASSUME Web!Fail(l) PROVE Web!IInv'
  <2>1. PICK n \in Nat : n = x6[l].n + 1
    BY <1>4
  <2>2. PICK r : r = [Web!NoLoad EXCEPT !.at = "timer", !.n = n]
    OBVIOUS
  <2> r \in WebLoads
    BY <2>2 DEF Web!NoLoad, WebLoads
  <2>3. Web!Resolve(l, r) \/ Web!Resolve(l, Web!NoLoad)
    BY <1>10, <2>1, <2>2 DEF Web!Fail
  <2>4. x5' \in WebMes /\ UNCHANGED <<x2, x3, x4, x7, x8>>
    BY <1>1, <1>10 DEF Web!Fail, WebMes
  <2>5. QED
    BY <1>8, <2>3, <2>4, WebEmpties
<1>11. ASSUME Web!Timer(l) PROVE Web!IInv'
  BY <1>1, <1>2, <1>5, <1>11, WebTokensStay DEF Web!Timer, Web!To
<1>12. QED
  BY <1>6, <1>7, <1>9, <1>10, <1>11

\* Steps of the login form that store no tokens.
LEMMA WebFormKeeps ==
  ASSUME Web!IInv, Web!Submit \/ Web!HaveCode \/ Web!MethodIs \/ Web!CodeSent \/ Web!Refused \/ Web!Visit
  PROVE  Web!IInv'
<1>1. /\ x1 \in WebForms /\ x6 \in [Handler -> WebLoads] /\ x7 \in WebCalls
      /\ x5 \in WebMes
      /\ x1.step \in {"phone", "pin", "code", "set-pin", "gone"}
      /\ x1.busy \in {"no", "method", "pin", "code", "verify", "savePin", "login"}
      /\ x8 # 0 /\ x7.on /\ ~x7.late => x7.sent = x8
  BY WebTypes DEF Web!IInv, Web!SentForKept, WebForms
<1>2. Web!FormOnly /\ x1' \in WebForms
  <2>1. CASE Web!Submit
    BY <1>1, <2>1, WebStepType DEF Web!Submit
  <2>2. CASE Web!HaveCode \/ Web!CodeSent
    BY <1>1, <2>2, WebStepType DEF Web!HaveCode, Web!CodeSent
  <2>3. CASE Web!MethodIs
    BY <1>1, <2>3, WebStepType DEF Web!MethodIs
  <2>4. CASE Web!Refused
    BY <1>1, <2>4, WebStepType DEF Web!Refused
  <2>5. CASE Web!Visit
    BY <2>5, WebEmpties DEF Web!Visit
  <2>6. QED
    BY <2>1, <2>2, <2>3, <2>4, <2>5
<1>3. QED
  BY <1>1, <1>2, WebTokensStay DEF Web!FormOnly

\* Signing in stores tokens, at once or when the PIN is set or skipped.
LEMMA WebSignInKeeps ==
  ASSUME Web!IInv, Web!SignedIn \/ Web!PinSaved \/ Web!Skip PROVE Web!IInv'
<1>1. /\ Web!TypeOK /\ Web!KeptLives /\ Web!SentForKept /\ Web!LoginStands
      /\ x1 \in WebForms /\ x6 \in [Handler -> WebLoads] /\ x7 \in WebCalls
      /\ x2 \in [s : Nat, fresh : BOOLEAN] /\ x8 \in Nat /\ x4 \in Nat
      /\ x3 \in [made : Nat, ended : SUBSET Nat, pinSet : BOOLEAN]
      /\ x5 \in WebMes
      /\ x1.pending \in Nat
  BY WebTypes DEF Web!IInv, WebForms
<1>2. ASSUME Web!SignedIn PROVE Web!IInv'
  <2>1. PICK s \in Nat : s = x3.made + 1
    BY <1>1
  <2>2. /\ x3' = [x3 EXCEPT !.made = s] /\ x4' = s
        /\ \/ \E l \in Handler : Web!Login(l, s, "login")
           \/ /\ x1' = [step |-> "set-pin", busy |-> "no", pending |-> s]
              /\ UNCHANGED <<x2, x5, x6, x7, x8>>
    BY <1>2, <2>1 DEF Web!SignedIn
  <2>3. /\ x3' \in [made : Nat, ended : SUBSET Nat, pinSet : BOOLEAN]
        /\ x3'.ended = x3.ended /\ x4' \in Nat
    BY <1>1, <2>1, <2>2
  <2>4. CASE \E l \in Handler : Web!Login(l, s, "login")
    BY <2>1, <2>3, <2>4, WebLoginKeeps
  <2>5. CASE /\ x1' = [step |-> "set-pin", busy |-> "no", pending |-> s]
             /\ UNCHANGED <<x2, x5, x6, x7, x8>>
    <3>1. x1' \in WebForms
      BY <2>1, <2>5 DEF WebForms
    <3>2. Web!TypeOK'
      BY <1>1, <2>3, <2>5, <3>1 DEF Web!TypeOK, WebForms, WebLoads, WebCalls, WebMes
    <3>3. Web!KeptLives' /\ Web!SentForKept' /\ Web!LoginStands'
      BY <1>1, <2>3, <2>5 DEF Web!KeptLives, Web!SentForKept, Web!LoginStands
    <3>4. QED
      BY <3>2, <3>3 DEF Web!IInv
  <2>6. QED
    BY <2>2, <2>4, <2>5
<1>3. ASSUME Web!PinSaved PROVE Web!IInv'
  <2>1. PICK l \in Handler : Web!Login(l, x1.pending, "login")
    BY <1>3 DEF Web!PinSaved
  <2>2. /\ x3' \in [made : Nat, ended : SUBSET Nat, pinSet : BOOLEAN]
        /\ x3'.ended = x3.ended /\ x4' \in Nat
    BY <1>1, <1>3 DEF Web!PinSaved
  <2>3. QED
    BY <1>1, <2>1, <2>2, WebLoginKeeps
<1>4. ASSUME Web!Skip PROVE Web!IInv'
  <2>1. PICK l \in Handler : Web!Login(l, x1.pending, "no")
    BY <1>4 DEF Web!Skip
  <2>2. UNCHANGED <<x3, x4>>
    BY <1>4 DEF Web!Skip
  <2>3. QED
    BY <1>1, <2>1, <2>2, WebLoginKeeps
<1>5. QED
  BY <1>2, <1>3, <1>4

LEMMA WebInductive == ASSUME Web!IInv, [Web!Next]_(Web!vars) PROVE Web!IInv'
<1>1. /\ Web!TypeOK /\ Web!KeptLives /\ Web!SentForKept /\ Web!LoginStands
      /\ x1 \in WebForms /\ x6 \in [Handler -> WebLoads] /\ x7 \in WebCalls
      /\ x2 \in [s : Nat, fresh : BOOLEAN] /\ x8 \in Nat /\ x4 \in Nat
      /\ x3 \in [made : Nat, ended : SUBSET Nat, pinSet : BOOLEAN]
      /\ x5 \in WebMes
      /\ x8 # 0 /\ x7.on /\ ~x7.late => x7.sent = x8
  BY WebTypes DEF Web!IInv, Web!SentForKept
<1>2. ASSUME Web!AnyPage PROVE Web!IInv'
  BY <1>1, <1>2, WebBeginSends, WebTokensStay DEF Web!AnyPage
<1>3. ASSUME Web!Logout PROVE Web!IInv'
  <2>1. /\ x5' = [x5 EXCEPT !.leaving = x2.s] \/ x5' = [x5 EXCEPT !.is = "out"]
        /\ UNCHANGED x1 \/ Web!Home
        /\ UNCHANGED <<x2, x3, x4, x6, x7, x8>>
    BY <1>3 DEF Web!Logout
  <2>2. x5' \in WebMes /\ x1' \in WebForms
    BY <1>1, <2>1, WebEmpties DEF WebMes, Web!Home
  <2>3. QED
    BY <1>1, <2>1, <2>2, WebTokensStay
<1>4. ASSUME Web!LoggedOut PROVE Web!IInv'
  <2>1. /\ x2' = Web!Nothing /\ x5' = [is |-> "out", leaving |-> 0] /\ x8' = 0
        /\ Web!Home /\ UNCHANGED <<x6, x7>>
        /\ \/ UNCHANGED <<x3, x4>>
           \/ x3' = [x3 EXCEPT !.ended = @ \cup {x5.leaving}] /\ x4' = 0
    BY <1>4 DEF Web!LoggedOut
  <2>2. /\ x3' \in [made : Nat, ended : SUBSET Nat, pinSet : BOOLEAN] /\ x4' \in Nat
        /\ x1' \in WebForms
    BY <1>1, <2>1, WebEmpties DEF WebMes, Web!Home
  <2>3. Web!TypeOK'
    BY <1>1, <2>1, <2>2, WebEmpties DEF Web!TypeOK, WebForms, WebLoads, WebCalls, WebMes
  <2>4. Web!KeptLives' /\ Web!SentForKept' /\ Web!LoginStands'
    BY <2>1 DEF Web!KeptLives, Web!SentForKept, Web!LoginStands
  <2>5. QED
    BY <2>3, <2>4 DEF Web!IInv
<1>5. ASSUME Web!Reload PROVE Web!IInv'
  <2>1. /\ x1' \in {Web!FreshForm, Web!Gone} /\ x5' = [is |-> "unknown", leaving |-> 0]
        /\ x7' = Web!NoCall
        /\ UNCHANGED <<x2, x3, x4, x8>>
    BY <1>5 DEF Web!Reload
  <2>2. x6' \in [Handler -> WebLoads]
    BY <1>5, WebOneLoad DEF Web!Reload
  <2>3. QED
    BY <2>1, <2>2, WebEmpties, WebTokensStay
<1>6. ASSUME Web!Expire PROVE Web!IInv'
  <2>1. /\ x2' = [x2 EXCEPT !.fresh = FALSE]
        /\ UNCHANGED <<x1, x3, x4, x5, x6, x7, x8>>
    BY <1>6 DEF Web!Expire
  <2>2. x2' \in [s : Nat, fresh : BOOLEAN] /\ x2'.s = x2.s
    BY <1>1, <2>1
  <2>3. Web!TypeOK'
    BY <1>1, <2>1, <2>2 DEF Web!TypeOK
  <2>4. Web!KeptLives' /\ Web!SentForKept' /\ Web!LoginStands'
    BY <1>1, <2>1, <2>2 DEF Web!KeptLives, Web!SentForKept, Web!LoginStands
  <2>5. QED
    BY <2>3, <2>4 DEF Web!IInv
<1>7. ASSUME NEW s \in 1..MaxSessions, Web!End(s) PROVE Web!IInv'
  <2>1. /\ x3' = [x3 EXCEPT !.ended = @ \cup {s}]
        /\ x8' = (IF x8 = s THEN 0 ELSE x8)
        /\ UNCHANGED <<x1, x2, x4, x5, x6, x7>>
    BY <1>7 DEF Web!End
  <2>2. s \in Nat
    BY ClientsAssumption
  <2>3. /\ x3' \in [made : Nat, ended : SUBSET Nat, pinSet : BOOLEAN]
        /\ x3'.ended = x3.ended \cup {s}
        /\ x8' \in Nat
    BY <1>1, <2>1, <2>2
  <2>4. Web!TypeOK'
    BY <1>1, <2>1, <2>3 DEF Web!TypeOK
  <2>5. Web!KeptLives' /\ Web!SentForKept' /\ Web!LoginStands'
    BY <1>1, <2>1, <2>3 DEF Web!KeptLives, Web!SentForKept, Web!LoginStands
  <2>6. QED
    BY <2>4, <2>5 DEF Web!IInv
<1>8. CASE UNCHANGED Web!vars
  BY <1>1, <1>8, WebTokensStay DEF Web!vars
<1>9. QED
  BY <1>2, <1>3, <1>5, <1>6, <1>7, <1>8, <1>4, WebAnswerKeeps, WebLoadKeeps, WebFormKeeps,
     WebSignInKeeps DEF Web!Next

(***************************************************************************)
(* For any number of loads under way, of sessions and of attempts: who has *)
(* signed in keeps the tokens until a sign-out is over, the session is     *)
(* ended or a refresh of the session before is answered.                   *)
(***************************************************************************)
THEOREM SignInsStand == MCSpec => []LoginStands
<1> DEFINE Inv == which = "web" => Web!IInv
<1>1. MCInit => Inv
  BY WebInitially DEF MCInit
<1>2. Inv /\ [MCNext]_<<which, vars, xs>> => Inv'
  <2> SUFFICES ASSUME which = "web", Web!IInv, [Web!Next]_(Web!vars)
               PROVE  Web!IInv'
    BY DEF MCNext, xs, Web!vars
  <2> QED
    BY WebInductive
<1>3. Inv => LoginStands
  BY DEF LoginStands, Web!IInv
<1>4. QED
  BY <1>1, <1>2, <1>3, PTL DEF MCSpec

-----------------------------------------------------------------------------
(* TitleEditor: x1 row, x2 form, x3 request, x4 save, x5 upload, x6 current *)

LEMMA EditorBlankTitle == Editor!TypeOK => Editor!Blank \in Editor!Title
BY DEF Editor!TypeOK, Editor!Blank

LEMMA EditorInitially == Editor!Init => Editor!IInv
<1> SUFFICES ASSUME Editor!Init PROVE Editor!IInv
  OBVIOUS
<1>1. Editor!Blank \in Editor!Title
  BY DEF Editor!Init, Editor!Blank
<1>2. Editor!TypeOK
  BY <1>1 DEF Editor!Init, Editor!TypeOK, Editor!NoRequest, Editor!NoSave, Editor!NoUpload
<1>3. Editor!HasRead /\ Editor!SavesShown /\ Editor!ShownIsStored
  BY DEF Editor!Init, Editor!HasRead, Editor!At, Editor!NoRequest, Editor!SavesShown,
         Editor!NoSave, Editor!ShownIsStored
<1>4. QED
  BY <1>2, <1>3 DEF Editor!IInv

\* A change of the row overtakes every load that has read it.
LEMMA EditorRowChanges ==
  ASSUME Editor!TypeOK, NEW S, S \subseteq Handler,
         x3' = [h \in Handler |-> IF h \in S THEN [x3[h] EXCEPT !.at = "done"]
                                       ELSE Editor!Overtaken(x3[h])]
  PROVE  /\ x3' \in [Handler -> [at : {"idle", "artwork", "episodes", "done", "load", "read"},
                                      got : Editor!Title, over : BOOLEAN]]
         /\ Editor!HasRead'
<1>1. x3' \in [Handler -> [at : {"idle", "artwork", "episodes", "done", "load", "read"},
                                got : Editor!Title, over : BOOLEAN]]
  BY DEF Editor!TypeOK, Editor!Overtaken
<1>2. ASSUME NEW h \in Handler, x3'[h].at = "read" PROVE x3'[h].over
  BY <1>2 DEF Editor!TypeOK, Editor!Overtaken
<1>3. Editor!HasRead'
  BY <1>2 DEF Editor!HasRead, Editor!At
<1>4. QED
  BY <1>1, <1>3

\* One request goes on, and what it has read is the row as it is.
LEMMA EditorOneGoesOn ==
  ASSUME Editor!TypeOK, Editor!HasRead, UNCHANGED x1, NEW h \in Handler,
         NEW r \in [at : {"idle", "artwork", "episodes", "done", "load", "read"},
                    got : Editor!Title, over : BOOLEAN],
         x3' = [x3 EXCEPT ![h] = r],
         r.at = "read" => r.got = x1
  PROVE  /\ x3' \in [Handler -> [at : {"idle", "artwork", "episodes", "done", "load", "read"},
                                      got : Editor!Title, over : BOOLEAN]]
         /\ Editor!HasRead'
<1>1. x3' \in [Handler -> [at : {"idle", "artwork", "episodes", "done", "load", "read"},
                                got : Editor!Title, over : BOOLEAN]]
  BY DEF Editor!TypeOK
<1>2. \A k \in Handler : x3'[k] = IF k = h THEN r ELSE x3[k]
  BY DEF Editor!TypeOK
<1>3. Editor!HasRead'
  BY <1>2 DEF Editor!HasRead, Editor!At
<1>4. QED
  BY <1>1, <1>3

LEMMA EditorInductive == ASSUME Editor!IInv, [Editor!Next]_(Editor!vars) PROVE Editor!IInv'
<1>1. Editor!TypeOK /\ Editor!HasRead /\ Editor!SavesShown /\ Editor!ShownIsStored /\ Editor!Blank \in Editor!Title
  BY EditorBlankTitle DEF Editor!IInv
<1>2. /\ Editor!Joined \in [at : {"idle", "sent", "stored"}, body : Editor!Title, alone : BOOLEAN]
      /\ ~Editor!Joined.alone
      /\ Editor!NoUpload(Editor!Blank) \in [on : BOOLEAN, value : Editor!Title]
      /\ Editor!NoRequest(Editor!Blank) \in [at : {"idle"}, got : Editor!Title, over : BOOLEAN]
      /\ Editor!NoSave(Editor!Blank) \in [at : {"idle", "sent", "stored"}, body : Editor!Title, alone : BOOLEAN]
      /\ ~Editor!NoSave(Editor!Blank).alone
  BY <1>1 DEF Editor!TypeOK, Editor!Joined, Editor!NoUpload, Editor!NoRequest, Editor!NoSave
<1>3. ASSUME NEW t \in Text \cup {NoText}, Editor!Type(t) PROVE Editor!IInv'
  <2>1. x2' \in Editor!Title /\ x4' = Editor!Joined /\ x6' = FALSE /\ UNCHANGED <<x1, x3, x5>>
    BY <1>1, <1>3 DEF Editor!Type, Editor!TypeOK, Editor!Title
  <2>2. QED
    BY <1>1, <1>2, <2>1
       DEF Editor!IInv, Editor!TypeOK, Editor!HasRead, Editor!At, Editor!SavesShown,
           Editor!ShownIsStored
<1>4. ASSUME Editor!ChooseImage PROVE Editor!IInv'
  BY <1>1, <1>4
     DEF Editor!ChooseImage, Editor!IInv, Editor!TypeOK, Editor!HasRead, Editor!At,
         Editor!SavesShown, Editor!ShownIsStored
<1>5. ASSUME Editor!ImageFails PROVE Editor!IInv'
  BY <1>1, <1>2, <1>5
     DEF Editor!ImageFails, Editor!IInv, Editor!TypeOK, Editor!HasRead, Editor!At,
         Editor!SavesShown, Editor!ShownIsStored
<1>6. ASSUME NEW a \in Art, Editor!ImageIn(a) PROVE Editor!IInv'
  <2>1. x2' \in Editor!Title /\ x4' = Editor!Joined /\ x6' = FALSE /\ UNCHANGED <<x1, x3>>
    BY <1>1, <1>6 DEF Editor!ImageIn, Editor!TypeOK, Editor!Title
  <2>2. x5' \in [on : BOOLEAN, value : Editor!Title]
    BY <1>2, <1>6 DEF Editor!ImageIn
  <2>3. QED
    BY <1>1, <1>2, <2>1, <2>2
       DEF Editor!IInv, Editor!TypeOK, Editor!HasRead, Editor!At, Editor!SavesShown,
           Editor!ShownIsStored
<1>7. ASSUME Editor!Save PROVE Editor!IInv'
  BY <1>1, <1>7
     DEF Editor!Save, Editor!IInv, Editor!TypeOK, Editor!HasRead, Editor!At,
         Editor!SavesShown, Editor!ShownIsStored
<1>8. ASSUME Editor!Stored PROVE Editor!IInv'
  <2>1. /\ x4.at = "sent" /\ x1' = Editor!Update(x1, x4.body) /\ UNCHANGED <<x2, x5>>
        /\ x3' = [h \in Handler |-> Editor!Overtaken(x3[h])]
        /\ x6' = (x4.alone /\ x4.body.text # NoText)
        /\ x4.body \in Editor!Title /\ x4.alone \in BOOLEAN
    BY <1>1, <1>8 DEF Editor!Stored, Editor!TypeOK
  <2>2. x4' \in [at : {"idle", "sent", "stored"}, body : Editor!Title, alone : BOOLEAN] /\ x4'.at = "stored"
    BY <1>2, <1>8 DEF Editor!Stored, Editor!NoSave
  <2>3. /\ x1' \in Editor!Title
        /\ x4.body.text # NoText => x1' = x4.body
    BY <1>1, <2>1 DEF Editor!Update, Editor!TypeOK, Editor!Title
  <2>4. /\ x3' \in [Handler -> [at : {"idle", "artwork", "episodes", "done", "load", "read"},
                                      got : Editor!Title, over : BOOLEAN]]
        /\ Editor!HasRead'
    <3>1. PICK none \in SUBSET Handler : none = {}
      OBVIOUS
    <3>2. x3' = [h \in Handler |-> IF h \in none THEN [x3[h] EXCEPT !.at = "done"]
                                        ELSE Editor!Overtaken(x3[h])]
      BY <2>1, <3>1
    <3>3. QED
      BY <1>1, <3>2, EditorRowChanges
  <2>5. Editor!SavesShown' /\ Editor!ShownIsStored'
    BY <1>1, <2>1, <2>2, <2>3 DEF Editor!SavesShown, Editor!ShownIsStored
  <2>6. Editor!TypeOK'
    BY <1>1, <2>1, <2>2, <2>3, <2>4 DEF Editor!TypeOK
  <2>7. QED
    BY <2>4, <2>5, <2>6 DEF Editor!IInv
<1>9. ASSUME Editor!SaveEnds PROVE Editor!IInv'
  <2>1. x4' = Editor!NoSave(Editor!Blank) /\ ~x4'.alone /\ UNCHANGED <<x1, x2, x3, x5, x6>>
    BY <1>2, <1>9 DEF Editor!SaveEnds
  <2>2. QED
    BY <1>1, <1>2, <2>1
       DEF Editor!IInv, Editor!TypeOK, Editor!HasRead, Editor!At, Editor!SavesShown,
           Editor!ShownIsStored
<1>10. ASSUME NEW h \in Handler, NEW what \in {"artwork", "episodes"}, Editor!Ask(h, what) PROVE Editor!IInv'
  <2>1. PICK r : r = [x3[h] EXCEPT !.at = what]
    OBVIOUS
  <2>2. /\ r \in [at : {"idle", "artwork", "episodes", "done", "load", "read"},
                  got : Editor!Title, over : BOOLEAN]
        /\ r.at = what
    BY <1>1, <2>1 DEF Editor!TypeOK
  <2>3. x3' = [x3 EXCEPT ![h] = r] /\ UNCHANGED <<x1, x2, x4, x5, x6>>
    BY <1>1, <1>10, <2>1 DEF Editor!Ask, Editor!TypeOK
  <2>4. /\ x3' \in [Handler -> [at : {"idle", "artwork", "episodes", "done", "load", "read"},
                                      got : Editor!Title, over : BOOLEAN]]
        /\ Editor!HasRead'
    BY <1>1, <2>2, <2>3, EditorOneGoesOn
  <2>5. QED
    BY <1>1, <2>3, <2>4 DEF Editor!IInv, Editor!TypeOK, Editor!SavesShown, Editor!ShownIsStored
<1>11. ASSUME NEW h \in Handler, NEW a \in Art, Editor!Applied(h, a) PROVE Editor!IInv'
  <2>1. /\ x1' \in Editor!Title /\ x6' = FALSE /\ UNCHANGED <<x2, x4, x5>>
        /\ x3' = [k \in Handler |-> IF k \in {h} THEN [x3[k] EXCEPT !.at = "done"]
                                         ELSE Editor!Overtaken(x3[k])]
    <3>1. x1' \in Editor!Title
      BY <1>1, <1>11 DEF Editor!Applied, Editor!TypeOK, Editor!Title
    <3>2. QED
      BY <1>11, <3>1 DEF Editor!Applied
  <2>2. /\ x3' \in [Handler -> [at : {"idle", "artwork", "episodes", "done", "load", "read"},
                                      got : Editor!Title, over : BOOLEAN]]
        /\ Editor!HasRead'
    BY <1>1, <2>1, EditorRowChanges
  <2>3. QED
    BY <1>1, <2>1, <2>2 DEF Editor!IInv, Editor!TypeOK, Editor!SavesShown, Editor!ShownIsStored
<1>12. ASSUME NEW h \in Handler, Editor!Answered(h) PROVE Editor!IInv'
  <2>1. PICK r : r = [x3[h] EXCEPT !.at = "load"]
    OBVIOUS
  <2>2. /\ r \in [at : {"idle", "artwork", "episodes", "done", "load", "read"},
                  got : Editor!Title, over : BOOLEAN]
        /\ r.at = "load"
    BY <1>1, <2>1 DEF Editor!TypeOK
  <2>3. x3' = [x3 EXCEPT ![h] = r] /\ UNCHANGED <<x1, x2, x4, x5, x6>>
    BY <1>1, <1>12, <2>1 DEF Editor!Answered, Editor!TypeOK
  <2>4. /\ x3' \in [Handler -> [at : {"idle", "artwork", "episodes", "done", "load", "read"},
                                      got : Editor!Title, over : BOOLEAN]]
        /\ Editor!HasRead'
    BY <1>1, <2>2, <2>3, EditorOneGoesOn
  <2>5. QED
    BY <1>1, <2>3, <2>4 DEF Editor!IInv, Editor!TypeOK, Editor!SavesShown, Editor!ShownIsStored
<1>13. ASSUME NEW h \in Handler, Editor!Read(h) PROVE Editor!IInv'
  <2>1. PICK r : r = [at |-> "read", got |-> x1, over |-> FALSE]
    OBVIOUS
  <2>2. x3' = [x3 EXCEPT ![h] = r] /\ UNCHANGED <<x1, x2, x4, x5, x6>>
    BY <1>13, <2>1 DEF Editor!Read
  <2>3. /\ x3' \in [Handler -> [at : {"idle", "artwork", "episodes", "done", "load", "read"},
                                      got : Editor!Title, over : BOOLEAN]]
        /\ Editor!HasRead'
    <3>1. /\ r \in [at : {"idle", "artwork", "episodes", "done", "load", "read"},
                    got : Editor!Title, over : BOOLEAN]
          /\ r.got = x1
      BY <1>1, <2>1 DEF Editor!TypeOK
    <3>2. QED
      BY <1>1, <2>2, <3>1, EditorOneGoesOn
  <2>4. QED
    BY <1>1, <2>2, <2>3 DEF Editor!IInv, Editor!TypeOK, Editor!SavesShown, Editor!ShownIsStored
<1>14. ASSUME NEW h \in Handler, Editor!Land(h) PROVE Editor!IInv'
  <2>1. /\ x3' = [x3 EXCEPT ![h] = Editor!NoRequest(Editor!Blank)] /\ UNCHANGED <<x1, x5>>
        /\ x2' = x3[h].got /\ x2' \in Editor!Title /\ x4' = Editor!Joined
        /\ x6' = ~x3[h].over /\ x3[h].over \in BOOLEAN
        /\ ~x3[h].over => x3[h].got = x1
    BY <1>1, <1>14 DEF Editor!Land, Editor!HasRead, Editor!TypeOK
  <2>2. /\ x3' \in [Handler -> [at : {"idle", "artwork", "episodes", "done", "load", "read"},
                                      got : Editor!Title, over : BOOLEAN]]
        /\ Editor!HasRead'
    BY <1>1, <1>2, <2>1, EditorOneGoesOn
  <2>3. QED
    BY <1>1, <1>2, <2>1, <2>2
       DEF Editor!IInv, Editor!TypeOK, Editor!SavesShown, Editor!ShownIsStored
<1>15. ASSUME NEW h \in Handler, Editor!Fails(h) PROVE Editor!IInv'
  <2>1. x3' = [x3 EXCEPT ![h] = Editor!NoRequest(Editor!Blank)] /\ UNCHANGED <<x1, x2, x4, x5, x6>>
    BY <1>15 DEF Editor!Fails
  <2>2. /\ x3' \in [Handler -> [at : {"idle", "artwork", "episodes", "done", "load", "read"},
                                      got : Editor!Title, over : BOOLEAN]]
        /\ Editor!HasRead'
    BY <1>1, <1>2, <2>1, EditorOneGoesOn
  <2>3. QED
    BY <1>1, <2>1, <2>2 DEF Editor!IInv, Editor!TypeOK, Editor!SavesShown, Editor!ShownIsStored
<1>16. ASSUME NEW t \in Editor!Title, Editor!Elsewhere(t) PROVE Editor!IInv'
  <2> PICK none \in SUBSET Handler : none = {}
    OBVIOUS
  <2>1. /\ x1' \in Editor!Title /\ x6' = FALSE /\ UNCHANGED <<x2, x4, x5>>
        /\ x3' = [k \in Handler |-> IF k \in none THEN [x3[k] EXCEPT !.at = "done"]
                                         ELSE Editor!Overtaken(x3[k])]
    BY <1>16 DEF Editor!Elsewhere
  <2>2. /\ x3' \in [Handler -> [at : {"idle", "artwork", "episodes", "done", "load", "read"},
                                      got : Editor!Title, over : BOOLEAN]]
        /\ Editor!HasRead'
    BY <1>1, <2>1, EditorRowChanges
  <2>3. QED
    BY <1>1, <2>1, <2>2 DEF Editor!IInv, Editor!TypeOK, Editor!SavesShown, Editor!ShownIsStored
<1>17. CASE UNCHANGED Editor!vars
  BY <1>1, <1>17
     DEF Editor!vars, Editor!IInv, Editor!TypeOK, Editor!HasRead, Editor!At,
         Editor!SavesShown, Editor!ShownIsStored
<1>18. QED
  BY <1>3, <1>4, <1>5, <1>6, <1>7, <1>8, <1>9, <1>10, <1>11, <1>12, <1>13, <1>14, <1>15,
     <1>16, <1>17 DEF Editor!Next, Editor!AskArtwork, Editor!AskEpisodes

(***************************************************************************)
(* For any number of requests under way, and any texts and artworks: the   *)
(* row is what the editor showed when it was saved.                        *)
(***************************************************************************)
THEOREM WhatIsShownIsStored == MCSpec => []ShownIsStored
<1> DEFINE Inv == which = "editor" => Editor!IInv
<1>1. MCInit => Inv
  BY EditorInitially DEF MCInit
<1>2. Inv /\ [MCNext]_<<which, vars, xs>> => Inv'
  <2> SUFFICES ASSUME which = "editor", Editor!IInv, [Editor!Next]_(Editor!vars)
               PROVE  Editor!IInv'
    BY DEF MCNext, xs, Editor!vars
  <2> QED
    BY EditorInductive
<1>3. Inv => ShownIsStored
  BY DEF ShownIsStored, Editor!IInv
<1>4. QED
  BY <1>1, <1>2, <1>3, PTL DEF MCSpec

-----------------------------------------------------------------------------
(* SettingsPage: x1 row, x2 form, x3 request, x4 chosen, x5 sure            *)

\* A write as it is sent, of one group.
SettingsOneWrite(g) == [tab : Handler, group : {g}, body : [{g} -> Settings!Value], last : BOOLEAN]
SettingsWrites == UNION {SettingsOneWrite(g) : g \in Settings!Field}

LEMMA SettingsWriteType ==
  ASSUME NEW r \in SettingsWrites
  PROVE  /\ r.tab \in Handler /\ r.group \in Settings!Field /\ r.last \in BOOLEAN
         /\ DOMAIN r.body = {r.group} /\ r.body[r.group] \in Settings!Value
         /\ r.group = "provider" => r.body.provider = r.body[r.group]
         /\ \A b \in BOOLEAN : [r EXCEPT !.last = b] \in SettingsWrites
<1>1. PICK g \in Settings!Field : r \in SettingsOneWrite(g)
  BY DEF SettingsWrites
<1>2. r.group = g /\ r.tab \in Handler /\ r.last \in BOOLEAN /\ r.body \in [{g} -> Settings!Value]
  BY <1>1 DEF SettingsOneWrite
<1>3. \A b \in BOOLEAN : [r EXCEPT !.last = b] \in SettingsOneWrite(g)
  BY <1>1 DEF SettingsOneWrite
<1>4. \A b \in BOOLEAN : [r EXCEPT !.last = b] \in SettingsWrites
  BY <1>3 DEF SettingsWrites
<1>5. QED
  BY <1>2, <1>4

LEMMA SettingsSentType ==
  ASSUME NEW h \in Handler, NEW g \in Settings!Field, NEW shown \in [Settings!Field -> Settings!Value]
  PROVE  Settings!Sent(h, g, shown) \in SettingsWrites
<1>1. [f \in {g} |-> shown[f]] \in [{g} -> Settings!Value]
  OBVIOUS
<1>2. Settings!Sent(h, g, shown) \in SettingsOneWrite(g)
  BY <1>1 DEF Settings!Sent, Settings!Body, SettingsOneWrite
<1>3. QED
  BY <1>2 DEF SettingsWrites

\* The writes under way, those of one tab no longer its last.
LEMMA SettingsNoLonger ==
  ASSUME x3 \subseteq SettingsWrites, Settings!LastIsShown, NEW h \in Handler,
         NEW W, \A q \in W : \E r \in x3 : q = [r EXCEPT !.last = r.last /\ r.tab # h]
  PROVE  /\ W \subseteq SettingsWrites
         /\ \A r \in W : r.last /\ r.group = "provider" =>
                            r.tab # h /\ r.body.provider = x2[r.tab].provider
<1>1. ASSUME NEW q \in W
      PROVE  /\ q \in SettingsWrites
             /\ q.last /\ q.group = "provider" =>
                   q.tab # h /\ q.body.provider = x2[q.tab].provider
  <2>1. PICK r \in x3 : q = [r EXCEPT !.last = r.last /\ r.tab # h]
    OBVIOUS
  <2>2. PICK b \in BOOLEAN : b = (r.last /\ r.tab # h)
    OBVIOUS
  <2>3. q = [r EXCEPT !.last = b] /\ r \in SettingsWrites
    BY <2>1, <2>2
  <2>4. /\ q \in SettingsWrites
        /\ q.last = b /\ q.tab = r.tab /\ q.group = r.group /\ q.body = r.body
    <3>1. q \in SettingsWrites
      BY <2>3, SettingsWriteType
    <3>2. PICK g \in Settings!Field : r \in SettingsOneWrite(g)
      BY <2>3 DEF SettingsWrites
    <3>3. QED
      BY <2>3, <3>1, <3>2 DEF SettingsOneWrite
  <2>5. r.last /\ r.group = "provider" => r.body.provider = x2[r.tab].provider
    BY DEF Settings!LastIsShown
  <2>6. QED
    BY <2>2, <2>4, <2>5
<1>2. QED
  BY <1>1

LEMMA SettingsInitially == Settings!Init => Settings!IInv
<1> SUFFICES ASSUME Settings!Init PROVE Settings!IInv
  OBVIOUS
<1>1. Settings!TypeOK
  BY DEF Settings!Init, Settings!TypeOK, Settings!Field
<1>2. Settings!LastIsShown /\ Settings!ChoiceStands
  BY DEF Settings!Init, Settings!LastIsShown, Settings!ChoiceStands
<1>3. QED
  BY <1>1, <1>2 DEF Settings!IInv

LEMMA SettingsInductive == ASSUME Settings!IInv, [Settings!Next]_(Settings!vars) PROVE Settings!IInv'
<1>1. /\ Settings!TypeOK /\ Settings!LastIsShown /\ Settings!ChoiceStands
      /\ x1 \in [Settings!Field -> Settings!Value] /\ x2 \in [Handler -> [Settings!Field -> Settings!Value]]
      /\ x4 \in [{"limit", "provider"} -> Settings!Value] /\ DOMAIN x4 = {"limit", "provider"}
      /\ x3 \subseteq SettingsWrites /\ x5 \subseteq Handler
  BY DEF Settings!IInv, Settings!TypeOK, SettingsWrites, SettingsOneWrite
<1>2. ASSUME NEW h \in Handler, Settings!Load(h) PROVE Settings!IInv'
  <2>1. /\ x2' = [x2 EXCEPT ![h] = x1] /\ x5' = x5 \cup {h} /\ UNCHANGED <<x1, x4>>
        /\ x3' = {[r EXCEPT !.last = @ /\ r.tab # h] : r \in x3}
    BY <1>2 DEF Settings!Load
  <2>2. /\ x3' \subseteq SettingsWrites
        /\ \A r \in x3' : r.last /\ r.group = "provider" =>
                                  r.tab # h /\ r.body.provider = x2[r.tab].provider
    <3>1. \A q \in x3' : \E r \in x3 : q = [r EXCEPT !.last = r.last /\ r.tab # h]
      BY <2>1
    <3>2. QED
      BY <1>1, <3>1, SettingsNoLonger
  <2>3. /\ x2' \in [Handler -> [Settings!Field -> Settings!Value]]
        /\ \A k \in Handler : x2'[k] = IF k = h THEN x1 ELSE x2[k]
    BY <1>1, <2>1
  <2>4. Settings!TypeOK'
    BY <1>1, <2>1, <2>2, <2>3 DEF Settings!TypeOK, SettingsWrites, SettingsOneWrite
  <2>5. Settings!LastIsShown'
    <3>1. \A r \in x3' : r.tab \in Handler
      BY <2>2, SettingsWriteType
    <3>2. QED
      BY <2>2, <2>3, <3>1 DEF Settings!LastIsShown
  <2>6. Settings!ChoiceStands'
    BY <1>1, <2>1, <2>3 DEF Settings!ChoiceStands
  <2>7. QED
    BY <2>4, <2>5, <2>6 DEF Settings!IInv
<1>3. ASSUME NEW h \in Handler, NEW f \in Settings!Field, Settings!Type(h, f) PROVE Settings!IInv'
  <2>1. PICK v \in Settings!Value : x2' = [x2 EXCEPT ![h][f] = v]
    BY <1>3 DEF Settings!Type
  <2>2. f # "provider" /\ UNCHANGED <<x1, x3, x4, x5>>
    BY <1>3 DEF Settings!Type
  <2>3. /\ x2' \in [Handler -> [Settings!Field -> Settings!Value]]
        /\ \A k \in Handler : x2'[k].provider = x2[k].provider
    BY <1>1, <2>1, <2>2 DEF Settings!Field
  <2>4. Settings!TypeOK'
    BY <1>1, <2>2, <2>3 DEF Settings!TypeOK
  <2>5. Settings!LastIsShown'
    <3>1. \A r \in x3 : r.tab \in Handler
      BY <1>1, SettingsWriteType
    <3>2. QED
      BY <1>1, <2>2, <2>3, <3>1 DEF Settings!LastIsShown
  <2>6. Settings!ChoiceStands'
    BY <1>1, <2>2, <2>3 DEF Settings!ChoiceStands
  <2>7. QED
    BY <2>4, <2>5, <2>6 DEF Settings!IInv
<1>4. ASSUME NEW h \in Handler, NEW g \in Settings!Field, Settings!Save(h, g) PROVE Settings!IInv'
  <2>1. /\ g # "provider" /\ UNCHANGED <<x1, x2, x4, x5>>
        /\ x3' = x3 \cup {Settings!Sent(h, g, x2[h])}
    BY <1>4 DEF Settings!Save
  <2>2. x3' \subseteq SettingsWrites /\ Settings!Sent(h, g, x2[h]).group = g
    BY <1>1, <2>1, SettingsSentType DEF Settings!Sent
  <2>3. Settings!TypeOK'
    BY <1>1, <2>1, <2>2 DEF Settings!TypeOK, SettingsWrites, SettingsOneWrite
  <2>4. Settings!LastIsShown'
    BY <1>1, <2>1, <2>2 DEF Settings!LastIsShown
  <2>5. Settings!ChoiceStands'
    BY <1>1, <2>1 DEF Settings!ChoiceStands
  <2>6. QED
    BY <2>3, <2>4, <2>5 DEF Settings!IInv
<1>5. ASSUME NEW h \in Handler, NEW v \in Settings!Value, Settings!Choose(h, v) PROVE Settings!IInv'
  <2>1. PICK W : W = {[r EXCEPT !.last = @ /\ r.tab # h] : r \in x3}
    OBVIOUS
  <2>2. /\ x2' = [x2 EXCEPT ![h].provider = v] /\ x5' = x5 \ {h}
        /\ UNCHANGED <<x1, x4>>
        /\ x3' = W \cup {Settings!Sent(h, "provider", x2'[h])}
    BY <1>5, <2>1 DEF Settings!Choose
  <2>3. /\ W \subseteq SettingsWrites
        /\ \A r \in W : r.last /\ r.group = "provider" =>
                           r.tab # h /\ r.body.provider = x2[r.tab].provider
    <3>1. \A q \in W : \E r \in x3 : q = [r EXCEPT !.last = r.last /\ r.tab # h]
      BY <2>1
    <3>2. QED
      BY <1>1, <3>1, SettingsNoLonger
  <2>4. /\ x2' \in [Handler -> [Settings!Field -> Settings!Value]]
        /\ \A k \in Handler : k # h => x2'[k] = x2[k]
    BY <1>1, <2>2 DEF Settings!Field
  <2>5. PICK s : s = Settings!Sent(h, "provider", x2'[h])
    OBVIOUS
  <2>6. s \in SettingsWrites /\ s.tab = h /\ s.body.provider = x2'[h].provider
    <3>1. s \in SettingsWrites
      BY <2>4, <2>5, SettingsSentType DEF Settings!Field
    <3>2. s.tab = h /\ s.body = [f \in {"provider"} |-> x2'[h][f]]
      BY <2>5 DEF Settings!Sent, Settings!Body
    <3>3. QED
      BY <3>1, <3>2
  <2>7. x3' = W \cup {s}
    BY <2>2, <2>5
  <2>8. Settings!TypeOK'
    BY <1>1, <2>2, <2>3, <2>4, <2>6, <2>7 DEF Settings!TypeOK, SettingsWrites, SettingsOneWrite
  <2>9. Settings!LastIsShown'
    <3>1. \A r \in W : r.tab \in Handler
      BY <2>3, SettingsWriteType
    <3>2. QED
      BY <2>3, <2>4, <2>6, <2>7, <3>1 DEF Settings!LastIsShown
  <2>10. Settings!ChoiceStands'
    BY <1>1, <2>2, <2>4 DEF Settings!ChoiceStands
  <2>11. QED
    BY <2>8, <2>9, <2>10 DEF Settings!IInv
<1>6. ASSUME NEW r \in x3, Settings!Update(r) PROVE Settings!IInv'
  <2>1. /\ x3' = x3 \ {r} /\ UNCHANGED x2
        /\ x1' = [f \in Settings!Field |-> IF f \in DOMAIN r.body THEN r.body[f] ELSE x1[f]]
        /\ x4' = [f \in DOMAIN x4 |-> IF f = r.group THEN r.body[f] ELSE x4[f]]
        /\ x5' = IF r.group # "provider" THEN x5 ELSE IF r.last THEN {r.tab} ELSE {}
    BY <1>6 DEF Settings!Update
  <2>2. /\ r.tab \in Handler /\ r.group \in Settings!Field /\ DOMAIN r.body = {r.group}
        /\ r.body[r.group] \in Settings!Value
        /\ r.group = "provider" => r.body.provider = r.body[r.group]
    BY <1>1, SettingsWriteType
  <2>3. /\ x1' = [f \in Settings!Field |-> IF f = r.group THEN r.body[r.group] ELSE x1[f]]
        /\ x4' = [f \in {"limit", "provider"} |->
                        IF f = r.group THEN r.body[r.group] ELSE x4[f]]
    BY <1>1, <2>1, <2>2
  <2>4. Settings!TypeOK'
    <3>1. x1' \in [Settings!Field -> Settings!Value] /\ x4' \in [{"limit", "provider"} -> Settings!Value]
      BY <1>1, <2>2, <2>3
    <3>2. x5' \subseteq Handler
      BY <1>1, <2>1, <2>2
    <3>3. QED
      BY <1>1, <2>1, <3>1, <3>2 DEF Settings!TypeOK, SettingsWrites, SettingsOneWrite
  <2>5. Settings!LastIsShown'
    BY <1>1, <2>1 DEF Settings!LastIsShown
  <2>6. Settings!ChoiceStands'
    <3>1. \A f \in DOMAIN x4' : x1'[f] = x4'[f]
      BY <1>1, <2>3 DEF Settings!ChoiceStands, Settings!Field
    <3>2. ASSUME NEW h \in x5' PROVE x2'[h].provider = x1'.provider
      <4>1. CASE r.group = "provider"
        <5>1. h = r.tab /\ r.last
          BY <2>1, <3>2, <4>1
        <5>2. x1'.provider = r.body.provider
          BY <2>2, <2>3, <4>1 DEF Settings!Field
        <5>3. QED
          BY <1>1, <2>1, <4>1, <5>1, <5>2 DEF Settings!LastIsShown
      <4>2. CASE r.group # "provider"
        BY <1>1, <2>1, <2>3, <3>2, <4>2 DEF Settings!ChoiceStands, Settings!Field
      <4>3. QED
        BY <4>1, <4>2
    <3>3. QED
      BY <3>1, <3>2 DEF Settings!ChoiceStands
  <2>7. QED
    BY <2>4, <2>5, <2>6 DEF Settings!IInv
<1>7. ASSUME NEW r \in x3, Settings!Fail(r) PROVE Settings!IInv'
  <2>1. x3' = x3 \ {r} /\ UNCHANGED <<x1, x2, x4, x5>>
    BY <1>7 DEF Settings!Fail
  <2>2. QED
    BY <1>1, <2>1
       DEF Settings!IInv, Settings!TypeOK, Settings!LastIsShown, Settings!ChoiceStands
<1>8. CASE UNCHANGED Settings!vars
  BY <1>1, <1>8
     DEF Settings!vars, Settings!IInv, Settings!TypeOK, Settings!LastIsShown,
         Settings!ChoiceStands
<1>9. QED
  BY <1>2, <1>3, <1>4, <1>5, <1>6, <1>7, <1>8 DEF Settings!Next

(***************************************************************************)
(* For any number of tabs and of writes under way: a tab takes back        *)
(* nothing outside the group it saves.                                     *)
(***************************************************************************)
THEOREM ChoicesStand == MCSpec => []ChoiceStands
<1> DEFINE Inv == which = "settings" => Settings!IInv
<1>1. MCInit => Inv
  BY SettingsInitially DEF MCInit
<1>2. Inv /\ [MCNext]_<<which, vars, xs>> => Inv'
  <2> SUFFICES ASSUME which = "settings", Settings!IInv, [Settings!Next]_(Settings!vars)
               PROVE  Settings!IInv'
    BY DEF MCNext, xs, Settings!vars
  <2> QED
    BY SettingsInductive
<1>3. Inv => ChoiceStands
  BY DEF ChoiceStands, Settings!IInv
<1>4. QED
  BY <1>1, <1>2, <1>3, PTL DEF MCSpec

-----------------------------------------------------------------------------
(* Downloads: x1 entries, x2 index, x3 files, x4 queue, x5 inFlight,        *)
(* x6 task, x7 spoilt                                                      *)

\* What has been kept of the first n places of a list.
OfflineKept(r, n, list, wanted) ==
    /\ r \in Seq(Video)
    /\ \A e : Offline!Has(r, e) => e \in wanted /\ \E i \in 1 .. n : list[i] = e
    /\ \A e : Offline!Once(list, e) => Offline!Once(r, e)
    /\ (\A i \in 1 .. Len(list) : list[i] \in wanted) => Len(r) = n /\ \A i \in 1 .. n : r[i] = list[i]

\* One element more.
LEMMA OfflineAppendIs ==
  ASSUME NEW r \in Seq(Video), NEW x \in Video
  PROVE  /\ Append(r, x) \in Seq(Video) /\ Len(Append(r, x)) = Len(r) + 1
         /\ \A i \in 1 .. Len(r) : Append(r, x)[i] = r[i]
         /\ Append(r, x)[Len(r) + 1] = x
         /\ \A e : Offline!Has(Append(r, x), e) <=> Offline!Has(r, e) \/ e = x
         /\ \A e : Offline!Once(Append(r, x), e) <=> Offline!Once(r, e) /\ (Offline!Has(r, e) => e # x)
<1>1. /\ Append(r, x) \in Seq(Video) /\ Len(Append(r, x)) = Len(r) + 1
      /\ \A i \in 1 .. Len(r) : Append(r, x)[i] = r[i]
      /\ Append(r, x)[Len(r) + 1] = x
      /\ Len(r) \in Nat
  OBVIOUS
<1>2. DOMAIN r = 1 .. Len(r) /\ DOMAIN Append(r, x) = 1 .. (Len(r) + 1)
  BY <1>1
<1>3. PICK a : a = Append(r, x)
  OBVIOUS
<1>4. \A e : Offline!Has(a, e) <=> Offline!Has(r, e) \/ e = x
  <2>1. ASSUME NEW e PROVE Offline!Has(a, e) <=> Offline!Has(r, e) \/ e = x
    <3>1. CASE e = x
      BY <1>1, <1>2, <1>3, <3>1 DEF Offline!Has
    <3>2. CASE e # x
      BY <1>1, <1>2, <1>3, <3>2 DEF Offline!Has
    <3>3. QED
      BY <3>1, <3>2
  <2>2. QED
    BY <2>1
<1>5. ASSUME NEW e PROVE Offline!Once(a, e) <=> Offline!Once(r, e) /\ (Offline!Has(r, e) => e # x)
  <2>1. ASSUME Offline!Once(r, e), Offline!Has(r, e) => e # x PROVE Offline!Once(a, e)
    <3>1. SUFFICES ASSUME NEW i \in 1 .. (Len(r) + 1), NEW k \in 1 .. (Len(r) + 1), a[i] = e, a[k] = e
                   PROVE  i = k
      BY <1>2, <1>3 DEF Offline!Once
    <3>2. CASE i = Len(r) + 1 /\ k # Len(r) + 1
      BY <1>1, <1>2, <1>3, <2>1, <3>1, <3>2 DEF Offline!Has
    <3>3. CASE k = Len(r) + 1 /\ i # Len(r) + 1
      BY <1>1, <1>2, <1>3, <2>1, <3>1, <3>3 DEF Offline!Has
    <3>4. CASE i \in 1 .. Len(r) /\ k \in 1 .. Len(r)
      BY <1>1, <1>2, <1>3, <2>1, <3>1, <3>4 DEF Offline!Once
    <3>5. QED
      BY <1>1, <3>1, <3>2, <3>3, <3>4
  <2>2. ASSUME Offline!Once(a, e) PROVE Offline!Once(r, e)
    BY <1>1, <1>2, <1>3, <2>2 DEF Offline!Once
  <2>3. ASSUME Offline!Once(a, e), Offline!Has(r, e), e = x PROVE FALSE
    <3>1. PICK i \in 1 .. Len(r) : r[i] = e
      BY <1>2, <2>3 DEF Offline!Has
    <3>2. a[i] = e /\ a[Len(r) + 1] = e /\ i # Len(r) + 1
      BY <1>1, <1>3, <2>3, <3>1
    <3>3. i \in DOMAIN a /\ Len(r) + 1 \in DOMAIN a
      BY <1>1, <1>2, <1>3
    <3>4. QED
      BY <2>3, <3>2, <3>3 DEF Offline!Once
  <2>4. QED
    BY <2>1, <2>2, <2>3
<1>6. QED
  BY <1>1, <1>3, <1>4, <1>5

LEMMA OfflineNoneKept ==
  ASSUME NEW list, NEW wanted PROVE OfflineKept(<<>>, 0, list, wanted)
BY DEF OfflineKept, Offline!Has, Offline!Once

LEMMA OfflineKeptStep ==
  ASSUME NEW list \in Seq(Video), NEW wanted, NEW n \in 1 .. Len(list), NEW r, OfflineKept(r, n - 1, list, wanted)
  PROVE  OfflineKept(IF list[n] \in wanted THEN Append(r, list[n]) ELSE r, n, list, wanted)
<1>1. /\ r \in Seq(Video) /\ n \in Nat /\ n - 1 \in Nat /\ Len(list) \in Nat
      /\ \A e : Offline!Has(r, e) => e \in wanted /\ \E i \in 1 .. (n - 1) : list[i] = e
      /\ \A e : Offline!Once(list, e) => Offline!Once(r, e)
      /\ (\A i \in 1 .. Len(list) : list[i] \in wanted) =>
            Len(r) = n - 1 /\ \A i \in 1 .. (n - 1) : r[i] = list[i]
  BY DEF OfflineKept
<1>2. PICK x \in Video : x = list[n]
  BY SeqElement
<1>3. CASE x \in wanted
  <2>1. PICK a : a = Append(r, x)
    OBVIOUS
  <2>2. /\ a \in Seq(Video) /\ Len(a) = Len(r) + 1
        /\ \A i \in 1 .. Len(r) : a[i] = r[i]
        /\ a[Len(r) + 1] = x
        /\ \A e : Offline!Has(a, e) <=> Offline!Has(r, e) \/ e = x
        /\ \A e : Offline!Once(a, e) <=> Offline!Once(r, e) /\ (Offline!Has(r, e) => e # x)
    BY <1>1, <2>1, OfflineAppendIs
  <2>3. \A e : Offline!Has(a, e) => e \in wanted /\ \E i \in 1 .. n : list[i] = e
    BY <1>1, <1>2, <1>3, <2>2
  <2>4. ASSUME NEW e, Offline!Once(list, e) PROVE Offline!Once(a, e)
    <3>1. SUFFICES ASSUME Offline!Has(r, e), e = x PROVE FALSE
      BY <1>1, <2>2, <2>4
    <3>2. PICK i \in 1 .. (n - 1) : list[i] = e
      BY <1>1, <3>1
    <3>3. i \in DOMAIN list /\ n \in DOMAIN list /\ i # n
      BY <1>1
    <3>4. QED
      BY <1>2, <2>4, <3>1, <3>2, <3>3 DEF Offline!Once
  <2>5. ASSUME \A i \in 1 .. Len(list) : list[i] \in wanted
        PROVE  Len(a) = n /\ \A i \in 1 .. n : a[i] = list[i]
    BY <1>1, <1>2, <2>2, <2>5
  <2>6. OfflineKept(a, n, list, wanted)
    BY <2>2, <2>3, <2>4, <2>5 DEF OfflineKept
  <2>7. QED
    BY <1>2, <1>3, <2>1, <2>6
<1>4. CASE x \notin wanted
  <2>1. \A e : Offline!Has(r, e) => e \in wanted /\ \E i \in 1 .. n : list[i] = e
    BY <1>1
  <2>2. ~ \A i \in 1 .. Len(list) : list[i] \in wanted
    BY <1>2, <1>4
  <2>3. OfflineKept(r, n, list, wanted)
    BY <1>1, <2>1, <2>2 DEF OfflineKept
  <2>4. QED
    BY <1>2, <1>4, <2>3
<1>5. QED
  BY <1>3, <1>4

\* The recursion of Only has a solution.
OfflineFilters(f, m, list, wanted) ==
    \A n \in 0 .. m :
      f[n] = IF n = 0 THEN <<>> ELSE IF list[n] \in wanted THEN Append(f[n - 1], list[n]) ELSE f[n - 1]

LEMMA OfflineFilterExists ==
  ASSUME NEW list \in Seq(Video), NEW wanted
  PROVE  \E f : f = [n \in 0 .. Len(list) |->
                       IF n = 0 THEN <<>>
                       ELSE IF list[n] \in wanted THEN Append(f[n - 1], list[n]) ELSE f[n - 1]]
<1>1. Len(list) \in Nat
  OBVIOUS
<1>2. PICK bad \in SUBSET Nat :
        bad = {m \in Nat : ~ \E f : DOMAIN f = 0 .. m /\ f = [n \in 0 .. m |-> f[n]] /\ OfflineFilters(f, m, list, wanted)}
  OBVIOUS
<1>3. bad = {}
  <2>1. SUFFICES ASSUME bad # {} PROVE FALSE
    OBVIOUS
  <2>2. PICK m \in bad : \A k \in bad : m <= k
    BY <2>1, Least
  <2>3. m # 0
    <3>1. SUFFICES ASSUME m = 0 PROVE FALSE
      OBVIOUS
    <3>2. PICK f : f = [n \in 0 .. 0 |-> <<>>]
      OBVIOUS
    <3>3. DOMAIN f = 0 .. 0 /\ f = [n \in 0 .. 0 |-> f[n]] /\ OfflineFilters(f, 0, list, wanted)
      BY <3>2 DEF OfflineFilters
    <3>4. QED
      BY <1>2, <2>2, <3>1, <3>3
  <2>4. m - 1 \in Nat /\ m - 1 \notin bad /\ m \in Nat
    BY <2>2, <2>3
  <2>5. PICK f : DOMAIN f = 0 .. (m - 1) /\ OfflineFilters(f, m - 1, list, wanted)
    BY <1>2, <2>4
  <2>6. PICK g : g = [n \in 0 .. m |->
                        IF n # m THEN f[n]
                        ELSE IF list[m] \in wanted THEN Append(f[m - 1], list[m]) ELSE f[m - 1]]
    OBVIOUS
  <2>7. DOMAIN g = 0 .. m /\ g = [n \in 0 .. m |-> g[n]]
    BY <2>6
  <2>8. OfflineFilters(g, m, list, wanted)
    <3>1. SUFFICES ASSUME NEW n \in 0 .. m
                   PROVE  g[n] = IF n = 0 THEN <<>>
                                 ELSE IF list[n] \in wanted THEN Append(g[n - 1], list[n]) ELSE g[n - 1]
      BY DEF OfflineFilters
    <3>2. CASE n = m
      <4>1. g[m - 1] = f[m - 1] /\ g[m] = IF list[m] \in wanted THEN Append(f[m - 1], list[m]) ELSE f[m - 1]
        BY <2>3, <2>4, <2>6
      <4>2. QED
        BY <2>3, <3>2, <4>1
    <3>3. CASE n # m /\ n = 0
      BY <2>4, <2>5, <2>6, <3>3 DEF OfflineFilters
    <3>4. CASE n # m /\ n # 0
      <4>1. n \in 0 .. (m - 1) /\ n - 1 \in 0 .. m /\ n - 1 # m /\ n - 1 \in 0 .. (m - 1)
        BY <2>4, <3>4
      <4>2. g[n] = f[n] /\ g[n - 1] = f[n - 1]
        BY <2>6, <3>4, <4>1
      <4>3. QED
        BY <2>5, <3>4, <4>1, <4>2 DEF OfflineFilters
    <3>5. QED
      BY <3>2, <3>3, <3>4
  <2>9. QED
    BY <1>2, <2>2, <2>4, <2>7, <2>8
<1>4. PICK f : /\ DOMAIN f = 0 .. Len(list) /\ f = [n \in 0 .. Len(list) |-> f[n]]
               /\ OfflineFilters(f, Len(list), list, wanted)
  BY <1>1, <1>2, <1>3
<1>5. f = [n \in 0 .. Len(list) |->
             IF n = 0 THEN <<>>
             ELSE IF list[n] \in wanted THEN Append(f[n - 1], list[n]) ELSE f[n - 1]]
  BY <1>4 DEF OfflineFilters
<1>6. QED
  BY <1>5

LEMMA OfflineOnlyIs ==
  ASSUME NEW list \in Seq(Video), NEW wanted
  PROVE  OfflineKept(Offline!Only(list, wanted), Len(list), list, wanted)
<1>1. Len(list) \in Nat
  OBVIOUS
<1>2. PICK f : /\ f = [n \in 0 .. Len(list) |->
                        IF n = 0 THEN <<>>
                        ELSE IF list[n] \in wanted THEN Append(f[n - 1], list[n]) ELSE f[n - 1]]
               /\ Offline!Only(list, wanted) = f[Len(list)]
  <2> DEFINE P(f) == f = [n \in 0 .. Len(list) |->
                        IF n = 0 THEN <<>>
                        ELSE IF list[n] \in wanted THEN Append(f[n - 1], list[n]) ELSE f[n - 1]]
             kept == CHOOSE f : P(f)
  <2>1. Offline!Only(list, wanted) = kept[Len(list)]
    BY DEF Offline!Only
  <2>2. \E f : P(f)
    BY OfflineFilterExists
  <2>3. P(kept)
    <3> HIDE DEF P
    <3>1. QED
      BY <2>2, Zenon
  <2>4. QED
    BY <2>1, <2>3
<1>3. PICK bad \in SUBSET Nat : \A n : n \in bad <=> n \in 0 .. Len(list) /\ ~OfflineKept(f[n], n, list, wanted)
  <2>1. PICK b \in SUBSET (0 .. Len(list)) : b = {n \in 0 .. Len(list) : ~OfflineKept(f[n], n, list, wanted)}
    OBVIOUS
  <2>2. \A n : n \in b <=> n \in 0 .. Len(list) /\ ~OfflineKept(f[n], n, list, wanted)
    BY <2>1
  <2>3. b \subseteq Nat
    BY <1>1
  <2>4. QED
    BY <2>2, <2>3
<1>4. bad = {}
  <2>1. SUFFICES ASSUME bad # {} PROVE FALSE
    OBVIOUS
  <2>2. PICK m \in bad : \A k \in bad : m <= k
    BY <2>1, Least
  <2>3. m \in 0 .. Len(list) /\ ~OfflineKept(f[m], m, list, wanted)
    BY <1>3, <2>2
  <2>4. m # 0
    BY <1>1, <1>2, <2>3, OfflineNoneKept
  <2>5. m - 1 \in 0 .. Len(list) /\ m - 1 \notin bad /\ m \in 1 .. Len(list)
    BY <1>1, <2>2, <2>3, <2>4
  <2>6. PICK r : r = f[m - 1]
    OBVIOUS
  <2>7. OfflineKept(r, m - 1, list, wanted)
    BY <1>3, <2>5, <2>6
  <2>8. f[m] = IF list[m] \in wanted THEN Append(r, list[m]) ELSE r
    BY <1>2, <2>3, <2>4, <2>6
  <2>9. PICK v : v = IF list[m] \in wanted THEN Append(r, list[m]) ELSE r
    OBVIOUS
  <2>10. OfflineKept(v, m, list, wanted)
    BY <2>5, <2>7, <2>9, OfflineKeptStep
  <2>11. f[m] = v
    BY <2>8, <2>9
  <2>12. QED
    BY <2>3, <2>10, <2>11, Zenon
<1>5. PICK n \in 0 .. Len(list) : n = Len(list)
  BY <1>1
<1>6. n \notin bad
  BY <1>4
<1>7. OfflineKept(f[n], n, list, wanted)
  BY <1>3, <1>6
<1>8. Offline!Only(list, wanted) = f[n]
  BY <1>2, <1>5
<1>9. QED
  BY <1>5, <1>7, <1>8, Zenon

LEMMA OfflineOnlyFacts ==
  ASSUME NEW list \in Seq(Video), NEW wanted
  PROVE  /\ Offline!Only(list, wanted) \in Seq(Video)
         /\ \A e : Offline!Has(Offline!Only(list, wanted), e) => e \in wanted /\ Offline!Has(list, e)
         /\ \A e : Offline!Once(list, e) => Offline!Once(Offline!Only(list, wanted), e)
         /\ (\A i \in 1 .. Len(list) : list[i] \in wanted) => Offline!Only(list, wanted) = list
<1>1. PICK r : r = Offline!Only(list, wanted)
  OBVIOUS
<1>2. OfflineKept(r, Len(list), list, wanted)
  BY <1>1, OfflineOnlyIs
<1>3. r \in Seq(Video) /\ \A e : Offline!Once(list, e) => Offline!Once(r, e)
  BY <1>2 DEF OfflineKept
<1>4. \A e : Offline!Has(r, e) => e \in wanted /\ Offline!Has(list, e)
  <2>1. DOMAIN list = 1 .. Len(list)
    OBVIOUS
  <2>2. QED
    BY <1>2, <2>1 DEF OfflineKept, Offline!Has
<1>5. ASSUME \A i \in 1 .. Len(list) : list[i] \in wanted PROVE r = list
  <2>1. Len(r) = Len(list) /\ \A i \in 1 .. Len(list) : r[i] = list[i]
    BY <1>2, <1>5 DEF OfflineKept
  <2>2. QED
    BY <1>3, <2>1
<1>6. QED
  BY <1>1, <1>3, <1>4, <1>5

\* The list that Only gives is its own.
LEMMA OfflineOnlyOnce ==
  ASSUME NEW list \in Seq(Video), NEW wanted
  PROVE  Offline!Only(Offline!Only(list, wanted), wanted) = Offline!Only(list, wanted)
<1>1. PICK r \in Seq(Video) : r = Offline!Only(list, wanted)
  BY OfflineOnlyFacts
<1>2. \A e : Offline!Has(r, e) => e \in wanted
  BY <1>1, OfflineOnlyFacts
<1>3. DOMAIN r = 1 .. Len(r)
  OBVIOUS
<1>4. \A i \in 1 .. Len(r) : r[i] \in wanted
  BY <1>2, <1>3 DEF Offline!Has
<1>5. QED
  BY <1>1, <1>4, OfflineOnlyFacts

\* The first job of a queue, and the others.
LEMMA OfflineTailIs ==
  ASSUME NEW list \in Seq(Video), list # <<>>
  PROVE  /\ Head(list) \in Video /\ Tail(list) \in Seq(Video) /\ Offline!Has(list, Head(list))
         /\ \A e : Offline!Has(Tail(list), e) => Offline!Has(list, e)
         /\ \A e : Offline!Once(list, e) => Offline!Once(Tail(list), e) /\ (Offline!Has(Tail(list), e) => e # Head(list))
<1>0. Len(list) \in Nat /\ Len(list) # 0
  OBVIOUS
<1>1. PICK r \in Seq(Video) : r = Tail(list)
  <2>1. Tail(list) \in Seq(Video)
    BY <1>0
  <2>2. QED
    BY <2>1
<1>2. /\ Len(list) \in Nat /\ Len(list) >= 1 /\ Len(r) = Len(list) - 1
      /\ DOMAIN list = 1 .. Len(list) /\ DOMAIN r = 1 .. Len(r)
      /\ \A i \in 1 .. Len(r) : r[i] = list[i + 1] /\ i + 1 \in 1 .. Len(list)
      /\ Head(list) = list[1] /\ 1 \in 1 .. Len(list)
  BY <1>0, <1>1
<1>3. Head(list) \in Video /\ Offline!Has(list, Head(list))
  BY <1>2 DEF Offline!Has
<1>4. \A e : Offline!Has(r, e) => Offline!Has(list, e)
  BY <1>2 DEF Offline!Has
<1>5. ASSUME NEW e, Offline!Once(list, e) PROVE Offline!Once(r, e) /\ (Offline!Has(r, e) => e # Head(list))
  <2>1. ASSUME NEW i \in 1 .. Len(r), NEW k \in 1 .. Len(r), r[i] = e, r[k] = e PROVE i = k
    <3>1. list[i + 1] = e /\ list[k + 1] = e /\ i + 1 \in 1 .. Len(list) /\ k + 1 \in 1 .. Len(list)
      BY <1>2, <2>1
    <3>2. i + 1 = k + 1
      BY <1>2, <1>5, <3>1 DEF Offline!Once
    <3>3. QED
      BY <1>2, <3>2
  <2>2. ASSUME NEW i \in 1 .. Len(r), r[i] = e, e = Head(list) PROVE FALSE
    <3>1. list[i + 1] = e /\ list[1] = e /\ i + 1 \in 1 .. Len(list)
      BY <1>2, <2>2
    <3>2. i + 1 = 1
      BY <1>2, <1>5, <3>1 DEF Offline!Once
    <3>3. QED
      BY <1>2, <3>2
  <2>3. QED
    BY <1>2, <2>1, <2>2 DEF Offline!Once, Offline!Has
<1>6. QED
  BY <1>1, <1>3, <1>4, <1>5

\* A list without the first of an episode in it.
LEMMA OfflineRemovedIs ==
  ASSUME NEW list \in Seq(Video), NEW x, Offline!Has(list, x)
  PROVE  /\ Offline!RemoveFirst(list, x) \in Seq(Video)
         /\ \A e : Offline!Has(Offline!RemoveFirst(list, x), e) => Offline!Has(list, e)
         /\ \A e : Offline!Once(list, e) => Offline!Once(Offline!RemoveFirst(list, x), e)
         /\ Offline!Once(list, x) => ~Offline!Has(Offline!RemoveFirst(list, x), x)
<1>1. Len(list) \in Nat /\ DOMAIN list = 1 .. Len(list)
  OBVIOUS
<1>2. PICK places \in SUBSET Nat : places = {i \in 1 .. Len(list) : list[i] = x}
  <2>1. PICK s \in SUBSET (1 .. Len(list)) : s = {i \in 1 .. Len(list) : list[i] = x}
    OBVIOUS
  <2>2. s \subseteq Nat
    BY <1>1
  <2>3. QED
    BY <2>1, <2>2
<1>3. places # {}
  BY <1>1, <1>2 DEF Offline!Has
<1>4. Offline!Min(places) \in places
  BY <1>3, Least DEF Offline!Min
<1>5. PICK p \in 1 .. Len(list) : p = Offline!Min(places) /\ list[p] = x
  BY <1>2, <1>4
<1>6. Offline!RemoveFirst(list, x) = SubSeq(list, 1, p - 1) \o SubSeq(list, p + 1, Len(list))
  <2>1. \E i \in 1 .. Len(list) : list[i] = x
    BY <1>5
  <2>2. Offline!SelectInSeq(list, LAMBDA v : v = x) = p
    BY <1>2, <1>3, <1>5 DEF Offline!SelectInSeq
  <2>3. QED
    BY <2>1, <2>2 DEF Offline!RemoveFirst, Offline!RemoveAt
<1>7. PICK r : r = Offline!RemoveFirst(list, x)
  OBVIOUS
<1>8. /\ r \in Seq(Video) /\ Len(r) = Len(list) - 1
      /\ \A i \in 1 .. Len(r) : r[i] = IF i < p THEN list[i] ELSE list[i + 1]
  <2>1. PICK a : a = SubSeq(list, 1, p - 1)
    OBVIOUS
  <2>2. PICK b : b = SubSeq(list, p + 1, Len(list))
    OBVIOUS
  <2>3. a \in Seq(Video) /\ Len(a) = p - 1 /\ \A i \in 1 .. Len(a) : a[i] = list[i]
    BY <1>1, <2>1
  <2>4. b \in Seq(Video) /\ Len(b) = Len(list) - p /\ \A i \in 1 .. Len(b) : b[i] = list[p + i]
    <3>1. CASE p = Len(list)
      <4>1. SubSeq(list, p + 1, Len(list)) = <<>>
        BY <1>1, <3>1
      <4>2. QED
        BY <1>1, <2>2, <3>1, <4>1
    <3>2. CASE p # Len(list)
      <4>1. p + 1 \in 1 .. Len(list)
        BY <1>1, <1>5, <3>2
      <4>2. QED
        BY <1>1, <1>5, <2>2, <4>1
    <3>3. QED
      BY <3>1, <3>2
  <2>5. r = a \o b
    BY <1>6, <1>7, <2>1, <2>2
  <2>6. /\ r \in Seq(Video) /\ Len(r) = Len(a) + Len(b)
        /\ \A i \in 1 .. Len(r) : r[i] = IF i <= Len(a) THEN a[i] ELSE b[i - Len(a)]
    <3>1. a \in Seq(Video) /\ b \in Seq(Video)
      BY <2>3, <2>4
    <3>2. QED
      BY <2>5, <3>1
  <2>7. Len(r) = Len(list) - 1
    BY <1>1, <2>3, <2>4, <2>6
  <2>8. ASSUME NEW i \in 1 .. Len(r) PROVE r[i] = IF i < p THEN list[i] ELSE list[i + 1]
    <3>1. CASE i < p
      <4>1. i \in 1 .. Len(a)
        BY <1>1, <2>3, <3>1
      <4>2. QED
        BY <2>3, <2>6, <3>1, <4>1
    <3>2. CASE ~(i < p)
      <4>1. i - Len(a) \in 1 .. Len(b) /\ ~(i <= Len(a)) /\ p + (i - Len(a)) = i + 1
        BY <1>1, <2>3, <2>4, <2>7, <3>2
      <4>2. r[i] = b[i - Len(a)]
        BY <2>6, <4>1
      <4>3. b[i - Len(a)] = list[p + (i - Len(a))]
        BY <2>4, <4>1
      <4>4. QED
        BY <3>2, <4>1, <4>2, <4>3
    <3>3. QED
      BY <3>1, <3>2
  <2>9. QED
    BY <2>6, <2>7, <2>8
<1>9. ASSUME NEW i \in 1 .. Len(r) PROVE \E k \in 1 .. Len(list) : k # p /\ r[i] = list[k]
  <2>1. CASE i < p
    BY <1>1, <1>8, <2>1
  <2>2. CASE ~(i < p)
    <3>1. i + 1 \in 1 .. Len(list) /\ i + 1 # p /\ r[i] = list[i + 1]
      BY <1>1, <1>8, <2>2
    <3>2. QED
      BY <3>1
  <2>3. QED
    BY <2>1, <2>2
<1>14. DOMAIN r = 1 .. Len(r)
  BY <1>8
<1>10. \A e : Offline!Has(r, e) => Offline!Has(list, e)
  BY <1>1, <1>9, <1>14 DEF Offline!Has
<1>11. ASSUME NEW e, Offline!Once(list, e) PROVE Offline!Once(r, e)
  <2>1. SUFFICES ASSUME NEW i \in 1 .. Len(r), NEW k \in 1 .. Len(r), r[i] = e, r[k] = e PROVE i = k
    BY <1>8 DEF Offline!Once
  <2>2. PICK n \in 1 .. Len(list) : n = (IF i < p THEN i ELSE i + 1) /\ list[n] = e
    BY <1>1, <1>8, <2>1
  <2>3. PICK m \in 1 .. Len(list) : m = (IF k < p THEN k ELSE k + 1) /\ list[m] = e
    BY <1>1, <1>8, <2>1
  <2>4. n = m
    BY <1>1, <1>11, <2>2, <2>3 DEF Offline!Once
  <2>5. QED
    BY <1>1, <1>8, <2>2, <2>3, <2>4
<1>12. ASSUME Offline!Once(list, x) PROVE ~Offline!Has(r, x)
  <2>1. SUFFICES ASSUME NEW i \in 1 .. Len(r), r[i] = x PROVE FALSE
    BY <1>14 DEF Offline!Has
  <2>2. PICK k \in 1 .. Len(list) : k # p /\ list[k] = x
    BY <1>9, <2>1
  <2>3. QED
    BY <1>1, <1>5, <1>12, <2>2 DEF Offline!Once
<1>13. QED
  BY <1>7, <1>8, <1>10, <1>11, <1>12

\* The invariant, of given lists and tasks.
OfflineTaskOK(t) ==
    /\ t \in Offline!Task
    /\ t.at \in Offline!Unlisted => t.kind = "run"
    /\ t.at = "unlink" => t.kind = "delete"
    /\ t.at = "ask" => t.kind = "check"
    /\ t.at = "idle" <=> t.kind = "none"
    /\ t.kind \in {"run", "delete"} => t.episode \in Video
OfflineLists(en, ix, fi, qu, fl, sp) ==
    /\ en \in Seq(Video) /\ qu \in Seq(Video)
    /\ ix \in [list : Seq(Video), whole : BOOLEAN, sure : BOOLEAN]
    /\ fi \subseteq Video /\ fl \subseteq Video /\ sp \subseteq Video
OfflineOneRun(ta) == \A h, k \in Handler : ta[h].kind = "run" /\ ta[k].kind = "run" => h = k
\* What holds of one episode that is not spoilt: of the lists, of the queue,
\* and of a task.
OfflineListed(e, en, il, fi) == Offline!Once(en, e) /\ Offline!Once(il, e) /\ (Offline!Has(en, e) => e \in fi)
OfflineQueued(e, en, qu, fl, ta) ==
    Offline!Has(qu, e) => /\ Offline!Once(qu, e) /\ e \in fl /\ ~Offline!Has(en, e)
                          /\ \A h \in Handler : ta[h].kind \in {"run", "delete"} => ta[h].episode # e
OfflineMinds(e, en, fi, ta, t) ==
    /\ t.at = "write" => Offline!Once(t.list, e)
    /\ t.episode = e =>
         /\ t.at \in Offline!Unlisted => ~Offline!Has(en, e)
         /\ t.at = "renamed" => e \in fi
         /\ t.at = "unlink" => /\ ~Offline!Has(en, e)
                               /\ \A k \in Handler : ta[k].at \in Offline!Unlisted => ta[k].episode # e
\* What holds of the index.
OfflineAlone(en, ta) ==
    \A h \in Handler : ta[h].at = "write" /\ ta[h].alone =>
      /\ \A k \in Handler : ta[k].at = "write" => k = h
      /\ ta[h].list = en \/ \E k \in Handler : ta[k].at \in Offline!Owing
OfflineSure(en, ix, fi, ta) ==
    /\ ix.sure => ix.whole
    /\ ix.sure => \/ Offline!Only(en, fi) = Offline!Only(ix.list, fi)
                  \/ \E h \in Handler : ta[h].at \in Offline!Owing \cup {"renamed", "write"}
OfflineTasks(ta) == ta \in [Handler -> Offline!Task] /\ \A h \in Handler : OfflineTaskOK(ta[h])

LEMMA OfflineParts ==
  Offline!IInv <=>
    /\ OfflineLists(x1, x2, x3, x4, x5, x7)
    /\ OfflineTasks(x6) /\ OfflineOneRun(x6)
    /\ \A e \in Video \ x7 :
         /\ OfflineListed(e, x1, x2.list, x3)
         /\ OfflineQueued(e, x1, x4, x5, x6)
         /\ \A h \in Handler : OfflineMinds(e, x1, x3, x6, x6[h])
    /\ OfflineAlone(x1, x6) /\ OfflineSure(x1, x2, x3, x6)
BY DEF Offline!IInv, Offline!TypeOK, Offline!OneOfEach, Offline!IndexFollows, OfflineLists,
       OfflineTasks, OfflineTaskOK, OfflineOneRun, OfflineListed, OfflineQueued,
       OfflineMinds, OfflineAlone, OfflineSure, Offline!At

LEMMA OfflinePartsNext ==
  ASSUME OfflineLists(x1', x2', x3', x4', x5', x7'),
         OfflineTasks(x6'), OfflineOneRun(x6'),
         \A e \in Video \ x7' :
           /\ OfflineListed(e, x1', x2'.list, x3')
           /\ OfflineQueued(e, x1', x4', x5', x6')
           /\ \A h \in Handler : OfflineMinds(e, x1', x3', x6', x6'[h]),
         OfflineAlone(x1', x6'), OfflineSure(x1', x2', x3', x6')
  PROVE  Offline!IInv'
BY DEF Offline!IInv, Offline!TypeOK, Offline!OneOfEach, Offline!IndexFollows, OfflineLists,
       OfflineTasks, OfflineTaskOK, OfflineOneRun, OfflineListed, OfflineQueued,
       OfflineMinds, OfflineAlone, OfflineSure, Offline!At

LEMMA OfflineTaskIs ==
  ASSUME OfflineTasks(x6), NEW h \in Handler, NEW t, OfflineTaskOK(t), x6' = [x6 EXCEPT ![h] = t]
  PROVE  /\ OfflineTasks(x6') /\ x6'[h] = t
         /\ \A k \in Handler : k # h => x6'[k] = x6[k]
<1>1. t \in Offline!Task /\ x6 \in [Handler -> Offline!Task]
  BY DEF OfflineTaskOK, OfflineTasks
<1>2. x6' \in [Handler -> Offline!Task] /\ x6'[h] = t /\ \A k \in Handler : k # h => x6'[k] = x6[k]
  BY <1>1
<1>3. \A k \in Handler : OfflineTaskOK(x6'[k])
  BY <1>2 DEF OfflineTasks
<1>4. QED
  BY <1>2, <1>3 DEF OfflineTasks

LEMMA OfflineIdleIs ==
  /\ OfflineTaskOK(Offline!Idle) /\ Offline!Idle.at = "idle" /\ Offline!Idle.kind = "none" /\ <<>> \in Seq(Video)
  /\ \A e : ~Offline!Has(<<>>, e) /\ Offline!Once(<<>>, e)
<1>1. <<>> \in Seq(Video)
  OBVIOUS
<1>2. OfflineTaskOK(Offline!Idle) /\ Offline!Idle.at = "idle" /\ Offline!Idle.kind = "none"
  BY <1>1
     DEF OfflineTaskOK, Offline!Task, Offline!Idle, Offline!Stage, Offline!Unlisted,
         Offline!Fetching, Offline!Owing
<1>3. \A e : ~Offline!Has(<<>>, e) /\ Offline!Once(<<>>, e)
  BY DEF Offline!Has, Offline!Once
<1>4. QED
  BY <1>1, <1>2, <1>3

LEMMA OfflineGoingIs ==
  ASSUME NEW e \in Video
  PROVE  /\ OfflineTaskOK(Offline!Going("run", "prepare", e)) /\ OfflineTaskOK(Offline!Going("delete", "unlink", e))
         /\ Offline!Going("run", "prepare", e).kind = "run" /\ Offline!Going("run", "prepare", e).at = "prepare"
         /\ Offline!Going("run", "prepare", e).episode = e
         /\ Offline!Going("delete", "unlink", e).kind = "delete" /\ Offline!Going("delete", "unlink", e).at = "unlink"
         /\ Offline!Going("delete", "unlink", e).episode = e
<1>1. <<>> \in Seq(Video)
  OBVIOUS
<1>2. /\ OfflineTaskOK(Offline!Going("run", "prepare", e))
      /\ Offline!Going("run", "prepare", e).kind = "run" /\ Offline!Going("run", "prepare", e).at = "prepare"
      /\ Offline!Going("run", "prepare", e).episode = e
  <2>1. PICK i \in Offline!Task : i = Offline!Idle
    BY OfflineIdleIs DEF OfflineTaskOK
  <2>2. PICK t : t = [i EXCEPT !.kind = "run", !.at = "prepare", !.episode = e]
    OBVIOUS
  <2>3. Offline!Going("run", "prepare", e) = t
    BY <2>1, <2>2 DEF Offline!Going
  <2>5. t \in Offline!Task /\ t.kind = "run" /\ t.at = "prepare" /\ t.episode = e
    BY <2>2 DEF Offline!Task, Offline!Stage, Offline!Unlisted, Offline!Fetching, Offline!Owing
  <2>6. OfflineTaskOK(t)
    BY <2>5 DEF OfflineTaskOK, Offline!Unlisted, Offline!Fetching
  <2>4. QED
    BY <2>3, <2>5, <2>6
<1>3. /\ OfflineTaskOK(Offline!Going("delete", "unlink", e))
      /\ Offline!Going("delete", "unlink", e).kind = "delete" /\ Offline!Going("delete", "unlink", e).at = "unlink"
      /\ Offline!Going("delete", "unlink", e).episode = e
  <2>1. PICK i \in Offline!Task : i = Offline!Idle
    BY OfflineIdleIs DEF OfflineTaskOK
  <2>2. PICK t : t = [i EXCEPT !.kind = "delete", !.at = "unlink", !.episode = e]
    OBVIOUS
  <2>3. Offline!Going("delete", "unlink", e) = t
    BY <2>1, <2>2 DEF Offline!Going
  <2>5. t \in Offline!Task /\ t.kind = "delete" /\ t.at = "unlink" /\ t.episode = e
    BY <2>2 DEF Offline!Task, Offline!Stage, Offline!Unlisted, Offline!Fetching, Offline!Owing
  <2>6. OfflineTaskOK(t)
    BY <2>5 DEF OfflineTaskOK, Offline!Unlisted, Offline!Fetching
  <2>4. QED
    BY <2>3, <2>5, <2>6
<1>4. QED
  BY <1>2, <1>3

\* A task at another stage.
LEMMA OfflineAtIs ==
  ASSUME NEW t, OfflineTaskOK(t), NEW at \in Offline!Stage,
         at \in Offline!Unlisted => t.kind = "run", at # "unlink", at # "ask", at # "idle", t.kind # "none"
  PROVE  /\ OfflineTaskOK([t EXCEPT !.at = at]) /\ [t EXCEPT !.at = at].at = at
         /\ [t EXCEPT !.at = at].kind = t.kind /\ [t EXCEPT !.at = at].episode = t.episode
         /\ [t EXCEPT !.at = at].list = t.list
<1>1. t \in Offline!Task
  BY DEF OfflineTaskOK
<1>2. PICK r : r = [t EXCEPT !.at = at]
  OBVIOUS
<1>3. /\ r \in Offline!Task /\ r.at = at /\ r.kind = t.kind /\ r.episode = t.episode /\ r.list = t.list
  BY <1>1, <1>2 DEF Offline!Task
<1>4. OfflineTaskOK(r)
  BY <1>3 DEF OfflineTaskOK
<1>5. QED
  BY <1>2, <1>3, <1>4

\* Runs that fetch go on, or are to be cancelled.
LEMMA OfflineFetches ==
  ASSUME Offline!IInv, OfflineTasks(x6'),
         \A k \in Handler : \/ x6'[k] = x6[k]
                            \/ /\ x6[k].at \in Offline!Fetching /\ x6'[k].at \in Offline!Fetching
                               /\ x6'[k].kind = x6[k].kind /\ x6'[k].episode = x6[k].episode,
         UNCHANGED <<x1, x2, x3, x7>>,
         x4' \in Seq(Video), x5' \subseteq Video,
         \A e \in Video \ x7 : OfflineQueued(e, x1, x4', x5', x6)
  PROVE  Offline!IInv'
<1>1. /\ OfflineLists(x1, x2, x3, x4, x5, x7)
      /\ OfflineTasks(x6) /\ OfflineOneRun(x6) /\ OfflineAlone(x1, x6) /\ OfflineSure(x1, x2, x3, x6)
      /\ \A e \in Video \ x7 :
           /\ OfflineListed(e, x1, x2.list, x3)
           /\ \A h \in Handler : OfflineMinds(e, x1, x3, x6, x6[h])
  BY OfflineParts
<1>2. OfflineLists(x1', x2', x3', x4', x5', x7')
  BY <1>1 DEF OfflineLists
<1>3. \A k \in Handler :
        /\ x6'[k].kind = x6[k].kind /\ x6'[k].episode = x6[k].episode
        /\ x6'[k].at \in Offline!Unlisted => x6[k].at \in Offline!Unlisted
        /\ \A at \in Offline!Owing \cup {"renamed", "write"} :
             /\ x6'[k].at = at => x6'[k] = x6[k]
             /\ x6[k].at = at => x6'[k] = x6[k]
  BY DEF Offline!Unlisted, Offline!Fetching, Offline!Owing
<1>4. OfflineOneRun(x6')
  BY <1>1, <1>3 DEF OfflineOneRun
<1>5. ASSUME NEW e \in Video \ x7
      PROVE  OfflineQueued(e, x1, x4', x5', x6')
  BY <1>3, <1>5 DEF OfflineQueued
<1>6. ASSUME NEW e \in Video \ x7, NEW h \in Handler
      PROVE  OfflineMinds(e, x1, x3, x6', x6'[h])
  <2>1. OfflineMinds(e, x1, x3, x6, x6[h])
    BY <1>1
  <2>2. \A at \in {"renamed", "unlink", "write"} : x6'[h].at = at => x6'[h] = x6[h]
    BY <1>3 DEF Offline!Owing
  <2>3. QED
    BY <1>3, <2>1, <2>2 DEF OfflineMinds
<1>7. OfflineAlone(x1, x6')
  <2>1. \A k \in Handler : /\ x6'[k].at = "write" => x6'[k] = x6[k]
                           /\ x6[k].at \in Offline!Owing => x6'[k] = x6[k]
    BY <1>3
  <2>2. QED
    BY <1>1, <2>1 DEF OfflineAlone
<1>8. OfflineSure(x1, x2, x3, x6')
  <2>1. \A k \in Handler : x6[k].at \in Offline!Owing \cup {"renamed", "write"} => x6'[k] = x6[k]
    BY <1>3
  <2>2. QED
    BY <1>1, <2>1 DEF OfflineSure
<1>9. QED
  BY <1>1, <1>2, <1>4, <1>5, <1>6, <1>7, <1>8, OfflinePartsNext

LEMMA OfflineStaysStep ==
  ASSUME Offline!IInv, NEW h \in Handler, x6[h].at \in Offline!Fetching, NEW stage \in Offline!Fetching, Offline!To(h, stage),
         UNCHANGED <<x1, x2, x3, x4, x7>>,
         x5 \subseteq x5', x5' \subseteq Video
  PROVE  Offline!IInv'
<1>1. /\ OfflineLists(x1, x2, x3, x4, x5, x7) /\ OfflineTasks(x6)
      /\ \A e \in Video \ x7 : OfflineQueued(e, x1, x4, x5, x6)
  BY OfflineParts
<1>2. OfflineTaskOK(x6[h]) /\ x6[h].kind = "run"
  BY <1>1 DEF OfflineTasks, OfflineTaskOK, Offline!Unlisted
<1>3. PICK t : t = [x6[h] EXCEPT !.at = stage]
  OBVIOUS
<1>4. stage \in Offline!Stage /\ stage \in Offline!Unlisted /\ stage # "unlink" /\ stage # "ask" /\ stage # "idle"
  BY DEF Offline!Stage, Offline!Unlisted, Offline!Fetching
<1>5. OfflineTaskOK(t) /\ t.at = stage /\ t.kind = x6[h].kind /\ t.episode = x6[h].episode
  BY <1>2, <1>3, <1>4, OfflineAtIs
<1>6. x6' = [x6 EXCEPT ![h] = t]
  BY <1>3 DEF Offline!To
<1>7. OfflineTasks(x6') /\ x6'[h] = t /\ \A k \in Handler : k # h => x6'[k] = x6[k]
  BY <1>1, <1>5, <1>6, OfflineTaskIs
<1>8. \A e \in Video \ x7 : OfflineQueued(e, x1, x4', x5', x6)
  BY <1>1 DEF OfflineQueued
<1>9. x4' \in Seq(Video)
  BY <1>1 DEF OfflineLists
<1>10. \A k \in Handler : \/ x6'[k] = x6[k]
                          \/ /\ x6[k].at \in Offline!Fetching /\ x6'[k].at \in Offline!Fetching
                             /\ x6'[k].kind = x6[k].kind /\ x6'[k].episode = x6[k].episode
  BY <1>5, <1>7
<1>11. QED
  BY <1>7, <1>8, <1>9, <1>10, OfflineFetches

LEMMA OfflineTransferStep ==
  ASSUME Offline!IInv, NEW h \in Handler, Offline!Transfer(h) PROVE Offline!IInv'
<1>1. OfflineLists(x1, x2, x3, x4, x5, x7)
  BY OfflineParts
<1>2. x6[h].at \in Offline!Fetching /\ "transfer" \in Offline!Fetching /\ x5 \subseteq x5' /\ x5' \subseteq Video
  BY <1>1 DEF Offline!Transfer, Offline!Fetching, OfflineLists
<1>3. QED
  BY <1>2, OfflineStaysStep DEF Offline!Transfer

LEMMA OfflineReceiveStep ==
  ASSUME Offline!IInv, NEW h \in Handler, Offline!Receive(h) PROVE Offline!IInv'
<1>1. /\ OfflineLists(x1, x2, x3, x4, x5, x7) /\ OfflineTasks(x6)
      /\ \A e \in Video \ x7 : OfflineQueued(e, x1, x4, x5, x6)
  BY OfflineParts
<1>2. x6[h].at \in Offline!Fetching
  BY DEF Offline!Receive, Offline!At, Offline!Fetching
<1>3. x6[h].episode \in Video
  BY <1>1, <1>2 DEF OfflineTasks, OfflineTaskOK, Offline!Unlisted
<1>4. x5 \subseteq x5' /\ x5' \subseteq Video
      /\ UNCHANGED <<x1, x2, x3, x4, x7>>
  BY <1>1, <1>3 DEF Offline!Receive, OfflineLists
<1>5. CASE UNCHANGED x6
  <2>1. x4' \in Seq(Video) /\ OfflineTasks(x6')
    BY <1>1, <1>4, <1>5 DEF OfflineLists
  <2>2. \A e \in Video \ x7 : OfflineQueued(e, x1, x4', x5', x6)
    BY <1>1, <1>4 DEF OfflineQueued
  <2>3. QED
    BY <1>4, <1>5, <2>1, <2>2, OfflineFetches
<1>6. CASE Offline!To(h, "wait")
  <2>1. "wait" \in Offline!Fetching
    BY DEF Offline!Fetching
  <2>2. QED
    BY <1>2, <1>4, <1>6, <2>1, OfflineStaysStep
<1>7. CASE Offline!To(h, "fetched")
  <2>1. "fetched" \in Offline!Fetching
    BY DEF Offline!Fetching
  <2>2. QED
    BY <1>2, <1>4, <1>7, <2>1, OfflineStaysStep
<1>8. QED
  BY <1>5, <1>6, <1>7 DEF Offline!Receive

LEMMA OfflineCancelStep ==
  ASSUME Offline!IInv, NEW e \in Video, Offline!Cancel(e) PROVE Offline!IInv'
<1>1. /\ OfflineLists(x1, x2, x3, x4, x5, x7) /\ OfflineTasks(x6)
      /\ \A d \in Video \ x7 : OfflineQueued(d, x1, x4, x5, x6)
  BY OfflineParts
<1>2. PICK others : others = Video \ {e}
  OBVIOUS
<1>3. x4 \in Seq(Video) /\ x4' = Offline!Only(x4, others) /\ x5' = x5 \ {e}
      /\ UNCHANGED <<x1, x2, x3, x7>>
  BY <1>1, <1>2 DEF Offline!Cancel, OfflineLists, Offline!Unqueued
<1>4. /\ x4' \in Seq(Video)
      /\ \A d : Offline!Has(x4', d) => d \in others /\ Offline!Has(x4, d)
      /\ \A d : Offline!Once(x4, d) => Offline!Once(x4', d)
  BY <1>3, OfflineOnlyFacts
<1>5. \A d \in Video \ x7 : OfflineQueued(d, x1, x4', x5', x6)
  BY <1>1, <1>2, <1>3, <1>4 DEF OfflineQueued
<1>6. x5' \subseteq Video
  BY <1>1, <1>3 DEF OfflineLists
<1>7. ASSUME NEW k \in Handler
      PROVE  /\ OfflineTaskOK(x6'[k])
             /\ \/ x6'[k] = x6[k]
                \/ /\ x6[k].at \in Offline!Fetching /\ x6'[k].at \in Offline!Fetching
                   /\ x6'[k].kind = x6[k].kind /\ x6'[k].episode = x6[k].episode
  <2>1. OfflineTaskOK(x6[k])
    BY <1>1 DEF OfflineTasks
  <2>2. CASE Offline!At(k, "transfer") /\ x6[k].episode = e
    <3>1. PICK t : t = [x6[k] EXCEPT !.at = "cancelled"]
      OBVIOUS
    <3>2. x6'[k] = t
      BY <2>2, <3>1 DEF Offline!Cancel
    <3>3. x6[k].kind = "run" /\ x6[k].at \in Offline!Fetching
      BY <2>1, <2>2 DEF OfflineTaskOK, Offline!At, Offline!Unlisted, Offline!Fetching
    <3>4. "cancelled" \in Offline!Stage /\ "cancelled" \in Offline!Fetching
      BY DEF Offline!Stage, Offline!Unlisted, Offline!Fetching
    <3>5. OfflineTaskOK(t) /\ t.at = "cancelled" /\ t.kind = x6[k].kind /\ t.episode = x6[k].episode
      BY <2>1, <3>1, <3>3, <3>4, OfflineAtIs
    <3>6. QED
      BY <3>2, <3>3, <3>4, <3>5
  <2>3. CASE ~(Offline!At(k, "transfer") /\ x6[k].episode = e)
    BY <2>1, <2>3 DEF Offline!Cancel
  <2>4. QED
    BY <2>2, <2>3
<1>8. OfflineTasks(x6')
  <2>1. x6' = [k \in Handler |-> x6'[k]]
    BY DEF Offline!Cancel
  <2>2. \A k \in Handler : x6'[k] \in Offline!Task
    BY <1>7 DEF OfflineTaskOK
  <2>3. QED
    BY <1>7, <2>1, <2>2 DEF OfflineTasks
<1>9. QED
  BY <1>3, <1>4, <1>5, <1>6, <1>7, <1>8, OfflineFetches

\* The next job, if one waits.
LEMMA OfflineJobEnded ==
  ASSUME Offline!IInv, NEW h \in Handler, x6[h].kind = "run", Offline!JobEnds(h)
  PROVE  /\ x4' \in Seq(Video) /\ x5' \subseteq Video
         /\ OfflineTasks(x6') /\ OfflineOneRun(x6') /\ x6'[h].at \in {"idle", "prepare"}
         /\ \A k \in Handler : k # h => x6'[k] = x6[k]
         /\ \A e \in Video \ x7 :
              /\ OfflineQueued(e, x1, x4', x5', x6')
              /\ \A k \in Handler : OfflineMinds(e, x1, x3, x6', x6'[k])
<1>1. /\ OfflineLists(x1, x2, x3, x4, x5, x7)
      /\ OfflineTasks(x6) /\ OfflineOneRun(x6)
      /\ \A e \in Video \ x7 :
           /\ OfflineQueued(e, x1, x4, x5, x6)
           /\ \A k \in Handler : OfflineMinds(e, x1, x3, x6, x6[k])
  BY OfflineParts
<1>2. /\ OfflineTaskOK(x6[h]) /\ x6[h].episode \in Video /\ x4 \in Seq(Video)
      /\ x5 \subseteq Video
  BY <1>1 DEF OfflineTasks, OfflineTaskOK, OfflineLists
<1>3. CASE x4 = <<>>
  <2>1. x4' = <<>> /\ x5' = x5 \ {x6[h].episode} /\ x6' = [x6 EXCEPT ![h] = Offline!Idle]
    BY <1>3 DEF Offline!JobEnds
  <2>2. OfflineTasks(x6') /\ x6'[h] = Offline!Idle /\ \A k \in Handler : k # h => x6'[k] = x6[k]
    BY <1>1, <2>1, OfflineIdleIs, OfflineTaskIs
  <2>3. OfflineOneRun(x6')
    BY <1>1, <2>2, OfflineIdleIs DEF OfflineOneRun
  <2>4. x4' \in Seq(Video) /\ x5' \subseteq Video
    BY <1>2, <2>1, OfflineIdleIs
  <2>5. ASSUME NEW e \in Video \ x7
        PROVE  /\ OfflineQueued(e, x1, x4', x5', x6')
               /\ \A k \in Handler : OfflineMinds(e, x1, x3, x6', x6'[k])
    <3>1. OfflineQueued(e, x1, x4', x5', x6')
      BY <2>1, OfflineIdleIs DEF OfflineQueued
    <3>2. ASSUME NEW k \in Handler PROVE OfflineMinds(e, x1, x3, x6', x6'[k])
      <4>1. CASE k = h
        BY <2>2, <4>1, OfflineIdleIs DEF OfflineMinds, Offline!Unlisted, Offline!Fetching
      <4>2. CASE k # h
        <5>1. OfflineMinds(e, x1, x3, x6, x6[k]) /\ x6'[k] = x6[k]
          BY <1>1, <2>2, <4>2
        <5>2. \A j \in Handler : x6'[j].at \in Offline!Unlisted => x6'[j] = x6[j]
          BY <2>2, OfflineIdleIs DEF Offline!Unlisted, Offline!Fetching
        <5>3. QED
          BY <5>1, <5>2 DEF OfflineMinds
      <4>3. QED
        BY <4>1, <4>2
    <3>3. QED
      BY <3>1, <3>2
  <2>6. QED
    BY <2>2, <2>3, <2>4, <2>5, OfflineIdleIs
<1>4. CASE x4 # <<>>
  <2>1. PICK d \in Video : d = Head(x4)
    BY <1>2, <1>4, OfflineTailIs
  <2>2. PICK t : t = Offline!Going("run", "prepare", d)
    OBVIOUS
  <2>3. OfflineTaskOK(t) /\ t.kind = "run" /\ t.at = "prepare" /\ t.episode = d
    BY <2>2, OfflineGoingIs
  <2>4. /\ x4' = Tail(x4) /\ x5' = (x5 \ {x6[h].episode}) \cup {d}
        /\ x6' = [x6 EXCEPT ![h] = t]
    BY <1>4, <2>1, <2>2 DEF Offline!JobEnds
  <2>5. OfflineTasks(x6') /\ x6'[h] = t /\ \A k \in Handler : k # h => x6'[k] = x6[k]
    BY <1>1, <2>3, <2>4, OfflineTaskIs
  <2>6. OfflineOneRun(x6')
    BY <1>1, <2>5 DEF OfflineOneRun
  <2>7. x4' \in Seq(Video) /\ x5' \subseteq Video
    BY <1>2, <1>4, <2>4, OfflineTailIs
  <2>8. /\ \A e : Offline!Has(x4', e) => Offline!Has(x4, e)
        /\ \A e : Offline!Once(x4, e) => Offline!Once(x4', e) /\ (Offline!Has(x4', e) => e # d)
        /\ Offline!Has(x4, d)
    BY <1>2, <1>4, <2>1, <2>4, OfflineTailIs
  <2>9. ASSUME NEW e \in Video \ x7
        PROVE  /\ OfflineQueued(e, x1, x4', x5', x6')
               /\ \A k \in Handler : OfflineMinds(e, x1, x3, x6', x6'[k])
    <3>1. OfflineQueued(e, x1, x4', x5', x6')
      <4>1. SUFFICES ASSUME Offline!Has(x4', e)
                     PROVE  /\ Offline!Once(x4', e) /\ e \in x5' /\ ~Offline!Has(x1, e)
                            /\ \A k \in Handler : x6'[k].kind \in {"run", "delete"} => x6'[k].episode # e
        BY DEF OfflineQueued
      <4>2. /\ Offline!Has(x4, e) /\ Offline!Once(x4, e) /\ e \in x5 /\ ~Offline!Has(x1, e)
            /\ \A k \in Handler : x6[k].kind \in {"run", "delete"} => x6[k].episode # e
        BY <1>1, <2>8, <4>1 DEF OfflineQueued
      <4>3. e # d
        BY <2>8, <4>1, <4>2
      <4>4. e \in x5'
        BY <2>4, <4>2
      <4>5. \A k \in Handler : x6'[k].kind \in {"run", "delete"} => x6'[k].episode # e
        BY <2>3, <2>5, <4>2, <4>3
      <4>6. QED
        BY <2>8, <4>2, <4>4, <4>5
    <3>2. ASSUME NEW k \in Handler PROVE OfflineMinds(e, x1, x3, x6', x6'[k])
      <4>1. e = d => ~Offline!Has(x1, e)
        BY <1>1, <2>8 DEF OfflineQueued
      <4>2. CASE k = h
        BY <2>3, <2>5, <4>1, <4>2 DEF OfflineMinds
      <4>3. CASE k # h
        <5>1. OfflineMinds(e, x1, x3, x6, x6[k]) /\ x6'[k] = x6[k]
          BY <1>1, <2>5, <4>3
        <5>2. \A j \in Handler : j # h => x6'[j] = x6[j]
          BY <2>5
        <5>3. x6[k].at = "unlink" /\ x6[k].episode = e => e # d
          BY <1>1, <2>8 DEF OfflineQueued, OfflineTasks, OfflineTaskOK
        <5>4. QED
          BY <2>3, <2>5, <5>1, <5>2, <5>3 DEF OfflineMinds
      <4>4. QED
        BY <4>2, <4>3
    <3>3. QED
      BY <3>1, <3>2
  <2>10. QED
    BY <2>3, <2>5, <2>6, <2>7, <2>9
<1>5. QED
  BY <1>3, <1>4

LEMMA OfflineJobFailsStep ==
  ASSUME Offline!IInv, NEW h \in Handler, Offline!JobFails(h) PROVE Offline!IInv'
<1>1. /\ OfflineLists(x1, x2, x3, x4, x5, x7)
      /\ OfflineTasks(x6) /\ OfflineAlone(x1, x6) /\ OfflineSure(x1, x2, x3, x6)
      /\ \A e \in Video \ x7 : OfflineListed(e, x1, x2.list, x3)
  BY OfflineParts
<1>2. x6[h].at \in Offline!Fetching /\ Offline!JobEnds(h) /\ UNCHANGED <<x1, x2, x3, x7>>
  BY DEF Offline!JobFails, Offline!Fetching
<1>3. x6[h].kind = "run"
  BY <1>1, <1>2 DEF OfflineTasks, OfflineTaskOK, Offline!Unlisted
<1>4. /\ x4' \in Seq(Video) /\ x5' \subseteq Video
      /\ OfflineTasks(x6') /\ OfflineOneRun(x6') /\ x6'[h].at \in {"idle", "prepare"}
      /\ \A k \in Handler : k # h => x6'[k] = x6[k]
      /\ \A e \in Video \ x7 :
           /\ OfflineQueued(e, x1, x4', x5', x6')
           /\ \A k \in Handler : OfflineMinds(e, x1, x3, x6', x6'[k])
  BY <1>2, <1>3, OfflineJobEnded
<1>5. \A k \in Handler, at \in Offline!Owing \cup {"renamed", "write"} :
        (x6'[k].at = at => x6'[k] = x6[k]) /\ (x6[k].at = at => x6'[k] = x6[k])
  <2>1. \A at \in Offline!Owing \cup {"renamed", "write"} : x6[h].at # at /\ x6'[h].at # at
    BY <1>2, <1>4 DEF Offline!Fetching, Offline!Owing
  <2>2. QED
    BY <1>4, <2>1
<1>6. OfflineAlone(x1, x6')
  <2>1. \A k \in Handler : /\ x6'[k].at = "write" => x6'[k] = x6[k]
                           /\ x6[k].at \in Offline!Owing => x6'[k] = x6[k]
    BY <1>5
  <2>2. QED
    BY <1>1, <2>1 DEF OfflineAlone
<1>7. OfflineSure(x1, x2, x3, x6')
  <2>1. \A k \in Handler : x6[k].at \in Offline!Owing \cup {"renamed", "write"} => x6'[k] = x6[k]
    BY <1>5
  <2>2. QED
    BY <1>1, <2>1 DEF OfflineSure
<1>8. OfflineLists(x1', x2', x3', x4', x5', x7')
  BY <1>1, <1>2, <1>4 DEF OfflineLists
<1>9. QED
  BY <1>1, <1>2, <1>4, <1>6, <1>7, <1>8, OfflinePartsNext

LEMMA OfflineRenameStep ==
  ASSUME Offline!IInv, NEW h \in Handler, Offline!Rename(h) PROVE Offline!IInv'
<1>1. /\ OfflineLists(x1, x2, x3, x4, x5, x7)
      /\ OfflineTasks(x6) /\ OfflineOneRun(x6) /\ OfflineAlone(x1, x6)
      /\ OfflineSure(x1, x2, x3, x6)
      /\ \A e \in Video \ x7 :
           /\ OfflineListed(e, x1, x2.list, x3)
           /\ OfflineQueued(e, x1, x4, x5, x6)
           /\ \A k \in Handler : OfflineMinds(e, x1, x3, x6, x6[k])
  BY OfflineParts
<1>2. PICK t : t = [x6[h] EXCEPT !.at = "renamed"]
  OBVIOUS
<1>3. /\ x6[h].at = "fetched" /\ x6' = [x6 EXCEPT ![h] = t]
      /\ x3' = x3 \cup {x6[h].episode}
      /\ UNCHANGED <<x1, x2, x4, x5, x7>>
  BY <1>2 DEF Offline!Rename, Offline!At, Offline!To
<1>4. OfflineTaskOK(x6[h]) /\ x6[h].kind = "run" /\ x6[h].episode \in Video
      /\ x6[h].at \in Offline!Unlisted
  BY <1>1, <1>3 DEF OfflineTasks, OfflineTaskOK, Offline!Unlisted, Offline!Fetching
<1>5. OfflineTaskOK(t) /\ t.at = "renamed" /\ t.kind = "run" /\ t.episode = x6[h].episode
  <2>1. "renamed" \in Offline!Stage
    BY DEF Offline!Stage, Offline!Unlisted
  <2>2. QED
    BY <1>2, <1>4, <2>1, OfflineAtIs
<1>6. OfflineTasks(x6') /\ x6'[h] = t /\ \A k \in Handler : k # h => x6'[k] = x6[k]
  BY <1>1, <1>3, <1>5, OfflineTaskIs
<1>7. OfflineLists(x1', x2', x3', x4', x5', x7')
  BY <1>1, <1>3, <1>4 DEF OfflineLists
<1>8. OfflineOneRun(x6')
  BY <1>1, <1>4, <1>5, <1>6 DEF OfflineOneRun
<1>9. ASSUME NEW e \in Video \ x7
      PROVE  /\ OfflineListed(e, x1, x2.list, x3')
             /\ OfflineQueued(e, x1, x4, x5, x6')
             /\ \A k \in Handler : OfflineMinds(e, x1, x3', x6', x6'[k])
  <2>1. OfflineListed(e, x1, x2.list, x3')
    BY <1>1, <1>3 DEF OfflineListed
  <2>2. OfflineQueued(e, x1, x4, x5, x6')
    BY <1>1, <1>4, <1>5, <1>6 DEF OfflineQueued
  <2>3. ASSUME NEW k \in Handler PROVE OfflineMinds(e, x1, x3', x6', x6'[k])
    <3>1. OfflineMinds(e, x1, x3, x6, x6[k]) /\ OfflineMinds(e, x1, x3, x6, x6[h])
      BY <1>1
    <3>2. \A j \in Handler : x6'[j].at \in Offline!Unlisted => x6[j].at \in Offline!Unlisted
                                                       /\ x6'[j].episode = x6[j].episode
      BY <1>4, <1>5, <1>6
    <3>3. CASE k = h
      BY <1>3, <1>4, <1>5, <1>6, <3>1, <3>3 DEF OfflineMinds
    <3>4. CASE k # h
      BY <1>3, <1>6, <3>1, <3>2, <3>4 DEF OfflineMinds
    <3>5. QED
      BY <3>3, <3>4
  <2>4. QED
    BY <2>1, <2>2, <2>3
<1>10. OfflineAlone(x1, x6')
  <2>1. \A k \in Handler : /\ x6'[k].at = "write" => x6'[k] = x6[k]
                           /\ x6[k].at \in Offline!Owing => x6'[k] = x6[k]
    BY <1>3, <1>5, <1>6 DEF Offline!Owing
  <2>2. QED
    BY <1>1, <2>1 DEF OfflineAlone
<1>11. OfflineSure(x1, x2, x3', x6')
  BY <1>1, <1>5, <1>6 DEF OfflineSure
<1>12. QED
  BY <1>3, <1>6, <1>7, <1>8, <1>9, <1>10, <1>11, OfflinePartsNext

LEMMA OfflineAddStep ==
  ASSUME Offline!IInv, NEW h \in Handler, Offline!Add(h) PROVE Offline!IInv'
<1>1. /\ OfflineLists(x1, x2, x3, x4, x5, x7)
      /\ OfflineTasks(x6) /\ OfflineOneRun(x6) /\ OfflineAlone(x1, x6)
      /\ OfflineSure(x1, x2, x3, x6)
      /\ \A e \in Video \ x7 :
           /\ OfflineListed(e, x1, x2.list, x3)
           /\ OfflineQueued(e, x1, x4, x5, x6)
           /\ \A k \in Handler : OfflineMinds(e, x1, x3, x6, x6[k])
  BY OfflineParts
<1>2. PICK t : t = [x6[h] EXCEPT !.at = "persist"]
  OBVIOUS
<1>3. /\ x6[h].at = "renamed" /\ x6' = [x6 EXCEPT ![h] = t]
      /\ UNCHANGED <<x2, x3, x4, x5, x7>>
  BY <1>2 DEF Offline!Add, Offline!At, Offline!To
<1>4. OfflineTaskOK(x6[h]) /\ x6[h].kind = "run" /\ x6[h].episode \in Video
      /\ x6[h].at \in Offline!Unlisted /\ x1 \in Seq(Video)
  BY <1>1, <1>3 DEF OfflineTasks, OfflineTaskOK, Offline!Unlisted, OfflineLists
<1>5. PICK x \in Video : x = x6[h].episode
  BY <1>4
<1>6. /\ x1' \in Seq(Video)
      /\ \A e : Offline!Has(x1', e) <=> Offline!Has(x1, e) \/ e = x
      /\ \A e : Offline!Once(x1', e) <=> Offline!Once(x1, e) /\ (Offline!Has(x1, e) => e # x)
  BY <1>4, <1>5, OfflineAppendIs DEF Offline!Add
<1>7. OfflineTaskOK(t) /\ t.at = "persist" /\ t.kind = "run" /\ t.episode = x
  <2>1. "persist" \in Offline!Stage /\ "persist" \notin Offline!Unlisted
    BY DEF Offline!Stage, Offline!Unlisted, Offline!Owing, Offline!Fetching
  <2>2. QED
    BY <1>2, <1>4, <1>5, <2>1, OfflineAtIs
<1>8. OfflineTasks(x6') /\ x6'[h] = t /\ \A k \in Handler : k # h => x6'[k] = x6[k]
  BY <1>1, <1>3, <1>7, OfflineTaskIs
<1>9. OfflineLists(x1', x2', x3', x4', x5', x7')
  BY <1>1, <1>3, <1>6 DEF OfflineLists
<1>10. OfflineOneRun(x6')
  BY <1>1, <1>4, <1>7, <1>8 DEF OfflineOneRun
<1>11. t.at \notin Offline!Unlisted /\ t.at \in Offline!Owing
  BY <1>7 DEF Offline!Unlisted, Offline!Fetching, Offline!Owing
<1>12. \A k \in Handler : x6'[k].at \notin Offline!Unlisted
  BY <1>1, <1>4, <1>8, <1>11 DEF OfflineOneRun, OfflineTasks, OfflineTaskOK
<1>13. ASSUME NEW e \in Video \ x7
       PROVE  /\ OfflineListed(e, x1', x2.list, x3)
              /\ OfflineQueued(e, x1', x4, x5, x6')
              /\ \A k \in Handler : OfflineMinds(e, x1', x3, x6', x6'[k])
  <2>1. OfflineMinds(e, x1, x3, x6, x6[h])
    BY <1>1
  <2>2. e = x => ~Offline!Has(x1, e) /\ e \in x3
    BY <1>3, <1>4, <1>5, <2>1 DEF OfflineMinds
  <2>3. OfflineListed(e, x1', x2.list, x3)
    BY <1>1, <1>6, <2>2 DEF OfflineListed
  <2>4. OfflineQueued(e, x1', x4, x5, x6')
    BY <1>1, <1>4, <1>5, <1>6, <1>7, <1>8 DEF OfflineQueued
  <2>5. ASSUME NEW k \in Handler PROVE OfflineMinds(e, x1', x3, x6', x6'[k])
    <3>1. OfflineMinds(e, x1, x3, x6, x6[k])
      BY <1>1
    <3>2. CASE k = h
      BY <1>7, <1>8, <1>11, <3>2 DEF OfflineMinds, Offline!Owing
    <3>3. CASE k # h
      <4>1. x6'[k] = x6[k] /\ x6[k].at \notin Offline!Unlisted /\ x6[k].at # "renamed"
        BY <1>8, <1>12, <3>3 DEF Offline!Unlisted
      <4>2. x6[k].at = "unlink" /\ x6[k].episode = e => e # x
        BY <1>4, <1>5, <3>1 DEF OfflineMinds
      <4>3. QED
        BY <1>6, <1>12, <3>1, <4>1, <4>2 DEF OfflineMinds
    <3>4. QED
      BY <3>2, <3>3
  <2>6. QED
    BY <2>3, <2>4, <2>5
<1>14. OfflineAlone(x1', x6')
  <2>1. \A k \in Handler : x6'[k].at = "write" => x6'[k] = x6[k]
    BY <1>7, <1>8
  <2>2. QED
    BY <1>1, <1>8, <1>11, <2>1 DEF OfflineAlone
<1>15. OfflineSure(x1', x2, x3, x6')
  BY <1>1, <1>8, <1>11 DEF OfflineSure
<1>16. QED
  BY <1>3, <1>8, <1>9, <1>10, <1>13, <1>14, <1>15, OfflinePartsNext

LEMMA OfflineDeleteStep ==
  ASSUME Offline!IInv, NEW h \in Handler, NEW x \in Video, Offline!Delete(h, x) PROVE Offline!IInv'
<1>1. /\ OfflineLists(x1, x2, x3, x4, x5, x7)
      /\ OfflineTasks(x6) /\ OfflineOneRun(x6) /\ OfflineAlone(x1, x6)
      /\ OfflineSure(x1, x2, x3, x6)
      /\ \A e \in Video \ x7 :
           /\ OfflineListed(e, x1, x2.list, x3)
           /\ OfflineQueued(e, x1, x4, x5, x6)
           /\ \A k \in Handler : OfflineMinds(e, x1, x3, x6, x6[k])
  BY OfflineParts
<1>2. PICK t : t = Offline!Going("delete", "unlink", x)
  OBVIOUS
<1>3. /\ x6[h].at = "idle" /\ x6' = [x6 EXCEPT ![h] = t] /\ Offline!Has(x1, x)
      /\ x1' = Offline!RemoveFirst(x1, x)
      /\ UNCHANGED <<x2, x3, x4, x5, x7>>
  BY <1>2 DEF Offline!Delete, Offline!At, Offline!ToSet, Offline!Has
<1>4. /\ x1 \in Seq(Video) /\ x1' \in Seq(Video)
      /\ \A e : Offline!Has(x1', e) => Offline!Has(x1, e)
      /\ \A e : Offline!Once(x1, e) => Offline!Once(x1', e)
      /\ Offline!Once(x1, x) => ~Offline!Has(x1', x)
  BY <1>1, <1>3, OfflineRemovedIs DEF OfflineLists
<1>5. OfflineTaskOK(t) /\ t.at = "unlink" /\ t.kind = "delete" /\ t.episode = x
  BY <1>2, OfflineGoingIs
<1>6. OfflineTasks(x6') /\ x6'[h] = t /\ \A k \in Handler : k # h => x6'[k] = x6[k]
  BY <1>1, <1>3, <1>5, OfflineTaskIs
<1>7. OfflineLists(x1', x2', x3', x4', x5', x7')
  BY <1>1, <1>3, <1>4 DEF OfflineLists
<1>8. OfflineOneRun(x6')
  BY <1>1, <1>5, <1>6 DEF OfflineOneRun
<1>9. t.at \notin Offline!Unlisted /\ t.at \in Offline!Owing
  BY <1>5 DEF Offline!Unlisted, Offline!Fetching, Offline!Owing
<1>10. ASSUME NEW e \in Video \ x7
       PROVE  /\ OfflineListed(e, x1', x2.list, x3)
              /\ OfflineQueued(e, x1', x4, x5, x6')
              /\ \A k \in Handler : OfflineMinds(e, x1', x3, x6', x6'[k])
  <2>1. OfflineListed(e, x1', x2.list, x3)
    BY <1>1, <1>4 DEF OfflineListed
  <2>2. OfflineQueued(e, x1', x4, x5, x6')
    BY <1>1, <1>3, <1>4, <1>5, <1>6 DEF OfflineQueued
  <2>3. \A j \in Handler : x6'[j].at \in Offline!Unlisted => x6'[j] = x6[j]
    BY <1>6, <1>9
  <2>4. ASSUME NEW k \in Handler PROVE OfflineMinds(e, x1', x3, x6', x6'[k])
    <3>1. OfflineMinds(e, x1, x3, x6, x6[k])
      BY <1>1
    <3>2. CASE k = h
      <4>1. e = x => ~Offline!Has(x1', e)
        BY <1>1, <1>4 DEF OfflineListed
      <4>2. e = x => \A j \in Handler : x6[j].at \in Offline!Unlisted => x6[j].episode # e
        BY <1>1, <1>3 DEF OfflineMinds
      <4>3. QED
        BY <1>5, <1>6, <1>9, <2>3, <3>2, <4>1, <4>2 DEF OfflineMinds
    <3>3. CASE k # h
      BY <1>4, <1>6, <2>3, <3>1, <3>3 DEF OfflineMinds
    <3>4. QED
      BY <3>2, <3>3
  <2>5. QED
    BY <2>1, <2>2, <2>4
<1>11. OfflineAlone(x1', x6')
  <2>1. \A k \in Handler : x6'[k].at = "write" => x6'[k] = x6[k]
    BY <1>5, <1>6
  <2>2. QED
    BY <1>1, <1>6, <1>9, <2>1 DEF OfflineAlone
<1>12. OfflineSure(x1', x2, x3, x6')
  BY <1>1, <1>6, <1>9 DEF OfflineSure
<1>13. QED
  BY <1>3, <1>6, <1>7, <1>8, <1>10, <1>11, <1>12, OfflinePartsNext

LEMMA OfflineUnlinkStep ==
  ASSUME Offline!IInv, NEW h \in Handler, Offline!Unlink(h) PROVE Offline!IInv'
<1>1. /\ OfflineLists(x1, x2, x3, x4, x5, x7)
      /\ OfflineTasks(x6) /\ OfflineOneRun(x6) /\ OfflineAlone(x1, x6)
      /\ OfflineSure(x1, x2, x3, x6)
      /\ \A e \in Video \ x7 :
           /\ OfflineListed(e, x1, x2.list, x3)
           /\ OfflineQueued(e, x1, x4, x5, x6)
           /\ \A k \in Handler : OfflineMinds(e, x1, x3, x6, x6[k])
  BY OfflineParts
<1>2. PICK t : t = [x6[h] EXCEPT !.at = "persist"]
  OBVIOUS
<1>3. /\ x6[h].at = "unlink" /\ x6' = [x6 EXCEPT ![h] = t]
      /\ x3' = x3 \ {x6[h].episode}
      /\ UNCHANGED <<x1, x2, x4, x5, x7>>
  BY <1>2 DEF Offline!Unlink, Offline!At, Offline!To
<1>4. OfflineTaskOK(x6[h]) /\ x6[h].kind = "delete"
  BY <1>1, <1>3 DEF OfflineTasks, OfflineTaskOK
<1>5. OfflineTaskOK(t) /\ t.at = "persist" /\ t.kind = "delete" /\ t.episode = x6[h].episode
  <2>1. "persist" \in Offline!Stage /\ "persist" \notin Offline!Unlisted
    BY DEF Offline!Stage, Offline!Unlisted, Offline!Owing, Offline!Fetching
  <2>2. QED
    BY <1>2, <1>4, <2>1, OfflineAtIs
<1>6. OfflineTasks(x6') /\ x6'[h] = t /\ \A k \in Handler : k # h => x6'[k] = x6[k]
  BY <1>1, <1>3, <1>5, OfflineTaskIs
<1>7. OfflineLists(x1', x2', x3', x4', x5', x7')
  BY <1>1, <1>3 DEF OfflineLists
<1>8. OfflineOneRun(x6')
  BY <1>1, <1>5, <1>6 DEF OfflineOneRun
<1>9. t.at \notin Offline!Unlisted /\ t.at \in Offline!Owing
  BY <1>5 DEF Offline!Unlisted, Offline!Fetching, Offline!Owing
<1>10. ASSUME NEW e \in Video \ x7
       PROVE  /\ OfflineListed(e, x1, x2.list, x3')
              /\ OfflineQueued(e, x1, x4, x5, x6')
              /\ \A k \in Handler : OfflineMinds(e, x1, x3', x6', x6'[k])
  <2>1. e = x6[h].episode =>
          ~Offline!Has(x1, e) /\ \A k \in Handler : x6[k].at \in Offline!Unlisted => x6[k].episode # e
    BY <1>1, <1>3 DEF OfflineMinds
  <2>2. OfflineListed(e, x1, x2.list, x3')
    BY <1>1, <1>3, <2>1 DEF OfflineListed
  <2>3. OfflineQueued(e, x1, x4, x5, x6')
    BY <1>1, <1>4, <1>5, <1>6 DEF OfflineQueued
  <2>4. \A j \in Handler : x6'[j].at \in Offline!Unlisted => x6'[j] = x6[j]
    BY <1>6, <1>9
  <2>5. ASSUME NEW k \in Handler PROVE OfflineMinds(e, x1, x3', x6', x6'[k])
    <3>1. OfflineMinds(e, x1, x3, x6, x6[k])
      BY <1>1
    <3>2. CASE k = h
      BY <1>5, <1>6, <1>9, <3>2 DEF OfflineMinds
    <3>3. CASE k # h
      <4>1. x6'[k] = x6[k]
        BY <1>6, <3>3
      <4>2. x6[k].at = "renamed" => x6[k].at \in Offline!Unlisted
        BY DEF Offline!Unlisted
      <4>3. x6[k].at = "renamed" /\ x6[k].episode = e => e \in x3'
        BY <1>3, <2>1, <3>1, <4>2 DEF OfflineMinds
      <4>4. QED
        BY <2>4, <3>1, <4>1, <4>3 DEF OfflineMinds
    <3>4. QED
      BY <3>2, <3>3
  <2>6. QED
    BY <2>2, <2>3, <2>5
<1>11. OfflineAlone(x1, x6')
  <2>1. \A k \in Handler : x6'[k].at = "write" => x6'[k] = x6[k]
    BY <1>5, <1>6
  <2>2. QED
    BY <1>1, <1>6, <1>9, <2>1 DEF OfflineAlone
<1>12. OfflineSure(x1, x2, x3', x6')
  BY <1>1, <1>6, <1>9 DEF OfflineSure
<1>13. QED
  BY <1>3, <1>6, <1>7, <1>8, <1>10, <1>11, <1>12, OfflinePartsNext

\* A task that is neither a run nor a deletion, before it writes.
LEMMA OfflineChecks ==
  ASSUME Offline!IInv, NEW h \in Handler, NEW t, OfflineTaskOK(t), t.kind \notin {"run", "delete"},
         t.at \in {"idle", "ask", "persist"}, x6[h].at \in {"idle", "ask"},
         x6' = [x6 EXCEPT ![h] = t],
         UNCHANGED <<x1, x2, x3, x4, x5, x7>>
  PROVE  Offline!IInv'
<1>1. /\ OfflineLists(x1, x2, x3, x4, x5, x7)
      /\ OfflineTasks(x6) /\ OfflineOneRun(x6) /\ OfflineAlone(x1, x6)
      /\ OfflineSure(x1, x2, x3, x6)
      /\ \A e \in Video \ x7 :
           /\ OfflineListed(e, x1, x2.list, x3)
           /\ OfflineQueued(e, x1, x4, x5, x6)
           /\ \A k \in Handler : OfflineMinds(e, x1, x3, x6, x6[k])
  BY OfflineParts
<1>2. OfflineTasks(x6') /\ x6'[h] = t /\ \A k \in Handler : k # h => x6'[k] = x6[k]
  BY <1>1, OfflineTaskIs
<1>3. OfflineLists(x1', x2', x3', x4', x5', x7')
  BY <1>1
<1>4. OfflineOneRun(x6')
  BY <1>1, <1>2 DEF OfflineOneRun
<1>5. t.at \notin Offline!Unlisted /\ t.at # "unlink" /\ t.at # "renamed" /\ t.at # "write"
      /\ \A at \in Offline!Owing \cup {"renamed", "write"} : x6[h].at # at
  BY DEF Offline!Unlisted, Offline!Fetching, Offline!Owing
<1>6. ASSUME NEW e \in Video \ x7
      PROVE  /\ OfflineQueued(e, x1, x4, x5, x6')
             /\ \A k \in Handler : OfflineMinds(e, x1, x3, x6', x6'[k])
  <2>1. OfflineQueued(e, x1, x4, x5, x6')
    BY <1>1, <1>2 DEF OfflineQueued
  <2>2. \A j \in Handler : x6'[j].at \in Offline!Unlisted => x6'[j] = x6[j]
    BY <1>2, <1>5
  <2>3. ASSUME NEW k \in Handler PROVE OfflineMinds(e, x1, x3, x6', x6'[k])
    <3>1. OfflineMinds(e, x1, x3, x6, x6[k])
      BY <1>1
    <3>2. CASE k = h
      BY <1>2, <1>5, <3>2 DEF OfflineMinds
    <3>3. CASE k # h
      BY <1>2, <2>2, <3>1, <3>3 DEF OfflineMinds
    <3>4. QED
      BY <3>2, <3>3
  <2>4. QED
    BY <2>1, <2>3
<1>7. \A k \in Handler : /\ x6'[k].at = "write" => x6'[k] = x6[k]
                         /\ x6[k].at \in Offline!Owing \cup {"renamed", "write"} => x6'[k] = x6[k]
  BY <1>2, <1>5
<1>8. OfflineAlone(x1, x6')
  BY <1>1, <1>7 DEF OfflineAlone
<1>9. OfflineSure(x1, x2, x3, x6')
  BY <1>1, <1>7 DEF OfflineSure
<1>10. QED
  BY <1>1, <1>2, <1>3, <1>4, <1>6, <1>8, <1>9, OfflinePartsNext

LEMMA OfflineRevalidateStep ==
  ASSUME Offline!IInv, NEW h \in Handler, Offline!Revalidate(h) PROVE Offline!IInv'
<1>1. OfflineTasks(x6)
  BY OfflineParts
<1>2. UNCHANGED <<x1, x2, x3, x4, x5, x7>>
  BY DEF Offline!Revalidate
<1>3. OfflineTaskOK(x6[h])
  BY <1>1 DEF OfflineTasks
<1>4. CASE Offline!At(h, "idle") /\ x6' = [x6 EXCEPT ![h] = [Offline!Idle EXCEPT !.kind = "check", !.at = "ask"]]
  <2>1. PICK i \in Offline!Task : i = Offline!Idle
    BY OfflineIdleIs DEF OfflineTaskOK
  <2>2. PICK t : t = [i EXCEPT !.kind = "check", !.at = "ask"]
    OBVIOUS
  <2>3. t \in Offline!Task /\ t.kind = "check" /\ t.at = "ask"
    BY <2>2 DEF Offline!Task, Offline!Stage
  <2>4. OfflineTaskOK(t)
    BY <2>3 DEF OfflineTaskOK, Offline!Unlisted, Offline!Fetching
  <2>5. x6' = [x6 EXCEPT ![h] = t]
    BY <1>4, <2>1, <2>2
  <2>6. t.kind \notin {"run", "delete"} /\ t.at \in {"idle", "ask", "persist"} /\ x6[h].at \in {"idle", "ask"}
    BY <1>4, <2>3 DEF Offline!At
  <2>7. QED
    BY <1>2, <2>4, <2>5, <2>6, OfflineChecks
<1>5. CASE Offline!At(h, "ask") /\ Offline!To(h, "persist")
  <2>1. PICK t : t = [x6[h] EXCEPT !.at = "persist"]
    OBVIOUS
  <2>2. x6[h].kind = "check" /\ x6[h].at = "ask"
    BY <1>3, <1>5 DEF OfflineTaskOK, Offline!At
  <2>3. OfflineTaskOK(t) /\ t.at = "persist" /\ t.kind = "check"
    <3>1. "persist" \in Offline!Stage /\ "persist" \notin Offline!Unlisted
      BY DEF Offline!Stage, Offline!Unlisted, Offline!Owing, Offline!Fetching
    <3>2. QED
      BY <1>3, <2>1, <2>2, <3>1, OfflineAtIs
  <2>4. x6' = [x6 EXCEPT ![h] = t]
    BY <1>5, <2>1 DEF Offline!To
  <2>5. t.kind \notin {"run", "delete"} /\ t.at \in {"idle", "ask", "persist"} /\ x6[h].at \in {"idle", "ask"}
    BY <2>2, <2>3
  <2>6. QED
    BY <1>2, <2>3, <2>4, <2>5, OfflineChecks
<1>6. CASE Offline!At(h, "ask") /\ x6' = [x6 EXCEPT ![h] = Offline!Idle]
  <2>1. Offline!Idle.kind \notin {"run", "delete"} /\ Offline!Idle.at \in {"idle", "ask", "persist"} /\ x6[h].at \in {"idle", "ask"}
        /\ OfflineTaskOK(Offline!Idle)
    BY <1>6, OfflineIdleIs DEF Offline!At
  <2>2. QED
    BY <1>2, <1>6, <2>1, OfflineChecks
<1>7. QED
  BY <1>4, <1>5, <1>6 DEF Offline!Revalidate

LEMMA OfflineWriteTmpStep ==
  ASSUME Offline!IInv, NEW h \in Handler, Offline!WriteTmp(h) PROVE Offline!IInv'
<1>1. /\ OfflineLists(x1, x2, x3, x4, x5, x7)
      /\ OfflineTasks(x6) /\ OfflineOneRun(x6) /\ OfflineAlone(x1, x6)
      /\ OfflineSure(x1, x2, x3, x6)
      /\ \A e \in Video \ x7 :
           /\ OfflineListed(e, x1, x2.list, x3)
           /\ OfflineQueued(e, x1, x4, x5, x6)
           /\ \A k \in Handler : OfflineMinds(e, x1, x3, x6, x6[k])
  BY OfflineParts
<1>2. PICK others \in SUBSET Handler : others = {k \in Handler \ {h} : Offline!At(k, "write")}
  OBVIOUS
<1>3. UNCHANGED <<x1, x2, x3, x4, x5, x7>> /\ x6[h].at = "persist"
      /\ x1 \in Seq(Video)
  BY <1>1 DEF Offline!WriteTmp, Offline!At, OfflineLists
<1>4. x6' = [k \in Handler |->
                 IF k = h THEN [x6[h] EXCEPT !.at = "write", !.list = x1, !.alone = (others = {})]
                 ELSE IF k \in others THEN [x6[k] EXCEPT !.alone = FALSE]
                 ELSE x6[k]]
  BY <1>2 DEF Offline!WriteTmp
<1>5. PICK b \in BOOLEAN : b = (others = {})
  <2>1. (others = {}) \in BOOLEAN
    OBVIOUS
  <2>2. QED
    BY <2>1, Zenon
<1>6. PICK t : t = [x6[h] EXCEPT !.at = "write", !.list = x1, !.alone = b]
  OBVIOUS
<1>7. x6'[h] = t /\ x6[h] \in Offline!Task /\ OfflineTaskOK(x6[h])
  BY <1>1, <1>4, <1>5, <1>6 DEF OfflineTasks
<1>8. /\ t \in Offline!Task /\ t.at = "write" /\ t.list = x1 /\ t.alone = b
      /\ t.kind = x6[h].kind /\ t.episode = x6[h].episode
  <2>1. "write" \in Offline!Stage
    BY DEF Offline!Stage
  <2>2. QED
    BY <1>3, <1>6, <1>7, <2>1 DEF Offline!Task
<1>9. OfflineTaskOK(t)
  BY <1>3, <1>7, <1>8 DEF OfflineTaskOK, Offline!Unlisted, Offline!Fetching
<1>10. ASSUME NEW k \in Handler, k # h
       PROVE  /\ OfflineTaskOK(x6'[k]) /\ x6'[k].at = x6[k].at /\ x6'[k].kind = x6[k].kind
              /\ x6'[k].episode = x6[k].episode /\ x6'[k].list = x6[k].list
              /\ x6[k].at = "write" => x6'[k].alone = FALSE
  <2>1. x6[k] \in Offline!Task /\ OfflineTaskOK(x6[k])
    BY <1>1 DEF OfflineTasks
  <2>2. CASE k \in others
    <3>1. PICK r : r = [x6[k] EXCEPT !.alone = FALSE]
      OBVIOUS
    <3>2. x6'[k] = r
      BY <1>4, <1>10, <2>2, <3>1
    <3>3. /\ r \in Offline!Task /\ r.at = x6[k].at /\ r.kind = x6[k].kind /\ r.alone = FALSE
          /\ r.episode = x6[k].episode /\ r.list = x6[k].list
      BY <2>1, <3>1 DEF Offline!Task
    <3>4. OfflineTaskOK(r)
      BY <2>1, <3>3 DEF OfflineTaskOK
    <3>5. QED
      BY <3>2, <3>3, <3>4
  <2>3. CASE k \notin others
    BY <1>2, <1>4, <1>10, <2>1, <2>3 DEF Offline!At
  <2>4. QED
    BY <2>2, <2>3
<1>11. OfflineTasks(x6')
  <2>1. \A k \in Handler : OfflineTaskOK(x6'[k])
    BY <1>7, <1>9, <1>10
  <2>2. \A k \in Handler : x6'[k] \in Offline!Task
    BY <2>1 DEF OfflineTaskOK
  <2>3. x6' = [k \in Handler |-> x6'[k]]
    BY <1>4
  <2>4. QED
    BY <2>1, <2>2, <2>3 DEF OfflineTasks
<1>12. OfflineLists(x1', x2', x3', x4', x5', x7')
  BY <1>1, <1>3
<1>13. \A k \in Handler : x6'[k].kind = x6[k].kind /\ x6'[k].episode = x6[k].episode
  BY <1>7, <1>8, <1>10
<1>14. \A k \in Handler : x6'[k].at \in Offline!Unlisted \cup {"unlink"} => k # h /\ x6'[k].at = x6[k].at
  BY <1>7, <1>8, <1>10 DEF Offline!Unlisted, Offline!Fetching
<1>15. OfflineOneRun(x6')
  BY <1>1, <1>13 DEF OfflineOneRun
<1>16. ASSUME NEW e \in Video \ x7
       PROVE  /\ OfflineQueued(e, x1, x4, x5, x6')
              /\ \A k \in Handler : OfflineMinds(e, x1, x3, x6', x6'[k])
  <2>1. OfflineQueued(e, x1, x4, x5, x6')
    BY <1>1, <1>13 DEF OfflineQueued
  <2>2. ASSUME NEW k \in Handler PROVE OfflineMinds(e, x1, x3, x6', x6'[k])
    <3>1. OfflineMinds(e, x1, x3, x6, x6[k])
      BY <1>1
    <3>2. Offline!Once(x1, e)
      BY <1>1 DEF OfflineListed
    <3>3. CASE k = h
      BY <1>7, <1>8, <3>2, <3>3 DEF OfflineMinds, Offline!Unlisted, Offline!Fetching
    <3>4. CASE k # h
      <4>1. /\ x6'[k].at = x6[k].at /\ x6'[k].episode = x6[k].episode
            /\ x6'[k].list = x6[k].list
        BY <1>10, <3>4
      <4>2. \A j \in Handler : x6'[j].at \in Offline!Unlisted =>
              x6[j].at \in Offline!Unlisted /\ x6'[j].episode = x6[j].episode
        BY <1>13, <1>14
      <4>3. QED
        BY <3>1, <4>1, <4>2 DEF OfflineMinds
    <3>5. QED
      BY <3>3, <3>4
  <2>3. QED
    BY <2>1, <2>2
<1>17. OfflineAlone(x1, x6')
  <2>1. ASSUME NEW k \in Handler, x6'[k].at = "write", x6'[k].alone
        PROVE  /\ \A j \in Handler : x6'[j].at = "write" => j = k
               /\ x6'[k].list = x1
    <3>1. k = h
      BY <1>10, <2>1
    <3>2. others = {}
      BY <1>5, <1>7, <1>8, <2>1, <3>1
    <3>3. \A j \in Handler : j # h => x6[j].at # "write"
      BY <1>2, <3>2 DEF Offline!At
    <3>4. QED
      BY <1>7, <1>8, <1>10, <3>1, <3>3
  <2>2. QED
    BY <2>1 DEF OfflineAlone
<1>18. OfflineSure(x1, x2, x3, x6')
  BY <1>1, <1>7, <1>8 DEF OfflineSure
<1>19. QED
  BY <1>1, <1>3, <1>11, <1>12, <1>15, <1>16, <1>17, <1>18, OfflinePartsNext

\* A writer's task is over: the next job, or none.
LEMMA OfflineWritten ==
  ASSUME Offline!IInv, NEW h \in Handler, x6[h].at = "write",
         IF x6[h].kind = "run" THEN Offline!JobEnds(h)
         ELSE x6' = [x6 EXCEPT ![h] = Offline!Idle] /\ UNCHANGED <<x4, x5>>
  PROVE  /\ x4' \in Seq(Video) /\ x5' \subseteq Video
         /\ OfflineTasks(x6') /\ OfflineOneRun(x6') /\ x6'[h].at \in {"idle", "prepare"}
         /\ \A k \in Handler : k # h => x6'[k] = x6[k]
         /\ \A e \in Video \ x7 :
              /\ OfflineQueued(e, x1, x4', x5', x6')
              /\ \A k \in Handler : OfflineMinds(e, x1, x3, x6', x6'[k])
<1>1. /\ OfflineLists(x1, x2, x3, x4, x5, x7)
      /\ OfflineTasks(x6) /\ OfflineOneRun(x6) /\ OfflineAlone(x1, x6)
      /\ OfflineSure(x1, x2, x3, x6)
      /\ \A e \in Video \ x7 :
           /\ OfflineListed(e, x1, x2.list, x3)
           /\ OfflineQueued(e, x1, x4, x5, x6)
           /\ \A k \in Handler : OfflineMinds(e, x1, x3, x6, x6[k])
  BY OfflineParts
<1>2. CASE x6[h].kind = "run"
  <2>1. Offline!JobEnds(h)
    BY <1>2
  <2>2. QED
    BY <1>2, <2>1, OfflineJobEnded
<1>3. CASE x6[h].kind # "run"
  <2>1. x6' = [x6 EXCEPT ![h] = Offline!Idle] /\ UNCHANGED <<x4, x5>>
    BY <1>3
  <2>2. OfflineTasks(x6') /\ x6'[h] = Offline!Idle /\ \A k \in Handler : k # h => x6'[k] = x6[k]
    BY <1>1, <2>1, OfflineIdleIs, OfflineTaskIs
  <2>3. OfflineOneRun(x6')
    BY <1>1, <2>2, OfflineIdleIs DEF OfflineOneRun
  <2>4. x4' \in Seq(Video) /\ x5' \subseteq Video
    BY <1>1, <2>1 DEF OfflineLists
  <2>5. ASSUME NEW e \in Video \ x7
        PROVE  /\ OfflineQueued(e, x1, x4', x5', x6')
               /\ \A k \in Handler : OfflineMinds(e, x1, x3, x6', x6'[k])
    <3>1. OfflineQueued(e, x1, x4', x5', x6')
      BY <1>1, <2>1, <2>2, OfflineIdleIs DEF OfflineQueued
    <3>2. \A j \in Handler : x6'[j].at \in Offline!Unlisted => x6'[j] = x6[j]
      BY <2>2, OfflineIdleIs DEF Offline!Unlisted, Offline!Fetching
    <3>3. ASSUME NEW k \in Handler PROVE OfflineMinds(e, x1, x3, x6', x6'[k])
      <4>1. OfflineMinds(e, x1, x3, x6, x6[k])
        BY <1>1
      <4>2. CASE k = h
        BY <2>2, <4>2, OfflineIdleIs DEF OfflineMinds, Offline!Unlisted, Offline!Fetching
      <4>3. CASE k # h
        BY <2>2, <3>2, <4>1, <4>3 DEF OfflineMinds
      <4>4. QED
        BY <4>2, <4>3
    <3>4. QED
      BY <3>1, <3>3
  <2>6. QED
    BY <2>2, <2>3, <2>4, <2>5, OfflineIdleIs
<1>4. QED
  BY <1>2, <1>3

LEMMA OfflineRenameTmpStep ==
  ASSUME Offline!IInv, NEW h \in Handler, Offline!RenameTmp(h) PROVE Offline!IInv'
<1>1. /\ OfflineLists(x1, x2, x3, x4, x5, x7)
      /\ OfflineTasks(x6) /\ OfflineOneRun(x6) /\ OfflineAlone(x1, x6)
      /\ OfflineSure(x1, x2, x3, x6)
      /\ \A e \in Video \ x7 :
           /\ OfflineListed(e, x1, x2.list, x3)
           /\ OfflineQueued(e, x1, x4, x5, x6)
           /\ \A k \in Handler : OfflineMinds(e, x1, x3, x6, x6[k])
  BY OfflineParts
<1>2. x6[h].at = "write" /\ UNCHANGED <<x1, x3, x7>>
  BY DEF Offline!RenameTmp, Offline!At
<1>3. /\ x4' \in Seq(Video) /\ x5' \subseteq Video
      /\ OfflineTasks(x6') /\ OfflineOneRun(x6') /\ x6'[h].at \in {"idle", "prepare"}
      /\ \A k \in Handler : k # h => x6'[k] = x6[k]
      /\ \A e \in Video \ x7 :
           /\ OfflineQueued(e, x1, x4', x5', x6')
           /\ \A k \in Handler : OfflineMinds(e, x1, x3, x6', x6'[k])
  <2>1. IF x6[h].kind = "run" THEN Offline!JobEnds(h)
        ELSE x6' = [x6 EXCEPT ![h] = Offline!Idle] /\ UNCHANGED <<x4, x5>>
    BY DEF Offline!RenameTmp
  <2>2. QED
    BY <1>2, <2>1, OfflineWritten
<1>4. x6[h].list \in Seq(Video) /\ x2 \in [list : Seq(Video), whole : BOOLEAN, sure : BOOLEAN]
      /\ x6[h].alone \in BOOLEAN
  BY <1>1 DEF OfflineTasks, Offline!Task, OfflineLists
<1>5. /\ x2' \in [list : Seq(Video), whole : BOOLEAN, sure : BOOLEAN]
      /\ x2'.list = x6[h].list \/ x2'.list = x2.list
      /\ x2'.sure => x2'.whole /\ x6[h].alone /\ x2'.list = x6[h].list
  <2>1. CASE x6[h].alone
    <3>1. x2' = [list |-> x6[h].list, whole |-> TRUE, sure |-> TRUE]
      BY <2>1 DEF Offline!RenameTmp
    <3>2. QED
      BY <1>4, <2>1, <3>1
  <2>2. CASE ~x6[h].alone
    <3>1. PICK whole \in BOOLEAN : \/ x2' = [list |-> x6[h].list, whole |-> whole, sure |-> FALSE]
                                   \/ x2' = [x2 EXCEPT !.sure = FALSE]
      BY <2>2 DEF Offline!RenameTmp
    <3>2. CASE x2' = [list |-> x6[h].list, whole |-> whole, sure |-> FALSE]
      BY <1>4, <3>2
    <3>3. CASE x2' = [x2 EXCEPT !.sure = FALSE]
      BY <1>4, <3>3
    <3>4. QED
      BY <3>1, <3>2, <3>3
  <2>3. QED
    BY <2>1, <2>2
<1>6. OfflineLists(x1', x2', x3', x4', x5', x7')
  BY <1>1, <1>2, <1>3, <1>5 DEF OfflineLists
<1>7. ASSUME NEW e \in Video \ x7 PROVE OfflineListed(e, x1, x2'.list, x3)
  <2>1. Offline!Once(x6[h].list, e)
    BY <1>1, <1>2 DEF OfflineMinds
  <2>2. QED
    BY <1>1, <1>5, <2>1 DEF OfflineListed
<1>8. OfflineAlone(x1, x6')
  <2>1. ASSUME NEW k \in Handler, x6'[k].at = "write", x6'[k].alone PROVE FALSE
    <3>1. k # h
      BY <1>3, <2>1
    <3>2. x6[k].at = "write" /\ x6[k].alone
      BY <1>3, <2>1, <3>1
    <3>3. QED
      BY <1>1, <1>2, <3>1, <3>2 DEF OfflineAlone
  <2>2. QED
    BY <2>1 DEF OfflineAlone
<1>9. OfflineSure(x1, x2', x3, x6')
  <2>1. SUFFICES ASSUME x2'.sure
                 PROVE  \/ Offline!Only(x1, x3) = Offline!Only(x2'.list, x3)
                        \/ \E k \in Handler : x6'[k].at \in Offline!Owing
    BY <1>5 DEF OfflineSure
  <2>2. x2'.list = x1 \/ \E k \in Handler : x6[k].at \in Offline!Owing
    BY <1>1, <1>2, <1>5, <2>1 DEF OfflineAlone
  <2>3. ASSUME NEW k \in Handler, x6[k].at \in Offline!Owing PROVE x6'[k].at \in Offline!Owing
    BY <1>2, <1>3, <2>3 DEF Offline!Owing
  <2>4. QED
    BY <2>2, <2>3
<1>10. QED
  BY <1>2, <1>3, <1>6, <1>7, <1>8, <1>9, OfflinePartsNext

LEMMA OfflineRestartStep ==
  ASSUME Offline!IInv, Offline!Restart PROVE Offline!IInv'
<1>1. /\ OfflineLists(x1, x2, x3, x4, x5, x7) /\ OfflineSure(x1, x2, x3, x6)
      /\ \A e \in Video \ x7 : OfflineListed(e, x1, x2.list, x3)
  BY OfflineParts
<1>2. /\ x4' = <<>> /\ x5' = {} /\ x6' = [h \in Handler |-> Offline!Idle]
      /\ UNCHANGED <<x2, x3, x7>>
      /\ x1' = IF x2.whole THEN Offline!Only(x2.list, x3) ELSE <<>>
  BY DEF Offline!Restart
<1>3. x2.list \in Seq(Video)
  BY <1>1 DEF OfflineLists
<1>4. /\ x1' \in Seq(Video)
      /\ \A e : Offline!Has(x1', e) => e \in x3
      /\ \A e : Offline!Once(x2.list, e) => Offline!Once(x1', e)
      /\ x2.whole => Offline!Only(x1', x3) = Offline!Only(x2.list, x3)
  <2>1. CASE x2.whole
    BY <1>2, <1>3, <2>1, OfflineOnlyFacts, OfflineOnlyOnce
  <2>2. CASE ~x2.whole
    BY <1>2, <2>2, OfflineIdleIs
  <2>3. QED
    BY <2>1, <2>2
<1>5. OfflineTasks(x6')
  <2>1. Offline!Idle \in Offline!Task
    BY OfflineIdleIs DEF OfflineTaskOK
  <2>2. QED
    BY <1>2, <2>1, OfflineIdleIs DEF OfflineTasks
<1>6. \A h \in Handler : x6'[h].kind = "none" /\ x6'[h].at = "idle"
  BY <1>2, OfflineIdleIs
<1>7. OfflineLists(x1', x2', x3', x4', x5', x7')
  BY <1>1, <1>2, <1>4, OfflineIdleIs DEF OfflineLists
<1>8. OfflineOneRun(x6') /\ OfflineAlone(x1', x6')
  BY <1>6 DEF OfflineOneRun, OfflineAlone
<1>9. OfflineSure(x1', x2', x3', x6')
  BY <1>1, <1>2, <1>4 DEF OfflineSure
<1>10. ASSUME NEW e \in Video \ x7
       PROVE  /\ OfflineListed(e, x1', x2.list, x3)
              /\ OfflineQueued(e, x1', x4', x5', x6')
              /\ \A h \in Handler : OfflineMinds(e, x1', x3, x6', x6'[h])
  <2>1. OfflineListed(e, x1', x2.list, x3)
    BY <1>1, <1>4 DEF OfflineListed
  <2>2. OfflineQueued(e, x1', x4', x5', x6')
    BY <1>2, OfflineIdleIs DEF OfflineQueued
  <2>3. \A h \in Handler : OfflineMinds(e, x1', x3, x6', x6'[h])
    BY <1>6 DEF OfflineMinds, Offline!Unlisted, Offline!Fetching
  <2>4. QED
    BY <2>1, <2>2, <2>3
<1>11. QED
  BY <1>2, <1>5, <1>7, <1>8, <1>9, <1>10, OfflinePartsNext

LEMMA OfflineDownloadStep ==
  ASSUME Offline!IInv, NEW x \in Video, Offline!Download(x) PROVE Offline!IInv'
<1>1. /\ OfflineLists(x1, x2, x3, x4, x5, x7)
      /\ OfflineTasks(x6) /\ OfflineOneRun(x6) /\ OfflineAlone(x1, x6)
      /\ OfflineSure(x1, x2, x3, x6)
      /\ \A e \in Video \ x7 :
           /\ OfflineListed(e, x1, x2.list, x3)
           /\ OfflineQueued(e, x1, x4, x5, x6)
           /\ \A k \in Handler : OfflineMinds(e, x1, x3, x6, x6[k])
  BY OfflineParts
<1>2. /\ ~Offline!Has(x1, x) /\ x \notin x5 /\ x5' = x5 \cup {x}
      /\ UNCHANGED <<x1, x2, x3>>
      /\ x4 \in Seq(Video) /\ x5' \subseteq Video
  BY <1>1 DEF Offline!Download, Offline!ToSet, Offline!Has, OfflineLists
<1>3. /\ x7' \subseteq Video /\ x7 \subseteq x7'
      /\ x \notin x7' =>
           \A k \in Handler : x6[k].kind \in {"run", "delete"} => x6[k].episode # x
  BY <1>1 DEF Offline!Download, OfflineLists
<1>4. CASE x4' = Append(x4, x) /\ UNCHANGED x6
  <2>1. /\ x4' \in Seq(Video)
        /\ \A e : Offline!Has(x4', e) <=> Offline!Has(x4, e) \/ e = x
        /\ \A e : Offline!Once(x4', e) <=> Offline!Once(x4, e) /\ (Offline!Has(x4, e) => e # x)
    BY <1>2, <1>4, OfflineAppendIs
  <2>2. OfflineLists(x1', x2', x3', x4', x5', x7')
    BY <1>1, <1>2, <1>3, <2>1 DEF OfflineLists
  <2>3. ASSUME NEW e \in Video \ x7' PROVE OfflineQueued(e, x1, x4', x5', x6)
    <3>1. OfflineQueued(e, x1, x4, x5, x6)
      BY <1>1, <1>3
    <3>2. CASE e # x
      BY <1>2, <2>1, <3>1, <3>2 DEF OfflineQueued
    <3>3. CASE e = x
      <4>1. ~Offline!Has(x4, x)
        BY <1>2, <3>1, <3>3 DEF OfflineQueued
      <4>2. Offline!Once(x4, x)
        BY <4>1 DEF Offline!Once, Offline!Has
      <4>3. QED
        BY <1>2, <1>3, <2>1, <3>3, <4>1, <4>2 DEF OfflineQueued
    <3>4. QED
      BY <3>2, <3>3
  <2>4. QED
    BY <1>1, <1>2, <1>3, <1>4, <2>2, <2>3, OfflinePartsNext
<1>5. CASE /\ ~Offline!Draining
           /\ \E h \in Handler : /\ Offline!At(h, "idle")
                                 /\ x6' = [x6 EXCEPT ![h] = Offline!Going("run", "prepare", x)]
           /\ UNCHANGED x4
  <2>1. PICK h \in Handler : /\ Offline!At(h, "idle")
                             /\ x6' = [x6 EXCEPT ![h] = Offline!Going("run", "prepare", x)]
    BY <1>5
  <2>2. PICK t : t = Offline!Going("run", "prepare", x)
    OBVIOUS
  <2>3. OfflineTaskOK(t) /\ t.kind = "run" /\ t.at = "prepare" /\ t.episode = x
    BY <2>2, OfflineGoingIs
  <2>4. x6' = [x6 EXCEPT ![h] = t]
    BY <2>1, <2>2
  <2>5. OfflineTasks(x6') /\ x6'[h] = t /\ \A k \in Handler : k # h => x6'[k] = x6[k]
    BY <1>1, <2>3, <2>4, OfflineTaskIs
  <2>6. \A k \in Handler : x6[k].kind # "run"
    BY <1>5 DEF Offline!Draining
  <2>7. OfflineOneRun(x6')
    BY <2>3, <2>5, <2>6 DEF OfflineOneRun
  <2>8. OfflineLists(x1', x2', x3', x4', x5', x7')
    BY <1>1, <1>2, <1>3, <1>5 DEF OfflineLists
  <2>9. ASSUME NEW e \in Video \ x7'
        PROVE  /\ OfflineQueued(e, x1, x4, x5', x6')
               /\ \A k \in Handler : OfflineMinds(e, x1, x3, x6', x6'[k])
    <3>1. /\ OfflineQueued(e, x1, x4, x5, x6)
          /\ \A k \in Handler : OfflineMinds(e, x1, x3, x6, x6[k])
      BY <1>1, <1>3
    <3>2. Offline!Has(x4, e) => e # x
      BY <1>2, <3>1 DEF OfflineQueued
    <3>3. OfflineQueued(e, x1, x4, x5', x6')
      BY <1>2, <2>3, <2>5, <3>1, <3>2 DEF OfflineQueued
    <3>4. ASSUME NEW k \in Handler PROVE OfflineMinds(e, x1, x3, x6', x6'[k])
      <4>1. CASE k = h
        BY <1>2, <2>3, <2>5, <4>1 DEF OfflineMinds
      <4>2. CASE k # h
        <5>1. OfflineMinds(e, x1, x3, x6, x6[k]) /\ x6'[k] = x6[k]
          BY <2>5, <3>1, <4>2
        <5>2. x6[k].at = "unlink" /\ x6[k].episode = e => e # x
          BY <1>1, <1>3 DEF OfflineTasks, OfflineTaskOK
        <5>3. QED
          BY <2>3, <2>5, <5>1, <5>2 DEF OfflineMinds
      <4>3. QED
        BY <4>1, <4>2
    <3>5. QED
      BY <3>3, <3>4
  <2>10. x6[h].at = "idle"
    BY <2>1 DEF Offline!At
  <2>11. \A k \in Handler : /\ x6'[k].at = "write" => x6'[k] = x6[k]
                            /\ x6[k].at \in Offline!Owing \cup {"renamed", "write"} => x6'[k] = x6[k]
    BY <2>3, <2>5, <2>10 DEF Offline!Owing
  <2>12. OfflineAlone(x1, x6')
    BY <1>1, <2>11 DEF OfflineAlone
  <2>13. OfflineSure(x1, x2, x3, x6')
    BY <1>1, <2>11 DEF OfflineSure
  <2>14. \A e \in Video \ x7' : OfflineListed(e, x1, x2.list, x3)
    BY <1>1, <1>3
  <2>15. QED
    BY <1>2, <1>5, <2>5, <2>7, <2>8, <2>9, <2>12, <2>13, <2>14, OfflinePartsNext
<1>6. QED
  BY <1>4, <1>5 DEF Offline!Download

LEMMA OfflineInitially == Offline!Init => Offline!IInv
<1> SUFFICES ASSUME Offline!Init PROVE Offline!IInv
  OBVIOUS
<1>1. /\ x1 = <<>> /\ x4 = <<>> /\ x3 = {} /\ x5 = {} /\ x7 = {}
      /\ x2 = [list |-> <<>>, whole |-> TRUE, sure |-> TRUE]
      /\ x6 = [h \in Handler |-> Offline!Idle]
  BY DEF Offline!Init
<1>2. OfflineTasks(x6)
  <2>1. Offline!Idle \in Offline!Task
    BY OfflineIdleIs DEF OfflineTaskOK
  <2>2. QED
    BY <1>1, <2>1, OfflineIdleIs DEF OfflineTasks
<1>3. \A h \in Handler : x6[h].kind = "none" /\ x6[h].at = "idle"
  BY <1>1, OfflineIdleIs
<1>4. OfflineLists(x1, x2, x3, x4, x5, x7)
  BY <1>1, OfflineIdleIs DEF OfflineLists
<1>5. OfflineOneRun(x6) /\ OfflineAlone(x1, x6) /\ OfflineSure(x1, x2, x3, x6)
  BY <1>1, <1>3 DEF OfflineOneRun, OfflineAlone, OfflineSure
<1>6. \A e \in Video : /\ OfflineListed(e, x1, x2.list, x3)
                       /\ OfflineQueued(e, x1, x4, x5, x6)
                       /\ \A h \in Handler : OfflineMinds(e, x1, x3, x6, x6[h])
  BY <1>1, <1>3, OfflineIdleIs
     DEF OfflineListed, OfflineQueued, OfflineMinds, Offline!Unlisted, Offline!Fetching
<1>7. QED
  BY <1>2, <1>4, <1>5, <1>6, OfflineParts

LEMMA OfflineInductive == Offline!IInv /\ [Offline!Next]_(Offline!vars) => Offline!IInv'
<1> SUFFICES ASSUME Offline!IInv, [Offline!Next]_(Offline!vars) PROVE Offline!IInv'
  OBVIOUS
<1>1. CASE UNCHANGED Offline!vars
  <2>1. UNCHANGED <<x1, x2, x3, x4, x5, x6, x7>>
    BY <1>1 DEF Offline!vars
  <2>2. QED
    BY <2>1, OfflineParts, OfflinePartsNext
<1>2. CASE Offline!Next
  BY <1>2, OfflineDownloadStep, OfflineCancelStep, OfflineTransferStep, OfflineReceiveStep,
     OfflineJobFailsStep, OfflineRenameStep, OfflineAddStep, OfflineDeleteStep,
     OfflineUnlinkStep, OfflineRevalidateStep, OfflineWriteTmpStep, OfflineRenameTmpStep,
     OfflineRestartStep DEF Offline!Next
<1>3. QED
  BY <1>1, <1>2

LEMMA OfflineListsAreGood == Offline!IInv => Offline!ListedOnceAndPlays
<1> SUFFICES ASSUME Offline!IInv PROVE Offline!ListedOnceAndPlays
  OBVIOUS
<1>1. /\ OfflineLists(x1, x2, x3, x4, x5, x7)
      /\ OfflineSure(x1, x2, x3, x6)
      /\ \A e \in Video \ x7 : OfflineListed(e, x1, x2.list, x3)
  BY OfflineParts
<1>2. ASSUME NEW i \in DOMAIN x1, x1[i] \notin x7
      PROVE  x1[i] \in x3 /\ \A k \in DOMAIN x1 : x1[k] = x1[i] => k = i
  <2>1. PICK e \in Video : e = x1[i]
    BY <1>1 DEF OfflineLists
  <2>2. Offline!Has(x1, e)
    BY <2>1 DEF Offline!Has
  <2>3. OfflineListed(e, x1, x2.list, x3)
    BY <1>1, <1>2, <2>1
  <2>4. QED
    BY <2>1, <2>2, <2>3 DEF OfflineListed, Offline!Once
<1>3. (\A h \in Handler : Offline!At(h, "idle")) /\ x2.sure => Offline!Only(x1, x3) = Offline!Only(x2.list, x3)
  BY <1>1 DEF OfflineSure, Offline!At, Offline!Owing
<1>4. x2.sure => x2.whole
  BY <1>1 DEF OfflineSure
<1>5. QED
  BY <1>2, <1>3, <1>4 DEF Offline!ListedOnceAndPlays

(***************************************************************************)
(* For any number of episodes, of downloads, deletions and checks under    *)
(* way, and whenever the app is killed: what it lists plays, and is listed *)
(* once.                                                                   *)
(***************************************************************************)
THEOREM AppListsWhatPlays == MCSpec => []ListedOnceAndPlays
<1> DEFINE Inv == which = "offline" => Offline!IInv
<1>1. MCInit => Inv
  BY OfflineInitially DEF MCInit
<1>2. Inv /\ [MCNext]_<<which, vars, xs>> => Inv'
  <2> SUFFICES ASSUME which = "offline", Offline!IInv, [Offline!Next]_(Offline!vars)
               PROVE  Offline!IInv'
    BY DEF MCNext, xs, Offline!vars
  <2> QED
    BY OfflineInductive
<1>3. Inv => ListedOnceAndPlays
  BY OfflineListsAreGood DEF ListedOnceAndPlays
<1>4. QED
  BY <1>1, <1>2, <1>3, PTL DEF MCSpec

-----------------------------------------------------------------------------
(* R2Upload: x1 bucket, x2 ladder, x3 episode, x4 upload, x5 jobs, x6 job,  *)
(* x7 mixed                                                                *)

\* An instance has its own name for an operator of the standard modules.
LEMMA BucketCardinality == \A S : Bucket!Cardinality(S) = Cardinality(S)
BY DEF Bucket!Cardinality, Cardinality

\* The types of an object, of an upload and of a transcode.
BucketObjects == [state : {"none", "open", "whole", "ladder", "gone"}, parts : SUBSET Part]
BucketUploads == [at : {"idle", "send", "register", "write", "abort"},
            kind : {"none", "file", "source", "ladder"}, name : Name \cup {None},
            sending : SUBSET Part, sent : SUBSET Part]
BucketTranscodes == [at : {"idle", "encode", "put", "clean", "cleanFailed"}, source : Name \cup {None}]
BucketEpisodes == [status : {"empty", "uploading", "ready", "error"}, holds : Name \cup {None, "ep"}]

LEMMA BucketTypes ==
  Bucket!TypeOK <=> /\ x1 \in [Name -> BucketObjects] /\ x2 \in [Part -> Name \cup {None}]
                    /\ x3 \in BucketEpisodes /\ x4 \in [Handler -> BucketUploads]
                    /\ x5 \in Seq(Name) /\ x6 \in BucketTranscodes /\ x7 \in BOOLEAN
BY DEF Bucket!TypeOK, BucketObjects, BucketUploads, BucketTranscodes, BucketEpisodes

LEMMA BucketEmpties ==
  /\ Bucket!NoObject \in BucketObjects /\ Bucket!Idle \in BucketUploads /\ Bucket!Idle.at = "idle"
  /\ Bucket!NoJob \in BucketTranscodes /\ Bucket!NoJob.at = "idle"
  /\ Bucket!Slot \in BucketEpisodes /\ Bucket!Slot.status = "empty" /\ Bucket!Slot.holds = None
BY DEF Bucket!NoObject, BucketObjects, Bucket!Idle, BucketUploads, Bucket!NoJob,
       BucketTranscodes, Bucket!Slot, BucketEpisodes

\* A queue with one more at its end, and one without its first.
LEMMA BucketAppended ==
  ASSUME NEW s \in Seq(Name), NEW n \in Name
  PROVE  /\ Append(s, n) \in Seq(Name)
         /\ \A i \in DOMAIN Append(s, n) :
               (i \in DOMAIN s /\ Append(s, n)[i] = s[i]) \/ (i = Len(s) + 1 /\ Append(s, n)[i] = n)
OBVIOUS
LEMMA BucketRest ==
  ASSUME NEW s \in Seq(Name), s # <<>>
  PROVE  /\ Tail(s) \in Seq(Name) /\ 1 \in DOMAIN s /\ Head(s) = s[1] /\ Head(s) \in Name
         /\ \A i \in DOMAIN Tail(s) : /\ i \in Nat /\ i + 1 \in DOMAIN s /\ i + 1 # 1
                                      /\ Tail(s)[i] = s[i + 1]
OBVIOUS

LEMMA BucketTranscodedIs ==
  \A n : n \in Bucket!Transcoded <=> \/ \E i \in DOMAIN x5 : x5[i] = n
                                     \/ x6.at # "idle" /\ x6.source = n
BY DEF Bucket!Transcoded

\* The invariant in two halves: what is said of tabs, and what of the
\* episode and its transcodes.
BucketTabFits(u, b) ==
    /\ u.kind = "ladder" => b.state = "ladder"
    /\ u.at = "send" => u.sent \subseteq b.parts
    /\ u.at \in {"register", "write"} =>
          b.parts = Part /\ (u.kind # "ladder" => b.state = "whole")
BucketTabsFit ==
    \A t \in Handler : x4[t].at # "idle" =>
        /\ x4[t].name \in Name /\ x4[t].name \notin Bucket!Transcoded
        /\ x4[t].name # x3.holds
        /\ x1[x4[t].name].state # "none"
        /\ BucketTabFits(x4[t], x1[x4[t].name])
        /\ \A u \in Handler : x4[u].at # "idle" /\ x4[u].name = x4[t].name => u = t
BucketIsWhole(b) == b.state = "whole" /\ b.parts = Part
BucketServed(e, l, m) ==
    e.status = "ready" =>
       \/ e.holds \in Name /\ x1[e.holds].state = "ladder" /\ x1[e.holds].parts = Part
       \/ e.holds \in Name /\ BucketIsWhole(x1[e.holds])
       \/ e.holds = "ep" /\ (m \/ \E n \in Name : \A p \in Part : l[p] = n)
BucketEpisodeServed == BucketServed(x3, x2, x7)
BucketSourcesFit ==
    /\ \A i \in DOMAIN x5 : BucketIsWhole(x1[x5[i]])
    /\ x6.at \in {"encode", "put"} => BucketIsWhole(x1[x6.source])
    /\ \A i, k \in DOMAIN x5 : x5[i] = x5[k] => i = k
    /\ x6.at # "idle" => x6.source \in Name /\ \A i \in DOMAIN x5 : x5[i] # x6.source
    /\ x3.holds \notin Bucket!Transcoded
    /\ \A n \in Name : n \in Bucket!Transcoded \/ n = x3.holds => x1[n].state # "none"

LEMMA BucketHalves ==
  Bucket!IInv <=> Bucket!TypeOK /\ BucketTabsFit /\ BucketSourcesFit /\ BucketEpisodeServed
<1>1. ASSUME Bucket!TypeOK PROVE Bucket!OneUser /\ Bucket!HandedOut /\ Bucket!TabsSend <=>
        /\ BucketTabsFit
        /\ \A i, k \in DOMAIN x5 : x5[i] = x5[k] => i = k
        /\ x6.at # "idle" => x6.source \in Name /\ \A i \in DOMAIN x5 : x5[i] # x6.source
        /\ x3.holds \notin Bucket!Transcoded
        /\ \A n \in Name : n \in Bucket!Transcoded \/ n = x3.holds => x1[n].state # "none"
  BY DEF Bucket!OneUser, Bucket!HandedOut, Bucket!TabsSend, BucketTabsFit, BucketTabFits,
         Bucket!Sending, Bucket!At
<1>2. Bucket!ServedIsWhole <=>
        /\ BucketEpisodeServed
        /\ \A i \in DOMAIN x5 : BucketIsWhole(x1[x5[i]])
        /\ x6.at \in {"encode", "put"} => BucketIsWhole(x1[x6.source])
  BY DEF Bucket!ServedIsWhole, BucketEpisodeServed, BucketServed, BucketIsWhole
<1>3. QED
  BY <1>1, <1>2 DEF Bucket!IInv, BucketSourcesFit

LEMMA BucketHalvesNext ==
  Bucket!IInv' <=> Bucket!TypeOK' /\ BucketTabsFit' /\ BucketSourcesFit' /\ BucketEpisodeServed'
BY BucketHalves, PTL

LEMMA BucketInitially == Bucket!Init => Bucket!IInv
<1> SUFFICES ASSUME Bucket!Init PROVE Bucket!IInv
  OBVIOUS
<1>1. /\ x1 = [n \in Name |-> Bucket!NoObject] /\ x2 = [f \in Part |-> None]
      /\ x3 = Bucket!Slot /\ x4 = [t \in Handler |-> Bucket!Idle] /\ x5 = <<>> /\ x6 = Bucket!NoJob
      /\ x7 = FALSE
  BY DEF Bucket!Init
<1>2. Bucket!TypeOK
  <2>1. x1 \in [Name -> BucketObjects] /\ x4 \in [Handler -> BucketUploads]
    BY <1>1, BucketEmpties
  <2>2. x2 \in [Part -> Name \cup {None}] /\ x5 \in Seq(Name)
    BY <1>1
  <2>3. QED
    BY <1>1, <2>1, <2>2, BucketEmpties, BucketTypes
<1>3. BucketTabsFit /\ BucketEpisodeServed
  BY <1>1, BucketEmpties DEF BucketTabsFit, BucketEpisodeServed, BucketServed
<1>4. \A n : n \notin Bucket!Transcoded
  BY <1>1, BucketEmpties, BucketTranscodedIs
<1>5. BucketSourcesFit
  BY <1>1, <1>4, BucketEmpties, ClientsAssumption DEF BucketSourcesFit
<1>6. QED
  BY <1>2, <1>3, <1>5, BucketHalves

\* A step of one tab, which touches no name but the one that is its own.
LEMMA BucketTabStep ==
  ASSUME Bucket!IInv, Bucket!UploadOnly, NEW t \in Handler, NEW m \in Name, NEW u \in BucketUploads,
         x1' \in [Name -> BucketObjects], \A n \in Name : n # m => x1'[n] = x1[n],
         m \notin Bucket!Transcoded, m # x3.holds,
         \A s \in Handler : s # t /\ x4[s].at # "idle" => x4[s].name # m,
         x4' = [x4 EXCEPT ![t] = u],
         u.at # "idle" => u.name = m /\ x1'[m].state # "none" /\ BucketTabFits(u, x1'[m])
  PROVE  Bucket!IInv'
<1>1. /\ Bucket!TypeOK /\ BucketTabsFit /\ BucketSourcesFit /\ BucketEpisodeServed
      /\ UNCHANGED <<x2, x3, x5, x6, x7>>
      /\ x4 \in [Handler -> BucketUploads]
  BY BucketHalves, BucketTypes DEF Bucket!UploadOnly
<1>2. /\ x4' \in [Handler -> BucketUploads]
      /\ \A s \in Handler : x4'[s] = IF s = t THEN u ELSE x4[s]
  BY <1>1
<1>3. Bucket!Transcoded' = Bucket!Transcoded
  BY <1>1 DEF Bucket!Transcoded
<1>4. Bucket!TypeOK'
  BY <1>1, <1>2 DEF Bucket!TypeOK, BucketObjects, BucketUploads
<1>5. BucketTabsFit'
  <2>1. ASSUME NEW s \in Handler, x4'[s].at # "idle"
        PROVE  /\ x4'[s].name \in Name /\ x4'[s].name \notin Bucket!Transcoded'
               /\ x4'[s].name # x3'.holds
               /\ x1'[x4'[s].name].state # "none"
               /\ BucketTabFits(x4'[s], x1'[x4'[s].name])
               /\ \A v \in Handler : x4'[v].at # "idle" /\ x4'[v].name = x4'[s].name
                                    => v = s
    <3>1. CASE s = t
      <4>1. x4'[s] = u /\ u.name = m /\ x4'[s].name = m
        BY <1>2, <2>1, <3>1
      <4>2. \A v \in Handler : x4'[v].at # "idle" /\ x4'[v].name = m => v = s
        BY <1>2, <3>1
      <4>3. QED
        BY <1>1, <1>3, <2>1, <4>1, <4>2
    <3>2. CASE s # t
      <4>1. x4'[s] = x4[s] /\ x4[s].at # "idle" /\ x4[s].name # m
        BY <1>2, <2>1, <3>2
      <4>2. /\ x4[s].name \in Name /\ x4[s].name \notin Bucket!Transcoded
            /\ x4[s].name # x3.holds
            /\ x1[x4[s].name].state # "none"
            /\ BucketTabFits(x4[s], x1[x4[s].name])
            /\ \A v \in Handler : x4[v].at # "idle" /\ x4[v].name = x4[s].name => v = s
        BY <1>1, <4>1 DEF BucketTabsFit
      <4>3. x1'[x4[s].name] = x1[x4[s].name]
        BY <4>1, <4>2
      <4>4. \A v \in Handler : x4'[v].at # "idle" /\ x4'[v].name = x4[s].name => v = s
        BY <1>2, <4>1, <4>2
      <4>5. QED
        BY <1>1, <1>3, <4>1, <4>2, <4>3, <4>4
    <3>3. QED
      BY <3>1, <3>2
  <2>2. QED
    BY <2>1 DEF BucketTabsFit, BucketTabFits
<1>6. \A n \in Name : n \in Bucket!Transcoded \/ n = x3.holds => x1'[n] = x1[n]
  OBVIOUS
<1>7. BucketSourcesFit'
  <2>1. \A i \in DOMAIN x5 : x5[i] \in Name /\ x5[i] \in Bucket!Transcoded
    BY <1>1, BucketTranscodedIs, SeqElement, BucketTypes
  <2>2. x6.at # "idle" => x6.source \in Name /\ x6.source \in Bucket!Transcoded
    BY <1>1, BucketTranscodedIs DEF BucketSourcesFit
  <2>3. QED
    BY <1>1, <1>3, <1>6, <2>1, <2>2 DEF BucketSourcesFit, BucketIsWhole
<1>8. BucketEpisodeServed'
  BY <1>1, <1>6 DEF BucketEpisodeServed, BucketServed, BucketIsWhole
<1>9. QED
  BY <1>4, <1>5, <1>7, <1>8, BucketHalvesNext

\* What is known of a tab that is at work.
LEMMA BucketTabAtWork ==
  ASSUME Bucket!IInv, NEW t \in Handler, x4[t].at # "idle"
  PROVE  /\ x4[t] \in BucketUploads /\ x4[t].name \in Name
         /\ x1 \in [Name -> BucketObjects] /\ x1[x4[t].name] \in BucketObjects
         /\ x4[t].name \notin Bucket!Transcoded /\ x4[t].name # x3.holds
         /\ x1[x4[t].name].state # "none"
         /\ BucketTabFits(x4[t], x1[x4[t].name])
         /\ \A s \in Handler : s # t /\ x4[s].at # "idle" => x4[s].name # x4[t].name
BY BucketHalves, BucketTypes DEF BucketTabsFit

\* It goes on with its name; or it is done.
LEMMA BucketTabGoesOn ==
  ASSUME Bucket!IInv, Bucket!UploadOnly, NEW t \in Handler, x4[t].at # "idle",
         NEW b \in BucketObjects, NEW u \in BucketUploads,
         x1' = [x1 EXCEPT ![x4[t].name] = b], b.state # "none",
         Bucket!Becomes(t, u), u.name = x4[t].name \/ u.at = "idle", BucketTabFits(u, b)
  PROVE  Bucket!IInv'
<1>1. PICK m \in Name : m = x4[t].name
  BY BucketTabAtWork
<1>2. /\ x1' \in [Name -> BucketObjects] /\ x1'[m] = b
      /\ \A n \in Name : n # m => x1'[n] = x1[n]
  BY <1>1, BucketTabAtWork
<1>3. /\ m \notin Bucket!Transcoded /\ m # x3.holds
      /\ \A s \in Handler : s # t /\ x4[s].at # "idle" => x4[s].name # m
  BY <1>1, BucketTabAtWork
<1>4. /\ x4' = [x4 EXCEPT ![t] = u]
      /\ u.at # "idle" => u.name = m /\ x1'[m].state # "none" /\ BucketTabFits(u, x1'[m])
  BY <1>1, <1>2 DEF Bucket!Becomes
<1>5. QED
  BY <1>2, <1>3, <1>4, BucketTabStep

LEMMA BucketTabKeepsBucket ==
  ASSUME Bucket!IInv, Bucket!UploadOnly, UNCHANGED x1, NEW t \in Handler, x4[t].at # "idle",
         NEW u \in BucketUploads, Bucket!Becomes(t, u),
         u.name = x4[t].name \/ u.at = "idle",
         u.at = "idle" \/ BucketTabFits(u, x1[x4[t].name])
  PROVE  Bucket!IInv'
<1>1. PICK m \in Name : m = x4[t].name
  BY BucketTabAtWork
<1>2. /\ x1' \in [Name -> BucketObjects] /\ x1' = x1
      /\ m \notin Bucket!Transcoded /\ m # x3.holds
      /\ x1[m].state # "none"
      /\ \A s \in Handler : s # t /\ x4[s].at # "idle" => x4[s].name # m
  BY <1>1, BucketTabAtWork
<1>3. /\ x4' = [x4 EXCEPT ![t] = u]
      /\ u.at # "idle" => u.name = m /\ x1'[m].state # "none" /\ BucketTabFits(u, x1'[m])
  BY <1>1, <1>2 DEF Bucket!Becomes
<1>4. \A n \in Name : n # m => x1'[n] = x1[n]
  BY <1>2
<1>5. QED
  BY <1>2, <1>3, <1>4, BucketTabStep

\* The tab is done, and what is under its name no longer matters to anyone.
LEMMA BucketTabEnds ==
  ASSUME Bucket!IInv, Bucket!UploadOnly, NEW t \in Handler, x4[t].at # "idle", Bucket!Becomes(t, Bucket!Idle),
         \/ UNCHANGED x1
         \/ \E b \in BucketObjects : x1' = [x1 EXCEPT ![x4[t].name] = b]
  PROVE  Bucket!IInv'
<1>1. PICK m \in Name : m = x4[t].name
  BY BucketTabAtWork
<1>2. /\ x1' \in [Name -> BucketObjects] /\ \A n \in Name : n # m => x1'[n] = x1[n]
      /\ m \notin Bucket!Transcoded /\ m # x3.holds
      /\ \A s \in Handler : s # t /\ x4[s].at # "idle" => x4[s].name # m
  BY <1>1, BucketTabAtWork
<1>3. QED
  BY <1>2, BucketEmpties, BucketTabStep DEF Bucket!Becomes

LEMMA BucketBeginKeeps ==
  ASSUME Bucket!IInv, NEW t \in Handler, NEW kind \in {"file", "source", "ladder"}, Bucket!Begin(t, kind)
  PROVE  Bucket!IInv'
<1>1. /\ Bucket!TypeOK /\ BucketTabsFit /\ BucketSourcesFit /\ x1 \in [Name -> BucketObjects]
      /\ x4 \in [Handler -> BucketUploads]
  BY BucketHalves, BucketTypes
<1>2. PICK n \in Name :
        /\ x1[n].state = "none"
        /\ x1' = [x1 EXCEPT ![n].state = IF kind = "ladder" THEN "ladder" ELSE "open"]
        /\ \/ Bucket!Becomes(t, [Bucket!Idle EXCEPT !.at = "send", !.kind = kind, !.name = n])
           \/ UNCHANGED x4
  BY DEF Bucket!Begin
<1>3. x4[t].at = "idle" /\ Bucket!UploadOnly
  BY DEF Bucket!Begin, Bucket!At
<1>4. /\ x1' \in [Name -> BucketObjects]
      /\ \A k \in Name : k # n => x1'[k] = x1[k]
      /\ x1'[n].state = IF kind = "ladder" THEN "ladder" ELSE "open"
  BY <1>1, <1>2 DEF BucketObjects
<1>5. /\ n \notin Bucket!Transcoded /\ n # x3.holds
      /\ \A s \in Handler : x4[s].at # "idle" => x4[s].name # n
  BY <1>1, <1>2 DEF BucketSourcesFit, BucketTabsFit
<1>6. PICK u : u = [Bucket!Idle EXCEPT !.at = "send", !.kind = kind, !.name = n]
  OBVIOUS
<1>7. /\ u \in BucketUploads /\ u.name = n /\ BucketTabFits(u, x1'[n])
  BY <1>4, <1>6 DEF Bucket!Idle, BucketUploads, BucketTabFits
<1>8. CASE Bucket!Becomes(t, u)
  BY <1>3, <1>4, <1>5, <1>7, <1>8, BucketTabStep DEF Bucket!Becomes
<1>9. CASE UNCHANGED x4
  <2>1. x4' = [x4 EXCEPT ![t] = x4[t]] /\ x4[t] \in BucketUploads
    BY <1>1, <1>9
  <2>2. QED
    BY <1>3, <1>4, <1>5, <2>1, BucketTabStep
<1>10. QED
  BY <1>2, <1>6, <1>8, <1>9

LEMMA BucketPutKeeps ==
  ASSUME Bucket!IInv, NEW t \in Handler, NEW p \in Part, Bucket!Put(t, p) \/ Bucket!PutAnswered(t, p) \/ Bucket!PutFails(t, p)
  PROVE  Bucket!IInv'
<1>1. /\ x4[t].at = "send" /\ x4[t].at # "idle" /\ Bucket!UploadOnly
  BY BucketCardinality DEF Bucket!Put, Bucket!PutAnswered, Bucket!PutFails, Bucket!At
<1>2. /\ x4[t] \in BucketUploads /\ x4[t].name \in Name
      /\ x1 \in [Name -> BucketObjects] /\ x1[x4[t].name] \in BucketObjects
      /\ x1[x4[t].name].state # "none"
      /\ BucketTabFits(x4[t], x1[x4[t].name])
  BY <1>1, BucketTabAtWork
<1>3. PICK b : b = [x1[x4[t].name] EXCEPT !.parts = @ \cup {p}]
  OBVIOUS
<1>4. /\ b \in BucketObjects /\ b.state = x1[x4[t].name].state
      /\ b.parts = x1[x4[t].name].parts \cup {p}
  BY <1>2, <1>3 DEF BucketObjects
<1>5. Bucket!Stored(t, p) => x1' = [x1 EXCEPT ![x4[t].name] = b]
  BY <1>2, <1>3 DEF Bucket!Stored
<1>6. ASSUME Bucket!Put(t, p) PROVE Bucket!IInv'
  <2>1. PICK u : u = [x4[t] EXCEPT !.sending = @ \cup {p}]
    OBVIOUS
  <2>2. u \in BucketUploads /\ u.name = x4[t].name /\ BucketTabFits(u, x1[x4[t].name])
    BY <1>2, <2>1 DEF BucketUploads, BucketTabFits
  <2>3. Bucket!Becomes(t, u) /\ UNCHANGED x1
    BY <1>6, <2>1, BucketCardinality DEF Bucket!Put, Bucket!Becomes
  <2>4. QED
    BY <1>1, <2>2, <2>3, BucketTabKeepsBucket
<1>7. ASSUME Bucket!PutAnswered(t, p) PROVE Bucket!IInv'
  <2>1. PICK u : u = [x4[t] EXCEPT !.sending = @ \ {p}, !.sent = @ \cup {p}]
    OBVIOUS
  <2>2. u \in BucketUploads /\ u.name = x4[t].name /\ BucketTabFits(u, b)
    BY <1>1, <1>2, <1>4, <2>1 DEF BucketUploads, BucketTabFits
  <2>3. Bucket!Becomes(t, u) /\ x1' = [x1 EXCEPT ![x4[t].name] = b]
    BY <1>2, <1>5, <1>7, <2>1, BucketTypes, BucketHalves DEF Bucket!PutAnswered, Bucket!Becomes
  <2>4. QED
    BY <1>1, <1>2, <1>4, <2>2, <2>3, BucketTabGoesOn
<1>8. ASSUME Bucket!PutFails(t, p) PROVE Bucket!IInv'
  <2>1. \/ UNCHANGED x1
        \/ x1' = [x1 EXCEPT ![x4[t].name] = b]
    BY <1>5, <1>8 DEF Bucket!PutFails
  <2>2. PICK u : u = [x4[t] EXCEPT !.at = "abort"]
    OBVIOUS
  <2>3. /\ u \in BucketUploads /\ u.name = x4[t].name
        /\ BucketTabFits(u, b) /\ BucketTabFits(u, x1[x4[t].name])
    BY <1>1, <1>2, <1>4, <2>2 DEF BucketUploads, BucketTabFits
  <2>4. CASE Bucket!Becomes(t, u)
    BY <1>1, <1>2, <1>4, <2>1, <2>3, <2>4, BucketTabGoesOn, BucketTabKeepsBucket
  <2>5. CASE Bucket!Becomes(t, Bucket!Idle)
    BY <1>1, <1>4, <2>1, <2>5, BucketTabEnds
  <2>6. Bucket!Becomes(t, u) \/ Bucket!Becomes(t, Bucket!Idle)
    BY <1>8, <2>2 DEF Bucket!PutFails, Bucket!To, Bucket!Becomes
  <2>7. QED
    BY <2>4, <2>5, <2>6
<1>9. QED
  BY <1>6, <1>7, <1>8

LEMMA BucketTabKeeps ==
  ASSUME Bucket!IInv, NEW t \in Handler,
         Bucket!LadderSent(t) \/ Bucket!Complete(t) \/ Bucket!Abort(t) \/ Bucket!Close(t) \/ Bucket!Claim(t) \/ Bucket!NotRegistered(t)
  PROVE  Bucket!IInv'
<1>1. x4[t].at # "idle" /\ Bucket!UploadOnly
  BY DEF Bucket!LadderSent, Bucket!Complete, Bucket!Abort, Bucket!Close, Bucket!Claim,
         Bucket!NotRegistered, Bucket!At
<1>2. /\ x4[t] \in BucketUploads /\ x4[t].name \in Name
      /\ x1 \in [Name -> BucketObjects] /\ x1[x4[t].name] \in BucketObjects
      /\ x1[x4[t].name].state # "none"
      /\ BucketTabFits(x4[t], x1[x4[t].name])
  BY <1>1, BucketTabAtWork
<1>3. ASSUME NEW stage \in {"send", "register", "write", "abort"}
      PROVE  /\ [x4[t] EXCEPT !.at = stage] \in BucketUploads
             /\ [x4[t] EXCEPT !.at = stage].at = stage
             /\ [x4[t] EXCEPT !.at = stage].name = x4[t].name
             /\ [x4[t] EXCEPT !.at = stage].kind = x4[t].kind
             /\ Bucket!To(t, stage) => Bucket!Becomes(t, [x4[t] EXCEPT !.at = stage])
  BY <1>2, <1>3 DEF BucketUploads, Bucket!To, Bucket!Becomes
<1>4. ASSUME Bucket!AllSent(t), x4[t].at = "send" PROVE x1[x4[t].name].parts = Part
  BY <1>2, <1>4 DEF Bucket!AllSent, BucketTabFits, BucketObjects
<1>5. ASSUME Bucket!LadderSent(t) PROVE Bucket!IInv'
  <2>1. /\ Bucket!To(t, "register") /\ UNCHANGED x1 /\ x4[t].kind = "ladder"
        /\ x1[x4[t].name].parts = Part
    BY <1>4, <1>5 DEF Bucket!LadderSent, Bucket!At, Bucket!Multipart
  <2>2. PICK u : u = [x4[t] EXCEPT !.at = "register"]
    OBVIOUS
  <2>3. u \in BucketUploads /\ u.name = x4[t].name /\ Bucket!Becomes(t, u)
    BY <1>3, <2>1, <2>2
  <2>4. BucketTabFits(u, x1[x4[t].name])
    BY <1>2, <1>3, <2>1, <2>2 DEF BucketTabFits
  <2>5. QED
    BY <1>1, <2>1, <2>3, <2>4, BucketTabKeepsBucket
<1>6. ASSUME Bucket!Complete(t) PROVE Bucket!IInv'
  <2>1. /\ x4[t].kind # "ladder" /\ x1[x4[t].name].parts = Part
        /\ \/ /\ x1' = [x1 EXCEPT ![x4[t].name].state = "whole"]
              /\ Bucket!To(t, "register") \/ Bucket!To(t, "abort")
           \/ UNCHANGED x1 /\ Bucket!To(t, "abort")
    BY <1>4, <1>6 DEF Bucket!Complete, Bucket!At, Bucket!Multipart
  <2>2. PICK b : b = [x1[x4[t].name] EXCEPT !.state = "whole"]
    OBVIOUS
  <2>3. b \in BucketObjects /\ b.state = "whole" /\ b.parts = Part
    BY <1>2, <2>1, <2>2 DEF BucketObjects
  <2>4. PICK r : r = [x4[t] EXCEPT !.at = "register"]
    OBVIOUS
  <2>5. PICK a : a = [x4[t] EXCEPT !.at = "abort"]
    OBVIOUS
  <2>6. /\ r \in BucketUploads /\ r.name = x4[t].name /\ (Bucket!To(t, "register") => Bucket!Becomes(t, r))
        /\ a \in BucketUploads /\ a.name = x4[t].name /\ (Bucket!To(t, "abort") => Bucket!Becomes(t, a))
    BY <1>3, <2>4, <2>5
  <2>7. BucketTabFits(r, b) /\ BucketTabFits(a, b) /\ BucketTabFits(a, x1[x4[t].name])
    BY <1>2, <1>3, <2>1, <2>3, <2>4, <2>5 DEF BucketTabFits
  <2>8. CASE x1' = [x1 EXCEPT ![x4[t].name].state = "whole"]
    <3>1. x1' = [x1 EXCEPT ![x4[t].name] = b]
      BY <1>2, <2>2, <2>8
    <3>2. QED
      BY <1>1, <2>1, <2>3, <2>6, <2>7, <3>1, BucketTabGoesOn, BucketTabKeepsBucket
  <2>9. CASE UNCHANGED x1 /\ Bucket!To(t, "abort")
    BY <1>1, <2>6, <2>7, <2>9, BucketTabKeepsBucket
  <2>10. QED
    BY <2>1, <2>8, <2>9
<1>7. ASSUME Bucket!Abort(t) PROVE Bucket!IInv'
  <2>1. [state |-> "gone", parts |-> {}] \in BucketObjects
    BY DEF BucketObjects
  <2>2. QED
    BY <1>1, <1>7, <2>1, BucketTabEnds DEF Bucket!Abort
<1>8. ASSUME Bucket!Close(t) \/ Bucket!NotRegistered(t) PROVE Bucket!IInv'
  BY <1>1, <1>8, BucketTabEnds DEF Bucket!Close, Bucket!NotRegistered
<1>9. ASSUME Bucket!Claim(t) PROVE Bucket!IInv'
  <2>1. PICK u : u = [x4[t] EXCEPT !.at = "write"]
    OBVIOUS
  <2>2. u \in BucketUploads /\ u.name = x4[t].name /\ (Bucket!To(t, "write") => Bucket!Becomes(t, u))
    BY <1>3, <2>1
  <2>3. x4[t].at = "register" /\ UNCHANGED x1 /\ (Bucket!To(t, "write") \/ Bucket!Becomes(t, Bucket!Idle))
    BY <1>9 DEF Bucket!Claim, Bucket!At
  <2>4. BucketTabFits(u, x1[x4[t].name])
    BY <1>2, <1>3, <2>1, <2>3 DEF BucketTabFits
  <2>5. QED
    BY <1>1, <2>2, <2>3, <2>4, BucketTabEnds, BucketTabKeepsBucket
<1>10. QED
  BY <1>5, <1>6, <1>7, <1>8, <1>9

\* What is said of tabs outlasts a step of the backend that neither touches
\* their names nor takes one of them.
LEMMA BucketTabsStay ==
  ASSUME Bucket!IInv, x4' \in [Handler -> BucketUploads],
         \A t \in Handler : x4'[t] = x4[t] \/ x4'[t].at = "idle",
         Bucket!Transcoded' \subseteq Bucket!Transcoded, x3'.holds \in {x3.holds, None, "ep"},
         \A n \in Name : n \notin Bucket!Transcoded => x1'[n] = x1[n]
  PROVE  BucketTabsFit'
<1>1. BucketTabsFit
  BY BucketHalves
<1>2. ASSUME NEW t \in Handler, x4'[t].at # "idle"
      PROVE  /\ x4'[t].name \in Name /\ x4'[t].name \notin Bucket!Transcoded'
             /\ x4'[t].name # x3'.holds
             /\ x1'[x4'[t].name].state # "none"
             /\ BucketTabFits(x4'[t], x1'[x4'[t].name])
             /\ \A u \in Handler : x4'[u].at # "idle" /\ x4'[u].name = x4'[t].name => u = t
  <2>1. x4'[t] = x4[t] /\ x4[t].at # "idle"
    BY <1>2
  <2>2. /\ x4[t].name \in Name /\ x4[t].name \notin Bucket!Transcoded
        /\ x4[t].name # x3.holds
        /\ x1[x4[t].name].state # "none"
        /\ BucketTabFits(x4[t], x1[x4[t].name])
        /\ \A u \in Handler : x4[u].at # "idle" /\ x4[u].name = x4[t].name => u = t
    BY <1>1, <2>1 DEF BucketTabsFit
  <2>3. x1'[x4[t].name] = x1[x4[t].name]
    BY <2>2
  <2>4. x4[t].name # x3'.holds
    BY <2>2, ClientsAssumption
  <2>5. \A u \in Handler : x4'[u].at # "idle" /\ x4'[u].name = x4[t].name => u = t
    BY <2>2
  <2>6. QED
    BY <2>1, <2>2, <2>3, <2>4, <2>5
<1>3. QED
  BY <1>2 DEF BucketTabsFit, BucketTabFits

\* What waits to be transcoded, and what is being transcoded.
LEMMA BucketSources ==
  ASSUME Bucket!IInv
  PROVE  /\ \A i \in DOMAIN x5 : x5[i] \in Name /\ x5[i] \in Bucket!Transcoded
         /\ x6.at # "idle" => x6.source \in Name /\ x6.source \in Bucket!Transcoded
         /\ Bucket!Transcoded \subseteq Name
BY BucketHalves, BucketTranscodedIs, SeqElement, BucketTypes DEF BucketSourcesFit

LEMMA BucketRegisterKeeps == ASSUME Bucket!IInv, NEW t \in Handler, Bucket!Register(t) PROVE Bucket!IInv'
<1>1. /\ Bucket!TypeOK /\ BucketTabsFit /\ BucketSourcesFit /\ BucketEpisodeServed
      /\ x1 \in [Name -> BucketObjects] /\ x4 \in [Handler -> BucketUploads] /\ x5 \in Seq(Name)
      /\ x3 \in BucketEpisodes
  BY BucketHalves, BucketTypes
<1>2. /\ x4[t].at = "write" /\ x4' = [x4 EXCEPT ![t] = Bucket!Idle]
      /\ UNCHANGED <<x1, x2, x6, x7>>
      /\ IF x4[t].kind = "source"
         THEN /\ x3' = [x3 EXCEPT !.status = "uploading"]
              /\ x5' = Append(x5, x4[t].name)
         ELSE /\ x3' = [status |-> "ready", holds |-> x4[t].name]
              /\ x5' = x5
  BY DEF Bucket!Register, Bucket!Becomes, Bucket!At
<1>3. PICK m \in Name : m = x4[t].name
  BY <1>2, BucketTabAtWork
<1>4. /\ m \notin Bucket!Transcoded /\ m # x3.holds /\ x1[m].state # "none"
      /\ x1[m].parts = Part
      /\ IF x4[t].kind = "ladder" THEN x1[m].state = "ladder"
         ELSE x1[m].state = "whole"
      /\ \A s \in Handler : s # t /\ x4[s].at # "idle" => x4[s].name # m
  BY <1>2, <1>3, BucketTabAtWork DEF BucketTabFits
<1>5. /\ x4' \in [Handler -> BucketUploads]
      /\ \A s \in Handler : x4'[s] = IF s = t THEN Bucket!Idle ELSE x4[s]
  BY <1>1, <1>2, BucketEmpties
<1>6. /\ x3' \in BucketEpisodes /\ x5' \in Seq(Name)
      /\ x3'.holds \in {x3.holds, m}
      /\ Bucket!Transcoded' \subseteq Bucket!Transcoded \cup {m}
  <2>1. CASE x4[t].kind = "source"
    <3>1. /\ x3' = [x3 EXCEPT !.status = "uploading"] /\ x5' = Append(x5, m)
          /\ x6' = x6
      BY <1>2, <1>3, <2>1
    <3>2. x3' \in BucketEpisodes /\ x3'.holds = x3.holds
      BY <1>1, <3>1 DEF BucketEpisodes
    <3>3. Bucket!Transcoded' \subseteq Bucket!Transcoded \cup {m}
      BY <1>1, <3>1, BucketAppended DEF Bucket!Transcoded
    <3>4. QED
      BY <1>1, <3>1, <3>2, <3>3, BucketAppended
  <2>2. CASE x4[t].kind # "source"
    <3>1. x3' = [status |-> "ready", holds |-> m] /\ x5' = x5 /\ x6' = x6
      BY <1>2, <1>3, <2>2
    <3>2. Bucket!Transcoded' = Bucket!Transcoded
      BY <3>1 DEF Bucket!Transcoded
    <3>3. QED
      BY <1>1, <3>1, <3>2 DEF BucketEpisodes
  <2>3. QED
    BY <2>1, <2>2
<1>7. Bucket!TypeOK'
  BY <1>1, <1>2, <1>5, <1>6 DEF Bucket!TypeOK, BucketUploads, BucketEpisodes
<1>8. BucketTabsFit'
  <2>1. ASSUME NEW s \in Handler, x4'[s].at # "idle"
        PROVE  /\ s # t /\ x4'[s] = x4[s] /\ x4[s].at # "idle"
               /\ x4[s].name # m
    BY <1>4, <1>5, <2>1, BucketEmpties
  <2>2. ASSUME NEW s \in Handler, x4'[s].at # "idle"
        PROVE  /\ x4'[s].name \in Name /\ x4'[s].name \notin Bucket!Transcoded'
               /\ x4'[s].name # x3'.holds
               /\ x1'[x4'[s].name].state # "none"
               /\ BucketTabFits(x4'[s], x1'[x4'[s].name])
    BY <1>1, <1>2, <1>6, <2>1, <2>2 DEF BucketTabsFit
  <2>3. ASSUME NEW s \in Handler, x4'[s].at # "idle", NEW u \in Handler, x4'[u].at # "idle",
               x4'[u].name = x4'[s].name
        PROVE  u = s
    BY <1>1, <2>1, <2>3 DEF BucketTabsFit
  <2>4. QED
    BY <2>2, <2>3 DEF BucketTabsFit, BucketTabFits
<1>9. CASE x4[t].kind = "source"
  <2>1. /\ x3' = [x3 EXCEPT !.status = "uploading"] /\ x5' = Append(x5, m)
        /\ x6' = x6 /\ x1' = x1
    BY <1>2, <1>3, <1>9
  <2>2. x3'.status = "uploading" /\ x3'.holds = x3.holds
    BY <1>1, <2>1 DEF BucketEpisodes
  <2>3. BucketIsWhole(x1[m])
    BY <1>4, <1>9 DEF BucketIsWhole
  <2>4. \A i \in DOMAIN x5' : \/ i \in DOMAIN x5 /\ x5'[i] = x5[i] /\ x5[i] # m
                              \/ i = Len(x5) + 1 /\ x5'[i] = m
    BY <1>1, <1>4, <2>1, BucketAppended, BucketSources
  <2>5. /\ \A i \in DOMAIN x5' : BucketIsWhole(x1[x5'[i]])
        /\ \A i, k \in DOMAIN x5' : x5'[i] = x5'[k] => i = k
        /\ x6.at # "idle" => \A i \in DOMAIN x5' : x5'[i] # x6.source
    BY <1>1, <1>4, <2>3, <2>4, BucketSources DEF BucketSourcesFit
  <2>6. BucketSourcesFit'
    BY <1>1, <1>4, <1>6, <2>1, <2>2, <2>5 DEF BucketSourcesFit, BucketIsWhole
  <2>7. BucketEpisodeServed'
    BY <2>2 DEF BucketEpisodeServed, BucketServed
  <2>8. QED
    BY <1>7, <1>8, <2>6, <2>7, BucketHalvesNext
<1>10. CASE x4[t].kind # "source"
  <2>1. /\ x3' = [status |-> "ready", holds |-> m] /\ x5' = x5
        /\ x6' = x6 /\ x1' = x1
    BY <1>2, <1>3, <1>10
  <2>2. Bucket!Transcoded' = Bucket!Transcoded
    BY <2>1 DEF Bucket!Transcoded
  <2>3. BucketSourcesFit'
    BY <1>1, <1>4, <2>1, <2>2 DEF BucketSourcesFit, BucketIsWhole
  <2>4. BucketEpisodeServed'
    BY <1>4, <2>1 DEF BucketEpisodeServed, BucketServed, BucketIsWhole
  <2>5. QED
    BY <1>7, <1>8, <2>3, <2>4, BucketHalvesNext
<1>11. QED
  BY <1>9, <1>10

\* Steps of the transcoder that go on with its source, or take the next.
LEMMA BucketTranscoderKeeps ==
  ASSUME Bucket!IInv, Bucket!Transcode \/ Bucket!Encoded \/ Bucket!Throws \/ Bucket!Ready \/ \E p \in Part : Bucket!PutTree(p) PROVE Bucket!IInv'
<1>1. /\ Bucket!TypeOK /\ BucketSourcesFit /\ BucketEpisodeServed
      /\ x1 \in [Name -> BucketObjects] /\ x4 \in [Handler -> BucketUploads] /\ x5 \in Seq(Name)
      /\ x3 \in BucketEpisodes /\ x6 \in BucketTranscodes /\ x7 \in BOOLEAN
      /\ x2 \in [Part -> Name \cup {None}]
      /\ UNCHANGED <<x1, x4>>
  BY BucketHalves, BucketTypes
     DEF Bucket!Transcode, Bucket!Encoded, Bucket!Throws, Bucket!Ready, Bucket!PutTree
<1>2. ASSUME Bucket!Transcode PROVE Bucket!IInv'
  <2>1. /\ x6.at = "idle" /\ x5 # <<>> /\ x6' = [at |-> "encode", source |-> Head(x5)]
        /\ x5' = Tail(x5) /\ UNCHANGED <<x2, x3, x7>>
    BY <1>2 DEF Bucket!Transcode
  <2>2. x6' \in BucketTranscodes /\ x5' \in Seq(Name) /\ x6'.at = "encode" /\ x6'.source = x5[1]
        /\ x6'.source \in Name
    BY <1>1, <2>1, BucketRest DEF BucketTranscodes
  <2>3. \A i \in DOMAIN x5' : /\ i \in Nat /\ i + 1 \in DOMAIN x5 /\ i + 1 # 1
                              /\ x5'[i] = x5[i + 1]
    BY <1>1, <2>1, BucketRest
  <2>4. 1 \in DOMAIN x5
    BY <1>1, <2>1, BucketRest
  <2>5. Bucket!Transcoded' \subseteq Bucket!Transcoded
    BY <2>2, <2>3, <2>4 DEF Bucket!Transcoded
  <2>6. Bucket!TypeOK'
    BY <1>1, <2>1, <2>2 DEF Bucket!TypeOK, BucketTranscodes
  <2>7. /\ \A i \in DOMAIN x5' : BucketIsWhole(x1[x5'[i]]) /\ x5'[i] # x6'.source
        /\ \A i, k \in DOMAIN x5' : x5'[i] = x5'[k] => i = k
    BY <1>1, <2>2, <2>3, <2>4 DEF BucketSourcesFit
  <2>8. BucketSourcesFit'
    BY <1>1, <2>1, <2>2, <2>4, <2>5, <2>7 DEF BucketSourcesFit, BucketIsWhole
  <2>9. BucketEpisodeServed'
    BY <1>1, <2>1 DEF BucketEpisodeServed, BucketServed, BucketIsWhole
  <2>10. BucketTabsFit'
    BY <1>1, <2>1, <2>5, BucketTabsStay
  <2>11. QED
    BY <2>6, <2>8, <2>9, <2>10, BucketHalvesNext
<1>3. ASSUME NEW stage \in {"put", "clean", "cleanFailed"}, x6.at \in {"encode", "put"},
             stage = "put" => x6.at = "encode",
             x6' = [x6 EXCEPT !.at = stage], UNCHANGED <<x2, x5, x7>>,
             x3' \in BucketEpisodes, BucketServed(x3', x2, x7),
             x3'.holds \in {x3.holds, "ep"}
      PROVE  Bucket!IInv'
  <2>1. x6' \in BucketTranscodes /\ x6'.at = stage /\ x6'.source = x6.source /\ x6.at # "idle"
    BY <1>1, <1>3 DEF BucketTranscodes
  <2>2. Bucket!Transcoded' = Bucket!Transcoded
    BY <1>3, <2>1 DEF Bucket!Transcoded
  <2>3. Bucket!TypeOK'
    BY <1>1, <1>3, <2>1 DEF Bucket!TypeOK, BucketTranscodes, BucketEpisodes
  <2>4. "ep" \notin Bucket!Transcoded
    BY BucketSources, ClientsAssumption
  <2>5. BucketSourcesFit'
    BY <1>1, <1>3, <2>1, <2>2, <2>4, ClientsAssumption DEF BucketSourcesFit, BucketIsWhole
  <2>6. BucketEpisodeServed'
    BY <1>1, <1>3 DEF BucketEpisodeServed, BucketServed, BucketIsWhole
  <2>7. BucketTabsFit'
    <3>1. /\ x4' \in [Handler -> BucketUploads] /\ \A t \in Handler : x4'[t] = x4[t]
          /\ \A n \in Name : x1'[n] = x1[n]
      BY <1>1
    <3>2. x3'.holds \in {x3.holds, None, "ep"}
      BY <1>3
    <3>3. QED
      BY <2>2, <3>1, <3>2, BucketTabsStay
  <2>8. QED
    BY <2>3, <2>5, <2>6, <2>7, BucketHalvesNext
<1>4. ASSUME Bucket!Encoded \/ Bucket!Throws PROVE Bucket!IInv'
  <2>1. x3' = x3 /\ UNCHANGED <<x2, x5, x7>>
    BY <1>4 DEF Bucket!Encoded, Bucket!Throws
  <2>2. x3' \in BucketEpisodes /\ BucketServed(x3', x2, x7)
    BY <1>1, <2>1 DEF BucketEpisodeServed
  <2>3. CASE Bucket!Encoded
    <3>1. x6.at = "encode" /\ x6' = [x6 EXCEPT !.at = "put"]
      BY <2>3 DEF Bucket!Encoded
    <3>2. QED
      BY <1>3, <2>1, <2>2, <3>1
  <2>4. CASE Bucket!Throws
    <3>1. x6.at \in {"encode", "put"} /\ x6' = [x6 EXCEPT !.at = "cleanFailed"]
      BY <2>4 DEF Bucket!Throws
    <3>2. QED
      BY <1>3, <2>1, <2>2, <3>1
  <2>5. QED
    BY <1>4, <2>3, <2>4
<1>5. ASSUME Bucket!Ready PROVE Bucket!IInv'
  <2>1. /\ x6.at = "put" /\ \A p \in Part : x2[p] = x6.source
        /\ x3' = [status |-> "ready", holds |-> "ep"]
        /\ x6' = [x6 EXCEPT !.at = "clean"] /\ UNCHANGED <<x2, x5, x7>>
    BY <1>5 DEF Bucket!Ready, Bucket!JobDone
  <2>2. x3' \in BucketEpisodes /\ x6.source \in Name
    BY <1>1, <2>1 DEF BucketEpisodes, BucketSourcesFit
  <2>3. BucketServed(x3', x2, x7)
    BY <2>1, <2>2 DEF BucketEpisodeServed, BucketServed
  <2>4. QED
    BY <1>3, <2>1, <2>2, <2>3
<1>6. ASSUME NEW p \in Part, Bucket!PutTree(p) PROVE Bucket!IInv'
  <2>1. /\ x6.at = "put" /\ x2' = [x2 EXCEPT ![p] = x6.source]
        /\ x7' = (x7 \/ x3.holds = "ep") /\ UNCHANGED <<x3, x5, x6>>
    BY <1>6 DEF Bucket!PutTree
  <2>2. x2' \in [Part -> Name \cup {None}] /\ x7' \in BOOLEAN
    BY <1>1, <2>1 DEF BucketTranscodes
  <2>3. Bucket!TypeOK'
    BY <1>1, <2>1, <2>2 DEF Bucket!TypeOK
  <2>4. Bucket!Transcoded' = Bucket!Transcoded
    BY <2>1 DEF Bucket!Transcoded
  <2>5. BucketSourcesFit'
    BY <1>1, <2>1, <2>4 DEF BucketSourcesFit, BucketIsWhole
  <2>6. BucketEpisodeServed'
    BY <1>1, <2>1 DEF BucketEpisodeServed, BucketServed, BucketIsWhole
  <2>7. BucketTabsFit'
    BY <1>1, <2>1, <2>4, BucketTabsStay
  <2>8. QED
    BY <2>3, <2>5, <2>6, <2>7, BucketHalvesNext
<1>7. QED
  BY <1>2, <1>4, <1>5, <1>6

LEMMA BucketCleanUpKeeps == ASSUME Bucket!IInv, Bucket!CleanUp PROVE Bucket!IInv'
<1>1. /\ Bucket!TypeOK /\ BucketSourcesFit /\ BucketEpisodeServed
      /\ x1 \in [Name -> BucketObjects] /\ x4 \in [Handler -> BucketUploads] /\ x5 \in Seq(Name)
      /\ x3 \in BucketEpisodes
  BY BucketHalves, BucketTypes
<1>2. /\ x6.at \in {"clean", "cleanFailed"} /\ x6.at # "idle"
      /\ \/ x1' = [x1 EXCEPT ![x6.source] = [state |-> "gone", parts |-> {}]]
         \/ UNCHANGED x1
      /\ x3' = [x3 EXCEPT !.status = "error"] \/ UNCHANGED x3
      /\ x6' = Bucket!NoJob /\ UNCHANGED <<x2, x4, x5, x7>>
  BY DEF Bucket!CleanUp
<1>3. PICK n \in Name : n = x6.source
  BY <1>2, BucketSources
<1>4. n \in Bucket!Transcoded /\ n # x3.holds /\ \A i \in DOMAIN x5 : x5[i] # n
  BY <1>1, <1>2, <1>3, BucketSources DEF BucketSourcesFit
<1>5. /\ x1' \in [Name -> BucketObjects] /\ \A k \in Name : k # n => x1'[k] = x1[k]
      /\ x1'[n].state # "none"
  <2>1. [state |-> "gone", parts |-> {}] \in BucketObjects
    BY DEF BucketObjects
  <2>2. x1[n].state # "none"
    BY <1>1, <1>4 DEF BucketSourcesFit
  <2>3. QED
    BY <1>1, <1>2, <1>3, <2>1, <2>2
<1>6. /\ x3' \in BucketEpisodes /\ x3'.holds = x3.holds
      /\ x3'.status = "ready" => x3.status = "ready"
  BY <1>1, <1>2 DEF BucketEpisodes
<1>7. Bucket!Transcoded' \subseteq Bucket!Transcoded
  BY <1>2, BucketEmpties DEF Bucket!Transcoded
<1>8. Bucket!TypeOK'
  BY <1>1, <1>2, <1>5, <1>6, BucketEmpties
     DEF Bucket!TypeOK, BucketObjects, BucketEpisodes, BucketTranscodes
<1>9. BucketTabsFit'
  BY <1>1, <1>2, <1>4, <1>5, <1>6, <1>7, BucketTabsStay
<1>10. BucketSourcesFit'
  <2>1. \A i \in DOMAIN x5 : x1'[x5[i]] = x1[x5[i]]
    BY <1>4, <1>5, BucketSources
  <2>2. x6'.at = "idle"
    BY <1>2, BucketEmpties
  <2>3. \A k \in Name : k \in Bucket!Transcoded \/ k = x3.holds => x1'[k].state # "none"
    BY <1>1, <1>5 DEF BucketSourcesFit
  <2>4. QED
    BY <1>1, <1>2, <1>6, <1>7, <2>1, <2>2, <2>3 DEF BucketSourcesFit, BucketIsWhole
<1>11. BucketEpisodeServed'
  BY <1>1, <1>2, <1>4, <1>5, <1>6 DEF BucketEpisodeServed, BucketServed, BucketIsWhole
<1>12. QED
  BY <1>8, <1>9, <1>10, <1>11, BucketHalvesNext

LEMMA BucketRestartKeeps == ASSUME Bucket!IInv, Bucket!Restart \/ Bucket!Reset PROVE Bucket!IInv'
<1>1. /\ Bucket!TypeOK /\ BucketSourcesFit /\ BucketEpisodeServed
      /\ x1 \in [Name -> BucketObjects] /\ x4 \in [Handler -> BucketUploads] /\ x5 \in Seq(Name)
      /\ x3 \in BucketEpisodes /\ UNCHANGED <<x1, x2, x7>>
  BY BucketHalves, BucketTypes DEF Bucket!Restart, Bucket!Reset
<1>2. \/ UNCHANGED <<x5, x6>>
      \/ x5' = <<>> /\ x6' = Bucket!NoJob
  BY DEF Bucket!Restart, Bucket!Reset
<1>3. /\ x5' \in Seq(Name) /\ Bucket!Transcoded' \subseteq Bucket!Transcoded
      /\ x6'.at # "idle" => x6' = x6
      /\ \A i \in DOMAIN x5' : x5' = x5
  <2>1. CASE UNCHANGED <<x5, x6>>
    BY <1>1, <2>1 DEF Bucket!Transcoded
  <2>2. CASE x5' = <<>> /\ x6' = Bucket!NoJob
    BY <2>2, BucketEmpties DEF Bucket!Transcoded
  <2>3. QED
    BY <1>2, <2>1, <2>2
<1>4. /\ x3' \in BucketEpisodes /\ x3'.holds \in {x3.holds, None}
      /\ x3'.status = "ready" => x3'.holds = x3.holds /\ x3.status = "ready"
  BY <1>1, BucketEmpties DEF Bucket!Restart, Bucket!Reset, BucketEpisodes
<1>5. /\ x4' \in [Handler -> BucketUploads]
      /\ \A t \in Handler : x4'[t] = x4[t] \/ x4'[t].at = "idle"
  BY <1>1, BucketEmpties DEF Bucket!Restart, Bucket!Reset
<1>6. Bucket!TypeOK'
  BY <1>1, <1>2, <1>3, <1>4, <1>5, BucketEmpties
     DEF Bucket!TypeOK, BucketUploads, BucketEpisodes, BucketTranscodes
<1>7. BucketTabsFit'
  BY <1>1, <1>3, <1>4, <1>5, BucketTabsStay
<1>8. BucketSourcesFit'
  <2>1. None \notin Bucket!Transcoded
    BY BucketSources, ClientsAssumption
  <2>2. QED
    BY <1>1, <1>2, <1>3, <1>4, <2>1, BucketEmpties, ClientsAssumption
       DEF BucketSourcesFit, BucketIsWhole
<1>9. BucketEpisodeServed'
  BY <1>1, <1>4 DEF BucketEpisodeServed, BucketServed, BucketIsWhole
<1>10. QED
  BY <1>6, <1>7, <1>8, <1>9, BucketHalvesNext

LEMMA BucketInductive == ASSUME Bucket!IInv, [Bucket!Next]_(Bucket!vars) PROVE Bucket!IInv'
<1>1. CASE UNCHANGED Bucket!vars
  BY <1>1
     DEF Bucket!vars, Bucket!IInv, Bucket!TypeOK, Bucket!OneUser, Bucket!HandedOut,
         Bucket!TabsSend, Bucket!ServedIsWhole, Bucket!Sending, Bucket!Transcoded, Bucket!At
<1>2. QED
  BY <1>1, BucketBeginKeeps, BucketPutKeeps, BucketTabKeeps, BucketRegisterKeeps,
     BucketTranscoderKeeps, BucketCleanUpKeeps, BucketRestartKeeps DEF Bucket!Next

(***************************************************************************)
(* For any number of tabs, of names and of parts: what a ready episode     *)
(* names on R2 is there, and all of it.                                    *)
(***************************************************************************)
THEOREM ServedOnesAreWhole == MCSpec => []ServedIsWhole
<1> DEFINE Inv == which = "bucket" => Bucket!IInv
<1>1. MCInit => Inv
  BY BucketInitially DEF MCInit
<1>2. Inv /\ [MCNext]_<<which, vars, xs>> => Inv'
  <2> SUFFICES ASSUME which = "bucket", Bucket!IInv, [Bucket!Next]_(Bucket!vars)
               PROVE  Bucket!IInv'
    BY DEF MCNext, xs, Bucket!vars
  <2> QED
    BY BucketInductive
<1>3. Inv => ServedIsWhole
  BY DEF ServedIsWhole, Bucket!IInv
<1>4. QED
  BY <1>1, <1>2, <1>3, PTL DEF MCSpec

-----------------------------------------------------------------------------
(* Bookmark: x1 bookmark, x2 reports, x3 tile, x4 player, x5 low,           *)
(* x6 ghosts                                                               *)

\* The states of a player, and what Kept says of one of them.
WatchPlayers == [at : {"none", "ask", "load", "seek", "on", "error"}, local : BOOLEAN,
            start : Nat, fixed : BOOLEAN, position : Nat, last : Nat, paused : BOOLEAN,
            recoveries : Nat]
WatchHolds(p, r, l) ==
    /\ r.at = "ask" /\ r.fixed /\ r.recoveries > 0 => r.start >= l
    /\ r.local = FALSE =>
      /\ r.at = "load" => r.start >= l /\ r.position = 0
      /\ r.at = "seek" => r.start >= l
      /\ r.at = "on" => r.position >= l /\ (p \in App => r.last >= l)

LEMMA WatchTypes ==
  Watch!TypeOK <=> /\ x1 \in Nat /\ x2 \subseteq Nat /\ x3 \in Nat /\ x5 \in Nat
                   /\ x6 \subseteq Nat /\ x4 \in [Player -> WatchPlayers]
BY DEF Watch!TypeOK, WatchPlayers

LEMMA WatchKeptIs == ASSUME NEW p \in Player PROVE Watch!Kept(p) <=> WatchHolds(p, x4[p], x5)
BY DEF Watch!Kept, WatchHolds

LEMMA WatchLowestIs ==
  ASSUME NEW S, S \subseteq Nat, S # {}
  PROVE  Watch!Lowest(S) \in S /\ \A k \in S : Watch!Lowest(S) <= k
BY Least DEF Watch!Lowest, Watch!Min

\* What holds of a place holds of one further back.
LEMMA WatchLowerHolds ==
  ASSUME NEW p, NEW r \in WatchPlayers, NEW l \in Nat, NEW k \in Nat, k <= l, WatchHolds(p, r, l)
  PROVE  WatchHolds(p, r, k)
<1>1. r.start \in Nat /\ r.position \in Nat /\ r.last \in Nat
  BY DEF WatchPlayers
<1>2. QED
  BY <1>1 DEF WatchHolds

LEMMA WatchClosedIs == Watch!Closed \in WatchPlayers /\ \A p, l : WatchHolds(p, Watch!Closed, l)
BY DEF Watch!Closed, WatchPlayers, WatchHolds

LEMMA WatchInitially == Watch!Init => Watch!IInv
<1> SUFFICES ASSUME Watch!Init PROVE Watch!IInv
  OBVIOUS
<1>1. x1 \in Nat /\ x2 = {} /\ x3 \in Nat /\ x5 = 0 /\ x6 = {}
  BY ClientsAssumption DEF Watch!Init
<1>2. x4 = [p \in Player |-> Watch!Closed]
  BY DEF Watch!Init
<1>3. x4 \in [Player -> WatchPlayers]
  BY <1>2, WatchClosedIs
<1>4. Watch!PlayersKeep
  BY <1>2, WatchClosedIs, WatchKeptIs DEF Watch!PlayersKeep
<1>5. Watch!ReportsKeep /\ Watch!BookmarkStands
  BY <1>1 DEF Watch!ReportsKeep, Watch!BookmarkStands
<1>6. QED
  BY <1>1, <1>3, <1>4, <1>5, WatchTypes DEF Watch!IInv

\* One player goes on, and the bookmark may be by right where it was or
\* further back.
LEMMA WatchOneGoesOn ==
  ASSUME Watch!IInv, NEW p \in Player, NEW r \in WatchPlayers, Watch!Becomes(p, r),
         x5' \in Nat, x5' <= x5, WatchHolds(p, r, x5'),
         UNCHANGED <<x1, x3>>, x6' \subseteq Nat,
         x2' \subseteq Nat, \A k \in x2' : k >= x5'
  PROVE  Watch!IInv'
<1>1. /\ x1 \in Nat /\ x3 \in Nat /\ x5 \in Nat /\ x4 \in [Player -> WatchPlayers]
      /\ Watch!PlayersKeep /\ x1 >= x5
  BY WatchTypes DEF Watch!IInv, Watch!BookmarkStands
<1>2. x4' = [x4 EXCEPT ![p] = r]
  BY DEF Watch!Becomes
<1>3. x4' \in [Player -> WatchPlayers]
  BY <1>1, <1>2
<1>4. Watch!TypeOK'
  BY <1>1, <1>3 DEF Watch!TypeOK, WatchPlayers
<1>5. ASSUME NEW q \in Player PROVE Watch!Kept(q)'
  <2>1. CASE q = p
    <3>1. x4'[q] = r
      BY <1>1, <1>2, <2>1
    <3>2. QED
      BY <2>1, <3>1 DEF Watch!Kept, WatchHolds
  <2>2. CASE q # p
    <3>1. x4'[q] = x4[q] /\ x4[q] \in WatchPlayers
      BY <1>1, <1>2, <2>2
    <3>2. WatchHolds(q, x4[q], x5)
      BY <1>1, WatchKeptIs DEF Watch!PlayersKeep
    <3>3. WatchHolds(q, x4[q], x5')
      <4>1. PICK s \in WatchPlayers : s = x4[q]
        BY <3>1
      <4>2. s.start \in Nat /\ s.position \in Nat /\ s.last \in Nat
        BY DEF WatchPlayers
      <4>3. WatchHolds(q, s, x5')
        BY <1>1, <3>2, <4>1, <4>2 DEF WatchHolds
      <4>4. QED
        BY <4>1, <4>3
    <3>4. QED
      BY <3>1, <3>3 DEF Watch!Kept, WatchHolds
  <2>3. QED
    BY <2>1, <2>2
<1>6. Watch!PlayersKeep'
  BY <1>5 DEF Watch!PlayersKeep
<1>7. Watch!ReportsKeep' /\ Watch!BookmarkStands'
  BY <1>1 DEF Watch!ReportsKeep, Watch!BookmarkStands
<1>8. QED
  BY <1>4, <1>6, <1>7 DEF Watch!IInv

\* The first of the players opened decides anew how far back that is.
LEMMA WatchFirstOpened ==
  ASSUME Watch!IInv, NEW p \in Player, NEW r \in WatchPlayers, Watch!Becomes(p, r), Watch!Alone(p),
         x5' \in Nat, x1 >= x5', WatchHolds(p, r, x5'),
         UNCHANGED <<x1, x3, x2, x6>>, \A k \in x2 : k >= x5'
  PROVE  Watch!IInv'
<1>1. /\ x1 \in Nat /\ x3 \in Nat /\ x2 \subseteq Nat /\ x6 \subseteq Nat
      /\ x4 \in [Player -> WatchPlayers]
  BY WatchTypes DEF Watch!IInv
<1>2. x4' = [x4 EXCEPT ![p] = r]
  BY DEF Watch!Becomes
<1>3. x4' \in [Player -> WatchPlayers]
  BY <1>1, <1>2
<1>4. Watch!TypeOK'
  BY <1>1, <1>3 DEF Watch!TypeOK, WatchPlayers
<1>5. ASSUME NEW q \in Player PROVE Watch!Kept(q)'
  <2>1. CASE q = p
    <3>1. x4'[q] = r
      BY <1>1, <1>2, <2>1
    <3>2. QED
      BY <2>1, <3>1 DEF Watch!Kept, WatchHolds
  <2>2. CASE q # p
    <3>1. x4'[q] = x4[q]
      BY <1>1, <1>2, <2>2
    <3>2. x4[q].at = "none" \/ (x4[q].at = "ask" /\ x4[q].recoveries = 0)
      BY <2>2 DEF Watch!Alone, Watch!At, Watch!Opening
    <3>3. QED
      BY <3>1, <3>2 DEF Watch!Kept
  <2>3. QED
    BY <2>1, <2>2
<1>6. Watch!PlayersKeep'
  BY <1>5 DEF Watch!PlayersKeep
<1>7. Watch!ReportsKeep' /\ Watch!BookmarkStands'
  BY DEF Watch!ReportsKeep, Watch!BookmarkStands
<1>8. QED
  BY <1>4, <1>6, <1>7 DEF Watch!IInv

\* What is known of one player.
LEMMA WatchOnePlayer ==
  ASSUME Watch!IInv, NEW p \in Player
  PROVE  /\ x4[p] \in WatchPlayers /\ WatchHolds(p, x4[p], x5)
         /\ x5 \in Nat /\ x1 \in Nat /\ x3 \in Nat /\ x1 >= x5
         /\ x2 \subseteq Nat /\ x6 \subseteq Nat /\ \A k \in x2 : k >= x5
BY WatchTypes, WatchKeptIs
   DEF Watch!IInv, Watch!PlayersKeep, Watch!ReportsKeep, Watch!BookmarkStands

\* A report says no place further back than is right, or by right makes it so.
LEMMA WatchSavingKeeps ==
  ASSUME Watch!IInv, NEW p \in Player, Watch!Saving(p)
  PROVE  /\ x2' \subseteq Nat /\ x5' \in Nat /\ x5' <= x5
         /\ \A k \in x2' : k >= x5'
<1>1. PICK r \in WatchPlayers : r = x4[p]
  BY WatchOnePlayer
<1>2. /\ r.position \in Nat /\ r.start \in Nat /\ x5 \in Nat /\ WatchHolds(p, r, x5)
      /\ x2 \subseteq Nat /\ \A k \in x2 : k >= x5 /\ r.local \in BOOLEAN
  BY <1>1, WatchOnePlayer DEF WatchPlayers
<1>3. /\ x2' = (IF Watch!Reports(p) THEN x2 \cup {r.position} ELSE x2)
      /\ x5' = (IF Watch!Reports(p) /\ r.local THEN Watch!Lowest({x5, r.position}) ELSE x5)
  BY <1>1 DEF Watch!Saving
<1>4. CASE Watch!Reports(p) /\ r.local
  <2>1. x5' = Watch!Lowest({x5, r.position})
    BY <1>3, <1>4
  <2>2. x5' \in {x5, r.position} /\ x5' <= x5 /\ x5' <= r.position
    BY <1>2, <2>1, WatchLowestIs
  <2>3. x5' \in Nat /\ \A k \in x2' : k \in Nat /\ k >= x5'
    BY <1>2, <1>3, <1>4, <2>2
  <2>4. QED
    BY <2>2, <2>3
<1>5. CASE ~(Watch!Reports(p) /\ r.local)
  <2>1. Watch!Reports(p) => r.position >= x5
    <3>1. Watch!Reports(p) => r.local = FALSE
      BY <1>2, <1>5 DEF WatchPlayers
    <3>2. QED
      BY <1>1, <1>2, <3>1 DEF Watch!Reports, Watch!Settled, Watch!At, WatchHolds
  <2>2. x5' = x5 /\ (x2' = x2 \/ (Watch!Reports(p) /\ x2' = x2 \cup {r.position}))
    BY <1>3, <1>5
  <2>3. \A k \in x2' : k \in Nat /\ k >= x5
    BY <1>2, <2>1, <2>2
  <2>4. QED
    BY <1>2, <2>2, <2>3
<1>6. QED
  BY <1>4, <1>5

LEMMA WatchPlayKeeps == ASSUME Watch!IInv, NEW p \in Player, Watch!Play(p) PROVE Watch!IInv'
<1> DEFINE start == IF x4[p].fixed THEN x4[p].start ELSE x1
           stood == Watch!Lowest({x1, start} \cup x2)
           r == [x4[p] EXCEPT !.at = "load", !.start = start, !.fixed = FALSE,
                                  !.position = 0, !.paused = TRUE]
<1>1. /\ x4[p].at = "ask" /\ Watch!Becomes(p, r)
      /\ x5' = (IF ~Watch!Opening(p) THEN x5
                 ELSE IF Watch!Alone(p) THEN stood ELSE Watch!Lowest({x5, stood}))
      /\ UNCHANGED <<x1, x2, x3, x6>> /\ x6 \subseteq Nat
  BY WatchOnePlayer DEF Watch!Play, Watch!At
<1>2. /\ x4[p] \in WatchPlayers /\ WatchHolds(p, x4[p], x5)
      /\ x5 \in Nat /\ x1 \in Nat /\ x1 >= x5
      /\ x2 \subseteq Nat /\ \A k \in x2 : k >= x5
      /\ x4[p].recoveries \in Nat
  BY WatchOnePlayer DEF WatchPlayers
<1>3. start \in Nat
  BY <1>2 DEF WatchPlayers
<1>4. r \in WatchPlayers /\ r.at = "load" /\ r.start = start /\ r.position = 0
  BY <1>2, <1>3 DEF WatchPlayers
<1>5. stood \in Nat /\ stood <= x1 /\ stood <= start /\ \A k \in x2 : stood <= k
  BY <1>2, <1>3, WatchLowestIs
<1>6. ~Watch!Opening(p) => start >= x5
  BY <1>1, <1>2 DEF Watch!Opening, Watch!At, WatchHolds
<1> HIDE DEF start, stood, r
<1>7. \A l \in Nat : l <= start => WatchHolds(p, r, l)
  BY <1>3, <1>4 DEF WatchHolds
<1>8. CASE ~Watch!Opening(p)
  <2>1. x5' = x5 /\ WatchHolds(p, r, x5')
    BY <1>1, <1>2, <1>3, <1>6, <1>7, <1>8
  <2>2. QED
    BY <1>1, <1>2, <1>4, <2>1, WatchOneGoesOn
<1>9. CASE Watch!Opening(p) /\ Watch!Alone(p)
  <2>1. x5' = stood /\ WatchHolds(p, r, x5') /\ x1 >= x5' /\ \A k \in x2 : k >= x5'
    BY <1>1, <1>2, <1>3, <1>5, <1>7, <1>9
  <2>2. QED
    BY <1>1, <1>4, <1>5, <1>9, <2>1, WatchFirstOpened
<1>10. CASE Watch!Opening(p) /\ ~Watch!Alone(p)
  <2>1. x5' = Watch!Lowest({x5, stood})
    BY <1>1, <1>10
  <2>2. x5' \in {x5, stood} /\ x5' <= x5 /\ x5' <= stood
    BY <1>2, <1>5, <2>1, WatchLowestIs
  <2>3. x5' \in Nat /\ x5' <= start
    BY <1>2, <1>3, <1>5, <2>2
  <2>4. WatchHolds(p, r, x5') /\ \A k \in x2' : k >= x5'
    BY <1>1, <1>2, <1>7, <2>2, <2>3
  <2>5. QED
    BY <1>1, <1>2, <1>4, <2>2, <2>3, <2>4, WatchOneGoesOn
<1>11. QED
  BY <1>8, <1>9, <1>10

\* A player that goes on while nothing else changes.
LEMMA WatchPlayerOnly ==
  ASSUME Watch!IInv, NEW p \in Player, NEW r \in WatchPlayers, Watch!Becomes(p, r), WatchHolds(p, r, x5),
         UNCHANGED <<x1, x2, x3, x5, x6>>
  PROVE  Watch!IInv'
BY WatchOnePlayer, WatchOneGoesOn

LEMMA WatchInductive == ASSUME Watch!IInv, [Watch!Next]_(Watch!vars) PROVE Watch!IInv'
<1>1. ASSUME NEW p \in Player, Watch!Open(p) PROVE Watch!IInv'
  <2>1. PICK r \in WatchPlayers : Watch!Becomes(p, r) /\ r.at = "ask" /\ r.recoveries = 0
    <3>1. /\ [Watch!Closed EXCEPT !.at = "ask"] \in WatchPlayers
          /\ [Watch!Closed EXCEPT !.at = "ask", !.start = x3, !.fixed = TRUE] \in WatchPlayers
      BY <1>1, WatchOnePlayer DEF Watch!Closed, WatchPlayers
    <3>2. QED
      BY <1>1, <3>1 DEF Watch!Open, Watch!Closed
  <2>2. WatchHolds(p, r, x5)
    BY <2>1 DEF WatchHolds
  <2>3. QED
    BY <1>1, <2>1, <2>2, WatchPlayerOnly DEF Watch!Open
<1>2. ASSUME NEW p \in Player, Watch!OpenLocal(p) PROVE Watch!IInv'
  <2>1. PICK r : r = [Watch!Closed EXCEPT !.at = "load", !.local = TRUE]
    OBVIOUS
  <2>2. r \in WatchPlayers /\ WatchHolds(p, r, x5)
    BY <2>1 DEF Watch!Closed, WatchPlayers, WatchHolds
  <2>3. QED
    BY <1>2, <2>1, <2>2, WatchPlayerOnly DEF Watch!OpenLocal
<1>3. ASSUME NEW p \in Player, Watch!TryAgain(p) PROVE Watch!IInv'
  <2>1. PICK r : r = [x4[p] EXCEPT !.at = "ask", !.fixed = FALSE]
    OBVIOUS
  <2>2. r \in WatchPlayers /\ WatchHolds(p, r, x5)
    BY <2>1, WatchOnePlayer DEF WatchPlayers, WatchHolds
  <2>3. QED
    BY <1>3, <2>1, <2>2, WatchPlayerOnly DEF Watch!TryAgain
<1>4. ASSUME NEW p \in Player, Watch!PlayRefused(p) PROVE Watch!IInv'
  <2>1. PICK r : r = [x4[p] EXCEPT !.at = "error"]
    OBVIOUS
  <2>2. r \in WatchPlayers /\ WatchHolds(p, r, x5)
    BY <2>1, WatchOnePlayer DEF WatchPlayers, WatchHolds
  <2>3. QED
    BY <1>4, <2>1, <2>2, WatchClosedIs, WatchPlayerOnly DEF Watch!PlayRefused
<1>5. ASSUME NEW p \in Player, Watch!Loaded(p) PROVE Watch!IInv'
  <2>1. PICK paused \in BOOLEAN :
          Watch!Becomes(p, [x4[p] EXCEPT !.at = "on", !.position = x4[p].start,
                                       !.start = 0, !.paused = paused])
    BY <1>5 DEF Watch!Loaded
  <2>2. PICK r : r = [x4[p] EXCEPT !.at = "on", !.position = x4[p].start,
                                       !.start = 0, !.paused = paused]
    OBVIOUS
  <2>3. r \in WatchPlayers /\ r.at = "on" /\ r.position = x4[p].start /\ r.local = x4[p].local
    BY <2>2, WatchOnePlayer DEF WatchPlayers
  <2>4. WatchHolds(p, r, x5)
    BY <1>5, <2>3, WatchOnePlayer DEF Watch!Loaded, Watch!At, WatchHolds
  <2>5. QED
    BY <1>5, <2>1, <2>2, <2>3, <2>4, WatchPlayerOnly DEF Watch!Loaded
<1>6. ASSUME NEW p \in Player, Watch!Initialized(p) PROVE Watch!IInv'
  <2>1. /\ x4[p] \in WatchPlayers /\ x4[p].at = "load" /\ WatchHolds(p, x4[p], x5)
        /\ x4[p].start \in Nat /\ x4[p].position \in Nat /\ x4[p].last \in Nat
        /\ x5 \in Nat /\ Watch!Forgiven(p) \in Nat
    BY <1>6, WatchOnePlayer DEF Watch!Initialized, Watch!At, WatchPlayers, Watch!Forgiven
  <2>2. PICK r : r = [x4[p] EXCEPT !.at = "on", !.paused = FALSE,
                                       !.recoveries = Watch!Forgiven(p)]
    OBVIOUS
  <2>3. PICK s : s = [x4[p] EXCEPT !.at = "seek", !.paused = FALSE]
    OBVIOUS
  <2>4. /\ r \in WatchPlayers /\ r.at = "on" /\ r.position = x4[p].position /\ r.last \in Nat
        /\ r.local = x4[p].local /\ s.local = x4[p].local
        /\ s \in WatchPlayers /\ s.at = "seek" /\ s.start = x4[p].start
    BY <2>1, <2>2, <2>3 DEF WatchPlayers
  <2>5. /\ x4[p].start = 0 => WatchHolds(p, r, x5)
        /\ WatchHolds(p, s, x5)
    BY <2>1, <2>4 DEF WatchHolds
  <2>6. Watch!Becomes(p, IF x4[p].start = 0 THEN r ELSE s)
    BY <1>6, <2>2, <2>3 DEF Watch!Initialized
  <2>7. UNCHANGED <<x1, x2, x3, x5, x6>>
    BY <1>6 DEF Watch!Initialized
  <2>8. CASE x4[p].start = 0
    BY <2>4, <2>5, <2>6, <2>7, <2>8, WatchPlayerOnly
  <2>9. CASE x4[p].start # 0
    BY <2>4, <2>5, <2>6, <2>7, <2>9, WatchPlayerOnly
  <2>10. QED
    BY <2>8, <2>9
<1>7. ASSUME NEW p \in Player, Watch!Seeked(p) PROVE Watch!IInv'
  <2>1. PICK position \in {0, x4[p].start} :
          /\ Watch!Becomes(p, [x4[p] EXCEPT !.at = "on", !.position = position, !.start = 0,
                                          !.last = x4[p].start,
                                          !.recoveries = Watch!Forgiven(p)])
          /\ x5' = IF position = 0 THEN 0 ELSE x5
    BY <1>7 DEF Watch!Seeked
  <2>2. /\ x4[p] \in WatchPlayers /\ x4[p].at = "seek" /\ WatchHolds(p, x4[p], x5)
        /\ x4[p].start \in Nat /\ x5 \in Nat /\ Watch!Forgiven(p) \in Nat
        /\ UNCHANGED <<x1, x2, x3, x6>> /\ x6 \subseteq Nat
    BY <1>7, WatchOnePlayer DEF Watch!Seeked, Watch!At, WatchPlayers, Watch!Forgiven
  <2>3. PICK r : r = [x4[p] EXCEPT !.at = "on", !.position = position, !.start = 0,
                                       !.last = x4[p].start,
                                       !.recoveries = Watch!Forgiven(p)]
    OBVIOUS
  <2>4. /\ r \in WatchPlayers /\ r.at = "on" /\ r.position = position /\ r.last = x4[p].start
        /\ r.local = x4[p].local
    <3>1. position \in Nat
      BY <2>1, <2>2
    <3>2. QED
      BY <2>2, <2>3, <3>1 DEF WatchPlayers
  <2>5. x5' \in Nat /\ x5' <= x5 /\ WatchHolds(p, r, x5')
    BY <2>1, <2>2, <2>4 DEF WatchHolds
  <2>6. x2' \subseteq Nat /\ \A k \in x2' : k >= x5'
    BY <2>2, <2>5, WatchOnePlayer
  <2>7. QED
    BY <2>1, <2>2, <2>3, <2>4, <2>5, <2>6, WatchOneGoesOn
<1>8. ASSUME NEW p \in Player, x4[p].at = "on", NEW position \in Nat,
             Watch!Becomes(p, Watch!Reaching(p, position)), UNCHANGED <<x1, x2, x3, x6>>,
             x5' \in Nat, x5' <= x5, x4[p].local = FALSE => x5' <= position
      PROVE  Watch!IInv'
  <2>1. /\ x4[p] \in WatchPlayers /\ WatchHolds(p, x4[p], x5) /\ x5 \in Nat
        /\ x4[p].last \in Nat
    BY WatchOnePlayer DEF WatchPlayers
  <2>2. PICK last \in Nat : last = IF p \in App /\ position > 0 THEN position ELSE x4[p].last
    BY <2>1
  <2>3. PICK r : r = [x4[p] EXCEPT !.position = position, !.last = last]
    OBVIOUS
  <2>4. /\ r \in WatchPlayers /\ r.at = "on" /\ r.position = position /\ r.last = last
        /\ r.local = x4[p].local /\ Watch!Becomes(p, r)
    BY <1>8, <2>1, <2>2, <2>3 DEF WatchPlayers, Watch!Reaching
  <2>5. p \in App /\ r.local = FALSE => x4[p].last >= x5
    BY <1>8, <2>1, <2>4 DEF WatchHolds
  <2>6. WatchHolds(p, r, x5')
    BY <1>8, <2>1, <2>2, <2>4, <2>5 DEF WatchHolds
  <2>7. \A k \in x2' : k >= x5'
    BY <1>8, <2>1, WatchOnePlayer
  <2>8. QED
    BY <1>8, <2>4, <2>6, <2>7, WatchOneGoesOn, WatchOnePlayer
<1>9. ASSUME NEW p \in Player, Watch!Advance(p) PROVE Watch!IInv'
  <2>1. /\ x4[p] \in WatchPlayers /\ x4[p].at = "on"
        /\ x4[p].local = FALSE => x4[p].position >= x5
        /\ x4[p].position \in Nat /\ x5 \in Nat
    BY <1>9, WatchOnePlayer DEF Watch!Advance, Watch!At, WatchHolds, WatchPlayers
  <2>2. PICK position \in Nat : position = x4[p].position + 1
    BY <2>1
  <2>3. /\ x5' = x5 /\ (x4[p].local = FALSE => x5 <= position)
        /\ UNCHANGED <<x1, x2, x3, x6>> /\ Watch!Becomes(p, Watch!Reaching(p, position))
    BY <1>9, <2>1, <2>2 DEF Watch!Advance
  <2>4. x5' \in Nat /\ x5' <= x5 /\ (x4[p].local = FALSE => x5' <= position)
    BY <2>1, <2>3
  <2>5. QED
    BY <1>8, <2>1, <2>3, <2>4
<1>10. ASSUME NEW p \in Player, Watch!Move(p) PROVE Watch!IInv'
  <2>1. PICK position \in 0 .. MaxPosition :
          Watch!Becomes(p, Watch!Reaching(p, position)) /\ x5' = Watch!Lowest({x5, position})
    BY <1>10 DEF Watch!Move
  <2>2. x5 \in Nat /\ position \in Nat
    BY ClientsAssumption, WatchOnePlayer
  <2>3. x5' \in {x5, position} /\ x5' <= x5 /\ x5' <= position
    BY <2>1, <2>2, WatchLowestIs
  <2>4. x4[p].at = "on" /\ UNCHANGED <<x1, x2, x3, x6>>
    BY <1>10 DEF Watch!Move, Watch!At
  <2>5. QED
    BY <1>8, <2>1, <2>2, <2>3, <2>4
<1>11. ASSUME Watch!IInv, x1' = x1, x3' = x3, x4' = x4, x6' = x6,
              x2' \subseteq Nat, x5' \in Nat, x5' <= x5, \A k \in x2' : k >= x5'
       PROVE  Watch!IInv'
  <2>1. /\ x1 \in Nat /\ x3 \in Nat /\ x5 \in Nat /\ x6 \subseteq Nat
        /\ x4 \in [Player -> WatchPlayers] /\ x1 >= x5
    BY WatchTypes DEF Watch!IInv, Watch!BookmarkStands
  <2>2. Watch!TypeOK'
    BY <1>11, <2>1 DEF Watch!TypeOK, WatchPlayers
  <2>3. ASSUME NEW q \in Player PROVE Watch!Kept(q)'
    <3>1. PICK s \in WatchPlayers : s = x4[q] /\ WatchHolds(q, s, x5)
      BY <1>11, WatchOnePlayer
    <3>2. s.start \in Nat /\ s.position \in Nat /\ s.last \in Nat
      BY DEF WatchPlayers
    <3>3. WatchHolds(q, s, x5') /\ x4'[q] = s
      BY <1>11, <2>1, <3>1, <3>2 DEF WatchHolds
    <3>4. QED
      BY <3>3 DEF Watch!Kept, WatchHolds
  <2>4. Watch!PlayersKeep' /\ Watch!ReportsKeep' /\ Watch!BookmarkStands'
    BY <1>11, <2>1, <2>3 DEF Watch!PlayersKeep, Watch!ReportsKeep, Watch!BookmarkStands
  <2>5. QED
    BY <2>2, <2>4 DEF Watch!IInv
<1>12. ASSUME NEW p \in Player, Watch!Tick(p) PROVE Watch!IInv'
  BY <1>11, <1>12, WatchSavingKeeps DEF Watch!Tick
<1>13. ASSUME Watch!GhostTick PROVE Watch!IInv'
  <2>1. PICK position \in x6 :
          /\ x2' = x2 \cup {position} /\ x5' = Watch!Lowest({x5, position})
          /\ UNCHANGED <<x1, x3, x4, x6>>
    BY <1>13 DEF Watch!GhostTick
  <2>2. position \in Nat /\ x5 \in Nat /\ x2 \subseteq Nat /\ \A k \in x2 : k >= x5
    BY WatchTypes DEF Watch!IInv, Watch!ReportsKeep
  <2>3. x5' \in {x5, position} /\ x5' <= x5 /\ x5' <= position
    BY <2>1, <2>2, WatchLowestIs
  <2>4. x5' \in Nat /\ x2' \subseteq Nat /\ \A k \in x2' : k >= x5'
    BY <2>1, <2>2, <2>3
  <2>5. QED
    BY <1>11, <2>1, <2>3, <2>4
<1>14. ASSUME NEW p \in Player, Watch!PlayOrPause(p) PROVE Watch!IInv'
  <2>1. PICK r : r = [x4[p] EXCEPT !.paused = ~@]
    OBVIOUS
  <2>2. r \in WatchPlayers /\ WatchHolds(p, r, x5)
    BY <2>1, WatchOnePlayer DEF WatchPlayers, WatchHolds
  <2>3. /\ Watch!Becomes(p, r) /\ (Watch!Saving(p) \/ UNCHANGED <<x2, x5>>)
        /\ UNCHANGED <<x1, x3, x6>>
    BY <1>14, <2>1 DEF Watch!PlayOrPause
  <2>4. /\ x2' \subseteq Nat /\ (\A k \in x2' : k >= x5')
        /\ x5' \in Nat /\ x5' <= x5
    BY <2>3, WatchSavingKeeps, WatchOnePlayer
  <2>5. WatchHolds(p, r, x5')
    BY <2>2, <2>4, WatchLowerHolds, WatchOnePlayer
  <2>6. QED
    BY <2>2, <2>3, <2>4, <2>5, WatchOneGoesOn, WatchOnePlayer
<1>15. ASSUME NEW p \in Player, Watch!SourceDies(p) PROVE Watch!IInv'
  <2>1. /\ x4[p] \in WatchPlayers /\ WatchHolds(p, x4[p], x5) /\ x5 \in Nat
        /\ x4[p].last \in Nat /\ x4[p].position \in Nat /\ x4[p].recoveries \in Nat
        /\ x4[p].local \in BOOLEAN
        /\ UNCHANGED <<x1, x2, x3, x6>> /\ x6 \subseteq Nat
        /\ x5' = (IF x4[p].at = "load" THEN 0 ELSE x5)
        /\ x4[p].at = "on" \/ (x4[p].at = "load" /\ p \notin App)
    BY <1>15, WatchOnePlayer DEF Watch!SourceDies, WatchPlayers, Watch!Fatal, Watch!At
  <2>2. PICK before \in {x4[p].recoveries} \cup (IF p \in App THEN {} ELSE {0}) :
          IF before < MaxRecoveries
          THEN Watch!Becomes(p, [x4[p] EXCEPT !.at = IF x4[p].local THEN "load" ELSE "ask",
                                            !.position = IF x4[p].local THEN 0 ELSE @,
                                            !.start = Watch!Where(p), !.fixed = ~x4[p].local,
                                            !.recoveries = before + 1])
          ELSE Watch!Becomes(p, IF p \in App THEN Watch!Closed ELSE [x4[p] EXCEPT !.at = "error"])
    BY <1>15 DEF Watch!SourceDies
  <2>3. before + 1 \in Nat
    BY <2>1
  <2>4. /\ Watch!Where(p) \in Nat /\ x5' \in Nat /\ x5' <= x5
        /\ x4[p].local = FALSE => Watch!Where(p) >= x5'
    BY <2>1 DEF Watch!Where, WatchHolds
  <2>5. PICK r : r = [x4[p] EXCEPT !.at = IF x4[p].local THEN "load" ELSE "ask",
                                       !.position = IF x4[p].local THEN 0 ELSE @,
                                       !.start = Watch!Where(p), !.fixed = ~x4[p].local,
                                       !.recoveries = before + 1]
    OBVIOUS
  <2>6. PICK s : s = [x4[p] EXCEPT !.at = "error"]
    OBVIOUS
  <2>7. s \in WatchPlayers /\ s.at = "error"
    BY <2>1, <2>6 DEF WatchPlayers
  <2>8. r \in WatchPlayers /\ WatchHolds(p, r, x5')
    <3>1. CASE x4[p].local = TRUE
      <4>1. r = [x4[p] EXCEPT !.at = "load", !.position = 0, !.start = Watch!Where(p),
                                  !.fixed = FALSE, !.recoveries = before + 1]
        BY <2>5, <3>1
      <4>2. r \in WatchPlayers /\ r.at = "load" /\ r.local = TRUE
        BY <2>1, <2>3, <2>4, <3>1, <4>1 DEF WatchPlayers
      <4>3. QED
        BY <4>2 DEF WatchHolds
    <3>2. CASE x4[p].local = FALSE
      <4>1. r = [x4[p] EXCEPT !.at = "ask", !.start = Watch!Where(p), !.fixed = TRUE,
                                  !.recoveries = before + 1]
        BY <2>1, <2>5, <3>2 DEF WatchPlayers
      <4>2. r \in WatchPlayers /\ r.at = "ask" /\ r.start = Watch!Where(p)
        BY <2>1, <2>3, <2>4, <4>1 DEF WatchPlayers
      <4>3. QED
        BY <2>4, <3>2, <4>2 DEF WatchHolds
    <3>3. QED
      BY <2>1, <3>1, <3>2
  <2>9. WatchHolds(p, s, x5') /\ WatchHolds(p, Watch!Closed, x5')
    BY <2>7, WatchClosedIs DEF WatchHolds
  <2>10. Watch!Becomes(p, r) \/ Watch!Becomes(p, s) \/ Watch!Becomes(p, Watch!Closed)
    BY <2>2, <2>5, <2>6
  <2>11. x2' \subseteq Nat /\ \A k \in x2' : k >= x5'
    BY <2>1, <2>4, WatchOnePlayer
  <2>12. QED
    BY <2>1, <2>4, <2>7, <2>8, <2>9, <2>10, <2>11, WatchClosedIs, WatchOneGoesOn
<1>16. ASSUME NEW p \in Player, Watch!Leave(p) PROVE Watch!IInv'
  <2>1. /\ Watch!Becomes(p, Watch!Closed) /\ (Watch!Saving(p) \/ UNCHANGED <<x2, x5>>)
        /\ UNCHANGED <<x1, x3>>
        /\ x6' = x6 \/ \E position \in {0, x4[p].start} : x6' = x6 \cup {position}
    BY <1>16 DEF Watch!Leave
  <2>2. /\ x2' \subseteq Nat /\ (\A k \in x2' : k >= x5')
        /\ x5' \in Nat /\ x5' <= x5
    BY <2>1, WatchSavingKeeps, WatchOnePlayer
  <2>3. x6' \subseteq Nat
    BY <2>1, WatchOnePlayer DEF WatchPlayers
  <2>4. QED
    BY <2>1, <2>2, <2>3, WatchClosedIs, WatchOneGoesOn, WatchOnePlayer
<1>17. ASSUME Watch!SaveProgress PROVE Watch!IInv'
  <2>1. PICK position \in x2 :
          /\ x2' = x2 \ {position} /\ x1' \in {position, x1}
          /\ UNCHANGED <<x3, x4, x5, x6>>
    BY <1>17 DEF Watch!SaveProgress
  <2>2. QED
    BY <2>1
       DEF Watch!IInv, Watch!TypeOK, Watch!PlayersKeep, Watch!Kept, Watch!ReportsKeep,
           Watch!BookmarkStands
<1>18. ASSUME Watch!ContinueWatching PROVE Watch!IInv'
  BY <1>18
     DEF Watch!ContinueWatching, Watch!IInv, Watch!TypeOK, Watch!PlayersKeep, Watch!Kept,
         Watch!ReportsKeep, Watch!BookmarkStands
<1>19. CASE UNCHANGED Watch!vars
  BY <1>19
     DEF Watch!vars, Watch!IInv, Watch!TypeOK, Watch!PlayersKeep, Watch!Kept,
         Watch!ReportsKeep, Watch!BookmarkStands
<1>20. QED
  BY <1>1, <1>2, <1>3, <1>4, <1>5, <1>6, <1>7, <1>9, <1>10, <1>12, <1>13, <1>14,
     <1>15, <1>16, <1>17, <1>18, <1>19, WatchPlayKeeps DEF Watch!Next

(***************************************************************************)
(* For any number of players, on the website and in the app, and any       *)
(* length of the episode: the saved position does not fall back but by     *)
(* what BookmarkStands lists.                                              *)
(***************************************************************************)
THEOREM BookmarksStand == MCSpec => []BookmarkStands
<1> DEFINE Inv == which = "watch" => Watch!IInv
<1>1. MCInit => Inv
  BY WatchInitially DEF MCInit
<1>2. Inv /\ [MCNext]_<<which, vars, xs>> => Inv'
  <2> SUFFICES ASSUME which = "watch", Watch!IInv, [Watch!Next]_(Watch!vars)
               PROVE  Watch!IInv'
    BY DEF MCNext, xs, Watch!vars
  <2> QED
    BY WatchInductive
<1>3. Inv => BookmarkStands
  BY DEF BookmarkStands, Watch!IInv
<1>4. QED
  BY <1>1, <1>2, <1>3, PTL DEF MCSpec

=============================================================================
