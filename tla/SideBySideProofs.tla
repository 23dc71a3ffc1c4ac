--------------------------- MODULE SideBySideProofs ---------------------------
(***************************************************************************)
(* The invariants of the components that SideBySide puts beside each       *)
(* other, for every value of their constants.  Each component has a        *)
(* section: lemmas about its own actions, named after it, then theorems    *)
(* about the whole.  Only the component chosen by `which` moves, so that   *)
(* an invariant of its Init and Next is one of MCSpec.                     *)
(***************************************************************************)
EXTENDS SideBySide, Sequences, FiniteSetTheorems, TLAPS

-----------------------------------------------------------------------------
(* Facts about finite sets, functions and sequences                        *)

\* Parts of a finite set: one member more, one member less.
LEMMA Counting ==
  ASSUME NEW S, IsFiniteSet(S), NEW A, A \subseteq S
  PROVE  /\ IsFiniteSet(A) /\ Cardinality(A) \in Nat /\ Cardinality(S) \in Nat
         /\ Cardinality(A) <= Cardinality(S)
         /\ \A h \in S \ A : /\ Cardinality(A) < Cardinality(S)
                             /\ Cardinality(A \cup {h}) = Cardinality(A) + 1
         /\ \A h \in A : Cardinality(A \ {h}) = Cardinality(A) - 1
<1>1. IsFiniteSet(A) /\ Cardinality(A) \in Nat /\ Cardinality(S) \in Nat
      /\ Cardinality(A) <= Cardinality(S)
  BY FS_Subset, FS_CardinalityType
<1>2. ASSUME NEW h \in S \ A
      PROVE  Cardinality(A) < Cardinality(S) /\ Cardinality(A \cup {h}) = Cardinality(A) + 1
  <2>1. Cardinality(A \cup {h}) = Cardinality(A) + 1
    BY <1>1, FS_AddElement
  <2>2. Cardinality(A \cup {h}) <= Cardinality(S)
    BY FS_Subset, <1>2
  <2>3. QED
    BY <1>1, <2>1, <2>2
<1>3. ASSUME NEW h \in A PROVE Cardinality(A \ {h}) = Cardinality(A) - 1
  BY <1>1, FS_RemoveElement
<1>4. QED
  BY <1>1, <1>2, <1>3

\* Two parts of a finite set that agree on every member but one.
LEMMA OneMember ==
  ASSUME NEW S, IsFiniteSet(S), NEW A, A \subseteq S, NEW B, B \subseteq S, NEW h \in S,
         \A g \in S : g # h => (g \in B <=> g \in A)
  PROVE  Cardinality(B) = Cardinality(A) + (IF h \in B THEN 1 ELSE 0)
                                         - (IF h \in A THEN 1 ELSE 0)
<1>1. CASE h \in A /\ h \notin B
  <2>1. B = A \ {h}
    BY <1>1
  <2>2. QED
    BY <1>1, <2>1, Counting
<1>2. CASE h \notin A /\ h \in B
  <2>1. B = A \cup {h}
    BY <1>2
  <2>2. QED
    BY <1>2, <2>1, Counting
<1>3. CASE (h \in A) <=> (h \in B)
  <2>1. B = A
    BY <1>3
  <2>2. QED
    BY <1>3, <2>1, Counting
<1>4. QED
  BY <1>1, <1>2, <1>3

\* Two parts of a finite set that have no member in common.
LEMMA Apart ==
  ASSUME NEW S, IsFiniteSet(S), NEW A, A \subseteq S, NEW B, B \subseteq S, A \cap B = {}
  PROVE  Cardinality(A) + Cardinality(B) <= Cardinality(S)
<1>1. Cardinality(A \cup B) = Cardinality(A) + Cardinality(B)
  <2>1. IsFiniteSet(A) /\ IsFiniteSet(B) /\ Cardinality({}) = 0
    BY FS_Subset, FS_EmptySet
  <2>2. Cardinality(A \cup B) = Cardinality(A) + Cardinality(B) - Cardinality(A \cap B)
    BY <2>1, FS_Union
  <2>3. QED
    BY <2>1, <2>2, Counting
<1>2. A \cup B \subseteq S
  OBVIOUS
<1>3. QED
  BY <1>1, <1>2, Counting

\* A set of numbers that is not empty has a least one.
LEMMA Least == ASSUME NEW T, T \subseteq Nat, T # {} PROVE \E m \in T : \A k \in T : m <= k
<1>1. PICK m \in T : \A k \in T : <<k, m>> \notin OpToRel(<, Nat)
  BY WFMin, NatLessThanWellFounded, Zenon
<1>2. \A k \in T : ~(k < m)
  BY <1>1, Zenon DEF OpToRel
<1>3. m \in Nat /\ \A k \in T : k \in Nat
  OBVIOUS
<1>4. \A k \in T : m <= k
  BY <1>2, <1>3
<1>5. QED
  BY <1>4

\* The functions from one finite set to another are finitely many.
LEMMA FiniteFunctions ==
  ASSUME NEW S, IsFiniteSet(S), NEW T, IsFiniteSet(T) PROVE IsFiniteSet([S -> T])
<1> DEFINE graph == [f \in [S -> T] |-> {<<x, f[x]>> : x \in S}]
<1>1. IsFiniteSet(SUBSET (S \X T))
  BY FS_Product, FS_SUBSET
<1>2. graph \in [[S -> T] -> SUBSET (S \X T)]
  OBVIOUS
<1>3. ASSUME NEW f \in [S -> T], NEW g \in [S -> T], graph[f] = graph[g] PROVE f = g
  <2>1. \A x \in S : <<x, f[x]>> \in graph[g]
    BY <1>3
  <2>2. \A x \in S : f[x] = g[x]
    BY <2>1
  <2>3. QED
    BY <2>2
<1>4. graph \in Injection([S -> T], SUBSET (S \X T))
  BY <1>2, <1>3 DEF Injection, IsInjective
<1>5. QED
  BY <1>1, <1>4, FS_Injection

\* A function on the first numbers is a sequence.
LEMMA SeqDef ==
  ASSUME NEW n \in Nat, NEW S, NEW f \in [1 .. n -> S]
  PROVE  f \in Seq(S) /\ Len(f) = n
  OBVIOUS

\* A sequence with one element replaced.
LEMMA SeqUpdate ==
  ASSUME NEW S, NEW s \in Seq(S), NEW k \in 1 .. Len(s), NEW e \in S
  PROVE  /\ [s EXCEPT ![k] = e] \in Seq(S) /\ Len([s EXCEPT ![k] = e]) = Len(s)
         /\ \A i \in 1 .. Len(s) : [s EXCEPT ![k] = e][i] = IF i = k THEN e ELSE s[i]
  OBVIOUS

LEMMA SeqElement ==
  ASSUME NEW S, NEW s \in Seq(S), NEW i \in 1 .. Len(s) PROVE s[i] \in S
  OBVIOUS

-----------------------------------------------------------------------------
(* Secrets: x1 row, x2 cached, x3 cache, x4 call, x5 stale               *)

LEMMA SecretTypeInit == Secret!Init => Secret!TypeOK
<1> SUFFICES ASSUME Secret!Init PROVE Secret!TypeOK
  OBVIOUS
<1>1. Secret!Idle \in Secret!Calls
  BY DEF Secret!Idle, Secret!Calls
<1>2. x4 \in [Call -> Secret!Calls]
  BY <1>1 DEF Secret!Init
<1>3. x1 \in Value \cup {NoValue} /\ x3 \in Value \cup {NoValue}
  BY DEF Secret!Init
<1>4. x2 \in BOOLEAN /\ x5 \in BOOLEAN
  BY DEF Secret!Init
<1>5. QED BY <1>2, <1>3, <1>4 DEF Secret!TypeOK

LEMMA SecretTypeNext == ASSUME Secret!TypeOK, [Secret!Next]_(Secret!vars) PROVE Secret!TypeOK'
<1> USE DEF Secret!TypeOK, Secret!Calls, Secret!Idle, Secret!Going, Secret!Keep, Secret!At
<1>1. ASSUME NEW h \in Call, Secret!Miss(h) PROVE Secret!TypeOK'
  BY <1>1 DEF Secret!Miss
<1>2. ASSUME NEW h \in Call, Secret!Fill(h) PROVE Secret!TypeOK'
  BY <1>2 DEF Secret!Fill
<1>3. ASSUME NEW h \in Call, Secret!Land(h) PROVE Secret!TypeOK'
  BY <1>3 DEF Secret!Land
<1>4. ASSUME NEW h \in Call, Secret!Lost(h) PROVE Secret!TypeOK'
  BY <1>4 DEF Secret!Lost
<1>5. ASSUME NEW h \in Call, NEW v \in Value \cup {NoValue}, Secret!Write(h, v) PROVE Secret!TypeOK'
  <2>1. x4' \in [Call -> Secret!Calls]
    BY <1>5 DEF Secret!Write
  <2>2. QED BY <1>5, <2>1 DEF Secret!Write
<1>6. CASE Secret!Restart
  BY <1>6 DEF Secret!Restart
<1>7. CASE UNCHANGED Secret!vars
  BY <1>7 DEF Secret!vars
<1>8. QED BY <1>1, <1>2, <1>3, <1>4, <1>5, <1>6, <1>7 DEF Secret!Next

\* A step that ends one call, or begins it holding the row, and leaves the
\* row alone.
LEMMA SecretOneCall ==
    ASSUME Secret!TypeOK, Secret!HoldsRow, NEW h \in Call, NEW c \in Secret!Calls,
           x4' = [x4 EXCEPT ![h] = c], c.at = "idle" \/ c.val = x1, x1' = x1
    PROVE  Secret!HoldsRow'
BY DEF Secret!TypeOK, Secret!HoldsRow, Secret!At, Secret!Calls

LEMMA SecretHoldsNext == ASSUME Secret!TypeOK, Secret!HoldsRow, [Secret!Next]_(Secret!vars) PROVE Secret!HoldsRow'
<1> USE DEF Secret!Calls, Secret!Idle, Secret!Going, Secret!At
<1>0. NoValue \in Value \cup {NoValue} /\ Secret!Idle \in Secret!Calls
  OBVIOUS
<1>1. ASSUME NEW h \in Call, Secret!Miss(h) PROVE Secret!HoldsRow'
  <2>1. Secret!Going("get", x1) \in Secret!Calls BY DEF Secret!TypeOK
  <2>2. QED BY <1>1, <2>1, SecretOneCall DEF Secret!Miss
<1>2. ASSUME NEW h \in Call, Secret!Fill(h) PROVE Secret!HoldsRow'
  BY <1>0, <1>2, SecretOneCall DEF Secret!Fill
<1>3. ASSUME NEW h \in Call, Secret!Land(h) PROVE Secret!HoldsRow'
  BY <1>0, <1>3, SecretOneCall DEF Secret!Land
<1>4. ASSUME NEW h \in Call, Secret!Lost(h) PROVE Secret!HoldsRow'
  BY <1>0, <1>4, SecretOneCall DEF Secret!Lost
<1>5. ASSUME NEW h \in Call, NEW v \in Value \cup {NoValue}, Secret!Write(h, v) PROVE Secret!HoldsRow'
  BY <1>5 DEF Secret!Write, Secret!HoldsRow, Secret!TypeOK
<1>6. CASE Secret!Restart
  BY <1>6 DEF Secret!Restart, Secret!HoldsRow
<1>7. CASE UNCHANGED Secret!vars
  BY <1>7 DEF Secret!vars, Secret!HoldsRow
<1>8. QED BY <1>1, <1>2, <1>3, <1>4, <1>5, <1>6, <1>7 DEF Secret!Next

LEMMA SecretCurrentNext == ASSUME Secret!TypeOK, Secret!HoldsRow, Secret!CacheCurrent, [Secret!Next]_(Secret!vars) PROVE Secret!CacheCurrent'
<1> USE DEF Secret!TypeOK, Secret!Calls, Secret!Idle, Secret!Going, Secret!Keep, Secret!At
<1>1. ASSUME NEW h \in Call, Secret!Miss(h) PROVE Secret!CacheCurrent'
  BY <1>1 DEF Secret!Miss, Secret!CacheCurrent
<1>2. ASSUME NEW h \in Call, Secret!Fill(h) PROVE Secret!CacheCurrent'
  BY <1>2 DEF Secret!Fill, Secret!HoldsRow, Secret!CacheCurrent
<1>3. ASSUME NEW h \in Call, Secret!Land(h) PROVE Secret!CacheCurrent'
  BY <1>3 DEF Secret!Land, Secret!HoldsRow, Secret!CacheCurrent
<1>4. ASSUME NEW h \in Call, Secret!Lost(h) PROVE Secret!CacheCurrent'
  BY <1>4 DEF Secret!Lost, Secret!CacheCurrent
<1>5. ASSUME NEW h \in Call, NEW v \in Value \cup {NoValue}, Secret!Write(h, v) PROVE Secret!CacheCurrent'
  <2>1. x4'[h].at = "set" BY <1>5 DEF Secret!Write
  <2>2. QED BY <2>1 DEF Secret!CacheCurrent
<1>6. CASE Secret!Restart
  BY <1>6 DEF Secret!Restart, Secret!CacheCurrent
<1>7. CASE UNCHANGED Secret!vars
  BY <1>7 DEF Secret!vars, Secret!CacheCurrent
<1>8. QED BY <1>1, <1>2, <1>3, <1>4, <1>5, <1>6, <1>7 DEF Secret!Next

LEMMA SecretInitially == Secret!Init => Secret!IInv
BY SecretTypeInit
   DEF Secret!Init, Secret!IInv, Secret!HoldsRow, Secret!CacheCurrent, Secret!At, Secret!Idle

LEMMA SecretInductive == ASSUME Secret!IInv, [Secret!Next]_(Secret!vars) PROVE Secret!IInv'
BY SecretTypeNext, SecretHoldsNext, SecretCurrentNext DEF Secret!IInv

(***************************************************************************)
(* For any number of calls and values: the credential that calls are       *)
(* served, once every change has landed, is the one set last, unless it    *)
(* was overtaken by a later write and kept after it.                       *)
(***************************************************************************)
THEOREM CacheIsCurrent == MCSpec => []CacheCurrent
<1> DEFINE Inv == which = "secret" => Secret!IInv
<1>1. MCInit => Inv
  BY SecretInitially DEF MCInit
<1>2. Inv /\ [MCNext]_<<which, vars, xs>> => Inv'
  <2> SUFFICES ASSUME which = "secret", Secret!IInv, [Secret!Next]_(Secret!vars)
               PROVE  Secret!IInv'
    BY DEF MCNext, xs, Secret!vars
  <2> QED
    BY SecretInductive
<1>3. Inv => CacheCurrent
  BY DEF CacheCurrent, Secret!IInv
<1>4. QED
  BY <1>1, <1>2, <1>3, PTL DEF MCSpec

-----------------------------------------------------------------------------
(* Catalogue: x1 title, x2 live, x3 account, x4 listed, x5 jar, x6 page,    *)
(* x7 stale, x8 token                                                      *)

Viewer == [tester: BOOLEAN, early: BOOLEAN]

(***************************************************************************)
(* The rule is written as a Prisma filter, as SQL, as a question about one *)
(* title (titles/audience.ts) and as a filter on handsets (push.service):  *)
(* for every viewer, title and mode the four give one answer.              *)
(***************************************************************************)
THEOREM SpellingsAgree ==
    ASSUME NEW v \in Viewer, NEW t, t.published \in BOOLEAN, t.isTest \in BOOLEAN,
           NEW mode \in BOOLEAN
    PROVE  /\ Pages!Admits(Pages!AudienceWhere(v, mode), t) <=> Pages!MayViewTitle(v, t, mode)
           /\ Pages!AudienceSql(v, mode, t) <=> Pages!MayViewTitle(v, t, mode)
           /\ Pages!Told(v, Pages!NotifiableAudience(t, mode)) <=> Pages!MayViewTitle(v, t, mode)
<1>1. v.tester \in BOOLEAN /\ v.early \in BOOLEAN
  BY DEF Viewer
<1>2. Pages!Admits(Pages!AudienceWhere(v, mode), t) <=> Pages!MayViewTitle(v, t, mode)
  BY <1>1 DEF Pages!Admits, Pages!AudienceWhere, Pages!MayViewTitle
<1>3. Pages!AudienceSql(v, mode, t) <=> Pages!MayViewTitle(v, t, mode)
  BY <1>1 DEF Pages!AudienceSql, Pages!MayViewTitle
<1>4. Pages!Told(v, Pages!NotifiableAudience(t, mode)) <=> Pages!MayViewTitle(v, t, mode)
  BY <1>1 DEF Pages!Told, Pages!NotifiableAudience, Pages!MayViewTitle, Pages!Nobody
<1> QED BY <1>2, <1>3, <1>4

\* What browsers and apps do about their sessions.
PagesClient(u) == \/ Pages!SignIn(u) \/ Pages!Refresh(u) \/ Pages!EndSession(u) \/ Pages!Logout(u)
                  \/ Pages!Obtain(u) \/ Pages!Expire(u) \/ Pages!Forget(u)

LEMMA PagesTypeStep ==
    ASSUME Pages!TypeOK, [Pages!Next]_(Pages!vars)
    PROVE  Pages!TypeOK'
<1>1. CASE Pages!Edit BY <1>1 DEF Pages!Edit, Pages!TypeOK
<1>2. CASE Pages!Remove BY <1>2 DEF Pages!Remove, Pages!TypeOK
<1>3. CASE Pages!SwitchMode BY <1>3 DEF Pages!SwitchMode, Pages!TypeOK
<1>4. ASSUME NEW u \in User, Pages!Toggle(u) PROVE Pages!TypeOK'
  <2>1. PICK f \in {"tester", "early", "banned"} :
            x3' = [x3 EXCEPT ![u][f] = ~x3[u][f]]
    BY <1>4 DEF Pages!Toggle
  <2>2. x3[u] \in [tester: BOOLEAN, early: BOOLEAN, banned: BOOLEAN]
    BY DEF Pages!TypeOK
  <2>3. [x3[u] EXCEPT ![f] = ~x3[u][f]] \in
            [tester: BOOLEAN, early: BOOLEAN, banned: BOOLEAN]
    <3>1. CASE f = "tester" BY <2>2, <3>1
    <3>2. CASE f = "early" BY <2>2, <3>2
    <3>3. CASE f = "banned" BY <2>2, <3>3
    <3> QED BY <3>1, <3>2, <3>3
  <2>4. x3' = [x3 EXCEPT ![u] = [x3[u] EXCEPT ![f] = ~x3[u][f]]]
    BY <2>1
  <2>5. x3' \in [User -> [tester: BOOLEAN, early: BOOLEAN, banned: BOOLEAN]]
    BY <2>3, <2>4 DEF Pages!TypeOK
  <2> QED BY <1>4, <2>5 DEF Pages!Toggle, Pages!TypeOK
<1>5. CASE UNCHANGED <<x1, x2, x3>> BY <1>5 DEF Pages!TypeOK
<1>6. ASSUME NEW u \in User, PagesClient(u) \/ Pages!Add(u) \/ Pages!Take(u) \/ Pages!Visit(u)
      PROVE  UNCHANGED <<x1, x2, x3>>
  BY <1>6
     DEF PagesClient, Pages!SignIn, Pages!Refresh, Pages!EndSession, Pages!Logout,
         Pages!Obtain, Pages!Expire, Pages!Forget, Pages!Add, Pages!Take, Pages!Visit,
         Pages!Ask, Pages!world
<1>7. CASE Pages!ReadMode \/ Pages!Query \/ Pages!Leave \/ UNCHANGED Pages!vars
  BY <1>7, <1>5 DEF Pages!ReadMode, Pages!Query, Pages!Leave, Pages!world, Pages!vars
<1> QED BY <1>1, <1>2, <1>3, <1>4, <1>5, <1>6, <1>7 DEF Pages!Next, PagesClient

\* Whatever changes the world marks the page as overtaken, and leaves it be.
LEMMA PagesChangeStep ==
    ASSUME Pages!IInv, Pages!Next, ~UNCHANGED Pages!world
    PROVE  x7' = TRUE /\ x6' = x6
<1>1. CASE Pages!Edit \/ Pages!Remove \/ Pages!SwitchMode
  BY <1>1 DEF Pages!Edit, Pages!Remove, Pages!SwitchMode, Pages!Change
<1>2. ASSUME NEW u \in User, Pages!Toggle(u) \/ PagesClient(u) \/ Pages!Add(u) \/ Pages!Take(u)
      PROVE  x7' = TRUE /\ x6' = x6
  BY <1>2
     DEF Pages!Toggle, PagesClient, Pages!SignIn, Pages!Refresh, Pages!EndSession,
         Pages!Logout, Pages!Obtain, Pages!Expire, Pages!Forget, Pages!Add, Pages!Take,
         Pages!Change
<1>3. ASSUME NEW u \in User, Pages!Visit(u) PROVE FALSE
  BY <1>3 DEF Pages!Visit, Pages!Ask
<1>4. CASE Pages!ReadMode \/ Pages!Query \/ Pages!Leave
  BY <1>4 DEF Pages!ReadMode, Pages!Query, Pages!Leave
<1> QED BY <1>1, <1>2, <1>3, <1>4 DEF Pages!Next, PagesClient

\* The pages' own steps change nothing else.
LEMMA PagesPageStep ==
    ASSUME Pages!Next, UNCHANGED Pages!world
    PROVE  \/ x7' = TRUE /\ x6' = x6
           \/ (\E u \in User : Pages!Visit(u))
           \/ Pages!ReadMode \/ Pages!Query \/ Pages!Leave
<1>1. CASE Pages!Edit \/ Pages!Remove \/ Pages!SwitchMode
  BY <1>1 DEF Pages!Edit, Pages!Remove, Pages!SwitchMode, Pages!Change
<1>2. ASSUME NEW u \in User, Pages!Toggle(u) \/ PagesClient(u) \/ Pages!Add(u) \/ Pages!Take(u)
      PROVE  x7' = TRUE /\ x6' = x6
  BY <1>2
     DEF Pages!Toggle, PagesClient, Pages!SignIn, Pages!Refresh, Pages!EndSession,
         Pages!Logout, Pages!Obtain, Pages!Expire, Pages!Forget, Pages!Add, Pages!Take,
         Pages!Change
<1> QED BY <1>1, <1>2 DEF Pages!Next, PagesClient

LEMMA PagesInitially == Pages!Init => Pages!IInv
<1> SUFFICES ASSUME Pages!Init PROVE Pages!IInv OBVIOUS
<1>1. x6 = [stage |-> "free"] BY DEF Pages!Init, Pages!Free
<1>2. x6.stage = "free" BY <1>1
<1> QED BY <1>2 DEF Pages!Init, Pages!IInv, Pages!TypeOK, Pages!Served, Pages!ReadsCurrent, Pages!OneCatalogue

\* A query answers by the rule.
LEMMA PagesQueryAnswers ==
    ASSUME Pages!TypeOK, Pages!ReadsCurrent, Pages!Served, x6.stage = "query", Pages!Identified
    PROVE  /\ Pages!Found <=> (x1.exists /\ Pages!MayViewTitle(Pages!Flags(x6.user), x1, x2))
           /\ Pages!InTop10 <=> (x1.exists /\ Pages!MayViewTitle(Pages!Flags(x6.user), x1, x2))
           /\ Pages!OnMyList <=> /\ x1.exists /\ Pages!MayViewTitle(Pages!Flags(x6.user), x1, x2)
                                 /\ x6.user \in x4
<1>1. x6.viewer = Pages!Flags(x6.user) /\ x6.live = x2
  BY DEF Pages!ReadsCurrent
<1>2. Pages!Flags(x6.user) \in Viewer
  BY DEF Pages!Identified, Pages!TypeOK, Pages!Flags, Viewer
<1>3. x1.published \in BOOLEAN /\ x1.isTest \in BOOLEAN /\ x2 \in BOOLEAN
  BY DEF Pages!TypeOK
<1>4. /\ Pages!Admits(Pages!AudienceWhere(Pages!Flags(x6.user), x2), x1)
           <=> Pages!MayViewTitle(Pages!Flags(x6.user), x1, x2)
      /\ Pages!AudienceSql(Pages!Flags(x6.user), x2, x1)
           <=> Pages!MayViewTitle(Pages!Flags(x6.user), x1, x2)
  BY <1>2, <1>3, SpellingsAgree
<1>5. Pages!Found <=> (x1.exists /\ Pages!MayViewTitle(Pages!Flags(x6.user), x1, x2))
  BY <1>1, <1>4 DEF Pages!Found
<1>6. Pages!InTop10 <=> (x1.exists /\ Pages!MayViewTitle(Pages!Flags(x6.user), x1, x2))
  BY <1>1, <1>4, <1>5 DEF Pages!InTop10
<1> QED BY <1>5, <1>6 DEF Pages!OnMyList

LEMMA PagesInductive == ASSUME Pages!IInv, [Pages!Next]_(Pages!vars) PROVE Pages!IInv'
<1>t. Pages!TypeOK' BY PagesTypeStep DEF Pages!IInv
<1>1. CASE UNCHANGED Pages!vars
  BY <1>1, <1>t
     DEF Pages!IInv, Pages!vars, Pages!world, Pages!TypeOK, Pages!Served, Pages!ReadsCurrent,
         Pages!Identified, Pages!Known, Pages!OneCatalogue, Pages!Flags
<1>2. CASE x7' = TRUE /\ x6' = x6
  BY <1>2, <1>t DEF Pages!IInv, Pages!Served, Pages!OneCatalogue
<1>3. ASSUME NEW u \in User, Pages!Visit(u), UNCHANGED Pages!world PROVE Pages!IInv'
  <2>1. PICK by \in {"app", "web", "list"}, viewer \in {Pages!AudienceFromToken(u),
                     Pages!AudienceFromCookies(u), Pages!Flags(u)} :
          /\ Pages!Ask(u, by, viewer)
          /\ by = "app" => viewer = Pages!AudienceFromToken(u)
          /\ by = "web" => viewer = Pages!AudienceFromCookies(u)
          /\ by = "list" => viewer = Pages!Flags(u)
    BY <1>3 DEF Pages!Visit
  <2>2. x6'.stage = "mode" /\ x6'.user = u /\ x6'.by = by /\ x6'.viewer = viewer
    BY <2>1 DEF Pages!Ask
  <2>3. Pages!Known(u)' => x6'.viewer = Pages!Flags(u)
    BY <1>3, <2>1, <2>2
       DEF Pages!Known, Pages!AudienceFromToken, Pages!AudienceFromCookies, Pages!world
  <2>4. Pages!ReadsCurrent'
    BY <1>3, <2>2, <2>3 DEF Pages!ReadsCurrent, Pages!Identified, Pages!Flags, Pages!world
  <2> QED BY <1>t, <2>2, <2>4 DEF Pages!IInv, Pages!Served, Pages!OneCatalogue
<1>4. CASE Pages!ReadMode /\ UNCHANGED Pages!world
  <2>1. x6.stage = "mode" /\ x6'.stage = "query" /\ x6'.user = x6.user
        /\ x6'.by = x6.by /\ x6'.viewer = x6.viewer /\ x6'.live = x2
        /\ x7' = x7
    BY <1>4 DEF Pages!ReadMode
  <2>2. ~x7' => Pages!ReadsCurrent'
    BY <1>4, <2>1
       DEF Pages!IInv, Pages!ReadsCurrent, Pages!Identified, Pages!Known, Pages!Flags,
           Pages!world
  <2> QED BY <1>t, <2>1, <2>2 DEF Pages!IInv, Pages!Served, Pages!OneCatalogue
<1>5. CASE Pages!Query /\ UNCHANGED Pages!world
  <2> DEFINE May == x1.exists /\ Pages!MayViewTitle(Pages!Flags(x6.user), x1, x2)
             Shown == May /\ (x6.by = "list" => x6.user \in x4)
  <2>1. x6.stage = "query" /\ x6'.stage = "shown" /\ x6'.user = x6.user
        /\ x6'.by = x6.by /\ x7' = x7 /\ x4' = x4
        /\ x6'.rails = IF x6.by = "list" THEN {Pages!OnMyList} ELSE {Pages!Found, Pages!InTop10}
    BY <1>5 DEF Pages!Query
  <2>2. x6.user \in User BY <2>1 DEF Pages!IInv, Pages!Served
  <2>3. ASSUME ~x7', Pages!Known(x6.user)' PROVE x6'.rails = {Shown}
    <3>1. Pages!Identified BY <1>5, <2>1, <2>2, <2>3 DEF Pages!Identified, Pages!Known, Pages!world
    <3>2. Pages!ReadsCurrent /\ Pages!TypeOK /\ Pages!Served BY <2>1, <2>3 DEF Pages!IInv
    <3>3. /\ Pages!Found <=> May
          /\ Pages!InTop10 <=> May
          /\ Pages!OnMyList <=> May /\ x6.user \in x4
      BY <2>1, <3>1, <3>2, PagesQueryAnswers
    <3>4. Pages!Found \in BOOLEAN /\ Pages!InTop10 \in BOOLEAN /\ Pages!OnMyList \in BOOLEAN
          /\ Shown \in BOOLEAN
      BY DEF Pages!Found, Pages!InTop10, Pages!OnMyList
    <3>5. CASE x6.by = "list"
      <4>1. Pages!OnMyList = Shown BY <3>3, <3>4, <3>5
      <4> QED BY <2>1, <3>5, <4>1
    <3>6. CASE x6.by # "list"
      <4>1. Pages!Found = Shown /\ Pages!InTop10 = Shown BY <3>3, <3>4, <3>6
      <4> QED BY <2>1, <3>6, <4>1
    <3> QED BY <3>5, <3>6
  <2>4. Pages!Flags(x6.user)' = Pages!Flags(x6.user) /\ x1' = x1 /\ x2' = x2
    BY <1>5, <2>1 DEF Pages!Flags, Pages!world
  <2>5. Pages!OneCatalogue'
    <3>1. SUFFICES ASSUME ~x7', Pages!Known(x6.user)'
                   PROVE  x6'.rails = {Shown'}
      BY DEF Pages!OneCatalogue
    <3>2. Shown' = Shown BY <2>1, <2>4
    <3> QED BY <2>3, <3>1, <3>2
  <2> QED BY <1>t, <2>1, <2>2, <2>5 DEF Pages!IInv, Pages!Served, Pages!ReadsCurrent
<1>6. CASE Pages!Leave
  BY <1>6, <1>t
     DEF Pages!Leave, Pages!Free, Pages!IInv, Pages!Served, Pages!ReadsCurrent,
         Pages!OneCatalogue
<1>7. CASE Pages!Next /\ ~UNCHANGED Pages!world
  BY <1>7, <1>2, PagesChangeStep
<1>8. CASE Pages!Next /\ UNCHANGED Pages!world
  BY <1>8, <1>2, <1>3, <1>4, <1>5, <1>6, PagesPageStep
<1> QED BY <1>1, <1>7, <1>8

(***************************************************************************)
(* For any number of accounts, sessions and access tokens: a reader who is *)
(* known has one catalogue, unless something changed since the page was    *)
(* asked for.                                                              *)
(***************************************************************************)
THEOREM OneCatalogueHolds == MCSpec => []OneCatalogue
<1> DEFINE Inv == which = "pages" => Pages!IInv
<1>1. MCInit => Inv
  BY PagesInitially DEF MCInit
<1>2. Inv /\ [MCNext]_<<which, vars, xs>> => Inv'
  <2> SUFFICES ASSUME which = "pages", Pages!IInv, [Pages!Next]_(Pages!vars)
               PROVE  Pages!IInv'
    BY DEF MCNext, xs, Pages!vars, Pages!world
  <2> QED
    BY PagesInductive
<1>3. Inv => OneCatalogue
  BY DEF OneCatalogue, Pages!IInv
<1>4. QED
  BY <1>1, <1>2, <1>3, PTL DEF MCSpec

-----------------------------------------------------------------------------
(* DevBypass: x1 row, x2 attempt, x3 panel, x4 guesses                      *)

\* An instance has its own name for an operator of the standard modules.
LEMMA BypassCardinality == \A S : Bypass!Cardinality(S) = Cardinality(S)
BY DEF Bypass!Cardinality, Cardinality

\* One sign-in goes on to another stage, and with it in or out of those that
\* are about to be charged.
LEMMA BypassChargingMoves ==
  ASSUME Bypass!TypeOK, NEW h \in Handler, NEW s \in {"free", "reset", "charge", "add", "off"},
         Bypass!Goes(h, s)
  PROVE  /\ x2' \in [Handler -> {"free", "reset", "charge", "add", "off"}]
         /\ Cardinality(Bypass!Charging)' \in Nat
         /\ s \in {"charge", "add"} /\ h \notin Bypass!Charging
              => /\ Cardinality(Bypass!Charging)' = Cardinality(Bypass!Charging) + 1
                 /\ Cardinality(Bypass!Charging) < Cardinality(Handler)
         /\ s \in {"charge", "add"} /\ h \in Bypass!Charging
              => Cardinality(Bypass!Charging)' = Cardinality(Bypass!Charging)
         /\ s \notin {"charge", "add"} /\ h \in Bypass!Charging
              => Cardinality(Bypass!Charging)' = Cardinality(Bypass!Charging) - 1
<1>1. x2' \in [Handler -> {"free", "reset", "charge", "add", "off"}]
      /\ \A g \in Handler : x2'[g] = IF g = h THEN s ELSE x2[g]
  BY DEF Bypass!TypeOK, Bypass!Goes
<1>2. Bypass!Charging' = IF s \in {"charge", "add"} THEN Bypass!Charging \cup {h} ELSE Bypass!Charging \ {h}
  BY <1>1 DEF Bypass!Charging
<1>3. Bypass!Charging \subseteq Handler /\ Bypass!Charging' \subseteq Handler
  BY DEF Bypass!Charging
<1>4. Cardinality(Bypass!Charging') \in Nat
  BY <1>3, CapAssumption, Counting
<1>5. h \notin Bypass!Charging => Cardinality(Bypass!Charging \cup {h}) = Cardinality(Bypass!Charging) + 1
                           /\ Cardinality(Bypass!Charging) < Cardinality(Handler)
  BY <1>3, CapAssumption, Counting
<1>6. h \in Bypass!Charging => /\ Cardinality(Bypass!Charging \ {h}) = Cardinality(Bypass!Charging) - 1
                               /\ Bypass!Charging \cup {h} = Bypass!Charging
  BY <1>3, CapAssumption, Counting
<1>7. QED
  BY <1>1, <1>2, <1>4, <1>5, <1>6

LEMMA BypassNumbers ==
  ASSUME Bypass!TypeOK
  PROVE  /\ BypassLimit \in Nat /\ BypassLimit > 0 /\ BypassCap \in Nat /\ BypassCap >= BypassLimit
         /\ x1.failures \in Nat /\ x1.failures <= BypassCap /\ x4 \in Nat
         /\ Cardinality(Bypass!Charging) \in Nat /\ Cardinality(Handler) \in Nat
<1>1. Bypass!Charging \subseteq Handler
  BY DEF Bypass!Charging
<1>2. QED
  BY <1>1, SideAssumption, CapAssumption, Counting DEF Bypass!TypeOK

LEMMA BypassInitially == Bypass!Init => Bypass!IInv
<1> SUFFICES ASSUME Bypass!Init PROVE Bypass!IInv
  OBVIOUS
<1>1. Bypass!TypeOK
  BY SideAssumption DEF Bypass!Init, Bypass!TypeOK
<1>2. x1.failures = 0 /\ x4 = 0
  BY DEF Bypass!Init
<1>3. Bypass!GuessesCounted /\ Bypass!BypassGuessesBounded
  BY <1>1, <1>2, BypassNumbers, BypassCardinality
     DEF Bypass!GuessesCounted, Bypass!BypassGuessesBounded
<1>4. Bypass!OffMeansDead
  BY DEF Bypass!Init, Bypass!OffMeansDead
<1>5. QED
  BY <1>1, <1>3, <1>4 DEF Bypass!IInv

\* What a page does, but for a change: the row, the sign-ins and the guesses are
\* left alone.
LEMMA BypassPageStep ==
  ASSUME Bypass!IInv, NEW p \in Handler, Bypass!Load(p) \/ Bypass!Land(p) \/ Bypass!Lost(p) \/ Bypass!Status(p)
  PROVE  Bypass!IInv'
<1> DEFINE PanelStates == [Handler -> [shows: {"nothing", "on", "off"}, overtaken: BOOLEAN,
                               patch: {"no", "written", "on", "off"}]]
<1>1. /\ Bypass!TypeOK /\ Bypass!GuessesCounted /\ Bypass!OffMeansDead /\ Bypass!BypassGuessesBounded
      /\ x3 \in PanelStates
  BY DEF Bypass!IInv, Bypass!TypeOK
<1>2. UNCHANGED <<x1, x2, x4>>
  BY DEF Bypass!Load, Bypass!Land, Bypass!Lost, Bypass!Status
<1>3. x3' \in PanelStates /\ Bypass!OffMeansDead'
  <2>1. CASE Bypass!Load(p)
    <3>1. x3' = [x3 EXCEPT ![p] = [shows |-> "nothing", overtaken |-> FALSE,
                                         patch |-> IF x1.enabled THEN "on" ELSE "off"]]
      BY <2>1 DEF Bypass!Load
    <3>2. x3' \in PanelStates
      BY <1>1, <3>1
    <3>3. QED
      BY <1>1, <1>2, <3>1, <3>2 DEF Bypass!OffMeansDead
  <2>2. CASE Bypass!Land(p)
    <3>1. /\ x3[p].patch \in {"on", "off"}
          /\ x3' = [x3 EXCEPT ![p].patch = "no", ![p].shows = x3[p].patch]
      BY <2>2 DEF Bypass!Land
    <3>2. x3' \in PanelStates
      BY <1>1, <3>1
    <3>3. QED
      BY <1>1, <1>2, <3>1, <3>2 DEF Bypass!OffMeansDead
  <2>3. CASE Bypass!Lost(p)
    <3>1. x3' = [x3 EXCEPT ![p].patch = "no", ![p].overtaken = TRUE]
      BY <2>3 DEF Bypass!Lost
    <3>2. x3' \in PanelStates
      BY <1>1, <3>1
    <3>3. QED
      BY <1>1, <1>2, <3>1, <3>2 DEF Bypass!OffMeansDead
  <2>4. CASE Bypass!Status(p)
    <3>1. x3' = [x3 EXCEPT ![p].overtaken = FALSE,
                                 ![p].patch = IF x1.enabled THEN "on" ELSE "off"]
      BY <2>4 DEF Bypass!Status
    <3>2. x3' \in PanelStates
      BY <1>1, <3>1
    <3>3. QED
      BY <1>1, <1>2, <3>1, <3>2 DEF Bypass!OffMeansDead
  <2>5. QED
    BY <2>1, <2>2, <2>3, <2>4
<1>4. QED
  BY <1>1, <1>2, <1>3, BypassCardinality
     DEF Bypass!IInv, Bypass!TypeOK, Bypass!GuessesCounted, Bypass!Charging,
         Bypass!BypassGuessesBounded

\* An admin's change: the count of guesses starts anew, and the other pages are
\* overtaken.  If it is refused, nothing answers.
LEMMA BypassChangeStep ==
  ASSUME Bypass!IInv, NEW p \in Handler, NEW new, Bypass!Configured(p, new),
         new \in [enabled: BOOLEAN, set: BOOLEAN, listed: BOOLEAN, failures: 0..BypassCap]
  PROVE  Bypass!IInv'
<1>1. /\ x3 \in [Handler -> [shows: {"nothing", "on", "off"}, overtaken: BOOLEAN,
                              patch: {"no", "written", "on", "off"}]]
      /\ x1' = new /\ x4' = 0 /\ x2' = x2
      /\ x3' = [q \in Handler |->
                     IF q # p THEN [x3[q] EXCEPT !.overtaken = TRUE]
                     ELSE [x3[q] EXCEPT !.patch = IF Bypass!Refuses(new) THEN "no" ELSE "written"]]
  BY DEF Bypass!IInv, Bypass!TypeOK, Bypass!Configured
<1>2. \A q \in Handler : q # p => /\ x3'[q] = [x3[q] EXCEPT !.overtaken = TRUE]
                                  /\ x3'[q].overtaken
  BY <1>1
<1>3. /\ x3'[p] = [x3[p] EXCEPT !.patch = IF Bypass!Refuses(new) THEN "no" ELSE "written"]
      /\ x3'[p].patch = IF Bypass!Refuses(new) THEN "no" ELSE "written"
  BY <1>1
<1>4. x3' \in [Handler -> [shows: {"nothing", "on", "off"}, overtaken: BOOLEAN,
                            patch: {"no", "written", "on", "off"}]]
  BY <1>1
<1>5. Bypass!TypeOK'
  BY <1>1, <1>4 DEF Bypass!IInv, Bypass!TypeOK
<1>6. Bypass!OffMeansDead'
  BY <1>1, <1>2, <1>3 DEF Bypass!OffMeansDead, Bypass!Refuses
<1>7. Bypass!GuessesCounted' /\ Bypass!BypassGuessesBounded'
  <2>1. Bypass!Charging' = Bypass!Charging /\ new.failures \in Nat
    BY <1>1 DEF Bypass!Charging
  <2>2. QED
    BY <1>1, <2>1, BypassNumbers, BypassCardinality
       DEF Bypass!IInv, Bypass!GuessesCounted, Bypass!BypassGuessesBounded
<1>8. QED
  BY <1>5, <1>6, <1>7 DEF Bypass!IInv

LEMMA BypassInductive == ASSUME Bypass!IInv, [Bypass!Next]_(Bypass!vars) PROVE Bypass!IInv'
<1>1. Bypass!TypeOK /\ Bypass!GuessesCounted /\ Bypass!OffMeansDead /\ Bypass!BypassGuessesBounded
  BY DEF Bypass!IInv
<1>2. x1 \in [enabled: BOOLEAN, set: BOOLEAN, listed: BOOLEAN, failures: 0..BypassCap]
  BY <1>1 DEF Bypass!TypeOK
<1>3. ASSUME NEW h \in Handler, Bypass!Match(h) PROVE Bypass!IInv'
  <2>1. CASE Bypass!Answers /\ x1.failures > 0 /\ Bypass!Goes(h, "reset") /\ UNCHANGED x4
    <3>1. h \notin Bypass!Charging /\ x1' = x1 /\ x3' = x3
      BY <1>3 DEF Bypass!Match, Bypass!Charging
    <3>2. x2' \in [Handler -> {"free", "reset", "charge", "add", "off"}]
      BY <1>1, <2>1, BypassChargingMoves
    <3>3. Bypass!Charging' = Bypass!Charging
      BY <1>1, <2>1, <3>1 DEF Bypass!Charging, Bypass!Goes, Bypass!TypeOK
    <3>4. QED
      BY <1>1, <2>1, <3>1, <3>2, <3>3, BypassCardinality
         DEF Bypass!IInv, Bypass!TypeOK, Bypass!GuessesCounted, Bypass!OffMeansDead,
             Bypass!BypassGuessesBounded
  <2>2. CASE Bypass!Goes(h, "charge") /\ x4' = IF Bypass!Answers THEN x4 + 1 ELSE x4
    <3>1. h \notin Bypass!Charging /\ x1' = x1 /\ x3' = x3
      BY <1>3 DEF Bypass!Match, Bypass!Charging
    <3>2. /\ x2' \in [Handler -> {"free", "reset", "charge", "add", "off"}]
          /\ Cardinality(Bypass!Charging)' = Cardinality(Bypass!Charging) + 1
          /\ Cardinality(Bypass!Charging) < Cardinality(Handler)
      BY <1>1, <2>2, <3>1, BypassChargingMoves
    <3>3. x4' \in Nat /\ x4' <= x4 + 1
      BY <1>1, <2>2, BypassNumbers
    <3>4. Bypass!GuessesCounted'
      BY <1>1, <3>1, <3>2, <3>3, BypassNumbers, BypassCardinality DEF Bypass!GuessesCounted
    <3>5. Bypass!BypassGuessesBounded'
      <4>1. CASE Bypass!Answers
        BY <1>1, <2>2, <3>2, <4>1, BypassNumbers, BypassCardinality
           DEF Bypass!Answers, Bypass!GuessesCounted, Bypass!BypassGuessesBounded
      <4>2. CASE ~Bypass!Answers
        BY <1>1, <2>2, <4>2, BypassCardinality DEF Bypass!BypassGuessesBounded
      <4>3. QED
        BY <4>1, <4>2
    <3>6. QED
      BY <1>1, <3>1, <3>2, <3>3, <3>4, <3>5 DEF Bypass!IInv, Bypass!TypeOK, Bypass!OffMeansDead
  <2>3. QED
    BY <1>3, <2>1, <2>2 DEF Bypass!Match
<1>4. ASSUME NEW h \in Handler, Bypass!Reset(h) PROVE Bypass!IInv'
  <2>1. x1' = [x1 EXCEPT !.failures = 0] /\ x4' = 0 /\ x3' = x3
        /\ Bypass!Goes(h, "free")
    BY <1>4 DEF Bypass!Reset
  <2>2. /\ x1' \in [enabled: BOOLEAN, set: BOOLEAN, listed: BOOLEAN, failures: 0..BypassCap]
        /\ x1'.enabled = x1.enabled /\ x1'.set = x1.set /\ x1'.listed = x1.listed
        /\ x1'.failures = 0
    BY <1>1, <1>2, <2>1, BypassNumbers
  <2>3. x2' \in [Handler -> {"free", "reset", "charge", "add", "off"}]
        /\ Cardinality(Bypass!Charging)' \in Nat
    BY <1>1, <2>1, BypassChargingMoves
  <2>4. Bypass!GuessesCounted' /\ Bypass!BypassGuessesBounded'
    BY <1>1, <2>1, <2>2, <2>3, BypassNumbers, BypassCardinality
       DEF Bypass!GuessesCounted, Bypass!BypassGuessesBounded
  <2>5. QED
    BY <1>1, <2>1, <2>2, <2>3, <2>4 DEF Bypass!IInv, Bypass!TypeOK, Bypass!OffMeansDead
<1>5. ASSUME NEW h \in Handler, Bypass!ReadForCharge(h) PROVE Bypass!IInv'
  <2>1. h \in Bypass!Charging /\ UNCHANGED <<x1, x3, x4>>
    BY <1>5 DEF Bypass!ReadForCharge, Bypass!Charging
  <2>2. x2' \in [Handler -> {"free", "reset", "charge", "add", "off"}]
        /\ (x1.enabled /\ x1.listed => Cardinality(Bypass!Charging)' = Cardinality(Bypass!Charging))
    BY <1>1, <1>5, <2>1, BypassChargingMoves DEF Bypass!ReadForCharge
  <2>3. QED
    BY <1>1, <2>1, <2>2, BypassCardinality
       DEF Bypass!IInv, Bypass!TypeOK, Bypass!GuessesCounted, Bypass!OffMeansDead,
           Bypass!BypassGuessesBounded
<1>6. ASSUME NEW h \in Handler, Bypass!Charge(h) PROVE Bypass!IInv'
  <2>1. h \in Bypass!Charging /\ x3' = x3 /\ x4' = x4
        /\ x1' = [x1 EXCEPT !.failures = IF @ < BypassCap THEN @ + 1 ELSE BypassCap]
    BY <1>6 DEF Bypass!Charge, Bypass!Charging
  <2>2. /\ x1' \in [enabled: BOOLEAN, set: BOOLEAN, listed: BOOLEAN, failures: 0..BypassCap]
        /\ x1'.enabled = x1.enabled /\ x1'.set = x1.set /\ x1'.listed = x1.listed
        /\ x1'.failures = IF x1.failures < BypassCap THEN x1.failures + 1 ELSE BypassCap
    BY <1>1, <1>2, <2>1, BypassNumbers
  <2>3. x2' \in [Handler -> {"free", "reset", "charge", "add", "off"}]
        /\ Cardinality(Bypass!Charging)' = Cardinality(Bypass!Charging) - 1
    BY <1>1, <1>6, <2>1, BypassChargingMoves DEF Bypass!Charge
  <2>4. Bypass!GuessesCounted'
    BY <1>1, <2>1, <2>2, <2>3, BypassNumbers, BypassCardinality DEF Bypass!GuessesCounted
  <2>5. QED
    BY <1>1, <2>1, <2>2, <2>3, <2>4, BypassCardinality
       DEF Bypass!IInv, Bypass!TypeOK, Bypass!OffMeansDead, Bypass!BypassGuessesBounded
<1>7. ASSUME NEW h \in Handler, Bypass!SwitchOff(h) PROVE Bypass!IInv'
  <2>1. x1' = [x1 EXCEPT !.enabled = FALSE] /\ UNCHANGED <<x3, x4>>
        /\ Bypass!Goes(h, "free")
    BY <1>7 DEF Bypass!SwitchOff
  <2>2. /\ x1' \in [enabled: BOOLEAN, set: BOOLEAN, listed: BOOLEAN, failures: 0..BypassCap]
        /\ x1'.enabled = FALSE
    BY <1>2, <2>1
  <2>3. x2' \in [Handler -> {"free", "reset", "charge", "add", "off"}]
    BY <1>1, <2>1, BypassChargingMoves
  <2>4. QED
    BY <1>1, <2>1, <2>2, <2>3, BypassCardinality
       DEF Bypass!IInv, Bypass!TypeOK, Bypass!GuessesCounted, Bypass!OffMeansDead,
           Bypass!BypassGuessesBounded
<1>8. ASSUME NEW p \in Handler, Bypass!Load(p) \/ Bypass!Land(p) \/ Bypass!Lost(p) \/ Bypass!Status(p) PROVE Bypass!IInv'
  BY <1>8, BypassPageStep
<1>9. ASSUME NEW p \in Handler, Bypass!Toggle(p) PROVE Bypass!IInv'
  <2> DEFINE new == [x1 EXCEPT !.enabled = x3[p].shows = "off",
                                !.failures = IF x3[p].shows = "on" THEN @ ELSE 0]
  <2>1. (x3[p].shows = "off") \in BOOLEAN
    OBVIOUS
  <2>2. (IF x3[p].shows = "on" THEN x1.failures ELSE 0) \in 0..BypassCap
    BY <1>2, BypassNumbers, <1>1
  <2>3. new \in [enabled: BOOLEAN, set: BOOLEAN, listed: BOOLEAN, failures: 0..BypassCap]
    BY <1>2, <2>1, <2>2
  <2>4. Bypass!Configured(p, new)
    BY <1>9 DEF Bypass!Toggle
  <2>5. QED
    BY <2>3, <2>4, BypassChangeStep
<1>10. ASSUME NEW p \in Handler, NEW code \in BOOLEAN, NEW numbers \in BOOLEAN,
              Bypass!Save(p, code, numbers)
       PROVE  Bypass!IInv'
  <2> DEFINE new == [x1 EXCEPT !.listed = numbers, !.set = @ \/ code,
                                !.failures = IF code THEN 0 ELSE @]
  <2>1. (x1.set \/ code) \in BOOLEAN
    OBVIOUS
  <2>2. (IF code THEN 0 ELSE x1.failures) \in 0..BypassCap
    BY <1>2, BypassNumbers, <1>1
  <2>3. new \in [enabled: BOOLEAN, set: BOOLEAN, listed: BOOLEAN, failures: 0..BypassCap]
    BY <1>2, <2>1, <2>2
  <2>4. Bypass!Configured(p, new)
    BY <1>10 DEF Bypass!Save
  <2>5. QED
    BY <2>3, <2>4, BypassChangeStep
<1>11. CASE UNCHANGED Bypass!vars
  BY <1>1, <1>11, BypassCardinality
     DEF Bypass!vars, Bypass!IInv, Bypass!TypeOK, Bypass!GuessesCounted, Bypass!Charging,
         Bypass!OffMeansDead, Bypass!BypassGuessesBounded
<1>12. QED
  BY <1>3, <1>4, <1>5, <1>6, <1>7, <1>8, <1>9, <1>10, <1>11 DEF Bypass!Next

(***************************************************************************)
(* For any number of sign-ins at a time, any limit and any cap: how many   *)
(* codes are compared before the bypass switches itself off.               *)
(***************************************************************************)
THEOREM BypassGuessesAreBounded == MCSpec => []BypassGuessesBounded
<1> DEFINE Inv == which = "bypass" => Bypass!IInv
<1>1. MCInit => Inv
  BY BypassInitially DEF MCInit
<1>2. Inv /\ [MCNext]_<<which, vars, xs>> => Inv'
  <2> SUFFICES ASSUME which = "bypass", Bypass!IInv, [Bypass!Next]_(Bypass!vars)
               PROVE  Bypass!IInv'
    BY DEF MCNext, xs, Bypass!vars
  <2> QED
    BY BypassInductive
<1>3. Inv => BypassGuessesBounded
  BY DEF BypassGuessesBounded, Bypass!IInv
<1>4. QED
  BY <1>1, <1>2, <1>3, PTL DEF MCSpec

(***************************************************************************)
(* For any number of sign-ins and of pages: a page that shows the bypass   *)
(* off is not looking at one that answers, unless another page changed it  *)
(* since or an answer was lost.                                            *)
(***************************************************************************)
THEOREM PanelIsLive == MCSpec => []PanelShowsALiveCode
<1> DEFINE Inv == which = "bypass" => Bypass!IInv
<1>1. MCInit => Inv
  BY BypassInitially DEF MCInit
<1>2. Inv /\ [MCNext]_<<which, vars, xs>> => Inv'
  <2> SUFFICES ASSUME which = "bypass", Bypass!IInv, [Bypass!Next]_(Bypass!vars)
               PROVE  Bypass!IInv'
    BY DEF MCNext, xs, Bypass!vars
  <2> QED
    BY BypassInductive
<1>3. Inv => PanelShowsALiveCode
  BY DEF PanelShowsALiveCode, Bypass!IInv, Bypass!OffMeansDead, Bypass!PanelShowsALiveCode,
         Bypass!Answers
<1>4. QED
  BY <1>1, <1>2, <1>3, PTL DEF MCSpec

-----------------------------------------------------------------------------
(* Announcements: x1 title, x2 live, x3 account, x4 device, x5 send,       *)
(* x6 stale, x7 announced, x8 restarts                                     *)

\* An instance has its own name for an operator of the standard modules.
LEMMA AnnounceCardinality == \A S : Announce!Cardinality(S) = Cardinality(S)
BY DEF Announce!Cardinality, Cardinality

\* What an announcement is carrying at each stage.
LEMMA AnnounceShapes ==
  ASSUME Announce!TypeOK, NEW h \in Handler
  PROVE  /\ x5[h] \in Announce!Sending
         /\ x5[h].stage \in {"free", "title", "settings", "tokens", "send", "mark"}
         /\ x5[h].stage # "free" => x5[h].what \in Announce!What
         /\ x5[h].stage = "settings" => x5[h].title \in [isTest: BOOLEAN, published: BOOLEAN]
         /\ x5[h].stage = "tokens" => x5[h].visible \in [ordinary: BOOLEAN, testers: BOOLEAN]
         /\ x5[h].stage = "send" => x5[h].tokens \in SUBSET Handset
         /\ x5[h].stage = "mark" => x5[h].sent \in BOOLEAN /\ x5[h].dead \in SUBSET Handset
<1>1. x5[h] \in Announce!Sending
  BY DEF Announce!TypeOK
<1>2. QED
  BY <1>1 DEF Announce!Sending, Announce!Free

LEMMA AnnounceNumbers ==
  ASSUME Announce!TypeOK
  PROVE  /\ Cardinality(Handler) \in Nat /\ x7 \in Nat /\ x8 \in Nat
         /\ Cardinality(Handler) * x8 \in Nat
         /\ Cardinality(Handler) * (1 + x8) = Cardinality(Handler) * x8
                                                    + Cardinality(Handler)
         /\ Cardinality(Announce!OnTheWay) \in Nat /\ Cardinality(Announce!Unmarked) \in Nat
         /\ Cardinality(Announce!OnTheWay) + Cardinality(Announce!Unmarked) <= Cardinality(Handler)
<1>1. Announce!OnTheWay \subseteq Handler /\ Announce!Unmarked \subseteq Handler /\ Announce!OnTheWay \cap Announce!Unmarked = {}
  BY DEF Announce!OnTheWay, Announce!Unmarked, Announce!Undecided, Announce!Delivered
<1>2. Cardinality(Announce!OnTheWay) + Cardinality(Announce!Unmarked) <= Cardinality(Handler)
  BY <1>1, CapAssumption, Apart
<1>3. Cardinality(Handler) \in Nat /\ Cardinality(Announce!OnTheWay) \in Nat /\ Cardinality(Announce!Unmarked) \in Nat
  BY <1>1, CapAssumption, Counting
<1>4. \A n, r \in Nat : n * r \in Nat /\ n * (1 + r) = n * r + n
  OBVIOUS
<1>5. x7 \in Nat /\ x8 \in Nat
  BY DEF Announce!TypeOK
<1>6. QED
  BY <1>2, <1>3, <1>4, <1>5

\* One announcement goes on to its next stage.
LEMMA AnnounceStepMoves ==
  ASSUME Announce!TypeOK, NEW h \in Handler, NEW next \in Announce!Sending,
         x5' = [x5 EXCEPT ![h] = next]
  PROVE  /\ x5' \in [Handler -> Announce!Sending]
         /\ x5'[h] = next
         /\ \A g \in Handler \ {h} : x5'[g] = x5[g]
         /\ Cardinality(Announce!OnTheWay)' = Cardinality(Announce!OnTheWay)
              + (IF Announce!Undecided(next) THEN 1 ELSE 0) - (IF Announce!Undecided(x5[h]) THEN 1 ELSE 0)
         /\ Cardinality(Announce!Unmarked)' = Cardinality(Announce!Unmarked)
              + (IF Announce!Delivered(next) THEN 1 ELSE 0) - (IF Announce!Delivered(x5[h]) THEN 1 ELSE 0)
<1>1. /\ x5' \in [Handler -> Announce!Sending]
      /\ x5'[h] = next
      /\ \A g \in Handler : g # h => x5'[g] = x5[g]
  BY DEF Announce!TypeOK
<1>2. Cardinality(Announce!OnTheWay') = Cardinality(Announce!OnTheWay)
        + (IF Announce!Undecided(next) THEN 1 ELSE 0) - (IF Announce!Undecided(x5[h]) THEN 1 ELSE 0)
  <2>1. Announce!OnTheWay \subseteq Handler /\ Announce!OnTheWay' \subseteq Handler
    BY DEF Announce!OnTheWay
  <2>2. /\ \A g \in Handler : g # h => (g \in Announce!OnTheWay' <=> g \in Announce!OnTheWay)
        /\ h \in Announce!OnTheWay' <=> Announce!Undecided(next)
        /\ h \in Announce!OnTheWay <=> Announce!Undecided(x5[h])
    BY <1>1 DEF Announce!OnTheWay
  <2>3. Cardinality(Announce!OnTheWay') = Cardinality(Announce!OnTheWay)
        + (IF h \in Announce!OnTheWay' THEN 1 ELSE 0) - (IF h \in Announce!OnTheWay THEN 1 ELSE 0)
    BY <2>1, <2>2, CapAssumption, OneMember
  <2>4. QED
    BY <2>2, <2>3
<1>3. Cardinality(Announce!Unmarked') = Cardinality(Announce!Unmarked)
        + (IF Announce!Delivered(next) THEN 1 ELSE 0) - (IF Announce!Delivered(x5[h]) THEN 1 ELSE 0)
  <2>1. Announce!Unmarked \subseteq Handler /\ Announce!Unmarked' \subseteq Handler
    BY DEF Announce!Unmarked
  <2>2. /\ \A g \in Handler : g # h => (g \in Announce!Unmarked' <=> g \in Announce!Unmarked)
        /\ h \in Announce!Unmarked' <=> Announce!Delivered(next)
        /\ h \in Announce!Unmarked <=> Announce!Delivered(x5[h])
    BY <1>1 DEF Announce!Unmarked
  <2>3. Cardinality(Announce!Unmarked') = Cardinality(Announce!Unmarked)
        + (IF h \in Announce!Unmarked' THEN 1 ELSE 0) - (IF h \in Announce!Unmarked THEN 1 ELSE 0)
    BY <2>1, <2>2, CapAssumption, OneMember
  <2>4. QED
    BY <2>2, <2>3
<1>4. QED
  BY <1>1, <1>2, <1>3

\* Of a title only what is seen of it matters.
LEMMA AnnounceSeenOnly ==
  ASSUME NEW t1, NEW t2, Announce!Seen(t1) = Announce!Seen(t2), NEW m, NEW a, NEW reg, NEW s
  PROVE  /\ Announce!NotifiableAudience(t1, m) = Announce!NotifiableAudience(t2, m)
         /\ Announce!OpenersOf(t1, m, a, reg) = Announce!OpenersOf(t2, m, a, reg)
         /\ Announce!Carries(s, t1, m, a, reg) <=> Announce!Carries(s, t2, m, a, reg)
<1>1. t1.isTest = t2.isTest /\ t1.published = t2.published
  BY DEF Announce!Seen
<1>2. \A v : Announce!MayViewTitle(v, t1, m) = Announce!MayViewTitle(v, t2, m)
  BY <1>1 DEF Announce!MayViewTitle
<1>3. Announce!NotifiableAudience(t1, m) = Announce!NotifiableAudience(t2, m)
  BY <1>2 DEF Announce!NotifiableAudience
<1>4. Announce!OpenersOf(t1, m, a, reg) = Announce!OpenersOf(t2, m, a, reg)
  BY <1>2 DEF Announce!OpenersOf
<1>5. QED
  BY <1>3, <1>4 DEF Announce!Carries

\* The handsets found for an audience are those of the people who may open.
LEMMA AnnounceTokensOpen ==
  ASSUME Announce!TypeOK, NEW t, t.isTest \in BOOLEAN, t.published \in BOOLEAN, NEW m \in BOOLEAN
  PROVE  Announce!Tokens(Announce!NotifiableAudience(t, m)) = Announce!OpenersOf(t, m, x3, x4)
<1>1. ASSUME NEW d \in Handset, x4[d] # "gone"
      PROVE  Announce!Told(Announce!Flags(x4[d]), Announce!NotifiableAudience(t, m))
               <=> Announce!MayViewTitle([tester |-> x3[x4[d]].tester,
                                 early |-> x3[x4[d]].early], t, m)
  <2>1. x3[x4[d]] \in [tester: BOOLEAN, early: BOOLEAN, banned: BOOLEAN]
    BY <1>1 DEF Announce!TypeOK
  <2>2. QED
    BY <2>1
       DEF Announce!Told, Announce!Flags, Announce!NotifiableAudience, Announce!MayViewTitle,
           Announce!Nobody
<1>2. QED
  BY <1>1 DEF Announce!Tokens, Announce!OpenersOf

\* An announcement that has read nothing yet, or carries nothing any more.
LEMMA AnnounceIdleIsSound ==
  ASSUME NEW h \in Handler, x6'[h] = Announce!Unchanged,
         \/ x5'[h].stage \notin {"settings", "tokens", "send"}
         \/ x5'[h].what = "broadcast"
  PROVE  Announce!Sound(h)'
  BY DEF Announce!Sound, Announce!Holds

\* One part of the world changes: what was carried of it is now carried of the
\* world before; what was changed twice over promises nothing.
LEMMA AnnounceChangeCarries ==
  ASSUME Announce!TypeOK, NEW h \in Handler, Announce!Sound(h), Announce!Overtake,
         x5'[h] = x5[h] \/ (~Announce!Holds(h) /\ ~Announce!Holds(h)'),
         \/ x2' = x2 /\ x3' = x3 /\ x4' = x4
         \/ Announce!Seen(x1') = Announce!Seen(x1) /\ x3' = x3 /\ x4' = x4
         \/ Announce!Seen(x1') = Announce!Seen(x1) /\ x2' = x2 /\ x4' = x4
         \/ Announce!Seen(x1') = Announce!Seen(x1) /\ x2' = x2 /\ x3' = x3
  PROVE  Announce!Sound(h)'
<1>1. x6'[h] = IF ~Announce!Holds(h) THEN x6[h]
                  ELSE IF x6[h].changes = 0 THEN [changes |-> 1, before |-> Announce!Openers]
                  ELSE [changes |-> 2, before |-> {}]
  BY DEF Announce!Overtake
<1>2. CASE ~Announce!Holds(h)
  <2>1. ~Announce!Holds(h)'
    BY <1>2 DEF Announce!Holds
  <2>2. QED
    BY <1>1, <1>2, <2>1 DEF Announce!Sound
<1>3. CASE Announce!Holds(h) /\ x6[h].changes # 0
  <2>1. x6'[h].changes = 2 /\ Announce!Holds(h)'
    BY <1>1, <1>3 DEF Announce!Holds
  <2>2. QED
    BY <2>1 DEF Announce!Sound
<1>4. CASE Announce!Holds(h) /\ x6[h].changes = 0
  <2>1. /\ x6'[h].changes = 1 /\ x6'[h].before = Announce!Openers
        /\ x5'[h] = x5[h] /\ Announce!Holds(h)'
    BY <1>1, <1>4 DEF Announce!Holds
  <2>2. Announce!Carries(x5[h], x1, x2, x3, x4)
    BY <1>4 DEF Announce!Sound
  <2>3. [title |-> Announce!Seen(x1), live |-> x2, account |-> x3, device |-> x4] \in Announce!Worlds
    BY DEF Announce!TypeOK, Announce!Worlds, Announce!Seen
  <2>4. PICK w \in Announce!Worlds : w = [title |-> Announce!Seen(x1), live |-> x2,
                                 account |-> x3, device |-> x4]
    BY <2>3
  <2>5. Announce!Seen(w.title) = Announce!Seen(x1) /\ w.live = x2 /\ w.account = x3 /\ w.device = x4
        /\ w.title = Announce!Seen(x1)
    BY <2>4 DEF Announce!Seen
  <2>6. Announce!OneApart(w.title, w.live, w.account, w.device)'
    BY <2>5 DEF Announce!OneApart
  <2>7. Announce!Openers = Announce!OpenersOf(w.title, w.live, w.account, w.device)
    BY <2>5, AnnounceSeenOnly DEF Announce!Openers
  <2>8. Announce!Carries(x5[h], w.title, w.live, w.account, w.device)
    BY <2>2, <2>5, AnnounceSeenOnly
  <2>9. Announce!Before(h, w.title, w.live, w.account, w.device)'
    BY <2>1, <2>6, <2>7, <2>8 DEF Announce!Before
  <2>10. QED
    BY <2>1, <2>9 DEF Announce!Sound
<1>5. QED
  BY <1>2, <1>3, <1>4

LEMMA AnnounceOvertakeType ==
  ASSUME Announce!TypeOK, Announce!Overtake
  PROVE  x6' \in [Handler -> [changes: 0..2, before: SUBSET Handset]]
<1>1. Announce!Openers \in SUBSET Handset
  BY DEF Announce!Openers, Announce!OpenersOf
<1>2. QED
  BY <1>1 DEF Announce!TypeOK, Announce!Overtake

LEMMA AnnounceChangeStep ==
  ASSUME Announce!IInv, Announce!Change,
         x1' \in [exists: BOOLEAN, published: BOOLEAN, isTest: BOOLEAN, notified: BOOLEAN],
         x2' \in BOOLEAN,
         x3' \in [User -> [tester: BOOLEAN, early: BOOLEAN, banned: BOOLEAN]],
         x4' \in [Handset -> User \cup {"gone"}],
         \/ UNCHANGED <<x2, x3, x4>> \/ UNCHANGED <<x1, x3, x4>>
         \/ UNCHANGED <<x1, x2, x4>> \/ UNCHANGED <<x1, x2, x3>>,
         x1'.exists /\ ~x1'.notified => (x1.exists /\ ~x1.notified) \/ x7 = 0
  PROVE  Announce!IInv'
<1>1. Announce!TypeOK'
  <2>1. x6' \in [Handler -> [changes: 0..2, before: SUBSET Handset]]
    BY AnnounceOvertakeType DEF Announce!IInv, Announce!Change
  <2>2. QED
    BY <2>1 DEF Announce!IInv, Announce!TypeOK, Announce!Change
<1>2. Announce!CarriesTheWorld'
  BY AnnounceChangeCarries DEF Announce!IInv, Announce!Change, Announce!CarriesTheWorld
<1>3. Announce!AnnouncementsCounted'
  <2>1. Announce!OnTheWay' = Announce!OnTheWay /\ Announce!Unmarked' = Announce!Unmarked
    BY DEF Announce!Change, Announce!OnTheWay, Announce!Unmarked
  <2>2. x7' = x7 /\ x8' = x8
    BY DEF Announce!Change
  <2>3. QED
    BY <2>1, <2>2, AnnounceNumbers, AnnounceCardinality
       DEF Announce!IInv, Announce!AnnouncementsCounted
<1>4. QED
  BY <1>1, <1>2, <1>3 DEF Announce!IInv

\* A step of one announcement that leaves alone what the others carry.
LEMMA AnnounceKept ==
  ASSUME NEW h \in Handler, Announce!Sound(h), x5'[h] = x5[h], x6'[h] = x6[h],
         UNCHANGED <<x2, x3, x4>>, Announce!Seen(x1') = Announce!Seen(x1)
  PROVE  Announce!Sound(h)'
<1>1. Announce!Carries(x5[h], x1, x2, x3, x4)
        => Announce!Carries(x5'[h], x1', x2', x3', x4')
  BY AnnounceSeenOnly
<1>2. ASSUME NEW w \in Announce!Worlds, Announce!Before(h, w.title, w.live, w.account, w.device)
      PROVE  Announce!Before(h, w.title, w.live, w.account, w.device)'
  <2>1. Announce!OneApart(w.title, w.live, w.account, w.device)'
    BY <1>2 DEF Announce!Before, Announce!OneApart
  <2>2. QED
    BY <1>1, <1>2, <2>1 DEF Announce!Before
<1>3. Announce!Holds(h)' <=> Announce!Holds(h)
  BY DEF Announce!Holds
<1>4. QED
  BY <1>1, <1>2, <1>3 DEF Announce!Sound

LEMMA AnnounceInitially == Announce!Init => Announce!IInv
<1> SUFFICES ASSUME Announce!Init PROVE Announce!IInv
  OBVIOUS
<1>1. Announce!TypeOK
  <2>1. x6 \in [Handler -> [changes: 0 .. 2, before: SUBSET Handset]]
    BY DEF Announce!Init, Announce!Unchanged
  <2>2. x5 \in [Handler -> Announce!Sending]
    BY DEF Announce!Init, Announce!Sending, Announce!Free
  <2>3. QED
    BY <2>1, <2>2 DEF Announce!Init, Announce!TypeOK, Announce!NoTitle
<1>2. Announce!CarriesTheWorld
  BY DEF Announce!Init, Announce!CarriesTheWorld, Announce!Sound, Announce!Holds, Announce!Free
<1>3. Announce!AnnouncementsCounted
  <2>1. x7 = 0 /\ Announce!OnTheWay = {} /\ ~x1.exists
    BY DEF Announce!Init, Announce!OnTheWay, Announce!Undecided, Announce!Free, Announce!NoTitle
  <2>2. Cardinality(Announce!OnTheWay) = 0
    BY <2>1, FS_EmptySet
  <2>3. QED
    BY <1>1, <2>1, <2>2, AnnounceNumbers, AnnounceCardinality DEF Announce!AnnouncementsCounted
<1>4. QED
  BY <1>1, <1>2, <1>3 DEF Announce!IInv

\* One announcement moves, and is counted as the lemma's premises say.
LEMMA AnnounceSendStep ==
  ASSUME Announce!IInv, NEW h \in Handler, NEW next \in Announce!Sending,
         x5' = [x5 EXCEPT ![h] = next],
         x6' = [x6 EXCEPT ![h] = Announce!Unchanged] \/ x6' = x6,
         UNCHANGED <<x2, x3, x4, x8>>,
         x1' \in [exists: BOOLEAN, published: BOOLEAN, isTest: BOOLEAN, notified: BOOLEAN],
         x1'.isTest = x1.isTest, x1'.published = x1.published,
         Announce!Sound(h)',
         x7' \in Nat,
         Announce!Undecided(next) => \/ Announce!Undecided(x5[h])
                                     \/ x1.exists /\ ~x1.notified /\ ~Announce!Delivered(x5[h]),
         x7' = x7
           \/ (x7' = x7 + 1 /\ Announce!Undecided(x5[h]) /\ Announce!Delivered(next)),
         x1'.exists /\ ~x1'.notified => /\ x1.exists /\ ~x1.notified
                                        /\ Announce!Delivered(x5[h]) => Announce!Delivered(next)
  PROVE  Announce!IInv'
<1>1. /\ x5' \in [Handler -> Announce!Sending]
      /\ \A g \in Handler \ {h} : x5'[g] = x5[g]
      /\ Cardinality(Announce!OnTheWay)' = Cardinality(Announce!OnTheWay)
           + (IF Announce!Undecided(next) THEN 1 ELSE 0) - (IF Announce!Undecided(x5[h]) THEN 1 ELSE 0)
      /\ Cardinality(Announce!Unmarked)' = Cardinality(Announce!Unmarked)
           + (IF Announce!Delivered(next) THEN 1 ELSE 0) - (IF Announce!Delivered(x5[h]) THEN 1 ELSE 0)
  BY AnnounceStepMoves DEF Announce!IInv
<1>2. Announce!TypeOK' /\ \A g \in Handler \ {h} : x6'[g] = x6[g]
  <2>1. /\ x6' \in [Handler -> [changes: 0..2, before: SUBSET Handset]]
        /\ \A g \in Handler \ {h} : x6'[g] = x6[g]
    BY DEF Announce!IInv, Announce!TypeOK, Announce!Unchanged
  <2>2. QED
    BY <1>1, <2>1 DEF Announce!IInv, Announce!TypeOK
<1>3. Announce!CarriesTheWorld'
  BY <1>1, <1>2, AnnounceKept DEF Announce!IInv, Announce!CarriesTheWorld, Announce!Seen
<1>4. Announce!AnnouncementsCounted'
  <2>1. ~(Announce!Undecided(next) /\ Announce!Delivered(next)) /\ ~(Announce!Undecided(x5[h]) /\ Announce!Delivered(x5[h]))
    BY DEF Announce!Undecided, Announce!Delivered
  <2>2. /\ x7 + Cardinality(Announce!OnTheWay) <= Cardinality(Handler) * x8 + Cardinality(Handler)
        /\ x1.exists /\ ~x1.notified =>
             x7 <= Cardinality(Handler) * x8 + Cardinality(Announce!Unmarked)
    BY AnnounceNumbers, AnnounceCardinality DEF Announce!IInv, Announce!AnnouncementsCounted
  <2>3. /\ x7' \in Nat /\ x8' = x8
        /\ Cardinality(Announce!OnTheWay)' + Cardinality(Announce!Unmarked)' <= Cardinality(Handler)
        /\ Cardinality(Handler) * (1 + x8) = Cardinality(Handler) * x8
                                                    + Cardinality(Handler)
        /\ Cardinality(Handler) \in Nat /\ x7 \in Nat
        /\ Cardinality(Handler) * x8 \in Nat
        /\ Cardinality(Announce!OnTheWay) \in Nat /\ Cardinality(Announce!Unmarked) \in Nat
        /\ Cardinality(Announce!OnTheWay)' \in Nat /\ Cardinality(Announce!Unmarked)' \in Nat
    <3>1. Announce!OnTheWay' \subseteq Handler /\ Announce!Unmarked' \subseteq Handler /\ Announce!OnTheWay' \cap Announce!Unmarked' = {}
      BY DEF Announce!OnTheWay, Announce!Unmarked, Announce!Undecided, Announce!Delivered
    <3>2. /\ Cardinality(Announce!OnTheWay)' + Cardinality(Announce!Unmarked)' <= Cardinality(Handler)
          /\ Cardinality(Announce!OnTheWay)' \in Nat /\ Cardinality(Announce!Unmarked)' \in Nat
      BY <3>1, CapAssumption, Apart, Counting
    <3>3. QED
      BY <3>2, AnnounceNumbers DEF Announce!IInv
  <2>4. x7' + Cardinality(Announce!OnTheWay)' <= Cardinality(Handler) * x8 + Cardinality(Handler)
    <3>1. CASE Announce!Undecided(next) /\ ~Announce!Undecided(x5[h])
      BY <1>1, <2>1, <2>2, <2>3, <3>1
    <3>2. CASE Announce!Undecided(x5[h]) \/ ~Announce!Undecided(next)
      BY <1>1, <2>1, <2>2, <2>3, <3>2
    <3>3. QED
      BY <3>1, <3>2
  <2>5. ASSUME x1'.exists, ~x1'.notified
        PROVE  x7' <= Cardinality(Handler) * x8 + Cardinality(Announce!Unmarked)'
    BY <1>1, <2>1, <2>2, <2>3, <2>5
  <2>6. QED
    BY <2>3, <2>4, <2>5, AnnounceCardinality DEF Announce!AnnouncementsCounted
<1>5. QED
  BY <1>2, <1>3, <1>4 DEF Announce!IInv

LEMMA AnnounceInductive == ASSUME Announce!IInv, [Announce!Next]_(Announce!vars) PROVE Announce!IInv'
<1>1. Announce!TypeOK /\ Announce!CarriesTheWorld /\ Announce!AnnouncementsCounted
  BY DEF Announce!IInv
<1>2. /\ x1 \in [exists: BOOLEAN, published: BOOLEAN, isTest: BOOLEAN, notified: BOOLEAN]
      /\ x2 \in BOOLEAN
      /\ x3 \in [User -> [tester: BOOLEAN, early: BOOLEAN, banned: BOOLEAN]]
      /\ x4 \in [Handset -> User \cup {"gone"}]
      /\ x7 \in Nat
  BY <1>1 DEF Announce!TypeOK
<1>3. \A h \in Handler : Announce!Sound(h) /\ (x5[h].stage \in {"free", "title"} => x6[h] = Announce!Unchanged)
  BY <1>1 DEF Announce!CarriesTheWorld, Announce!Sound, Announce!Holds
<1>4. CASE Announce!Create
  BY <1>2, <1>4, AnnounceChangeStep DEF Announce!Create
<1>5. CASE Announce!Update
  BY <1>2, <1>5, AnnounceChangeStep DEF Announce!Update
<1>6. CASE Announce!Remove
  <2>1. x1' = Announce!NoTitle /\ Announce!Change /\ UNCHANGED <<x2, x3, x4>>
    BY <1>6 DEF Announce!Remove
  <2>2. x1' \in [exists: BOOLEAN, published: BOOLEAN, isTest: BOOLEAN, notified: BOOLEAN]
        /\ ~x1'.exists
    BY <2>1 DEF Announce!NoTitle
  <2>3. QED
    BY <1>2, <2>1, <2>2, AnnounceChangeStep
<1>7. CASE Announce!SwitchMode
  <2>1. x2' \in BOOLEAN /\ Announce!Change /\ UNCHANGED <<x1, x3, x4>>
    BY <1>7 DEF Announce!SwitchMode
  <2>2. QED
    BY <1>2, <2>1, AnnounceChangeStep
<1>8. ASSUME NEW u \in User, Announce!Suspend(u) PROVE Announce!IInv'
  <2>1. x3' \in [User -> [tester: BOOLEAN, early: BOOLEAN, banned: BOOLEAN]]
        /\ Announce!Change /\ UNCHANGED <<x1, x2, x4>>
    BY <1>2, <1>8 DEF Announce!Suspend
  <2>2. QED
    BY <1>2, <2>1, AnnounceChangeStep
<1>9. ASSUME NEW u \in User, NEW d \in Handset, Announce!Register(d, u) PROVE Announce!IInv'
  <2>1. x4' \in [Handset -> User \cup {"gone"}] /\ Announce!Change /\ UNCHANGED <<x1, x2, x3>>
    BY <1>2, <1>9 DEF Announce!Register
  <2>2. QED
    BY <1>2, <2>1, AnnounceChangeStep
<1>10. ASSUME NEW d \in Handset, Announce!Unregister(d) PROVE Announce!IInv'
  <2>1. x4' \in [Handset -> User \cup {"gone"}] /\ Announce!Change /\ UNCHANGED <<x1, x2, x3>>
    BY <1>2, <1>10 DEF Announce!Unregister
  <2>2. QED
    BY <1>2, <2>1, AnnounceChangeStep
<1>11. ASSUME NEW h \in Handler, Announce!Publish(h) PROVE Announce!IInv'
  <2> DEFINE next == [stage |-> "title", what |-> "publish"]
  <2>1. /\ x1' = [x1 EXCEPT !.published = TRUE] /\ x1.exists
        /\ x5' = [x5 EXCEPT ![h] = next] /\ Announce!Overtake
        /\ UNCHANGED <<x2, x3, x4, x7, x8>>
        /\ x5[h].stage = "free"
    BY <1>11 DEF Announce!Publish, Announce!Begin
  <2>2. next \in Announce!Sending
    BY DEF Announce!Sending, Announce!What
  <2>3. /\ x1' \in [exists: BOOLEAN, published: BOOLEAN, isTest: BOOLEAN, notified: BOOLEAN]
        /\ x1'.exists = x1.exists /\ x1'.notified = x1.notified
    BY <1>2, <2>1
  <2>4. ~Announce!Undecided(next) /\ ~Announce!Undecided(x5[h]) /\ ~Announce!Delivered(next) /\ ~Announce!Delivered(x5[h])
    BY <2>1 DEF Announce!Undecided, Announce!Delivered
  <2>5. /\ x5' \in [Handler -> Announce!Sending]
        /\ x5'[h] = next
        /\ \A g \in Handler \ {h} : x5'[g] = x5[g]
        /\ Cardinality(Announce!OnTheWay)' = Cardinality(Announce!OnTheWay) + 0 - 0
        /\ Cardinality(Announce!Unmarked)' = Cardinality(Announce!Unmarked) + 0 - 0
    <3> HIDE DEF next
    <3>1. QED
      BY <1>1, <2>1, <2>2, <2>4, AnnounceStepMoves
  <2>6. Announce!TypeOK'
    BY <1>1, <2>1, <2>3, <2>5, AnnounceOvertakeType DEF Announce!TypeOK
  <2>7. Announce!CarriesTheWorld'
    <3>1. ~Announce!Holds(h) /\ ~Announce!Holds(h)'
      BY <2>1, <2>5 DEF Announce!Holds
    <3>2. \A g \in Handler : x5'[g] = x5[g] \/ (~Announce!Holds(g) /\ ~Announce!Holds(g)')
      BY <2>5, <3>1
    <3>3. ASSUME NEW g \in Handler PROVE Announce!Sound(g)'
      BY <1>1, <1>3, <2>1, <3>2, AnnounceChangeCarries
    <3>4. QED
      BY <3>3 DEF Announce!CarriesTheWorld
  <2>8. Announce!AnnouncementsCounted'
    BY <1>1, <2>1, <2>3, <2>5, AnnounceNumbers, AnnounceCardinality
       DEF Announce!AnnouncementsCounted
  <2>9. QED
    BY <2>6, <2>7, <2>8 DEF Announce!IInv
<1>12. ASSUME NEW h \in Handler, Announce!Resend(h) PROVE Announce!IInv'
  <2> DEFINE next == [stage |-> "title", what |-> "resend"]
  <2>1. /\ x5' = [x5 EXCEPT ![h] = next] /\ x5[h].stage = "free"
        /\ UNCHANGED <<x1, x2, x3, x4, x6, x7, x8>>
    BY <1>12 DEF Announce!Resend, Announce!Begin, Announce!world
  <2>2. next \in Announce!Sending
    BY DEF Announce!Sending, Announce!What
  <2>3. ~Announce!Undecided(next) /\ ~Announce!Delivered(x5[h])
    BY <2>1 DEF Announce!Undecided, Announce!Delivered
  <2>4. x5'[h] = next
    BY <1>1, <2>1, <2>2, AnnounceStepMoves
  <2>5. Announce!Sound(h)'
    BY <1>3, <2>1, <2>4, AnnounceIdleIsSound
  <2>6. QED
    BY <1>2, <2>1, <2>2, <2>3, <2>5, AnnounceSendStep
<1>13. ASSUME NEW h \in Handler, Announce!ReadTitle(h) PROVE Announce!IInv'
  <2>1. /\ x5[h].stage = "title" /\ x5[h].what \in Announce!What
        /\ UNCHANGED <<x1, x2, x3, x4, x7, x8>>
    BY <1>1, <1>13, AnnounceShapes DEF Announce!ReadTitle, Announce!world
  <2>2. ~Announce!Undecided(x5[h]) /\ ~Announce!Delivered(x5[h])
    BY <2>1 DEF Announce!Undecided, Announce!Delivered
  <2>3. CASE Announce!Step(h, Announce!Free)
    <3>1. x5' = [x5 EXCEPT ![h] = Announce!Free] /\ x6' = [x6 EXCEPT ![h] = Announce!Unchanged]
      BY <2>3 DEF Announce!Step, Announce!Free
    <3>2. Announce!Free \in Announce!Sending /\ ~Announce!Undecided(Announce!Free)
      BY DEF Announce!Sending, Announce!Free, Announce!Undecided
    <3>3. Announce!Sound(h)'
      <4>1. x5'[h] = Announce!Free
        BY <1>1, <3>1, <3>2, AnnounceStepMoves
      <4>2. QED
        BY <1>1, <3>1, <4>1, AnnounceIdleIsSound DEF Announce!Free, Announce!TypeOK
    <3>4. QED
      BY <1>2, <2>1, <2>2, <3>1, <3>2, <3>3, AnnounceSendStep
  <2>4. CASE /\ x1.exists /\ x1.published
             /\ ~(x1.notified /\ x5[h].what = "publish")
             /\ Announce!Step(h, [stage |-> "settings", what |-> x5[h].what,
                         title |-> [isTest |-> x1.isTest, published |-> TRUE]])
    <3> DEFINE next == [stage |-> "settings", what |-> x5[h].what,
                        title |-> [isTest |-> x1.isTest, published |-> TRUE]]
    <3>1. x5' = [x5 EXCEPT ![h] = next] /\ x6' = x6
      <4>1. next.stage = "settings"
        OBVIOUS
      <4>2. QED
        BY <2>4, <4>1 DEF Announce!Step
    <3>2. next \in Announce!Sending
      <4>1. [isTest |-> x1.isTest, published |-> TRUE] \in [isTest: BOOLEAN, published: BOOLEAN]
        BY <1>2
      <4>2. QED
        BY <2>1, <4>1 DEF Announce!Sending
    <3>3. Announce!Undecided(next) => x1.exists /\ ~x1.notified
      BY <2>4 DEF Announce!Undecided
    <3>4. Announce!Sound(h)'
      <4>1. next.stage = "settings" /\ next.title = [isTest |-> x1.isTest, published |-> TRUE]
        OBVIOUS
      <4> HIDE DEF next
      <4>2. x5'[h] = next
        BY <1>1, <3>1, <3>2, AnnounceStepMoves
      <4>3. x1.published = TRUE
        BY <1>2, <2>4
      <4>4. next.title = [isTest |-> x1'.isTest, published |-> x1'.published]
        BY <2>1, <4>1, <4>3
      <4>5. Announce!Carries(x5[h], x1, x2, x3, x4)'
        BY <4>1, <4>2, <4>4 DEF Announce!Carries, Announce!Seen
      <4>6. x6'[h] = Announce!Unchanged /\ x6'[h].changes = 0
        BY <1>3, <2>1, <3>1 DEF Announce!Unchanged
      <4>7. QED
        BY <4>5, <4>6 DEF Announce!Sound
    <3>5. QED
      BY <1>2, <2>1, <2>2, <3>1, <3>2, <3>3, <3>4, AnnounceSendStep
  <2>5. QED
    BY <1>13, <2>3, <2>4 DEF Announce!ReadTitle
<1>14. ASSUME NEW h \in Handler, Announce!ReadSettings(h) PROVE Announce!IInv'
  <2>1. /\ x5[h].stage = "settings" /\ x5[h].what \in Announce!What
        /\ x5[h].title \in [isTest: BOOLEAN, published: BOOLEAN]
        /\ UNCHANGED <<x1, x2, x3, x4, x7, x8>>
    BY <1>1, <1>14, AnnounceShapes DEF Announce!ReadSettings, Announce!world
  <2>2. ~Announce!Delivered(x5[h])
    BY <2>1 DEF Announce!Delivered
  <2>3. CASE Announce!Step(h, Announce!Free)
    <3>1. x5' = [x5 EXCEPT ![h] = Announce!Free] /\ x6' = [x6 EXCEPT ![h] = Announce!Unchanged]
      BY <2>3 DEF Announce!Step, Announce!Free
    <3>2. Announce!Free \in Announce!Sending /\ ~Announce!Undecided(Announce!Free)
      BY DEF Announce!Sending, Announce!Free, Announce!Undecided
    <3>3. Announce!Sound(h)'
      <4>1. x5'[h] = Announce!Free
        BY <1>1, <3>1, <3>2, AnnounceStepMoves
      <4>2. QED
        BY <1>1, <3>1, <4>1, AnnounceIdleIsSound DEF Announce!Free, Announce!TypeOK
    <3>4. QED
      BY <1>2, <2>1, <2>2, <3>1, <3>2, <3>3, AnnounceSendStep
  <2>4. CASE Announce!Step(h, [stage |-> "tokens", what |-> x5[h].what,
                      visible |-> Announce!NotifiableAudience(x5[h].title, x2)])
    <3> DEFINE next == [stage |-> "tokens", what |-> x5[h].what,
                        visible |-> Announce!NotifiableAudience(x5[h].title, x2)]
    <3>1. x5' = [x5 EXCEPT ![h] = next] /\ x6' = x6
      <4>1. next.stage = "tokens"
        OBVIOUS
      <4>2. QED
        BY <2>4, <4>1 DEF Announce!Step
    <3>2. next \in Announce!Sending
      <4>1. Announce!NotifiableAudience(x5[h].title, x2) \in [ordinary: BOOLEAN, testers: BOOLEAN]
        BY <1>2, <2>1 DEF Announce!NotifiableAudience, Announce!MayViewTitle, Announce!Nobody
      <4>2. QED
        BY <2>1, <4>1 DEF Announce!Sending
    <3>3. Announce!Undecided(next) => Announce!Undecided(x5[h])
      BY <2>1 DEF Announce!Undecided
    <3>4. Announce!Sound(h)'
      <4>1. x5'[h] = next /\ x6'[h] = x6[h]
        BY <1>1, <3>1, <3>2, AnnounceStepMoves
      <4>2. /\ next.stage = "tokens" /\ next.what = x5[h].what
            /\ next.visible = Announce!NotifiableAudience(x5[h].title, x2)
        OBVIOUS
      <4> HIDE DEF next
      <4>3. Announce!Holds(h)' <=> Announce!Holds(h)
        BY <2>1, <4>1, <4>2 DEF Announce!Holds
      <4>4. ASSUME x5[h].title = Announce!Seen(x1)
            PROVE  Announce!Carries(next, x1, x2, x3, x4)
        <5>1. Announce!Seen(x5[h].title) = Announce!Seen(x1)
          BY <4>4 DEF Announce!Seen
        <5>2. Announce!NotifiableAudience(x5[h].title, x2) = Announce!NotifiableAudience(x1, x2)
          BY <5>1, AnnounceSeenOnly
        <5>3. QED
          BY <4>2, <5>2 DEF Announce!Carries
      <4>5. ASSUME Announce!Holds(h), x6[h].changes = 0
            PROVE  Announce!Carries(x5[h], x1, x2, x3, x4)'
        <5>1. x5[h].title = Announce!Seen(x1)
          BY <1>3, <2>1, <4>5 DEF Announce!Sound, Announce!Carries
        <5>2. QED
          BY <2>1, <4>1, <4>4, <5>1
      <4>6. ASSUME NEW w \in Announce!Worlds, Announce!Before(h, w.title, w.live, w.account, w.device)
            PROVE  Announce!Before(h, w.title, w.live, w.account, w.device)'
        <5>1. /\ Announce!OneApart(w.title, w.live, w.account, w.device)
              /\ Announce!OneApart(w.title, w.live, w.account, w.device)'
          BY <2>1, <4>6 DEF Announce!Before, Announce!OneApart
        <5>2. x5[h].title = Announce!Seen(w.title) \/ x5[h].title = Announce!Seen(x1)
          BY <2>1, <4>6 DEF Announce!Before, Announce!Carries
        <5>3. CASE x5[h].title = Announce!Seen(x1)
          BY <2>1, <4>1, <4>4, <4>6, <5>1, <5>3 DEF Announce!Before
        <5>4. CASE x5[h].title = Announce!Seen(w.title) /\ w.live = x2
          <6>1. Announce!Seen(x5[h].title) = Announce!Seen(w.title)
            BY <5>4 DEF Announce!Seen
          <6>2. next.visible = Announce!NotifiableAudience(w.title, w.live)
            BY <4>2, <5>4, <6>1, AnnounceSeenOnly
          <6>3. Announce!Carries(next, w.title, w.live, w.account, w.device)
            BY <4>2, <6>2 DEF Announce!Carries
          <6>4. QED
            BY <2>1, <4>1, <4>6, <5>1, <6>3 DEF Announce!Before
        <5>5. CASE x5[h].title = Announce!Seen(w.title) /\ w.live # x2
          <6>1. w.title = Announce!Seen(x1)
            BY <5>1, <5>5 DEF Announce!OneApart
          <6>2. x5[h].title = Announce!Seen(x1)
            BY <5>5, <6>1 DEF Announce!Seen
          <6>3. QED
            BY <5>3, <6>2
        <5>6. QED
          BY <5>2, <5>3, <5>4, <5>5
      <4>7. Announce!Sound(h)
        BY <1>3
      <4>8. QED
        BY <4>1, <4>3, <4>5, <4>6, <4>7 DEF Announce!Sound
    <3>5. QED
      BY <1>2, <2>1, <2>2, <3>1, <3>2, <3>3, <3>4, AnnounceSendStep
  <2>5. QED
    BY <1>14, <2>3, <2>4 DEF Announce!ReadSettings
<1>15. ASSUME NEW h \in Handler, Announce!Broadcast(h) PROVE Announce!IInv'
  <2> DEFINE tokens == Announce!Tokens([ordinary |-> TRUE, testers |-> TRUE])
             next == [stage |-> "send", what |-> "broadcast", tokens |-> tokens]
  <2>1. /\ x5[h].stage = "free" /\ Announce!Step(h, next)
        /\ UNCHANGED <<x1, x2, x3, x4, x7, x8>>
    BY <1>15 DEF Announce!Broadcast, Announce!world
  <2>2. next \in Announce!Sending
    <3>1. tokens \in SUBSET Handset
      BY DEF Announce!Tokens
    <3> HIDE DEF tokens
    <3>2. QED
      BY <3>1 DEF Announce!Sending, Announce!What
  <2>3. ~Announce!Undecided(next) /\ ~Announce!Delivered(x5[h])
    BY <2>1 DEF Announce!Undecided, Announce!Delivered
  <2>4. next.stage = "send" /\ next.what = "broadcast"
    OBVIOUS
  <2> HIDE DEF next
  <2>5. x5' = [x5 EXCEPT ![h] = next] /\ x6' = x6
    BY <2>1, <2>4 DEF Announce!Step
  <2>6. Announce!Sound(h)'
    <3>1. x5'[h] = next /\ x6'[h] = Announce!Unchanged
      BY <1>1, <1>3, <2>1, <2>2, <2>5, AnnounceStepMoves
    <3>2. QED
      BY <2>4, <3>1, AnnounceIdleIsSound
  <2>7. QED
    BY <1>2, <2>1, <2>2, <2>3, <2>5, <2>6, AnnounceSendStep
<1>16. ASSUME NEW h \in Handler, Announce!ReadTokens(h) PROVE Announce!IInv'
  <2> DEFINE next == [stage |-> "send", what |-> x5[h].what, tokens |-> Announce!Tokens(x5[h].visible)]
  <2>1. /\ x5[h].stage = "tokens" /\ Announce!Step(h, next) /\ x5[h].what \in Announce!What
        /\ UNCHANGED <<x1, x2, x3, x4, x7, x8>>
    BY <1>1, <1>16, AnnounceShapes DEF Announce!ReadTokens, Announce!world
  <2>2. next \in Announce!Sending
    <3>1. Announce!Tokens(x5[h].visible) \in SUBSET Handset
      BY DEF Announce!Tokens
    <3>2. QED
      BY <2>1, <3>1 DEF Announce!Sending
  <2>3. ~Announce!Delivered(x5[h]) /\ (Announce!Undecided(next) => Announce!Undecided(x5[h]))
    BY <2>1 DEF Announce!Undecided, Announce!Delivered
  <2>4. /\ next.stage = "send" /\ next.what = x5[h].what
        /\ next.tokens = Announce!Tokens(x5[h].visible)
    OBVIOUS
  <2> HIDE DEF next
  <2>5. x5' = [x5 EXCEPT ![h] = next] /\ x6' = x6
    BY <2>1, <2>4 DEF Announce!Step
  <2>6. Announce!Sound(h)'
    <3>1. x5'[h] = next /\ x6'[h] = x6[h] /\ Announce!Sound(h)
      BY <1>1, <1>3, <2>2, <2>5, AnnounceStepMoves
    <3>2. Announce!Holds(h)' <=> Announce!Holds(h)
      BY <2>1, <2>4, <3>1 DEF Announce!Holds
    <3>3. ASSUME x5[h].visible = Announce!NotifiableAudience(x1, x2)
          PROVE  Announce!Carries(next, x1, x2, x3, x4)
      BY <1>1, <1>2, <2>4, <3>3, AnnounceTokensOpen DEF Announce!Carries
    <3>4. ASSUME Announce!Holds(h), x6[h].changes = 0
          PROVE  Announce!Carries(x5[h], x1, x2, x3, x4)'
      <4>1. x5[h].visible = Announce!NotifiableAudience(x1, x2)
        BY <2>1, <3>1, <3>4 DEF Announce!Sound, Announce!Carries
      <4>2. QED
        BY <2>1, <3>1, <3>3, <4>1
    <3>5. ASSUME NEW w \in Announce!Worlds, Announce!Before(h, w.title, w.live, w.account, w.device)
          PROVE  Announce!Before(h, w.title, w.live, w.account, w.device)'
      <4>1. /\ Announce!OneApart(w.title, w.live, w.account, w.device)
            /\ Announce!OneApart(w.title, w.live, w.account, w.device)'
        BY <2>1, <3>5 DEF Announce!Before, Announce!OneApart
      <4>2. \/ x5[h].visible = Announce!NotifiableAudience(w.title, w.live)
            \/ x5[h].visible = Announce!NotifiableAudience(x1, x2)
        BY <2>1, <3>5 DEF Announce!Before, Announce!Carries
      <4>3. CASE x5[h].visible = Announce!NotifiableAudience(x1, x2)
        BY <2>1, <3>1, <3>3, <3>5, <4>1, <4>3 DEF Announce!Before
      <4>4. CASE /\ x5[h].visible = Announce!NotifiableAudience(w.title, w.live)
                 /\ w.account = x3 /\ w.device = x4
        <5>1. w.title.isTest \in BOOLEAN /\ w.title.published \in BOOLEAN /\ w.live \in BOOLEAN
          BY DEF Announce!Worlds
        <5>2. next.tokens = Announce!OpenersOf(w.title, w.live, w.account, w.device)
          BY <1>1, <2>4, <4>4, <5>1, AnnounceTokensOpen
        <5>3. Announce!Carries(next, w.title, w.live, w.account, w.device)
          BY <2>4, <5>2 DEF Announce!Carries
        <5>4. QED
          BY <2>1, <3>1, <3>5, <4>1, <5>3 DEF Announce!Before
      <4>5. CASE /\ x5[h].visible = Announce!NotifiableAudience(w.title, w.live)
                 /\ w.title = Announce!Seen(x1) /\ w.live = x2
        <5>1. Announce!Seen(w.title) = Announce!Seen(x1)
          BY <4>5 DEF Announce!Seen
        <5>2. x5[h].visible = Announce!NotifiableAudience(x1, x2)
          BY <4>5, <5>1, AnnounceSeenOnly
        <5>3. QED
          BY <4>3, <5>2
      <4>6. QED
        BY <4>1, <4>2, <4>3, <4>4, <4>5 DEF Announce!OneApart
    <3>6. QED
      BY <3>1, <3>2, <3>4, <3>5 DEF Announce!Sound
  <2>7. QED
    BY <1>2, <2>1, <2>2, <2>3, <2>5, <2>6, AnnounceSendStep
<1>17. ASSUME NEW h \in Handler, Announce!Send(h) PROVE Announce!IInv'
  <2>1. PICK sent \in SUBSET x5[h].tokens, dead \in SUBSET x5[h].tokens :
          /\ Announce!Step(h, [stage |-> "mark", what |-> x5[h].what, sent |-> sent # {}, dead |-> dead])
          /\ x7' = IF sent # {} /\ x5[h].what = "publish" THEN x7 + 1 ELSE x7
    BY <1>17 DEF Announce!Send
  <2> DEFINE next == [stage |-> "mark", what |-> x5[h].what, sent |-> sent # {}, dead |-> dead]
  <2>2. /\ x5[h].stage = "send" /\ x5[h].what \in Announce!What /\ x5[h].tokens \in SUBSET Handset
        /\ UNCHANGED <<x1, x2, x3, x4, x8>>
    BY <1>1, <1>17, AnnounceShapes DEF Announce!Send, Announce!world
  <2>3. next \in Announce!Sending
    <3>1. dead \in SUBSET Handset /\ (sent # {}) \in BOOLEAN
      BY <2>2
    <3>2. QED
      BY <2>2, <3>1 DEF Announce!Sending
  <2>4. /\ next.stage = "mark" /\ next.what = x5[h].what /\ next.sent = (sent # {})
    OBVIOUS
  <2> HIDE DEF next
  <2>5. x5' = [x5 EXCEPT ![h] = next] /\ x6' = [x6 EXCEPT ![h] = Announce!Unchanged]
    BY <2>1, <2>4 DEF Announce!Step, next
  <2>6. ~Announce!Undecided(next) /\ ~Announce!Delivered(x5[h])
        /\ (x5[h].what = "publish" => Announce!Undecided(x5[h]))
        /\ (sent # {} /\ x5[h].what = "publish" => Announce!Delivered(next))
    BY <2>2, <2>4 DEF Announce!Undecided, Announce!Delivered
  <2>7. Announce!Sound(h)'
    <3>1. x5'[h] = next /\ x6'[h] = Announce!Unchanged
      BY <1>1, <2>3, <2>5, AnnounceStepMoves DEF Announce!TypeOK
    <3>2. QED
      BY <2>4, <3>1, AnnounceIdleIsSound
  <2>8. x7' \in Nat /\ (x7' = x7
          \/ (x7' = x7 + 1 /\ Announce!Undecided(x5[h]) /\ Announce!Delivered(next)))
    BY <1>2, <2>1, <2>6
  <2>9. QED
    BY <1>2, <2>2, <2>3, <2>5, <2>6, <2>7, <2>8, AnnounceSendStep
<1>18. ASSUME NEW h \in Handler, Announce!Prune(h) PROVE Announce!IInv'
  <2>1. /\ x5[h].stage = "mark" /\ x5[h].dead \in SUBSET Handset /\ x5[h].what \in Announce!What
        /\ x5[h].sent \in BOOLEAN /\ x5[h] \in Announce!Sending
        /\ x4' = [d \in Handset |-> IF d \in x5[h].dead THEN "gone" ELSE x4[d]]
        /\ x5' = [x5 EXCEPT ![h].dead = {}] /\ Announce!Overtake
        /\ UNCHANGED <<x1, x2, x3, x7, x8>>
    BY <1>1, <1>18, AnnounceShapes DEF Announce!Prune
  <2> DEFINE next == [x5[h] EXCEPT !.dead = {}]
  <2>2. x5[h] \in [stage: {"mark"}, what: Announce!What, sent: BOOLEAN, dead: SUBSET Handset]
    BY <2>1 DEF Announce!Sending, Announce!Free
  <2>3. /\ next \in [stage: {"mark"}, what: Announce!What, sent: BOOLEAN, dead: SUBSET Handset]
        /\ next.stage = "mark" /\ next.what = x5[h].what /\ next.sent = x5[h].sent
    BY <2>2
  <2>4. x5' = [x5 EXCEPT ![h] = next]
    BY <2>1
  <2> HIDE DEF next
  <2>5. next \in Announce!Sending
    BY <2>3 DEF Announce!Sending
  <2>6. ~Announce!Undecided(next) /\ ~Announce!Undecided(x5[h]) /\ (Announce!Delivered(next) <=> Announce!Delivered(x5[h]))
    BY <2>1, <2>3 DEF Announce!Undecided, Announce!Delivered
  <2>7. /\ x5' \in [Handler -> Announce!Sending]
        /\ x5'[h] = next
        /\ \A g \in Handler \ {h} : x5'[g] = x5[g]
        /\ Cardinality(Announce!OnTheWay)' = Cardinality(Announce!OnTheWay) + 0 - 0
        /\ (Cardinality(Announce!Unmarked)' = Cardinality(Announce!Unmarked) + 0 - 0
              \/ Cardinality(Announce!Unmarked)' = Cardinality(Announce!Unmarked) + 1 - 1)
    BY <1>1, <2>4, <2>5, <2>6, AnnounceStepMoves
  <2>8. x4' \in [Handset -> User \cup {"gone"}]
    BY <1>2, <2>1
  <2>9. Announce!TypeOK'
    BY <1>1, <2>1, <2>7, <2>8, AnnounceOvertakeType DEF Announce!TypeOK
  <2>10. Announce!CarriesTheWorld'
    <3>1. ~Announce!Holds(h) /\ ~Announce!Holds(h)'
      BY <2>1, <2>3, <2>7 DEF Announce!Holds
    <3>2. \A g \in Handler : x5'[g] = x5[g] \/ (~Announce!Holds(g) /\ ~Announce!Holds(g)')
      BY <2>7, <3>1
    <3>3. Announce!Seen(x1') = Announce!Seen(x1)
      BY <2>1
    <3>4. ASSUME NEW g \in Handler PROVE Announce!Sound(g)'
      BY <1>1, <1>3, <2>1, <3>2, <3>3, AnnounceChangeCarries
    <3>5. QED
      BY <3>4 DEF Announce!CarriesTheWorld
  <2>11. Announce!AnnouncementsCounted'
    BY <1>1, <2>1, <2>7, AnnounceNumbers, AnnounceCardinality DEF Announce!AnnouncementsCounted
  <2>12. QED
    BY <2>9, <2>10, <2>11 DEF Announce!IInv
<1>19. ASSUME NEW h \in Handler, Announce!Mark(h) PROVE Announce!IInv'
  <2>1. /\ x5[h].stage = "mark" /\ Announce!Step(h, Announce!Free) /\ x5[h].what \in Announce!What
        /\ x5[h].sent \in BOOLEAN
        /\ x1' = IF x5[h].what # "broadcast" /\ x5[h].sent /\ x1.exists
                    THEN [x1 EXCEPT !.notified = TRUE] ELSE x1
        /\ UNCHANGED <<x2, x3, x4, x7, x8>>
    BY <1>1, <1>19, AnnounceShapes DEF Announce!Mark
  <2>2. x5' = [x5 EXCEPT ![h] = Announce!Free] /\ x6' = [x6 EXCEPT ![h] = Announce!Unchanged]
    BY <2>1 DEF Announce!Step, Announce!Free
  <2>3. Announce!Free \in Announce!Sending /\ ~Announce!Undecided(Announce!Free) /\ ~Announce!Delivered(Announce!Free)
    BY DEF Announce!Sending, Announce!Free, Announce!Undecided, Announce!Delivered
  <2>4. Announce!Sound(h)'
    <3>1. x5'[h] = Announce!Free /\ x6'[h] = Announce!Unchanged
      BY <1>1, <2>2, <2>3, AnnounceStepMoves DEF Announce!TypeOK
    <3>2. QED
      BY <3>1, AnnounceIdleIsSound DEF Announce!Free
  <2>5. /\ x1' \in [exists: BOOLEAN, published: BOOLEAN, isTest: BOOLEAN, notified: BOOLEAN]
        /\ x1'.isTest = x1.isTest /\ x1'.published = x1.published
        /\ x1'.exists = x1.exists
        /\ x1'.notified = (x1.notified
             \/ (x5[h].what # "broadcast" /\ x5[h].sent /\ x1.exists))
    BY <1>2, <2>1
  <2>6. x1'.exists /\ ~x1'.notified => x1.exists /\ ~x1.notified /\ ~Announce!Delivered(x5[h])
    BY <2>5 DEF Announce!Delivered
  <2>7. QED
    BY <1>2, <2>1, <2>2, <2>3, <2>4, <2>5, <2>6, AnnounceSendStep
<1>20. CASE Announce!Restart
  <2>1. /\ x5' = [h \in Handler |-> Announce!Free] /\ x6' = [h \in Handler |-> Announce!Unchanged] /\ x8' = x8 + 1
        /\ UNCHANGED <<x1, x2, x3, x4, x7>>
    BY <1>20 DEF Announce!Restart, Announce!world
  <2>2. Announce!TypeOK'
    BY <1>1, <2>1 DEF Announce!TypeOK, Announce!Sending, Announce!Unchanged
  <2>3. Announce!CarriesTheWorld'
    BY <2>1 DEF Announce!CarriesTheWorld, Announce!Sound, Announce!Holds, Announce!Free
  <2>4. Announce!AnnouncementsCounted'
    <3>1. Announce!OnTheWay' = {} /\ Announce!Unmarked' = {}
      BY <2>1
         DEF Announce!OnTheWay, Announce!Unmarked, Announce!Undecided, Announce!Delivered,
             Announce!Free
    <3>2. Cardinality(Announce!OnTheWay)' = 0 /\ Cardinality(Announce!Unmarked)' = 0
      BY <3>1, FS_EmptySet
    <3>3. Cardinality(Handler) * (1 + (1 + x8)) = Cardinality(Handler) * (1 + x8)
                                                         + Cardinality(Handler)
      <4>1. \A n, r \in Nat : n * (1 + (1 + r)) = n * (1 + r) + n
        OBVIOUS
      <4>2. QED
        BY <1>1, <4>1, AnnounceNumbers
    <3>4. x7 <= Cardinality(Handler) * (1 + x8)
      BY <1>1, AnnounceNumbers, AnnounceCardinality DEF Announce!AnnouncementsCounted
    <3>5. x8' = 1 + x8 /\ x7' = x7
      BY <1>1, <2>1, AnnounceNumbers
    <3>6. Cardinality(Handler) * (1 + x8) \in Nat
      BY <1>1, AnnounceNumbers
    <3>7. QED
      BY <1>1, <3>2, <3>3, <3>4, <3>5, <3>6, AnnounceNumbers, AnnounceCardinality
         DEF Announce!AnnouncementsCounted
  <2>5. QED
    BY <2>2, <2>3, <2>4 DEF Announce!IInv
<1>21. CASE UNCHANGED Announce!vars
  <2>1. UNCHANGED <<x1, x2, x3, x4, x5, x6, x7, x8>>
    BY <1>21 DEF Announce!vars, Announce!world
  <2>2. Announce!TypeOK'
    BY <1>1, <2>1 DEF Announce!TypeOK
  <2>3. Announce!CarriesTheWorld'
    BY <1>1, <2>1, AnnounceKept DEF Announce!CarriesTheWorld
  <2>4. Announce!AnnouncementsCounted'
    BY <1>1, <2>1, AnnounceCardinality
       DEF Announce!AnnouncementsCounted, Announce!OnTheWay, Announce!Unmarked
  <2>5. QED
    BY <2>2, <2>3, <2>4 DEF Announce!IInv
<1>22. QED
  BY <1>4, <1>5, <1>6, <1>7, <1>8, <1>9, <1>10, <1>11, <1>12, <1>13, <1>14, <1>15, <1>16,
     <1>17, <1>18, <1>19, <1>20, <1>21 DEF Announce!Next

\* The two properties.
LEMMA AnnounceFew == Announce!IInv => Announce!AnnouncementsBounded
  BY AnnounceNumbers, AnnounceCardinality
     DEF Announce!IInv, Announce!AnnouncementsCounted, Announce!AnnouncementsBounded

LEMMA AnnounceOpenable == Announce!IInv => Announce!PushedMayOpen
<1> SUFFICES ASSUME Announce!IInv, NEW h \in Handler, x5[h].stage = "send",
                    x5[h].what # "broadcast"
             PROVE  /\ x6[h].changes = 0 => x5[h].tokens = Announce!Openers
                    /\ x6[h].changes = 1 => x5[h].tokens \in {x6[h].before, Announce!Openers}
  BY DEF Announce!PushedMayOpen
<1>1. Announce!Holds(h) /\ Announce!Sound(h)
  BY DEF Announce!IInv, Announce!CarriesTheWorld, Announce!Holds
<1>2. QED
  BY <1>1 DEF Announce!Sound, Announce!Before, Announce!Carries, Announce!Openers

(***************************************************************************)
(* For any number of announcements at a time, of users and of devices: how *)
(* often one title is announced.                                           *)
(***************************************************************************)
THEOREM AnnouncementsAreBounded == MCSpec => []AnnouncementsBounded
<1> DEFINE Inv == which = "announce" => Announce!IInv
<1>1. MCInit => Inv
  BY AnnounceInitially DEF MCInit
<1>2. Inv /\ [MCNext]_<<which, vars, xs>> => Inv'
  <2> SUFFICES ASSUME which = "announce", Announce!IInv, [Announce!Next]_(Announce!vars)
               PROVE  Announce!IInv'
    BY DEF MCNext, xs, Announce!vars, Announce!world
  <2> QED
    BY AnnounceInductive
<1>3. Inv => AnnouncementsBounded
  BY AnnounceFew DEF AnnouncementsBounded
<1>4. QED
  BY <1>1, <1>2, <1>3, PTL DEF MCSpec

(***************************************************************************)
(* For any number of announcements at a time, of users and of devices: who *)
(* is pushed are those who may open the title; or who might before the one *)
(* change since the announcement read it.                                  *)
(***************************************************************************)
THEOREM PushedOnesMayOpen == MCSpec => []PushedMayOpen
<1> DEFINE Inv == which = "announce" => Announce!IInv
<1>1. MCInit => Inv
  BY AnnounceInitially DEF MCInit
<1>2. Inv /\ [MCNext]_<<which, vars, xs>> => Inv'
  <2> SUFFICES ASSUME which = "announce", Announce!IInv, [Announce!Next]_(Announce!vars)
               PROVE  Announce!IInv'
    BY DEF MCNext, xs, Announce!vars, Announce!world
  <2> QED
    BY AnnounceInductive
<1>3. Inv => PushedMayOpen
  BY AnnounceOpenable DEF PushedMayOpen
<1>4. QED
  BY <1>1, <1>2, <1>3, PTL DEF MCSpec

-----------------------------------------------------------------------------
(* PinSignIn: x1 row, x2 verify, x3 form, x4 guesses                       *)

\* An instance has its own name for an operator of the standard modules.
LEMMA PinCardinality == \A S : Pin!Cardinality(S) = Cardinality(S)
BY DEF Pin!Cardinality, Cardinality

LEMMA PinNumbers ==
  /\ PinLimit \in Nat /\ PinLimit > 0 /\ Cardinality(Handler) \in Nat
  /\ PinLimit - 1 \in 0 .. PinLimit - 1
  /\ IsFiniteSet(Pin!Tallies) /\ Cardinality(Pin!Tallies) \in Nat
<1>1. PinLimit \in Nat /\ PinLimit > 0 /\ Cardinality(Handler) \in Nat
  BY SideAssumption, CapAssumption, FS_CardinalityType
<1>2. IsFiniteSet(0 .. PinLimit - 1) /\ IsFiniteSet(0 .. Cardinality(Handler))
  BY <1>1, FS_Interval
<1>3. IsFiniteSet(Pin!Tallies)
  BY <1>2, FiniteFunctions, FS_Subset, PinCardinality DEF Pin!Tallies
<1>4. QED
  BY <1>1, <1>3, FS_CardinalityType

\* The order of the tallies.
LEMMA PinBeforeTransitive ==
  ASSUME NEW r \in Pin!Tallies, NEW s \in Pin!Tallies, NEW t \in Pin!Tallies, Pin!Before(r, s), Pin!Before(s, t)
  PROVE  Pin!Before(r, t)
<1>1. r \in [0 .. PinLimit - 1 -> Nat] /\ s \in [0 .. PinLimit - 1 -> Nat]
      /\ t \in [0 .. PinLimit - 1 -> Nat]
  BY PinNumbers, PinCardinality DEF Pin!Tallies
<1>2. PICK v \in 0 .. PinLimit - 1 : s[v] < r[v] /\ \A u \in 0 .. v - 1 : s[u] = r[u]
  BY DEF Pin!Before
<1>3. PICK w \in 0 .. PinLimit - 1 : t[w] < s[w] /\ \A u \in 0 .. w - 1 : t[u] = s[u]
  BY DEF Pin!Before
<1>4. CASE v <= w
  <2>1. v < w => v \in 0 .. w - 1 /\ t[v] = s[v]
    BY <1>2, <1>3
  <2>2. v = w => t[v] < s[v]
    BY <1>3
  <2>3. t[v] < r[v]
    BY <1>1, <1>2, <1>4, <2>1, <2>2
  <2>4. \A u \in 0 .. v - 1 : t[u] = r[u]
    BY <1>2, <1>3, <1>4, PinNumbers
  <2>5. QED
    BY <2>3, <2>4 DEF Pin!Before
<1>5. CASE w < v
  <2>1. t[w] < r[w]
    BY <1>1, <1>2, <1>3, <1>5, PinNumbers
  <2>2. \A u \in 0 .. w - 1 : t[u] = r[u]
    BY <1>2, <1>3, <1>5, PinNumbers
  <2>3. QED
    BY <2>1, <2>2 DEF Pin!Before
<1>6. QED
  BY <1>4, <1>5, PinNumbers

LEMMA PinNotBefore ==
  ASSUME NEW s \in Pin!Tallies, NEW t \in Pin!Tallies, Pin!Before(s, t) PROVE ~Pin!Before(t, s)
<1>1. s \in [0 .. PinLimit - 1 -> Nat] /\ t \in [0 .. PinLimit - 1 -> Nat]
  BY PinNumbers, PinCardinality DEF Pin!Tallies
<1>2. PICK v \in 0 .. PinLimit - 1 : t[v] < s[v] /\ \A u \in 0 .. v - 1 : t[u] = s[u]
  BY DEF Pin!Before
<1>3. SUFFICES ASSUME NEW w \in 0 .. PinLimit - 1, s[w] < t[w],
                      \A u \in 0 .. w - 1 : s[u] = t[u]
               PROVE  FALSE
  BY DEF Pin!Before
<1>4. CASE w < v
  BY <1>1, <1>2, <1>3, <1>4, PinNumbers
<1>5. CASE v < w
  BY <1>1, <1>2, <1>3, <1>5, PinNumbers
<1>6. CASE v = w
  BY <1>1, <1>2, <1>3, <1>6, PinNumbers
<1>7. QED
  BY <1>4, <1>5, <1>6, PinNumbers

\* A tally of handlers of which n may still fail has n tallies ahead of it: cut
\* off at each number below n.
LEMMA PinAhead ==
  ASSUME NEW t \in Pin!Tallies, NEW n \in Nat, n <= t[PinLimit - 1]
  PROVE  n <= Cardinality({b \in Pin!Tallies : Pin!Before(t, b)})
<1> DEFINE V == 0 .. PinLimit - 1
           A == {b \in Pin!Tallies : Pin!Before(t, b)}
           cut(i) == [v \in V |-> IF t[v] <= i THEN t[v] ELSE i]
           f == [i \in 0 .. n - 1 |-> cut(i)]
<1>1. t \in [V -> 0 .. Cardinality(Handler)] /\ \A i, j \in V : i <= j => t[i] <= t[j]
  BY PinCardinality DEF Pin!Tallies
<1>2. n <= Cardinality(Handler)
  BY <1>1, PinNumbers
<1>3. ASSUME NEW i \in 0 .. n - 1 PROVE cut(i) \in A
  <2>1. cut(i) \in [V -> 0 .. Cardinality(Handler)]
    BY <1>1, <1>2, PinNumbers
  <2>2. \A v, w \in V : v <= w => cut(i)[v] <= cut(i)[w]
    BY <1>1, PinNumbers
  <2>3. cut(i) \in Pin!Tallies
    BY <2>1, <2>2, PinCardinality DEF Pin!Tallies
  <2>4. PICK v \in V : t[v] > i /\ \A u \in V : t[u] > i => v <= u
    <3> DEFINE T == {v \in V : t[v] > i}
    <3>1. PinLimit - 1 \in T /\ T \subseteq Nat
      BY <1>1, PinNumbers
    <3>2. QED
      BY <3>1, Least
  <2>5. cut(i)[v] < t[v]
    BY <1>1, <2>4, PinNumbers
  <2>6. \A u \in 0 .. v - 1 : cut(i)[u] = t[u]
    BY <1>1, <2>4, PinNumbers
  <2>7. QED
    BY <2>3, <2>5, <2>6 DEF Pin!Before
<1>4. ASSUME NEW i \in 0 .. n - 1, NEW j \in 0 .. n - 1, cut(i) = cut(j) PROVE i = j
  <2>1. cut(i)[PinLimit - 1] = i /\ cut(j)[PinLimit - 1] = j
    BY <1>1, PinNumbers
  <2>2. QED
    BY <1>4, <2>1
<1>5. f \in Injection(0 .. n - 1, A)
  <2> HIDE DEF A, cut
  <2>1. f \in [0 .. n - 1 -> A]
    BY <1>3
  <2>2. QED
    BY <1>4, <2>1 DEF Injection, IsInjective
<1>6. IsFiniteSet(A)
  BY PinNumbers, FS_Subset
<1>7. Cardinality(0 .. n - 1) = n
  BY FS_Interval
<1>8. Cardinality(0 .. n - 1) <= Cardinality(A)
  <2> HIDE DEF A, f
  <2>1. QED
    BY <1>5, <1>6, FS_Injection
<1>9. QED
  BY <1>7, <1>8

LEMMA PinTallyTyped ==
  ASSUME Pin!TypeOK
  PROVE  /\ Pin!Tally \in Pin!Tallies /\ Pin!RowAt \in Nat /\ \A h \in Handler : Pin!Level(h) \in Nat
         /\ IsFiniteSet(Pin!Behind) /\ Cardinality(Pin!Behind) \in Nat
         /\ Cardinality(Pin!Unwritten) \in Nat /\ Cardinality(Pin!Unwritten) <= Pin!Tally[PinLimit - 1]
<1>1. /\ x1.failures \in 0 .. PinLimit - 1
      /\ \A h \in Handler : x2[h].failures \in 0 .. PinLimit - 1
  BY DEF Pin!TypeOK
<1>2. Pin!RowAt \in Nat /\ \A h \in Handler : Pin!Level(h) \in Nat
  BY <1>1, PinNumbers DEF Pin!RowAt, Pin!Level
<1>3. ASSUME NEW v PROVE /\ Pin!AtMost(v) \subseteq Handler /\ IsFiniteSet(Pin!AtMost(v))
                         /\ Cardinality(Pin!AtMost(v)) \in 0 .. Cardinality(Handler)
  <2>1. Pin!AtMost(v) \subseteq Handler
    BY DEF Pin!AtMost
  <2>2. QED
    BY <2>1, CapAssumption, Counting
<1>4. ASSUME NEW i \in 0 .. PinLimit - 1, NEW j \in 0 .. PinLimit - 1, i <= j
      PROVE  Cardinality(Pin!AtMost(i)) <= Cardinality(Pin!AtMost(j))
  <2>1. Pin!AtMost(i) \subseteq Pin!AtMost(j)
    BY <1>2, <1>4 DEF Pin!AtMost
  <2>2. QED
    BY <1>3, <2>1, FS_Subset
<1>5. Pin!Tally \in Pin!Tallies
  BY <1>3, <1>4, PinCardinality DEF Pin!Tally, Pin!Tallies
<1>6. IsFiniteSet(Pin!Behind) /\ Cardinality(Pin!Behind) \in Nat
  BY PinNumbers, FS_Subset, FS_CardinalityType DEF Pin!Behind
<1>7. Pin!Unwritten \subseteq Pin!AtMost(PinLimit - 1)
  BY <1>1, <1>2, PinNumbers DEF Pin!Unwritten, Pin!AtMost, Pin!Level
<1>8. Cardinality(Pin!Unwritten) \in Nat /\ Cardinality(Pin!Unwritten) <= Cardinality(Pin!AtMost(PinLimit - 1))
  BY <1>3, <1>7, FS_Subset, FS_CardinalityType
<1>9. QED
  BY <1>2, <1>5, <1>6, <1>8, PinNumbers, PinCardinality DEF Pin!Tally

LEMMA PinFew == Pin!IInv => Pin!GuessesPerLock
<1> SUFFICES ASSUME Pin!IInv PROVE Pin!GuessesPerLock
  OBVIOUS
<1>1. /\ Pin!Tally \in Pin!Tallies /\ IsFiniteSet(Pin!Behind) /\ Cardinality(Pin!Behind) \in Nat
      /\ Cardinality(Pin!Unwritten) \in Nat /\ Cardinality(Pin!Unwritten) <= Pin!Tally[PinLimit - 1]
  BY PinTallyTyped DEF Pin!IInv
<1> DEFINE A == {b \in Pin!Tallies : Pin!Before(Pin!Tally, b)}
<1>2. Cardinality(Pin!Unwritten) <= Cardinality(A)
  BY <1>1, PinAhead
<1>3. Pin!Behind \cup {Pin!Tally} \subseteq Pin!Tallies /\ A \subseteq Pin!Tallies
  BY <1>1 DEF Pin!Behind
<1>4. Pin!Tally \notin Pin!Behind /\ (Pin!Behind \cup {Pin!Tally}) \cap A = {}
  BY <1>1, PinNotBefore DEF Pin!Behind
<1>5. Cardinality(Pin!Behind \cup {Pin!Tally}) = Cardinality(Pin!Behind) + 1
  BY <1>1, <1>4, FS_AddElement
<1> HIDE DEF A
<1>6. Cardinality(Pin!Behind \cup {Pin!Tally}) + Cardinality(A) <= Cardinality(Pin!Tallies)
  BY <1>3, <1>4, PinNumbers, Apart
<1>7. Cardinality(A) \in Nat
  BY <1>3, PinNumbers, Counting
<1>8. x4 \in Nat /\ x4 <= Cardinality(Pin!Behind) + Cardinality(Pin!Unwritten)
  BY PinCardinality DEF Pin!IInv, Pin!TypeOK, Pin!GuessesTallied
<1>9. QED
  BY <1>1, <1>2, <1>5, <1>6, <1>7, <1>8, PinNumbers, PinCardinality DEF Pin!GuessesPerLock

\* The owner, the lock or a right PIN settles the account: counting starts anew.
LEMMA PinSettledStep ==
  ASSUME Pin!TypeOK', x4' = 0 PROVE Pin!IInv'
<1>1. Cardinality(Pin!Behind)' \in Nat /\ Cardinality(Pin!Unwritten)' \in Nat
  <2>1. Pin!Behind' \subseteq Pin!Tallies /\ Pin!Unwritten' \subseteq Handler
    BY DEF Pin!Behind, Pin!Unwritten
  <2>2. QED
    BY <2>1, PinNumbers, CapAssumption, FS_Subset, FS_CardinalityType
<1>2. QED
  BY <1>1, PinCardinality DEF Pin!IInv, Pin!GuessesTallied

\* A handler writes what it concluded from the count it read: no other count goes
\* back to where it was, and its own goes up.
LEMMA PinWriteMoves ==
  ASSUME Pin!TypeOK, Pin!TypeOK', NEW h \in Handler, Pin!WriteWrong(h)
  PROVE  Pin!Before(Pin!Tally, Pin!Tally')
<1>1. PICK c, v : c = x2[h].failures /\ v = Pin!Level(h)
  OBVIOUS
<1>2. /\ c \in 0 .. PinLimit - 1 /\ x1.failures \in 0 .. PinLimit - 1
      /\ \A g \in Handler : x2[g].failures \in 0 .. PinLimit - 1
  BY <1>1 DEF Pin!TypeOK
<1>3. /\ x2[h].stage = "wrong" /\ x2' = [x2 EXCEPT ![h] = Pin!Free]
      /\ x1' = [x1 EXCEPT !.failures = IF c + 1 >= PinLimit THEN 0 ELSE c + 1,
                            !.lock = IF c + 1 >= PinLimit THEN "future" ELSE "none"]
  BY <1>1 DEF Pin!WriteWrong
<1>4. Pin!RowAt' = c + 1 /\ Pin!RowAt \in Nat
  <2>1. /\ x1'.failures = IF c + 1 >= PinLimit THEN 0 ELSE c + 1
        /\ x1'.lock = IF c + 1 >= PinLimit THEN "future" ELSE "none"
    BY <1>3 DEF Pin!TypeOK
  <2>2. QED
    BY <1>2, <2>1, PinNumbers DEF Pin!RowAt
<1>5. x2'[h].stage = "free" /\ \A g \in Handler : g # h => x2'[g] = x2[g]
  BY <1>3 DEF Pin!TypeOK, Pin!Free
<1>6. v = (IF c < Pin!RowAt THEN c ELSE Pin!RowAt) /\ v \in 0 .. PinLimit - 1 /\ v <= c
  BY <1>1, <1>2, <1>3, <1>4, PinNumbers DEF Pin!Level
<1>7. v \in Nat /\ c \in Nat /\ v < PinLimit /\ v <= c /\ v < c + 1
  <2>1. v \in 0 .. PinLimit - 1 /\ c \in 0 .. PinLimit - 1 /\ v <= c /\ PinLimit \in Nat
    BY <1>2, <1>6, SideAssumption
  <2>2. QED
    BY <2>1
<1>8. Pin!Level(h)' = c + 1
  BY <1>4, <1>5 DEF Pin!Level
<1>9. ASSUME NEW g \in Handler, g # h, NEW u \in 0 .. PinLimit - 1, u <= v
      PROVE  /\ Pin!Level(g)' <= u => Pin!Level(g) <= u
             /\ u < v /\ Pin!Level(g) <= u => Pin!Level(g)' <= u
  <2>1. /\ Pin!Level(g)' = IF x2[g].stage = "wrong" /\ x2[g].failures < c + 1
                       THEN x2[g].failures ELSE c + 1
        /\ Pin!Level(g) = IF x2[g].stage = "wrong" /\ x2[g].failures < Pin!RowAt
                      THEN x2[g].failures ELSE Pin!RowAt
    BY <1>4, <1>5, <1>9 DEF Pin!Level
  <2>2. QED
    BY <1>2, <1>4, <1>6, <1>9, <2>1, PinNumbers
<1>10. \A u \in 0 .. v - 1 : Pin!AtMost(u)' = Pin!AtMost(u)
  <2> SUFFICES ASSUME NEW u \in 0 .. v - 1, NEW g \in Handler
               PROVE  Pin!Level(g)' <= u <=> Pin!Level(g) <= u
    BY DEF Pin!AtMost
  <2>1. u \in 0 .. PinLimit - 1 /\ u < v /\ u <= v /\ ~(v <= u) /\ ~(c + 1 <= u)
    BY <1>2, <1>6, PinNumbers
  <2>2. CASE g = h
    BY <1>1, <1>8, <2>1, <2>2
  <2>3. CASE g # h
    BY <1>9, <2>1, <2>3
  <2>4. QED
    BY <2>2, <2>3
<1>11. Pin!AtMost(v)' \subseteq Pin!AtMost(v) \ {h} /\ h \in Pin!AtMost(v)
  <2>1. ~(c + 1 <= v) /\ v <= v
    BY <1>7
  <2>2. h \notin Pin!AtMost(v)'
    BY <1>8, <2>1 DEF Pin!AtMost
  <2>3. h \in Pin!AtMost(v)
    BY <1>1, <2>1 DEF Pin!AtMost
  <2>4. ASSUME NEW g \in Handler, g # h, Pin!Level(g)' <= v PROVE Pin!Level(g) <= v
    BY <1>6, <1>9, <2>1, <2>4
  <2>5. QED
    BY <2>2, <2>3, <2>4 DEF Pin!AtMost
<1>12. Cardinality(Pin!AtMost(v)') < Cardinality(Pin!AtMost(v))
  <2>1. Pin!AtMost(v) \subseteq Handler /\ Pin!AtMost(v) \ {h} \subseteq Handler
    BY DEF Pin!AtMost
  <2>2. IsFiniteSet(Pin!AtMost(v) \ {h}) /\ Cardinality(Pin!AtMost(v)) \in Nat
        /\ Cardinality(Pin!AtMost(v) \ {h}) = Cardinality(Pin!AtMost(v)) - 1
    BY <1>11, <2>1, CapAssumption, Counting
  <2>3. Cardinality(Pin!AtMost(v)') <= Cardinality(Pin!AtMost(v) \ {h})
        /\ Cardinality(Pin!AtMost(v)') \in Nat
    BY <1>11, <2>2, FS_Subset, FS_CardinalityType
  <2>4. QED
    BY <2>2, <2>3
<1>13. Pin!Tally'[v] < Pin!Tally[v] /\ \A u \in 0 .. v - 1 : Pin!Tally'[u] = Pin!Tally[u]
  <2>1. \A u \in 0 .. v - 1 : u \in 0 .. PinLimit - 1
    BY <1>7, SideAssumption
  <2>2. QED
    BY <1>6, <1>10, <1>12, <2>1, PinCardinality DEF Pin!Tally
<1>14. QED
  BY <1>6, <1>13 DEF Pin!Before

LEMMA PinInitially == Pin!Init => Pin!IInv
<1> SUFFICES ASSUME Pin!Init PROVE Pin!IInv
  OBVIOUS
<1>1. 0 \in 0 .. PinLimit - 1
  BY PinNumbers
<1>2. Pin!TypeOK
  BY <1>1 DEF Pin!Init, Pin!TypeOK, Pin!Free, Pin!FreshForm, Pin!None
<1>3. x4 = 0
  BY DEF Pin!Init
<1>4. QED
  BY <1>2, <1>3, PinTallyTyped, PinCardinality DEF Pin!IInv, Pin!GuessesTallied

\* Steps that neither compare nor write a count.
LEMMA PinOtherStep ==
  ASSUME Pin!IInv, Pin!TypeOK', x1'.lock = x1.lock, x1'.failures = x1.failures,
         x2' = x2, x4' = x4
  PROVE  Pin!IInv'
<1>1. Pin!RowAt' = Pin!RowAt
  BY DEF Pin!RowAt
<1>2. Pin!Tally' = Pin!Tally /\ Pin!Unwritten' = Pin!Unwritten
  BY <1>1, PinCardinality DEF Pin!Tally, Pin!AtMost, Pin!Level, Pin!Unwritten
<1>3. Pin!Behind' = Pin!Behind
  BY <1>2 DEF Pin!Behind
<1>4. QED
  BY <1>2, <1>3, PinCardinality DEF Pin!IInv, Pin!GuessesTallied

LEMMA PinInductive == ASSUME Pin!IInv, [Pin!Next]_(Pin!vars) PROVE Pin!IInv'
<1>1. Pin!TypeOK /\ Pin!GuessesTallied
  BY DEF Pin!IInv
<1>2. /\ x1 \in [pin: Pins \cup {Pin!None}, banned: BOOLEAN, failures: 0 .. PinLimit - 1,
                  lock: {"none", "future", "past"}]
      /\ x2 \in [Handler -> [stage: {"free", "wrong", "right"}, failures: 0 .. PinLimit - 1]]
      /\ x3 \in [open: BOOLEAN, pinSet: BOOLEAN, current: Pins \cup {Pin!None},
                   new: Pins \cup {Pin!None, "obvious"}, stage: {"idle", "set", "write"}]
      /\ x3.stage = "write" => x3.new \in Pins
      /\ x4 \in Nat
  BY <1>1 DEF Pin!TypeOK
<1>3. 0 \in 0 .. PinLimit - 1
  BY PinNumbers
<1>4. ASSUME NEW h \in Handler, NEW p, Pin!Compare(h, p) PROVE Pin!IInv'
  <2>1. /\ x2[h].stage = "free" /\ x1.lock # "future" /\ UNCHANGED <<x1, x3>>
    BY <1>4 DEF Pin!Compare, Pin!MayTry
  <2>2. x1' = x1 /\ x3' = x3
    BY <2>1
  <2>3. Pin!RowAt' = Pin!RowAt /\ Pin!RowAt = x1.failures
    BY <2>1, <2>2 DEF Pin!RowAt
  <2>4. CASE p # x1.pin
    <3>1. /\ x2' = [x2 EXCEPT ![h] = [stage |-> "wrong", failures |-> x1.failures]]
          /\ x4' = x4 + 1
      BY <1>4, <2>4 DEF Pin!Compare
    <3>2. Pin!TypeOK'
      BY <1>2, <2>2, <3>1 DEF Pin!TypeOK
    <3>3. /\ x2'[h].stage = "wrong" /\ x2'[h].failures = x1.failures
          /\ \A g \in Handler : g # h => x2'[g] = x2[g]
      BY <1>2, <3>1
    <3>4. \A g \in Handler : Pin!Level(g)' = Pin!Level(g)
      BY <2>1, <2>3, <3>3 DEF Pin!Level
    <3>5. Pin!Tally' = Pin!Tally
      BY <3>4, PinCardinality DEF Pin!Tally, Pin!AtMost
    <3>6. Pin!Behind' = Pin!Behind
      BY <3>5 DEF Pin!Behind
    <3>7. Pin!Unwritten' = Pin!Unwritten \cup {h} /\ h \notin Pin!Unwritten /\ Pin!Unwritten \subseteq Handler
      BY <2>1, <3>3 DEF Pin!Unwritten
    <3>8. Cardinality(Pin!Unwritten') = Cardinality(Pin!Unwritten) + 1
      BY <3>7, CapAssumption, Counting
    <3>9. QED
      BY <1>1, <1>2, <3>1, <3>2, <3>6, <3>8, PinTallyTyped, PinCardinality
         DEF Pin!IInv, Pin!GuessesTallied
  <2>5. CASE p = x1.pin
    <3>1. /\ x2' = [x2 EXCEPT ![h] = [stage |-> "right", failures |-> x1.failures]]
          /\ x4' = x4
      BY <1>4, <2>5 DEF Pin!Compare
    <3>2. Pin!TypeOK'
      BY <1>2, <2>2, <3>1 DEF Pin!TypeOK
    <3>3. /\ x2'[h].stage = "right" /\ \A g \in Handler : g # h => x2'[g] = x2[g]
      BY <1>2, <3>1
    <3>4. \A g \in Handler : Pin!Level(g)' = Pin!Level(g)
      BY <2>1, <2>3, <3>3 DEF Pin!Level
    <3>5. Pin!Tally' = Pin!Tally
      BY <3>4, PinCardinality DEF Pin!Tally, Pin!AtMost
    <3>6. Pin!Behind' = Pin!Behind
      BY <3>5 DEF Pin!Behind
    <3>7. Pin!Unwritten' = Pin!Unwritten
      BY <2>1, <3>3 DEF Pin!Unwritten
    <3>8. QED
      BY <1>1, <3>1, <3>2, <3>6, <3>7, PinCardinality DEF Pin!IInv, Pin!GuessesTallied
  <2>6. QED
    BY <2>4, <2>5
<1>5. ASSUME NEW h \in Handler, Pin!WriteWrong(h) PROVE Pin!IInv'
  <2>1. /\ x2[h].stage = "wrong" /\ x2' = [x2 EXCEPT ![h] = Pin!Free]
        /\ x1' = [x1 EXCEPT !.failures = IF x2[h].failures + 1 >= PinLimit
                                           THEN 0 ELSE x2[h].failures + 1,
                              !.lock = IF x2[h].failures + 1 >= PinLimit
                                       THEN "future" ELSE "none"]
        /\ UNCHANGED <<x3, x4>>
    BY <1>5 DEF Pin!WriteWrong
  <2>2. (IF x2[h].failures + 1 >= PinLimit THEN 0 ELSE x2[h].failures + 1)
          \in 0 .. PinLimit - 1
    BY <1>2, PinNumbers
  <2>3. Pin!TypeOK'
    BY <1>2, <1>3, <2>1, <2>2 DEF Pin!TypeOK, Pin!Free
  <2>4. Pin!Before(Pin!Tally, Pin!Tally')
    BY <1>1, <1>5, <2>3, PinWriteMoves
  <2>5. Pin!Tally \in Pin!Tallies /\ Pin!Tally' \in Pin!Tallies
    <3>1. Pin!Tally \in Pin!Tallies
      BY <1>1, PinTallyTyped
    <3>2. (Pin!TypeOK => Pin!Tally \in Pin!Tallies)'
      BY PinTallyTyped, PTL
    <3>3. QED
      BY <2>3, <3>1, <3>2
  <2>6. Pin!Behind \cup {Pin!Tally} \subseteq Pin!Behind' /\ Pin!Tally \notin Pin!Behind
    <3>1. \A t \in Pin!Tallies : Pin!Before(t, Pin!Tally) => Pin!Before(t, Pin!Tally')
      BY <2>4, <2>5, PinBeforeTransitive
    <3>2. ~Pin!Before(Pin!Tally, Pin!Tally)
      BY <2>5, PinNotBefore
    <3>3. QED
      BY <2>4, <2>5, <3>1, <3>2 DEF Pin!Behind
  <2>7. Cardinality(Pin!Behind') >= Cardinality(Pin!Behind) + 1
    <3>1. Cardinality(Pin!Behind \cup {Pin!Tally}) = Cardinality(Pin!Behind) + 1
      BY <1>1, <2>6, PinTallyTyped, FS_AddElement
    <3>2. IsFiniteSet(Pin!Behind')
      BY PinNumbers, FS_Subset DEF Pin!Behind
    <3>3. QED
      BY <2>6, <3>1, <3>2, FS_Subset
  <2>8. Pin!Unwritten' = Pin!Unwritten \ {h} /\ h \in Pin!Unwritten /\ Pin!Unwritten \subseteq Handler
    BY <1>2, <2>1 DEF Pin!Unwritten, Pin!Free
  <2>9. Cardinality(Pin!Unwritten') = Cardinality(Pin!Unwritten) - 1
    BY <2>8, CapAssumption, Counting
  <2>10. Cardinality(Pin!Behind') \in Nat
    <3>1. IsFiniteSet(Pin!Behind')
      BY PinNumbers, FS_Subset DEF Pin!Behind
    <3>2. QED
      BY <3>1, FS_CardinalityType
  <2>11. QED
    BY <1>1, <1>2, <2>1, <2>3, <2>7, <2>9, <2>10, PinTallyTyped, PinCardinality
       DEF Pin!IInv, Pin!GuessesTallied
<1>6. ASSUME NEW h \in Handler, Pin!WriteRight(h) PROVE Pin!IInv'
  <2>1. Pin!TypeOK' /\ x4' = 0
    BY <1>2, <1>3, <1>6 DEF Pin!WriteRight, Pin!TypeOK, Pin!Free
  <2>2. QED
    BY <2>1, PinSettledStep
<1>7. CASE Pin!LockRunsOut
  <2>1. Pin!TypeOK' /\ x4' = 0
    BY <1>2, <1>7 DEF Pin!LockRunsOut, Pin!TypeOK
  <2>2. QED
    BY <2>1, PinSettledStep
<1>8. CASE Pin!Suspend
  <2>1. (~x1.banned) \in BOOLEAN
    OBVIOUS
  <2>2. /\ x1' = [x1 EXCEPT !.banned = ~x1.banned] /\ x2' = x2 /\ x3' = x3
        /\ x4' = x4
    BY <1>8 DEF Pin!Suspend
  <2>3. /\ x1' \in [pin: Pins \cup {Pin!None}, banned: BOOLEAN, failures: 0 .. PinLimit - 1,
                     lock: {"none", "future", "past"}]
        /\ x1'.lock = x1.lock /\ x1'.failures = x1.failures
    BY <1>2, <2>1, <2>2
  <2>4. Pin!TypeOK'
    BY <1>2, <2>2, <2>3 DEF Pin!TypeOK
  <2>5. QED
    BY <2>2, <2>3, <2>4, PinOtherStep
<1>9. CASE Pin!Reload
  <2>1. (x1.pin # Pin!None) \in BOOLEAN
    OBVIOUS
  <2>2. /\ x1' = x1 /\ x2' = x2 /\ x4' = x4
        /\ x3' = [x3 EXCEPT !.pinSet = x1.pin # Pin!None] /\ x3.stage = "idle"
    BY <1>9 DEF Pin!Reload
  <2>3. Pin!TypeOK'
    BY <1>2, <2>1, <2>2 DEF Pin!TypeOK
  <2>4. QED
    BY <2>2, <2>3, PinOtherStep
<1>10. CASE Pin!OpenForm
  <2>1. Pin!TypeOK' /\ x1' = x1 /\ x2' = x2 /\ x4' = x4
    BY <1>2, <1>10 DEF Pin!OpenForm, Pin!TypeOK
  <2>2. QED
    BY <2>1, PinOtherStep
<1>11. CASE Pin!Cancel
  <2>1. Pin!TypeOK' /\ x1' = x1 /\ x2' = x2 /\ x4' = x4
    BY <1>2, <1>11 DEF Pin!Cancel, Pin!TypeOK
  <2>2. QED
    BY <2>1, PinOtherStep
<1>12. ASSUME NEW new \in Pins \cup {"obvious"}, NEW current \in Pins \cup {Pin!None},
              Pin!Save(new, current)
       PROVE  Pin!IInv'
  <2>1. Pin!TypeOK' /\ x1' = x1 /\ x2' = x2 /\ x4' = x4
    BY <1>2, <1>12 DEF Pin!Save, Pin!TypeOK
  <2>2. QED
    BY <2>1, PinOtherStep
<1>13. CASE Pin!ReadForSet
  <2>1. Pin!TypeOK' /\ x1' = x1 /\ x2' = x2 /\ x4' = x4
    BY <1>2, <1>13 DEF Pin!ReadForSet, Pin!TypeOK
  <2>2. QED
    BY <2>1, PinOtherStep
<1>14. CASE Pin!WriteSet
  <2>1. Pin!TypeOK' /\ x4' = 0
    BY <1>2, <1>3, <1>14 DEF Pin!WriteSet, Pin!TypeOK, Pin!FreshForm
  <2>2. QED
    BY <2>1, PinSettledStep
<1>15. CASE Pin!Remove
  <2>1. Pin!TypeOK' /\ x4' = 0
    BY <1>2, <1>3, <1>15 DEF Pin!Remove, Pin!TypeOK
  <2>2. QED
    BY <2>1, PinSettledStep
<1>16. CASE UNCHANGED Pin!vars
  <2>1. Pin!TypeOK' /\ x1' = x1 /\ x2' = x2 /\ x4' = x4
    BY <1>2, <1>16 DEF Pin!vars, Pin!TypeOK
  <2>2. QED
    BY <2>1, PinOtherStep
<1>17. QED
  BY <1>4, <1>5, <1>6, <1>7, <1>8, <1>9, <1>10, <1>11, <1>12, <1>13, <1>14, <1>15, <1>16
     DEF Pin!Next

(***************************************************************************)
(* For any number of sign-ins at a time and any limit: fewer wrong PINs    *)
(* are compared before the lock than there are tallies of what the sign-   *)
(* ins may be about to write.                                              *)
(***************************************************************************)
THEOREM PinGuessesAreBounded == MCSpec => []GuessesPerLock
<1> DEFINE Inv == which = "pin" => Pin!IInv
<1>1. MCInit => Inv
  BY PinInitially DEF MCInit
<1>2. Inv /\ [MCNext]_<<which, vars, xs>> => Inv'
  <2> SUFFICES ASSUME which = "pin", Pin!IInv, [Pin!Next]_(Pin!vars)
               PROVE  Pin!IInv'
    BY DEF MCNext, xs, Pin!vars
  <2> QED
    BY PinInductive
<1>3. Inv => GuessesPerLock
  BY PinFew DEF GuessesPerLock
<1>4. QED
  BY <1>1, <1>2, <1>3, PTL DEF MCSpec

-----------------------------------------------------------------------------
(* MasterCode: x1 codes, x2 attempt, x3 issue, x4 panel, x5 guesses        *)

\* An instance has its own name for an operator of the standard modules.
LEMMA MasterCardinality == \A S : Master!Cardinality(S) = Cardinality(S)
BY DEF Master!Cardinality, Cardinality

LEMMA MasterNumbers ==
  ASSUME Master!TypeOK
  PROVE  /\ MasterLimit \in Nat /\ MasterLimit > 0 /\ Cardinality(Handler) \in Nat
         /\ Len(x1) \in Nat
         /\ \A i \in Master!Code : /\ i \in Nat /\ i > 0 /\ i <= Len(x1)
                                   /\ x1[i] \in [failures: Nat, revoked: BOOLEAN, expired: BOOLEAN]
                                   /\ x5[i] \in Nat /\ Master!Rivals(i) \in Nat
                                   /\ Cardinality(Handler) * Master!Rivals(i) \in Nat
                                   /\ Cardinality(Handler) * (1 + Master!Rivals(i))
                                        = Cardinality(Handler) + Cardinality(Handler) * Master!Rivals(i)
<1>1. Cardinality(Handler) \in Nat
  BY CapAssumption, FS_CardinalityType
<1>2. \A n, r \in Nat : n * r \in Nat /\ n * (1 + r) = n + n * r
  OBVIOUS
<1>3. /\ x1 \in Seq([failures: Nat, revoked: BOOLEAN, expired: BOOLEAN])
      /\ x5 \in Seq(Nat) /\ Len(x5) = Len(x1) /\ Len(x1) \in Nat
  BY DEF Master!TypeOK
<1>4. \A i \in Master!Code : /\ i \in Nat /\ i > 0 /\ i <= Len(x1)
                             /\ x1[i] \in [failures: Nat, revoked: BOOLEAN, expired: BOOLEAN]
                             /\ x5[i] \in Nat
  <2> SUFFICES ASSUME NEW i \in Master!Code
               PROVE  /\ i \in Nat /\ i > 0 /\ i <= Len(x1)
                      /\ x1[i] \in [failures: Nat, revoked: BOOLEAN, expired: BOOLEAN]
                      /\ x5[i] \in Nat
    OBVIOUS
  <2>1. i \in 1 .. Len(x1) /\ i \in 1 .. Len(x5)
    BY <1>3 DEF Master!Code
  <2>2. x1[i] \in [failures: Nat, revoked: BOOLEAN, expired: BOOLEAN]
    BY <1>3, <2>1, SeqElement
  <2>3. x5[i] \in Nat
    BY <1>3, <2>1, SeqElement
  <2>4. QED
    BY <1>3, <2>1, <2>2, <2>3
<1>5. \A i \in Master!Code : Master!Rivals(i) \in Nat
  BY <1>3, <1>4, MasterCardinality DEF Master!Rivals
<1>6. QED
  BY <1>1, <1>2, <1>3, <1>4, <1>5, SideAssumption

\* The active code is the newest that is usable.
LEMMA MasterActiveIsNewest ==
  ASSUME Master!TypeOK
  PROVE  /\ Master!Active \in Master!Code \cup {Master!None}
         /\ Master!Active \in Master!Code => Master!Usable(x1[Master!Active])
         /\ \A i \in Master!Code : Master!Active = i <=> /\ Master!Usable(x1[i])
                                          /\ \A j \in Master!Code : Master!Usable(x1[j]) => i >= j
<1> DEFINE usable == {i \in Master!Code : Master!Usable(x1[i])}
           T == {m \in Nat : \E i \in usable : m = Len(x1) - i}
<1>1. Len(x1) \in Nat /\ \A i \in Master!Code : i \in Nat /\ i > 0 /\ i <= Len(x1)
  BY MasterNumbers
<1>2. CASE usable = {}
  <2>1. Master!Active = Master!None
    BY <1>2 DEF Master!Active
  <2>2. QED
    BY <1>1, <1>2, <2>1 DEF Master!None
<1>3. CASE usable # {}
  <2>1. T # {} /\ T \subseteq Nat
    BY <1>1, <1>3
  <2>2. PICK m \in T : \A k \in T : m <= k
    BY <2>1, Least
  <2>3. PICK i \in usable : m = Len(x1) - i
    BY <2>2
  <2>4. ASSUME NEW j \in usable PROVE i >= j
    <3>1. Len(x1) - j \in T
      BY <1>1
    <3>2. Len(x1) - i <= Len(x1) - j
      BY <2>2, <2>3, <3>1
    <3>3. QED
      BY <1>1, <3>2
  <2>5. Master!Active = CHOOSE k \in usable : \A j \in usable : k >= j
    BY <1>3 DEF Master!Active
  <2>6. Master!Active \in usable /\ \A j \in usable : Master!Active >= j
    BY <2>4, <2>5
  <2>7. ASSUME NEW k \in usable, \A j \in usable : k >= j PROVE Master!Active = k
    BY <1>1, <2>6, <2>7
  <2>8. QED
    BY <2>6, <2>7
<1>4. QED
  BY <1>2, <1>3

\* The same after a step.
MasterActiveTells ==
  \A i \in Master!Code : Master!Active = i <=> /\ Master!Usable(x1[i])
                                               /\ \A j \in Master!Code : Master!Usable(x1[j]) => i >= j

LEMMA MasterActiveNewest == Master!TypeOK => MasterActiveTells
BY MasterActiveIsNewest DEF MasterActiveTells

LEMMA MasterActiveAfter ==
  ASSUME Master!TypeOK'
  PROVE  \A i \in Master!Code' : Master!Active' = i <=> /\ Master!Usable(x1'[i])
                                                        /\ \A j \in Master!Code' : Master!Usable(x1'[j]) => i >= j
<1>1. (Master!TypeOK => MasterActiveTells)'
  BY MasterActiveNewest, PTL
<1>2. QED
  BY <1>1 DEF Master!Usable, MasterActiveTells

\* Sign-ins in flight are handlers.
LEMMA MasterFlights ==
  ASSUME NEW i
  PROVE  /\ Master!Adding(i) \subseteq Master!InFlight(i) /\ Master!InFlight(i) \subseteq Handler
         /\ Cardinality(Master!Adding(i)) \in Nat /\ Cardinality(Master!InFlight(i)) \in Nat
         /\ Cardinality(Master!Adding(i)) <= Cardinality(Master!InFlight(i))
         /\ Cardinality(Master!InFlight(i)) <= Cardinality(Handler)
<1>1. Master!Adding(i) \subseteq Master!InFlight(i) /\ Master!InFlight(i) \subseteq Handler
  BY DEF Master!Adding, Master!InFlight
<1>2. IsFiniteSet(Master!InFlight(i))
  BY <1>1, CapAssumption, Counting
<1>3. QED
  BY <1>1, <1>2, CapAssumption, Counting, FS_Subset, FS_CardinalityType

LEMMA MasterFlightsAfter ==
  ASSUME NEW i
  PROVE  /\ Master!Adding(i)' \subseteq Master!InFlight(i)' /\ Master!InFlight(i)' \subseteq Handler
         /\ Cardinality(Master!Adding(i)') \in Nat /\ Cardinality(Master!InFlight(i)') \in Nat
         /\ Cardinality(Master!Adding(i)') <= Cardinality(Master!InFlight(i)')
         /\ Cardinality(Master!InFlight(i)') <= Cardinality(Handler)
<1>1. Master!Adding(i)' \subseteq Master!InFlight(i)' /\ Master!InFlight(i)' \subseteq Handler
  BY DEF Master!Adding, Master!InFlight
<1>2. IsFiniteSet(Master!InFlight(i)')
  BY <1>1, CapAssumption, Counting
<1>3. QED
  BY <1>1, <1>2, CapAssumption, Counting, FS_Subset, FS_CardinalityType

LEMMA MasterInitially == Master!Init => Master!IInv
<1> SUFFICES ASSUME Master!Init PROVE Master!IInv
  OBVIOUS
<1>1. Master!Code = {}
  BY DEF Master!Init, Master!Code
<1>2. Master!TypeOK
  BY <1>1 DEF Master!Init, Master!TypeOK, Master!Free, Master!None
<1>3. QED
  BY <1>1, <1>2, MasterCardinality
     DEF Master!Init, Master!IInv, Master!AloneReplaces, Master!GuessesCharged,
         Master!GuessesPerCode

\* Codes only become unusable, and nobody's guess moves: of the codes that stay
\* usable the same one is active, or an older one has become so.
LEMMA MasterFewerStep ==
  ASSUME Master!IInv, Master!TypeOK', UNCHANGED <<x2, x5, x3>>, Len(x1') = Len(x1),
         \A i \in Master!Code : /\ Master!Usable(x1'[i]) => Master!Usable(x1[i])
                                /\ x1'[i].failures = x1[i].failures
                                /\ x1[i].revoked => x1'[i].revoked
  PROVE  Master!IInv'
<1>1. Master!TypeOK /\ Master!Code' = Master!Code
  BY DEF Master!IInv, Master!Code
<1>2. Master!AloneReplaces'
  BY <1>1, MasterCardinality DEF Master!IInv, Master!AloneReplaces
<1>3. Master!GuessesPerCode'
  BY <1>1, MasterCardinality DEF Master!IInv, Master!GuessesPerCode, Master!Rivals
<1>4. Master!GuessesCharged'
  <2> SUFFICES ASSUME NEW i \in Master!Code, Master!Usable(x1'[i]) PROVE Master!Charged(i)'
    BY <1>1 DEF Master!GuessesCharged
  <2>1. Master!Charged(i)
    BY DEF Master!IInv, Master!GuessesCharged
  <2>2. Master!Active = i => Master!Active' = i
    BY <1>1, MasterActiveAfter, MasterActiveIsNewest
  <2>3. Master!Adding(i)' = Master!Adding(i) /\ Master!InFlight(i)' = Master!InFlight(i)
    BY DEF Master!Adding, Master!InFlight
  <2>4. x5' = x5 /\ x1'[i].failures = x1[i].failures /\ Master!Rivals(i)' = Master!Rivals(i)
    BY MasterCardinality DEF Master!Rivals
  <2>5. Cardinality(IF Master!Active = i THEN Master!InFlight(i) ELSE Master!Adding(i))
          <= Cardinality(IF Master!Active' = i THEN Master!InFlight(i) ELSE Master!Adding(i))
    BY <2>2, MasterFlights
  <2>6. /\ Cardinality(IF Master!Active = i THEN Master!InFlight(i) ELSE Master!Adding(i)) \in Nat
        /\ Cardinality(IF Master!Active' = i THEN Master!InFlight(i) ELSE Master!Adding(i)) \in Nat
    BY MasterFlights
  <2>7. /\ x5[i] \in Nat /\ x1[i].failures \in Nat
        /\ Cardinality(Handler) * Master!Rivals(i) \in Nat
    BY <1>1, MasterNumbers
  <2> DEFINE x == Cardinality(IF Master!Active = i THEN Master!InFlight(i) ELSE Master!Adding(i))
             y == Cardinality(IF Master!Active' = i THEN Master!InFlight(i) ELSE Master!Adding(i))
             z == Cardinality(Handler) * Master!Rivals(i)
  <2>8. x5[i] <= x1[i].failures + x + z
    BY <2>1, MasterCardinality DEF Master!Charged
  <2>9. x5[i] <= x1[i].failures + y + z
    <3> HIDE DEF x, y, z
    <3>1. x <= y /\ x \in Nat /\ y \in Nat /\ z \in Nat
      BY <2>5, <2>6, <2>7 DEF x, y, z
    <3>2. QED
      BY <2>7, <2>8, <3>1
  <2>10. QED
    BY <2>3, <2>4, <2>9, MasterCardinality DEF Master!Charged
<1>5. QED
  BY <1>2, <1>3, <1>4 DEF Master!IInv

\* One sign-in moves, and the codes' being usable does not change.
LEMMA MasterAttemptStep ==
  ASSUME Master!IInv, Master!TypeOK', UNCHANGED <<x1, x3>>,
         \A i \in Master!Code : Master!Usable(x1[i]) =>
            \/ /\ x5'[i] = x5[i]
               /\ Cardinality(IF Master!Active = i THEN Master!InFlight(i) ELSE Master!Adding(i))
                    <= Cardinality(IF Master!Active = i THEN Master!InFlight(i)' ELSE Master!Adding(i)')
            \/ /\ x5'[i] = x5[i] + 1 /\ Master!Active = i
               /\ Cardinality(Master!InFlight(i)') = Cardinality(Master!InFlight(i)) + 1,
         \A i \in Master!Code : ~Master!Usable(x1[i]) => x5'[i] = x5[i]
  PROVE  Master!IInv'
<1>1. Master!TypeOK /\ Master!Code' = Master!Code
  BY DEF Master!IInv, Master!Code
<1>2. Master!AloneReplaces'
  BY <1>1, MasterCardinality DEF Master!IInv, Master!AloneReplaces
<1>3. Master!Active' = Master!Active
  BY <1>1 DEF Master!Active
<1>4. ASSUME NEW i \in Master!Code, Master!Usable(x1[i])
      PROVE  Master!Charged(i)' /\ x5'[i] < MasterLimit + Cardinality(Handler) * (1 + Master!Rivals(i))
  <2>1. Master!Charged(i) /\ x5[i] < MasterLimit + Cardinality(Handler) * (1 + Master!Rivals(i))
    BY <1>4, MasterCardinality DEF Master!IInv, Master!GuessesCharged, Master!GuessesPerCode
  <2>2. Master!Rivals(i)' = Master!Rivals(i) /\ x1' = x1
    BY MasterCardinality DEF Master!Rivals
  <2>3. /\ x5[i] \in Nat /\ x1[i].failures \in Nat /\ x1[i].failures < MasterLimit
        /\ Cardinality(Handler) * Master!Rivals(i) \in Nat /\ Cardinality(Handler) \in Nat
        /\ Cardinality(Handler) * (1 + Master!Rivals(i))
             = Cardinality(Handler) + Cardinality(Handler) * Master!Rivals(i)
        /\ MasterLimit \in Nat
    BY <1>1, <1>4, MasterNumbers DEF Master!Usable
  <2> DEFINE x == Cardinality(IF Master!Active = i THEN Master!InFlight(i) ELSE Master!Adding(i))
             y == Cardinality(IF Master!Active = i THEN Master!InFlight(i)' ELSE Master!Adding(i)')
             z == Cardinality(Handler) * Master!Rivals(i)
  <2>4. x \in Nat /\ y \in Nat /\ z \in Nat /\ y <= Cardinality(Handler)
    BY <2>3, MasterFlights, MasterFlightsAfter
  <2>5. x5[i] <= x1[i].failures + x + z
    BY <2>1, MasterCardinality DEF Master!Charged
  <2>6. \/ x5'[i] = x5[i] /\ x <= y
        \/ x5'[i] = x5[i] + 1 /\ y = x + 1
    BY <1>4
  <2> HIDE DEF x, y, z
  <2>7. x5'[i] <= x1[i].failures + y + z
    BY <2>3, <2>4, <2>5, <2>6
  <2>8. x5'[i] < MasterLimit + (Cardinality(Handler) + z)
    <3>1. x1[i].failures + y + z < MasterLimit + (Cardinality(Handler) + z)
      BY <2>3, <2>4
    <3>2. x5'[i] \in Nat
      BY <2>3, <2>6
    <3>3. QED
      BY <2>3, <2>4, <2>7, <3>1, <3>2
  <2>9. Master!Charged(i)'
    BY <1>3, <2>2, <2>7, MasterCardinality DEF Master!Charged, y, z
  <2>10. QED
    BY <2>3, <2>8, <2>9 DEF z
<1>5. ASSUME NEW i \in Master!Code, ~Master!Usable(x1[i])
      PROVE  x5'[i] < MasterLimit + Cardinality(Handler) * (1 + Master!Rivals(i))
  BY <1>5, MasterCardinality DEF Master!IInv, Master!GuessesPerCode
<1>6. \A i \in Master!Code : Master!Rivals(i)' = Master!Rivals(i)
  BY MasterCardinality DEF Master!Rivals
<1>7. Master!GuessesPerCode'
  BY <1>1, <1>4, <1>5, <1>6, MasterCardinality DEF Master!GuessesPerCode
<1>8. Master!GuessesCharged'
  BY <1>1, <1>4 DEF Master!GuessesCharged
<1>9. QED
  BY <1>2, <1>7, <1>8 DEF Master!IInv

\* Other steps leave both the codes and the sign-ins.
LEMMA MasterOtherStep ==
  ASSUME Master!IInv, Master!TypeOK', Master!AloneReplaces', UNCHANGED <<x1, x2, x5>>
  PROVE  Master!IInv'
<1>1. Master!Code' = Master!Code /\ Master!Active' = Master!Active
  BY DEF Master!Code, Master!Active
<1>2. \A i \in Master!Code : Master!Rivals(i)' = Master!Rivals(i) /\ Master!Adding(i)' = Master!Adding(i) /\ Master!InFlight(i)' = Master!InFlight(i)
  BY MasterCardinality DEF Master!Rivals, Master!Adding, Master!InFlight
<1>3. Master!GuessesCharged'
  BY <1>1, <1>2, MasterCardinality DEF Master!IInv, Master!GuessesCharged, Master!Charged
<1>4. Master!GuessesPerCode'
  BY <1>1, <1>2, MasterCardinality DEF Master!IInv, Master!GuessesPerCode
<1>5. QED
  BY <1>3, <1>4 DEF Master!IInv

\* A rival is issued: what is in flight may be charged to it.
LEMMA MasterCommitStep ==
  ASSUME Master!IInv, NEW a \in Admin, Master!Commit(a) PROVE Master!IInv'
<1> DEFINE old == [i \in Master!Code |-> IF i \in x3[a].sees
                                  THEN [x1[i] EXCEPT !.revoked = TRUE] ELSE x1[i]]
<1>0. PICK n : n = Len(x1)
  OBVIOUS
<1>1. /\ x3[a].stage = "commit" /\ x1' = Append(old, Master!Fresh) /\ x5' = Append(x5, 0)
      /\ x3' = [x3 EXCEPT ![a] = [stage |-> "free", sees |-> {}]] /\ x2' = x2
  BY DEF Master!Commit
<1>2. Master!TypeOK /\ n = Len(x1) /\ n \in Nat /\ Master!Code = 1 .. n
  BY <1>0, MasterNumbers DEF Master!IInv, Master!Code
<1>3. /\ old \in Seq([failures: Nat, revoked: BOOLEAN, expired: BOOLEAN]) /\ Len(old) = n
      /\ \A i \in Master!Code : old[i] = IF i \in x3[a].sees
                                  THEN [x1[i] EXCEPT !.revoked = TRUE] ELSE x1[i]
  <2>1. old \in [1 .. n -> [failures: Nat, revoked: BOOLEAN, expired: BOOLEAN]]
    BY <1>2, MasterNumbers
  <2>2. \A i \in Master!Code : old[i] = IF i \in x3[a].sees
                                 THEN [x1[i] EXCEPT !.revoked = TRUE] ELSE x1[i]
    OBVIOUS
  <2> HIDE DEF old
  <2>3. old \in Seq([failures: Nat, revoked: BOOLEAN, expired: BOOLEAN]) /\ Len(old) = n
    BY <1>2, <2>1, SeqDef
  <2>4. QED
    BY <2>2, <2>3
<1> HIDE DEF old
<1>4. /\ x1' \in Seq([failures: Nat, revoked: BOOLEAN, expired: BOOLEAN])
      /\ Len(x1') = n + 1 /\ x1'[n + 1] = Master!Fresh
      /\ \A i \in Master!Code : x1'[i] = old[i]
  BY <1>1, <1>2, <1>3 DEF Master!Fresh
<1>5. /\ x5' \in Seq(Nat) /\ Len(x5') = n + 1 /\ x5'[n + 1] = 0
      /\ \A i \in Master!Code : x5'[i] = x5[i]
  BY <1>1, <1>2 DEF Master!TypeOK
<1>6. Master!Code' = Master!Code \cup {n + 1} /\ n + 1 \notin Master!Code
  BY <1>2, <1>4 DEF Master!Code
<1>7. Master!TypeOK'
  BY <1>1, <1>2, <1>4, <1>5, <1>6 DEF Master!TypeOK
<1>8. Master!AloneReplaces'
  <2> SUFFICES ASSUME Cardinality(Admin) = 1
               PROVE  /\ \A i \in Master!Code' : i < Len(x1') => x1'[i].revoked
                      /\ \A b \in Admin : x3'[b].stage # "commit"
    BY MasterCardinality DEF Master!AloneReplaces
  <2>1. \A b \in Admin : b = a
    BY SideAssumption, FS_Singleton
  <2>2. \A b \in Admin : x3'[b].stage # "commit"
    BY <1>1, <1>2, <2>1 DEF Master!TypeOK
  <2>3. ASSUME NEW i \in Master!Code PROVE x1'[i].revoked
    <3>1. x1[i].revoked \/ i \in x3[a].sees
      BY <1>1, MasterCardinality DEF Master!IInv, Master!AloneReplaces
    <3>2. x1[i] \in [failures: Nat, revoked: BOOLEAN, expired: BOOLEAN]
      BY <1>2, MasterNumbers
    <3>3. QED
      BY <1>3, <1>4, <3>1, <3>2
  <2>4. QED
    BY <1>2, <1>4, <1>6, <2>2, <2>3
<1>9. \A i \in Master!Code : /\ x1'[i].failures = x1[i].failures
                             /\ Master!Usable(x1'[i]) => Master!Usable(x1[i])
  <2> SUFFICES ASSUME NEW i \in Master!Code
               PROVE  /\ x1'[i].failures = x1[i].failures
                      /\ Master!Usable(x1'[i]) => Master!Usable(x1[i])
    OBVIOUS
  <2>1. x1[i] \in [failures: Nat, revoked: BOOLEAN, expired: BOOLEAN]
    BY <1>2, MasterNumbers
  <2>2. x1'[i] = x1[i] \/ x1'[i] = [x1[i] EXCEPT !.revoked = TRUE]
    BY <1>3, <1>4
  <2>3. QED
    BY <2>1, <2>2 DEF Master!Usable
<1>10. \A i \in Master!Code : /\ Cardinality(Admin) # 1 => Master!Rivals(i)' = Master!Rivals(i) + 1
                              /\ Cardinality(Admin) = 1 => Master!Rivals(i)' = 0 /\ Master!Rivals(i) = 0
                                                    /\ ~Master!Usable(x1'[i])
  <2>1. \A i \in Master!Code : Cardinality(Admin) = 1 => x1'[i].revoked
    BY <1>2, <1>4, <1>6, <1>8, MasterCardinality DEF Master!AloneReplaces
  <2>2. QED
    BY <1>2, <1>4, <2>1, MasterCardinality DEF Master!Rivals, Master!Usable
<1>11. \A i \in Master!Code : Cardinality(Handler) * (Master!Rivals(i) + 1)
                         = Cardinality(Handler) * Master!Rivals(i) + Cardinality(Handler)
  <2>1. \A m, r \in Nat : m * (r + 1) = m * r + m
    OBVIOUS
  <2>2. QED
    BY <1>2, <2>1, MasterNumbers
<1>12. \A i : Master!Adding(i)' = Master!Adding(i) /\ Master!InFlight(i)' = Master!InFlight(i)
  BY <1>1 DEF Master!Adding, Master!InFlight
<1>13. Master!Usable(x1'[n + 1]) /\ Master!Usable(Master!Fresh)
  BY <1>4, MasterNumbers, SideAssumption DEF Master!Usable, Master!Fresh
<1>14. \A i \in Master!Code : Master!Active' # i
  BY <1>2, <1>6, <1>7, <1>13, MasterActiveAfter
<1>15. ASSUME NEW i \in Master!Code, Master!Usable(x1'[i]) PROVE Master!Charged(i)'
  <2>1. Master!Charged(i) /\ Cardinality(Admin) # 1
    BY <1>9, <1>10, <1>15 DEF Master!IInv, Master!GuessesCharged
  <2> DEFINE x == Cardinality(IF Master!Active = i THEN Master!InFlight(i) ELSE Master!Adding(i))
             y == Cardinality(Master!Adding(i))
             z == Cardinality(Handler) * Master!Rivals(i)
  <2>2. /\ x \in Nat /\ y \in Nat /\ z \in Nat /\ x <= y + Cardinality(Handler)
        /\ x5[i] \in Nat /\ x1[i].failures \in Nat /\ Cardinality(Handler) \in Nat
    BY <1>2, MasterFlights, MasterNumbers
  <2>3. x5[i] <= x1[i].failures + x + z
    BY <2>1, MasterCardinality DEF Master!Charged
  <2>4. Cardinality(Handler) * Master!Rivals(i)' = z + Cardinality(Handler)
    BY <1>10, <1>11, <2>1
  <2>5. x5[i] <= x1[i].failures + y + (z + Cardinality(Handler))
    <3> HIDE DEF x, y, z
    <3>1. QED
      BY <2>2, <2>3
  <2>6. QED
    BY <1>5, <1>9, <1>12, <1>14, <2>4, <2>5, MasterCardinality DEF Master!Charged
<1>16. Master!Charged(n + 1)'
  <2>1. Master!Adding(n + 1)' \subseteq Handler /\ Master!InFlight(n + 1)' \subseteq Handler
    BY DEF Master!Adding, Master!InFlight
  <2>2. Cardinality(IF Master!Active' = n + 1 THEN Master!InFlight(n + 1)' ELSE Master!Adding(n + 1)') \in Nat
    BY <2>1, CapAssumption, Counting
  <2>3. Master!Rivals(n + 1)' = 0
    BY <1>2, <1>4, MasterCardinality DEF Master!Rivals
  <2>4. Cardinality(Handler) * Master!Rivals(n + 1)' = 0
    BY <1>2, <2>3, MasterNumbers
  <2>5. x5'[n + 1] = 0 /\ x1'[n + 1].failures = 0
    BY <1>4, <1>5 DEF Master!Fresh
  <2>6. QED
    BY <2>2, <2>4, <2>5, MasterCardinality DEF Master!Charged
<1>17. Master!GuessesCharged'
  BY <1>6, <1>15, <1>16 DEF Master!GuessesCharged
<1>18. Master!GuessesPerCode'
  <2>1. ASSUME NEW i \in Master!Code
        PROVE  x5'[i] < MasterLimit + Cardinality(Handler) * (1 + Master!Rivals(i)')
    <3>1. x5[i] < MasterLimit + Cardinality(Handler) * (1 + Master!Rivals(i))
      BY MasterCardinality DEF Master!IInv, Master!GuessesPerCode
    <3> DEFINE z == Cardinality(Handler) * (1 + Master!Rivals(i))
    <3>2. Cardinality(Handler) * (1 + Master!Rivals(i)') = z
          \/ Cardinality(Handler) * (1 + Master!Rivals(i)') = z + Cardinality(Handler)
      <4>1. \A m, r \in Nat : m * (1 + (r + 1)) = m * (1 + r) + m
        OBVIOUS
      <4>2. Cardinality(Handler) \in Nat /\ Master!Rivals(i) \in Nat
        BY <1>2, MasterNumbers
      <4>3. Master!Rivals(i)' = Master!Rivals(i) \/ Master!Rivals(i)' = Master!Rivals(i) + 1
        BY <1>10, <4>2
      <4>4. QED
        BY <4>1, <4>2, <4>3
    <3>3. z \in Nat /\ Cardinality(Handler) \in Nat /\ x5[i] \in Nat /\ MasterLimit \in Nat
      BY <1>2, MasterNumbers
    <3> HIDE DEF z
    <3>4. QED
      BY <1>5, <3>1, <3>2, <3>3 DEF z
  <2>2. x5'[n + 1] < MasterLimit + Cardinality(Handler) * (1 + Master!Rivals(n + 1)')
    <3>1. Master!Rivals(n + 1)' = 0
      BY <1>2, <1>4, MasterCardinality DEF Master!Rivals
    <3>2. Cardinality(Handler) * (1 + Master!Rivals(n + 1)') = Cardinality(Handler)
      BY <1>2, <3>1, MasterNumbers
    <3>3. QED
      BY <1>2, <1>5, <3>2, MasterNumbers
  <2>3. QED
    BY <1>6, <2>1, <2>2, MasterCardinality DEF Master!GuessesPerCode
<1>19. QED
  BY <1>7, <1>8, <1>17, <1>18 DEF Master!IInv

LEMMA MasterInductive == ASSUME Master!IInv, [Master!Next]_(Master!vars) PROVE Master!IInv'
<1>1. Master!TypeOK /\ Master!AloneReplaces
  BY DEF Master!IInv
<1>2. /\ x1 \in Seq([failures: Nat, revoked: BOOLEAN, expired: BOOLEAN])
      /\ x5 \in Seq(Nat) /\ Len(x5) = Len(x1)
      /\ x2 \in [Handler -> [stage: {"free", "charge", "add"}, code: Nat]]
      /\ \A h \in Handler : x2[h].stage = "add" => x2[h].code \in Master!Code
      /\ x3 \in [Admin -> [stage: {"free", "commit"}, sees: SUBSET Nat]]
      /\ Master!Code \subseteq Nat /\ Master!None \in Nat
  BY <1>1, MasterNumbers DEF Master!TypeOK, Master!None
<1>3. ASSUME NEW h \in Handler, Master!Match(h) PROVE Master!IInv'
  <2>1. /\ x2[h].stage = "free" /\ UNCHANGED <<x1, x3>>
        /\ x5' = IF Master!Active = Master!None THEN x5 ELSE [x5 EXCEPT ![Master!Active] = @ + 1]
        /\ x2' = [x2 EXCEPT ![h] = [stage |-> "charge", code |-> Master!None]]
    BY <1>3 DEF Master!Match
  <2>2. x1' = x1 /\ x3' = x3 /\ Master!Code' = Master!Code
    BY <2>1 DEF Master!Code
  <2>3. /\ x2'[h].stage = "charge" /\ \A g \in Handler : g # h => x2'[g] = x2[g]
        /\ x2' \in [Handler -> [stage: {"free", "charge", "add"}, code: Nat]]
    BY <1>2, <2>1
  <2>4. /\ x5' \in Seq(Nat) /\ Len(x5') = Len(x5)
        /\ \A i \in Master!Code : x5'[i] = IF Master!Active = i THEN x5[i] + 1 ELSE x5[i]
    <3>1. CASE Master!Active = Master!None
      <4>1. Master!None \notin Master!Code
        BY DEF Master!None, Master!Code
      <4>2. QED
        BY <1>2, <2>1, <3>1, <4>1
    <3>2. CASE Master!Active # Master!None
      <4>1. Master!Active \in Master!Code
        BY <1>1, <3>2, MasterActiveIsNewest
      <4>2. Master!Active \in 1 .. Len(x5) /\ Master!Code = 1 .. Len(x5)
        BY <1>2, <4>1 DEF Master!Code
      <4>3. x5' = [x5 EXCEPT ![Master!Active] = @ + 1]
        BY <2>1, <3>2
      <4>4. \A i \in 1 .. Len(x5) : x5[i] \in Nat
        BY <1>2
      <4>5. QED
        BY <1>2, <4>2, <4>3, <4>4
    <3>3. QED
      BY <3>1, <3>2
  <2>5. Master!TypeOK'
    BY <1>2, <2>2, <2>3, <2>4 DEF Master!TypeOK
  <2>6. ASSUME NEW i \in Master!Code
        PROVE  /\ Master!Adding(i)' = Master!Adding(i) /\ Master!InFlight(i)' = Master!InFlight(i) \cup {h}
               /\ h \notin Master!InFlight(i)
    BY <2>1, <2>3 DEF Master!Adding, Master!InFlight
  <2>7. ASSUME NEW i \in Master!Code
        PROVE  /\ Cardinality(Master!Adding(i)) \in Nat /\ Cardinality(Master!InFlight(i)) \in Nat
               /\ Cardinality(Master!Adding(i)') = Cardinality(Master!Adding(i))
               /\ Cardinality(Master!InFlight(i)') = Cardinality(Master!InFlight(i)) + 1
    <3>1. h \in Handler \ Master!InFlight(i)
      BY <2>6
    <3>2. QED
      BY <2>6, <3>1, CapAssumption, Counting, MasterFlights
  <2>8. ASSUME NEW i \in Master!Code, Master!Usable(x1[i])
        PROVE  \/ /\ x5'[i] = x5[i]
                  /\ Cardinality(IF Master!Active = i THEN Master!InFlight(i) ELSE Master!Adding(i))
                       <= Cardinality(IF Master!Active = i THEN Master!InFlight(i)' ELSE Master!Adding(i)')
               \/ /\ x5'[i] = x5[i] + 1 /\ Master!Active = i
                  /\ Cardinality(Master!InFlight(i)') = Cardinality(Master!InFlight(i)) + 1
    BY <2>4, <2>7
  <2>9. \A i \in Master!Code : ~Master!Usable(x1[i]) => x5'[i] = x5[i]
    BY <1>1, <2>4, MasterActiveIsNewest
  <2>10. QED
    BY <2>2, <2>5, <2>8, <2>9, MasterAttemptStep
<1>4. ASSUME NEW h \in Handler, Master!ReadForCharge(h) PROVE Master!IInv'
  <2>1. /\ x2[h].stage = "charge" /\ x1' = x1 /\ x3' = x3 /\ x5' = x5
        /\ x2' = [x2 EXCEPT ![h] =
                         IF Master!Active = Master!None THEN Master!Free ELSE [stage |-> "add", code |-> Master!Active]]
    BY <1>4 DEF Master!ReadForCharge
  <2>2. Master!Active \in Master!Code \cup {Master!None} /\ Master!None \notin Master!Code
    BY <1>1, MasterActiveIsNewest DEF Master!None, Master!Code
  <2>3. /\ \A g \in Handler : g # h => x2'[g] = x2[g]
        /\ x2' \in [Handler -> [stage: {"free", "charge", "add"}, code: Nat]]
        /\ Master!Active = Master!None => x2'[h].stage = "free"
        /\ Master!Active # Master!None => x2'[h].stage = "add" /\ x2'[h].code = Master!Active
    BY <1>2, <2>1, <2>2 DEF Master!Free
  <2>4. Master!TypeOK'
    <3>1. Master!Code' = Master!Code
      BY <2>1 DEF Master!Code
    <3>2. \A g \in Handler : x2'[g].stage = "add" => x2'[g].code \in Master!Code
      BY <1>2, <2>2, <2>3
    <3>3. QED
      BY <1>2, <2>1, <2>3, <3>1, <3>2 DEF Master!TypeOK
  <2>5. ASSUME NEW i \in Master!Code
        PROVE  Cardinality(IF Master!Active = i THEN Master!InFlight(i) ELSE Master!Adding(i))
                 <= Cardinality(IF Master!Active = i THEN Master!InFlight(i)' ELSE Master!Adding(i)')
    <3>1. CASE Master!Active = i
      <4>1. Master!InFlight(i)' = Master!InFlight(i)
        BY <2>1, <2>2, <2>3, <3>1 DEF Master!InFlight, Master!Adding
      <4>2. QED
        BY <3>1, <4>1, MasterFlights
    <3>2. CASE Master!Active # i
      <4>1. Master!Adding(i)' = Master!Adding(i)
        BY <2>1, <2>2, <2>3, <3>2 DEF Master!Adding
      <4>2. QED
        BY <3>2, <4>1, MasterFlights
    <3>3. QED
      BY <3>1, <3>2
  <2>6. QED
    BY <2>1, <2>4, <2>5, MasterAttemptStep
<1>5. ASSUME NEW h \in Handler, Master!Charge(h) PROVE Master!IInv'
  <2> DEFINE c == x2[h].code
  <2>0. PICK k : k = x2[h].code
    OBVIOUS
  <2>1. /\ x2[h].stage = "add" /\ k \in Master!Code /\ x3' = x3 /\ x5' = x5
        /\ x1' = [x1 EXCEPT ![k].failures = @ + 1]
        /\ x2' = [x2 EXCEPT ![h] = Master!Free]
    BY <1>2, <1>5, <2>0 DEF Master!Charge
  <2>2. \A i \in Master!Code : x1[i] \in [failures: Nat, revoked: BOOLEAN, expired: BOOLEAN]
    BY <1>1, MasterNumbers
  <2>3. /\ x1' \in Seq([failures: Nat, revoked: BOOLEAN, expired: BOOLEAN])
        /\ Len(x1') = Len(x1)
        /\ \A i \in Master!Code : x1'[i] = IF i = k THEN [x1[i] EXCEPT !.failures = @ + 1]
                                       ELSE x1[i]
    <3>1. Master!Code = 1 .. Len(x1)
      BY DEF Master!Code
    <3>2. PICK e : e = [x1[k] EXCEPT !.failures = @ + 1]
      OBVIOUS
    <3>3. e \in [failures: Nat, revoked: BOOLEAN, expired: BOOLEAN]
      BY <2>1, <2>2, <3>2
    <3>4. x1' = [x1 EXCEPT ![k] = e] /\ k \in 1 .. Len(x1)
      BY <2>1, <3>1, <3>2
    <3>5. /\ x1' \in Seq([failures: Nat, revoked: BOOLEAN, expired: BOOLEAN])
          /\ Len(x1') = Len(x1)
          /\ \A i \in 1 .. Len(x1) : x1'[i] = IF i = k THEN e ELSE x1[i]
      BY <1>2, <3>3, <3>4, SeqUpdate
    <3>6. QED
      BY <3>1, <3>2, <3>5
  <2>4. Master!Code' = Master!Code
    BY <2>3 DEF Master!Code
  <2>5. /\ x2'[h].stage = "free" /\ \A g \in Handler : g # h => x2'[g] = x2[g]
        /\ x2' \in [Handler -> [stage: {"free", "charge", "add"}, code: Nat]]
    BY <1>2, <2>1 DEF Master!Free
  <2>6. Master!TypeOK'
    BY <1>2, <2>1, <2>3, <2>4, <2>5 DEF Master!TypeOK
  <2>7. \A i \in Master!Code : /\ x1'[i].failures = IF i = k THEN x1[i].failures + 1
                                                       ELSE x1[i].failures
                               /\ x1'[i].revoked = x1[i].revoked
                               /\ x1'[i].expired = x1[i].expired
    BY <2>2, <2>3
  <2>8. \A i \in Master!Code : Master!Usable(x1'[i]) => Master!Usable(x1[i])
    BY <2>2, <2>7, MasterNumbers, <1>1 DEF Master!Usable
  <2>9. Master!AloneReplaces'
    BY <1>1, <2>1, <2>3, <2>4, <2>7, MasterCardinality DEF Master!AloneReplaces
  <2>10. \A i \in Master!Code : Master!Rivals(i)' = Master!Rivals(i)
    BY <2>3, MasterCardinality DEF Master!Rivals
  <2>11. Master!GuessesPerCode'
    BY <2>1, <2>4, <2>10, MasterCardinality DEF Master!IInv, Master!GuessesPerCode
  <2>12. Master!GuessesCharged'
    <3> SUFFICES ASSUME NEW i \in Master!Code, Master!Usable(x1'[i]) PROVE Master!Charged(i)'
      BY <2>4 DEF Master!GuessesCharged
    <3>1. Master!Charged(i)
      BY <2>8 DEF Master!IInv, Master!GuessesCharged
    <3>2. Master!Active = i => Master!Active' = i
      BY <1>1, <2>4, <2>6, <2>8, MasterActiveAfter, MasterActiveIsNewest
    <3>3. CASE i = k
      <4>1. /\ Master!Adding(i)' = Master!Adding(i) \ {h} /\ Master!InFlight(i)' = Master!InFlight(i) \ {h}
            /\ h \in Master!Adding(i) /\ h \in Master!InFlight(i)
        BY <2>0, <2>1, <2>5, <3>3 DEF Master!Adding, Master!InFlight
      <4>2. /\ Cardinality(Master!Adding(i)') = Cardinality(Master!Adding(i)) - 1
            /\ Cardinality(Master!InFlight(i)') = Cardinality(Master!InFlight(i)) - 1
        BY <4>1, MasterFlights, CapAssumption, Counting
      <4> DEFINE x == Cardinality(IF Master!Active = i THEN Master!InFlight(i) ELSE Master!Adding(i))
                 y == Cardinality(IF Master!Active' = i THEN Master!InFlight(i)' ELSE Master!Adding(i)')
                 z == Cardinality(Handler) * Master!Rivals(i)
      <4>3. x \in Nat /\ y \in Nat /\ x <= y + 1
        <5>1. CASE Master!Active = i
          BY <3>2, <4>2, <5>1, MasterFlights, MasterFlightsAfter
        <5>2. CASE Master!Active # i
          BY <4>2, <5>2, MasterFlights, MasterFlightsAfter
        <5>3. QED
          BY <5>1, <5>2
      <4>4. z \in Nat /\ x5[i] \in Nat /\ x1[i].failures \in Nat
        BY <1>1, MasterNumbers
      <4>5. x5[i] <= x1[i].failures + x + z
        BY <3>1, MasterCardinality DEF Master!Charged
      <4>6. x5[i] <= (x1[i].failures + 1) + y + z
        <5> HIDE DEF x, y, z
        <5>1. QED
          BY <4>3, <4>4, <4>5
      <4>7. QED
        BY <2>1, <2>7, <2>10, <3>3, <4>6, MasterCardinality DEF Master!Charged
    <3>4. CASE i # k
      <4>1. Master!Adding(i)' = Master!Adding(i) /\ Master!InFlight(i)' = Master!InFlight(i)
        BY <2>0, <2>1, <2>5, <3>4 DEF Master!Adding, Master!InFlight
      <4> DEFINE x == Cardinality(IF Master!Active = i THEN Master!InFlight(i) ELSE Master!Adding(i))
                 y == Cardinality(IF Master!Active' = i THEN Master!InFlight(i)' ELSE Master!Adding(i)')
                 z == Cardinality(Handler) * Master!Rivals(i)
      <4>2. x \in Nat /\ y \in Nat /\ z \in Nat /\ x <= y
            /\ x5[i] \in Nat /\ x1[i].failures \in Nat
        BY <1>1, <3>2, <4>1, MasterFlights, MasterNumbers
      <4>3. x5[i] <= x1[i].failures + x + z
        BY <3>1, MasterCardinality DEF Master!Charged
      <4>4. x5[i] <= x1[i].failures + y + z
        <5> HIDE DEF x, y, z
        <5>1. QED
          BY <4>2, <4>3
      <4>5. QED
        BY <2>1, <2>7, <2>10, <3>4, <4>4, MasterCardinality DEF Master!Charged
    <3>5. QED
      BY <3>3, <3>4
  <2>13. QED
    BY <2>6, <2>9, <2>11, <2>12 DEF Master!IInv
<1>6. ASSUME NEW k \in Master!Code, Master!Expire(k) PROVE Master!IInv'
  <2>1. x1' = [x1 EXCEPT ![k].expired = TRUE] /\ UNCHANGED <<x2, x3, x5>>
    BY <1>6 DEF Master!Expire
  <2>2. \A i \in Master!Code : x1[i] \in [failures: Nat, revoked: BOOLEAN, expired: BOOLEAN]
    BY <1>1, MasterNumbers
  <2>3. /\ x1' \in Seq([failures: Nat, revoked: BOOLEAN, expired: BOOLEAN])
        /\ Len(x1') = Len(x1)
        /\ \A i \in Master!Code : x1'[i] = IF i = k THEN [x1[i] EXCEPT !.expired = TRUE]
                                       ELSE x1[i]
    <3>1. Master!Code = 1 .. Len(x1)
      BY DEF Master!Code
    <3>2. PICK e : e = [x1[k] EXCEPT !.expired = TRUE]
      OBVIOUS
    <3>3. e \in [failures: Nat, revoked: BOOLEAN, expired: BOOLEAN]
      BY <2>1, <2>2, <3>2
    <3>4. x1' = [x1 EXCEPT ![k] = e] /\ k \in 1 .. Len(x1)
      BY <2>1, <3>1, <3>2
    <3>5. /\ x1' \in Seq([failures: Nat, revoked: BOOLEAN, expired: BOOLEAN])
          /\ Len(x1') = Len(x1)
          /\ \A i \in 1 .. Len(x1) : x1'[i] = IF i = k THEN e ELSE x1[i]
      BY <1>2, <3>3, <3>4, SeqUpdate
    <3>6. QED
      BY <3>1, <3>2, <3>5
  <2>4. Master!TypeOK'
    <3>1. Master!Code' = Master!Code
      BY <2>3 DEF Master!Code
    <3>2. QED
      BY <1>2, <2>1, <2>3, <3>1 DEF Master!TypeOK
  <2>5. \A i \in Master!Code : /\ Master!Usable(x1'[i]) => Master!Usable(x1[i])
                               /\ x1'[i].failures = x1[i].failures
                               /\ x1[i].revoked => x1'[i].revoked
    BY <2>2, <2>3 DEF Master!Usable
  <2>6. QED
    BY <2>1, <2>3, <2>4, <2>5, MasterFewerStep
<1>7. ASSUME NEW a \in Admin, Master!Issue(a) PROVE Master!IInv'
  <2>1. /\ UNCHANGED <<x1, x2, x5>>
        /\ x3' = [x3 EXCEPT ![a] =
                       [stage |-> "commit", sees |-> {i \in Master!Code : ~x1[i].revoked}]]
    BY <1>7 DEF Master!Issue
  <2>2. x1' = x1 /\ Master!Code' = Master!Code
    BY <2>1 DEF Master!Code
  <2>3. {i \in Master!Code : ~x1[i].revoked} \in SUBSET Nat
    BY <1>2
  <2>4. /\ x3' \in [Admin -> [stage: {"free", "commit"}, sees: SUBSET Nat]]
        /\ x3'[a].sees = {i \in Master!Code : ~x1[i].revoked}
        /\ \A b \in Admin : b # a => x3'[b] = x3[b]
    BY <1>2, <2>1, <2>3
  <2>5. Master!TypeOK'
    BY <1>2, <2>1, <2>2, <2>4 DEF Master!TypeOK
  <2>6. Master!AloneReplaces'
    BY <1>1, <2>2, <2>4, MasterCardinality DEF Master!AloneReplaces
  <2>7. QED
    BY <2>1, <2>5, <2>6, MasterOtherStep
<1>8. ASSUME NEW a \in Admin, Master!Commit(a) PROVE Master!IInv'
  BY <1>8, MasterCommitStep
<1>9. CASE Master!Load
  <2>1. UNCHANGED <<x1, x2, x3, x5>>
    BY <1>9 DEF Master!Load
  <2>2. Master!TypeOK' /\ Master!AloneReplaces'
    BY <1>1, <1>2, <2>1, MasterCardinality DEF Master!TypeOK, Master!AloneReplaces, Master!Code
  <2>3. QED
    BY <2>1, <2>2, MasterOtherStep
<1>10. CASE Master!Revoke
  <2>1. x1' = [i \in Master!Code |-> [x1[i] EXCEPT !.revoked = TRUE]]
        /\ UNCHANGED <<x2, x3, x5>>
    BY <1>10 DEF Master!Revoke
  <2>2. \A i \in Master!Code : x1[i] \in [failures: Nat, revoked: BOOLEAN, expired: BOOLEAN]
    BY <1>1, MasterNumbers
  <2>3. /\ x1' \in Seq([failures: Nat, revoked: BOOLEAN, expired: BOOLEAN])
        /\ Len(x1') = Len(x1)
        /\ \A i \in Master!Code : x1'[i] = [x1[i] EXCEPT !.revoked = TRUE]
    <3>1. Master!Code = 1 .. Len(x1) /\ Len(x1) \in Nat
      BY <1>1, MasterNumbers DEF Master!Code
    <3>2. x1' \in [1 .. Len(x1) -> [failures: Nat, revoked: BOOLEAN, expired: BOOLEAN]]
      BY <2>1, <2>2, <3>1
    <3>3. QED
      BY <2>1, <3>1, <3>2, SeqDef
  <2>4. Master!TypeOK'
    <3>1. Master!Code' = Master!Code
      BY <2>3 DEF Master!Code
    <3>2. QED
      BY <1>2, <2>1, <2>3, <3>1 DEF Master!TypeOK
  <2>5. \A i \in Master!Code : /\ Master!Usable(x1'[i]) => Master!Usable(x1[i])
                               /\ x1'[i].failures = x1[i].failures
                               /\ x1[i].revoked => x1'[i].revoked
    BY <2>2, <2>3 DEF Master!Usable
  <2>6. QED
    BY <2>1, <2>3, <2>4, <2>5, MasterFewerStep
<1>11. CASE UNCHANGED Master!vars
  <2>1. UNCHANGED <<x1, x2, x3, x5>>
    BY <1>11 DEF Master!vars
  <2>2. Master!TypeOK' /\ Master!AloneReplaces'
    BY <1>1, <1>2, <2>1, MasterCardinality DEF Master!TypeOK, Master!AloneReplaces, Master!Code
  <2>3. QED
    BY <2>1, <2>2, MasterOtherStep
<1>12. QED
  BY <1>3, <1>4, <1>5, <1>6, <1>7, <1>8, <1>9, <1>10, <1>11 DEF Master!Next

(***************************************************************************)
(* For any number of sign-ins and of admins at a time, and any limit: how  *)
(* many guesses are charged to one code.                                   *)
(***************************************************************************)
THEOREM MasterGuessesAreBounded == MCSpec => []GuessesPerCode
<1> DEFINE Inv == which = "master" => Master!IInv
<1>1. MCInit => Inv
  BY MasterInitially DEF MCInit
<1>2. Inv /\ [MCNext]_<<which, vars, xs>> => Inv'
  <2> SUFFICES ASSUME which = "master", Master!IInv, [Master!Next]_(Master!vars)
               PROVE  Master!IInv'
    BY DEF MCNext, xs, Master!vars
  <2> QED
    BY MasterInductive
<1>3. Inv => GuessesPerCode
  BY DEF GuessesPerCode, Master!IInv
<1>4. QED
  BY <1>1, <1>2, <1>3, PTL DEF MCSpec

-----------------------------------------------------------------------------
(* SmsDelivery: x1 mode, x2 configured, x3 changes, x4 relay, x5 send      *)

\* The states of a send that are told apart, and what the invariant says of one.
SmsStages == {"free", "mode", "try", "post", "again", "repost", "sent", "no", "threw"}
SmsReaching(n) == {g \in Gateway : Sms!CanDeliverTo(g, n)}
SmsSends == [at : SmsStages, number : Sms!Number, chain : [first : Sms!Route, left : SUBSET Gateway],
          token : Nat, tried : SUBSET Gateway, taken : SUBSET Gateway, lost : BOOLEAN,
          steady : SUBSET Gateway]
SmsSendOK(s) ==
    /\ s \in SmsSends
    /\ s.at \in {"try", "post", "again", "repost"} => s.chain.left # {}
    /\ s.at \in {"free", "mode"} => s.tried = {}
    /\ s.at = "no" => s.chain.left = {}
    /\ s.chain.left \cup s.tried \subseteq SmsReaching(s.number)
    /\ s.at \notin {"free", "mode"} =>
          s.steady \cap SmsReaching(s.number) \subseteq s.tried \cup s.chain.left
    /\ s.taken \subseteq s.tried
    /\ s.taken # {} /\ s.at # "sent" => s.lost
    /\ s.at = "sent" => s.taken # {} \/ ("custom" \in s.tried /\ ~x4.needle)
    /\ \A g, k \in s.taken : g # k => s.lost

LEMMA SmsParts ==
  Sms!IInv <=> /\ x2 \subseteq Gateway /\ x3 \in Nat
               /\ x4 \in [used : BOOLEAN, held : Nat, good : Nat, needle : BOOLEAN]
               /\ SmsSendOK(x5)
BY DEF Sms!IInv, Sms!TypeOK, Sms!ChainHolds, Sms!TakenUnheard, Sms!AnswerTells, SmsSendOK,
       SmsSends, SmsReaching, SmsStages, Sms!At

\* A step that changes the send alone, or what the invariant does not read.
LEMMA SmsSendStep ==
  ASSUME Sms!IInv, x2' \subseteq Gateway, x3' \in Nat,
         x4' \in [used : BOOLEAN, held : Nat, good : Nat, needle : BOOLEAN],
         x4'.needle = x4.needle, SmsSendOK(x5')
  PROVE  Sms!IInv'
BY DEF Sms!IInv, Sms!TypeOK, Sms!ChainHolds, Sms!TakenUnheard, Sms!AnswerTells, SmsSendOK,
       SmsSends, SmsReaching, SmsStages, Sms!At

LEMMA SmsFreeIs == SmsSendOK(Sms!Free)
<1>1. Sms!NoChain \in [first : Sms!Route, left : SUBSET Gateway] /\ Sms!NoChain.left = {}
  BY DEF Sms!NoChain, Sms!Route
<1>2. /\ Sms!Free \in SmsSends /\ Sms!Free.at = "free" /\ Sms!Free.chain.left = {} /\ Sms!Free.tried = {}
      /\ Sms!Free.taken = {}
  BY <1>1 DEF Sms!Free, SmsSends, SmsStages, Sms!Number
<1>3. QED
  BY <1>2 DEF SmsSendOK

LEMMA SmsInitially == Sms!Init => Sms!IInv
<1> SUFFICES ASSUME Sms!Init PROVE Sms!IInv
  OBVIOUS
<1>1. /\ x2 \subseteq Gateway /\ x3 \in Nat
      /\ x4 \in [used : BOOLEAN, held : Nat, good : Nat, needle : BOOLEAN]
  BY DEF Sms!Init
<1>2. SmsSendOK(x5)
  BY SmsFreeIs DEF Sms!Init
<1>3. QED
  BY <1>1, <1>2, SmsParts

\* Whoever is asked is of the chain.
LEMMA SmsForemostIs ==
  ASSUME NEW chain, chain.left # {}, chain.left \subseteq Gateway PROVE Sms!Foremost(chain) \in chain.left
<1>1. CASE chain.first \in chain.left
  BY <1>1 DEF Sms!Foremost
<1>2. CASE chain.first \notin chain.left
  <2>1. PICK places : places = {i \in DOMAIN Sms!Order : Sms!Order[i] \in chain.left}
    OBVIOUS
  <2>2. /\ DOMAIN Sms!Order = 1 .. 5
        /\ Sms!Order[1] = "routemobile" /\ Sms!Order[2] = "bulksms" /\ Sms!Order[3] = "twilio"
        /\ Sms!Order[4] = "custom" /\ Sms!Order[5] = "africastalking"
    BY DEF Sms!Order
  <2>3. PICK g \in chain.left : g \in {"routemobile", "bulksms", "twilio", "custom", "africastalking"}
    BY SideAssumption
  <2>4. \E i \in 1 .. 5 : Sms!Order[i] = g
    BY <2>2, <2>3
  <2>5. places \subseteq Nat /\ places # {}
    BY <2>1, <2>2, <2>4
  <2>6. Sms!Min(places) \in places
    BY <2>5, Least DEF Sms!Min
  <2>7. QED
    BY <1>2, <2>1, <2>6 DEF Sms!Foremost
<1>3. QED
  BY <1>1, <1>2

\* A gateway has been asked: what became of the send.
SmsHistory == [taken : SUBSET Gateway, lost : BOOLEAN]
SmsAsked(h, answer) ==
    [x5 EXCEPT !.tried = @ \cup {Sms!Now}, !.chain.left = @ \ {Sms!Now}, !.token = 0,
                 !.taken = h.taken, !.lost = h.lost, !.at = answer]

LEMMA SmsNotedIs ==
  ASSUME Sms!IInv, x5.chain.left # {},
         NEW h \in SmsHistory, NEW answer \in SmsStages, NEW s, s = SmsAsked(h, answer)
  PROVE  /\ Sms!Now \in x5.chain.left
         /\ s \in SmsSends /\ s.at = answer /\ s.number = x5.number /\ s.steady = x5.steady
         /\ s.chain.left = x5.chain.left \ {Sms!Now}
         /\ s.tried = x5.tried \cup {Sms!Now} /\ s.taken = h.taken /\ s.lost = h.lost
<1>0. PICK t \in SUBSET Gateway, l \in BOOLEAN : t = h.taken /\ l = h.lost
  BY DEF SmsHistory
<1>1. SmsSendOK(x5) /\ x5 \in SmsSends /\ x5.chain.left # {} /\ x5.chain.left \subseteq Gateway
  BY SmsParts DEF SmsSendOK, SmsSends
<1>2. Sms!Now \in x5.chain.left
  BY <1>1, SmsForemostIs DEF Sms!Now
<1>3. PICK now \in Gateway : now = Sms!Now
  BY <1>1, <1>2
<1>4. x5.chain \in [first : Sms!Route, left : SUBSET Gateway]
  BY <1>1 DEF SmsSends
<1>5. PICK c \in [first : Sms!Route, left : SUBSET Gateway] :
        /\ c = [x5.chain EXCEPT !.left = @ \ {now}]
        /\ c.left = x5.chain.left \ {now}
  <2>1. [x5.chain EXCEPT !.left = @ \ {now}] \in [first : Sms!Route, left : SUBSET Gateway]
    BY <1>4
  <2>2. [x5.chain EXCEPT !.left = @ \ {now}].left = x5.chain.left \ {now}
    BY <1>4
  <2>3. QED
    BY <2>1, <2>2
<1>6. PICK tried \in SUBSET Gateway : tried = x5.tried \cup {now}
  BY <1>1 DEF SmsSends
<1>7. s = [x5 EXCEPT !.tried = tried, !.chain = c, !.token = 0, !.taken = t,
                       !.lost = l, !.at = answer]
  BY <1>0, <1>1, <1>3, <1>5, <1>6 DEF SmsSends, SmsAsked
<1>8. /\ s.at = answer /\ s.number = x5.number /\ s.steady = x5.steady
      /\ s.chain = c /\ s.tried = tried /\ s.taken = t /\ s.lost = l
  BY <1>1, <1>7 DEF SmsSends
<1>9. s \in SmsSends
  <2>1. s = [at |-> answer, number |-> x5.number, chain |-> c, token |-> 0, tried |-> tried,
             taken |-> t, lost |-> l, steady |-> x5.steady]
    BY <1>1, <1>7 DEF SmsSends
  <2>2. x5.number \in Sms!Number /\ x5.steady \in SUBSET Gateway /\ 0 \in Nat
    BY <1>1 DEF SmsSends
  <2>3. QED
    BY <2>1, <2>2 DEF SmsSends
<1>10. QED
  BY <1>0, <1>2, <1>3, <1>5, <1>6, <1>8, <1>9

\* Relay and credentials stay what they are.
LEMMA SmsRest ==
  ASSUME Sms!IInv, SmsSendOK(x5'), UNCHANGED <<x2, x3, x4>> PROVE Sms!IInv'
<1>1. /\ x2 \subseteq Gateway /\ x3 \in Nat
      /\ x4 \in [used : BOOLEAN, held : Nat, good : Nat, needle : BOOLEAN]
  BY DEF Sms!IInv, Sms!TypeOK
<1>2. QED
  BY <1>1, SmsSendStep

\* A gateway that did not take the message, or whose answer was lost.
LEMMA SmsGoneOn ==
  ASSUME Sms!IInv, x5.at \in {"try", "post", "again", "repost"},
         NEW took \in BOOLEAN, NEW lost \in BOOLEAN, took => lost,
         \/ Sms!GoesOn(Sms!Noted(took, lost))
         \/ Sms!Ends(Sms!Noted(took, lost), "threw")
         \/ Sms!Ends(Sms!Noted(took, lost), "sent") /\ Sms!Misread(Sms!Now),
         UNCHANGED <<x2, x3, x4>>
  PROVE  Sms!IInv'
<1>1. SmsSendOK(x5)
  BY SmsParts
<1>2. PICK answer \in {"no", "try", "threw", "sent"} :
        /\ x5' = [Sms!Noted(took, lost) EXCEPT !.at = answer]
        /\ answer = "sent" => Sms!Misread(Sms!Now)
        /\ answer = "no" => Sms!Noted(took, lost).chain.left = {}
        /\ answer = "try" => Sms!Noted(took, lost).chain.left # {}
  BY DEF Sms!GoesOn, Sms!Ends
<1>3. PICK s : s = [Sms!Noted(took, lost) EXCEPT !.at = answer]
  OBVIOUS
<1>4. answer \in SmsStages /\ x5 \in SmsSends /\ x5.chain.left # {} /\ x5.chain.left \subseteq Gateway
  BY <1>1 DEF SmsStages, SmsSendOK, SmsSends
<1>5. /\ Sms!Now \in x5.chain.left
      /\ s \in SmsSends /\ s.at = answer /\ s.number = x5.number
      /\ s.steady = x5.steady
      /\ s.chain.left = x5.chain.left \ {Sms!Now}
      /\ s.tried = x5.tried \cup {Sms!Now}
      /\ s.taken = (IF took THEN x5.taken \cup {Sms!Now} ELSE x5.taken)
      /\ s.lost = (IF lost THEN TRUE ELSE x5.lost)
  <2>1. PICK now \in Gateway : now = Sms!Now
    BY <1>4, SmsForemostIs DEF Sms!Now
  <2>2. PICK l \in BOOLEAN : l = (x5.lost \/ lost) /\ l = (IF lost THEN TRUE ELSE x5.lost)
    BY <1>4 DEF SmsSends
  <2>3. PICK t \in SUBSET Gateway : t = IF took THEN x5.taken \cup {now} ELSE x5.taken
    BY <1>4 DEF SmsSends
  <2>7. PICK h \in SmsHistory : h.taken = t /\ h.lost = l
    <3>1. [taken |-> t, lost |-> l] \in SmsHistory
      BY <2>2, <2>3 DEF SmsHistory
    <3>2. QED
      BY <3>1
  <2>4. s = SmsAsked(h, answer)
    BY <1>3, <1>4, <2>1, <2>2, <2>3, <2>7 DEF Sms!Noted, SmsAsked, SmsSends
  <2>5. /\ Sms!Now \in x5.chain.left
        /\ s \in SmsSends /\ s.at = answer /\ s.number = x5.number /\ s.steady = x5.steady
        /\ s.chain.left = x5.chain.left \ {Sms!Now}
        /\ s.tried = x5.tried \cup {Sms!Now} /\ s.taken = h.taken /\ s.lost = h.lost
    BY <1>4, <2>4, SmsNotedIs
  <2>6. QED
    BY <2>1, <2>2, <2>3, <2>5, <2>7
<1>6. x5 \in SmsSends /\ Sms!Noted(took, lost).chain.left = x5.chain.left \ {Sms!Now}
  BY <1>1 DEF Sms!Noted, SmsSendOK, SmsSends
<1>7. answer = "sent" => Sms!Now = "custom" /\ ~x4.needle
  BY <1>2 DEF Sms!Misread
<1>8. SmsSendOK(s)
  <2>1. PICK now : now = Sms!Now
    OBVIOUS
  <2>2. /\ x5.chain.left \cup x5.tried \subseteq SmsReaching(x5.number)
        /\ x5.steady \cap SmsReaching(x5.number) \subseteq x5.tried \cup x5.chain.left
        /\ x5.taken \subseteq x5.tried
        /\ x5.taken # {} => x5.lost
        /\ \A g, k \in x5.taken : g # k => x5.lost
        /\ x5.lost \in BOOLEAN
    BY <1>1 DEF SmsSendOK, SmsSends
  <2>3. s \in SmsSends /\ (s.at \in {"try", "post", "again", "repost"} => s.chain.left # {})
        /\ (s.at = "no" => s.chain.left = {}) /\ s.at \notin {"free", "mode"}
    BY <1>2, <1>5, <1>6
  <2>4. s.chain.left \cup s.tried \subseteq SmsReaching(s.number)
    BY <1>5, <2>1, <2>2
  <2>5. s.steady \cap SmsReaching(s.number) \subseteq s.tried \cup s.chain.left
    BY <1>5, <2>1, <2>2
  <2>6. s.taken \subseteq s.tried
    BY <1>5, <2>1, <2>2
  <2>7. (s.taken # {} => s.lost) /\ (\A g, k \in s.taken : g # k => s.lost)
    <3>1. CASE took
      BY <1>5, <3>1
    <3>2. CASE ~took
      BY <1>5, <2>2, <3>2
    <3>3. QED
      BY <3>1, <3>2
  <2>8. s.at = "sent" => "custom" \in s.tried /\ ~x4.needle
    BY <1>5, <1>7
  <2>9. QED
    BY <2>3, <2>4, <2>5, <2>6, <2>7, <2>8 DEF SmsSendOK
<1>9. QED
  BY <1>2, <1>3, <1>8, SmsRest

LEMMA SmsTakeStep ==
  ASSUME Sms!IInv, Sms!Take PROVE Sms!IInv'
<1>1. SmsSendOK(x5) /\ x5.at \in {"try", "post", "again", "repost"}
  BY SmsParts DEF Sms!Take, Sms!Asking, Sms!At
<1>2. PICK s : s = [Sms!Noted(TRUE, FALSE) EXCEPT !.at = "sent"]
  OBVIOUS
<1>3. /\ Sms!Now \in x5.chain.left
      /\ s \in SmsSends /\ s.at = "sent" /\ s.number = x5.number
      /\ s.steady = x5.steady
      /\ s.chain.left = x5.chain.left \ {Sms!Now}
      /\ s.tried = x5.tried \cup {Sms!Now}
      /\ s.taken = x5.taken \cup {Sms!Now}
      /\ s.lost = x5.lost
  <2>1. "sent" \in SmsStages /\ TRUE \in BOOLEAN /\ FALSE \in BOOLEAN
    BY DEF SmsStages
  <2>2. x5.lost \in BOOLEAN
    BY <1>1 DEF SmsSendOK, SmsSends
  <2>3. PICK now \in Gateway : now = Sms!Now
    BY <1>1, SmsForemostIs DEF Sms!Now, SmsSendOK, SmsSends
  <2>4. PICK t \in SUBSET Gateway : t = x5.taken \cup {now}
    BY <1>1 DEF SmsSendOK, SmsSends
  <2>5. x5 \in SmsSends /\ x5.chain.left # {}
    BY <1>1 DEF SmsSendOK
  <2>8. PICK h \in SmsHistory : h.taken = t /\ h.lost = x5.lost
    <3>1. [taken |-> t, lost |-> x5.lost] \in SmsHistory
      BY <2>2, <2>4 DEF SmsHistory
    <3>2. QED
      BY <3>1
  <2>6. s = SmsAsked(h, "sent")
    BY <1>2, <2>2, <2>3, <2>4, <2>5, <2>8 DEF Sms!Noted, SmsAsked, SmsSends
  <2>9. /\ Sms!Now \in x5.chain.left
        /\ s \in SmsSends /\ s.at = "sent" /\ s.number = x5.number /\ s.steady = x5.steady
        /\ s.chain.left = x5.chain.left \ {Sms!Now}
        /\ s.tried = x5.tried \cup {Sms!Now} /\ s.taken = h.taken /\ s.lost = h.lost
    BY <2>1, <2>5, <2>6, SmsNotedIs
  <2>7. QED
    BY <2>2, <2>3, <2>4, <2>8, <2>9
<1>4. SmsSendOK(s)
  <2>1. PICK now : now = Sms!Now
    OBVIOUS
  <2>2. /\ x5.chain.left \cup x5.tried \subseteq SmsReaching(x5.number)
        /\ x5.steady \cap SmsReaching(x5.number) \subseteq x5.tried \cup x5.chain.left
        /\ x5.taken \subseteq x5.tried
        /\ x5.taken # {} => x5.lost
        /\ \A g, k \in x5.taken : g # k => x5.lost
    BY <1>1 DEF SmsSendOK
  <2>3. s.chain.left \cup s.tried \subseteq SmsReaching(s.number)
    BY <1>3, <2>1, <2>2
  <2>4. s.steady \cap SmsReaching(s.number) \subseteq s.tried \cup s.chain.left
    BY <1>3, <2>1, <2>2
  <2>5. s.taken \subseteq s.tried /\ s.taken # {}
    BY <1>3, <2>1, <2>2
  <2>6. \A g, k \in s.taken : g # k => s.lost
    BY <1>3, <2>1, <2>2
  <2>7. QED
    BY <1>3, <2>3, <2>4, <2>5, <2>6 DEF SmsSendOK
<1>5. QED
  BY <1>2, <1>4, SmsRest DEF Sms!Take, Sms!Ends, Sms!SendOnly

LEMMA SmsRefuseStep ==
  ASSUME Sms!IInv, Sms!Refuse PROVE Sms!IInv'
<1>1. x5.at \in {"try", "post", "again", "repost"}
  BY DEF Sms!Refuse, Sms!Asking, Sms!At
<1>2. PICK b \in BOOLEAN : b = FALSE
  OBVIOUS
<1>3. /\ \/ Sms!GoesOn(Sms!Noted(b, b))
         \/ Sms!Ends(Sms!Noted(b, b), "threw")
         \/ Sms!Ends(Sms!Noted(b, b), "sent") /\ Sms!Misread(Sms!Now)
      /\ UNCHANGED <<x2, x3, x4>>
  BY <1>2 DEF Sms!Refuse, Sms!SendOnly
<1>4. QED
  BY <1>1, <1>3, SmsGoneOn

LEMMA SmsUnreachableStep ==
  ASSUME Sms!IInv, NEW took \in BOOLEAN, Sms!Unreachable(took) PROVE Sms!IInv'
<1>1. x5.at \in {"try", "post", "again", "repost"}
  BY DEF Sms!Unreachable, Sms!Asking, Sms!At
<1>2. /\ \/ Sms!GoesOn(Sms!Noted(took, took))
         \/ Sms!Ends(Sms!Noted(took, took), "threw")
      /\ UNCHANGED <<x2, x3, x4>>
  BY DEF Sms!Unreachable, Sms!SendOnly
<1>3. QED
  BY <1>1, <1>2, SmsGoneOn

\* The send goes to another place of the same request.
LEMMA SmsMoved ==
  ASSUME Sms!IInv, x5.at \in {"try", "post", "again", "repost"},
         NEW on \in {"post", "again", "repost"}, NEW token \in Nat,
         x5' = [x5 EXCEPT !.at = on, !.token = token]
  PROVE  SmsSendOK(x5')
<1>1. SmsSendOK(x5)
  BY SmsParts
<1>2. PICK s : s = [x5 EXCEPT !.at = on, !.token = token]
  OBVIOUS
<1>3. /\ s \in SmsSends /\ s.at = on /\ s.number = x5.number /\ s.chain = x5.chain
      /\ s.tried = x5.tried /\ s.taken = x5.taken /\ s.lost = x5.lost
      /\ s.steady = x5.steady
  BY <1>1, <1>2 DEF SmsSendOK, SmsSends, SmsStages
<1>4. SmsSendOK(s)
  BY <1>1, <1>3 DEF SmsSendOK
<1>5. QED
  BY <1>2, <1>4

LEMMA SmsRelayTokenStep ==
  ASSUME Sms!IInv, Sms!RelayToken PROVE Sms!IInv'
<1>1. x5.at \in {"try", "post", "again", "repost"}
  BY DEF Sms!RelayToken, Sms!At
<1>2. /\ x2 \subseteq Gateway /\ x3 \in Nat
      /\ x4 \in [used : BOOLEAN, held : Nat, good : Nat, needle : BOOLEAN]
      /\ UNCHANGED <<x2, x3>>
  BY DEF Sms!IInv, Sms!TypeOK, Sms!RelayToken
<1>3. PICK on \in {"post", "repost"} : on = IF Sms!At("try") THEN "post" ELSE "repost"
  OBVIOUS
<1>4. CASE /\ x5' = [x5 EXCEPT !.at = on, !.token = x4.held]
           /\ UNCHANGED x4
  <2>1. SmsSendOK(x5')
    BY <1>1, <1>2, <1>4, SmsMoved
  <2>2. QED
    BY <1>2, <1>4, <2>1, SmsRest
<1>5. CASE /\ x4' = [x4 EXCEPT !.held = x4.good]
           /\ x5' = [x5 EXCEPT !.at = on, !.token = x4.good]
  <2>1. SmsSendOK(x5')
    BY <1>1, <1>2, <1>5, SmsMoved
  <2>2. x4' \in [used : BOOLEAN, held : Nat, good : Nat, needle : BOOLEAN] /\ x4'.needle = x4.needle
    BY <1>2, <1>5
  <2>3. QED
    BY <1>2, <2>1, <2>2, SmsSendStep
<1>6. CASE Sms!GoesOn(Sms!Noted(FALSE, FALSE)) /\ UNCHANGED x4
  <2>1. PICK b \in BOOLEAN : b = FALSE
    OBVIOUS
  <2>2. Sms!GoesOn(Sms!Noted(b, b)) /\ b => b
    BY <1>6, <2>1
  <2>3. Sms!GoesOn(Sms!Noted(b, b)) /\ UNCHANGED <<x2, x3, x4>>
    BY <1>2, <1>6, <2>1
  <2>4. QED
    BY <1>1, <2>3, SmsGoneOn
<1>7. QED
  BY <1>3, <1>4, <1>5, <1>6 DEF Sms!RelayToken

LEMMA SmsRelayRefusedStep ==
  ASSUME Sms!IInv, Sms!RelayRefused PROVE Sms!IInv'
<1>1. x5.at \in {"try", "post", "again", "repost"} /\ x5 \in SmsSends
  BY SmsParts DEF Sms!RelayRefused, Sms!At, SmsSendOK
<1>2. /\ x2 \subseteq Gateway /\ x3 \in Nat
      /\ x4 \in [used : BOOLEAN, held : Nat, good : Nat, needle : BOOLEAN]
      /\ UNCHANGED <<x2, x3>>
      /\ x4' = [x4 EXCEPT !.held = 0] /\ x5' = [x5 EXCEPT !.at = "again"]
  BY DEF Sms!IInv, Sms!TypeOK, Sms!RelayRefused
<1>3. x4' \in [used : BOOLEAN, held : Nat, good : Nat, needle : BOOLEAN] /\ x4'.needle = x4.needle
  BY <1>2
<1>4. PICK token \in Nat : x5' = [x5 EXCEPT !.at = "again", !.token = token]
  <2>1. x5.token \in Nat /\ [x5 EXCEPT !.at = "again"] = [x5 EXCEPT !.at = "again", !.token = x5.token]
    BY <1>1 DEF SmsSends
  <2>2. QED
    BY <1>2, <2>1
<1>5. SmsSendOK(x5')
  BY <1>1, <1>4, SmsMoved
<1>6. QED
  BY <1>2, <1>3, <1>5, SmsSendStep

LEMMA SmsOtherSendsStep ==
  ASSUME Sms!IInv, Sms!OtherSends PROVE Sms!IInv'
<1>1. SmsSendOK(x5) /\ x5' = x5
  BY SmsParts DEF Sms!OtherSends
<1>2. /\ x2 \subseteq Gateway /\ x3 \in Nat
      /\ x4 \in [used : BOOLEAN, held : Nat, good : Nat, needle : BOOLEAN]
      /\ UNCHANGED <<x2, x3>>
      /\ x4' = [x4 EXCEPT !.held = IF @ = 0 THEN x4.good ELSE 0]
  BY DEF Sms!IInv, Sms!TypeOK, Sms!OtherSends
<1>3. x4' \in [used : BOOLEAN, held : Nat, good : Nat, needle : BOOLEAN] /\ x4'.needle = x4.needle
  BY <1>2
<1>4. SmsSendOK(x5')
  BY <1>1
<1>5. QED
  BY <1>2, <1>3, <1>4, SmsSendStep

LEMMA SmsTokenExpiresStep ==
  ASSUME Sms!IInv, Sms!TokenExpires PROVE Sms!IInv'
<1>1. SmsSendOK(x5) /\ x5' = x5
  BY SmsParts DEF Sms!TokenExpires
<1>2. /\ x2' \subseteq Gateway /\ x3' \in Nat
      /\ x4 \in [used : BOOLEAN, held : Nat, good : Nat, needle : BOOLEAN]
      /\ x4' = [x4 EXCEPT !.good = @ + 1]
  BY DEF Sms!IInv, Sms!TypeOK, Sms!TokenExpires, Sms!Change
<1>3. x4' \in [used : BOOLEAN, held : Nat, good : Nat, needle : BOOLEAN] /\ x4'.needle = x4.needle
  BY <1>2
<1>4. SmsSendOK(x5')
  BY <1>1
<1>5. QED
  BY <1>2, <1>3, <1>4, SmsSendStep

LEMMA SmsSaveStep ==
  ASSUME Sms!IInv, NEW m \in Sms!Mode, Sms!SaveSmsProvider(m) PROVE Sms!IInv'
<1>1. SmsSendOK(x5) /\ x5' = x5 /\ x4' = x4
  BY SmsParts DEF Sms!SaveSmsProvider
<1>2. /\ x2' \subseteq Gateway /\ x3' \in Nat
      /\ x4' \in [used : BOOLEAN, held : Nat, good : Nat, needle : BOOLEAN]
  BY DEF Sms!IInv, Sms!TypeOK, Sms!SaveSmsProvider, Sms!Change
<1>3. SmsSendOK(x5')
  BY <1>1
<1>4. QED
  BY <1>1, <1>2, <1>3, SmsSendStep

LEMMA SmsCredentialsStep ==
  ASSUME Sms!IInv, NEW g \in Gateway, Sms!SetSmsCredentials(g) PROVE Sms!IInv'
<1>1. SmsSendOK(x5) /\ x4' = x4 /\ x3 \in Nat /\ x2 \subseteq Gateway
  BY SmsParts DEF Sms!SetSmsCredentials
<1>2. /\ x2' \subseteq Gateway /\ x3' \in Nat
      /\ x4' \in [used : BOOLEAN, held : Nat, good : Nat, needle : BOOLEAN]
  BY <1>1 DEF Sms!IInv, Sms!TypeOK, Sms!SetSmsCredentials, Sms!Change
<1>3. PICK s : s = [x5 EXCEPT !.steady = @ \cap x2']
  OBVIOUS
<1>4. /\ s \in SmsSends /\ s.at = x5.at /\ s.number = x5.number /\ s.chain = x5.chain
      /\ s.tried = x5.tried /\ s.taken = x5.taken /\ s.lost = x5.lost
      /\ s.steady \subseteq x5.steady
  BY <1>1, <1>3 DEF SmsSendOK, SmsSends
<1>5. SmsSendOK(s)
  BY <1>1, <1>4 DEF SmsSendOK
<1>6. x5' = s
  BY <1>3 DEF Sms!SetSmsCredentials
<1>7. QED
  BY <1>1, <1>2, <1>5, <1>6, SmsSendStep

LEMMA SmsDoneStep ==
  ASSUME Sms!IInv, Sms!Done PROVE Sms!IInv'
BY SmsFreeIs, SmsRest DEF Sms!Done, Sms!SendOnly

LEMMA SmsAskStep ==
  ASSUME Sms!IInv, NEW n \in Sms!Number, Sms!Ask(n) PROVE Sms!IInv'
<1>1. PICK s : s = [Sms!Free EXCEPT !.at = "mode", !.number = n]
  OBVIOUS
<1>2. /\ Sms!Free \in SmsSends /\ Sms!Free.chain.left = {} /\ Sms!Free.tried = {} /\ Sms!Free.taken = {}
  BY SmsFreeIs DEF SmsSendOK, Sms!Free, Sms!NoChain
<1>4. /\ s \in SmsSends /\ s.at = "mode" /\ s.number = n /\ s.chain.left = {}
      /\ s.tried = {} /\ s.taken = {}
  BY <1>1, <1>2 DEF SmsSends, SmsStages
<1>3. SmsSendOK(s)
  BY <1>4 DEF SmsSendOK
<1>5. QED
  BY <1>1, <1>3, SmsRest DEF Sms!Ask, Sms!SendOnly

\* All that can be used are of the chain.
LEMMA SmsResolveStep ==
  ASSUME Sms!IInv, Sms!Resolve PROVE Sms!IInv'
<1>1. SmsSendOK(x5) /\ x2 \subseteq Gateway /\ x5.at = "mode"
  BY SmsParts DEF Sms!Resolve, Sms!At
<1>2. PICK n \in Sms!Number : n = x5.number
  BY <1>1 DEF SmsSendOK, SmsSends
<1>3. PICK chain : chain = Sms!ResolveChain(n, Sms!RouteFor(n, x1))
  OBVIOUS
<1>4. /\ chain \in [first : Sms!Route, left : SUBSET Gateway]
      /\ chain.left = x2 \cap SmsReaching(n)
  <2>0. \A i \in DOMAIN Sms!Order : Sms!Order[i] \in Sms!Route
    BY DEF Sms!Order, Sms!Route
  <2>1. PICK first \in Sms!Route : first = Sms!RouteFor(n, x1)
    BY <2>0 DEF Sms!RouteFor, Sms!Route
  <2>2. PICK left \in SUBSET Gateway : left = {g \in x2 : Sms!CanDeliverTo(g, n)}
    BY <1>1
  <2>3. chain = [first |-> first, left |-> left]
    BY <1>3, <2>1, <2>2 DEF Sms!ResolveChain
  <2>4. left = x2 \cap SmsReaching(n)
    BY <1>1, <2>2 DEF SmsReaching
  <2>5. QED
    BY <2>3, <2>4
<1>5. PICK on \in {"no", "try"} : on = IF chain.left = {} THEN "no" ELSE "try"
  OBVIOUS
<1>6. PICK s : s = [x5 EXCEPT !.chain = chain, !.steady = x2, !.at = on]
  OBVIOUS
<1>7. /\ s \in SmsSends /\ s.at = on /\ s.number = n /\ s.chain = chain
      /\ s.tried = {} /\ s.taken = {} /\ s.steady = x2
  BY <1>1, <1>2, <1>4, <1>6 DEF SmsSendOK, SmsSends, SmsStages
<1>8. SmsSendOK(s)
  BY <1>4, <1>5, <1>7 DEF SmsSendOK
<1>9. x5' = s
  BY <1>2, <1>3, <1>5, <1>6 DEF Sms!Resolve
<1>10. QED
  BY <1>8, <1>9, SmsRest DEF Sms!Resolve, Sms!SendOnly

LEMMA SmsInductive == Sms!IInv /\ [Sms!Next]_(Sms!vars) => Sms!IInv'
<1> SUFFICES ASSUME Sms!IInv, [Sms!Next]_(Sms!vars) PROVE Sms!IInv'
  OBVIOUS
<1>1. CASE UNCHANGED Sms!vars
  BY <1>1
     DEF Sms!vars, Sms!IInv, Sms!TypeOK, Sms!ChainHolds, Sms!TakenUnheard, Sms!AnswerTells,
         Sms!At
<1>2. CASE Sms!Next
  BY <1>2, SmsAskStep, SmsResolveStep, SmsTakeStep, SmsRefuseStep, SmsRelayTokenStep,
     SmsRelayRefusedStep, SmsDoneStep, SmsOtherSendsStep, SmsUnreachableStep, SmsSaveStep,
     SmsCredentialsStep, SmsTokenExpiresStep DEF Sms!Next
<1>3. QED
  BY <1>1, <1>2

(***************************************************************************)
(* For any choice of the gateways, and whatever is changed while a send    *)
(* goes on: what it answers holds.                                         *)
(***************************************************************************)
THEOREM AnswersTell == MCSpec => []AnswerTells
<1> DEFINE Inv == which = "sms" => Sms!IInv
<1>1. MCInit => Inv
  BY SmsInitially DEF MCInit
<1>2. Inv /\ [MCNext]_<<which, vars, xs>> => Inv'
  <2> SUFFICES ASSUME which = "sms", Sms!IInv, [Sms!Next]_(Sms!vars)
               PROVE  Sms!IInv'
    BY DEF MCNext, xs, Sms!vars
  <2> QED
    BY SmsInductive
<1>3. Inv => AnswerTells
  BY DEF AnswerTells, Sms!IInv
<1>4. QED
  BY <1>1, <1>2, <1>3, PTL DEF MCSpec

-----------------------------------------------------------------------------
(* Subscribe: x1 screen, x2 payment, x3 asking, x4 timer, x5 poll,          *)
(* x6 doubtful                                                              *)

\* An instance has its own name for an operator of the standard modules.
LEMMA PayingCardinality == \A S : Paying!Cardinality(S) = Cardinality(S)
BY DEF Paying!Cardinality, Cardinality

LEMMA PayingInitially == Paying!Init => Paying!IInv
<1> SUFFICES ASSUME Paying!Init PROVE Paying!IInv
  OBVIOUS
<1> USE SideAssumption
<1>1. Paying!Begun = {} /\ Paying!Newest = 0
  <2>1. Paying!Begun = {}
    BY DEF Paying!Init, Paying!Begun, Paying!Unbegun
  <2>2. QED
    BY <2>1, FS_EmptySet, PayingCardinality DEF Paying!Newest, Paying!Begun
<1>2. Paying!TypeOK
  <2>1. x2 \in [Paying!Payment -> [how: {"none", "prompt", "hosted", "card"}, tries: Nat,
                                charge: {"none", "open", "paid", "declined", "refused"},
                                status: Paying!Statuses]]
    BY DEF Paying!Init, Paying!Unbegun, Paying!Statuses
  <2>2. x5 \in [Poll -> [of: 0 .. MaxPayments, says: Paying!Statuses \cup {"sent"}]]
    BY DEF Paying!Init, Paying!NoPoll, Paying!Statuses
  <2>3. x1 \in [kind: {"page", "callback", "app"}, ref: 0 .. MaxPayments,
                    at: {"plans", "waiting", "away", "checking", "confirmed", "failed",
                         "unsure", "gone"},
                    stuck: BOOLEAN, leaving: BOOLEAN]
    <3>1. 0 \in 0 .. MaxPayments
      OBVIOUS
    <3>2. CASE x1 = Paying!Fresh("page")
      BY <3>1, <3>2 DEF Paying!Fresh
    <3>3. CASE x1 = Paying!Fresh("app")
      BY <3>1, <3>3 DEF Paying!Fresh
    <3>4. QED
      BY <3>2, <3>3 DEF Paying!Init
  <2>4. QED
    BY <2>1, <2>2, <2>3 DEF Paying!Init, Paying!TypeOK
<1>3. Paying!InOrder /\ Paying!Known /\ Paying!NewestAlone
  BY <1>1
     DEF Paying!Init, Paying!InOrder, Paying!Known, Paying!NewestAlone, Paying!Fresh,
         Paying!Unbegun, Paying!NoPoll, Paying!Payment
<1>4. Paying!OneHope /\ Paying!HopeKept /\ Paying!HopeNewest
  BY <1>1 DEF Paying!OneHope, Paying!HopeKept, Paying!HopeNewest, Paying!Hope
<1>5. Paying!FailedTells /\ Paying!ConfirmedTells /\ Paying!WaitingTells
  BY DEF Paying!Init, Paying!FailedTells, Paying!ConfirmedTells, Paying!WaitingTells,
         Paying!Fresh
<1>6. QED
  BY <1>2, <1>3, <1>4, <1>5 DEF Paying!IInv

LEMMA PayingCount == Paying!TypeOK => Paying!Newest \in 0 .. MaxPayments /\ Paying!Newest = Cardinality(Paying!Begun)
<1> SUFFICES ASSUME Paying!TypeOK PROVE Paying!Newest \in 0 .. MaxPayments /\ Paying!Newest = Cardinality(Paying!Begun)
  OBVIOUS
<1> USE SideAssumption
<1>1. Paying!Newest = Cardinality(Paying!Begun)
  BY PayingCardinality DEF Paying!Newest, Paying!Begun
<1>2. IsFiniteSet(Paying!Payment) /\ Cardinality(Paying!Payment) = MaxPayments
  BY FS_Interval DEF Paying!Payment
<1>3. Paying!Begun \subseteq Paying!Payment
  BY DEF Paying!Begun
<1>4. QED
  BY <1>1, <1>2, <1>3, Counting

\* Every step but Pay: nothing new to hope for.
LEMMA PayingNoNewHope ==
  ASSUME Paying!IInv, Paying!TypeOK',
         \A m \in Paying!Payment : /\ x2'[m].how = x2[m].how
                                   /\ x2[m].charge \in {"paid", "declined", "refused"}
                                         => x2'[m].charge = x2[m].charge,
         x6 \subseteq x6',
         x1'.kind # "app" => x1.kind # "app"
  PROVE  /\ Paying!Begun' = Paying!Begun /\ Paying!Newest' = Paying!Newest /\ Paying!Newest \in 0 .. MaxPayments
         /\ \A m \in Paying!Payment : Paying!Hope(m)' => Paying!Hope(m)
         /\ Paying!OneHope' /\ Paying!HopeNewest'
         /\ (x1'.at = "failed" => x1.at = "failed") => Paying!FailedTells'
         /\ (x1'.at = "confirmed" => x1.at = "confirmed") => Paying!ConfirmedTells'
<1>1. Paying!Begun' = Paying!Begun
  BY DEF Paying!Begun
<1>2. Paying!Newest' = Paying!Newest /\ Paying!Newest \in 0 .. MaxPayments
  <2>1. Paying!Newest = Cardinality(Paying!Begun) /\ Paying!Newest \in 0 .. MaxPayments
    BY PayingCount DEF Paying!IInv
  <2>2. Paying!Newest' = Cardinality(Paying!Begun')
    BY PayingCardinality DEF Paying!Newest, Paying!Begun
  <2>3. QED
    BY <2>1, <2>2, <1>1
<1>3. ASSUME NEW m \in Paying!Payment, Paying!Hope(m)' PROVE Paying!Hope(m)
  BY <1>1, <1>3 DEF Paying!Hope
<1>4. Paying!OneHope' /\ Paying!HopeNewest'
  BY <1>2, <1>3 DEF Paying!IInv, Paying!OneHope, Paying!HopeNewest
<1>5. (x1'.at = "failed" => x1.at = "failed") => Paying!FailedTells'
  BY <1>2 DEF Paying!IInv, Paying!FailedTells
<1>6. (x1'.at = "confirmed" => x1.at = "confirmed") => Paying!ConfirmedTells'
  BY DEF Paying!IInv, Paying!ConfirmedTells
<1>7. QED
  BY <1>1, <1>2, <1>3, <1>4, <1>5, <1>6

LEMMA PayingPayKeeps == ASSUME Paying!IInv, NEW how \in {"prompt", "hosted", "card"}, Paying!Pay(how) PROVE Paying!IInv'
<1> USE SideAssumption
<1>0. Paying!TypeOK /\ Paying!InOrder /\ Paying!Known /\ Paying!NewestAlone /\ Paying!OneHope /\ Paying!HopeKept /\ Paying!HopeNewest
  BY DEF Paying!IInv
<1>1. PICK k : k = Paying!Newest + 1
  OBVIOUS
<1>2. Paying!Newest \in Nat /\ k \in Paying!Payment /\ k \notin Paying!Begun /\ Paying!Begun \subseteq Paying!Payment
  <2>1. Paying!Newest \in Nat /\ Paying!Newest < MaxPayments
    BY <1>0, PayingCount DEF Paying!Pay
  <2>2. k \in Paying!Payment /\ ~(k <= Paying!Newest)
    BY <1>1, <2>1 DEF Paying!Payment
  <2>3. Paying!Begun \subseteq Paying!Payment
    BY DEF Paying!Begun
  <2>4. QED
    BY <1>0, <2>1, <2>2, <2>3 DEF Paying!InOrder
<1>3. /\ x2' = [x2 EXCEPT ![k].how = how] /\ x3' = x3 \cup {k}
      /\ x1' = x1 /\ x4' = x4 /\ x5' = x5
      /\ \/ x3 = {} /\ x4 = {} /\ Paying!Quiet /\ x6' = x6
         \/ x6' = x6 \cup {k}
      /\ x1.at = "plans" /\ (x1.kind # "app" => x3 = {})
  BY <1>0, <1>1 DEF Paying!Pay, Paying!Doubt, Paying!TypeOK
<1>4. /\ x2'[k].how = how /\ how # "none" /\ x2'[k].charge = x2[k].charge
      /\ \A m \in Paying!Payment : /\ m # k => x2'[m] = x2[m]
                                   /\ x2'[m].charge = x2[m].charge
                                   /\ x2'[m].status = x2[m].status
  BY <1>0, <1>2, <1>3 DEF Paying!TypeOK
<1>5. Paying!Begun' = Paying!Begun \cup {k}
  BY <1>2, <1>4 DEF Paying!Begun
<1>6. Paying!Newest' = k
  <2>1. IsFiniteSet(Paying!Payment)
    BY FS_Interval DEF Paying!Payment
  <2>2. Cardinality(Paying!Begun \cup {k}) = Cardinality(Paying!Begun) + 1
    BY <1>2, <2>1, Counting
  <2>3. Paying!Newest' = Cardinality(Paying!Begun')
    BY PayingCardinality DEF Paying!Newest, Paying!Begun
  <2>4. QED
    BY <1>0, <1>1, <1>5, <2>2, <2>3, PayingCount
<1>7. Paying!TypeOK'
  <2>1. x2' \in [Paying!Payment -> [how: {"none", "prompt", "hosted", "card"}, tries: Nat,
                                charge: {"none", "open", "paid", "declined", "refused"},
                                status: Paying!Statuses]]
    BY <1>0, <1>2, <1>3 DEF Paying!TypeOK
  <2>2. QED
    BY <1>0, <1>2, <1>3, <2>1 DEF Paying!TypeOK
<1>8. Paying!InOrder'
  <2>1. ASSUME NEW m \in Paying!Payment PROVE m \in Paying!Begun' <=> m <= Paying!Newest'
    BY <1>0, <1>1, <1>2, <1>5, <1>6 DEF Paying!InOrder, Paying!Payment
  <2>2. QED
    BY <1>0, <1>2, <1>3, <1>5, <2>1 DEF Paying!InOrder
<1>9. Paying!Known'
  <2>1. \A m \in Paying!Payment : m \notin Paying!Begun' => m \notin Paying!Begun
    BY <1>5
  <2>2. x2[k].charge = "none"
    BY <1>0, <1>2 DEF Paying!Known
  <2>3. \A s \in Poll : x5[s].says \in {"successful", "failed"} => x5[s].of \in Paying!Payment
    BY <1>0, <1>2 DEF Paying!InOrder
  <2>4. QED
    BY <1>0, <1>3, <1>4, <2>1, <2>2, <2>3 DEF Paying!Known
<1>10. Paying!NewestAlone'
  BY <1>2, <1>3, <1>6 DEF Paying!NewestAlone, Paying!Quiet, Paying!NoPoll
<1>11. ASSUME NEW m \in Paying!Payment, Paying!Hope(m) PROVE x1.kind = "app" /\ ~(x3 = {} /\ x4 = {})
  BY <1>0, <1>3, <1>11 DEF Paying!HopeKept
<1>12. ASSUME NEW m \in Paying!Payment, Paying!Hope(m)' PROVE Paying!Hope(m) \/ m = k
  <2>1. m \in Paying!Begun' /\ m \notin x6' /\ x2'[m].charge \notin {"refused", "declined"}
    BY <1>12 DEF Paying!Hope
  <2>2. x6 \subseteq x6'
    BY <1>3
  <2>3. QED
    BY <1>4, <1>5, <2>1, <2>2 DEF Paying!Hope
<1>13. ASSUME NEW m \in Paying!Payment, Paying!Hope(m)' PROVE Paying!Hope(m) \/ (m = k /\ \A j \in Paying!Payment : ~Paying!Hope(j))
  <2>1. k \notin x6' => \A j \in Paying!Payment : ~Paying!Hope(j)
    BY <1>3, <1>11
  <2>2. m = k => k \notin x6'
    BY <1>13 DEF Paying!Hope
  <2>3. QED
    BY <1>12, <1>13, <2>1, <2>2
<1>14. Paying!OneHope' /\ Paying!HopeNewest'
  <2>1. Paying!OneHope'
    BY <1>0, <1>13 DEF Paying!OneHope
  <2>2. Paying!HopeNewest'
    BY <1>3, <1>6, <1>11, <1>13 DEF Paying!HopeNewest
  <2>3. QED
    BY <2>1, <2>2
<1>15. Paying!HopeKept'
  BY <1>0, <1>3, <1>13 DEF Paying!HopeKept
<1>16. Paying!FailedTells' /\ Paying!ConfirmedTells' /\ Paying!WaitingTells'
  BY <1>3 DEF Paying!FailedTells, Paying!ConfirmedTells, Paying!WaitingTells
<1>17. QED
  BY <1>7, <1>8, <1>9, <1>10, <1>14, <1>15, <1>16 DEF Paying!IInv

\* A step of the server, the customer or the provider: the screen, what it asks for
\* and what it waits for stay, and a charge is opened, decided and never undone.
LEMMA PayingScreenStays ==
  ASSUME Paying!IInv, Paying!TypeOK', UNCHANGED <<x1, x3, x4, x6>>,
         \A s \in Poll : x5'[s].of \in {x5[s].of} \cup x4,
         \A m \in Paying!Payment : /\ x2'[m].how = x2[m].how
                                   /\ x2[m].charge \in {"paid", "declined", "refused"}
                                         => x2'[m].charge = x2[m].charge
  PROVE  /\ Paying!OneHope' /\ Paying!HopeNewest' /\ Paying!HopeKept' /\ Paying!NewestAlone' /\ Paying!Begun' = Paying!Begun
         /\ Paying!FailedTells' /\ Paying!ConfirmedTells' /\ Paying!WaitingTells'
         /\ \A m \in Paying!Payment : m \in Paying!Begun' <=> m <= Paying!Newest'
<1>0. Paying!TypeOK /\ Paying!InOrder /\ Paying!Known /\ Paying!NewestAlone /\ Paying!OneHope /\ Paying!HopeKept /\ Paying!HopeNewest
  BY DEF Paying!IInv
<1>1. /\ Paying!Begun' = Paying!Begun /\ Paying!Newest' = Paying!Newest /\ Paying!OneHope' /\ Paying!HopeNewest'
      /\ \A m \in Paying!Payment : Paying!Hope(m)' => Paying!Hope(m)
      /\ Paying!FailedTells' /\ Paying!ConfirmedTells'
  BY PayingNoNewHope
<1>2. Paying!HopeKept'
  BY <1>0, <1>1 DEF Paying!HopeKept
<1>3. Paying!NewestAlone'
  <2>1. ASSUME Paying!Newest \notin x6, NEW s \in Poll PROVE x5'[s].of \in {0, Paying!Newest}
    BY <1>0, <2>1 DEF Paying!NewestAlone
  <2>2. QED
    BY <1>0, <1>1, <2>1 DEF Paying!NewestAlone
<1>4. Paying!WaitingTells'
  BY DEF Paying!IInv, Paying!WaitingTells
<1>5. \A m \in Paying!Payment : m \in Paying!Begun' <=> m <= Paying!Newest'
  BY <1>0, <1>1 DEF Paying!InOrder
<1>6. QED
  BY <1>1, <1>2, <1>3, <1>4, <1>5

LEMMA PayingCheckoutKeeps == ASSUME Paying!IInv, NEW n \in Paying!Payment, Paying!Checkout(n) PROVE Paying!IInv'
<1>0. Paying!TypeOK /\ Paying!InOrder /\ Paying!Known
  BY DEF Paying!IInv
<1>1. PICK c \in {"none", "open"} :
         /\ x2' = [x2 EXCEPT ![n].status = "pending", ![n].charge = c]
         /\ c = IF x2[n].how = "prompt" THEN "open" ELSE "none"
  BY <1>0 DEF Paying!Checkout
<1>2. /\ UNCHANGED <<x1, x3, x4, x5, x6>>
      /\ n \in Paying!Begun /\ x2[n].charge = "none"
  BY <1>0 DEF Paying!Checkout, Paying!Known, Paying!Begun
<1>3. /\ x2'[n].how = x2[n].how /\ x2'[n].status = "pending"
      /\ x2'[n].charge = c
      /\ \A m \in Paying!Payment : m # n => x2'[m] = x2[m]
  BY <1>0, <1>1 DEF Paying!TypeOK
<1>4. Paying!TypeOK'
  <2>1. x2' \in [Paying!Payment -> [how: {"none", "prompt", "hosted", "card"}, tries: Nat,
                                charge: {"none", "open", "paid", "declined", "refused"},
                                status: Paying!Statuses]]
    <3>1. PICK r : r = [x2[n] EXCEPT !.status = "pending", !.charge = c]
      OBVIOUS
    <3>2. x2' = [x2 EXCEPT ![n] = r]
      BY <1>0, <1>1, <3>1 DEF Paying!TypeOK
    <3>3. r \in [how: {"none", "prompt", "hosted", "card"}, tries: Nat,
                charge: {"none", "open", "paid", "declined", "refused"}, status: Paying!Statuses]
      BY <1>0, <1>1, <3>1 DEF Paying!TypeOK, Paying!Statuses
    <3>4. QED
      BY <1>0, <3>2, <3>3 DEF Paying!TypeOK
  <2>2. QED
    BY <1>0, <1>2, <2>1 DEF Paying!TypeOK
<1>5. /\ Paying!OneHope' /\ Paying!HopeNewest' /\ Paying!HopeKept' /\ Paying!NewestAlone' /\ Paying!Begun' = Paying!Begun
      /\ Paying!FailedTells' /\ Paying!ConfirmedTells' /\ Paying!WaitingTells'
      /\ \A m \in Paying!Payment : m \in Paying!Begun' <=> m <= Paying!Newest'
  <2>1. \A m \in Paying!Payment : /\ x2'[m].how = x2[m].how
                                  /\ x2[m].charge \in {"paid", "declined", "refused"}
                                         => x2'[m].charge = x2[m].charge
    BY <1>2, <1>3
  <2>2. QED
    BY <1>2, <1>4, <2>1, PayingScreenStays
<1>6. Paying!InOrder'
  BY <1>0, <1>2, <1>5 DEF Paying!InOrder
<1>7. Paying!Known'
  <2>1. ASSUME NEW m \in Paying!Payment
        PROVE  /\ x2'[m].status = "none" => x2'[m].charge \in {"none", "refused"}
               /\ x2'[m].status = "successful" => x2'[m].charge = "paid"
               /\ x2'[m].status = "failed" => x2'[m].charge = "declined"
               /\ m \in x3' /\ x2'[m].how # "prompt" => x2'[m].charge = "none"
               /\ m \notin Paying!Begun' => x2'[m].charge = "none"
    <3>1. CASE m = n
      BY <1>0, <1>1, <1>2, <1>3, <1>5, <3>1 DEF Paying!Known
    <3>2. CASE m # n
      BY <1>0, <1>2, <1>3, <1>5, <3>2 DEF Paying!Known
    <3>3. QED
      BY <3>1, <3>2
  <2>2. ASSUME NEW r \in Poll
        PROVE  /\ x5'[r].says = "successful" => x2'[x5'[r].of].charge = "paid"
               /\ x5'[r].says = "failed" => x2'[x5'[r].of].charge = "declined"
    <3>1. x5[r].says \in {"successful", "failed"} => x5[r].of \in Paying!Payment
      BY <1>0 DEF Paying!InOrder, Paying!Begun
    <3>2. QED
      BY <1>0, <1>2, <1>3, <3>1 DEF Paying!Known
  <2>3. QED
    BY <2>1, <2>2 DEF Paying!Known
<1>8. QED
  BY <1>4, <1>5, <1>6, <1>7 DEF Paying!IInv

LEMMA PayingDecideKeeps == ASSUME Paying!IInv, NEW n \in Paying!Payment, Paying!Decide(n) PROVE Paying!IInv'
<1>0. Paying!TypeOK /\ Paying!InOrder /\ Paying!Known
  BY DEF Paying!IInv
<1>1. PICK c \in {"paid", "declined"} : x2' = [x2 EXCEPT ![n].charge = c]
  BY DEF Paying!Decide
<1>2. UNCHANGED <<x1, x3, x4, x5, x6>> /\ x2[n].charge = "open"
  BY DEF Paying!Decide
<1>3. /\ x2'[n].how = x2[n].how /\ x2'[n].status = x2[n].status
      /\ x2'[n].charge = c
      /\ \A m \in Paying!Payment : m # n => x2'[m] = x2[m]
  BY <1>0, <1>1 DEF Paying!TypeOK
<1>4. Paying!TypeOK'
  <2>1. x2' \in [Paying!Payment -> [how: {"none", "prompt", "hosted", "card"}, tries: Nat,
                                charge: {"none", "open", "paid", "declined", "refused"},
                                status: Paying!Statuses]]
    BY <1>0, <1>1 DEF Paying!TypeOK
  <2>2. QED
    BY <1>0, <1>2, <2>1 DEF Paying!TypeOK
<1>5. /\ Paying!OneHope' /\ Paying!HopeNewest' /\ Paying!HopeKept' /\ Paying!NewestAlone' /\ Paying!Begun' = Paying!Begun
      /\ Paying!FailedTells' /\ Paying!ConfirmedTells' /\ Paying!WaitingTells'
      /\ \A m \in Paying!Payment : m \in Paying!Begun' <=> m <= Paying!Newest'
  <2>1. \A m \in Paying!Payment : /\ x2'[m].how = x2[m].how
                                  /\ x2[m].charge \in {"paid", "declined", "refused"}
                                         => x2'[m].charge = x2[m].charge
    BY <1>2, <1>3
  <2>2. QED
    BY <1>2, <1>4, <2>1, PayingScreenStays
<1>6. Paying!InOrder'
  BY <1>0, <1>2, <1>5 DEF Paying!InOrder
<1>7. Paying!Known'
  <2>1. ASSUME NEW m \in Paying!Payment
        PROVE  /\ x2'[m].status = "none" => x2'[m].charge \in {"none", "refused"}
               /\ x2'[m].status = "successful" => x2'[m].charge = "paid"
               /\ x2'[m].status = "failed" => x2'[m].charge = "declined"
               /\ m \in x3' /\ x2'[m].how # "prompt" => x2'[m].charge = "none"
               /\ m \notin Paying!Begun' => x2'[m].charge = "none"
    <3>1. CASE m = n
      BY <1>0, <1>2, <1>3, <1>5, <3>1 DEF Paying!Known
    <3>2. CASE m # n
      BY <1>0, <1>2, <1>3, <1>5, <3>2 DEF Paying!Known
    <3>3. QED
      BY <3>1, <3>2
  <2>2. ASSUME NEW r \in Poll
        PROVE  /\ x5'[r].says = "successful" => x2'[x5'[r].of].charge = "paid"
               /\ x5'[r].says = "failed" => x2'[x5'[r].of].charge = "declined"
    <3>1. x5[r].says \in {"successful", "failed"} => x5[r].of \in Paying!Payment
      BY <1>0 DEF Paying!InOrder, Paying!Begun
    <3>2. QED
      BY <1>0, <1>2, <1>3, <3>1 DEF Paying!Known
  <2>3. QED
    BY <2>1, <2>2 DEF Paying!Known
<1>8. QED
  BY <1>4, <1>5, <1>6, <1>7 DEF Paying!IInv

LEMMA PayingNotifiedKeeps == ASSUME Paying!IInv, NEW n \in Paying!Payment, Paying!Notified(n) PROVE Paying!IInv'
<1>0. Paying!TypeOK /\ Paying!InOrder /\ Paying!Known
  BY DEF Paying!IInv
<1>1. PICK c \in {"successful", "failed"} :
         /\ x2' = [x2 EXCEPT ![n].status = c]
         /\ c = "successful" => x2[n].charge = "paid"
         /\ c = "failed" => x2[n].charge = "declined"
  BY <1>0 DEF Paying!Notified, Paying!Found
<1>2. UNCHANGED <<x1, x3, x4, x5, x6>> /\ x2[n].status = "pending"
  BY DEF Paying!Notified
<1>3. /\ x2'[n].how = x2[n].how /\ x2'[n].status = c
      /\ x2'[n].charge = x2[n].charge
      /\ \A m \in Paying!Payment : m # n => x2'[m] = x2[m]
  BY <1>0, <1>1 DEF Paying!TypeOK
<1>4. Paying!TypeOK'
  <2>1. x2' \in [Paying!Payment -> [how: {"none", "prompt", "hosted", "card"}, tries: Nat,
                                charge: {"none", "open", "paid", "declined", "refused"},
                                status: Paying!Statuses]]
    <3>1. "pending" \in Paying!Statuses /\ "successful" \in Paying!Statuses /\ "failed" \in Paying!Statuses
      BY DEF Paying!Statuses
    <3>2. QED
      BY <1>0, <1>1, <3>1 DEF Paying!TypeOK
  <2>2. QED
    BY <1>0, <1>2, <2>1 DEF Paying!TypeOK
<1>5. /\ Paying!OneHope' /\ Paying!HopeNewest' /\ Paying!HopeKept' /\ Paying!NewestAlone' /\ Paying!Begun' = Paying!Begun
      /\ Paying!FailedTells' /\ Paying!ConfirmedTells' /\ Paying!WaitingTells'
      /\ \A m \in Paying!Payment : m \in Paying!Begun' <=> m <= Paying!Newest'
  <2>1. \A m \in Paying!Payment : /\ x2'[m].how = x2[m].how
                                  /\ x2[m].charge \in {"paid", "declined", "refused"}
                                         => x2'[m].charge = x2[m].charge
    BY <1>2, <1>3
  <2>2. QED
    BY <1>2, <1>4, <2>1, PayingScreenStays
<1>6. Paying!InOrder'
  BY <1>0, <1>2, <1>5 DEF Paying!InOrder
<1>7. Paying!Known'
  <2>1. ASSUME NEW m \in Paying!Payment
        PROVE  /\ x2'[m].status = "none" => x2'[m].charge \in {"none", "refused"}
               /\ x2'[m].status = "successful" => x2'[m].charge = "paid"
               /\ x2'[m].status = "failed" => x2'[m].charge = "declined"
               /\ m \in x3' /\ x2'[m].how # "prompt" => x2'[m].charge = "none"
               /\ m \notin Paying!Begun' => x2'[m].charge = "none"
    <3>1. CASE m = n
      BY <1>0, <1>1, <1>2, <1>3, <1>5, <3>1 DEF Paying!Known
    <3>2. CASE m # n
      BY <1>0, <1>2, <1>3, <1>5, <3>2 DEF Paying!Known
    <3>3. QED
      BY <3>1, <3>2
  <2>2. ASSUME NEW r \in Poll
        PROVE  /\ x5'[r].says = "successful" => x2'[x5'[r].of].charge = "paid"
               /\ x5'[r].says = "failed" => x2'[x5'[r].of].charge = "declined"
    <3>1. x5[r].says \in {"successful", "failed"} => x5[r].of \in Paying!Payment
      BY <1>0 DEF Paying!InOrder, Paying!Begun
    <3>2. QED
      BY <1>0, <1>2, <1>3, <3>1 DEF Paying!Known
  <2>3. QED
    BY <2>1, <2>2 DEF Paying!Known
<1>8. QED
  BY <1>4, <1>5, <1>6, <1>7 DEF Paying!IInv

LEMMA PayingGetStatusKeeps == ASSUME Paying!IInv, NEW s \in Poll, Paying!GetStatus(s) PROVE Paying!IInv'
<1>0. Paying!TypeOK /\ Paying!InOrder /\ Paying!Known
  BY DEF Paying!IInv
<1>1. PICK n : n = x5[s].of
  OBVIOUS
<1>2. n \in Paying!Payment
  BY <1>0, <1>1 DEF Paying!InOrder, Paying!GetStatus, Paying!Begun
<1>3. PICK c \in {x2[n].status, Paying!Found(x2[n])} :
         /\ x2[n].status # "pending" => c = x2[n].status
         /\ x2' = [x2 EXCEPT ![n].status = c]
         /\ x5' = [x5 EXCEPT ![s].says = c]
  BY <1>1 DEF Paying!GetStatus
<1>4. /\ c \in Paying!Statuses
      /\ c = "none" => x2[n].status = "none"
      /\ c = "successful" => x2[n].charge = "paid"
      /\ c = "failed" => x2[n].charge = "declined"
      /\ UNCHANGED <<x1, x3, x4, x6>>
  BY <1>0, <1>2, <1>3
     DEF Paying!GetStatus, Paying!Found, Paying!Known, Paying!TypeOK, Paying!Statuses
<1>5. /\ x2'[n].how = x2[n].how /\ x2'[n].status = c
      /\ x2'[n].charge = x2[n].charge
      /\ \A m \in Paying!Payment : m # n => x2'[m] = x2[m]
  BY <1>0, <1>2, <1>3 DEF Paying!TypeOK
<1>6. /\ x5'[s].of = n /\ x5'[s].says = c
      /\ \A r \in Poll : r # s => x5'[r] = x5[r]
  BY <1>0, <1>1, <1>3 DEF Paying!TypeOK
<1>7. Paying!TypeOK'
  <2>1. x2' \in [Paying!Payment -> [how: {"none", "prompt", "hosted", "card"}, tries: Nat,
                                charge: {"none", "open", "paid", "declined", "refused"},
                                status: Paying!Statuses]]
    BY <1>0, <1>2, <1>3, <1>4 DEF Paying!TypeOK
  <2>2. x5' \in [Poll -> [of: 0 .. MaxPayments, says: Paying!Statuses \cup {"sent"}]]
    BY <1>0, <1>3, <1>4 DEF Paying!TypeOK
  <2>3. QED
    BY <1>0, <1>4, <2>1, <2>2 DEF Paying!TypeOK
<1>8. /\ Paying!OneHope' /\ Paying!HopeNewest' /\ Paying!HopeKept' /\ Paying!NewestAlone' /\ Paying!Begun' = Paying!Begun
      /\ Paying!FailedTells' /\ Paying!ConfirmedTells' /\ Paying!WaitingTells'
      /\ \A m \in Paying!Payment : m \in Paying!Begun' <=> m <= Paying!Newest'
  <2>1. \A m \in Paying!Payment : /\ x2'[m].how = x2[m].how
                                  /\ x2[m].charge \in {"paid", "declined", "refused"}
                                         => x2'[m].charge = x2[m].charge
    BY <1>5
  <2>2. \A r \in Poll : x5'[r].of \in {x5[r].of} \cup x4
    BY <1>1, <1>6
  <2>3. QED
    BY <1>4, <1>7, <2>1, <2>2, PayingScreenStays
<1>9. n # 0
  BY <1>0, <1>1 DEF Paying!GetStatus, Paying!InOrder
<1>10. Paying!InOrder'
  <2>1. \A r \in Poll : /\ x5'[r].of # 0 => x5'[r].of \in Paying!Begun
                        /\ x5'[r].of = 0 => x5'[r].says = "none"
    BY <1>0, <1>1, <1>6, <1>9 DEF Paying!InOrder
  <2>2. QED
    BY <1>0, <1>4, <1>8, <2>1 DEF Paying!InOrder
<1>11. Paying!Known'
  <2>1. ASSUME NEW m \in Paying!Payment
        PROVE  /\ x2'[m].status = "none" => x2'[m].charge \in {"none", "refused"}
               /\ x2'[m].status = "successful" => x2'[m].charge = "paid"
               /\ x2'[m].status = "failed" => x2'[m].charge = "declined"
               /\ m \in x3' /\ x2'[m].how # "prompt" => x2'[m].charge = "none"
               /\ m \notin Paying!Begun' => x2'[m].charge = "none"
    <3>1. CASE m = n
      BY <1>0, <1>4, <1>5, <1>8, <3>1 DEF Paying!Known
    <3>2. CASE m # n
      BY <1>0, <1>4, <1>5, <1>8, <3>2 DEF Paying!Known
    <3>3. QED
      BY <3>1, <3>2
  <2>2. \A r \in Poll :
          /\ x5'[r].says = "successful" => x2[x5'[r].of].charge = "paid"
          /\ x5'[r].says = "failed" => x2[x5'[r].of].charge = "declined"
    BY <1>0, <1>4, <1>6 DEF Paying!Known
  <2>3. \A r \in Poll : x5'[r].says \in {"successful", "failed"} => x5'[r].of \in Paying!Payment
    BY <1>0, <1>2, <1>6 DEF Paying!InOrder, Paying!Begun
  <2>4. \A r \in Poll :
          /\ x5'[r].says = "successful" => x2'[x5'[r].of].charge = "paid"
          /\ x5'[r].says = "failed" => x2'[x5'[r].of].charge = "declined"
    BY <1>5, <2>2, <2>3
  <2>5. QED
    BY <2>1, <2>4 DEF Paying!Known
<1>12. QED
  BY <1>7, <1>8, <1>10, <1>11 DEF Paying!IInv

LEMMA PayingTickKeeps == ASSUME Paying!IInv, NEW n \in Paying!Payment, Paying!Tick(n) PROVE Paying!IInv'
<1>0. Paying!TypeOK /\ Paying!InOrder /\ Paying!Known
  BY DEF Paying!IInv
<1>1. PICK s \in Poll : x5' = [x5 EXCEPT ![s] = [of |-> n, says |-> "sent"]]
  BY DEF Paying!Tick
<1>2. PICK t : t = IF x2[n].tries > MaxTries THEN x2[n].tries ELSE x2[n].tries + 1
  OBVIOUS
<1>3. x2' = [x2 EXCEPT ![n].tries = t]
  BY <1>0, <1>2 DEF Paying!Tick, Paying!TypeOK
<1>4. /\ t \in Nat /\ n \in x4 /\ n \in Paying!Begun /\ n \in 0 .. MaxPayments /\ n # 0
      /\ UNCHANGED <<x1, x3, x4, x6>>
  BY <1>0, <1>2, SideAssumption DEF Paying!Tick, Paying!TypeOK, Paying!InOrder, Paying!Payment
<1>5. \A m \in Paying!Payment : /\ x2'[m].how = x2[m].how
                                /\ x2'[m].charge = x2[m].charge
                                /\ x2'[m].status = x2[m].status
  BY <1>0, <1>3 DEF Paying!TypeOK
<1>6. /\ x5'[s].of = n /\ x5'[s].says = "sent"
      /\ \A r \in Poll : r # s => x5'[r] = x5[r]
  BY <1>0, <1>1 DEF Paying!TypeOK
<1>7. Paying!TypeOK'
  <2>1. x2' \in [Paying!Payment -> [how: {"none", "prompt", "hosted", "card"}, tries: Nat,
                                charge: {"none", "open", "paid", "declined", "refused"},
                                status: Paying!Statuses]]
    BY <1>0, <1>3, <1>4 DEF Paying!TypeOK
  <2>2. x5' \in [Poll -> [of: 0 .. MaxPayments, says: Paying!Statuses \cup {"sent"}]]
    BY <1>0, <1>1, <1>4 DEF Paying!TypeOK
  <2>3. QED
    BY <1>0, <1>4, <2>1, <2>2 DEF Paying!TypeOK
<1>8. /\ Paying!OneHope' /\ Paying!HopeNewest' /\ Paying!HopeKept' /\ Paying!NewestAlone' /\ Paying!Begun' = Paying!Begun
      /\ Paying!FailedTells' /\ Paying!ConfirmedTells' /\ Paying!WaitingTells'
      /\ \A m \in Paying!Payment : m \in Paying!Begun' <=> m <= Paying!Newest'
  <2>1. \A r \in Poll : x5'[r].of \in {x5[r].of} \cup x4
    BY <1>4, <1>6
  <2>2. QED
    BY <1>4, <1>5, <1>7, <2>1, PayingScreenStays
<1>9. Paying!InOrder'
  <2>1. \A r \in Poll : /\ x5'[r].of # 0 => x5'[r].of \in Paying!Begun
                        /\ x5'[r].of = 0 => x5'[r].says = "none"
    BY <1>0, <1>4, <1>6 DEF Paying!InOrder
  <2>2. QED
    BY <1>0, <1>4, <1>8, <2>1 DEF Paying!InOrder
<1>10. Paying!Known'
  <2>0. ASSUME NEW m \in Paying!Payment
        PROVE  /\ x2'[m].status = "none" => x2'[m].charge \in {"none", "refused"}
               /\ x2'[m].status = "successful" => x2'[m].charge = "paid"
               /\ x2'[m].status = "failed" => x2'[m].charge = "declined"
               /\ m \in x3' /\ x2'[m].how # "prompt" => x2'[m].charge = "none"
               /\ m \notin Paying!Begun' => x2'[m].charge = "none"
    BY <1>0, <1>4, <1>5, <1>8 DEF Paying!Known
  <2>1. \A r \in Poll :
          /\ x5'[r].says = "successful" => x2[x5'[r].of].charge = "paid"
          /\ x5'[r].says = "failed" => x2[x5'[r].of].charge = "declined"
    BY <1>0, <1>6 DEF Paying!Known
  <2>2. \A r \in Poll : x5'[r].says \in {"successful", "failed"} => x5'[r].of \in Paying!Payment
    BY <1>0, <1>6 DEF Paying!InOrder, Paying!Begun
  <2>3. \A r \in Poll :
          /\ x5'[r].says = "successful" => x2'[x5'[r].of].charge = "paid"
          /\ x5'[r].says = "failed" => x2'[x5'[r].of].charge = "declined"
    BY <1>5, <2>1, <2>2
  <2>4. QED
    BY <2>0, <2>3 DEF Paying!Known
<1>11. QED
  BY <1>7, <1>8, <1>9, <1>10 DEF Paying!IInv

\* A step of the screen: what it hears and what it waits for is no more than before.
LEMMA PayingPaymentStays ==
  ASSUME Paying!IInv, Paying!TypeOK', x2' = x2, x6 \subseteq x6', x3' \subseteq x3,
         x4' \subseteq x4 \cup x3 \cup {n \in {x1.ref} : x1.at = "away"},
         \A r \in Poll : x5'[r] \in {x5[r], Paying!NoPoll},
         x1'.at = "away" => /\ x1.at = "away" /\ x1'.ref = x1.ref
                            /\ x1'.kind = x1.kind,
         x1'.kind # "app" => x1.kind # "app"
  PROVE  /\ Paying!InOrder' /\ Paying!Known' /\ Paying!NewestAlone' /\ Paying!OneHope' /\ Paying!HopeNewest'
         /\ Paying!Begun' = Paying!Begun /\ Paying!Newest' = Paying!Newest /\ Paying!Newest \in 0 .. MaxPayments
         /\ \A m \in Paying!Payment : Paying!Hope(m)' => Paying!Hope(m)
         /\ (x1'.at = "failed" => x1.at = "failed") => Paying!FailedTells'
         /\ (x1'.at = "confirmed" => x1.at = "confirmed") => Paying!ConfirmedTells'
<1>0. Paying!TypeOK /\ Paying!InOrder /\ Paying!Known /\ Paying!NewestAlone
  BY DEF Paying!IInv
<1>1. /\ Paying!Begun' = Paying!Begun /\ Paying!Newest' = Paying!Newest /\ Paying!Newest \in 0 .. MaxPayments
      /\ \A m \in Paying!Payment : Paying!Hope(m)' => Paying!Hope(m)
      /\ Paying!OneHope' /\ Paying!HopeNewest'
      /\ (x1'.at = "failed" => x1.at = "failed") => Paying!FailedTells'
      /\ (x1'.at = "confirmed" => x1.at = "confirmed") => Paying!ConfirmedTells'
  BY PayingNoNewHope
<1>2. \A r \in Poll : \/ x5'[r] = x5[r]
                      \/ x5'[r].of = 0 /\ x5'[r].says = "none"
  BY DEF Paying!NoPoll
<1>3. Paying!InOrder'
  <2>1. x3' \cup x4' \subseteq Paying!Begun
    BY <1>0 DEF Paying!InOrder
  <2>2. \A r \in Poll : /\ x5'[r].of # 0 => x5'[r].of \in Paying!Begun
                        /\ x5'[r].of = 0 => x5'[r].says = "none"
    BY <1>0, <1>2 DEF Paying!InOrder
  <2>3. QED
    BY <1>0, <1>1, <2>1, <2>2 DEF Paying!InOrder
<1>4. Paying!Known'
  <2>1. \A r \in Poll :
          /\ x5'[r].says = "successful" => x2[x5'[r].of].charge = "paid"
          /\ x5'[r].says = "failed" => x2[x5'[r].of].charge = "declined"
    BY <1>0, <1>2 DEF Paying!Known
  <2>2. QED
    BY <1>0, <1>1, <2>1 DEF Paying!Known
<1>5. Paying!NewestAlone'
  <2>1. ASSUME Paying!Newest \notin x6, NEW r \in Poll PROVE x5'[r].of \in {0, Paying!Newest}
    BY <1>0, <1>2, <2>1 DEF Paying!NewestAlone
  <2>2. ASSUME Paying!Newest \notin x6 PROVE x3' \cup x4' \subseteq {Paying!Newest}
    BY <1>0, <2>2 DEF Paying!NewestAlone
  <2>3. QED
    BY <1>0, <1>1, <2>1, <2>2 DEF Paying!NewestAlone
<1>6. QED
  BY <1>1, <1>3, <1>4, <1>5

\* What HopeKept says of one payment.
PayingKept(m) ==
    \/ m \in x3
    \/ m \in x4 /\ x1.kind = "app"
    \/ m \in x4 /\ x1.ref = m /\ x1.at \in {"waiting", "checking"}
    \/ x1.at \in {"away", "confirmed"} /\ x1.kind # "app"

LEMMA PayingHopeIsKept ==
  Paying!IInv => \A m \in Paying!Payment : Paying!Hope(m) =>
            /\ x1.at # "gone" => PayingKept(m)
            /\ x1.kind # "app" => m = Paying!Newest
            /\ Paying!Newest \notin x6 => m = Paying!Newest \/ x1.kind = "app"
BY DEF Paying!IInv, Paying!HopeKept, Paying!HopeNewest, PayingKept

LEMMA PayingPromptedKeeps == ASSUME Paying!IInv, NEW n \in Paying!Payment, Paying!Prompted(n), x1.at # "gone" PROVE Paying!IInv'
<1>0. Paying!TypeOK /\ Paying!HopeKept
  BY DEF Paying!IInv
<1>1. /\ n \in x3 /\ UNCHANGED <<x2, x5, x6>>
      /\ x1' = [x1 EXCEPT !.at = "waiting", !.ref = n]
      /\ x3' = x3 \ {n} /\ x4' = x4 \cup {n}
  BY DEF Paying!Prompted
<1>2. x1'.at = "waiting" /\ x1'.ref = n /\ x1'.kind = x1.kind
  BY <1>0, <1>1 DEF Paying!TypeOK
<1>3. Paying!TypeOK'
  <2>1. n \in 0 .. MaxPayments
    BY SideAssumption DEF Paying!Payment
  <2>2. x1' \in [kind: {"page", "callback", "app"}, ref: 0 .. MaxPayments,
                    at: {"plans", "waiting", "away", "checking", "confirmed", "failed",
                         "unsure", "gone"},
                    stuck: BOOLEAN, leaving: BOOLEAN]
    BY <1>0, <1>1, <2>1 DEF Paying!TypeOK
  <2>3. QED
    BY <1>0, <1>1, <2>2 DEF Paying!TypeOK
<1>4. /\ Paying!InOrder' /\ Paying!Known' /\ Paying!NewestAlone' /\ Paying!OneHope' /\ Paying!HopeNewest'
      /\ \A m \in Paying!Payment : Paying!Hope(m)' => Paying!Hope(m)
      /\ Paying!FailedTells' /\ Paying!ConfirmedTells'
  BY <1>1, <1>2, <1>3, PayingPaymentStays
<1>5. Paying!HopeKept'
  <2>1. ASSUME NEW m \in Paying!Payment, Paying!Hope(m)' PROVE PayingKept(m)'
    <3>1. Paying!Hope(m) /\ PayingKept(m)
      BY <1>4, <2>1, PayingHopeIsKept
    <3>2. CASE m = n
      BY <1>1, <1>2, <3>2 DEF PayingKept
    <3>3. CASE m # n /\ x1.kind = "app"
      BY <1>1, <1>2, <3>1, <3>3 DEF PayingKept
    <3>4. CASE m # n /\ x1.kind # "app"
      <4>1. m = Paying!Newest /\ m \notin x6
        BY <3>1, <3>4, PayingHopeIsKept DEF Paying!Hope
      <4>2. n = Paying!Newest
        BY <1>1, <4>1 DEF Paying!IInv, Paying!NewestAlone
      <4>3. QED
        BY <3>4, <4>1, <4>2
    <3>5. QED
      BY <3>2, <3>3, <3>4
  <2>2. QED
    BY <2>1 DEF Paying!HopeKept, PayingKept
<1>6. Paying!WaitingTells'
  BY <1>1, <1>2 DEF Paying!WaitingTells
<1>7. QED
  BY <1>3, <1>4, <1>5, <1>6 DEF Paying!IInv

LEMMA PayingLostKeeps == ASSUME Paying!IInv, NEW n \in Paying!Payment, Paying!Lost(n), x1.at # "gone" PROVE Paying!IInv'
<1>0. Paying!TypeOK
  BY DEF Paying!IInv
<1>1. /\ n \in x3 /\ UNCHANGED <<x2, x4, x5>>
      /\ x3' = x3 \ {n} /\ x6' = x6 \cup {n}
  BY DEF Paying!Lost, Paying!Unanswered, Paying!Doubt
<1>2. \/ x1' = x1
      \/ x1' = [x1 EXCEPT !.stuck = TRUE]
      \/ x1.kind # "app" /\ x1' = [x1 EXCEPT !.at = "failed"]
  BY DEF Paying!Lost, Paying!Unanswered, Paying!Shows
<1>3. /\ x1'.kind = x1.kind /\ x1'.ref = x1.ref
      /\ \/ x1'.at = x1.at
         \/ x1'.at = "failed" /\ x1.kind # "app"
  <2>1. CASE x1' = x1
    BY <2>1
  <2>2. CASE x1' = [x1 EXCEPT !.stuck = TRUE]
    BY <1>0, <2>2 DEF Paying!TypeOK
  <2>3. CASE x1.kind # "app" /\ x1' = [x1 EXCEPT !.at = "failed"]
    BY <1>0, <2>3 DEF Paying!TypeOK
  <2>4. QED
    BY <1>2, <2>1, <2>2, <2>3
<1>4. Paying!TypeOK'
  BY <1>0, <1>1, <1>2 DEF Paying!TypeOK
<1>5. /\ Paying!InOrder' /\ Paying!Known' /\ Paying!NewestAlone' /\ Paying!OneHope' /\ Paying!HopeNewest'
      /\ Paying!Newest' = Paying!Newest /\ Paying!Newest \in 0 .. MaxPayments
      /\ \A m \in Paying!Payment : Paying!Hope(m)' => Paying!Hope(m)
      /\ (x1'.at = "failed" => x1.at = "failed") => Paying!FailedTells'
      /\ (x1'.at = "confirmed" => x1.at = "confirmed") => Paying!ConfirmedTells'
  BY <1>1, <1>3, <1>4, PayingPaymentStays
<1>6. n = Paying!Newest \/ Paying!Newest \in x6
  BY <1>1 DEF Paying!IInv, Paying!NewestAlone
<1>7. Paying!HopeKept'
  <2>1. ASSUME NEW m \in Paying!Payment, Paying!Hope(m)' PROVE x1'.at # "gone" => PayingKept(m)'
    <3>1. Paying!Hope(m) /\ m # n /\ m \notin x6 /\ (x1.at # "gone" => PayingKept(m))
      BY <1>1, <1>5, <2>1, PayingHopeIsKept DEF Paying!Hope
    <3>2. CASE x1'.at = x1.at
      BY <1>1, <1>3, <3>1, <3>2 DEF PayingKept
    <3>3. CASE x1.kind # "app"
      <4>1. m = Paying!Newest
        BY <3>1, <3>3, PayingHopeIsKept
      <4>2. QED
        BY <1>6, <3>1, <4>1
    <3>4. QED
      BY <1>3, <3>2, <3>3
  <2>2. QED
    BY <2>1 DEF Paying!HopeKept, PayingKept
<1>8. Paying!FailedTells'
  <2>1. CASE x1'.at = x1.at
    BY <1>5, <2>1
  <2>2. CASE x1'.at # x1.at
    BY <1>1, <1>5, <1>6, <1>0 DEF Paying!FailedTells, Paying!TypeOK
  <2>3. QED
    BY <2>1, <2>2
<1>9. Paying!ConfirmedTells' /\ Paying!WaitingTells'
  BY <1>1, <1>3, <1>5 DEF Paying!IInv, Paying!WaitingTells
<1>10. QED
  BY <1>4, <1>5, <1>7, <1>8, <1>9 DEF Paying!IInv

LEMMA PayingReturnKeeps == ASSUME Paying!IInv, Paying!Return PROVE Paying!IInv'
<1>0. Paying!TypeOK /\ Paying!InOrder
  BY DEF Paying!IInv
<1>1. /\ x1.at = "away" /\ UNCHANGED <<x2, x3, x5, x6>>
      /\ x1' = [x1 EXCEPT !.kind = "callback", !.at = "checking"]
      /\ x4' = {x1.ref} /\ x1.kind # "app" /\ x1.ref \in Paying!Payment
  BY <1>0 DEF Paying!Return, Paying!InOrder, Paying!Begun
<1>2. x1'.kind = "callback" /\ x1'.at = "checking" /\ x1'.ref = x1.ref
  BY <1>0, <1>1 DEF Paying!TypeOK
<1>3. Paying!TypeOK'
  BY <1>0, <1>1 DEF Paying!TypeOK
<1>4. /\ Paying!InOrder' /\ Paying!Known' /\ Paying!NewestAlone' /\ Paying!OneHope' /\ Paying!HopeNewest'
      /\ \A m \in Paying!Payment : Paying!Hope(m)' => Paying!Hope(m)
      /\ Paying!FailedTells' /\ Paying!ConfirmedTells'
  BY <1>1, <1>2, <1>3, PayingPaymentStays
<1>5. Paying!HopeKept'
  <2>1. ASSUME NEW m \in Paying!Payment, Paying!Hope(m)' PROVE PayingKept(m)'
    <3>1. m = Paying!Newest /\ m \notin x6
      BY <1>1, <1>4, <2>1, PayingHopeIsKept DEF Paying!Hope
    <3>2. x1.ref = m
      BY <1>1, <3>1 DEF Paying!IInv, Paying!NewestAlone
    <3>3. QED
      BY <1>1, <1>2, <3>2 DEF PayingKept
  <2>2. QED
    BY <2>1 DEF Paying!HopeKept, PayingKept
<1>6. Paying!WaitingTells'
  BY <1>1, <1>2 DEF Paying!WaitingTells
<1>7. QED
  BY <1>3, <1>4, <1>5, <1>6 DEF Paying!IInv

LEMMA PayingReturnCancelledKeeps == ASSUME Paying!IInv, Paying!ReturnCancelled PROVE Paying!IInv'
<1>0. Paying!TypeOK /\ Paying!InOrder
  BY DEF Paying!IInv
<1>1. /\ x1.at = "away" /\ UNCHANGED <<x2, x3, x4, x5>>
      /\ x1' = [x1 EXCEPT !.kind = "callback", !.at = "failed"]
      /\ x6' = x6 \cup {x1.ref} /\ x1.kind # "app" /\ x1.ref \in Paying!Payment
  BY <1>0 DEF Paying!ReturnCancelled, Paying!Doubt, Paying!InOrder, Paying!Begun
<1>2. x1'.kind = "callback" /\ x1'.at = "failed" /\ x1'.ref = x1.ref
  BY <1>0, <1>1 DEF Paying!TypeOK
<1>3. Paying!TypeOK'
  BY <1>0, <1>1 DEF Paying!TypeOK
<1>4. /\ Paying!InOrder' /\ Paying!Known' /\ Paying!NewestAlone' /\ Paying!OneHope' /\ Paying!HopeNewest'
      /\ Paying!Newest' = Paying!Newest /\ \A m \in Paying!Payment : Paying!Hope(m)' => Paying!Hope(m)
      /\ Paying!ConfirmedTells'
  BY <1>1, <1>2, <1>3, PayingPaymentStays
<1>5. Paying!Newest \in x6 \/ x1.ref = Paying!Newest
  BY <1>1 DEF Paying!IInv, Paying!NewestAlone
<1>6. Paying!HopeKept'
  <2>1. ASSUME NEW m \in Paying!Payment, Paying!Hope(m)' PROVE FALSE
    <3>1. m = Paying!Newest /\ m \notin x6'
      BY <1>1, <1>4, <2>1, PayingHopeIsKept DEF Paying!Hope
    <3>2. QED
      BY <1>1, <1>5, <3>1
  <2>2. QED
    BY <2>1 DEF Paying!HopeKept
<1>7. Paying!FailedTells'
  BY <1>0, <1>1, <1>4, <1>5 DEF Paying!FailedTells, Paying!TypeOK
<1>8. Paying!WaitingTells'
  BY <1>2 DEF Paying!WaitingTells
<1>9. QED
  BY <1>3, <1>4, <1>6, <1>7, <1>8 DEF Paying!IInv

LEMMA PayingTryAgainKeeps == ASSUME Paying!IInv, Paying!TryAgain PROVE Paying!IInv'
<1>0. Paying!TypeOK
  BY DEF Paying!IInv
<1>1. /\ UNCHANGED <<x2, x3, x4, x5, x6>>
      /\ x1' = [x1 EXCEPT !.at = "plans"]
      /\ \/ x1.at = "failed"
         \/ x1.at = "waiting" /\ x1.kind = "app"
  BY DEF Paying!TryAgain, Paying!Shows
<1>2. x1'.kind = x1.kind /\ x1'.at = "plans"
  BY <1>0, <1>1 DEF Paying!TypeOK
<1>3. Paying!TypeOK'
  BY <1>0, <1>1 DEF Paying!TypeOK
<1>4. /\ Paying!InOrder' /\ Paying!Known' /\ Paying!NewestAlone' /\ Paying!OneHope' /\ Paying!HopeNewest'
      /\ \A m \in Paying!Payment : Paying!Hope(m)' => Paying!Hope(m)
      /\ Paying!FailedTells' /\ Paying!ConfirmedTells'
  BY <1>1, <1>2, <1>3, PayingPaymentStays
<1>5. Paying!HopeKept'
  <2>1. ASSUME NEW m \in Paying!Payment, Paying!Hope(m)' PROVE PayingKept(m)'
    <3>1. PayingKept(m)
      BY <1>1, <1>4, <2>1, PayingHopeIsKept
    <3>2. QED
      BY <1>1, <1>2, <3>1 DEF PayingKept
  <2>2. QED
    BY <2>1 DEF Paying!HopeKept, PayingKept
<1>6. Paying!WaitingTells'
  BY <1>2 DEF Paying!WaitingTells
<1>7. QED
  BY <1>3, <1>4, <1>5, <1>6 DEF Paying!IInv

LEMMA PayingLeaveKeeps == ASSUME Paying!IInv, Paying!Leave PROVE Paying!IInv'
<1>0. Paying!TypeOK
  BY DEF Paying!IInv
<1>1. /\ UNCHANGED <<x2, x3, x4, x5, x6>>
      /\ x1' = [x1 EXCEPT !.at = "gone"]
  BY DEF Paying!Leave, Paying!Shows
<1>2. x1'.kind = x1.kind /\ x1'.at = "gone"
  BY <1>0, <1>1 DEF Paying!TypeOK
<1>3. Paying!TypeOK'
  BY <1>0, <1>1 DEF Paying!TypeOK
<1>4. /\ Paying!InOrder' /\ Paying!Known' /\ Paying!NewestAlone' /\ Paying!OneHope' /\ Paying!HopeNewest'
      /\ Paying!FailedTells' /\ Paying!ConfirmedTells'
  BY <1>1, <1>2, <1>3, PayingPaymentStays
<1>5. Paying!HopeKept' /\ Paying!WaitingTells'
  BY <1>2 DEF Paying!HopeKept, Paying!WaitingTells
<1>6. QED
  BY <1>3, <1>4, <1>5 DEF Paying!IInv

LEMMA PayingReloadKeeps == ASSUME Paying!IInv, Paying!Reload PROVE Paying!IInv'
<1>0. Paying!TypeOK
  BY DEF Paying!IInv
<1>1. /\ UNCHANGED x2 /\ x3' = {} /\ x4' = {} /\ x5' = [s \in Poll |-> Paying!NoPoll]
      /\ x1' = Paying!Fresh("page") /\ x1.kind # "app"
      /\ x6 \subseteq x6'
      /\ x6' = x6 \/ x6' = x6 \cup {Paying!Newest}
      /\ Paying!Newest # 0 => Paying!Newest \in x6'
  BY DEF Paying!Reload, Paying!Silence, Paying!Doubt
<1>2. x1'.kind = "page" /\ x1'.at = "plans"
  BY <1>1 DEF Paying!Fresh
<1>3. Paying!TypeOK'
  <2>1. x6' \subseteq Paying!Payment
    <3>1. Paying!Newest # 0 => Paying!Newest \in Paying!Payment
      BY <1>0, PayingCount, SideAssumption DEF Paying!Payment
    <3>2. Paying!Newest = 0 => x6' = x6
      BY DEF Paying!Reload
    <3>3. QED
      BY <1>0, <1>1, <3>1, <3>2 DEF Paying!TypeOK
  <2>2. x5' \in [Poll -> [of: 0 .. MaxPayments, says: Paying!Statuses \cup {"sent"}]]
    BY <1>1, SideAssumption DEF Paying!NoPoll, Paying!Statuses
  <2>3. x1' \in [kind: {"page", "callback", "app"}, ref: 0 .. MaxPayments,
                    at: {"plans", "waiting", "away", "checking", "confirmed", "failed",
                         "unsure", "gone"},
                    stuck: BOOLEAN, leaving: BOOLEAN]
    BY <1>1, SideAssumption DEF Paying!Fresh
  <2>4. QED
    BY <1>0, <1>1, <2>1, <2>2, <2>3 DEF Paying!TypeOK
<1>4. /\ Paying!InOrder' /\ Paying!Known' /\ Paying!NewestAlone' /\ Paying!OneHope' /\ Paying!HopeNewest'
      /\ \A m \in Paying!Payment : Paying!Hope(m)' => Paying!Hope(m)
      /\ Paying!FailedTells' /\ Paying!ConfirmedTells'
  <2>1. \A r \in Poll : x5'[r] \in {x5[r], Paying!NoPoll}
    BY <1>1
  <2>2. QED
    BY <1>1, <1>2, <1>3, <2>1, PayingPaymentStays
<1>5. Paying!HopeKept'
  <2>1. ASSUME NEW m \in Paying!Payment, Paying!Hope(m)' PROVE FALSE
    <3>1. m = Paying!Newest /\ m \notin x6'
      BY <1>1, <1>4, <2>1, PayingHopeIsKept DEF Paying!Hope
    <3>2. QED
      BY <1>1, <3>1, SideAssumption DEF Paying!Payment
  <2>2. QED
    BY <2>1 DEF Paying!HopeKept
<1>6. Paying!WaitingTells'
  BY <1>2 DEF Paying!WaitingTells
<1>7. QED
  BY <1>3, <1>4, <1>5, <1>6 DEF Paying!IInv

LEMMA PayingRefusedKeeps == ASSUME Paying!IInv, NEW n \in Paying!Payment, Paying!Refused(n), x1.at # "gone" PROVE Paying!IInv'
<1>0. Paying!TypeOK /\ Paying!InOrder /\ Paying!Known
  BY DEF Paying!IInv
<1>1. /\ n \in x3 /\ UNCHANGED <<x4, x5, x6>> /\ x2[n].status = "none"
      /\ x3' = x3 \ {n} /\ x2' = [x2 EXCEPT ![n].charge = "refused"]
  BY DEF Paying!Refused, Paying!Unanswered
<1>2. \/ x1' = x1
      \/ x1' = [x1 EXCEPT !.stuck = TRUE]
      \/ x1.kind # "app" /\ x1' = [x1 EXCEPT !.at = "failed"]
  BY DEF Paying!Refused, Paying!Unanswered, Paying!Shows
<1>3. /\ x1'.kind = x1.kind /\ x1'.ref = x1.ref
      /\ \/ x1'.at = x1.at
         \/ x1'.at = "failed" /\ x1.kind # "app"
  <2>1. CASE x1' = x1
    BY <2>1
  <2>2. CASE x1' = [x1 EXCEPT !.stuck = TRUE]
    BY <1>0, <2>2 DEF Paying!TypeOK
  <2>3. CASE x1.kind # "app" /\ x1' = [x1 EXCEPT !.at = "failed"]
    BY <1>0, <2>3 DEF Paying!TypeOK
  <2>4. QED
    BY <1>2, <2>1, <2>2, <2>3
<1>4. /\ x2'[n].how = x2[n].how /\ x2'[n].status = "none"
      /\ x2'[n].charge = "refused" /\ x2[n].charge \in {"none", "refused"}
      /\ \A m \in Paying!Payment : m # n => x2'[m] = x2[m]
  BY <1>0, <1>1 DEF Paying!TypeOK, Paying!Known
<1>5. Paying!TypeOK'
  <2>1. x2' \in [Paying!Payment -> [how: {"none", "prompt", "hosted", "card"}, tries: Nat,
                                charge: {"none", "open", "paid", "declined", "refused"},
                                status: Paying!Statuses]]
    BY <1>0, <1>1 DEF Paying!TypeOK
  <2>2. x1' \in [kind: {"page", "callback", "app"}, ref: 0 .. MaxPayments,
                    at: {"plans", "waiting", "away", "checking", "confirmed", "failed",
                         "unsure", "gone"},
                    stuck: BOOLEAN, leaving: BOOLEAN]
    BY <1>0, <1>2 DEF Paying!TypeOK
  <2>3. QED
    BY <1>0, <1>1, <2>1, <2>2 DEF Paying!TypeOK
<1>6. /\ Paying!Begun' = Paying!Begun /\ Paying!Newest' = Paying!Newest /\ Paying!Newest \in 0 .. MaxPayments
      /\ \A m \in Paying!Payment : Paying!Hope(m)' => Paying!Hope(m)
      /\ Paying!OneHope' /\ Paying!HopeNewest'
      /\ (x1'.at = "failed" => x1.at = "failed") => Paying!FailedTells'
      /\ (x1'.at = "confirmed" => x1.at = "confirmed") => Paying!ConfirmedTells'
  <2>1. \A m \in Paying!Payment : /\ x2'[m].how = x2[m].how
                                  /\ x2[m].charge \in {"paid", "declined", "refused"}
                                         => x2'[m].charge = x2[m].charge
    BY <1>4
  <2>2. QED
    BY <1>1, <1>3, <1>5, <2>1, PayingNoNewHope
<1>7. n = Paying!Newest \/ Paying!Newest \in x6
  BY <1>1 DEF Paying!IInv, Paying!NewestAlone
<1>8. Paying!InOrder'
  BY <1>0, <1>1, <1>3, <1>6 DEF Paying!InOrder
<1>9. Paying!Known'
  <2>1. \A m \in Paying!Payment :
          /\ x2'[m].status = "none" => x2'[m].charge \in {"none", "refused"}
          /\ x2'[m].status = "successful" => x2'[m].charge = "paid"
          /\ x2'[m].status = "failed" => x2'[m].charge = "declined"
          /\ m \in x3' /\ x2'[m].how # "prompt" => x2'[m].charge = "none"
          /\ m \notin Paying!Begun' => x2'[m].charge = "none"
    BY <1>0, <1>1, <1>4, <1>6 DEF Paying!Known, Paying!InOrder
  <2>2. ASSUME NEW r \in Poll
        PROVE  /\ x5'[r].says = "successful" => x2'[x5'[r].of].charge = "paid"
               /\ x5'[r].says = "failed" => x2'[x5'[r].of].charge = "declined"
    <3>1. x5[r].says \in {"successful", "failed"} => x5[r].of \in Paying!Payment
      BY <1>0 DEF Paying!InOrder, Paying!Begun
    <3>2. QED
      BY <1>0, <1>1, <1>4, <3>1 DEF Paying!Known
  <2>3. QED
    BY <2>1, <2>2 DEF Paying!Known
<1>10. Paying!NewestAlone'
  BY <1>1, <1>3, <1>6 DEF Paying!IInv, Paying!NewestAlone
<1>11. Paying!HopeKept'
  <2>1. ASSUME NEW m \in Paying!Payment, Paying!Hope(m)' PROVE x1'.at # "gone" => PayingKept(m)'
    <3>1. Paying!Hope(m) /\ m # n /\ m \notin x6 /\ (x1.at # "gone" => PayingKept(m))
      BY <1>4, <1>6, <2>1, PayingHopeIsKept DEF Paying!Hope
    <3>2. CASE x1'.at = x1.at
      BY <1>1, <1>3, <3>1, <3>2 DEF PayingKept
    <3>3. CASE x1.kind # "app"
      <4>1. m = Paying!Newest
        BY <3>1, <3>3, PayingHopeIsKept
      <4>2. QED
        BY <1>7, <3>1, <4>1
    <3>4. QED
      BY <1>3, <3>2, <3>3
  <2>2. QED
    BY <2>1 DEF Paying!HopeKept, PayingKept
<1>12. Paying!FailedTells'
  <2>1. CASE x1'.at = x1.at
    BY <1>6, <2>1
  <2>2. CASE x1'.at # x1.at
    BY <1>0, <1>1, <1>4, <1>6, <1>7 DEF Paying!FailedTells, Paying!TypeOK
  <2>3. QED
    BY <2>1, <2>2
<1>13. Paying!ConfirmedTells' /\ Paying!WaitingTells'
  BY <1>1, <1>3, <1>6 DEF Paying!IInv, Paying!WaitingTells
<1>14. QED
  BY <1>5, <1>6, <1>8, <1>9, <1>10, <1>11, <1>12, <1>13 DEF Paying!IInv

LEMMA PayingRedirectedKeeps ==
  ASSUME Paying!IInv, NEW n \in Paying!Payment, Paying!Redirected(n), x1.at # "gone" PROVE Paying!IInv'
<1>0. Paying!TypeOK /\ Paying!InOrder /\ Paying!Known
  BY DEF Paying!IInv
<1>1. /\ n \in x3 /\ UNCHANGED x6 /\ x2[n].status # "none"
      /\ x3' = x3 \ {n} /\ x2' = [x2 EXCEPT ![n].charge = "open"]
      /\ x2[n].how # "prompt" /\ n \in Paying!Begun
  BY <1>0 DEF Paying!Redirected, Paying!InOrder
<1>2. \/ x1.kind = "app" /\ x4' = x4 \cup {n} /\ x1' = x1 /\ x5' = x5
      \/ /\ x1.kind # "app" /\ x4' = {} /\ x5' = [s \in Poll |-> Paying!NoPoll]
         /\ x1' = [x1 EXCEPT !.at = "away", !.ref = n]
  BY DEF Paying!Redirected, Paying!Silence
<1>3. /\ x1'.kind = x1.kind
      /\ \/ x1.kind = "app" /\ x1' = x1 /\ x4' = x4 \cup {n}
         \/ x1'.at = "away" /\ x1'.ref = n /\ x1.kind # "app" /\ x4' = {}
  <2>1. CASE x1.kind = "app"
    BY <1>2, <2>1
  <2>2. CASE x1.kind # "app"
    BY <1>0, <1>2, <2>2 DEF Paying!TypeOK
  <2>3. QED
    BY <2>1, <2>2
<1>4. /\ x2'[n].how = x2[n].how /\ x2'[n].status = x2[n].status
      /\ x2'[n].charge = "open" /\ x2[n].charge = "none"
      /\ \A m \in Paying!Payment : m # n => x2'[m] = x2[m]
  BY <1>0, <1>1 DEF Paying!TypeOK, Paying!Known
<1>5. \A r \in Poll : \/ x5'[r] = x5[r]
                      \/ x5'[r] = Paying!NoPoll
  BY <1>2
<1>6. Paying!TypeOK'
  <2>1. x2' \in [Paying!Payment -> [how: {"none", "prompt", "hosted", "card"}, tries: Nat,
                                charge: {"none", "open", "paid", "declined", "refused"},
                                status: Paying!Statuses]]
    BY <1>0, <1>1 DEF Paying!TypeOK
  <2>2. n \in 0 .. MaxPayments
    BY SideAssumption DEF Paying!Payment
  <2>3. x1' \in [kind: {"page", "callback", "app"}, ref: 0 .. MaxPayments,
                    at: {"plans", "waiting", "away", "checking", "confirmed", "failed",
                         "unsure", "gone"},
                    stuck: BOOLEAN, leaving: BOOLEAN]
    BY <1>0, <1>2, <2>2 DEF Paying!TypeOK
  <2>4. x5' \in [Poll -> [of: 0 .. MaxPayments, says: Paying!Statuses \cup {"sent"}]]
    BY <1>0, <1>2, SideAssumption DEF Paying!TypeOK, Paying!NoPoll, Paying!Statuses
  <2>5. QED
    BY <1>0, <1>1, <1>2, <2>1, <2>3, <2>4 DEF Paying!TypeOK
<1>7. /\ Paying!Begun' = Paying!Begun /\ Paying!Newest' = Paying!Newest /\ Paying!Newest \in 0 .. MaxPayments
      /\ \A m \in Paying!Payment : Paying!Hope(m)' => Paying!Hope(m)
      /\ Paying!OneHope' /\ Paying!HopeNewest' /\ Paying!FailedTells' /\ Paying!ConfirmedTells'
  <2>1. \A m \in Paying!Payment : /\ x2'[m].how = x2[m].how
                                  /\ x2[m].charge \in {"paid", "declined", "refused"}
                                         => x2'[m].charge = x2[m].charge
    BY <1>4
  <2>2. QED
    BY <1>1, <1>3, <1>6, <2>1, PayingNoNewHope
<1>8. n = Paying!Newest \/ Paying!Newest \in x6
  BY <1>1 DEF Paying!IInv, Paying!NewestAlone
<1>9. Paying!InOrder'
  <2>1. \A r \in Poll : /\ x5'[r].of # 0 => x5'[r].of \in Paying!Begun
                        /\ x5'[r].of = 0 => x5'[r].says = "none"
    BY <1>0, <1>5 DEF Paying!InOrder, Paying!NoPoll
  <2>2. x3' \cup x4' \subseteq Paying!Begun
    BY <1>0, <1>1, <1>2 DEF Paying!InOrder
  <2>3. QED
    BY <1>0, <1>1, <1>3, <1>7, <2>1, <2>2 DEF Paying!InOrder
<1>10. Paying!Known'
  <2>1. \A m \in Paying!Payment :
          /\ x2'[m].status = "none" => x2'[m].charge \in {"none", "refused"}
          /\ x2'[m].status = "successful" => x2'[m].charge = "paid"
          /\ x2'[m].status = "failed" => x2'[m].charge = "declined"
          /\ m \in x3' /\ x2'[m].how # "prompt" => x2'[m].charge = "none"
          /\ m \notin Paying!Begun' => x2'[m].charge = "none"
    BY <1>0, <1>1, <1>4, <1>7 DEF Paying!Known
  <2>2. ASSUME NEW r \in Poll
        PROVE  /\ x5'[r].says = "successful" => x2'[x5'[r].of].charge = "paid"
               /\ x5'[r].says = "failed" => x2'[x5'[r].of].charge = "declined"
    <3>1. x5[r].says \in {"successful", "failed"} => x5[r].of \in Paying!Payment
      BY <1>0 DEF Paying!InOrder, Paying!Begun
    <3>2. CASE x5'[r] = x5[r]
      BY <1>0, <1>4, <3>1, <3>2 DEF Paying!Known
    <3>3. CASE x5'[r] = Paying!NoPoll
      BY <3>3 DEF Paying!NoPoll
    <3>4. QED
      BY <1>5, <3>2, <3>3
  <2>3. QED
    BY <2>1, <2>2 DEF Paying!Known
<1>11. Paying!NewestAlone'
  <2>1. ASSUME Paying!Newest \notin x6, NEW r \in Poll PROVE x5'[r].of \in {0, Paying!Newest}
    BY <1>5, <2>1 DEF Paying!IInv, Paying!NewestAlone, Paying!NoPoll
  <2>2. ASSUME Paying!Newest \notin x6 PROVE x3' \cup x4' \subseteq {Paying!Newest}
    BY <1>1, <1>3, <2>2 DEF Paying!IInv, Paying!NewestAlone
  <2>3. ASSUME Paying!Newest \notin x6, x1'.at = "away" PROVE x1'.ref = Paying!Newest
    BY <1>0, <1>3, <1>8, <2>3 DEF Paying!InOrder
  <2>4. QED
    BY <1>1, <1>7, <2>1, <2>2, <2>3 DEF Paying!NewestAlone
<1>12. Paying!HopeKept'
  <2>1. ASSUME NEW m \in Paying!Payment, Paying!Hope(m)' PROVE PayingKept(m)'
    <3>1. Paying!Hope(m) /\ PayingKept(m)
      BY <1>7, <2>1, PayingHopeIsKept
    <3>2. CASE x1.kind # "app"
      BY <1>3, <3>2 DEF PayingKept
    <3>3. CASE x1.kind = "app"
      BY <1>1, <1>3, <3>1, <3>3 DEF PayingKept
    <3>4. QED
      BY <3>2, <3>3
  <2>2. QED
    BY <2>1 DEF Paying!HopeKept, PayingKept
<1>13. Paying!WaitingTells'
  BY <1>3 DEF Paying!IInv, Paying!WaitingTells
<1>14. QED
  BY <1>6, <1>7, <1>9, <1>10, <1>11, <1>12, <1>13 DEF Paying!IInv

\* Whatever is heard, it is about the newest payment, or that one is doubtful.
LEMMA PayingHeardKeeps ==
  ASSUME Paying!IInv, NEW s \in Poll, NEW says \in {"successful", "pending", "failed", "lost"},
         Paying!Heard(s, says), x1.at # "gone"
  PROVE  Paying!IInv'
<1>0. Paying!TypeOK /\ Paying!InOrder /\ Paying!Known
  BY DEF Paying!IInv
<1>1. PICK n : n = x5[s].of
  OBVIOUS
<1>2. /\ n \in Paying!Payment /\ n \in Paying!Begun /\ UNCHANGED <<x2, x3>>
      /\ x5' = [x5 EXCEPT ![s] = Paying!NoPoll]
      /\ says = "successful" => x2[n].charge = "paid"
      /\ says = "failed" => x2[n].charge = "declined"
  BY <1>0, <1>1 DEF Paying!Heard, Paying!InOrder, Paying!Known, Paying!Begun
<1>3. PICK at \in {"gone", "confirmed", "unsure", "failed", x1.at} :
         /\ \/ x1' = [x1 EXCEPT !.at = at]
            \/ at = "confirmed" /\ x1' = [x1 EXCEPT !.at = at, !.leaving = TRUE]
         /\ \/ /\ at = x1.at /\ UNCHANGED <<x1, x4, x6>>
            \/ /\ x4' = x4 \ {IF x1.kind = "page" THEN x1.ref ELSE n}
               /\ \/ /\ says = "successful" /\ UNCHANGED x6
                     /\ at = IF x1.kind = "app" THEN "gone" ELSE "confirmed"
                  \/ /\ at = IF x1.kind = "callback" /\ says # "failed" THEN "unsure" ELSE "failed"
                     /\ \/ x6' = x6 \cup {n}
                        \/ UNCHANGED x6 /\ says = "failed"
  <2>1. CASE /\ says = "successful"
             /\ Paying!Stopped(n)
             /\ x1' = IF x1.kind = "app" THEN [x1 EXCEPT !.at = "gone"]
                          ELSE [x1 EXCEPT !.at = "confirmed", !.leaving = TRUE]
             /\ UNCHANGED x6
    BY <2>1 DEF Paying!Stopped
  <2>2. CASE /\ says # "successful" /\ Paying!Over(n, says)
             /\ Paying!Stopped(n)
             /\ Paying!Shows(IF x1.kind = "callback" /\ says # "failed" THEN "unsure" ELSE "failed")
             /\ IF x2[n].tries > MaxTries THEN Paying!Doubt(n) ELSE UNCHANGED x6
    BY <2>2 DEF Paying!Stopped, Paying!Shows, Paying!Over, Paying!Doubt
  <2>3. CASE UNCHANGED <<x1, x4, x6>>
    <3>1. x1' = [x1 EXCEPT !.at = x1.at]
      BY <1>0, <2>3 DEF Paying!TypeOK
    <3>2. QED
      BY <2>3, <3>1
  <2>4. QED
    BY <1>1, <2>1, <2>2, <2>3 DEF Paying!Heard
<1>4. x1'.at = at /\ x1'.kind = x1.kind /\ x1'.ref = x1.ref
  BY <1>0, <1>3 DEF Paying!TypeOK
<1>5. Paying!TypeOK'
  <2>1. x5' \in [Poll -> [of: 0 .. MaxPayments, says: Paying!Statuses \cup {"sent"}]]
    BY <1>0, <1>2, SideAssumption DEF Paying!TypeOK, Paying!NoPoll, Paying!Statuses
  <2>2. x1' \in [kind: {"page", "callback", "app"}, ref: 0 .. MaxPayments,
                    at: {"plans", "waiting", "away", "checking", "confirmed", "failed",
                         "unsure", "gone"},
                    stuck: BOOLEAN, leaving: BOOLEAN]
    BY <1>0, <1>3 DEF Paying!TypeOK
  <2>3. x6' \subseteq Paying!Payment /\ x4' \subseteq Paying!Payment
    BY <1>0, <1>2, <1>3 DEF Paying!TypeOK
  <2>4. QED
    BY <1>0, <1>2, <2>1, <2>2, <2>3 DEF Paying!TypeOK
<1>6. /\ Paying!InOrder' /\ Paying!Known' /\ Paying!NewestAlone' /\ Paying!OneHope' /\ Paying!HopeNewest'
      /\ Paying!Newest' = Paying!Newest /\ Paying!Newest \in 0 .. MaxPayments
      /\ \A m \in Paying!Payment : Paying!Hope(m)' => Paying!Hope(m)
      /\ (at = "failed" => x1.at = "failed") => Paying!FailedTells'
      /\ (at = "confirmed" => x1.at = "confirmed") => Paying!ConfirmedTells'
  <2>1. \A r \in Poll : x5'[r] \in {x5[r], Paying!NoPoll}
    BY <1>0, <1>2 DEF Paying!TypeOK
  <2>2. /\ x6 \subseteq x6' /\ x3' \subseteq x3
        /\ x4' \subseteq x4 \cup x3 \cup {k \in {x1.ref} : x1.at = "away"}
    BY <1>2, <1>3
  <2>3. at = "away" => x1.at = "away"
    BY <1>3
  <2>4. QED
    BY <1>2, <1>4, <1>5, <2>1, <2>2, <2>3, PayingPaymentStays
<1>7. n = Paying!Newest \/ Paying!Newest \in x6
  BY <1>0, <1>1, <1>2 DEF Paying!IInv, Paying!NewestAlone, Paying!Payment
<1>8. Paying!HopeKept'
  <2>1. ASSUME NEW m \in Paying!Payment, Paying!Hope(m)' PROVE x1'.at # "gone" => PayingKept(m)'
    <3>1. Paying!Hope(m) /\ PayingKept(m) /\ (x1.kind # "app" => m = Paying!Newest /\ n = Paying!Newest)
      BY <1>6, <1>7, <2>1, PayingHopeIsKept DEF Paying!Hope
    <3>2. CASE at = x1.at /\ UNCHANGED <<x1, x4, x6>>
      BY <1>2, <3>1, <3>2 DEF PayingKept
    <3>3. CASE /\ says = "successful"
               /\ at = IF x1.kind = "app" THEN "gone" ELSE "confirmed"
      BY <1>4, <3>3 DEF PayingKept
    <3>4. CASE /\ \/ x6' = x6 \cup {n}
                  \/ says = "failed"
               /\ x4' = x4 \ {IF x1.kind = "page" THEN x1.ref ELSE n}
      <4>1. m # n
        BY <1>2, <2>1, <3>1, <3>4 DEF Paying!Hope
      <4>2. x1.kind = "app"
        BY <3>1, <4>1
      <4>3. QED
        BY <1>2, <1>4, <3>1, <3>4, <4>1, <4>2 DEF PayingKept
    <3>5. QED
      BY <1>3, <3>2, <3>3, <3>4
  <2>2. QED
    BY <2>1 DEF Paying!HopeKept, PayingKept
<1>9. Paying!FailedTells'
  <2>1. CASE at = "failed" /\ x1.at # "failed"
    <3>1. Paying!Newest \in x6' \/ x2[Paying!Newest].charge = "declined"
      BY <1>2, <1>3, <1>7, <2>1
    <3>2. Paying!Newest \in Paying!Payment
      BY <1>0, <1>2, <1>7 DEF Paying!TypeOK
    <3>3. QED
      BY <1>2, <1>6, <3>1, <3>2 DEF Paying!FailedTells
  <2>2. QED
    BY <1>6, <2>1
<1>10. Paying!ConfirmedTells'
  <2>1. CASE at = "confirmed" /\ x1.at # "confirmed"
    BY <1>2, <1>3, <2>1 DEF Paying!ConfirmedTells
  <2>2. QED
    BY <1>6, <2>1
<1>11. Paying!WaitingTells'
  BY <1>3, <1>4 DEF Paying!IInv, Paying!WaitingTells
<1>12. QED
  BY <1>5, <1>6, <1>8, <1>9, <1>10, <1>11 DEF Paying!IInv

LEMMA PayingInductive == ASSUME Paying!IInv, [Paying!Next]_(Paying!vars) PROVE Paying!IInv'
<1>1. CASE UNCHANGED Paying!vars
  BY <1>1, PayingCardinality
     DEF Paying!IInv, Paying!vars, Paying!TypeOK, Paying!InOrder, Paying!Known,
         Paying!NewestAlone, Paying!OneHope, Paying!HopeKept, Paying!HopeNewest,
         Paying!FailedTells, Paying!ConfirmedTells, Paying!WaitingTells, Paying!Hope,
         Paying!Newest, Paying!Begun
<1>2. CASE Paying!Next
  <2>1. x1.at # "gone"
    BY <1>2 DEF Paying!Next
  <2>2. ASSUME NEW how \in {"prompt", "hosted", "card"}, Paying!Pay(how) PROVE Paying!IInv'
    BY <2>2, PayingPayKeeps
  <2>3. ASSUME NEW n \in Paying!Payment,
               \/ Paying!Checkout(n) \/ Paying!Prompted(n) \/ Paying!Redirected(n) \/ Paying!Refused(n) \/ Paying!Lost(n)
               \/ Paying!Decide(n) \/ Paying!Notified(n) \/ Paying!Tick(n)
        PROVE  Paying!IInv'
    BY <2>1, <2>3, PayingCheckoutKeeps, PayingPromptedKeeps, PayingRedirectedKeeps,
       PayingRefusedKeeps, PayingLostKeeps, PayingDecideKeeps, PayingNotifiedKeeps,
       PayingTickKeeps
  <2>4. ASSUME NEW s \in Poll,
               \/ Paying!GetStatus(s)
               \/ \E says \in {"successful", "pending", "failed", "lost"} : Paying!Heard(s, says)
        PROVE  Paying!IInv'
    BY <2>1, <2>4, PayingGetStatusKeeps, PayingHeardKeeps
  <2>5. CASE Paying!Return \/ Paying!ReturnCancelled \/ Paying!TryAgain \/ Paying!Reload \/ Paying!Leave
    BY <2>5, PayingReturnKeeps, PayingReturnCancelledKeeps, PayingTryAgainKeeps,
       PayingReloadKeeps, PayingLeaveKeeps
  <2>6. QED
    BY <1>2, <2>2, <2>3, <2>4, <2>5 DEF Paying!Next
<1>3. QED
  BY <1>1, <1>2

LEMMA PayingTells == Paying!IInv => Paying!ScreenTells
<1> SUFFICES ASSUME Paying!IInv PROVE Paying!ScreenTells
  OBVIOUS
<1>1. ASSUME NEW n \in Paying!Payment, NEW k \in Paying!Payment, n # k,
             x2[n].charge = "paid", x2[k].charge = "paid"
      PROVE  n \in x6 \/ k \in x6
  BY <1>1 DEF Paying!IInv, Paying!OneHope, Paying!Hope, Paying!Known
<1>2. x1.at = "failed" =>
        Paying!Newest \in x6 \/ x2[Paying!Newest].charge \in {"none", "refused", "declined"}
  BY DEF Paying!IInv, Paying!FailedTells
<1>3. QED
  BY <1>1, <1>2 DEF Paying!IInv, Paying!ScreenTells, Paying!WaitingTells, Paying!ConfirmedTells

(***************************************************************************)
(* For any number of payments, of polls in flight and of tries: what the   *)
(* customer is told holds, and nobody pays twice, but for the payments     *)
(* given up on.                                                            *)
(***************************************************************************)
THEOREM WhatIsToldHolds == MCSpec => []ScreenTells
<1> DEFINE Inv == which = "paying" => Paying!IInv
<1>1. MCInit => Inv
  BY PayingInitially DEF MCInit
<1>2. Inv /\ [MCNext]_<<which, vars, xs>> => Inv'
  <2> SUFFICES ASSUME which = "paying", Paying!IInv, [Paying!Next]_(Paying!vars)
               PROVE  Paying!IInv'
    BY DEF MCNext, xs, Paying!vars
  <2> QED
    BY PayingInductive
<1>3. Inv => ScreenTells
  BY PayingTells DEF ScreenTells
<1>4. QED
  BY <1>1, <1>2, <1>3, PTL DEF MCSpec

=============================================================================
