------------------------------ MODULE Audience ------------------------------
(***************************************************************************)
(* Who sees a title.  The rule is spelled four times in the code: as a     *)
(* Prisma filter, as SQL, as a question about one title, and as a filter   *)
(* on handsets; titles/audience.ts and catalogue-mode.ts hold the first    *)
(* three, PushService.audienceTokens the last.                             *)
(*                                                                         *)
(* v is what is known of the viewer, [tester, early]; live is the mode.    *)
(***************************************************************************)

Nobody == [tester |-> FALSE, early |-> FALSE]

\* audienceWhere: what a query may return.
AudienceWhere(v, live) ==
    IF v.early THEN {} ELSE IF live /\ ~v.tester THEN {"published"} ELSE {"isTest"}

Admits(where, t) ==
    /\ "isTest" \in where => t.isTest
    /\ "published" \in where => t.published

\* audienceSql: the same in SQL, for the one query Prisma cannot write.
AudienceSql(v, live, t) ==
    \/ v.early
    \/ (~live \/ v.tester) /\ t.isTest
    \/ live /\ ~v.tester /\ t.published

MayViewTitle(v, t, live) ==
    v.early \/ IF live /\ ~v.tester THEN t.published ELSE t.isTest

\* Which kinds of account may be told; early access always may.
NotifiableAudience(t, live) ==
    [ordinary |-> MayViewTitle(Nobody, t, live),
     testers |-> MayViewTitle([Nobody EXCEPT !.tester = TRUE], t, live)]

\* audienceTokens: whether a viewer's handset is among those told.
Told(v, visible) ==
    \/ visible.ordinary /\ ~v.tester /\ ~v.early
    \/ visible.testers /\ v.tester
    \/ v.early

=============================================================================
