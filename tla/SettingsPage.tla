----------------------------- MODULE SettingsPage -----------------------------
(***************************************************************************)
(* The admin's settings page, open in several tabs, and the one row of     *)
(* AppSettings.  A tab reads the row once; it then writes it in groups:    *)
(* the company form as a whole, the limits as a whole, and the payment and *)
(* SMS providers, each at the moment it is chosen.                         *)
(***************************************************************************)
EXTENDS Naturals, FiniteSets

CONSTANTS
    Handler,      \* tabs
    MaxRequests   \* bound: writes under way at once, in all tabs

VARIABLES
    row,       \* the stored settings
    form,      \* of each tab: what it shows
    request,   \* the writes under way: [tab, group, body, last], where last
               \* says that the tab has not chosen anew since
    chosen,    \* history: the provider and the limit stored last on purpose
    sure       \* history: tabs whose last choice was stored after all others

vars == <<row, form, request, chosen, sure>>

\* One field of each group: of the company form the catalogue's mode, a
\* limit, and a provider, of payments or of messages.
Field == {"mode", "limit", "provider"}
Value == {"this", "that"}

\* mutant: the whole form goes with the company details
MutBody(group, shown) == IF group = "mode" THEN shown ELSE [f \in {group} |-> shown[f]]

\* A write has its group in its body, and nothing else.
Body(group, shown) == [f \in {group} |-> shown[f]]

Init ==
    /\ row \in [Field -> Value]
    /\ form = [h \in Handler |-> row]
    /\ request = {}
    /\ chosen = [limit |-> row.limit, provider |-> row.provider]
    /\ sure = Handler

\* The page is opened, or loaded again.
Load(h) ==
    /\ form' = [form EXCEPT ![h] = row]
    /\ request' = {[r EXCEPT !.last = @ /\ r.tab # h] : r \in request}
    /\ sure' = sure \cup {h}
    /\ UNCHANGED <<row, chosen>>

Type(h, f) ==
    /\ f # "provider"
    /\ \E v \in Value \ {form[h][f]} : form' = [form EXCEPT ![h][f] = v]
    /\ UNCHANGED <<row, request, chosen, sure>>

Sent(h, group, shown) ==
    [tab |-> h, group |-> group, body |-> Body(group, shown), last |-> TRUE]
Room == Cardinality(request) < MaxRequests

\* save and saveLimits: their buttons wait for the answer.
Save(h, group) ==
    /\ Room
    /\ group # "provider"
    /\ \A r \in request : ~(r.tab = h /\ r.group = group)
    /\ request' = request \cup {Sent(h, group, form[h])}
    /\ UNCHANGED <<row, form, chosen, sure>>

\* saveProvider and saveSmsProvider: shown at once, whatever comes of it.
\* The list waits for nobody, so choices of one tab may be stored in any order.
Choose(h, v) ==
    /\ Room
    /\ v # form[h].provider
    /\ form' = [form EXCEPT ![h].provider = v]
    /\ request' = {[r EXCEPT !.last = @ /\ r.tab # h] : r \in request}
                  \cup {Sent(h, "provider", form'[h])}
    /\ sure' = sure \ {h}
    /\ UNCHANGED <<row, chosen>>

\* SettingsService.update: what the body leaves out stays.
Update(r) ==
    /\ request' = request \ {r}
    /\ row' = [f \in Field |-> IF f \in DOMAIN r.body THEN r.body[f] ELSE row[f]]
    /\ chosen' = [f \in DOMAIN chosen |-> IF f = r.group THEN r.body[f] ELSE chosen[f]]
    /\ sure' = IF r.group # "provider" THEN sure ELSE IF r.last THEN {r.tab} ELSE {}
    /\ UNCHANGED form

\* Refused, or it never arrived: the tab goes on showing the choice.
Fail(r) ==
    /\ request' = request \ {r}
    /\ UNCHANGED <<row, form, chosen, sure>>

Next ==
    \/ \E h \in Handler : \/ Load(h)
                          \/ \E f \in Field : Type(h, f)
                          \/ \E g \in Field : Save(h, g)
                          \/ \E v \in Value : Choose(h, v)
    \/ \E r \in request : Update(r) \/ Fail(r)

Spec == Init /\ [][Next]_vars

-----------------------------------------------------------------------------
\* A tab that was opened long ago takes back nothing outside the group it
\* saves: by whom payments go and by which gateway messages, and the limits,
\* stay what was stored on purpose last.  And a tab shows the provider that
\* is in use, unless another tab chose since, a choice failed, or two quick
\* choices were stored in the wrong order.
ChoiceStands ==
    /\ \A f \in DOMAIN chosen : row[f] = chosen[f]
    /\ \A h \in sure : form[h].provider = row.provider

-----------------------------------------------------------------------------
(* Inductive invariant                                                     *)

TypeOK ==
    /\ row \in [Field -> Value]
    /\ form \in [Handler -> [Field -> Value]]
    /\ chosen \in [{"limit", "provider"} -> Value]
    /\ request \subseteq UNION {[tab : Handler, group : {g}, body : [{g} -> Value],
                                  last : BOOLEAN] : g \in Field}
    /\ sure \subseteq Handler

\* A tab's last choice under way is the one it shows.
LastIsShown ==
    \A r \in request : r.last /\ r.group = "provider" => r.body.provider = form[r.tab].provider

IInv == TypeOK /\ LastIsShown /\ ChoiceStands

=============================================================================
