----------------------------- MODULE SmsDelivery -----------------------------
(***************************************************************************)
(* SmsService: the gateways a sign-in code may go by, and in which order.  *)
(*                                                                         *)
(* send() settles on a chain of gateways by the routing mode and by the    *)
(* credentials of that moment, then tries one after the other; an admin    *)
(* may change both meanwhile.  Route Mobile may be reached through a relay *)
(* whose token all sends share: one send is followed, the others are what  *)
(* they do to that token.                                                  *)
(***************************************************************************)
EXTENDS Integers, Sequences, FiniteSetsExt

CONSTANTS
    Gateway,     \* those that may be configured, of the five in Order
    MaxChanges   \* bound: changes of settings, credentials and the relay's token

Order == <<"routemobile", "bulksms", "twilio", "custom", "africastalking">>

\* What the tables of markets and prefixes tell apart of an E.164 number:
\* Airtel Uganda, the rest of East Africa, +1, everywhere else.
Number == {"airtel", "eastAfrica", "plus1", "abroad"}

Mode == Gateway \cup {"auto", "twilioverify"}

VARIABLES
    mode,        \* AppSettings.smsProvider
    configured,  \* gateways with all their credentials
    changes,     \* how often those two, or the relay, changed
    relay,       \* [used, held, good, needle]: whether Route Mobile is relayed,
                 \* relayJwt (0 is null), the token it accepts, and whether
                 \* SMS_CUSTOM_SUCCESS_CONTAINS is set
    send         \* the send: [at, number, chain, token], and its history:
                 \* tried, taken, lost an answer, steady (configured throughout)
                 \* The chain is a set, and who of it goes first: see Foremost

vars == <<mode, configured, changes, relay, send>>

NoChain == [first |-> "none", left |-> {}]
Free == [at |-> "free", number |-> "abroad", chain |-> NoChain, token |-> 0,
         tried |-> {}, taken |-> {}, lost |-> FALSE, steady |-> {}]

Init ==
    /\ mode \in Mode
    /\ configured = Gateway
    /\ changes = 0
    /\ relay \in [used : BOOLEAN, held : {0}, good : {1}, needle : BOOLEAN]
    /\ send = Free

-----------------------------------------------------------------------------
(* Routing                                                                 *)

CanDeliverTo(g, n) ==
    /\ g = "routemobile" => n = "airtel"
    /\ g = "bulksms" => n # "plus1"
    /\ g = "africastalking" => n \in {"airtel", "eastAfrica"}

\* "twilioverify" is not a gateway: it leaves the messages to `auto`.
RouteFor(n, m) ==
    IF \E i \in DOMAIN Order : Order[i] = m THEN m
    ELSE IF n = "airtel" THEN "routemobile"
    ELSE IF CanDeliverTo("bulksms", n) THEN "bulksms"
    ELSE "twilio"

\* mutant: a mode the admin forces goes first, whatever it covers
MutResolveChain(n, preferred) ==
    [first |-> preferred,
     left  |-> {g \in configured : CanDeliverTo(g, n) \/ g = preferred}]

\* The routed gateway if it can be used, then all others that can, in order.
ResolveChain(n, preferred) ==
    [first |-> preferred, left |-> {g \in configured : CanDeliverTo(g, n)}]
Foremost(chain) ==
    IF chain.first \in chain.left THEN chain.first
    ELSE Order[Min({i \in DOMAIN Order : Order[i] \in chain.left})]

\* These two leave a failure of fetch to the caller, which has no catch.
Uncaught == {"twilio", "africastalking"}

\* Whose 200 may hold a refusal that reads as success.
Misread(g) == g = "custom" /\ ~relay.needle

-----------------------------------------------------------------------------
(* send                                                                    *)

At(stage) == send.at = stage
Now == Foremost(send.chain)
Relayed == Now = "routemobile" /\ relay.used
SendOnly == UNCHANGED <<mode, configured, changes, relay>>

Ask(n) ==
    /\ At("free")
    /\ send' = [Free EXCEPT !.at = "mode", !.number = n]
    /\ SendOnly

\* routingMode is a query; credentials come from the cache of secrets.
Resolve ==
    /\ At("mode")
    /\ LET n == send.number
           chain == ResolveChain(n, RouteFor(n, mode))
       IN send' = [send EXCEPT !.chain = chain, !.steady = configured,
                               !.at = IF chain.left = {} THEN "no" ELSE "try"]
    /\ SendOnly

\* The send without its first gateway, having noted what became of that one.
Noted(took, lost) ==
    [send EXCEPT !.tried = @ \cup {Now}, !.chain.left = @ \ {Now}, !.token = 0,
                 !.taken = IF took THEN @ \cup {Now} ELSE @,
                 !.lost = @ \/ lost]
Ends(r, answer) == send' = [r EXCEPT !.at = answer]
GoesOn(r) == Ends(r, IF r.chain.left = {} THEN "no" ELSE "try")

\* A request to the gateway is out: it has credentials, or through the relay
\* a token.  Without either the answer is a refusal.
Asking == IF At("try") THEN ~Relayed ELSE send.at \in {"post", "repost"}
Heard == IF Relayed THEN send.token = relay.good ELSE Now \in configured

Take == Asking /\ Heard /\ Ends(Noted(TRUE, FALSE), "sent") /\ SendOnly

\* An error status, a code other than 1701, FAILED inside a 200.
Refuse ==
    /\ Asking /\ (At("post") => Heard)
    /\ IF Misread(Now) THEN Ends(Noted(FALSE, FALSE), "sent")
       ELSE GoesOn(Noted(FALSE, FALSE))
    /\ SendOnly

\* The message was taken and the answer lost, or nothing got through.
Unreachable(took) ==
    /\ Asking /\ (took => Heard)
    /\ LET r == Noted(took, took)
       IN IF Now \in Uncaught THEN Ends(r, "threw") ELSE GoesOn(r)
    /\ SendOnly

\* relayToken, the first time or after a refusal: the held token, or a login.
RelayToken ==
    /\ At("again") \/ (At("try") /\ Relayed)
    /\ LET on == IF At("try") THEN "post" ELSE "repost"
       IN \/ /\ relay.held # 0
             /\ send' = [send EXCEPT !.at = on, !.token = relay.held]
             /\ UNCHANGED relay
          \/ /\ relay.held = 0
             /\ relay' = [relay EXCEPT !.held = relay.good]
             /\ send' = [send EXCEPT !.at = on, !.token = relay.good]
          \/ /\ relay.held = 0
             /\ GoesOn(Noted(FALSE, FALSE))
             /\ UNCHANGED relay
    /\ UNCHANGED <<mode, configured, changes>>

\* 401 or 403: the token is dropped, whoever fetched it.
RelayRefused ==
    /\ At("post") /\ ~Heard
    /\ relay' = [relay EXCEPT !.held = 0]
    /\ send' = [send EXCEPT !.at = "again"]
    /\ UNCHANGED <<mode, configured, changes>>

\* relayToken and the same refusal, in other sends.
OtherSends ==
    /\ relay.used
    /\ relay' = [relay EXCEPT !.held = IF @ = 0 THEN relay.good ELSE 0]
    /\ UNCHANGED <<mode, configured, changes, send>>

Done ==
    /\ send.at \in {"sent", "no", "threw"}
    /\ send' = Free
    /\ SendOnly

-----------------------------------------------------------------------------
(* The settings page, and time                                             *)

Change == changes < MaxChanges /\ changes' = changes + 1

SaveSmsProvider(m) ==
    /\ Change
    /\ mode' = m
    /\ UNCHANGED <<configured, relay, send>>

\* A credential of gateway g is set, or cleared.
SetSmsCredentials(g) ==
    /\ Change
    /\ configured' \in {configured \cup {g}, configured \ {g}}
    /\ send' = [send EXCEPT !.steady = @ \cap configured']
    /\ UNCHANGED <<mode, relay>>

\* Seven days later, or the account at the relay is reset.
TokenExpires ==
    /\ relay.used /\ Change
    /\ relay' = [relay EXCEPT !.good = @ + 1]
    /\ UNCHANGED <<mode, configured, send>>

Next ==
    \/ \E n \in Number : Ask(n)
    \/ Resolve \/ Take \/ Refuse \/ RelayToken \/ RelayRefused \/ Done \/ OtherSends
    \/ \E took \in BOOLEAN : Unreachable(took)
    \/ \E m \in Mode : SaveSmsProvider(m)
    \/ \E g \in Gateway : SetSmsCredentials(g)
    \/ TokenExpires

Spec == Init /\ [][Next]_vars

-----------------------------------------------------------------------------
\* What send answers can be relied on.  `true`: a gateway that reaches the
\* number has the message, unless an answer of the custom gateway could not
\* be read.  `false`: every gateway that reaches the number and was
\* configured all along has been tried, and whoever may still have the
\* message did not say so.  No two gateways have it unless one's answer was
\* lost.  (It may also throw: see Uncaught.)
AnswerTells ==
    LET reaching == {g \in Gateway : CanDeliverTo(g, send.number)}
    IN /\ send.taken \subseteq reaching
       /\ At("sent") => send.taken # {} \/ ("custom" \in send.tried /\ ~relay.needle)
       /\ At("no") => /\ send.steady \cap reaching \subseteq send.tried
                      /\ send.taken # {} => send.lost
       /\ \A g, k \in send.taken : g # k => send.lost

-----------------------------------------------------------------------------
(* Inductive invariant                                                     *)

Route == {"none", "routemobile", "bulksms", "twilio", "custom", "africastalking"}

TypeOK ==
    /\ configured \subseteq Gateway /\ changes \in Nat
    /\ relay \in [used : BOOLEAN, held : Nat, good : Nat, needle : BOOLEAN]
    /\ send \in [at : {"free", "mode", "try", "post", "again", "repost", "sent", "no", "threw"},
                number : Number, chain : [first : Route, left : SUBSET Gateway], token : Nat,
                tried : SUBSET Gateway, taken : SUBSET Gateway, lost : BOOLEAN,
                steady : SUBSET Gateway]

\* A gateway that reaches the number and was configured all along has been
\* tried or is still to be, and no other is tried.
ChainHolds ==
    LET reaching == {g \in Gateway : CanDeliverTo(g, send.number)}
    IN /\ send.at \in {"try", "post", "again", "repost"} => send.chain.left # {}
       /\ send.at \in {"free", "mode"} => send.tried = {}
       /\ At("no") => send.chain.left = {}
       /\ send.chain.left \cup send.tried \subseteq reaching
       /\ ~(send.at \in {"free", "mode"}) =>
             send.steady \cap reaching \subseteq send.tried \cup send.chain.left

\* While it goes on, whoever has the message did not say so.
TakenUnheard ==
    /\ send.taken \subseteq send.tried
    /\ send.taken # {} /\ ~At("sent") => send.lost

IInv == TypeOK /\ ChainHolds /\ TakenUnheard /\ AnswerTells

=============================================================================
