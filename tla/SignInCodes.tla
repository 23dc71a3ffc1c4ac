----------------------------- MODULE SignInCodes -----------------------------
(***************************************************************************)
(* Sign-in codes of one phone number: AuthService.requestOtp and verifyOtp *)
(* with the rows of otp_codes they share, Twilio Verify beside them, the   *)
(* recovery code an administrator issues, and the deletion of the account  *)
(* the number belongs to.                                                  *)
(*                                                                         *)
(* A request is served in steps, one per statement or network call it      *)
(* awaits; the steps of requests served together interleave, and a restart *)
(* of the process drops them all.  What the caller typed is decided where  *)
(* it is compared.                                                         *)
(***************************************************************************)
EXTENDS Integers, FiniteSets

CONSTANTS
    MaxCodes,     \* bound: rows of otp_codes
    Handler,      \* slots for requests being served
    MaxAttempts,  \* OTP_MAX_ATTEMPTS
    Cooldown,     \* whether otpCooldownSeconds is above 0
    PerHour,      \* AppSettings.otpPerHour, 0 for no limit
    PerDay,       \* AppSettings.otpPerDay, 0 for no limit
    OtpTtl, RecoveryTtl,  \* ages up to which a code is valid
    Hour, Day,            \* ages up to which it counts against the limits
    Routes,       \* whether Verify takes the number: "first", "last", "never"
    MaxPeople,    \* bound: accounts the number belongs to, one after the other
    None

\* The ids of the rows, in the order they are created.
Code == 1..MaxCodes

ASSUME CodesAssumption ==
    /\ MaxCodes \in Nat /\ IsFiniteSet(Handler)
    /\ MaxAttempts \in Nat \ {0} /\ MaxPeople \in Nat
    /\ Cooldown \in BOOLEAN /\ PerHour \in Nat /\ PerDay \in Nat
    /\ OtpTtl \in Nat /\ RecoveryTtl \in Nat /\ Hour \in 0..Day /\ Day \in Nat
    /\ Routes \subseteq {"first", "last", "never"}
    /\ None \notin Code

VARIABLES
    route,     \* how TwilioVerifyService.shouldUseFor / isConfigured answer
    configured,  \* what SmsService.isConfigured answers: FALSE, too, when the
                 \* one gateway that sends is not among those it knows
    row,       \* of each code: absent, open (consumedAt null), consumed, deleted
    provider,  \* who holds the code: sms (a hash here) or verify (Twilio)
    byAdmin,   \* the rows with issuedByAdminId
    attempts,  \* wrong codes charged against each row
    age,       \* how long ago each row was created, see below
    remote,    \* a verification is pending at Twilio
    person,    \* the accounts the number has had; the last of them is current
    status,    \* of the number's account: none, active, banned
    deleted,   \* accounts that were deleted: their rows are tombstones
    inside,    \* accounts that hold a session
    hnd,       \* the requests being served
    opened     \* history: sign-ins each code was good for

codeVars == <<row, provider, byAdmin, attempts, age>>
userVars == <<person, status, deleted, inside>>
vars == <<route, configured, codeVars, remote, userVars, hnd, opened>>

People == 1..MaxPeople

\* Age 0 is within the cooldown; beyond a day ages are not told apart.
Oldest == Day + 1
Ages == 0..Oldest

Idle == [stage |-> "idle", live |-> {}, code |-> None, who |-> 0]

AtCode(stage, c) == [stage |-> stage, live |-> {}, code |-> c, who |-> 0]
Holding(stage, live, c) == [stage |-> stage, live |-> live, code |-> c, who |-> 0]
About(stage, c, w) == [stage |-> stage, live |-> {}, code |-> c, who |-> w]

Comparing == {"asking", "unmatched"}
Entering == {"matched", "entering", "issuing"}
Plain == {"idle", "allowed", "started", "refused", "special", "retired"}
Stages == Comparing \cup Entering \cup Plain
            \cup {"sending", "sendingLast", "converting", "deleting"}
Slot == [stage: Stages, live: SUBSET Code, code: Code \cup {None}, who: 0..MaxPeople]

TypeOK ==
    /\ route \in Routes /\ configured \in BOOLEAN
    /\ row \in [Code -> {"absent", "open", "consumed", "deleted"}]
    /\ provider \in [Code -> {"sms", "verify"}]
    /\ byAdmin \subseteq Code
    /\ attempts \in [Code -> Nat]
    /\ age \in [Code -> Ages]
    /\ remote \in BOOLEAN
    /\ person \in 0..MaxPeople
    /\ status \in {"none", "active", "banned"}
    /\ deleted \subseteq People /\ inside \subseteq People
    /\ hnd \in [Handler -> Slot]
    /\ opened \in [Code -> Nat]

Init ==
    /\ route \in Routes /\ configured \in BOOLEAN
    /\ row = [c \in Code |-> "absent"]
    /\ provider = [c \in Code |-> "sms"]
    /\ byAdmin = {}
    /\ attempts = [c \in Code |-> 0]
    /\ age = [c \in Code |-> 0]
    /\ remote = FALSE
    /\ person = 0 /\ status = "none"
    /\ deleted = {} /\ inside = {}
    /\ hnd = [h \in Handler |-> Idle]
    /\ opened = [c \in Code |-> 0]

At(h, stage) == hnd[h].stage = stage
Becomes(h, r) == hnd' = [hnd EXCEPT ![h] = r]
Ends(h) == Becomes(h, Idle)

Open == {c \in Code : row[c] = "open"}
Stored == {c \in Code : row[c] \in {"open", "consumed"}}

\* expiresAt is OTP_TTL_MINUTES away, RECOVERY_CODE_TTL_MINUTES for a
\* recovery code.
Valid(c) == age[c] <= (IF c \in byAdmin THEN RecoveryTtl ELSE OtpTtl)

-----------------------------------------------------------------------------
(* requestOtp                                                              *)

\* Admin-issued codes cost nothing, and are left out of the limits.
Chargeable(oldest) == {c \in Stored \ byAdmin : age[c] <= oldest}

Newest(c, codes) == c \in codes /\ \A d \in codes : d <= c

Cooling == Cooldown /\ \E c \in Code : Newest(c, Stored \ byAdmin) /\ age[c] = 0

\* mutant: one code more than the limit allows
MutExhausted(limit, oldest) == limit > 0 /\ Cardinality(Chargeable(oldest)) > limit

Exhausted(limit, oldest) == limit > 0 /\ Cardinality(Chargeable(oldest)) >= limit

\* enforceOtpLimits: every limit is checked against the rows stored so far.
WithinOtpLimits == ~Cooling /\ ~Exhausted(PerHour, Hour) /\ ~Exhausted(PerDay, Day)

\* chargeable: the limits are for the numbers a message of ours may cost
\* something to send to, as far as isConfigured and shouldUseFor tell.
Metered == configured \/ route = "first"

EnforceOtpLimits(h) ==
    /\ At(h, "idle") /\ (Metered => WithinOtpLimits)
    /\ Becomes(h, AtCode("allowed", None))
    /\ UNCHANGED <<route, configured, codeVars, remote, userVars, opened>>

\* +1 numbers: Twilio makes, holds and sends the code.  An outage costs the
\* better delivery, not the sign-in.
StartVerify(h) ==
    /\ At(h, "allowed") /\ route = "first"
    /\ \/ remote' = TRUE /\ Becomes(h, AtCode("started", None))
       \/ remote' \in {remote, TRUE} /\ Becomes(h, AtCode("refused", None))
    /\ UNCHANGED <<route, configured, codeVars, userVars, opened>>

\* otpCode.create: a new id, above the ids in use.
CreateCode(c, by, admin) ==
    /\ row[c] = "absent" /\ \A d \in Code : d < c => row[d] # "absent"
    /\ row' = [row EXCEPT ![c] = "open"]
    /\ provider' = [provider EXCEPT ![c] = by]
    /\ byAdmin' = IF admin THEN byAdmin \cup {c} ELSE byAdmin
    /\ UNCHANGED <<attempts, age>>

RecordVerify(h) ==
    /\ At(h, "started")
    /\ \E c \in Code : CreateCode(c, "verify", FALSE)
    /\ Ends(h)
    /\ UNCHANGED <<route, configured, remote, userVars, opened>>

CreateOtp(h) ==
    /\ At(h, "refused") \/ (At(h, "allowed") /\ route # "first")
    /\ \E c \in Code :
         /\ CreateCode(c, "sms", FALSE)
         /\ Becomes(h, AtCode(IF At(h, "refused") THEN "sendingLast" ELSE "sending", c))
    /\ UNCHANGED <<route, configured, remote, userVars, opened>>

\* Some gateway takes the message, or none does and Verify is no help: it was
\* asked already, is not configured, or refuses too.
SendOtp(h) ==
    /\ At(h, "sending") \/ At(h, "sendingLast")
    /\ Ends(h)
    /\ UNCHANGED <<route, configured, codeVars, remote, userVars, opened>>

\* Every gateway refused the number: Verify is the last resort.
StartVerifyLast(h) ==
    /\ At(h, "sending") /\ route # "never"
    /\ remote' = TRUE
    /\ Becomes(h, AtCode("converting", hnd[h].code))
    /\ UNCHANGED <<route, configured, codeVars, userVars, opened>>

\* otpCode.update by id: the row becomes Twilio's, consumed or not; if it was
\* deleted the update fails and the request with it.
ConvertToVerify(h) ==
    /\ At(h, "converting")
    /\ provider' = IF hnd[h].code \in Stored
                   THEN [provider EXCEPT ![hnd[h].code] = "verify"]
                   ELSE provider
    /\ Ends(h)
    /\ UNCHANGED <<route, configured, row, byAdmin, attempts, age, remote, userVars, opened>>

RequestStep(h) ==
    \/ EnforceOtpLimits(h) \/ StartVerify(h) \/ RecordVerify(h) \/ CreateOtp(h)
    \/ SendOtp(h) \/ StartVerifyLast(h) \/ ConvertToVerify(h)

-----------------------------------------------------------------------------
(* verifyOtp                                                               *)

\* mutant: a code that had all its attempts stays live
MutLive == {c \in Open : Valid(c)}

\* The codes a caller's guess is compared with.
Live == {c \in Open : Valid(c) /\ attempts[c] < MaxAttempts}

\* Twilio is asked about the newest of its codes.
AtTwilio == {c \in Live : provider[c] = "verify"}

\* Reads the live codes of the number and compares the guess with the ones
\* held here: it is one of them, or it is none.
ReadCodes(h) ==
    /\ At(h, "idle")
    /\ \/ \E c \in Live \ AtTwilio : Becomes(h, AtCode("matched", c))
       \/ \E c \in Code : /\ Newest(c, AtTwilio)
                         /\ Becomes(h, Holding("asking", Live, c))
       \/ /\ AtTwilio = {}
          /\ Becomes(h, Holding("unmatched", Live, None))
    /\ UNCHANGED <<route, configured, codeVars, remote, userVars, opened>>

\* Twilio approves a pending verification once, forgets it after too many
\* wrong codes, and may be out of reach.
AskTwilio(h) ==
    /\ At(h, "asking")
    /\ \/ /\ remote' \in {remote, FALSE}
          /\ Becomes(h, Holding("unmatched", hnd[h].live, None))
       \/ /\ remote /\ remote' = FALSE
          /\ Becomes(h, AtCode("matched", hnd[h].code))
    /\ UNCHANGED <<route, configured, codeVars, userVars, opened>>

\* The development code or the master code, tried last.
MatchSpecial(h) ==
    /\ At(h, "unmatched")
    /\ Becomes(h, AtCode("special", None))
    /\ UNCHANGED <<route, configured, codeVars, remote, userVars, opened>>

\* A wrong guess is charged against every code it was compared with.
ChargeGuess(h) ==
    /\ At(h, "unmatched")
    /\ attempts' = [c \in Code |-> IF c \in hnd[h].live \cap Stored
                                   THEN attempts[c] + 1 ELSE attempts[c]]
    /\ Ends(h)
    /\ UNCHANGED <<route, configured, row, provider, byAdmin, age, remote, userVars, opened>>

\* mutant: only the newest of the number's codes is retired
MutConsumeAll(h) ==
    [c \in Code |-> IF Newest(c, Open) THEN "consumed" ELSE row[c]]

\* Every code outstanding for the number, whoever issued it.
ConsumeAll(h) == [c \in Code |-> IF row[c] = "open" THEN "consumed" ELSE row[c]]

ConsumeCodes(h) ==
    /\ At(h, "matched")
    /\ row' = ConsumeAll(h)
    /\ Becomes(h, AtCode("entering", hnd[h].code))
    /\ UNCHANGED <<route, configured, provider, byAdmin, attempts, age, remote, userVars, opened>>

\* The number's account, created when there is none; only an active one may
\* sign in, judged by what was read here.
UpsertUser(h) ==
    /\ At(h, "entering")
    /\ \/ /\ status = "none" /\ person < MaxPeople
          /\ person' = person + 1 /\ status' = "active"
          /\ Becomes(h, About("issuing", hnd[h].code, person + 1))
       \/ /\ status = "active" /\ UNCHANGED <<person, status>>
          /\ Becomes(h, About("issuing", hnd[h].code, person))
       \/ /\ status = "banned" /\ UNCHANGED <<person, status>>
          /\ Ends(h)
    /\ UNCHANGED <<route, configured, codeVars, remote, deleted, inside, opened>>

\* signInWithDevBypass, signInWithMasterCode: no account is created, and a
\* privileged one may be refused.
EnterSpecially(h) ==
    /\ At(h, "special")
    /\ \/ /\ status = "active" /\ row' = ConsumeAll(h)
          /\ Becomes(h, About("issuing", None, person))
       \/ UNCHANGED row /\ Ends(h)
    /\ UNCHANGED <<route, configured, provider, byAdmin, attempts, age, remote, userVars, opened>>

IssueSession(h) ==
    /\ At(h, "issuing")
    /\ inside' = inside \cup {hnd[h].who}
    /\ opened' = IF hnd[h].code = None THEN opened
                 ELSE [opened EXCEPT ![hnd[h].code] = @ + 1]
    /\ Ends(h)
    /\ UNCHANGED <<route, configured, codeVars, remote, person, status, deleted>>

VerifyStep(h) ==
    \/ ReadCodes(h) \/ AskTwilio(h) \/ MatchSpecial(h) \/ ChargeGuess(h)
    \/ ConsumeCodes(h) \/ UpsertUser(h) \/ EnterSpecially(h) \/ IssueSession(h)

-----------------------------------------------------------------------------
(* Recovery codes, deletion, suspension                                    *)

\* issueRecoveryCode, for a user there is: what is outstanding is retired ...
RetireCodes(h) ==
    /\ At(h, "idle") /\ status # "none"
    /\ row' = ConsumeAll(h)
    /\ Becomes(h, AtCode("retired", None))
    /\ UNCHANGED <<route, configured, provider, byAdmin, attempts, age, remote, userVars, opened>>

\* ... and the code for support to read out takes its place.
CreateRecovery(h) ==
    /\ At(h, "retired")
    /\ \E c \in Code : CreateCode(c, "sms", TRUE)
    /\ Ends(h)
    /\ UNCHANGED <<route, configured, remote, userVars, opened>>

\* deleteOwn reads the account, unless it is gone already ...
AskDeletion(h) ==
    /\ At(h, "idle")
    /\ \E w \in inside \ deleted : Becomes(h, About("deleting", None, w))
    /\ UNCHANGED <<route, configured, codeVars, remote, userVars, opened>>

\* Codes of the number go with the account, consumed ones too.
DeletedRows == [c \in Code |-> IF row[c] = "absent" THEN "absent" ELSE "deleted"]

\* ... and then everything in one transaction: codes, sessions, the number.
DeleteAccount(h) ==
    /\ At(h, "deleting")
    /\ row' = DeletedRows
    /\ inside' = inside \ {hnd[h].who}
    /\ deleted' = deleted \cup {hnd[h].who}
    /\ status' = IF hnd[h].who = person THEN "none" ELSE status
    /\ Ends(h)
    /\ UNCHANGED <<route, configured, provider, byAdmin, attempts, age, remote, person, opened>>

SetStatus ==
    /\ status # "none"
    /\ status' \in {"active", "banned"} \ {status}
    /\ UNCHANGED <<route, configured, codeVars, remote, person, deleted, inside, hnd, opened>>

\* A row grows older, no sooner than the rows created before it.
GrowOlder(c) ==
    /\ row[c] # "absent" /\ age[c] < Oldest
    /\ \A d \in Code : d < c => age[d] > age[c]
    /\ age' = [age EXCEPT ![c] = @ + 1]
    /\ UNCHANGED <<route, configured, row, provider, byAdmin, attempts, remote, userVars, hnd, opened>>

\* The process dies with the requests it was serving.
Restart ==
    /\ \E h \in Handler : ~At(h, "idle")
    /\ hnd' = [h \in Handler |-> Idle]
    /\ UNCHANGED <<route, configured, codeVars, remote, userVars, opened>>

AccountStep(h) ==
    RetireCodes(h) \/ CreateRecovery(h) \/ AskDeletion(h) \/ DeleteAccount(h)

Next ==
    \/ \E h \in Handler : RequestStep(h) \/ VerifyStep(h) \/ AccountStep(h)
    \/ SetStatus \/ Restart
    \/ \E c \in Code : GrowOlder(c)

Spec == Init /\ [][Next]_vars

-----------------------------------------------------------------------------
(* Properties                                                              *)

(***************************************************************************)
(* A code signs in at most as many times as there were verifications of it *)
(* in progress when it was consumed: between reading a live code and       *)
(* consuming it another verification may have read it too, and both sign   *)
(* in.  Served one at a time, it signs in once.  ("single use, since       *)
(* verifyOtp consumes the row it matches", admin-users.controller.ts:142)  *)
(***************************************************************************)
SignInsBounded == \A c \in Code : opened[c] <= Cardinality(Handler)

(***************************************************************************)
(* The attempts are checked when the codes are read and charged after the  *)
(* guess was compared, with two network calls between: the guesses at one  *)
(* code exceed OTP_MAX_ATTEMPTS by at most the verifications served at the *)
(* same time, less one.                                                    *)
(***************************************************************************)
GuessesBounded ==
    \A c \in Code : attempts[c] <= MaxAttempts + Cardinality(Handler) - 1

(***************************************************************************)
(* enforceOtpLimits counts the codes stored so far and requestOtp stores   *)
(* the next one later: requests served together exceed each limit by at    *)
(* most their number, less one - Twilio's codes and converted ones         *)
(* included.  Deleting the account forgets the count, and a number that is *)
(* not metered has no limits at all.                                       *)
(***************************************************************************)
OtpLimitsHold == Metered =>
    /\ Cooldown => Cardinality(Chargeable(0)) <= Cardinality(Handler)
    /\ PerHour > 0 => Cardinality(Chargeable(Hour)) <= PerHour + Cardinality(Handler) - 1
    /\ PerDay > 0 => Cardinality(Chargeable(Day)) <= PerDay + Cardinality(Handler) - 1

-----------------------------------------------------------------------------
(* The invariant behind them.                                              *)

\* The verifications that may yet sign in with a code, or be charged for it.
Holders(c) == {h \in Handler : c \in hnd[h].live
                                  \/ (hnd[h].stage \in Entering /\ hnd[h].code = c)}

Guessing(c) == {h \in Handler : c \in hnd[h].live}

\* The requests that passed the limits and have stored no code yet.
Granted == {h \in Handler : hnd[h].stage \in {"allowed", "started", "refused"}}

\* What a request's stage says of its fields.
SlotShape(r, rows) ==
    /\ r.stage \notin Comparing => r.live = {}
    /\ r.stage = "asking" => r.code \in r.live
    /\ r.stage \in {"matched", "entering", "sending", "sendingLast", "converting"}
         => r.code \in Code
    /\ r.stage \in {"issuing", "deleting"} => r.who \in People
    /\ r.stage \in {"entering", "issuing"} /\ r.code # None
         => rows[r.code] \in {"consumed", "deleted"}

HandlerShape == \A h \in Handler : SlotShape(hnd[h], row)

HeldCodes ==
    \A c \in Code :
        /\ row[c] = "absent" => Holders(c) = {}
        /\ row[c] \in {"absent", "open"} => opened[c] = 0
        /\ opened[c] + Cardinality(Holders(c)) <= Cardinality(Handler)

ChargesBounded ==
    \A c \in Code :
        attempts[c] + Cardinality(Guessing(c)) <= MaxAttempts - 1 + Cardinality(Handler)

LimitsReserved == Metered =>
    /\ Cooldown => Cardinality(Chargeable(0)) + Cardinality(Granted) <= Cardinality(Handler)
    /\ PerHour > 0 => Cardinality(Chargeable(Hour)) + Cardinality(Granted)
                         <= PerHour + Cardinality(Handler) - 1
    /\ PerDay > 0 => Cardinality(Chargeable(Day)) + Cardinality(Granted)
                         <= PerDay + Cardinality(Handler) - 1

CurrentAccount == person > 0 \/ status = "none"

\* Ids are given in the order of creation, and a newer row is no older.
RowOrder ==
    /\ \A c \in Code : row[c] = "absent" => age[c] = 0
    /\ \A c, d \in Code : c < d => age[d] <= age[c]

IInv == /\ TypeOK /\ HandlerShape /\ HeldCodes /\ ChargesBounded
        /\ LimitsReserved /\ CurrentAccount /\ RowOrder

(***************************************************************************)
(* Verifications served together implement the one-time code that admits   *)
(* as many as are served at a time.                                        *)
(***************************************************************************)
Shown == [c \in Code |-> IF row[c] = "absent" THEN "unissued"
                         ELSE IF row[c] = "open" THEN "usable" ELSE "spent"]

Promise == INSTANCE OneTimeCode
             WITH state <- Shown, entered <- opened, Admits <- Cardinality(Handler)

KeepsPromise == Promise!Spec

=============================================================================
