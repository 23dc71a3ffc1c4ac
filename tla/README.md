# Verification of the Muza Watch streaming platform

TLA+ models of the parts of this repository whose correctness depends on the
order in which things happen: signing in and staying signed in, the caps on
devices and concurrent streams, the confirmation of payments, the ingest of
videos, the catalogue and its announcements, and the clients that work against
them from a browser or a phone. TLC checks each model on a small instance; TLAPS
proves the most important results for every value of the constants.

Paths below are relative to the repository root.

## 1. The system

A NestJS backend (`backend/`, Prisma on Postgres) serves a Next.js web
application (`frontend/`) and a Flutter application (`mobile/`). It runs as
**one** pm2 process (`ecosystem.config.js`, no cluster instances), so handlers
never run in parallel, but any two of them interleave at every `await`. One
Prisma call is one SQL statement and atomic; so is a `$transaction`. A restart
loses everything that lives in the process's memory and keeps the database.
These are the atomicity assumptions of all modules: **a step is what happens
between two awaits**.

| Component | State | Operations | Talks to | What makes it hard | What makes it correct |
|---|---|---|---|---|---|
| Refresh-token rotation (`auth.service.ts`, `frontend/src/lib/auth.ts`, `mobile/lib/core/api_client.dart`) | session row: current and previous token hash, grace; client: two copies of the token | refresh, logout, revoke, suspend | every signed-in client | read-read-write across awaits, lost answers, two storages, several tabs | a client is never mistaken for a thief, never stranded; revocation is final |
| Device cap (`auth.service.ts` issueSession, `jwt-auth.guard.ts`) | sessions, `lastSeenAt`, a map in memory | sign in, touch, refresh, revoke | refresh, stream slots | read-evict-create in three statements; two throttles; lost writes | the cap is kept up to bounded overshoot; the least recently *used* device goes |
| Stream slots (`stream-lease.service.ts`) | one lease per session | acquire, heartbeat, release, eviction | device cap, players | count-then-upsert; sleeping devices; crashes between two statements | the limit is kept up to bounded overshoot; slots come back; nobody is locked out |
| Payments (`payments/`, `webhooks.controller.ts`) | payment row, subscriptions and purchases | checkout, poll, five processors' notifications, grant | Flutterwave, Stripe, MoMo, Yo, DPO; the browser | polls and notifications race; replays; provider silence; restarts | only what is paid is granted; what is paid is granted in the end, and once |
| Episode ingest (`episodes.service.ts`, `transcode.service.ts`) | episode row; Cloudflare's videos; the transcode queue in memory | upload, import, register, transcode, cancel, sync, webhook, sweep | Cloudflare Stream, R2, ffmpeg | every operation reads, calls Cloudflare, then writes by id; jobs die with the process | a slot tells the truth; no video is forgotten; no slot uploads for ever |
| Sign-in codes (`auth.service.ts` requestOtp, verifyOtp; admin recovery codes) | `otp_codes` | request, verify, issue | SMS gateways, Twilio Verify | count-then-create limits, compare-then-consume | a code admits a bounded number; attempts and requests are capped |
| PIN, master code, development bypass | counters and locks on the user, `master_codes`, settings | set, verify, issue, configure | sign-in codes | read-modify-write counters, overlapping issues, refusals after a write | guesses are bounded however they overlap; the panel shows what is live |
| Account deletion (`account.service.ts`) | the user and all it owns | deleteOwn | sign-ins | what is in progress when the transaction commits | the codes of the number are gone, its next owner starts afresh |
| SMS delivery (`sms.service.ts`) | the relay's token; the settings row | send with fallback | gateways | partial failure, lost and unreadable answers | what `send` answers can be relied on |
| Secrets (`common/secrets.service.ts`) | a read-through cache | get, set | payments, SMS, push | a fill interleaving with a set | an old credential does not outlive its replacement |
| Catalogue audience and pages (`titles/`, `optional-jwt.guard.ts`) | titles, my list, mode, two cookies | browse, home, my list, publish | playback, notifications | four spellings of one rule; readers worked out from cookies | an account has one catalogue |
| Notifications (`notifications/`) | devices, `notifiedAt` | announce, broadcast, register | FCM | read-send-mark | a title is announced once; whoever is told may open it |
| Website sign-in (`login-form.tsx`, `auth-context.tsx`, `lib/auth.ts`) | form, tokens, cookie, `me` | steps of the form, loads, refresh, logout | every handler of sign-in | timers, shared refreshes and a form in one tab | who signed in stays signed in |
| Title editor (`admin/titles/[id]/edit`) | the form, loads and saves under way | type, save, upload, apply artwork | titles, ingest, artwork | answers in any order | saving takes nothing back |
| Settings (`settings/`, `admin/settings`) | one row; what each tab shows | save groups, choose providers | everything configured there | several tabs, a row written in groups | a stale tab takes back nothing outside its group |
| Watch progress (`watch-player.tsx`, `player_screen.dart`) | `positionSecs`, players, reports on their way | open, report, seek, recover | playback | a report before the first seek, late reports, stale tiles | the bookmark does not fall back by itself |
| Mobile downloads (`mobile/lib/services/downloads.dart`) | queue, in-flight map, files, index | download, cancel, delete, revalidate | backend | awaits between map updates; kills | what is listed plays, and is listed once |
| Uploads to R2 (`admin/shared.ts`, `r2.service.ts`, `transcode.service.ts`) | objects in the bucket, the row, the transcode queue | multipart, ladder, register, transcode | ingest, ffmpeg, R2 | calls that are served and not answered, closed tabs | what a ready episode names is there, and whole |
| Paying as the customer sees it (`account/subscribe`, `payments/callback`, `subscribe_screen.dart`) | what the screen says, an interval per payment | pay, poll, give up, cancel, try again | payments | polls that overlap, late and missing answers, a shared `pollRef` | what the screen says of a payment holds; nobody is led to pay twice |
| Plans, users, statistics, activity log, thumbnails, TMDB, R2 worker, scripts | rows | CRUD, views | | little: single statements | |

Shared state ties them together: `issueSession` (sign-in) evicts a session *and*
ends its stream lease; playback takes a slot for a session whose access token
may outlive it; a grant decides whether playback is entitled; the ingest decides
whether there is anything to play.

`PROJECT.json` lists all components with what is and is not modelled, and the
hazards of the code line by line.

## 2. The modules

Each component has its module (state, actions, properties). A component with a
run of its own has an `MC` module with symmetry for TLC; the others are
instantiated by `SideBySide` and `Clients` (see section 3), and their invariants
are proved there. Theorems are in modules named `...Proofs`. Histories (variables the
program does not have) are marked in the declarations. Mutants of definitions
are kept beside them, named `Mut...` and not part of any specification: each
breaks one property and so shows that the property depends on that code.

### RefreshRotation

One session and its client. `session` is the row (`cur` = refreshHash, `prev` =
prevRefreshHash, `fresh` = within REFRESH_GRACE_MS, `hasLookup`, `revoked`).
`req` holds the `/auth/refresh` calls with the handler's locals; the handler is
split at its awaits: `MatchToken` (findSessionForToken), `ReadCurrent`
(issueTokenPair reads the row again), `Rotate` (the write), `Rewind` (the
reissue within the grace), `RevokeReplayed`, `RefuseRefresh`. The client's copies
are `store` (localStorage or keychain) and `cookie`. `wait` is the
`refreshInFlight` promise of each tab.

Tokens are identities; one that nobody holds may stand for the next one minted
(256 random bits), which makes the model finite without bounding the number of
refreshes. Faults are switched on by `Allowed`: calls served after the client
gave up, the grace lapsing, storage purged, a session from before
refreshLookup.

### DeviceCap

`issueSession` as three steps (`ReadActive`, `RevokeVictims`, `CreateSession`)
and the guard's touch with both of its throttles: the map in memory (`touched`)
and the predicate on the row (`seen` is the age of lastSeenAt). Time is counted
in half touch intervals; ages saturate at `MaxAge`, above which nothing in the
code distinguishes them. A lost write is a step of its own because the code does
not await the write.

### StreamSlots

Sessions, leases, players and play calls of one account. `CountSlots` and
`UpsertLease` are the two statements of `acquire`; `Touch` is the heartbeat that
arrives with a progress report, `StopPlaying` the release; `Evict` and
`EndEvictedLease` are the two statements of the device cap's eviction. Time
enters only as "more than STALE_AFTER_MS since the last heartbeat" (`"stale"`).
A lease may go stale at any time: a page sends no heartbeat while it is paused, an
app none while it is suspended, and heartbeats are best effort. A heartbeat that
comes after that brings the lease back, which the history `"revived"` records.
Nothing is assumed of heartbeats but that, where a player is gone for good, they
stop (`Silent`, in the fairness).

### PaymentConfirmation

One payment, whichever of the five processors it uses. `checkout` is split where
it asks for money (`AskForMoney`) and stores the reference (`StoreTransaction`).
A handler is polling, holding a verified verdict, about to grant or about to
fail; the reads and writes between those stages are separate actions, since the
code reads the status outside the transaction of grantEntitlement. The
processors' behaviour is taken from how the code uses them: who notifies, whose
verdict is final (a Flutterwave tx_ref may be retried after a decline), who pays
at a hosted page. Two verdicts may be about something else than the payment's own
charge, which the history `astray` records: `AnswersFailed`, since DPO's `verifyToken`
reads whatever is neither paid nor pending as failed (dpo.service.ts:127), an error of
the moment included; and `AnswersElsewhere`, since `confirmYoIpn` asks about the
reference in the notification where the payment's own was not stored
(payments.service.ts:352), and any transaction may be meant. `Final` names the payments
that none of this concerns.

### Subscribe

The other side of `PaymentConfirmation`, which it abstracts to "the server finds out
by a notification or when asked, or does not yet". A poll is three steps: sent every
two seconds while the payment's interval runs, served, and heard or lost. `doubtful`
names the payments of which a screen cannot know: those given up on, cancelled or
reloaded away, those whose checkout was not answered, and those begun before another
was over. `ScreenTells` holds of all others, and says that a screen which waits is
polling what it waits for. What the server calls failed is taken for declined here:
verdicts that went astray are `PaymentConfirmation`'s matter.

### VideoIngest

One episode slot, the videos Cloudflare knows, the requests being served, and
the transcodes queued or running. A row is written in two ways. `markReady` and
`markError` write by video uid and so touch a row only while it still refers to
that video. Everything else writes by episode id, whatever the row has become
since it was read: `writeSlot`, the upload urls, `cancelUpload`, the reset in
`syncStatus`, the end of a transcode. The model therefore keeps a history:
`overtaken` is the set of requests whose slot was written, by id, after they
read it; `jobCurrent` says the same of the newest transcode; `misplaced` is set
when an overtaken writer writes. The safety properties hold until then.
`leaked` records that a restart or a delete that did not get through left a video
behind.

The server gives an upload url for any row (episodes.service.ts:528-567). The admin
page offers one where the row was Cloudflare's when the page was loaded
(`frontend/src/app/admin/titles/[id]/edit/page.tsx`, line 700), so a request for a
self-hosted row comes from a page whose slot has been written since: it counts as
overtaken from the start, and what it writes as misplaced. A uid nothing
refers to may stand for the next video. Rows of a deleted title are not
modelled, and writes to the backend's own database are taken to succeed.

### SignInCodes, OneTimeCode

The codes of one number. `row`, `provider`, `byAdmin`, `attempts` and `age` are
the columns of `otp_codes`; `hnd` holds the requests being served, with their
locals. `requestOtp` is split at its awaits: the limits
(`WithinOtpLimits`, for a number that is `Metered`), the row, and either our gateways or Twilio Verify, which may
come first or last and converts the row when it takes over (`ConvertToVerify`).
`verifyOtp` reads the live codes, compares hashes and asks Twilio, charges a
wrong guess or consumes all open codes, upserts the user and issues a session.
`MatchSpecial` is where PIN, master code and bypass come in. Recovery codes,
suspension and deletion are other requests that race all of these; after a
deletion the number may belong to another person.

`OneTimeCode` is the abstract promise: a code is issued once, spent once, admits
nobody before it is spent, and `Admits` people in all. `SignInCodes` implements
it (`KeepsPromise`) with `Admits` the number of requests served together.

### PinSignIn, MasterCode, DevBypass

Three ways in that keep a count of failures. Each is read, compared and written
back in separate statements. `guesses` is a history of comparisons that
can be told from a lucky count: it is what the limits in the code are for. The
models include the pages that administer them (`PinSection`, `MasterCodePanel`,
`DevBypassPanel`), whose knowledge of the row may be old. The pages of the bypass are
several. A change made on one is three steps: the row is written (`Configured`), read
again for the answer (`Status`), and the answer reaches the page (`Land`) or does not
(`Lost`). `overtaken` marks a page that has missed a change: one made by another page
since it was read for this one, or one of its own whose answer was lost.

### Audience, Catalogue, Announcements

`Audience` has the rule "who sees a title" in the four spellings of the code;
`Catalogue` serves a page to a reader taken from a token or from cookies, step by
step, next to edits. The cookies are what sign-ins, refreshes and sign-outs leave in
the browser (`jar`), of which a refresh sets the hint to "live" for everybody; the
app's access token runs out, and a page asked for with an old one is served to a
visitor. `Known` names the readers of whom neither holds; `OneCatalogue` is about them.
All of a page's queries are steps after the audience was decided, and `stale` says that
the world changed in between.

`Announcements` pushes a title to the handsets, step by step, next to the same edits.
It reads four things one after the other, and `stale` counts the changes since the
first of them. `PushedMayOpen` asks more than that nothing changed: after one change,
wherever it fell between the readings, those about to be pushed are those who could
open the title before it or those who may after it, and no mixture of both.

### SmsDelivery, Secrets

`SmsDelivery` follows one text message: the routing tables (`Number` is what they
tell apart), the chain of gateways, each gateway's answers - taken, refused,
unreachable, lost, unreadable - and the relay's token that other sends renew. The
chain is the gateway it begins with and the set of those left: the rest of the
order is the code's own, and `Foremost` says whose turn it is.
`Secrets` is the cache of credentials, with calls of get and set split at the
query.

### WebSignIn, TitleEditor, SettingsPage, Bookmark

Pages of the website as processes: what a component's state holds, the requests
it has under way, and the server's rows. Every answer is a step of its own, which
React applies in whatever order it comes. `WebSignIn` names a pair of tokens by its
session; what happens inside a rotation is in `RefreshRotation`. A logout is two
steps, `Logout` and `LoggedOut`, with the request between them; the button is pressed
once at a time (a bound of the model). `Bookmark` has page and app watch one episode
at the same time; one unit of position is more than the ten seconds by which a seek
of the app may miss. The app also plays an offline copy (`local`), which begins at 0 and
asks nobody, and `ghosts` are the timers of screens left during their first seek.
`low`, a history, is how far back the bookmark may be by right: what an offline copy or
a ghost reports lowers it when it is reported, so that `BookmarkStands` names these
faults and still holds everybody else to account.

### Downloads

The app's tasks (a run of the queue, deletions, revalidate) interleave at every
await of Dart's single thread; each ends by writing the one index. `Only` is the
filter (`where`, `removeWhere`) of the code's lists. `spoilt` names
the episodes asked for again while something of theirs was under way.

### R2Upload

What the browser puts into the bucket and what the backend then writes into the
row. `ServedIsWhole` is never guarded by anyone: it follows from the order of the
calls. `mixed` records that a second transcode wrote over a ladder in use.

## 3. The runs

| Run | Question | Bounds |
|---|---|---|
| `refresh_single` | Is a lone client ever taken for a replay, stranded, or never renewed, when calls are served or lost as a whole? | 1 tab, 1 call, 4 tokens: the row holds two, the client two copies, so a fifth can never be told apart |
| `refresh_faults` | Does a refresh in progress revive a revoked session; does a client ask for ever? | as above, with every fault; one slot since an abandoned call keeps its slot until it is over |
| `refresh_two_tabs` | The first question for two tabs on one localStorage (**violated**) | 2 tabs, 2 calls, 6 tokens |
| `slots_parallel` | By how much do play calls served together overshoot the limit? | 3 sessions, 2 calls, limit 1: two over the limit needs a third session; 1 heartbeat on its way and 1 revoked session at a time, neither of which touches another's lease; the history `evicted`, which the property does not read, is left out of the view |
| `slots_return` | Do evicted and abandoned slots come back; does a patient viewer get in? | 2 sessions, limits 0 and 1 |
| `slots_resume` | Is the limit kept when a player falls silent and plays on? (**violated**) | 2 sessions, limit 1 |
| `pay_parallel` | Is anything unpaid granted, anything paid failed, a grant undone; how often is one payment granted; is what is paid granted in the end, through restarts and silence? | every processor, 2 requests, grants counted to 3, one more than the requests |
| `pay_double` | Is a payment granted once? (**violated**) | Stripe, 2 requests |
| `signin_codes` | How often does a code admit somebody, how many guesses and how many requests get past the limits; does the whole implement `OneTimeCode`? | 2 requests, 3 codes of which the third is only asked for, limits of 1 attempt, 1 an hour and 1 a day: each limit is crossed by a second request in flight. Where a number is not metered only asking for codes is followed. Ages: within the cooldown, within a code's validity, within the hour and the day, older |
| `side_by_side` | What each of nine components promises, checked alone | `DeviceCap`: 3 sessions, 2 sign-ins, cap 1, ages to 5 half intervals, one session at a time whose last write of `lastSeenAt` was lost; `PinSignIn`: limit 3, 2 requests, which both pass the last guess; `MasterCode`: limit 2, 2 codes, 2 admins; `DevBypass`: limit 3, counts to 4, 2 sign-ins, 2 pages; `Announcements`, `Catalogue`: 1 account, 1 handset, since no account's catalogue depends on another's; 2 announcements, of which those with a second change since they read the title are checked and not continued, nor are those with any after a restart; `SmsDelivery`: all five gateways, 1 change; `Secrets`: 3 calls, 2 values; `Subscribe`: 2 payments, 2 polls in flight, given up after more than 1 try (60 and 30 in the code): a second payment, and a poll that overtakes another |
| `ingest_slot` | Does a slot tell the truth, and is every unfinished video remembered? And what each of six clients promises, checked alone | Ingest: 2 requests, 2 videos, 2 transcodes: one writer, one that overtakes it, the video of each; the transcoder and Cloudflare come on top. States after a misplaced write are checked and not continued: the properties do not speak of them, and `TypeOK` there is proved. `WebSignIn`: 2 loads, 2 sessions (one from before, one to sign in to), 2 attempts, until who signed in is signed out again and nobody can sign in any more; `TitleEditor`: 2 requests, 2 texts, 2 images; `SettingsPage`: 2 tabs, 2 writes; `Downloads`: 2 episodes, 2 tasks, 2 jobs, until both episodes are `spoilt`: from there the property only speaks of the index, which is proved without that bound; `R2Upload`: 2 tabs, 2 names, 2 parts; `Bookmark`: page and app, 3 positions, 1 recovery (3 in the code): the one that is granted and the one that is not, 1 ghost; states with an open player in which the bookmark may be at 0 by right are checked and not continued, since `BookmarkStands` is silent until all players are closed. The theorems about the clients know none of these bounds |
| `ingest_settles` | Does every upload settle? | 1 request at a time, 2 videos, 1 transcode, every fault; the histories, which nothing else depends on, are left out of the view |

**Side by side.** `SideBySide` and `Clients` put several components into one
specification, with the constants of all of them; `SideBySideMC` and `ClientsMC`
add the symmetry and the bounds for TLC, and the `.cfg` files the values. A variable
`which` is chosen in the initial state and stays; the next-state relation takes
steps of the chosen component only, and the variables `x1` to `x8` are that
component's, by substitution. The reachable states are the disjoint union of the
components' own, so each invariant says exactly what it would say in a run of its
own; nothing is assumed about components in common. The theorems are about the same
specifications, with any values of the constants.

Each module has its inductive invariant beside its properties (`IInv`; `BInv` for
payments, `Accounted` on top of it for the ingest). TLC was used on all of them
while they were written; the runs check what they imply and the proofs check them.

`CHECK_DEADLOCK FALSE` is set where a bounded instance may really stop: every
session of the pool signed out for good (`slots_*`, `side_by_side`), a payment
nobody touches any more (`pay_*`), a number whose pool of codes is used up
(`signin_codes`).

### Fairness

No fairness is assumed of people, except where a property asks about someone who
keeps asking. Otherwise:

- *Handlers finish* (weak fairness): Node runs a handler to its end unless the
  process dies. A restart can kill every handler at the same await over and over
  in the model; where a request is repeated by its client, strong fairness of
  each step says that this does not go on for ever.
- *Networks that keep being tried let an answer through* (strong fairness):
  providers and Cloudflare are asked on every poll or page view and do not stay
  silent for ever. Flutterwave and Stripe redeliver what was not acknowledged,
  so their notifications are strongly fair; Yo, MoMo and DPO get no such
  assumption.
- *Time passes*: leases go stale, access tokens lapse and are renewed, ffmpeg and
  Cloudflare finish.
- `ingest_settles` assumes that somebody opens the title now and then, because
  that is when `syncStatus` runs; the webhook is not needed and not assumed.

## 4. The proofs

All proofs are checked by TLAPS from the assumptions on constants stated in the
modules (finiteness of the sets of sessions and handlers, distinctness of the
null values, ranges of settings; for SMS, that gateways are some of the five). Every
safety property the passing runs check is the subject of a theorem, for every
value of the constants (under the conditions named below where a theorem has any).
Counts are handled in one way: to what has been counted is added the cardinality of
the set of those that may still count, and lemmas about adding an element to a
finite set and taking one away do the arithmetic.

**RefreshRotation.** `TypeCorrect` under every fault. `ReplayNeverLegitimate` and
`LostAnswerStrandsNobody` for one tab whose calls are served or lost as a whole,
for any number of tokens, however often answers are lost or the backend
restarts. `NeverMistakenForReplay` is not inductive: it says nothing about what
a call in flight has read. The invariant `IInv` adds that the stored token is
the current one or the one in grace (`TokenHeld`), that there is at most one call
and what it has read is still so (`CallSound`). `EndedForGood`, an action property, holds under
every fault and for any number of clients: the writes of a refresh in progress go by
id, to a session that may have ended since, but each names its columns and none of
them is `revokedAt`.

**DeviceCap.** `TypeCorrect`; `OvershootIsBounded`: k sign-ins served together
overshoot the cap by at most k - 1 and repeating it does not add up;
`OneAtATimeWithinCap`. The difficulty is that a handler may revoke a list it read
long ago and find nothing left on it. `RoomReserved` quantifies over every set of
handlers about to revoke: carry out their lists, and what stays active together
with the handlers that would add a session without removing any is within the
bound. Reading adds a list as long as the surplus, creating uses up one place.

**StreamSlots.** `TypeCorrect`, `OvershootIsBounded` and `OneAtATimeWithinLimit`, for
any number of sessions, handlers and any limit, and with no assumption about
heartbeats. `SlotsReserved` counts, with the leases that stayed alive since they were
counted (`Counted`), the sessions whose lease is about to be written. A revived lease
was counted by nobody, and is what the theorems leave out: how many there may be is
bounded by nothing but the number of sessions (`slots_resume`).

**PaymentConfirmation.** `TypeCorrect` under every fault; `NothingGrantedUnpaid`;
`GrantsAreBounded` (k requests grant at most k times), `PaidNeverFails` and
`GrantNeverReopened` where the processor's verdicts are final, none has gone astray
and the rate is fixed (`Final`);
`OneAtATimeGrantsOnce` and `OneAtATimeStatusTells`. `PInv` says that only what was
paid gets as far as a grant, or what its two exceptions name (`Backed`: a Stripe session
complete before its money, a Yo payment confirmed by another transaction); `BInv` adds that only what was declined gets as far
as a failure and that grants made plus grants still coming stay within the
number of handlers; `SInv` that a lone handler knows the status as it is.

**VideoIngest.** `TypeCorrect`, `ReadyTells` (`ReadyHoldsVideo`) and `PendingTells`
(`PendingIsEmpty`) under every fault, for any number of requests, videos and queued
transcodes. What the two properties say of the slot depends on what the requests
in progress believe, so `IInv` adds three parts. `RequestsSound` holds whatever
happens to the slot: a request knows its video, and one that is to be marked ready
has been encoded. `SlotSound` is the slot by itself, and `WritersSound` says that a
request, or the newest transcode, that has not been overtaken is still right
about it. The last two hold until `misplaced`. The proof sorts the actions by
shape: a request that reads or talks to Cloudflare, one that writes by episode
id, a verdict written by uid, a transcode that writes. A lemma for each shape
carries the argument, and each action is an instance of one.

`NoVideoForgotten` (`NoOrphan`) follows a video from its creation to the row. `Referred`
says that an unfinished video is the row's or in the hands of a request that is
about to write it there; `NoOrphan` alone allows any request to hold it, and that
request may end. Whoever replaces what is on the row must first have disposed of
it: `Disposed` says, of each request that was not overtaken, that it holds the row's
video or that what the row refers to is not unfinished (`Settled`).

**SignInCodes.** `SignInsBoundedHolds`, `GuessesBoundedHolds`,
`OtpLimitsHoldAlways` for any number of requests, codes and any limits, and
`RefinesPromise`: the specification implements `OneTimeCode`. `IInv` counts for each
code the verifications that may still sign in with it (`Holders`) or be charged for
it (`Guessing`) together with those that have; for the limits, the requests that
passed them and have stored nothing yet (`Granted`). Reading a code adds to one
side, entering or charging moves across.

**DeviceCap** has one more: `ActiveNeverLooksStale`. A session in use looks at most
two intervals old: one for the map in memory, one for the predicate on the row.

**SideBySideProofs** and **ClientsProofs** prove the invariants of the components
checked side by side. Each has the same shape: lemmas say that one component's
invariant holds initially, that each of its actions keeps it, and that it implies the
property; the theorem carries `which = "..." => IInv` through `MCSpec`.

- *Catalogue*. `SpellingsAgree`: the four spellings of the audience rule admit the same
  titles. `OneCatalogueHolds`: what a page being served has read is still so
  (`ReadsCurrent`), as long as nothing changed and the reader is known.
- *Secrets*. `CacheIsCurrent`: what a call read or wrote is the row unless the row
  changed since (`over`); what is cached is the row unless it was overtaken.
- *PinSignIn*. `PinGuessesAreBounded`. The limit is 5 for one request at a time. Requests
  served together overwrite each other's counts, and a late write may even take off
  a lock, so there is no number of failures on the row to count guesses by. The
  proof orders the *tallies*: for each count below the limit, how many requests hold
  no more than it. A write carries its count one up, which moves the tally forward
  in the lexicographic order, and nothing moves it back before the lock stands for
  its time. So no tally occurs twice, and every guess but those not written yet used
  one up (`GuessesTallied`). With H requests and limit N there are
  (N + H over H) tallies, so at most (N + H over H) - 1 guesses: N for one request, and
  N * (N + 3) / 2 for two.
- *MasterCode*. `MasterGuessesAreBounded`. A guess is charged to whatever code is active
  when the charge is made. `Charged` counts for each usable code the guesses charged,
  those on their way, and one batch of requests for every code issued after it and
  left live beside it (`Rivals`); a single admin leaves none (`AloneReplaces`).
- *DevBypass*. `BypassGuessesAreBounded`: every guess is counted or about to be, as long
  as the bypass can be guessed at at all. `PanelIsLive`, from the stronger
  `OffMeansDead`: failures do not keep the row from answering for good, since a right
  code in flight resets them, and what is on its way to a page counts like what the
  page shows.
- *Announcements*. `AnnouncementsAreBounded`: each announcement served together counts
  once from the moment it found the title unannounced; while the title is still
  unannounced, all of them since the last restart are on their way to the mark.
  `PushedOnesMayOpen`: what an announcement carries comes of the world as it is
  (`Carries`), or, after one change, of a world of which that is known (`Before`): one
  that differs from the present in one of title, mode, accounts and handsets only
  (`OneApart`), and whose openers are the history's. Since a reading changes one of
  those at most from the old to the new, the openers it arrives at are those of
  either world.
- *SmsDelivery*. `AnswersTell`: a gateway that reaches the number and was configured all
  along has been tried or is still in the chain, and no other is tried
  (`ChainHolds`); whoever has the message while the chain goes on did not say so
  (`TakenUnheard`).
- *Subscribe*. `WhatIsToldHolds`. A payment that is not doubtful and may have been paid
  is a *hope*: there is one at most (`OneHope`), it is being asked for or waited for
  (`HopeKept`), and where a page or the browser is used nothing can be begun beside it
  (`HopeNewest`). That the screen shows a failure only if there is none follows.
- *WebSignIn*. `SignInsStand`: a refresh in flight that is not `late` was sent for the
  session kept, and that has not ended, so it cannot be refused (`SentForKept`,
  `KeptLives`). The end of a logout forgets whatever is stored, and ends what the
  theorem promises.
- *TitleEditor*. `WhatIsShownIsStored`: a load that nothing overtook has read what is
  stored; a save that nothing overtook carries what is shown.
- *SettingsPage*. `ChoicesStand`: of the writes a tab has in flight, its last choice is
  the one it shows.
- *R2Upload*. `ServedOnesAreWhole`: every name on R2 has one user - a tab, the queue, the
  transcoder or the episode (`OneUser`), so that whoever deletes or overwrites a name
  does not touch what the episode holds; and a tab about to register has sent all
  parts (`TabsSend`).
- *Bookmark*. `BookmarksStand`: what each player may yet report, or begin from, is no
  further back than `low` (`Kept`), an offline copy apart, which lowers it by reporting.
- *Downloads*. `AppListsWhatPlays`: there is one run; an episode that is not `spoilt` is in
  the queue, or at work, or listed, and only once; it has its file from before it is
  listed until after it no longer is (`OneOfEach`). A writer of the index that is
  alone writes what is listed, or whoever changed the list since is still to write
  (`IndexFollows`).

Two definitions of the code were chosen so that they can be reasoned about. The
chain of gateways is a first one and a set, not a sequence: a set shrinks by one
try, and nothing depends on more of the order than whose turn it is. The filter
`Only` of `Downloads` is a recursive function over the indices of a list. That such a
function exists (its definition is a `CHOOSE`) and what it returns are inductions over
the length; they are carried out by a least counterexample, because the induction
theorems of the library take an operator as a parameter.

Out of reach of the prover, and checked by TLC only: liveness (`RefreshSucceeds`,
`RefreshSettles`, `EvictedSlotReturns`, `PatientViewerGetsIn`, `NotifiedPaymentGranted`,
`PolledPaymentGranted`, `UploadSettles`): it rests on fairness, and so on ENABLED.

## 5. Disagreements between the code and what it says

Three runs end in a counterexample; `PROJECT.json` quotes the lines.

- `refresh_two_tabs`: two tabs share localStorage but not `refreshInFlight`. Tab 1
  rotates the token, tab 2 rotates with the token in grace; tab 1's second token
  is then known to neither column, and its next refresh revokes the session as a
  replay, against "a legitimate client cannot reach this state".
- `slots_resume`: a heartbeat revives a lease that went stale and whose slot was
  given away, without counting again. A page on pause for over a minute is enough.
- `pay_double`: the status is read before, and outside of, the transaction that
  grants; a poll and a notification both grant.

Further behaviour met while modelling, for which there is no run of its own:

- Refresh: a handset that gave up a call which is served late may meet its own
  replay; a cookie outlives a rewind; a legacy client whose upgrade answer is lost
  is stranded.
- Slots: play calls served together overshoot the limit (bounded, see above); an
  evicted device may take a slot again while its access token lasts. A player of the
  app that is left while it is still seeking goes on reporting (see watch progress
  below); should the release of its slot be lost too, the slot stays taken until the
  app is closed, which `StreamSlots` does not follow: its players are silent once they
  are left.
- Device cap: sign-ins served together overshoot it (bounded); a lost write of
  lastSeenAt is made up only after an interval, not by the next request.
- Payments: a stale Flutterwave failure may be written over a grant (excluded
  from `GrantStands` by name); a MoMo prompt whose reference was not stored before
  a crash is polled by nobody; a lowered STRIPE_UGX_PER_USD makes a paid session
  look underpaid; a Stripe session that completes before its money arrives is
  granted by the event, hence the first exception of `NothingGrantedUnpaid`. A Yo
  payment whose reference is not stored yet, or never will be, is confirmed by whatever
  transaction a notification names (payments.service.ts:352), against "the notification
  only tells us which transaction changed" (line 340): the second exception. And one
  passing error of DPO's verifyToken puts a pending payment down as failed
  (dpo.service.ts:127); since only pending ones are asked about (payments.service.ts:256),
  the money that arrives afterwards is never matched. `PaidIsNotFailed` and
  `PolledPaymentGranted` hold until then (`astray`).
- Ingest: a transcode runs with an empty-looking row, so an import or a cancel
  during it is overwritten when it ends, leaving a slot that says ready with
  nothing to play; the reset in syncStatus may empty a slot that was filled
  meanwhile; a cancel may delete a video that became ready after it looked; a
  sweep may delete an import between Cloudflare's answer and the row. The first
  two are what `misplaced` excepts; the last two show as a row whose video is
  `"lost"`. An upload that a stale page starts on a self-hosted row keeps
  `videoProvider` as it is: the slot of a dead transcode then turns ready with a
  Cloudflare video that nothing plays, since `gateForViewing` looks for the ladder
  (episodes.service.ts:40-44). `misplaced` excepts that too.
- Account deletion: a sign-in that has read the account creates its session after
  the deletion removed them all, though auth.service.ts:165 counts on "its
  sessions are gone".
- Sign-in: verifications of one code served together all sign in (bounded); the
  tokens of a sign-in that stopped at the PIN prompt may have expired by the time
  the form uses them; the cookie is set while the prompt still "holds back" the
  session; the busy flag does not stop "I already have a code"; a logout races a
  load or refresh in flight, whose answer may bring tokens or `me` back. The other
  way round, it forgets the tokens only when the server has answered
  (auth-context.tsx:94-96), and with them those of a sign-in that completed in the
  meantime; `LoginStands` excepts that.
- Bypass: `configure` writes the row and then refuses, so that what was refused
  comes alive with the next save. A page whose change was written and not answered,
  or that another admin's page has overtaken, may show the bypass off while it
  answers, until it is loaded again (dev-bypass-panel.tsx:44-64).
- Catalogue: OptionalJwtGuard refuses nobody, and the app renews an access token only
  when it is refused (optional-jwt.guard.ts:46-72, api_client.dart:90), so that after 15
  minutes in the background a tester is shown the ordinary catalogue until a guarded
  request comes along, against "the phone app, which sends its token, correctly showed
  them everything". The hint is "Refreshed on every token refresh"
  (auth.controller.ts:62), but what a refresh returns does not name the user
  (auth.service.ts:640-646), so it becomes "live" for testers too
  (auth.controller.ts:230); the session's own lookup makes up for that, other than for
  tokens of the old form and for sessions that were ended.
- Announcements: the title, the mode, and the handsets are read one after the other
  (notifications.service.ts:61-94). With two changes between the readings - a title is
  withdrawn after it was read, and the mode then goes from test to live before that is
  read - everybody is told of a title that no ordinary viewer could open at any moment,
  against "Only the handsets that could open it" (line 77); `PushedMayOpen` stops at
  one change.
- SMS: `isConfigured` leaves out Route Mobile though the comment above it says
  "any gateway" (sms.service.ts:198-207); with Route Mobile alone configured,
  `requestOtp` takes codes for free, skips all limits and sends them all the same
  (auth.service.ts:187-195), which is why `OtpLimitsHold` speaks of metered numbers only; the Twilio and Africa's Talking gateways do not
  catch a failed fetch, so the chain is abandoned rather than continued.
- Credentials: a get that was overtaken by a set fills the cache with the old value
  until the next set or restart. The page cannot clear a credential: it leaves
  blank fields out.
- Title editor: emptied fields stay stored (`|| undefined`); unsaved edits are lost by
  any load; the season input does not reset `numberTouched`, though the comment
  says so (lines 137-138); `uploadFile` does not retry a 401.
- Settings: a company form loaded before the launch saves `catalogueMode` "test"
  back; the page's text still sends admins to .env for credentials it sets itself
  (lines 516-518).
- Downloads: two writes of the index may overlap; a cancel while a download is being
  prepared or paused does not stop it; a file may be left without an entry.
  An offline copy of a rental is valid for 30 days whatever is left of the rental
  (episodes.service.ts:136-143).
- Paying: on the subscribe page a late answer about an earlier payment clears the
  newer payment's interval and shows its own outcome (`pollRef` and `momoWait` are
  shared); giving up after 60 tries says "not completed" while the prompt may still
  be approved, and offers another payment; `payByCard` has no catch, so that a
  failed checkout leaves the buttons disabled; the app does not disable its buttons
  while a checkout is out, so that a double tap starts two payments; a cancelled
  checkout is shown as failed without being asked about; a late answer takes the
  callback page back from "confirmed". Where they touch what a screen says, `doubtful` excepts them.
- Watch progress: a source that dies before its metadata is there reports 0, and the
  page resumes there (watch-player.tsx:102, against the comment at 141-144); a seek
  of the app that misses three times plays from the start and saves that, against
  "can never overwrite" (player_screen.dart:206-235); an offline copy begins at 0 and
  reports when it is paused, covered or left, against "saves no progress"
  (player_screen.dart:24-27, 324-331, 411-412), so that watching the first minute of a
  download takes the bookmark there; a screen left during its first seek still sets
  up its timer, after `dispose` has cancelled the one that was not there yet
  (player_screen.dart:186-193, 416), and goes on reporting where it was until the app
  ends; the tile of "continue
  watching" is as old as the home screen and overwrites what another device
  reported since; the app reports every 15 seconds even while paused; `resumeAt`
  ignores `completed`; the web player's pause report does nothing
  (watch-player.tsx:171-175).
- R2: objects are left behind by lost answers, closed tabs, failed ladders (whose
  other workers go on) and restarts, and nothing collects them; all transcodes of
  an episode share one prefix, so a second one writes over a ladder in use; a
  transcode's end does not set `videoProvider`.

## 6. What is not modelled

- One instance of each thing: one account, one number, one session's token, one
  payment, one episode slot, one title. Rows of different accounts do not interact
  in the code modelled.
- Time is an order of events and the crossing of thresholds, never a clock.
- Cryptography is taken to work: hashes match what they were made from, signatures
  cannot be made up.
- The processors, the gateways, Cloudflare, R2 and the customer are modelled from
  how the code uses them and marked external.
- The entitlement check (`entitlements.service.ts`) is a pure function of rows read
  at the moment of asking, the HLS token (`hls-token.ts`, the R2 worker) one of the
  request; neither keeps state that anything could race.
- SMS: the wording, each gateway's request format, and numbers that cannot be
  parsed. Downloads: bytes, validity dates, progress. R2: what deletes a ready
  episode. Titles: the ranking of search, the counting of views.
- Pure I/O and views: thumbnails, TMDB, statistics, the activity log, plans, genres,
  kinds, the user list, the other screens and pages, scripts. They read, or write
  single rows nothing else depends on.

## 7. What could come next

1. `DeviceCap` and `StreamSlots` composed over one account, sharing the eviction; and
   `WebSignIn` over `RefreshRotation`, which it now abstracts to "granted or
   refused".
2. `PaymentConfirmation` refined to an abstract "paid, then granted", for requests
   served one at a time.
3. Recovery in `R2Upload` and `Downloads`, once the code has any: a sweep of the
   bucket, an orphan check of the files.

Bounds as above: two handlers and one more of whatever they compete for. Where a
new run asks what an older one can answer with one more conjunct, the two are
merged.
