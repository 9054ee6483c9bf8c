# roomard in TLA+

TLA+ specifications of [roomard](../src/README.md), a hotel guest-intelligence
platform: Fastify services in TypeScript over one PostgreSQL database, an API
gateway, an AI gateway and a React client. The modules here are translated from
the code under `src/` (paths below are relative to `src/`), model-checked with
TLC on small instances and, where it says so, proved with TLAPS for every value
of the constants. `PROJECT.json` maps every definition to the lines it stands
for, and lists the components, the runs, the hazards and the theorems.

## 1. The system

| component | state | operations | hard behaviour | what makes it correct |
|---|---|---|---|---|
| auth-svc: refresh tokens (`services/auth/src/service.ts`) | `refresh_tokens` | login issues, refresh rotates, logout revokes | concurrent transactions, row locks, a bounded connection pool | a login never owns two usable tokens; a revocation is complete; a rotation is all or nothing; every request is answered |
| auth-svc: password login and MFA | `users.failed_login_count`, `locked_until` | passwordLogin, verifyMfa | the counter is read before bcrypt and written after | no lock before enough failures; a lock outlives the attempts it is there to stop |
| audit-svc and triggers (`0011_audit.sql`, `0014_audit_triggers.sql`, `services/audit`) | `audit_events`, a hash chain per tenant | trigger on every write, verifyChain, queryEvents | concurrent transactions chain to the same event; events of a transaction share a timestamp | an untouched log verifies; whoever holds a hash finds out every change before it |
| capture-svc (`services/capture`) | captures, evidence, preferences, photos in an object store | capture pipeline | object store outside the transaction; check-then-insert of preferences | a card adds a preference once; nothing unconfirmed or lost; evidence with photo and item |
| exception-svc (`services/exception`) | `exception_queue_items` | list, patch, resolve | repeated and concurrent resolutions, cursor against order | a resolution adds what was confirmed and never twice |
| guest-svc (`services/guest`) | `guests`, `stays`, `issues` | create with its duplicate check, patch, search, say-this, complaint trajectory | check-then-insert; a model that fails while a verdict is made | no second guest for an e-mail a POST could see; a real trajectory is never masked |
| ingest-svc: PMS webhook (`services/ingest/src/server.ts`) | `guests`, `stays` | POST /webhooks/mews | deliveries twice and out of order, racing guest-svc | its rows keep to the rules of guest-svc, whatever the order of deliveries |
| ingest-svc: review poller (`services/ingest/src/review-poller.ts`) | `reviews`, `integrations.last_polled_at` | poll, link a review to its guest | a watermark beside concurrent polls; a loop inside one transaction | no review falls behind the watermark |
| brief-svc (`services/brief`) | `briefs`, `brief_items`, `housekeeping_prep_cards` | generate, regenerate, show, complete | concurrent and partial generation, bookings that change meanwhile | a brief is of one generation; cards land all or none; a completed card is not lost |
| ai-gateway (`services/ai-gateway`) | call log, prompt cache, access token | invoke, caps, prompts | check-then-act on spend; caches read before an await and used after it | nothing stale is sent; a cap is not exceeded (as the schema stands it never closes, section 6) |
| lists with cursors (guest-svc, audit-svc, exception-svc) | none | search, queryEvents, list | rows come and go between pages; a cursor coarser than its column | nothing twice, nothing that was there all along left out, but for one millisecond |
| packages/db | pool, settings of a connection, `_migrations` | withTenantContext, migrate | a best-effort reset, a crash between two commits, several runners | no statement under another tenant; no migration over a hole |
| web client (`apps/web/src`) | session store, IndexedDB queue | apiFetch, refresh, capture form, replay | single flight, logout during a refresh, overlapping replays, reloads | a refresh token is sent once; a promised capture is never lost, a replay attends to what it lists, and what is queued arrives (it does not: section 4) |
| tenant-svc, api-gateway, permissions, pages, schemas | none beyond a table each | see section 6 | | |

Services call each other through the gateway or share tables; each request runs
as one Node callback chain, so interleaving happens at every `await`. All
persistent state is in PostgreSQL under READ COMMITTED, so what matters is the
order of statements and commits of concurrent transactions and the row locks
between them. Hazards with their lines are in `PROJECT.json`.

## 2. Plan

The modules were written in this order, from the most intricate protocol to the
parts that share least with the others; each was model-checked first, and
proved about once TLC agreed:

1. `RefreshTokens` with the abstract `OneTimeTokens`, `RefreshTokensProofs`.
2. `LoginLockout`, `LoginLockoutProofs`: failed-login counter, lock, MFA step.
3. `AuditChain`, `AuditChainProofs`: the chain that triggers build in concurrent
   transactions, and its verification.
4. `CaptureReview`, `CaptureReviewProofs`: capture pipeline and exception queue
   over the shared preferences.
5. `Guests`, `Briefs`, `PrepCards` and their composition `Arrivals`,
   `ArrivalsProofs`: what the bookings become while they change.
6. `ReviewPoller`, `TenantContext`, `WebClient`, then `AiGateway`,
   `GuestInsights`, `Migrations` and `Paging`, small protocols around one await
   each. `MCServices` checks them; `DatabaseProofs` (`TenantContext`,
   `Migrations`, `Paging`), `WebClientProofs` and `ServicesProofs` (the others and
   `MCServices`) prove about them.

What is left is listed in section 6, with the reason. Every invariant and every
action property that a run checks has a theorem (section 5). Worth doing next: an
abstract profile, to which each card adds its preferences in one step, for
`CaptureReview` to refine; and the composition of `WebClient` with
`OneTimeTokens` as what the service promises a client.

## 3. Modules

### RefreshTokens, OneTimeTokens

`RefreshTokens` has one action per database round trip of `passwordLogin`,
`refresh`, `logout` and `issueTokens`:

| state | code |
|---|---|
| `refresh_tokens` | the table of `0003_users_roles.sql:92`; a row is `free` (not inserted), `inserted` (its transaction has not committed), `live` or `revoked`. `parent` and `session` are history: the code passes the replaced token to `issueTokensWithinTx` and drops it |
| `active` | users whose `status` is `'active'`; other services change it (`Deactivate`) |
| `expired` | tokens whose `expires_at` passed (`Expire`, at any time) |
| `clock` | the milliseconds `new Date()` gives `issued_at`; two inserts may share one |
| `req` | the local variables of each handler and the `await` it has reached |

| action | code (`service.ts`) |
|---|---|
| `LookupUser`, `IssueTokens`, `CommitTokens` | `passwordLogin` and `issueTokens`: look up, BEGIN + INSERT, COMMIT |
| `Refresh` | `connect()` and BEGIN (175-177) |
| `RefreshNotFound`, `RefreshReuse`, `RefreshExpired`, `RefreshValid` | the outcomes of SELECT ... FOR UPDATE (185-203), once `LockToken` has the row |
| `LookupUserById`, `IssueSuccessor` | 206-211: two queries through the pool while the first client is held, and the INSERT |
| `Rotate`, `CommitRotation` | the UPDATE with its sub-select (212-217) and COMMIT |
| `RevokeChain`, `LogoutAllDevices`, `LogoutToken`, `RevokeRow`, `CommitRevocation` | the three `UPDATE ... WHERE revoked_at IS NULL`: snapshot, one step per row visited, COMMIT |
| `StatementCancelled`, `ConnectionLost` | ROLLBACK (220-225) after `statement_timeout`, a deadlock or a broken connection |

Row locks are PostgreSQL's, modelled from how the code uses them: a statement's
snapshot holds what was committed when it began; an UPDATE waits for each row it
found and evaluates its WHERE again on the newest version; FOR UPDATE conflicts
with everything, the foreign key of `replaced_by` takes FOR KEY SHARE. Which
locks a request holds is a function of how far it got, so there is no separate
lock table to keep consistent. An autocommitted logout is its statement plus its
commit. A request's tokens are ids; hashing, JWTs and the session's permissions
are data no property depends on. A client presents any committed token, its own
or an old one, or one no row has (`NoToken`).

`OneTimeTokens` is what a client may rely on: a token is opened once, exchanged
or revoked once, and an exchange is a single step. `Ledger` maps the table to it
(`live`, `spent`, `price`), and `ImplementsOneTimeTokens` is the refinement.

### LoginLockout

One user's row and the requests of `passwordLogin` and `verifyMfa`, one action
per await: the lookup with its checks (`LookupNobody`, `LookupRefused`,
`LookupUser`), bcrypt (`ComparePassword`), the UPDATE of the counter
(`RecordFailedLogin`, `ClearFailedLogins`), the MFA token (`PresentMfa`), the
code (`CheckCode`) and the session (`IssueSession`, detailed in
`RefreshTokens`). Neither handler opens a transaction around what it reads and
writes, so a handler carries the counter it `seen` and the lock it computed from
it (`until`) across the await and overwrites the row with them.

What still holds under any interleaving: no lock before `MaxFailed` recorded
failures (`LockNeedsFailures`), only logins already past the check can succeed
or lift a lock (`LockStopsNewcomers`), an exact count as long as logins do not
overlap (`SerialCountExact`), and no session of an MFA user without a right
password before it (`MfaNeedsPassword`). What does not hold, and is not stated:
the counter can go backwards, so `MaxFailed` failures lock only when they do not
overlap; a late failure may overwrite a lock with NULL; `verifyMfa` looks again
neither at the status nor at the lock, and its token works any number of times
until it expires.

`overtaken`, `failures` and `overlapped` are history variables: no action reads
them.

### AuditChain

The audit log of one tenant. `Emit` is an audited write: the AFTER trigger of
`0014_audit_triggers.sql` inserts the event, the BEFORE INSERT trigger of
`0011_audit.sql` chains it to the last event (by `occurred_at, id`) that its
statement can see. `occurred_at` is `now()`, the start of the transaction, and
ids are random: the model lets a transaction take any free id. `Commit` and
`RollBack` decide about all of a transaction's events. Digests are taken to be
injective, so a hash is represented by what went into it (`Digest`): the id, the
hashed columns (`intact` and the time) and the hash before. `VerifyChain(from, to)`
is the answer of `GET /v1/audit/verify`, an operator since it changes nothing.

`AlterColumn`, `AlterLink`, `Rehash` and `Remove` are not operations of the code:
triggers and grants forbid them. They stand for what verification is there to find
(a restored backup, an operator with the triggers disabled), and `MaxChanges` bounds
them. The digest has no key, so `Rehash` computes both hashes of an event anew as
the trigger would, and a log rewritten with care from some event to its end verifies.
What verification still gives is for whoever noted one hash (`HoldHash`) while the
log verified: `HeldHashDetects`, the claim of `docs/adr/004-audit-chain.md:49`.
A removal in the middle with nothing else done shows without a held hash
(`RemovalDetected`). The columns the digest omits are left out, see section 6.

An untouched log does not always verify (`HonestLogVerifies` is violated): two
events of one transaction share `occurred_at`, and the second sorts before the
first when its random id is smaller. `OrderlyLogVerifies` says when it does:
transactions did not overlap and each event sorts after those before it, which
the history variable `disorder` records.

### CaptureReview

The preference cards of one guest. A request of `POST /v1/captures` or
`PATCH /v1/exceptions/:id` is one transaction; `req[t].at` is where it stands.

| state | code |
|---|---|
| `objects` | photos in the object store, which no rollback removes |
| `evidence` | status of `evidence` per capture, once committed |
| `exception` | `exception_queue_items`: status, `payload.fields`, the transaction that holds the row; `confirmed` is history |
| `prefs` | `preferences`: `pending` rows are inserted and not committed; `added` is what the holder's UPDATEs put on top of `reinforcement_count`; `source` is the row of `preference_evidence` |
| `persisted` | history: how many committed fields named each preference |

| action | code |
|---|---|
| `PutPhoto`, `Recognise` | `pipeline.ts:59-190`: photo, evidence row, answer of the AI gateway |
| `Patch` | `ExceptionRepo.patch` up to the decision to persist; its UPDATE takes the row lock, so it waits while another patch holds the item |
| `StartUpsert`, `Reinforce`, `Reinforced`, `InsertPreference` | the statement `WITH upsert AS (UPDATE ...) INSERT ... WHERE NOT EXISTS`, which both services share word for word: its snapshot, one step per row it locks and updates, and its INSERT |
| `Commit`, `Fail` | the end of `withTenantContext`; what the transaction wrote into `evidence` and `exception_queue_items` appears at the commit |

A reading is a sequence of fields, each a preference (`kind` and `lower(detail)`)
and whether its confidence reaches 0.75. The rows a guest may start with have no
evidence (seeded). A preference's other columns and the link's weight are left
out. In PostgreSQL's READ COMMITTED a statement sees what was committed when it
began and its own transaction's writes (`Matching`), and waits for a row another
transaction has updated (`MayLock`).

Worth knowing, and not stated as properties: two different cards accepted at
once can each insert the same preference, since no unique index stands behind
the check; then each later card reinforces both. That is why
`NoLostReinforcement` is about preferences with one committed row (`Alone`) and `OneRowPerEvidence`
about one card. Fields patched into an item after its resolution are not
persisted until it is resolved again; resolving again counts a reinforcement
again; evidence whose item is resolved or dismissed stays `pending`. A capture
that fails after `PutPhoto` leaves its photo behind.

### Guests, Briefs, PrepCards, Arrivals

`Guests` is the two tables that guest-svc and the webhook of ingest-svc share.
`FindDuplicate` and `InsertGuest` are the SELECT and the INSERT of a create,
which nothing makes one step (no index on the e-mail); `PatchGuest` is one
UPDATE. A webhook is its authentication and schema (`SecretMissing`,
`Unauthentic`, `InvalidPayload`, `UnknownProperty`), the SELECT of the guest
(`FindGuest`) and, since nothing of them shows before the COMMIT, the rest as one
step (`UpsertStay`). `GuestInit`, `GuestNext` and `GuestSpec` are its behaviour
alone. `edited` and `seen` are history.

`Briefs` generates a day's brief: `CheckExisting`, `UpsertGenerating`, which takes
the row's lock for the whole transaction, `LoadArrivals`, `WriteItems` after the
AI's answer of any guests in any priority, `GenerationFails`. A reader does two
SELECTs (`ReadRow`, `ReadItems`). `brief_items` is the set of its rows; the order
in which the code sorts the answer is kept where the code keeps it, in
`sort_index`: the number of places that come sooner, by priority and among equals
as given. `PrepCards` is one transaction that loops over
stays (`LookForCard`, `UpsertCard`, `StayFails`, `RestFails`, `CommitPrep`), and
the completion of a card. Each has the stays of its day as a variable or, in
`Arrivals`, as what `ArrivingOn` selects from the table that `Guests` writes.
`Arrivals` interleaves all their requests statement by statement.

Worth knowing: an error of one stay aborts the transaction while the loop goes on
in it, so a generation answers 201 with nothing written (`PrepAllOrNothing`); the
webhook's INSERT of a guest names a column `email` that migration 0005 does not
have, so a delivery for a guest unknown to the PMS id always answers 500; a
brief regenerated on a day without arrivals keeps its old items, which are then
of an older generation and its arrivals (`BriefIsOneGeneration` is about that
generation, not about today).

### AiGateway

A call of `invoke`: the caps over the log (`EnforceCaps`), the cached access token
(`TokenArrives`, `TokenRefused`), the cached prompt (`ReadPrompt`, `StorePrompt`,
`PromptLookupFails`), the provider (`ProviderAnswers`) and the row of the log
(`LogCall`). Time is kept as ages and remainders: `Tick` is bounded by what is
awaited, so a provider answers within `LatencyMax` and the database within
`QueryMax`, and `TimesAssumption` says that these together are within the margin
of 60 s the code takes from a token's life, which is far shorter than that life
(30 days). A cap that cannot be read refuses the call, before the block that logs it
(`CapsUnread`). `LogCall` may be refused: the INSERT names no `template_name`, which
is NOT NULL, and its error is swallowed, so as the schema stands no row is counted
and a cap never closes, against `index.ts:26`. A bound on how far concurrent calls
overshoot a cap would be one on rows, not on calls, so no property states any; the
properties are about the two caches, and hold whether rows are accepted or not.

### GuestInsights

The two answers guest-svc asks a model for. `ReadGuest`, `ReadPreferences` and
`ReadIssues` are its statements, `SayThis`, `SayTrajectory` and the failing
variants what it makes of any answer or of none; issues, preferences and the
guest change meanwhile. An answer is a shape: one of them, `null_text`, is an object
whose `rawText` is the JSON text `null`, which `parseReasoningOutput` parses and then
dereferences outside its `try` (`service.ts:561-569`). The request is then a 500,
against the comment at :503, and `TrajectoryNotMasked` excepts it by name (`answer`
is history). The gateway wraps only what is not JSON, so only a model that itself
replies such an object gets there.

### ReviewPoller

`POST /v1/reviews/poll` of several properties at once, one action per statement:
`Begin` fixes `now()`, `GetLastPolledAt`, `Fetch`, then `UpsertReview` and
`LinkReview` per review, and `CommitPoll`, which moves the watermark. The unique
index makes an INSERT wait for another transaction's row (`Unsettled`). The row
of `integrations` it moves is chosen by tenant and kind only, so it may be
another property's; `foreign` records that. The adapters of the repository are
stubs; `Newer` is the promise of the interface they implement.

### TenantContext

The clients of the pool and the calls that borrow them. `withTenantContext` sets
its settings for the transaction, `withReadOnlyTenantContext` for the session and
resets them in a `finally` that swallows errors; `IsLocal` is the third argument
of `set_config`. Two settings stand for six: one that is always set, and one that
is set only when the request has it. Any statement may fail (`Throws`) and a
connection may break at any time (`Breaks`).

### Migrations

`migrateUp` and `migrateDown` by several runners that crash anywhere. A file
commits itself (`ApplyFile`) before its row is written (`RecordFile`). A file that
finds its objects there fails (`FileFails`) and ends the run, which is what
keeps order. Files may be edited between runs (`EditFile`). Only the last file,
`0017_app_role.sql`, comes with a `.down.sql` (`ReversibleAssumption`), and order
rests on that: while one runner is about to record a file, another that reverts
the one before it would leave a hole.

### Paging

The three lists with a cursor. `NextPage` returns the first rows beyond the cursor;
the order compares microseconds while the cursor holds milliseconds; rows come
and go (`RowComes`, `RowGoes`). Of the exceptions, ordered by severity under a cursor of
time, nothing is promised but that the cursor's milliseconds never grow.

### WebClient

The page, with one action for what JavaScript does between two awaits. The form
and each replay are actors of one machine: a call leaves (`Submit`, `Query`,
`ReplayNext`), is answered (`Answered2xx`, whose answer may be lost after the
service stored the capture, `AnsweredError`, `Answered401`), waits for the one
refresh under way (`RefreshAnswered`, `RefreshFails`), and ends in the queue
(`Enqueue`), with the removal of its row (`RemoveCapture`) or with a counted
attempt (`GetRow`, `PutRow`: two transactions of IndexedDB). A page on which no component uses the replay hook has its replays `absent`; one that mounts it,
as the hook's test does, has them `idle` at first. The initial state chooses, and the
page as built is the first.
`resent`, `promised` and `stored` are history or the service's side. The attempts
of a capture have no bound: replays that overlap each pass the check before any
of them counts, and put back rows that others have removed. With three replays
and `MaxAttempts` of two, TLC reaches five attempts.

Worth knowing: two replays that overlap upload a capture twice, and one may put
back the row the other has removed; a refresh answered after a logout stores its
tokens and so signs the page in again; a page opened while a refresh is under
way may send the same token again, which the service takes for theft.

### MCServices

These seven parts share no state, so the state space of one says nothing of the
others. `MCServices` checks them in one run: the initial state chooses the
`focus`, only that part moves, and the others stay as they began.

## 4. Runs

| run | instance | shows |
|---|---|---|
| `refresh_safety` | 4 requests, 1 user, 4 tokens, pool of 5, symmetry | one successor per token, one live token per login, the inductive invariant (types and complete revocations among it), atomic rotation, the refinement |
| `refresh_liveness` | 2 devices signed in, 3 requests, 5 tokens, pool of 3 | every request is answered, through every cycle of row waits |
| `refresh_pool` | 2 devices signed in, 2 requests, 4 tokens, pool of 2 | **violated**: as many refreshes as the pool has connections wait for each other for ever |
| `refresh_ended` | as `refresh_safety` | **violated**: a logout, or a detected re-use, that meets a refresh in flight leaves the session alive |
| `login_lockout` | 4 requests, lock after 2 failures, 4 ticks, symmetry | what the stale counter still guarantees, and the inductive invariant |
| `audit_chain` | 2 transactions, 3 events, 3 changes, symmetry | a held hash finds out every change, a removal shows, rollbacks leave no dangling link, an orderly log verifies, the inductive invariant |
| `audit_honest` | 2 transactions, 3 events, nobody tampers | **violated**: an untouched log fails its verification |
| `capture_safety` | 2 captures, 2 patches, 2 preferences, 3 rows, symmetry | one row per card and preference, nothing unconfirmed, nothing lost, evidence with photo and item, the inductive invariant with the counts under way |
| `capture_liveness` | 2 captures, 1 patch, 2 preferences, 4 rows | every request ends, those in a deadlock included |
| `arrivals` | casts of 3 requests over 3 guests, 2 bookings, 2 days | guests, brief and cards while all their requests and the webhooks interleave |
| `services` | see below | the gateway's caches, the verdict on complaints, the poller, the tenant of a connection, migrations, pages, the page's refresh and queue, and that a replay attends to all it lists |
| `client_queue` | the page as built (no replays), 1 capture, a connection that goes and comes back | **violated**: no component uses the replay hook, a queued capture stays in the browser |

Bounds of `RefreshTokens`. A request is handled once, so `Requests` bounds the
operations of a behaviour, and `Tokens` (at least as many) never runs out: no
refresh is blocked by the bound. Four requests are a login and three concurrent
operations, which is what the longest known race needs (login, refresh, re-use
of the old token while the new one is refreshed). The clock is bounded by the
inserts. One user is enough for the runs since the code never relates two users'
rows; the proofs cover any number. A pool of five never makes four requests
wait, so `refresh_safety` sees every interleaving. A cycle of row waits needs two
committed live tokens, so the runs about waiting begin where a user has signed in on
two devices (`SignedIn`), which two requests more would reach; three requests are
then two that close a cycle and one that waits behind it, on a pool of three. The
pool at its limit is a run of its own, `refresh_pool`.

Bounds of the others. `LoginLockout`: with a lock after two failures four
requests suffice to lock, to overwrite the lock and to be overtaken by it, and
four ticks let a lock of two expire and be set again. `AuditChain`: three events
are the fewest in which one has a neighbour on each side, two transactions let two
overlap, one with two events, and three changes alter an event and compute its hash
and its successor's anew; ids are numbers because the order of verification compares
them. `CaptureReview`: the readings are two sure cards
that name both preferences in opposite orders (the deadlock) and an unsure one
that names a preference twice, in two spellings. Two captures and two patches
allow a capture and both reviews of its item to race. Of the rows,
`InsertPreference` needs a free one: three suffice for every pair of rows
`OneRowPerEvidence` and `NoLostReinforcement` compare, a behaviour that needs a
fourth stops there; in `capture_liveness` nothing may stop, and with four rows
nothing does. There CHECK_DEADLOCK is off since requests run out.

`arrivals`: a behaviour has one cast of three requests, the rest never arrive. The
casts are those in which requests of the code meet: creates with a patch,
webhooks with a patch, a webhook with two generations of the brief or with a
generation and a completion of cards, two generations with a reader, two with a
completion. Three requests are what each property needs to fail: two that race
and one that changes what they read. Three guests, one of them free, and two
bookings of any two days make every branch of the handlers fire, which the
mutants confirm. The day of the brief and of the cards is one, so that a webhook
moves a stay out of both.

`services`: two callers at a cap of one, with a prompt of one version besides the
hardcoded one and times of one to three ticks, where a token can expire between
check and use when the margin is forgotten; up to four issues at a threshold of
three; two polls of two properties over two reviews and four instants (post,
begin, post, begin is the shortest race on the watermark); two calls over one
client, so that each borrows after the other; three migrations, of which one is
wrapped by the runner, one may run twice and can be reverted, and two runners;
three rows in two milliseconds of two microseconds each, in pages of one or two;
two replays of one capture with two attempts and one reload. A second capture
only repeats what two replays do to one, since rows share nothing.

Fairness of `RefreshTokens` (`FairSpec`). Node runs every handler whose promise has settled and
PostgreSQL executes every statement that does not wait, so each request's next
step is weakly fair. A statement that waits for a row is cancelled in the end:
`pool.ts:95` sets `statement_timeout` on every connection, and PostgreSQL breaks
deadlocks, so `StatementCancelled` is weakly fair per request. Nothing is
assumed of arrivals, of broken connections or of clients waiting for the pool:
`pg` waits without limit when no `connectionTimeoutMillis` is set and no
statement runs that could time out. Concurrent refreshes can exhaust the pool: each
holds a client while it queries through another, so as many of them as the pool has
connections wait for each other for ever. That is the violation of `refresh_pool`;
`refresh_liveness`, with a client to spare, shows the rest.

Fairness of `WebClient` (`ClientFairness`). JavaScript runs on when a promise
settles (`Replay`, weakly fair per replay), and a call is answered or fails
(`Reply`, the refresh). Signing in, submitting, opening the page and a connection that
changes are never assumed. `ReplaysAttend` needs no more. Only `client_queue` adds
that the connection goes and comes back again and again (`FlakySpec`), which is what
the banner's "once you reconnect" waits for: the promise fails even then. `FairClient` is
the same for the run `services`, while the client is what moves.

Fairness of `CaptureReview` (`FairSpec`). The AI gateway answers or undici's
timeout ends the call (`Recognise`; the failing call is `Fail`), a statement that
can go on goes on (`Step`), and PostgreSQL's deadlock detection cancels one of
the transactions of a cycle (`BreakDeadlock`, weakly fair since a cycle stays
until it is broken). Nothing is assumed of arrivals.

## 5. Proofs

`RefreshTokensProofs` proves, for any sets of requests, users and tokens and any
pool size, `Spec => []IInv` and from it the type invariant, `OneSuccessor`,
`OneLiveTokenPerSession`, `RevocationComplete`, `ReplacedByIsCurrent`, the action
property `RotationIsAtomic` and the refinement `ImplementsOneTimeTokens`. The
assumptions are `NoTokenAssumption`, `NoUserAssumption` and `PoolMaxAssumption`
of `RefreshTokens`.

None of the properties is inductive. `OneLiveTokenPerSession` needs to know, at
the commit of a rotation, that the parent is still live and shares the session
of the successor (`RotationOK`); that no other transaction can revoke or rotate
it meanwhile, because the row lock is exclusive against other locks and against
updates not yet committed (`LocksOK`); and that a session is named by a
committed first token, so that a login cannot collide with an old one
(`LineageOK`). `RevocationComplete` needs what a revoking statement has dealt
with so far (`RevocationOK`), and `HandlerOK` ties a handler's place to its
locals. `IInv` is the conjunction of these with the properties; the run
`refresh_safety` checks it, too. The proof has one lemma per action, and under
it one step per conjunct the action can disturb.

`LoginLockoutProofs` proves the four properties of `LoginLockout` for any
requests, threshold and durations. The inductive invariant adds that every
counter, in the row or carried by a handler, is backed by that many recorded
failures and every lock by a counter that reached the threshold (`CountersOK`),
and that without overlap there is one fresh counter (`SerialOK`). It assumes
finitely many requests, because it counts them.

`AuditChainProofs` proves its properties for any transactions, ids and number of
changes. `HeldHashDetects` rests on `OneChain`: of the logs up to an event that verify
and have the same hash there, only one exists, since the hash of an event contains
its columns and the hash before it. Two such logs, followed from that event down,
cannot differ first anywhere, by induction on the order of verification
(`ChainWithin`); `HeldOK` says that the log noted with the hash was one, and
`VerifiedIsChained` that any log that verifies is. `RemovalDetected` follows from the
types and the order: the hash of a successor would have to contain that of two
predecessors. `PredecessorsSurvive` needs `PendingOK`, what an event in
flight may be chained to; `OrderlyLogVerifies` needs `OrderOK`, which keeps the
events in flight behind the committed ones, so that a rollback takes away only
the end of the chain. The proofs use that a finite set of events has a last one,
by well-founded induction on ids and times from the library.

`CaptureReviewProofs` proves `OneRowPerEvidence`, `UnsureCardsWait`,
`ConfirmedDataLands`, `EvidenceIsBacked` and `NoLostReinforcement` for any
captures, patches, cards and rows. At the heart is `OneWriter`: no two requests write for one evidence at a
time, since a capture writes before its item exists and patches hold the item's
lock. From it follows that what a statement's snapshot misses cannot have come
from the same card (`StartUpsertKeeps`), which is why nothing is inserted twice
(`UpsertOK`); `ProgressOK` says that what a request has passed is there, so that
its commit confirms no more than the profile holds. The proof has a lemma per
action, and one (`RequestKept`) for all the requests a step does not move.

`NoLostReinforcement` needs the counts of the requests under way (`CountInv`). What
a request has put on a row that stands alone for its preference is the number of
its fields, as far as it has come, that name the preference (`CountsOf`), the one
of its statement included once the row is locked (`Locked`). No sum over requests
is needed: a row has one holder, so at its commit what is committed grows by the
holder's count and by nothing else. The two hard cases are an INSERT beside a row
that was committed meanwhile, after which neither stands alone, and a request
whose own insert becomes the only row, which is right since nobody has committed
the preference (then `persisted` is 0) and its statement before found none
(`FirstOfKey`). A rollback takes `added` with it.

`ArrivalsProofs` proves about `Guests` alone and about the composition. Of
`GuestSpec`, for any requests, guests, bookings and e-mails: `NoSerialDuplicate`.
The invariant says that an unedited guest still has the
e-mail of the POST that inserted it (`OwnEmail`), and that nobody a POST saw has
that POST's e-mail but by a patch (`SeenDiffer`); the two contradict a second
guest that could have been seen.

Of the composition: `ArrivalsTypeOK`, `BriefIsOneGeneration`, `PrepAllOrNothing`
and the action property `OverwrittenOnlyUnseen`, from `ArrivalsInv`, the
conjunction of an invariant per component. `BriefInv` says of the committed row and
of every row read that items, indices and counts are of one answer; that the
answer sorted puts the vip ones first is a fact about `SortIndex` (two places
differ in the number of places sooner, since `Sooner` is a strict order), that a
guest's item is of a stay of that guest one about `FirstOf`. `PrepInv` says what a
generation has made, has still to do and has counted, before and after an error
aborts its transaction. Three refinements, each step by step: the composition
implements `GuestSpec` (`ArrivalsIsGuests`), `Briefs` (`ArrivalsIsBriefs`) and
`PrepCards` (`ArrivalsIsPrepCards`), the last two with `ArrivingOn` as what changes
in their environment. Through the first, `NoSerialDuplicate` holds
of the composition. Assumed are finitely many bookings, which the proofs
count, and that the days, times and requests are what they are named for.

`DatabaseProofs`, of packages/db and of the lists:

- `TenantIsolated`, for any pool and load. The invariant follows both wrappers
  step by step: what is set on the client at each point (`InTransaction`,
  `InSession`), that one call holds it (`OneBorrower`), and what a client in the
  pool may carry (`Clean`). `HolderSteps` reduces a step of one call to that call
  and its client.
- `MigrationsOrderly`, for any runners, files and crashes. A file is applied or
  recorded only when all before it are both (`FilesInOrder`); what a runner takes
  for done is done, but for the last file, which another runner may be reverting
  (`RunnerKnows`). Without `ReversibleAssumption` the exception would be any file,
  and the property false. That the two sets differ by one file at most follows
  from the least file each lacks (`LeastOf`).
- `PagesComplete`, for finitely many rows, any times and limits. A row returned is
  not selected again by the cursor that followed it, and a row that was there all
  along is returned, shares its millisecond with a cursor, or is older than the
  last one (`PagesSoFar`). The argument is about the last row of a page
  (`LastOf`), which exists since a page is finite and not empty.

`ServicesProofs`:

- `ReviewsNotLost`, for any polls, properties and reviews. When a poll reads its
  watermark nothing older is missing (`StartsRight`); from the fetch on it holds,
  or has still to insert, whatever was posted between that and its BEGIN
  (`Covers`); and no time is ahead of the clock, so that what is posted later lies
  beyond every poll under way (`NothingAhead`). Assumed is a property to poll.
- `CachesFreshWhenUsed` (an action property), for any calls and any times within
  `TimesAssumption`. The cached token is never taken to
  live longer than it does by more than the latency of its answer (`TokenKnown`);
  a cached prompt was active within its age and one statement (`CacheKnown`); and
  what a call holds is good for as long as it may still wait (`HoldsGood`).
- `TrajectoryNotMasked`, for any threshold, requests and changes of issues. A
  request remembers the fewest and the most issues there were since it began
  (`AskFits`), and what it counted lies between them; the model's answer enters only
  where it is the text null.
- `PartsStandAlone`: in `MCServices`, where only the part in focus moves, each part
  still satisfies its own specification, so that what is proved of the parts holds
  there; `PartsTypes` follows (`PartsTypeOK`).

`WebClientProofs` proves `TokenSentOnce`, `QueuedKept` and `ClientTypeOK` for any
number of replays, captures and attempts. A token that this page has sent is one
whose answer it awaits (`SessionInv`), which the single flight turns into "sent
once"; and what is about to be removed is stored (`ActorsInv`).

Only model-checked: liveness (`EveryRequestAnswered`, `EveryRequestEnds`,
`ReplaysAttend`), since fairness and ENABLED are out of the prover's reach,
and the violations of section 4, which are counterexamples. That the bounds of a
run do not hide a step (`EnoughTokens` of `MCRefreshTokens`) is an assumption of
that instance, not of a proof.

## 6. Not modelled

- Permissions (`flattenRolePermissions`, `hasPermission`) and the routes of the
  api-gateway: pure lookups in a table without state. The gateway forwards each
  request as it is; its rate limit is a library's.
- The request plugin of the service framework, but for the context it enters
  (`TenantContext!Enter`).
- tenant-svc: reads of one statement, and `POST /v1/properties`, a check, an
  INSERT behind a unique index and an answer. The answer is sent inside the
  callback of `withPrincipalContext`, before COMMIT: a hazard that is listed and
  needs no model to be seen.
- Row-level security and roles: PostgreSQL evaluates them. The models assume that
  the rows a statement names are visible to it; that the setting the policies
  read is the request's own is `TenantIsolated`.
- `migrateReset`, which drops a test database; configuration, SSL and statistics
  of the pool.
- The pages of the web client beyond the capture form: rendering and forms.
  Schemas, type declarations, error classes, logging: no state.
- Object stores beyond put and get; the demo, load, deployment and media files.

Facts about the code met while modelling, which hold in every state or in a single
request and which no property states:

- The INSERT of the call log (`ai-gateway/src/index.ts:125`) names no
  `template_name`, NOT NULL in `0012_prompts_ai.sql:49`, and its error is swallowed:
  nothing is logged and no cap ever closes, against `index.ts:26` and
  `docs/adr/002`:37 ("Enforces per-tenant daily token caps and per-minute rate caps").
- The webhook's INSERT of a guest (`ingest/src/server.ts:116`) names `email`, where
  `0005_guests_stays.sql:12` has `email_lower`: each delivery of a guest not yet known
  by the PMS id is a 500.
- The statement that upserts a preference returns only a row it inserts
  (`pipeline.ts:213`), so the evidence of a reinforced preference is never linked to
  it, against `pipeline.ts:6`.
- The digest of an audit event omits `detail`, `actor_display`, `request_id`,
  `ip_inet` and `user_agent`: verification cannot see them change. It includes
  `occurred_at::text`, whose text depends on the session's time zone.
- Two overlapping replays that read one count of attempts write it once
  (`offline-queue.ts:66`), so a capture may be tried more often than `MAX_ATTEMPTS`.
- Webhooks of one booking are applied in the order they arrive: a late old one sets
  its dates.

The models assume that `gen_random_uuid` and `randomBytes` never repeat a value.
