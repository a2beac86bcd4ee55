# Verification of the social promotion service

The service lets one marketing team write a post, approve it, and publish it to several social networks at set
times. This directory is the verification development of its backend: TLA+ modules translated from the code,
TLC configurations that check them on small instances, and theorems that TLAPS has checked for every instance.
`PROJECT.json` maps each definition to the lines it stands for.

Paths below are relative to `backend/src/` unless they begin with `docs/` or `migrations/` (that is
`backend/migrations/`).

## 1. Inventory

| Component | Code | State | Operations | Modelled by |
|---|---|---|---|---|
| Retry policy | `publishing/publish-failure.ts`, `publish-retry.policy.ts` | none | classify an error, is it retried | PublishRetryPolicy |
| Publish job row | `publishing/pg-publish-outbox.repository.ts`, `posts/post.service.ts`, migrations 009, 013, 014 | status, request key, lease, retry count, remote reference | each UPDATE of one row | PublishJobStore |
| Publishing worker | `publishing/publish-worker.processor.ts`, `publishing.service.ts`, BullMQ | queue jobs, the call in progress | deliver, claim, mark, publish, reconcile, confirm, save, fail | PublishWorker, PublishLifecycle |
| Post editing | `posts/post.service.ts`, `pg-post.repository.ts`, migration 014 | posts, jobs, outbox | create, update, schedule, publishNow, cancel, retry | PostEditorial |
| Outbox dispatcher | `publishing/publishing.queue.ts`, `publish-worker.bootstrap.ts` | outbox rows and their leases | claim, enqueue, mark, release | OutboxDispatch |
| Failure alerts | `publishing/failure-alert.service.ts`, the alert statements of the repository | alert rows and their leases | raise, claim, post, mark | FailureAlerts, AlertDelivery |
| Platform adapters | `publishing/adapters/*.ts`, `x-api-usage.service.ts` | requests at the provider, X usage ledger | publish, getAnalytics, price, reserve, settle | PlatformAdapters, RemoteWrite |
| Analytics collection, scheduler | `analytics/*`, `scheduler/*`, `runtime/runtime-heartbeat.service.ts`, `health/*` | collection leases, snapshots, the scheduler's heartbeat | claim, read, save, release, beat | AnalyticsCollection |
| Account connection | `auth/oauth.service.ts`, `pg-oauth-account.repository.ts`, the providers | OAuth states, page selections, accounts, audit rows | begin, callback, select, disconnect | AccountConnection, ConsentRegister |
| Token encryption | `auth/token.service.ts`, the credential services | each process's key ring | encrypt, decrypt, rotate | AccountConnection |
| Service JWTs | `auth/service-jwt-verifier.service.ts`, `service-jwt-auth.guard.ts` | the JWKS cache and its refresh | verify, refresh | SigningKeys |
| Kakao channel | `kakao-channel/*` | entries, consultations | open, record | no |
| Worker heartbeat, roles, formatters | `runtime/*`, `auth/role.guard.ts`, `publishing/formatters/*` | none, or one row | beat; pure functions | no |
| Campaigns, media, operations, database access, frontend, deployment | the rest | insert-only rows, uploads, wiring | single inserts and reads | no |

How they interact. A user's request changes a post and its jobs in one transaction; the trigger of migration 014
writes an outbox row with a fresh queue identifier for each approved job. The dispatcher of each worker process
polls the outbox and adds a delayed BullMQ job. BullMQ delivers it to a worker slot, whose `process()` claims the
row by an UPDATE with conditions, calls the platform's adapter, and records the outcome in further UPDATEs. A
terminal failure writes an alert row in the same transaction, which a later poll sends to a webhook. Scheduler
processes claim published jobs and read their metrics through the same adapters; both kinds of process resolve the
account and decrypt its token at each request, so an account connected in the API must be readable in all of them.
Every request of the API carries a JWT that is checked against the cached keys of the authentication server. Database,
queue and providers share no transaction: the row's status and its request key are the only memory of a write
that may have happened.

What is hard, in this order:

1. A provider's write cannot be undone or repeated. The worker may die at any await, BullMQ may redeliver, the
   answer may be lost; and the user edits, cancels and retries all the while.
2. Three clocks and three counters (the lease, `next_retry_at` and the backoff; `retry_count`, `attemptsMade` and
   the stalled count) have to agree that there is another attempt.
3. Leases that lapse under a process that is still alive (outbox, alerts, row).
4. One user transaction over several jobs, on a view of any age, while workers move each of them.
5. Several requests for one post (containers, parallel uploads), one of which fails.
6. Rotations of keys (token encryption, JWT signing) under processes that are restarted, or refreshed, one by one.
7. Repeated and late callbacks of the browser, with a provider call between the consumption of a state and its effect.

`PROJECT.json` lists 39 hazards at their lines, with the properties that cover them; five have none, with the
reason.

## 2. Modules

### The publication of one job (the core)

`PublishRetryPolicy` <- `PublishJobStore` <- `PublishWorker` <- `PublishSafety` <- `PublishInvariant` <- `MCPublish`
(each extends the one before), with `PublishLifecycle` as the abstract specification.

- `PublishJobStore` holds each statement on the row as a condition and an effect: `Claimable`/`Claimed`,
  `Markable`/`Marked`, `Confirmable`, `Savable`, `Deferred`, `Rejected`, `Schedulable`, `Cancellable`, `Retriable`.
- `PublishWorker` places those statements between the awaits of `process()`. `pc` is where a call stands, `local`
  the row it was returned (not the row as it is now). `queue` is BullMQ's record of each queue job (delayed,
  waiting, active with its lock holder, backoff, completed, failed; attempts and stalled counts); `Deliver`,
  `FindStalled` and `Settle` are BullMQ's. `open` counts writes the provider was sent and has not definitely
  rejected, `posts` what it published; neither is known to the code.
- A timestamp is what its comparisons tell apart: a lease is none, held or lapsed; `retryAt` none, pending or due;
  `scheduled_at` due or not. That time passes is an action, so it may pass between any two steps. That a backoff
  ends after the retry time it was set with is kept; `ShortLease` says whether a lease ends before a backoff.
- `LiveStall` allows BullMQ to take a slow worker for a stalled one and to deliver its queue job again.
  `Reconcilable` allows the adapter to find its earlier post (no adapter in the code does; TRUE includes every
  behaviour of FALSE). `Idempotent` is `supportsIdempotentPublish`, which no adapter declares.
- `PublishLifecycle` is the state machine of `docs/publish-idempotency.md` and `docs/data-model.md` with the
  provider beside it: a write starts only when none is open, a rejection clears the key only when nothing was
  published, a confirmation needs a post.

### Post editing

`PostEditorial` <- `PostSafety` <- `MCPost`. One post, its jobs and their outbox rows; each transaction is one
action because `mutate` locks the post and its jobs FOR UPDATE. A session acts on the revision it loaded last,
however old. A worker's part is as coarse as PublishLifecycle (`Claim`, `Request`, `Write`, `Refute`, `Confirm`,
...), and `EachJobLives` checks that each job is still that machine when the user's transactions write all jobs
back, so the two modules meet in the abstract one. `publishNow` is a schedule for the next time. The length and
media rules (`issues()`) are left out: a refusal changes nothing.

### Hand-off and alerts

- `OutboxDispatch` <- `MCDispatch`: `ClaimOutbox`, `NextRecord`, `Enqueue`, `Mark`, `Release`, `Die` are the steps
  of `dispatchPending`; `Issue` and `Withdraw` stand for the trigger and the deletion of rows. A rejected promise
  of `dispatch()` ends the process (nothing handles it), so a database error there is a `Die`.
- `FailureAlerts` <- `MCAlerts`: claim under a lease, the webhook call with its answer or without, both marks, and
  the catch block that turns an error of the mark into a second one. `AlertDelivery` is what it promises: an alert
  is received before it is closed, and in the end.

### Adapters

`PlatformAdapters` <- `MCAdapters`, with `RemoteWrite` as the abstract specification. A call of `publish()` is a
set of requests ("slots"): slot 0 creates the post, the others prepare it, and `Reading` is getAnalytics of the post
once it is there. `lane` is where the code of each request stands, `remote` what the provider made of the request; the
two part as soon as an answer is lost. X uploads run in parallel under `Promise.all` and go on after the first has
failed. `TooDear`, `Reserve` and `Settle` are the price check and the usage ledger around each X request, a read
included. `Decide` is the provider. publish() is called again only after a failure the policy takes for a definite
rejection. A post has as many media items as `issues()` approves for its platform, so the adapters' own 501 for other
numbers is never met. `getPost` is reached only for a row that keeps a remote id and is not confirmed, and there is no
such row; `deletePost` and `getReplies` have no caller.

### Collection of analytics

`AnalyticsCollection` <- `MCAnalytics`. `Claim`, `Fetch`, `Save`, `Release` and `Beat` are the steps of a pass, taken by
several scheduler processes (the guard `collecting` keeps each to one pass). A job's `lease` is none, held or lapsed;
whose it is the row does not say, and neither does the model: `saveSnapshot` and `releaseCollectionClaim` clear
whatever lease they find. An answer is named by its number, so that `Latest` (what the dashboards sum up) can be
compared in time. It is assumed that an answer is saved within the staleness period, and that a failed claim is
followed by one that succeeds.

### Accounts and token keys

`AccountConnection` <- `MCAccounts`, with `ConsentRegister` as the abstract specification: a consent is taken by one
request, is given up or connects one account, and a disconnected account comes back only by another consent.
`ConsumeState`, `ExchangeCode`, `OfferPages`, `StoreDirect`, `SelectPage`, `StoreSelected` are the steps between the
awaits of `completeCallback` and `selectFacebookPage`. A ciphertext is the version of its key. `stage` is how far each
process has come through the rotation of `docs/oauth-security.md`; `Deploy` keeps the order written there (no process
encrypts with a key that another lacks, no key is removed that is in use) and restarts the process. `Resolves` is what
the credential services make of an account, check by check; `WellFormed` holds the accounts whose `platform_account_id`
has the form they ask for (`Verified`). The id comes from the provider as it is and names the account, so the form is
a property of the account and no step changes it.

### Sign-in

`SigningKeys` <- `MCKeys`. One API process whose requests interleave at their awaits; `Quiet` says that the
continuations of a settled promise run before anything else. `refresh` is the fetch that is shared, `cache` the
document with what is left of its time to live and of the cooldown for unknown key ids. Time is counted in ticks.

## 3. Runs

| Run | Instance | Distinct states | What it shows |
|---|---|---|---|
| publish_safety | 2 workers, 2 queue identifiers, 4 attempts, 2 crashes, 2 database errors | 973,528 | the safety of the core, and that it implements PublishLifecycle |
| publish_stale | LiveStall and Idempotent TRUE, 2 attempts, 1 crash | 3,086,442 | what still holds with two calls on one row |
| publish_progress | no crash, no error, 4 attempts | 7,560 | an approved job is published, failed or cancelled in the end |
| post_safety | 2 jobs, 2 sessions, 2 contents, times 0..2, 5 revisions | 210,216 | what is published was approved, what waits is queued, what is cancelled stays so |
| dispatch | 2 jobs, 2 dispatchers, batches of 2, 2 identifiers each, 1 fault | 303,901 | no identifier is marked as queued without being so, none is forgotten |
| alerts | 2 alerts, 2 workers, batches of 2, 2 troubles each, 1 death | 28,631 | at least one delivery, none without a cause |
| adapters | 5 platforms, 2 calls, a read, up to 2 parallel uploads, 2 polls | 566,459 | every adapter is the single write the worker takes it for, and the ledger knows every request |
| accounts | 2 authorizations, 2 requests, 3 accounts, 2 processes in rotation | 338,562 | a consent connects once, its code is sent once, what is shown as active can be decrypted everywhere, and is refused only for its id |
| analytics | 3 jobs, 1 of them broken, 2 collectors, batches of 2, 1 trouble, 1 snapshot that ages, 1 death | 199,652 | no read without a cause, dashboards never go back, nothing is forgotten |
| sign_in | 2 requests, 3 documents, time to live 3, cooldown 2, time-out 1, 1 failure | 44,553 | a removed key fades, a published key is refused only for a cause, the new key needs no restart |
| publish_second_write, publish_interrupted | small | | disagreements with the documents, section 6 |

Why the bounds are enough. A hazard of the core needs an old call and a new one: two workers and two queue
identifiers give a call overtaken by a redelivery and a queue job overtaken by a reschedule; two crashes give a
crash of the recovery. Four attempts are the code's own number (three delays). Two sessions give a view that is
stale in content and one that is stale in status; three times give a schedule before, at and after another; five
revisions are the creation, an edit, an approval, a reschedule, and a cancel or a retry. Two dispatchers and two identifiers
give a mark or a release that comes late for a record another process holds; a batch of two lets a lease lapse for
the second record while the first is in hand. Two uploads are the least for one to fail while the other goes on.
In `accounts` two authorizations and two requests give two callbacks of one state, a callback beside a selection, and
two consents for one account; two processes are the least for a rotation that is half done. In `analytics` a broken
job is the first of three, and a pass claims two, so a pass is full without the last job; one trouble is a lapse
under a live holder or a failure, one death leaves a lease behind. (A lapse followed by another collector's release needs
two; with two the run is too large, and that ReadsHaveACause and DashboardNeverGoesBack hold then too is what
CollectionProofs adds.) In `sign_in` the time to live is longer than the
cooldown and the cooldown than the time-out, as in the code, and the three documents are the rotation (the old key,
both, the new one).

`CHECK_DEADLOCK FALSE` stands where the system may stop: everything published, and no user who wants more. Symmetry
is used only in runs without liveness and over sets whose members the definitions do not tell apart.

Fairness. `publish_progress`: time passes, BullMQ promotes and delivers, a worker slot goes on with its call: the
event loop and BullMQ's polling give that; users, crashes and errors owe nothing. `dispatch` and `alerts`: leases
lapse and each process polls again (an interval in `publish-worker.bootstrap.ts`, a process manager that restarts
it); errors are bounded, so "in the end" means after the last of them. `adapters`: the code of each call goes on,
because `fetch` ends every request by its default time-outs; providers owe nothing. `analytics`: leases lapse and each
scheduler goes on with its pass and starts another (`setInterval`); that requests succeed again is the bound on
trouble, and that the batch keeps pace with the snapshots that age is the bound on those. `sign_in`: time passes, the
event loop comes to every answer however busy it is (strong fairness, because `Quiet` comes and goes), refreshes fail
finitely often, and clients with the new key come again.

## 4. Proofs

TLAPS has checked every proof, without assumptions except those on the constants.

| Module | Theorems | For every |
|---|---|---|
| PublishProofs, safety | TypeCorrect, InvariantHolds, NoSecondWrite, PublishedOnce, UserSafety, PublishedSafety, CurrentQueueJobSafety | number of workers, queue identifiers, attempts, crashes and errors; all but TypeCorrect for a deployment with `Deployed` |
| PublishProofs, refinement | Refinement: `Spec` implements `PublishLifecycle!Spec` | `Deployed` |
| PublishProofs, rows | FailureSafety (which includes the retry budget), ConfirmedForever | deployment, also with LiveStall and Idempotent |
| PublishProofs, progress | CarriedOnHolds, NothingIsForgotten, DeliveriesClaim | `FaultFree` (below): `Deployed`, no crash, no database error |
| PostProofs | PostInvariant, TypeCorrect, ApprovedContentOnly, WaitingJobsAreQueued, UnfinishedJobsAreQueued, NothingBeforeItsTime, CancelIsFinal, JobsLive, PublishedOnceEach | number of jobs, sessions, contents, times, revisions |
| DispatchProofs | TypeCorrect, SentIsAlwaysQueued | number of jobs, dispatchers, identifiers, faults |
| AlertProofs | TypeCorrect, AttemptsAreCaused, DeliveryRefinement, DeliveredAfterReceipt, DeliveredForGood | finite number of alerts and workers, batch, troubles, deaths |
| AdapterProofs | TypeCorrect, RejectionProvesNoPost, PostsAreWhole, LedgerCovers, WriteRefinement, RejectionStands | number of calls, media items and polls, set of refusals |
| CollectionProofs | TypeCorrect, ReadsAreCaused, DashboardsGoForward | number of jobs, finite number of schedulers, batch, faults |
| AccountProofs | TypeCorrect, CodeIsSentOnce, RotationKeepsReadable, OneConsentOneAccount, UsedUpForGood, Refinement: `Spec` implements `ConsentRegister!Spec` | number of authorizations, requests, accounts, processes |
| KeyProofs | TypeCorrect, NewestDocumentStays, RemovedKeysFade, RefusalsHaveACause | number of requests and failures, time to live, cooldown, time-out |

Every invariant and every action property of a passing run has its theorem, and so has the safety of every refinement:
all but what needs fairness (end of this section).

**The core.** `Deployed` is `LiveStall = FALSE /\ Idempotent = FALSE`: BullMQ's lock is exclusive, and no adapter
repeats a write, as none in the code does. That it is needed is what publish_second_write shows.

`open <= 1` is not inductive: a state in which an idle-looking call is about to send while a write is open has to be
excluded. (`IInv` in PublishInvariant and its parts, among them `OpenWriteHasKey` and `RetryBudget`, held in TLC on
the instance of `publish_safety` before they were proved; the theorem replaces the run.) So: (1) `HoldsQueueJob`: a
call holds the lock of the queue job that called it; with `OnlyCurrentQueueJobWorks`, beyond its claim that is the job
of the identifier the outbox carries, so at most one call is working. (2) `RowFollows`: because only one works, and
`schedule`, `cancel` and `retry` are guarded by a status the working call does not leave the row in, the row is as the
call left it. (3) `ProviderFollows`: what each point of the call may assume of the provider, and above all that no
write is open at `mark` and `publish`. (4) `RowAndProvider`: an open write has its key in the row, so a later claim
goes to `reconcile` and not to `mark`. The step of each action disturbs one of these and is repaired by the others.
Since a post keeps its write open (`posts <= open`), the invariant also gives PublishedOnce.

With two calls on a row (LiveStall) none of that holds. The part of PublishProofs on rows uses only what the WHERE
clauses of the statements ensure: a confirmed row is matched by no other statement than the final save, a row that is
failed was alerted in the transaction that failed it, and a claim leaves the retry count alone.

**Progress of the core.** That an approved job is settled in the end (EventuallySettled) needs fairness, and stays with
TLC. What it rests on is safety, and proved: NothingIsForgotten says that a job which is not settled has an attempt
before it, in a queue job that is still to be delivered or in a call that has not ended; DeliveriesClaim that no delivery
of the current queue identifier finds the row unclaimable, because BullMQ would complete the queue job and nobody
would come back. The hypothesis `FaultFree` adds to `Deployed` that no worker dies and no database error occurs;
publish_interrupted shows that a crash breaks it, and section 6 says how errors do. Users may reschedule, cancel
and retry at any time, providers may fail as they like, and `ShortLease` is free.

The invariant (`CarriedOn` in PublishInvariant) is about two counters that nothing in the code compares:
`retry_count` in the row, which decides whether there is another attempt, and `attemptsMade` in BullMQ, which decides
whether the queue job is delivered again. They agree while the queue job waits (`QueueCarries`) and are one apart at
most between a failure and the end of its call (`CallCarries`). Where they agree, the n-th backoff is set with the delay of
the n-th `next_retry_at` and after it, so it ends later. A retry or a reschedule by the user restarts both, with a fresh
identifier (`Issued`). NextAttemptComes, NoDeliveryInVain and CarriedOn held in TLC on the instance of
`publish_progress` with a third queue identifier, with and without Reconcilable, before they were proved.

**Post editing.** PostEditorial's invariant (`PostInv`) ties the content in three places: `ViewsAreTrue` (a session
that has the present revision in view has the present content, so the revision check is a content check) and
`ContentIsFixed` (as soon as something is queued, approved or copied, it is the content of the post, since only drafts
can be edited), beside `KeyAndProvider` (a post at the provider has a key in its row). `JobsLive` adds that each
transaction of the user on all jobs is, for each one of them, a step or a stutter of PublishLifecycle: a cancel is a
withdrawal only of jobs without a key, and a reschedule finds every job waiting, since a cancelled job belongs to a
closed post. PublishedOnceEach is a consequence: it uses nothing of a job but that it lives that life.

**Hand-off.** OutboxDispatch's invariant (`DispatchInv`) needs one fact about order: at the mark, the record in hand
is queued.

**Alerts and collection** keep accounts. That attempts (or reads) are bounded by their causes is not inductive,
because a cause may be recorded long after it has made a row free: a delivery that failed is written down only by the
catch block, and two workers may hold one alert after a lapse. `Accounted` therefore adds to the attempts those still
to be expected: one for each worker that has failed and has not said so (`Refusing`) and one if the row is free. In
AnalyticsCollection, where a release clears whatever lease it finds, the debt is one for each process that holds the
target and has not got its answer (`Owing`), and one if nothing but a lapse stands before the next claim.
DashboardsGoForward needs only `SnapshotsFollow` (no stored answer is newer than the last one read) and that `Latest`,
a greatest element, exists, for which the well-foundedness of < is cited. The two counts need
finitely many processes; the constants say so.

**Adapters.** `LaneFollows` says what the place of the code of one request proves about that request and its ledger
row, `CreationFollows` that the creating request waits for all others and alone decides what the call answers,
`CallsFollow` that a call is made only after the rejection of every earlier one. From the first two, a definite
rejection proves that there is no post; with the third, that no other call made one. RejectionStands adds that this never changes: uploads that outlive a
failed call cannot turn it into a post, which the worker relies on when it clears the request key. `PollsLeft` bounds the polls of a
container.

**Accounts.** `HeldByOne` is the heart: no two requests work on one consent, because each of the two consuming UPDATEs
matches once; `ConsumedFirst` remembers that when the request has died. `RotationInStep` relates the stages of any two
processes; `InUseReadable` needs it for all that may still be read, the page token in the hands of a request included,
which ReadableThroughRotation does not mention. What RotationKeepsReadable claims is that the tokens can be decrypted, and
that a credential service refuses an account shown as active for the form of its id or not at all; it does not claim that
there are no such accounts (section 6). OneConsentOneAccount and UsedUpForGood are what ConsentRegister
promises, stated of the tables: an account receives its token from a consent that a request holds (`Held`), which is used up
(`UsedUp`) by the same step. They are proved of each abstract step and carried over by the refinement.

**Sign-in.** That a request finds a removed key only for a while depends on the age of a fetch whose answer is old
already. `ChangesFollow` bounds the time since a change by the age of the fetch, by the wait of a request, and by what
is left of the time to live and of the cooldown, whichever of them still carries the old document; `RefreshFollows`
ensures that there is one refresh to speak of, and why it was started.

The invariants of alerts, adapters, accounts, analytics and sign-in are stated in the proof modules (`IInv`). Each
holds in TLC on the instance of its run as well. The proofs showed two gaps in the models: the type invariant of
AnalyticsCollection lacked what a process has in hand (`current`), so it was not inductive; and Workers and Collectors
were not said to be finite.

**Model-checked only.** All that needs fairness: EventuallySettled, EventuallyQueued, CollectionKeepsUp,
RotationNeedsNoRestart, and that what AlertDelivery and RemoteWrite promise happens in the end; ENABLED and fairness
are out of the prover's reach. DeliveryRefinement and WriteRefinement prove the other part of these two, the initial
states and the steps. No induction over data was needed: the models use no recursive definition.

## 5. What the models assume

- BullMQ (`^6`, `maxStalledCount` 1) and the providers are external. A provider that answers 4xx has not published;
  any other answer, or none, says nothing.
- PostgreSQL runs each statement and each transaction of `mutate` atomically. Under READ COMMITTED a claim that waits
  for a user's transaction re-evaluates the row's conditions, but not its EXISTS subquery; since a rescheduled time
  is in the future the row's own condition fails then.
- One clock for queue and database. Skew is a hazard listed without a property.
- The worker slots of the model are processes of their own, so a crash takes one call; several slots in one process
  crash together, which is a sequence of such crashes.
- Request keys of a row do not change while they are set, so a key is a Boolean; the row of `social_posts` is folded
  into the status `published`. Texts, error messages, amounts, URLs and (but for account changes) audit rows are left out.
- The operator removes a token key only when nothing needs it any more, authorizations and page selections under way and
  page tokens in the hands of a request included. `docs/oauth-security.md:21` asks for that ("all corresponding OAuth
  states and credentials"); the code does not check it, and no view shows the selections, which live for ten minutes.
- The authentication server rotates as `docs/oauth-security.md` asks: the new key is published before the old one goes.

## 6. Where the code and its documents disagree

Each of the first two is a run that must find its violation; the others were read in the code while it was modelled.

- `publish_second_write`: with a slow worker taken for stalled, two writes can be sent. The lease fences nobody
  (`markRemoteRequesting` asks for a status, not for the claim); `docs/publish-idempotency.md:28` says there is never
  a second request. Safety rests on BullMQ's lock, not on the database lease.
- `publish_interrupted`: a worker dies during the request, BullMQ redelivers before the lease has lapsed, the claim
  matches nothing, and the queue job is completed: the row stays `remote_requesting`, against
  `docs/editorial-workflow.md:10`. The same end is reached when database errors use up the queue job's attempts, or
  when its stalled count is exceeded.
- Fail, retry by the user, fail again: the second failure has no alert (`ON CONFLICT DO NOTHING`,
  `pg-publish-outbox.repository.ts:229`), though `docs/publishing-queue.md:57` promises one for each terminal failure.
- A post with a failed and a running job is shown as `publishing`, not `partially_failed` (`post.service.ts:27`,
  `docs/data-model.md:31`).
- Errors before anything was sent (503 for a missing configuration, TypeError for a platform body that is blank) count
  as "may have been accepted" (`publish-failure.ts:26`, against the comment at line 10); such a job cannot be retried,
  rescheduled or cancelled by the user.
- Posts whose metrics can never be read come first in every pass (`pg-analytics.repository.ts:33-34`). When there are as
  many as a pass claims, no later post is collected any more, against `migrations/008:1-2` ("a collection failure never
  affects sibling platform results"); and each pass pays for their X reads again. `CollectionKeepsUp` holds for fewer.
- `/health/ready` wants a heartbeat younger than the staleness limit, at most an hour (`health.controller.ts:25-30`), from
  a scheduler that may be configured to one pass a day (`scheduler.service.ts:44`; `docs/deployment.md:177-180`).
- A token with a new key id is refused while another request of the same key id is waiting for the refresh it has asked
  for: the cooldown starts with the question (`service-jwt-verifier.service.ts:88-89`). `RefusedForACause` allows it.
- An account is connected, and shown as active, with whatever id the provider names (`identityFromProfile`,
  `upsertSocialAccount`). The form of the id is looked at by the credential services alone
  (`threads-credential.service.ts:30` and the other four), so an account with another id is refused with 403 at every
  publication and every read. Of LinkedIn, `docs/oauth-security.md:70` wants the author URN verified before it is stored.
  `Verified` keeps the two apart in ReadableThroughRotation.
- `token_key_version` of an account connected through a page selection names the key current at the selection, not the
  one the page token was encrypted with (`oauth.service.ts:83-86`); nobody reads the column, and
  `analytics_last_collected_at` is written and never read.
- `docs/data-model.md:34` has a retry return to `retrying`, the code sets `waiting`
  (`posts/post.service.ts:71`); `docs/publishing-queue.md:4` speaks of one deterministic BullMQ job, migration 014:14
  generates a new random queue identifier for each approval or reschedule; a 2xx answer of X whose body cannot be
  read is settled as `failed` though it was billed (`x.adapter.ts:107`).

## 7. Not modelled, and plan

Not modelled for good: pure string and cipher functions (formatters, the cipher itself: no property here depends on
what they compute), the role guard, insert-only and read-only parts (campaigns, media, operations, the paging of raw
metrics), start-up and validation, the frontend (its requests are the inputs of PostEditorial), and deployment files.
The worker's heartbeat needs durations, which the models abstract; the Kakao channel is two statements on rows of its own
that nothing else reads, and has not been modelled.

What a continuation would take up:

1. RemoteWrite as the contract between PlatformAdapters and PublishWorker. Both sides are there: the adapters are proved
   to be RemoteWrite, with RejectionStands, and PublishWorker allows each of its outcomes (an answer, a rejection, an
   unknown end, a late post). But PublishWorker counts writes and does not name them, so a joint theorem needs a history
   variable in it.
2. The progress of the core under crashes and errors. It is false of the code as it is (publish_interrupted); a sweep over rows
   whose lease has lapsed would have to be in the code first.
3. The worker's heartbeat and the skew of clocks, which need durations, and the lock order of `saveExecution` and `mutate`,
   which needs PostgreSQL's row locks.
4. The liveness properties, in a prover with ENABLED and fairness.
