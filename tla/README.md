# Verification of the bilibili AI-video identification service

TLA+ models of the backend (`backend/app`) and of the browser extension
(`extension/src`), the TLC runs that check them and the TLAPS proofs
about them. Paths are relative to the repository; `PROJECT.json` lists every
definition with the lines it translates, every run, mutant and theorem.

## 1. The system and its parts

A user opens a bilibili video. The extension asks the API for an analysis of the
target `(bvid, cid)`. The API either returns what PostgreSQL holds or creates an
*attempt*; a dispatcher publishes it to a Redis stream; a worker claims it under a
lease, downloads material, runs three detectors, and writes the result.

| component | state | operations | interacts with |
|---|---|---|---|
| Attempt store (`db/repository.py`) | `analysis_target`, `analysis_attempt`, `analysis_outbox`, `analysis_result`, `video_declaration` | create or reuse, claim, heartbeat, start, complete, fail, save declaration | API, workers, dispatcher share its tables |
| Outbox dispatcher (`services/outbox.py`, `RecoveryRuntime.dispatch_forever`) | an open transaction | select undelivered rows, XADD, mark delivered | store, Redis |
| Reconciler (`services/reconciliation.py`, `reconcile_forever`) | none of its own | redispatch stuck queued attempts, reclaim expired leases | store; same process as the dispatcher |
| Worker runner, pipeline (`workers/`) | one claim, a heartbeat task | read, claim, beat, analyse, complete or fail | Redis, store, bilibili, BCut, AI service |
| Analyses API (`api/analyses.py`, `db/analysis_queries.py`, `services/freshness.py`) | none | create, read, batch read | store, rate limits, tokens |
| Rate limits (`services/rate_limits.py`) | Redis counters by window | atomic multi-limit consume, refund | API |
| Installation tokens (`services/tokens.py`, `api/installations.py`) | `installation_token` | register, authenticate, rotate; idle tokens are refused | API |
| Scoring (`domain/scoring.py`) | none | weighted aggregation, label, confidence | pipeline |
| Metadata and declarations (`integrations/bilibili/metadata.py`) | `video_metadata`, `video_declaration` | unfenced upserts | API and workers |
| Bilibili client, BCut (`integrations/bilibili/`) | attempt counters | bounded retry, bounded polling | workers |
| Media commands (`integrations/bilibili/media.py`) | a process group, a workspace | run with time and size limit, cancel, clean up | workers |
| Extension background (`background/`) | token in storage, registration in flight, requests in flight | register, request, clear on 401, coalesce | API |
| Extension video page (`content/video-page.ts`) | navigation generation, poll timer | navigate, read, create, poll, render | background |
| Recommendation feed (`content/recommendation-feed.ts`) | pending cards, batch timer, cache | observe, debounce, batch, render | background |

What is hard in it:

* API processes, workers, dispatcher and reconciler interleave on the same rows;
  an attempt is superseded while its worker is about to complete it.
* XADD is not part of the transaction that marks the row delivered: entries are
  duplicated, and an entry may be claimed before its row is marked.
* `xreadgroup ... ">"` gives an entry out once; nothing reads the pending list
  again. Redis runs with `--save "" --appendonly no` (`deploy/docker-compose.yml`),
  so a restart loses the stream. Only the reconciler brings such an attempt back.
* Leases are granted by the database clock and judged expired by the
  dispatcher's own; cooldowns are set by the workers' and tested by the API's.
* `run_analysis` does not learn that its heartbeat stopped; it runs to the end
  and every table has to refuse it.
* A commit may succeed and its caller see an exception.
* `wait_for` cancels a run at whatever it awaits: a request, a command that is
  being watched or already being stopped, the removal of the workspace, the last
  write. The size of a workspace, the end of a command and its deadline are looked
  at one after the other while the command goes on.
* The extension's promises outlive what they were started for: a show of a video
  that was left, a batch for cards that show other videos, a 401 of a token that
  has been replaced.

### What makes each component correct

* **Store, dispatcher, reconciler, workers**: one unfinished attempt per target;
  generations are fencing tokens; a result is only ever replaced by one of a
  newer generation; a finished attempt never changes; a queued attempt can
  always still be claimed or redispatched; the reconcile transaction never
  violates the outbox key; every attempt ends.
* **API with rate limits**: a creation is charged exactly once; reuse costs
  nothing; a valid result is not analysed anew.
* **Tokens**: of two rotations of a token one wins and the other changes nothing;
  a token in use does not become idle because few uses are written.
* **Metadata, declarations**: what is served as current was true within its time
  to live. That the row of the latest load stays is not guaranteed: the upserts
  are not fenced.
* **Run of an attempt**: one write at most, after the workspace is gone; nothing
  begins after the job timeout; the error code names what happened.
* **Scoring**: weights of missing detectors are renormalised, boundaries round
  half up, the label is given from a confidence of 0.4 on.
* **Media commands**: an accepted command is within its limits; when the
  supervisor returns, the command is dead.
* **Extension**: only a video that was watched for two seconds is asked for; a
  refused token is not sent again; a badge belongs to the card's present video, and
  every card gets its answer. (A late 401 may clear a newer token, which costs a
  registration, and a left video may still be rendered: the code does both.)

## 2. Modules

| module | what it models |
|---|---|
| `TargetRounds` | abstract specification: numbered rounds per target, one open at a time, only the open round publishes |
| `AnalysisStore` | the tables and every transaction on them, called by anybody at any time |
| `AnalysisSystem` | extends `AnalysisStore`: API request, dispatcher, Redis stream, workers, crashes |
| `AttemptRecovery` | liveness of one attempt under crashes and losses, without counters or clock values |
| `AnalysisApi` | concurrent `create_analysis` requests, the lock around the Redis call, the creation quota and its refund |
| `AnalysisRun` | the inside of `run_analysis` for one claim: loading, detectors, cleanup, the last write, the job timeout; extends the next two |
| `MediaCommand` | `MediaAcquirer._run`: a command, its processes, the loop that watches it, its cancellation |
| `Scoring` | `aggregate_detector_outputs` and the metadata detector, as operators |
| `InstallationTokens` | registration, authentication and rotation by concurrent requests |
| `VideoFacts` | `video_metadata` and `video_declaration`: late, unfenced writers and what the queries serve |
| `ApiSession` | the extension's `ApiClient.execute` and `TokenStore` against a server that revokes tokens |
| `VideoPage` | `RouteObserver` and overlapping calls of `VideoPageController.show` |
| `RecommendationFeed` | cards, batches and cache of `RecommendationFeed` |
| `AnalysisStore_proofs`, `AnalysisResults_proofs`, `AnalysisOutbox_proofs` | proofs about `AnalysisStore`, each extending the one before; the second holds the refinement of `TargetRounds` |
| `AnalysisSystem_proofs` | proofs about `AnalysisSystem`, extending those |
| `AttemptRecovery_proofs`, `AnalysisApi_proofs` | proofs about the modules of these names |
| `AnalysisRun_proofs` | proofs about `AnalysisRun`, with `MediaCommand` and `Scoring` |
| `Reading_proofs` | proofs about the five modules `InstallationTokens` to `RecommendationFeed`, each by itself and then in `MCReading` |
| `MCAnalysisStore`, `MCAnalysisSystem`, `MCAnalysisApi`, `MCAnalysisRun` | symmetry sets, limits and detector answers for TLC; the `.cfg` files give the constants |
| `MCReading` | one instance of each of the five modules `InstallationTokens` to `RecommendationFeed` |

### `AnalysisStore`

| variable | code |
|---|---|
| `clock` | `now()` in PostgreSQL |
| `target[t]` | `desired_analysis_version`, `write_generation`, `owner_attempt_id` |
| `attempt[a]` | `(bvid, cid)`, `analysis_version`, `generation`, `status`, `dispatch_epoch`, `lease_expires_at`, `retry_after` |
| `outbox`, `delivered` | the rows of `analysis_outbox`; those whose `delivered_at` is set |
| `result[t]` | `analysis_result`; `generation` is not a column, it is recorded to tell which writer a result came from |

Each action is one committed transaction; a transaction that changes nothing (a
refused claim, a reused attempt, a rejected creation) is a stutter here and an
explicit step in `AnalysisSystem`. Making a transaction one step is justified by
the locks: `create_or_reuse_attempt` holds the advisory lock and `FOR UPDATE` on
the target, and then updates the owner's row; each worker transaction and the
reconciler lock the attempt's row and PostgreSQL evaluates their `WHERE` again
on the row as it is once the lock is granted; the reconciler locks attempt and
target of what it reclaims, skipping what is locked. A transaction that
PostgreSQL aborts changes nothing.

Workers pass any attempt and any generation up to the attempt's present one:
every value they can have been told. Processes read `datetime.now(UTC)`, modelled
as any value within `Skew` of `clock` (`ProcessClock`).

Abstracted: `LIMIT 100` and `SKIP LOCKED` (the reconciler handles *any* subset of
what it finds, which includes those); NULL in a timestamp column is 0, which the
comparisons of the code treat the same way; `error_code`, `heartbeat_at`,
`updated_at`, score and evidence are left out since no guard reads them. In
`AttemptState` the API reads nothing else.

### `AnalysisSystem`

The dispatcher's transaction is taken apart (`SelectBatch`, `Publish` per row,
`CommitBatch`), because XADD happens inside it and survives its rollback
(`DispatcherCrash`). A worker goes through `Read`, `TryClaim`, `Analyze`,
`Complete` with `Beat` in parallel while it is busy; `Raise` covers the loader,
the cleanup, a database error and the 900 s job timeout; `Complete` has an
outcome in which the commit happened and the caller got an exception. The stream
holds the entries not given to a consumer yet; XACK and the pending list are left
out because nothing in the code reads them. `lost` records that an entry
disappeared with Redis or with a worker that had read it.

### `AttemptRecovery`

The same steps for the one attempt that owns its target, relative to the present
key: whatever carries the attempt's present generation and epoch is `current`,
all else `stale`; the lease is `none`, `running` or `over`; the dispatch timeout
is `due` or not. Nothing grows, so TLC sees infinite behaviours as they are.
`MaxFaults` bounds crashes and losses: liveness is claimed once nothing fails any
more.

### `AnalysisApi`

`AnalysisStore` takes a creation as one transaction of a single caller. Here the
request is taken apart where other requests and Redis get in between.

| variable | code |
|---|---|
| `owner[t]` | version and status of the attempt `owner_attempt_id` names; `queued`, `fetching`, `analyzing` are `active` |
| `cooling` | the versions of a target with `status = 'failed' AND retry_after > :now` |
| `result[t]` | version and freshness of `analysis_result` |
| `request[r]` | where `create_analysis` is; `charged` are the windows that counted it and still run |
| `count`, `expires` | the Redis keys `analysis:hour`, `analysis:day` of each token; those that have a time to live |
| `spent`, `exact` | history: creations charged to the present window; the counters nothing made inexact |

`Arrive` is the snapshot that leads to a creation, `Enter` the check under the
advisory lock, `Authorize` the Redis call inside the transaction, `Commit`,
`CommitUnknown` and `RollBack` its ends, `Refund` the exception handler. A
refused or reused request ends without a change. `Locked` is derived from the
requests inside a transaction, and stops `Work` too: a superseded owner's row is
locked. A counter leaves `exact` when a call fails without an answer, a refund is
lost, a process ends with a charge, or a refund comes after its window.

### `AnalysisRun`, with `MediaCommand` and `Scoring`

`AnalysisSystem` takes an analysis as one step that ends or raises. `AnalysisRun` is
what is inside it, for one claim; what other processes do to the attempt is
`OwnershipLost`, after which the fenced writes change nothing.

| variable | code |
|---|---|
| `stage`, `tries`, `clip` | the await at which `run_analysis`, or `run_once` around it, is; the counters of `get_json` and of the sample loop |
| `textFactor`, `visualFactor`, `outputs`, `result` | the material, the detectors' outputs, the `AnalysisResultWrite` |
| `workspace`, `saved`, `attempt`, `owned`, `error` | the directory and `rmtree` in its thread; the rows the load wrote; the attempt's row, its fence, and the code it fails with |
| `pipe`, `seen`, `measured`, `raised` | where `_run` is, and what it has read: `task in done`, the size, the exception |
| `runner`, `stopper`, `leader`, `helper` | the task of `run_command`; the shielded `_stop_process_group`; the command and a process it started |
| `over`, `late`, `timedOut` | the files exceed the limit; the deadline passed (of the command, or of BCut's polling); `job_timeout_seconds` passed |

`Wake`, `Measure` and `Decide` are separate steps because the processes go on
between them. `CancelRunner` is what a cancellation does to `run_command` at each
of its awaits; a second one ends the shield but not the stopper. The `code` of an
exception is what `_attempt_error_code` makes of it: of a `TimeoutError`, wherever it
comes from, `detector_timeout`. Besides `wait_for`'s that can be a database call's
(asyncpg's connect timeout, an `ETIMEDOUT` of its socket), so each of the four that a run
makes, `_save_default_cid`, `save_declaration`, `start_analyzing` and
`complete_attempt`, fails with either of `DatabaseCodes`, before or after its commit
(`MaybeWritten`). The HTTP clients raise types of their own (`httpx.TimeoutException`,
`BCutTimeoutError`), a command's deadline is a `MediaCommandTimeoutError`, and the
workspace is taken for a local directory. A detector answers one of
`Answers` or raises; its HTTP request has no state. A score or a confidence is an
integer in hundred-thousandths, one decimal more than the code keeps, so that
both roundings matter.

### `InstallationTokens`, `VideoFacts`

`authenticate` reads its clock, selects (`Select`), and updates (`Touch`);
`rotate` locks the row with its UPDATE (`Revoke`) and inserts and commits
(`CommitRotation`). Whoever updates a locked row waits, and looks at it again, as
PostgreSQL does at READ COMMITTED. `EndCall` is the answer of a handler, or an
error or crash that rolls back. The clock of a request is any value: the API
processes' clocks may differ. `usedAt` is history.

In `VideoFacts` a load dates what it finds by the moment it started, asks, and
writes two rows, late by any time; an author edits the video meanwhile.
`BatchDefaults` and `CurrentDeclaration` are the conditions under which the
batch query and the composed response serve a row as current. One clock stands for the
workers that date a row and the API that judges its age: they run on one host
(`deploy/docker-compose.yml`), and on several the guarantee is weaker by their skew.

### `ApiSession`, `VideoPage`, `RecommendationFeed`

JavaScript runs one callback at a time, so an action is the code between two
awaits. In `ApiSession` `fetch[k]` is `execute` for one key of `ApiClient.inFlight`
and `inFlight` the registration in `TokenStore`; the server is the set of tokens
it accepts; `WorkerStops` leaves the storage only. In `VideoPage` every call of
`show` stays until it ends by itself, and the last one has the present generation.
In `RecommendationFeed` `flush[i]` is a call of `flush` with the batch it awaits and
the videos left to it, and `Cards` are the cards on the screen: the tracker that
tells them from the others is not modelled.

## 3. Runs

| run | instance | question |
|---|---|---|
| `store_history` | 1 target, 3 attempts, 2 versions, clock to 2 | tokens, cooldowns and results over three successive attempts |
| `store_skew` | 1 target, 2 attempts, 2 versions, clock to 3, clocks off by 1 | consistency of the tables when clocks disagree |
| `store_rounds` | 2 targets, 2 attempts, 2 versions | the store implements `TargetRounds` |
| `system_supersede` | 2 attempts, 2 versions, 2 workers, clock to 1, 2 unread entries | one lease holder, nothing dropped, superseded workers change nothing |
| `system_recovery` | 1 attempt, 2 workers, a lease of 2, clock to 4 | reclaimed workers change nothing |
| `api_quota` | 2 targets, 2 requests of 1 token, limits 1 and 2 | the quota is accounted for exactly, and never runs dry for ever |
| `api_requests` | 1 target, 2 versions, 2 requests, limit 1 | no duplicate attempts; every request is answered |
| `api_valid_result` | 1 target, 1 version, 2 requests | **violated**: a valid result may be analysed again |
| `api_limit` | 2 targets, 2 requests | **violated**: a window may admit more than its limit |
| `worker_run` | 2 retries, 1 or 3 samples, 3 possible answers of a detector | what a run publishes is right, no leader of its commands is left behind, its code tells why it failed, and it ends |
| `reading` | 3 tokens and 2 requests; 2 loads of 2 parts; 2 keys and 3 tokens; 2 videos and 3 shows; 2 cards, 2 videos, 2 flushes | the parts around the store |
| `recovery_liveness` | 2 workers, 3 faults, 3 unread entries | every attempt ends; no two workers hold its present claim |

The two violations are disagreements with the design document
(`docs/aegis/specs/2026-07-20-desktop-ai-video-identification-design.md`):

* line 426, "Completed valid data returns without queueing work": the result is
  looked at in the snapshot only, not again under the lock. In TLC's trace one
  request reads its snapshot, another creates, a worker completes, and the first
  creates again. It has to wait as long as an analysis takes.
* line 353, "5 per hour and 20 per day per token": the handler refunds whenever
  the quota was consumed and an exception follows, also one of a commit that
  took place.

Why the bounds are enough to be interesting. Three attempts of two versions on a
target are the shortest history in which a failed version is asked for again
after another version took over (`CooldownServed`). A clock of 2 with a lease of
1 lets an attempt be claimed, expire, be reclaimed and expire again; with
`DispatchTimeout = 1` and clock 3 an attempt is redispatched up to three times. In
`system_recovery` a lease of 2 and a clock of 4 leave a reclaimed worker time to beat
while the newer claim's lease runs, when a renewal would show.
Two workers are what the deployment runs by default and what a conflict needs.
`MaxUnread` bounds only entries nobody has read. `LeaseSeconds` is above `Skew`
in every run: otherwise a lease could be expired for a fast reconciler at the
moment it is granted, and an attempt be reclaimed without end at one clock value.

In `worker_run` nothing but the retries, the samples and the detectors' answers is
bounded. The answers put the score on both sides of a rounding and of a label,
and a confidence just below and exactly at 0.4. In `reading` two requests are what
a race needs, and a third token lets a second rotation succeed if it could; a
retention of 2, an interval of 1 and a clock of 2 let a use go unwritten and
count. Two loads and a time to live of 2 let a late writer overwrite a newer row
and the row expire. Three shows are a video, another one and the first again, or
one that is hidden and shown twice; two flushes with batches of one video let a
card change hands under each of them. The five modules of `reading` share no
variable: a behaviour is one of one part, while the others rest, so that their
states add up instead of multiplying.

`CHECK_DEADLOCK FALSE` stands in the configurations of `AnalysisStore`,
`AnalysisSystem`, `AttemptRecovery`, `AnalysisRun` and `MCReading` because the clock stops at `MaxTime`, attempt
ids run out, or the attempt or run has ended: the bounded system stops there, the real
one goes on. `AnalysisApi` is checked for deadlock.

### What the properties say

* `ActiveOwnsTarget`, `GenerationsAreTokens`: at most one unfinished attempt per
  target, at the target's own generation and version; no generation is given
  twice. They relate supersession, reclaim and completion, which different
  processes run.
* `ResultIsNewestCompleted`, `ResultsAdvance`: the design document's "v1 claim, v2
  claim, v2 complete, v1 complete: the result remains v2", in every interleaving.
* `LateWorkersChangeNothing`: it speaks of each step of a worker (`WorkerNext(w)`)
  that is `Late`, reclaimed or superseded: its heartbeats renew no newer claim's
  lease, and none of its other calls changes a table.
* `CooldownServed`: the cooldown of a failed version is looked for among all
  attempts of the target, not only its owner; clock skew between the processes
  may shorten it by at most `Skew`.
* `DeliveryKeysUnique`, `QueuedHasItsRow`: the unique index never aborts a
  reconcile pass, and a queued attempt always has a row with its key, without
  which neither worker nor reconciler could ever move it.
* `OneLeaseHolder`, `OneCurrentClaim`: duplicates and redispatch never let two
  workers write for one target.
* `NothingDropped`: as long as no entry is lost, a queued attempt is never left
  to the 300 s timeout.
* `FinishedIsFinal`: a terminal row never changes again, including when
  `fail_attempt` follows a `complete_attempt` whose answer was lost.
* `QuotaAccounted`, `QuotaHolds`: what a token is charged is what it created or
  still may create, in both windows or none, unless a failure without an answer
  or a late refund interferes; `CountersExpire`: not even those leave a counter
  without a time to live.
* `CreationsAreShared`: requests that saw no work do not each create it.
* `AcceptedWithinLimit`, `CommandsAreOver`: size, end and deadline of a command
  are read at different moments, and it is stopped by tasks that can be cancelled
  themselves. The one exception, a job timeout that strikes while a command is being
  stopped, is in the property.
* `PublishedAfterCleanup`, `TimeoutStopsWork`: the order of the ends of a run:
  cleanup before completion, no work after the timeout.
* `FailureTellsWhy`: the code of what happened and not of what it interrupted, the
  declaration saved before anything that can fail later. `detector_timeout` is the
  job's timeout or a database call's (the code does not tell these apart), never that
  of a command or a detector.
* `ResultFollowsEvidence`: the published score against the mean computed from the
  detectors that answered, within the two roundings.
* `OneLiveToken`, `UsedStaysUsable`: racing and failing rotations; uses that are
  not written, by clocks that differ.
* `ServedWasTrue`: late writers overwrite newer rows, and still nothing is served as
  current that had not been true within its time to live, because a row is dated
  by the start of its load.
* `SecondAttemptIsFresh`, `WatchedVideosOnly`, `BadgeMatchesCard`: callbacks that
  return into a state that is not the one they left.
* `EventuallyFinished`, `RunEnds`, `FeedSettles`: liveness, below.
* `ImplementsRounds`: refinement of `TargetRounds`.

### Fairness and timing

`AttemptRecovery` assumes weak fairness of the dispatcher loop, of the two halves
of the reconciler loop, of each worker's loop and of the passing of time. The
loops are `while True` with a bounded sleep, in processes that are restarted
(`restart: unless-stopped`); each job ends because `run_once` bounds it by
`job_timeout_seconds`. The crashes themselves, the end of the heartbeat task and
the loss of Redis are not fair and are bounded by `MaxFaults`.

`AnalysisApi` assumes that a request inside its handler goes on (every call it
awaits returns or raises) and, strongly, that a lock free again and again is
granted: PostgreSQL queues the waiters. Everything else may stop.

`AnalysisRun` assumes that every call the run awaits returns or raises (each HTTP
client has a timeout, the database and `rmtree` answer), that the tasks of the
event loop run and that time passes. The command, its helper and BCut may go on
for ever, and the job timeout need not come: `RunEnds` rests on the deadlines of
the command and the polling. `RecommendationFeed` assumes that the tracker reports
changed links, the timer fires and batches are answered; a rejected batch is
excluded, since the code forgets it.

Two relations between durations are assumed in `AttemptRecovery`, each a guard of a time step:

1. A running heartbeat task (20 s) keeps a 60 s lease from running out.
2. While nothing stands still, a row is published, read by an idle worker and
   claimed well within the 300 s dispatch timeout (`OnItsWay`); a pause longer than
   that is the fault `Outage`.

The second is needed. Without it TLC finds a behaviour in which an attempt never
ends: the timeout counts from `created_at` of the newest row, so each entry may
be made stale by a redispatch before a worker reads it, again and again. In the
deployment that is a backlog longer than 300 s, listed among the hazards.

## 4. Proofs

Everything here holds for every set of targets, attempts, versions and workers,
every lease, timeout, cooldown, skew and bound. The only assumptions are
`StoreAssumption` (the durations are positive, the skew and the clock bound
natural, the NULL values not members of the sets) and `SystemAssumption`
(`MaxUnread` is natural); `ApiAssumption` asks for positive limits and finitely many
requests at a time, `TokensAssumption` for a positive retention and interval and
tokens that are numbered. `RunAssumption`, `RecoveryAssumption`, `FactsAssumption`,
`SessionAssumption`, `PageAssumption` and `FeedAssumption` type the bounds and the
durations and keep the values that stand for nothing (`NoToken`, `NoVideo`, ...) out of
the sets they are added to. TLC evaluates each of them in a run. Each property is the
definition the runs check.

| theorem | establishes | inductive invariant |
|---|---|---|
| `TypeCorrect` | `TypeOK` | itself |
| `FencingHolds`, `ActiveOwns` | `Fencing`, `ActiveOwnsTarget` | `TypeOK`, `Fencing` |
| `Tokens` | `GenerationsAreTokens` | and `DistinctGenerations` |
| `FinishedStays` | `FinishedIsFinal` | `TypeOK`, `Fencing` |
| `ResultNewest`, `ResultOnlyAdvances` | `ResultIsNewestCompleted`, `ResultsAdvance` | and `ResultsBehind` |
| `DeliveryKeys`, `QueuedRow`, `CooldownKept` | `DeliveryKeysUnique`, `QueuedHasItsRow`, `CooldownServed` | and `RowsFollowAttempts` |
| `StoreImplementsRounds` | `ImplementsRounds` | `TypeOK`, `Fencing`, `ResultsBehind` |
| `SystemTypeCorrect` | `SystemTypeOK` | and `EntriesInHand`, `RowsInHand` |
| `SystemImplementsStore`, `SystemImplementsRounds` | `SystemSpec => Spec`, and `ImplementsRounds` of the system | the same |
| `OneLease` | `OneLeaseHolder` | and `ClaimsHeld`, `ClaimsDistinct` |
| `LateWorkers` | `LateWorkersChangeNothing` | all of the above |
| `NothingDroppedHolds` | `NothingDropped` | and `QueuedUnleased`, `Carried` |
| `ApiTypeCorrect` | `TypeOK` of `AnalysisApi` | itself |
| `SharedCreations` | `CreationsAreShared` | and `OneInside` |
| `QuotaIsAccounted`, `QuotaIsKept`, `CountersAlwaysExpire` | `QuotaAccounted`, `QuotaHolds`, `CountersExpire` | and `ChargedLate`, `Counted` |
| `RecoveryTypes`, `RecoveryOneClaim` | `TypeOK`, `OneCurrentClaim` of `AttemptRecovery` | `RecoveryInv`: the types, `OneCurrentClaim` |
| `CommandsWithinLimit`, `CommandsEnd` | `AcceptedWithinLimit`, `CommandsAreOver` | `MediaInv`: `RunnerKnowsProcesses`, `LoopFollowsRunner`, `VerdictsHold` |
| `CompletedLast`, `TimeoutIsFinal`, `FailuresTell`, `RunTypes` | `PublishedAfterCleanup`, `TimeoutStopsWork`, `FailureTellsWhy`, `TypeOK` of `AnalysisRun` | and `ControlInv`: `StagesAndCommands`, `EndsInOrder`, `CodesAreTrue` |
| `ResultIsRounded` | `ResultFollowsEvidence` | and `AnalysisInv`: `ResultIsAggregate` |
| `TokensTyped`, `TokensOneLive` | `TokenTypeOK`, `OneLiveToken` | and `RootsAreIssued`, `CallsKnowTheirToken`, `RotationsHoldTheirRow` |
| `TokensStayUsable` | `UsedStaysUsable` | and `UsesAreWritten` |
| `FactsServed` | `ServedWasTrue` | `LoadsSawWhatIs`, `RowsSayWhatWas`, `PresentIsSeen` |
| `RetriesAreFresh` | `SecondAttemptIsFresh` | `IssuedOnly`, `RegistrationIsNew`, `RefusedIsGone` |
| `WatchedOnly` | `WatchedVideosOnly` | and `FirstAsksOnce`, `NewestIsCurrent` |
| `BadgesMatch` | `BadgeMatchesCard` | and `WaitingIsMarked` |
| `PartsRun`, `TypesKept`, `PartsKeepPromises` | `MCReading!Spec` implies the five specifications; `TypesOK` and the six properties above of it | all of the parts' |

The argument. `Fencing` is what the columns `owner_attempt_id`,
`write_generation` and `desired_analysis_version` are for: the owner of a target
is one of its attempts with the same generation and version, and every attempt
that is not the owner is finished and has an older generation. `ActiveOwnsTarget`
alone is not inductive: it says nothing of the generations of finished attempts,
so a creation could repeat one. `StepCases` reduces a step to four cases (a
creation, a row written by its lease holder, a reconcile pass, a change of
outbox or clock) and each invariant is shown for these.

A result is the newest one because completion needs the owner's generation, all
others are older (`OthersAreOld`), and results never run ahead of the target
(`ResultsBehind`). A new outbox key is new because rows never run ahead of their
attempt (`RowsFollowAttempts`) while a creation takes an unused attempt and
redispatch and reclaim take a new epoch. The refinement maps a round to
`write_generation`; the step that shows most is a reconcile pass, which may
hand over several rounds at once.

`SystemImplementsStore` needs that what a process holds is what the store's
actions range over: an entry or claim is a message of an attempt
(`EntriesInHand`), and rows in the dispatcher's transaction are undelivered
(`RowsInHand`; only the dispatcher marks rows). Through it every theorem about
`Spec` is one about the system. `OneLeaseHolder` then follows since a claim takes
an attempt from `queued`, which it can return to only with a new generation
(`AttemptMoves`), so no two busy workers hold the same attempt and generation
(`ClaimsDistinct`). `NothingDropped` follows since a row published with the
present key of a queued attempt is unread or in hand (`Carried`), and
`claim_attempt` cannot refuse that key (`CurrentIsClaimable`).

In `AnalysisApi` the lock makes `CreationsAreShared` inductive: one request at a time
is inside a transaction for a target (`OneInside`), so no other commit and no
worker changes what it saw. The quota is one invariant per counter (`Counted`);
every action adds to, keeps, or takes from the pending requests of a window what
it does to the counter (`PendingGained`, `PendingKept`, `PendingLost`).

In `InstallationTokens` a commit replaces the live token of a registration by a new
one. That the one it revokes is still live is `RotationsHoldTheirRow`: the row
was live when it was locked, and no other rotation holds it. `UsesAreWritten` says
that the written use is less than an interval behind the latest one, which is
what the condition of the UPDATE is for.

In `AttemptRecovery` `OneCurrentClaim` is inductive by itself: what makes the attempt
queued again or gives it a new key makes every claim stale in the same transaction,
and a claim needs a queued row.

In `AnalysisRun` no property is inductive, for each speaks of the end of a run and the
reasons lie before it. `MediaInv` is about a command. The loop of `_run` looks at the
task, at the size and at the clock one after the other, and what it decides is about
the present: that the verdict is still true then (`VerdictsHold`) follows since a
command's files only grow, its deadline only passes, and a runner that returned has
no living process (`RunnerKnowsProcesses`). `StagesAndCommands` ties the await of the
run to that of the command, `EndsInOrder` says that the workspace goes once and before
the one write that ends the attempt (and that no detector has answered outside
`detect` until then), and `CodesAreTrue` carries the reason of a
failure from the command through the removal of the workspace to the row; it also
knows where a run may be after the job timeout. A step of the command changes for the
run only what `CommandMoves` lists, so that the two invariants are shown apart.
`ResultIsRounded` is arithmetic: the sums over the detectors that answered are written
out for the three kinds (`SumOverKinds`), and each of the two roundings moves the mean by
half a unit of its last digit at most.

In `VideoFacts` a load dates what it finds before it asks, and what was seen at some
time was true then; so whatever order the loads write in, a row was true at its date
or later (`RowsSayWhatWas`), and a row served as current is dated within its time to
live. In `ApiSession` a retry has cleared the storage, but another request may store a
token meanwhile: that one is new to everybody (`RegistrationIsNew`), because tokens the
server has not issued are in nobody's hand (`IssuedOnly`); so a token that was refused
is never stored again (`RefusedIsGone`). In `VideoPage` the generation alone decides
whether a show goes on; it is enough because the newest show is that of the current
target, and an interrupted gate is either not the newest or hidden, and another show
begins when the page is visible again (`NewestIsCurrent`). In `RecommendationFeed` an
answer labels who waits by then, and a card waits only for the video it was last
observed with (`WaitingIsMarked`). `PartsRun` shows that `MCReading` is nothing but these
five specifications beside one another, fairness of the feed included.

Each strengthening was checked by TLC as an invariant of the instances above before
it was proved.

TLC only: `EventuallyFinished`, `RequestsAnswered`, `RunEnds` and
`FeedSettles`, which are liveness under fairness (the proof system handles neither
fairness nor ENABLED), and the two violated properties of the API. Every
invariant and every action property of the runs is proved.

## 5. Not modelled, and what is left

1. That `AttemptRecovery` is an abstraction of `AnalysisSystem`: the two are written
   from the same code, but the time steps of the first rest on relations between
   durations that the second does not have, so neither implements the other.
2. The row locks of `create_or_reuse_attempt` and `complete_attempt` statement by
   statement (target before attempt against attempt before target). PostgreSQL ends one
   of two transactions that wait for each other; that rollback and its exception are
   modelled.
3. Several attempts competing for one worker under redispatch: the code gives no
   bound on the wait, so there is no property to state.
4. The query and registration limits (the same script as the analysis limits,
   without a refund) and the composition of the responses.
5. The tracker that tells which cards are on the screen.

The stream and its pending list grow without limit, a worker that is killed
leaves its workspace and its commands behind, and the feed never asks again for a
video without a result: the code does nothing about them, so no property does.

Not modelled: the prompts and HTTP requests of the detectors (one request and the
parsing of its answer), application factory, configuration, logging and database
session (wiring), and the extension's rendering (formatting of one value).

Met while modelling, and not the subject of a run (lines of the design document):

* 132, "Never request analysis from a feed page": leaving a video for a page
  without one does not end the show, which may still create and poll
  (`route-observer.ts:16`). `WatchedVideosOnly` is about other videos only.
* 309, absent text "is unavailable": a transcript that BCut returns empty keeps the
  factor 0.7 of sampled speech (`__main__.py:101`, `pipeline.py:77`).
* A database timeout is recorded as `detector_timeout` (`runner.py:36`), although no
  detector had one; a detector's own timeout becomes an output without weight and never
  ends an attempt. The design document lists the code under 378, "Text or visual
  detector timeout".
* BCut's errors have no `code`, so a failed or late transcription is reported as
  `analysis_failed` (`bcut.py:10`).
* 446, "Temporary media is deleted after every terminal task path": a removal that
  fails is reported as `cleanup_failed` and not repeated.
