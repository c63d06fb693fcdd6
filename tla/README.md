# A TLA+ model of the multi-tenant webhook platform

The platform takes events in over HTTP, stores them in PostgreSQL, publishes
them to Kafka, and POSTs each of them to the endpoint its tenant registered,
with retries, a dead letter queue, a circuit breaker per endpoint and a rate
limit per tenant. Every service runs in several replicas (api 3 to 20,
dispatcher 3 to 30, scheduler 2 to 10, `deploy/k8s/base/hpa.yaml`) which share
nothing but PostgreSQL, Redis and one Kafka topic, and none of which ever opens
a transaction around two statements. What these modules are about is therefore
what happens *between* two calls of a handler.

Paths below are relative to the repository.

## 1. Inventory

| Component | State it keeps | Operations | Talks to | What is hard | What makes it correct |
|---|---|---|---|---|---|
| Event intake, `internal/service/event.go` | none (rows in `events`) | `Create`: read the endpoint, INSERT, publish, mark queued | PostgreSQL, Kafka | four calls without a transaction; the dispatcher may be through before the last one; a crash or failed publish strands the event | statuses the dispatcher wrote are not undone; a published event is attempted |
| Dispatcher, `internal/service/dispatcher.go` | its message, a snapshot of the event, its lock | `Start`: fetch, `processMessage`, commit | all of them, and the endpoint | stale snapshot, lock that expires or outlives its holder, crash anywhere, duplicates, rebalances, errors that are logged and dropped | one dispatcher per event; nothing is committed unprocessed; no early dead letter; complete audit trail |
| Retry scheduler, `internal/service/scheduler.go` | the batch it works on | `FindRetryable`, republish, mark queued, every 5 s | PostgreSQL, Kafka | replicas select the same rows; same late status write as the intake | due retries are taken up; attempts stay bounded |
| PostgreSQL, `internal/repository/postgres`, `migrations` | tenants, endpoints, events, delivery_attempts, dead_letter_events | one statement per method | - | unconditional UPDATEs by id; foreign keys and cascades under the pipeline's feet | the tables agree with each other |
| Kafka, `internal/kafka` | one partition per tenant, group offsets | publish, fetch, commit | broker | duplicates, late commits of former owners | at-least-once |
| Dispatch lock, `internal/repository/redis/lock.go` | `lock:dispatch:<event>`, 5 min | `Acquire`, `Release` (GET, DEL) | Redis | TTL, non-atomic release, dead holders | mutual exclusion while holders are quick |
| Endpoint cache, `endpoint_cache.go` | `cache:endpoint:<id>`, 60 s | `Get`, `Set` | Redis | never invalidated | rows used are recent |
| Circuit breaker, `circuit_breaker.go` | state, failures, last_failure per endpoint | `Allow`, `RecordSuccess`, `RecordFailure` | Redis | three keys, read and written one command at a time by all dispatchers; pipelines are not transactions | opens only when earned; refuses until the timeout; leaves the open state |
| Rate limiter, `rate_limiter.go` | a sorted set per tenant | `Allow`: trim, count, add, expire | Redis | count and add are separate; partial failures; slow requests | admissions per window bounded; no refusal for old members |
| Endpoints, `internal/service/endpoint.go`, `handler/endpoint.go` | rows of `endpoints` | create, list, get, update, delete | PostgreSQL | read, check on the copy, write by id; pages and totals from two statements | only owners write; deleted stays deleted, and is confirmed once; a walk misses nothing |
| Tenants, `internal/service/tenant.go` | rows of `tenants` | create, update | PostgreSQL | read, check, write all columns back | only accepted settings are stored |
| Signatures, `internal/delivery/signer.go` | none | sign, format, parse, verify | - | the bytes signed must be the bytes sent | receivers can verify |
| Auth and routing, `internal/api/router.go`, `middleware/auth.go` | none | API key to tenant | PostgreSQL | which routes are inside Auth | - |
| Backoff, `pkg/retry/exponential.go` | none | `CalculateBackoff` | tenants | int64 that wraps, `Int63n` that panics, both fed by a tenant's settings | never panics; below an hour and below base * 2^n |
| Event type matching, `event.go` | none | pure function | - | - | - |
| gRPC, generated code, config, logging, telemetry, health, migrate | none | I/O | - | - | - |

How they interact: the API INSERTs an event and publishes its id; a dispatcher
that owns the tenant's partition fetches it, reads the row, takes the lock,
asks the breaker, reads the endpoint (cache, then database), POSTs, records the
attempt, and writes `delivered`, `retrying` or, with a dead letter, `failed`; a
scheduler republishes what is `retrying` and due. The tenant edits endpoints at
any time.

Dead code the models do not contain: `TopicRetries` and `TopicDLQ` are never
used, `EndpointCache.Invalidate` is never called, the status `delivering` is
never written, a tenant's `max_retries` is stored and never read (events get 5),
and `PUT /tenants/me` is mounted outside Auth and answers 401 to everybody; it is
modelled as the handlers' tests mount it, inside (`endpoint_test.go`, 148-153).

## 2. Modules

    Store                 PostgreSQL statements of the event path
      EventTopic          Kafka: log, committed offset, assignment, readers
        Intake            EventService.Create
        RetryScheduler    the scheduler replicas
        RedisKeys         lock and endpoint cache
          Dispatcher      Start and processMessage
    DeliveryPipeline      Intake + RetryScheduler + Dispatcher, crashes, timeouts, properties
    DeliveryContract      what the pipeline promises, without the mechanism
    CircuitBreaker        the three keys of one endpoint's breaker
    RateLimiter           one tenant's sorted set
    EndpointRegistry      the statements of endpoint and tenant management
      EndpointAPI         the /endpoints routes: EndpointRegistry with its answers
        Listing           the paged lists (instantiated over the endpoints' rows)
    TenantSettings        the settings of a tenant, created and updated
      Backoff             the retry delay computed from them
    Signing               payload and signature from request to receiver
    *_proofs              theorems; MC*: instances for TLC

`Store`, `EventTopic` and `RedisKeys` define what one statement, command or
broker call does, failures included; `Intake`, `RetryScheduler` and `Dispatcher`
are the processes, one action per call, with `pc` (or `intake`, `batch` and
`marking`) naming the call that comes next. `DeliveryPipeline` says which
actions exist, adds what surrounds the processes (group assignment, TTLs,
retries that come due, edits, deaths) and states the properties. Operators have
the names of the Go methods where there is one.

Abstractions of the pipeline. An event row is its status, its attempt_count and
whether next_retry_at has passed. One partition, hence one tenant: tenants share
no lock, no breaker, no row. A lock's uuid is the dispatcher that drew it, which
is sound because a dispatcher handles one message at a time and never starts a
second one before its release has returned. A cached endpoint is the `active`
flag. The breaker inside the pipeline gives any answer in `BreakerAnswers`; how
it comes to one is `CircuitBreaker`. A SIGTERM is modelled as a death, because
the cancelled context makes the deferred Release and the commit fail as well.
`processed`, `acked`, `refused` are history variables.

`CircuitBreaker` keeps times as ages that saturate just over the timeout and the
counter up to the threshold, which is all the code compares; its state is
finite without any bound. `RateLimiter` has one request per element of
`Requests`; scores are times. `EndpointRegistry` keeps, for each request between
its SELECT and its write, what it has read and what it wants to change.
`EndpointAPI` adds to it what a client sees: the answer to
each request (a statement whose answer is lost is answered 500 although it was
carried out) and the `created_at` a list is sorted by, which comes from the
replicas' clocks. `Listing` serves endpoints and events alike, since the two
services have the same code; it is checked over the endpoints' rows, of which a
tenant can delete some. A page is any set `ORDER BY created_at DESC` allows, rows of
one time being in no order.
`TenantSettings` and `Backoff` keep the numbers themselves. Go's int64 is `Wrap`, and
the loop of `CalculateBackoff` is one step per iteration.
`Signing` takes the HMAC to be injective and a JSONB column to keep a value but
not its spelling.

## 3. What the runs check

| Run | Instance | Shows |
|---|---|---|
| `crash_rebalance` | 1 event, 2 dispatchers, 2 schedulers, 1 crash of any process, 1 rebalance, 2 attempts | mutual exclusion; nothing is committed unprocessed although former owners commit late; a bound on the POSTs of an event, which the run reaches, with and without a death; and the inductive invariants of the proofs (`PipelineInv`, with types and no early dead letter among its conjuncts, and `PostsInv`) |
| `faults` | every PostgreSQL, Redis, Kafka call may fail, the reply to an INSERT may be lost, and a response body may be one that PostgreSQL refuses; 1 dispatcher, 2 schedulers; breaker may refuse | no message is committed unprocessed, attempt_count never falls |
| `slow_holders` | 2 events, 2 dispatchers that may outlast the TTL, 1 rebalance | a message is skipped only while another dispatcher works on its event; committed messages have had an effect or are being worked on; every POST is recorded (and `EffectsInv`, from which these are proved); no early dead letter |
| `live_pipeline` | 2 dispatchers, 1 crash of any process or 1 rebalance, 1 edit | every message is processed and every retry taken up, whatever crashes and moves; what is published is attempted, dead-lettered or deleted unless a process dies; `failed` has a dead letter and `delivered` an audit row although the endpoint is switched or deleted at any moment (and `RecordsInv`, from which these are proved); the pipeline implements `DeliveryContract`; an endpoint that is off gets no POST once its old row has left the cache and the dispatchers |
| `breaker` | 2 dispatchers, threshold 3, failing commands, deaths | opens only for a failure that finds it half open or once Threshold failures were reported since a success cleared the counter; refuses until the timeout while calls do not overlap and no command fails (and the invariants `BreakerInv` and `SerialInv` behind these); the open state is left |
| `limiter_races` | 4 requests, 2 at a time, limit 2, failing commands | admissions exceed the limit at most by the requests in flight; no refusal for old members |
| `registry` | 2 tenants, 2 ids, 2 fields, 2 concurrent requests | only owners write, deleted stays deleted |
| `endpoint_api` | 2 tenants, 3 endpoints, 2 concurrent requests, 1 walk in pages of 1 | of all DELETEs of an endpoint one at most is answered 204, and then it is gone; a walk over all pages misses no row that was there all along, whatever is inserted meanwhile, and `WalkInv` behind it |
| `backoff` | 1 tenant, 2 overlapping updates, 1 dispatcher, 4 attempts, scaled numbers | only accepted settings are stored; no delay wraps around or makes `Int63n` panic, and the backoff is below the hour and below base * 2^n |

Runs that TLC must find violated, each a disagreement with the repository's own text:

* `retry_lost` (`ScheduledRetryIsMade`): `Create` writes `queued` after it has
  published. If the dispatcher's first POST fails in between, `retrying` is
  overwritten; `FindRetryable` selects `retrying` only, and the retry announced by
  "scheduling retry" is never made. The schedulers have the same race.
* `skipped_after_crash` (`SkipMeansProcessing`): a dispatcher dies with its lock
  set. Kafka hands its message to another one at once, which finds the key, logs
  "event already being processed, skipping", and commits. Nobody processes it.
* `signature_broken` (`ReceiversCanVerify`): the signature is made over the bytes
  of the request, but the body POSTed is what PostgreSQL prints for the JSONB
  column: `{"a":1}` becomes `{"a": 1}`, and the receiver's check fails.

Gaps that the properties are stated around, so that they do not claim more than the
code does:

* An open breaker ends processing without a retry, and the event stays `queued` for
  good; after a failed publish, or a crash behind the INSERT, it stays `pending`.
  `CommittedNotForgotten` and `PublishedIsAttempted` exclude the first, and nothing is
  said of the second. An INSERT of an event whose reply is lost leaves such a `pending`
  row too, and the client a 500.
* The attempt and the dead letter are INSERTed by statements whose errors are only
  logged. PostgreSQL may refuse an attempt although it is up, because the response body
  is cut to 1024 bytes wherever that is (`truncate`) or has a NUL in it. `EveryPostIsRecorded`
  and half of `DeliveredIsAudited` are stated for INSERTs that succeed (`AuditMayFail`),
  `FailedHasDeadLetter` for a PostgreSQL that answers.
* `SET state open` and `SET last_failure` are two commands. A dispatcher that reads
  between them sees the new state with the old time and probes at once; the same
  happens for good when the second command fails, and with two dispatchers racing the
  later SET may carry the older time. Hence the conditions of `OpenRefusesUntilTimeout`.
* The skip of a locked event is right while no dispatcher dies and Redis answers: that is
  `SkipsAreCovered`, the part of `SkipMeansProcessing` that holds.
* An event is POSTed more often than max_attempts. Every scheduler replica that selects
  a retry before the first of them has marked it publishes a copy, and a process that
  dies gives an event one POST more: a dispatcher because its message is handed out
  again, a scheduler because it has published and not marked. `AttemptsAreBounded` says
  that this is all: one POST for the request, one per scheduler and retry, one per death.
  With one scheduler and no death that is max_attempts; the deployments run two
  schedulers or more. The bound does not hold once the partition is taken from a live
  dispatcher (its late commit rewinds the group, and its stale count lowers
  attempt_count), nor when PostgreSQL or Kafka fail (an UPDATE to `queued` that fails
  leaves the event to be selected again at every tick, and a publish that Kafka repeats
  or answers late is made twice), and there is none to state then:
  `Steady` excludes these.
* Updates of endpoints and tenants write back what they have read of the fields they do
  not name, so that of two overlapping updates one may be lost. No text of the repository
  promises otherwise, and no property is about it.
* After a rebalance, the former owner may write its stale snapshot over a higher
  attempt_count; `AttemptCountNeverFalls` is stated for `rebalances = 0`. The event is
  then POSTed more often than max_attempts; the dead letter never comes early.
* Admissions may exceed the rate limit by the requests in flight.
* A list is read by OFFSET: a deletion, or two rows of the same `created_at`, makes a
  walk miss rows, and `WalkMissesNothing` excludes both.

Met on the way, in code without state and therefore shown by no run: the answer to a
list repeats the limit and offset of the request, not those it was clamped to; the
gRPC server compares a wrapped error with `err == domain.ErrNotFound`, so that an
unknown endpoint is answered Internal; a rate limit of 0 means the default in POST
/tenants and 0 in an update; PUT /endpoints takes event types and descriptions that
POST refuses; GET hides other tenants' endpoints behind 404 where PUT and DELETE
answer 403; `total_attempts` of a dead letter is the count the event had before its last
POST (`dispatcher.go`, 253), which leaves that one out.

### Bounds, and why they are enough

`MaxLog` (2 to 4) is tested where a handler starts and never between its steps, so
no handler is stopped half-way; with the retries that schedulers have selected by then it
is large enough for the first message, each retry and one duplicate. In
`crash_rebalance` it leaves room for one message more than the bound on the POSTs
allows, so that it is not `MaxLog` that keeps the bound. `MaxAttempts` is 2 instead of 5 (3 in `retry_lost`): the code
only compares the count with it, and 2 has a first, a repeated and a last attempt.
`MaxCrashes`, `MaxRebalances`, `MaxEdits` (0 or 1), and `MaxDisruptions`, which bounds
the first two together, are spent at any step; one crash and one rebalance already
give every overlap of two workers on an event. More than two dispatchers add no new
conflict on a single lock; the theorems do not depend on it.

`MaxTime` of the limiter spans two windows. In `endpoint_api`, pages of one row and
three rows make a walk of up to three requests, `MaxStamp` 3 gives every order of
their times, ties included, and `Asked` has a limit below and one above the range;
fields do not matter there (`registry` has two). In `backoff` the numbers are scaled
down so that the assumptions of the proofs are tight: twice the largest base in
nanoseconds (9 * 2) and twice the hour (20) just fit the int64 (40), one bit more would
wrap; `CodeNumbersFit` says that the numbers of the code meet the same assumptions.

`Ids`, `Requests`, times, and a tenant's one creation run out: where a run may stop for
that reason deadlock checking is off (`limiter_races`, `registry`, `endpoint_api`,
`backoff`); everywhere else it is on. Symmetry is used in safety runs only, over sets
that no definition tells apart.

### Fairness

`LiveSpec` asks weak fairness of the steps of a request once it has begun, of
schedulers and dispatchers (each call returns: the HTTP client has a 10 second
timeout, a stopped pod is restarted by its Deployment), of time (retries come due,
abandoned locks expire), and of the group giving a free partition to a live member.
Nothing is owed by clients, tenants, crashes or rebalances. For the breaker: time
passes, messages for the endpoint keep coming, calls return, and a series of failing
Redis commands ends (`Recover`), without which nothing could ever be written. Liveness is stated with
`processed`, not `committed`: a former owner's late commit may move the group's
offset back, and it stays there until the next message is committed.

## 4. What is proved

With TLAPS, for every value of the constants:

* `DeliveryPipeline_proofs`: `PipelineInv` is inductive, hence `TypeOK`,
  `NoConcurrentDelivery`, `CommittedAreProcessed` and `NoPrematureDeadLetter` are
  invariants, with crashes, rebalances, duplicates and any set of failing services.
* `DeliveryContract_proofs`: `ImplementsContract`, the pipeline implements
  `DeliveryContract` step by step.
* `DeliveryRecords_proofs`: `RecordsInv` and `EffectsInv` are inductive on top of
  `PipelineInv`, hence `FailedHasDeadLetter`, `DeliveredIsAudited`, `EveryPostIsRecorded`
  and `CommittedNotForgotten`, and the action properties `AttemptCountNeverFalls`,
  `SkipsAreCovered` and `RetiredIsLeftAlone`; `PostsInv` is inductive on top of all
  three, hence `AttemptsAreBounded`, for any number of schedulers.
* `CircuitBreaker_proofs`: `BreakerInv` and the action property
  `OpensOnlyAfterThreshold`, with failing commands and deaths; `SerialInv` and the action
  property `OpenRefusesUntilTimeout`.
* `RateLimiter_proofs`: `LimiterInv`, `AdmissionsAreBounded` and the action property
  `RefusedOnlyAtLimit`.
* `EndpointRegistry_proofs`: `RegistryInv` and the action properties `OnlyOwnersWrite`
  and `DeletedStaysDeleted`.
* `EndpointAPI_proofs`: the routes implement `EndpointRegistry` (`ImplementsRegistry`:
  every step of a handler is one of its statements or a stutter), so that its theorems
  carry over; `OneDeleteIsConfirmed`, `APITypeOK`, and `WalkInv`, hence
  `WalkMissesNothing`.
* `Backoff_proofs`: `BackoffInv`, `NeverPanics`, `BackoffIsWithinLimits`,
  `SettingsAreAccepted`, and `CodeNumbersFit`.

None of the properties is inductive by itself, and the strengthenings say why the
code works:

* Mutual exclusion needs `WorkersHoldLock`: whoever is behind `Acquire` still owns
  the key. `Release` deletes in a second command, and the key is still its own
  because it cannot expire while its holder works.
* At-least-once needs `ReadersGoInOrder`: a reader has processed everything it was
  handed but its current message, so that any offset it commits, even late, is
  covered. `processed` only grows, so a rewind of the committed offset is harmless.
* `NoPrematureDeadLetter` needs `CountsAreBacked`: a snapshot of attempt_count,
  however stale, is at most the number of failed POSTs, since those never fall.
* The contract's steps are `Acquire` (`Begin`), `Deliver` (`Post`), `CreateDeadLetter`
  (`Bury`), the return from `processMessage` or a death behind `Acquire` (`End`), and
  `DeleteEndpoint` (`Purge`); everything else stutters. That a POST has a holder is
  `WorkersHoldLock`, that a dead letter comes after enough failures is `CountsAreBacked`,
  and `OutcomeIsFresh` says that the outcome a dispatcher goes by is that of its own POST.
* `RecordsInv`: whatever comes with a status is written before it (attempt, then
  `delivered`; dead letter, then `failed`), foreign keys keep rows of deleted events out,
  and an id once deleted does not come back. As long as no partition is taken from a live
  dispatcher, its reader is the only one, hence its snapshot of attempt_count is current;
  this is what `AttemptCountNeverFalls` needs.
* `EffectsInv`: while no dispatcher dies and Redis answers, a lock belongs to one at work
  (`LocksAreLive`), so that a skip leaves the event in somebody's hands, and whoever lets
  go of the lock has had an effect (`LeavesAttempted`). `EveryPostIsRecorded` counts the
  dispatchers between POST and INSERT; an event that no handler has finished creating
  has no message, batch, job or count (`UncreatedIsUntouched`), so its count starts at 0.
* `PostsInv`: the POSTs an event has had and those that may still come never add up to
  more than the bound. One may come from its request, from each message not fetched yet
  (`Copies`), from the dispatcher that holds one (`InHand`), from each scheduler that has
  selected the event or will if it looks (`Chances`), and from each scheduler for each
  failure that may still make the event `retrying` (`ChancesLeft`). Every step moves one
  of these to another or drops it: a failure that schedules a retry raises attempt_count
  and pays one chance per scheduler, republishing turns a chance into a message, and only
  a death, which raises the bound, adds one. The late UPDATE to `queued` only takes
  chances away. That the owner's reader is current (`ReaderIsCurrent`) keeps a commit
  from handing out what was read before; a stale count would give chances back, hence
  `Steady`. Each process's steps are proved to keep the sum by following the cardinality
  of each of its parts.
* `RetiredIsLeftAlone`: only `PutCached` fills the cache, with what `GetEndpoint` read.
* The breaker's counter plus the failures still to be counted never exceeds the
  reports since the counter was last cleared (a cardinality argument over the workers
  before `INCR`): a failure that was on its way when a success cleared the counter is
  counted after it, and is a report of the new series.
* `OpenRefusesUntilTimeout` needs to know that the time the worker goes by is no older
  than the failure that opened the breaker; `SerialInv` follows that time from its SET
  through the next GET, which it survives because no other worker is between commands.
* The limiter bounds members and requests past the count *together*: whoever passes
  the count saw fewer than Limit members, and at most MaxInFlight - 1 others can be
  at the same point.
* `RefusedOnlyAtLimit`: members too old for the window when they are counted were added
  after the trim, hence by requests in flight at the trim (`LateWereInFlight`), and there
  are at most MaxInFlight - 1 of these.
* `WalkMissesNothing`: with one time per row and no deletion, a row sorts behind as many
  rows as are newer, and inserts only add to these; so a row that was there and is not
  yet seen stays behind the offset (`WalkInv`), and behind the total nothing is left.
* `OneDeleteIsConfirmed` needs that a deleted row stays `Gone`, hence that of all the
  DELETEs that have read it only one meets a row.
* `NeverPanics` needs `DelayIsSound`: at the top of the loop a delay is either the base
  as an INTEGER column can hold it or, doubled before, within the hour; twice either is
  no overflow. A base of 0 is kept away by both validations, also when an update writes
  back what it read before another one.
* `BackoffIsWithinLimits`: the delay doubles at most as often as the loop has run. That
  2^n doubles with n is proved by counting the subsets of 1..n, as the prover has no
  induction over the definition of powers.
* The registry's check on a copy stays good because tenants of rows do not change
  and ids do not come back.

Assumptions: the named ASSUMEs of the constants; `LockTimeout` does not fire under a
working holder unless `SlowHolders` (5 minutes against one POST of at most 10
seconds and a dozen short calls; the proofs cover both values and claim mutual
exclusion for the quick ones); the limiter's clock does not move between ZADD and
EXPIRE, which go-redis sends in one write, and at most `MaxInFlight` requests of a
tenant are inside `Allow`; the ids of endpoints are finitely many, which makes pages
and totals numbers; dispatchers are the only users of the Redis keys.

Only model-checked: the liveness properties (`EveryMessageIsProcessed`,
`RetriesAreTaken`, `PublishedIsAttempted`, `OpenIsLeft`), which need fairness and
ENABLED and are out of the prover's reach. Every other property of the passing runs is
a theorem.

## 5. Not modelled

Validation of names, URLs and event types, and event type matching, which are
functions of one request (a refused request is `Refuse` or has no step); single gets
of events and tenants, which change nothing; `DeadLetterEventRepo.Delete` and the
lists of attempts and dead letters, which nothing calls; gRPC (two reads), generated
code, configuration, logging, telemetry, health and the migration tool. The broker,
Redis and PostgreSQL are modelled from how the code uses them; their own failures
beyond a failing or half-carried-out call are not.

## 6. Plan

Done: the pipeline and its contract, the breaker, the limiter, endpoints and their
API, tenants, backoff, the signing path, and the proofs above. What is left:

1. The endpoint cache with a clock, to bound how old the row may be that a dispatcher
   uses; `RetiredIsLeftAlone` says what does not depend on the time.
2. A contract for the limiter and the breaker in the manner of `DeliveryContract`, with
   the step-by-step refinement proved.
