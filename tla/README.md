# MailStream in TLA+

A verification development of this repository (`src/` below is its root): TLA+
models of the email platform, the configurations that model-check them with
TLC, and theorems about them checked by TLAPS.

## The system

The repository holds two independent systems.

**The node pipeline** (`src/node-pipeline`), the platform the README describes.
API replicas take `POST /v1/email-jobs`, reserve the client's idempotency key in
Redis, insert a row into their database and publish a message to RabbitMQ.
Workers consume `email.queue`, send each email over SMTP and publish status
events to `email.status.queue`, which the API replicas fold into their rows.
Failed attempts travel through retry queues whose message TTL returns them to the
work queue.

**The Go pipeline** (`src/go-pipeline`), an OAuth login, a producer, a consumer and
a consumer of failed emails, with tokens and a count of sent emails in one table. At
this commit it does not build: `GetValidAuth`, which both consumers call, is defined nowhere.

| Component | State | Operations | Talks to |
|---|---|---|---|
| Submission (`email-jobs.service.ts`, `.controller.ts`, `.publisher.ts`, `.repository.ts`) | `idem:<key>` in Redis, `email_jobs` rows (`idempotencyKey` unique) | submit: SET NX, then GET and lookup of a duplicate, or insert, publish, mark, read; DEL on failure | Redis, API database, broker |
| Status projection (`status.consumer.ts`) | the same rows | apply an event, ack or nack | broker, API database |
| Worker delivery (`email.consumer.ts`, `delivery.service.ts`, `idempotency-guard.ts`, `retry-policy.ts`) | messages in flight, `delivery_attempts` rows, unique by (job, attempt) | handle, process, reserve, complete, retry, dead-letter, defer, settle, drain | everything below |
| Providers (`smtp.provider.ts`, `provider.factory.ts`) | none | send: accepted, transient, permanent; unregistered | SMTP |
| Circuit breaker (`circuit-breaker.service.ts`) | state, count and opening time by provider name, in a worker's memory | isOpen, recordSuccess, recordFailure | delivery |
| Rate limiter (`rate-limiter.service.ts`) | one token bucket in Redis | acquire | delivery of all workers |
| Topology (`topology.bootstrap.ts`, `topology.ts`) | work queue, five TTL tiers, dead-letter queue, status queue | expiry of a tier, requeue of what is unsettled | all |
| RabbitMQ connection (`rabbitmq.service.ts`) | connection, channel, reconnect flag, callbacks | connect, reconnect, publish, close | API and workers |
| Go email pipeline (`internal/email`) | `email_queue`, acknowledged on delivery; `failed_email_queue`, never written | publish, consume, send, count | broker, mail APIs, token table |
| Go OAuth callbacks (`internal/auth`) | `auth` rows: tokens, addresses, counts | exchange a code, save or update a row | token table |

Left out of the table: the API shell (key guard, validation, error filter),
metrics, health, logging, configuration, the generated Prisma client, the
benchmark, the Go web client and the Go bootstrap. They keep no state that the
behaviour above depends on.

### What is hard, and what makes it correct

The hard part is that a job lives in several systems at once (a Redis key, a row, a
message, a ledger row, an SMTP server) with no transaction across them, and
that every await is a place where another handler, replica or worker
interleaves, a call fails with or without its effect, the channel goes while the
handler runs on, or the process dies.

- *Delivery* must not lose a job (every path that gives a message up must leave a
  successor, a dead letter or a send), must not run two attempts of a job out of
  order, must send an attempt again only when a redelivery forced it, must tell the
  API the truth and must drain.
- *Submission* must publish at most one job for an idempotency key however clients,
  replicas and failures interleave, and give all clients of a key the same job.
- *Projection* must apply every event, and the row must end at the last one.
- *Breaker and rate limiter* must not starve work, and must bound it, although the clocks
  of the workers disagree, handlers that asked before the breaker opened come late, and
  failures of the database are counted as the provider's.
- *Connection* must notice every loss, have one way to a channel and never two, settle
  where it received, and consume again.
- *The Go server* acknowledges a message before it handles it, so it must never attempt an email
  twice, and must come to every message while it is connected; callbacks and the
  quota count save whole rows they read earlier, so rows must not mix two logins.

`PROJECT.json` lists the hazards one by one, at their line, with the property that
would catch each, or why none does.

## The modules

| Module | What it is |
|---|---|
| `Delivery` | workers, their handlers, the ledger, the breaker and the queues |
| `JobCustody` | the abstract promise of the worker tier, which `Delivery` implements |
| `DeliveryInvariant` | the two inductive invariants of `Delivery` |
| `DeliveryProofs` | type correctness, four safety theorems, and that `Delivery` implements `JobCustody` |
| `BudgetProofs` | what an attempt may bring forth, and what holds of a job that is never redelivered |
| `MCDelivery` | constants and symmetry for TLC |
| `Backpressure`, `BackpressureProofs`, `MCBackpressure` | the token bucket in Redis and the breakers of the workers, with their clocks |
| `Connection`, `ConnectionProofs` | one process and its connection to RabbitMQ, which implements `WorkerChannel` |
| `WorkerChannel` | a worker and its channel as `Delivery` has them |
| `Submission`, `SubmissionProofs`, `MCSubmission` | `POST /v1/email-jobs` on any number of replicas |
| `KeyDecision` | the abstract promise of an idempotency key, which `Submission` implements |
| `Pipeline`, `PipelineProofs` | `Submission` and `Delivery` composed at the broker, with the end-to-end promises |
| `StatusProjection`, `StatusProjectionProofs`, `MCStatusProjection` | `StatusConsumer` on any number of replicas, with the rows a submission writes |
| `GoPipeline`, `GoPipelineProofs` | the Go server: producer, consumer, OAuth callbacks and their table |

Operators whose comment begins with "Mutant:" are plausible bugs of the
definition that follows them. They are not used by the specification;
`PROJECT.json` names the property each must break.

### Delivery

A worker is a Node.js process with up to `CONSUMER_PREFETCH` handlers for its channel, and beside them
those of channels it lost; `Slots` bounds all of them together. A handler's
`pc` is the await it is suspended in, and an action is the effect of that
awaited call together with the code up to the next await. `msg` is its message;
`held` says that the delivery tag is still good, that is, the broker will take
the message back if the channel goes.

| Code | Model |
|---|---|
| `EmailConsumer.handle`, malformed JSON or schema | `Deliver`, label `malformed`: published to the dead-letter queue, then acked |
| `rateLimiter.acquire` false | `RateLimited`, then the message goes to tier 1 with its attempt unchanged |
| `breaker.isOpen` | `BreakerOpen` (to tier 2) or `Admit`, which may turn OPEN into HALF_OPEN |
| `IdempotencyGuard.reserve` | `Insert` (ON CONFLICT DO NOTHING), then `Select`: PENDING is taken over, a completed row is a duplicate and is acked |
| `provider.send` and the turn that follows | `SendAccepted`, `SendTransient`, `SendPermanent`; a transient failure may have handed the email over (a timeout after DATA) |
| `complete`, `scheduleRetry`, `deadLetter`, `publishStatus` | `Complete`, then `Publish` at the label `AfterComplete` and `AfterPublish` name |
| `settle` | `Ack`; `Nack` in every failing call |
| a failing call | `AcquireFails`, `QueryFails`, `PublishRejected`: with the effect or without |
| `onModuleDestroy`, drain | `Stop`, `Exit` |
| connection lost, regained | `ChannelLost`, `Connect` |
| kill and replacement | `Crash`, `Start` |

Choices a reader should know:

- A handler whose channel was lost runs on (nothing cancels it), publishes on
  whatever channel the worker has by then, and its settle does nothing. The
  broker meanwhile delivers its message to somebody else.
- A crash in the middle of a call is the call's effect followed by `Crash`, or `Crash`
  alone.
- `PublishRejected` may have stored the message, also when the worker's channel is gone
  by now: the confirm was lost with it. Without a channel it is not counted as a fault.
- `Connect` sets the channel and starts the consumer in one step, and `Stop` cancels the
  consumer or finds that its tag is not known yet. `Connection` has the steps in between,
  and implements `WorkerChannel`, which is these actions for one worker.
- The breaker's clock is a choice at each `isOpen`, and so is the rate limiter's answer:
  `Backpressure` has what decides them. A job of an unregistered provider
  has a breaker under its own name, which nothing opens, because `resolve` throws a
  permanent error.
- Tiers expire in any order across messages; queues are counts of copies.
- Shutdown closes the email consumer before the RabbitMQ connection, so the drain
  has a channel. `Exit` covers both the idle end and the deadline of the drain.
- `submitted`, `sends`, `redelivered`, `orphaned` and `faults` are history
  variables. `orphaned` names the jobs whose hand-off was interrupted: the attempt
  is recorded FAILED and the retry or the dead letter was not published.

### JobCustody

A job is in somebody's custody from its publication until it is accepted by the
provider, dead-lettered or lost. `ImplementsCustody` maps `custody` to `InCustody`
(a queue, a held delivery, a handler that still works on it), `accepted`, `dead` and
`lost` to sends, the dead-letter queue and `orphaned`. It adds to the invariants
what steps may do: nobody sends or dead-letters a job out of custody, and custody that
was given up does not return.

### Backpressure

One provider, its bucket in Redis and its breaker in each worker. A handler is idle or in one of
four awaits of `DeliveryService.process`; the rest of the handling, which touches neither bucket
nor breaker, is skipped. A handler belongs to a channel of its worker, and each channel has
`CONSUMER_PREFETCH` of them (`Slots`): the prefetch is set on the channel, `start` runs again on the
next one, and what the lost channel delivered runs on.

| Code | Model |
|---|---|
| the Lua script | `Refill` (hash missing or expired: full), then `Store` with one token less or not: `Granted`, `Denied`, `AnswerLost` |
| `Date.now()` in `acquire` | `Stamps`: off by up to `MaxSkew`, for clock and travel |
| `PEXPIRE` | `expires`: twice the time it takes to fill the bucket |
| `isOpen` | `Shed`, or `Admit` with `Ask`, which turns OPEN into HALF_OPEN after the cooldown |
| `recordSuccess`, `recordFailure` | the same names, in `SendAccepted`, `SendTransient`, and `CompleteFails` for the catch-all of `handleFailure` |
| `handle` | `Deliver`, on the worker's current channel only |
| channel lost, next one consumed | `Reconnect`: any channel that is not in use becomes the current one; handlers and breaker stay |
| kill and replacement | `Restart`: the breaker is in memory |

The unit of time is that of one token, so that the script's fractions are whole numbers; refills
of less than a token are not modelled. The failure count saturates at the threshold, which is all
the code compares it with. `granted`, `back`, `blame`, `leaked` and
`crowd` are history variables. Loss and reconnect are one step: in between the worker only receives
nothing. A channel whose handlers are done may be used as a new one, so `Channels` bounds the channels in use
at once and not the reconnects.

`RateBound` says what the limiter really bounds. The script takes `max(0, now - last)` and then
stores `now`, also when `now` is earlier than `last`: the interval between the two is refilled again by
the next request in time, so the bound grows by every move backwards (`back`), and by nothing else.
The bounds of the other two are in the *room* of a process (`Room`): the prefetch times the most channels
it has had in use at once (`crowd`). A worker that reconnects while handlers are under way has room for more
than `CONSUMER_PREFETCH`, and its one breaker serves them all. `OpenBreakerShields` says that
less than the room gets through an open breaker, and `HealthyProviderKeepsBreakerClosed` that a room below the
threshold never opens the breaker of a provider that works. Both bounds are exact: with one less either
is violated, and so they are with the prefetch in place of the room, after one reconnect.
The defaults (`CONSUMER_PREFETCH` 10, threshold 5) have too much room from the start: there an outage of the ledger
database while five sends are in flight opens the breaker of a provider that works. A prefetch below the threshold
prevents that only until a reconnect finds handlers under way.

### Connection

| Code | Model |
|---|---|
| `onModuleInit`, the timer | `Boot`, `TimerFires`: a call of `connect` begins |
| the three awaits of `connect` | `Dialled`, `ChannelCreated`, `TopologyAsserted`; a refused or broken one `DialFails`, `LossFailsConnect` |
| `connection.on(...)`, channel-ready callbacks | `TopologyAsserted` (`Wire`, and `starting`), in one turn |
| `onChannelReady` | `Register`: starts at once if there is a channel |
| `EmailConsumer.start` | `Prefetched`, `Consuming` |
| `handle(null)` | `BrokerCancels` |
| `handle`, `settle` | `Deliver` captures the service's channel (`via`), `Settle` |
| `error`, `close` | `LinkLost`, then `LossNoticed`: `scheduleReconnect` once or twice |
| `onModuleDestroy` of consumer and service | `Stop`, `Disconnect`, then `Exit` |

Losing a connection and noticing it are two steps, because the socket's end or the heartbeat comes
later. While `connect` awaits channel and topology nobody listens to the connection's errors, and
Node.js ends the process when an `error` event has no listener: `LossUnhandled`. The service hears of its own close and
schedules a reconnect, so a worker that was told to stop connects and consumes again when its exit
takes longer than 5 s, for instance because the HTTP server waits for its connections; `Stop` can also miss a
consumer whose tag has not arrived. Both are why `WorkerChannel` lets a draining worker consume. The
two awaits of `RabbitmqService.onModuleDestroy` are one action.

`ImplementsWorkerChannel` maps the six phases of a process to running, draining and down, and
its service's channel to none, open and consuming.

### Submission

A request is named by the job it would create. `cache` is Redis, `row` the table with its unique
key, `published` the broker. `Submit` is a POST with a new or a used key; the other actions are
the awaits of `EmailJobsService.submit` in order. `CallFails` fails any of
them, with or without its effect: from the publish and the update control goes to the catch (`Del`,
503), from anything else to a 500. `Crash` kills the replica under the request. `Expire` is the
key's TTL, which at a day outlives the request that set it. `getStatus` changes
nothing and has no action.

### KeyDecision

An idempotency key is decided once, for a job of one of the requests that came with it; nothing but that
job is published under the key, its own client hears of it only afterwards, and every other client of
the key is told of it or of nothing. `ImplementsKeyDecision` maps `decided` to the request
whose row carries the key (Redis, which forgets, is not in it) and `told` to the job of a 201.

### Pipeline

The API replicas and the workers share nothing but the broker, so `Pipeline` has no actions of its own:
`ApiStep` is a step of `Submission`, and the step that publishes a job (also a publish whose confirm was
lost) is at once `Enqueue` of `Delivery`; `TierStep` is a step of `Delivery`. Each side has its own faults.
It INSTANCEs the modules with the proofs, so that their theorems speak of the same definitions.
`PromiseKept` is what a 201 is worth end to end: the job it names is in custody, sent or
dead-lettered; or its hand-off was interrupted, which takes a redelivery; or it was never
published, which only a duplicate can be told of, while the submission of its job runs, or after it died
or had a call fail. `OneEmailPerKey` is the idempotency key as the recipient sees it: all emails and dead
letters of a key are of one job, the one its clients were told of.

### StatusProjection

The rows are written by submissions (`Create`, `MarkPublished`) and by
the consumers (`Apply`), each as an update without a condition. `Emit` is the worker tier at its best:
a job's events once each and in order; what the real tier adds (duplicates) only makes
matters worse. Events of a job are delivered in order and a requeued one returns to its
place. `ack` and `nack` on a lost channel throw out of a handler that
nothing awaits, and an unhandled rejection ends the process (`AckThrows`, and `ApplyFails` when the
delivery is no longer held).

### GoPipeline

One process: HTTP handlers (`Post`), the goroutine of `StartQueueConsumer` (`pc`), and
OAuth callbacks (`at`), which interleave at their calls to the mail APIs and the database.

| Code | Model |
|---|---|
| autoAck, no `Qos` | `Consume`: a message leaves the queue for the client library's buffer |
| `for d := range msgs` | `Take`, and `Continue` where the loop goes on |
| `GetValidAuth` | `TokenFetched`: the token of some row, or `TokenFails` |
| `SendGmail`, `SendOutlook` | `SendAccepted`; `SendDropped` for a disposable address, an unknown provider or no answer; `SendRejected` |
| `trackQuota` | `CountRead`, `CountStore`: `First` by mailbox, `Save` of the whole row |
| `ExchangeCode` | `Callback`, `FetchEmail`, or `FetchFatal` for its `log.Fatal` |
| `SaveOrUpdateToken` | `Find`, then `CreateRow` or `SaveRow` |
| the process ends, is started again | `End`, `Crash`, `Start` |
| the connection is lost | `ConnectionLost`: nothing dials again, and messages are not persistent |

Choices a reader should know:

- A rejected send publishes to `failed_email_queue` on the channel of the
  `EmailService`, which `NewEmailService` leaves nil: the call panics in a goroutine without a
  recover and the process ends (`SendRejected`). So the retry consumer never receives anything, and has
  no action.
- The callbacks store every login under a fixed user per provider (`Accounts`).
- An error page of the Google userinfo request decodes to the empty address: one of `Mailboxes`.
- A panic and `log.Fatal` are what the code does and not counted as faults.

Two more things the runs would show, which only the comment of `SaveOrUpdateToken` ("saves a new
token or updates an existing one") bears on: two first logins of a user create two rows, and
`trackQuota` can overwrite a new token with the one it read before.

## The runs

| Run | Question | Result |
|---|---|---|
| `delivery_two_workers` | two workers, one job, one retry, any two faults: all safety properties, both inductive invariants, the claims for an undisturbed job, the refinement of `JobCustody` | holds, 1.1 million states |
| `delivery_liveness` | two workers, fairness, a job with two retries, breaker threshold 2, one fault: every published job leaves the queues | holds, 0.5 million states |
| `delivery_zero_loss` | no published job is lost | **violated** |
| `delivery_resend_completed` | a completed attempt is never sent again | **violated** |
| `backpressure_reconnects` | one worker with a prefetch of two, any number of restarts and reconnects with two channels in use at once, two tokens, times off by 1, threshold 3, cooldown 2, four units of time: the bucket, the rate, the shield of an open breaker, and the breaker of a provider that works | holds, 0.6 million states |
| `connection_one_process` | one process, any four faults of five kinds: one way to a channel, settling, consuming once and again, the refinement of `WorkerChannel` | holds |
| `submission_two_keys` | four requests, two keys, any three faults: safety, the inductive invariant, the refinement of `KeyDecision` | holds |
| `pipeline_three_requests` | three requests with one key, for an ordinary job, a malformed one and one without adapter; one worker with a breaker that opens at the first failure; one fault on either side: the promise of a 201 and one email per key | holds, 2.2 million states |
| `submission_retry` | a retry after a 503 is not refused with a 500 | **violated** |
| `projection_two_replicas` | two replicas, one job with a retry, any two faults: safety, the inductive invariant, and every event reaches the row | holds |
| `projection_confirmed` | a job whose DELIVERED event was settled is DELIVERED | **violated** |
| `go_pipeline` | one Go server, two emails, two callbacks, two mailboxes, one fault: safety, the inductive invariant, and no message waits for ever | holds |

Bounds. `MaxFaults` bounds how often calls, channels, processes and keys fail.
Two workers with a handler each suffice for the interesting interleavings of a
message: a handler that lost its channel and the one that takes its message over, with a
fault left for either. `MaxAttempts` 1 gives both outcomes of the retry policy and 2 (in
`delivery_liveness`) a retry of a retry. `Threshold` 1 and 2 make the breaker
open. Four requests give each of two keys a holder and a competitor, or one key a whole history of
failure, retry and duplicate. Two callbacks are what it takes to race each other or the count for a row, and a
second email finds the table as the first one left it. In `pipeline_three_requests` a third request finds what a
failure and a retry left behind, and the three kinds of job share a worker. In `backpressure_reconnects` four units
of time hold an opening, a cooldown, a probe and another opening, and an expiry of the hash; the move back of its
timestamp is bounded by `MaxBack`. One worker is enough: two share only the bucket, which does not
see who asks, and every request carries any time within the skew, whichever clock it was read on; the theorems
are for any number of workers. Its four handlers are a prefetch on each of two channels. The threshold of 3 lies between the room of one channel (2) and that of
two (4): with one the antecedent of `HealthyProviderKeepsBreakerClosed` holds, and with two the breaker does open. In `connection_one_process` two calls of `connect` and
four connections are one more than the code ever has at once (`OneWayToChannel`), and with a prefetch
of two a third message shows what a reconnect adds to the old channel's. It turns deadlock checking off: a process
whose consumer the broker cancelled waits for ever. Symmetry is used only in runs without liveness.
No bound is in the theorems.

### What the violated runs show

- `delivery_zero_loss`: `scheduleRetry` and `deadLetter` record the attempt as FAILED and
  then publish. If the worker dies or the publish fails in between, the redelivered
  message finds a completed row and is acked as a duplicate. The job is in no queue and no dead
  letter, against "Zero loss" (`src/README.md:92`, `:107`). `NoSilentLoss` shows that this is the
  only way to lose a job.
- `delivery_resend_completed`: a lost channel gives an attempt two handlers, `reserve` grants the
  PENDING row to both, and one sends after the other completed (`src/README.md:36`).
- `submission_retry`: the compensation removes the Redis key and leaves the row, so the
  retry the error message asks for violates the unique key.
- `projection_confirmed`: `markPublished` overwrites DELIVERED when the worker is
  faster than the API's own update.

`ClaimsHoldUndisturbed` marks where the first two begin. As long as the broker has taken back no
message of a job, no hand-off of it is interrupted, so the job is not lost, and no completed attempt of
it is sent again: failing calls, duplicates and deferrals alone never break the two claims, only what
makes the broker redeliver does (a nack, a lost channel, the end of a worker).

Four more disagreements are consequences of the same code and have no run of their own.
"Exactly one send" (`src/README.md:38`) fails when a worker dies between the send and the
ledger update; `OutputsPaidFor` states what holds instead, and says the same of dead letters and status events. The log line "exhausted after
... attempts" (`delivery.service.ts:133`) counts one attempt too few, since attempts are
numbered from 0. After a failed publish and a refused retry, a third request is told 201
for a job that was never published; `DuplicateIsBacked` states what holds instead. And
the 409 "already in progress" (`email-jobs.service.ts:65`) is given for a day after the only request died.

Two disagreements are outside the models' reach and only noted. `RATE_LIMIT_PER_SECOND`
and `RATE_LIMIT_BURST` have defaults in `worker.env.ts:23`, but the script reads `process.env`, which the defaults never
reach: unset, every acquire fails and every message is requeued. And `/health`, "liveness with
dependency checks" (`src/README.md:87`), checks the heap alone.

### Fairness

`Delivery`: every await ends, every TTL runs out, processes are restarted (the
benchmark replaces a killed worker, `src/README.md:107`) and reconnect (the 5 s timer), a drain
ends at its deadline: weak fairness. `Deliver` has strong
fairness per message, because the queue is first in, first out; `Admit` has strong
fairness per job, because the bucket refills and the cooldown (30 s) is no longer than what the
deferrals take. Sends may fail for ever. `StatusProjection`: weak fairness of
restart, connection, handler steps and delivery. Nothing is assumed of `Emit`.
`Connection`: weak fairness of every answer or rejection
of the library, of the timer, of noticing a loss (a socket that ends, or the heartbeat), of the drain (its
deadline), of the exit, of handlers and of the restart of a process; `ConsumesAgain` needs
no fairness of any one outcome, since a refused connect or a broken connection is a fault and faults are bounded.
`GoPipeline`: weak fairness of the broker's push and of the consumer, whose calls are assumed to return. The
mail clients have timeouts; the database calls of gorm have none, and `GetValidAuth` is
not there to be read, so for these it is an assumption the code does not justify. None of `Start`, since nothing in the repository restarts the server, nor of
callbacks and clients.

## The proofs

The theorems hold for all sets of jobs, workers, slots, requests, keys and
replicas and all bounds, from the constants' assumptions only (`ConstantsAssumption`, `PipelineAssumption`,
`BackpressureAssumption`, `ConnectionAssumption`, `SubmissionAssumption`, `ProjectionAssumption`, `GoAssumption`).
Each module has one inductive invariant and `Delivery` two; of `Delivery`, `Submission`, `StatusProjection` and
`GoPipeline` a run also checks it.

- `Delivery`, `IInv`. `NoSilentLoss` is not inductive: nothing in it says that a
  row recorded FAILED has a successor, which is what makes acknowledging a duplicate
  safe. `NeverStranded` says that a job whose attempt *a* has FAILED is settled, or somebody holds a
  later attempt, or a handler is just handing it on. The proof follows a single
  job and attempt through each action: either the copy that answered for it is untouched, or the
  action moved it where it still answers, or the job has become settled or orphaned.
  `HandlersProgress` records what a handler has done at each label. The theorems: `TypeCorrect`,
  `Invariant`, `NoJobIsDropped`, `LedgerIsTruthful`, `StatusIsTruthful`,
  `AttemptsComeInOrder`.
- `Delivery`, `BudgetInv` (in `BudgetProofs`, on top of `IInv`). `OutputsPaidFor` bounds what has
  come out of an attempt, so the invariant must also count what still may: a *chance* is a copy in a queue of
  the attempt or an earlier one of the job, or a handler that works on such a copy and has not
  passed the point where it would send, dead-letter or tell the API (`Chances`). A job's budget is one for
  its publication and one for each message the broker took back, and `WithinBudget` says that chances and outputs
  together stay within it. Publishing and taking back are the only steps that raise a count, and they raise
  the budget too (`StepPays`); a deferral, a retry and a takeover move a chance from one
  place to another, and passing the point spends one (`PassingPays`). An undisturbed job therefore has at most one
  handler per attempt (`OneCarrier`), which makes `UndisturbedSound` inductive: a handler of such a
  job holds its delivery and, before it sends, the PENDING row. The theorems: `BudgetInvariant`,
  `OutputsArePaidFor`, `ClaimsHold`, and `NoUndisturbedJobIsLost`, the README's zero loss for every job
  that was never redelivered.
- `JobCustody`, `RefinesCustody` (in `DeliveryProofs`), from `IInv` and one more invariant: what is in
  custody was published (`CustodyIsPublished`). A step gives custody of a job only by publishing it
  (`CustodyOrigin`), since what a handler queues comes of a job it has custody of. A step that takes custody away
  and sends or dead-letters nothing is `LetGo`: by `NoSilentLoss` afterwards the job is settled or orphaned, and
  orphaned only in an interrupted hand-off (`OrphanOrigin`). A handler that sends or dead-letters
  has custody of its own job (`Settles`) and changes that of no other (`OtherJobs`). The refinement is then
  used: that nothing happens to a job nobody published is an invariant of `JobCustody` in two
  lines, and `NothingFromNowhere` reads it off for `Delivery`.
- `Backpressure`, `BackpressureInv`: `BucketSound` bounds the grants by the bucket's own timestamp,
  not by the time: what was granted and what is left came from the first burst and from intervals
  refilled, some more than once (`back`). When the hash expires it was untouched for twice the filling
  time, so a new full bucket is no more than the old one would hold; this needs twice the skew to be within a
  burst (`BackpressureAssumption`), and is the one place where the expiry of the script matters. For
  the breaker, a handler that asked before the opening is counted where it is (`At`), and each step out of
  `reserve` moves it from that count to `leaked`. The opening itself happens in a handler that sends, which
  is why there is always room for one more. Handlers are counted against the room by the channels in use
  (`CrowdSound`): each handler under way sits on one of them (`Counts`), only `Reconnect` brings one into use, and then the
  room grows with it (`ReconnectRoom`). Theorems: `BackpressureInvariant`, `BackpressureTypes`, `RateIsBounded`, `BreakersShield`,
  `HealthyStaysClosed`.
- `Connection`, `ConnectionInv`: `OneWayToChannel` is inductive only with `FlagIsTimer` (the flag is set
  exactly while the timer is), and the consumer's properties only with `NoLeak`: every connection
  that is not closed belongs to the service or to the one running connect, so a late loss of
  another cannot clear the channel. `RefinesWorkerChannel` takes every step
  to one of `WorkerChannel` or to a stutter. Theorems: `ConnectionInvariant`, `OneWay`, `ConnectionTypes`, `Watched`,
  `SettlesOnItsChannel`, `ConsumedOnce`, `RefinesWorkerChannel`.
- `Submission`, `SubmissionInv`: a request in its critical section holds its Redis key, a
  key and a read of it name a request of that key, rows are unique by key, and progress by label.
  Then the row carries `OneJobPerKey` and `OneAnswerPerKey`: Redis may forget, the
  unique constraint does not. `RefinesKeyDecision` says so of every step: the row *is* the decision
  (`RowDecides`), inserting it is `Decide`, and every other await is `Publish`, `Tell` or a
  stutter, whether its call succeeds, fails, or fails and takes effect.
- `Pipeline` has no invariant of its own. `ApiSpec` and `TierSpec` show that its behaviours are behaviours of
  `Submission` and of `Delivery`; `Components` then takes over their theorems, whose assumptions follow
  from `PipelineAssumption`. `PromisesAreKept` joins `NoSilentLoss` and `UndisturbedSound` to
  `DuplicateIsBacked` at the published job; `EmailsAreOfOneJob` goes from an email to its publication
  (`NothingFromNowhere`), to the row, to the key.
- `StatusProjection`, `ProjectionInv`: for a job without overlapping events only the latest
  event can still be written.
- `GoPipeline`, `GoInv`: a message is in one place at a time, and is attempted only when it has
  left the queue and the buffer (`OnePlace`). A copy of a row that a callback or the count holds is
  itself whole and backed (`CopiesSound`), which is why saving a stale one cannot break a row. The
  count needs one step of slack: while an accepted email is being counted it may not be in
  any row or copy yet (`Credited`).

Only model-checked: `EventuallyDrained`, `EventuallyApplied`, `EventuallyHandled` and `ConsumesAgain`: liveness,
which the prover cannot reach. Every invariant and every action property of the passing runs is a theorem.

## The plan

Done, in the order of importance: delivery, submission, projection, the Go server, bucket and
breakers, the connection, the API and the workers composed, with their proofs and three proved refinements. Left:
the status projection in the composition, so that what `GET /v1/email-jobs/:id` answers is related to what
the workers did; today that is read off the events `Delivery` publishes and `StatusProjection` receives.

## Not modelled

More than half of the repository's implementation lines are the generated Prisma client
and the wiring of modules, controllers and metrics: they hold no behaviour to model, and keep the share
of modelled lines low. Also left out: the Go retry consumer (unreachable), the Go wiring, the API shell and the web
client. Of the connection: errors of a channel without its connection (nothing the code does on a channel
whose topology was asserted is refused by the broker) and a signal during the boot. Inside the modelled ones: payloads, templates, validation
rules, tenants, metrics and logs; the classification of SMTP codes, a pure table of which only the
outcome matters; the order of messages in a queue, except where `StatusProjection` states it;
queue length limits, of which the topology declares none; broker and database restarts,
which appear to the program as failed calls and lost channels.
