# anyhook in TLA+

A verification development for anyhook, the webhook delivery engine in
`src/packages` (TypeScript) and `src/go` (its Go port). TLC checks the modules on
small instances; TLAPS proves the main safety results for every instance.

## The system

A producer calls `send()`. The engine records the event under its idempotency key,
makes one message per subscribed endpoint, stores and enqueues each, and returns a
receipt. The transport delivers each message at least once to `processMessage`,
which passes the endpoint check, the rate limiter and the circuit breaker, signs
and POSTs the message, and then settles it, schedules a retry or dead-letters it.
The scheduler puts a due retry back on the transport. The portal changes endpoints,
lists deliveries and replays them. State, transport and scheduler are ports, with
an AWS adapter (DynamoDB, SQS, a sweeper) and a Cloudflare adapter (Durable Objects,
Queues, alarms).

| part | state | what makes it hard |
|---|---|---|
| ingest (`engine.ts` send, `fanout.ts`) | idempotency row, messages | racing and repeated calls, a stop between two writes, replica reads |
| delivery (`engine.ts` processMessage) | message status, log, DLQ, circuit | some fifteen port calls, none atomic with another; duplicates, crashes, stale copies |
| one attempt (`deliver.ts`, `http-fetch.ts`, `packages/signing`) | none of its own | the endpoint changes under it: url, secrets, subscriptions |
| breaker, retry, outcome policies | circuit record | read-modify-write across a POST |
| rate limiter (`ratelimit.ts`) | token bucket | rounding, racing writes, clock readings out of order |
| AWS schedule (`scheduler.ts`, `sweeper.ts`) | `SCHED#` rows with a lease | overlapping and crashing sweeps, stale query results, whole seconds |
| Cloudflare schedule (`endpoint-do.ts`) | `sched:` rows, one alarm | calls during the handler's awaits, handler failures |
| endpoint registry (`state-dynamo.ts`, `tenant-do.ts`) | endpoint items | read and put without a condition |
| delivery log (`state-dynamo.ts`, `endpoint-do.ts`, `state-do.ts`) | messages, index, attempts, DLQ rows | two writes per call, numbering, pages and merges against writers |
| replay (`portal/deliveries.ts`) | none of its own | runs against the engine's own writes |

## Modules

| module | models | state and actions |
|---|---|---|
| `Policy` | `policy/circuit.ts`, `retry.ts`, `outcome.ts` | operators named after the functions |
| `Engine` | `processMessage`, `dlq`, `record` | one action per port call; `pc` is the next call, `circ`, `plan`, `wait` are the locals carried over an await |
| `DynamoCircuit` | `putCircuit` of `state-dynamo.ts` under `Engine` | the version read and the conditional put are two steps; a conflict fails the call |
| `Breaker`, `DynamoBreaker` | `Engine`, `DynamoCircuit` with a history | `streak`, the failures reported since the last success |
| `Replay` | `replay`, `replayEndpoint`, `reenqueue`, composed with `Engine` | what a portal call has still to store and to enqueue; DLQ rows by number; one portal call at a time |
| `Ingest` | `send`, `recordEvent`, `finalizeEvent` | one action per port call, for the calls that share one key |
| `EndpointStore` | endpoint calls of both adapters | the stored item, older items a read may return, what each call read; `wanted` is the endpoint the acknowledged calls ask for, `superseded` what they asked for before and a replica may still have |
| `UrlPolicy` | `security/url-policy.ts` | `check`, `isBlockedIpv4` as operators |
| `Delivery` | `fanout`, `deliverOnce`, the HTTP clients, `sign`, `verify`, composed with `EndpointStore` | one message from fan-out through its attempts; time moves between the steps |
| `DeliveryLog` | `putMessage`, `getMessage`, `appendAttempt`, `addToDlq`, `listDeliveries` of both adapters | table, older items a read may return, index, numbered rows; a listing that takes several requests |
| `Sweeper` | `scheduleRetry` and `runSweeper` of AWS | rows with due and claim times, and what the index still shows of deleted ones; query, claim, send, delete per sweep |
| `AlarmScheduler` | `scheduleRetry`, `alarm`, `processDueSchedules` of Cloudflare | rows and the alarm; a step ends at an await of `QUEUE.send`, since a Durable Object takes no other event while it awaits its storage |
| `RetryPort` | the promise of the `Scheduler` port | retries owed and handed over |
| `RateLimit` | `ratelimit.ts` and the gate of `processMessage` | bucket in integer fractions; clock, read and write are three steps |
| `*Proofs` | | theorems |
| `MC*` | | instances for TLC |

How the modules fit together:

- `DynamoCircuit` implements `Engine` (`ImplementsEngine`): a conflict of `putCircuit`
  is a failed call of the engine. What holds of `Engine` holds over DynamoDB.
- `Sweeper` and `AlarmScheduler` implement `RetryPort`, which is what `Engine` assumes
  when it releases a due retry. `Sweeper` counts a row as due from the start of its
  second, as the code does; `DueInItsSecond` bounds the difference.
- `Delivery` produces the results of an attempt, and `ResultsAsEngineAssumes` says that
  they are among those the `Post` of `Engine` chooses from.
- `RateLimit` is the detail of the throttle that `Engine` takes as a choice.

Time is relative wherever possible: a stored time is the number of ticks until it
comes, and `Tick` counts it down. `RateLimit` and `Delivery` keep an absolute clock,
because there readings are compared or rounded. Each definition marked MUTANT is a
plausible mistake in the definition after it; no specification uses it, and
replacing the definition by it breaks the property it is kept for.

## Runs

| run | bounds | shows |
|---|---|---|
| `engine_faults` | 1 message, 2 workers over DynamoDB, 1 retry, 1 fault, 1 throttle | nothing is lost, log and DLQ bear out every final status, and the records of the breaker are consistent, under crashes, duplicates and write conflicts; the store implements the engine's view of it; the invariant of the proofs holds |
| `breaker_live` | 1 message, 1 worker, threshold 2, 1 fault, 1 throttle, 1 portal call | only a replay that stops between its two calls strands a message; the breaker opens only after a full streak; every message is settled in the end, though the breaker and the rate limiter park it |
| `ingest` | 4 calls, 3 endpoints | one event per key, receipts agree, counts are final |
| `sweeper` | 2 messages, 2 sweeps, 1 long retry each, 1 crash | no retry lost or early by a second, claims a lease apart, no second send without an expired claim, every retry sent in the end, `RetryPort` implemented |
| `alarm` | 4 retries, 2 failed handler runs | an alarm is set while rows wait, no later than the earliest row the handler knew of; `RetryPort` implemented, no retry forgotten |
| `rate` | 2 workers, 5 calls, burst 2, 3/4 token per tick | grants stay within burst and rate but for what overwritten puts account for; the wait of a throttled message is exact |
| `endpoints` | 3 portal calls, 3 urls, 2 attempts, 2 ticks a second | no acknowledged change is lost, refused targets get no request, rotation keeps requests verifiable, fan-out follows the registry |
| `log` | 3 messages, 2 endpoints, 2 writers, 3 writes, 4 queries, pages of 1 | stored messages are found, no log row is overwritten, a listing omits nothing that stays as it is |

Four runs show the code doing what a comment says it does not:

| run | behaviour | comment |
|---|---|---|
| `breaker_race` | a stale failure count overwrites the reset of a success, and the breaker opens early | "never ... a miscount toward a false trip", `state-dynamo.ts` 60 |
| `engine_probe` | two probes at once | "allowed as the single probe", `circuit.ts` 46 |
| `ingest_crash` | a retried `send()` is told accepted while messages were never enqueued | "Durably accept an event", `engine.ts` 106 |
| `sweeper_reschedule` | a late delete removes the row of the next retry | "never lost", `sweeper.ts` 29 |

Where a property holds, it says how far:

- `SettledTruthfully` and `SettledOrStranded` go from the status to the records: a dead
  message has its terminal attempt and a DLQ row, a delivered one its attempt. A copy
  that failed may leave a DLQ row beside a message that another copy delivered.
- With one retry beyond the SQS delay cap per message no row is replaced and nothing
  is lost (`sweeper`). With more, the late delete of a sweep may take the row of the
  next retry (`sweeper_reschedule`), and `LostByLateDelete` says that nothing else
  does. The port is implemented for the first long retry of each message; a later row
  may also be claimed early by a sweep that the index showed the row before.
- `Ingest` has the consistent read-back of the TypeScript adapter (`state-dynamo.ts` 94).
  The Go adapter reads without it (`state_dynamo.go` 102); the mutant
  `ReadBackEventually` is that read, and with it a second event is fanned out.
- `AlarmCoversEarliest` is about rows stored before the handler last listed them. A
  retry stored while the handler sends may get a later alarm than its own, because the
  handler sets the alarm from the list it made first (`endpoint-do.ts` 160). It is
  late then, and not forgotten.
- `NothingLost` holds in the tenant object always, and in the table while calls follow
  each other and each reads the item stored last. Two overlapping updates of one
  endpoint in the table may lose one, and so may an update that reads an old item.
- `FanoutFollowsRegistry` and `WindowVerifies` are about what the acknowledged calls ask
  for. In the tenant object that is the last of them. In the table a replica may lag:
  an event may still go where an earlier call wanted it, and after a rotation the
  previous secret verifies at once, the new one when the replicas have it. After calls
  that overlapped, or read an old item, it is what the table holds.
- `StoredIsFound` holds with Durable Objects once the index is put, and in the table
  once the replicas have the first put of the message; until then `getMessage` may
  miss it.
- `Replay` has one portal call at a time. Its steps interleave with those of the
  workers, not with those of another replay.
- `GrantsWithinRate` allows for grants that a racing put overwrites: the code takes no
  lock, so the limit is not strict between workers.
- `WindowVerifies` is about a request received within the tolerance of its signing;
  both ends round down to a second, and at the edge this never makes it worse.

**Bounds.** Two workers, sweeps, writers or overlapping calls make every pairwise
race; three portal calls make a rotation, a patch and a delete in any order. `Patch` has
changes of one field and of two at once, and the code treats each field by itself. One
fault is a crash or a duplicate at any step, and `alarm` has a failure of the
recovery as well. One schedule step gives a first attempt, a retry and exhaustion. A
threshold of 2 separates one failure from a streak. Pages of one row put a page
boundary between any two messages. Two ticks a second give a time within a second;
`MaxWait`, `MaxDelay`, `MaxAge` and `MaxNow` let waits of different lengths overlap.
`sweeper` has one long retry for each message, since copies in the queue grow without
bound with two; the theorems have any number of them.
Symmetry is used for calls, workers, messages and endpoints that the modules do not
tell apart, and in no run with a liveness property. `endpoints` and `log` end when
their calls and writes are used up, so deadlock is not checked there.

**Fairness.** Weak fairness of the steps of a running call, handler or sweep (the
runtime goes on with code that can run), of release of due retries, start of sweeps
and delivery from the queue (the platforms' timers and transports), of the index
catching up with its table and of time. None is assumed of failures, throttles, portal
calls or a receiver's good will. Faults and throttles are finite in number: that a
throttled message finds a token when it comes back is `RetryAfterSuffices`. A platform
that gives up on redelivery after so many failures is not modelled.

## Proofs

Every safety property and refinement that a passing run checks is also a theorem, for
any number of messages, endpoints, workers, calls, sweeps and retries and any policy.
The proofs use the named assumptions of the modules and nothing else.
These say that the bounds cover the schedule and one second of the clock
(`DeliveryAssumption`), that model values differ from the data they stand beside, and,
in `LogAssumption`, that the messages are finitely many and that the limit of a query
is a number or unset, which is what `parseLimit` of `portal/http.ts` lets through. The
theorems on `TripsOnlyAfterStreak` have one further hypothesis, named below.

- `EngineProofs` proves `TypeOK` with `ControlOK`, which ties what a call has decided
  to its next port call; without it a step could log a retry past the end of the
  schedule. It then proves `InductiveInvariant`, and from it `SettledTruthfully`,
  `RetryHistoryComplete`, `DlqHasTerminalAttempt`, `DeliveredMeansReceived` and
  `BreakerConsistent`. `SettledTruthfully` alone is not inductive: it says nothing of
  a message with work ahead. `SettledOrOwed` adds that: either some copy has its fate
  open, or the status is final and each missing record is owed by a call at a known
  place.
- `EngineInUseProofs` is about the engine with its surroundings.
  - Over DynamoDB: the refinement `ImplementsEngine` step by step, `SettledTruthfully`
    by the refinement, and that every write raises the version, since the put compares
    with the version it read.
  - With replays: `SettledOrStranded` and the record invariants. A replay puts a
    message back to pending under the feet of a running call, so `SettledOrOwed` fails
    and is replaced by `SettledOwedOrStored`, which also allows a message that a portal
    call has stored and has still to enqueue or that was stranded there.
  - `TripsOnlyAfterStreak`, with and without replays, for behaviours in which no two
    calls to one endpoint are at the same time between reading the circuit record and
    writing it (`OneCallPerEndpoint`). The invariant is `CountsReported`: a closed
    record counts no more failures than were reported since the last success, in the
    store and in the copy a call holds. The run `breaker_race` shows why the hypothesis
    is needed; one worker, as in `breaker_live`, always meets it.
- `IngestProofs` proves `IngestInvariant`: once the row exists it names the only call
  that may fan out, and that call has enqueued what it has ticked off. One event per
  key, receipts that agree and the counts of the receipts follow.
- `AlarmProofs` proves `AlarmInvariant`, which adds to `AlarmArmed` and
  `AlarmCoversEarliest` what the running handler knows: a row it will not send is one
  it found to be later, or one whose own alarm is set. The refinement of `RetryPort`
  follows.
- `SweeperProofs` has two invariants, both for any number of long retries.
  `RowInvariant`: a row lies in the second that was asked for, and the credits of a
  message cover the sweeps about to send it and the send its unclaimed row stands for.
  `DueInItsSecond` and `SentOncePerClaim` follow. `SweepInvariant`: a message of which
  no row was sent yet is in one place only and on the page of a sweep only when its row
  is due; a sweep whose row was not put anew since its claim has a claim no older than
  itself, and once it has sent the copy, that copy is queued or has settled the
  message. `LostByLateDelete`, `ClaimIsExclusive` and the refinement of `RetryPort`
  follow. The history variable `fresh` has the sweeps whose row was not put anew,
  `dropped` the messages of which a sweep deleted a row put after its claim.
- `RateLimitProofs` proves `RateInvariant`: a bucket, stored or held by a worker, has
  no more tokens than the grants it knows of leave. `GrantsWithinRate` follows.
  `RetryAfterSuffices` is arithmetic: the wait is the quotient of the missing tokens by
  the rate, rounded up, for every rate and burst.
- `DeliveryProofs` proves `TypeOK` and, with `ResultFits`, that the results of an
  attempt are among those `Engine` chooses from; that is what lets `Engine` leave the
  attempt out. `DeliveryInv` ties each phase of an attempt to the endpoint it read and
  the items the calls ask for, those a lagging replica may return included; from it
  follow `NothingLost`, `RefusedNeverPosted`, `DeliveredMeansAccepted`,
  `FanoutFollowsRegistry` and `WindowVerifies`, whose arithmetic is a lemma on rounding
  down. `BlockedIffReserved` compares the tests of `isBlockedIpv4` with the reserved
  blocks, for all addresses.
- `DeliveryLogProofs` has one invariant for each of the three properties.
  `StoredAndIndexed` adds to `StoredIsFound` that a message on its way into the index is
  in the table, and that a replica which has a message once does not lose it.
  `NumbersFresh` says that a number taken from the counter is in no row and in no other
  writer's hands; `AppendsKept` follows, since a row then replaces nothing.
  `ListingSoFar` says what a listing has read: every steady message up to the cursor, or
  of each object asked, every matching one unless the rows found crowd it out.
  `ListingComplete` needs facts about sort and slice besides: the rank of a row in a
  list is an injection into the numbers below its length, so a slice that leaves a row
  out is as long as its limit, and all it holds comes before that row. Rows that crowd
  out a message go on doing so as more are merged.

The `TypeOK` of `Engine`, `Ingest`, `Sweeper`, `AlarmScheduler`, `RateLimit` and
`DeliveryLog` is proved with these invariants and not repeated in the runs.
`CountsReported`, `SettledOwedOrStored`, `RowInvariant`, `StoredAndIndexed`,
`NumbersFresh` and `ListingSoFar` are parts of proofs; the runs check what follows from
them.

Only model-checked: liveness (`EventuallySettled`, `EveryRetrySent`,
`NoRetryForgotten`), which is out of the prover's reach. The violation runs are
counterexamples on small instances.

## Not modelled

- Text: payloads, headers, encodings, the digest itself (taken to be ideal), ids (taken
  to be fresh), how a host is read as an address, and IPv6 prefixes.
- HTTP routing of the portal and the ingest handlers, and construction of the adapters:
  they keep no state.
- Telemetry, which is told of an attempt after it is logged and never read back.
- Batches of the transports: a batch runs its records one after the other, a special
  case of what `Engine` allows. Platform limits on redelivery.
- The test doubles of `packages/testing` and `go/testing`. The Go port is modelled by
  the same modules where it does the same; the map names the TypeScript sources.
- The `ttl` of a `SCHED#` row (`scheduler.ts` 40), by which the table may drop a row
  long after it was due.
- Doubles: tokens of the rate limiter are exact fractions, where the code divides and
  rounds doubles.
- `description` and `rateLimit` of an endpoint, which no call changes once it exists.
