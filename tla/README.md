# CloudMesh: TLA+ models, model checking and proofs

CloudMesh is a multi-tenant gateway to LLM providers. Its processes keep almost
no state: circuit breakers, locks, key caches, token buckets, idempotency and
dedup keys are in Redis, usage, jobs, webhooks and invoices in Postgres, events in
NATS JetStream, queues in BullMQ. What is hard in it is what happens between two
commands to those services: several gateways, workers and clients interleave, die,
lose replies and retry. The modules here model that, one step per command, and
leave out formats, wording and metrics.

## 1. Inventory

| Component | State | Operations | Hard about it | Correct when |
|---|---|---|---|---|
| Circuit breaker (`packages/circuit-breaker`) | a Redis hash per provider | `withCircuitBreaker` (two Lua scripts around a call), `resetCircuit`, `forceOpenCircuit` | the report comes long after the attempt; a probing process dies; HSET and EXPIRE are two commands | one call admitted while half open, full quiet period, never half open for ever |
| Request deduplication (`requestDedup.ts`) | a Redis key, a pub/sub channel | leader and follower sides of `withRequestDedup` | publish, subscribe, recheck and listener in any order; dead leader; expired key | only real results; one execution when nothing fails |
| Chat pipeline (`modules/chat/routes.ts`, `billing.ts`, `billingLock.ts`, `idempotency.ts`, `semanticCache.ts`) | lock, idempotency key, cache row, `usage_records`, outbox | `POST /v1/chat` | check under a lock, spend after it; a failure between payment and record | bounded overage; what is served is billed, once |
| Model routing, retry, statistics (`resolveModel.ts`, `routing*.ts`, `featureFlags.ts`, `pricing.ts`, `retry.ts`, `resilience.ts`, `providerStats.ts`) | circuits and sample windows in Redis | budget downgrade, A/B selection, scoring, fallback, retry, sample | circuits change between the peek and the call; one step of several fails | goes where it was asked; outage means outage; honest samples |
| Streaming (`providers/*`, `sse.ts`, the streaming branch, `packages/sdk`, `sdk-python`, the dashboard's playground) | lines, frames, the client's buffer | `chatStream` of five adapters, three clients | frames split between reads; a stream cut anywhere; timeouts and retries | text in order and complete; usage billed; calls end |
| Outbox (`packages/outbox`) | `outbox_events` rows | `writeOutboxEvent`, `pollOutbox` in every gateway | publish and mark are two steps; several pollers; rows that never publish | no event lost |
| Event bus (`packages/events`, `modules/events/subscribers.ts`) | a durable consumer per subscriber | `subscribe` with ack, nak, term; five handlers | duplicates, late acks, `max_deliver` | audit rows once; no ack without effect |
| Webhooks (`packages/webhooks`) | endpoints, deliveries, a queue | register, delete, dispatch, deliver, retry | row and queue entry are two steps; an unawaited final write | nobody skipped; honest, final log |
| Async jobs (`packages/jobs`, `modules/jobs`) | a `jobs` row, BullMQ entries, usage records | submit, the worker, `replayJob`, `/ws/jobs/:id` | retries, stalls and replays of one row at once | prompts billed once; completed jobs billed in full |
| API keys and rate limit (`packages/auth`, `api/modules/apiKeys`, `tokenBucket.ts`, `platformEvents.ts`) | `api_keys`, a Redis cache, buckets, notice slots | create, revoke, resolve, admit, notify | a lookup that fills the cache after a revocation; clocks of several gateways | a revoked key stops working; admissions bounded |
| Sessions (`api/modules/auth`, the dashboard's route handlers) | refresh tokens in Redis, the cookie | register, login, refresh, logout, proxy | two refreshes with one token; answers out of order; rotated secrets | the browser keeps a usable session; a token is used once |
| Stripe billing (`api/modules/billing`) | `stripe_events`, invoices | the webhook | duplicates, order, a crash between record and effect | applied once, current, answered |
| Live statistics, pages, metrics, OpenAPI, deployment | little or none | | | not modelled |

Interaction: `ApiAccess` is the way in; the chat route routes (`Routing`), calls
the breaker through retry inside the dedup function, and streams (`ChatStream`);
it and the job worker write usage records and outbox rows; the poller moves those
to JetStream; subscribers turn them into audit rows, counters, emails and webhook
deliveries.

## 2. Modules

| Module | Models | Notes |
|---|---|---|
| `CircuitBreaker` | `circuitBreaker.ts` | the scripts are functions of the hash; a call is `Begin`, `Attempt`, then a report; every command can be lost |
| `BreakerContract` | the comment of `withCircuitBreaker` | abstract specification: three states, the calls let through and which of them are from before the opening; no clock |
| `Routing` | routing, flags, prices, retry, statistics | one request against circuits that any other request may change at any time; the scripts are `CircuitBreaker`'s without their clock; scores are in fixed point, scaled so that the latency term counts up to 10 s |
| `RequestDedup` | `requestDedup.ts` | a request stands for the payload of its `fn`; the recheck GET has two steps, execution and reply, because the listener is registered after the reply |
| `ChatRequest` | `POST /v1/chat` and the libraries it calls | a slot is one outstanding request; the dedup of `RequestDedup` is abstracted to `shared`; each response costs one unit of budget; a stream is `served` once its last chunk is sent, before its usage is recorded |
| `ChatStream` | adapters, streaming branch, SDKs, playground | composes the three ends of a stream; a piece of text is named by attempt, try and place; a frame arrives in two halves; a provider's connection can break or close at any place |
| `Outbox` | `outbox.ts` and `publish` of `bus.ts` | the duplicate window of JetStream is external |
| `EventDelivery` (extends `Outbox`) | `subscribe` of `bus.ts`, `subscribers.ts` | composes a durable consumer with the outbox that feeds it; one subscriber at a time, as they share nothing |
| `WebhookDelivery` | `packages/webhooks`, its routes and subscriber | the target guard as operators on addresses; the guard's check and the POST, which looks the name up again, are two steps; one delivery row is followed through the queue |
| `Jobs` | `packages/jobs`, `modules/jobs` | one row, several BullMQ entries; BullMQ's locks and stalls are external |
| `ApiAccess` | key cache, token bucket, notice slot | time in ticks of a fraction of a token; two histories count, for the window from each tick to now, the requests admitted and the ticks refilled twice |
| `Sessions` | `auth/service.ts`, dashboard handlers | token pairs are numbered in the order of issue; each knows how often the JWT secret was rotated since it was signed, and from which pair's token it was got |
| `StripeBilling` | the webhook route and service | one invoice |
| `MC*` | | instances for TLC |
| `Subsequences` | the filters of `coerceAbConfig` and of the clients' read loops | `Selected(s, S)`: the entries of a sequence whose places are in a set, defined by order statistics (`Nth`) and not by recursion, so that it can be reasoned about |
| `AccessProofs` | | theorems about `Sessions` and `ApiAccess` |
| `ChatProofs` | | theorems about `ChatRequest` and `Routing` |
| `DeliveryProofs` | | theorems about `Outbox`, `EventDelivery` and `ChatStream` |
| `CircuitBreakerProofs`, `RequestDedupProofs`, `JobsProofs`, `WebhookDeliveryProofs`, `StripeBillingProofs` | | theorems about the module of that name |

A proof module that is about two independent parts of the system extends the
modules of both; for that, the specifications of `ApiAccess`, `Routing` and
`ChatStream` are called `AccessSpec`, `RoutingSpec` and `StreamSpec`, with `Init` and
`Next` named accordingly. The others are called `Spec`.

A label of `pc` names the await a handler is at; an action is everything up to
the next await that touches shared state. A definition called a mutant in its
comment is a plausible error in the code; no specification uses it: it serves to
show that the property next to it would notice the error.

## 3. Runs

* **breaker** (2 callers that call again and again, threshold 2, window 2, open
  period 3, TTL 4, calls of at most 2, clock to 7). The open period is measured
  from the start of the failing call, so a call of 2 that began just after it is
  still running when the probe is admitted: the two callers are a probe and such a
  straggler. The clock is long enough to open, expire and open again. Leftover
  counts never reopen a closed circuit (`ClosedBelowThreshold`), an open circuit
  lets one call through (`SingleProbe`: beside it only calls from before the opening
  run), the provider is left alone long enough (`QuietPeriod`), the breaker
  implements `BreakerContract` (`KeepsContract`), and a half-open circuit ends
  although the probing process may die (`HalfOpenEnds`).
* **dedup** (3 requests: a leader, a late leader after expiry, a follower). A
  behaviour is calm or not from the beginning. Not calm: every command, process
  and key may fail, and still only real results are returned (`ReturnedIsReal`)
  and every request ends. Calm: `fn` runs once (`OneExecution`).
* **chat** (2 slots, budget 1, 3 responses, one organization with a budget and
  dedup and one with the cache; all requests carry the key, which only adds to
  what requests without it do). Three responses are one more than the overage
  that `OverageBounded` allows. `ServedIsBilled` (with one event per record; it
  excepts a stream that was sent and whose handler failed or has not reached its
  record), `ReleaseOnlyOwn` (an expired holder leaves another's lock alone),
  `RequestEnds`.
* **events** (4 subscribers, 2 events, one poisoned, 2 workers, 2 copies in the
  stream, 2 deliveries each): `AuditOnce`, `AckedIsLogged`.
* **delivery_live** (2 pollers, 2 events of which NATS refuses the older, batch
  of 2): `EventuallyLogged` behind a row that never publishes.
* **jobs** (2 runners, both job types, 2 items, 2 attempts, 1 stall, 2 entries,
  that is one replay): `PromptBilledOnce`, `CompletedIsBilled`, `EntryEnds`.
* **webhooks** (2 endpoints that ask for various event types, 2 runs of the
  handler, 2 workers, 2 attempts, 1 stall; targets that are public, mixed,
  repointed, gone or plain http): `FannedOut`, `PostsBounded`, `HonestLog`,
  `DeliverySettles`. Two assumptions of `MCWebhookDelivery`, which TLC evaluates,
  compare the guard's mask arithmetic with the ranges written out, for all pairs
  of leading octets and all IPv6 groups concerned.
* **access** (2 requests at a time, 4 in all, one clock a tick ahead, capacity 1,
  half a token per tick, 6 ticks: more than two cache TTLs and two windows):
  `RevocationSticks` and `RevocationBounded` (how long a revoked key lives),
  `AdmissionBounded` in every window, `OneNoticePerWindow`.
* **sessions** (2 tabs, 3 token pairs, 2 registrations; the JWT secret is rotated
  and the cookie secret changed any number of times). Three pairs are a login and
  both refreshes of a race. `CookieUsable`: the token in the cookie verifies, with
  the current or the previous secret, and its key is there. `ReplayRefused`: a token
  that is sent again is refused, unless two refreshes of it overlap. `OneAccount`.
* **stripe** (2 invoice events and one of another type, 2 handlers, 2 faults,
  which may hit one event twice or both): `AppliedOnce`, `InvoiceCurrent`,
  `EventSettles`.
* **stream** (5 providers, 3 clients, 2 pieces of text, 2 gateway tries, 2 client
  attempts): `DeliveredIsPrefix`, `DoneMeansKept`, `UsageBilled`, `CallEnds`. Two
  pieces are enough to lose, repeat or mix one.
* **routing** (3 models of 2 providers at the shipped prices, an A/B split with a
  weight that is dropped, 2 attempts, threshold 2): `RoutedAsAsked`,
  `UnavailableMeansOutage`, `SamplesHonest`, `RoutingEnds`. `RoutedAsAsked` does not
  say which candidate the scores should prefer: see routing below.

`CHECK_DEADLOCK FALSE` is set where a finite set of requests, events or entries
is used up and the system rests.

### What the models admit

These behaviours are reachable in the models, and no property denies them; a
property that is about one of them excepts it by name. Where a comment, doc or test
of the repository reads otherwise, it is named: there the code does less than the
comment says, and the properties state what it does.

* Breaker and retry: a call from before the opening can settle another call's
  probe, which `BreakerContract` allows and `circuitBreaker.ts:124` does not ("exactly
  one probe request [...] CLOSED on a successful probe or back to OPEN on a failed
  one"). The last attempt of a request can be refused by the circuit its own attempts
  opened; the request then ends with 503 and leaves no sample, although real calls
  failed (`resilience.ts:52`: "no real call happened"). A Redis failure of the ATTEMPT
  script is recorded as a failure of the provider.
* Routing: `getCircuitState` returns the stored "open" also when the open period
  is over, so traffic that only asks for `auto` never probes that provider: the
  key's TTL or an explicit request must. A half-open circuit counts as routable,
  so an `auto` request can be refused with 503 while a probe is out. With the
  shipped prices the cost term alone decides the score, whatever the preset: the
  reciprocal of a price per thousand tokens is in the hundreds or thousands, the other
  two terms are at most 1, so an organization with `latency_optimized` gets the cheapest routable
  model even if another is faster and more reliable (`routingScoring.ts:14-20`: presets
  are "what "auto" actually optimizes for"; `packages/sdk/README.md:51`: "scored on
  cost, latency and reliability"). No property asserts the one or the other. The error
  for an unknown model cannot occur, because Ollama's rule matches everything.
* Dedup: a follower whose recheck comes after a failed leader's DEL and PUBLISH
  waits for its whole timeout (`requestDedup.ts:31`: "rather than leaving followers
  to wait out the full TTL").
* Chat: the idempotency key is not reserved, so a retry sent while the first
  request is at work is billed too (`packages/sdk/README.md:65`: "a retry can't
  double-bill you"). A cached response whose usage record failed is served unbilled.
  A stream is sent before it is recorded, so one whose record fails is never billed
  (`chat/routes.ts:213-216`: "an unbilled streamed request is a real revenue gap");
  `ServedIsBilled` excepts it (`unended`).
* Streams: a stream whose usage record or idempotent store fails leaves its
  connection open; the SDKs' timers end the call, the playground has none. The SDKs
  skip an error frame, so a broken stream looks like a short one; the playground
  appends the word "undefined" for it. A replayed key answers a streaming client
  with JSON, which it reads as an empty stream. OpenAI's streams are billed with
  zero usage. A provider connection closed early but cleanly is recorded as a
  success, billed and stored (`chat/routes.ts:547-550`: "A broken/partial stream must
  never be recorded as a successful result"); `DoneMeansKept` and `UsageBilled` except
  it (`early`). The Python client does not retry a timeout while it waits for the
  response, and cannot send a key with a stream.
* Events: an event republished after the duplicate window is in the stream twice;
  `max_deliver` failures in a row lose an event for its subscriber; the billing
  subscriber only acknowledges; an email that Resend refuses is lost.
* Webhooks: a handler that fails half way starts over with new rows, so endpoints
  done before get the event twice and the abandoned rows stay PENDING. The guard
  resolves the target's name and `fetch` resolves it again, so the address that was
  checked need not be the one that is used.
* Jobs: two replays can both find DEAD_LETTER and both enqueue
  (`jobs/src/service.ts:225`: "would put two live executions on the same row"); a
  job that finishes between the WebSocket route's read and its SUBSCRIBE leaves the
  client waiting (`wsRoutes.ts:54`); the unawaited `markJobFailed` of a first
  attempt can overwrite COMPLETED; a row whose enqueue failed stays QUEUED; the
  budget is checked once, at submission.
* Keys and limits: a lookup that overlaps a revocation brings the key back for one
  TTL, and a lost DEL leaves it there as long (`apiKeys/service.ts:128-129`: "A
  revoked key must stop working immediately, not after the Redis cache TTL expires");
  `RevocationBounded` says for how long. A gateway with a slower clock sets
  `last_refill` back, and the time between is refilled twice.
* Sessions: two refreshes that overlap both get a pair from one token, and both pairs
  stay live (`auth/service.ts:125-134`: "a replayed, already-rotated refresh token fails
  here, which is the reuse detection this scheme relies on"); `ReplayRefused` excepts
  them (`raced`). A logout that overlaps a refresh leaves the new pair live until it
  expires; a refresh whose answer is lost forces a login; a changed
  `SESSION_SECRET` logs everyone out.
* Stripe: a repeat is answered 200 while the first run is still at work; if that
  run then dies, the update is lost (the code's comment accepts this); events that
  overtake each other set the status in the order they arrive.

## 4. Assumptions and fairness

* One clock for Redis and all gateways, except in `ApiAccess`, where each
  request's gateway has its own.
* `MaxCall` bounds a provider call. The gateway sets no timeout of its own on a
  call, so this is an assumption on providers and their HTTP clients; it may be
  longer than the open period. Only `QuietPeriod` depends on it, and the proofs hold
  for every value.
* `MaxWait` of `ApiAccess` bounds the time between a key's lookup and its SET.
* Breaker: time passes, and a call in progress ends (the process runs its
  continuations, or dies).
* Routing, dedup, chat: a handler that has begun is carried on, and no fault is
  needed to end it. A waiting follower's timer fires. The lock's expiry is **not**
  assumed: requests end without it, because the lock's retries are counted.
* Stream: only the SDK's own steps and its timer are fair; nothing is assumed of
  the gateway or the provider.
* Outbox: pollers run. Of the times a poller is at a given row, not all end in a
  crash or an error (strong fairness), except that NATS may always refuse some
  events. Those must not fill a whole batch: `pollOutbox` always takes the oldest
  rows.
* Events: workers run and ack waits end. No fairness on handlers succeeding:
  `EventuallyLogged` excepts events whose deliveries are used up.
* Jobs, webhooks: workers take entries and carry them on; a lock that nobody
  renews expires; the listener's promise settles, in success or in error.
* Stripe: a handler that has an event goes on, and Stripe repeats each event it
  has had no 200 for (strong fairness: the handlers may be busy at times). `MaxFaults`
  bounds the crashes and errors, so not every repeat fails.

Bounds that only cut the state space: `MaxTime`, `MaxResponses`, `MaxCopies`,
`MaxEntries`, `MaxRuns`, `MaxRequests`, `MaxTokens`,
`MaxSamples`. Each is in the guard of the action that counts.

## 5. Proofs

The theorems hold for every value of the constants that satisfies the module's
named assumption. Those assumptions only say that bounds are natural numbers, that
the special values (`None`, `Absent`, ...) are none of the ids, that inputs are of
the kinds the code knows, and that sets the model counts (slots, tabs, events) are
finite. A proof has three parts: the initial states
satisfy the inductive invariant, every action keeps it (a lemma per action or kind
of action), and it implies the property. Each invariant was first checked by TLC on
the instance of its run.

**`CircuitBreakerProofs`**

* `BreakerSafety`: types, `ClosedBelowThreshold`, `HalfOpenIsLeased`. The types
  with those two are inductive together: a half-open circuit is leased because
  the only step into that state runs EXPIRE, and no step but that into another
  state clears `probeTaken`.
* `QuietPeriodHolds`: the invariant adds that `openedAt` lies at most `MaxCall`
  before the moment the circuit opened.
* `SingleProbeHolds` and `BreakerKeepsContract`, for calls of any length: the
  history `late` holds the calls that were in progress when the circuit last opened.
  The invariant says that while the circuit is open every call in progress is late,
  and while it is half open all but one; `SingleProbe` alone says nothing of an open
  circuit, from which the probe is admitted.

**`RequestDedupProofs`**

* `DedupSafety` (types, `ReturnedIsReal`, and that no request throws the error of
  another's `fn`, `ErrorIsOwn`). The invariant says that whatever is on its way to
  a follower, in the key, a message or the reply of a recheck, is the payload of an
  `fn` that has resolved, and that a request which has not reached the end of its
  `fn` has not run it.
* `DedupOneExecution`: while nothing fails, `fn` runs once among any number of
  requests. The key tells that one request leads (`CalmInv`); the hard part is that
  no follower times out. A follower whose recheck found no payload was subscribed
  before that recheck, and the leader stores before it publishes: so the leader is
  still at work, or its message is in the inbox. That is the reason for the second
  GET of `waitForLeader`.

**`DeliveryProofs`**

* `DeliverySafety` and `DeliveryAckedIsLogged`: types, `PublishedIsStored`,
  `AuditOnce` and `AckedIsLogged`. The properties are about what is recorded in the
  end; the invariant adds what holds between two steps. A row about to be marked is
  in the stream, which is what makes the later UPDATE of `published` safe, and so
  is every id in the duplicate window, because a publish that JetStream drops as a
  duplicate counts as a success. A message about to be acknowledged has had its
  effect, and a message that is ready has deliveries left.
* `StreamDelivery`, `StreamDone`, `StreamUsage` (`DeliveredIsPrefix`,
  `DoneMeansKept`, `UsageBilled`), for any set of providers, length of the answer,
  tries and attempts. The properties speak of what the client has; what is inductive
  is what lies between the gateway and the client (`StreamInv`). The halves in the
  client's buffer and on the wire are together those of whole frames (`Paired`):
  this is what a read that ends in the middle of a frame keeps, and what a parser
  that dropped its rest would break. Those frames are first the pieces that the
  gateway has written and the client has not read, in order and numbered on from
  there, and then the end of the stream, in which an error follows the text at once
  and `[DONE]` is last and stands for bookkeeping already done (`Flow`). A connection
  that breaks after the last chunk puts an error behind the final frame, which `Flow`
  allows. That a stream which neither broke nor was closed early has the whole text
  is `WholeText`. Of the five
  adapters the proof uses two facts, which follow from the places of their lines for
  every length: a chunk without text is the last, and the last chunk has the usage,
  but OpenAI's (`LastChunk`); the number of pieces in the lines so far is the number
  the handler has seen (`ChunkFollows`).

**`ChatProofs`**

* `ChatOverageBounded`: usage records and requests between the budget check and
  their record together stay below `Budget` plus the number of slots (`SpendInv`).
  The lock plays no part in it: a check that passes sees fewer records than the
  budget, and there are no more requests than slots. So the bound survives
  an expired or lost lock.
* `ChatServedIsBilled`: without the semantic cache, a plain response is answered or
  stored under the idempotency key only after its record (`BilledInv`), and a record
  is written together with its event (`EventInv`). A stream is served before its
  record; until its handler has ended well it is in `unended`, and so is one whose
  record failed. The theorem excepts these, and says that nothing else is unbilled.
* `ChatReleaseOnlyOwn`, an action property: no step out of the critical section
  frees a lock that another slot holds.
* `RoutingOutage`, `RoutingSamples` (`UnavailableMeansOutage`, `SamplesHonest`): the
  loop of `resolveOpenCandidates` peeks at one circuit after another while others
  change them, so its result says nothing of one moment. Its invariant (`PeekInv`)
  is that a candidate already passed is in the list, or its circuit was open at some
  time since the request began. `SampleInv` says at which steps an outcome is known
  and not yet recorded.
* `RoutingAsAsked`, without any assumption on prices: what is selected is a member
  of the list that was scored or drawn from, because an order statistic of a set of
  places is in the set (`Nth`), and `PeekInv` says that a variant that is not in the
  list was open since the request began.

**`JobsProofs`**

* `JobsPromptBilledOnce`, `JobsCompletedIsBilled`: an attempt at prompt *n* has all
  prompts before *n* in `usage_records`, put there by itself or an earlier or
  concurrent attempt (`BilledInv`, `AtPrompt`). `BeforeInsert` says that a job's
  type never changes under a runner: nothing runs before the row exists.

**`WebhookDeliveryProofs`**

* `WebhookPostsBounded`: POSTs sent, about to be sent, and the entry that waits are
  together at most one for the entry, one for each retry granted and one for each
  stall (`PostsInv`). It counts workers that lost their lock and still post, which
  is why a bound on `posts` alone is not inductive.
* `WebhookHonestLog`: as long as no fault has hit the delivery, only the owner of
  the lock works on it, and `AttemptInv` says at each of its steps what was sent,
  answered and logged; an entry that is gone has its outcome logged, or exactly one
  write of the listener is on its way (`OutcomeInv`).
* `WebhookFannedOut`, an action property: an endpoint of the audience is still to
  be done, is being done, has its delivery queued, or was deleted (`FanInv`). The
  proof needed one more fact than was first written down: an endpoint that the
  run has read was registered, so a registration under way cannot join it.

**`AccessProofs`**

* `SessionsOneAccount`, `SessionsCookieUsable`, `SessionsReplayRefused`: a pair on
  its way to the browser is not in the cookie, not held by a request and in no
  other answer (`AnswerInv`), so whichever answer arrives last leaves a pair whose
  key nobody has deleted (`CookieInv`). A token from which a pair has been got is not
  live and no refresh holds it past its GET; a token at such a refresh is held by one
  tab only; tokens of refreshes that overlapped (`raced`) are excepted (`ReplayInv`).
* `AccessRevocationSticks`, `AccessRevocationBounded`, two action properties: a
  lookup that is about to fill the cache of a revoked key began before the revocation
  (`CacheInv`) and is no older than `MaxWait` (`WaitInv`). So there is a last such
  fill, and the entry outlives it by one TTL at most.
* `AccessOneNotice`: every event written, and every claim that is about to write its
  own, has used up a whole window (`NoticeInv`); the count has to include the claims,
  or two of them could follow each other into one window.
* `AccessAdmissionBounded`: for each window, what was admitted and what the bucket
  could give to the fastest clock (`Credit`) together never exceed the capacity, the
  ticks that have passed, the skew and what slower clocks set back (`WindowInv`). A
  call spends credit for what it admits, a tick adds one unit. The hypothesis
  `SmallSkew` says that the TTL of the bucket is at least the time to fill it and the
  skew: then a bucket that expires had been full for every clock, and starting over
  gives nothing away. The code's `ttlSeconds` is the time to fill and 60 seconds, so
  the hypothesis is that two gateways' clocks differ by less than a minute.

**`StripeBillingProofs`**

* `StripeAppliedOnce`: the row of `stripe_events` is a licence to apply the event,
  given to one handler (`LicenceInv`).
* `StripeInvoiceCurrent`: while Stripe keeps the order, only the newest event can
  still reach the invoice (`OrderInv`), and a 200 is sent only for what is recorded
  (`SentInv`).

Every safety property that a passing run checks, invariant or action property, is
stated by a theorem. Where a proof needs a set's least or *n*-th element, or the
first line with some property, it argues from the minimum of a set of numbers
(`MinMember`), which follows from the library's well-foundedness of `<`: the provers
can use that, and cannot use its induction rules.

Only model-checked:

* all liveness (`HalfOpenEnds`, the two `RequestEnds`, `RoutingEnds`,
  `EventuallyLogged`, `EntryEnds`, `DeliverySettles`, `EventSettles`, `CallEnds`): it
  rests on fairness, which is out of the prover's reach;
* the address arithmetic of the webhook guard, which TLC evaluates in full.

## 6. Not modelled

* the monthly reset and the override of an organization's budget, unlimited
  budgets (an organization without the billing flag stands for them), the jobs of
  a user without an API key, priorities of jobs;
* `fixedWindow.ts`, `slidingWindowCounter.ts`, `slidingWindowLog.ts`, which only
  tests call; the `provider.degraded` notice and the counter of A/B selections,
  which repeat a pattern that is modelled or are only reported;
* creating Stripe customers and subscriptions, thin calls of an external service;
* signatures, password hashes and token encodings: they are assumed to do what
  they are for;
* similarity search, embeddings and the translation of third-party formats;
* live statistics, dashboard pages, OpenAPI documents, metrics, telemetry and
  manifests, which keep no state of their own that the modelled parts read.
