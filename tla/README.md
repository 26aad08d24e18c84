# food-delivery in TLA+

Specifications, model checks and proofs of the food-delivery services: the
order service with its transactional outbox and polling relay, the payment
service with its consumer of order events and its provider client, the auth
service's sessions, the way of an order through these services, and the life of
a service process. Everything is translated from the Go source; line numbers
of each definition are in `PROJECT.json` under `map`.

Run `tlc -config <run>.cfg <MC module>` for a model check and
`tlapm <Module>_proofs.tla` for the proofs about a module.

## The system

```
 client --HTTP--> order service --tx--> orders, outbox (PostgreSQL)
                                            |
                         outbox relay(s) ---+--> Kafka topic order.events
                                                     |
 client --HTTP--> payment service <--- consumer(s) --+
                    |        \--tx--> payments, payment_outbox (PostgreSQL)
                    +--> provider client (deadline, breaker, bulkhead, retries) --> provider

 client --HTTP--> auth service ---> users (PostgreSQL), refresh keys (Redis)
```

| Component | State | Operations | What is hard | Correct when |
|---|---|---|---|---|
| Order service | `orders`, `outbox`; an aggregate in memory per request | Create, Confirm, Cancel | read and write are separate visits to the database, no lock, no version; the 503 of the timeout handler can follow a commit | status and events are stored together, answers are true, decisions are final |
| Outbox relay | `published_at`; locks of its batch | poll: lock, publish, mark, commit | Kafka is outside the transaction; replicas; a `continue` after a failed row; `return` on a deadline | at least once, in order per order, in the end |
| Payment service | `payments`, `payment_outbox`; the provider's ledger | Create, MarkPaid, MarkFailed, Refund | a provider call between read and write; repeated commands; lost answers | money, row and events agree, or somebody was told |
| Consumer of order events | committed offset, position, message in hand | fetch, handle with retries, commit | redelivery, rebalances, restarts, look-then-create, commit after failure | one decided payment per order, no blocked partition |
| Circuit breaker | state, counters, openedAt | beforeCall, afterCall, State | results of older calls arrive in a later state | opens and closes as the thresholds say, recovers |
| Provider client | bulkhead slots, attempts | RoundTrip through the stack | deadline in any stage; ambiguous failures | nothing leaks, every call ends, success was carried out |
| Retry policy | attempt, wait | Do | boundaries and meaningless settings | bounded attempts, bounded exponential waits |
| Auth sessions | users, refresh keys, cookies | Register, Login, Refresh, Logout | Redis and PostgreSQL calls with nothing held between | sessions are neither lost nor left over unseen |
| Order pipeline | the outbox between service and relays, the partition between relays and consumers | every step of every part | reordering, duplicates and failures of one part meet those of the next | money follows requests, the services agree, events get through |
| Service process | how far `main` is, the pool, requests and worker on it | start, signal, Shutdown, deferred calls, `log.Fatal` | `ListenAndServe` returns while requests run; one pool for all; a signal or a broken listener at any time | a signal ends it, requests and the worker get their turn and end, only a signal or `log.Fatal` cuts a client off |

Hazards, each at its line and with the properties aimed at it, are in
`PROJECT.json` under `hazards`.

## Modules

| Module | Models | Abstract specification |
|---|---|---|
| `OrderService` | `order/domain`, `order/application`, the repository and the HTTP handlers | `OrderLifecycle` (the aggregate's lifecycle `Spec`, and `OutboxSpec`, which lets requests overwrite each other but never separates status and event) |
| `OutboxRelay` | `order/infrastructure/outbox_relay.go` and the Kafka publisher | `EventDelivery` (at-least-once delivery) |
| `PaymentService` | `payment/domain`, `payment/application`, the repository | `PaymentLifecycle` |
| `OrderEventsConsumer` | `payment/infrastructure/order_events_consumer.go`; EXTENDS `PaymentService`, whose commands it issues next to the HTTP requests | properties of the composition |
| `CircuitBreaker` | `shared/resilience/circuitbreaker.go` | properties over its history |
| `ProviderClient` | the stack built in `payment/cmd/app/main.go`; EXTENDS `CircuitBreaker` | `ProviderCall` |
| `RetryPolicy` | `shared/resilience/retry.go` | closed form of the backoff |
| `AuthSessions` | `auth/internal` | invariants |
| `OrderPipeline` | the composition of `OrderService`, `OutboxRelay` and `OrderEventsConsumer` (each an INSTANCE) over one outbox and one partition | properties of the composition |
| `ServiceProcess` | the five `main.go`, `http_timeout.go`, `database_pool.go`, and which key of `env.go` and auth's `config.go` decides | properties of the process |
| `OrderService_proofs`, `OutboxRelay_proofs`, `OrderEventsConsumer_proofs`, `ProviderClient_proofs`, `RetryPolicy_proofs`, `AuthSessions_proofs`, `ServiceProcess_proofs`, `OrderPipeline_proofs` | theorems about the module each is named after; those about `PaymentService` come first in `OrderEventsConsumer_proofs`, those about `CircuitBreaker` first in `ProviderClient_proofs` | |

`MC<Module>` instantiates `<Module>` for TLC. Operators named `Mutant...` are
definitions as a plausible mistake would have them; no specification uses them.
Each property of a passing run fails when the mutant listed for it in
`PROJECT.json` takes the real definition's place.

```
OrderPipeline --INSTANCE--> OrderService --> OrderLifecycle
              --INSTANCE--> OutboxRelay --> EventDelivery
              --INSTANCE--> OrderEventsConsumer --EXTENDS--> PaymentService --> PaymentLifecycle
ProviderClient --EXTENDS--> CircuitBreaker        ProviderClient --> ProviderCall
RetryPolicy      AuthSessions      ServiceProcess

<Module>_proofs --EXTENDS--> <Module>
OrderPipeline_proofs --INSTANCE--> OrderService_proofs, OutboxRelay_proofs, OrderEventsConsumer_proofs
```

### How state and actions correspond to the code

**OrderService.** `orders` and `outbox` are the tables. A request is `cmd[r]`
and `pc[r]`. `Create`, `Confirm`, `Cancel` are the part of a handler up to
`SaveOrder` (load, let the aggregate decide); `SaveOrder` is the transaction,
which upserts the row and inserts what `mapToIntegrationEvents` and the upcaster
leave; `SaveOrderFails` its rollback; `SaveOrderAnswerLost` a commit whose
answer is an error, because the connection broke or the timeout handler had
answered. A request that was told of an error is `failed` when its save was
rolled back and `unheard` when it was committed; `Committed` is the latter and
those answered 200. `Refuse` is every other ending. The status `draft` exists in
the aggregate only: `Create` places the order before its only save. User, item,
quantity and reason are left out: nothing but validation reads them.

**OutboxRelay.** A row is its rank by `created_at`. A relay's batch is one
transaction: `LockPendingEvents` (`FOR UPDATE SKIP LOCKED`, oldest first), then
for each row `Publish`, `PublishFails` or `PublishUnanswered`, then `Commit` or
`RollBack`; a crash is a `RollBack`. `late` holds the messages that nobody waits
for any more and that may yet `Arrive`: those of requests Kafka did not answer,
and that of the row a relay was at when its context was cancelled.
`WriteMessages` returns then and leaves its message in the writer's queue, and
the `Close` that `main` deferred sends it after the transaction has rolled back,
when another relay may have published and marked the row. A late message may
also be lost. `ConnectTimesOut` is the `return` at `outbox_relay.go:48`: the
pool's connect timeout wraps `context.DeadlineExceeded`. `retry_count` is
written and only logged. The Kafka writer's own retries are an unanswered
publication followed by another; what Kafka does with accepted messages is
outside. `RefusedKeys` are the keys whose rows Kafka never takes: a payload can
carry a reason of any length, the broker has a maximum, and such a row stays the
oldest pending one.

**PaymentService.** A command is a load with the aggregate's decision (`Create`,
`MarkPaid`, `MarkFailed`, `Refund`), the provider's part where money moves
(`ProviderAccepts`, `ProviderFails`), and the save (`Save`, `SaveFails`,
`SaveAnswerLost`). `captures` and `refunds` are the provider's ledger, which no
rollback touches. `created` is the order of `created_at`, which
`GetByOrderID` sorts by. A row carries status, reason and whether `paid_at` is
set. The provider is called before the save and the aggregate is in memory
until then, so a `Create` whose save fails leaves nothing. Currency is left
out, and amount but for what `fits` says below.

**OrderEventsConsumer.** One partition with a fixed content, consumed by a
group. `position` is the reader's, `offset` the committed one. The handler is a
walk through `stage`: `Look` plans a command from the payment found, `Issue`
starts it (it loads the payment again and may refuse), `CommandStep` takes the
steps of `PaymentService`, `CommandSucceeded` and `CommandFailed` take its
answer, `Reload` is the last `GetByID`. `ReturnError` is the retry policy around
the whole handler. `Commit` follows in every case, as in `Run`. `fits` says
whether `PAYMENT_DEFAULT_AMOUNT`, an int64, can be held by the column,
DECIMAL(10, 2); where it does not, every save of a payment the consumer created
fails, at every attempt, and is no counted fault. `Rebalance` moves the
partition while the old owner may be in a handler; its commit afterwards is
taken all the same (`Commit`), for the coordinator looks at member and
generation and not at the partition, and may put the offset forwards or back,
unless its membership is out of date (`CommitRejected`); `Restart` loses
everything in memory; `Shutdown` cancels the context, and the commit with that
context may or may not take place. The second `MarkPaid` of `handleOrderPlaced`
(line 171 after a creation) is not an action: it would run when a payment just
paid is still pending, and `ReloadNeverPays` proves that it never is.

**CircuitBreaker.** `beforeCall` and `afterCall` are atomic (a mutex), the call
between them is not. The clock is the predicate `elapsed`. `recent` is a
history of the last results for the properties, in which the failure that set
`openedAt` (`Arm`) is told from the others (`CountFailure`); it does not
influence anything.

**ProviderClient.** A call goes through `stage`: the breaker (`Call` or
`CallFailsFast`), the bulkhead (`TakeSlot`, `LeaveQueue`), attempts (`Send` and
their ends) and backoffs (`Wake`). `Expire` is the `http.Client`'s deadline.
The breaker sees one result per call, whatever the number of attempts.

**RetryPolicy.** `Do`, with `NewRetryPolicy` and `backoffForAttempt` as
functions. `config` is the policy as the environment gave it and `policy` what
`NewRetryPolicy` made of it; `BoundedAttempts` compares with the former. Jitter
is applied after the cap, so a wait may exceed `MaxBackoff`;
`ExponentialBackoff` states the bound with the jitter.

**AuthSessions.** `store` is Redis, `held` the tokens clients have, `over`
those whose JWT has expired. A refresh checks, deletes the old key (`Revoke`),
then stores the new one (`Save`). `session` and `opened` in `issued` are
history for the properties. Access tokens are stateless and left out.

**OrderPipeline.** The outbox the service fills is the relay's outbox (`Keyed`:
a row's Kafka key is its `aggregate_id`), and what the relays sent is the
consumer's partition (`Partition`: event name and order from headers and
payload). A step is one part's step. `Serve` is the order service, `Relay` a
relay, `Consume` a consumer at work, `ConsumeBadly` its faults. Requests to the
payment service are left to `payment_overlap` and `consumer_group`.

**ServiceProcess.** `main` is the program counter of the function of that name,
`service` says which of them it is, and `env` the settings that make a
difference. `Launch` starts the shutdown goroutine, which calls `Shutdown`
(`BeginShutdown`) once the signal has cancelled the context; `ServerClosed` is
`ListenAndServe` returning at that, before the requests have ended; `ClosePool`
and `Exit` are the deferred calls, of which `pool.Close` waits for all
connections. A request makes visits to the database, each of which takes one
connection (`AcquireConn`) and gives it back (`VisitEnds`); the worker is the
relay, whose batch holds one connection from `BEGIN` to `COMMIT`, or the
consumer. `Expire` is `http.TimeoutHandler`. `FromEnvMany` is `IntFromEnvMany`
and its like: the first key that is set decides, even if it does not parse.
`Int32` is the conversion of the pool size. `StartupFails` is every
`log.Fatal` of a start, and `ServeFails` the one behind `ListenAndServe`, when
`Accept` fails for good while requests and the worker are at work: the process
is gone at once, its transactions are left to PostgreSQL, which rolls them back,
and its clients are cut off. What the pool and the server do by themselves is
external, modelled from how it is used.

## Runs

Passing runs:

| Run | Bounds | Shows |
|---|---|---|
| `order_overlap` | 2 orders, 4 overlapping requests | `OutboxComplete`: an order's row and its OrderPlaced exist together, a cancelled order has its OrderCancelled. `PlacedOnceAndFirst`. `AnswersHonoured`: what was answered is true of the tables. `CancellationsAccountedFor`: no OrderCancelled without a request whose save was committed. `ImplementsOutbox`: every step is one of `OrderLifecycle!OutboxSpec` |
| `relay_replicas` | 2 relays, batches of 2, 3 rows of 2 keys, one of them refused by Kafka, 2 faults, connect timeouts | copies of a row are at most one more than the faults; `ImplementsDelivery`: a row is marked only if it is in the topic, and no sending of it begins after the mark (what was handed over before may still arrive); `PublishedWhileARelayRuns`: every row Kafka takes is published, unless each relay has been stopped or as many older rows as a batch holds are refused |
| `payment_overlap` | 2 payments, 4 overlapping commands | rows can always be reconstructed; an event says which statuses were stored; events have money behind them; money without an event was reported as an error |
| `consumer_group` | 2 consumers and 1 HTTP request, 3 payments, topics of 3 messages, 2 faults (rebalances, restarts and shutdown included), 2 attempts, amounts that fit or never do | redelivery alone adds no payment, rebalances and requests add one each at most (`ExtraPaymentsExplained`); it adds no capture either, only failures, rebalances and requests do (`ChargesExplained`); behind the committed offset every placed order has a decided payment, or its loss was logged; a cancelled order is settled |
| `breaker_streaks` | 6 calls, thresholds 3 and 2, ignored errors | it opens on that many failures in a row or one while probing, closes on that many successes in a row while probing; late failures begin its time-out anew by as many in a row and by nothing less (`RearmsOnStreak`); it closes again when calls succeed |
| `provider_client` | 3 calls, 1 slot, 2 attempts | slots and the breaker's calls in flight are exactly those of live calls; `ImplementsProviderCall`; every call ends |
| `retry_policy` | 384 raw configurations, zero and negative ones included | `BoundedAttempts`: as many attempts as configured, or three where that is no number, and an error worth retrying given up only after exactly so many; the waits |
| `auth_overlap` | 4 overlapping requests, 4 tokens, 2 passwords | sessions belong to whom they say, none is lost, leftovers were reported, and a session with two live tokens comes from refreshes that overlapped |
| `pipeline` | 1 order, 2 requests to it, 1 relay with batches of 2, 1 consumer, 2 payments, 1 fault of the relay and 1 of the consumer, connect timeouts, 2 attempts, amounts that fit or never do | `MoneyFollowsRequests`: no payment without an order, none given back without a cancel whose save was committed (a rolled-back one does not do); `ServicesAgree`: with everything handled, nothing abandoned and each order's events in order, the payment is what the order says; `EventsGetThrough`: a recorded event is published, fetched and done with, also behind messages that can never be handled; the type invariants of the four composed modules (`PipelineTypeOK`) |
| `service_process` | 5 services (two alike), 2 requests of up to 2 visits, 8 settings, PostgreSQL that answers or hangs | `SignalledExits`: a signal ends the process, whenever it comes; `RequestsEnd`: no client waits for ever, also with one connection for requests and worker, or with a listener that breaks; `WorkerGetsItsTurn`: the relay or the consumer gets a connection, however few there are and though requests hang on PostgreSQL until their deadline |

Runs that find a disagreement between the code and what the repository says of
it (quoted in `PROJECT.json`, `findings`):

| Run | Property | What happens |
|---|---|---|
| `order_race` | `DecisionIsFinal` | Confirm and Cancel both load the placed order and both are answered 200; the second save overwrites the first |
| `relay_order_lost` | `InOrderPerKey` | the relay goes on after a failed row, and a later event of the same order is published first |

Further configurations, for the questions the runs above leave. They are not in
`PROJECT.json` and are run by hand:

| Configuration | Property | Outcome |
|---|---|---|
| `relay_one_by_one` | `InOrderPerKey` | holds for 1 relay with batches of 1, whatever fails: it is the batch that loses the order |
| `consumer_liveness` | `PartitionDrains` | holds: the partition is consumed to its end, past messages that never decode |
| `payment_race` | `FailedIsFinal` | violated: a MarkPaid under way overwrites `failed`, which `payment-business-rules.md` forbids to leave |
| `payment_paid_twice` | `PaidOnlyOnce` | violated: MarkPaid of a paid payment succeeds and captures again |
| `consumer_shutdown` | `AbandonedAfterRetries` | violated: a message is committed after an attempt that shutdown cancelled |
| `provider_retries` | `RetriesStatusesOnly` | violated: `NewRetryPolicy` fills in `IsRetryable` before `NewRetryRoundTripper` looks, so network errors are retried too |
| `relay_stops` | `EventuallyPublished` | violated: a connect timeout ends the relay's goroutine for good |
| `relay_starved` | `EventuallyPublished` | violated: a batch full of rows that Kafka refuses is polled again and again, and rows behind it are never published |
| `consumer_rebalance` | `OnePaymentPerOrder` | violated: two consumers handle one OrderPlaced at once, and nothing in the table forbids two payments, though `order-business-rules.md:92` asks for idempotent consumers |
| `pipeline_group` | the invariants of `pipeline` | hold with 2 consumers |
| `pipeline_any_order` | `ServicesAgreeInAnyOrder` | violated: a failed publication lets OrderCancelled overtake OrderPlaced; it finds no payment and is dropped, and the cancelled order stays charged |
| `pipeline_confirm_race` | `ConfirmedOrdersStayPaid` | violated: the Confirm/Cancel race of `order_race` leaves a confirmed order with its money given back |
| `service_drains` | `NoAnswerCut` | violated: `main` returns as soon as no connection is out, and requests between two visits get no answer |
| `retry_invariants` | `TypeOK`, `RetriesJustified` | hold |

Some properties have no run because they are proved for all values of the
constants: `BatchesDisjoint` of the relay, `ReloadIsLast` of the consumer,
`PoolSizeFollowsKeys` and `StopsOnlyWhenTold` of a process,
`ImplementsLifecycle` of the order and the payment service, and the type
invariants of the modules they stand in.

### Why the bounds are enough

Rows of one order (payment, key) never depend on those of another, so one or two
suffice. Every race needs two actors on one row; the third and fourth request
create the row and come after the race. `MaxFaults` bounds failures in a
behaviour. A fault action is enabled anywhere, so two faults reach each pair of
failure points: a lost commit followed by a crash, which redelivers a message
after the ones that follow it were handled, or a rebalance followed by a failure
of either handler. What takes three failures is outside `consumer_group`. Its
three payments let an order get two more than the one it should have; the bound
of four that two rebalances and a request would allow cannot be exceeded there,
the smaller bounds of one to three can. Two faults in `relay_replicas` let one
relay leave a message behind and another publish and mark its row before it
arrives, or a late message go out twice; `pipeline_confirm_race`, where only the
requests race, has none. Six calls of the breaker leave five results to come in
after an opening, two streaks of it less one. `Attempts` is 1 in the
payment and consumer runs: more of them multiply what one command captures,
which `ChargesExplained` says for any number and `ChargesAreExplained` proves,
and are the subject of `provider_client`. `pipeline` needs one order only, since
orders meet nowhere but in the queues, and one fault on either side of Kafka: a
repeated publication with a repeated delivery, or a lost order with a restart.
`int32` is three bits wide (`Half` = 4) in `service_process`, which has settings
below, at and beyond its ends; two requests and the worker compete for pools of
one and two connections. Symmetry is used for invariants and action properties
only, on sets no definition orders, never with liveness.

Deadlock is checked where the system never stops, which is the circuit breaker.
`CHECK_DEADLOCK FALSE` stands where requests, commands and calls happen once
each, where the topic has an end, where relays may stop (see
`relay_stops`), and where the process exits.

### Fairness

- `OutboxRelay!FairSpec`: weak fairness of each relay's steps. `Run` is a
  goroutine in a loop and each call in it returns. Nothing makes rows appear or
  anything fail, and nothing makes a late message arrive; faults are bounded by
  `MaxFaults`, which says that failures stop at some time.
- `OrderEventsConsumer!ConsumerFairSpec` (only in `consumer_liveness`): weak
  fairness of each consumer's own work; not of faults, restarts, rebalances and
  shutdown.
- `OrderPipeline!PipelineSpec`: weak fairness of each relay and of each
  consumer's own work, as above; not of requests, faults and rebalances.
- `ServiceProcess!FairSpec`: weak fairness of the goroutines' own steps and of
  deadlines; strong fairness of getting a connection, because the pool queues
  those who wait; statements end unless PostgreSQL hangs (`hangs`), and then the
  liveness properties ask for a deadline (`HTTP_REQUEST_TIMEOUT` positive).
- `CircuitBreaker!BreakerFairSpec`: time passes, callers go on calling, and
  the calls they make succeed from some time on.
- `ProviderClient!FairSpec`: deadlines expire and the client's own steps are
  taken; the provider need never answer.

## Proofs

Each `<Module>_proofs` holds for every value of the constants that the
assumptions of `<Module>` allow: any number of orders, requests, relays, rows,
payments, consumers, messages, calls, tokens, faults and attempts. Every module
begins with a conjunction of named invariants that is inductive, proved with
one lemma per kind of step; the properties follow from it or are proved by one
more layer on top of it. `PROJECT.json` lists the results under `theorems`.

### Order service

- `TypeCorrect`, `TransactionalOutbox`, `PlacedIsFirst`, `AnswersKept`,
  `CancellationsCounted`: `TypeOK`, `OutboxComplete`, `PlacedOnceAndFirst`,
  `AnswersHonoured`, `CancellationsAccountedFor`.
- `OutboxRefinement`: `Spec => ImplementsOutbox`.
- `LifecycleRefinement`: `Spec => ImplementsLifecycle` under
  `Concurrent = FALSE`.

`RequestInv` ties a request to its order: one that is saving a Confirm or a
Cancel has an order whose row exists; one that is saving a Create has an
identifier nobody else holds and no row yet. It needs `FreshId`. `TablesInv`
adds that outbox rows belong to stored orders; without the first layer it is not
inductive, because a Confirm saved over a missing row would make a row with no
OrderPlaced, and a Create saved over an existing one would record OrderPlaced
twice. `CancellationsInv` counts: a step that adds an OrderCancelled adds a
committed cancel request, so both sets stay finite however many requests there
may be. The refinements map every step: a save is `Place` or `Store`,
everything else stutters; for the lifecycle, `Concurrent = FALSE` gives that
the row a request loaded is still what it loaded when it saves.

### Outbox relay

- `RelayTypeCorrect`, `BatchesAreDisjoint`: `TypeOK`, `BatchesDisjoint`.
- `CopiesBounded`: `DuplicatesNeedFaults`.
- `DeliveryRefinement`: `Spec => ImplementsDelivery`.

`RelaysInv` adds to disjointness that a relay outside a transaction has no rows
(`NothingBetweenBatches`), or the next batch would begin with the marks of the
last. `CopiesCounted` says what pays for a copy of a row, be it in the topic or
still `late`: the mark on the row, committed or in the hands of one relay, or
the fault that left the copy unanswered or forgot the mark.
`DuplicatesNeedFaults` by itself is not inductive: a late message that arrives
is one copy more without a new fault. `MarkedSent`, that a mark is on a row
Kafka has, gives the refinement, in which the rows of late messages are what is
`underway`: they may arrive after the mark, but no step puts a marked row there.

### Payment service

- `PaymentTypeCorrect`, `RowsAlwaysReconstruct`, `OutboxAlwaysTells`,
  `EventsBackedByMoney`, `SilentMoneyReported`: `TypeOK`, `RowsReconstruct`,
  `OutboxTellsStatus`, `MoneyBehindEvents`, `SilentMoneyWasReported`.
- `LifecycleRefinement`: `Spec => ImplementsLifecycle` under
  `Concurrent = FALSE`.

`PaymentInv` says what a command carries (`CommandsOK`), that what it loaded is
still stored (`LoadedStored`), and that creations under way have identifiers of
their own (`CreationsOK`). `LedgerInv` adds what a command knows of the past
(`JobKnows`): a MarkPaid that records nothing found `paid_at` set, one that is
saving has captured. None of that becomes false under overlapping commands,
because `paid_at` is never cleared and outbox and ledger only grow: this is why
the money invariants hold although statuses overwrite each other. For the
lifecycle, `OneAtATime` keeps what a command loaded equal to what is stored.
`Without`, which undoes an insertion, is stated with `SubSeq` so that the prover
can say what it leaves (`WithoutKeeps`).

### Consumer of order events

- `ConsumerTypeCorrect`, `ConsumerRowsReconstruct`: `ConsumerTypeOK`, and
  `RowsReconstruct` with the consumer's commands.
- `CommittedAreDecided`: `CommittedOrdersDecided`.
- `ReloadNeverPays`: `ReloadIsLast`, so the second `MarkPaid` of
  `handleOrderPlaced` is dead code.
- `ExtraPaymentsAreExplained`: `ExtraPaymentsExplained`.
- `CancelledAreSettled`: `CancelledOrdersSettled`.
- `MoneyIsAskedFor`: `PaymentsAskedFor`.
- `ChargesAreExplained`: `ChargesExplained`.

The proof builds on that of the payment service: every step of the consumer is a
step of `PaymentService` or a caller that forgets its command (`PaymentStep`),
so `PaymentInv` is kept, and no step takes a payment away, gives it to another
order or takes it back to pending (`RowsAdvance`). On this rests `ConsumerInv`:
what each handler has reached (`HandlerOK`), and what is settled behind the
offsets (`CommitsOK`): behind the committed offset each placed order is
decided, behind the position it is decided, or lost, or in the hands of a
handler. `Latest`, which is a CHOOSE of the newest payment, exists because a
bounded set of naturals has a greatest element (`GreatestElement`, from the
library's well-foundedness of finite sets).

`CountsInv` bounds payments and creations under way together
(`PaymentsCounted`): a handler that plans a creation has seen no payment, so it
pays with the one payment every order has a right to, with the rebalance that
superseded another handler (`SupersededCounted`), or with its own request. The
property by itself is not inductive, since a creation planned is a payment
later. The invariant carries the finiteness of the sets it counts, so none of
the constants has to be finite. `QuietInv` is the invariant for the case with no
rebalance and no request: `CountsInv` gives then one handler and one payment per
order, what the handler saw still holds when it acts (`QuietHandler`), and each
cancellation behind the offsets is settled or in hand (`CancelsOK`).

`MoneyIsAskedFor` says why a payment is what it is (`PaymentsAskedFor`): an
OrderPlaced of the topic or a request is behind each payment, an OrderCancelled
or a request behind each that is failed or refunded. Its invariant, `AskedInv`,
says the same of the commands under way and of what the handlers plan.

`ChargesAreExplained` bounds what the provider captured for an order, in all its
payments, by `Attempts` times what there was to pay for it. `ChargesExplained`
is not inductive: a handler on its way to the provider is a capture later, and
the bound does not say that its right to one is still there. `ChargesInv` keeps
account of who may still capture. A superseded handler that has neither captured
nor returned counts for itself (`Late`). The group's owner counts by payment:
one is `Open` while it is pending or the owner holds it to pay it, and no longer
once the owner has captured it, although the row still says pending. A request
counts while it calls the provider (`Paying`). What remains of payments, faults
and requests after these is the `Allowance`, and `ChargesCounted` says that the
captures are at most `Attempts` times as many. A capture takes its command out
of one of the three sets; a save that fails after the capture puts the payment
back, and is a fault; a rebalance moves the owner into `Late` and may reopen one
payment to the next owner, and the fault it costs covers the difference. With
the bound of `CountsInv` on payments, which pays for a creation with a rebalance
or a request, this gives the property.

The last section of the module shows that the invariants on which the pipeline
rests survive a topic that grows (`TopicGrows`), which in this module it never
does.

### Order pipeline

- `PipelineTypeCorrect`, `MoneyFollows`, `ServicesAgreeInTheEnd`:
  `PipelineTypeOK`, `MoneyFollowsRequests`, `ServicesAgree`.

The proof modules of the three parts are instantiated as `OrderPipeline`
instantiates the parts, and `PartsInv` is the conjunction of the invariants they
prove, each over its view of what the others keep. What is new is that the parts
meet as each one assumes: a step of the service gives the relays an outbox that
only grows (`RowsGrow`) and leaves the partition as it is, because the relays
have sent nothing beyond the old outbox; a step of a relay gives the consumers a
topic that only grows (`TopicGrows`). The lemmas `Same...` say that an action of
the part and of its proof module are the same formula.

The properties then take facts of all three. `MoneyFollows`: a payment has a
message behind it (`PaymentsAskedFor`, with no HTTP requests to the payment
service here), a message a row of the outbox, the row a stored order
(`RowsOfStoredOrders`), and an OrderCancelled a committed cancel request
(`CancellationsInv`). `ServicesAgreeInTheEnd`: every row that is marked is in the
topic (`MarkedSent`), so with everything handled its OrderPlaced is behind the
committed offset and the order decided (`CommitsOK`), with one payment
(`CountsInv`); if the order was cancelled, the outbox has OrderPlaced first
(`PlacedOnceAndFirst`), `InOrderPerKey` keeps the first copies in that order in
the topic, and `CancelsOK` says the payment was given back; if not, nobody could
have asked for that.

### Circuit breaker and provider client

- `TripsOnlyOnStreak`, `ClosesOnlyOnStreak`, `RearmsOnlyOnStreak`:
  `TripsOnStreak`, `ClosesOnStreak`, `RearmsOnStreak`.
- `ClientTypeCorrect`, `ClientLeaksNothing`: `ClientTypeOK`, `NothingLeaks`.
- `ClientKeepsTheBreaker`: `Spec => BreakerSpec`, so the breaker's theorems hold
  inside the client.
- `ProviderCallRefinement`: `Spec => ImplementsProviderCall`.

`BreakerInv` says that the counters are the tail of the history
(`CountersTell`). The case that needs care is `half_open`: failures counted
while the circuit was open stay in the counter, and the first result clears it
before it could pass for a streak. `ClientInv` adds `NothingLeaks`, the
finiteness of the calls that hold a slot (`HoldersFinite`, with `Calls` of any
size), and `AttemptsCounted`, which the refinement's bound on attempts needs.

### Retry policy

- `PolicyTypeCorrect`, `AttemptsAreBounded`, `RetriesAreJustified`,
  `BackoffIsExponential`: `TypeOK`, `BoundedAttempts`, `RetriesJustified`,
  `ExponentialBackoff`.

`PolicyInv` says that `NewRetryPolicy` makes sense of whatever it is given
(`Normal`), that the attempts it allows are those the environment asked for or
three (`Asked`, read from `config`), that a sleep is followed by an attempt that
is still allowed, and that an answer comes from an operation that was run. For
the waits the loop of `backoffForAttempt` is compared with `Doubled`, plain
doubling: `BackoffDoubles` says that the early stop at `MaxBackoff` and the cap
after the loop lose nothing. Both are functions defined by recursion. That they
exist, and that they agree at every argument, is shown by a least exception
(`NoLeastException`): a set of naturals each of which has a smaller one in the
set is empty, because intervals are well-founded under inclusion. This takes the
place of induction.

### Auth sessions

- `SessionsTypeCorrect`, `EarnedSessions`, `SessionsKept`, `OrphansReported`,
  `ForksAreOverlaps`: `TypeOK`, `SessionsAreEarned`, `NoSessionLost`,
  `OrphansWereReported`, `SessionsForkByOverlap`.

`SessionsInv` says what a request under way knows (`CommandsCarry`), that every
token was opened with the password its account has (`TokensEarned`), and that
Redis holds issued tokens under the account of their JWT (`KeysIssued`).
`ForksInv` is about the bearers of a session: its live tokens, and the refreshes
that have found their token and not yet stored the next. Unless two refreshes
were given one token of the session, it has one bearer (`OneBearer`).

### Service process

- `ProcessTypeCorrect`, `LeavesOnlyWhenTold`: `ServiceTypeOK`,
  `StopsOnlyWhenTold`.
- `PoolSizeCorrect`: `PoolSizeFollowsKeys`, for every environment.

`StopsOnlyWhenTold`: once it serves, `main` leaves only after the signal or by
`log.Fatal`, and a client is cut off only by one of these two. `ProcessInv` adds
what lies between the signal and the exit (`ToldFirst`): `Shutdown` runs only
after the signal, `main` gets past `ListenAndServe` with `ErrServerClosed` only
after `Shutdown`, and any other error is `log.Fatal`.

### Assumptions

The named ASSUMEs of the modules, which TLC evaluates in every run. Bounds are
naturals and limits positive, flags are Boolean, and the values that stand for
"nothing" are not among the real ones. `ConsumersAssumption` says that consumers
are callers of the payment service, `ReasonAssumption` that their reason is one
of its reasons, `TopicsAssumption` that a topic is a sequence of messages.
`RequestsAssumption` has the requests to the auth service finite, for
`SessionsForkByOverlap` counts the refreshes of a token. `UnsetAssumption` tells
settings that are missing or do not parse from numbers.

### Only model-checked

- Every liveness property (`PublishedWhileARelayRuns`, the breaker's recovery,
  the ends of calls and requests, `WorkerGetsItsTurn`, `SignalledExits`,
  `EventsGetThrough`): fairness and ENABLED are outside what the prover handles.

Every invariant, action property and refinement that a passing run checks is a
theorem.

## Not modelled

Which access token is valid: the check is stateless and comes before the
handlers; that it may turn a request away is in `ServiceProcess`. Of the
configuration, what `ServiceProcess` does not read is a constant of the module
that uses it. Migrations run before the services. Metrics, logging, the gateway
and the mocks keep no state the services act on. The Debezium connector that
would read `payment_outbox` is configuration, and the provider stub a stand-in
for tests. The provider, Kafka, Redis, the connection pool and the HTTP server
are environments, modelled by what the code relies on.

Kafka is taken to keep what it acknowledged. The writer asks for the leader's
acknowledgement only (`RequireOne`), so a change of leader may lose a message
that the relay has marked as published; no code here can notice.

## Plan

Done, in this order: `OrderService` with its abstractions and proofs,
`OutboxRelay`, `PaymentService`, `OrderEventsConsumer`, `CircuitBreaker`,
`ProviderClient`, `RetryPolicy`, `AuthSessions`, `OrderPipeline`,
`ServiceProcess`.

Proved: the invariants, action properties and refinements of all modules.

Next: nothing is left that the prover reaches. What would add most is a model of
a reader of `payment_outbox`, once there is one in the repository.
