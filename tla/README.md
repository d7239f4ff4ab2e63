# Verification of the payment service

TLA+ specifications of the service in `src/`, the TLC configurations that check
them on small instances, and TLAPS proofs of their main properties for every
value of the constants. Source paths below are relative to the repository's
`src/`.

    tlc -config process_safety.cfg MCProcessPayment     # one run
    tlapm ProcessPaymentProofs.tla                      # one proof module

`PROJECT.json` lists the runs, the mutants that show each property can fail, the
source lines every definition stands for, the hazards and the theorems.

## 1. The system

A client posts a payment; the service answers 202, charges it through a payment
gateway in the background and notifies the client by a webhook. Four programs
take part: the API processes (FastAPI), each with an outbox relay task; the
consumer process (FastStream); PostgreSQL; RabbitMQ. A migration (Alembic) runs
before them.

    client --POST--> API --(payment + event, one transaction)--> PostgreSQL
                      relay --(SKIP LOCKED batch)--> exchange payments --> payments.new
    payments.new --> consumer --> gateway, PostgreSQL, webhook
       ^                |  failure: copy with x-attempt + 1
       '-- TTL -- payments.retry <-'      or, attempts used up, payments.dlq

| component | state it keeps | operations | talks to |
|---|---|---|---|
| intake: `create_payment.py`, `uow.py`, `repositories/payment.py` | payments and outbox rows, unique index on `idempotency_key` | look up by key, insert, commit, re-read after a duplicate | PostgreSQL |
| lookup: `get_payment.py` | none | read by id | PostgreSQL |
| relay: `outbox_relay.py`, `publisher.py` | row locks, the batch of a pass, `published_at` | lock a batch, publish, mark, commit, sleep | PostgreSQL, RabbitMQ |
| processing: `process_payment.py`, `consumer/main.py` | one entity for each running handler | get, charge, conditional update, commit, re-read, send | all |
| retry policy: `consumer/retry.py`, `topology.py` | `x-attempt`, `x-error` and TTL of each message, three queues | copy to `payments.retry`, to `payments.dlq` | RabbitMQ |
| webhook sender: `webhook/sender.py` | attempt count of a call | post, wait, post again | client |
| gateway emulator: `gateway/fake.py` | none | wait, answer at random | - |
| entity, values, schema: `domain/`, `schemas.py` | status, `processed_at` | `mark_succeeded`, `mark_failed`, `request_hash` | - |
| topology and startup: `broker.py`, `api/main.py`, `consumer/main.py`, `docker-compose.yml` | declared exchanges, queues and bindings, how far each process has come | declare, bind, consume | RabbitMQ |
| migration: `migrations/versions/` | the schema | four statements and a commit | PostgreSQL |
| engine and pool: `session.py`, `uow.py` | connections in use | connect, wait, time out, close | PostgreSQL |

How they interact. The intake and the relay share the table `outbox`, and nothing
else. The relay and the consumer share `payments.new`. The consumer and the intake
share the rows of `payments`: the intake writes them once, the consumer changes
`status` and `processed_at`. Every job of a process shares its connection pool.
Every process declares the same topology for itself, while others may already be
using it.

What is hard about it:

- **Concurrency.** Requests with one key race to insert. Relays of several API
  processes poll one table. The consumer sets no prefetch limit, so any number
  of handlers run side by side, between any two awaits of each other, and two of
  them may work on one payment.
- **Failure between steps.** The order charge, commit, notify, acknowledge
  decides what a crash repeats and what it loses. The same goes for publish then
  mark (relay) and copy then acknowledge (retry policy).
- **Half-failed calls.** A commit, a publication or a webhook may take effect
  and still raise.
- **Delivery.** At least once. When the channel drops, RabbitMQ gives a message
  to another handler while the first one runs on.
- **Retries.** Two nested loops (webhook attempts in a handler, deliveries of an
  event) that must end, must not charge again and must not lose the event.
- **Time.** One queue holds retries with delays of their own, and RabbitMQ looks at
  its head only.
- **Order of startup.** The consumer takes messages before it has declared where
  failures go.
- **Waiting.** A handler keeps its connection while the gateway takes its seconds,
  and may wait for the row of another handler.
- **Four layers of rules for one amount.** The schema, the value objects, the
  columns and the value objects again each check by rules of their own.

What makes each component correct:

- intake: one payment and one event for each key; a client told 202 finds the
  payment it was told of; the loser of a race gets the winner's payment.
- relay: no event is marked without having reached the broker; passes do not
  share rows; every committed event is published in the end.
- processing: a final status is written once; clients are told only what is
  stored, and the stored outcome is one the gateway gave.
- retry policy: an event is never lost, retries end, copies and second charges
  are always paid for by a fault of the infrastructure; a retry is late only
  behind a longer one, and never by more than the longest delay.
- the whole: a payment answered 202 is never lost between database, broker and
  client, and a key has one outcome.
- startup: nothing is published or rejected into a place that does not exist yet;
  every interrupted startup can be repeated.
- pool: nobody waits for a connection while others wait for him.
- values: what one layer accepts the next takes, unchanged; a repeated request is
  recognised.

`PROJECT.json` lists the hazards at the lines where they bite.

## 2. Modules

| module | what it is |
|---|---|
| `PaymentOutcome` | abstract: a payment is accepted, decided once, and every notification tells the stored decision |
| `ProcessPayment` | the consumer: handlers, retry policy, broker queues, row locks, faults |
| `PaymentIntake` | abstract: every request takes effect in one indivisible step |
| `CreatePayment` | requests, await by await |
| `OutboxRelay` | the relays |
| `PaymentService` | `CreatePayment`, `OutboxRelay` and `ProcessPayment` over one database and one broker |
| `RetryDelay` | `payments.retry` as a queue in time |
| `Startup` | migration, topology, processes coming up and going down |
| `ConnectionPool` | the jobs of one process, its connections and the row locks |
| `PaymentData` | amounts, keys, texts, metadata, URLs and the request hash through schema, value objects and columns |
| `...Proofs` | theorems about the module of that name; `PaymentServiceProofs` builds on those of its three components |
| `MC...` | the module with the definitions and symmetry sets its runs need; modules that need none are checked as they are |

`PaymentIntake` and `PaymentOutcome` are instantiated `WITH` explicit refinement
mappings in `CreatePayment` and `ProcessPayment`. `PaymentService` instantiates the
intake and the relays `WITH` their part of its state, extends the consumer, and
shows that the two together are the environment that the consumer was specified in.

### ProcessPayment

An action is what a handler does between two awaits. `pc[h]` names the await a
handler is at.

| action | code |
|---|---|
| `Deliver` | the broker calls `handle_payment_created`, `attempt_of` reads `x-attempt` |
| `Get` | `payments.get` and `is_processed`; no payment raises `PaymentNotFoundError` |
| `Charge` | `gateway.charge`, then `mark_succeeded` or `mark_failed`, which raise unless the entity is pending |
| `UpdateStatus`, `Commit` | `UPDATE ... WHERE status = 'pending'`, `uow.commit()` |
| `Reread` | the row count was 0: `payments.get` again |
| `PostAccepted`, `PostFailed` | one attempt of `HttpxWebhookSender.send`; the last failure raises |
| `PostRaises` | an exception tenacity does not retry leaves `send` at once |
| `HandleFailure` | `RetryPolicy.on_failure`: copy to retry or to the DLQ |
| `HandleFailureRaises`, `Reject` | the publication of the copy raises: FastStream rejects, the queue dead-letters |
| `Ack`, `Expire` | acknowledgement, TTL of `payments.retry` |
| `DatabaseError`, `ChannelLost`, `Crash` | faults, at most `MaxFaults` |
| `Create`, `Publish` | what the API and the relay do at the interface; a relay may publish an event `MaxPublications` times |

Choices worth knowing:

- `processed_at` is the number of gateway answers at the time. It tells apart
  two answers that have the same status, which is what the timestamp does in
  the webhook.
- The conditional `UPDATE` waits for the row lock and looks again at the
  committed row (READ COMMITTED). A row count other than 0 is the same as
  holding the lock, which is how `Commit` and `Store` are written.
- `Reread` reads the committed row. The session has `expire_on_commit=False`
  and an identity map, which would return the row as it was read first. It does
  not, because the map is weak and the repository drops the model when it
  returns, which CPython's reference counts free at once. That is an assumption
  about the build, and a hazard of its own in the list.
- A webhook attempt that fails may have reached the client. Both outcomes are
  possible.
- A failing publication of a copy may have stored it. Both outcomes are possible.
- Every copy, for a retry or for `payments.dlq`, carries `x-attempt` and `x-error`
  (`_headers`); what the relay publishes carries neither. A rejected delivery is
  dead-lettered with the headers it came with, so a retry copy whose own failure
  could not be published lies in `payments.dlq` with `x-error` and with attempts left.
- `ChannelLost` returns the message to the queue while the handler runs on; its
  later acknowledgement has no effect.
- `charges`, `webhooks`, `events` and `faults` are history and bounds. No guard
  of the code's own steps reads them.

### OutboxRelay

`outbox` is the table in the order of `created_at`. That column is the start of
the inserting transaction, so `Insert` puts a row anywhere. `LockBatch` takes the
oldest rows that nobody holds. `batch` is the rest of the loop, `done` the rows
marked in the session and not yet committed, `locked` what the server holds for
the transaction. When the server drops the session (`SessionLost`) `locked` empties
at once and the relay notices only at `Commit`, as in the code. A process that
stops or is killed loses its transaction (`Stop`) and starts again when the
broker is there (`Start`). The columns `attempts` and `last_error` are written
and never read, and are left out.

### CreatePayment

A request looks up its key, builds the entity (which refuses an invalid key),
flushes the two INSERTs, commits, and, told of a duplicate, rolls back and looks
again. `inserting[k]` is the uncommitted entry of the unique index: a second
INSERT waits for it (`Flush`). `Fail` is any failure in between, with a commit that
may have taken effect. A retry by the client is another request with the same
key and body.

### PaymentService

`Serve` runs a step of the intake; its commit is also a row of `payments` and one of
`outbox` (`StorePayment`). `RelayRuns` runs a step of a relay; what it publishes the
broker stores in `payments.new` (`Enqueue`). The consumer's actions are those of
`ProcessPayment`. A row of `payments` appears as two groups of columns, one for each
writer. A process serves requests once its startup is over, so never while its
relay is `"down"`.

### RetryDelay

Time is a tick. A message gets the delay of `_to_retry` (`Delay`, doubling with the
attempt), lives as long as that or the queue's own TTL (`Ttl`), and leaves only from
the head (`Expire`). `Tick` does not pass the moment at which the head is due, which
is how the broker works: it takes the head out when its time has come.

### Startup

The migration is one transaction of four statements that may fail at any of them and
is run again (`RunDdl`, `CommitMigration`, `MigrationFails`). A process then makes the
declarations of `Startup(p)` one call at a time: an API process all of
`declare_topology`, then the relay and the requests; a consumer the queue, exchange
and binding of its subscriber, then consuming, and only then `declare_topology`, which
FastStream runs as an `after_startup` hook. Messages move as the topology of that
moment lets them: without a binding the broker confirms and drops; without the
exchange the publication raises, the delivery is rejected and `payments.new`
dead-letters it. `BrokerRestarts` keeps what is durable and persistent.

### ConnectionPool

A job is a message in the consumer, a POST or a pass of a relay. All take the same
steps, listed at the head of the module. A session checks out a connection at its
first statement and returns it at the end of each transaction; `Write` waits for the
row lock; `Timeout` is the pool giving up after its 30 seconds. Of the pool itself only
the connections checked out are kept (`CheckedOut`, `InUse`).

### PaymentData

A decimal is its coefficient and exponent, so 10.0 and 10.00 differ as they do in
Python. `FitsDigits` is what Pydantic does with `max_digits` and `decimal_places`: a
limit is exceeded only if the number as written and the normalized number both exceed
it, and normalizing rounds to the precision of the context. `Ten`, `Length` and `Zeros`
(powers, digits, trailing zeros) are recursive functions. `Numeric` is what
`NUMERIC(18, 2)` does, `TableAccepts` the constraints of the migration, `Loadable` the
value objects again when a row is read. Requests are handled one at a time here;
`CreatePayment` is about their interleavings.

Metadata are any JSON object (`dict[str, Any]`). They are told apart by what the layers
do with them: ordinary ones; ones with a null; the same with an infinite number or NaN
in its place (`1e999`), which the schema takes, the hash writes as null and JSONB
refuses; ones with U+0000 in a string, which JSONB refuses; ones with half a surrogate
pair, for which the hash itself raises. A URL is its scheme, host and path; `HttpUrl`
takes any host over http or https and writes an empty path as a slash (`Canonical`).

What the module shows by the way, all of it as coded:

- A request that schema and value objects take is answered 500 if its description or its
  metadata hold U+0000, or its metadata an infinite number (the database refuses the
  row), and if its metadata hold half a surrogate pair (the hash fails before anything is
  looked up, `HashFails`). `OnlyUnstorableFails` says that these are the only ones.
- An amount repeated with another number of zeros (10.0, then 10.00) is answered 409,
  which is the safe side.
- Metadata with an infinite number, sent again under the key of the same order with a
  null, are answered 202: the hashes are equal. `ReplayMeansSameOrder` and
  `RepeatIsAnswered` say the rest.

## 3. Runs

| run | instance | states | shows |
|---|---|---|---|
| `process_safety` | 1 payment, 2 handlers, 2 deliveries, 2 webhook attempts, 2 publications, 2 faults | 1,211,744 | six invariants of the consumer; it implements `PaymentOutcome` |
| `process_liveness` | 1 payment, 2 handlers, 3 deliveries, 1 webhook attempt, 1 publication, 1 fault | 45,838 | every event is settled, retrying ends, and no attempt is missing or too many |
| `process_double_charge` | 1 payment, 2 handlers, 1 fault | - | finding of section 6 (violation) |
| `relay` | 3 events, 2 relays, batches of 2, 2 faults | 203,460 | three invariants, every event is published, no deadlock |
| `intake` | 4 requests, 3 keys (1 invalid), 2 bodies, 1 fault | 486,656 | four invariants, `CreatePayment` implements `PaymentIntake`, every request is answered |
| `delay` | 3 events, 4 attempts, delays of 1, 2 and 4 ticks, queue TTL 5 | 19,579 | how late a retry can be, and retries end |
| `delay_head_of_line` | 2 events, 3 attempts, delays of 1 and 2 ticks | - | finding of section 6 (violation) |
| `service_safety` | 2 requests with one key, 1 API process, 2 handlers, 2 attempts, 1 fault of a request, 1 of the consumer | 229,626 | 202 is kept end to end, one outcome for a key |
| `service_behaviour` | 2 payments, 2 keys, 1 API process, batches of 2, 1 handler, 1 relay fault | 142,302 | intake and relay are the consumer's environment, every accepted payment is settled |
| `startup` | 2 API and 2 consumer processes, 1 event, 2 faults | 238,254 | nothing is lost while processes and broker come and go; the service comes up |
| `data` | 4 digits, 2 places, precision 5, keys of up to 1 character, 5 kinds of metadata, 4 URLs | 7,464 | only what PostgreSQL cannot store fails, nothing is changed; repeated requests are recognised |
| `pool` | 5 jobs (3 on one row, 1 relay), 2 connections | 16,818 | no cycle of waiting, no connection kept, every job ends |

Why the bounds are enough. Two handlers make every race on a row, because a row
has one lock and the loser re-reads; payments share nothing but the handlers and
the queues, and `service_behaviour` has two of them at a time. Two deliveries have a
first, a last and the step between; the three of `process_liveness` also have a retry copy with
attempts left, which a fault may send to `payments.dlq`; two publications are a duplicate by the relay;
two faults combine, for instance, a lost channel with a failed publication in the
other handler. Three events and batches of two give the relay a full batch, a short
one and an empty one, a row that appears between two published ones, and two passes
at a time. Four requests have a winner, two waiting losers and one under another
key; the one fault of `intake` may strike any of them at any step. `service_safety` has
faults of requests and of the consumer, `service_behaviour` those of a relay, the runs
of the components their combinations. Three events with three different delays make every order of a short and a long
delay in the queue, and a queue TTL that is longer than all of them as in the code.
One event meets every stage of a startup, since events do not touch each other;
two processes of a kind can be at any two stages. Five jobs and two connections leave
some waiting for a connection while others wait for a row. A precision of five, one
more than the four digits of an amount, is where rounding and limits meet, as 28 and
18 do in the code; the amounts lie on both sides of each limit. The URLs of `data` are two
spellings of one, another that is acceptable and one that is not. The theorems of section
5 need none of these bounds. Symmetry is used in the runs that check safety only (`process_safety`,
`service_safety`, `delay_head_of_line`), over payments, handlers, bodies, processes and
events, none of which the specifications treat differently; runs with liveness
properties use none.

`CHECK_DEADLOCK FALSE` is in the runs of everything that really stops when all is
settled: the consumer, the intake, the service, `payments.retry`, the startup and the
jobs. The relays and the requests of `data` never stop, and their runs check deadlock.

### Fairness

- `ProcessPayment`: weak fairness of each handler's own steps (the event loop
  runs every ready coroutine), of deliveries and of the TTL. The awaits of a
  handler end: the gateway sleeps a bounded time, the webhook has
  `timeout_seconds`, the pool has its timeout, and a statement waits only for the
  row lock of another handler, which runs on or loses its session. `session.py`
  sets no time limit for statements, so a database that hangs for ever without
  closing its connections is outside what is claimed. Nothing is assumed of faults, of the webhook being accepted, of the
  relay publishing or of the gateway answering one way or the other.
- `OutboxRelay`: weak fairness of each relay's own steps, and of the broker
  coming back. Restarting a stopped API process is among the steps. The
  repository's `docker-compose.yml` has no `restart` policy, so this assumes an
  operator or an orchestrator.
- `CreatePayment`: weak fairness of each request's own steps.
- `PaymentService`: each component as in its own module.
- `RetryDelay`: weak fairness of the processing of a delivered event, of the broker
  dropping the due head, and of time passing.
- `Startup`: weak fairness of the migration and of each process's startup steps. A
  failed migration is run again and a stopped process started again, by an operator or
  an orchestrator, as above. Events are assumed nothing of.
- `ConnectionPool`: weak fairness of each job's own steps. Timeouts, failures and
  arrivals are assumed nothing of, so `JobsEnd` says that nobody needs a timeout.

Fault counts are bounded, so liveness is claimed for behaviours in which faults
cease. Webhooks that fail for ever are included: the event then ends in
`payments.dlq`, and `EventSettled` says so.

## 4. Properties

| property | says | would be broken by (mutant) |
|---|---|---|
| `NotificationsMatchStore` | clients are told exactly the stored status and timestamp, for good | the loser sends its own outcome |
| `EventInCustody` | a published event is with its client, in a queue, or in a live delivery not yet acknowledged | the exception is swallowed |
| `StoredOutcomeWasCharged` | the stored outcome is an answer of the gateway, with its moment | success and failure swapped |
| `HandlersInformed` | what a handler learnt before an await is right after it | the row count is ignored |
| `GivesUpAtLimit` | no copy is numbered beyond the limit; each dead letter with attempts left, or without `x-error`, is paid for by a fault | one attempt too few |
| `ExtraChargeNeedsFault` | each charge beyond the first is paid for by a fault | no `is_processed` check |
| `CopyNeedsFault` | each copy of an event beyond the first is paid for by a fault | the exception is raised again after the copy |
| `ImplementsOutcome` | refinement of `PaymentOutcome` | the UPDATE does not test for pending |
| `EventSettled`, `Quiesces` | an event is notified or dead; the queues drain | a lock that leaks; attempts that do not grow |
| `PublishedWasSent`, `LocksExclusive`, `DuplicateNeedsFault` | relay: nothing marked unsent, no two passes on one row, duplicates paid for by faults | failures marked; no row locks |
| `EventPublished` | relay: every committed event is published | a watermark on `created_at` |
| `IndexGuardsKey`, `AcceptedIsStored`, `EventIffPayment`, `ErrorNeedsFault` | intake: one winner for each key, 202 is kept, payment and event together, 500 only on a fault | leaked transaction; hash not compared; event written apart; duplicate raised |
| `ImplementsIntake`, `RequestAnswered` | requests are atomic and answered | no unique index; leaked transaction |
| `AcceptedInCustody` | from the commit of the request to the notification, somebody is responsible for an accepted payment | a failed delivery logged and acknowledged |
| `OneOutcomePerKey` | for one key clients are told one outcome of one payment, whatever is repeated | the loser sends its own outcome |
| `IsConsumersEnvironment` | intake and relay together behave as the environment of `ProcessPayment` | events enter with attempt 2 |
| `AcceptedSettled` | every accepted payment is notified or its event set aside | the exception is swallowed |
| `OverdueNeedsLongerAhead` | time passes for an overdue retry only behind a longer delay | all messages with the queue's TTL |
| `WaitBounded` | waiting times do not add up along the queue | one doubling too many |
| `RetriesEnd` | every published event is done or dead | attempts without limit |
| `TopologyFirst` | an event outside the outbox has found the whole topology | the relay starts before the declarations |
| `NothingLost` | the broker drops no event, at startup and in restarts | transient retries |
| `ServiceComesUp` | interrupted migrations and startups can be repeated | queue arguments that differ between processes |
| `OnlyUnstorableFails`, `AmountKept` | what schema and value objects accept the table takes, unrounded, but for texts and metadata no column can hold or the hash encode | an amount of any precision |
| `RowsLoadable` | a stored row can be loaded and shown | a column with three places |
| `ReplayMeansSameOrder`, `RepeatIsAnswered` | 202 means the same order, metadata and URL included; a repeated request is answered 202 | amount left out of the hash; the hash of the request as sent |
| `NoHoldAndWait` | who waits for a connection holds nothing others wait for | re-reading through a second session |
| `NoLeak`, `TimeoutNeedsLoad`, `JobsEnd` | connections come back; a process with no more jobs than connections sees no timeout; jobs end by themselves | a session left open |
| `ServiceTypeOK` | types of intake, relays and consumer composed | a pass that forgets what is left |

The type invariants of the other modules, and the invariants `LockedRowIsPending`,
`PassHoldsRows`, `DeclaredStays` and `NeverEarly`, are proved (section 5) and are in no run.

## 5. Proofs

All theorems hold for any sets of payments, handlers, events, keys, bodies, processes
and rows, and for any bounds. They assume only the named assumptions on the constants:
that bounds are natural numbers, that a batch and a pool are not empty, that `NULL` is no
real value, that an amount has an integer coefficient and exponent, and, where something
is counted, that relays, requests or jobs are finitely many (`ProcessAssumption`,
`RelayAssumption`, `CreateAssumption`, `DelayAssumption`, `StartupAssumption`,
`PoolAssumption`, `DataAssumption`, `ServiceAssumption`). The other sets may be infinite:
that finitely many handlers are busy and finitely many messages queued at any time is
proved (`FiniteInv`), not assumed. TLC evaluates each assumption in the runs of its
module.

| module | theorem | statement |
|---|---|---|
| `ProcessPaymentProofs` | `TypeCorrect` | `Spec => []TypeOK` |
| | `NotificationsCorrect`, `OutcomeWasCharged` | `[]NotificationsMatchStore`, `[]StoredOutcomeWasCharged` |
| | `HandlersCorrect`, `LocksCorrect` | `[]HandlersInformed`, `[]LockedRowIsPending` |
| | `RefinesOutcome` | `Spec => ImplementsOutcome` |
| | `NoEventLost` | `Spec => []EventInCustody` |
| | `RetriesBounded` | `Spec => []GivesUpAtLimit` |
| | `CopiesExplained`, `ChargesExplained` | `[]CopyNeedsFault`, `[]ExtraChargeNeedsFault` |
| `OutboxRelayProofs` | `TypeCorrect`, `NoEventLost`, `RelaysDisjoint`, `PassesCorrect` | `[]TypeOK`, `[]PublishedWasSent`, `[]LocksExclusive`, `[]PassHoldsRows` |
| | `DuplicatesCostFaults` | `[]DuplicateNeedsFault` |
| `CreatePaymentProofs` | `TypeCorrect`, `AcceptedNeverLost`, `OutboxAtomic`, `DuplicateHasWinner` | `[]TypeOK`, `[]AcceptedIsStored`, `[]EventIffPayment`, `[]IndexGuardsKey` |
| | `ErrorsCostFaults` | `[]ErrorNeedsFault` |
| | `RefinesIntake` | `Spec => ImplementsIntake` |
| `RetryDelayProofs` | `TypeCorrect`, `WaitsBounded` | `[]TypeOK`, `[]WaitBounded` |
| | `NoRetryEarly`, `LateOnlyBehindLonger` | `Spec => NeverEarly`, `Spec => OverdueNeedsLongerAhead` |
| `StartupProofs` | `TypeCorrect`, `DeclarationsStay`, `NoMessageDropped`, `TopologyPrecedesEvents` | `[]TypeOK`, `[]DeclaredStays`, `[]NothingLost`, `[]TopologyFirst` |
| `ConnectionPoolProofs` | `TypeCorrect`, `NoCycleThroughPool`, `ConnectionsReturned` | `[]TypeOK`, `[]NoHoldAndWait`, `[]NoLeak` |
| | `TimeoutsNeedLoad` | `[]TimeoutNeedsLoad` |
| `PaymentDataProofs` | `TypeCorrect`, `LayersAgree`, `AmountsKept` | `[]TypeOK`, `[]OnlyUnstorableFails`, `[]AmountKept` |
| | `ReplaysFaithful`, `StoredIsLoadable`, `RepeatsAccepted` | `[]ReplayMeansSameOrder`, `[]RowsLoadable`, `[]RepeatIsAnswered` |
| `PaymentServiceProofs` | `ServiceTypeCorrect` | `ServiceSpec => []ServiceTypeOK` |
| | `ServiceRefinesItsParts` | `ServiceSpec => Requests!Spec /\ Relays!Spec` |
| | `ServiceRefinesConsumer` | `ServiceSpec => IsConsumersEnvironment` |
| | `AcceptedNeverLost`, `OutcomesUnique` | `[]AcceptedInCustody`, `[]OneOutcomePerKey` |

The arguments:

- **Consumer.** `NotificationsMatchStore` is not inductive: it says nothing of a
  handler that is about to send. `OutcomeInv` adds what every handler knows at its
  await (`HandlersInformed`), that a locked row is pending and its holder is about
  to commit (`LockedRowIsPending`), and that stored outcomes were charged. The core
  is `StoreKeepsOutcome`: a commit changes a row only if its handler holds it, and
  a held row was pending, so no other handler's knowledge changes. From the same
  invariant every step refines `PaymentOutcome`: the commit that holds the row is
  `Decide`, a received notification is `Notify`, the rest stutters.
- **Events.** `EventInCustody` is proved with `Kept`, action by action: each takes
  an event from one place only after putting it in the next.
- **Copies and charges.** `Copied` counts the copies of an event in the queues and with
  handlers whose delivery lives; `NextCopied` shows, action by action, that only a
  publication or a fault raises it. A queue is a bag, and its copies of an event are
  counted as a set of numbered messages (`Copies`), so that adding and removing one is a
  lemma about finite sets and no sum over a bag is needed. For the charges `Potential` is
  what the gateway may still be asked without a fault: before the decision every waiting
  copy and every handler that has not charged yet, after it only the handlers that read
  the payment while it was pending. `ChargeInv`, charges made plus `Potential` are at most
  publications plus faults, is inductive; the charges alone are not.
- **Attempts.** `GivesUpAtLimit` counts dead letters after the fact. `ExplainedInv` counts
  with them the handlers that are about to reject (`Rejecting`), each of which has had its
  fault: a rejection only moves one from there into `payments.dlq`, and a copy by `ToDlq`
  is never among them (`Exhausted`).
- **Relay.** `RelayInv` joins `PassHoldsRows`, `PublishedWasSent` and
  `LocksExclusive`. What a pass has marked was sent and, while its transaction
  lives, is locked by it alone; that is what makes the commit safe.
- **Intake.** `IntakeInv` says that the entry of a key belongs to the one request
  about to commit it (`IndexGuardsKey`), so a commit is always the first of its key
  (`WriteFresh`), and that stored payments belong to the key of their creator.

- **Faults pay.** `DuplicateInv` (relay): every publication of an event but one that is, or
  will be, marked has its fault, counting also those still to come from passes that have
  lost their locks (`Orphans`) and publish on. `ErrorInv` (intake): every 500 has its fault.
- **Retry delay.** `QueueInv`: waiting times fall from the head to the tail, since all
  messages age together. `AttemptInv` bounds the attempts in the queue. Whoever waits has
  waited no longer than the head, and the head is within its own delay, which is at most
  the last one. `PowersGrow` is by counting a set of naturals, because induction is not
  at hand; it is all the arithmetic that is needed.
- **Startup.** `DeclaredStays` is the centre: a process has all it declared in front of
  it, and nothing durable goes away. A relay is up only with the whole topology declared,
  so an event outside the outbox never meets a missing binding, even in a consumer that
  has not declared anything beyond its subscriber.
- **Pool.** What a job holds follows from the step it is at (`HeldByStep`): in `lookup` and
  `again`, where it waits for a connection, nothing. A job holds one connection at most, so
  a full pool and somebody waiting are more jobs than connections.
- **Data.** `RowInv` ties each row to the request that made it, `ReplayInv` a 202 to a row
  that holds what was asked (`Holds`); `RepeatInv` says that a request that repeats the
  one its row was created from has been answered 202. It was accepted, hashed and stored
  once, and the row can be loaded whatever the consumer has done to it since. The rest is arithmetic. `Recursion` shows that a function that goes back to
  smaller arguments exists; its parameters are sets and functions, and it is proved by
  least counterexamples, because the library's induction takes an operator. From it come
  the laws of `Ten`, `Length` and `Zeros`. `FitsColumn` is the point of it: an amount whose
  digits before the point fit, as written or normalized, is below the power of ten that the
  column holds. Rounding to the precision of the context does no harm, as the quotient of
  the division never exceeds the rounded number (`NormalizedBounds`).
- **Service.** `Requests` and `Relays` instantiate the proof modules of the intake and the
  relays, and are shown to be the `API` and `Outbox` of `PaymentService`. Every step of the
  service is a step of the requests or leaves their state alone (`RequestsMove`), is a step
  of the relays or leaves theirs alone (`RelaysMove`; a new row of the outbox is new because
  the intake stores a payment once), and is a step of the consumer's specification
  (`ConsumerMoves`; an event is published only after its payment was stored, and no more
  often than `DuplicateNeedsFault` of the relays allows). So the inductive invariants of the
  three components hold of the service, joined by `StoredTogether`: a payment the consumer
  finds has a row in `outbox`, and the other way round. `AcceptedInCustody` then
  chains `AcceptedIsStored`, `PublishedWasSent` and `EventInCustody`; `OneOutcomePerKey`
  joins one payment for a key with `NotificationsMatchStore`.

Only model-checked:

- liveness (`EventSettled`, `Quiesces`, `EventPublished`, `RequestAnswered`, `AcceptedSettled`,
  `RetriesEnd`, `ServiceComesUp`, `JobsEnd`): fairness and ENABLED are out of the prover's
  reach.

Every safety invariant, action property and refinement that a passing run checks is
proved as well. What is not proved is that the models are the code: that is what the
line ranges in `PROJECT.json` are for.

## 6. Findings

`process_double_charge` checks what the documentation says of a repeated delivery.
`README.md:134-136`: the handler may receive a message twice, and the payment is
not processed again ("Повторно платёж не проводится"); the test
`tests/application/test_process_payment.py:130` says the same of a duplicate. The
code calls the gateway (`process_payment.py:45`) before anything in the database
says so. The run finds a delivery taken a second time between the charge and the
commit (one fault): the gateway is asked twice. The condition on `pending` protects
the status, not the gateway. What does hold is `ExtraChargeNeedsFault`: without a
fault, retries alone never charge twice.

`delay_head_of_line` checks what `README.md:143-145` and the comment at `retry.py:49-50` say
of a retry: it has a delay of its own, after which it returns to `payments.new`. The code
publishes all of them into one queue, and RabbitMQ drops expired messages at its head
only. The run finds an event whose delay is over waiting behind another one on a later
attempt. What does hold: such a wait needs a longer delay ahead
(`OverdueNeedsLongerAhead`) and ends within the delay of the last attempt
(`WaitBounded`).

## 7. Not modelled

- **The webhook's waits** between attempts are reduced to order. Nothing reads them but
  the handler that sleeps.
- **Authentication.** Comparing the API key keeps no state and comes before everything
  else.
- **Configuration and logging.** Settings are the CONSTANTS of the modules. Which of them
  may not differ between processes is in `Startup` (`Arguments`).
- **Migrations**: `downgrade` and the offline mode, run by hand.
- **Amounts before the schema.** A JSON number is parsed by Pydantic before
  `max_digits` is checked; requests are taken as the schema sees them.
- **JSON and the framework.** How a body is parsed, how a 422 is rendered whose input cannot
  be written as JSON, and how JSONB rewrites the numbers it stores (`1.0`, `1e2`) are left to
  the libraries. Metadata are compared as they are dumped for the hash.
- **Attempts spent by load.** More concurrent jobs than connections make some wait, and after
  the pool's timeout fail and spend an attempt. `ConnectionPool` shows when that can happen,
  `ProcessPayment` takes each timeout as a fault; the two are not composed, so how many
  attempts a load costs is in no property.
- **Accepting requests during an outage.** An API process that is running goes on; one that
  starts needs the broker (`api/main.py:28`), in `OutboxRelay` and `Startup` as in the code.
  Fairness assumes that it is started when the broker is there; no property says that
  requests are accepted until then.
- **Malformed events.** A payload without a valid UUID raises outside the `try` and is
  rejected into the DLQ. The relay sends none.
- **The pool of SQLAlchemy** is the connections it has given out; its overflow, its recycling and
  its order of waiting are the library's.
- **A database that hangs** without closing its connections: statements have no time limit
  of their own, and liveness is not claimed then.
- **Outbox columns** `attempts` and `last_error` are written and never read.

## 8. What is left

1. Proofs of what liveness needs short of fairness: that from every state of the service
   with an unsettled payment some step is possible, stated without ENABLED.
2. `service_behaviour` with several API processes, and with faults of the consumer, where
   the time of the run allows.
