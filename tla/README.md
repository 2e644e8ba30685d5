# Formal models of Benzene for Python

Benzene is a message-handler framework: a service writes handlers for topics, and
bindings run them behind HTTP, gRPC, Kafka, RabbitMQ, SQS, Lambda, Azure and Google
Functions; a mesh collects what the services are and do. This directory holds TLA+ models
of the parts of it that are hard to test, the TLC configurations that check them on small
instances, and TLAPS proofs that most of the safety results hold for every instance.
`PROJECT.json` maps each definition to the lines it models and lists components, runs,
mutants, findings, hazards and theorems.

    tlc -config Bulkhead.cfg Bulkhead            # a run: module and cfg are in PROJECT.json
    tlapm KafkaConsumerProofs.tla                # a proof module

## 1. Inventory

Everything runs on one asyncio event loop per process: between two awaits one task runs
alone, so the interesting interleavings are at awaits, between processes that share a
broker, a cache or a bucket, and between a process and its own crash. "M" marks what is
modelled, "P" what is modelled in part.

| Part | State it keeps | Operations | Interacts with | What is hard | What makes it correct |
|---|---|---|---|---|---|
| M bulkhead | `_in_flight`, a semaphore and its waiters | execute, cancellation | any handler or sender it guards | slots handed to waiters cancelled meanwhile | limit, exact count, no lost slot, no starvation |
| M circuit breaker | state, consecutive failures, `_opened_at`, `_probing` | execute, outcomes, cancellation | the same | outcomes recorded in a state reached later | state follows recorded outcomes; open is temporary |
| M rate limiter | tokens, `_updated_at` | execute, available | the same | lazy, capped, fractional refill | bounded admissions in every window |
| M idempotency | entries with expiry | get, put around a handler | redelivering bindings | overlap, expiry, retries of failures | only successes replayed, never stale |
| M saga | completed steps | execute, rollback | handlers | failing and cancelled steps and compensations | the report accounts for every effect left behind |
| M cache-aside | the cache | get, load, set, delete | handlers, Redis | miss and write back apart; ttl of half seconds; None | staleness bounded by ttl and load; a quiet delete is final |
| P one-way dispatch, settlement | none | decode, handle, acknowledge | every queue binding | which faults become results and which propagate | failures are not acknowledged |
| M Kafka consumer | loop, position, the group's committed offsets | poll, handle, commit, stop, restart | broker, worker host | rebalances, crashes, asynchronous commits, cumulative offsets | nothing lost, order kept, everything handled in the end |
| M SQS consumer | loop, batch, receipts | receive, handle, delete | queue, worker host | visibility timeouts, stale receipts, abandoned batches | only successes deleted; no redelivery without cause |
| M RabbitMQ consumer | loop, delivery tag | get, handle, ack or nack | broker, worker host | unacked deliveries of a loop that died, requeue loops | only successes acked; what is not settled is behind retries |
| M worker host | tasks, stop signal | add, run, wind-down, background_worker | all consumers and servers | crash, cancel and timeout racing each other | nothing left running, crashes surface, it ends |
| M Lambda, Azure, GCP hosts | the batch in hand | one event, many records | platform redelivery | one exception among several records; checkpoints of streams | nothing forgotten unhandled; a success rerun only with cause |
| M senders, producers, outbound decorators; P event mappings | none between calls | send, retry, correlate; decode | SDKs, the hosts above | what survives each transport; retries after an unknown outcome | arrives as sent; the answer does not promise what the transport did not take |
| M mesh collector, store, issues | catalog, snapshot, issue counts | four ingests, queries, snapshot, restore, save | poller, feeds, inbox | redelivered and reordered feeds, crash or failing save | restart changes nothing observable; counts match deliveries |
| M mesh inbox, trace queue; P artifacts | S3 objects, bounded queue | push, drain, ingest, publish | collector | crash between any two steps, paged listings | what is pushed is somewhere and counted at most once |
| M mesh poller, profile and probe | none | sweep, ingest; self-check, probe | services, collector | redeployments during a sweep; lost requests of an audit | polls converge, changes are published; the auditor and the self-check agree |
| M service container | registrations, singletons, scopes | add, try_add, add_instance, resolve | startup, router | overrides after a cached instance; lifetimes nested in each other | no service outlives its lifetime |
| M registry, router, versions, casting | handlers by topic and version | add, find, select, cast | every binding | defaults against versions, natural order | the right version answers; shortest chain of casts |
| M pipeline, health | none | handle, run checks | every binding | order and short-circuits | authentication guards; the report is honest |
| M results; P HTTP, gRPC, pointers | none | encode, decode, map | every binding | several hops over different tables | outcome, status, payload and errors survive |
| P contract, schema, hashes, code generator | catalogue of components | derive, finish, hash, project | mesh, clients | recursion, shared names, order of registration | the document describes the payloads; client and service hash agree |
| P HTTP routing | endpoints, definitions | add, match, handle | registry | versions in path, header and route | an advertised route reaches its handler; the path is believed |
| fleet discovery, otel, openapi, pydantic, test helpers | none between calls | conversions | external libraries | little that depends on order | not modelled, section 8 |

## 2. Modules

| Module | Code | Correspondence |
|---|---|---|
| `Bulkhead` | `resilience/bulkhead.py` | `in_flight` is `_in_flight`; `value`, `waiters` are asyncio.Semaphore's (external, from CPython's behaviour as the code uses it); one action per stretch between awaits: Shed, Enter, Enqueue, Resume, Cancel, Unwind, Finish |
| `CircuitBreaker` | `resilience/circuit_breaker.py` | `_admit`, `_on_success`, `_on_failure` inside AdmitCall, AdmitProbe, Reject, Complete, Cancel; `open_for` is the clock minus `_opened_at`, capped at reset_timeout; `streak` is a history variable |
| `RateLimiter` | `resilience/rate_limit.py` | tokens are counted in 1/Unit of a token so that fractional refill stays exact; `since` and `admitted` observe a window that may start at any time |
| `TokenBucket` | none | abstract: a bucket that fills on every tick |
| `Idempotency` | `resilience/idempotency.py` | Replay, Begin, End: the lookup, the handler and the put, the handler's await between them |
| `Saga` | `resilience/saga.py` | one action per await of `execute` and `_rollback`; `effects` is a history variable, what the world has seen |
| `CacheAside` | `cache/aside.py`, `memory.py`, `redis.py` | get, load and set of concurrent callers, a source (`latest`) that moves on, a clock in half seconds (Redis truncates to whole ones); a ttl is positive |
| `OneWayDispatch` | `core/settlement.py`, `envelope.py`, `router.py` | operators: the outcomes one delivery can have given the class of its topic and body, and whether it is acknowledged |
| `AtLeastOnce` | none | abstract: a transport may forget a message only after a delivery of it succeeded, and for good |
| `KafkaConsumer` | `kafka/consumer.py` | loop and worker over OneWayDispatch; group, log, rebalances and commits are external |
| `SqsConsumer` | `aws/sqs_consumer.py` | loop and worker over OneWayDispatch; visibility, receipts and redrive are external |
| `RabbitConsumer` | `rabbitmq/consumer.py` | loops with their channels over OneWayDispatch; the queue is external, its messages are numbered from 1 |
| `WorkerHost` | `core/worker.py` | `run`, `add` and `background_worker` with the tasks they create; a leg whose coroutine has failed while it has not resumed yet loses that failure to a cancel (state "silenced") |
| `BatchHost` | `aws/app.py`, the Azure and GCP hosts | 16 event sources, each settled by naming failed items or by raising; the platform is external |
| `Outbound` | the senders of aws, azure, gcp, kafka, rabbitmq, core and the mappings that read them | a message, written by one of 20 transports, read back and normalised; retry and correlation id around it in both nestings; what a peer answers, too-many-requests included; the senders that answer ok without the transport's word (`SendUnconfirmed`); `Lower` is str.lower |
| `MeshCatalog`, `MeshReadModel` | `mesh/collector.py`, `issues.py`, `specdoc.py`, `artifacts.py` | operators: the ingests as functions of a catalog, the queries and documents as functions on one; the export is keyed by `ChannelKey`, any function of topics, as the code's is not injective |
| `MeshHost` | `mesh/store.py`, the collector's handlers | a long-lived collector whose save may fail, which may die and restore |
| `MeshPoller` | `mesh/poller.py` | polls of one sweep interleaved with deployments and pushed registrations; either request of a poll may raise, and the first may get the JSON body of an error, which `_get_json` takes for the document |
| `MeshInbox` | `mesh/trace.py`, `inbox.py` | exporter queue, push, paged drain, ingest, save, publish; a listing is any page that S3 may give: the next keys in order, up to a page of them, and `delete_objects` takes no more keys than a full page has (S3: 1000 for both); given more it is refused (`DeleteRefused`), and the pass with it |
| `MeshAudit` | `mesh/profile.py`, `probe.py` | the self-check and the four probes against every wiring of an application |
| `Container` | `core/dependencies.py`, `startup.py` | registrations, singletons and scopes; a resolution is a stack of factory calls (`frames`), each of which takes its needs in any order until it is done, raises, or meets the recursion limit (`MaxFrames`) |
| `Casting` | `core/casting.py` | the breadth-first search, one look at an edge per step, the steps of a type in any order of registration |
| `Dispatch` | `core/registry.py`, `startup.py`, `pipeline.py`, `health.py`, `router.py` | a registry being filled, the pipeline it becomes, one message through it |
| `Replies` | `results/`, `core/envelope.py`, `pointer.py`, the HTTP and gRPC status tables, clients and servers | one result relayed over hops of envelope, HTTP and gRPC; a text is the sequence of messages it was joined from |
| `Contract` | `core/contract*.py`, `declarations.py`, `codegen_client/` | the entries derived one after the other, finish, the closure and hash of a generated client |
| `HttpRouting` | `http/routing.py`, `app.py` | routes registered in any order, every request against them |
| `MC*` | none | the data of the checked instances, and the choice of what a behaviour follows |
| `*Proofs` | none | theorems of the modules they extend; `ResilienceProofs` of Idempotency, Saga, CacheAside and Outbound, `AdmissionProofs` of CircuitBreaker and RateLimiter, `HostProofs` of WorkerHost, BatchHost, MeshInbox, MeshPoller and MeshHost, `CoreProofs` of HttpRouting, Casting, Container, Dispatch and Replies |

KafkaConsumer, SqsConsumer, RabbitConsumer and BatchHost are compositions: the loop or the
host, the shared dispatch, the broker or platform, and whoever restarts what died. All four
instantiate AtLeastOnce with their own notion of "forgotten" (offsets below the committed
one; deleted, acked or settled messages). MeshHost, MeshPoller and MeshInbox drive the same
catalog operators and read it through the same read model. Outbound is the other end of
BatchHost. Parts that share no state are asked about in one run (`hosts`, `mesh`, `core`):
an MC module picks the one a behaviour follows in Init, and the others stay still.

Operators whose comment begins with "Fault" are the broken variants by which each property
is shown to depend on the code. A property that is a conjunction of named parts has such a
variant for each of its parts, the type invariants aside.

## 3. Runs

| Run | Instance | Distinct states | Shows |
|---|---|---|---|
| `bulkhead` | 4 calls, 2 slots, 1 queue place | 3 040 | SlotsAccounted: limits exact at their boundary, slots conserved through cancellations; WakesInOrder: FIFO, no free slot beside a waiter nobody will wake; WaitersServed |
| `breaker` | 3 calls, threshold 2, timeout 2 ticks | 2 018 | StateFollowsOutcomes: closed exactly after short streaks, the counter bounded; OpenIsTemporary |
| `rate_limiter` | burst 2, 2/3 token per tick, 8 ticks | 5 881 | RateKept: the window bound; SteadyBucket: lazy refill implements TokenBucket |
| `idempotency` | 5 deliveries, 3 kinds of key, ttl 2, 2 at once | 214 771 | ReplaysHonestly: only successes replayed, none after expiry; DedupWhileRemembered: no run that begins while a success is remembered |
| `worker_host` | one worker of each kind, added in any order | 14 391 | EndsCleanly: nothing left running, the first failure surfaces; WindsDown |
| `kafka` | 2 consumers, 1 partition, 3 records, both modes | 24 343 | CommitsSafely: no loss, order; AtLeastOnce; every record handled in the end |
| `sqs` | 2 workers, 2 messages, batches up to 2, 3 receives | 100 238 | AtLeastOnce, redelivery only with cause, every message settled |
| `rabbit` | 2 channels, 3 messages (one raises, one unserved), both values of requeue, 2 troubles | 1 741 | AtLeastOnce; a success returns only after a lost ack; every message is settled or stands behind one that is retried for ever |
| `hosts` | 16 event sources, 3 messages in batches of 2, 2 tries, 1 crash; 20 transports, up to 2 of 9 headers, 2 attempts | 644 935 | HostAtLeastOnce, RerunWithCause, EveryMessageSettled for the hosts; ArrivesAsSent and RetriesHonestly for the senders |
| `mesh` | two fleets of 5 and 6 feeds, 4 deliveries; 2 polled services with 2 releases; one answer in error; 3 traces over a queue of 1, pages and deletes of up to 2 keys; every wiring | 229 472 | CatalogSurvives, CatalogTellsTruly, UndeclaredCallFiled (collector); PollShowsReleases (poller); TracesCountedOnce (inbox); AuditAgrees (probe); MeshCatchesUp |
| `core` | a saga of 4 steps; 2 readers of a cache; 3 services, 3 registrations and 3 resolutions, factories 3 deep; casts among 4 schemas; any of 5 handlers; 3 hops; some 19 600 declarations of three types; up to 3 of 7 routes | 663 812 | one property per subject: SagaAccountsForEffects, ServesFreshEnough, ServicesAsRegistered, ChainIsShortest, AnsweredByTheRightOne, ResultSurvives, ContractFaithful, RequestsReachTheirRoute |
| `breaker_wedged` | as `breaker` | until the violation | the finding of section 6 |

Why the bounds are enough.

* The bulkhead needs a running call, a granted one, a waiter and one that is shed: four
  calls with two slots and one place. The breaker needs a probe, a late outcome and a caller.
* Two consumers, channels or instances are the least that can fight over a partition or a
  message, and three records the least with something before, at and after a failure.
  `MaxTrouble` bounds crashes, stops, rebalances and lost commits (3 for Kafka: a rebalance,
  a lost commit and a crash can all happen to the same record), `MaxReceives` and `MaxTries`
  are the redrive limits.
* `MaxTime` bounds the clocks: four ticks let an entry with a ttl of two expire, be renewed
  and expire again; the rate limiter's eight exceed the three that fill its bucket; five half
  seconds exceed the largest finite ttl of the cache plus the longest load.
* Two headers are the least that can collide when lowercased or overwrite each other, and
  the nine names are a plain one, those a transport writes itself and the correlation id;
  two attempts are a call and its retry. `MaxHostTrouble`, `MaxInboxTrouble` and `MaxCrashes` of
  1 place a crash at every step once; a second one finds the state the first one left, which
  the restart from a snapshot makes an ordinary state again.
* A queue of one is at its limit after one event. Three objects need two pages of two keys and
  are more than one delete takes, two objects may come in one page or in two short ones, so both
  kinds of drain happen. Which key a new object gets is free.
* `MaxPollTrouble` of 1 lets one request that is not down anyway raise or get an error's body, in
  any poll of any sweep; the sources in `down` fail or answer so in every sweep. Of the topics in
  the feeds two share a channel of the export, and one report of issues has no fingerprint.
* A saga of four steps has two completed ones behind and before a failing compensation.
  Three hops are the least in which what one transport dropped passes a second and a third.
  Three types give a cycle, a chain and a shared name at once.

Deadlock is not checked where the system may rightly come to rest: all deliveries have
ended (idempotency, senders), the log, the queue or the batch is finished (Kafka, SQS,
RabbitMQ, hosts), run() is over (worker host), everything was sent or asked (mesh, core).

## 4. Fairness

* bulkhead, worker host: asyncio resumes every ready task, so each resumption is weakly
  fair. Guarded work and cancelled tasks end (for the bulkhead this is the assumption that
  handlers return); `shutdown_timeout` is a timer and fires. A worker's own end is not
  assumed: a deaf worker may run for ever.
* breaker: time passes, guarded calls end and callers keep calling (a circuit leaves OPEN
  only when somebody calls).
* Kafka, SQS, RabbitMQ: the loops go on and a supervisor restarts dead workers. Kafka assumes
  that the coordinator assigns a free partition, that a pending commit is applied or lost, and,
  as strong fairness, that a handler given the same record again and again succeeds in the
  end: with stop_on_failure nothing behind a record that always fails is handled, by
  design. SQS assumes only that visibility timeouts pass and that the redrive policy acts.
  RabbitMQ assumes nothing of the handler, so its property allows a message to stay behind
  one that is requeued for ever.
* hosts: the platform invokes while messages are ready, the code of an invocation runs, and
  a message out of tries is given up.
* mesh: sweeps and passes are scheduled again and again, and a pushed registration arrives. A
  poll may end with an error or an error's body, a pass with a refused delete: fairness only
  takes the next step, whichever it is.
* rate limiter, idempotency, core: safety only.

## 5. Proofs

Every theorem holds for every value of the constants under the named ASSUMEs of its module
(finite sets of calls, positive limits and ttls, boolean options, numbered messages, keys and
schemas, content of a known class).

* `BulkheadProofs!BulkheadSafe`: type, concurrency limit, slot conservation, exact
  in_flight. The limit is not inductive; it follows from the conservation of slots, and
  that needs `CancelledWaits` (only a waiting call is cancelled) so that a granted and
  cancelled waiter still gives its slot back. The counting rests on the lemmas `CountMove`
  and `WakeUp`.
* `AdmissionProofs!BreakerFollowsOutcomes`: closed exactly while the streak is short,
  `_probing` exactly while half-open, and the failure counter bounded. `CountsAgree` ties the
  counter, which keeps growing after the trip, to the capped history variable. The bound is
  not inductive: `CountPaid` is (the counter and the calls inside, less a probe that is
  awaited, never exceed threshold - 1 + |Calls|), since a call that was let in while the
  circuit was closed can add one failure each and an open circuit lets in one probe at a time.
* `AdmissionProofs!RateIsBounded`: burst + rate * time in every window. Inductive is
  `Paid`: admissions are paid for by the bucket plus what was refilled since the window
  began. `LazyRefillIsSteady`: every step is a TokenBucket step or a stutter, through the
  lemmas on `Refilled`.
* `KafkaConsumerProofs!ConsumerSafe`: no loss and order in the at-least-once mode, and
  passed over only by a success in the other. The invariant says commits in flight lie
  between the committed offset and the position (`CommitsOrdered`), the record in an
  owner's hand is the last one polled (`HandIsLast`), whatever is committed or about to be
  ends with a success (`EndsWithSuccess`), and everything behind it has succeeded too
  (`PrefixDone`, which needs the former owner's record as well, because a rebalance leaves
  it in hand). `ImplementsAtLeastOnce` is the refinement.
* `SqsConsumerProofs!SqsImplementsAtLeastOnce`: without at_most_once, what is deleted, or
  about to be, has succeeded; a stale receipt may delete or not, neither breaks it.
  `OnlyLateReturns`: a success comes back only if a holder of it was late or died, in both
  modes. Inductive is that, until somebody is late with it, a message is hidden, in one batch
  once, under its latest receipt (`Fresh`, `HeldOnce`): only then is the delete of a success
  sure to work (`SuccessIsDeleted`).
* `RabbitConsumerProofs!OnlyLostAckReturns`: a channel holds a success only to ack it
  (`SuccessIsAcked`), and what is on a channel is out and on no other (`HeldIsOut`), so that
  nobody else can return it. `RabbitImplementsAtLeastOnce`, without at_most_once.
* `BulkheadProofs!BulkheadWakesInOrder`: no lost wakeup, and FIFO as an action property.
  Both need that the semaphore's queue is exactly the waiting calls, each once
  (`QueueExact`); the lemmas on `WakeUpNext` say which waiter a release wakes.
* `ResilienceProofs!IdempotencyDedups`, `IdempotencyReplaysHonestly`: what is stored under a
  key is a success for it with the right expiry (`StoredSuccess`), and a success is stored, or
  a later one for its key is, or its ttl has passed (`Remembered`); the second conjunct is what
  overlapping deliveries need, whose later put overwrites the earlier.
* `ResilienceProofs!SagaReportsTruly`: before a failure the effects are those of the completed
  steps (`Ahead`); after it `toUndo` counts down, every step above it was named once, and the
  effects left are those the report owes an explanation for (`Rollback`).
* `ResilienceProofs!CacheServesFresh`: an entry that is no longer current was written at most
  MaxLoad after it had been and expires a ttl later, for Redis' truncated ttl too
  (`EntryFresh`); a loaded value was current when it was read (`LoadFresh`).
* `HostProofs!HostEndsCleanly`: besides the property itself, only a background worker has a
  coroutine and outlives it (`LegOutlivesInner`), and during the wind-down whoever is not
  waited for is down (`AwaitsTheRest`).
* `HostProofs!HostRerunsWithCause`, `HostImplementsAtLeastOnce`, without at_most_once (with it
  a failure is acknowledged, and neither is meant to hold). Batches are in order and apart;
  what was dispatched succeeded or is held as failed (`Accounted`, `FailedWasTried`); behind
  SQS a success whose invocations all answered is dispatched and not among the failures
  (`CleanUntilTried`); what a stream holds before a batch is behind it for good
  (`StreamBehind`), and a source that raises goes on only past successes (`RaiseHoldsNone`).
* `HostProofs!InboxCountsOnce`: up to its delete a pass holds the events of exactly the objects
  it read (`DrainExact`), every event is in one queue or one object (`EventsApart`), and
  what is saved has left the bucket if every delete deleted (`SavedIsGone`). The queue, the
  site, and what a refused delete named are separate invariants: a pass that has read those
  objects again cannot delete anything, since it has read more than one delete takes
  (`RefusedInv`).
* `CoreProofs!RoutesReached`: endpoints mirror the routes in their order, the definition of a
  pair is that of its last route, and an answer still is what the tables say. The attempt to
  prove an earlier form showed that it was too strong: a route of the same pair with
  `{version}` in its path, registered before, reads a version out of the other's path and
  answers not-found. `Advertised` now leaves such requests out, and the `core` run has one.
* `CoreProofs!CastsAreShortest`: breadth-first search is right for any graph of casts. The
  invariant says that there are distances `d` at which the types were met such that the queue is
  in their order and spans two of them (`Distances`) and whoever has left the queue has had
  its steps looked at (`LookedAt`). `NoChainWithin` then takes the first type of a shorter
  chain that is farther than its place, which no step can lead to.

* `CoreProofs!ServicesHold`: for services that need each other in any way. Caches only grow
  while scopes resolve, so what was handed out stays what its lifetime says (`Provided`); a
  ready-made instance may outlive its registration (`Known`). The hard part is the stack of
  factory calls: none of the services being built is kept yet, and one that needs itself never
  returns, because the need that leads back to it is still wanted or in hand (`FrameRight`).
  Without that a scope could hold two services of one registration.
* `CoreProofs!MessagesAnswered`: the registry keeps to one default and one handler for each
  version (`RegistryRight`), and what lets an untrusted message pass is not authentication
  (`PassedBy`). The natural order of versions is shown to be strict and total on keys, so a
  highest version exists. `DispatchAssumption` says that applications list their handlers
  lawfully: `add_definition` raises on the others.
* `CoreProofs!AnswersSurvive`: every hop keeps the outcome, and status, payload and errors as
  far as its transport does, and what a hop changes the next ones do not change back
  (`Stands`, kept by each hop in `HopStands`). `ReplyAssumption` says what a handler can build:
  a known status is stated as what it is, a payload is not taken for a problem document.
* `HostProofs!PollsShowReleases`: for a fleet that is only polled, a service is registered with
  one release's hash and specs or, once it got an error's body, with neither (`Recorded`), and
  the published document shows that release or, once the service's poll of this sweep is done,
  the one before (`ShownSchema`). A topic gone is the topic of a service without a hash
  (`GoneByError`).
* `HostProofs!CatalogOutlives`: what the file holds is sound and has all that was answered ok;
  the catalog in memory has it too, and from its ingest on the feed at hand; before it is
  renamed the temporary file is a snapshot of that catalog (`MeshHostInv`). Every ingest keeps
  or adds to what was there (`Grows`), and adds its own (`Took`); the span index is the one a
  restore rebuilds. Apart from it, what is counted is what came in (`CountsRight`): one
  ingest adds what its feed reports (`DeliveryDue`), and traces only count drift, which no
  feed reports. `MeshHostAssumption` says that feeds are of the four topics and hold
  sequences of events or of issues, none of them drift; that a document names finitely many
  topics, a heartbeat says yes or no, times are numbers, and the errors of an issue are a
  list of pairs with counts.
* `HostProofs!UndeclaredFiled`: along the events of a feed the catalogs only grow, the log
  is extended at its end, and services that were there stay as they are (`Followed`). So a
  call that is undeclared when all events are in was so when its own came in
  (`UndeclaredThen`), was filed then, and no later event took that back.
* `HostProofs!CatalogTells`: the three things a reader of the mesh UI relies on. The error
  detail needs an invariant of its own (`DetailsRight`): in memory and in the file no list
  claims a pair more often than it came in, and the catalog to go on with claims each exactly
  as often, as long as its list has room and nothing failed; a list with room now had room
  before every merge (`RoomBefore`). That any finite set of entries has a sorted list, so that
  the one the merge cuts off is sorted, is `OrderExists` and `SortedIs`. The documents agree,
  topics that share a channel of the export under any `ChannelKey` included, because the
  catalog names finitely many services and topics and lists every event under the topic and
  the service it is of (`Listed`), and because a sum over events is the sum over topics of the
  sums of each (`FibresSum`). A flow has a first event, since start times with ties broken by
  receipt are a strict total order (`FirstIs`), and lasts at least as long as every event in
  it (`LastsLongest`).
* `ResilienceProofs!CopiesArrive`, `RetriesAreHonest`: for any headers and every transport. A
  dict is a sequence of pairs; a dict filled item by item has each name once, with the value
  of its last item (`FillIs`), so lower-casing keeps the last of the names that become one
  (`LoweredIs`) and the correlation decorator adds or keeps one name (`CorrelatedIs`). Every
  decoder then finds topic, payload and headers that its encoder wrote, but for the names the
  transport keeps for itself (`CarriedByAll`). The invariant (`OutInv`) is that every copy is
  the encoding of what some attempt sent, and that a success has a copy or was answered by one
  of the four senders that may answer so unheard (`SendUnconfirmed`). `OutboundAssumption`
  says that lower-casing twice is lower-casing once and leaves the names the transports add
  alone. The attempt showed that the properties claimed too much at two edges: over
  CloudEvents a header `data` is the payload, and over EventBridge a name of its metadata in
  two spellings may keep the wrong value (`LoweredOver` has the reason: items written over
  others keep their places). `CarriesPayload` and `CarriesHeaders` leave exactly these out,
  and the `hosts` run has both.

`FoldLeft` and `SumFunctionOnSet` are recursive functions of the library. That they are
defined, and what one more element makes of them, is proved by least counterexample
(`LeastExists`, `FoldExists`, `FoldSteps`, `FillExists`, `FillSteps`, `SumExists`,
`SumSplits`): for a proposition on numbers that is as good as the induction the provers cannot
apply.

Only model-checked:

* all liveness (under fairness, out of the prover's reach, like ENABLED);
* ContractFaithful: `Contract` follows references with recursive operators, and a module with
  those is closed to the prover;
* AuditAgrees: it has no constants but the wirings there are, so TLC's answer is complete.

## 6. Findings

`breaker_wedged` states a comment the code does not keep: a cancelled probe records nothing,
`_probing` stays set, and every later call is rejected although no probe is in flight.

Other disagreements and edges met while modelling. The models follow the code in each of
them, and the properties say what holds in spite of them:

* Resilience. A late failure of an older call clears `_probing`, so the next window admits a
  second probe beside the first (`circuit_breaker.py:125`, "admit exactly one probe"). Two
  overlapping deliveries of one key both run the handler (`idempotency.py:6-7`). A cancelled
  saga compensates nothing and reports nothing. Redis ttls of a second or more lose their
  fraction.
* Workers. Setting `host.stop` does not start the shutdown timeout (`worker.py:119-120`, 153), so
  workers that never look at the signal keep run() waiting. A background coroutine that fails in
  the same turn of the loop in which its cancelled leg would have seen it is not heard of: the
  leg's wait for it suppresses the cancel that reaches it (`worker.py:272-277`). A value that
  is not UTF-8 ends the Kafka loop, in skip-and-continue mode too (`consumer.py:112-114`).
* Senders. The Kinesis sender embeds topic and headers that the Kinesis host does not read.
  EventBridge with a fixed detail_type loses the topic, and headers go only into object
  payloads; of two spellings of `eventbridge-detail-type` the lower-case one takes the place
  of the mapping's own, so the other one wins even if it came first. CloudEvents headers may
  overwrite `type` and `data`. An EventGrid None payload arrives as an empty object. A Kafka
  flush that times out still answers ok; so does EventBridge for an entry that `put_events`
  counts in FailedEntryCount, since its answer is discarded (`aws/clients.py:199-212`), and
  RabbitMQ for a message the broker could not route or never got, since `basic_publish` runs
  with neither confirms nor the mandatory flag (`producer.py:92-98`). Kafka, RabbitMQ, PubSub,
  Lambda and in-process senders raise on a payload json cannot write, the others answer
  service-unavailable. With retry outside correlation each attempt has a new id.
* Mesh. A document member that is present and also named in `degraded` contributes edges,
  though `collector.py:13-14` says it contributes none. Caller-side drift is filed only when
  the caller's span was ingested before the call's. First and last seen compare timestamps as
  text. A registration pushed and then polled unchanged erases the previous topic specs, so
  the schema change is never published. The poller drops the HTTP status, so the JSON body of
  a 404 or of a gateway's 503 is ingested as the service's registration (`poller.py:104-112`,
  145): its topics vanish, and the next real document is not compared with the one before.
  `drain` names the keys of all pages in one `delete_objects` (`inbox.py:105`), of which S3
  takes a thousand: with a second page every pass raises before its ingest, and what piled up
  is never ingested (`inbox.py:79` says "never lost"; it is neither lost nor delivered). The
  AsyncAPI export keys channels by `topic.replace(":", "_")`, so `order:ship` and `order_ship`
  share a channel and its operations (`artifacts.py:338`, "One channel per non-reserved
  topic"). The self-check grants R4 to a router without standard paths; one lost request can
  turn an inconclusive R7 into an unsatisfied one.
* Core. add_singleton over add_instance keeps the old instance (`startup.py:113-115` says the
  last registration wins). HttpRouter replaces a handler registered twice for a (topic,
  version) where Registry raises, and a route that starts with `{version}` takes the paths of
  later routes for versions. A body that is no object is dropped when there are query or path
  parameters. v2 and v02 have the same natural key. HTTP turns updated into deleted and an
  application's own success into ok, and 204 loses the payload; a decoded envelope that states
  a failure under an ok status becomes a success when relayed. Over gRPC a failure without
  errors gains one, fields with dots change, and without the proto packages the errors are one
  text.
* Contract. An optional field of a RootModel that stands for a named type derives to a
  reference beside `nullable`, which readers and the hash ignore. A RootModel on a cycle
  derives differently depending on the order of registration. Recursive types that share a
  name hash differently than under distinct names (`contract_hash.py:15-16`). Types that share a
  name may lose their formats.

## 7. Plan

Modelled so far: everything of the first plan, and every safety property the prover can
reach is a theorem. Left, in this order:

1. SqsConsumer composed with Idempotency, to state what the two give together (a success
   runs again only when overlapped or forgotten).
2. The conversion between JSON and request types, and the notification mappings, as
   operators, should a property of their own be worth stating.

New questions that differ from an existing run only in an option are asked in the same
run, with the option chosen in Init as KafkaConsumer does with stop_on_failure.

## 8. Not modelled

* Fleet discovery and trace mappers, otel, OpenAPI and pydantic adapters, the text of
  generated clients: conversions between external formats, with no state and no order to
  go wrong. Test helpers are read as evidence of what brokers do.
* Payload conversion (`mapping.py`): reflection over Python types; its outcomes are content
  classes of OneWayDispatch.
* Notifications that no Benzene sender writes (S3, DynamoDB, blob, Cosmos, timer): only
  their settlement is modelled, in BatchHost.
* Authentication: a decision per request over an external JWT library; Dispatch models
  where it stands in the pipeline.
* The ASGI glue, gRPC channels and deadlines, lazy creation of SDK clients.
* The manual modes commit=False, delete=False and ack=False: settlement is the caller's.
* Handlers and user middleware, except for their outcomes (success, failure, no
  result, exception, cancellation).
* SDK retries, the network and broker internals: present only as the external steps named
  above. Inbox passes over an empty bucket change nothing and are left out.
