# HookRelay: specifications and proofs

HookRelay takes events over HTTP, stores them in PostgreSQL and posts each one to the
endpoints that subscribe to its type. This directory holds TLA+ models of the parts of it
that keep state, TLC configurations that check them on small instances, and TLAPS proofs
of the results that matter most. All paths below are relative to the repository
(`internal/...`, `cmd/...`).

    tlc -workers 2 -config MCDelivery.cfg MCDelivery.tla     # one run
    tlapm DeliveryProofs.tla                                 # one proof module

## 1. The system

| component | state | operations | talks to |
|---|---|---|---|
| event ingestion, `handler/event_handler.go` | `events` rows; a handler goroutine per request | `CreateEvent` | database, `Engine.Dispatch` |
| delivery engine, `delivery/engine.go` | `jobChan` (buffer 1000), the workers' context | `Start`, `Dispatch`, `Stop` | workers, over the channel |
| workers, `delivery/worker.go`, `retry.go` | the job and log row in hand | `Start`, `executeDelivery`, `recordFailure`, `ScheduleRetry`, `publishResult` | breaker, `delivery_logs`, endpoints, pubsub |
| circuit breakers, `circuit/breaker.go` | state and consecutive failures per endpoint, in memory | `IsOpen`, `RecordSuccess`, `RecordFailure`, `Reset`, `GetBreaker` | called by workers |
| `delivery_logs`, `model/delivery_log.go` | a row per attempt | insert, update | written by workers |
| process, `cmd/server/main.go` | how far start and shutdown are | signal, `srv.Shutdown`, deferred calls | everything |
| pubsub, `pubsub/memory.go` | subscriber channels, closed flag | `Publish`, `Subscribe`, `Close` | called by workers and main |
| WebSocket hub, `ws/hub.go`, `ws/client.go` | client set, send channels, two goroutines per client | `Run`, `BroadcastDeliveryUpdate`, `ServeWs`, the pumps | dashboards |
| endpoint administration, `handler/endpoint_handler.go`, `model/endpoint.go` | `endpoints` rows | create, update, logical delete | read by ingestion |
| API keys, `handler/api_key_handler.go`, `auth/middleware.go`, `model/api_key.go` | `api_keys` rows | create, revoke, check, touch | in front of ingestion |
| rate limiter, `middleware/middleware.go` | a token bucket per client IP | one check per request | in front of everything |
| login and users, `handler/auth_handler.go`, `model/user.go`, `auth/jwt.go`, `auth/oauth*.go` | `users` rows; the tokens browsers hold | callbacks, `handleOAuthUser`, `RefreshToken`, `Logout`, `AuthMiddleware` | OAuth providers, database; in front of the dashboard |
| statistics, `handler/stats_handler.go` | none; four queries per answer | `GetStats` | reads `delivery_logs` |
| delivery log queries, `handler/delivery_log_handler.go` | none; a client's offset | `ListDeliveryLogs` | reads `delivery_logs` |
| configuration, `config/config.go` | settings read at the start | `Load` | the size of the worker pool |
| router, redis pubsub, migrations and pool, signatures | none | – | not modelled, see section 8 |

What is hard here, and which component it belongs to:

* **Check, then act.** A worker asks `IsOpen`, then inserts a row, makes a request of up to
  30 s and reports. The breaker changes meanwhile. An admin update reads a row and writes it
  back later; a key is checked and touched later; a user is looked up and created later, with
  any error of the lookup taken for "not found"; the numbers of one statistics answer are of four
  times, the pages of one log of as many as there are pages.
* **Work that lives in memory.** Accepted jobs exist only in `jobChan` and in workers.
  Crash, shutdown, a failed insert and an open breaker each end a job in another way.
* **Errors that are dropped.** A failed update of `delivery_logs` does not stop the worker;
  a failed insert does. Either may have been committed although it reports an error.
* **Shutdown.** `main` waits for the handlers at most 30 s, then cancels the workers, closes
  the job channel, cancels the hub, closes pubsub and the pool, without waiting for any
  worker.
* **Closing channels others send on.** `jobChan`, the subscriber channels and the clients'
  send channels; a send on a closed channel or a second close is a panic.
* **Full buffers.** `Dispatch` waits, pubsub drops the message, the hub drops the client.

Properties that make each component correct are listed with the runs in section 4.

## 2. The modules

| module | models | composes |
|---|---|---|
| `CircuitBreaker` | one breaker: an operator per method | |
| `BreakerProtocol` | all breakers and the goroutines that call them, `Reset`, a new process | `CircuitBreaker` |
| `Verdicts` | `ShouldRetry`, `ScheduleRetry` and the decision on a response | |
| `Delivery` | handler, `Dispatch`, queue, workers, `delivery_logs`, shutdown, crash, restart | `CircuitBreaker`, `Verdicts` |
| `DeliveryLedger` | what the pipeline promises of one job: the abstract specification | `Verdicts` |
| `DeliveryProperties` | properties and inductive invariants of `Delivery`, its two refinements | `Delivery`, `BreakerProtocol`, `DeliveryLedger` |
| `Reports` | `GetStats` and `ListDeliveryLogs` while deliveries go on | `DeliveryLedger` |
| `Accounts` | logins, `users`, sessions and their refresh | |
| `ApiKeys` | keys made in these sessions, the middleware and the background update | `Accounts` |
| `PubSub` | `InMemoryPubSub`: publishers, subscribers, `Close` | |
| `Hub` | `Hub.Run`, `ServeWs`, both pumps | |
| `EndpointAdmin` | the handlers of `/endpoints` over the row | |
| `RateLimiter` | the token buckets | |
| `MCDelivery`, `MCApiKeys`, `MCReports` | values, symmetry and bounds for TLC | |
| `BreakerProofs`, `DeliveryProofs`, `ReportsProofs`, `KeysProofs` (of `Accounts` too), `PubSubProofs`, `HubProofs`, `EndpointProofs`, `RateProofs` | theorems | |

`BreakerProtocol` is the abstract specification of how breakers are used: admit, then one
report or none. `BreakerSpec` in `DeliveryProperties` states that `Delivery` implements it
(`INSTANCE BreakerProtocol WITH calls <- Calls, ...`): the callers are the workers, a call is
a worker between `IsOpen` and its report, and `Reset` never happens.

`DeliveryLedger` is the abstract specification of what becomes of a job, without handlers, queue,
workers, breakers and processes: accepted once, a row, one post, one verdict that is true of the
answer, closed for good. `LedgerSpec` states that `Delivery` implements it (`INSTANCE
DeliveryLedger WITH stage <- Stage`, where `Stage` forgets why a job is closed); rows and answers
are the same variables. A lost reply, a crash and the end of the process are steps that close
jobs as they are. `Reports` stands on it and not on `Delivery`: what a reader of the table can
see depends on the ledger only.

`ApiKeys` extends `Accounts`: a key is made in a session, so what an event is filed under depends
on what the login found or created. The theorem `KeysLeaveAccountsAlone` says that the
composition still implements `Accounts`.

Definitions whose comment begins with "Mutant:" are defective variants of the definition
after them: what a plausible mistake in the code would be. Substituted for it, each makes
some property fail. They are part of no specification.

## 3. State and actions against the code

**Grain.** An action ends wherever another goroutine, the database, an endpoint or a crash can
act: at each channel operation, each query, the HTTP request, and each method of a breaker
(which holds its mutex for its whole body). Code between two such points touches only the
goroutine's own variables.

**Delivery.** `handler[ev].pc` is where `CreateEvent` is: *idle*, about to *list* the endpoints,
in the loop of *dispatch*, *done*. `worker[w].pc` is where a worker is: *idle* at the select,
then *check* (`IsOpen`), *insert*, *post*, *record* (`RecordSuccess`/`RecordFailure`), *update*,
*publish*, or *stopped*. `main` is the goroutine of that name: *serving*, *draining* (in
`srv.Shutdown`), *shutdown* (it returned), *cancelled* and *closed* (the two halves of
`engine.Stop`), *silenced* (`ps.Close`), *down*. `logs` and `events` are tables and outlive the
process; everything else ends with it. `received`, `feed` and `fate` are history variables:
what endpoints got, what was published, what became of each job. No guard reads them.

* `pool` is the set of workers that `Engine.Start` starts, any subset of `Workers`: nothing in
  `config.Load` keeps WORKER_POOL_SIZE from being 0 or negative.
* A select that has two ready cases is two actions, both enabled (`DispatchSend`/
  `DispatchAbandon`; `Take`/`Quit`). Go picks at random.
* A query succeeds, fails without effect, or fails after it was committed (`stored`). With a
  done context it fails.
* An HTTP request may reach the endpoint or not, and bring an answer or not.
* `Verdict` is the in-memory row after `recordFailure`; it is what `PublishResult` sends, saved
  or not. A request without a response returns before `publishResult`.

**BreakerProtocol.** `breakers` is `BreakerManager.breakers`, total because an absent entry equals a
fresh one. `calls[c]` is what caller `c` was admitted for. A refusal changes nothing.

**PubSub.** One channel name. Readers and writers of the `RWMutex`: `Lock` announces a writer
and keeps new readers out, `Subscribe`/`Close` enter when publishers have left. A publisher's
loop is one `Offer` per subscriber.

**Hub.** One turn of `Hub.Run` is one action; each client has `ServeWs`, `ReadPump` and `WritePump`.
Unbuffered sends (`register`, `unregister`) are joint steps with the hub's receive.

**EndpointAdmin.** `Read` is `GetEndpointByID` and the patch of the copy, `Write` is
`UpdateEndpoint`. One setting stands for url, secret, event types, retries and timeout, which the
code treats alike.

**Accounts.** `login[l]` is a callback and the browser session that follows it: *new*, about to
*lookup* the provider identity, about to *create* a row, *signedin*, *out*. Both providers'
callbacks differ only in how the profile is fetched, which is one step (the profile is the
provider's word of that moment) or a failure. A session is signed in while one of its two tokens is valid:
`ValidateToken` does not tell them apart, so `AuthMiddleware` takes either and so does
`RefreshToken`. `ChangeEmail` is the provider's: addresses move between identities, and no code
of the server updates a row. `Taken` is the UNIQUE constraint on `users.email`.

**ApiKeys.** `Check` is the lookup, the test of `IsRevoked` and the `go` statement;
`UpdateLastUsed` runs at any later time. The handlers that revoke ask for a session but not for
its user, as the code does.

**Reports.** `StatsQuery` is one of the four queries of `GetStats`, in their order; a number is
kept as the set of rows it counted, so that numbers can be compared. `Page` is one request of a
client that asks for the rows after those it got until it gets none; rows with the same
`created_at` come in any order, another each time. `created_at` is given by the insert and may be
earlier than that of rows committed before.

**RateLimiter.** A request is one step under the bucket's lock. Tokens are counted exactly, in
units of 1/window; the code uses `float64`.

## 4. The runs

| run (config) | question | properties |
|---|---|---|
| `breaker` (`BreakerProtocol.cfg`) | do state, count and admissions stay together when reports come late? | `StateMatchesFailures`, `OvershootBounded`, `OpenIsLeftOnlyByLateSuccessOrReset` |
| `delivery` (`MCDelivery.cfg`) | what happens to each job, row and request when one event goes to two endpoints, or two events compete for the queue and one breaker, and anything may fail? | `OneOwner`, `AtMostOnceAndLogged`, `VerdictIsTrue`, `OrphanRowsAreExplained`, `AckMeansDispatched`, `ErrorMeansNothingSent`, `NoSenderWhenClosed`, `FeedMatchesLogs`, `FailingEndpointIsSpared`, `CutOffUntilRestart`, `LedgerSpec`, `BreakerSpec` |
| `delivery_live` | is every request answered, every job settled, every shutdown finished, and how much is at risk meanwhile, for a pool of one worker and of none? | `LossIsBounded`, `RequestIsAnswered`, `AcceptedIsSettled`, `ShutdownCompletes` |
| `pubsub` | publishers against `Close`, slow subscribers | `NoSendOnClosedChannel`, `OrderOfPublisherKept`, `LossOnlyWhenFull`, `CloseReturns` |
| `hub` | channels closed once, feeds without holes, dropped clients end | `MapMatchesChannels`, `NoGaps`, `DroppedClientEnds` |
| `endpoint_admin` | which columns can a request change? | `OnlyNamedColumnsChange` |
| `api_keys` (`MCApiKeys.cfg`) | do overlapping logins, moving addresses and failed lookups keep accounts, sessions, keys and events together; does a revocation hold against updates under way? | `OneAccountUnlessMoved`, `SessionIsOwn`, `EventsReachTheirOwner`, `RevokedKeyIsRefused` |
| `reports` (`MCReports.cfg`) | can the numbers of one answer contradict each other, can a reader of a growing log miss a row? | `StatsAddUp`, `WalkMissesOnlyTies` |
| `rate_limiter` | is the limit kept, and only the limit? | `BurstBounded`, `RefusalIsEarned` |

The runs `delivery`, `pubsub`, `hub`, `api_keys` and `rate_limiter` also check the module's
`TypeOK`; in the other modules it is part of the inductive invariant that is proved.

What they show, in short. A job that was accepted is in one place, is posted at most once over
all restarts, and never without a committed row. A row's verdict is what the endpoint said. A
row that stays PENDING without a retry time has one of four causes, all of them visible in
`fate`. A 201 means every matching endpoint was given its job, unless the client had left; a 500
means that none was, so sending the event again delivers nothing twice. The
queue's channel is closed under a sender only after a forced shutdown. An endpoint that only
fails is hit, beyond the threshold, at most once by each worker, and when these have reported
not at all until the server is restarted. The end of a process loses at most as many accepted jobs
as its queue and its pool hold. What the dashboard is told is
what the table says, except where an update failed. Requests are answered and jobs settled if
there is a worker at all; a shutdown ends even if there is none.

An identity keeps one account, although `handleOAuthUser` may try to insert a second: the UNIQUE
address stops it, and only an identity whose address changed can get two. Sessions and events go
to an account of the identity that made them. The numbers of a statistics answer are consistent
because the pending deliveries are counted last and a success never changes. A client that
pages through a log by what it got misses a row only if another has the same `created_at`.

### Where the code and its comments part

Three runs are expected to find a violation; each refutes a sentence of the repository.

| run | sentence | what happens |
|---|---|---|
| `breaker_single_probe` | `circuit/breaker.go:61` "allowing a single probe request" | after `Reset` every caller is admitted until one reports a failure |
| `delivery_retry` | `delivery/retry.go:25` "All others → retry" | the row gets attempt 2 and a time; nothing ever reads it (`ListPendingRetries` has no caller) |
| `endpoint_delete` | `handler/endpoint_handler.go:149` "logical delete: is_active = false" | an update that read the row before the delete writes `is_active = true` back |

A smaller disagreement is visible in the model without a run of its own: `delivery/engine.go:57`
says that `Stop` "shuts down all workers", yet the select of the worker loop may still take a
buffered job (`Take` after `EngineCancel`). Nothing comes of it: the insert of its row fails,
the context being done.

## 5. Bounds

* `delivery`: two events, two endpoints (one allows a single attempt, one allows three), two
  workers or fewer, a queue of one, one restart, codes 200, 404 and 500 (a success, a permanent
  error, one to retry), breaker threshold 1. Two workers and two jobs are enough for two owners
  of a job; a queue of one makes the second send wait; threshold 1 opens a breaker with the
  first failure. `MCWorkload` bounds the jobs and the answers. Either one event goes to both
  endpoints: the one that allows three attempts answers anything, the one with a single attempt fails,
  since its other answers are those of the first. Or two events go to the endpoint that allows
  three, where handlers compete for the queue and workers for a breaker (overshoot, late reports):
  their requests succeed or bring no answer, as a breaker tells no more apart, and their clients
  stay. Two events for two endpoints each are left out.
* `delivery_live`: one worker, three jobs, a queue of one: one job held, one queued, one that the
  handler waits with, so that `LossIsBounded` is met with equality and one job more would break
  it; or no worker. No restart: liveness is about one process. `MCOneOrder`: the
  loop of `Dispatch` comes to the three endpoints in one order, which liveness does not depend on.
* `breaker`: three callers, two endpoints, threshold 2, one `Reset` per endpoint: overshoot of
  two, and breakers that could be mixed up. `Threshold = 0` makes the default apply.
* `pubsub`: buffer 2, two messages of each of two publishers, two subscribers, two calls of
  `Close`: a buffer fills and overflows, a second `Close` finds the first.
* `hub`: send buffer 1, broadcast buffer 1, three messages, two clients: one can lag while the
  other keeps up.
* `endpoint_admin`: three requests on one row, one setting with two values: a read, a write in
  between and a write back, plus the creation of the row.
* `api_keys`: two identities, two addresses, two rows of `users`, three logins: two that overlap
  and one later, addresses that collide. One key and two requests: one under way when the key is
  revoked, one sent after. `EventsReachTheirOwner` needs only one key, as it relates a request to
  the sessions.
* `reports`: three deliveries, three times (ties and late commits), limits -1, 1, 2 and 3 with a
  default of 1 and a maximum of 2, so that both ends are clamped. One code: what readers tell
  apart is the status, and each status is reached. `MCOneReader`: a behaviour has a statistics
  request or a paging client, which share nothing; beside a statistics request, all rows have one time.
* `rate_limiter`: limit 2 per window of 3 ticks, 5 ticks, two addresses: a full burst, a partial
  refill, a refusal inside it and a full window.

Bounds that are not the program's are constants with the word "bound" in their comment:
`MaxBoots`, `MaxResets`, `MaxPublish`, `MaxMessages`, `MaxTime`; the sets of events, requests
and clients are finite too, and `MCWorkload`, `MCOneOrder` and `MCOneReader` are state
constraints of three runs. Workers and events are interchangeable in `Delivery`, identities, addresses, rows,
logins and requests in `ApiKeys`, deliveries in `Reports`: these safety runs use symmetry over
them; the liveness runs do not.

`CHECK_DEADLOCK FALSE`: in every model but `BreakerProtocol` the finite supply of requests,
messages, ticks or restarts runs out and nothing remains to be done. That nobody waits for ever is
stated by the liveness properties instead.

## 6. Fairness

* `Delivery!Fairness`: weak fairness per handler, per worker and of `main`'s own steps. The Go
  scheduler runs goroutines that can run; a request ends with the client's 30 s timeout;
  `srv.Shutdown` ends with its 30 s context. That a query returns or fails is an assumption on
  the driver and the database: the code sets no query timeout. Nothing is assumed of clients,
  signals, crashes and restarts. Between two ready cases of a select no choice is assumed.
* `PubSub!Fairness`: a publisher in its loop goes on, a writer that can enter enters. A subscriber
  may stop reading.
* `Hub!Fairness`: `Run` serves a waiting client (its select is random among ready cases), a read on
  a closed connection fails, a write ends by its 10 s deadline. A peer need not hang up; pumps
  end because the connection closes.
* `RequestIsAnswered` and `AcceptedIsSettled` except an empty pool, for which they are false.
* `DroppedClientEnds` is about every goroutine of a client: `ServeWs` gets to register, both pumps
  end once the client is dropped or hangs up, unless the hub has stopped.
* `BreakerProtocol`, `EndpointAdmin`, `Accounts`, `ApiKeys`, `Reports` and `RateLimiter` claim safety only.

## 7. What is proved

The proofs hold for every value of the constants that the named assumptions admit: any sets of
events, endpoints and callers, a finite set of workers, any buffer of at least one, any
`MaxRetries` in the integers, any threshold.

**Breakers** (`BreakerProofs`, from `ThresholdAssumption`, `ProtocolAssumption`,
`NoCallAssumption`). `OvershootBounded` is not inductive by itself: in HALF_OPEN a new round of
callers is admitted on top of the count that is there. `HalfOpenLeavesRoom` says that a probe
phase starts with room for that round, one round for each `Reset`; `BreakerInv` is it together
with `TypeOK`, `StateMatchesFailures` and the bound. Counting calls in flight uses the
cardinality theorems of the library. `OpenIsSticky` is an action property and follows from the
step relation and the types.

* `BreakerTypeCorrect`, `StateAndCountAgree`, `OvershootIsBounded`, `OpenIsSticky`

**Pipeline** (`DeliveryProofs`, from `DeliveryAssumption` and `ThresholdAssumption`).
`AtMostOnceAndLogged` counts rows and requests, but whether a step may add one depends on who
holds the job. `PipelineInv` adds what that takes: `OneOwner` (queue and workers
partition the accepted jobs), `UnsentHaveNoFate` (what a handler has still to send was never
sent), `RowsMatchProgress` (no row before the insert, no request before the post), and, for
`NoSenderWhenClosed`, `DrainedUnlessForced` and `DownIsEmpty`. The lemma per action is stated
over one worker and one job (`WorkerOnJob`), since a step of a worker changes only the entries
of the job it holds.

`LossIsBounded` follows from `OneOwner` by counting: the accepted jobs are those in the queue and
those in the hands of workers, and `OnlyThePoolWorks` says that the hands are the pool's. The sets of
events and endpoints may be infinite, the accepted jobs are not.

* `PipelineInvariant`, `DeliveryTypeCorrect`, `JobHasOneOwner`, `DeliveredAtMostOnce`,
  `CloseIsSafeUnlessForced`, `LossesAreBounded`

**What rows and answers say** (`DeliveryProofs`, second part). That a verdict is true depends on
what the worker heard, and that a 201 is true on how far the handler's loop is. `DeliveryInv` adds
to `PipelineInv` the *story* of a job, that its row, its answers, its fate and the worker that holds
it tell the same (`RowTellsTheStory`, `WorkerKnows`), and the *count* of a handler, that
each of its endpoints is still to do or has its job, unless the client left
(`HandlersKeepCount`). The proof has one lemma per action; each changes one job or one handler.

* `DeliveryInvariant`, `RowsTellTheTruth`, `OrphansAreExplained`, `FeedIsTrue`,
  `AcknowledgedIsDispatched`, `RefusedIsNotSent`

**The two refinements** (`DeliveryProofs`, last part). `ImplementsLedger` maps each step to one
step of the ledger: what `EndProcess` closes is the set of accepted jobs. `ImplementsBreakerProtocol`
(with `BreakersAssumption`, that the value `NoJob` is no call either) maps `CheckBreaker` to `Admit`,
`RecordResult` to a report, a failed insert to `Abandon` and the end of the process to `Restart`; all
other steps stutter. It rests on `PipelineInv` and on `NoneHalfOpen`: nobody calls `Reset`, so that no
call is a probe. With it, `OvershootIsBounded` of `BreakerProofs` holds of the pipeline:
`FewSlipThrough` takes the theorem through the refinement instead of proving the bound again.

`ClosedJobIsFinal` is won in the same way: the actions of the ledger never touch a closed job, so
no handler, worker or later process of the pipeline does. `CutOffIsForLife` is about an open breaker
that nobody is past: `CutOff` is kept by each step until the process ends, and no request is made
meanwhile. It is the price of `IsOpen`, which leads to no probe, in a server without `Reset`.

* `ImplementsLedger`, `ImplementsBreakerProtocol`, `FewSlipThrough`, `ClosedJobIsFinal`,
  `CutOffIsForLife`

**Logins and keys** (`KeysProofs`, from `AccountsAssumption` and, for the keys, `KeyAssumption`).
Two rows of one identity have different addresses, by `AddressesUnique`; by `AddressKnown` a
row of an identity that did not move has its address, so that there is one. `KeysInv` adds that a
key has a row of its maker's account before anybody knows it (`RowsAreMade`), that a stored
revocation stays (`RevocationsStick`), that a late request meets it, and that what a request has
read of a row is still true of it except for two columns. `RowsStay`, that no row of `users` ever
changes, links the two modules.

* `AccountsInvariant`, `OneAccount`, `OwnSession`; `KeysTypeCorrect`, `RevocationIsFinal`,
  `EventsAreOwned`, `KeysLeaveAccountsAlone`

**Statistics** (`ReportsProofs`, from `ReportsAssumption`). `StatsInv` says that what was counted as a
success is a success still, and that nothing is counted as pending before the last query. It
rests on the ledger: a settled row is not changed.

* `StatisticsAddUp`

**Paging** (`ReportsProofs`). Every page comes in an order of its own, and rows are inserted between
pages. What stays is the number of rows newer than a given one: it never falls, as a row keeps its
time, and in every order an untied row has exactly those before it (`PlaceOfRow`). `ReportsInv` says
that the offset has not passed that number for any untied row that is still to be read
(`NothingSkipped`). A page adds no more to the offset than its size (`RowsOfPage`), so it shows the row
or stops before it, and an empty page leaves no such row. `IsFiniteSet(Rows)` is part of the invariant:
the set of jobs may be infinite, the rows of a log are not.

* `ReportsInvariant`, `PagesMissOnlyTies`

**PubSub** (`PubSubProofs`, from `PubSubAssumption`: a buffer of at least one, and no goroutine that both
subscribes and closes). The three promises need each other and two facts more. `RegistryIsSound`: a
subscriber is in the list once, with a channel that is open until `Close`, which leaves the list
empty. `LoopIsInOrder`: a loop serves each subscriber once, with a number above all that the subscriber
had of this publisher, and those behind it have the message or were full. That the list does
not change under a loop is the lock: a writer enters when no publisher is sending.

* `PubSubInvariant`, `PubSubTypeCorrect`, `SendsMeetOpenChannels`, `PublishersAreInOrder`,
  `OnlyTheFullLose`

**Rate limiter** (`RateProofs`, from `RateAssumption` and `NoBucketAssumption`). Tokens forget when they
came, so `RateInv` keeps a book per bucket: counted since any admitted request, the tokens left and
those taken do not exceed a full bucket and the refill (`NotTooMany`, for `BurstBounded`); counted since
any time, they are at least the refill of that time or a full bucket (`NotTooFew`, for
`RefusalIsEarned`: a bucket without a whole token had the limit taken within a window). The count of
requests since a time is a cardinality, kept by the lemmas on `Since`. Times are integers here: what
`float64` rounds is not part of the claim.

* `RateInvariant`, `RateTypeCorrect`, `BurstsAreBounded`, `RefusalsAreEarned`

**Hub** (`HubProofs`). `MapMatchesChannels` is inductive with the types and with `PumpsFollow`: no
pump runs, and nothing is sent, for a client that was not registered. For `NoGaps`, `FeedFollows`
says that what is written and then what is buffered are consecutive messages, for a client in
the map up to the last one that `Run` took.

* `HubTypeCorrect`, `MapAndChannelsAgree`, `FeedsHaveNoGaps`

**Endpoint administration** (`EndpointProofs`). `CopiesAreFresh`: the copy that a request is
about to write is the row as it is now with the patch applied, unless another wrote the row in
between.

* `AdminTypeCorrect`, `OthersColumnsStay`

The inductive invariants that no run lists (`PipelineInv`, `OnlyThePoolWorks`, `DeliveryInv`, `AccountsInv`, `KeysInv`,
`StatsInv`, `ReportsInv`, `PubSubInv`, `RateInv`, `HubInv`, `AdminInv`) can be put under INVARIANTS of the run
of their module; TLC finds them true of these instances.

**Model-checked only**: the liveness properties. Every invariant, action property and refinement
that a passing run checks is also a theorem.

**Out of the prover's reach**: liveness under fairness and `ENABLED`, which stay with TLC, and
induction over data. No module here declares a recursive operator.

## 8. What is not modelled

* **Parts of what the dashboard reads**: the average latency and the counts of events and
  endpoints, which are single queries compared with nothing; reading one row by its ID, or the
  rows of one event; the lists of endpoints and keys.
* **Who may see what.** Several handlers look a row up by its ID and do not ask whose it is; the
  models take requests as the code does, with any ID.
* **JWT and OAuth as protocols**: a token is its `user_id` claim and whether it is still valid, a
  callback yields the profile of an identity or fails. `RequireRole` and `GetUserByEmail` have no
  caller.
* **Redis pubsub**: never constructed, `main` always uses the in-memory one.
* **Configuration**, but for the size of the worker pool: read once, decides no control flow.
  `PUBSUB_DRIVER=redis` is accepted and then has no effect.
* **Router, migrations, connection pool**: wiring and external code without state of their own. The
  order of middleware is taken as given by the modules behind it.
* **The demo data** of `seed/main.go`: a separate program that fills an empty database.
* **Signatures, backoff, formatting**: pure computations; the length of a backoff decides nothing,
  as no retry is ever run.
* **Time**, except in `RateLimiter`: a timeout is a step that may happen at any moment.
* **Memory and connection limits**, and redirects inside `httpClient.Do`, which count as one post.
* The endpoint list that `CreateEvent` reads is any set in `Delivery`; `EndpointAdmin` says what
  the table can hold. A job keeps the copy of the endpoint it was sent with. The hub and pubsub are not joined to the pipeline, because the code does
  not join them: nobody subscribes to `deliveries` or calls `BroadcastDeliveryUpdate`.

## 9. Plan

Done, in this order: breakers and their proof; the pipeline with its properties and the proof of
its ownership invariant; pubsub; hub; endpoint administration; API keys; rate limiter; the ledger
and the proof that the pipeline implements it; accounts under the keys; reports on the ledger;
the proofs of hub, endpoint administration, keys and accounts; the refinement of
`BreakerProtocol`; the proofs of pubsub, rate limiter and paging; what a process can lose, and the
finality of closed jobs and open breakers.

What could come next:

1. `Ingestion`: `EndpointAdmin`'s table in front of the pipeline, so that the endpoint list of a
   job has a history and its age can be stated.
2. For the liveness properties, the safety lemmas that a proof on paper needs: which step is enabled
   in each state that is not final, and what decreases.
3. `CalculateBackoff` with 64-bit durations, once something waits for a backoff.
