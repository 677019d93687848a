# A TLA+ verification of the modular monolith

This directory models the modular monolith: the delivery of integration events,
background work, caches, rate limits, sessions and keys, the start of hosts and
their configuration, the pipeline a request passes, and the modules' own records.
TLC checks the models on small instances; TLAPS proves the safety properties
that matter most for every value of the constants.

Everything is translated from the Rust source and the SQL migrations. What the
libraries and PostgreSQL contribute is modelled as far as the code relies on
it, and marked as external.

## 1. The system

One host process (`crates/api`) composes five modules, each with a schema and a
database pool of its own, around a shared kernel. Several hosts may run against
one database. A second, separate host (`samples/catalog-host`) runs the Catalog
module alone, follows the Orders outbox by a cursor and validates Identity's
tokens over HTTP.

| Component | State it keeps | Operations | Talks to |
|---|---|---|---|
| Events: publisher, dispatcher, inbox, dead letters (`shared-kernel/src/events`, `module-orders/src/services.rs`) | `orders."OutboxMessage"`, one `"InboxMessage"` table per consuming module | `finalize_invoice`, `process_batch`, `deliver`, `inbox::run`, `DeadLetters::retry` | handlers in Catalog and Administration; the work queue; PostgreSQL |
| Work queue and hosted services (`concurrency.rs`, `hosting.rs`) | bounded channel, `waiting` counter, stopping token | `run`, `enqueue`, `execute`, `RunningServices::start`/`stop` | the dispatcher, the integrity job, HTTP requests |
| Cache facade (`caching/`) | moka cache, tag index with generations | `try_get_or_add`, `remove`, `remove_by_tag`, the eviction listener | the services' reads, the writes that invalidate |
| Rate limiting (`traffic_control.rs`) | one window per policy and caller's address, time of the last sweep | `acquire`, `admit`, `sweep_if_due` | every route group |
| Module gate (`concurrency.rs`) | a semaphore | `enter` | Reporting's views |
| Identity (`module-identity`) | refresh tokens in memory, users, the signing key file | login, refresh, revoke, purge, load or create a key | the token endpoints, the other modules' policies |
| Catalog host (`samples/catalog-host`) | the cursor over the outbox, the cached key set | feed tick, key refresh, token validation | Orders' outbox, Identity's endpoints |
| Reporting (`module-reporting`) | integrity findings, two views | the integrity job (nightly and on demand) | every module's tables; the work queue |
| Catalog, Orders, Administration services | the business tables, TrackSales, purchase summaries | queries, genre CRUD, invoice finalization, event handlers | cache, events |
| Host start (`crates/api`) | migration history, seed marker, service registry | register, migrate, seed, map endpoints, check, serve, drain | PostgreSQL, the key file |
| HTTP pipeline (`crates/api`, `shared-kernel`) | none but the request's own | layers, routing, extractors, errors, OpenAPI | all |
| Configuration (`config.rs`) | the merged document | read layers, merge, look a key up | all |
| Validation, redaction, health, persistence | none of their own | pure functions and wrappers | all |

What is hard here, and what must hold:

* **Events.** Publication is atomic with a business change; delivery is at
  least once; several dispatchers poll one table; each handler commits in a
  transaction of its own, and the batch in another; any of those commits may be
  lost, or succeed with its answer lost; a dispatcher may lose its locks and not
  know. Correct means: one event per finalized invoice, a handler's effect at
  most once per event, a row processed only when everybody handled it, batches
  isolated from each other, retries on schedule, and every row settled in the
  end.
* **Feed.** A second process applies the same events to the same tables, from a
  cursor that knows nothing of commit order. Correct means: sales are exact
  whoever applied what, no row is skipped, and a deadlock between two handlers
  costs a retry and nothing else.
* **Work queue.** Producers run beside the consumer; the host may stop at any
  moment; a caller may leave; work may panic. Correct means: the counter is
  exact, an answer says what happened to the work, one panic does not stop the
  queue, and every call is answered.
* **Cache.** A factory's read, the write that outdates it, the invalidation, the
  insertion and the removal notice all interleave; a write must name every entry
  it outdates, also those other queries composed. Correct means: one factory at
  a time per key, an index that is exact, no stale answer after an
  invalidation beyond a known list of ways to one, and no write that forgets an
  entry.
* **Rate limiter.** Windows are swept and restarted by whichever request comes
  by, while others wait for the next window. Correct means: permits per window,
  places in the queue and the order of those who wait are kept.
* **Refresh tokens.** Refreshes, logouts and purges run beside one another on one
  map. Correct means: a session has one good token at most, a token buys one
  pair, a logout is final, and a purge takes nothing that is good.
* **Keys.** Hosts that start together make, truncate and write one key file; a
  remote host caches the published set, behind a mutex held while it is fetched.
  Correct means: one signing key, a withdrawn key not accepted past its interval,
  a published one learned within its own.
* **Start.** Hosts migrate and seed one database at once and may die anywhere;
  modules register in some order and wire themselves with what is there at
  their turn; configuration comes in layers of different shapes. Correct means:
  seeded once, every host comes up, wired the same in any order, and the last
  layer that names a key wins.
* **Integrity job.** Each check is several statements beside the modules' writes
  and other hosts' runs. Correct means: a run alone is exact, and the findings
  come to be the orphans.
* **Requests.** Every answer, from whichever layer, handler or panic, goes out
  through the layers entered, and no handler runs for a caller a policy refuses.

`PROJECT.json` lists each hazard at the line where it bites, with the properties
that would catch it.

## 2. The modules

| Module | What it is |
|---|---|
| `EventDelivery` | What the outbox promises: an abstract specification without batches, locks, retries or time. |
| `Outbox` | Publication, dispatch, inbox, retries, dead letters, on PostgreSQL's transactions. |
| `OutboxFeed` | The catalog host's feed and the monolith's dispatcher, both applying invoices to Catalog's TrackSales rows. |
| `WorkQueue` | The bounded queue with its consumer and the host's stop. |
| `ReadCache` | One module's cache between its reads and the writes that invalidate them. |
| `Records` | The tables of Catalog, Orders, Administration and Reporting's views; every query, every write, and which cached answers each write drops. |
| `RateLimiter` | One policy's limiter. |
| `Endpoints` | Every endpoint of both hosts: route, policies, declared answers, OpenAPI documents; the matching of a path; the policies. |
| `Pipeline` | A request's way through a host's layers, in and out. Extends `Endpoints` and `Users`. |
| `Users` | The store of users a host makes of its configured logins, and whom it finds. |
| `RefreshTokens` | Identity's login, refresh and logout over the store of refresh tokens. |
| `RemoteIdentity` | The catalog host's cached key set. |
| `HostStart` | Hosts starting together: key file, migrations, seed, services, port, drain. |
| `Composition` | Registration of the modules in any order, the endpoints they map, and the startup checks. Extends `Endpoints`. |
| `Config` | The layers of configuration and how they merge. |
| `HostEnvironment` | What depends on the environment's name. |
| `Integrity` | The orphan checks of Reporting's job. |
| `Sums` | Sums over finite sets, for the models that count. |
| `*Proofs` | Theorems: `OutboxProofs`, `RefreshTokensProofs`; `HostStartProofs` about `HostStart` and `Composition`, `TrafficProofs` about `RateLimiter` and `Pipeline`, `JobsProofs` about `WorkQueue` and `Integrity`, `CacheProofs` about `ReadCache` and `Records`, `CatalogHostProofs` about `OutboxFeed` and `RemoteIdentity`; `SumsProofs` has the lemmas about sums. |
| `MC*` | Values for the constants, symmetry sets, and which modules share a run. |

A definition named `X_Something` is `X` with a plausible bug. Nothing uses it;
replacing `X` by it breaks a property, which shows that the property depends on
that code. `PROJECT.json` "mutants" says which breaks which.

### Outbox

`call[e]` is one `finalize_invoice` call, identified by the event id it would
publish. `BeginFinalize` takes the invoice's row lock, reads the status and the
clock and writes in its transaction; `CommitFinalize` commits the status and the
outbox row together, `AbortFinalize` stands for an error, a dropped request or a
crash before the commit, and "unanswered" for a commit whose answer was lost.

`phase`, `held`, `todo`, `current`, `next`, `failed`, `writes` and `seen` are one
dispatcher's `process_batch`: `SelectBatch` is the `FOR UPDATE SKIP LOCKED`
select (with `seen` the `Attempts` it read), `TakeRow` and the handler actions
are `deliver`, `InsertInbox`, `SkipDuplicate`, `CommitHandler`, `FailHandler` are
`inbox::run`, `RecordOutcome` the UPDATE of one row inside the batch's
transaction, `CommitBatch` and `FailBatch` its end. `LoseConnection` ends the
transaction in the database while the dispatcher carries on; `Crash` ends the
dispatcher too. `PanicHandler` unwinds the batch, as the code does.

A row's `wait` is the time left until `NextAttemptAt`; `Tick` counts it down.
`occurred` is the rank of a clock reading. The handlers' own tables are
abstracted to `applied`, the number of committed runs per event and handler.

### OutboxFeed

`Stamp` reads `OccurredAt`, `CommitRow` makes the row visible at most
`CommitDelay` later. A feed's `Poll` selects a batch beyond `cursor` and older
than the settle delay, `NextRow` takes its rows in turn, `MoveCursor` is the
unconditional UPDATE, and `Unreadable` a payload it cannot decode; `Dispatch` is
the monolith's dispatcher choosing a row. From there a worker is a handler's
transaction: `Claim` (the inbox key, which makes a second insert wait), `Upsert`
one track after another, in the order of the invoice's lines (`PerTrack` has the
lines that are the first of their track, `todo` those still to do), `Overflow` (the
column of 32 bits), `DeadlockVictim`, `Commit`, `Fail` and `CommitLost`.
`owner` is PostgreSQL's row locks. Sums within an invoice wrap (`Wrap`), as an
i32 does in a release build; a sum that wraps at every term is the sum wrapped once. The monolith's schedule is left out: `Outbox` has
it, and here `tries` bounds it.

### WorkQueue

A call goes new → waiting → permitted → counted → sent → answered: the steps
`Reserve`/`Grant`, `Count`, `Send`, `Answer` are what runs between the awaits
and the shared state of `run` and `enqueue`. The consumer's `select!` is
`Receive` or `Close`; `StartWork` and `FinishWork` enclose the work. `Close` and
`Drain` are the receiver's drop, in the two steps tokio takes. `Stop` cancels the
token.

### ReadCache and Records

A reader's call is `Get` (hit, or miss), `Join` (waiting for another's factory),
`Load` (the factory's database read), `Register` (`register_tags`), `Store`
(moka's insertion). A writer's request is `Commit`, `TakeTag` and `Invalidate`
(`remove_by_tag`, one key at a time), `RemoveId`. `Expire` and `Evict` remove
entries at any time, and `Forget` is the eviction listener, told afterwards.
What a factory read is the number of writes committed by then. `version`,
`mark`, `invalidated`, `due`, `overtaken` and `abandoned` record what happened,
for the properties; no action is guarded by them except `version`, which the
factory reads.

`Records` asks the other half of the question: not when an invalidation comes,
but whether it names what it must. A table is a sequence of rows in heap order;
each `Get...` operator is one query of a service, composed as the service
composes it (an artist's albums with their tracks, an invoice's lines with the
names of their tracks): `Where` is a query's WHERE, `ById` its ORDER BY, `With` a
row and what a join or the service adds to it. `Query` is what a cache key
answers. `Fetch` loads and
keeps, `Lapse` drops, and each write is one step with the invalidation after it.
`FinalizeInvoice` writes the status and leaves its event to each module's
`Handle`, in any order.

### RateLimiter

A request is one `acquire`: `Call` reads the clock, `ClaimSweep` and `Sweep` are
`sweep_if_due`, `Admit` is the decision under the partition's lock, then the
request is admitted, refused, or asleep until its `wake`. `GiveUp` is a client
that leaves a sleeping request; nothing in the code runs then. `opened` records
when windows started, for the properties. `admit` has no await, so the model lets
no tick pass while a request is inside it: a thread is not suspended for a
tick (half a window in the run) between its clock reading and its decision.

### Endpoints and Pipeline

`Endpoints` lists what the five `register`/`map_endpoints` functions declare, by
builder operators named like theirs, and what each handler can answer. A path is
a sequence of segments, and `Matched` axum's choice among patterns. `Pipeline`
follows one request: `RequestId`, `Wrap`, `Cors`, `Authenticate` inward
through the layers in the order `app.rs` adds them, `Route`, `EnforceConstraints`,
`RateLimit`, `Authorize`, `Extract`, `Handle` or `Panic`, and `Leave` outward, one
layer a step, through exactly the layers that were entered; `Unwind` takes a
panic to the layer that catches it. `Validate` is the check of a token by the
monolith, `ValidateRemotely` by the catalog host. Whether the window has a permit
left is chosen as the request arrives. What `login`, `refresh` and `logout` answer
depends on the store of users (`Users`: which records are usable, which of one
name is kept, that production has none) and on the token's subject (`Decided`).

### RefreshTokens and RemoteIdentity

In `RefreshTokens`, a request is one call of `login`, `refresh` or `logout`, and
stands for the refresh token it issues, if it does. `Login`, `Take` and
`Forbid`/`Revoke` are the handlers up to their first access to shared state;
`Issue` is `issue_at` up to `store`; `CheckPurge`, `ClaimPurge`, `Purge` are
`purge_if_due` (the load, the compare-and-exchange, the sweep on the clock read
before), and `Store` the insertion. A refresh or logout presents any token that
was ever given out, including other users' and those of an earlier process. The
handlers have no await, so a client that leaves does not interrupt them;
`Restart` does, and empties the store. `session` and `ended` record which login a
token descends from and which of them a logout has ended.

In `RemoteIdentity`, a request asks for the key its token names: it waits its
turn at the mutex, answers from the cached set if that is fresh and has the key,
and otherwise fetches with the mutex held; the fetch is answered by the set then
published, is lost, or is given up by its client (`Leave`). `Rotate` replaces the
published key. `fetched` and `missed` are the ages of the two instants the cache
keeps, both read before the fetch.

### HostStart, Composition, Config

`HostStart` has one `stage` per host, from `down` over the signing key
(`TryLoad`, `Generate`, `Truncate`, `Save`), each schema (`CreateSchema`, `Lock`,
`Migrate`, `Migrated`) and the seed (`CheckSeeded`, `BeginLoad`, `Duplicate`,
`CommitLoad`) to `StartServices`, `Bind`, `Drain` and `StopServices`. `Crash`
strikes anywhere; whoever runs the host starts it again.

`Composition` registers the modules in each order there is: `services` is the
registry, and `Register` what `register_services` of a module adds to it,
reading what earlier modules added; `ForEvent` gives the positions of an event's
subscriptions, as a dispatcher reads them for each batch. `Map` collects endpoints, one of them
possibly mistaken; axum's panic on an overlap is `Overlap`, and `Check` the
startup check of Development and Test.

`Config` reads each layer into a value (`ReadJsonLayer`: colon keys, lower case,
index maps to arrays), merges it, then inserts the variables in the arbitrary
order of the process's environment. `GetString` is the lookup.

### Integrity

One step per statement boundary: `ReadOrphans` and `OpenFindings` are the read
and the write of one INSERT ... SELECT, `ReadResolved` and `CloseFindings` of one
UPDATE, since PostgreSQL takes the snapshot before it writes; `Tally` ends a run.
`DeleteTarget` and `RestoreTarget` are the modules.

## 3. The runs

Twelve runs, ten of them passing. Models that share a theme share a run: the MC
module extends both and a variable `part`, chosen in the initial state, says
whose steps the behaviour takes, so TLC explores the one and then the other, and
no product of the two arises. The modules of a part do not influence each other;
where components do interact (publication and dispatch, dispatcher and feed,
records and cached answers, hosts and database), they are one module.

No model has a deadlock to find: calls are finite and a system where every call
has ended and every row is settled is quiet, so the runs say
`CHECK_DEADLOCK FALSE`; a call that waits forever is caught by the liveness
properties instead.

| Run | Instance | Distinct states | Checks |
|---|---|---|---|
| `outbox_delivery` | 2 invoices and events, 2 handlers, 2 dispatchers, one retry delay, one fault | 2,050,000 | `AppliedOnce`, `ProcessedMeansHandled`, `BatchesAreIsolated`, and that `Outbox` implements `EventDelivery` |
| `outbox_calls` | 4 events racing for 2 invoices and a missing one, one undecodable, one panicking, one handler without a database | 86,000 | `PublishedOnce`, `AnswersAreTrue`, `UndeliverableNeverSettles` |
| `outbox_settles` | 2 events, 2 handlers, two delays, one fault, fairness | 225,000 | `ScheduleKept`, `EveryRowSettles`, `AtLeastOnce` |
| `outbox_panic` (violated) | one event whose handler panics, fairness | | `EveryRowSettles` |
| `work_queue` | 4 calls on a queue of 2, one panicking, one that may leave, fairness | 29,000 | `CountKept`, `AnswersAreTrue`, `AnsweredUnlessStranded` |
| `work_queue_stop` (violated) | a small queue, fairness | | `EveryRunAnswers`, as the comment on `run` states it |
| `store` | `ReadCache`: 3 reads of one query, 2 writes, all may be dropped; `Records`: 3 invoices, 6 lines, every query, a genre written, one answer cached at a time | 895,000 | `SingleFlight`, `IndexIsTidy`, `ReadsFollowInvalidation`; `CachedReadsAreCurrent`, `CountersAddUp`, `AnswersAgree` |
| `traffic` | `RateLimiter`: 5 requests of one address, 1 of another, one permit, two places, windows of 2 ticks, 5 instants; `Pipeline`: every endpoint of both hosts with every kind of token, tenant, path value and body, 6 configured logins | 308,000 | `PermitsPerWindow`, `PlacesCounted`, `WaitersFirst`; `AnswersAreDeclared`, `EveryAnswerIsWrapped`, `OnlyTheEntitledRun` |
| `identity` | `RefreshTokens`: 2 users, 2 logins, 2 refreshes, 1 logout, 4 instants, a lifetime of 2, a purge interval of 1, one restart; `RemoteIdentity`: 2 requests again and again, 2 keys, intervals of 3 and 2, a fetch of 1 | 2,517,000 | `OneTokenPerSession`, `LogoutEndsSession`, `GoodTokensKept`; `WithdrawnKeysExpire`, `CurrentKeyIsLearned` |
| `catalog_feed` | 5 events (one foreign, one undecodable, one that overflows), 2 feeds, 1 dispatcher, 2 tracks, batches of 2, one fault, fairness | 379,000 | `SalesAreExact`, `CursorSkipsNothing`, `EveryEventCounted` |
| `startup` | `HostStart`: 3 hosts in 3 environments on one database, two of them on one port, one crash and one stop, fairness; `Composition`: all 120 orders of the five modules, with each mistake; `Config`: 3 files and 4 variables over 2 logins | 628,000 | `SeededOnce`, `OneDevKey`, `EveryHostStarts`; `WiringIsComplete`; `LayersResolve` |
| `integrity` | 2 hosts, 2 checks over 4 rows, 3 changes, one run cut short, fairness | 314,000 | `RunsAreExact`, `FindingsConverge` |

Type invariants are proved, not run. `ConsumerSurvives`, `SpentOnce` and `PurgesSpaced`
are theorems of their modules and are not run either.

### Bounds, and why they are enough

* Two dispatchers are enough for every conflict between batches: a conflict is
  about one row and two holders. Two handlers are enough for one to succeed and
  one to fail on the same event; two events for rows of one batch to have
  different outcomes. `MaxFaults = 1`: one crash, lost connection or refused
  write at any step; the handlers' failures, aborted calls and lost answers are
  not bounded by it.
* One retry delay gives two failures before the dead letter; `outbox_settles`
  has two, so that an off-by-one in the schedule shows. The code has five.
* Two invoices that sell two tracks in opposite orders are the smallest
  deadlock; two feeds and a dispatcher let any two of them meet while the third
  reads. `MaxInt = 5` puts the overflow within reach of one line.
* A queue of two with four callers fills up, has waiters behind it, and lets the
  consumer leave with items queued, a permit out and a waiter at the same time.
* Three readers of one key are a factory, a waiter that may take over and one
  that comes late; two writers are an invalidation overlapping another. In
  `Records`, an answer's staleness is about one entry and the writes since, so
  one entry is cached at a time (`MaxCached`), of every key in turn.
* Five requests over three windows with one permit let the queue fill, a waiter
  be sent back once more, and new arrivals race it; the other address sweeps.
* Two refreshes and a logout are the calls that can present one token at once;
  the other user's login gives a token to present under the wrong name. Two
  logins and two refreshes are four calls that may purge.
* Two requests are one that fetches and one that waits behind it; ages stop at
  the interval they are compared to, so time is not bounded.
* Three hosts are two that race on every step and one that comes up in between
  with another environment or key provider.
* `Pipeline` takes one request at a time: layers share nothing but the limiter,
  whose answer is chosen freely. The tokens sit on both sides of every bound
  (expiry, skew, audience, type), the paths on both sides of every constraint.
* `Config` merges documents of one section with an array of one or two objects:
  flat, nested, sparse, in any case, given by any layer. Each rule of
  `merge_layer` and `insert_at` is about two values at one path.

### What the runs show that is not obvious

* `ImplementsDelivery` maps rows to the abstract accepted, effects, settled and
  parked, and holds across lost locks, lost commits and duplicate deliveries:
  all of that is invisible to the modules that publish and consume.
* `ReadsFollowInvalidation` says an answer given to a read that began after an
  invalidation is up to date unless its fill had read before, and not stored by,
  some invalidation, or took part in one of the races listed in its comment.
  Each exception is a hazard of `PROJECT.json`; without it the property fails.
* `CachedReadsAreCurrent` holds although a write drops only its own entity's
  entries: of what the program writes (a genre's name, an invoice's status, the
  counters of sales and purchases) nothing is part of another entity's cached
  answer. A query that composed one would break it.
* `SalesAreExact` needs the inbox key alone, not the cursor: the feed and the
  dispatcher may both deliver every event. `CursorSkipsNothing` needs the settle
  delay to be at least the longest time from a row's `OccurredAt` to its commit.
* `EveryHostStarts` holds because a host that finds its schema half migrated, its
  seed half loaded by another, or its insert a duplicate ends and is restarted.
* `AnsweredUnlessStranded` is the strongest form of "every call ends" that the
  code satisfies; the exception is the finding below.

## 4. Fairness

* `Outbox`: the hosted loop polls as long as the host runs, every statement ends
  with an answer or an error, and time passes: weak fairness of each dispatcher's
  `Work` and of `Tick`. No fairness of calls, faults, or the retry by a person.
  `EveryRowSettles` needs nothing else; `AtLeastOnce` assumes that consumers
  recover and dead letters are sent back, in its own hypothesis (`Recovery`).
* `OutboxFeed`: a feed polls for as long as its process runs, a transaction that
  has begun is driven on, `finalize_invoice`'s too, and the clock goes on. None
  of a dispatcher taking up work: the feed must do without it.
* `WorkQueue`: the runtime polls every task that can go on, and work ends: weak
  fairness of each call's `Proceed` and of `Consume`. tokio's permits are granted
  first come first served, which the queue of waiters models, so weak fairness is
  enough. No fairness of calls, departures or `Stop`.
* `HostStart`: a process that runs goes on, and one that ended is started again:
  weak fairness of `HostStep`. That restart is the supervisor's, as a container's
  restart policy gives it; the code relies on it when it ends on an error.
  Strong fairness of `Lock` alone: others may take the advisory lock in between,
  and PostgreSQL serves its waiters in order. `startup`'s other parts take no
  step of a host's, so their behaviours do not satisfy this fairness; they are
  checked for safety, which does not depend on it.
* `Integrity`: every host's job runs every night, and a statement under way ends.
* The other modules are checked for safety only.

## 5. Proofs

`tlapm` checks every proof to its last leaf. They assume the ASSUMEs of the
modules (finite sets of calls, requests and rows, positive capacity, window and
intervals, a nonempty order of schemas and list of checks, names that are not
`Nobody` or `NoEvent`), which TLC evaluates in every run. Some say more than that
a constant is of its kind. `HandlersAssumption`: an event has subscribers, as
`InvoiceFinalized` has two from the moment the modules are registered; without
one a row would be processed and nothing delivered. `ReadKeysAssumption`: what is
cached is what the services call `cached` and `cached_list` for, each key of one
entity. `InvoicesAssumption` says what an invoice is: lines of a track and an integer
quantity, and a date; `SeedAssumption` what the columns of the seeded tables are:
primary keys, totals that are not null, quantities that may be. `CompositionAssumption`
says that `get_modules` lists each of the five modules once, in any order, and that
a mistaken endpoint has a module's tag. `PipelineAssumption` says what the environment sends and
is configured with: two hosts, bodies of six kinds, tokens whose instants are
numbers, and a trace that is one if its header is well formed; `NamesAssumption`
that identifiers are not the names of headers, nor "none" an endpoint or an answer.

**Outbox.** `AppliedOnce` is not inductive: a handler commits in a transaction
that has held an inbox key, and whether a second commit is possible depends on
who else holds that key and on what other batches have seen. The proof goes in
layers. `Typed` adds to `TypeOK` that a dispatcher delivering has a row in hand.
`Core` adds `NothingDeleted` (no row leaves the table), `Publishing` (an open
call owns its invoice and its event is not yet in the outbox), `Batching` (what a
live batch holds, has seen and has written) and `BatchesAreIsolated`; it gives
`PublishedOnce` and `BatchesAreIsolated`. `IInv` adds `SoleClaim` (an uncommitted
inbox key has one owner and is not committed), `HandledWasPublished` and `Passed`
(the handlers a dispatcher has gone past without a failure have their inbox
rows); with them `AppliedOnce` and `ProcessedMeansHandled` are inductive. That
batches are isolated is not needed for `AppliedOnce`: the inbox key alone carries
it, as ADR-0008 says it should.

On top of `IInv`: `AnswersAreTrue` follows from `Publishing` alone.
`ScheduleKept` needs `Scheduling`: the rows a batch has written and not committed
are on schedule too, and the `Attempts` it read were those of a pending row, since
it is from that snapshot that it computes the next attempt (`WriteSteps`,
`SeenStep`). `UndeliverableNeverSettles` needs `Refusing`: no inbox row, committed or
being written, for an event or a handler that cannot take it, and no batch that
begins to handle an unreadable row.
`ImplementsDelivery` is proved step by step: a publication is `CommitFinalize`, an
effect `CommitHandler`, a row is settled or parked by `CommitBatch`, and every
other step, the faults included, is a stutter.

**ReadCache.** `Shape` says how entries, registrations, fills and the listener's
backlog fit together; `SingleFlight` and `IndexIsTidy` are parts of it, and need
the rest: that nobody but the one who loads can store, and that a replaced or
lost entry is always one the listener will be told of. `ReadsFollowInvalidation`
is about an answer and a commit long before it. Between them stand `Clocked` (a
commit is counted before it is announced and announced before a read owes it),
`Owned` (a removal finds every live entry and every fill about to be one: it is
registered, or another request holds its registration, or a removal overtook it)
and `Fresh` (what is live and found shows every commit that is owed). The two
exceptions of `Fresh` are the two races the property's comment names.

**Records.** `CachedReadsAreCurrent` is a frame argument: a query reads the tables
its entity is invalidated for, and of the others only such as no service writes
(`QueryFrame`), and an invalidation leaves other entities' entries alone
(`WithoutEntity`). It holds for any contents of the tables.

`CountersAddUp` is the conservation law between three modules: what Orders has
finalized is what Administration and Catalog have counted plus what the events on
their way will add. `Books` carries it for every id, and with it what a step
needs: an invoice that is not finalized is as it was seeded, so that the one
finalized was not in the sum (`InvoicesAsSeeded`); each event is a finalized
invoice's, so that the new one is no event already there (`EventsAreFinalized`);
and the counters are integers (`CountersTyped`). Finalizing adds one term to the
sum over the invoices and one to what is due each handler (`OneMore`,
`SumGrows`); handling takes it out of what is due and puts it into the counter
(`SumShrinks`). That an UPDATE moves a row in the heap and leaves the other rows
as they were is `RewrittenRows`.

`AnswersAgree` compares answers that two modules compose, each in statements of its
own, of sequences sorted and filtered. The lemmas on the queries say which rows come
out: `AscendingAll` (each of a finite set of integers has one place in their order),
hence `WhereRows` and `ByIdRows`. Then each pair is reduced to the same set of rows:
`GenreUnits` (a sum over tracks is the sum over Catalog's answers to them, since
ids tell those apart: `SumImage`), `ReportedLines`, and `NestedTracks` (a track of
an album of the artist's is nested under it, and a track without an album is
listed under no artist). Of the state it needs that counters are integers and
invoices are rows, which `Books` has.

**WorkQueue.** `Typed`, then `Counted` (the counter is the calls counted, the
items in the channel and the received item, so the subtraction never wraps), then
`Tracked` (where each call's item is and how often its work was started and
finished in each stage), from which `AnswersAreTrue` and `ConsumerSurvives`
follow.

**RateLimiter.** `PermitsPerWindow` speaks of windows that opened earlier, and a
sweep forgets entries. The strengthening `IInv` says: clock readings are not in
the future (`Clocked`), every admission falls into a recorded window
(`Covered`), a waiter sleeps to the end of one (`Sleepers`), and a partition's
entry counts exactly what was admitted into its window and who waits, while a
partition without an entry has no open window and nobody waiting
(`EntriesRight`). The key lemma `CurrentIsRight` shows that the entry `admit`
works on is right whether it was found, started over or inserted after a sweep:
an entry that is missing had nothing in a window still open. `WaitersFirst` is an
action property that follows from it.

**Pipeline.** Both properties speak of the end of a request's way and rest on the
order of the layers. `Placed` says where a request is: the layers around it and
those ahead are its host's and its route's, outermost first (`InOrder`, by `Rank`),
and none is around it that has an outer one ahead. `HostLayersAre` and
`RouteLayersAre` prove that the sequences the code builds are in that order,
`Turn` that at a layer's turn every earlier layer is around the request, and
`ServedGuarded`, over every endpoint of every module, that one which names a
policy also requires authorization, as logout does. `EveryAnswerIsWrapped` then
needs `Wrapped`: what an answer on its way out already is, or else which layer it
still has to pass. Each answer begins inside the trace, the pages, the charset and
the headers, or, after a panic, inside the trace (`AnsweredInside`,
`UnwindInside`), and a layer pays what the answer owes it (`LeaveInside`).
`OnlyTheEntitledRun` needs `Entitled` (what each layer around the request has seen
to, so that a handler's turn, `HandlerTurn`, comes with all of it) and `Justified`
(what an answer tells of the caller); `LoginIsKnown` goes through the store's
construction to the last usable record of the name.

**RefreshTokens.** `OneTokenPerSession` holds because a refresh that is let
through has removed the session's one token, so `IInv` must say that what is in
the map was issued (`Filed`), that a call that has not begun has left no trace
(`Untouched`: a login starts a session nobody else has), and, for `SpentOnce`,
that a token that bought something is not in the map (`Spent`). `QuietSteps`
sorts the steps: all but a login, a take and a revocation give a session nothing.
`PurgesSpaced` and `GoodTokensKept` follow from `Claims`: no clock is ahead of
time, a claim to be made was an interval past the `last_purge` it loaded, and
whoever sweeps claimed no later than `last_purge`. All of it
assumes that the wall clock does not go back.

**OutboxFeed.** `CursorSkipsNothing` says that nothing can appear behind the cursor,
which is about rows not yet written. `Committing`: a stamped row that is not
committed is younger than the settle delay, and the cursor is not. `Batches`: a
batch is a stretch of the order without gaps, whatever came into the outbox since
it was read. `InTurn`: a feed has the first row of its batch in hand and passes it
applied. So where the cursor is set, by whichever feed, everything before it is
applied or another's.

`CountsOnce` and `CountsExactly` are about the sales. An inbox key has one holder
(`Keyed`), and a transaction holds the rows of the tracks it has upserted
(`Locked`), all of its invoice's when it lands (`PerTrackNamesAll`): so TrackSales
changes only by one whole event that was not in the inbox and then is (`Counted`).
A sum over the inbox then takes one more term (`SumAdd`), which is what the upsert
adds, and the latest date is the greater of two (`Exact`). The sum is over a set of
any size, and the induction it needs is on the least counterexample: of the finite
sets a sum went wrong on there would be a smallest (`SumsProofs`).

**RemoteIdentity.** Both properties speak of a request that has been answered;
`IInv` says what is known of the cache in between. `Ages`: a cached key was
withdrawn no longer ago than the set is old, and the set no younger than the
instant kept with it, which was read before its fetch: with the instant after
the fetch (`FetchedAge_AtTheEnd`) a withdrawn key would live longer by a fetch.
`Fetching`: what a request noted of its key when it took the mutex still holds of
the set it will be answered with. `Learning`: a refresh for an unknown key that
came home brought the key published when it began, so that the next one is not
needed sooner.

**HostStart.** `SeededOnce` rests on `Progress` (the schemas a host has passed
are migrated, whoever did it, and nothing undoes a migration) and `Loading` (one
load is open at a time, and none after the seed). `OneDevKey` rests on
`KeysRight`: while one host makes a key, and no second does, the file is unusable
and no host has a key from it.

**Composition.** `Services(s, R)` describes the registry once the modules in `R`,
any set of them, have registered: which subscriptions, databases, checks, queues and
limiters there are, and that a queue is hosted once and ahead of what submits to it,
but not the order they came in. `Registers` is the step: a module not yet in `R`
adds its own, and breaks nothing of the others', by one lemma per builder
(`CheckAdded`, `HandlerAdded`, `QueueAdded`, ...). When the list has run out `R` is all
five modules (`ListRight`), which gives the dispatcher's, queues' and checks' part of
`WiringIsComplete`. For the endpoints, `Conventions` and the lemmas on each module's
paths show over the code's own table that each has its module's tag and a path, and
`OwnPath` that a path matches its own pattern better than any other: only an endpoint
on the same pattern and method can shadow one, and that is what axum refuses
(`Overlap`) before a host serves. `PhaseRight` carries what `Map` and `Check` have
passed.

**Integrity.** `Exact` says of a run alone what its statements have achieved so
far: the checks opened have a finding for all that lasted (`Found`), those
resolved none for what was sound (`Cleared`), a statement between its snapshot
and its write holds exactly what it must (`ToOpen`, `ToClose`), and the numbers
balance at every step (`Balanced`), by the cardinalities of disjoint sets.
`History` relates the two sets to the orphans of now.

Model-checked only: everything under fairness; `AnswersAreDeclared` of `Pipeline`,
which compares two tables of the code, the answers a handler gives and those its
endpoint declares, over all endpoints there are; and `LayersResolve` of `Config`,
which folds documents recursively, which the provers cannot follow.

## 6. Findings

With a run:

1. *A panicking handler* (`outbox_panic`) rolls the batch back without counting a
   failure: the row is selected forever and never dead-lettered, and its batch
   never commits. ADR-0008 promises a dead letter after the sixth failure.
2. *A stranded call* (`work_queue_stop`). A permit granted before the consumer
   drops its receiver sends its item into a channel nobody reads and the queue
   itself keeps open: `run` never returns, nor does `RunningServices::stop`.

Where a property of a passing run had to make an exception, or a model found the
code to differ from what is said of it:

3. *Delivery order.* `OccurredAt` is read before the commit, so a row may become
   visible after a later one has been delivered, by one dispatcher and without a
   failure; ADR-0008 promises insertion order.
4. *An entry without its tag.* Tags are registered before the entry is stored; an
   invalidation in between leaves a stale entry that no later invalidation by tag
   reaches (`overtaken` in `ReadsFollowInvalidation`).
5. *A place never given back.* A queued request whose client leaves keeps its
   place for good (`Gone` in `PlacesCounted`). Every shipped policy has a queue of
   zero, so only a configured queue meets it.
6. *Keys outlive an unreachable key set* (`WithdrawnKeysExpire`): a failed fetch
   keeps the cached keys, however old.
7. *A container's stop is a kill*: the host waits for SIGINT only, so SIGTERM is
   `HostStart`'s `Crash`, not its `Drain`.
8. *Migrating is off by default* where the configuration does not name the key;
   the seeder's comment says it is on.
9. *Integrity runs of two hosts overlap*, and their numbers do not add up
   (`alone` in `RunsAreExact`): the work queue is a process's own.
10. *A panic's 500 carries no security headers* (`EveryAnswerIsWrapped`).
11. *Two endpoints on one route* never reach the startup check: axum panics
    (`Overlap` in `Composition`), in every environment.
12. *A deeper variable does not win over a shallower one* that is laid after it,
    and the process's variables have no order (`NoPathIsASection`).
13. *A sparse index map is replaced whole* by an array laid over it
    (`ArraysComeFirst`).

Beyond the findings: 429 is not declared on userinfo, the key set and the health
endpoints, nor 413, 415 and 422 on endpoints with a validated body, nor the 404 of
a route constraint; `AnswersAreDeclared` speaks of well-formed requests to
endpoints that name a policy.

## 7. Plan

Done: every component with state of its own, and proofs for twelve modules, of
every safety property the runs check but two (section 5). Left: the parsing of
limits and connection strings, the spelling of partition and cache keys, and the
rules of `validation-rules`, against reference definitions over bounded inputs.

## 8. Not modelled

* Meters, logs and traces, but for the one trace id of an answer: no behaviour
  depends on them.
* The module gate: a tokio semaphore, with no state of its own.
* `CacheFacade::set` (called by tests only), jitter, the disabled cache, the
  options of the cache and the spelling of its keys.
* The shape of bodies: a serializer's.
* Parsing: PEM files, connection strings, limits, JSON documents.
* `can_connect`, pools, redaction, the clock and build information: thin wrappers.
* Identity's options and their validation, and its report of the logins in the
  log: values read as they are.
* `validation-rules`: checks of one value, covered by their tests.
* Poisoned locks: nothing panics while holding one.
* The clock going back: `OccurredAt` is taken to be a rank per reading,
  Identity's wall clock not to go back, and the monotonic clock is monotonic.
* The crates of tests: read for what they say of the system.
