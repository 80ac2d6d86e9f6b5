# WikiPulse in TLA+

Specifications of the WikiPulse pipeline (`src/`), the TLC configurations that
check them on small instances, and proofs about them that TLAPS checks.

## The system

    Wikimedia SSE -> producer -> wiki.raw -> demux -> wiki.index      -> indexer    -> Elasticsearch (hourly indices)
                                                  \-> wiki.analytics  -> analytics  -> PostgreSQL (hourly aggregates)
                                                  \-> wiki.vandalism  -> vandalism  -> PostgreSQL (suspicious edits)
                     scheduler: rollover, reconcile, consolidate, cleanups
                     API process: live tail of wiki.raw -> WebSocket hub

Every service is one process of one instance (`docker-compose.yml`, `restart:
unless-stopped`). Services share nothing but Kafka, Elasticsearch and
PostgreSQL. Within a process the consumers are single threaded; concurrency
comes from several processes acting on one store, from the broker and the
librdkafka threads, from the scheduler's jobs (one thread each) and from the
coroutines of the API process.

### Inventory

| component (backend/app) | state it keeps | operations | what makes it correct |
|---|---|---|---|
| `kafka/client.py` | producer queue, consumer positions | produce, delivery report, flush, poll, commit(message) | a commit covers what precedes it; order per language |
| `services/producer.py` | SSE buffer, backoff, counters | connect, parse a line, normalise, publish or dead-letter, reconnect, stop | no event silently dropped, at most one event per blob, the stop is noticed |
| `events/validation.py` | none | normalize, validate, to_kafka_payload, enrich_for_es | every published event is valid, nothing malformed vanishes, all stores agree on its hour |
| `services/demux.py` | the message in hand, the producer queue | poll, fan out, commit, stop | a committed raw event reaches every topic; order per language |
| `services/indexer.py`, `search/writer.py` | batch, time of the last flush | poll, flush (build, pin alias, bulk, commit), stop | a committed event is indexed, once |
| `search/aliases.py` | none (Elasticsearch holds the aliases) | ensure_current_hour_index | one write index; what is written is readable |
| `services/analytics.py` | batch, time of the last flush | poll, flush (transaction, commit), stop | a committed event is counted, once |
| `repositories/aggregates.py` | the four hourly tables | build_rows, apply_events | sums per key equal the events applied, the tables agree |
| `services/vandalism.py`, `vandalism_logic.py` | batch, time of the last flush | poll, flush (score, insert, commit), stop | a committed suspicious event is flagged; the score is the sum of its signals, capped |
| `services/scheduler.py` | next deadline per job | run a job, wait, stop | every job runs again and again, a failure of one does not touch the others |
| `jobs/cleanup_live_data.py` | none | list, unalias, delete | deletes what has expired and nothing else |
| `jobs/consolidate_3h.py` | `consolidated_windows` | count a window, update or insert its row | a row counts its window; windows do not overlap |
| `jobs/reconcile_live.py` | distinct counts of the hourly tables | query an hour, update its rows | the counts become those of the index |
| `jobs/cleanup_old_aggregates.py` | none | delete old rows of all tables | takes nothing that has not expired |
| `services/live_broadcast.py`, `api/websocket.py` | clients, rate window, consumer | connect, disconnect, broadcast, poll, cancel | no dead client kept, no gap in a client's feed, the rate holds in every window |
| `frontend/src/api.js` (`useLiveFeed`) | one socket or timer per mount | connect, reconnect | the page comes back, and has no socket too many, which would show each event twice |
| `scripts/init_elasticsearch.py` and the other setup scripts | none | set up topics, template, aliases | safe to run again |
| `scripts/seed_demo_data.py`, `unseed_demo_data.py` | rows of source `synthetic` | insert, delete | never touch a live row |
| `main.py`, `api/*`, `services/health.py` | none of their own | queries, health checks | the answers of the dashboard agree as far as their limits allow |
| `models/`, `migrations/` | the schema | unique keys | the upserts and inserts rest on them |
| `observability/`, rest of `frontend/` | none of their own | metrics, spans, presentation | not modelled |

### What is hard

* The consumers read, store and commit in separate steps: a crash, a rebalance,
  a lost commit or a store failure may fall between any two.
* Two of the three sinks commit an undecodable message at once, past events
  that still wait in their batch.
* The demux commits an offset when its copies are queued, not delivered.
* Elasticsearch aliases are changed by four programs with read-then-write
  sequences; the hour turns in the middle.
* The store's answer may be lost: the code sees a failure of something done.
* The upserts and the reconciliation write the same rows under row locks, and an
  UPDATE passes by a row whose insert has not been committed.
* The scheduler's loop drifts, and the consolidation's windows with it.
* The coroutines of the API process interleave at every await: a client may
  come, break or stall between any two sends.

`PROJECT.json` lists each hazard with its line and the properties that cover
it, or says why none does.

## Modules

| module | models | |
|---|---|---|
| `KafkaGroup` | start offsets and commits of a consumer group (`kafka/client.py:101-123`) | |
| `AtLeastOnceSink` | the promise of a sink, abstractly: store, then commit | |
| `Analytics` | `services/analytics.py`, with `apply_events` as one transaction | implements `AtLeastOnceSink` |
| `Vandalism` | `services/vandalism.py`: the loop of `Analytics` by INSTANCE, with flushes that store nothing | implements `AtLeastOnceSink` |
| `AnalyticsProof` | theorems about `Analytics` and `Vandalism` | |
| `Indexer` | `services/indexer.py`, `search/writer.py`, the rollover job moving the alias | implements `AtLeastOnceSink`, strictly |
| `IndexerProof` | theorems about `Indexer` | |
| `Demux` | `services/demux.py` with the producer queue | |
| `DemuxProof` | theorems about `Demux` and `Pipeline` | |
| `Pipeline` | the demux and the sinks behind its topics, each by the promise of `AtLeastOnceSink` | composes `Demux` with sinks |
| `Producer` | `services/producer.py`: the stream, a blob's outcomes, reconnect, stop, the producer queue | |
| `ProducerProof` | theorems about `Producer` and `Events` | |
| `Aliases` | `ensure_current_hour_index` (by indexer and scheduler), `cleanup_live_data`, `init_elasticsearch`, request by request | |
| `AliasesProof` | theorems about `Aliases` | |
| `Events` | `events/validation.py`, `services/vandalism_logic.py`, `build_rows`: what becomes of one payload | |
| `Aggregates` | the hourly tables under `apply_events`, `run_reconcile`, `cleanup_old_aggregates`, the demo data and the dashboard's queries | opens up the transaction of `Analytics` |
| `AggregatesProof` | theorems about `Aggregates` | |
| `Consolidation` | the scheduler's loop and `run_consolidation`, by the scheduler and by hand, next to the cleanups | |
| `ConsolidationProof` | theorems about `Consolidation` | |
| `LiveHub` | `services/live_broadcast.py`, `api/websocket.py` and the reconnecting page of `frontend/src/api.js` | |
| `LiveHubProof` | theorems about `LiveHub` | |
| `MC...` | the small instances | |

How state corresponds to code. A message is a pair of partition and offset; its
content matters only through two sets, `Garbage` (does not decode) and `Poison`
(decodes, but its flush always raises). `end` and `committed` are the broker's;
`position` is the consumer's. In `Analytics` and `Indexer` the variable `batch`
(`messages`) is the list of the same name, `pc` says where the loop is: `poll`
(top of the loop), `upsert` or `build`/`pin`/`bulk` (inside the flush, before
the store has answered), `commit` (the loop over the messages, `acked` of them
passed). `due` is `now - last_flush >= interval`: time is a step (`Tick`) that
may come at any moment. `stop` is the flag the signal handler sets. A commit of
a message is asynchronous in the code; here it takes effect at once or is lost,
because nobody but a restarted group can see the difference. In the demux a
copy queued by `produce` is later delivered, or times out, or dies with the
process; `lost` and `refused` record which.

In `Producer` an event of the stream is a number, in stream order, and `Kinds`
says what becomes of it. `wire` is what the open connection holds; each blob ends
in a topic, or in `missed` (nobody was connected), `dropped` (its handling
raised) or `lost` (queued, never delivered).

In `Indexer` the current hour is read in one step (`BuildDocs`) and the alias
pinned in another (`Pin`), and the scheduler may pin it to the hour it read
earlier (`JobReadsClock`, `JobPins`). `Aliases` opens up what `Pin` does: each
REST call of each program is a step, and each program acts on what its earlier
calls returned (`seen`, `cur`, `retained`). Elasticsearch itself is external;
the modules take from it that one `update_aliases` request is atomic, that it is
refused when an index is missing or two write indices would result, and that a
bulk request to a missing alias creates an index of that name.

`Vandalism` takes its steps from `Analytics`, whose loop its own repeats statement
by statement; `Silent` are the messages a flush passes without storing anything,
and a flush of such messages alone opens no transaction. In `Events` a text is
what the code tells apart (empty, plain, matched by a pattern; a user name may
look like an IP address, be offensive, or both, since the offensive words are looked
for in title, user name and summary, `vandalism_logic.py:84`), a number may be
absent, no number or infinite, and time counts in half hours, so that zones of
half an hour have their effect. Some consequences of the code that the module
shows: a recentchange event has no `user_id`, so in production every editor counts
as anonymous; a removal of 500 bytes is always a blanking too, as an event never
adds and removes. Scores are integers, in hundredths: for every subset of the
weights the binary sum was compared with the threshold 0.5 and falls on the same
side.

In `Aggregates` a row is its table, hour, key and source; `held` is who has which
row lock. The analytics consumer locks rows in the order of its statements and of
its batch (`upserts`), the reconciliation in the order of its own (`updates`),
and a circular wait ends by the failure of either. `users` is written by the
reconciliation alone. A query of the dashboard is the set of answers the database
may give to it under its limit, since rows that tie at the limit may be kept or
cut. `is_bot`, which `/api/top-users` groups by, is set when a row is inserted only,
so the module lets any of a user's rows have it. In `Consolidation` time is a number of ticks, `begun` the
start of a pass; a window is its first hour. `due` is a history: how many events
of the window had arrived when the pass began. In `LiveHub` each coroutine is at
an await: `task` for the broadcast loop, `handler` for each `live_ws`; `targets` is
the copy of the clients `broadcast` iterates over; `net` is what the network
knows of a connection and the server may not yet. A send to a broken connection
raises `WebSocketDisconnect` the first time only (`closed`). `shown` is what the page
has shown of each event since it was opened (`App.jsx:28`), through every end of the
API process; `reread` counts how often the consumer went back before an event.

Two modules say something the way a proof can use it: the limiter's window is a set
of the events still `Recent`, kept in order, and the topic's next events are a set
put `InOrder`. The next-state relation of `Events` is called `PayloadNext`
(`PayloadInit`, `PayloadSpec`), since `ProducerProof` has both components.

In all modules *faults* are what is out of the ordinary (crash, rebalance, lost
or refused commit, an answer that is lost, a partly failed request) and are
bounded by `MaxFaults`; *failures* are requests that fail cleanly, bounded by
`MaxFailures`. A crash may come at any step and loses all memory; a restart
resumes from the committed offsets.

## Runs

| run | shows | bounds |
|---|---|---|
| `analytics` | what follows a commit is applied, unless garbage overtook it; no double count without a fault; the sink is implemented; events are applied | 2 partitions of 3 messages, batch of 2, 1 garbage, 1 poison, 1 fault, 1 failure |
| `vandalism` | the sink is implemented although some flushes store nothing; every suspicious edit is flagged | 1 partition of 4 messages (below, above, garbage, at the threshold), batch of 2, 1 fault, 1 failure |
| `indexer` | the same without the garbage exception; one copy without faults although the hour turns and the alias moves | 1 partition of 4 messages (event, garbage, event, poison), batch of 2, 2 hours, 1 fault, 1 failure |
| `demux` | committed events are in every topic or lost in one of three known ways; language order; clean stop; nothing twice without faults; progress | 1 partition of 3 messages (the last garbage), 3 topics, a queue of 4, 1 fault |
| `aliases` | bulk requests always resolve; documents stay searchable; aliases converge; expired indices go | 4 hours, retention of 2, 1 fault or run of `init_elasticsearch` |
| `producer` | each blob is in one place only, in stream order, and none vanishes; every connection is followed by another | 5 blobs (valid, invalid, odd, valid, invalid), a queue of 2, a backoff of 2 capped at 4 s, 2 faults, 1 orderly end |
| `events` | nothing malformed vanishes; bytes balance; all stores agree on the hour; what the weights amount to | about 3800 payloads: every malformed field with every other, lengths around each limit of the scoring, all signals together, offensive words in title, user name and summary, zones from -1.5 to 1.5 hours |
| `aggregates` | no lost update; the answers of the dashboard agree under every limit; deadlocks only where the hour's row is missing; distinct counts never shrink and converge | 5 events of 2 languages and 2 users in 2 hours, batch of 2, lookback and retention of 2 hours, limits of 1 to 3 rows, 1 failure and any number of deadlocks |
| `consolidation` | rows count their window; windows of one process never overlap and skip one hour at most; a failing pass does not end the job | hours of 2 ticks, windows of 2 hours, 9 hours, 1 document, 1 run by hand, 1 fault |
| `live` | the rate in every second; order and completeness of each client's feed; one socket per mount, and no event shown more often than the tail repeats it; dead clients go; the page comes back | 3 events (one garbage), a second of 2 ticks, 4 connections of a page mounted twice, 1 fault |
| `analytics_garbage` | **violated**: events before the committed offset can be lost | as `analytics`, 2 messages |
| `demux_queuefull` | **violated**: a refused message is not retried (demux.py:94), without any fault | queue of 4 |

Further statements of the repository that the modules contradict, and that have
no run of their own:

* "idempotent increments" (`analytics.py:4-5`): a replay after a crash counts its
  events twice. `CountedOnceWithoutFaults` therefore excepts faults.
* A stop is not noticed while a stream is open (`producer.py:11`), since the read
  timeout is 0.
* Offsets are committed although Elasticsearch refused documents
  (`indexer.py:37`); `CommittedIsIndexed` has `refused` for them.
* A redelivery after the hour turned goes to a new index and is a duplicate
  (`writer.py:19-20`).
* `make consolidate-window window_start=...` (`README.md:181`) has no effect: without
  a `window_end` the job takes the latest window (`consolidate_3h.py:72`).
* A consolidation that failed is not "retried on the next tick"
  (`scheduler.py:12`): the next pass takes the latest window of then.
* `make consolidate` rolls up "the latest completed 3h window" (`README.md:179`):
  the window ends at the full hour, so two processes or runs by hand may record
  overlapping windows; `WindowsAbut` is about one process of the scheduler.
* `/api/analytics/languages` takes a parameter `hours` (`api/analytics.py:36`) that its
  query never uses: like the other three lists it sums over all rows that are kept.

Why the bounds are enough. Two partitions and a batch of two let a batch mix
partitions, fill up, be due before it is full, and hold events that a garbage
message of one partition overtakes while the other's are untouched. A batch that
is kept after a failure outgrows its size, which takes three messages. The demux
queue of 4 is one more than a fan-out, so it fills up in the middle of one. One
fault puts a crash, a rebalance, a lost commit or a partial request between any
two steps; with two faults the safety properties of the demux were checked as
well (4.5 million states). Four hours and a retention of two are the
smallest in which an index expires while a pass may still be an hour late.
The producer's two faults let it reach
the cap of the backoff, scaled down from 60 s, and break a connection again
after a restart. Offsets only grow, so no longer log adds a new kind of step.
In `aggregates` a flush has rows of two languages, and the second one of a
language whose row exists and one whose row does not; an hour expires while
another is counted. A limit of 1 cuts every list, 2 some of them, and 3 none of what
this log can fill. Nine hours let windows of a drifting loop skip an hour, live
indices expire under a running pass, rows expire, and the last window become older
than `JobGoesOn` allows: with a job that ends at its first failure both halves of the
property fail, no row being left or the last one being too old.
`live` has the connections the page needs when it was mounted twice (one closed
again at once, and its timer) and then lost one more; the fault is a broken or
stalled connection, a rebalance of the tail or an end of the process. A rate of one event in two ticks makes the
limiter's window move across every event.

Fairness. The steps of a running process are weakly fair (its loop does not
stop on its own: each iteration takes one of these steps); the interval timer
elapses; docker restarts a process that died, and nobody restarts one that was
stopped; the broker delivers what stays queued; the scheduler runs its jobs
again and again (`scheduler.py:40-51`). Faults, failures, publishing and stops
are never forced. The producer's connections succeed in the end; nothing ends an
open stream, since the read timeout is 0 by default (`core/config.py:67`), so
with all blobs sent and a stop requested
the producer may wait on a silent stream for ever. In `Aliases` the indexer starts no pass on its own account,
and it is assumed that a pass (a handful of requests with a timeout of 30 s)
ends before the hour turns twice. In `Vandalism` the fairness is that of
`Analytics`. In `Aggregates` a transaction that waits for a row lock is in the
queue of PostgreSQL, so it gets the lock if it is free again and again (strong
fairness of `UpsertRow` and `UpdateRow`), and a circular wait is broken; the
consumer, the indexer and the scheduler go on, as their own modules show.
`Consolidation` assumes that the scheduler wakes and a pass ends within `Slip`
ticks, less than an hour (`OnTime` holds the clock back), and that a process that
ended is restarted before the next tick. In `LiveHub` the event loop runs every
coroutine that can go on, a handler pings every 15 s, uvicorn gives up a silent
peer after 20 s, timers fire; the topic need not have more events. No run of
`Events`, `Consolidation`, `LiveHub` or `Producer` checks for deadlock: a payload
is done with, the clock reaches its bound, a page may be closed for good.

What the properties except, because the code does: an event that garbage
overtakes (`Hidden` in `Analytics`), what Elasticsearch refuses (`refused` in
`Indexer`), copies lost in the producer queue or refused by it (`Demux`), an
event published before the group has a committed offset (`base`: the reset
policy is "latest"), a batch a poison message holds up, a count of a window that
failed and was taken for zero (`counted` in `Consolidation`), languages beyond the
hundred the reconciliation asks for, what a limit cuts off (`DashboardAgrees`),
events the live tail repeats after it went back (`reread` in `LiveHub`), and payloads whose `meta` is no object or
whose numbers are infinite: their handling raises and they are dropped without a
dead letter (`MalformedIsKept`).

In `Aliases`, `WrittenIsSearchable` holds without a fault and without a run of
`init_elasticsearch`: that script binds the write alias without `is_write_index`
from a list it read earlier, so two indices can have the alias until the next
pass of `ensure_current_hour_index`, and its rebuild of the read alias is refused
when the cleanup deletes one of the listed indices meanwhile. `BulkResolves`,
`AliasConverges` and `ExpiredAreDeleted` hold with it.

## Proofs

Eight modules hold theorems; each is about every value of the constants its
assumptions allow, where a run has one small instance. Every inductive invariant
was model-checked on the instance of the run, or on a smaller one, before it was
proved. With them, every invariant and every action property a run checks is a
theorem, as are the refinements of `AtLeastOnceSink`; what is left to TLC is
liveness and deadlock.

| module | theorem | states | invariant |
|---|---|---|---|
| `AnalyticsProof` | `TypeCorrect`, `StaysWithinLog` | types; nothing beyond the end of the log | `TypeOK`, `LogInv` |
| | `CommittedIsAppliedHolds` | `CommittedIsApplied` | `IInv` |
| | `AnalyticsImplementsSink` | `ImplementsSink` | `IInv` |
| | `CountedOnceHolds` | `CountedOnceWithoutFaults` | `CountInv` |
| | `VandalismImplementsSink` | `ImplementsSink` of `Vandalism` | that of `Analytics` |
| `IndexerProof` | `TypeHolds`, `CommittedIsIndexedHolds` | types; `CommittedIsIndexed` | `IndexedInv` |
| | `IndexerImplementsSink` | `ImplementsSink` | `IndexedInv` |
| | `OneCopyHolds` | `OneCopyWithoutFaults` | `CopyInv` |
| `DemuxProof` | `TypeHolds`, `CommittedIsForwardedHolds` | types; `CommittedIsForwarded` | `ForwardInv` |
| | `CleanStopHolds` | `CleanStop` | `CleanInv` |
| | `LanguageOrderHolds` | `LanguageOrder` | `OrderInv` |
| | `OnceHolds` | `OnceWithoutFaults` | `CleanInv`, `OnceInv` |
| | `NothingVanishesHolds` | `NothingVanishes`, of `Pipeline` | `PipeInv` |
| `ProducerProof` | `TypeHolds`, `StreamOrderHolds` | types; `StreamOrder` | `OrderInv` |
| | `EveryBlobOnceHolds` | `EveryBlobOnce` | `PlaceInv` |
| | `MalformedIsKeptHolds`, `BytesBalanceHolds`, `SameHourHolds`, `FlaggedMeansHolds` | the four properties of the run `events` | `OutputsFollow` |
| `AliasesProof` | `BulkResolvesHolds` | `BulkResolves` | `AliasInv` |
| | `WrittenIsSearchableHolds` | `WrittenIsSearchable` | `AliasInv`, `FaultlessInv` |
| `AggregatesProof` | `EveryEditCountedHolds`, `WikiRowIsTheGateHolds` | the properties of these names | `AggInv` |
| | `DistinctNeverShrinksHolds` | `DistinctNeverShrinks`, an action property | `AggInv` |
| | `DashboardAgreesHolds` | `DashboardAgrees` | `AggInv`, `Exact` |
| `ConsolidationProof` | `TypeCorrect`, `RowsCount` | types; `RowsCountTheirWindow` | `IInv` |
| | `WindowsDoAbut` | `WindowsAbut`, an action property | `IInv` |
| `LiveHubProof` | `TypeCorrect`, `RateIsKept` | types; `RateHolds` | `IInv` |
| | `FeedIsWhole` | `FeedHasNoGap` | `IInv` |
| | `SocketPerMount` | `OneSocketPerMount` | `IInv` |

### Consumers

`AnalyticsProof` is about every set of partitions, log length, batch size,
garbage, poison and number of faults and failures, from the named assumptions of
`Analytics` (`OffsetAssumption`, `GarbageAssumption`, `SilentAssumption`,
`BatchAssumption`, `BoundAssumption`). `CommittedIsApplied` is not inductive:
nothing in it prevents a state about to commit an offset whose predecessors were
never read. `IInv` adds

* `LogInv`, which bounds all offsets,
* `BatchIsApplied`: in the commit loop the whole batch is applied,
* `ReachedIsKept`: every event the running consumer has read past is applied, or
  in the batch, or lost to a garbage message that is already committed and that
  nothing in the batch precedes.

The last conjunct survives a rebalance because the new position is the committed
offset, a crash because a restart reads from there, and a kept batch because it
is kept whole. The refinement follows from `IInv` in both states of a step: a
commit moves the offset past stored, garbage or hidden events only.

`CountedOnceWithoutFaults` needs to know that what is counted is never read
again: `CountInv` says, as long as there is no fault, that a batch is in the order
of its partitions (`BatchOrdered`) and that whatever is counted lies below the
committed offset or is about to be committed (`CountedIsCommitted`). That does not
carry through the commit loop, because a garbage message commits ahead of the
batch and the batch's own commits then take the offset back;
`CountedBeforePending` adds that nothing counted lies between a message still to
be committed and the offset.

The theorems hold for every set `Silent` too, and `Vandalism` is an instance of
`Analytics` with another one. `VandalismImplementsSink` draws the conclusion: with
the messages below the threshold for `Silent`, each step of `Vandalism` is a step
of `Analytics` (`VandalStep`), and the sinks the two are about are one and the same
(`VandalSink`). It holds for every scoring and every threshold.

`IndexerProof` has the same shape (from `OffsetAssumption`, `GarbageAssumption`,
`BatchAssumption`, `BoundAssumption`), without the exception for garbage, since
this loop commits garbage with the batch. `IndexedInv` adds to
`CommittedIsIndexed` that the consumer stays within the log, that in the commit
loop the whole batch is indexed, refused or garbage (`BatchIsKept`), and that
what it has read past is one of these or in the batch (`ReachedIsKept`).
`OneCopyHolds` is where the hour matters: without a fault a message in the batch
is at or above its committed offset and what is indexed below it
(`CopyInv`), so no second bulk request, whatever index the alias points at by
then, has a message an earlier one stored.

### Demux and pipeline

`DemuxProof` is about every set of partitions, log length, sequence of topics,
queue length and number of faults, from `OffsetAssumption`, `GarbageAssumption`,
`TopicAssumption`, `QueueAssumption`, `FaultAssumption` and
`DistinctTopicsAssumption` (the settings name three different topics,
`core/config.py:46-48`). `CommittedIsForwarded` alone does not exclude a state
about to commit a message whose predecessor was never handed on; `ForwardInv` adds

* `TypeInv`, with the queue empty while there is no process,
* `ReadIsForwarded`: whatever the running consumer has read past is garbage,
  accounted for in every topic, or the message in hand,
* `FanoutUnderWay`: the message in hand is the last one read of its partition and
  accounted for in the topics it was handed to so far.

A copy, once accounted for, stays so: the lemma `AccountedStays` goes through
every step that takes one out of the queue. `CleanStop` needs one conjunct more,
`NothingLeft`: without a fault and a full queue, only the message in hand is read
and not committed. For `LanguageOrder`, `QueueOrder` says of the queue what
`LanguageOrder` says of a topic, with what was delivered before it. For
`OnceWithoutFaults`, `OnceInv` says that each copy is queued once and not
delivered while it is queued (`EachOnce`), and that what was sent was read and,
while a message is in hand, not sent to the topics still to come
(`SentIsRead`); with `NothingLeft` a restart reads on where the last process
stopped.

`NothingVanishesHolds` is about the two together: behind every topic, an event whose
raw offset is committed is stored, in the topic and not yet committed there,
queued by the running demux, or lost in a known way. The invariant is `ForwardInv`
together with `SinkInv`, the promise of the sinks: each has stored what it
committed, from the offset it entered at. The sinks take no step of the demux
and the demux none of theirs, so the two halves are kept separately and meet in
the log of the topic (`DeliveredReaches`). There is no run of `Pipeline`; the
invariant was model-checked before it was proved, with two topics, two messages,
a queue of 3 and one fault (5 million states). A topic is one partition there, in
which the languages follow each other, as the sinks keep partitions apart.

### Producer

`ProducerProof` is about a stream of any length and of blobs of any kinds, any
queue size, cap of the backoff and number of faults (`KindAssumption`,
`BackoffAssumption`, `BoundAssumption`). Order alone is not inductive, since what
a topic gets next comes out of the queue and before that off the connection:
`OrderInv` adds `Ahead`, that the connection and the queue are in order, that all
the connection holds follows what is queued, and that what is queued for a topic
follows what the topic has. `EveryBlobOnce` counts places with cardinalities and
sums; `PlaceInv` says the same with sets: the places divide the blobs sent between
them (`Divides`), and no blob is lost as two copies. Every step moves a set of
blobs from one place to another or puts a new one somewhere, so two lemmas
(`MovedDivides`, `AddedDivides`) carry every action.

### Payloads

The second part of `ProducerProof` is about every set of payloads, event types and every clock, from
`PayloadAssumption`, `NoNumberAssumption` and `ClockAssumption`. Lengths are of any
size, instants and zones any. The inductive invariant `OutputsFollow` says that a
published event is the normalised form of a payload nothing was wrong with, and
that the counted and the scored row are the functions of it the code computes;
the properties follow from lemmas about the conversions (`DeltaIsNumber`,
`BytesOfDelta`, `HourOfText`, `DroppedIsOdd`) and, for `FlaggedMeans`, from a case
analysis over the sum of the weights.

### Aliases

`AliasesProof` is about any number of hours, any retention of two hours or more
(`RetentionAssumption`: two passes an hour late each must not add up to it) and
any number of faults, for the four programs of `Aliases` request by request.
`BulkResolves` is about a moment long after the requests that make it true;
`AliasInv` carries them there:

* `PassesAreFresh`: a pass read the clock an hour ago at most,
* `CleanupIsLate`: what the cleanup is about to delete had expired by its clock,
* `IndexIsThere`: the index a pass is about exists until the pass ends,
* `OneToWriteTo`: one index at most is flagged as write index, one at most is under
  the write alias without the flag, and while `init_elasticsearch` holds its list,
  all others it does not know of are flagged,
* `WriteIsRecent`: since the indexer's pass bound the alias, it covers an index no
  older than an hour before that pass, which the cleanup cannot be deleting.

The bound of `OneToWriteTo` is the reason that two indices under the alias still
resolve: at most one lacks the flag, so either one has it or there is only one.
`WrittenIsSearchable` holds without faults only; `FaultlessInv` adds that the
write alias covers flagged indices alone, that what was written to is within the
retention, and that whatever of it or under the write alias is not under the read
alias yet belongs to a pass about to put it there.

### Aggregates

`AggregatesProof` is about every log of events, batch size, lookback, number of
buckets, retention, set of limits and number of failures, from `LogAssumption` and
`SettingsAssumption` (the lookback is no longer than the retention). `AggInv` adds
to the types and to `NothingOpen` (no lock outlives its transaction)

* `Counted`: an event too old for its row is applied already, and a row within the
  retention counts the applied events of its key. The increments are added to the
  row as it is when the flush holds its lock, and the reconciliation's update
  leaves that column alone;
* `Known`: the distinct count in the table is at most what the index shows now,
  and what a reconciliation is about to write lies between the two. The middle
  part is what makes a stale result harmless: nobody else writes a larger one
  meanwhile;
* `GateFirst`: no row is locked twice; the flush locks the row of a language only
  after the wiki row of its hour, and the reconciliation starts an hour with that
  wiki row, which its UPDATE passes by only when it is not inserted yet.

`DashboardAgrees` is about what a page is shown. Every query is cut: the time series
to its newest hours (24 by default, 720 at most, while 90 days are kept,
`api/analytics.py:20`), the languages to 10 (50 at most), pages and users to 20 (100
at most; `main.py:130`, 145, 162), each the most active of all rows that are kept. So
with real data the totals of the four answers differ, and all that can be asked of them is
this: the hours the series shows have as many edits in each of the other tables, a
list has no more edits in all than there are, and no fewer when it is shorter than
its limit, as then nothing was cut. It is about all rows, also those that have
expired and wait for the cleanup, and about sums. For the rows, `Exact` adds that each live one is that of an
event that was counted and has its exact number, expired or not, and that the four
tables keep or lose the rows of an event together: a flush writes all four, and the
cleanup goes by the hour, which they share. A flush never brings back a row the
cleanup took, since what it counts is within the retention (`Counted`). The sums
are folds over sets, and no induction is at hand; `SumIsCount` does without.
The number of events that fall into a set satisfies the equation of the fold, and
of two functions that do, a smallest set on which they differ would have a smaller
one. So an answer counts, group by group, the events whose rows are there
(`RowsAreCounted`). The groups of a list that was cut count some of the events the
tables remember, and when nothing was cut all of them (`TopAddsUp`), whichever
table it reads; the hours of a time series count those of these hours
(`SeriesAgrees`).

### Consolidation

`ConsolidationProof` is about hours, windows, intervals, retentions and a slip of
any length (`CountAssumption`, `RetentionAssumption`) and any number of documents
and faults, where the interval is the window's length and the slip is less than an
hour (`IntervalAssumption`: three hours both, `core/config.py`). Its `IInv` adds to
the types

* `TimeInv`: the clock never passes what `OnTime` allows; the window of a pass is
  the latest of the hour it began in; `last` is the window of the scheduler's last
  pass;
* `DocsInv`: an index takes events of its hour and of hours before, and what was
  deleted had expired;
* `PassInv`: what a pass has counted is at least what had arrived of its window
  when it began, and at most what has arrived by now.

The last is where the clock matters: the window of a pass that began less than an
hour ago is younger than the retention, so the cleanup cannot take documents from
under the count. `WindowsAbut` is arithmetic on `TimeInv`: two passes of one process begin
between an interval and an interval and a slip of less than an hour apart, so that
their full hours differ by the window or by one more.

### Live feed

`LiveHubProof` is about any number of events, rate, length of a second, number of
connections and of faults, and a page mounted once or twice (`CountAssumption`,
`MountAssumption`, and `ConnAssumption`: there are as many names for connections as
mounts). The conjuncts of its `IInv`:

* `ConnsInv`: only an accepted client is added, and one in the copy that a broadcast
  iterates over is still a client unless its connection broke;
* `BroadcastInv`: a broadcast under way is of the last event the limiter let pass,
  and has each client once;
* `SocketsInv`: sockets that are not broken and timers are as many as mounts;
* `FeedInv`: what a connection has got are the events sent since it was added,
  without a gap, and while it is up it lacks at most the one under way;
* `OrderInv`: what is left of a poll is in the order of the topic, each event once;
* `ShownInv`: what the page showed of an event, and what it may still show of it before
  the consumer reads it again (`Left`), is at most as often as there are mounts for
  each time the consumer read it (`Reads`);
* `RateInv`: from any tick of the last second on, the limiter's window has as many
  events as have passed.

`RateHolds` speaks of every second, also of those that ended: an event is let
through only when the window has fewer than `Rate` left, and by `RateInv` those are
all of the second that ends now. For `OneSocketPerMount`, a reconnect opens a socket
only when a timer of the page fires, and a timer is set only when a socket closes.
How often an event is shown is a matter of both ends. The consumer commits by itself,
now and then, what it has read, so a new process and a partition that is assigned
anew start from an older offset (`ProcessEnds`, `Start`, `Rebalance`), and the page,
which outlives the process, is shown some events again: the tail is at-least-once
(`live_broadcast.py:5-6`), as the property says with `reread`. What it excludes is any
other repeat, such as that of a page with one socket too many. An event that waits
in the batch when a rebalance goes back before it is broadcast twice, once from the
batch and once when it is read again; `Reads` counts both. In a broadcast the event
goes to the connections that are still open in the copy (`Coming`), which are no more
than the sockets, and so no more than the mounts.

As long as nothing is committed (`committed` is 0), the reset policy is "latest": a new
process and a new assignment enter the topic at its end (`Assign`), passing by what
came meanwhile; a commit lies above the offset the group entered at (`base`).
`Reads` counts an event that was passed by as read, so the bound holds with it too.

### Only model-checked

* Liveness and deadlock freedom: `EventsAreApplied`, `SuspiciousAreFlagged`,
  `EventsReachTopics`, `EventsAreIndexed`, `AliasConverges`, `ExpiredAreDeleted`,
  `Reconnects`, `DistinctConverges`, `JobGoesOn`, `DeadAreForgotten`,
  `PageComesBack`. Liveness under fairness is out of the prover's reach.
* The instances themselves: that the interesting cases happen at all, which no
  theorem shows, and the two runs that find a statement violated.

## Plan

What is left.

1. That what is published is stored in the end: the liveness of the demux and of
   the sinks composed, which only a run of `Pipeline` can check.
2. The scheduler's loop with all its jobs and their shutdown as one module; so far
   each job is modelled with the data it changes.

## Not modelled

Observability and the presentation of the frontend keep no state the properties
speak of. The health checks and the read-only queries other than the four of the
dashboard only show what other modules hold. Of the schema, only the unique keys
matter to a property. The one-shot scripts other than `init_elasticsearch` and the
demo data set up what the modules take as their initial states. Of the scheduler,
the shutdown of the gathered tasks; of the normalisation, truncation and the
derivation of language and wiki; of the aggregates, the column `page_id` (the stream's
recentchange events carry no page id). Several instances
of one service, broker failover and topic retention are outside the deployment
the repository describes.
