# MarketIntel in TLA+

A verification development of the MarketIntel data platform: TLA+ modules that
model its stateful parts, TLC runs that check them on small instances, and
proofs that TLAPS checks for every value of the constants.  File and line
references are to the repository.

## 1. The system

MarketIntel pulls prices, candles, catalogs and news from public providers,
stores them in PostgreSQL and serves them through a REST API and a dashboard.
Celery workers (Redis broker, four queues) run the ingestion tasks; Celery Beat
and Dagster start them; operators requeue what failed.

| Component | State | Operations | Talks to |
|---|---|---|---|
| Instrument dimension (`apps/instruments`) | `instruments_instrument`, SCD type 2 rows with a partial unique index on the current one | `upsert_instrument_scd2` | called by the catalog sync; read by every price task |
| Catalog sync (`pipelines/tasks/ingest.py`) | none between runs | `sync_coingecko_catalog`: fetch the listing, stamp it, upsert coin by coin, one transaction each | CoinGecko connector, dimension |
| HTTP connector (`pipelines/connectors/base.py`) | token bucket, circuit breaker, both behind locks | `_get`; `TokenBucket.take`; `CircuitBreaker.allow/record_*` | one instance per task run; may be shared by threads |
| Equity batch (`pipelines/tasks/yahoo.py`) | loop over the active instruments | `ingest_yahoo_spot_for_active` | its own connector, spot table |
| Spot prices (`apps/prices`) | `fact_price_spot`, one row per instrument row | `update_spot`, `ingest_prices_for_active_instruments`, `ingest_coingecko_spot_batch`, `ingest_yahoo_spot_for_active` | dimension, providers |
| Candles (`apps/prices`) | `fact_price_candle`, natural key (instrument, source, resolution, ts) | `upsert_candles`, `ingest_binance_klines`, `ingest_yahoo_candles` | providers, partitions |
| Candle partitions | monthly children of `fact_price_candle`, no default partition | migration 0002, `ensure_future_partitions`, Dagster's `partition_sensor` | the calendar, every candle insert |
| Task lifecycle | Redis queues, unacknowledged deliveries, `core_dead_letter_task` | delivery, retry, time limits, `IdempotentTask.on_failure`, `dlq_inspect`, the admin actions | every task |
| News (`apps/news`) | articles, links to instruments, search vector | `ingest_news_recent`, `upsert_articles`: one transaction per article | CryptoPanic connector, dimension |
| Gold marts | materialised views | `refresh_gold_marts`, `apply_post_migrate` | silver tables |
| Dagster assets (`pipelines/orchestration`, `scripts/backfill.sh`) | asset runs, sensor cursor | assets that submit Celery tasks and wait for their results; backfills by day | task queue and result backend, bronze storage |
| Candle pages (`apps/api`, `examples/python_client.py`) | the client's cursor | `get_candles` over `TimeseriesCursorPagination` | candle table, while it is ingested |
| API keys and throttling (`apps/api`) | API keys, throttling cache | authenticate, throttle | |
| Dashboard, health, metrics, bronze storage, settings, scripts | none of their own worth a model | | |

### What is hard in it

- *Interleaving.*  Two runs of one task overlap routinely: Beat and Dagster
  both start price runs, four replicas with four processes each take them, and
  retries, redeliveries and requeues add copies.  Nothing prevents overlap; the
  code relies on idempotent writes, on row locks (dimension, candles) or on
  nothing (spot).
- *Crashes.*  Messages are acknowledged late, so a lost worker means a run that
  stopped between two steps and is run again.
- *Stale reads.*  Tasks read instruments, fetch over the network for seconds,
  and write by row id afterwards, while the dimension re-versions rows.
- *Partial failure.*  Batches go on after some symbols fail, a shared breaker
  couples them, and whole candle batches fail with one missing partition.
- *Time.*  Rate limit, cooldown, countdowns, visibility timeout, soft and hard
  limits, and a calendar that must be kept ahead of.

The complete list, each at its line, is under `hazards` in `PROJECT.json`, with
the properties that would show it going wrong.

### What makes each component correct

- Dimension: one current row per natural key, never none once a key is known; each
  version ends at the time its successor starts with, and closed rows never
  change; the locked transaction behaves as one atomic upsert; the table
  converges to the listing.
- Connector: the rate bound over every window, a bound on what an outage costs
  the provider, few requests while cooling down, closing again after recovery.
- Equity batch: a symbol with a quote is skipped only after a threshold of
  failures in a row, or when the soft time limit cut its own request short.
- Spot: a price lands on the instrument it is for; current rows converge to the
  latest price.
- Candles: no deadlock between overlapping upserts; recent candles converge.
- Partitions: no gap in what is covered, no batch turned away.
- Tasks: nothing submitted vanishes, a message is not given back while its task
  runs, every task ends, a failure keeps its dead letter until somebody reviews
  it; to those who submit tasks the whole is an at-least-once queue.
- Candle asset: a green run has stored the latest candles of the symbols it can
  count on, and every run ends, whatever the workers do.
- News: links belong to the edition that is stored; articles and links converge
  to the feed and the dimension.
- Candle pages: each candle of an instrument once, none left out, although the
  table grows between two pages.

## 2. Modules

| Module | Models | Extends |
|---|---|---|
| `InstrumentDimension` | abstract: the dimension with an atomic SCD2 upsert | |
| `CatalogSync` | `sync_coingecko_catalog` runs, their locks, transactions and crashes | `InstrumentDimension` |
| `CatalogSyncProofs` | invariants of both and the refinement, proved | `CatalogSync` |
| `Connector` | token bucket, circuit breaker and `_get` with several callers | |
| `EquityBatch` | the Yahoo spot batch over one connector | `Connector` |
| `ConnectorProofs` | rate, what an outage costs, stragglers and the batch's skips, proved | `EquityBatch` |
| `SpotStore` | batch and walking runs over spot table and dimension | `InstrumentDimension` |
| `NewsStore` | article transactions of several runs over news, links and dimension | `InstrumentDimension` |
| `DimensionReadersProofs` | prices and links belong to their rows, proved | `SpotStore`, `NewsStore` |
| `CandleUpsert` | overlapping candle transactions with row locks | |
| `CandleUpsertProofs` | waits ascend, no deadlock, proved | `CandleUpsert` |
| `CandlePages` | a client paging through candles while they are inserted | |
| `CandlePagesProofs` | what a walk returns, proved | `CandlePages` |
| `Partitions` | migration, maintenance task, sensor, batches over the calendar | |
| `PartitionsProofs` | no gaps, batches land, proved | `Partitions` |
| `AtLeastOnce` | abstract: what late acknowledgement promises | |
| `TaskQueue` | Celery/Redis delivery, retries, limits, losses, dead letters, operators; implements `AtLeastOnce` | |
| `TaskQueueProofs` | nothing vanishes or overlaps, dead letters, the refinement, proved | `TaskQueue` |
| `DailyCandles` | the candle asset of Dagster waiting for its group of tasks, over `AtLeastOnce` | (instance of `AtLeastOnce`) |
| `DailyCandlesProofs` | green runs are stored, proved | `DailyCandles` |
| `MC*` | model values for TLC | the module they name |

Two abstract modules are the meeting points.  `CatalogSync` implements
`InstrumentDimension`, and `SpotStore` and `NewsStore` compose their own steps
with its atomic upsert.  `TaskQueue` implements `AtLeastOnce`, and
`DailyCandles` composes the steps of the asset and of its tasks with it.

### How state and actions correspond to the code

**InstrumentDimension / CatalogSync.**  `rows` is the table in insertion order
(a row id is a position).  One source is modelled: the lock and the natural key
are per source.  The tracked tuple (symbol, name, class, quote currency) is one
value of `Attrs`, the JSON metadata one value of `Metas`, and the observation
time a natural.  A sync run goes through the code's steps: `FetchListing`
(`list_coins`), `Stamp` (`now` is read *after* the fetch), and for every coin
`LockSource` (`SELECT ... FOR UPDATE` on the source row, which waits),
`ReadCurrent`, then one of `Create`, `Refresh`, `Replace` with the commit.
`Crash` may happen anywhere and rolls the open transaction back; coins already
committed stay.  `DimNext` is `upsert_instrument_scd2` in one step.

**Connector.**  Ages replace `time.monotonic()` readings: `sinceOpened` for
`now - _opened_at`, `sinceTake` for `now - _last`.  One tick refills one unit
and a request costs `Cost` units.  `_get` is four steps: `Admit`/`RejectOpen`
(the breaker's lock), `Send`/`RejectRate` (the bucket's lock), and the answer,
which records its outcome under the breaker's lock.  `windowTime`,
`windowSent`, `outage` and `stragglers` belong to the observer: a window may
begin at any moment, and `outage` says that nothing but failures came back in it.

**EquityBatch.**  One caller walks over `Size` symbols.  Each action of the loop
is a `Connector` step plus what the task does with the outcome: `continue` after
any exception, skip on an empty quote, write otherwise.  Every run makes a new
connector and so starts in an initial state; a behaviour of the module is one
run.  The soft time limit strikes once: in `fetch_quote` the loop swallows it
(`SoftLimitSwallowed`, which notes the symbol in `interrupted` and records
nothing at the breaker), elsewhere it ends the run (`RunFails`); a run that
swallowed it may meet the hard limit (`HardLimitKills`).

**SpotStore.**  A price is the number of the provider's update.  Batch runs:
`ListIds`, `FetchSpot`, `ReadInstruments`, then a `WriteSpot` per snapshot.
Walking runs: `ReadAll`, then `FetchQuote`/`WriteSpot` per symbol in symbol
order.  Nothing is locked in between; `ChangeDimension` is the atomic upsert,
which `SyncImplementsDimension` justifies.  Null prices are not distinguished
from others (the batch run stores them as zero).  The order of symbols is fixed.

**NewsStore.**  An article's content is the number of its edition, what it
mentions a set of tickers (tags and extracted symbols together); a ticker is a
value of `Attrs`.  A transaction is `StoreArticle` (`update_or_create`, which
holds the article's row from there on), `LookUpInstruments` (the current
instruments and the links there are) and `CommitArticle`, where row, link
differences and search column become visible together.  An article without
mentions leaves its links alone, as the code does.  The order within a feed is
left open.

**CandlePages.**  Candles of one source and resolution inside the requested
range.  `Follow` is the cursor arithmetic of Django REST framework (position of
the last differing row, offset into the group of equal positions), which
`TimeseriesCursorPagination` only configures; the order among rows with equal
`ts` is chosen anew by every query.  The filter by symbol selects every version
of the instrument, the filter by id one.  The model lets the client use either;
`examples/python_client.py` always sends a symbol.  The framework caps the
offset at 1000 (`offset_cutoff`), which it would take a thousand versions with a
candle of one time to meet; the cap is left out.

**CandleUpsert.**  One natural-key space (instrument, source, resolution).  A
record is an open time and the revision it was read at.  The multi-row upsert
takes rows in list order (`UpsertRow` waits while another transaction holds the
row) and replaces them all at `Commit`.

**Partitions.**  Months count from January 2024; dates are `[month, day]`.
`_add_month` is translated as written (32 days on, then the first of the
month).  The check and the create of a partition are two steps, because a
second run does not see the first one's uncommitted table.  `lastDone` and
`rejected` belong to the observer.

**TaskQueue.**  A message is a task id with its retry number.  Celery and Redis
are modelled from the settings that select their behaviour (late
acknowledgement, requeue on a lost process, visibility timeout, limits); the
retry and dead-letter policy is `IdempotentTask`'s.  A place in a worker holds a
message through its countdown (`wait`), body (`run`) and acknowledgement
(`ack`).  `queued` is a bag: a crash between publishing a retry and
acknowledging the old message yields equal messages.  `fate` belongs to the
observer.  Under the refinement a task's `life` is its `fate`, with every end
taken for one, and it is `held` while a copy of it is in the broker, in a
worker that has yet to finish it, or unacknowledged by a lost one.  A body that
raises for good ends `failed` whether or not its row is written (`Fail`,
`FailUnrecorded`), one that meets the hard limit `killed` (`HardKill`).  The
operators requeue, resolve and purge (`scripts/dlq_inspect.py`) and resolve and
delete (the admin); each look at the row of a failure is put down in `fate`.
That the admin's form can also clear `resolved_at` is left out: it only brings a
row back for review.

**DailyCandles.**  Time is counted in candles.  A materialisation publishes one
task per symbol (all of them, or some when the broker fails half way, which ends
the run) and waits for all results, at most `Patience`.  A task is `Fetch`
(`fetch_klines`: the latest `Reach` candles, the open one among them), then
`Store` (look the instrument up, upsert, success in the result backend), with
`StartOver` for a retry or lost worker in between and `Fail` for an end without
success.  `Copy` lets an ended task run again.  The transaction of
`upsert_candles` is one step here; `CandleUpsert` has its inside.  `listed` holds
the symbols under which a task finds its instrument.  The look-up is by ticker, a
tracked attribute, so a symbol comes and goes with versions (`List`, `Unlist`);
a task that finds none, or got an empty answer (`FetchNothing`), reports success
and stores nothing.  `known` is the observer's record of the symbols a waiting
run can still count on: listed since it began, and no empty answer.  The revision
of a candle is left out.

## 3. Runs

"Violation" runs check a statement a comment, docstring or document makes; TLC
finds a behaviour of the code that contradicts it.  The quotations are under
`findings` in `PROJECT.json`.

| Run | Question | Bounds |
|---|---|---|
| `catalog` | Do two syncs that race, crash and re-stamp keep one current row, an immutable history of versions that hand over to one another and atomic upserts, and does the dimension reach the listing if syncs recur? | 2 coins, 2 syncs, 1 listing change, 2 times, 1 crash |
| `connector` | Rate, cost of an outage, stragglers; does a recovered provider close the breaker? | 3 callers, threshold 2, cooldown 2, bucket of 5 requests, windows of 4 |
| `equity_batch` | Which symbols may lose their price, and why? | 5 symbols, threshold 2, a full bucket of 4 requests, all answers, the soft limit anywhere |
| `task_queue` | Does anything vanish or overlap, does a failure lose its row unreviewed; does every task end; is it an at-least-once queue? | 2 ids, 2 places, 1 retry, 1 fault (`MaxFaults`) |
| `spot` | Do prices land on the right instrument, and do current rows converge? | 2 instruments, 2 rows, 2 runs, 1 fault, a page that holds every coin |
| `candles` | Can overlapping upserts deadlock; do recent candles converge? | 2 runs, 3 candles, window of 2, 1 fault |
| `candle_pages` | What does a walk return while candles are inserted, and does it end? | 3 versions, 3 times, 5 candles, pages of 2 |
| `partitions` | Are the covered months free of gaps, and do batches land? | December 2024 to May 2025, 2 runs, 2 missed months |
| `partitions_sensor` (violation) | Does the sensor secure the next month? | as above |
| `daily_candles` | What has a green materialisation stored, and does every one end? | 1 run, 2 symbols that gain and lose their instrument, empty answers, days of 3 candles, responses of 4, timeout of 2, 7 times |
| `backfill` (violation) | Does a green run have the candles of its day? | 2 runs, 1 symbol, days and responses of 2 |
| `news` | Do links stay with their edition, and do articles converge? | 1 article, 2 editions, 2 instruments' rows, 2 runs, 1 fault |

Why the bounds are enough.  Races in this code are between two parties over one
row, and a crash matters for where it falls, not for how many there are; two
runs, one or two keys and one crash reach every order of their steps.  Two
syncs of which one is slow make three versions of a coin out of one listing
change, and the safety of the dimension is proved for any number of syncs,
coins and changes.  Two
candle transactions allow a cycle, three candles with a window of two allow
overlapping windows that are not equal; `CandleWaitsAscend` covers any number.
The breaker needs a threshold of two to tell "consecutive" from "any"; a window
of two cooldowns lets it open, be probed by three callers at once and be probed
again.  Of the five symbols of the equity batch the third and fourth come after
a possible threshold of failures and are still within the promise, the fifth is
beyond the bucket and outside it.  Pages of two with three
versions allow a page that ends inside a group of equal times and one that holds
nothing else.  The calendar run crosses a year's end and a February of 28 days;
`MaxMissed = Ahead - 1` is the largest number of missed months the code
survives.  Time limits keep the order of the real ones
(270 s < 300 s < 3600 s).  A materialisation of two symbols has one whose task
fails or lags while the other's is done, and a response longer than the timeout
leaves candles for the promise to be about.  The run of `news` has one article, so
a run lost between two articles does not occur in it: two articles exceed three
million states.  Deadlock checking is off where the bounds let a system stop.

### Fairness

- `CatalogSync`: a sync that has begun goes on (the task's time limits end it
  otherwise).  That syncs recur is a premise of `Converges`, not an assumption:
  `sync_coingecko_catalog` is not in the Beat schedule.
- `Connector`: time passes, a request ends (httpx has a timeout), and callers
  keep calling: the fairness of `GetStep` includes `Admit`, without which nobody
  would ever probe an open breaker.  That is the use `Recovers` is about; an
  instance nobody calls any more stays as it is.
- `SpotStore`: as for the catalog; recurring runs are a premise.
- `CandleUpsert`: strong fairness of a run's steps, because a transaction that
  waits at a row is enabled only between holders; PostgreSQL wakes waiters in
  turn.  Recurring runs are a premise of `RecentCandlesConverge`.
- `TaskQueue`: some worker is up, the broker restores what is due, time passes.
  Operators owe nothing.
- `DailyCandles`: time passes and the Dagster process goes on; nothing is assumed
  of the workers.
- `NewsStore`: strong fairness of a begun run's steps, for the same reason at
  the article's row.  Recurring runs are a premise of `NewsConverges`.
- `CandlePages`: the client goes on asking; nothing is assumed of ingestion.
- `Partitions`, `EquityBatch`: safety only.

## 4. Proofs

All theorems hold for every value of the constants that satisfies the modules'
`ASSUME`s.

- **Dimension and catalog sync** (`CatalogSyncProofs`).  None of the dimension's
  properties is inductive alone: replacing a version keeps `OneCurrent` only if
  the found row is *the* current one, and `VersionsChain` only if it is the last
  of its key.  `DimInv` joins them with `NewestIsCurrent`; lemmas per write
  (create, refresh, replace) show it is kept, and `DimensionInvariant` follows.
  `SyncInvariant` adds what the lock gives: at most one transaction is past
  `LockSource`, and what it read is still the current row (`ReadIsFresh`).  With
  it every commit is an `Upsert` and every other step leaves `rows` alone, which
  is `SyncImplementsDimension`; `SyncSafety` and `SyncKeepsHistory` carry the
  dimension's properties over.
- **Connector** (`ConnectorProofs`).  `RateIsBounded` is strengthened by a level
  bound: what was spent in the window plus what is in the bucket never exceeds
  a full bucket plus the window's refill.  For `OutageIsCheap`
  (`ConnectorOutage`) every request of a window without a good answer is
  accounted for: while the breaker is closed it is a failure the breaker has
  counted or a request still out; once open, a caller whose request fails is
  admitted again only after a cooldown, so each cooldown begun adds at most one
  request per caller.  `StragglersAreFew` is kept by counting those
  who may still send: while the breaker cools down, stragglers and callers past
  the check are together fewer than the callers (`FewArePast`), because the one
  whose failure opened it is past nothing and nobody is admitted.
- **Equity batch** (`ConnectorProofs`).  `SkipsAreExplained` needs the connector
  below it and two facts about the running loop.  `EnoughLeft`: the bucket has
  lost no more than the requests so far cost, so within one full bucket no
  request is refused for its rate.  `Blamed`: at every instrument either the
  breaker is open and a stretch of answers just before it holds the threshold,
  or a stretch without any 2xx answer (`Streak`) holds every failure the breaker
  has counted; the next failure that reaches the threshold turns the second into
  the first.  The symbol in `interrupted` lengthens a stretch, adds no failure and
  ends no promise but its own.  The theorems hold beside any other callers in `Callers`; the run
  of the model checker has the one the code has.
- **Spot and news** (`DimensionReadersProofs`).  `RowsStay`: an upsert takes no
  row away and gives none to another key or ticker.  With it the row id a spot
  run holds for key *k* stays the id of a row of *k*, hence `PricesBelong`.  For
  news, the row lock keeps an article in one open transaction at a time
  (`AloneAtArticle`), so what a transaction has read of the links is still what
  is stored when it commits (`LinkedIsRead`); the difference it writes makes the
  links exactly what it looked up, hence `LinksMatchContent`.
- **Candles** (`CandleUpsertProofs`).  A transaction holds only rows below those
  it has still to reach, so a waiting chain ascends (`WaitsAscend`).  The rows
  fetched have a last one (`RowsAreBounded`), so of the rows waited for there is
  a greatest, and the transaction next at it finds it free: some open
  transaction can always go on (`TransactionsNeverAllWait`), however many there
  are.  That every run ends needs fairness and stays with the model checker.
- **Partitions** (`PartitionsProofs`).  `AddMonth` of a first of the month is the
  first of the next, for every month.  A run that began in month *b* and has its
  cursor at *c* has every month from *b* to *c-1*; as runs are never missed for
  more than `MaxMissed < Ahead` months, *b* lies within what the last completed
  run covered, and no gap opens.

- **Candle pages** (`CandlePagesProofs`).  A cursor `(position, offset)` stands
  for the candles at `position` or newer and for those of the older ones that
  have fewer than `offset` newer ones below the position.  `TimesPassed` says
  that the time of every such candle that was there at the start has been
  returned.  It is kept because insertions only push old candles back (their
  rank grows, so the offset covers fewer of them) and because the offset `Follow`
  counts is made of candles that were on the page.  For one instrument times are
  unique, the offset stays 0 (`ExactlyPassed`), and the walk is exact.

- **Task queue** (`TaskQueueProofs`).  `QueueInv` joins types, the timing of
  deliveries, known copies (what is queued, held or orphaned is of a submitted
  task) and `NothingVanishes`.  The timing part bounds the age of a delivery by
  the longest countdown while it waits and by that plus the hard limit while it
  runs; as `MaxWait + HardLimit < Visibility` the broker still counts it as
  unacknowledged, which is `NoOverlap`.  That in turn is what `NothingVanishes`
  needs at a crash: the message of a task that was running comes back.  With
  `QueueInv` every step is one of `AtLeastOnce`'s or a stutter (`PromiseKept`):
  an outcome is an `End`, a restored or lost copy a `Redeliver` or `Discard`.
  `FailuresReviewed` (of `FailuresAwaitReview`) is about behaviours without a lost
  worker, a message given back or a failed dead-letter write: there a task has at
  most one copy, and none once it has ended (`ReviewInv`), so its dead letter is
  written once and finds no row that somebody has resolved; and the operators
  resolve, delete or purge nothing without the review being on record.  A killed
  task was still running at the hard limit, which only a body that swallows the
  soft one reaches.

- **Candle asset** (`DailyCandlesProofs`).  `DailyInv` follows a candle from its
  fetch to the asset: what a task is about to store was fetched since its run
  began (`FetchedSince`), a waiting run is within its timeout
  (`WaitsAreBounded`), and what a waiting run counts on is listed
  (`RunsBeganBefore`), so the task of such a symbol finds its instrument and a
  success that reaches the run covers the last `Reach` candles before its start
  less those that opened while it waited (`SuccessIsStored`), which is what
  `GreenIsStored` says of the symbols in `known`.
  Retries and second deliveries are `AtLeastOnce` steps, and storing twice
  removes nothing.

Only model-checked: everything temporal under fairness (`Converges`,
`Recovers`, `SpotConverges`, `EveryRunEnds`, `RecentCandlesConverge`,
`EveryTaskEnds`, `NewsConverges`, `WalkEnds`, `EveryMaterialisationEnds`), which
is out of the prover's reach.  Every invariant the passing runs check is proved.

## 5. Limits of the code that the models show

### Disagreements between the code and what it says of itself

Two are violation runs: the sensor's run request creates no partition
(`partitions_sensor`), and a replayed day is not fetched (`backfill`).  The
passing properties state what holds in place of the following, which are limits
of the same kind:

- *"Half-open: allow one probe"* (`base.py:87`, `ARCHITECTURE.md:137`).  `allow`
  keeps no record of a probe: after the cooldown it admits every caller until the
  first answer is in.  `OutageIsCheap` says what that costs: one request per
  caller and cooldown instead of one per cooldown.
- *"Sent to DLQ if retries exhaust"* (`common.py:7`, `ARCHITECTURE.md:117-118`).
  Four failures leave no unresolved row: a task killed at the hard limit, one
  whose dead-letter write fails, one whose retry expires (a retry inherits the
  expiry of the message Beat published), and one that fails again when its row
  was resolved before, because `on_failure` does not clear `resolved_at`.
  `FailuresAwaitReview` has these as its premises and exceptions.  The listing of
  `dlq_inspect` is shorter still: the newest `--limit` of the unresolved rows (50
  by default, 20 in the runbook).
- *"far enough ahead that no insert ever lands without a target partition"*
  (`maintenance.py:4-5`).  True while fewer than `Ahead` monthly runs in a row
  are missed (`MaxMissed`), and only of batches that do not reach back before the
  installation; such a batch fails whole (`BatchesSinceInstallLand`).
- *"SCD2 captures rebrand, ticker change, listing/delisting"* (`models.py:34`).
  The sync never looks at a coin that has left the listing, which keeps its
  current row: `Converges` is about listed coins.

### Limits that bound what the properties promise

- `upsert_instrument_scd2` compares no times: a sync that stamped its listing
  earlier and commits later closes a newer version at an earlier time and writes
  `valid_to < valid_from`.  Each version's `valid_to` is still its successor's
  `valid_from` (`VersionsChain`), but the intervals of versions further apart may
  then overlap; the next sync repairs the content (`Converges`), not the times.
- A slower run may store an older price or candle over a newer one for a while;
  `SpotConverges` and `RecentCandlesConverge` say that recurring runs repair it.
  Candles older than a request's reach are not repaired, rows of closed versions
  keep their last price, and coins past the first page of 250 get none.
- The symbols of an equity batch share one breaker, so a threshold of failing
  symbols takes the price of those that follow; and the loop's `except Exception`
  swallows the soft time limit inside `fetch_quote`, which takes the price of the
  symbol it strikes (`SkipsAreExplained`).
- A materialisation stores the latest candles, whatever its day: the last day is
  covered but for the candles the response is too short for, older days not at
  all.  A symbol whose ticker is no current instrument's, or that gets an empty
  answer, has nothing stored and the run is green all the same (`GreenIsStored`
  leaves it out).  A run that gave up leaves its tasks to go on and store later.
- The sensor's cursor moves when it requests a run, not when that succeeds.
- An article whose tickers disappear altogether keeps its old links.
- A walk by symbol may repeat a candle or miss one for another of the same time
  when several versions have candles there.

## 6. Plan

Done: dimension, connector, equity batch, task lifecycle and its refinement,
spot, candles, partitions, news, candle pages, the candle asset.  What could
follow:

1. Walks over news (`list_news` in `examples/python_client.py`), whose cursor key
   `published_at` an upsert may change while a client pages.
2. Provider limits across processes: several connectors of one source.
3. Proofs: the step halves of the convergence properties (a transaction that
   began after the last change leaves its article, price or candle up to date),
   stated as action properties, so that only the fairness argument is left to
   the model checker.

## 7. Not modelled

- Gold marts: each refresh is one PostgreSQL statement on one view, and no part
  of the code reads the views.  A refresh that fails leaves that view and those
  after it as they were.  A model of them on top of the spot store had nothing
  to say that PostgreSQL does not promise, and a state space beyond a run's time.
- The other assets: the spot and news assets wait for one task as `DailyCandles`
  waits for its group; the bronze assets put one object under a fresh key, which
  nothing reads back.
- API keys and throttling are one look-up and the framework's own counter.
- The dashboard, health checks, metrics and logging keep no state that another
  component relies on.
- Settings are modelled where they set behaviour (limits, acknowledgement,
  visibility, schedule); deployment files, warehouse queries and one-shot scripts
  are not.
