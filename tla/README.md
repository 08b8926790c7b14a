# TLA+ specifications of the Vinayak trading platform

These modules specify `src/app/vinayak` and the small trading API beside it,
`src/app`. Two kinds of code need two kinds of model. Where several processes or
requests meet on shared rows, files or stores, a module has one action per step
at which others may interfere: the review and execution of trades, the
transactional outbox, the job queue, the event worker, the limits on automatic
trading, caches, reports and metrics. Where the code computes, a module has
operators on a frame of candles, a journal or a table that grows: strategies,
validation, evaluation, candle processing. TLC checks both on small instances;
TLAPS proves the safety properties of the first kind for any number of
trades, events, jobs, signals, sessions and workers, and those of the second kind, but
for the figures of journals, for any frame, list and batch of signals.

Every definition is translated from the code. Where the code relies on
PostgreSQL, SQLAlchemy, Redis or a message broker, the model contains what the
code uses of them; this is said in the module's header and again below.

## 1. The system

| Component | State | Operations | Talks to |
|---|---|---|---|
| Reviewed trades (`reviewed_trade_service`, `trade_execution_workflow`, `transitions`) | `reviewed_trades.status` | create, PATCH of the status | executions, outbox |
| Execution workflow (`reviewed_trade_execution_workflow`, `canonical_service`, `service`, the adapters) | `executions`, `executions_v2`, broker orders | `POST /executions` in two transactions; the older path of `service.py` in one | reviewed trades, guard, broker, outbox |
| Execution guard (`guard.py`) | duplicate marks, locks, cooldown and daily counters, in memory or in Redis | evaluate, mark executed | execution workflow, gateway |
| Outbox (`outbox.py`, `outbox_repository`, `outbox_worker`) | `outbox_events` | enqueue, dispatch cycle, retry | message bus |
| Live-analysis jobs (`live_analysis_jobs`, its repository and worker) | `live_analysis_jobs` | submit, claim, recover, record, retry, cancel | live analysis, deferred execution, outbox |
| Deferred execution (`event_worker`, its repository) | `deferred_execution_jobs`, unacknowledged messages | consume, run, ack or nack | bus, workspace gateway |
| Workspace gateway and risk engine (`gateway.py`, `workspace_runtime`, `guards/`, `risk_engine`) | a CSV ledger, the `executions` rows its guards count | execute a batch of candidates | executions, guard, broker |
| Live analysis (`trading_workspace`, `report_storage`, `notification_service`) | report files, the artifact in Redis | run, notify, report, answer | strategies, market data, bus, gateway |
| Market data (`live_ohlcv`, `domain/market_data`, `processing.py`, `dhan_security_map`) | candle caches in Redis and in files, a circuit breaker | fetch, cache, normalise, look up an instrument | the feeds |
| Production signals (`production_runtime`) | cached signal batches | get or compute | market data, strategies |
| Strategies (`domain/strategies`) | none | compute signals over a frame | |
| Validation, evaluation, readiness (`validation/`, `analytics/`, `observability/metrics`) | journals of trades, as files | judge a candidate, a journal, a book | gateway, pages |
| Web pages (`role_view_service`, `dashboard_summary`) | views kept by the signature of their file | serve a page | journals, reports |
| Observability (`observability_metrics`, `alerting`) | one JSON file | set, increment, alert | everything |
| Clean trading API (`src/app/trading_main.py`, `src/app/domain`) | none | run one strategy over posted candles | |
| Users and sessions (`auth/`) | none that survives, see section 5 | | |
| Database plumbing, configuration, migrations | | I/O | |

An approved trade is executed by an API request; the request's transactions
insert outbox events; the outbox worker publishes them. A live analysis ends with
a deferred execution job and an outbox event in one transaction; the event worker
consumes that event and executes the signals through the workspace gateway, whose
guards count what reviewed trades executed. So the outbox lies between both
producers and the one consumer, and the guard store between both ways to an order.

What is hard in this code, and what has to hold:

* *Reviewed trades and execution.* An order leaves for the broker inside an open
  transaction, and neither the broker nor the guard store is rolled back with it.
  Statuses are validated against values read without a lock. Two requests lock a
  row and a unique key in opposite orders. Wanted: an order is not sent twice
  unless every trace of the first was lost; results, executions and
  announcements agree, whichever request wrote them; committed outcomes are
  final; requests end. On the older path: an error between claim and commit
  neither loses an order nor stores a claim without one, but in the ways named.
* *Outbox.* Events are published one by one but marked by one commit. Wanted:
  nothing is called published that the bus has not taken; a lasting failure of one event does
  not stop the others; cycles do not deadlock; duplicates have a cause.
* *Live-analysis jobs.* Claims survive crashes only through a timeout, which also
  hits slow workers; outcomes, cancellations and retries overwrite each other.
  Wanted: executions are accounted for, a succeeded job was handed over, every
  job finishes.
* *Deferred execution.* At-least-once delivery meets a handler that does not look
  at the status of its job. Wanted: a signal is ordered once however often it is
  delivered; the ledger agrees with the results; every delivered job has
  somebody who will finish it.
* *Limits.* Cooldowns and counts are read before an order and written after it;
  a cap that came down to zero is forgotten by the next one. Wanted: a bound on
  how far each limit can be overrun, and by what.
* *Market data and signals.* Callers overtake each other on shared caches; rows are
  kept longer than they count as fresh; frames are computed anew with every bar.
  Wanted: no answer older than the caches allow, no signal that a later bar
  changes, entries, stops and targets in an order in which a trade can win and lose.
* *Files.* Metrics, reports and journals are rewritten in place by several
  processes. Wanted: what a reader may see is one of the contents written, or
  the damage is of a named kind.
* *Verdicts.* Segments, streaks, windows and score scales have edges. Wanted:
  no trade is lost or counted twice, more points never hurt, and what the gates
  let through is known exactly.

`PROJECT.json` lists the components with their files, and each hazard at its
line with the properties that cover it.

## 2. Modules

| Module | What it is |
|---|---|
| `TradeStatuses` | status vocabularies, table of transitions, translations between them |
| `ReviewedTradeLifecycle` | abstract specification: requests read a trade, move their copy along the table and save it |
| `ReviewedTradeExecution` | trades, reviews, executions, guard marks, broker orders; implements the lifecycle |
| `Outbox` | outbox rows, dispatch cycles, retries, the bus as seen by `publish()` |
| `LiveAnalysisJobs` | the job queue, its workers and its clients |
| `DeferredExecution` | the event worker: consuming a job, executing its signals, marking it |
| `RiskAllocation` | how many units the portfolio limits leave |
| `WorkspaceExecution` | batches of candidates through both layers of limits, by concurrent sessions |
| `X_proofs` | the theorems about X |
| `Services_proofs` | those about `DirectExecution`, `AnalysisRun`, `TradeValidation`, `DashboardViews`, `Observability`, and `ProductionSignals` over `LiveCandles` |
| `AllStrategies` | every strategy over a frame of its own, with the rows that candles are made of; what they promise together |
| `Identities` | the ids of signals and the instruments of symbols together |
| `Figures` | journals, books, the backtest and the strategies together; what their figures promise |
| `StableOrder` | what Python's `sorted()` makes of some rows of a list, used by journals and books |
| `Signals_proofs` | the theorems about `AllStrategies` and `Identities` |
| `Figures_proofs` | the theorem about `Figures` |
| the services below | one module each |
| `MCX` | constants and symmetry of X for TLC; `MCServices` composes the services |

### ReviewedTradeExecution

| Variable | Code |
|---|---|
| `status` | committed `reviewed_trades.status`; one trade per `signal_id`, which is unique |
| `rowLock` | PostgreSQL row lock, from the flush of an UPDATE to the end of the transaction |
| `results` | committed status in `executions_v2` per idempotency key (trade, mode) |
| `executions` | committed `executions.status`, unique per (trade, mode) |
| `events` | committed outbox events of the workflow |
| `dedup` | keys the guard store remembers as executed |
| `session` | the request in progress: step, loaded status, answer so far, status to write |
| `submitted` | number of execution requests, for the bound |
| `orders`, `forgotten` | history: orders handed to the adapter, and how many of them were at some time unknown to database, guard store and every request |

A request is a sequence of actions that break where other requests can
interfere: at each read, each flush that may wait, each call of the guard or the
adapter, and each commit.

| Action | Code |
|---|---|
| `CreateTrade` | `ReviewedTradeService` creation |
| `LoadForReview`, `WriteReview`, `CommitReview` | `update_reviewed_trade_status`, `transition_reviewed_trade` |
| `Resolve` | `_resolve_execution_dependencies`: only approved trades |
| `CheckDuplicate` | `ensure_no_duplicate_execution` |
| `ClaimTrade` | `request_execution`, flushed |
| `LookUpResult` | the idempotency lookup of `CanonicalExecutionService.execute` |
| `EvaluateGuard`, `PlaceOrder`, `MarkExecuted`, `CommitResult` | the rest of it |
| `Reload`, `InsertExecution`, `CompleteExecution`, `AbandonExecution`, `CommitExecution` | the second transaction, in the workflow |
| `Abort`, `BreakDeadlock`, `GuardForgets` | rollback, PostgreSQL's deadlock detector, loss of a guard mark |

Decisions of the model:

* The database is PostgreSQL at READ COMMITTED.
* `ExpireOnCommit` is a constant: `infrastructure/db/session.py` is commented
  out, while `engine.py` and `db_async.py` build sessions with
  `expire_on_commit=False`, so the loaded trade survives the first commit stale.
  Both values are checked.
* The guard's remaining reasons to refuse (cooldown, daily limits, session
  hours, store unavailable) are one choice that may refuse any request; what they do
  is in `WorkspaceExecution`. Its lock
  per idempotency key never contends, because the row lock already serialises
  the requests of a trade. A different `account_id` has the same effect as a
  forgotten mark.
* Requests refused by the gates of the service write nothing and are left out,
  as are PATCH requests to the status the trade already has, and the audit rows.
* A broker status outside `ExecutionLifecycleStatus` (Dhan answers `TRADED`) is
  `Unmapped`: the result is committed, then the second transaction raises and
  the trade stays `EXECUTE_REQUESTED`.

### Outbox

`row` holds the committed events. `attempt_count` is kept as the backoff it
leads to and `available_at` as the number of polls until the event is due.
`lock` and `session` hold row locks and each session's batch, loaded values and
flushed marks. `arrived`, `dropped` (confirmed by the bus and delivered to nobody) and `copies`
are history.

`Enqueue` is the commit of a business transaction. `LoadReady`, `Publish`,
`FlushMark`, `Commit` are a dispatch cycle, run by the worker or by
`POST /outbox/dispatch`; `Poll` is the worker's sleep; `LoadForRetry` with
`FlushMark` and `Commit` is `POST /outbox/{id}/retry`; `Abort` is a rollback.

* The ready events are read without a lock, and SQLAlchemy writes only columns
  whose value differs from the loaded one. `Written` models this: a stale
  session that marks an event with the status it had loaded leaves the status
  of the row as it is.
* `publish()` may deliver and report failure, and (RabbitMQ without confirms,
  exchange without queue) report success and deliver nothing. What it may do per
  event is the constant `Outcomes`.
* Delays count polls. The code polls every 5 seconds and backs off for 60 to 300
  seconds; a cycle is assumed to be shorter than a backoff.

### LiveAnalysisJobs

`job` holds committed status, deduplication key and whether a running job is
past the timeout (`stale`). `session` holds what a worker or request has read
and will write. `turns` counts submissions, recoveries and retries; `handed`
counts deferred executions created; `retried` are the jobs a retry put back.

`Submit` and `CreateJob` are the two statements of `submit`; `RunsLong` is time;
`ClaimNext` is the recovery of stale jobs with the claim after it, which is atomic
in the code (`FOR UPDATE SKIP LOCKED`, or a conditional UPDATE); `EndAnalysis`
and `Write` record the outcome with the deferred job in one transaction;
`LoadForRetry`, `LoadForCancel` and `Write` are the two operator requests;
`Crash` loses the memory of a session. Flush and commit of a write are one step,
since nothing is done between them.

### DeferredExecution

| Variable | Code |
|---|---|
| `deferred`, `rowLock` | committed `deferred_execution_jobs.status`, and the locks of these rows |
| `results` | committed status in `executions_v2` per idempotency key of a signal |
| `dedup` | signals the guard store remembers as executed |
| `ledger` | rows of the CSV file |
| `queue`, `sent` | copies of a job's message at the broker; copies published so far |
| `worker` | what the handler has in memory: step, loaded status, remaining signals, rows |
| `orders`, `forgotten`, `lost` | history: orders, those forgotten, jobs whose message went without a mark |

`Receive` and `MarkRunning` begin `_handle_deferred_execution`. For each signal in
order, `Block` is the refusal by the workspace guards (or a request that cannot be
built), and `LookUp`, `SaveRequest`, `RequestExists`, `EvaluateGuard`, `PlaceOrder`,
`MarkExecuted`, `CommitResult` are `CanonicalExecutionService.execute`. `EndBatch`,
`OpenLedger`, `WriteLedger` are `_write_rows`; `MarkSucceeded` and `Acknowledge` end
the handler. `SignalFails` is the rollback inside the canonical service,
`HandlerFails`, `ReadAgain`, `MarkFailed` the worker's own, which a metric that cannot be written
after the commit (lines 69, 70) reaches as well; `FailUnmarked` is a
failure outside of its `try` or in its `except`. `Disconnect` and `Crash` give the
message back to the queue.

* Worker and canonical service share one database session. So the commit of a
  result publishes the flushed RUNNING mark, and a rollback loses it (`marked`).
* A handler goes on when its connection is gone: RabbitMQ closes a connection
  without heartbeats while a long batch runs, and redelivers its message. A
  second handler then runs next to the first.
* The workspace requests go to the paper adapter, which always executes, and LIVE
  requests are always refused by the guard. So a result is `EXECUTED` or
  `REJECTED`.
* A batch is a set of idempotency keys: a second candidate with the same key would
  take over the stored result like a redelivered one.
* BLOCKED and ERROR rows of the ledger are one value, `None`: no property tells them
  apart. Messages a worker has prefetched and not begun are still in the queue.
* A lookup that fails in the database leaves the transaction aborted, so the next
  statement fails too: this is one `HandlerFails`.

### RiskAllocation and WorkspaceExecution

`RiskAllocation` translates `risk_engine.py`: five limits, each turned into a cap on
the quantity, applied one after the other. A quantity that has come down to zero
counts as "no cap so far", so the next cap replaces it; `Exhausted` names that case.

| Variable | Code |
|---|---|
| `booked`, `closed` | executed and closed rows of reviewed trades in `executions`, the only ones the workspace guards count |
| `results` | committed status in `executions_v2` per idempotency key of a candidate |
| `dedup`, `cooldown`, `count` | the guard store: marks, cooldowns, trades of the day, for each store |
| `worker` | what a session has in memory: step, candidates left, rows, keys and quantity of its batch |
| `orders`, `burst` | history: orders per symbol, and since a cooldown last ended |
| `uncounted`, `unmarked` | history: orders or refusals the count and the cooldown do not show |

`Start`, `Block`, `Pass` and `Finish` are `execute_workspace_candidates` with its guards
(validation gate, session window, duplicate, cooldown, daily limit, open trade,
allocation); `SaveRequest`, `CheckMarks`, `CheckCount`, `PlaceOrder`, `SetMarks`,
`CountTrade`, `CommitResult` are the canonical service with the execution guard.
`BookReviewed` and `CloseReviewed` are the other path to the same tables.
`CheckMarksBlindly`, `CheckCountBlindly`, `LoseMarks`, `LoseCount` are single
operations of Redis that fail (reads answer "no", writes are lost without a word);
`SignalFails` is a rollback, `Crash` a lost worker, `StoreLost` a store that
restarts empty, `Expire` the end of a cooldown.

* The in-memory store belongs to one process and does not expire cooldowns within
  it; Redis does (`ExpiringStores`) and is shared by all who use it (`StoreOf`).
* The lock of an idempotency key surrounds the evaluation of one key only, which the
  unique key of the request has already made exclusive. Two trades of one symbol
  share no lock: this is why the limits can be overrun.
* The loss of the day is zero in every state (`realized_pnl_for_day` returns a
  constant), so that limit never refuses. `max_daily_loss_pct` would be compared
  with an amount of currency.
* Minutes are attributes of candidates: "minutes since the last executed row" is a
  difference of two, negative for an earlier candidate.

### The services

These share no state with each other. `MCServices` puts them into one run: the
variable `service` is chosen by `Init` and says which one moves.

| Module | Code | State, actions | Says |
|---|---|---|---|
| `DirectExecution` | the older path, `domain/execution/service.py` | committed and flushed rows of a batch, the item in hand | an order is sent twice, or a claim left open, only where an answer could not be stored; what is shown as executed is; an order that went out has its outcome in the tables, unless it could not be stored |
| `TradeEvaluation` | `validation/trade_evaluation.py`, `analytics/readiness.py` | a journal that grows | figures do not depend on the order of the rows and lose no trade; live trading stays shut |
| `TradeValidation` | `validation/engine.py` | a candidate whose marks change | who passes is faultless; more is never worse on one scale, but for one point lent to a missing base |
| `MetricsEngine` | `observability/metrics` | a book that grows | normalising twice changes nothing; drawdown and expectancy err as described; the engine is never ready |
| `DashboardViews` | `role_view_service`, `dashboard_summary` | files, views kept by signature, readers | what is kept as current is current; a page shows nothing older than its request |
| `CandleFrame`, `IntradayStrategies` | `strategies/common`, `breakout`, `btst`, `indicator`, `one_trade_day`, `mtf` | a frame that grows | signals are trades, stay once the RSI is full, appear later only where they wait for a bar, and mirror for the other side |
| `DemandSupply` | `strategies/demand_supply` | a frame | no zone is offered anew but at the newest bar; candidates are spaced and can win and lose |
| `AmdStrategy`, `CleanTrading` | `strategies/amd`; `src/app/trading_main.py` with its engine, strategies and risk manager | a frame | signals are spaced, stay, are refused only for prices at or below zero; who risks more holds no less |
| `LatestBarStrategies` | `strategies/implementations`, `signal_factory`, `backtest/engine.py` | bars of a batch | stops and targets on their sides; the backtest knows no losing trade |
| `LiveCandles` | `live_ohlcv.py`, `redis_client` | two Redis entries per feed, its files, overlapping callers, a clock | answers are of what was asked; a cache never falls further back than a call lasts |
| `ProductionSignals` | `production_runtime`, `domain/market_data/service.py` | batch cache, frame cache, circuit breaker, over `LiveCandles` | no batch is older than the three caches together; an open circuit stays open; `MarketNext` lets other callers of the candles overlap with it |
| `CandleProcessing` | `processing.py`, `normalization.py` | rows of a feed | candles are ordered, none lost or made up; both normalisations agree where they should; no look-ahead |
| `Instruments` | `dhan_security_map.py`, `payload_builder.py` | the list of instruments | candles and orders are of one instrument where one row has the name |
| `SignalRows` | `strategy_workflow.py`, `contracts.py` | signals of analyses | ids are kept and tell apart; nothing is reported |
| `AnalysisRun` | `trading_workspace.py`, reports, notifications | concurrent runs, report files, the artifact | reports are of one run unless written in one second; a summary comes to the chat at most three times for the run and for each delivery by the bus; automatic trading is never live |
| `Observability` | `observability_metrics`, `alerting` | the metrics file, writers between read and write | counts are never invented; without overlaps errors and notices are exact, and schema failures those since the last frame that was measured; alerts have a cause |

Of the files of a feed `LiveCandles` keeps those whose window ends now, which alone
can be asked for exactly, and the rows of the newest, which is what a failed call falls
back on. TLC runs `LiveCandles` and `ProductionSignals` (`ProductionNext`) one after the
other; `MarketSpec`, in which their callers overlap, has 3.9 million states in a
small instance and was checked for the inductive invariant of its theorem.

Prices and volumes are small integers, ratios exact pairs or percentages. What
depends on the past alone and is only compared (moving averages, MACD) is an input of
a candle: the sides it backs. What looks at the frame in a way a property is about
(an RSI that is filled backwards, average prices, ranges, zones) is computed.

## 3. Runs

| Run | Instance | Properties | Shows |
|---|---|---|---|
| `faults` | 3 sessions with stale objects, 1 trade, 2 modes, 3 requests, aborts, lost marks, unknown broker answers | `TypeOK`, `OrderNotRepeated`, `ExecutionTellsResult`, `ExecutedIsBacked`, `AnnouncementsAgree`, `OutcomesAreFinal` | orders, results, executions and announcements stay consistent |
| `reviews` | 2 sessions, 1 trade, all statuses asked for, 3 requests, aborts | `LifecycleSpec`, `ClaimHoldsStatus` | concurrent requests implement the abstract lifecycle; nobody moves a trade between its claim and the commit of its result |
| `live` | 2 sessions, 1 trade, no failures, fair | `RequestsEnd`, `ClaimsResolve` | no request waits for ever; claimed trades get an outcome |
| `rejected` | 2 sessions, 1 trade | `OrderOnlyFromApproved` is violated | see Findings |
| `outbox_faults` | worker, API dispatch, retry; 2 events; batches of 2; 2 rollbacks or retries | `TypeOK`, `LocksInOrder`, `PublishedArrived`, `CopiesAccounted` | locks are ordered; published means taken by the bus; duplicates have a cause |
| `outbox_live` | worker, retry; 2 events, one undeliverable; batches of 1; 3 rollbacks or retries; fair | `EventsArrive` | no starvation behind a failing event |
| `jobs_faults` | 2 workers, 2 clients, 2 jobs, 2 keys, 2 turns per job, crashes, retries | `TypeOK`, `ExecutionsAccounted`, `SucceededHandsOver` | hand-overs are accounted for, and none is missing |
| `jobs_live` | 1 worker, 2 clients, 3 jobs of 1 key, no retries, crashes, 3 turns, fair | `OneActivePerClient`, `JobsFinish` | equal requests share a job, but for those that overlap; every job finishes although workers die |
| `jobs_retried` | 1 worker, 2 clients, 1 job | `SucceededIsNotRetried` is violated | see Findings |
| `deferred` | 2 workers, 1 job of 2 signals, 2 failures of any kind, fair | `TypeOK`, `OrderNotRepeated`, `LedgerBacked`, `UnfinishedIsHandled`, `JobsEnd` | redelivery repeats no order; the ledger is true; the job gets an outcome |
| `workspace` | 2 sessions on one Redis with batches of 3 and 2, a reviewed trade, 1 failure of any kind, fair | `TypeOK`, `DailyLimitHolds`, `CooldownHolds`, `BatchExposure`, `BatchesEnd` | by how much each limit can be overrun; every batch ends |
| `services` | each service on its own, one run | `DirectOutcomesHold`, `FiguresAddUp`, `PagesHold`, `RunsStandAlone`, `SignalsAreSound`, `MetricsHold`, `GatesHold`, `NothingLooksAhead`, `MarketDataHolds`, `IdentitiesHold` | what the table of services says |

Each property of `services` is a conjunction of those of the modules, by what it is
about; a conjunct speaks of the service that moves and of no other. Where a conjunct is
about rows (`FiguresAddUp`), it is asked of a journal or a book that has some: of none
there is no figure to compare.

### Bounds

* `MaxSubmissions`: an order is repeated with two requests, and a third one can
  then take over the stored result while one of the others is in its second
  transaction. Requests of different trades share no row, so one trade is enough
  where several sessions run.
* `MaxDisturbances`: every rollback or retry request costs one. Two allow a rollback
  of the worker or of the API dispatch and a retry in between, three in `outbox_live`, with one
  dispatcher, a further one of either.
* `MaxTurns` bounds retries, crashes and the times a job of a live worker becomes
  stale. With two, a job is processed by two workers at once, or cancelled,
  retried and processed again. Three jobs of one key in `jobs_live` are one more than the
  clients that can look for it at the same time, so a third active job would show.
* `MaxFaults`, `MaxCopies` (`deferred`): one published copy is enough, because a broken
  connection makes a second one with the first handler still running; the other
  failure then hits either of them. Two signals show the first one committed and
  the second one failing. Two jobs with a common signal (1.2 million states) were
  checked for the inductive invariant.
* `FirstDelay` and `MaxDelay`: one and two polls in `outbox_live`, so that the
  backoff is reached, doubled and capped.
* `workspace`: the daily limit is one, so that two sessions reach, miss and overrun
  it. The second batch repeats a candidate of the first; two candidates of the first
  batch fall into one slot of time; the limits are such that a
  cap is exhausted in some orders and not in others. One failure is enough: a second
  one only adds to the same histories.
* Frames have four to eight candles, with the periods of the code (14, 20, 200...)
  scaled down to two to five. Frames begin before the first bar that is judged and
  go on until its signal was spaced from the next. The candles of `MCServices` are
  those that make each pattern happen, and their images upside down.
* `ThirdAlone`, `SixWrites`, `SecondOnce`, `OneReport`, `OneFile`, `OneNight`, `FourRows`,
  `FirstOne`, `AloneOrSilent`, `MaxRequests`, `MaxOperations` cut what adds nothing: a
  third operation on the metrics only after two that did not meet, two that meet only
  while they have six writes to do between them, frames of the intraday strategies of two
  days at most (no strategy looks further than from one day into the next), frames of four
  rows of which none comes twice, a second request for candles by one caller only, one
  reader at a time of pages with the report and one of the two files rewritten (views of
  different files share nothing, and the theorem is about any number of readers and
  rewrites of both), one request of the production route per caller, the first caller
  first (both ask the same), no second run beside one that notifies.
* `MaxRedeliveries` is one: the broker repeats the notification of a run once. The frames of `Feed`
  are two, one late without issues and one in time with an issue, so that a measured frame
  sets the schema counter both up and down.
* Journals and books have four entries out of seven or eight, which close two
  segments, two windows and both kinds of streak.
* The symmetry of `services` exchanges the readers of pages, the writers of metrics,
  the runs of analyses: identical processes, which no property names.

`CHECK_DEADLOCK` is off where the program may really stop: once all bounded
requests or batches are used up (`ReviewedTradeExecution`, `WorkspaceExecution`, the
services), or when all jobs are finished and the clients are idle
(`LiveAnalysisJobs`), or when all messages are handled (`DeferredExecution`). The
outbox worker polls for ever, so the outbox runs keep the check.

### Fairness

* `ReviewedTradeExecution!FairSpec`: a request that can go on does (weak); one
  that waits for a row or a unique key is served in the end (strong), because
  PostgreSQL queues lock waiters. Nothing is assumed of clients or failures.
* `Outbox!FairSpec`: the worker's loop goes on, started cycles and retries go on,
  lock waiters are queued, and the bus does not refuse for ever an event it can
  deliver (strong, per event). Nothing is assumed of the API dispatch.
* `LiveAnalysisJobs!FairSpec`: workers loop, an analysis ends, and the clock
  reaches the timeout of a running job. Clients owe nothing. Crashes happen, but
  finitely often per job (`MaxTurns`): without such a bound a job may be lost on
  every attempt.
* `DeferredExecution!FairSpec`: workers consume, a handler goes on (weak), and one
  that waits for a row or for an uncommitted request is served (strong), as
  above. Failures are bounded by `MaxFaults`; without a bound every redelivery may
  fail again.
* `WorkspaceExecution!FairSpec`: a session that executes a batch goes on (weak): it
  passes or blocks its next candidate and takes the steps of the canonical service.
  Weak fairness is enough for the INSERT that waits for another transaction, because
  a batch has finitely many candidates, so a key is wanted finitely often. Nothing need
  start, fail, expire or be reviewed. `Decide` is enabled exactly when a candidate is
  upcoming, so its weak fairness is written as the disjunction TLC evaluates faster.
* The services have safety properties only.

### Findings

* *A rejected trade is executed* (`rejected`). `_resolve_execution_dependencies`
  checks the status and the claim is a later statement that does not look again:
  a rejection committed in between is overwritten, and the order goes out.
  `service.py` line 664 says "Real execution must come from an approved reviewed
  trade." For the same reason the
  abstract lifecycle promises each request's own moves and not those of the table: two requests
  can take `REJECTED` to `EXECUTE_REQUESTED`.
* *A succeeded job is retried* (`jobs_retried`). `retry_job` accepts a cancelled
  job; if the worker of that job writes `SUCCEEDED` before the retry is written,
  the succeeded job becomes `PENDING` and its signals are handed over twice,
  although line 161 of `live_analysis_jobs.py` refuses exactly this.

Seen while modelling, and stated by a property or a hazard:

* `retry_event` has the shape of `retry_job` (a published event is reopened); two
  dispatchers may publish one event twice without any failure; a dispatch cycle
  publishes without confirms.
* On the older path an item may be shown as FAILED though its trade is approved as before and its
  order is out, or though it was executed and the record could not be read back.
* A notification is sent again when its worker is gone before the acknowledgement. A metric that
  cannot be written after the commit (`event_worker.py` lines 69, 70) marks a job FAILED that
  has succeeded.
* A live analysis never reports a signal: the contract of trade candidates requires a
  timeframe, and no strategy gives one (`NothingReported`). The id of a trade
  contains its entry price, so a bar in progress makes a new trade with each price.
* A cap of zero is forgotten by the next cap. Cooldowns and daily counts are
  overrun by one order for each further session. Automatic execution turns LIVE
  into PAPER.
* The metrics file is read, emptied and rewritten without a lock, and started over by
  who reads it empty. Reports are named by the second and written in place; "queued"
  says nothing about the delivery of a notification. The counter of schema failures is set to the
  issues of each frame that is measured (`market_data_service.py` line 140), which ends its alert;
  no code of the repository puts issues into a frame. The heartbeat keeps a
  delay that was recorded once; the delay subtracts a time without zone from UTC.
* The two normalisations of candles differ on the last row of a time. The opening
  window is the first five bars of a batch, so a young batch is silent; without a
  `vwap`, which the production service never gives, nothing is confirmed.
* `data/cleaner.py` is a stub: its `CleanerConfig` takes no arguments and its `coerce_ohlcv` one, while
  `data_preparation.py` line 45 and `gateway.py` line 414 pass more. With the stub every preparation of
  candles raises; the models take the calls for what they are written to do, and a
  preparation that raises is one of their outcomes.
* The RSI of a frame no longer than its period is filled backwards (`breakout/service.py` line 73), so
  until then each bar may change the signals of those before it. BTST trades a bar once the
  next day has opened; a Breakout or MTF day is looked at once it has its bars. A zone that
  later bars withdraw makes room for a candidate it had kept out.
* The list of instruments is read by two rules: candles and orders of one name may be of
  different instruments; a share whose segment is blank is ordered as a derivative.
* Scores up to 10 are multiplied by ten, so 10 is worth 100 and 11 is worth 11. Every
  scored check is a reason of its own, so only 10 points pass. No journal opens
  the live gate; the engine's report is never ready without health snapshots, which
  nothing gives it; the rate of the workspace counts rows twice and never reaches 55 %.
  A missing base borrows the points of its zone and is then scaled a second time: a
  zone of 1 counts as a base of 100, a zone of 2 as a base of 20 (line 103 of
  `engine.py`). The attempt to prove that more is never worse showed this.
  The drawdown misses a loss in the first trade, the expectancy counts a trade that
  breaks even as lost. The backtest fills every trade at its target.
* In the clean API `risk_pct` up to 1 is a fraction, so that 1.0, which a docstring of
  `amd/service.py` calls one percent, is the whole capital. Signals it refuses have
  already used up their cooldown. Three of its six names are mean reversion. In the
  balanced mode the score of AMD never decides.

## 4. Proofs

Theorems are of the form `Spec => []P`, `Spec => [][A]_v` or `Spec => Abstract!Spec`,
under the named assumption of the module on its constants, which TLC evaluates in every
run: `ConstantsAssumption`, `OutboxAssumption`, `JobsAssumption`, `DeferredAssumption`,
`WorkspaceAssumption`; and of the services `AnalysisAssumption`, `PagesAssumption`,
`MetricsAssumption`, `CandlesAssumption`, `AgesAssumption`, `MarksAssumption`,
`FactsAssumption`, `ListingAssumption`, `RowsAssumption`, `FramesAssumption`, `SeenAssumption`,
`IntradayAssumption`, `ZonesAssumption`, `AmdAssumption`, `CleanAssumption`,
`JournalAssumption`, `WindowAssumption`, `SegmentAssumption`, `BookAssumption`
(`DirectExecution` assumes nothing). They say that times, prices and scores are numbers, that
periods are above zero and sets of processes finite, and of the candles of a strategy
(`FramesAssumption`) what `processing.py` line 178 leaves of them: no price below zero or
outside of low and high. The clean API takes what is posted, of which the same is assumed;
rows of a feed (`RowsAssumption`) may be anything. The theorems hold for any number of trades,
sessions, events, workers, jobs, requests, callers, readers, writers and failures, and for
frames, feeds, lists of instruments and batches of any length. What a theorem assumes beyond that is in
its statement, and in the last column.

| Theorem | Property | Inductive invariant, further assumption |
|---|---|---|
| `ReviewedTradeExecution_proofs!TypeCorrect` | `TypeOK` | `TypeInv`: sessions that are not idle know their trade |
| `...!OrdersAreNotRepeated` | `OrderNotRepeated` | `TypeInv /\ OrderInv` |
| `...!ExecutionsTellResults` | `ExecutionTellsResult` | `Inv`: `TypeInv`, `OrderInv` and `OutcomeInv` |
| `...!OutcomesStayFinal` | `OutcomesAreFinal` | `Inv` |
| `...!AnnouncementsNeverConflict` | `AnnouncementsAgree` | `Inv`, `Targeted`, `AnswerGiven`, `AnnouncedInv` |
| `...!ExecutedTradesAreBacked` | `ExecutedIsBacked` | itself with `Inv`, `Targeted`; no client may write `EXECUTED` |
| `...!LifecycleImplemented` | `LifecycleSpec` | `Inv /\ LifeInv` |
| `...!ClaimsHoldStatus` | `ClaimHoldsStatus` | the same |
| `Outbox_proofs!TypeCorrect` | `TypeOK` | `Inv` |
| `...!LocksAreOrdered` | `LocksInOrder` | `Inv` |
| `...!PublishedIsTaken` | `PublishedArrived` | `Inv /\ Backed` |
| `...!CopiesAreAccounted` | `CopiesAccounted` | `Inv`, `SessionsUnread`, `CopiesKnown` |
| `LiveAnalysisJobs_proofs!TypeCorrect` | `TypeOK` | `Inv` |
| `...!HandOversAccounted` | `ExecutionsAccounted` | `Inv` |
| `...!SuccessIsHandedOver` | `SucceededHandsOver` | `Inv` |
| `...!ActiveJobsAreShared` | `OneActivePerClient` | `Inv`, `AllShared` |
| `DeferredExecution_proofs!TypeCorrect` | `TypeOK` | `Inv` |
| `...!OrdersAreNotRepeated` | `OrderNotRepeated` | `Inv` |
| `...!LedgerIsBacked` | `LedgerBacked` | `Inv` |
| `...!UnfinishedJobsAreHandled` | `UnfinishedIsHandled` | `Inv` |
| `WorkspaceExecution_proofs!DailyLimitKept` | `DailyLimitHolds` | `Inv == Shape /\ LimitInv /\ CoolInv` |
| `...!CooldownKept` | `CooldownHolds` | the same |
| `...!AllocationFits` | | of one allocation: whole amounts, a price above zero, a stop that is not the price, no exhausted cap |
| `...!TypeCorrect` | `TypeOK` | `TypeInv`: a candidate in hand is one the batch has yet to record |
| `...!ExposureKept` | `BatchExposure` | `TypeInv /\ ExposureInv` |
| `Services_proofs!DirectOutcomesKept` | `DirectOutcomesHold` | `DirectInv` |
| `...!RunsKeptApart` | `RunsStandAlone` | `AnalysisInv` |
| `...!GatesKept` | `GatesHold` | `SetupOk`: marks are numbers or flags; then one step |
| `...!PagesKept` | `PagesHold` | `ViewInv` |
| `...!MetricsKept` | `MetricsHold` | `MetricsInv` |
| `...!MarketDataKept` | `MarketDataHolds` | `MarketInv == CandlesInv /\ SignalsInv` |
| `Signals_proofs!IdentitiesHoldAlways` | `IdentitiesHold` | `SignalsFound`, `RowsListed`: signals are made of facts, rows are of the list |
| `...!SignalsAreAlwaysSound` | `SignalsAreSound` | `FramesInv`: frames are made of the candles that may come |
| `...!NothingEverLooksAhead` | `NothingLooksAhead` | `FramesInv`, then one step |
| `Figures_proofs!FiguresAlwaysAddUp` | `FiguresAddUp` | `FiguresInv`: the journal, the book and the frames are made of what they are made of |

*Orders.* That an order is not repeated does not follow from itself: the next
request must be known to find a trace of the last one. `OrderInv` says that a
session between its claim and its commit holds the trade's row (`RowHeld`), so
there is at most one for each trade (`ClaimExclusive`); that it found no result
and there still is none (`ResultOpen`); that a key cleared by the guard is still
unmarked (`ClearedKey`); and that an order nobody remembers is in the history of
forgotten ones (`OrdersKnown`). When an order goes out, nobody remembers an
earlier one, so `orders = forgotten` before the step.

*Outcomes.* `Answered` says that after its first transaction a request's answer
stands for the stored result, also when it took the result over: reading back a
canonical status and translating it again is the identity
(`LegacyStatusRoundTrip`). `InsertAlone` says that an uncommitted row is the only
one of its key. So a row is written once, and says what the result says. An
announcement is made of the answer (`AnswerGiven`) and of the status about to be
written (`Targeted`); as both stand for the one result, two cannot contradict.

*The lifecycle.* `Lifecycle` is `ReviewedTradeLifecycle` with the sessions for its requests and
`Copy(s)` for what each has made of the trade it read: every step of `ReviewedTradeExecution` reads a
trade, moves a copy along the table, saves one, drops one, or changes nothing that the abstract
specification sees. `Seen` says that a review has validated its target against the status it read, and
that a claim has moved its copy to `EXECUTE_REQUESTED`, whatever the row says by then. Requests may
overlap and objects may survive a commit: what the abstract specification promises is what each
request does, and `rejected` shows that the row itself may leave the table of transitions.
What can be said of the row is `ClaimHoldsStatus`: from the flush of a claim to the commit of
its result its session holds the row (`RowHeld`), a flushed review would hold it as well
(`ReviewHeld`), so nobody else commits a status; a rejection that is overlooked was
committed before the claim.

*Outbox.* `SessionsOrdered` says that a session has marked events below the one
it is marking and has left those above; `LocksMarked` that it holds only what it
marked. Together they order the locks by id, so there is no circle of waiters.
`Backed` says that all that is, or is about to be, marked as published has
been taken, that is delivered, or confirmed and dropped (RabbitMQ without confirms does that while no
queue is bound). Copies are counted against the dispatchers (`CopyKnown`): before an event is marked in
the table, each copy that no failure accounts for belongs to a dispatcher that has the mark in hand
(`Senders`), and one that has the mark sends no more; once it is marked in the table only those
that read it before may still send it (`Waiters`). No dispatcher is both, so there are no
more copies than dispatchers, however many overlap.

*Jobs.* Each turn of a job is spent once: `handed`, plus the workers that hold the
job, plus one if it is pending, never exceed `turns` (`Account`). A claim moves
the credit of the queue to a worker, a write moves it to `handed`, a recovery
or a retry adds to both sides. Active jobs are counted against the clients: those of a key that no retry
put back, and the clients that have found none and are about to create one (`Submitting`), are
together no more than the clients (`Shared`). A client that finds none when there is none has
the whole account; one that creates moves from the second to the first.

*Deferred execution.* Here no row lock serialises the handlers of a job: the mark
of the first handler is committed with its first signal, and then the second one
proceeds. What keeps orders apart is the unique key of the request
(`RequestAlone`, `RequestOpen`); the rest of `OrderInv` is as above. `RowsBacked`
says of the rows a handler has in memory what `LedgerBacked` says of those in the
file, since any of them may be written later. `Cared` strengthens `Handled`: a
handler that succeeded, or that read FAILED before its own mark, writes no more
outcome (`Spent`), so a job that another handler has put back to RUNNING must
have somebody else. Every step of one worker is an instance of `QuietInv` (results
and guard store stay) or `ForgetInv` (a failure), except `PlaceOrder`,
`MarkExecuted` and `CommitResult`.

*Limits.* A session that passes the check of the daily count adds nothing that the
other sessions could read, until it counts. `OrdersCounted` says that an order is
counted, on its way to the count (`Sent`), or lost to it; so when a session passes
the check, the orders are below the limit plus those on their way plus the lost.
`OrdersLimited` counts, besides the orders, the sessions that may already place one
(`Ready`): of the sessions of the store, the one that passes is neither `Sent` nor
`Ready`, which is where "minus one" comes from (`CountingRoom`). The cooldown is the
same argument in two phases: without a cooldown, every order since the last one is
about to set it or lost it (`OrdersCool`); once it is set, only sessions past
their check can follow (`OrdersSlip`, `CooledRoom`). `Sent`, `Ready`, `Placed` and
`Past` are cardinalities of sets of sessions, and each step moves one session in or
out of them. What the quantities are plays no part: `Shape` types the rest.

*Exposure.* Each cap leaves a quantity whose cost is within what remains of its
limit (`UnitsFit`), and later caps, none of them zero, only lower it: this is
`AllocationFits`, for one allocation. For a batch, the sums over its open rows must be seen to be
numbers and to grow by what a row adds. The library's sums pick one element after
another, in no order that is known, so the proof argues by smallest counterexamples: of
the subsets of a finite set with some property one is smallest (`SmallestSubset`),
from which follow that a sum is determined by its function (`TalliesAgree`), exists
(`TalliesExist`), and loses an element's share with the element (`SumRemove`). `Within`
then says of each limit that the open rows of a batch, with the candidate in hand
if it passed no exhausted cap, are within it; it survives the steps of the canonical
service because a session alone adds to its own rows.

*Direct executions.* What is in the session and not committed is the item in hand or
one whose answer was incomplete (`ClaimsLeft`); an order outside of those has left a row
(`OrdersLeaveRows`), and what is claimed has none yet, so a second order needs an
answer that could not be stored: a rollback after the answer (`FailToRecord`, `Break`) puts the item
among those before it takes the claim back. A decision ends the item's part in its batch
(`DecidedIsOver`), so what it was when it was shown is what it is (`ExecutedShown`).

*Analyses.* `TradesTrue` ties what was traded to what was asked, so automatic trading
is never live. `ChatTrue` counts the notices by the ways they can go,
and those of each delivery that was repeated (`Repeats`). `JsonOwn` and
`TextOwn` say that a report only one run has named is empty until that run writes it,
whatever the others do.

*Validation.* Every check that fails is a reason to reject, so who passes has all of
them and with them the ten points (`VerdictIs`). A better mark on one scale is followed through the normalisation
(`NormalizedGrows`), the base (`BaseGrows`), the card (`CardGrows`) to the verdict.

*Pages.* No signature that is kept, or in hand, is one its file has not had yet
(`SignaturesPast`); signatures only grow, so a view whose signature is the file's is of
the content it has now.

*Metrics.* A file that can be read, and every copy a writer will write, counts no more
than what it was set to and the increments begun that are not still to come (`Bounded`), and shows a delay of a
frame that was recorded (`Caused`). While nobody has disturbed anybody, one writer is
at work and the file, or what it is written from, lacks exactly what that writer still
has to do (`OneAtWork`, `Exact`). The step from the one to the other counts the writers
with an increment still to do (`CountingMoves`). The counter of schema failures is counted and set:
`due` is what it shows if nothing is lost, and what is counted since the last setting is exact like
any other counter.

*Market data.* An entry of Redis was new a call before it was written (`EntryOk`). The
step properties need the history of a call: one that has nothing to fall back on
began before everything its feed has in Redis now (`CallOk`), so who is told of a failure is
told so although everything there came later. Each cache of the
production signals adds its lifetime to the age of what it was given (`FramesInv`,
`ResultsInv`), and who is fetching while the circuit is open began before it opened
(`CircuitInv`).

*Identities.* An id is made of the time, the side and the prices of a signal, or of its zone;
the proof shows that equal ids are of equal facts where the code relies on it. For the list of
instruments it follows the two ways a row is found, and that each takes rows of one name alone.
The first attempt showed two arms of a `CASE` in `InferExchangeSegment` that overlapped,
whose choice TLA+ leaves open though the code takes the first: they were made disjoint.

*Signals.* Nothing but the shape of its candles is needed of a frame (`FramesInv`); what is
hard is the computation. A scan of a frame (the candidates of zones, the bars of AMD) is a
recursive function, which has to be shown to exist before anything can be said of its values
(`ScanExists`): of the lengths for which there is none the smallest would be the successor of one
for which there is one (`Climb`). What each step keeps, spacing and daily limit, then
holds of all of them by the same argument. Each strategy has a lemma that its signals are trades;
the stop is on its side because a best price is no less than a worst one, and the budget holds
because a quotient times its divisor is no more than what was divided.

*Later bars.* `Follows` relates a frame to one that goes on where it ends. Each measure of a
bar is shown to depend on the bars by then alone: extremes and means because the sets of
their bars are the same, the RSI because its period is already full, scans because a scan of more
bars begins with the scan of fewer. So a signal of the longer frame at an earlier bar is one of the
shorter frame as well, unless its strategy did not look at that bar then (`FoundWithLast`).
A zone is judged by the bars after it, so its
score may fall with every touch and never rises (`ZonesFade`): a later frame has the zones of
the one before, and accepts none of them anew but at its last bar.

*Candles.* The rows that are kept have different times, so there is an order of them, by the same
argument on the size of a set (`OrderExists`), and a set that is in order is its own order
(`InPlace`): so doing it twice changes nothing, and the candle of a time is the last row of it.
The losses are counted by sets that together hold every row that is gone. One row more makes at most one
candle more (`KeptGrows`); when it comes last, no session, day or volume before it is touched
(`OneMore`), and of the opening window only the one that is not over.

*Figures.* As with the signals, what holds of the state is little (`FiguresInv`), and the rest is
computation, of any journal and any book. A journal read from its other end has the same
trades in the same order, because trades of different times have one order
(`StableOrder`: the i-th is the one that i - 1 come before); where two trades share a
time the property says nothing, as the code keeps them as it found them. Folds
are recursive functions, shown to exist and then followed from one length to the
next (`ScanExists`), sums by taking any summand out. So the fold of the
drawdown is the worst fall between two moments, and that of the streaks the longest run. The
drawdown of the metrics starts at the first trade instead of before it and misses no more
than a first loss. A segment goes on where the one before ended and the last takes what
remains, so together they are the journal; two tests of the walk-forward share no trade because
windows are as far apart as a test is long.

*Upside down.* `SidesMirror` compares the strategies on a frame with the same on its image.
A measure of a bar becomes the measure of the other direction: highest and lowest change
places, a sum of prices becomes the sum of what they lack to `Ceiling`, a gain a loss.
Means and averages need their units (what a scan of averages counts in) to be
the same in both frames. For each strategy a signal is matched with what it is
upside down, which is a signal of the other frame, and the image of an image is the frame; so
both inclusions are one lemma. The proof needed one more
fact of the candles than those before it: what a candle backs are sides and nothing else,
which `IsCandle` now says.

### Only model-checked

Liveness (`RequestsEnd`, `ClaimsResolve`, `EventsArrive`, `JobsFinish`, `JobsEnd`,
`BatchesEnd`): fairness and `ENABLED` are beyond the prover. Every safety property of every
passing run is stated by a theorem. No module uses `RECURSIVE` operators.

No theorem is restricted to one session, dispatcher or client. Where more of them can do more, the bound
in the property grows with their number: copies of an event, active jobs of a key, orders beyond a
limit.

## 5. Not modelled

* *Users and sessions.* `auth/service.py` defines `UserAuthService` twice. The second
  definition (line 87) is the one Python keeps; it has neither users nor sessions,
  so every operation on them raises, and the web pages treat every visitor as not
  logged in. There is no state to model. Password hashing is cryptography.
* `exit_trade` and `fail_execution` of the older path, `retry_job` of the deferred jobs'
  repository, `create_orders` of the clean API, derived indicators
  (`include_derived`), the duplicates `trade_validation.py` and
  `candidate_generation.py`: no code calls them.
* The broker's own state. A request that fails on the way back is recorded as
  `BLOCKED` although the broker may hold the order; the program never reads
  that back.
* The composition of job queue, outbox and event worker: each is modelled with the
  other's effect as one action (`Write`, `Enqueue`, `Deliver`). Their contracts meet
  in those actions: a hand-over is one event (`SucceededHandsOver`), an event is
  delivered, perhaps more than once (`EventsArrive`, `CopiesAccounted`), and copies
  repeat no order (`DeferredExecution!OrderNotRepeated`).
* Connection management of the bus: a dispatch cycle opens connections and closes none,
  which no property of the queue depends on.
* The numbers of indicators that depend on the past alone: averages, MACD, and the RSI
  of the clean API. The choice of option strikes (`strike_selector`, `option_chain`).
* Requests to the feeds and the reshaping of their answers before they are rows; the
  upload of reports to S3; the text of reports, messages and pages; parsing and
  rendering in routes; log files and the sampling of host figures.
* Configuration, connection set-up and migrations: what the models assume of a database
  session (expiry on commit) is a constant of theirs.

## 6. What could come next

1. A pipeline of `LiveAnalysisJobs`, `Outbox` and `DeferredExecution` in one run: one
   job, one dispatch cycle, one worker, one failure, against an abstract
   specification, "each hand-over gets an outcome, or its loss has a cause".
2. The choice of strikes, once a route feeds its result into an order.
