# Suez Algo Trader: specification and verification

TLA+ models of the trading process, TLC configurations that check them on small instances, and
TLAPS proofs of the main results for every instance. Paths below are relative to the repository;
a path without a directory is that of the Python package `src/`.

## 1. Inventory

The program is one Python process (`main.py`), restarted by its container (`--restart-policy
Always`, `.github/workflows/deploy.yml:61`). Three kinds of threads share its objects: the main
loop, the Telegram bot, and background threads (scheduler, trade-update stream, training, timers,
senders, cache refresh).

| Component | State | Operations | Interacts with | What makes it correct |
|---|---|---|---|---|
| Main loop (`main.py`) | cycle counter, paused flag, its own broker and strategy | recovery, reaping, reconciliation, one cycle per tick, taking the bot's changes, daily reset, shutdown | calls every other component | it never ends by an exception; every position is looked after; changes reach it |
| Execution engine (`execution/engine.py`) | the trade being processed, the positions read at the start of the cycle | `run_cycle`, `_process_signal`, `_check_exits`, `emergency_liquidate` | risk engine, broker, trade manager, database, bus | no order without approval; books and broker agree in the end |
| Trade manager (`core/state_machine.py`) | trade id -> lifecycle, in memory | `create_trade`, `transition`, `reap_stale_trades`, `remove_terminal` | engine, reconciler, recovery, bot | only table transitions; finished trades stay finished |
| Reconciler (`core/reconciliation.py`) | report, cooldowns | `reconcile`, `auto_fix` | broker, trade manager | every position has a live lifecycle |
| Recovery (`core/recovery.py`) | none of its own | `recover` at startup and by `/recover` | broker, event store, trade manager, bus | lifecycles match the broker after a restart; replay harms nobody |
| Broker client (`broker/alpaca_client.py`) | a worker thread per call | orders with retries and timeouts, closes, queries | HTTP service | one logical order is one order; a call comes back |
| Trade-update stream (`broker/alpaca_client.py`, `main.py`) | runner thread, attempts, backoff, seen fills | connect, reconnect, publish, stop | exchange, bus | each fill once; it comes back; it ends |
| Risk (`risk/*`) | daily and weekly P&L, peak equity, halts, counters | `can_trade`, `evaluate`, `update_state`, resets | main loop, engine, bot | a halt holds until it is lifted on purpose |
| Runtime state (`core/runtime_state.py`) | pause, mode | pause, resume, health update | engine, bot | a pause stops trading |
| Event bus, store, snapshots, read models (`core/events.py`, `event_store.py`, `snapshots.py`, `projections.py`) | subscribers, log, views | publish, persist, snapshot, replay | all publishers | the log only grows, no event is lost between handlers, a snapshot fits the log |
| Environment manager (`core/environment.py`) | broker, mode, settings | switch paper/live with drain and rollback | main loop, bot, engine | the mode shown is the broker's; a switch happens whole or not at all |
| Telegram bot (`notifications/telegram_*.py`) | pending confirmations, `_runtime_changes` | trade, close, recover, pause, models, environment, configuration | all | commands do not corrupt the engine's trades, nor lose what they set |
| Notifications (`telegram_audit_forwarder.py`, `correlation_store.py`) | deadlines, intents, queue, late verdicts | correlate, warn, send with retry | bus, bot | each verdict once, no false warning |
| Strategies, orchestrator (`strategy/orchestrator.py`) | slots, last run | due slots, enable, disable | main loop, engine | each slot gets its turn; stock slots wait for the market and come back |
| Decision contracts (`intelligence/confidence/*`) | contracts, outcomes | evaluate, mark, record | engine | an executed contract had an order |
| ML lifecycle (`ml/*`) | registry file, lineage, pipelines, served model, the slot's model | train, judge, activate, roll back, swap | bot, main loop | the served model is one somebody chose; registry and predictor mean the same by a version |
| Configuration (`config/*`, `strategy/strategy_store.py`) | database, cache, settings, `.env`, `strategies.json` | seed, set, refresh, save | bot, main loop | what is set is stored, cached and used |
| Scheduler, calendars, data store, portfolio, monitoring, backtesting | tables | queries, jobs | main loop | calendar and numerical code |

Behaviours that are hard: the bot's thread acts on the broker and the trade manager between any two
steps of the engine (`telegram_bot.py:114` and `main.py:1106` create two different locks, so
`_broker_lock` does not separate them); lifecycles live in memory only, so a crash forgets them
while orders stay at the broker; an order call may time out, be retried, and take effect late or
twice; an error is sometimes an exception and sometimes a dict; positions are read once and used
many steps later; a configuration value is stored, cached and applied in steps of which each may
fail; events are handled in the publisher's thread, one handler after the other, and published once
more after a restart, and by `/recover` in the middle of a session. `hazards` in PROJECT.json lists
them by line.

## 2. Modules

| Module | Models | Correspondence |
|---|---|---|
| `TradeStates` | `TradeState`, `_TRANSITIONS`, `transition()` | constant level; `After(s, t)` is the state `transition(t)` leaves, legal or not |
| `ExecutionEngine` | main loop, engine, trade manager, reconciler, recovery, bot commands, broker fills, crash and restart | `life` is `TradeManager._trades`; `cur`, `snap`, `todo`, `exits`, `reply` are locals of `run_cycle` and `_check_exits`; `pos`, `placed`, `open` are the broker's; `op`, `opsnap` are the command's; `old` is the clock, seen by the reaper; `dryRun` is `ExecutionEngine.dry_run`, chosen at the first start; `approved` is history |
| `TradeBook` | what the process promises about one trade | abstract; `ExecutionEngine!BookSpec` is the refinement (`phase` from `life` and `request`, `orders` is `placed`) |
| `OrderClient` | `market_order`/`bracket_order`, `_retry`, `_is_retryable`, `_call` with its worker thread | one action per step of the wrapper; `accepted` holds the client order ids at the broker |
| `OrderService` | what the engine may assume of an order call | abstract; `OrderClient!ContractSpec` is the refinement; `PlaceOrder` and the three answers of `ExecutionEngine` are its actions, seen from the caller |
| `TradingGate` | `RiskManager`, `AccountRiskLayer`, the pause and mode of `RuntimeState`, with the main loop, `run_cycle`, the 09:30 job and the bot's commands as their users | `stats` is `daily_stats`, `account` the layer's fields, `job` the job's locals in `reset_daily`, `due` and `value` the pass's and the cycle's; `seen`, `begun`, `late`, `resumed` are history |
| `StrategyCycle` | a pass over the strategies: market clock, broker lock, the orchestrator's slots, the engine's cycle for each, the contract store | `pass` is the line the loop is at, `disabled` and `due` its locals; `enabled`, `wait` are the slots' fields; `slot`, `stage`, `signals` the cycle under way; `contract` the two tables; `sent`, `closed` are history |
| `Environment` | `EnvironmentManager`, `BrokerManager`, `/env`, `/setmode`, `/loadconfig`, and the loop and shutdown that use their broker | `cur`, `mode` are the managers', `setting` is `settings.trading_mode`, which `.env` gives and `--live` does not touch; `sw` the locals of `switch_environment`; `loop` the main loop with `broker`, its own reference; `held`, `open`, `closing` are the accounts at the exchange |
| `TradeStream` | `start_trade_stream`, its runner, `stop_trade_stream`, the handler in `main.py` | `runner` is the thread with `reconnect_attempts` and `backoff`; `stream`, `flag` the client's fields; `seen` is `_seen_fill_events` |
| `EventLog` | publishing on the blocking bus, the handlers in their order, the store, the read models, snapshots, restart, and replay at the start and by `/recover` | `at` is where each publishing thread (main, stream, bot) is in the list of handlers, and for which recovery; `recovering`, `todo` the calls of `recover()` under way; `rows` the table; `view` what the projections were given, an event with the recovery that published it; `snap` main's locals; `samples`, `journal` the learning loop's and the journal's files |
| `EventLedger` | what the event store promises | abstract; `EventLog!LedgerSpec` is the refinement (`ledger` is `rows`) |
| `Delivery` | `TelegramAuditForwarder` over `SqliteCorrelationStore`, recovery's replay into it, at the start and by `/recover` | `pub` is the forwarder in each publishing thread (main, bot), `todo` what that thread still replays; `timer`, `queue`, `sender` its own threads; `signals`, `deadlines`, `sent`, `late`, `dead` the tables; `rows` the event store; `chat` what arrived |
| `RuntimeConfig` | the configuration commands as sequences of steps, the service (or none) and its cache, the refresh thread, seeding, `.env`, `strategies.json`, the loop that takes the changes | `db`, `env`, `bookFile` are durable; `bot` the steps the command still has to do, `reader` what the refresh read; `flags` is `_runtime_changes`; `Reads(symbols)` the parameters `create_strategy` reads; `built`, `slots` what the loop's own strategy and the orchestrator's were made with |
| `ModelLifecycle` | training pipelines, `ModelRegistry`, `ModelGovernance`, `Predictor` and its watcher, `/train`, `/rollback`, `/modelswap`, the loop's reload, redeployments | `reg`, `files`, `latest`, `lineage` are the files; `runs` the pipelines; `writing` a rollback between its two writes; `swaps` the versions `swap_model` is about to load; `served` the predictor's version and model; `slot` the model of the slot that is traded with, `strategy` that of the loop's own strategy |
| `MCExecutionEngine`, `MCTradingGate` | | model values, and figures for the runs |
| `*_proofs` | | inductive invariants and theorems of the module they are named after; `BrokerClient_proofs` of `OrderClient` and `TradeStream`, the two halves of `AlpacaClient`; `RuntimeManager_proofs` of `Environment` and `ModelLifecycle`, what `RuntimeManager` switches |

The other modules take plain sets and numbers for their constants, so that a configuration
instantiates them directly.

The step size: everything a thread does between two calls to the outside (broker, database,
another thread's view of shared state) is one action. A trade's orders come from one call, so
`PlaceOrder` may happen up to `MaxOrders` times while the engine is at `submit`, and only there:
that is what `OrderClient` is checked for. `AccountUnavailable`, `OrderRefused`, `OrderRaised`,
`CloseRaises`, `ReconcileFails`, `RestartBlind` are the error paths; `Crash` may come between any
two steps.

How the modules meet. `ExecutionEngine` leaves open whether trading is allowed and whether risk
approves; `TradingGate` says when, and has of a trade only that an entry follows an approval and
that exits are recorded. `StrategyCycle` has the pass around both: of a trade it knows whether an
order was sent. `EventLog` and `Delivery` take the same replay of `RecoveryManager` apart for
different subscribers; `TradeStream` publishes what `EventLog` calls a delivery; `Environment` and
`OrderClient` meet at a broker call, which returns. They are not composed: what they share is in
each of them, and each allows of the others everything they may do.

One difference matters. `ExecutionEngine` is the engine with a decision orchestrator that
returns, or with none: with it, an order may be placed and its trade has a life. `main.py` wires
the real `DecisionOrchestrator`, whose call raises on its first signal (`engine.py:562` passes a
field its dataclass lacks). `StrategyCycle` has that as `Answers = {FALSE}`, and the run
`cycle_decided` shows it; `Answers = {TRUE, FALSE}` is a repaired one, which is what the other
runs are about.

What each module simplifies, always towards more behaviours unless stated:

- `ExecutionEngine`: which gate drops a signal, whether risk rejects, whether trading is allowed,
  and which of several live trades of a symbol is met first are free choices; quantities are one
  unit; `emergency_liquidate` has no caller outside the tests and is an action all the same.
- `TradingGate`: a method of the three objects is one step, except `reset_daily`, which reads the
  week's result, builds a new `DailyStats` and assigns it with no lock, so a trade or a halt in
  between is lost, as in the code. A restart forgets all three objects.
- `StrategyCycle`: the contract store does not fail (fewer behaviours); a step of time passes between
  two passes; weights do nothing, as they only scale sizes; a bounded number of contracts
  (`MaxContracts`) stands for any, as each is written once.
- `Environment`: mode and broker start as `--live` says, the settings' mode as `.env` does, which may
  be another. The factory is a parameter of the manager and may return a broker of the wrong kind,
  as the tests let it; the wait of the drain ends with or without the fills; a confirmation
  button stays valid, as in the chat.
- `TradeStream`: time passes in `Wake`; which half of the full set is kept is a free choice, as a
  Python set has no order.
- `EventLog`: a read model is what it was given; the audit log and the forwarder, two more wildcard
  handlers, change nothing there. No handler fails that could do its work once
  `MaxFailures` events were lost to the store, the journal or the learning loop; a close without its
  context always fails to be learned from. The PositionRecovered events of a recovery are part of its
  report. A stored event that cannot be reconstructed (`recovery.py:185`) is not skipped here (fewer
  behaviours); where the program's store is
  in PostgreSQL, `/recover` reads an SQLite file of its own and finds nothing, which is the choice
  `<< >>` in `BeginRecovery`.
- `Delivery`: only the three events the forwarder acts on; time in ticks of the verdict's timeout;
  the monotonic clock that is stored durably is taken as if it went on over restarts. A recovery
  takes any number of the newest rows, the others of the thousand being of other kinds.
- `RuntimeConfig`: a value is the number of the command that set it. The failure of a step skips it
  or ends the command as in the code, a commit that raises afterwards included; where there is no
  service, a command assigns its setting and stores nothing. The parameters of `/set` are three, one
  for each class: read for any symbols, read only without crypto symbols, never read. The commands
  that store nothing (`/set` and those like it) begin with the assignment. Left out, so fewer
  behaviours: `/setstrategy` and the other changes of a name, a list or an interval, which are
  assigned in the loop; the parameters nobody is told of.
- `ModelLifecycle`: models are numbered as they are registered; whether metrics pass the gates is a
  free choice made once for each model. `/train` dumps `latest_model.joblib` before it takes the
  registry's lock: if the registration succeeds the dump, which nobody needs to have read, is part
  of it. A version number is that of the list's length, so properties about numbers
  (`PredictorFollows`) say nothing of which of two models with one number is meant;
  `ModelLifecycle_active` does. Left out, so fewer behaviours: a redeployment that loses every
  versioned file but keeps `latest_model.joblib`, a pause of the loop, `delete_version`, which has no
  caller, and A/B tests.

Operators marked `(mutant)` are plausible bugs that show the properties can fail; properties
marked `(refuted)` are what the code, its comments or an operator would expect and the model
shows not to hold (section 5). Neither is part of a specification.

## 3. Runs

| Run | Bounds | States | Shows |
|---|---|---|---|
| `engine_live` | two trades, one symbol, long and short, stream, one crash | 329,000 | orders need an approval; `TradeBook` is implemented; under fairness every position is in the end closed or carried by an ACTIVE trade |
| `engine_operator` | one trade, two orders a call, simulator and stream, a dry run or not, operator's commands, one crash | 2,037,000 | commands do not move the trade in the pipeline, do not make a position of an unordered trade, write none off |
| `order_client` | three retries, with and without a caller's id | 284 | the call implements `OrderService`, is idempotent when keyed, comes back |
| `gate` | equities 10 and 7, daily limits 5% and 40%, two strategies a pass, one exit between resets | 2,968,160 | after a pause at most the strategies of the pass under way begin a cycle, after a halt at most one; no entry below the drawdown limit |
| `ml_lifecycle` | three models, two pipelines, one command, one redeployment | 472,000 | the slot, the loop's strategy, `latest_model.joblib` and the predictor have only models that were activated, trained by hand or named by the operator; a reported version is the model the registry means; parallel pipelines number apart; the predictor follows |
| `environment` | two symbols, one a stock, two switches, one order of the engine, any `/setmode` and `/loadconfig` | 1,577,000 | the manager's mode is the broker's kind; a broker is left drained except for what is excused; a switch ends with all three of its target, or with the broker, mode and settings it began with; it ends |
| `event_log` | one trade, one fill, one restart, one `/recover`, a replay of two, one failure | 2,165,000 | the store is a ledger; snapshots fit the log; the read models are the session, and what `/recover` published; what is stored was learned from, once and once more for each recovery; nothing published vanishes |
| `trade_stream` | three fills, a set of two, four attempts, five updates | 14,000 | a fill is published once for each time it was forgotten; the stream returns; a stop ends it |
| `delivery` | one signal, a queue of one, two attempts, one restart, one `/recover` | 1,438,000 | a verdict goes to the sender once; no false warning but after a replay; each signal is answered, or is lost in a named way |
| `config` | two commands, two crashes, one own strategy, stocks, crypto or both, with and without a service | 376,000 | the cache is the store; with a service, a setting that was changed is stored; the loop's strategy follows in the parameters it reads |
| `strategy_cycle` | three slots, one of stocks only, two signals, all faults, two contracts, one crash | 178,000 | slots come back and take turns; stocks wait for the market; the trail is true |
| `cycle_decided` | as `strategy_cycle`, with the decision orchestrator of `main.py` and no other fault | violation | a cycle ends with signals undecided, against `README.md:887` |

Why the bounds are enough. Engine: the actions touch one trade, one symbol, or all alike; two trades
show what one does to another (in the queue, in the reaper, of the same symbol), two orders a call
show duplicates. One crash reaches every cut of the pipeline and the recovery after it; `MaxCrashes`
also counts orderly shutdowns. `MaxHeld` bounds only what the operator buys by hand. `SweepPeriod =
2` (5 in the code) has cycles with and without a sweep. `Engine_crash.cfg` (two trades with two
orders a call, one crash, 1.6 million states) is a larger instance kept beside the runs; it passes.
Gate: seven against ten is beyond every limit but the 40% that `/setrisk` may set, so each limit is
met and not met; two strategies make "those due" more than one; only `MaxTrades` and `MaxLoss` cut
behaviour. Models: two pipelines overlap in every order, a third model is registered by `/train`
beside them or by a pipeline between the two halves of a refused swap, and a redeployment may lose
any set of files. Environment: the second switch begins from whatever the first left, failed or not,
and whatever the settings were set to. Events: an opened, filled and closed trade gives every kind
of event; more events than `ReplayLimit` are stored by the restart, and more again when `/recover`
publishes them while main and the stream publish others. Stream: a set of two of three fills is
halved; four failures are the one too many, and a backoff of 4 has its cap. Delivery: the life of a
signal does not depend on others but by the queue, which one message fills; `Timeout`, `SignalTTL`
and `DedupTTL` keep their order, and each expires; the restart's replay and that of `/recover` meet
every stage of it. Configuration: the longest scripts overlap with a refresh and with the loop, a
crash may come into the seeding and into a command, and the second command begins from whatever the
first left. Slots: stock slots, crypto slots, and two of one kind. The operator's commands are in
`engine_operator` only, and there the simulator is on; that `TradeBook` is implemented beside them,
and that they leave the pipeline alone where fills are deferred and there is no simulator, no run
says: the theorems do.

Deadlock. In the engine, gate, client and cycle modules nothing can stop and the check is on. The
others end properly when a bound is used up: nobody has to trade, to train, to switch or to type
another command, a stopped program stays stopped. They say `CHECK_DEADLOCK FALSE`, and what must
go on is a liveness property.

Fairness, never of fills, of the operator, of failures or of strategies:

- `engine_live`: the process is restarted and its loop runs (the container's restart policy; each
  loop step is one call that returns, see `CallsReturn`); the broker answers the reconciliation
  again and again, though it may fail any number of times (`SF(Reconcile)`, the loop repeats it
  every five cycles); a trade that stays in flight becomes old; a cooldown ends.
- `order_client`: the client's own progress and a broker, or an HTTP stack, that ends every
  request; without the latter the call does wait for ever, because leaving `_call`'s executor block
  waits for the worker even after the timeout.
- `ml_lifecycle`: the loop's reads, rebuilds and scheduled trainings, the watcher, and who has made
  the first of two writes, or of the two halves of a swap, goes on to the second; pipelines need not
  finish.
- `environment`: the thread of the switch and the loop's go on, as every call of a broker is
  retried a bounded number of times.
- `event_log`: a thread that publishes or recovers goes on, a restart follows a crash, and a snapshot
  that was begun ends.
- `trade_stream`: the runner's and main's own steps; the library's `run()` need neither end nor fail.
- `delivery`: each publishing thread, the timer's and the sender's, time, and a restart; that a
  verdict follows a signal is not assumed, which is why a warning is promised.
- `config`: bot, refresh, loop and boot go on.
- `strategy_cycle`: the loop goes on and time passes; a lock that is free again and again is got
  (`SF(Acquire)`: `acquire` waits, and a job holds it for a while only). `SlotsTakeTurns` takes the
  rest as its premise: for that slot a pass again and again finds the lock free and the market open.

## 4. Proofs

Each proof module starts from the named assumptions on the constants of its component. All hold
for any finite or infinite sets and any bounds those assumptions allow.

`ExecutionEngine_proofs`:

| Theorem | Says |
|---|---|
| `TypeCorrect` | `TypeOK` is invariant |
| `OnlyApprovedOrders` | `OrdersAreApproved` |
| `NoPhantomPositions` | `PositionTradesHaveOrders` |
| `NobodyElseMovesIt` | `PipelineOwnsTrade` |
| `PositionsDoNotFail` | `ErrorsAreNotPositions` |
| `ImplementsTradeBook` | every behaviour of the process is one of `TradeBook` |

None of these properties is inductive. `IInv` conjoins them with `TypeInv` (open orders were
placed), `UnusedIsUnknown` (an id not yet drawn is in no book and has no order), `CurIsCreated`
(the trade being processed was drawn, and is not stale), `SubmittedIsApproved` (what is being
submitted was approved, outside a dry run), and `StaleIsInFlight` (what the reaper may take is no
position). `PipelineOwnsTrade` is at the same time the property and the core of the induction: an
order is placed at `submit` only, there the trade is SUBMITTED, so it was approved, and what any
other thread does to a SUBMITTED trade is refused by the transition table. The proof takes the
actions in three groups: those that leave the books alone, those of the pipeline (`PipelineSteps`,
one trade moves along the table), and those that sweep over all trades (`RecoveredIs`,
`RemovedIs`, `OutsideActions`). `CloseOutIs`, `AfterClosedIs` and `AfterErrorIs` say once what a
refused transition leaves behind; they are where "closing out a trade that is not ACTIVE does
nothing" enters. The refinement uses `IInv` and the same groups: `BookMoves` for the steps that
place no order, `Order(t)` for `PlaceOrder`.

`BrokerClient_proofs`, on the order call, for any number of retries: `TypeCorrect`,
`KeyedCallsAreIdempotent` (`KeyedCallsPlaceOnce`) and `ImplementsOrderService` (`ContractSpec`). The
invariant ties worker, answer and caller together (a request is out exactly while the caller waits,
which is what leaving `_call`'s executor block amounts to), and its core is `OnePerAttempt`: there
are at most as many orders as attempts. With a caller's id all attempts use one key, which the
broker accepts once; without one the bound is the retries, which is what the contract allows. On the
stream, for any fills and any size of the set: `FillsArePublishedOnce` (`FillsApart`), from counting
publications against the set and what it forgot; `KeptIsSeen` is what the halving of the set leaves.
And `StreamStaysInBounds` (`StreamTypeOK`): the set, the reconnection attempts and the pause stay
within their limits (`StreamCounts`), if the set may have at least two fills (`KeptIsBounded`): half
of one is none, so a limit of one would not be kept; the code's is 10000.

`TradingGate_proofs`, for any equities, limits and number of strategies: `TypeCorrect`,
`PauseStops` (`PauseHonoured`), `HaltStops` (`HaltHonoured`), `DrawdownBlocksEntries`
(`NoEntryBelowDrawdown`). `PauseInv` counts, at each point of the loop, what a pass may still
begin; `HaltInv` adds that a cycle waiting for its market data passed its check before the halt;
`PeakInv` that the layer's peak is at least the highest equity fed, so that `FellMonotone` (a
higher peak is a deeper fall, for a limit of at most 100%) carries `evaluate()`'s verdict over to
the history. `JobInv` and `ValueInv` make the types inductive.

`StrategyCycle_proofs`, for any number of slots and any faults: `NoSlotIsLost` (`SlotsComeBack`)
and `StocksWait` (`StocksWaitForTheMarket`) from `SlotInv`: a slot is disabled only between the
market's check and the end of the pass, and then it is one the pass remembers; slots are due only
while the pass runs; a pass that found the market closed has every stock slot disabled.
`TheTrailIsTrue` (`TrailIsTrue`) from `TrailInv`: the contract a cycle is about to mark had its
order accepted, and an outcome is only written to one that had not. `TypeCorrect` adds that a cycle
with a contract at hand still has the signal it is about (`BusyInv`).

`Delivery_proofs`, for any signals, times, restarts and `/recover` commands: `IntentsGoOnce`
(`IntentOnce`) and `NoWarningIsFalse` (`NoFalseWarning`). The check of the durable key and its mark
are two steps, and two threads may hand over the same signal, so the core is that they never both
have its verdict while it is not marked (`Exclusive`). `ReplayInv` says that what a thread publishes
again is stored; `OwnInv` that a verdict still owed is nowhere yet, and that main's, while the program
trades, is neither stored nor waiting for its signal, so that the bot's thread cannot have it.
`KeyInv` counts a verdict that is past the check but not yet in the queue together with its durable
key, and `MarkInv` that such a one is no duplicate; `DoneInv`, `AgainInv` and `DeadlineInv` say that a
signal this process is done with has no deadline, and that none of the forwarder's steps still to
come will arm one, unless recovery published the signal again. `TypeCorrect`, for finitely many
signals, has the bounds: of the queue and the attempts (`MailInv`), and of the event store, which has
the signal and one verdict of each however often it is published again. `RowsInv` is why: what is
stored of a signal is never both an evaluation and a rejection; `RowsAreFew` counts.

`RuntimeConfig_proofs`, for any number of commands and crashes: `CacheHasTheStore`
(`CacheFollowsStore`), `WhatIsSetIsStored` (`SettingsArePersisted`), `ChangesAreAnnounced`
(`StrategyFollowsSettings`). Two exceptions belong to what the code does and are in the properties:
without a service nothing is stored, and a commit that was made and then raised leaves a row that
neither the setting (`unsaid`) nor, until a refresh, the cache (`behind`) follows. The invariant is
about the steps a command still has to do: `ProgramInv` says that they are the end of a whole script,
in which storing a key is followed by caching it and caching by applying it (`Chained`, and
`ScriptsAreWhole` for each command); `CacheInv` that the refresh thread, while it holds the lock, read
what the store has but for the row being written; `HereInv` that a setting and its row differ only
midway; `TellInv` that between a change and the loop's rebuild there is always a flag raised, taken,
or about to be raised, and that a rebuild gives the loop's strategy each parameter it reads.
`PlanIsStoredFirst` (`PlanBeforeActive`) is about the two commits of `/applystrats`: by `StoredInv` a
command that is still to store "multi" is still to store its plan before (`PlanFirst`) or has stored
it, and rows are never older than what a command is still to store. It also bounds the versions,
which `TypeCorrect` needs; `SettingsInv` has the rest of the types.

`EventLog_proofs`, for any trades, deliveries, failures, restarts and `/recover` commands:
`StoreIsALedger` (`LedgerSpec`, the refinement), `ViewIsTheSession` (`ViewFollowsSession`),
`SnapshotsResume` (`SnapshotResumes`). `SessionInv` says that what is stored or published was made, and
in which session; `FlightInv` where a publication can be; `PhaseInv` who recovers when, and that before
the read models are attached the session has nothing but the start's report; `ViewInv` that what the
read models were given, together with what is on its way to them, is the session and what `/recover`
published (`again`); `SnapInv` what a snapshot being taken shows, mentions or counts.

`LearnedOnce` (`LearnedOncePerRun`) rests on a second invariant, `LInv`, inductive only together with
the first: `CloseInv` (a trade is closed once), `OrderInv` (rows and the events a recovery still has to
publish are distinct, an event at hand is not among the latter, and what is published anew is not
stored yet and no other thread's), `OnceInv` (a close was learned from and written down at most once,
and once more for each recovery since it was made, and one time less while it still waits, which is
what pays for the next time) and `DoneInv` (what is past a handler has been through it, or that
failed). Both together give `FreshInv`, that what is on its way to the read models, or still to be
published again, they have not been given: an event that is counted twice was published by a
recovery in between. `TypeCorrect`, for finitely many trades, bounds the events there can be: by
`BirthInv` a trade is opened and closed once and a recovery reports once, so that the events that are
no fills map one to one into trades and recoveries (`EventsAreFew`); `BoundInv` has the rest of the
types, among them that a trade has no more samples or lines than there were recoveries.

`RuntimeManager_proofs`, on the environment, for any symbols, orders and switches:
`EnvironmentTypes`, `ManagersAgree` (`ModesAgree`), `SwitchDrains` (`DrainedUnlessRefused`),
`SwitchesAreWhole` (`SwitchIsAllOrNothing`, an action property) and `ShutdownLeavesForAReason`
(`OrdersLeftOnlyAfterSwitch`). None is inductive: a rollback is right only if the locals of the call
still say what was true when it began. `SwitchKnowsTheWayBack` says so: the old mode is that of the
old broker's kind, until the swap the manager still has that broker, and while the switch is verified
mode and settings are the target's.
The settings' mode needs no agreement at the start, which the code does not give: it goes back to
what the call found. `DrainSoFar` follows the listing: a position of the broker is still to be closed,
or closing, or excused, unless a close failed. `BrokersInOrder` (the brokers made are the first ones)
makes the next broker defined and shows that making one changes no other, which `OrdersLeft` needs for
the kinds it compares.

On the models, for any number of models, runs, commands and redeployments: `ModelTypes`,
`OneVersionIsActive`, `ServedWasChosen` (`OnlyChosenModelsServe`), `PredictorAgreesWithRegistry`
(`PredictorMeansTheRegistry`) and `PipelinesNumberApart` (`RunsNumberedApart`). `RegistryInv` says that
the registry and the disk have only models that were trained, and that what is active was activated;
`RunsInv` that a run has no later version than the length of the registry, so that the next number is
a new one among the runs; `ServingInv` that what serves, or waits to in `latest_model.joblib`, was
activated, trained by hand, named in a rollback or a swap, or is what the registry finds under the
version of such a model (`Vouched`). The core is `RegistryGoesOn`, which holds of every step but a
redeployment: no entry goes, and what is found under such a version stays, because a new entry is
newer than all and the search takes the oldest. `SavedGoesOn`, `ActivatedGoesOn` and `LeftGoesOn` prove
it for the three ways a step treats registry.json; `RedeployKeeps` has the losses and repairs, in
which the runs forget their versions with the process. `OldestIs` and `NewestIs` (least and greatest
elements of a set of models) come from the well-foundedness of `<`.

That whatever serves was activated does not hold, and the attempts to prove it showed why
(`OnlyActivatedModelsServe`, section 5): `/train` may activate a new model under a number that, after
files were lost, still belongs to a model that was never activated, and the predictor loads by number
and finds the older; a rollback copies the file before it saves the registry, which may fail; and
`swap_model` swaps the predictor after a rollback that was refused. What the code does guarantee is
that nothing serves which no activation, no training by hand and no command asked for.

Only model-checked: liveness (`HeldPositionIsEventuallyTracked`, `CallsReturn`, `PredictorFollows`,
`SwitchReturns`, `NothingVanishes`, `StreamReturns`, `StopEnds`, `SignalAnswered`,
`ChangesReachTheLoop`, `SlotsTakeTurns`), which is out of the prover's reach together with ENABLED.
Every safety property of a passing run is a theorem, and so is the type invariant of every module
that has one of its own.

## 5. What the code does otherwise than it says

One disagreement is a run of its own, `cycle_decided` (`findings` in PROJECT.json): the README
promises a decision contract for every signal (`README.md:887`), and as wired no signal gets one.

The others are kept as configurations beside the runs. TLC refutes the property of each, which its
module marks as `(refuted)` or states after what a document or comment says. Where the table says
"with", that property is put in the place of the configuration's own:

| Configuration | Refutes | Because |
|---|---|---|
| `Engine_intent` | an order goes out after its intent record | `engine.py:895` builds the record from fields the table lacks; the error is only logged |
| `Engine_reap` | a sweep takes every stale trade | `state_machine.py:311` raises in its own log line after the first |
| `Engine_liquidate` | a booked liquidation was accepted | `engine.py:1332` ignores an error dict |
| `Engine_cap` | positions stay within the cap | `portfolio_risk.py:122` counts the positions of the cycle's start, without pending orders |
| `Gate_resume` | `/resume` lifts a halt | `manager.py:128` judges the equity of before the halt again |
| `OrderClient_duplicate` | a call places one order | `alpaca_client.py:366` draws a new id at each attempt |
| `ModelLifecycle_judged` | what a pipeline deploys passed the gates | `model_registry.py:79` numbers by count, so after a loss governance finds another model's record |
| `ModelLifecycle_active` | the version reported as active is served by the active model | numbers are given out twice (`model_registry.py:79`): the newer model is activated, the predictor loads the older one (`_find_entry` takes the first), even one that nobody activated |
| `ModelLifecycle_active`, with `OnlyActivatedModelsServe` | only a model that is or was active is served | `swap_model` ignores a refused rollback and tells the predictor all the same (`runtime.py:381`, `:383`), when a pipeline may have registered the version; a rollback copies (`model_registry.py:278`) before it saves (`:283`) |
| `ModelLifecycle_traded` | after `/rollback` the model "will be loaded on next trading cycle" (`telegram_bot.py:2178`) | the loop rebuilds its own strategy; the slot that is traded with was built at the start (`main.py:1675`, `:1690`) |
| `Environment_exit` | a shutdown cancels pending orders | after a switch the engine keeps the broker it was built with (`main.py:1613` sets an attribute it does not read), and the shutdown asks the other one |
| `Environment_exit`, with `SettingsNameTheBroker` | settings and broker are of one mode | `main.py:1911`-`1947` takes the broker's from `--live`, the settings have `.env`'s; `/setmode` and `/loadconfig` change them and switch no broker (`telegram_config_commands.py:410`, `:490`) |
| `EventLog_samples` | one learning sample for a trade | a replay learns again and adds a row, though the docstring says "Upsert" (`feedback_loop.py:199`) |
| `EventLog_samples`, with `CountedOnce` | the read models count an event once | `/recover` publishes the stored events on the live bus, and no projection looks at an event's id (`projections.py:99`) |
| `TradeStream_backoff` | the backoff starts anew after an update | `alpaca_client.py:923` resets it only after a clean end |
| `TradeStream_latest` | the fill just seen is kept | `main.py:1053` keeps any half of a set |
| `Delivery_alarm` | no warning after a verdict | a replayed verdict returns before it cancels the deadline (`telegram_audit_forwarder.py:492`), and the verdict is queued before the cancel (`:504`) |
| `Delivery_once` | a marked verdict arrives or is a dead letter | it is marked first (`:496`), and lost with the queue at a crash |
| `RuntimeConfig_stored` | a start takes up the stored settings | nothing reads them into `settings` at startup, though "user changes persist" (`initializer.py:36`) |
| `RuntimeConfig_saved` | saved credentials can be started with | `/saveconfig` writes secrets redacted |
| `RuntimeConfig_credentials` | key and secret are of one command | `/setalpaca` stores them one after the other, and goes on after a failure |
| `RuntimeConfig_book` | strategies survive a crash | `strategy_store.py:196` truncates the file before it writes |
| `RuntimeConfig_ends` | no command ends the program | `/applystrats` makes the loop build a strategy called "multi" (`main.py:1551`), which raises |
| `RuntimeConfig_traded` | what is set is traded with | the orchestrator's slots are built once; the loop rebuilds only its own strategy |
| `RuntimeConfig_traded`, with `EveryParameterFollows` | a parameter that was set "takes effect next cycle" (`telegram_bot.py:1167`) | `create_strategy` does not read those of mean reversion, nor, with any crypto symbol, most of momentum's (`main.py:125`-`141`) |

The passing properties hold in spite of all these, which are in the model. More was met that no
property is about: `_call`'s timeout does not end the wait; an exit of a trade that is only ACCEPTED
is published while its lifecycle stays; `/recover` adds a second live lifecycle to a position an
engine trade carries; two requests close together start two pipelines (`training_pipeline.py:192`);
after `/env paper` the broker lacks `stop_trade_stream`, so `main.py:1770` raises in the shutdown
and the stores are not closed; a stop between the runner's check and its `run()` is not heard
(`deaf`); what the recovery of a start reports is stored but never shown; a command whose commit
raised says it failed, and its row is there; with `/setmode` the settings say "live" over a paper
broker; a crash while seeding leaves the database half seeded for good, as the next start only looks
whether there is any row (`initializer.py:67`); a contract the risk engine rejects stays pending.

## 6. Not modelled

`components` in PROJECT.json gives the reason for each part. In short:

- Numbers. Indicators, features, labels, training and inference, calibration, confidence, regimes,
  allocation, exposure and portfolio arithmetic, simulators' fills, back-tests: what other parts
  see of them is a verdict, and that is a free choice in the models. They are by far the largest
  share of the package.
- Words. Menus, reports, formatters, dashboards and metrics, of the bot and of the command line.
- Calendars and the scheduler's graph of activities: their effect, that a cycle or a job runs, is a
  free choice.
- Code no step of the program reaches: both circuit breakers, `TrainingLock`, `ModelRollbackMonitor`
  (constructed, never given its models), `PersistentBus`, `RedisBus` and the non-blocking bus,
  `IdempotentNotifier`, recovery from snapshots, `ConfigurationLock.engage`, the configuration's
  snapshots and events, the layered configuration, `swap_broker`, `switch_operational_mode`,
  `force_mode`. A model of them would be of a caller that does not exist.
- A/B tests and `/replay`, which choose what a prediction or a report is made from; the migrations,
  scripts and tests.

This is why the map covers a small share of the lines: the control of the program is in it, and
what is left is data, or is not run.

## 7. Plan

Done: `ExecutionEngine` with `TradeBook`, `OrderClient` with `OrderService`, `TradingGate`,
`StrategyCycle`, `Environment`, `EventLog` with `EventLedger`, `TradeStream`, `Delivery`,
`RuntimeConfig`, `ModelLifecycle`; proofs of every safety property the passing runs check.

Left, in this order:

1. An abstract specification of a switch of environment, and one of the model registry, with their
   refinements proved.
2. `StrategyCycle` and `ExecutionEngine` composed, so that a contract's outcome is that of a trade.
3. The breakers, the training lock and the durable buses, once the program constructs them: trips
   and recovery with a manual trip in between, a lock read and then set, an event delivered that
   was not persisted.
4. A/B tests as a fourth user of the predictor.
