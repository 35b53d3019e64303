# A TLA+ development of Market Edge

Market Edge is a paper-trading research system. A Node loop scans markets and
feeds a Python execution service with signals and prices; the service opens and
manages simulated trades and records everything in SQLite; a desktop application
supervises both. A Cloudflare worker keeps accounts, allowances, journals, research
archives and models for a customer front end and for scheduled research jobs. No
order reaches an exchange. What has to be right is the *record*: that the trade
table, the canonical portfolio and the order log tell one story, that what the cloud
keeps is what happened, and that research is judged by the past only, through
concurrent requests, late answers, restarts and failures.

This directory models the parts of the system that keep that record, checks the
models with TLC on small instances, and proves the safety properties with TLAPS for
all values of the parameters.

Paths below are relative to `src/`; `EX` stands for
`execution-service/market_edge_exec`.

1. Inventory; 2. Modules; 3. Runs; 4. Proofs; 5. What is not modelled;
6. Findings; 7. Plan.

## 1. Inventory

### 1.1 Execution service (`EX`, Python, FastAPI, SQLite)

FastAPI runs synchronous endpoints in a thread pool, so handlers interleave
between any two database commits. SQLite runs in autocommit/WAL mode under one
process-wide connection lock: a statement is atomic, a handler is not.

| part | state | operations | correct when |
|---|---|---|---|
| `paper/engine.py` | two in-process locks (`_entry_lock`, `_lifecycle_lock`) | `open_from_signal`, `mark`, `tick`, `reconcile_ledger` | no two live trades on an instrument; limits hold under racing entries; each exit is taken once; a trade never goes back |
| `paper/lifecycle.py` | none (pure) | `advance` (candles), `evaluate_tick` (one price) | batches and restarts do not change a trade; tick and candle agree; stop before target; deadline closes |
| `paper/ledger.py` | tables `paper_trades`, `paper_trade_events` | `open_trade`, `apply_exit`, `save`, queries, `totals` | each event at most once; remaining quantity never grows |
| `routing/router.py` | `killed` flag | `route`, `kill` | no intent is filled twice; halt blocks new entries and never exits |
| `persistence/store.py` | intents, orders, fills, positions, halts, audit | `record_intent`, `upsert_order`, `record_fill`, `set_halt`, `clear_halts` | a halt survives restarts |
| `nautilus/portfolio.py` | `_positions`, mirrored in `positions` | `apply_fill`, `open_positions`, restore | equals the ledger plus fills in flight |
| `risk/engine.py`, `risk/sizing_v2.py`, `risk/drawdown_recovery.py` | none (pure on account state) | `approve`, sizing, drawdown pause | an entry keeps under the exposure ceiling it was approved on and under the position limit |
| `reconciliation/`, `api/app.py` (`_reconcile`, `/kill`, `/control/*`) | heartbeat, monitor status | reconcile, kill, clear-halt, pause, resume | a divergence halts; a halt is cleared only after a clean reconciliation |
| `control/settings.py` | settings row with pause and its owner | `set_entries_paused`, `update_settings` | an operator's pause is lifted by the operator only; values in bounds |
| `signal_bridge/bridge.py` | none | validation of incoming signals | stale and malformed signals are refused |
| `shadow/`, `exits/`, `orchestrator/`, `lifecycle/policy.py`, `shadow_models/` | append-only research tables; policy status | capture, resolve, evaluate, promote | research never changes an execution; a policy only moves along its stages |
| `evaluation/`, `analysis/`, `quality/`, `training/`, `evidence/`, `export/`, `replay/`, `datasets/`, `monitoring/`, `experiments/`, `dashboard/` | reports | read-only statistics | (numeric) |
| `hummingbot/`, `hummingbot-service/` | remote bot | optional backend, off by default | (external) |

### 1.2 Signal bridge (`signal-bridge/`, Node)

One process, one event loop; interleaving happens at every `await`.

| part | state | operations | correct when |
|---|---|---|---|
| `rate_limit.mjs` | window of spent weights, cool-down, queue with priorities, in-flight calls by key | `fetch`, `schedule`, `pump`, `note429` | never above the budget; exits are not starved by research; no waiting request is slept through |
| `position_monitor.mjs` (`HyperliquidTradeStream`) | socket, reconnect timer, subscriptions | `setCoins`, `connect`, `onopen`/`onclose`, ping | one live socket, a timer or a socket while a position is held, only the prints of held coins |
| `position_monitor.mjs` (monitor) | open trades, beat timer, one forward per crossing | `wake`, `beat`, `onTrade`, `forward`, `stop` | every crossing of a stop reaches `/paper/tick`; the monitor is never left without a timer |
| `forward_loop.mjs` | cycle counter, stop request | `runCycle`, `advanceOpenTrades`, `runLoop` | exits are processed before new entries; the monitor is woken after a cycle; a stop ends it |
| `fetch_signal.mjs`, `shadow_capture.mjs`, `research_universe.mjs` | cycle number | selection, capture, rotation | one plan at most is sent and it is the best; what is recorded is what was seen; every research asset has its turn |

### 1.3 Desktop (`desktop/`, Rust/Tauri and React)

| part | state | operations | correct when |
|---|---|---|---|
| `supervisor.rs` | process table, restart budgets, market status, the pause it owns | `tick`, crash handlers, `recover_after_restart`, `probe_market` | restarts are bounded; entries open only after a clean reconciliation; an operator's pause is never lifted |
| `process.rs` | child processes, pid files | start, stop, adopt | one service per database |
| `backup.rs` | backup directory | backup, verify, restore, prune | a failed restore leaves the database as it was |
| `config.rs`, `secrets.rs`, `logs.rs`, `lib.rs` | files | configuration, key storage, redaction, commands | |
| `desktop/src` | React state | screens over the HTTP API | |

### 1.4 Cloud (`backend/`, `supabase/migrations`, `customer-beta/`)

The worker runs many requests at once; every database call is an `await` whose answer
can be lost. Some operations are one SQL function behind an advisory lock, most are a
read and a later write.

| part | state | operations | correct when |
|---|---|---|---|
| scan allowance (`worker.mjs`, `account-core.mjs`, SQL) | `scan_usage` | reserve, finalize, release, sweep | at most the cap is charged a day; what was delivered was charged |
| journal (`account-core.mjs`) | `scan_recommendations`, `user_trades` | take, close | one trade per recommendation; a closed trade keeps its exit |
| rank archive (`worker.mjs`) | scans, candidates, sequences | store, recover, outcomes, sequences | frozen before its outcomes; ranks 1, 2, ...; a resolved label stays |
| model registry (`worker.mjs`, `ml-generation.js`, `promotion-readiness.js`) | generations, challengers, shadow scans | train, score, judge | generations grow; a verdict rests on forward evidence and is final |
| replay (`worker.mjs`, `research/runner.js`) | cursor, decisions, dataset | ingest a chunk, materialise | behind the cursor every candle counted once, every decision stored |
| the door (`worker.mjs`) | rate buckets, seen alerts (per isolate), alert table | checks of a POST, rate limit, TradingView alerts | twice the limit at most in any window; an alert accepted once |
| customer front end (`App.jsx`, scan coordinator, `journal.js`) | session, page, device and cloud journal | scan, sign in and out, take | only the scan begun last is shown |

### 1.5 Browser engines and research

| part | state | operations | correct when |
|---|---|---|---|
| `quant-engine.js` | none (pure) | structure, candidates, gates, plan, backtest | a decision agrees with its own gates; structure reads the past |
| `ai-ui.js`, `ai-engine.js` | page, paper portfolio in localStorage | scan, analyse, paper, close, reset | the portfolio adds up; an answer is about what was asked |
| `forward-engine.js` and four other judges | none | outcome of a trade | they agree where the code says so |
| six readers of candles | none | raw rows to frames | they agree, and none shows a candle that had not closed |
| `research/*` | frozen datasets, reports | screen, expand, train, evaluate | no study reads the future; each uses a row once; the holdout is opened once |

### 1.6 How the parts interact

    forward_loop --HTTP /paper/signal, /paper/mark--> api/app --> PaperEngine --> Router --> Portfolio
    position_monitor --HTTP /paper/tick-----------------^             |             |
    supervisor --HTTP /health, /reconcile, /control/*---^             v             v
    supervisor --spawn/kill--> execution service, forward_loop      Ledger        Store   (one SQLite file)

    customer-beta, jobs (runner, ml-generation, promotion-readiness), TradingView
          --HTTP--> worker --SQL--> Supabase / D1

The service is the only writer of its database. Three clients call it without
coordination: the loop (entries, candle sweeps, reconciliation), the monitor
(ticks) and the supervisor or a human (pause, reconcile, clear-halt, kill).
The worker and the service share nothing.

### 1.7 What is hard here

* Two requests on one trade or one instrument (thread pool, two clients).
* A handler writes five rows in five commits; the process may die, or a database
  call may raise, between any two of them.
* The kill switch is read once per order and can engage at any moment.
* Reconciliation reads two records without a lock.
* A batch of candles, or a tick after a candle, may hold several milestones.
* Restart policy: crash loops, a recovery that fails half-way, and a market
  outage in the middle of either, all of them owning the same pause flag.
* A shared request budget with priorities, cool-downs and coalescing.
* A beat, a stream, a wake-up and a failed read that must never leave an open
  position without anything that will look at it.
* Clients that retry what may already have happened, and pages on which an older
  answer arrives after a newer question.
* Research that must not learn from what came later.

`PROJECT.json` lists each hazard at its line with the properties that cover it.

## 2. Modules

| module | models | role |
|---|---|---|
| `TradeProgress` | what an exit does to a trade; the exit sequences an evaluation can return | shared by the next two |
| `PaperLifecycle`, `MCPaperLifecycle` | `paper/lifecycle.py`, operator for operator; feeds of candles, beside the readings of `TradeOutcomes` | pure rules, compared with each other and with `TradeProgress` |
| `PaperEngine`, `MCPaperEngine` | engine, router, portfolio, store, ledger, kill switch, reconciliation, as one concurrent system | the core |
| `TradeBook` | what the trade table promises | abstract specification |
| `Supervisor` | `supervisor.rs` with the service's pause flag, the processes it watches and the operator's commands | restart policy, pause ownership |
| `RequestBudget`, `MCRequestBudget` | `rate_limit.mjs` | the shared budget of requests to the market |
| `PositionMonitor` | the monitor of `position_monitor.mjs` and what it touches of the service | beat, prints, forwards |
| `ForwardLoop`, `MCForwardLoop` | `forward_loop.mjs`; EXTENDS `PositionMonitor` | composition of loop, monitor and service |
| `TradeStream` | `HyperliquidTradeStream` | sockets and reconnects |
| `ScanCycle` | `scan-core.mjs`, `fetch_signal.mjs`, `shadow_capture.mjs`, `research_universe.mjs` | one discovery cycle after another |
| `ScanAllowance` | allowance of `worker.mjs` over the SQL functions | reservations |
| `TradeJournal` | `acceptTrade`, `closeTrade` | a user's trades |
| `RankArchive` | rank scans, recoveries, sequences of `worker.mjs` | frozen archive |
| `ModelRegistry` | `ml-generation.js`, `promotion-readiness.js` and the worker's registry | generations, verdicts |
| `ReplayIngest` | `runner.js`, `researchIngest`, `materializeDataset` | cursor and chunks |
| `WorkerGate` | `handleRequest`, rate limit, TradingView alerts | the door |
| `CustomerClient` | `App.jsx` with its coordinator, journals and session | the page |
| `ChartAssistant` | `ai-ui.js`, `ai-engine.js` | the browser page |
| `MCWorker` | the ten modules above that are about the cloud, the page and the bridge, side by side | composition; a behaviour belongs to one of them |
| `TradeOutcomes` | the five judges of a trade | agreement |
| `MarketStructure`, `QuantRules`, `Backtests` | `quant-engine.js` | structure, decisions, walk-forward |
| `CandleFrames` | the six readers of candles | agreement, point in time |
| `UniverseScreen`, `DatasetExpansion`, `ScanRows`, `RankStudy`, `EpochStudy`, `FeatureResearch`, `ObjectiveFeatures` | `research/` | screen, datasets, studies |
| `MCAlgorithms` | the pure modules, side by side | composition |
| `SumTheorems` | sums over finite sets | lemmas for proofs |
| `PaperEngineProofs` | the engine | proofs |
| `SupervisorProofs`, `RequestBudgetProofs`, `ForwardLoopProofs` | | proofs |
| `WorkerProofs` | page, assistant, stream, scan cycle; allowance, journal, door, archive, registry, replay; the composition | proofs |
| `TradeProofs` | exit rules and the readings of a trade, on any candles | lemmas for the next |
| `AlgorithmProofs` | exits, readings of a trade, market structure, walk-forward, decisions | proofs |

Definitions introduced by a comment `Mutant:` are wrong on purpose: each is an operator
of the code with a plausible bug in it, and each property was tried against the ones of
its module. `PROJECT.json` names one for every property of a run; where a property is a
conjunction, the others are the ones its remaining conjuncts were tried against.

### 2.1 PaperLifecycle

`Advance` is `advance`, candle by candle: stop test with the active stop, then
TP1 (half the quantity, stop to the entry), then TP2 on the same candle, then
the deadline after the last candle. `EvaluateTick` is `evaluate_tick`. A price is
one of five levels, a quantity a number of units of 1e-8. Half of an odd number of
units is rounded by the floats of the code, to the side that `RoundsUp` names: up for
one unit, whose half is all of it, down for five. Fees and slippage change amounts, not
decisions, and are left out. `ApplyExits` is the loop of
`_route_exits` over `apply_exit`.

### 2.2 PaperEngine

Variables, from the code: what SQLite keeps (`intents`, `orders`, `storedPos`,
`trades` and their `mark`, `events`, `halt`), what the process keeps (`position`,
`killed`, the two locks), and for each thread its request (`pc`, `sig`, `trade`, `todo`,
`view`, and the `account` an entry was approved on).
Three history variables (`submits`, `lateEntries`, `faults`) are read by
properties and by the bound on faults only.

Each database commit of a handler is an action, in the order of the code:

| code | actions |
|---|---|
| `open_from_signal` before the lock | `RequestEntry` |
| `with self._entry_lock` ... `approve` | `LockEntry`, `CheckInstrument`, `ApproveEntry`, `RejectEntry` |
| `tick` / `mark`: lock, read, evaluate | `BeginExits` |
| `route`: halt test | `PassHalt`, `StopAtHalt` |
| `record_intent` | `RecordIntent`, `DuplicateEntry`, `DuplicateExit` |
| `backend.submit` | `Submit`, `SubmitFails`, `MarkUnknown`, `HaltOnUnknown` |
| `upsert_order`, `record_fill` | `RecordOrder` |
| `open_trade`, `apply_exit`, trailing `save` | `RecordTrade`, `RecordExit`, `SaveTrade` |
| `/reconcile`, `/control/clear-halt` | `ReadPortfolio`, `CompareFails`, `CompareSucceeds` |
| `/kill` | `ManualKill` |
| any database call raises | `Abort` |
| the process dies and is started again | `Restart` |

Which exits `BeginExits` finds is left open: any of `PlanShapes(trade)`.
`SameExits` checks that the real rules return nothing else; so the engine's
properties hold whatever the prices do.

The exposure of the live trades is their remaining quantity at the mark price of each
(`OpenNotional`, `PaperLedger.totals`), and the ceiling a share of the equity. Both move
with every price: an entry opens at any of `Prices` and its trade is marked there, a
`mark` leaves an open trade at any of them, and each account an entry reads has any of
`Ceilings`. So that the exposure stays under the ceiling is not true, nor does the code
promise it; what the entry lock reserves is the room of the account that was read.
`RoomIsReserved` says this: until its trade is in the ledger, an entry fits under the
ceiling it was approved on, every trade it saw valued at the mark it saw, give or take
the half unit its quantity was rounded by.

The trade a request works on is a copy (`trade[w]`), as in the code, where the
dict read under the lock is written back whole by `save`. A version of the model
that drops the lock loses updates, and the runs find it.

Taken as one step: `kill()` (its test, its row and its flag), the clearing part
of `clear_halt`, and a position's change in memory together with its row
(`SubmitFails` separates the last two). `upsert_order` and `record_fill`, which
nothing reads back, are one step too.

### 2.3 TradeBook

The abstract table: a signal's trade opens at most once and only on a free
instrument within the limit, then moves along TP1, and ends closed for good. No
threads, locks, intents or portfolio. `TradesAreABook` states that `PaperEngine`
implements it, with the trade table itself as the mapping.

### 2.4 Supervisor

The supervisor's thread is a cycle of labels (`pc`): a crashed service, then a
crashed loop, then the market probe, as in `tick`. Around it run the commands of
the operator (`lib.rs`, each on a thread of its own), crashes of the service and of
the loop at any moment, and the end of a loop that was asked to stop.

| code | actions |
|---|---|
| `take_exec_crash`, `on_exec_crash` | `TakeExecCrash`, `NoExecCrash`, `RestartService` |
| `recover_after_restart` | `PauseForRecovery`, `ReconcileRecovery`, `ResumeRecovery`, `BringLoopBack` |
| `on_loop_crash` | `TakeLoopCrash`, `NoLoopCrash`, `PauseForLoop`, `CheckLoop`, `ReconcileLoop`, `RestartLoop`, `ResumeLoop` |
| `probe_market` | `ProbeMarket`, `ProbeNotDue`, `PauseForMarket`, `ResumeForMarket` |
| commands | `OperatorPauses`, `AskToResume` and `OperatorResumes`, `StartPaper`, `StopPaper`, `KillOrClear`, `RestartServices`, `ReconcileNow` |
| exits nobody asked for, `prune` | `ServiceCrashes`, `LoopCrashes`, `LoopStops`, `WindowPasses` |

Every HTTP call is one step. A call to a service that is down fails; a call to a
running one may time out, and then its effect may or may not have taken place
(`Pauses`, `ResumesOwn`, `ReconcileFails`). What a reconciliation finds is left open.
`pause` is the flag and its reason together: the service compares the reason, which
is how four owners share one flag.

A start of the service, with its wait for `/health`, is one step; so is the part of a
handler between two calls. `reviewed` is history: since the last crash, a
reconciliation was clean or the operator restarted the services.

### 2.5 RequestBudget

JavaScript runs one handler to its end, so `fetch`, an answer and the timer are one
step each, except that the loop of `pump` takes one step per entry
(`Start`, `Defer`, `Keep`, then `PumpEnds`), while nothing else can happen
(`pumping`). That is the loop without a recursive definition, and what makes it
provable.

Time is relative: what is left of the cool-down, of each wait, until the timer; how
old the last 429 and each spent weight is. Nothing counts up, so no bound on time is
needed. A timer fires when it is due or later. `ahead[c]` holds who was queued before
`c`: the queue's order is priority, then arrival, as in `sort`. A weight above the
budget leaves no room however large it is, so `spent` stops just above it.
`discretionary` is the part of `spent` that P2 to P5 started; it is history.

The length of a backoff (exponential, with jitter) and a `Retry-After` are any wait
up to `MaxCooldown`. Left out: hosts the budget does not govern, and counters. The
`+ 1` ms of `nextOpportunity` is below a tick.

### 2.6 PositionMonitor and ForwardLoop

A trade is an instrument and a number; a price is one of the five regions the exit
rules tell apart. Each `await` of the monitor is two steps, the service's part and the
answer's, with anything in between. The beat (`off`, `reading`, `read`, `pricing`, `ticking`,
`posted`, `resting`) reads the open trades, polls a price for each coin without a
fresh print, posts the tick, and re-arms its timer; `posts` holds the forwards of
crossings, one per trade at a time. The service refuses an observation from before
the entry or the last exit, so the time of an observation is the stage its trade
was in. `ForwardLoop` adds the cycle (mark every open trade, scan, perhaps open one,
observe, reconcile, wake the monitor) and the stop, which is looked at between cycles.

### 2.7 TradeStream

A socket is an identity with a life of its own; handlers of a socket the stream has
let go of drop their event. Back-off is an index into `RECONNECT_BACKOFF_MS`, kept at
its last entry. `feed` is the set of coins whose prints arrive.

### 2.8 ScanCycle

`found` is what a scan returns: per market whether it was evaluated, its candidates
with rank, score, quality and completeness, and which one is its pick. `BestTradeNow`
is the comparison chain of the code. `payload` is what the capture records of
the same scan, with the reason of every candidate; `turn` keeps which research assets
had their turn, for the property about the rotation.

### 2.9 The cloud

* `ScanAllowance`: a request reserves (behind the advisory lock, sweeping old
  reservations), scans, finalizes, stores, or releases, and may die anywhere; ids are
  chosen by the client and come again. `old` marks reservations past the sweep's age.
* `TradeJournal`: `take` and `close` are a read and a write each, and an answer that
  may be lost. The unique index of `user_trades` is part of the insert.
* `RankArchive`: one stored scan, with its ranks, labels and sequences, and clients
  that store, resolve, recover and send again; each step one statement.
* `ModelRegistry`: two scheduled jobs, each reading what it later writes about, while
  new outcomes and scans come in.
* `ReplayIngest`: candles are opening times; a run reads a chunk from the cursor, the
  worker stores its decisions, moves the cursor and rebuilds the dataset, three
  statements of which any may be the last.
* `WorkerGate`: time is a clock; a bucket is a start and a count; `admitted` keeps the
  time of every request that passed, for the property. An isolate may be replaced at
  any step, which empties its buckets and its set of seen alerts.
* `CustomerClient`: scans, journal reads, takes and allowance reads are answered in any
  order, while the user signs in and out; a refusal and an abort are answers too.
* `ChartAssistant`: tabs with a page each over one localStorage; a scan may arrive
  while the model is asked, and the answer is fused with the selection of its moment.
  `FreeMode` is the switch of `ai-config.js`. The run has one tab: with two, a
  tab's save overwrites what the other papered (section 6).

`MCWorker` puts them side by side: `part` names the one a behaviour runs, and the
variables of the others rest. They share no state in the code either, except the
database engine; the composition only spares runs.

### 2.10 The algorithms

* `TradeOutcomes`: five programs judge a trade by the candles after it, each by a loop of
  its own over the same feed; a price is a distance from the entry in halves of R.
* `MarketStructure`: swing points confirmed by candles on both sides and the structure
  they make; the market completes one candle after another, from a few short pasts up
  to `MaxLength` candles, so that there are two swing highs, and a third, to compare.
* `QuantRules`: strategies, gates, geometry, plan and the semantics reported
  beside the verdict; indicators are inputs.
* `Backtests`: which candles a simulation and a walk-forward test use.
* `CandleFrames`: the six readers over rows with holes, duplicates, bad values and a
  clock that runs ahead.
* `UniverseScreen`, `DatasetExpansion`: fixed rules (the open gap of S6 among them) and a
  proposal; the registry of datasets, whose next version takes any approved and removed
  coins, since the code compares neither with a proposal: nothing is stated about which
  coins they are, only what a version does with its base; per-asset generation and
  assembly, with old rows reproduced.
* `ScanRows`, `RankStudy`, `EpochStudy`, `FeatureResearch`, `ObjectiveFeatures`: rows of a
  scan; expanding folds, choice and holdout; the daily studies; features with their
  audits. Learners are the smallest of their kind (least squares on one feature, stumps
  over two bins, one weight moved by one per epoch): the properties are about which
  rows they see.

## 3. Runs

| run | instance | shows |
|---|---|---|
| `MCPaperEngineInstrument` | 3 threads, a long and a short signal on one instrument, no faults | portfolio = ledger + in flight, exits only shrink, at most one late entry, refinement of `TradeBook` |
| `MCPaperEngineLimits` | 2 threads, 2 signals on instruments of their own, two sizes, two prices, two ceilings | the room an entry was approved for is still there when its trade is recorded |
| `MCPaperEngineFaults` | 2 threads, one crash, abort or failed submit anywhere | type, one fill per intent, one trade per instrument, trades only progress |
| `MCPaperEngineFair` | 2 threads, 2 signals on instruments of their own, one position at most, fair | both locks are always released; racing entries respect the position limit |
| `MCSupervisor` | one restart per window of each kind, any number of crashes, all commands, time-outs | restarts are bounded; a recovery ends; an operator's pause is kept; only a clean reconciliation reopens |
| `MCRequestBudget` | 4 callers, 3 keys, 2 slots, with and without pacing | slots and budget are never passed; identical requests are shared and every sharer is answered; urgent ones go first; the queue is always woken in time |
| `MCForwardLoop` | one instrument, one trade, prices beyond the stop, before the entry and beyond TP1, one failed request | the monitor is always armed and reads what there is; a crossed stop closes its trade; a stop ends the loop |
| `MCWorker` | small sets for each part (`MCWorker.cfg`) | the eight hazards of the cloud, the pages, the stream and the cycle |
| `MCAlgorithms` | small feeds, markets, frames, archives and datasets, in twelve parts (`MCAlgorithms.tla`) | agreement of the duplicated rules, point in time, soundness of decisions and studies |

Three runs end in a counterexample on purpose (`MCPaperEngineFalseHalt`,
`MCPaperEngineTrappedStop`, `MCSupervisorStuckRecovery`): each checks one sentence of
the repository that the code does not keep. Two more configurations are kept beside
them for the findings of section 6 that need a run: `MCPaperEngineOversell.cfg` (with
`MCPaperEngine`) and `MCForwardLoopUnwatched.cfg` (with `MCForwardLoop`).

### What the properties of the composed runs say

| property | parts |
|---|---|
| `AllowanceKept` | the places given never pass `Cap`; delivered is charged, charged was scanned |
| `JournalHolds` | one trade per recommendation; a take answered with a trade has it; only a close that read a trade open moves its exit |
| `PagesHold` | only the scan begun last is on the customer's page (`LatestScanOnly`); the chart assistant's portfolio adds up, is what a reload brings back, holds qualified setups only, and an analysis is about the selection unless that moved meanwhile (`AssistantHolds`) |
| `StreamFollowsPositions` | type, one live socket, a socket or a timer while a coin is held, the feed is what is held |
| `CycleIsSound` | of everything a scan saw one plan at most is sent, once recorded as such; it is the best; each research asset has its turn |
| `ArchivesHold` | a stored scan is frozen before its outcomes (`Frozen`); generations grow, verdicts rest on evidence, what was written once stays (`GenerationsGrow`, `VerdictsHaveEvidence`, `OnceOnly`); behind the cursor every candle is counted once and every decision stored (`ReplayCovers`) |
| `GateHolds` | twice the limit at most in any window, an alert accepted once, and exactly when its evidence is stored |
| `MonitorIsKept` | an active monitor has a timer or a beat, a stopped one neither; asleep with no request lost, it has read what the service has open |
| `SameExits` | batching, restarts, tick and candle change no exit; plans are known; a deadline closes |
| `OutcomesAgree`, `FramesAgree` | the duplicated judges and readers agree where the code says they do; no frame shows a candle that had not closed |
| `StructureStands` | a swing is confirmed by the past and stays |
| `DecisionIsSound` | a verdict agrees with its gates, its geometry and its plan, in both modes |
| `WalkForwardIsFair` | no trade is used twice, no test candle trains |
| `DatasetHolds`, `StudiesHold`, `FeaturesHold` | what is in a dataset was listed, old rows are reproduced, no feature reads the future; folds expand, choice and test are apart, the holdout is opened once; features are directed |

### Bounds, and why they are enough

Two signals are the smallest number that race; an instrument they share makes
them conflict, two instruments make them compete for the limits only. Two threads
give every pairwise interleaving; the `Instrument` run adds a third so that a
reconciliation or an exit can run between two racing entries. A quantity of two
units is the smallest that TP1 can halve. In the `Limits` run a trade of two or three
units at a price of one or two leaves, of a ceiling of three or five, room for a whole
second entry, for a part of one, or none, and a new mark moves what it leaves. One fault reaches every point of every
handler; what a second fault could add is covered by the proofs, which hold for
any number. The `Fair` run has no fault: that a request which raises gives its locks back
is the with-block of the code, and `Abort` is modelled so. Counters are bounded by the intents; `MaxFaults` is the only bound in
a guard.

`Supervisor` has no bound on crashes, outages or commands. The code allows 3 restarts
in a window; one is the smallest number that can be used up, and `WindowPasses` gives
it back at any moment, so longer sequences of restarts occur too.

`RequestBudget` has a caller of each class that the code treats differently: P0 (P1 is
treated like it), P2 twice, because two waiting requests are needed for an order of
arrival, and P3. The code runs four at a time; two slots are the fewest where a slot
can be free while another is taken. The window is two ticks, so that what was spent
has two ages; a P2 request waits three, longer than a cool-down of two and shorter
than two of them, as 90 s relates to 60 s.

`ForwardLoop`: `MaxTrades` trades of an instrument and `MaxFailures` failed requests. One
of each lets a forward, a poll, a post and the loop's sweep meet over every stage of a
trade; the bounds are guards, and the theorem holds for any.

`MCWorker`: three requests over two ids and a cap of one (two race, a third finds the
place taken, a retry carries a used id); three calls over two recommendations and
three rows; two scans of one account and the guest (`MaxScans`); three sockets (the
one in use, the one given up, the one to come); four approved assets of which two are
selected, over `MaxCycles` cycles; two clients of one archive with rebuilds in both
orders, one without a rank, one with a hole; two outcomes and two models; seven candles in
chunks of three (`Horizon`), so that a chunk ends inside an outcome's window; two callers
with one bucket kept (`MaxBuckets`), so that each arrival sweeps the other, and
a clock (`MaxTime`) of more than two windows; two markets, two scans and two papered
trades (`MaxScanned`, `MaxPapered`).

`MCAlgorithms` reaches, in each part, what its properties speak about:

* feeds of two candles over the prices of the exit rules, with a unit whose half is
  all of it; paths of two completed candles (`HeldBars`) and one forming, over four
  levels (the stop, the entry, the two targets);
* markets of five to eight candles, continued from a few pasts (`SomePasts`): two swing
  highs and lows, and breaks of both, occur;
* fifteen candles of a backtest; rows of a venue at six times with a second price, a bad
  one and one off the grid; archives of a few slots;
* screens with histories that fail each rule, the gap by itself among them, and a registry
  of at most `MaxVersions` versions with additions and removals;
* rank studies over scans a unit of time apart in two folds, whose questions ask for more
  reads than the budget has; daily studies over stores of up to eleven scans, of which
  seven are developed on in two folds, with scans purged from each and tests of one
  or two;
* features of the same markets: structure (`StructureIsSound`) on all of them, the
  direction of features (`FeaturesAreDirected`) on those of five and six candles and on
  two made for breaks of both sides (`BreaksBothWays`). The archives of
  `FeatureResearch` (`SomeWorlds`) are of twenty candles and its frames of four, which hold
  one break at most: longer structure is judged on the markets only.

Not every comparison of every module is reached on both sides. Where a set of inputs is
thinned (`SomeInputs`, `SomeStores`, `SomeLedgers`, `SomeOutcomes`), some
combinations are left out so that the run ends in a few minutes.

Symmetry: threads are interchangeable in every action; signals only where they
trade the same instrument in the same direction. The fair runs use no symmetry.

### Fairness

`FairSpec` assumes weak fairness of `Run(w)`, the steps of a thread that has a
request. The operating system schedules runnable threads, and SQLite calls return
(or raise, which is `Abort`). Nothing is assumed of clients, of faults, or of the
order in which a lock is granted: a waiting request may wait forever, and the run
claims only that a holder lets go.

`Supervisor` assumes weak fairness of `Supervise`, the thread's next step: it is a loop
that sleeps between ticks, and every call it makes has a timeout.
`ForwardLoop` assumes weak fairness of the beat's, the forwards' and the cycle's next
steps and of the armed timer, which is a `setTimeout`: it assumes that every request is
answered or fails. Requests for prices carry a timeout; those of the loop and the monitor
to the service do not (`api`, `forward_loop.mjs:85-98`, passes no signal to `fetch`), so
that only the limits `fetch` has by default end a request to a service that stays
silent, and `StopFires` and `StopEnds` are no stronger than they are. Nothing is assumed of the operator, the market, prints, processes or
failures. The other specifications are checked for safety only.

`CHECK_DEADLOCK` is off in `MCWorker` and `MCAlgorithms` (their requests, runs and feeds
end) and in `MCForwardLoop` (a loop that was stopped has ended); it is on in every other
run: a client can always ask for a reconciliation, a tick of time can always pass.

Two liveness properties are stated in a module and named by no configuration because
their module runs inside a composition: `WalkEnds` (`Backtests`, under its `Spec`, the
constants of `MCAlgorithms.cfg`) and `ScanEnds` (`CustomerClient`, under its `Spec`: the
page's fetch has a timeout). TLC finds both to hold.

## 4. Proofs

Every theorem holds for any finite sets and any values of the constants that satisfy
the named assumptions (4.9), and any length of a behaviour. A property of a
passing run has a theorem unless 4.10 lists it.

| module | theorem | statement |
|---|---|---|
| `PaperEngineProofs` | `TypeCorrect` | `Spec => []TypeOK` |
| | `NeverPyramids` | `Spec => []OneOpenTradePerInstrument` |
| | `LimitHolds` | `Spec => []PositionLimit` |
| | `FillsOnce` | `Spec => []AtMostOneFill` |
| | `OneLateEntry` | `Spec => []AtMostOneLateEntry` |
| | `TradesProgress` | `Spec => TradesOnlyProgress` |
| | `RoomStaysReserved` | `Spec => []RoomIsReserved`, for any prices and ceilings |
| | `PortfolioFollowsLedger` | `Spec => []PortfolioIsLedgerPlusInFlight` |
| | `ExitsOnlyShrink` | `Spec /\ [](faults = 0) => ReduceOnlyShrinks` |
| | `ImplementsTradeBook` | `Spec /\ [](faults = 0) => TradesAreABook` |
| `SupervisorProofs` | `SupervisorTypeCorrect` | `Spec => []TypeOK` (the restart counters never pass their limits) |
| | `OperatorPauseIsKept` | `Spec => OperatorPauseKept` |
| | `ReopensReviewed` | `Spec => OnlyReopensReviewed` |
| `RequestBudgetProofs` | `BudgetTypeCorrect` | `Spec => []TypeOK` (never more than `MaxConcurrent` run) |
| | `RequestsStayShared` | `Spec => []RequestsAreShared` |
| | `UrgentStartFirst` | `Spec => UrgentFirst` |
| | `UnpacedAlwaysWoken` | with `Budgets = {0}`, pacing off as shipped: `Spec => []AlwaysWoken` |
| | `BudgetIsKept` | `Spec => []WithinBudget` |
| `ForwardLoopProofs` | `MonitorStaysKept` | `LoopSpec => []MonitorIsKept` |
| `WorkerProofs` | `PageShowsLatest` | the page: `[]LatestScanOnly` |
| | `AssistantKeepsBooks` | the chart assistant: `[]AssistantHolds` |
| | `StreamStaysFollowing` | the stream: `[]StreamFollowsPositions` |
| | `CycleStands`, `EveryScanIsSound` | the cycle: `OneSubmitted` and `BestIsSent`; with `EveryN = 1`, `[]CycleIsSound` |
| | `AllowanceStands`, `JournalStands`, `GateStands`, `ArchiveStaysFrozen`, `RegistryStands`, `ReplayStands` | each part of the worker by itself |
| | `CustomerStands`, `ResearchStands`, `CyclesStand` | `WorkerSpec` with all ten parts: every property of `MCWorker.cfg` |
| `AlgorithmProofs` | `ExitsStaySame` | `AlgorithmsSpec => []SameExits` |
| | `SwingsStay` | `AlgorithmsSpec => StructureStands` |
| | `UnseenStaysUnseen` | `AlgorithmsSpec => []WalkForwardIsFair` |
| | `DecisionsStaySound` | `AlgorithmsSpec => []DecisionIsSound` |
| | `OutcomesStayAlike` | `AlgorithmsSpec => []OutcomesAgree` |

### 4.1 The paper engine

None of the invariants is inductive: each is about shared state, and depends
on what every request in progress may still do. The inductive invariant of
`PaperEngineProofs` is

    IInv == TypeOK /\ Control /\ RowInv /\ FillInv /\ LateInv
            /\ OneOpenTradePerInstrument /\ PositionLimit
            /\ AtMostOneFill /\ AtMostOneLateEntry

* `Control` says what each request may count on: it has its orders (`TodoOk`), it
  holds its lock inside the locked section (`LockOk`), what an entry checked under
  the lock is still true when it records the trade (`EntryOk`), and the trade an
  exit works on is the trade in the table (`ExitOk`).
* `RowInv` ties rows to intents: a trade row exists only if its entry's intent does.
  It is what makes a used id useless to every later request.
* `FillInv` ties fills to intents, which gives one fill per intent.
* `LateInv` ties the flag to the halt row, and says that behind one late entry
  there is no other.

The argument for mutual exclusion is `LockOk`: two requests in a locked section
would both be the holder. From it, an entry's checks stay true because only an
entry under the same lock adds a trade (`WhoWritesTrades`), and exits only free
room. `Control` is proved per request, in two lemmas: a step of the request
itself, and a step of another request.

Its second half adds what is a sum: `SumsInv == IInv /\ CapInv /\ SizeInv /\ QuietInv`.

* `CapInv` is `RoomOk` for each entry: every open trade is one it saw, because only
  another entry could add one and the entry lock keeps that one out; and it is within its
  ceiling, because a trade it saw only shrinks and is valued at the mark it saw. Marks
  and equity may move as they like, through any number of faults.
* `SizeInv`: an entry asks for no more than a size of `Sizes`.
* `QuietInv`, while nothing has failed: `PlanInv` (the exits a request has still to route
  are a plan of the trade as it is now, and an exit whose id is used is underway or
  recorded), and `Balanced` (the position of an instrument is the sum of its trades
  plus the fills between their two commits).

From `PlanInv`, an exit that is submitted sells no more than its trade holds, and each
step is a step of `TradeBook` or a stutter. Both theorems are about
behaviours without a fault, `[](faults = 0)`: after a crash between a fill and its
ledger row they are false, as `MCPaperEngineOversell.cfg` shows. The hypothesis is
satisfied by every behaviour of the `Instrument` run. `PortfolioIsLedgerPlusInFlight`
says so itself.

### 4.2 Sums and induction

The library's induction theorems take an operator as a parameter, which no installed
prover instantiates. `SumTheorems` states induction for a *set* instead
(`NatSetInduction`: a set of naturals that has 0 and, with n, n + 1 is all of them), and from
it the existence of sums for all parts of a finite set, that the fold of
`Functions` is the sum of the whole, and that a sum does not depend on its order
(`SumTakesOut`), is monotone, ignores zeros and changes with its function as a sum
does. `SumOn` wraps the community module's fold; `SumsAgree` identifies it with an instance's.

### 4.3 The supervisor

`TypeOK` is not inductive: the restart counters stay within their limits because of
`BudgetInv`, which carries the test of `TakeExecCrash` to the step that spends the
restart. The flags are proved apart from the rest because the two need different
provers. `OperatorPauseIsKept` needs no invariant: each step is shown to leave
`DESKTOP_PAUSE` alone, because the service compares the reason. `ReopensReviewed`
needs `ReviewInv`: wherever the thread is about to resume or to start the loop, the
last crash has been reviewed or its flag is still there to be taken.

### 4.4 The request budget

`RequestsStayShared` rests on `OwnerInv` (the promise kept for a key is the one of its
only queued or running request), `UrgentStartFirst` on `RankInv` (what `pump` has
looked at and left is not urgent). `UnpacedAlwaysWoken` rests on two facts that hand
over to each other: while `pump` runs, `wakeAt` is no later than the opening of any
entry it has kept (`Passed`); when it does not, the timer is (`Woken`), through time
and further 429s, which only move an opening away. `Opening` is `NextOpportunity`
without pacing.

`BudgetIsKept` rests on `PartInv` and `LeftInv`: what P2 to P5 started is, age by age, a part of
what everyone started; so the room a start finds in the whole window is room it finds
in theirs, and time takes a spent weight out of both at once. `ReserveAssumption`
(no lower class reserves less than P2, as in `rate_limit.mjs`) is what makes the room of a
P3 a part of P2's.

### 4.5 The monitor and the loop

What has to be shown is that nobody forgets the monitor. `ReadOwed` lists who owes it a
read when its rows are not the service's: the cycle that runs, a post whose exit was
answered, the tick being answered, or the round already asked for. `LoopInv` says that
without a failed request and without such a debt the rows agree (`RowsAreOwed`), that only the
end of the loop stops the monitor, and that what rests follows no trade. A step that changes
a trade incurs a debt (`FallKeeps` and its like go action by action), a read pays it.

### 4.6 The page, the stream, the cycle

* The page: `ClientInv` says who `active` is; an answer of an older scan finds another number.
* The assistant: `PageOk` (an analysis and a selection belong to scans that took place),
  `PortfolioOk` (each trade was a qualified setup, the balance is the starting one plus
  the sum over the closed trades), and the saved portfolio is one of these. The sums over a
  sequence that grows or is marked in one place come from `SumTheorems`.
* The stream: `StateTellsSocket`: the state says whether the current socket is connecting,
  open or none, and which of its handlers may still act.
* The cycle: the comparison chain of `bestTradeNow` is a strict total order on what was
  evaluated (`RankingIsTotal`), so the best is one market (`BestIsOne`) and one candidate
  of the payload is submitted (`OneIsSubmitted`). The rotation steps by remainders of
  consecutive cycle numbers, which reach every index (`RemainderIs`, `PlanReaches`); this needs
  `EveryN = 1`, the default the loop ships with (`signal-bridge/forward_loop.mjs:48`), and is
  false for two (section 6). `CycleStands` holds for every `EveryN`.

### 4.7 The worker

* Allowance: `StepsInOrder` (what stores has been charged, what charges has scanned); a place
  is taken only below the cap *after* the sweep, in the same locked function.
* Journal: a call about to close has read an open row, and a row that is closed stays;
  a call about to insert may find its row there.
* Door: `GateInv`: the requests admitted since a bucket began are at most its count and at
  most `Limit`, those of the window before it at most `Limit`; any window meets at
  most these two. Sweeping removes only buckets that are older than a window.
* Archive: contiguous ranks are injective, by counting them; a batch that found the scan
  stored carries the same hash, so what it writes again is what is there.
* Registry: the trainer's rows contain the latest generation's and a threshold more; evidence
  only grows, so a verdict that had enough keeps it.
* Replay: what is fetched has no hole of its own, so a chunk that is taken is an interval
  of candles, its count is a difference of positions (`CountGoesOn`), and walking it again
  adds nothing.
* The composition: `AppRunsApart`, `BridgeRunsApart` and `ResearchRunsApart` show that
  each part of `WorkerSpec` runs its own specification, the steps of the others being
  stutters; the theorems of the parts then carry over.

### 4.8 The exit rules, structure, walk-forward, decisions and readings

The lemmas about the exit rules and the readings of a trade are in `TradeProofs`, over
`MCPaperLifecycle`, which declares what both need and no more: the provers are given
every declaration of a context with each step, and take a twentieth of the time there.

* Exit rules. `advance` is a fold over the candles, and the community module's fold is a
  `CHOOSE` of a function on sets of indices. `SweptExists` shows that there is such a function
  (induction over the size of the set), so that `WalkUnrolls` can say what the loop does with
  one more candle; `InTimeOrder`, the stable sort, leaves candles in time order alone
  (`OrderedIsSorted`). From there, `StageOf` lists what the loop can have done: nothing, a
  TP1, or an end with one or two exits (`WalkKeeps`), which gives the plans
  (`AdvancePlan`, `PlanIsKnown`) and the deadline (`SweepCloses`). That batches compose is
  `WalkResumes`: from the saved trade the rest of the candles does what it would have done,
  behind the exits already saved. The rules read of a trade its progress and its
  original quantity only, and `apply_exit` keeps both. The bound on the feed plays no part:
  the theorem is about feeds of any length, and the lemmas are about any prices and any
  geometry.
* Structure: a further candle takes no peak away and confirms only the one `Strength` before
  the end (`PeaksStand`), for any market.
* Walk-forward: `WalkInv` says where the tests stand: every trade and every fold counted ends
  behind the candle that is being tested, so nothing that is chosen has seen it.
* Decisions: `RulesInv` says that what is decided is what the rules make of the input as it
  still is, so the properties are about operators: for each strategy, the plan's stop and
  targets by the sign of an integer division, the gates a TAKE TRADE has passed, and what
  ranking and a model may exchange. Of the inputs it needs their types only (`RulesAssumption`).
  `AuditsNameAGate` is about a fixed set of frames, and holds strategy by strategy.
* Readings: each program is a loop over the candles, a fold again, and each has an
  invariant: what it has seen (a stop, a first target, both on one candle) is what there is
  among the candles read. `WhenHolds` compares a verdict given live, on a candle still
  forming, with the one of the whole path: `OutcomeInv` keeps with a settled verdict the
  candles it was given on. In stating the loops' steps the proof met branches that were
  tried in an order by the code and in none by a `CASE` with overlapping guards; they are
  `IF`s in the order of the code now.

### 4.9 Assumptions

| assumption | says | because |
|---|---|---|
| `SignalAssumption`, `LimitAssumption` (`PaperEngine`) | each signal has an instrument, signals are finite, the null values are not members; limits and ceilings are naturals, sizes and prices positive | settings are validated |
| `RestartAssumption` (`Supervisor`) | limits are naturals | constants of `supervisor.rs` |
| `BudgetAssumption`, `ReserveAssumption` (`RequestBudget`) | finitely many callers; only P2 waits; a window and a slot exist; reserves do not fall from P2 on | `DEFAULT_MAX_WAIT_MS`, `DEFAULT_RESERVE` |
| `MonitorAssumption` (`PositionMonitor`) | prices are regions, bounds are naturals | |
| `AllowanceAssumption` (`ScanAllowance`) | the cap is a natural, ids are finite | |
| `MaxHoldAssumption` (`PaperLifecycle`), `StructureAssumption`, `BacktestAssumption` (`MCAlgorithms`) | durations, strengths and lengths are naturals | constants of the code |
| `OutcomeAssumption` (`MCPaperLifecycle`) | a price is a whole number of halves of R, a reward and a time held are naturals | the judges compare prices with multiples of R |
| `RulesAssumption` (`MCAlgorithms`) | ATR is positive, and inputs have the types of `Evaluated`: biases, numbers, a trend or none | an average of true ranges is zero only when fourteen candles in a row do not move; the fallback asks for a positive one itself |
| `StreamAssumption` ... `AssistantAssumption` (`MCWorker`) | null values are not members, numbers are naturals, lists are sequences; scans report decisions of the engine, with types for their fields; the portfolio starts with a natural balance | |

TLC evaluates each in a run. Nothing else is assumed: no step of a proof is omitted.

### 4.10 What is not proved

* Liveness under fairness: `LocksReleased`, `RestartsAreBounded`, `RecoveryEnds`, `StopFires`, `StopEnds`.
  The prover does not handle ENABLED.
* `AlwaysWoken` with pacing on: TLC only. The next opportunity then depends on when spent
  weight leaves the window.
* `FramesAgree`, `DatasetHolds`, `StudiesHold` and `FeaturesHold` (`MCAlgorithms`):
  conjunctions over the readers of a table or the folds of a dataset, each checked over
  bounded inputs.
* Bounded checks of the refuted sentences of section 6.

## 5. What is not modelled

* The sequence of prices of one trade and the two clocks of `mark` and `tick` (plan,
  `TradeManagement`): `PaperEngine` leaves open which exits are found and which mark is kept.
* The raw `/execution/*` endpoints, cancel, and the Hummingbot backend.
* Sizing arithmetic: `ApproveEntry` takes any size the rules may give, cut to the room
  under the ceiling, and rejects where `approve` rejects.
* Monitor status, sizing records and audit rows: written, and read by no decision.
* A service the desktop found running and adopted, two starts at once, a service that
  exits with code 3 (another instance holds the database), and restoring a backup.
* Throttling of prints within a second, the transport of market data, diagnostics.
* Of the worker: read-only answers, prompts and calls of the chart model, sanitising of
  text. `runMonitor` and the historical import of `backend/*-core.mjs` are called by no
  route of the worker.
* Of the browser engines: the arithmetic of indicators (inputs of `QuantRules`), the learner of
  `ml-engine.js`, drawing. Of the front end: rendering and formatting.
* Of `research/feature-engine.js`: relative strength, cross-market context, correlation and
  the lower-timeframe confirmation; of the studies, those that only print a report.
* Reports, migrations, shadow windows, policy lifecycle and the desktop's screens
  (see `components` in `PROJECT.json`).

## 6. Findings

Each quotes a sentence of the repository that the code does not keep; `PROJECT.json`
has the quotation and its line.

| shown by | the code | the sentence |
|---|---|---|
| run `MCPaperEngineFalseHalt` | reconciliation between a fill and its ledger row sees a divergence and halts | "two records of the same ... fills; they must agree" |
| run `MCPaperEngineTrappedStop` | a crash after `record_intent` uses up the stop's id; every later stop is a duplicate | a halt "must not trap a position open past its stop" |
| `MCPaperEngineOversell.cfg` | a crash between an exit's fill and `apply_exit`; the next exit sells again | "Reduce-only orders can only shrink exposure" |
| run `MCSupervisorStuckRecovery` | a second crash during a recovery: the next recovery finds its own earlier pause, takes it for someone else's and does not lift it | "only a clean reconciliation lifts that pause and restarts the loop" |
| `UrgentNeverWaits`, `RequestBudget` | the P0 heartbeat joins the queued P2 read of the same prices and waits out the cool-down with it | "P0/P1 never wait for the budget or a cooldown" |
| `MCForwardLoopUnwatched.cfg` | a first read that fails leaves the monitor without a timer until the next cycle | "keep trying on the heartbeat, never guess" |
| `GuestTradesStay`, `CustomerClient` | a cloud journal answered after sign-out is shown to the guest, and then written over the device's trades | "Guest trades stay on this device" |
| `SubmittedWasSent`, `ScanCycle` | a post that never reached the service is recorded as a submitted candidate | "as the paper execution-service answered" |
| `RotationCovers` with `EveryN = 2` | with an even universe half of the assets never have their turn | "observed research-only on a deterministic rotation" |
| `RegimeIsPointInTime`, `DatasetExpansion` | the volatility median is taken over later scans too | "Point-in-time: only bars that closed at or before the scan timestamp" |
| `DrawnWithReplacement`, `EpochStudy` | a scan drawn twice counts once | "resamples whole scans with replacement" |
| `LeftOutIsRetrained`, `EpochStudy` | nothing is trained when an asset is left out | "retrains on every asset but one" |
| `MissingCloseIsNull`, `FeatureResearch` | a missing close changes breadth and dispersion | "Any missing close inside a window nulls that feature" |
| `StrictTakeIsConfirmed`, `QuantRules` | a strict verdict survives the feeds' disagreement and reads as confirmed | "scan-core downgrades" it |
| `ConfirmedIsAnalysed`, `ChartAssistant` | an answer is fused with the selection of the moment it arrives | it "fuses it with" the setup asked about |

Each named property is defined in the module beside it and refuted by TLC under the
constants of that module's run (the `EveryN` of `MCWorker.cfg` set to 2, `MaxCycles`
to 4 for the rotation).

Seen while modelling, and within reach of the modules, but contradicting no sentence:

* `router.py:55-61`: a kill between `route`'s test and `record_intent` does not stop
  the entry, while `execution-service/README.md:146` says no new intent is accepted.
  `AtMostOneLateEntry` is what does hold.
* `engine.py:559`: after a crash between an entry's fill and `open_trade` the position
  is on an instrument no trade row names, and `reconcile_ledger` looks only at those.
* `lifecycle.py:76`: TP1 moves the stop to the entry, and the same candle's low is not
  tested against it before TP2 is booked.
* `supervisor.rs:265-275`: a restarted service that exits during its startup is reported
  as an error and not as a crash (`process.rs` clears the flag), so it is neither
  retried nor given up, while the comment at line 267 calls it another crash.
* `supervisor.rs:294`: a loop that is still ending its cycle when a recovery is done has
  a pid, is not started, and nothing starts it when it has stopped.
* `supervisor.rs:289-293`: a recovery lifts its own pause without looking at the market,
  which may have gone offline while the service was down.
* `process.rs:234`: an adopted service that has died stays `Adopted`, and RESTART
  SERVICES reports success without starting anything.
* `research/runner.js:25`, `worker.mjs:230,232`: a chunk whose last candle is the boundary of
  a gap is refused by the worker and fetched again for ever (`CommitsAreTaken`).
* `worker.mjs:145-148`: a TradingView event whose insert failed (503) is remembered by the
  isolate, and its retry refused (409) (`RetryIsTaken`).
* `research/runner.js`: a decision near the end of the history is stored without its
  outcome, and no later run adds it (`OutcomesArrive`).
* `quant-engine.js`: the audit of a frame without a candidate gives its last verdict only to frames no
  gate stopped, and there are none (`AuditNamesAGate`).
* `ai-ui.js`: with two tabs, one tab's save removes the trades the other papered (`ScanKeepsTrades`).

## 7. Plan

In this order; each with its MC module and mutants, in runs shared where one
instance can ask several questions.

1. `KillSwitch`: `kill`, `clear_halt` and restart with each of their steps.
2. `TradeManagement`: `mark` and `tick` over one price path with their clocks.
3. `Processes`, `Backup`: starts, stops, adoption; backup, restore and prune with a
   crash at each file operation.
4. `ShadowStore`, `PolicyLifecycle`, `Migrations`: append-only resolution, stages
   of a policy, resumed migrations.

Proofs to add: `AlwaysWoken` for every budget (the opening of a window is the age at which
enough weight has left it: an argument over `SumTheorems`); the agreement of sweep and
tick of `PaperLifecycle` for one candle, as lemmas about its non-recursive operators; the
halt row in `KillSwitch`.
