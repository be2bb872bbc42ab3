# A verification project for the trading signal pipeline

The repository receives TradingView alerts, turns each into orders on several
broker accounts, and keeps a table, `trading_signals`, in step with what the
brokers hold. Around that path it moves stop losses, guards accounts against
their limits, and drives TradingView itself: it optimizes strategy settings by
running backtests in browser tabs and creates the alerts the path begins with.
Its hard part is not the trading logic but the bookkeeping, spread over Redis
lists and keys, Supabase tables, a broker API, child processes and browser tabs
that all fail on their own. This directory models that part in TLA+, checks it
with TLC on small instances and proves, with TLAPS, its safety properties for
instances of any size.

Paths below are relative to `src/`, so `src/worker.py` is the file
`src/src/worker.py` of the checkout.

## 1. The system

    TradingView --> POST /webhook --> Redis list signals:default --> worker loop
        ^              |                    ^        |                    |
        |        'received' row        dead letters <+        entry: one thread per account
        |              |                    ^                   behind the account's guards
        |              v                    |                 exit: the accounts with an order
        |         trading_signals <------ admin API                       v
        |              ^   ^                                    broker (MetaApi) behind retries
        |              |   +--- deal stream, positions page        and a circuit breaker
        |              +------- watchdog, reconciliation, trailing, break-even
        |
    local agent <-- polls -- API: alert batches, optimizer runs <-- dashboard
        +-- alert runner (MCP or browser)
        +-- parallel optimizer: workers, tabs, backtests, results file

| Part | State it keeps | Operations | Talks to | What makes it correct |
|---|---|---|---|---|
| Webhook ingest (`src/api.py`) | none | `POST /webhook` | receipt row, list | an accepted signal is kept |
| Transport and dead letters (`src/adapters/redis_queue.py`, `src/core/transport.py`, `src/api_admin.py`) | two Redis lists | push with fallback, pop, dead-letter, retry, discard | Redis | nothing lost, nothing twice, order kept |
| Consumer validation (`src/core/consumer_validator.py`) | none | accept or dead-letter | transport | a bad message does not stop the loop |
| Worker loop (`src/worker.py`, `run`) | the message it holds, timers | pop, process, periodic jobs | everything | it always comes back to the list |
| Entry execution (`src/worker.py`, `src/logic.py`, `src/adapters/supabase.py`) | rows, the Redis claim, the broker's order | claim, check, guard, save, submit, link, notify | Redis, Supabase, broker | one order per trade and account, its row first, findable afterwards |
| Account guards (`src/pipeline/account_guards.py`, `src/services/mtm_guardian.py`, `pine_streak.py`, `account_sync_service.py`) | kill keys and the day's budget in Redis, balance snapshots | read, reject, stop, record | Redis, Supabase | who is stopped stays stopped, nobody is stopped for nothing, the budget binds |
| Exit handling (`src/worker.py`, `src/logic.py`) | row status, position | resolve targets, close, update rows, fetch profit | Supabase, broker | a row is closed after its position, not before |
| Watchdog (`src/services/watchdog.py`) | row status | `run_sync`, `expire_stuck_pending` | broker of the primary account | silent exits are noticed, stuck rows settle |
| Reconciliation (`src/services/broker_reconciliation.py`) | row status | one pass over the profiles | broker of each account | no ghost positions |
| Deal stream, positions and portfolio pages (`src/services/metaapi_streaming_service.py`, `src/api_positions.py`, `src/api_portfolio_control.py`) | row status and profit | record a deal, close, batch close, clean up, backfill, edit SL/TP | broker of the primary account | they do not undo what the worker knows |
| Trailing and break-even stops (`src/services/trailing_stop_manager.py`, `breakeven_manager.py`) | `trailing_stops`, `sl` and `be_triggered` of the row | follow, move, mark, hand over | broker | a stop follows the price, break-even fires once |
| MetaApi adapter and breaker (`src/adapters/execution/meta_api_adapter.py`, `src/core/circuit_breaker.py`) | breaker keys in Redis | a request with retries | broker | trouble of one account stays there, no silent failure |
| Optimizer runs (`src/services/optimizer_run_service.py`, `src/api_optimizer_runs.py`) | `optimizer_runs`, `optimizer_results` | start, cancel, PATCH, reconcile | agent | a completed run is complete, runs end |
| Alert setup (`src/services/alert_setup_service.py`, `scripts/optimizer/alert_runner.py`) | `alert_batches` and results, alerts at TradingView | start, cancel, look, submit, report | agent, TradingView | one alert per pair, reports that are true |
| Local agent (`scripts/optimizer/local_agent.py`) | none that outlives it | poll, spawn, forward, ask for a cancel | API, child process | what it starts it ends and reports |
| Parallel optimizer (`scripts/optimizer/parallel_runner.py`) | results dictionary and file, queue of pairs | take, retry, store, resume | tabs | no pair lost, work kept |
| Search on one tab (`scripts/optimizer/optimizer.py`, `tab_worker.py`, `result_truth.py`) | study, best trial, `checkpoint.json`, the tab | apply, wait, read, judge, replay, publish | TradingView | a score belongs to its parameters, the best is published |
| AI layer, sizing, notifications, other venues, dashboards, portfolio services | settings, caches, their own tables | pass or reject, report | Supabase, LLMs, Discord | outside what is modelled, section 6 |

`PROJECT.json` lists the components one by one with their files and says which
are modelled, partly modelled, or not and why.

How they interact. The webhook and the worker share only the list and the row
(`_signal_id` is looked up, not passed). The threads of one fan-out share the
table, the claim keys, the kill keys and one budget key. Exit webhook, watchdog,
reconciliation and both stop managers run in the *same* loop of a worker
process, so they are sequential within a process; they interleave with a second
process while a deployment overlaps its predecessor, and with the API process at
any time. The agent knows runs and batches only through GET and PATCH requests
and the API writes whatever status it is sent; the answer for a single run wraps it
(`{"run": run}`), and the agent, which looks for the status beside it, never sees
one. The broker closes positions and
TradingView recalculates in their own time.

What is hard: a POST that is sent again after a lost reply; two deliveries of
one trade; a claim that expires under its owner; a worker that dies between the
row and the order; a dead-letter retry after the trade's exit; a failed request
that looks like an empty answer; six writers of one status column; a stop kept
in three places; a cancel that crosses a report; a child that hangs; a file that
is rewritten while the process may be killed or the disk is full; a report on the
screen that belongs to the settings before, or cannot be read. The `hazards` of `PROJECT.json` give each its
line and the properties that watch it.

## 2. The modules

| Module | Models | Built on |
|---|---|---|
| `OrderLedger` | what the entry path promises: rows first, one order per trade and account | - |
| `EntryExecution` | webhook, delivery, fan-out, one thread per account, watchdog expiry | `OrderLedger` (refinement) |
| `SignalQueue` | list, dead letters, worker loop, admin requests | - |
| `PositionLifecycle` | rows and positions after the entry: exits, watchdog, reconciliation, deal stream, requests of the API | - |
| `AccountGuards` | kill switches, equity guardian and risk budget around one signal and its threads | - |
| `StopManagement` | one stop loss: trailing rows, break-even, dashboard | - |
| `BrokerRequest` | the retry loop of the MetaApi adapter and the circuit breaker | - |
| `OptimizerRuns` | runs in the table, requests, the agent and its child | - |
| `PairWorkers` | the child's inside: queue, workers, results file | - |
| `PairsInTurn` | what a search of pairs promises: one at hand, one result or none, nothing left over | - |
| `BacktestTrials` | a worker's inside: the search on one tab | `PairsInTurn` (refinement) |
| `AlertSetup` | alert batches, the agent, MCP and browser, TradingView's alerts | - |
| `EntryExecutionProofs`, `SignalQueueProofs`, `PositionLifecycleProofs`, `AccountGuardsProofs`, `StopManagementProofs`, `BrokerRequestProofs`, `AlertSetupProofs` | theorems about the module named | TLAPS |
| `OptimizerProofs` | theorems about `OptimizerRuns`, `PairWorkers` and `BacktestTrials` | TLAPS |
| `MC...` | constants for TLC | the module named |

Where one module ends another begins. `SignalQueue` ends where the worker
processes a message; `EntryExecution` begins with a delivery and takes what the
queue may do as constants (`RcptOf` says whether two deliveries carry one
receipt). `AccountGuards` takes `process_trade` as one step that places an order
or not; `PositionLifecycle` begins with what the entry leaves (a filled row, a
row that never was an order, an entry still under way). `OptimizerRuns` sees its
child from outside, as lines on a pipe; `PairWorkers` is that child and takes a
backtest as one step that succeeds, finds no data or fails; `BacktestTrials` is
such a backtest.

### EntryExecution

- `rows` is `trading_signals`. A row has a trade key, an account (or none), a
  status and a `broker_order_id`. Its identity is who inserted it: the webhook
  (a receipt), a global rejection (a delivery) or a thread.
- `lock` is the set of `trade_lock:*` keys in Redis; `sid[d]` the `_signal_id` a
  delivery was stamped with; `alert[t]` the row `save_alert` returned; `orders`
  what the broker has accepted, by thread and attempt.
- `pc[t]` follows `_execute_for_profile` and `logic.process_trade`:
  `claim -> check -> guard -> submit -> filled -> notify -> done`, with
  `reject`, `refused` and `raised` beside it.
- One action per step that can be interleaved: `Claim` (SET NX EX), `CheckRow`
  (SELECT), `SaveAlert` (UPDATE of the receipt's row, else INSERT), `Post` (one
  POST), `LinkFill` (UPDATE of the rows of key and account), and so on.
- `Conflict` is the pair of partial unique indexes of migration 069; every write
  that could violate them is guarded by it and fails as the code's write fails
  (`save_result` logs, `save_alert` raises).
- `ReadStuck`/`ExpireStuck` are `expire_stuck_pending`: a SELECT, then updates
  by id that do not look again.

### SignalQueue

- `queue` and `dead` are the two Redis lists. A dead letter has its id (the
  millisecond), its payload and its place `at` in the list: new ones are pushed to
  one end and requests take them by id from anywhere, so a set of letters ordered
  by `at` is the list. `held`/`stage` are the worker's local state, `admin[c]` an
  open admin request.
- `PushReturns` and `PushRaises` are `push_payload` with its dead-letter
  fallback, for the webhook and the admin's retry. `"ambiguous"` is a push that
  raises after Redis took the message.
- `Reject` never raises and may fail to dead-letter; `ProcessError` and
  `ProcessConnError` are the two `except` clauses of the loop, of which the
  second drops the message.
- `FindLetter` (LRANGE), `RemoveLetter` (LREM) and `Requeue` (RPUSH) are the
  three steps of a retry, between which another request may get.
- `lost` and `doubled` are history: the messages the code is known to let go of
  or to let exist twice. A message enters them only in the steps that do it, so
  that `NothingLost` and `OneCopy` say there is no other way.

### PositionLifecycle

- `row[a]` is the row of the trade on account `a`: status, whether it has a
  `broker_order_id`, and where its `pnl_usd` comes from. `CLOSED` and `closed`,
  which different writers use, are one status: every test modelled ignores case.
- `pos[a]` is the broker's position, `deal` the accounts whose history shows the
  exit deal (it may show later than the close).
- `job[p]` is what the loop of process `p` is at: an exit with the targets left,
  a watchdog run with the rows left, a reconciliation with the profiles left.
  `desk[c]` is a thread of the API process: a deal of the stream, a manual close,
  a clean-up, a backfill. Each database or broker call is a step; all of them
  write by row id what they decided on earlier, exactly as the code does.
  `BatchClose` is one update and needs no thread.
- The four lists of "never executed" statuses in `worker.py`, `logic.py` and
  `supabase.py` differ, and the module keeps them apart (`NotTargeted`,
  `Rejected`, `NonExecuted`).
- `mode` is the system mode. A PAPER trade has OPEN rows with a made-up order id
  and nothing at the broker; its exit closes every row of the key (`PaperExit`).
- `Primary` is the account of `get_primary_credentials`: watchdog, stream and
  the pages ask it only, and an exit without a profile goes to it.

### AccountGuards

- `kill` holds the keys `trading:kill_switch[:name]`; `Default` stands for the
  key without a name, which is the default account's *and* the one the dashboard
  turns. `today` is `risk_deployed_pct` under `pine:today_trades[:name]`, `snap`
  the balance snapshots (the first of the day and a recent one).
- `th[a]` is the thread of account `a`: `kill -> mtm -> budget -> rest -> go ->
  record -> write`. `CheckKillSwitch`, `Guardian` and `CheckBudget` are the
  guards with state; `OtherGuards` passes or rejects; `ReadToday` and
  `WriteToday` are the two halves of `record_trade_result`, which takes no name.
- `Moves`, `Closes`, `Sync`, `SnapExpires`, `NewDay` and `Rollup` are the broker,
  the snapshot job, midnight and the daily reset; `Engage`, `Reset` and
  `SwitchMode` the dashboard.
- Abstractions: an account may hold a position from before (`HeldOver`);
  snapshots are filed under the profile's name; the profit of a closed trade is
  in the table at once; equity does not rise above `Start`.

### StopManagement

- The stop is kept three times: `bsl` at the broker, `row.sl` in
  `trading_signals`, `trail[t].cur` in `trailing_stops`. `job` is the worker's
  pass: a snapshot of the active rows, the rows left, the row in hand.
- `StartPass`, `SkipRow`, `Look`, `MoveBroker`, `SaveRow`, `SaveTrail` are
  `update_trailing_stops`; `BeWaits`, `BeTriggers`, `BeMoves`, `BeSaves` are
  `check_and_trigger`. `AskModify`/`SaveModified`, `AddTrailing`,
  `RemoveTrailing`, `BatchBreakeven` and `RowCloses` are requests.
- `Modify` is `modify_position` by its outcomes: done, refused, done with the
  reply lost, refused with HTTP 200.
- The trade is a buy; a sell is its mirror image.

### BrokerRequest

- `call[c]` is one call of a client's adapter: attempts `n`, 504s among them `d`,
  whether an attempt has raised. `open` is the set of breaker keys in Redis.
- `KeyOf` is `_circuit_breaker_account_key`: the account's name, or its id if the
  adapter was built without one. `Ask` looks at that key and the global one.
- `Answered`, `TimesOut`, `Limited`, `Disconnected`, `ServerError` are the ways
  one attempt ends; `Close` is a key's expiry or a reset.

### OptimizerRuns, PairWorkers, BacktestTrials

- `OptimizerRuns`: `status[r]` and `result[r][p]` are the two tables, `req[c]` a
  request of the dashboard between two statements, `agent` the agent's loop,
  `child` and `pipe` the process it has spawned and its output. Start is three
  statements (`CheckActive`, `CreateRun`, `CreateResults`), cancel four or more.
  `PatchRun` and `PatchResult` overwrite without looking. The agent asks for its run
  every few seconds and before the final PATCH, and looks for the status in the
  wrong place, so that no step of it depends on the answer: `SetFinal` is the whole
  end of a child, and only `StreamBreaks`, an error on the child's output, ends one.
  `Verdicts` is what `run_finished` may say. `Begin` assumes that
  the inserts of a new run are over before the child, which takes seconds to
  start, reports its first pair.
- `PairWorkers`: a coroutine gives way only while it optimizes and while it waits
  for a retry, so what lies between is one action. `results` is the dictionary,
  `disk` the file, which a kill may leave torn; `said` is the last event. `queue[p]`
  counts, since a list may name a pair more than once (`Times`).
- `BacktestTrials`: `chart` is what the tab is set to, `shown` what its report
  belongs to, `calc` the recalculation that makes the two agree. `TakeSnapshot`,
  `Confirm`, `Wait`, `Check` are one attempt of `_apply_params` and `ApplyAgain` the
  next; `Ask`, `Read`, `Decide`, `Publish` the search, `TrialTimeout` and
  `PairTimeout` its limits, `todo` the positions of the list of pairs that are yet to
  come, `Save`, `Crash` and `Pending` the checkpoint: `checkpoint` is what the process
  holds, `done` what a start would find in the file, which `Written` may empty. `Value`
  says what each parameter set really shows; two sets may show the same.
  `Fingerprints` is what `_get_results_hash` may return: the hash of no text stands
  for a report that cannot be read, and the code takes it for a hash like any other.
  `sure` is history: it tells whether both fingerprints of a trial were read.
- What is assumed of TradingView: it starts a recalculation anew when inputs
  change; it recalculates for a new symbol before the chart counts as ready;
  and one that starts late ends before the next trial takes its first snapshot
  (the fault `later` drops that).

### AlertSetup

- `batch` and `res` are the tables, `cancel[b]` a request to cancel between its
  statements, `alerts[p]` the alerts TradingView has for a pair, `agent` the
  agent's place in `AlertBatchRunner.run`.
- `McpLooks`/`McpSubmits` are the MCP's way, `BrowserLooks`/`BrowserSubmits` the
  browser's, and `FallBack` the exception that leads from one to the other. A
  step may fail before or after its effect. `Shows` is what the text of the
  alerts panel says, in which pair and timeframe may belong to two alerts.
- `Patch` is a request that may be lost. `MarkRunning` writes over a cancel that came
  after the poll; `overruled` has the batches to which that happened, and `late` counts
  the alerts made after a cancel, overruled or not (both history). `Dies` ends the agent, which forgets.
  `StartBatch` inserts batch and rows at once: the agent checks Chrome and its
  backends before it reports on a row.

## 3. The runs

Symmetry is not used, since the instances distinguish their accounts, batches
and pairs by what they are used for. `CHECK_DEADLOCK FALSE` is set everywhere:
an instance has finitely many webhooks, batches or pairs, and when they are
through the system rests.

| Run | Question | Instance |
|---|---|---|
| `entry_once` | one order, row first, ledger implemented, no row PENDING for ever | one trade sent twice, 2 workers, 1 account, 2 attempts, all faults but `lost_reply` |
| `entry_exits` | can the exit find every fill; are drops justified; does an OPEN row stay | the same with 2 accounts, 1 attempt, faults `redis`, `db_read` and `ttl` |
| `queue_order` | nothing lost, nothing doubled, entry before exit, the list drains | entry, exit and an invalid message, 2 admins, 1 retry, 2 milliseconds, all six faults |
| `position_tracked` | open positions stay tracked, closed rows stay closed, silent closes are noticed | 2 accounts (one entry still under way), 2 processes, 1 API thread, 2 exits, `deals`, `lost_reply` |
| `stop_pass` | does the trail follow, does break-even fire, and once | prices 1..5, 2 trailing rows, 2 requests, all faults but `db_write` |
| `breaker_holds` | isolation of accounts, late calls, silent failures, reopening | 3 clients of 2 accounts (one without a name), 3 attempts, 2 of them 504, all faults |
| `guards_hold` | do kills hold, are they earned, does the budget bind | default and one named account, 2 signals, 1 night, 1 click, `redis`, `raises`, `breaker` |
| `optimizer_ends` | completed is complete, runs end, ended runs are not taken up again | 2 runs, 2 requests, 1 restart, 1 cancel, 1 lost PATCH, a pipe of 2 lines |
| `optimizer_cancel` (violation) | "The local agent polls for this and stops." | the same, no restart, no lost PATCH |
| `pairs_handled` | no pair lost, done twice or misreported; work is kept | 4 pairs, each listed once, 2 workers, 3 attempts each, 2 executions, `torn_write` |
| `trials_true` | whose numbers are told, is the best published, do the pairs come in turn and none is left over, does the search end | 2 pairs, 2 parameter sets, 2 trials, 2 attempts, 1 crash, all faults but `later` |
| `alerts_made` | one alert per pair, reports that are true, cancel, end | 2 batches for the same 2 pairs, 1 cancel, 1 loss, `unready`, `ui`, `lost`, `dies` |

Each property of a passing run is shown to bite by a mutant of the code, given
beside the definition it mutates and listed in `PROJECT.json`. The type
invariants, stated in every module, are proved (section 4).

### Bounds, and why they are enough

- `entry_*`: two deliveries of one trade are the least that can race and the most
  that differ: a third meets the same row and the same claim as the second. Two
  accounts show every confusion of one account's row with another's.
  `MaxAttempts` 2 has one retry; the code's three repeat it.
- `queue_order`: an entry and its exit show every reordering, and the invalid
  message a path that ends before processing. One dead-letter retry by each of
  two admins on one letter is the race; `MaxClock` 1 makes ids collide or differ.
  One push of a run may be ambiguous (`doubled = {}` in `PushFails`), since after
  it the message is excused anyway. The module also passes with `MaxRetries` 2
  and no ambiguous push, and with a message that is not JSON.
- `position_tracked`: one position that is open and one whose entry is under way,
  the two states an exit can meet; two processes, because a deployment overlaps
  its predecessor once; an exit and its duplicate.
- `stop_pass`: with an entry at 3, a stop at 1 and a trigger at 5 the price can
  activate a waiting row, trigger break-even and fall back through every stop.
- `breaker_holds`: `MaxRetries` 2 and `MaxDisconnect` 1 (4 and 2 in the code) keep
  the order in which the two budgets run out, all 504, mixed, none.
- `guards_hold`: `Start` 2 and `LimitPct` 50 make the first lost unit the limit;
  `Budget` 1 and `Risk` 1 make the second trade the one too many.
- `optimizer_ends`: the second run is what makes the newest-first poll and the
  overlap of two runs possible; a pipe of two lines fills and blocks the child.
- `pairs_handled`: more pairs than workers, so that each worker takes a second
  pair while the other retries; the second execution is the resumed one.
- `trials_true`: two trials have room for a failure, the reload after it and a success
  (`MaxFailures` 1, 3 in the code), or for a better and a worse one; of the two sets one
  looks like the baseline on one pair and cannot be deployed there; `MaxAttempts` 2 of 3
  attempts; of two pairs one is finished when the file is lost and one is at hand.
- `alerts_made`: two batches for the same pairs are what the second alert needs.

### Faults that a passing run leaves out

A run leaves a fault out if one of its properties is false with it; section 5 says
what happens then. A theorem excludes only the faults with which its own property
is false (section 4), so several theorems allow faults that the run of their
property leaves out.

- `entry_once`: `lost_reply`. `entry_exits`: `lost_reply`, `db_write`, `notify` and
  `old_pending`, each of which leaves an order whose row an exit passes over, by
  code that logs and goes on (`src/logic.py` 883-952, 1069-1104); and `crash`,
  with which a trade is skipped that nobody handles.
- `position_tracked`: `db_read`, `positions`, `refused_200`, `mode_toggle`,
  `early_exit`, `partial`, `unasked` and `sweep` (`OpenIsTracked`), `db_write`
  (`NoGhosts`); and `Foreign` is empty.
- `stop_pass`: `db_write`, with which `current_sl` lags behind until the next
  pass. `pairs_handled`: `disk_full`, where the file keeps the last state it took.
- `pairs_handled` and `optimizer_ends` list each pair once and have rows that name
  brokers. `guards_hold`: `no_status`. `alerts_made`: `slow`, `blind`, and `Old` is
  empty.
- `trials_true`: `later`; the range is a preset one.

### Fairness

- `EntryExecution!FairSpec`: a thread that can go on does (threads of a pool run
  to the end unless the process dies, which is `Crash`), a delivery that waits is
  taken (the loop pops whenever the list is not empty), and the watchdog runs
  (every 60 s in the same loop). `Webhook`, `Expire` and `Crash` are not fair.
  `RowsSettle` holds even if updates fail, because the watchdog comes back.
- `SignalQueue!FairSpec`: the worker's step only. Admins, webhooks and the clock
  owe nothing.
- `PositionLifecycle!FairSpec`: a job that is begun goes on (requests have
  time-outs); reconciliation starts again and again (strong fairness: it competes
  with exits and watchdog runs for the loop, and its timer is tested at every
  turn); an entry ends. Neither the broker, nor the history of deals, nor the API
  process is fair, and no request has to succeed.
- `StopManagement!FairSpec`: the worker's pass goes on, every 60 s anew; a price
  that is asked for again and again is had in the end (strong fairness of
  `BeTriggers`). Nobody at the dashboard has to do anything.
- `BrokerRequest!FairSpec`: clients poll, attempts time out, sleeps end, keys have
  a time to live.
- `OptimizerRuns!FairRunsSpec`: the agent's loop, a child that does not hang, and
  TradingView being ready in the end for a run that is asked
  for again and again (strong fairness of `MarkRunning`, beside `NotReady`).
  Requests may be abandoned, except that the two inserts of a new run follow each
  other.
- `AlertSetup!Spec`: the agent's step; each step at TradingView has a timeout.
- `BacktestTrials!FairSearchSpec`: the search goes on, TradingView recalculates, and a
  time limit passes while a call hangs. No limit has to pass otherwise.
- `AccountGuards` and the instances of `entry_exits` and `pairs_handled` state
  safety only. `PairWorkers!FairSpec` and `Ends` are there for a reader; its
  coroutines only ever wait for a tab or a timer.

## 4. What is proved

Every invariant and every action property that a passing run checks is a theorem
for all values of the constants: for every set of keys, receipts, messages,
accounts, pairs, batches and runs, every number of processes, workers, attempts,
requests, restarts and crashes. `DoneStays`, which no run checks because the run of its
module lets writes fail, is proved of writes that do not. What a theorem assumes is that
some fault does not happen, or a fact about the constants.

The assumptions are tight: TLC finds a counterexample to the property as soon as
any one of the faults that its theorem excludes is added to the instance of its
run, or the constants are given values that break the assumption on them (two
deliveries of one receipt, two accounts of one name, more disconnections than
attempts, no worker, rows without a broker, an old alert, a list that names a pair
twice). With the faults that a theorem does not exclude the property holds on
that instance too.

| Module | Theorem | Statement | Assumes |
|---|---|---|---|
| `EntryExecutionProofs` | `TypeCorrect` | `[]TypeOK` | - |
| | `OrdersHaveRows` | `[]OrderHasRow` | - |
| | `OneOrder` | `[]OneOrderPerAccount` | `DistinctReceipts`, no `lost_reply` |
| | `LedgerImplemented` | `ImplementsLedger` | the same |
| | `SkipsAreHandled` | `[]SkippedOnlyIfHandled` | no `crash` |
| | `OpenRowsStayOpen` | `OpenStaysOpen` | `DistinctReceipts`, no `notify`, `old_pending` |
| | `ExitsFindOrders` | `[]ExitFindsOrder` | `DistinctReceipts`, no `lost_reply`, `notify`, `db_write`, `old_pending` |
| `SignalQueueProofs` | `TypeCorrect` | `[](TypeOK /\ HeldInv)` | - |
| | `NothingIsLost` | `[]NothingLost` | - |
| | `CopiesAreOne` | `[]OneCopy` | - |
| | `EntriesGoFirst` | `[]EntryFirst` | - |
| | `RepeatsComeFromRetries` | no message is taken twice but after a retry | - |
| | `DeliveriesAreDistinct` | no message is taken twice | `MaxRetries = 0` |
| `PositionLifecycleProofs` | `TypeCorrect` | `[]TypeOK` | - |
| | `PositionsTracked` | `[]OpenIsTracked` | `HonestFaults` |
| | `ClosedForGood` | `ClosedStaysClosed` | no `early_exit` |
| `AccountGuardsProofs` | `TypeCorrect` | `[]TypeOK` | - |
| | `KillsHold` | `[]KillHolds` | - |
| | `KillsAreEarned` | `[]NoPhantomKill` | `HonestStatus` |
| | `BudgetKept` | `[]BudgetHolds` | - |
| `StopManagementProofs` | `TypeCorrect` | `[]TypeOK` | - |
| | `BreakEvenFiresOnce` | `[]BeFiresOnce` | no `db_write` |
| | `StopsFollow` | `[]TrailFollows` | no `db_write` |
| `BrokerRequestProofs` | `TypeCorrect` | `[]TypeOK` | - |
| | `BreakersAreIsolated` | `[]Isolated` | `SeparateKeys` |
| | `OneLateCall` | `[]NothingLate` | - |
| | `FailuresAreHeard` | `[]NoSilentFailure` | `MaxDisconnect <= MaxRetries` |
| `OptimizerProofs` | `TypeCorrect` | `[]TypeOK` of `PairWorkers` | - |
| | `PlaceIsOne` | `[]OnePlace` | each pair listed once |
| | `FinishedHandlesAll` | `[]AllHandled` | no `disk_full`, `Workers # {}` |
| | `EventsTellTheFile` | `[]EventMatchesFile` | no `disk_full` |
| | `CompletedWorkIsKept` | `WorkKept` | no `disk_full`, each pair listed once |
| | `RunsTypeCorrect` | `[]RunsTypeOK` | - |
| | `CompletedRunsAreComplete` | `[]CompletedIsComplete` | `RowsNameBroker` |
| | `EndedRunsStayEnded` | `EndedStaysEnded` | - |
| | `SearchTypeCorrect` | `[]SearchTypeOK` | - |
| | `ScoresAreOwn` | `[]TrialIsOwn` | no `later` |
| | `BestTrialIsPublished` | `[]BestIsPublished` | - |
| | `FinishedPairsStay` | `DoneStays` | no `torn`, `full`, `PairsDiffer` |
| | `EndedRunsAccountForAll` | the process of an ended run has a result for each pair or gave it up | - |
| | `SearchGoesInTurn` | `ImplementsPairsInTurn` | `PairsDiffer` |
| `AlertSetupProofs` | `TypeCorrect` | `[]TypeOK` | - |
| | `PairsHaveOneAlert` | `[]OneAlert` | no `slow`, `blind` |
| | `DoneRowsHaveAlerts` | `[]DoneHasAlert` | `Old = {}` |
| | `CompletedBatchesAreComplete` | `[]CompletedIsComplete` | `Old = {}` |
| | `CancelStopsTheAgent` | `[]CancelStops` | no `slow` |

Each statement is `Spec => ...` of the module it is about (`RunsSpec` and
`SearchSpec` for `OptimizerRuns` and `BacktestTrials`, whose names differ from
those of `PairWorkers` so that one module can be about the three). The proofs use
the assumptions on constants that the modules state: numbers are natural numbers,
names of nothing are no names of something. Every invariant below was first
checked with TLC on the instance of the run.

**The entry path.** Nothing is assumed about Redis, the claim's expiry, the row
check, crashes or failed writes, so `OneOrder` says that the unique index alone
carries the guarantee; the claim and the check are conveniences. Without either
assumption it is false (section 5).

`OneOrderPerAccount` is not inductive: it says nothing of a thread about to post.
What is carried along is that a thread between `submit` and `notify` owns its
alert row (the row is live and has the thread's key and account), that rows of
one key and account are unique (the index), that an alert row belongs to one
thread only (a thread's own row, or the receipt's, which one delivery's `First`
thread can have), and that an order exists only for a thread that has posted. Two
threads of one trade and account past `guard` would then own two rows of one key
and account, or one row both, and neither is possible. The index enters in
`SaveAlert` and `SaveResult`, the two writes that could create a second row.

The refinement adds that a receipt's row has the receipt's key and no account or
the first one, so that an update never takes a pair of key and account off the
ledger. Every step but a POST is then `Record` (perhaps of nothing), and a POST
that reaches the broker is `Place`, whose guard is `OneOrderPerAccount` of the
next state.

**The position.** The two theorems need different things. `ClosedStaysClosed` is about
rows only, and holds although updates are lost, lists and replies are wrong, and
requests close what is open: nearly every writer can only close. The exception is
`MarkUnexecuted`, which names the trade key and so writes every row. Its guard is
a PENDING row read a step earlier, and `OrdersInv` says why that is enough: the
targets of an exit were chosen for their orders, so such a row is read only by
way of the trade key, which prefers a row that was executed; hence none was, no
row has an order, and none can get one because the entries are through. An exit
that comes earlier breaks the last step, and the theorem excludes only that.

For `OpenIsTracked`, `HonestFaults` allows lost updates, a lost reply to a close
and a history that does not answer; each of the other eight faults makes it false.
All writers act on what they read some steps ago, so
the invariant says what of it is still true: `JobOK` for the loop, `DeskOK` for
the threads of the API. An exit without a target was read when no row of the
trade had an order, and stays right since no entry is under way; when an exit
saves a row, its position is closed. A reconciliation about to close a row has
seen its position not open, and the row has an order, so no entry can open it
again. A thread of the API that is about to close a row holds one whose position
is not open. None of this is undone by another process, because a position never
reopens and a row never loses its order. With it, every step changes a row's
status only when the position is not open.

**The guards.** `KillsHold` needs that a thread which has passed `CheckKillSwitch`
either took its data or is marked as having gone on without it, and that whoever
is told to stop after that has not been told at `Process`. `KillsAreEarned` rests
on what a snapshot can say: a balance or an equity in it was the account's, and low
only if the account was; a day's start is no more than `Start`, and a loss from
less is a loss from more; closed profit is no less than what is gone. So a
guardian that sees the limit reached sees a loss that happened. The assumption
`HonestStatus` is that no balance is stored as zero for want of an answer.
`BudgetKept` counts: unless something is `unsure`, the budget key, with the risk
of an order about to be recorded, covers the orders of the default account since
the rollup; so does every number that a thread has read and is about to write,
which is what makes the lost update of two accounts harmless; and a thread passes
`CheckBudget` only below the budget. What other accounts add to the same key only
makes it tighter.

**The entry path, seen from the exit.** `SkippedOnlyIfHandled` rests on two facts.
A claim in Redis is held by a thread that still works or has finished, and a live
row of a trade and account was written by such a thread: only a dying worker would
leave either behind. For `OpenStaysOpen` the watchdog is the danger, because it
reads stuck rows and expires them later without looking again. So `OpenInv` says
of what it has read that no order is linked to it and its thread is through;
each PENDING row is some thread's alert row; and a row with a live order is OPEN
and the alert row of the thread that ordered, which is past every write.
`ExitFindsOrder` adds that an order of a thread that is through is the one its row
names (`LinkInv`): between the POST and the link only the thread itself writes
the row, if no write is lost.

**The queue.** The theorems about lists and messages hold with every fault. `KeptInv` lists the places a
message may be in: the list, the worker, the dead letters, an admin's hands,
processed, discarded, or let go of by one of the steps that are known to do it.
`OneInv` is the other half: unless a message is excused it is in *one* of these
places, once. It needs that two letters have different ids when one request works
on one of them, or else the request's removal takes the other, which is one of
the two excuses. For `EntryFirst`, `OrderInv` says that an entry that never was a
dead letter stands before its exit in the list and among what was processed, and
that an exit is not in the worker's hands while its entry is in the list; the
webhooks of the two come in that order, and only a dead letter leaves the line.

The last two are what the entry path asks of the queue. They are about `DSpec`,
which is `Spec` with two history variables: `taken`, the messages that `Validate`
handed to `process_signal`, in order, and `retried`, those that a `Requeue` put
back. `taken` is `EntryExecution`'s `RcptOf` and its positions are the `Deliveries`,
so that `DistinctDeliveries` is `DistinctReceipts` of every prefix of a run.
`WaitInv` says that a message which was not retried waits once and does not wait
any more when it has been taken; neither an ambiguous push nor two requests for
one letter break it, since what they leave behind is a dead letter, which comes
back by a retry only. So `OneOrder`, `OpenRowsStayOpen` and `ExitsFindOrders` hold
of the deliveries of the queue as long as nobody retries a dead letter. With one
retry `DistinctDeliveries` is false, as TLC shows on the instance of `queue_order`:
a message whose processing raised is dead-lettered, retried and taken again.

**The stop.** `BeInv`: once break-even has been sent, the row is marked or the pass
is at the step that marks it, and `be_triggered` is never reset. `TrailInv` is
about a snapshot that ages: while a row waits in the pass, its `cur` in the table
has not fallen below that in the snapshot (nobody lowers it but the pass itself),
so what the pass decides from the snapshot is still close enough to the high it
saves. A lost update would leave `high` ahead of `cur`.

**The breaker.** `Isolated`: an open key belongs to somebody who was limited.
`SeparateKeys` says that accounts have keys of their own, none called as the
legacy key, which holds when each account has one name; two accounts of one name
share a breaker. `NothingLate`: a client past its question and before its first
POST, while its key is open, has begun no call since the key was opened, so that
one call at most comes late however often the key is opened. `CountInv` counts:
an attempt that neither raised nor met a 5xx was a 504, and with
`MaxDisconnect <= MaxRetries` (2 and 4 in the code) the 504s alone end in the
branch that sends the alert.

**The workers.** `PlaceInv` adds to `OnePlace` that a pair in a worker's hands has
left the queue, which is so only if the list named it once: a pair listed twice is in
two hands at a time, and its second result replaces the first. `RunningInv` says that the file is what the dictionary is, that no
coroutine has died, that a pair without a result is in the queue or in somebody's
hands, and that a worker leaves only when the queue is empty, which together make
a finished run one that has handled every pair. `--workers 0` starts no tab and
finishes at once with nothing handled, so `Workers # {}` is needed, and a full
disk kills the coroutine that writes.

**The runs.** A run is `completed` when the last line of the pipe says so, or the
agent when the child has exited well, both of which come after the last report. The
agent overwrites whatever is there, so nothing follows from a status before, and that
makes the statement no less true: it is about the results. The invariant follows a pair from the
child to the table: what the child has finished is in the pipe or, if nothing of
the pair is left in the pipe, written (`WorkInv`); an event that ends the run is
the last in the pipe and stands for a child with nothing left to do (`ChildInv`);
and what is in the table is not taken back by a cancel or by the insertion of the
rows, whose request comes before the child's first line (`ReqInv`, `StageInv`).
If rows do not name the broker, no event finds its row, and the statement is false.
`EndedStaysEnded` needs the type invariant only: of those who write a status, a start
takes a row that has none, a cancel and a restart write a status that is final, and
the agent writes to its own run, which it takes from those that are queued.

**The search.** `FreshInv` follows the report from the snapshot to the read: until
the report of the settings that were asked for is shown, the numbers shown are
those of the snapshot; so numbers that differ from the snapshot, and differ still
when they are read again, are the right ones. A recalculation that is later than
the next trial's snapshot breaks just this, and so does a snapshot or a comparison
that could not be read: the property claims nothing of these (`sure`), and without the
condition it is `NeverStale`, which is false. `BestInv` holds with every fault: the
best trial in hand is a trial told with the highest score, the replay applies its
parameters, and every way out of the pair (end, time limit, failure streak, failed
replay) publishes that one. `DoneStays` needs that a finished pair is not among
those that are yet to come, hence that no pair is listed twice: nothing in
`optimizer.py` would stop a list that names a pair twice from running it twice. It
needs, too, that the file has what the process has (`FileInv`), which a write that
fails ends: the process goes on with all its results, and the file has none.
`SearchGoesInTurn` maps the search to `PairsInTurn`, which knows nothing of trials,
tabs and limits. The steps that count are a pair coming to hand, `Save`, `Reject`, the
end and a crash; `TurnCases` says that every other step stutters. A result that
is saved is one (`SaveInv`) and goes where there was none (`DoneInv`), and no pair
is left over when the run ends (`Accounted`, which needs no assumption at all and is
`EndedRunsAccountForAll`). All this is about what the process has. `PairsInTurn` keeps
what is written down apart (`kept`), and where writes may fail (`Lossy`) it may lag
behind or be gone, which a restart then takes for the truth.

**The alerts.** `OneInv`: an agent at a submit has seen that the pair has no alert,
and nobody else makes one; a submit that takes effect and then fails is followed
by another look, and with `slow` or `blind` this look sees nothing. Reports that a
pair is done are made from a look or a submit, and alerts are not removed, so
`DoneInv` is inductive as soon as the panel can show no alert of another timeframe
(`Old = {}`). `CompleteInv` says that the pairs the agent has left behind have
their alert unless one of them failed. `LateInv`: an alert made after a cancel
that the agent has not overruled leaves the batch cancelled under the agent's hands, so
that it stops at the next pair. A cancel that falls between the poll and `MarkRunning`
is overruled and has no effect at all (`CancelObeyed` is false).

**What stays with TLC.** All liveness: `RowsSettle`, `QueueDrains`, `NoGhosts`,
`BeFires`, `Retried`, `RunsEnd`, `BatchEnds` and `SearchEnds`. TLAPS has no rules for
fairness and ENABLED to prove them with. The safety properties that are only checked
are those that are false (section 5).

## 5. What the code does not keep

`optimizer_cancel` shows a disagreement of code and comment. `GET /runs/{id}` answers
`{"run": run}` (`src/api_optimizer_runs.py` 186), and the agent reads `status` of
that answer (`scripts/optimizer/local_agent.py` 835), not of the run in it: it never sees
a cancel. `src/services/optimizer_run_service.py` 820 says "Mark a run as cancelled.
The local agent polls for this and stops." In the run a cancelled run whose child hangs
stays cancelled, and its child is never ended.

More properties that state what the repository says of itself are in the modules and are
false. Each is reproduced by putting it into the `.cfg` of the module's run, with the
change named.

| Module | Property | With | What is said | What happens |
|---|---|---|---|---|
| `AccountGuards` | `EmergencyStop` | `Faults = {}` | "Toggle Redis key (worker reads this on every trade)" (`src/api_risk.py` 459) | the dashboard sets `trading:kill_switch`, and `run_account_guards` reads a key of its own for every account with a name: the default account stops, no other |
| `OptimizerRuns` | `VerdictStands` | `RowsNameBroker = FALSE` | "Check if the backend already set a terminal status (e.g. via run_finished event)" (`local_agent.py` 553) | the same wrapper is read the same way: the final PATCH is always sent, and a run that `run_finished` has set to failed becomes completed when the child exits with 0 |
| `PairWorkers` | `WorkKept` | `Times <- Twice` | "Write results incrementally — never lose completed work" (`parallel_runner.py` 830) | a pair that `--pairs` names twice is optimized twice, and the second result, a failure perhaps, replaces the first |
| `BacktestTrials` | `NeverStale` | `late`, `blind` | "so we never read stale results" (`tab_worker.py` 6) | the fingerprint of a report that cannot be read is the md5 of no text; it is not empty, so the guard at 4181 is dead, and any numbers differ from it, those of the settings before too |
| | `DoneStays` | `full` | "Append one completed pair to checkpoint.json immediately." (`optimizer.py` 340) | a write that fails has emptied the file and is only printed; the run goes on, and a restart begins anew |
| `AlertSetup` | `CancelObeyed` | `Faults = {}` | `cancelled["status"] == "cancelled"` (`tests/test_alert_setup_service.py` 161) | a cancel between poll and PATCH is overwritten by `running` (`local_agent.py` 722), and the agent makes every alert of the batch |

What else the code does not keep, reproduced in the same way:

| Module | Property | Fault or constant | What happens |
|---|---|---|---|
| `EntryExecution` | `OneOrderPerAccount` | `lost_reply` | a POST that timed out was executed, and is sent again |
| | `OneOrderPerAccount` | `RcptOf <- BothOfOne` with `KeyOf <- SentOnce`, `redis` | a receipt delivered twice updates its own row, which the index allows |
| | `CrashDoesNotBlockRetries` | `crash`, `ttl` | the PENDING row of a dead worker outlives the claim and blocks the trade |
| `SignalQueue` | `RejectedIsDead` | `Malformed = {garbage}` | a message that is not JSON is dropped, not dead-lettered |
| `PositionLifecycle` | `OpenIsTracked` | `positions` | a list that cannot be fetched is empty, and the rows are closed |
| | | `partial`, `unasked`, `sweep` | the deal of a partial close, a close whatever the broker answers, or a clean-up against another account's positions closes the row of an open position |
| | `NoGhosts` | `Foreign = {a1}` | a profile without MetaApi credentials ends every pass before the profiles after it |
| | `BrokerPnlKept` | - | a late exit overwrites the broker's profit with the alert's |
| `StopManagement` | `TrailingTightens` | - | a row compares with its own `current_sl` as the snapshot has it and loosens a stop that break-even or somebody else has moved (`trailing_stop_manager.py` 308) |
| | `TrailAfterBe` | - | the handover reads `sl` from a row whose query did not select it and never adds the trailing stop |
| `BrokerRequest` | `SharedState` | `AccountOf <- OneAccount`, whose adapters differ in `NameOf` | the breaker is set under the name by one adapter and looked up under the id by another (`circuit_breaker.py` 3) |
| `AccountGuards` | `FailClosed` | `redis` | the switch and the budget are passed over when Redis fails and the signal is stamped PAPER, or when the summary's read is swallowed |
| | `NoPhantomKill` | `no_status` | a balance that could not be read counts as zero, a loss of everything |
| `OptimizerRuns` | `OneActiveRun` | - | two requests pass `_active_run_exists` before either inserts |
| | `CompletedIsComplete` | `RowsNameBroker = FALSE` | events name a broker, rows of the ordinary modes do not, and no row is found |
| `PairWorkers` | `NeverLost` | `torn_write` | a kill between opening and writing the file loses the work of all pairs |
| `AlertSetup` | `OneAlert` | `slow`, `blind` | a dialog that closes late, or a panel that is not found, leads to a second submit |
| | `DoneHasAlert` | `Old` not empty | pair and timeframe are found in the panel's text, of two alerts |
| `BacktestTrials` | `PublishedIsMeasured` | `late` | the replay accepts numbers that have not changed, and they may be another trial's (`optimizer.py` 790) |
| | `PublishedIsReplayed` | `hang` or `slow` | the replay's `TimeoutError` reaches the handler of the pair's limit (`optimizer.py` 936), which publishes the best trial unreplayed |
| | `RejectedForCause` | `BacktestRange = "custom"` | `finalize` asks for `trade_coverage_verified`, which `_read_results` records as not applicable (`tab_worker.py` 4693-4698), so every pair is rejected; the workflow of `scripts/optimizer/README.md` 191-210 runs with a custom range |
| | `DoneIsSaved` | `crash` | pairs finished before a restart are skipped and missing from `best_settings` |
| | `DoneStays` | `crash`, `torn` | `checkpoint.json` is rewritten in place; a kill then forgets all pairs |
| | `TrialIsOwn` | `later`, `late`, `dialog` | the numbers of the previous trial arrive as this one's |

Observed on the way and visible in the definitions, with no property of their own:

- A 429 sleeps and returns the response, although the docstring promises None
  (`WakesUp`); 5xx and 504 that use up each other's attempts end in None with
  neither alert nor breaker (`Exhausted`); `modify_position` and
  `_get_symbol_price` never ask the breaker (`Asking`).
- The risk budget of a named account never binds, because `worker.py` 1491 records
  without a name (`RecordKey`); the limit on the number of trades is new with each
  guardian and never reached (`CheckBudget`); guards that count rows of status
  `active` or `executed` count none (`LimitReached`); a named kill key is never
  cleared (`Reset`); the rollup is repeated by a worker restarted in its hour
  (`Rollup`).
- An exit whose alert is PENDING marks every row of the trade key unexecuted
  (`MarkUnexecuted`).
- A lost PATCH leaves a batch queued, and it is taken again; an agent that dies
  leaves a batch or a run `running` for ever (`Dies`); a cancel of a run is overwritten
  by each report of the agent (`PatchRun`).
- A pair has a time limit in `run()` of `optimizer.py`, but not in
  `parallel_runner.py`; a hang there is what `OptimizerRuns!Hang` is.

## 6. What is not modelled

- Sizing, AI scores, prices and the next-wick series, and the guards other than
  kill switch, guardian and budget: numeric filters over one payload; what they
  decide is a choice. The balance cache of `src/logic.py` 114 is a listed hazard
  without a property for that reason.
- The text of notes, notifications and traces; parsing of broker answers.
- The other venues' adapters: one request and one answer, as here; the Binance
  and Bybit streams, which write rows as the MetaApi stream does.
- The R ladder of the trailing stops acts only on rows with `sl_distance_pips`,
  which only the break-even handover adds, and that never happens.
- Clicks, selectors and waits inside the browser automation: a step fails or not.
  The sampler of the study: any choice. Grid, fast, smart and validate modes of
  the search, and `optimize_pairs.py`, an older single-file version of it.
- Dashboards, analytics, artifacts and portfolio services: requests and responses
  over tables that nothing above reads back.
- `src/pipeline/*` other than the guards repeats functions of `worker.py` that the
  worker does not call; the modules follow `worker.py`.
- Most of the repository's lines are of these kinds, so the share that the modules
  stand for is small by count.

## 7. What is left

The model has what it needs to have: entry, queue, position, guards, stops,
requests, optimizer, search and alerts; its safety properties are proved, the
assumption that the entry path makes of the queue is proved of the queue, and the
search is shown to do what its run takes for granted. What would say more is one
module in which `SignalQueue` and `EntryExecution` step together. The theorems of
the two are joined by hand (`DeliveriesAreDistinct` gives what `DistinctReceipts`
assumes); in a common state space a retry could be related to what the first
delivery of its message had already done.
