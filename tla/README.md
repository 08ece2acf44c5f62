# Formal models of the coin trading bots

The repository holds two trading programs. `binance_coinm_v1/` trades one Binance
COIN-M perpetual with leverage: a state machine per trade, protective orders on the
exchange, and a recovery that treats the exchange as the truth. The modules in the root
directory trade Upbit spot markets. This directory holds TLA+ modules of their
control logic, TLC configurations that check them on small instances, and proofs
that the TLA+ proof system checks for every value of the constants. Line numbers below are
those of the sources; paths without a directory are under
`binance_coinm_v1/execution/`.

## 1. Inventory

### The COIN-M bot

| part | state it keeps | operations | hard behaviour | what makes it correct |
|---|---|---|---|---|
| `engine.py` | `trade`, `trading_allowed`, `halts`, the queue of user events; one `asyncio.Lock` | drain events, market tick, bar close, reconcile, startup | everything awaits the network while holding the lock; the exchange moves on meanwhile | one trade at a time; entries only when recovery allows them |
| `entry_manager.py` | fields of the trade record | arm, wait, execute, confirm the fill, adopt the fill from the position | lost answers, partial fills, a failing query after a fill | never two entries; a fill is protected by the trade that bought it |
| `protection_manager.py` | `orders["stop"]`, `stop_price`, target order ids | protect, place targets, move the stop, ensure the stop | new stop before old cancel; refused, unknown or immediately triggering stops | a position always has a stop; the stop never worsens |
| `exit_manager.py` | `close_reason`, ERROR | close, on_flat, finalize, partial close | retries of a close whose result is unknown; cancels that fail | CLOSED means flat and cleaned up |
| `recovery_manager.py` | `halts["recovery"]`, `halts["orphan"]` | the twelve steps at start, after a stream reconnect and every five minutes | works from a snapshot over many awaits; crash inside recovery | everything unknown becomes known; a position is guarded in the end |
| `state_machine.py` | the trade record and its state | transition, progress label | a forbidden transition raises in the middle of a handler | no handler ever asks for one |
| `context.py` | order rows of the database | submit, resolve, wait for the final state, cancel, record fills | row before request; unknown outcome resolved by the same id | no row stays unknown; no blind resend |
| `user_events.py` | tracker of orders, algo orders and trades seen | parse, apply | duplicated, reordered, missing messages | statuses are monotone, a fill counts once |
| `exchange/paper_gateway.py` | a simulated account, its conditional orders, income and fills; saved every ten seconds | market and conditional orders, prices, funding, liquidation, load | several triggers in one update; a kill between a fill and the save | wallet equals income, reduce-only never opens, the rows agree with the fills |
| `exchange/rest_client.py`, `binance_gateway.py`, `errors.py` | clock offset, used weight | signed requests, one resend after a refused timestamp, retries of queries, `place_order` | which failures leave an outcome unknown; a request that waits keeps its old timestamp | a request that changes something is never repeated while it may have arrived |
| `exchange/websocket.py` | connection, listen key, deduplicator, reconnect request | run, keep alive, resubscribe | three tasks at their awaits; a key that dies silently | a lost stream is replaced and a reconcile follows; nothing is missed |
| `exchange/market_data.py`, `runtime/bot.py` bar loop | `_bar_evt`, `last_bar_ts` | wait, fetch the bars, handle every new one | lost notices, late answers, failed turns, a mark that is saved at the end | every closed bar counts once, in time |
| `strategy/signals.py`, `strategy/ladder.py`, `exchange/contract.py` | a trade's rungs, best price, stop | signal to entry, stop and targets; target quantities; exits at a close | cumulative rounding; gaps | targets never exceed the position, stops move one way |
| `risk/sizing.py`, `risk/inverse_math.py` | none | size a position | five limits cut one after the other, each rounded | the greatest allowed quantity, or none |
| `risk/limits.py`, `execution/live_gate.py`, `validation/gate.py` | the equity the day began with, the day it halted | check before an entry, snapshot | two readers, midnight, restarts, an answer without the asset | no entry beyond the loss of the day |
| `backtest/simulator.py` | one trade at a time | bar by bar: stop, targets, time, reversal, arming | what happened first inside a bar | the worse of what a bar allows |
| `storage/db.py` | sqlite in autocommit mode | upsert, insert once | a crash between two writes | what is written survives |
| `runtime/bot.py` | the task set, the heartbeat | event pump, periodic work, shutdown | one task failing, exceptions swallowed and retried | the process comes back (systemd) |

Calls go from the runtime to the engine, from the engine to the four managers, from these to
the context (which owns gateway, database and tracker). Callbacks come back only through
`engine.user_q`, drained under the lock. The database is shared with nobody; the account may
be shared with a person.

### The Upbit bot

| part | state it keeps | operations | hard behaviour | what makes it correct |
|---|---|---|---|---|
| `naked_strategy.py` | live trades, in memory and in `naked/state.json`; the driving task | scan a closed bar, drive on a tick, drain, save, load | the driver awaits orders while scans change the same trades; the clock gives ticks up; a kill between an order and its record | what a trade holds is what memory and disk say; a trade is bought once |
| `execution_engine.py` | a 15 s balance cache, `active_orders` | market buy and sell, synchronise, cancel all, reconcile at startup | checks read cached balances; lost answers | limits hold, sells are sized right |
| `risk_manager.py` | counters of the day, halt, last order times, on disk | check, register, roll the day, update the equity | a check before an await and its registration after it; midnight; restarts | daily limits hold over restarts |
| `naked_strategy.py`, paper | the book of paper trades, `state.json`, the results | handle bars: enter, exit by four variants | results are appended at once, the book is saved later; gaps longer than the candles | a result is what the rules give on the bars there were |
| `main.py` | intervals, cool-down, books, LLM task, life cycle | process_tick, naked_tick, stop | the clock drops a call after 30 s at any await; the end of the process waits only so long | no own buy in a cool-down, every halt told, the last state complete |
| `circuit_breaker.py` | history and count per ticker, the file of the base line | evaluate, save, load | a thread and the end of the process write through the same temporary file | fires once per danger, the base line survives |
| `validate_naked.py`, gate of `main.py` | trades of the backtest and their description, the report, the gate | validate daily, by hand, apply the gate | hours of work while settings, files and days change | real orders only on evidence for what is traded |
| `candle_feed.py` | cached candles, the universe of alts | fetch, refresh | hours without trades, answers that overlap a close, missing spreads | closed candles only, and soon |
| `websocket_feed.py` | tickers, the connection | listen, set tickers, close | tickers change while a connection is made | the connection carries what is wanted |
| `data_recorder.py`, labels of `meta_trainer.py` | buffer, CSV and Parquet files per day | record, flush, compact, purge, label | a thread beside the loop, midnight, kills between two files | each row is there once, a label stays |
| `deploy/watchdog.py` | the alerts sent, on disk | look, alert, clear | messages that do not arrive, a file that is lost | the operator believes what is the case |

The clock runs its iterators together (`asyncio.gather`) and gives each 30 s. Orders of live
trades run in a task of their own, shielded from that. The learning modules are numerical.

## 2. Modules and plan

| order | module | models | state |
|---|---|---|---|
| 1 | `TradeStates` | `state_machine.py`: states, table, forward rule | done |
| 1 | `TradeSlot` | abstract: one trade after the other, bought once, done once | done |
| 1 | `EntryFlow`, `MCEntryFlow`, `EntryFlowProofs`, `EntryOnceProofs` | entry, confirmation, recovery | done |
| 2 | `ProtectExit`, `MCProtectExit`, `ProtectExitProofs` | stop, targets, stop moves, closing, and what events, bars and recovery do to them | done |
| 3 | `FillLedger` | abstract: what the fills table promises | done |
| 3 | `UserEvents`, `MCUserEvents`, `UserEventsProofs` | messages of the user stream against the order tracker, the order rows and the fills table | done |
| 4 | `SpotTrades`, `MCSpotTrades`, `SpotTradesProofs` | Upbit: `naked_strategy.py` live, `execution_engine.py`, `risk_manager.py`, breaker and gate of `main.py` | done |
| 5 | `UserStream`, `RestCall`, `PaperExchange`, composed by `MCExchange`; `ExchangeProofs` | connection and listen key; the way of an order to the exchange; the simulated exchange | done |
| 6 | `BarLoop`, `Backtest`, `Sizing`, `DayLimit`, `PaperBook`, `Recorder`, composed by `MCBars`; `BarsProofs` | what goes by the bars, in both bots | done |
| 7 | `Pipeline`, `NakedGate`, `Baseline`, `CandleFeed`, `TickerFeed`, `Watchdog`, composed by `MCUpbit`; `UpbitProofs` | the Upbit bot around its trades | done |
| 8 | the proofs of section 6 | every invariant and every action property of the runs, and both refinements | done |

`MCExchange`, `MCUpbit` and `MCBars` put modules side by side that share no state. Each has a
module's variables for each part, and `Init` switches one part on: a behaviour is one of a single
part, the others stay in an off state that satisfies their invariants and enables none of
their actions. So one run holds the parts' state spaces added, not multiplied, and an invariant of
a part says nothing in the behaviours of another. `EntryFlow`, `ProtectExit` and `UserEvents` are
not such parts: they overlap in the code and each says what it reduces the others to.

Properties that belong to one promise are checked as one invariant, the conjunction of named
parts (`RecordKept == RecorderTypeOK /\ Accounted /\ ReadOnce /\ LabelsLast`); each part has its
own comment. The types are a part of the promise in the bundles.

## 3. The modules

### EntryFlow

One step is the code between two awaits of the task that holds `engine.lock`; `pc` names
where it waits and `h` holds its local variables (the return point, the order being resolved,
the snapshot recovery works from). Where a crash could fall between two database writes
without an await in between, each write is a step. The other actors are the exchange (`Land`,
`Match`, `Lose`, `StopFires`), a person (`ManualTrade`), `Crash` and `Restart`.

| variable | code |
|---|---|
| `ex`, `pos`, `stops` | the exchange: entry orders by `<<trade, number>>` (the `clientOrderId`), the net position, trades with a resting close-position stop |
| `db` | table `positions`: state, whether the entry price is known, the last entry order, adopted, direction, close reason set, whose stop `orders["stop"]` names |
| `row` | table `orders`: the status of each entry row |
| `cur`, `ta`, `halts` | `engine.trade`, `engine.trading_allowed`, `engine.halts` |

`Submit`, `Answered`, `AnswerLost`, `Refused`, `NotSent` and the resolve steps are
`context.submit` and `context.resolve`; `CheckPasses` ... `AdoptPosition` are
`entry_manager.execute` and what it calls; `Query` ... `Finish` are the twelve steps of
`recovery_manager.run` in the order of the code (1-6, 10, 7/9/11, 8, 12). Prices, sizing and
signals only choose between branches, so they are disjuncts. Protecting and closing are
reduced to their outcomes here: a stop, or a close, or ERROR. Trade 0 stands for none.

`resolve` asks five times over 11.5 s, longer than the 5 s `recvWindow` of the request,
so `Missing` (not found at the end) is only possible for an order that will not arrive any
more: `Lose` is taken only by a request no one waits for.

That the bot never enters twice rests on more than its own code, and `EnteredOnce` names it:

* Nobody else trades on the account (`manual`) and a market order is matched when it arrives
  (`slow`). When an order rests, recovery finds a row `NEW` with nothing executed, leaves the trade
  pending, and a second entry can follow.
* A recovery that fails after a crash takes longer than the 5 s of `recvWindow` (`hasty` says that one
  did not). Otherwise, with three troubles: a crash leaves a request under way, the query of the
  recovery at the start fails, the waiting trade is cancelled, the next signal is armed and
  bought, and the first request arrives. Three attempts with pauses make this unlikely, no line of the
  code excludes it.
* For the part that speaks of one trade: no stop of an earlier trade has closed a position while
  another trade waited (`alien`). Otherwise, with a second signal and two faults, a stop left over fires
  while the trade is bought and its confirmation fails; the position is zero, and it is bought again.

The last two were found by running `entry` with larger bounds (three troubles; `MaxArms = 2`); the proof
shows that the model needs nothing else. The other properties of the run hold without these conditions.

One case of the code is not in the model. `resolve` takes two answers "no such order" for the end even
if the later queries fail with another error (`context.py:198`); in `EntryFlow` (`Missing`) and in
`ProtectExit` (`StopResolved`, `TargetResolved`) the last of them must have found nothing. So a request that arrives
between the second answer and a query that fails is found here and taken for not placed there; what
is said of entries and stops is said without it. `RestCall` has the rule as it is (`Absent`), with such a
late arrival in `late`.

`TradeSlot` is the abstract specification: trades one after the other, waiting, holding,
done. `SlotPhase` maps the records to it and `SlotSpec` is its specification under that map.

Recovery closes older active records ("superseded"). The proof of `OneActive` shows that the
code never leaves two, so that branch is defensive.

### ProtectExit

The second half of a trade: from the confirmed fill to CLOSED or ERROR. It starts where
`EntryFlow` reduces protecting to its outcome, and works the same way (one step between two
awaits, `pc` and the frame `h`, the record `t` and the order rows on disk).

| variable | code |
|---|---|
| `pos`, `sl`, `tp` | the exchange: contracts held, stop orders with their level, target orders |
| `ev` | user events on their way to `engine.user_q`: position zero, a target filled, a stop cancelled from outside |
| `t` | table `positions`: state, `stop_price`, `logic.stop`, `orders["stop"]`, the numbers drawn per role, `tp_filled`, whether `close_reason` is set |
| `slRow`, `tpRow` | table `orders` |

There is no price. A stop is a level (0 the first one, higher is better, up to `NT` the
ladder, above it the trail) and may fire at any moment it rests; so may a target; a new stop
or target may be refused because it would trigger at once (-2021). The direction does not
matter, so the trade is long. A retry, a fault, a crash, a hand on the account and a lost
stream each have a budget. The number of stop orders is not bounded by itself: `MaxSl` is
computed from the other bounds and the absence of a deadlock shows that it suffices.
Adoption of an orphan is in `EntryFlow`.

Simplifications: the record is always the saved one, so the number of the stop that `ensure_stop` finds
survives a crash here, while `protection_manager.py:221` saves it with the next change only (recovery
finds it again by the same query); `Sweep` may fail once for all kinds of orders that are swept, and
the position in the other direction, which leads to the same halt, is left out.

`Protect` ... `CancelFirst` are `_place_stop` with its two callers `protect` and `move_stop`
(the frame's `job` says which); `NextTarget` ... `TargetsPlaced` are `place_tps` with
`partial_now`; `CloseTargets` ... `FinalClosed` are `close`, `on_flat` and `finalize`;
`FlatEvent` ... `BarClose` the engine's handlers; `QueryPosition` ... `Sweep` the part of
recovery that concerns a trade with an entry price.


### UserEvents

Everything the bot learns without asking comes as a message of the user data stream. A message
may come twice, late, in another order, or never; queries over REST tell the same
things a second time. The module follows the messages from the exchange to the tables.

| variable | code |
|---|---|
| `plain`, `algo`, `fills` | the exchange: entry orders and the market orders of triggered conditional ones, the conditional orders, the executions |
| `net`, `conn` | messages on the way, including `engine.user_q`; whether the stream is up |
| `seen` | `EventDeduper` (`exchange/websocket.py`) |
| `trk`, `tra`, `link`, `counted` | `OrderTracker`: `orders`, `algos`, `actual_to_algo`, `seen_trades` |
| `row`, `rowLink` | table `orders`: status, and whether `actual_order_id` is known |
| `book` | table `fills`: the trade of each fill |
| `phase`, `marked` | table `positions`, reduced: before the entry is confirmed, holding, CLOSED; the target in `tp_filled` |

`HandleOrder` and `HandleAlgo` are `_handle_user_event` up to its first await, `Act` is the rest
(`_on_trade_fill`, `_mark_tp_filled`, `_check_flat`); between the two the exchange goes on and a
crash may fall. `Confirm`, `Close` and `RefreshRow` are the places where a query
brings the same facts: the fills fetched after the entry and by `finalize`, the
order states of recovery. What else the handlers do is in the other two modules.

A fill is named by its order and its cumulative quantity. A conditional order belongs to its
trade by its client id; the market order it starts has an id of the exchange, so that whose
fill it is depends on what has arrived: `Owner` is `attribute` with its three sources
and the fallback. `gap`, `synced` and `lives` are history: they say what the properties
may ask for. `Quiet` (nothing under way, nothing lost) is the condition under which the memory
has to agree with the exchange; `synced` says that the fills were fetched when the trade was closed.

Simplifications: one market order works at a time; the status TRIGGERING, liquidations and
fills by hand are left out; account messages only lead to the same closing as `CloseFlat`;
a guard that a failed cancel leaves behind may only end without executing.

`FillLedger` is the abstract table: what is executed may be written down, once, and keeps its
owner. `LedgerSpec` is its specification under `fills` and `book`.

### SpotTrades

Upbit has no stop orders. The bot buys and sells at market, so a coin is protected by nothing
but the record of its trade. The module follows the live trades from the signal to the close
together with everything that runs between the awaits of the task that drives them.

| variable | code |
|---|---|
| `coin`, `ords` | Upbit: free parts of each coin; orders, with `by` = "tracked" for `active_orders` |
| `tr`, `live`, `nt` | the `Trade` records and `NakedStrategy.live` |
| `file`, `dirty` | `naked/state.json`; a scan that has not saved yet |
| `cache`, `aged` | `ExecutionEngine.balances`; older than 15 s |
| `buys`, `halted`, `newday`, `cool` | `RiskManager`: written through to disk, so one copy; `newday` while its date is yesterday's; `cool` the 60 s after an order |
| `brk`, `enabled`, `stopping` | the breaker in `process_tick`, `live_enabled`, a signal to stop |
| `thin` | markets whose price has fallen so far that what is held is worth less than `MIN_ORDER_KRW` |
| `pc`, `h` | the driving task: its await, the trades left of its list, `can_enter`, what it sells |

The task never waits at "next": other steps of the bot need `Free`, so that what the code does
without an await is one stretch. `OnTick` ... `DriveExit` are `_drive_all` and `_drive`, `BuyBal` ...
`BuyDone` the buy through `place_market_buy` to `mark_filled`, `SellBal` ... `SellDone` the sell
to `mark_exit`; `ScanBar` is `process_bar` with `_maybe_go_live`; `Stop` is `drain` and `_cleanup`.
Prices only choose between branches: an exit is due or not, and a sale is worth more than the minimum
order or less (`thin`), in which case `check_sell` refuses it at this tick and at every other until the price
rises (`risk_manager.py:214-218`). A coin is counted in parts: a trade buys `Size` of them, two
where half is sold at the first target; a part is worth one unit of the limits.

`have`, `bought`, `today`, `late`, `cut` and `clean` are history. `cut` holds the trades whose sale was cut to
an old balance lower than what was asked and marked for what was asked (`naked_strategy.py:653-657`). `clean` becomes FALSE when an order has an
outcome the bot has no way to learn with this code: its answer is lost, it is cancelled at the
exchange, or the process dies between its acceptance and `mark_filled` or `mark_exit`. What
follows from these is listed in section 4; the properties say what holds without them.
A balance query that fails, a timeout of the clock or of an order, a refusal and a missing price
count as trouble; midnights, halts, trips, changes of the gate, falls of a price and signals count as turns.
That a sale is cut to so little that the minimum refuses it is not a case of its own: the balances are
asked for again, so it is one more refusal that passes.

### UserStream

The stream under the events: `ResilientStream.run` with the listen key, the keepalive task, the
deduplicator, and the queue with its pump. The account makes numbered events; what matters is
whether the engine has each of them. Three tasks interleave at their awaits.

| variable | code |
|---|---|
| `srv`, `gen`, `made`, `sock`, `wire` | the exchange: the live key, keys and events so far, the key of the open socket, messages on their way |
| `st`, `url`, `req`, `synced` | the loop: where it waits, the key in its url, `_reconnect_requested`, whether the reconciliation of this connection went through |
| `key`, `due`, `ka` | `ListenKeyManager`: the key, half an hour has passed, the PUT is out |
| `ring`, `q`, `evt`, `pump`, `known` | `EventDeduper`, `user_q`, `Bot._evt`, the event pump, what the engine knows |
| `log`, `raced` | history: what was queued; a key found dead while a connection was made with it |

### RestCall

One order and queries of the account through the same client: gate, row, signature, the wait for
the weight limit, the request, one resend after a refused timestamp, retries of queries, `resolve`.

| variable | code |
|---|---|
| `call` | the request of each caller: its place in `signed` and `_send`, whether its timestamp is stale, attempts, result |
| `heavy`, `ahead` | `used_weight_1m` at its limit; clock and `time_offset_ms` disagree with the exchange |
| `config`, `report`, `checked` | the conditions of the gate, and what it said to the order |
| `row`, `looks`, `nf`, `le` | the order row; `resolve`: queries left, "no such order", an error |
| `executed`, `flight`, `late` | the exchange: times it took the order, a copy under way, one that arrived after it was said not to exist |

### PaperExchange

The simulated exchange: `gw` is `PaperGateway` (wallet, position, entry value, margin, conditional
orders, income, fills), `quote` the last and the mark price, `saved` the state in the database,
`fillRows` the fills the bot has stored. Contracts are inverse: one is worth `Face`/price coins, and
amounts are whole numbers of a small coin, chosen so that the divisions come out even. A price brings
funding, triggers in the order they were placed, and liquidation in one step, as `update_market`
does. After a kill the account is the saved one while the fills are all there; `rolled` says so.

### BarLoop

From the close of a bar to its rules: `_bar_loop` with its event and timer, the answer of the
exchange, `process_bars`, `on_bar_close` under the lock, arming, and the mark.

| variable | code |
|---|---|
| `phase`, `formed`, `brings` | time: ticks since the last close, bars closed, the signals they bring |
| `barEvt`, `loop`, `due`, `nap`, `snap`, `cur`, `upto` | `_bar_evt`, where the loop is, its timer, the bars in the answer, those still to handle |
| `last`, `rows`, `trade` | the database: `last_bar_ts`, signal rows, the trade with the stop the rules want and the one sent |
| `orphan` | a position at the exchange that no trade knows |
| `work` | locals of `on_bar_close` |
| `past`, `early` | history: trades armed, bars that left a position, bars counted and bars passed over; a bar evaluated while it was forming |

A bar has its rules only if the trade is in one of `HOLDING_STATES`, has a fill time and rules, and was
not adopted (`engine.py:344-345`); otherwise it is passed over and the mark goes on (`:389`). So the
trade has the states that this distinguishes: `trade.fill` is the time of the fill at the exchange, and a trade that
is filled may still be "pending" (a query after the fill failed), "recovery" (the outcome is unknown), "exposed"
(its stop is not there yet), "holding", "adopted" or "closing". `Breakout` leads to any of the first four,
`Recovered` is the reconcile that finds the fill later and writes its earlier time into the trade
(`entry_manager.py:189`), `Dropped` leaves a position behind that `Adopt` takes up without rules. How
these steps are taken is what `EntryFlow` and `ProtectExit` model. `EveryBarCounted` says which bars the
rules have seen and that no others were left out than those passed over in between; that they should not
be passed over is `EveryBarOfPosition`, which does not hold (section 4).

Prices are left out here; `Backtest` has them.

### Backtest

`Simulator.run` for one rule set with what the live engine shares with it: `signals.py` from a
pattern to entry, stop and targets, the rounding of `contract.py`, `PositionLogic` of `ladder.py`. One
step is a bar with any open, high, low and close in a small range of prices; `deal` is the trade,
`variant` the exit variant, `seen` history. Prices count half ticks, so that rounding has something
to do; a signal with too narrow or too wide a risk is refused. `StopReference` compares the ladder, which moves step by step, with what the best price since
the entry says.

### Sizing

`size_position` in one step for each of its inputs. `Allowed` is the reference: the quantities within
all limits at once; the code reaches its answer by cutting one limit after the other. What the
code compares as floats is compared by cross multiplication, so the model is exact where the code
has the precision of a double.

### DayLimit

The equity a day begins with (`base`, in the database) is set by whoever asks first; both the
snapshot and the check before an entry ask with an equity read some time before (`readBy`), so
midnight, a loss or an answer without the asset (equity 0) may fall between. `first`, `events`,
`entered` and `reborn` are history.

### PaperBook

The paper trades of the Upbit strategy: for one ticker and two patterns, every signal under each
exit variant. A scan handles the bars since the last one; results are appended at once, the book is
saved after. `Replay` makes a trade from the bars there were; `Trusted` says that a result
that counts is that.

| variable | code |
|---|---|
| `market` | the bars that have closed |
| `memory`, `stateFile`, `unsaved` | the last bar and the book, in the process and in `state.json` |
| `results` | the results file: the trades that ended in one bar, by the bar |
| `undone`, `blind`, `deaths` | history: results a kill took back from the state, bars passed over without zones, kills |

### Recorder

A price per tick from the buffer into the CSV of its day, the CSV into a Parquet file after
midnight, out after the retention; the trainer's label of a signal from the rows there are. The loop
and the thread of `maintain` (`hand`) interleave; a process may be killed between any two steps and
within a line. A row is its number; a file is a set of rows.

| variable | code |
|---|---|
| `proc`, `header`, `day`, `current`, `rolled` | the process and its columns, the clock, `_current_day`, the day `maintain` rolls up |
| `buf`, `hand` | `_price_buf`; what the two writers are doing, with which rows |
| `csv`, `parquet`, `aside` | the files of each day, `aside` those with other columns |
| `days`, `lost`, `torn`, `late`, `cut` | history: the day of each row; rows that a kill or a failed write took; torn lines; rows written after their day; compactions left half done |

### Pipeline

The ticks of the Upbit bot: `Clock` with its patience, `process_tick` up to each await, the scheduler,
the cool-down, the books of the day, the LLM task, the naked task and its driving task, and the
end of the process. `SpotTrades` has the trades; here only what may start one is kept.

| variable | code |
|---|---|
| `mode`, `life` | `STRATEGY_MODE`; where `start` is |
| `pt`, `ptAge`, `nt`, `ntAge` | the calls of `process_tick` and `naked_tick` and how long they run |
| `sched`, `cool`, `books`, `told` | the deadlines; what is left of `_cb_active_until`; `RiskManager`; `_halt_notified` |
| `llm`, `pend`, `drive` | `_llm_task`; pending live trades; the driving task |
| `since`, `leak`, `spent` | history; what is used of the bounds |

### NakedGate

The evidence for real orders: trades of the backtest and their description (two files), the report,
the gate. A setting is a pair of what is traded and the rules of the backtest; a restart may change
it. The daily validation is a task of many hours in steps; `python validate_naked.py backtest` may
write the same files beside it. `whole` is history: the trades used were made by the rules in force.

### Baseline

The history of the topology (`hist`), its count (`streak`), and the file that carries it over a
restart, written by a thread (`saver`) and by `_cleanup` (`final`) through one temporary file. The
measure itself is modelled: the number of pieces of a ladder from its gaps, the median, the threshold.
`apart` and `clash` are history.

### CandleFeed

Time is in ticks. A candle exists only if there was a trade; an answer takes up to `Latency` and shows
what had closed somewhere on its way, but `candles_to_bars` cuts at the time the request began.
`cache`, `ask` and `next` are the cache, the request and the scan; `alts` and `quote` the universe
with its refresh in chunks.

### TickerFeed

`wanted` is `extra_tickers`, `codes` what the connection is subscribed to; `sock`, `ref` and `closing`
follow `connect_and_listen` and the task that closes the connection when the tickers change. `live` and
`seen` are the trades and the balances that decide on `unwatch`.

### Watchdog

A job of the system, run every few minutes: `bad` what it finds, `stamps` its file, `heard` and `gap`
history: what the operator believes, and the time since each alert.

## 4. Runs

| run | bounds | checks |
|---|---|---|
| `entry` | one signal and what is adopted, four records, two contracts (partial fills), three order numbers; any two troubles of two faults, a crash, a person, a resting order; fairness | `EnteredOnce`, `NoInvalidTransition`, `SlotSpec`, `ExposureGetsGuarded`, `RowsSettle` |
| `protect_safe` | two contracts, one target, one stop move; any two troubles of two faults, a refusal, an interference, a lost stream, a crash | `Covered`: a holding state means a resting stop at the stop price or better; `TpOnceUndisturbed`, `LegalMoves`, `StopNeverWorse` |
| `protect_live` | one target; any two of a fault, a refusal, an interference, a crash; fairness | `PositionGetsGuarded`, `FlatGetsClosed`, `TargetsComeBack` |
| `events` | one trade of two contracts, two messages on the way, a deduplicator that remembers one; one repetition, lost stream, failed query or crash; any order of messages | `NeverBack`, `Converged`, `MarkedRight`, `BooksComplete`, `LedgerSpec` |
| `spot_safe` | two trades of one market and one of another, sold in halves, one buy a day, one part held from elsewhere; one trouble, one kill, one turn (two of the three once there is a second trade, one once a sale was cut, none with the third); fairness; states after an unclean order are not followed | `BuysOnce`, `RecordsTrue`, `BuysBounded`, `ExitHappens` |
| `exchange` | stream: two events, three keys (one of them none), a repeated message, one failure, fairness; order: two faults or clock jumps, two full minutes, a query beside it; account: two prices, two openings, one conditional order, one funding, one kill | `ExactlyOnce`, `StreamRecovers`; `OrderRight`; `AccountRight`, `OnlyReduces` |
| `upbit` | ticks: two dangers, gaps, halts or slips, one pending trade, fairness; gate: two settings each way, one restart, one failure, one backtest by hand; base line: two processes, two saves, four ticks; candles: three bars of ten ticks, answers of up to two, one failure; universe: four markets; stream: three trades in two alts, one cut; watchdog: two checks, one lost message, one lost file | `PipelineSafe`, `TicksRight`; `EvidenceHolds`; `BaselineRight`; `FeedRight`; `SubscriptionRight`; `AlertsRight` |
| `bars` | loop: three bars of three ticks, one failure (of a query or order; a fill not confirmed, a stop lost), lost notice or kill, fairness; paper: four bars of five shapes, two patterns, four variants, one kill, one bar without zones; backtest: any bars over five prices, five variants, five zones, risks of two ticks; sizing: every input of the sets; loss: two days, five worths, one restart; recorder: three prices, three days, one restart, one mishap | `BarsRight`, `InTime`; `ResultsRight`; `BacktestRight`; `GreatestAllowed`; `LimitHolds`; `RecordKept` |

Each "violation" run checks one sentence of the documentation that the code does not keep:

| run | sentence | what happens |
|---|---|---|
| `entry_fill_dropped` (`OwnFillIsNotDropped`) | a real position is handed to recovery | a failing query during confirmation: the pending trade is cancelled by its own fill |
| `protect_twice` (`TpOncePerLevel`) | what is closed up to a target is its cumulative share | the fill event of a target is lost in a crash: nothing else records it and the level is placed and sold again |
| `spot_exposure` (`ExposureBounded`) | markets are driven one after the other so that the exposure limit holds | the second buy of a tick is checked with the balances from before the first |
| `released` (`Released`) | after the trade its ticker is taken out (`execution_engine.py:178-181`) | the sale is not yet in the balances when it is decided, and nobody asks again |

More sentences do not hold and have no run of their own. A fill whose row became final before the
trade recorded it is adopted as an orphan and not continued (`recovery_manager.py:98`, against
`binance_coinm_v1/README.md:193`); RECOVERY_REQUIRED without a position has no branch once the row is settled
elsewhere (`recovery_manager.py:122`); requests that were not sent are retried without bound
(`entry_manager.py:139`); step 8 cancels a stop of an earlier trade that step 7 kept
(`recovery_manager.py:197`); `protect` draws a new number while the outcome of the last one is
unknown (`protection_manager.py:90`, against `order_ids.py:7`); the row of a conditional
order goes back when its messages change places, because it is written whether or not the
tracker takes the message (`engine.py:158`, against `binance_coinm_v1/README.md:184`);
recovery closes a trade by the quantity it read before the entry was found filled
(`recovery_manager.py:77`, against `exit_manager.py:10`); an IDLE record after a crash holds the
slot (`recovery_manager.py:122`, against `binance_coinm_v1/README.md:194`); a cancel that fails
while a trade is finalised is only logged (`exit_manager.py:65`, against L11-12).

A bar that closes while the trade does not know of its fill, or has no stop, or was adopted, has no effect
on the position, and its mark is written all the same (`engine.py:344-345`, `:389`; `EveryBarOfPosition`, against
`engine.py:9-12`). Around the trades: a request to connect again that is made while a connection is being made is
forgotten (`websocket.py:125`), and the stream stays on the dead key (`DeadKeyReplaced`, against
`websocket.py:14-15`); rules are applied to a
bar that was still forming when the exchange answered (`OnlyFinalBars`, against
`market_data.py:8-9`); a bar whose stop move closed the position may arm a trade
(`NoEntryAtExit`, against `engine.py:11-12`); a refused stop move leaves the stop behind the ladder
until the next bar (`StopFollows`, against `ladder.py:16-17`); a halt of the day is not latched: when
the equity comes back entries are allowed again (`HaltLasts`, against `limits.py:5-6`);
`liquidation_guard_ok` (`sizing.py:174-183`) is called by tests only. These formulas stand at the
end of their modules; each is a formula TLC refutes when it is put into the configuration.

In the Upbit bot: a report of other rules opens the gate after a change of the settings
(`GateMatchesSettings`, against `validate_naked.py:363-368`); bars of a scan without zones are passed
over also for open paper trades (`naked_strategy.py:449-451`); a recorder that is restarted across
midnight never compacts the day before (`data_recorder.py:319`), a line torn by a kill swallows the
first row after it, and a flush that asked for its day before midnight may write into a file
under compaction. A kill while `notify_trade` is awaited after a buy, or a lost answer, leaves coins
without a trade or buys again (`execution_engine.py:287`, `upbit_client.py:183`; the fixes of
`docs/NAKED_FOREX.md:187-188` cover the clock and an orderly stop). A sell that is cut to an old balance closes the whole trade and
leaves the rest without one (`NothingCut`, `execution_engine.py:307`, `naked_strategy.py:655-657`): coins of the same
currency from elsewhere and one failed query, or two failed queries in a row; the fix of
`docs/NAKED_FOREX.md:193` looks only at a balance of zero. `RecordsTrue` names these trades (`cut`) and
promises nothing of them. An exit whose coins are worth less than the minimum order is refused at every
tick for ever (`ExitAlways`, `risk_manager.py:214-218`, against `naked_strategy.py:642-643`, where only the half is looked at);
`ExitHappens` promises the sale while the price allows it. Also: an order that the breaker's cancel-all ends is taken for executed
(`main.py:262`); a trade may be entered while the breaker trips (`main.py:264`).

Bounds. A trade passes through each handler at most a few times before its state repeats; the
interesting cases need one fault at any await and one crash at any step, or two faults in one
recovery. A signal and the adoptions it leads to show what one trade leaves for the next; the proofs have any
number of both. Two contracts are the smallest number with a partial fill. Every bound is a constant that is a guard of
the action it limits (`MaxFaults`, `MaxCrashes`, `MaxManual`, `MaxSlow`, `MaxArms`, `MaxTrades`, `MaxSeq`;
in `SpotTrades` `MaxTrades`, `MaxOrders`, `MaxTrouble`, `MaxCrashes`, `MaxTurns`; in the others the
constants named `Max...`); `MaxTroubles` and `MaxSpent` bound several kinds together. Two trades of one market show what one leaves in the balances for the next,
two markets what one order leaves for the rest of the tick. In the bundles each part repeats
itself after a round: a connection and its successor, two processes with a file between them, three
bars (one handled, one missed, one that catches up), a day and the next. The prices of `Backtest`
span a stop, an entry and two targets with a tick between them, which is every order of levels a bar can
meet. Where a part has arithmetic, the sets hold values on both sides of each comparison.
A part of the coin held from elsewhere (`OnePart`) makes a cut sale happen with one failed query, so `spot_safe` reaches it
within its bounds.

Abstractions that no property depends on, for who compares line by line: the socket of `TickerFeed` is lost in one step
(`Lost` folds `websocket_feed.py:111-124`); `HaltTold` is the call of the notifier, which swallows a message that
does not get through (`notifier.py:43-51`); `FinalSave` of `Baseline` does not fail (`circuit_breaker.py:200-201` logs it
and leaves the older file); `Maintained` of `NakedGate` looks once a day where the code looks every hour; fills of `Backtest` are
without slippage (`simulator.py:192-193`); the barrier of a label of `Recorder` is fixed, where
`meta_trainer.py:165-172` takes it from the volatility of the rows before, so what purging those rows does to a
later label is not seen.

## 5. Fairness

`FairSpec` assumes: a handler that started runs to its end (weak; each await of the gateway
has a timeout and returns or raises); a request that is under way arrives or dies and an
accepted market order is matched (weak; the exchange); the process is restarted (weak;
`deploy` uses `Restart=always`); the periodic reconcile gets the lock again and again
(strong: it competes with ticks and bars, but `asyncio.Lock` serves in order of arrival).
There is no fairness on signals, prices, stops, faults or persons. `LiveSpec` of `SpotTrades`
assumes that the clock ticks, that the driving task goes on (its awaits have timeouts), that Upbit
executes a market order and that the synchronisation sees it (all weak).

`StreamFairness` (weak) runs the loop, the keepalive and the pump, whose awaits have timeouts, and lets
half an hour pass; nothing is asked of the 23 hour rotation and of the periodic reconcile, so what
is shown does not rest on them. `BarFairness` (weak) lets the loop take its turns, time pass and bars
close. `PipeFairness` is strong on the passing of time, because the clock sleeps only between its
ticks, and weak on the steps of the calls, the driving task, the end of an LLM decision and the end of
the process, all of which have timeouts. `TickerFairness` (weak) lets the socket be served and the
balances be read; it is there so that `released` is not the trace of a bot that stands still. No
failure, message, price or person is fair anywhere.

## 6. Proofs

Every theorem is for every value of the constants and rests on the named assumptions of the modules
alone: bounds are naturals, and what the code's settings guarantee (a target has a contract, a limit is
positive). What was added to them for the proofs:

* `Lives` and `Rules` of `NakedGate` and `Columns` of `Recorder` are not empty, `MaxSaves` of `Baseline`
  and `MaxDays` of `DayLimit` are positive.
* `PaperExchange`: the maintenance margin is less than the value (`MmrDiv > 1`; the bracket has a
  fraction of a percent), and the small coin is small enough that a contract has a margin at every
  price. Otherwise a position without a margin would be taken for none.
* `PaperBook`: a signal and a bar have numbers, as the types of the code say.
* `Backtest`: the narrowest risk that is traded is two ticks (`min_risk_pct` is 0.24 % of the price of the
  coin, a tick a millionth of it), and zones are finitely many and a tick apart (`find_zones` keeps them half
  an ATR apart). Both are needed: `Ordered` fails when a signal may risk less than that, because trigger and
  first target are rounded towards each other, and when two zones round to one target. `MinRisk` is the
  guard of the code (`signals.py:109-110`) that the model lacked before the proof asked for it.

Each safety theorem goes the same way: an inductive invariant that contains the property, its initial step, one
lemma for each action or for each group of actions that do the same to it, and a last temporal step. The
inductive invariants were checked by TLC before they were proved; they are no part of a run.

| module | theorems | properties of runs |
|---|---|---|
| `EntryFlowProofs` | `Invariant`, `TypeCorrect`, `SlotSafe`, `SlotImplemented`, `TransitionsLegal` | `SlotSpec`, `NoInvalidTransition` |
| `EntryOnceProofs` | `EntersOnce` | `EnteredOnce` |
| `ProtectExitProofs` | `Invariant`, `TypeCorrect`, `StopCovers`, `MovesLegal`, `NeverWorse`, `SoldAtMostOnce` | `Covered`, `LegalMoves`, `StopNeverWorse`, `TpOnceUndisturbed` |
| `UserEventsProofs` | `Invariant`, `TypeCorrect`, `BooksRight`, `OnlyForward`, `LedgerImplemented`, `NewsKnown`, `ConvergedAlways`, `MarkedAsSold` | `BooksComplete`, `NeverBack`, `LedgerSpec`, `Converged`, `MarkedRight` |
| `SpotTradesProofs` | `SpotTyped`, `BoughtAtMostOnce`, `DayBounded`, `RecordsHold` | `BuysOnce`, `BuysBounded`, `RecordsTrue` |
| `ExchangeProofs` | `OrderSafe`, `EventsReach`, `AccountSafe`, `OnlyOrdersOpen` | `OrderRight`, `ExactlyOnce`, `AccountRight`, `OnlyReduces` |
| `UpbitProofs` | `PipelineKept`, `TicksSpaced`, `EvidenceStands`, `BaselineKept`, `CandlesServed`, `StreamCarries`, `AlertsHold` | `PipelineSafe`, `EvidenceHolds`, `BaselineRight`, `FeedRight`, `SubscriptionRight`, `AlertsRight` |
| `BarsProofs` | `DayLimited`, `SizesRight`, `RecordStays`, `BarsHandled`, `BarsInTime`, `ResultsStand`, `BacktestStands` | `LimitHolds`, `GreatestAllowed`, `RecordKept`, `BarsRight`, `ResultsRight`, `BacktestRight` |

### Entry and recovery

`OneActive` is not inductive: a handler that writes to the trade in memory would break it if that trade
were closed, and `Fresh` would reuse a number if records had gaps. `IInv` adds `CurActive`,
`RecordsInOrder` and `FrameOK` (what each program counter guarantees about `cur` and `h`). The proof
classifies each action by what it does to the records (`StepKind`: nothing, a process going down or
up, a write to the trade in memory, a new record) and proves once per kind that the slot conditions
survive and that the abstract slot takes a step or stutters. `TransitionsLegal` adds `StatesKnown`: the state
of the record at each program counter, and what a state says of the fill and of the orders.

`EntersOnce` adds `EntryInv`. Its core is `UnderWayKnown`: the one request that may be under way is the
last one of the open trade, which holds nothing, its row is unresolved, and somebody waits for
it or will ask for it. From that a new request goes out only for a fresh number while nothing is held
(`SubmitFresh`); `BoughtHeld` says that what a trade bought without knowing is still there.

### Protection and exit

`Covered` speaks of an account nobody else touches and of stops that are not refused for other reasons
than -2021 (`Untouched`); with a refusal `move_stop` cancels the old stop first and the position is
open for a moment. It is not inductive. `StopsInOrder` says that a number not drawn yet has no order (so
sending never overwrites the stop that protects) and that a fired stop means no position; `FrameOK`
says what the handler may rely on after each await (the level of the stop it waits for, that
`move_stop` runs in a holding state, that a closing trade is CLOSING); `NeverMissed` says that
without interference a position never reaches the recovery of a missing stop, so RECOVERY_REQUIRED
cannot turn into PROTECTED without one, and that after a move the new stop rests or has fired before
the old one is cancelled. The proof splits the steps into those of the exchange (`HandsOff`),
those of handlers that leave the stop, its price and the numbers in the record alone (`Quiet`), and the
four that do not: sending (`StopSendInv`), adopting a confirmed stop (`AdoptedInv`),
cancelling the old one (`CancelOldInv`), and naming another resting stop (`Renamed`).

`NeverWorse` rests on `WorseInv`: the position is zero once the trade is finalised, so the cleaning up
takes no stop from it, and no stop is above the level of the ladder while a moved one is at it, so the one
it replaces is not better. `SoldAtMostOnce` rests on `TpInv`: while nothing but lost answers and refusals
happens, all orders of a level but the last one came to nothing, and a sale is recorded or its event is
under way; so a level that is still to be placed is not sold, or its row or the record says that it is. `MovesLegal`
rests on `StateKnown`.

### User events

`BooksComplete` is not inductive. The fallback of `attribute` books the fill of an unknown order
to the trade that holds a position: that this is the right trade rests on trades coming one
after the other (`InTurn`) and on fills of a trade that is not closed (`Books`). That a closed
trade executes nothing more rests on `Settled` (it is flat) together with `Sizes` (the
market orders of its guards never sell more than it holds): an order at work would have
something left to sell (`ClosedAtRest`). `Honest` says what a message may be trusted for, also
while it waits in a handler. Each step is one lemma; closing is shared by the handler and by
recovery (`CloseKeeps`), and so is the fetching of fills (`SyncBook`). `OnlyForward` needs only the types,
since the ranks decide.

`ConvergedAlways` and the second half of `MarkedAsSold` speak of what has arrived, so `NewsInv` says where
the rest is: the tracker is never ahead of the exchange (`NeverAhead`), and for each order on which it is
behind a message that tells how it is now is under way (`OnTheWay`), unless something was lost; the rows follow the tracker and the marks the executions (`RowsFollow`, `MarksFollow`).

### Trades of the Upbit bot

`BuyInv` relates the list the driving task took at the start of its tick to the trades as the scans
leave them (`ListMeans`): a trade in the list is live or over, never replaced by one that was bought.
`NotBought` is what a second buy would contradict: what memory or disk would still buy was not bought.
`DayMeans` says how far the counter of the day may be behind: by the order whose answer is awaited.
All three properties keep their condition `clean`, that no order has an outcome the bot cannot know.

`RecordsHold` is `RecordsTrue` of the run, for every bound: `RecordInv` says what a trade holds that is not
in `cut`, and a sale that sells less than was asked puts its trade there. Which trades these are is the business
of section 4.

### The exchange

`RestInv` counts costs: each refused timestamp of an order has a jump of the clock or a full minute of its
own (`Costs`), so a clock that jumped once does not cost an order;
`RowMeans` ties the row to what the exchange did. `StreamInv` says that what the filter drops is known or
queued (`DroppedIsKept`) and that the filter holds the last messages handed over (`FilterIsLast`), so
none within its length is handed over twice.

`AccountSafe` rests on `PaperInv`: the account and its copy in the database add up (`AddsUp`: the wallet is the
first one plus the income less what liquidations took, and a position has a value and a margin exactly
when there is one), and the fills of the copy are the first ones of the account, so a restart
goes back and never aside. An update of the prices runs over the conditional orders; `run` is a recursive
function, and that it has a property at its end is shown by a minimal counterexample over its
steps (`RunUpTo`), since induction is not at hand. Each step keeps `Carried`: the account still adds
up, has the old fills and new ones only, and its position went towards zero and not beyond. `OnlyOrdersOpen` is the same
`Carried` seen from the whole update, with the liquidation at its end. The proof found that the history
variable `rolled` was forgotten at a second restart; it stays set now, so what `AccountRight` asks after
one is what it says.

### The bars

`BarsHandled`: the mark is written only after the bar was handled, so every bar up to it was counted
or passed over (`Covered`, `Heeded`) since the fill, wherever the trade was between its fill and its stop (`Filled`); without a
failure it never is in between. The fill of a position is at least every bar that armed a trade, so the rules never see the bar that armed it; the rows are saved before anything is sent or
armed, so a bar handled again brings nothing new (`ArmedOnce`, `Settled`). `BarsInTime`: without a notice to come the
loop is behind by at most the lost ones (`Caught`), in every place where it may be.

`RecordStays`: rows are numbered in the order of their time and the loop writes them in order, so what it
still holds is younger than everything written (`YoungerInHand`); a label that is given was given by
rows older than those to come, and nothing that comes can change it. A day is rolled up once,
because only days before the current one have a Parquet file (`RollingUp`), so a row is in the files of one
day and in one of them (`OneFile`); `AllTraced` is the account of what is gone.

`ResultsStand`: a trade in the book is what the bars from its birth to the last one handled make of it (`ReplayOn`), or
a bar of its life was passed over (`Passed`). The book in memory and the one in the state file satisfy this for
different last bars (`BookOn`), so a kill, which goes back to the file, keeps it. The results file is not rolled
back: `FileOn` says that what is in it and not taken back ended before any trade of the same variant and
pattern in the book began, and the same for the saved book and the results as old as it. A scan is a recursive function over its bars; that it keeps the invariant is shown by the
first bar at which it would not (`BookBarKeeps`, and a minimal counterexample).

`BacktestStands`: `StopReference` compares the end of a path of bars with its best price, so `TestInv` has to say
along the way what the steps of the ladder have done. `Climbed` says that the rungs climbed are those that the best price
reached; it does not hold right after the bar of the entry (`JustIn`: the best price is the fill, while the
bar may have gone farther), and the close of that bar makes it true. `StopStands` says that the stop is as good as
everything in `Floor`, and one of its members while nothing trails. `PlanStands` says what is left of the
plan; that its parts do not exceed the whole is `PlanIs`, from the rounding down of the cumulated shares.
`SignalTargets` and `StopBehind` are the arithmetic of the rounding. The notes of a bar (`NoFlaw`) are right because the stop
is looked at before the targets and a rule that closed a trade is noted before a signal is armed.

`SizesRight` has no behaviour: the five cuts are composed, each the greatest multiple of the step within its limit
and within the one before, and a multiple within all limits at once is below each cut. `DayLimited`: the base
of a day is what the first reader of the day used (`DayBegun`), through restarts.

### Around the Upbit trades

`PipelineKept`: `LeakOwed` adds the buys made in a cool-down to those still under way, and the sum never
exceeds those under way when it began. `TicksSpaced`: the time since the last notice and the rest of the
cool-down make a whole one (`NoticeAge`), likewise for decisions and their deadline (`LlmAge`). `EvidenceStands`:
gate, last verdict and last notice agree (`GateSays`), trades and their description are of one
backtest unless a kill tore them (`FilesAgree`). `BaselineKept`: two saves at once are only those of the
thread and of the end of a process, so a process without a clash has whole files at every step of its
last save (`DiskInv`). `CandlesServed`: for each candle not in the cache, `Awaited` names what it waits for, a request that
began in time or a scan that is near, which bounds its delay; the greatest markets are counted with a minimal
counterexample (`ForemostFew`). `AlertsHold`: the stamps of the file say what the operator believes as
long as no message and no file is lost (`DogInv`).

### What is model-checked only

Every invariant of the runs, every action property and both refinements are theorems. Not proved are:

* Everything under fairness, since liveness is out of the prover's reach: `ExposureGetsGuarded`, `RowsSettle`,
  `PositionGetsGuarded`, `FlatGetsClosed`, `TargetsComeBack`, `ExitHappens`, `StreamRecovers`, and of `TicksRight` the
  parts `HaltReported` and `Stops`, of `InTime` the part `CaughtUp`. The other parts of these two are `TicksSpaced` and
  `BarsInTime`.
* The four runs that expect a violation.
* Whether the constants of a real run satisfy the named assumptions: that is read from the settings.

## 7. Not modelled

Chart patterns, the features and models of the learning modules, and the statistics of back tests are
floating-point computations whose control is trivial: what they find is a free choice of the models.
The language models' answers are text. Notification, settings, redaction, parsing and operator scripts are
input and output. Of the modelled parts are left out: the messages of the simulated
exchange beyond what the tracker reads; the reinforcement learner and the other three kinds of records beside
the Upbit ticks; the criteria of the COIN-M validation report; what the status report shows. Each
part's status is in `PROJECT.json`.
