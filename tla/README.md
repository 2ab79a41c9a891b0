# A TLA+ verification of the trading app

TLA+ models of this repository, model-checked with TLC and proved about with
TLAPS. Four questions:

* **Live trading.** What happens when the engine, the broker adapter, the
  exchange, the database and the user act in an order nobody scripted: orders that
  fill late, calls that get no answer, an emergency stop in the middle of an
  entry, a process that dies and comes back.
* **Simulation.** What a backtest and a paper session promise, and how far they
  agree.
* **Data.** Whether candles and signals are the same live as in a backtest.
* **Instances.** Whether two engines started at once both run.

Paths below are relative to the repository root.

## 1. Inventory

### Components, their state, and who talks to whom

| Component | State it keeps | Operations | Talks to |
|---|---|---|---|
| `SignalEngine` (`trading/signal_engine.py`) | pending signal, seen signal ids, `halted`, `_network_blocked`, `_feed_stale`, candle history | `process_candle` (execute the queued signal, square off, queue the next), `_execute_entry`, `_execute_exit`, `notify_*` | broker, database, risk manager, reconciler (synchronous calls on the engine's thread) |
| `KiteBroker` (`trading/kite_broker.py`) | `order_info` cache, `halted` | `place_order` (with lookup by tag and a blocking poll), `cancel_order`, `get_order_info`, `get_positions` | Kite Connect API |
| Exchange account (external) | order book, net position | takes, fills, rejects, triggers, cancels orders | everybody's shared state |
| `Database` (`db.py`) | `orders`, `positions`, `trades`, `settings` (kill switch, loss latch, instance lock), `logs`, `backtests` | one committed statement per call, under a lock | shared by the engine thread and the UI thread |
| `RiskManager` (`trading/risk_manager.py`) | loss-halt day | `check_entry`, `position_size` | reads kill switch and latch, sets the latch |
| `Reconciler` (`trading/reconciliation.py`) | `safe_mode` | `reconcile`, `check_can_trade` | broker, database |
| `EmergencyStop` (`trading/emergency_stop.py`) | none | `activate`, `flatten_all` | database, broker; called by the UI thread |
| Streamlit UI (`app.py`, `ui/`) | session state, engine singleton | buttons: stop, clear kill switch, start/stop paper, enable/disable live | emergency stop, database |
| `InstanceGuard` (`utils/instance_guard.py`) | `acquired`; lock row in `settings` | `acquire`, `heartbeat`, `release` | database, other processes |
| `RuntimeMode`, `TradingConfig` (`config.py`) | mode, live flag | `set_mode`, `enable_live`, `disable_live` | gate of `KiteBroker` |
| `PaperBroker` (`trading/paper_broker.py`) | simulated position, orders | the broker interface, `on_candle` | `SimulatedBroker` |
| `Backtester`, `SimulatedBroker` (`backtest/`) | position, trades, pending signal | `run` | risk manager, strategy |
| `ReplayFeed`, `CandleBuilder` (`market/live_data.py`) | index, time of the last tick; the candle being built | `next_candle`, `add_tick` | whoever drives the engine |
| Strategies, charges, metrics, historical data, instruments, logging, time helpers | none that interacts | pure computation or I/O | |

`KiteBroker`, `Reconciler` and `InstanceGuard` are constructed only by tests at
this commit, and nothing drives `process_candle` from a live feed. The models
compose them as the code's own interfaces and tests do.

### Hard behaviours, and what makes each component correct

* **Engine.** Every broker call can end in several ways, the exchange moves
  between any two calls, and the UI thread between any two database statements.
  Correct: at most one lot, one buy per signal, no short position, stops sized to
  fills, an open position protected or the engine halted, a halt that is final,
  no candle that hangs, a square-off that squares off.
* **Adapter.** A placement without an answer may have arrived; a poll may time
  out on a live order; a cancel may lose to a fill. Correct: an id handed back is
  the id of that order; a halted adapter places nothing.
* **Database.** Correct: terminal rows stay; entry rows name their order; trades
  are sales that happened.
* **Emergency stop.** Correct: it cancels entries only, resolves every entry it
  found, and spoils nothing for the engine it races with.
* **Instance guard.** Correct: one live engine.
* **Restart.** A crash loses the engine's memory, not the database or the account.
  Correct: still one lot, still no entry past the kill switch, no trading on an
  unprotected row.
* **Backtest and paper session.** Correct: both keep the rules of README.md:56-62
  from candle to candle and day to day, and they trade alike.
* **Feeds and strategy.** Ticks come late; averages tie. Correct: candles in
  order, no volume lost, a live signal is the backtest's, crossovers alternate.

`PROJECT.json` lists every hazard at its line with the properties aimed at it.

## 2. Modules

| Module | Models | Notes |
|---|---|---|
| `Orders` | `models.py`, `utils/signal_id.py` | statuses, legal transitions, purposes, signal ids |
| `Exchange` | external | the account: order book in placement order, raw statuses, net shares |
| `KiteBroker` | `trading/kite_broker.py` | one operator per API call and outcome |
| `TradingDb` | `db.py` | one operator per statement |
| `LiveTrading` | `signal_engine.py`, `risk_manager.py`, `reconciliation.py`, `emergency_stop.py` | composes the above: engine thread, UI thread, exchange |
| `LiveSafety` | - | the properties of `LiveTrading` |
| `MCLiveTrading` | - | what TLC runs on |
| `LiveTypes`, `LiveSafetyProofs`, `RecordProofs` | - | theorems and proofs about `LiveTrading` |
| `LiveRecovery` | `emergency_stop.py` (`flatten_all`), `reconciliation.py` at startup | `LiveTrading` and its UI thread, with crashes, restarts and flattening |
| `RecoveryProofs` | - | theorems and proofs about `LiveRecovery`, on top of the three above |
| `InstanceGuard`, `InstanceGuardProofs` | `utils/instance_guard.py` | processes sharing the lock row, and the theorems |
| `SessionRules` | - | abstract: what any trading session promises, one step per candle |
| `Simulation` | `backtest/broker.py`, `risk_manager.py`, `config.py` | candles and days, sizing and limits, fills, in integers |
| `Backtest` | `backtest/engine.py` | one round of the loop per step; implements `SessionRules` |
| `PaperTrading` | `paper_broker.py`, `signal_engine.py`, `db.py` | one candle per step; implements `SessionRules` |
| `Parity`, `ParityProofs` | - | both of the above on the same candles and signals; the theorems about all three |
| `EmaStrategy` | `strategy/ema_strategy.py` | the signals, as recursive functions over the closing prices |
| `MarketFeed` | `market/live_data.py` | `CandleBuilder` on arbitrary ticks, `ReplayFeed`; feeds `EmaStrategy` |
| `DataLemmas`, `FeedProofs` | - | sums, maxima and least numbers; theorems and proofs about `MarketFeed` and `EmaStrategy` |

`Orders <- Exchange <- KiteBroker <- TradingDb <- LiveTrading` is a chain of
EXTENDS: each adds the state of one component. `Simulation <- Backtest` and
`Simulation <- PaperTrading` meet in `Parity`; `EmaStrategy <- MarketFeed` stands
alone. Definitions commented "Wrong on
purpose" are used by no specification: they are plausible bugs, each replacing
one definition of the model, against which a property is shown to have teeth
(`mutants` in `PROJECT.json`).

### How `LiveTrading` corresponds to the code

`process_candle` is cut where it calls the broker or the database; `pc` names
the call about to be made, and the engine's locals are `sid` (signal id),
`purpose`, `bid` (broker order id), `pos` and `attempt`. The head of the module
draws the paths. `uiPc`, `uiTodo` and `uiOrder` are the same for the UI thread
inside `EmergencyStop.activate`.

| Code | Actions |
|---|---|
| `process_candle` 115-156 | `ReceiveCandle` (`IgnoreCandle`, `StartCandle`), `ExecuteBuy`, `ExecuteSell` |
| `check_entry` | `RiskCheck` |
| `place_order` (entry, stop and exit alike) | `Place`, `LookupByTag`, `PollPlaced` |
| `_execute_entry` | `EntryPlaced`, `EntryRefused`, `EntryUnanswered`, `ReadFill`, `RecordFill`, `StopPlaced`, `StopFailed`, `SavePosition` |
| `process_candle` 158-168, `_execute_exit` | `SquareOff`, `CancelStop`, `PollCancel`, `VerifyStop`, `ExitPlaced`, `ExitFailed`, `RecordExit` |
| `process_candle` 170-203 | `QueueSignal` |
| `notify_*`, `Reconciler.reconcile` | `NotifyStaleFeed`, `NotifyNetworkFailure`, `NotifyReconnected` |
| `EmergencyStop.activate` | `PressStop`, `ScanUnresolved`, `CancelNextEntry`, `PollCancelledEntry`, `MarkCancelled` |
| `Database.clear_kill_switch` | `ClearKillSwitch` |

Choices of granularity and abstraction:

* A blocking poll is one step that waits for the exchange (or times out, under
  the `interim` fault): nothing else the poll does is visible to the others.
* A position lookup (`_get_open_position`) is one step, though it asks the broker
  and then the database. Between the two only the exchange can move (the UI thread
  does not write positions), and it changes neither the answer already given nor
  the row.
* `insert_trade`, `delete_position` and the `update_order` that follow an exit
  are one step: the UI thread reads and writes entry rows only.
* `check_entry` reads the kill switch, the latch and the count in one step. It is
  not joined to the placement that follows, so an emergency stop in between is
  explored.
* A cancel request takes effect at once or not at all. The order may still fill
  before the request and between an ineffective request and the poll; a
  cancellation that takes effect only after the poll is not modelled.
* `LiveTrading` has one symbol, one day and one engine. Prices appear there only as their
  consequences: a stop may trigger at any time, a size may come out as zero, and
  today's loss may be at the limit once something has been sold.
* A strategy may give any signal on any candle (`live_progress` names the candles
  for each, `BuysOn` and `SellsOn`). The feed never goes back, may
  skip candles and may deliver the last one again.
* The `db` fault fails INSERTs into `orders` only; other statements succeed.
* A stop is triggered in full; market orders may fill in part.

### How `LiveRecovery` corresponds to the code

`Crash` may follow any step of the engine. It resets what `SignalEngine`,
`KiteBroker` and `Reconciler` hold in memory (and the UI thread, which lives in
the same process as the engine when `UiHasBroker`), and leaves `db.py`'s tables
and the exchange alone. `Restart` is a new process that reconciles first, as
`tests/test_reconciliation.py:111` does; nothing in the application does so yet.
`flatten_all` is one action per call: `StartFlatten`, `FlattenCancelsStop`,
`FlattenPollsStop`, `FlattenRecordsExit`, `FlattenPlacesExit`, `FlattenPollsExit`,
`FlattenUpdatesRow`, `FlattenDeletesPosition`. Its loop over positions has one
round, there being one symbol. Nothing in `src/` calls it outside the tests;
`StartFlatten` needs `UiHasBroker`, since a caller has to hand it a broker.

### How the simulation corresponds to the code

| Code | Definitions |
|---|---|
| `Backtester._prepare` | assumptions on the candles: `Times`, `Bars` |
| `Backtester.run` 210-232 | `BtDue`, `BtAsksRisk`, `BtEnters`, `BtHolds`, `BtExitsAtOpen` |
| `Backtester.run` 234-257 | `BtExitsAtOpen`, `BtCloses`, `BtAtEnd`, `BtQueue` |
| `SimulatedBroker` | `EnterLong`, `ExitLong`, `StopOrTarget` |
| `RiskManager.check_entry`, `position_size` | `EntryAllowed`, `LatchAfter`, `PositionSize` |
| `PaperBroker.on_candle` | `Stopped`, `SimAfter`, `Unseen` |
| `_get_open_position` | `EngineSees` |
| `process_candle`, `_execute_entry`, `_execute_exit` over `PaperBroker` | `PaperDue`, `PaperEnters`, `PaperExits`, `PaperSells`, `PaperBooks`, `StillUnbooked`, together in `PaperCandle` |

* A time is a number of timeframes; between the last candle of a day and the first
  of the next there is always a gap, and any candle may be missing.
* Prices and money are integers. The instances choose prices for which every
  percentage they take is exact, so that no rounding decides a comparison.
* The totals by day (`realized_by_day`, `entries_by_day`, the queries of `db.py`,
  the latch) are those of the last candle's day, and start anew when the day of
  the coming candle differs: a day does not come back.
* A strategy may give any signal on any candle. A paper session has no kill
  switch, no faults and no duplicate candle here: those are `LiveTrading`'s.
* A paper session is one step per candle: engine, `PaperBroker` and database run
  on one thread, and a replay has no other actor.

**The five kinds of candle that tell backtest and paper session apart**
(`TellsApart` in `Parity`), each from a difference in the code:

1. `TouchedOnEntry`: `PaperBroker.on_candle` checks stop and target before the
   engine enters; in a backtest they are live on the entry candle.
2. `TouchedOnExit`: for the same reason a stop or target touched on the candle of
   an exit fills in the paper session, where the backtest sells at the open.
3. `BlockedByRow`: `_get_open_position` falls back on the positions table, so
   after a stop fill the engine goes on seeing a position until its next exit, and
   ignores a BUY. `signal_engine.py:163` is meant to delete that row, but compares
   two lookups that both find it.
4. `BookedOvernight`: such a fill is booked with the time of the exit that finds
   it, and counts for that day's loss limit.
5. `LeftOpen`: only a backtest closes its position after the last candle.

Until the first such candle both hold the same position and make the same trades
(`SameUntilApart`).

### How the feed corresponds to the code

`AddTick` is `add_tick`: its three branches are a first tick, a tick of a later
boundary, and everything else, late ticks included. `NextCandle` is
`next_candle` called at any later time: stale, a candle, or the end. `Deliver` is
what `process_candle` does with a closed candle: append it to the history and ask
the strategy. Averages are exact in integers because the prices are multiples of
a power of the slow span's divisor.

## 3. Runs

| Run | Setting | Checks |
|---|---|---|
| `live_faults` | unanswered placements, unreadable order book, poll timeouts, partial fills; lot 2, 5 candles, 2 trades | `TypeOK`, `OneLot`, `OneEntryPerSignal`, `StopsMatchFills`, `EntryRowsNameTheirOrder`, `UnprotectedHalts`, `LossLatchFinal` |
| `live_progress` | rejections, failing inserts, unexpected exceptions; one emergency stop; 4 candles, 2 trades, square-off on the fourth | `TerminalRowsFinal`, `OnlyExitsCancelStops`, `StopResolvesEntries`, `StopLeavesNoneOut`, `CandleFinishes`, `SquareOffClears` |
| `live_alerts` | a reconciler, network and staleness alerts, refused orders, a lost session, failing cancels, failing `positions()`; 5 candles, 1 trade, square-off on the fifth | `OpenPositionProtected`, `BookedSalesHappened`, `TradesCapped`, `HaltEndsEntries` |
| `live_recovery` | unanswered placements, failing inserts; one crash, one emergency stop, two flattens; 3 candles, 1 trade | `OneLot`, `KillSwitchHolds`, `UnprotectedStaysBlocked`, `FlattensOnce` |
| `parity` | 3 prices, 2 days of 4 timeframes, a target, slippage, 2 trades a day | `SameUntilApart`, `RowTellsPosition`, `NeverBetterThanMarket`, `BacktestKeepsRules`, `PaperKeepsRules` |
| `feeds` | 4 ticks in 6 minutes, or 7 replayed candles; 3 prices; spans 1 and 3 | `CandlesInOrder`, `VolumeConserved`, `CandlesSumUpTheirTicks`, `LiveSignalsAreBacktestSignals`, `SignalsAlternate`, `NothingStaleDelivered` |
| `guard` | 4 processes, timeout of 6 periods, 2 lapses | `TypeOK`, `InstancesCounted`, `SoleHolderStays` |
| `v_never_short` | none | `NeverShort`, violated |
| `v_emergency_race` | one emergency stop | `OpenPositionProtected`, violated |
| `v_booked_sales` | rejections | `BookedSalesHappened`, violated |
| `v_parity` | no slippage, no charges | `IdenticalTrades`, violated |
| `v_guard_race` | 4 processes, 1 lapse | `OneInstance`, violated |

`Faults` names the failures a live instance may meet (`FaultKinds` in `Exchange`
explains each). They are divided over the runs because all of them at once
multiply the states without adding a question to any one property. The passing
runs visit 10 thousand (`guard`) to 5.4 million (`live_recovery`) distinct states
and take up to two minutes each.

**Bounds of the live runs.** `MaxCandle` candles (3 to 5), `MaxStops` emergency
stops (0 or 1), `MaxTrades` (1 or 2), `LotQty` (1, or 2 where a partial fill must
exist), `MaxCrashes` and `MaxFlattens`. `BuysOn` and `SellsOn` are all candles
except in `live_progress`, where a BUY on the first and on the second leave the
emergency stop up to two unresolved entries. A round trip needs a signal candle, an
execution candle and an exit candle; five candles hold an entry, its exit on a
signal and a second entry after it. `live_faults` places the square-off beyond its
last candle and leaves exits to signals; `live_progress` and `live_alerts` have it
inside. `live_recovery` ends before square-off: its question is what survives a
crash, at any step of an entry, an exit or a flatten. A second emergency stop
would repeat the first on rows that are already terminal; a second flatten is
there because a row that survives the first is what `FlattensOnce` is about. The
sessions end after their last candle, which is why deadlock is not checked in
them; `guard` never stops and is checked.

**Bounds of `guard`.** Nothing in `src/` calls `heartbeat()`, and nothing keeps two
processes from starting at once: the model lets both happen, and `MaxLapses`
bounds how often. Four processes with two lapses can run three at once, overwrite
each other's row, delete it by releasing, and crash.

**Bounds of `parity` and `feeds`.** A timeframe before the window, two inside it
and the square-off make a day of four; two days have a day change in the middle
of a position, of a pending signal and of an unbooked fill. With three prices,
20,000, 40,000 and 60,000, a stop of 25% and a target of 40%, one candle can gap
through the stop, touch stop and target together, touch neither, and reach the
daily loss in one trade.
Four ticks can open a candle, close it, come late for it and close the next. Seven
candles after a warm-up of four hold two crossovers with a tie between them.

**Refinement.** `SessionRules` is written without prices: a position is held or
not, a loss limit is reached or not. A step may enter only on a BUY that is due on
that very candle, with nothing held, inside the window, below the cap and with no
loss limit reached that day; after a due SELL, and from square-off on, nothing is
held. `BacktestKeepsRules` and `PaperKeepsRules` are `SessionRules!Spec` under a
refinement mapping: the paper session's is by what the engine has recorded (its
row), since its account may be flat already while the row is not.

**Fairness** (`FairSpec`, for the three liveness properties). Weak fairness of
the engine's next step and of the UI thread's next step: a handler that has
started is ordinary sequential code and runs on. Weak fairness of
`ExchangeDecides`: a market order is filled or cancelled in the end. Nothing is
assumed of candles, users, alerts, clearing the kill switch, or the price
reaching a stop. `CandleFinishes` does not lean on the poll's timeout:
`live_progress` has no `interim` fault.

**What a pass does not say.** `OpenPositionProtected` and `BookedSalesHappened`
hold in `live_alerts` and fail in the two violation runs: the first holds without a
racing emergency stop, both only without rejected, partial or lost orders (section
5 proves each for just the faults it holds under). With
unanswered placements the lookup by tag can also return the entry's id for its
stop (they share a tag); with failing inserts a stop can be placed twice. Neither
is claimed safe anywhere here. `SquareOffClears` accepts a halt as an end because
the code stops there: a halted engine closes nothing. `KillSwitchHolds` counts the
one entry that had passed its risk check when the stop was pressed as permitted.
`FlattensOnce` counts the sales of `flatten_all` alone: it does not check whether
the stop filled during its cancel. `NothingStaleDelivered` also means that a
`ReplayFeed` that was late once raises for ever, since only a delivery renews its
last tick.

## 4. What the code does not do

Five disagreements between the code and what is said of it, each shown by a run:

1. `v_never_short`: a position read from Kite carries no stop id
   (`kite_broker.py:260`), so an exit leaves the stop resting, and the stop can
   sell again. `README.md:58` says long-only.
2. `v_emergency_race`: an emergency stop between an entry's fill and its
   recording writes CANCELLED (`emergency_stop.py:42`); recording the fill then
   raises, and shares are held with no row, no stop and no halt.
3. `v_booked_sales`: the exit's final status is ignored
   (`signal_engine.py:376`); a rejected exit becomes a trade.
4. `v_guard_race`: the lock is read and written in two statements
   (`instance_guard.py:34` and 50); two processes that start together both run.
5. `v_parity`: paper session and backtest differ on the same candles for the five
   reasons of section 2. `docs/MASTER_PLAN.md:540` asks for identical trades or a
   list of the differences, and `docs/PROJECT_STATUS.md` lists none.

A limit of `live_recovery`: the reconciliation asks for rows without a stop id
(`reconciliation.py:89`), not whether a recorded stop still rests: an exit or a
`flatten_all` that dies after the stop's cancellation restarts clean over
unprotected shares, so `UnprotectedStaysBlocked` speaks of rows without a stop
only.

Another: it asks whether every order of the account is known, not whether it is
over (`reconciliation.py:103`). An entry whose poll times out halts the adapter,
but in memory only, and its row has the order's id; if the process then dies, the
restarted one finds the id known and no position on either side, is clean, and
buys a second lot while the first order is still open.
With the `interim` fault added to `live_recovery`, TLC finds `OneLot` violated so
in 19 steps. Hence `interim` is absent from that run, and excluded by
`NothingHidden` in section 5.

Seen while reading, and not a matter of a model: `ui/engine_singleton.py:57`
passes the capital to `PaperBroker` as its configuration, so the paper engine it
starts cannot fill an entry; `CandleBuilder` floors the minute of the hour, so a
timeframe that does not divide 60 starts anew every hour.

## 5. Proofs

TLAPS proves these for every value of the constants, from the named assumptions
on constants and nothing else; `OneLotAtATime`, `EntriesAreCapped`,
`OpenPositionsProtected`, `SalesAreReal`, `SalesStayReal`, `OneLotForAll`,
`UnprotectedKeepsBlocking` and `AlikeUntilApart` have further hypotheses, stated in
the theorem and explained below the tables.

**A live session, the instance guard, and the simulations**

| Theorem | Says | Argument |
|---|---|---|
| `TypeCorrect` | `TypeOK` always | from `SessionWellFormed` |
| `SessionWellFormed` | the inductive `WellFormed` | `TypeOK` is not inductive: a poll needs `bid` to be an order of the book, and a handler between two calls needs a signal in hand. `WellFormed` says what each control location knows |
| `TerminalRowsAreFinal` | `TerminalRowsFinal` | every write to `orders` is an insert of a new key or passes `UpdateAllowed` |
| `UnprotectedPositionHalts` | `UnprotectedHalts` | `UnprotectedInv`: at `savePosition` without a stop id the engine is already halted, and `halted` never falls |
| `HaltIsFinal` | `HaltEndsEntries` | `HaltInv`: an engine on its way to a buy order is not halted; a halted adapter accepts nothing |
| `SignalsBuyOnce` | `OneEntryPerSignal` | `SignalInv`: what was bought had been seen, and a signal that is queued or being executed has not been bought |
| `OneLotAtATime` | `OneLot` if `NoHiddenOrder` | `LotInv`: an open buy either is the one being polled or looked up, or has halted the adapter, and an engine that is about to buy holds nothing or has a halted adapter; `TagInv`: every order's tag is of an earlier candle than a queued or executing BUY, so no order carries a signal's tag before its entry, and the lookup finds that entry |
| `EntryRowsAreTrue` | `EntryRowsNameTheirOrder` | `RecordInv`, whatever faults occur: from placement to booking the engine's `bid` is its own signal's buy order (`EntryCallInv`; `TagInv` makes the lookup find that one), and the adapter's cache calls nothing COMPLETE that is not (`CacheInv`) |
| `StopsSellTheFill` | `StopsMatchFills` | `RecordInv` again: while a stop is being placed, and placed again, some buy of its signal is complete with just the quantity in hand (`StopCallInv`); a complete order never changes |
| `StopsSurviveTheEmergencyStop` | `OnlyExitsCancelStops` | `RecordInv` again: every id on the emergency stop's list is a buy order (`UiInv`), and a buy never rests as a stop |
| `StopLoopsToItsEnd` | `StopLeavesNoneOut` | `LoopInv`: the list is in the order of its signals, its rows were not terminal when read, and only the engine can have made one so since: an entry is executed on the very next candle, so that is the row of the last signal, the last of the list (`EntryInTime`, `InLoop`) |
| `EntriesAreCapped` | `TradesCapped` if `NoRowlessOrder` | `TradesInv`: every buy has its row, except the one on its way to it, for which the risk check left room; one signal buys once, so there are no more buys than rows and that one |
| `OpenPositionsProtected` | `OpenPositionProtected` if `NoLooseEnds` | `ProtectInv` says, while the engine can trade, what covers the shares at each call of a handler, or why there are none: shares come only from the entry being polled (`Between`), the stop placed for them sells just the lot (`StopsMatchFills`, `SharesStep`), a resting stop goes on resting until it sells the lot or an exit has it cancelled (`RestsStep`), and an exit ends with the lot sold or the engine halted (`SaleCompletes`) |
| `SalesAreReal` | `BookedSalesHappened` if `SalesSettle` | `SaleInv`: some set of complete sell orders, none of them still in a handler's or the position row's hands, has filled what is booked (`Backed`); a booking adds to the set the exit or the stop it lets go of (`BookingStep`), which has sold what is booked (`SaleAwaited`, `StopsRecorded`). Totals over the book by `TotalGrows`, `TotalAgrees` and `TotalMonotone` |
| `InstancesAreCounted` | `InstancesCounted` | `CountInv`: the running processes that do not hold a valid lock (`Strays`) are no more than the lapses so far; only a write over another's lock or a lock gone stale adds one, and whoever has a valid lock is one more |
| `SoleHoldersStay` | `SoleHolderStays` | by the step: a read of a valid lock is refused, so while the others are idle only `p` itself, or a stale lock, ends it |
| `GuardTypeCorrect` | `TypeOK` of the guard | inductive as it stands |
| `LatchIsFinal` | `LossLatchFinal` | `LatchInv`: an engine about to place an entry has no latch; the risk check that let it through saw none and set none, and only a risk check sets it |
| `BacktestInvariant` | the inductive `BtInv` | types, and: a loss at the limit means nothing is held, since a loss is realised by closing |
| `BacktestImplementsRules` | `BacktestSpec => BacktestKeepsRules` | `BtInv` gives the refinement its hard case, a loss that is reached while nothing is entered any more; one lemma per field of the abstract step |
| `RowAlwaysTells` | `RowTellsPosition` | `PaperInv`: a fill needs a simulated position, so at most one waits, and only an exit, which books it, clears the row |
| `PaperImplementsRules` | `PaperSpec => PaperKeepsRules` | as for the backtest, with the row in place of the position: an unbooked fill keeps the row, and so the engine from entering |
| `AlikeUntilApart` | `SameUntilApart` if `NoCharges` | `Together`: the backtest's P&L is ahead by the fill not yet booked, everything else is equal; two candles one timeframe apart share their day, so both queue alike |
| `NoSaleBeatsTheMarket` | `NeverBetterThanMarket` | a stop fills at the lower of its price and the open, a target only when reached, and slippage takes off |

**Across crashes, restarts and flattens** (`RecoverySpec`, any number of each)

A step there is a step of the session, of which the lemmas above say what it
preserves, or a crash, a restart or a call of `flatten_all` (`RecoverySteps`).
What the invariants above say of the engine's memory is true of empty memory, so
most of them survive a crash as they stand; the ones that relied on memory are
replaced.

| Theorem | Says | Argument |
|---|---|---|
| `RecoveryTypeCorrect` | `TypeOK` | `RecoveryWF`: `WellFormed`, and `flatten_all` polls orders of the book only |
| `SignalsBuyOnceForAll` | `OneEntryPerSignal` | the set of seen ids dies with the process, so this one cannot come from it: candles do not go back, and a BUY that is queued is newer than every tag in the book (`TagInv`) |
| `EntryRowsStayTrue`, `StopsStillSellTheFill` | `EntryRowsNameTheirOrder`, `StopsMatchFills` | `RecoveryRecords`: `RecordInv` as in a session; `flatten_all` sells without a tag, and cancels stops, which are no buys |
| `KillSwitchIsKept` | `KillSwitchHolds` | `KillInv`: while the switch is set, the buys so far and the one whose checks are done are within the limit noted when it was set; the switch is a row and outlives the crash |
| `UnprotectedKeepsBlocking` | `UnprotectedStaysBlocked` if `HasReconciler` | `BlockedInv`: where the engine's halt is gone with its process, the restart's reconciliation has turned on safe mode, and no later one turns it off over such a row |
| `FlattensAreOnce` | `FlattensOnce` | `FlattenInv` counts: sales made by `flatten_all`, the one it is about to make and the position it would sell next are no more than the entries filled (`SalesCovered`); each sale needs a row, each row one fill |
| `OneLotForAll` | `OneLot` if `NothingHidden` and `HasReconciler` | `RecoveryLotInv`: a buy still open is the one being polled or looked up, or its adapter is halted, or the process is down or idle in safe mode (`Quiet`). The last holds after a restart, since no row has the id of an open order (`PolledNotOpen`: rows are written after the poll), so the reconciliation finds an order it does not know |
| `SalesStayReal` | `BookedSalesHappened` if `SalesSettle` | `SaleInv` as in a session: `flatten_all` books nothing, sells by orders of its own and cancels no order but a stop (`FlatSale`), and a crash only lets go of the orders in hand |

**Feeds and signals**

| Theorem | Says | Argument |
|---|---|---|
| `CandlesAlwaysInOrder` | `CandlesInOrder` | `FeedInv`: the candle being built is newer than every closed one; `BoundaryMonotone` |
| `VolumeAlwaysConserved` | `VolumeConserved` | a tick adds to one summand, and a closed candle moves from "being built" to "closed" with its volume; sums over functions by `SumsExist` and `SumIsUnique` |
| `CandlesAlwaysSumUp` | `CandlesSumUpTheirTicks` | `Built`: every candle is made from exactly the ticks that arrived while its boundary was the latest one reached: first, last, largest, smallest (`OpenedIsMade`, `ExtendedIsMade`). Of ticks in order these are the ticks of its timeframe (`TicksOfTheirTimeframe`) |
| `LiveSignalsMatch` | `LiveSignalsAreBacktestSignals` | averages, fill-forward and crossings at a candle depend on the closes up to it only (`EmaOfPrefix`, `FillOfPrefix`, `StateOfPrefix`, `SignalsOfPrefix`), so the history of that moment gives the signal of the whole series |
| `SignalsTakeTurns` | `SignalsAlternate` | `CrossingsAlternate`: between two BUYs the state was SELL at a first moment |
| `NothingStale` | `NothingStaleDelivered` | an accepted candle is fresh by the feed's own test |

The recursive functions of `EmaStrategy` are shown to satisfy their equations
(`EmaExists`, `FillExists`) by taking a least counterexample (`LeastNatural`, from
the well-foundedness of the naturals), since an induction theorem cannot be
instantiated here.

**The further hypotheses.** `NoHiddenOrder` excludes two faults. With `unexpected`, an order taken behind an
unforeseen exception is forgotten, and another entry may follow; with
`positions`, a failed position query is read as "no position". `NoRowlessOrder`
excludes `unexpected` and `db`: behind either, an order goes without the row that
the risk check would count, and with a cap of one TLC finds two entries.
`NoLooseEnds` excludes an emergency stop (`v_emergency_race`) and five faults:
`rejected`, `partial`, `network`, `unexpected` and `db`. With any one of the five
TLC finds shares that no stop covers while the engine goes on trading; refusals,
polls that time out, cancels that fail, lost sessions, failed position queries
and alerts are all allowed. `SalesSettle` excludes the four faults that each let a
trade be booked with no sale behind it, as TLC finds for every one of them:
`rejected` and `partial`, since an exit is booked whatever state it ended in;
`interim`, since its poll may give up while it is open; and `network`, since the
lookup by tag may return the entry's id for its stop. The emergency stop and the
other seven faults are allowed. `NoCharges` (a backtest without charges) is the setting of the repository's
own parity test: a paper session books no charges, so with them the two reach the
loss limit at different times. `NothingHidden` is `NoHiddenOrder` without the
`interim` fault too, for the reason in section 4; `HasReconciler` says that the
engine was given a `Reconciler`, which its constructor leaves optional: without
one a restart compares nothing.

The strengthened invariants were model-checked on the instances above before
they were proved.

**Only model-checked:** the liveness properties (`CandleFinishes`,
`SquareOffClears`, `StopResolvesEntries`), which are outside what this prover does.
Every other property of a passing run is stated by a theorem above. No recursive
operators are declared.

## 6. Not modelled

* In the live models: prices, P&L amounts and charges; tick rounding; parameters
  of an order that the exchange model does not distinguish; more than one day.
* In paper sessions: the kill switch, duplicate candles, `PaperBroker`'s queue for
  orders placed before the first candle (the engine never uses it).
* `RuntimeMode`: a flag set and read by one thread. A live order it refuses is the
  `refused` fault of the live runs.
* The mock broker and `FakeFeed`: the tests' doubles.
* Metrics and the composition of charges: floating-point arithmetic over finished
  trades, with no state.
* Validation of inputs, logs, backtest tables and schema versions; downloads and
  instrument lists; UI pages that only show data.

`PROJECT.json` gives the reason per component.

## 7. What is left

1. An abstract specification of a long-only account that `LiveTrading` implements
   under the assumptions of `OneLotAtATime`.
2. `LiveTrading` over several days, with prices, so that the daily loss is
   computed and not chosen.
