------------------------------- MODULE Backtest -------------------------------
(***************************************************************************)
(* Backtester.run (backtest/engine.py): one step is one round of its loop, *)
(* for any strategy.  The candles have passed _prepare: unique, sorted,    *)
(* consistent, within market hours.                                        *)
(***************************************************************************)
EXTENDS Simulation

VARIABLES
    btPos,       \* SimulatedBroker.position
    btPending,   \* pending, the signal queued by the last candle
    btPnl,       \* realized_by_day, of the day of the last candle
    btEntries,   \* entries_by_day, likewise
    btLatch,     \* RiskManager._loss_halt_day is that day
    btTrades     \* the trades the last candle closed

btVars == <<btPos, btPending, btPnl, btEntries, btLatch, btTrades>>

BacktestInit == /\ btPos = Flat /\ btPending = "HOLD"
                /\ btPnl = 0 /\ btEntries = 0 /\ btLatch = FALSE
                /\ btTrades = {}

\* The totals are kept by day: those of the coming candle's day.
BtSameDay        == Day(ahead) = Day(now)
BtPnlBefore      == IF BtSameDay THEN btPnl ELSE 0
BtEntriesBefore  == IF BtSameDay THEN btEntries ELSE 0
BtLatchBefore    == BtSameDay /\ btLatch

\* Wrong on purpose: a signal never expires.
BtDueAnyTime == btPending

\* 1. The queued signal is executed on the next timeframe or expires.
BtDue == IF ahead = now + 1 THEN btPending ELSE "HOLD"

BtAsksRisk == BtDue = "BUY" /\ btPos = Flat

BtEnters(bar) ==
    BtAsksRisk /\ EntryAllowed(ahead, bar.open, BtPnlBefore, BtEntriesBefore, BtLatchBefore)

BtHolds(bar) == IF BtEnters(bar) THEN EnterLong(ahead, bar.open, PositionSize(bar.open))
                                 ELSE btPos

\* 1. and 2. A SELL, and the square-off, close the position at the open.
BtExitsAtOpen == BtDue = "SELL" \/ SquareOff(ahead)

\* 4. Nothing is left open after the last candle.
BtAtEnd(p, bar) == IF ahead' = End THEN {ExitLong(p, ahead, bar.close)} ELSE {}

\* 1. to 4.: the trade this candle closes, if any.
BtCloses(bar) ==
    LET p == BtHolds(bar)
        inside == StopOrTarget(p, ahead, bar)
    IN  CASE p = Flat                     -> {}
          [] p # Flat /\ BtExitsAtOpen    -> {ExitLong(p, ahead, bar.open)}
          [] p # Flat /\ ~BtExitsAtOpen   -> IF inside # {} THEN inside ELSE BtAtEnd(p, bar)

\* 6. A signal is queued only if the same day has another candle.
BtQueue(signal) == IF ahead' # End /\ Day(ahead') = Day(ahead) THEN signal ELSE "HOLD"

BacktestCandle(bar, signal) ==
    LET closed == BtCloses(bar) IN
        /\ btTrades' = closed
        /\ btPos' = IF closed = {} THEN BtHolds(bar) ELSE Flat
        /\ btPnl' = BtPnlBefore + Realised(closed, Charges)
        /\ btEntries' = BtEntriesBefore + (IF BtEnters(bar) THEN 1 ELSE 0)
        /\ btLatch' = IF BtAsksRisk THEN LatchAfter(ahead, BtPnlBefore, BtLatchBefore)
                                    ELSE BtLatchBefore
        /\ btPending' = BtQueue(signal)

BacktestNext == /\ NextCandle
                /\ \E bar \in Bars, signal \in Signals : BacktestCandle(bar, signal)

BacktestSpec == CandlesInit /\ BacktestInit /\ [][BacktestNext]_<<now, ahead, btVars>>

(***************************************************************************)
(* What a backtest promises                                                *)
(***************************************************************************)
BacktestRules == INSTANCE SessionRules WITH
    holding <- btPos # Flat,
    entries <- btEntries,
    lossHit <- LossLimit(btPnl),
    wanted  <- btPending

\* README.md:56-62: a backtest enters on a fresh BUY only, one position at a time,
\* inside the trading window and under the day's limits, is flat after a SELL and
\* from square-off on, and trades no more that day once the loss limit is hit.
BacktestKeepsRules == BacktestRules!Spec

=============================================================================
