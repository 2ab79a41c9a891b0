-------------------------------- MODULE Parity --------------------------------
(***************************************************************************)
(* The backtester and a paper session on the same candles and signals      *)
(* (tests/test_signal_engine.py:28, docs/MASTER_PLAN.md:534).              *)
(***************************************************************************)
EXTENDS Backtest, PaperTrading

VARIABLES
    high,      \* the highest price of the last candle
    apart      \* history: has a candle told the two apart?

parityVars == <<now, ahead, btVars, paperVars, high, apart>>

ParityInit == /\ CandlesInit /\ BacktestInit /\ PaperInit
              /\ high = 0 /\ apart = FALSE

\* Only a backtest's stop and target are live on the entry candle
\* (backtest/engine.py:238, trading/paper_broker.py:60).
TouchedOnEntry(bar) == BtEnters(bar) /\ Touched(BtHolds(bar), bar)

\* The backtest sells at the open, the paper broker has filled the stop already.
TouchedOnExit(bar) == BtExitsAtOpen /\ Touched(btPos, bar)

\* The row of an unbooked fill looks like a position to the paper engine
\* (trading/signal_engine.py:99).
BlockedByRow(bar) == BtAsksRisk /\ unbooked # {}

\* A fill booked on a later day counts for that day's loss.
BookedOvernight == unbooked # {} /\ ~BtSameDay

\* Only a backtest closes its position after the last candle.
LeftOpen(bar) == ahead' = End /\ BtHolds(bar) # Flat /\ ~BtExitsAtOpen

TellsApart(bar) == \/ TouchedOnEntry(bar) \/ TouchedOnExit(bar) \/ BlockedByRow(bar)
                   \/ BookedOvernight \/ LeftOpen(bar)

ParityNext ==
    /\ NextCandle
    /\ \E bar \in Bars, signal \in Signals :
          /\ BacktestCandle(bar, signal)
          /\ PaperCandle(bar, signal)
          /\ high' = bar.high
          /\ apart' = (apart \/ TellsApart(bar))

ParitySpec == ParityInit /\ [][ParityNext]_parityVars

\* docs/MASTER_PLAN.md:540: until a candle of one of the five kinds above, both
\* hold the same position and make the same trades, at the same times and prices.
SameUntilApart == ~apart => btPos = sim /\ btTrades = simTrades

\* docs/MASTER_PLAN.md:540, "must produce identical entry/exit timestamps": what
\* the paper engine books is what the backtest trades, while the data lasts.
IdenticalTrades == ahead # End => btTrades = booked

\* backtest/engine.py:43-46: a simulated sale never gets more than the candle's
\* best price; a gap through the stop fills at the open.
NeverBetterThanMarket == \A tr \in btTrades \cup simTrades : tr.exit <= high

=============================================================================
