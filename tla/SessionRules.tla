---------------------------- MODULE SessionRules -----------------------------
(***************************************************************************)
(* What a trading session promises, whatever runs it: README.md:56-66 and  *)
(* the ASSUMPTIONS of backtest/engine.py.  One step is one closed candle.  *)
(* The backtester and the paper engine are shown to implement it.          *)
(***************************************************************************)
EXTENDS Integers

CONSTANTS
    Times,          \* opening times of the candles, one timeframe apart within a day
    Day(_),         \* the trading day of a time
    MayEnter(_),    \* is it between trading_start and trading_end?
    SquareOff(_),   \* is it at or after square_off_time?
    MaxTrades       \* max_trades_per_day

VARIABLES
    now,        \* the time of the last candle
    holding,    \* is a position held?
    entries,    \* entries of the day
    lossHit,    \* has the day's realised loss reached max_daily_loss?
    wanted      \* the signal queued on the last candle

session == <<now, holding, entries, lossHit, wanted>>

Signals == {"BUY", "SELL", "HOLD"}

Init == /\ now = 0
        /\ holding = FALSE /\ entries = 0 /\ lossHit = FALSE
        /\ wanted = "HOLD"

NewDay(t) == Day(t) # Day(now)

EntriesBefore(t) == IF NewDay(t) THEN 0 ELSE entries

LossBefore(t) == ~NewDay(t) /\ lossHit

\* A signal is executed on the next candle or not at all.
Due(t) == IF t = now + 1 THEN wanted ELSE "HOLD"

\* An entry needs a BUY that is due, an empty account and the risk limits.
EntryAllowed(t) == /\ Due(t) = "BUY"
                   /\ ~holding
                   /\ MayEnter(t)
                   /\ EntriesBefore(t) < MaxTrades
                   /\ ~LossBefore(t)

\* Nothing is held after a due SELL, or from square_off_time on.
MustBeFlat(t) == Due(t) = "SELL" \/ SquareOff(t)

\* A position may always be closed inside the candle, by its stop or target, also
\* the one just entered.  A loss is realised only by closing a position.
Candle(t) ==
    /\ t > now
    /\ now' = t
    /\ \E entered \in {FALSE, EntryAllowed(t)} :
          /\ entries' = EntriesBefore(t) + (IF entered THEN 1 ELSE 0)
          /\ holding' \in {FALSE, holding \/ entered}
          /\ MustBeFlat(t) => ~holding'
          /\ lossHit' \in {LossBefore(t), LossBefore(t) \/ ((holding \/ entered) /\ ~holding')}
    /\ wanted' \in Signals

Next == \E t \in Times : Candle(t)

Spec == Init /\ [][Next]_session

=============================================================================
