------------------------------ MODULE Simulation ------------------------------
(***************************************************************************)
(* What backtests and paper trading share: the candles, the sizing and     *)
(* limits of RiskManager (trading/risk_manager.py) and the fills of        *)
(* SimulatedBroker (backtest/broker.py).                                   *)
(*                                                                         *)
(* Prices and money are integers: the constants are chosen so that every   *)
(* percentage the instances take is exact.                                 *)
(***************************************************************************)
EXTENDS Integers

CONSTANTS
    Prices,                              \* what a candle may open, reach and close at
    Days, DayLength,                     \* bound: days, and timeframes in each
    EntrySlots,                          \* timeframes in [trading_start, trading_end]
    SquareOffSlot,                       \* first timeframe at or after square_off_time
    SlippagePct, StopPct, EnableTarget, TargetPct,
    Capital, RiskPct, MaxQuantity,
    MaxTrades, MaxDailyLoss,
    Charges                              \* of one round trip, in a backtest

ASSUME SimulationAssumption ==
    /\ Prices \subseteq Nat \ {0}
    /\ {Days, DayLength, StopPct} \subseteq Nat \ {0}
    /\ {SlippagePct, TargetPct, Capital, RiskPct, MaxQuantity, MaxTrades, Charges} \subseteq Nat
    /\ StopPct < 100 /\ SlippagePct <= 100
    /\ EnableTarget \in BOOLEAN
    /\ MaxDailyLoss \in Nat \ {0}
    /\ EntrySlots \subseteq 1..DayLength
    /\ \A s \in EntrySlots : s < SquareOffSlot

VARIABLES
    now,      \* the time of the last candle
    ahead     \* the time of the next one, End after the last

(***************************************************************************)
(* Candles.  A time counts timeframes; the step from one day's last        *)
(* timeframe to the next day's first is never a single one.                *)
(***************************************************************************)
NightAndDay == DayLength + 1

Times == {t \in 1..(Days * NightAndDay) : t % NightAndDay # 0}

End == Days * NightAndDay

Day(t)  == t \div NightAndDay
Slot(t) == t % NightAndDay

Bars == {b \in [open : Prices, high : Prices, low : Prices, close : Prices] :
            /\ b.low <= b.open /\ b.low <= b.close
            /\ b.open <= b.high /\ b.close <= b.high}

Signals == {"BUY", "SELL", "HOLD"}

CandlesInit == now = 0 /\ ahead \in Times

\* Any later timeframe may be missing.
NextCandle == /\ ahead # End
              /\ now' = ahead
              /\ ahead' \in {t \in Times : t > ahead} \cup {End}

(***************************************************************************)
(* RiskManager                                                             *)
(***************************************************************************)
Least(a, b) == IF a < b THEN a ELSE b

PositionSize(price) == Least(Least((Capital * RiskPct) \div (price * StopPct), Capital \div price),
                             MaxQuantity)

MayEnter(t)  == Slot(t) \in EntrySlots
SquareOff(t) == Slot(t) >= SquareOffSlot

LossLimit(pnl) == pnl <= -MaxDailyLoss

\* Wrong on purpose: the day's loss is not looked at.
EntryAllowedAfterLoss(t, price, pnl, entries, latched) ==
    /\ MayEnter(t)
    /\ entries < MaxTrades
    /\ PositionSize(price) > 0

EntryAllowed(t, price, pnl, entries, latched) ==
    /\ MayEnter(t)
    /\ ~latched /\ ~LossLimit(pnl)
    /\ entries < MaxTrades
    /\ PositionSize(price) > 0

\* check_entry sets the latch when it gets to the daily-loss check.
LatchAfter(t, pnl, latched) == latched \/ (MayEnter(t) /\ LossLimit(pnl))

(***************************************************************************)
(* SimulatedBroker                                                         *)
(***************************************************************************)
BuyPrice(raw)  == (raw * (100 + SlippagePct)) \div 100
SellPrice(raw) == (raw * (100 - SlippagePct)) \div 100

Flat == [qty |-> 0, entry |-> 0, time |-> 0]

EnterLong(t, open, qty) == [qty |-> qty, entry |-> BuyPrice(open), time |-> t]

StopPrice(p)   == (p.entry * (100 - StopPct)) \div 100
TargetPrice(p) == (p.entry * (100 + TargetPct)) \div 100

Trade(p, t, price) == [qty |-> p.qty, entered |-> p.time, left |-> t,
                       entry |-> p.entry, exit |-> price]

ExitLong(p, t, raw) == Trade(p, t, SellPrice(raw))

Gross(trade) == (trade.exit - trade.entry) * trade.qty

\* What the trade of a candle, at most one, adds to the day's P&L.
Realised(trades, charges) ==
    IF trades = {} THEN 0 ELSE Gross(CHOOSE tr \in trades : TRUE) - charges

StopTouched(p, bar)   == p # Flat /\ bar.low <= StopPrice(p)
TargetTouched(p, bar) == EnableTarget /\ p # Flat /\ bar.high >= TargetPrice(p)
Touched(p, bar)       == StopTouched(p, bar) \/ TargetTouched(p, bar)

\* Wrong on purpose: a gap through the stop still fills at the stop.
StopAtItsPrice(p, t, bar) ==
    IF StopTouched(p, bar) THEN {ExitLong(p, t, StopPrice(p))}
    ELSE IF TargetTouched(p, bar) THEN {Trade(p, t, TargetPrice(p))}
    ELSE {}

\* check_stop_and_target: the trade that closes p inside the candle, if any.
StopOrTarget(p, t, bar) ==
    IF StopTouched(p, bar) THEN {ExitLong(p, t, Least(StopPrice(p), bar.open))}
    ELSE IF TargetTouched(p, bar) THEN {Trade(p, t, TargetPrice(p))}
    ELSE {}

=============================================================================
