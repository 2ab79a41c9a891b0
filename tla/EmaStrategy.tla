----------------------------- MODULE EmaStrategy ------------------------------
(***************************************************************************)
(* EMACrossoverStrategy (strategy/ema_strategy.py) over a sequence of      *)
(* closing prices, oldest first.  Prices are integers, multiples of a      *)
(* power of the spans' divisors, so that the averages the instances        *)
(* compute are exact.                                                      *)
(***************************************************************************)
EXTENDS Integers, Sequences

CONSTANTS FastPeriod, SlowPeriod, Warmup

ASSUME StrategyAssumption == /\ {FastPeriod, SlowPeriod, Warmup} \subseteq Nat \ {0}
                             /\ FastPeriod < SlowPeriod
                             /\ Warmup > SlowPeriod

\* ewm(span, adjust=False).mean(): seeded with the first close.
Ema(closes, span) ==
    LET e[i \in DOMAIN closes] ==
            IF i = 1 THEN closes[1]
                     ELSE (2 * closes[i] + (span - 1) * e[i - 1]) \div (span + 1)
    IN  e

Sign(x) == IF x > 0 THEN 1 ELSE IF x < 0 THEN -1 ELSE 0

Side(closes) == LET fast == Ema(closes, FastPeriod)
                    slow == Ema(closes, SlowPeriod)
                IN  [i \in DOMAIN closes |-> Sign(fast[i] - slow[i])]

\* Wrong on purpose: equal averages are filled from the candles that follow.
FillBackward(side) ==
    LET s[i \in 1..(Len(side) + 1)] ==
            IF i > Len(side) THEN 0 ELSE IF side[i] # 0 THEN side[i] ELSE s[i + 1]
    IN  [i \in DOMAIN side |-> s[i]]

\* Wrong on purpose: equal averages count as a side of their own.
KeepEqual(side) == side

\* replace(0, nan).ffill(): equal averages stay on the side they were; 0 is nan.
FillForward(side) ==
    LET s[i \in DOMAIN side] ==
            IF side[i] # 0 \/ i = 1 THEN side[i] ELSE s[i - 1]
    IN  s

CrossesUp(state, i)   == i > 1 /\ state[i - 1] < 0 /\ state[i] > 0
CrossesDown(state, i) == i > 1 /\ state[i - 1] > 0 /\ state[i] < 0

\* The signal of every candle, as a backtest computes it.
GenerateSignals(closes) ==
    LET state == FillForward(Side(closes)) IN
        [i \in DOMAIN closes |->
            CASE i < Warmup -> "HOLD"
              [] i >= Warmup /\ CrossesUp(state, i)   -> "BUY"
              [] i >= Warmup /\ CrossesDown(state, i) -> "SELL"
              [] OTHER -> "HOLD"]

\* The signal of the last candle, as the engine asks for it.
GenerateSignal(closes) ==
    IF Len(closes) < Warmup THEN "HOLD" ELSE GenerateSignals(closes)[Len(closes)]

=============================================================================
