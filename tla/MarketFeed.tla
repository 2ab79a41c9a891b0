------------------------------ MODULE MarketFeed ------------------------------
(***************************************************************************)
(* Where candles come from (market/live_data.py): ticks through a          *)
(* CandleBuilder, or a ReplayFeed.  Each closed candle goes to the         *)
(* strategy with all candles before it, as process_candle does.            *)
(*                                                                         *)
(* Time counts minutes.  Ticks may arrive late, behind a later one.        *)
(***************************************************************************)
EXTENDS EmaStrategy, FiniteSetsExt

CONSTANTS
    Timeframe,        \* timeframe_minutes
    Prices,
    MaxMinute,        \* bound: last minute of a tick
    MaxTicks,         \* bound: ticks
    MaxReplayed,      \* bound: candles of the replayed data
    MaxClock,         \* bound: last minute of a replay
    StaleThreshold    \* stale_threshold_seconds, in minutes

ASSUME FeedAssumption ==
    /\ Prices \subseteq Nat \ {0}
    /\ Timeframe \in Nat \ {0}
    /\ {MaxMinute, MaxTicks, MaxReplayed, MaxClock, StaleThreshold} \subseteq Nat

VARIABLES
    source,       \* "ticks" or "replay"
    bar,          \* CandleBuilder: the candle being built, NoBar before the first tick
    heard,        \* history: the ticks, in order of arrival
    closed,       \* the closed candles delivered so far
    signals,      \* the strategy's signal on each of them
    clock,        \* the time of the caller of next_candle
    lastTick,     \* ReplayFeed.last_tick_time, None before the first candle
    delivered     \* history: the time of the last delivery

builderVars == <<bar, heard>>
replayVars  == <<clock, lastTick, delivered>>
feedVars    == <<source, builderVars, closed, signals, replayVars>>

None  == -1
NoBar == [time |-> None, open |-> 0, high |-> 0, low |-> 0, close |-> 0, volume |-> 0]

Init == /\ source \in {"ticks", "replay"}
        /\ bar = NoBar /\ heard = << >>
        /\ closed = << >> /\ signals = << >>
        /\ clock = 0 /\ lastTick = None /\ delivered = None

\* process_candle appends the candle to its history and asks the strategy.
Deliver(candle) ==
    /\ closed' = Append(closed, candle)
    /\ signals' = Append(signals, GenerateSignal([i \in DOMAIN closed' |-> closed'[i].close]))

(***************************************************************************)
(* CandleBuilder                                                           *)
(***************************************************************************)

\* _get_boundary floors the minute of the hour.
Boundary(t) == t - ((t % 60) % Timeframe)

Opened(tick) == [time |-> Boundary(tick.time), open |-> tick.price, high |-> tick.price,
                 low |-> tick.price, close |-> tick.price, volume |-> tick.volume]

Extended(tick) == [bar EXCEPT !.high = Max({@, tick.price}), !.low = Min({@, tick.price}),
                              !.close = tick.price, !.volume = @ + tick.volume]

\* Wrong on purpose: a late tick closes the candle, too.
AnyOtherBoundary(tick) == bar # NoBar /\ Boundary(tick.time) # bar.time

\* Only a later boundary closes the candle.
ClosesCandle(tick) == bar # NoBar /\ Boundary(tick.time) > bar.time

\* Wrong on purpose: the tick that closes a candle is counted in it.
CloseWithTick(tick) ==
    bar' = Opened(tick) /\ Deliver(Extended(tick))

CloseCandle(tick) ==
    bar' = Opened(tick) /\ Deliver(bar)

\* A tick of an earlier candle falls into the same branch as one of this candle.
AddTick(tick) ==
    /\ \/ bar = NoBar /\ bar' = Opened(tick) /\ UNCHANGED <<closed, signals>>
       \/ ClosesCandle(tick) /\ CloseCandle(tick)
       \/ /\ bar # NoBar /\ ~ClosesCandle(tick)
          /\ bar' = Extended(tick)
          /\ UNCHANGED <<closed, signals>>
    /\ heard' = Append(heard, tick)
    /\ UNCHANGED <<source, replayVars>>

Tick == /\ source = "ticks"
        /\ Len(heard) < MaxTicks
        /\ \E t \in 0..MaxMinute, p \in Prices, v \in {1, 2} :
              AddTick([time |-> t, price |-> p, volume |-> v])

(***************************************************************************)
(* ReplayFeed                                                              *)
(***************************************************************************)
Flat(i, price) == [time |-> i * Timeframe, open |-> price, high |-> price, low |-> price,
                   close |-> price, volume |-> 1]

Stale == lastTick # None /\ clock' - lastTick > StaleThreshold

\* Wrong on purpose: the failed call counts as a sign of life.
RaiseAndRefresh == lastTick' = clock' /\ UNCHANGED <<closed, signals, delivered>>

\* StaleFeedError; the time of the last tick stays.
RaiseStale == UNCHANGED <<closed, signals, lastTick, delivered>>

ReturnCandle(price) == /\ Deliver(Flat(Len(closed) + 1, price))
                       /\ lastTick' = clock' /\ delivered' = clock'

\* next_candle; after the last one it returns None.
NextCandle ==
    /\ source = "replay"
    /\ clock' \in clock..MaxClock
    /\ \/ Stale /\ RaiseStale
       \/ /\ ~Stale
          /\ Len(closed) < MaxReplayed
          /\ \E p \in Prices : ReturnCandle(p)
       \/ ~Stale /\ Len(closed) = MaxReplayed /\ UNCHANGED <<closed, signals, lastTick, delivered>>
    /\ UNCHANGED <<source, builderVars>>

Next == Tick \/ NextCandle

Spec == Init /\ [][Next]_feedVars

(***************************************************************************)
(* What feeds promise                                                      *)
(***************************************************************************)

\* live_data.py:120: closed candles come oldest first, one for each timeframe at
\* most and never ahead of the one being built, whatever arrives late.
CandlesInOrder ==
    /\ \A i, j \in DOMAIN closed : i < j => closed[i].time < closed[j].time
    /\ bar # NoBar => \A i \in DOMAIN closed : closed[i].time < bar.time

\* live_data.py:143: no tick is lost or counted twice, late ones included.
VolumeConserved ==
    source = "ticks" =>
        MapThenSumSet(LAMBDA i : closed[i].volume, DOMAIN closed) + bar.volume
            = MapThenSumSet(LAMBDA i : heard[i].volume, DOMAIN heard)

\* The ticks of candle c, those that arrived while its boundary was the latest one
\* reached, and what a candle made of them is.
TicksOf(c) == {i \in DOMAIN heard :
                  /\ \A j \in 1..i : Boundary(heard[j].time) <= c.time
                  /\ \E j \in 1..i : Boundary(heard[j].time) = c.time}

SumsUp(c) ==
    /\ c.open = heard[Min(TicksOf(c))].price
    /\ c.close = heard[Max(TicksOf(c))].price
    /\ c.high = Max({heard[i].price : i \in TicksOf(c)})
    /\ c.low = Min({heard[i].price : i \in TicksOf(c)})

\* live_data.py:96 and 120: a closed candle is made of the ticks from the first of its
\* boundary to the last before a later one, late ticks included, and of all of them.
\* Of ticks in order these are the ticks of its own timeframe.
CandlesSumUpTheirTicks ==
    source = "ticks" => \A i \in DOMAIN closed : SumsUp(closed[i])

\* ema_strategy.py:54 and backtest/engine.py:162: the signals a live engine gets
\* candle by candle are those a backtest computes from the whole series.
LiveSignalsAreBacktestSignals ==
    signals = GenerateSignals([i \in DOMAIN closed |-> closed[i].close])

\* ema_strategy.py:5, a crossover produces exactly one signal: of two signals with
\* only HOLD between them, one is BUY and the other SELL.
SignalsAlternate ==
    \A i, j \in DOMAIN signals :
        (i < j /\ signals[i] # "HOLD" /\ signals[j] # "HOLD"
           /\ \A k \in (i + 1)..(j - 1) : signals[k] = "HOLD") => signals[i] # signals[j]

\* MASTER_PLAN.md:532: a ReplayFeed never delivers a candle later than the threshold
\* after the one before; once it is stale, it stays so.
NothingStaleDelivered ==
    [][delivered' # delivered /\ delivered # None => delivered' - delivered <= StaleThreshold]_feedVars

=============================================================================
