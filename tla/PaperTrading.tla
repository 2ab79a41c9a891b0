----------------------------- MODULE PaperTrading -----------------------------
(***************************************************************************)
(* A paper session: SignalEngine (trading/signal_engine.py) over           *)
(* PaperBroker (trading/paper_broker.py) and the database, one step per    *)
(* candle of a replay, for any strategy.                                   *)
(*                                                                         *)
(* PaperBroker.on_candle fills stops and targets before the engine acts on *)
(* the candle.  The engine learns of such a fill only when it next cancels *)
(* the stop: until then its row stays in the positions table and the trade *)
(* is not booked.  The broker's queue for orders placed before the first   *)
(* candle is never used by the engine.                                     *)
(***************************************************************************)
EXTENDS Simulation

VARIABLES
    sim,           \* PaperBroker.simulated.position
    row,           \* the position in the database
    unbooked,      \* simulated trades the engine has not booked: the COMPLETE stop
    paperPending,  \* SignalEngine._pending_signal
    paperPnl,      \* realized_pnl_today, of the day of the last candle
    paperEntries,  \* count_entries_today, likewise
    paperLatch,    \* the daily-loss latch of that day
    simTrades,     \* the trades the simulation made on the last candle
    booked         \* the trades the engine booked on it

paperVars == <<sim, row, unbooked, paperPending, paperPnl, paperEntries, paperLatch,
               simTrades, booked>>

PaperInit == /\ sim = Flat /\ row = Flat /\ unbooked = {}
             /\ paperPending = "HOLD"
             /\ paperPnl = 0 /\ paperEntries = 0 /\ paperLatch = FALSE
             /\ simTrades = {} /\ booked = {}

\* Trades and entries are counted by day: those of the coming candle's day.
PaperSameDay       == Day(ahead) = Day(now)
PaperPnlBefore     == IF PaperSameDay THEN paperPnl ELSE 0
PaperEntriesBefore == IF PaperSameDay THEN paperEntries ELSE 0
PaperLatchBefore   == PaperSameDay /\ paperLatch

\* PaperBroker.on_candle
Stopped(bar) == StopOrTarget(sim, ahead, bar)
SimAfter(bar) == IF Stopped(bar) = {} THEN sim ELSE Flat
Unseen(bar)   == unbooked \cup Stopped(bar)

\* Wrong on purpose: only the broker is asked.
BrokerSees(bar) == SimAfter(bar)

\* _get_open_position: the broker's position, else the database's.
EngineSees(bar) == IF SimAfter(bar) # Flat THEN SimAfter(bar) ELSE row

PaperDue == IF ahead = now + 1 THEN paperPending ELSE "HOLD"

PaperAsksRisk(bar) == PaperDue = "BUY" /\ EngineSees(bar) = Flat

PaperEnters(bar) ==
    /\ PaperAsksRisk(bar)
    /\ EntryAllowed(ahead, bar.open, PaperPnlBefore, PaperEntriesBefore, PaperLatchBefore)

\* The broker fills an entry at the open of the current candle.
PaperHolds(bar) == IF PaperEnters(bar) THEN EnterLong(ahead, bar.open, PositionSize(bar.open))
                                       ELSE EngineSees(bar)

PaperExits(bar) == PaperHolds(bar) # Flat /\ (PaperDue = "SELL" \/ SquareOff(ahead))

\* _execute_exit: a stop found COMPLETE is booked, with this candle's time; any
\* other is cancelled and the position sold at the open.  There are no charges.
PaperSells(bar) == IF PaperExits(bar) /\ Unseen(bar) = {}
                      THEN {ExitLong(PaperHolds(bar), ahead, bar.open)} ELSE {}

PaperBooks(bar) == IF PaperExits(bar)
                      THEN PaperSells(bar) \cup {[tr EXCEPT !.left = ahead] : tr \in Unseen(bar)}
                      ELSE {}

\* Wrong on purpose: a stop that filled is forgotten with its position.
ForgetsStop(bar) == {}

StillUnbooked(bar) == IF PaperExits(bar) THEN {} ELSE Unseen(bar)

PaperCandle(bar, signal) ==
    /\ sim' = CASE PaperExits(bar)                     -> Flat
                [] PaperEnters(bar) /\ ~PaperExits(bar) -> PaperHolds(bar)
                [] OTHER                               -> SimAfter(bar)
    /\ row' = CASE PaperExits(bar)                     -> Flat
                [] PaperEnters(bar) /\ ~PaperExits(bar) -> PaperHolds(bar)
                [] OTHER                               -> row
    /\ unbooked' = StillUnbooked(bar)
    /\ simTrades' = Stopped(bar) \cup PaperSells(bar)
    /\ booked' = PaperBooks(bar)
    /\ paperPnl' = PaperPnlBefore + Realised(PaperBooks(bar), 0)
    /\ paperEntries' = PaperEntriesBefore + (IF PaperEnters(bar) THEN 1 ELSE 0)
    /\ paperLatch' = IF PaperAsksRisk(bar) THEN LatchAfter(ahead, PaperPnlBefore, PaperLatchBefore)
                                           ELSE PaperLatchBefore
    /\ paperPending' = signal

PaperNext == /\ NextCandle
             /\ \E bar \in Bars, signal \in Signals : PaperCandle(bar, signal)

PaperSpec == CandlesInit /\ PaperInit /\ [][PaperNext]_<<now, ahead, paperVars>>

(***************************************************************************)
(* What a paper session promises                                           *)
(***************************************************************************)
PaperRules == INSTANCE SessionRules WITH
    holding <- row # Flat,
    entries <- paperEntries,
    lossHit <- LossLimit(paperPnl),
    wanted  <- paperPending

\* signal_engine.py:28, the single paper and live pipeline: going by what it has
\* recorded, a paper session keeps the rules of the backtest.
PaperKeepsRules == PaperRules!Spec

\* paper_broker.py:60 and signal_engine.py:163: the recorded position is the
\* simulated one, or one whose single stop or target fill waits to be booked; no
\* simulated position and no fill is ever without its row.
RowTellsPosition ==
    \/ unbooked = {} /\ row = sim
    \/ /\ sim = Flat /\ row # Flat
       /\ \E tr \in unbooked : unbooked = {tr} /\ tr.qty = row.qty /\ tr.entered = row.time

=============================================================================
