----------------------------- MODULE ParityProofs -----------------------------
(***************************************************************************)
(* The simulated sessions, for every set of prices and every limit: the    *)
(* backtest and the paper session implement SessionRules, the paper        *)
(* session's row tells its position, and the two agree until a candle of   *)
(* one of the five kinds if the backtest is run without charges: a paper   *)
(* session books none.                                                     *)
(***************************************************************************)
EXTENDS Parity, TLAPS

PositionRecord == [qty : Int, entry : Int, time : Int]
TradeRecord    == [qty : Int, entered : Int, left : Int, entry : Int, exit : Int]

(***************************************************************************)
(* The simulation                                                          *)
(***************************************************************************)

\* Every time is a natural number, and so is its day.
LEMMA TimesAreNaturals == Times \subseteq Nat /\ End \in Nat
BY SimulationAssumption DEF Times, End, NightAndDay

\* A day's candle lies within the day (Day and Slot are what _prepare's dates and
\* clock times are to the engine).
LEMMA DayType == \A t \in Nat : Day(t) \in Int /\ Slot(t) \in Int
BY SimulationAssumption DEF Day, Slot, NightAndDay

\* A position size is an integer.
LEMMA SizeType == \A price \in Prices : PositionSize(price) \in Int
<1> SUFFICES ASSUME NEW price \in Prices PROVE PositionSize(price) \in Int
    OBVIOUS
<1>1. price \in Nat \ {0} /\ StopPct \in Nat \ {0}
    BY SimulationAssumption
<1>2. price * StopPct \in Nat \ {0}
    BY <1>1
<1>3. Capital * RiskPct \in Nat /\ Capital \in Nat /\ MaxQuantity \in Nat
    BY SimulationAssumption
<1>4. (Capital * RiskPct) \div (price * StopPct) \in Int
    BY <1>2, <1>3
<1>5. Capital \div price \in Int
    BY <1>1, <1>3
<1> QED BY <1>3, <1>4, <1>5 DEF PositionSize, Least

\* Every price is an integer, and so is what a purchase at it costs.
LEMMA BuyType == \A price \in Prices : price \in Int /\ BuyPrice(price) \in Int
<1> SUFFICES ASSUME NEW price \in Prices PROVE price \in Int /\ BuyPrice(price) \in Int
    OBVIOUS
<1>1. price \in Int /\ SlippagePct \in Int
    BY SimulationAssumption
<1>2. price * (100 + SlippagePct) \in Int
    BY <1>1
<1> QED BY <1>1, <1>2 DEF BuyPrice

\* An entry is a position.
LEMMA EntryType ==
    ASSUME NEW t \in Int, NEW price \in Prices
    PROVE  EnterLong(t, price, PositionSize(price)) \in PositionRecord
<1>1. PositionSize(price) \in Int /\ BuyPrice(price) \in Int
    BY SizeType, BuyType
<1> QED BY <1>1 DEF EnterLong, PositionRecord

\* The percentages of a position's price are integers, and so is a sale's price.
LEMMA PriceTypes ==
    ASSUME NEW p \in PositionRecord, NEW raw \in Int
    PROVE  StopPrice(p) \in Int /\ TargetPrice(p) \in Int /\ SellPrice(raw) \in Int
BY SimulationAssumption DEF StopPrice, TargetPrice, SellPrice, PositionRecord

\* What closes a position is a trade.
LEMMA ExitType ==
    ASSUME NEW p \in PositionRecord, NEW t \in Int, NEW raw \in Int
    PROVE  ExitLong(p, t, raw) \in TradeRecord
BY PriceTypes DEF ExitLong, Trade, PositionRecord, TradeRecord

\* The candle's stop or target makes at most one trade, and only of a position.
LEMMA StopOrTargetType ==
    ASSUME NEW p \in PositionRecord, NEW t \in Int, NEW bar \in Bars
    PROVE  /\ StopOrTarget(p, t, bar) \subseteq TradeRecord
           /\ p = Flat => StopOrTarget(p, t, bar) = {}
           /\ \A x, y \in StopOrTarget(p, t, bar) : x = y
<1>0. bar.open \in Int
    BY BuyType DEF Bars
<1>1. StopPrice(p) \in Int /\ TargetPrice(p) \in Int
    BY <1>0, PriceTypes
<1>2. Least(StopPrice(p), bar.open) \in Int
    BY <1>0, <1>1 DEF Least
<1>3. ExitLong(p, t, Least(StopPrice(p), bar.open)) \in TradeRecord
    BY <1>2, ExitType
<1>4. Trade(p, t, TargetPrice(p)) \in TradeRecord
    BY <1>1 DEF Trade, TradeRecord, PositionRecord
<1> QED BY <1>3, <1>4 DEF StopOrTarget, StopTouched, TargetTouched

\* What the trades of a candle add to the day's P&L is an integer.
LEMMA RealisedType ==
    ASSUME NEW trades \in SUBSET TradeRecord, NEW fees \in Int
    PROVE  Realised(trades, fees) \in Int
<1>1. CASE trades = {}
    BY <1>1 DEF Realised
<1>2. CASE trades # {}
    <2>1. (CHOOSE tr \in trades : TRUE) \in TradeRecord
        BY <1>2
    <2> DEFINE tr == CHOOSE tr \in trades : TRUE
    <2>2. tr.exit \in Int /\ tr.entry \in Int /\ tr.qty \in Int
        BY <2>1 DEF TradeRecord
    <2>3. Gross(tr) \in Int
        BY <2>2 DEF Gross
    <2> QED BY <1>2, <2>3 DEF Realised
<1> QED BY <1>1, <1>2

\* Without a P&L a day has no loss.
LEMMA NoLossAtZero == LossLimit(0) = FALSE
BY SimulationAssumption DEF LossLimit

(***************************************************************************)
(* The backtest                                                            *)
(***************************************************************************)
BtTypeOK == /\ now \in Nat /\ ahead \in Times \cup {End} /\ now < ahead
            /\ btPos \in PositionRecord
            /\ btPending \in Signals
            /\ btPnl \in Int
            /\ btEntries \in Nat

\* A position is closed whenever its trade takes the day to the limit, and none is
\* entered after that.
BtInv == BtTypeOK /\ (LossLimit(btPnl) => btPos = Flat)

\* A backtest starts in order.
LEMMA BtInvInit == CandlesInit /\ BacktestInit => BtInv
<1> SUFFICES ASSUME CandlesInit, BacktestInit PROVE BtInv
    OBVIOUS
<1>1. ahead \in Times /\ now < ahead
    BY SimulationAssumption DEF CandlesInit, Times, NightAndDay
<1> QED BY <1>1 DEF CandlesInit, BacktestInit, BtInv, BtTypeOK, Flat, PositionRecord, Signals

\* What one candle works on: the day's totals, the position after a due BUY, and
\* the trade that closes it.
LEMMA CandleTypes ==
    ASSUME BtInv, NEW bar \in Bars
    PROVE  /\ BtPnlBefore \in Int /\ BtEntriesBefore \in Nat
           /\ BtHolds(bar) \in PositionRecord
           /\ BtCloses(bar) \in SUBSET TradeRecord
           /\ Realised(BtCloses(bar), Charges) \in Int
<1>1. bar.open \in Prices /\ bar.open \in Int /\ bar.close \in Int
    BY BuyType DEF Bars
<1>2. BtPnlBefore \in Int /\ BtEntriesBefore \in Nat
    BY DEF BtInv, BtTypeOK, BtPnlBefore, BtEntriesBefore
<1>3. ahead \in Int
    BY TimesAreNaturals DEF BtInv, BtTypeOK
<1>4. BtHolds(bar) \in PositionRecord
    <2>1. EnterLong(ahead, bar.open, PositionSize(bar.open)) \in PositionRecord
        BY <1>1, <1>3, EntryType
    <2>2. btPos \in PositionRecord
        BY DEF BtInv, BtTypeOK
    <2> QED BY <2>1, <2>2 DEF BtHolds
<1>5. ExitLong(BtHolds(bar), ahead, bar.open) \in TradeRecord
    BY <1>1, <1>3, <1>4, ExitType
<1>6. ExitLong(BtHolds(bar), ahead, bar.close) \in TradeRecord
    BY <1>1, <1>3, <1>4, ExitType
<1>7. StopOrTarget(BtHolds(bar), ahead, bar) \subseteq TradeRecord
    BY <1>3, <1>4, StopOrTargetType
<1>8. BtCloses(bar) \in SUBSET TradeRecord
    BY <1>5, <1>6, <1>7 DEF BtCloses, BtAtEnd
<1>9. Realised(BtCloses(bar), Charges) \in Int
    <2>1. Charges \in Int
        BY SimulationAssumption
    <2> QED BY <2>1, <1>8, RealisedType
<1> QED BY <1>2, <1>4, <1>8, <1>9

\* Only a position is closed.
LEMMA FlatClosesNothing == \A bar : BtHolds(bar) = Flat => BtCloses(bar) = {}
BY DEF BtCloses

\* The loss the risk check sees is the abstract one.
LEMMA LossBeforeIsSeen ==
    BacktestRules!LossBefore(ahead) = LossLimit(BtPnlBefore)
BY NoLossAtZero DEF BacktestRules!LossBefore, BacktestRules!NewDay, BtPnlBefore, BtSameDay, LossLimit

\* An entry of the backtest is one the rules allow.
LEMMA EntryIsAllowed ==
    ASSUME BtInv, NEW bar \in Bars, BtEnters(bar)
    PROVE  BacktestRules!EntryAllowed(ahead) /\ ~BacktestRules!LossBefore(ahead) /\ btPos = Flat
<1>1. BacktestRules!Due(ahead) = "BUY" /\ btPos = Flat
    BY DEF BtEnters, BtAsksRisk, BtDue, BacktestRules!Due
<1>2. /\ MayEnter(ahead) /\ ~LossLimit(BtPnlBefore) /\ BtEntriesBefore < MaxTrades
    BY DEF BtEnters, EntryAllowed
<1>3. BacktestRules!EntriesBefore(ahead) = BtEntriesBefore
    BY DEF BacktestRules!EntriesBefore, BacktestRules!NewDay, BtEntriesBefore, BtSameDay
<1>4. ~BacktestRules!LossBefore(ahead)
    BY <1>2, LossBeforeIsSeen
<1> QED BY <1>1, <1>2, <1>3, <1>4 DEF BacktestRules!EntryAllowed

\* The step's effect on the rules' variables.
LEMMA HeldOrClosed ==
    ASSUME BtInv, NEW bar \in Bars
    PROVE  /\ BtEnters(bar) => BtHolds(bar) # Flat
           /\ ~BtEnters(bar) => BtHolds(bar) = btPos
           /\ LossLimit(BtPnlBefore) => BtHolds(bar) = Flat
           /\ BtExitsAtOpen /\ BtHolds(bar) # Flat => BtCloses(bar) # {}
<1>1. ASSUME BtEnters(bar) PROVE BtHolds(bar) # Flat
    <2>1. PositionSize(bar.open) > 0
        BY <1>1 DEF BtEnters, EntryAllowed
    <2>2. PositionSize(bar.open) # 0
        BY <2>1
    <2>3. EnterLong(ahead, bar.open, PositionSize(bar.open)).qty # Flat.qty
        BY <2>2 DEF EnterLong, Flat
    <2> QED BY <1>1, <2>3 DEF BtHolds
<1>2. ~BtEnters(bar) => BtHolds(bar) = btPos
    BY DEF BtHolds
<1>3. LossLimit(BtPnlBefore) => BtHolds(bar) = Flat
    <2>1. LossLimit(BtPnlBefore) => LossLimit(btPnl) /\ ~BtEnters(bar)
        BY NoLossAtZero DEF BtPnlBefore, BtEnters, EntryAllowed
    <2> QED BY <2>1, <1>2 DEF BtInv
<1>4. BtExitsAtOpen /\ BtHolds(bar) # Flat => BtCloses(bar) # {}
    BY DEF BtCloses
<1> QED BY <1>1, <1>2, <1>3, <1>4

\* Every round of the loop keeps the invariant and is a step the rules allow.
LEMMA BtStep == BtInv /\ BacktestNext => BtInv' /\ BacktestRules!Next
<1> SUFFICES ASSUME BtInv, NextCandle,
                    NEW bar \in Bars, NEW signal \in Signals, BacktestCandle(bar, signal)
             PROVE  BtInv' /\ BacktestRules!Next
    BY DEF BacktestNext
<1> DEFINE closed  == BtCloses(bar)
           entered == BtEnters(bar)
           holds   == BtHolds(bar)
<1>1. /\ ahead \in Times /\ ahead \in Nat /\ ahead > now
      /\ now' = ahead /\ ahead' \in Times \cup {End} /\ ahead' > ahead
    <2>1. ahead \in Times /\ ahead > now
        BY TimesAreNaturals DEF NextCandle, BtInv, BtTypeOK
    <2>2. ahead < End
        BY <2>1, TimesAreNaturals DEF NextCandle, Times, End
    <2> QED BY <2>1, <2>2, TimesAreNaturals DEF NextCandle
<1>2. /\ BtPnlBefore \in Int /\ BtEntriesBefore \in Nat
      /\ holds \in PositionRecord /\ closed \in SUBSET TradeRecord
      /\ Realised(closed, Charges) \in Int
    BY CandleTypes
<1>3. /\ btPos' = IF closed = {} THEN holds ELSE Flat
      /\ btPnl' = BtPnlBefore + Realised(closed, Charges)
      /\ btEntries' = BtEntriesBefore + (IF entered THEN 1 ELSE 0)
      /\ btPending' = BtQueue(signal)
    BY DEF BacktestCandle
<1>4. /\ entered => holds # Flat
      /\ ~entered => holds = btPos
      /\ LossLimit(BtPnlBefore) => holds = Flat
      /\ BtExitsAtOpen /\ holds # Flat => closed # {}
      /\ holds = Flat => closed = {}
    BY HeldOrClosed, FlatClosesNothing
<1>5. btPending' \in Signals
    BY <1>3 DEF BtQueue, Signals
<1> HIDE DEF closed, entered, holds
<1>6. closed = {} => btPnl' = BtPnlBefore
    <2>1. closed = {} => Realised(closed, Charges) = 0
        BY DEF Realised
    <2> QED BY <1>2, <1>3, <2>1
<1>7. BtInv'
    <2>1. BtTypeOK'
        <3>1. btPos' \in PositionRecord
            BY <1>2, <1>3 DEF Flat, PositionRecord
        <3>2. btPnl' \in Int /\ btEntries' \in Nat
            BY <1>2, <1>3
        <3> QED BY <1>1, <1>5, <3>1, <3>2 DEF BtTypeOK
    <2>2. LossLimit(btPnl') => btPos' = Flat
        BY <1>3, <1>4, <1>6
    <2> QED BY <2>1, <2>2 DEF BtInv
<1>8. BacktestRules!Candle(ahead)
    <2>1. entered \in {FALSE, BacktestRules!EntryAllowed(ahead)}
        <3>1. entered => BacktestRules!EntryAllowed(ahead)
            BY EntryIsAllowed DEF entered
        <3>2. entered \in BOOLEAN /\ BacktestRules!EntryAllowed(ahead) \in BOOLEAN
            BY DEF entered, BtEnters, BacktestRules!EntryAllowed
        <3> QED BY <3>1, <3>2
    <2>2. btEntries' = BacktestRules!EntriesBefore(ahead) + (IF entered THEN 1 ELSE 0)
        BY <1>3 DEF BacktestRules!EntriesBefore, BacktestRules!NewDay, BtEntriesBefore, BtSameDay
    <2>3. holds # Flat <=> btPos # Flat \/ entered
        BY <1>4, EntryIsAllowed DEF entered
    <2>4. (btPos' # Flat) \in {FALSE, btPos # Flat \/ entered}
        BY <1>3, <2>3
    <2>5. BacktestRules!MustBeFlat(ahead) => ~(btPos' # Flat)
        <3>1. BacktestRules!MustBeFlat(ahead) = BtExitsAtOpen
            BY DEF BacktestRules!MustBeFlat, BacktestRules!Due, BtExitsAtOpen, BtDue
        <3> QED BY <1>3, <1>4, <3>1
    <2>6. LossLimit(btPnl') \in
              {BacktestRules!LossBefore(ahead),
               BacktestRules!LossBefore(ahead) \/ ((btPos # Flat \/ entered) /\ ~(btPos' # Flat))}
        BY <1>3, <1>4, <1>6, <2>3, LossBeforeIsSeen DEF LossLimit
    <2> QED BY <1>1, <1>5, <2>1, <2>2, <2>4, <2>5, <2>6
        DEF BacktestRules!Candle, BacktestRules!Signals, Signals
<1> QED BY <1>1, <1>7, <1>8 DEF BacktestRules!Next

\* A backtest starts as the rules say.
LEMMA BtInitIsInit == CandlesInit /\ BacktestInit => BacktestRules!Init
BY NoLossAtZero DEF CandlesInit, BacktestInit, BacktestRules!Init, LossLimit

\* A position is closed whenever the day's loss has reached the limit, for every
\* price, size and slippage: no entry after that is left over (risk_manager.py:79-86).
THEOREM BacktestInvariant == BacktestSpec => []BtInv
<1>1. BtInv /\ [BacktestNext]_<<now, ahead, btVars>> => BtInv'
    <2>1. BtInv /\ BacktestNext => BtInv'
        BY BtStep
    <2>2. BtInv /\ UNCHANGED <<now, ahead, btVars>> => BtInv'
        BY DEF BtInv, BtTypeOK, btVars
    <2> QED BY <2>1, <2>2
<1> QED BY BtInvInit, <1>1, PTL DEF BacktestSpec

\* A backtest keeps the session's rules, for every set of prices, every trading
\* window and every limit (Backtester.run, backtest/engine.py:176-269).
THEOREM BacktestImplementsRules == BacktestSpec => BacktestKeepsRules
<1>1. BtInv /\ [BacktestNext]_<<now, ahead, btVars>>
        => [BacktestRules!Next]_(BacktestRules!session)
    <2>1. BtInv /\ BacktestNext => BacktestRules!Next
        BY BtStep
    <2>2. UNCHANGED <<now, ahead, btVars>> => UNCHANGED BacktestRules!session
        BY DEF btVars, BacktestRules!session, LossLimit
    <2> QED BY <2>1, <2>2
<1> QED BY BtInitIsInit, BacktestInvariant, <1>1, PTL
    DEF BacktestSpec, BacktestKeepsRules, BacktestRules!Spec

(***************************************************************************)
(* The paper session                                                       *)
(***************************************************************************)

PaperTypeOK == /\ now \in Nat /\ ahead \in Times \cup {End} /\ now < ahead
               /\ sim \in PositionRecord /\ row \in PositionRecord
               /\ unbooked \in SUBSET TradeRecord
               /\ paperPending \in Signals
               /\ paperPnl \in Int
               /\ paperEntries \in Nat

\* The row tells the position; once the recorded loss is at the limit there is none.
PaperInv == /\ PaperTypeOK
            /\ RowTellsPosition
            /\ LossLimit(paperPnl) => row = Flat

\* A paper session starts in order.
LEMMA PaperInvInit == CandlesInit /\ PaperInit => PaperInv
<1> SUFFICES ASSUME CandlesInit, PaperInit PROVE PaperInv
    OBVIOUS
<1>1. ahead \in Times /\ now < ahead
    BY SimulationAssumption DEF CandlesInit, Times, NightAndDay
<1> QED BY <1>1, NoLossAtZero
    DEF CandlesInit, PaperInit, PaperInv, PaperTypeOK, RowTellsPosition, Flat, PositionRecord, Signals

\* The time moves to the candle that was ahead, and what is ahead is later.
LEMMA TimePasses ==
    ASSUME now \in Nat, ahead \in Times \cup {End}, now < ahead, NextCandle
    PROVE  /\ ahead \in Times /\ ahead \in Nat /\ ahead > now
           /\ now' = ahead /\ ahead' \in Times \cup {End} /\ ahead' > ahead
<1>1. ahead \in Times /\ ahead > now
    BY TimesAreNaturals DEF NextCandle
<1>2. ahead < End
    BY <1>1, TimesAreNaturals DEF NextCandle, Times, End
<1> QED BY <1>1, <1>2, TimesAreNaturals DEF NextCandle

\* A stop or target fill is one trade, of the whole position.
LEMMA FillTellsPosition ==
    ASSUME NEW p, NEW t, NEW bar, StopOrTarget(p, t, bar) # {}
    PROVE  /\ p # Flat
           /\ \E tr \in StopOrTarget(p, t, bar) :
                 /\ StopOrTarget(p, t, bar) = {tr}
                 /\ tr.qty = p.qty /\ tr.entered = p.time
<1>1. p # Flat
    BY DEF StopOrTarget, StopTouched, TargetTouched
<1>2. PICK price : StopOrTarget(p, t, bar) = {Trade(p, t, price)}
    BY DEF StopOrTarget, ExitLong
<1> QED BY <1>1, <1>2 DEF Trade

\* What the broker has filled by the time the engine looks.
LEMMA WhatTheEngineSees ==
    ASSUME PaperInv, NEW bar \in Bars
    PROVE  /\ EngineSees(bar) = Flat <=> row = Flat
           /\ row = Flat => Unseen(bar) = {} /\ SimAfter(bar) = Flat
           /\ Stopped(bar) \subseteq TradeRecord
           /\ EngineSees(bar) \in PositionRecord
<1>1. ahead \in Int /\ sim \in PositionRecord /\ row \in PositionRecord
    BY TimesAreNaturals DEF PaperInv, PaperTypeOK
<1>2. Stopped(bar) \subseteq TradeRecord /\ (sim = Flat => Stopped(bar) = {})
    BY <1>1, StopOrTargetType DEF Stopped
<1>3. row = Flat => unbooked = {} /\ sim = Flat
    BY DEF PaperInv, RowTellsPosition
<1>4. row = Flat => Unseen(bar) = {} /\ SimAfter(bar) = Flat
    BY <1>2, <1>3 DEF Unseen, SimAfter
<1>5. EngineSees(bar) \in PositionRecord
    BY <1>1 DEF EngineSees, SimAfter
<1> QED BY <1>2, <1>4, <1>5 DEF EngineSees

\* An entry of the paper session is one the rules allow, and a position.
LEMMA PaperEntryIsAllowed ==
    ASSUME PaperInv, NEW bar \in Bars, PaperEnters(bar)
    PROVE  /\ PaperRules!EntryAllowed(ahead) /\ row = Flat
           /\ ~LossLimit(PaperPnlBefore)
           /\ PaperHolds(bar) # Flat /\ PaperHolds(bar) \in PositionRecord
<1>1. PaperRules!Due(ahead) = "BUY" /\ row = Flat
    BY WhatTheEngineSees DEF PaperEnters, PaperAsksRisk, PaperDue, PaperRules!Due
<1>2. /\ MayEnter(ahead) /\ ~LossLimit(PaperPnlBefore) /\ PaperEntriesBefore < MaxTrades
      /\ PositionSize(bar.open) > 0
    BY DEF PaperEnters, EntryAllowed
<1>3. PaperRules!EntriesBefore(ahead) = PaperEntriesBefore
    BY DEF PaperRules!EntriesBefore, PaperRules!NewDay, PaperEntriesBefore, PaperSameDay
<1>4. ~PaperRules!LossBefore(ahead)
    BY <1>2 DEF PaperRules!LossBefore, PaperRules!NewDay, PaperPnlBefore, PaperSameDay
<1>5. PaperRules!EntryAllowed(ahead)
    BY <1>1, <1>2, <1>3, <1>4 DEF PaperRules!EntryAllowed
<1>6. PaperHolds(bar) = EnterLong(ahead, bar.open, PositionSize(bar.open))
    BY DEF PaperHolds
<1>7. PaperHolds(bar) \in PositionRecord
    <2>1. ahead \in Int /\ bar.open \in Prices
        BY TimesAreNaturals DEF PaperInv, PaperTypeOK, Bars
    <2> QED BY <2>1, <1>6, EntryType
<1>8. PaperHolds(bar).qty # Flat.qty
    <2>1. PositionSize(bar.open) # 0
        BY <1>2
    <2> QED BY <2>1, <1>6 DEF EnterLong, Flat
<1> QED BY <1>1, <1>2, <1>5, <1>7, <1>8

\* What a candle books are trades; without an exit it books none.
LEMMA BooksType ==
    ASSUME PaperInv, NEW bar \in Bars
    PROVE  /\ PaperBooks(bar) \subseteq TradeRecord
           /\ Realised(PaperBooks(bar), 0) \in Int
           /\ ~PaperExits(bar) => PaperBooks(bar) = {}
           /\ PaperHolds(bar) \in PositionRecord
           /\ Unseen(bar) \subseteq TradeRecord
<1>1. ahead \in Int /\ unbooked \subseteq TradeRecord
    BY TimesAreNaturals DEF PaperInv, PaperTypeOK
<1>2. bar.open \in Int
    BY BuyType DEF Bars
<1>3. PaperHolds(bar) \in PositionRecord
    BY PaperEntryIsAllowed, WhatTheEngineSees DEF PaperHolds
<1>4. Unseen(bar) \subseteq TradeRecord
    BY <1>1, WhatTheEngineSees DEF Unseen
<1>5. PaperSells(bar) \subseteq TradeRecord
    BY <1>1, <1>2, <1>3, ExitType DEF PaperSells
<1>6. {[tr EXCEPT !.left = ahead] : tr \in Unseen(bar)} \subseteq TradeRecord
    BY <1>1, <1>4 DEF TradeRecord
<1>7. PaperBooks(bar) \subseteq TradeRecord /\ (~PaperExits(bar) => PaperBooks(bar) = {})
    BY <1>5, <1>6 DEF PaperBooks
<1>8. Realised(PaperBooks(bar), 0) \in Int
    BY <1>7, RealisedType
<1> QED BY <1>3, <1>4, <1>7, <1>8

\* What a step does to the row: the position held and not sold.
LEMMA RowAfter ==
    ASSUME PaperInv, NEW bar \in Bars, NEW signal \in Signals, PaperCandle(bar, signal)
    PROVE  /\ PaperHolds(bar) # Flat <=> row # Flat \/ PaperEnters(bar)
           /\ LossLimit(PaperPnlBefore) => PaperHolds(bar) = Flat
           /\ PaperExits(bar) => row' = Flat /\ PaperHolds(bar) # Flat
           /\ ~PaperExits(bar) =>
                 row' = IF PaperEnters(bar) THEN PaperHolds(bar) ELSE row
           /\ ~PaperExits(bar) => paperPnl' = PaperPnlBefore
<1>1. PaperHolds(bar) # Flat <=> row # Flat \/ PaperEnters(bar)
    BY PaperEntryIsAllowed, WhatTheEngineSees DEF PaperHolds
<1>2. LossLimit(PaperPnlBefore) => LossLimit(paperPnl) /\ ~PaperEnters(bar)
    BY NoLossAtZero DEF PaperPnlBefore, PaperEnters, EntryAllowed
<1>3. LossLimit(PaperPnlBefore) => PaperHolds(bar) = Flat
    BY <1>1, <1>2 DEF PaperInv
<1>4. PaperExits(bar) => row' = Flat /\ PaperHolds(bar) # Flat
    BY DEF PaperCandle, PaperExits
<1>5. ~PaperExits(bar) => row' = IF PaperEnters(bar) THEN PaperHolds(bar) ELSE row
    BY DEF PaperCandle
<1>6. ASSUME ~PaperExits(bar) PROVE paperPnl' = PaperPnlBefore
    <2>1. Realised(PaperBooks(bar), 0) = 0
        BY <1>6, BooksType DEF Realised
    <2>2. PaperPnlBefore \in Int
        BY DEF PaperPnlBefore, PaperInv, PaperTypeOK
    <2> QED BY <2>1, <2>2 DEF PaperCandle
<1> QED BY <1>1, <1>3, <1>4, <1>5, <1>6

\* Each candle leaves the row telling the position.
LEMMA RowTellsAfter ==
    ASSUME PaperInv, NEW bar \in Bars, NEW signal \in Signals, PaperCandle(bar, signal)
    PROVE  RowTellsPosition'
<1>1. CASE PaperExits(bar)
    <2>1. sim' = Flat /\ row' = Flat /\ unbooked' = {}
        BY <1>1 DEF PaperCandle, StillUnbooked
    <2> QED BY <2>1 DEF RowTellsPosition
<1>2. CASE ~PaperExits(bar) /\ PaperEnters(bar)
    <2>1. sim' = PaperHolds(bar) /\ row' = PaperHolds(bar) /\ unbooked' = Unseen(bar)
        BY <1>2 DEF PaperCandle, StillUnbooked
    <2>2. Unseen(bar) = {}
        BY <1>2, PaperEntryIsAllowed, WhatTheEngineSees
    <2> QED BY <2>1, <2>2 DEF RowTellsPosition
<1>3. CASE ~PaperExits(bar) /\ ~PaperEnters(bar)
    <2>1. sim' = SimAfter(bar) /\ row' = row /\ unbooked' = Unseen(bar)
        BY <1>3 DEF PaperCandle, StillUnbooked
    <2>2. CASE Stopped(bar) = {}
        <3>1. sim' = sim /\ unbooked' = unbooked
            BY <2>1, <2>2 DEF SimAfter, Unseen
        <3> QED BY <2>1, <3>1 DEF PaperInv, RowTellsPosition
    <2>3. CASE Stopped(bar) # {}
        <3>1. sim # Flat /\ \E tr \in Stopped(bar) :
                    Stopped(bar) = {tr} /\ tr.qty = sim.qty /\ tr.entered = sim.time
            BY <2>3, FillTellsPosition DEF Stopped
        <3>2. unbooked = {} /\ row = sim
            BY <3>1 DEF PaperInv, RowTellsPosition
        <3>3. sim' = Flat /\ unbooked' = Stopped(bar)
            BY <2>1, <2>3, <3>2 DEF SimAfter, Unseen
        <3> QED BY <2>1, <3>1, <3>2, <3>3 DEF RowTellsPosition
    <2> QED BY <2>2, <2>3
<1> QED BY <1>1, <1>2, <1>3

\* Every candle keeps the invariant and is a step the rules allow.
LEMMA PaperStep == PaperInv /\ PaperNext => PaperInv' /\ PaperRules!Next
<1> SUFFICES ASSUME PaperInv, NextCandle,
                    NEW bar \in Bars, NEW signal \in Signals, PaperCandle(bar, signal)
             PROVE  PaperInv' /\ PaperRules!Next
    BY DEF PaperNext
<1> DEFINE entered == PaperEnters(bar)
<1>1. /\ ahead \in Times /\ ahead \in Nat /\ ahead > now
      /\ now' = ahead /\ ahead' \in Times \cup {End} /\ ahead' > ahead
    BY TimePasses DEF PaperInv, PaperTypeOK
<1>2. /\ PaperHolds(bar) # Flat <=> row # Flat \/ entered
      /\ LossLimit(PaperPnlBefore) => PaperHolds(bar) = Flat
      /\ PaperExits(bar) => row' = Flat /\ PaperHolds(bar) # Flat
      /\ ~PaperExits(bar) => row' = IF entered THEN PaperHolds(bar) ELSE row
      /\ ~PaperExits(bar) => paperPnl' = PaperPnlBefore
    BY RowAfter
<1>3. /\ paperEntries' = PaperEntriesBefore + (IF entered THEN 1 ELSE 0)
      /\ paperPending' = signal
    BY DEF PaperCandle
<1>4. PaperTypeOK'
    <2>1. sim' \in PositionRecord /\ row' \in PositionRecord
        BY BooksType DEF PaperCandle, SimAfter, PaperInv, PaperTypeOK, Flat, PositionRecord
    <2>2. unbooked' \in SUBSET TradeRecord
        BY BooksType DEF PaperCandle, StillUnbooked
    <2>3. paperPnl' \in Int
        BY BooksType DEF PaperCandle, PaperPnlBefore, PaperInv, PaperTypeOK
    <2>4. paperEntries' \in Nat
        BY <1>3 DEF PaperEntriesBefore, PaperInv, PaperTypeOK
    <2> QED BY <1>1, <1>3, <2>1, <2>2, <2>3, <2>4 DEF PaperTypeOK
<1> HIDE DEF entered
<1>5. LossLimit(paperPnl') => row' = Flat
    BY <1>2
<1>6. PaperInv'
    BY <1>4, <1>5, RowTellsAfter DEF PaperInv
<1>7. PaperRules!Candle(ahead)
    <2>1. entered \in {FALSE, PaperRules!EntryAllowed(ahead)}
        <3>1. entered => PaperRules!EntryAllowed(ahead)
            BY PaperEntryIsAllowed DEF entered
        <3>2. entered \in BOOLEAN /\ PaperRules!EntryAllowed(ahead) \in BOOLEAN
            BY DEF entered, PaperEnters, PaperRules!EntryAllowed
        <3> QED BY <3>1, <3>2
    <2>2. paperEntries' = PaperRules!EntriesBefore(ahead) + (IF entered THEN 1 ELSE 0)
        BY <1>3 DEF PaperRules!EntriesBefore, PaperRules!NewDay, PaperEntriesBefore, PaperSameDay
    <2>3. (row' # Flat) \in {FALSE, row # Flat \/ entered}
        BY <1>2
    <2>4. PaperRules!MustBeFlat(ahead) => ~(row' # Flat)
        <3>1. PaperRules!MustBeFlat(ahead) /\ PaperHolds(bar) # Flat => PaperExits(bar)
            BY DEF PaperRules!MustBeFlat, PaperRules!Due, PaperExits, PaperDue
        <3> QED BY <1>2, <3>1
    <2>5. PaperRules!LossBefore(ahead) = LossLimit(PaperPnlBefore)
        BY NoLossAtZero
        DEF PaperRules!LossBefore, PaperRules!NewDay, PaperPnlBefore, PaperSameDay, LossLimit
    <2>6. LossLimit(paperPnl') \in
              {PaperRules!LossBefore(ahead),
               PaperRules!LossBefore(ahead) \/ ((row # Flat \/ entered) /\ ~(row' # Flat))}
        BY <1>2, <2>5 DEF LossLimit
    <2> QED BY <1>1, <1>3, <2>1, <2>2, <2>3, <2>4, <2>6
        DEF PaperRules!Candle, PaperRules!Signals, Signals
<1> QED BY <1>1, <1>6, <1>7 DEF PaperRules!Next

\* A paper session starts as the rules say.
LEMMA PaperInitIsInit == CandlesInit /\ PaperInit => PaperRules!Init
BY NoLossAtZero DEF CandlesInit, PaperInit, PaperRules!Init, LossLimit

\* The invariant of a paper session.
LEMMA PaperInvariant == PaperSpec => []PaperInv
<1>1. PaperInv /\ [PaperNext]_<<now, ahead, paperVars>> => PaperInv'
    <2>1. PaperInv /\ PaperNext => PaperInv'
        BY PaperStep
    <2>2. PaperInv /\ UNCHANGED <<now, ahead, paperVars>> => PaperInv'
        BY DEF PaperInv, PaperTypeOK, RowTellsPosition, paperVars
    <2> QED BY <2>1, <2>2
<1> QED BY PaperInvInit, <1>1, PTL DEF PaperSpec

\* The recorded position is the simulated one or one whose single fill waits to be
\* booked (paper_broker.py:60, signal_engine.py:163), for every set of prices.
THEOREM RowAlwaysTells == PaperSpec => []RowTellsPosition
<1>1. PaperInv => RowTellsPosition
    BY DEF PaperInv
<1> QED BY PaperInvariant, <1>1, PTL

\* A paper session keeps the rules a backtest keeps, going by what it has recorded
\* (signal_engine.py:113-203), for every set of prices and every limit.
THEOREM PaperImplementsRules == PaperSpec => PaperKeepsRules
<1>1. PaperInv /\ [PaperNext]_<<now, ahead, paperVars>>
        => [PaperRules!Next]_(PaperRules!session)
    <2>1. PaperInv /\ PaperNext => PaperRules!Next
        BY PaperStep
    <2>2. UNCHANGED <<now, ahead, paperVars>> => UNCHANGED PaperRules!session
        BY DEF paperVars, PaperRules!session, LossLimit
    <2> QED BY <2>1, <2>2
<1> QED BY PaperInitIsInit, PaperInvariant, <1>1, PTL
    DEF PaperSpec, PaperKeepsRules, PaperRules!Spec

(***************************************************************************)
(* The two, candle by candle                                               *)
(***************************************************************************)

NoCharges == Charges = 0

\* What the two share while nothing has told them apart.  The backtest's P&L runs
\* ahead by the fill the paper engine has not booked.
Together == /\ btPos = sim /\ btTrades = simTrades
            /\ btEntries = paperEntries /\ btLatch = paperLatch
            /\ btPnl = paperPnl + Realised(unbooked, 0)
            /\ ahead \in Times /\ ahead = now + 1 => btPending = paperPending

ParityInv == BtInv /\ PaperInv /\ (~apart => Together)

\* A trade on its own.
LEMMA RealisedOne ==
    /\ Realised({}, 0) = 0
    /\ \A tr \in TradeRecord : Realised({tr}, 0) = Gross(tr) /\ Gross(tr) \in Int
<1>1. ASSUME NEW tr \in TradeRecord PROVE Realised({tr}, 0) = Gross(tr) /\ Gross(tr) \in Int
    <2>1. (CHOOSE x \in {tr} : TRUE) = tr
        OBVIOUS
    <2>2. tr.exit \in Int /\ tr.entry \in Int /\ tr.qty \in Int
        BY DEF TradeRecord
    <2>3. Gross(tr) \in Int
        BY <2>2 DEF Gross
    <2>4. Realised({tr}, 0) = Gross(tr) - 0
        BY <2>1 DEF Realised
    <2> QED BY <2>3, <2>4
<1> QED BY <1>1 DEF Realised

\* The end of the data is not the time of a candle.
LEMMA EndIsNoTime == End \notin Times
<1>1. NightAndDay \in Nat \ {0} /\ Days \in Nat
    BY SimulationAssumption DEF NightAndDay
<1>2. (Days * NightAndDay) % NightAndDay = 0
    BY <1>1
<1> QED BY <1>2 DEF End, Times

\* Two candles one timeframe apart are of the same day.
LEMMA NeighboursShareTheDay ==
    ASSUME NEW t \in Times, t + 1 \in Times
    PROVE  Day(t + 1) = Day(t)
<1> DEFINE n == NightAndDay
           q == t \div n
           r == t % n
<1>1. t \in Nat /\ n \in Nat /\ n > 1
    BY SimulationAssumption, TimesAreNaturals DEF NightAndDay
<1>2. r \in 1..(n - 1) /\ (t + 1) % n # 0
    BY <1>1 DEF Times
<1>3. q \in Nat /\ t = n * q + r
    BY <1>1
<1> HIDE DEF n, q, r
<1>4. CASE r + 1 = n
    <2>1. t + 1 = n * (q + 1)
        BY <1>1, <1>2, <1>3, <1>4
    <2>2. (n * (q + 1)) % n = 0
        BY <1>1, <1>3
    <2> QED BY <1>2, <2>1, <2>2
<1>5. CASE r + 1 < n
    <2>1. t + 1 = n * q + (r + 1) /\ r + 1 \in 0..(n - 1)
        BY <1>1, <1>2, <1>3, <1>5
    <2>2. (n * q + (r + 1)) \div n = q
        BY <1>1, <1>3, <2>1
    <2> QED BY <2>1, <2>2 DEF Day, n, q
<1> QED BY <1>1, <1>2, <1>4, <1>5

\* A signal that is due for one is due for the other.
LEMMA DueAlike ==
    ASSUME Together, ahead \in Times PROVE BtDue = PaperDue
BY DEF Together, BtDue, PaperDue

\* What is queued for the next timeframe is queued by both.
LEMMA QueuedAlike ==
    ASSUME NEW signal, ahead \in Times, ahead' \in Times, ahead' = ahead + 1,
           ahead' # End
    PROVE  BtQueue(signal) = signal
BY NeighboursShareTheDay DEF BtQueue

\* Nothing waits to be booked: the engine sees the candle as the backtest does.
LEMMA AlikeWithoutFill ==
    ASSUME ParityInv, Together, ahead \in Times, unbooked = {},
           NEW bar \in Bars, ~TellsApart(bar)
    PROVE  /\ BtEnters(bar) = PaperEnters(bar) /\ BtAsksRisk = PaperAsksRisk(bar)
           /\ BtHolds(bar) # Flat =>
                 IF BtExitsAtOpen
                    THEN /\ PaperExits(bar) /\ Unseen(bar) = {} /\ Stopped(bar) = {}
                         /\ BtCloses(bar) = {ExitLong(BtHolds(bar), ahead, bar.open)}
                         /\ PaperHolds(bar) = BtHolds(bar)
                    ELSE /\ ~PaperExits(bar) /\ BtCloses(bar) = Stopped(bar)
                         /\ PaperEnters(bar) =>
                               Stopped(bar) = {} /\ PaperHolds(bar) = BtHolds(bar)
           /\ BtHolds(bar) = Flat => ~PaperExits(bar) /\ Stopped(bar) = {} /\ BtCloses(bar) = {}
<1>1. /\ row = sim /\ btPos = sim
      /\ BtPnlBefore = PaperPnlBefore /\ BtEntriesBefore = PaperEntriesBefore
      /\ BtLatchBefore = PaperLatchBefore /\ BtDue = PaperDue
    <2>1. row = sim /\ btPos = sim
        BY DEF ParityInv, PaperInv, RowTellsPosition, Together
    <2>2. btPnl = paperPnl
        <3>1. paperPnl \in Int
            BY DEF ParityInv, PaperInv, PaperTypeOK
        <3> QED BY <3>1, RealisedOne DEF Together
    <2> QED BY <2>1, <2>2, DueAlike
        DEF Together, BtPnlBefore, PaperPnlBefore, BtEntriesBefore, PaperEntriesBefore,
            BtLatchBefore, PaperLatchBefore, BtSameDay, PaperSameDay
<1>2. EngineSees(bar) # Flat <=> sim # Flat
    BY <1>1, WhatTheEngineSees DEF ParityInv
<1>3. BtAsksRisk = PaperAsksRisk(bar) /\ BtEnters(bar) = PaperEnters(bar)
    <2>1. BtAsksRisk = PaperAsksRisk(bar)
        BY <1>1, <1>2 DEF BtAsksRisk, PaperAsksRisk
    <2> QED BY <1>1, <2>1 DEF BtEnters, PaperEnters
<1>4. sim = Flat => Stopped(bar) = {}
    BY FillTellsPosition DEF Stopped
<1>5. PaperEnters(bar) => sim = Flat /\ PaperHolds(bar) = BtHolds(bar) /\ BtHolds(bar) # Flat
    BY <1>1, <1>2, <1>3, HeldOrClosed DEF PaperEnters, PaperAsksRisk, PaperHolds, BtHolds, ParityInv
<1>6. ~PaperEnters(bar) => BtHolds(bar) = sim /\ PaperHolds(bar) = EngineSees(bar)
    BY <1>1, <1>3 DEF PaperHolds, BtHolds
<1>7. PaperExits(bar) <=> PaperHolds(bar) # Flat /\ BtExitsAtOpen
    BY <1>1 DEF PaperExits, BtExitsAtOpen
<1>8. PaperHolds(bar) # Flat <=> BtHolds(bar) # Flat
    BY <1>2, <1>5, <1>6
<1>9. PaperEnters(bar) => StopOrTarget(BtHolds(bar), ahead, bar) = {}
    BY <1>3 DEF TellsApart, TouchedOnEntry, Touched, StopOrTarget
<1>10. ~PaperEnters(bar) => StopOrTarget(BtHolds(bar), ahead, bar) = Stopped(bar)
    BY <1>6 DEF Stopped
<1>11. ASSUME BtHolds(bar) # Flat, BtExitsAtOpen
       PROVE  /\ PaperExits(bar) /\ Unseen(bar) = {} /\ Stopped(bar) = {}
              /\ BtCloses(bar) = {ExitLong(BtHolds(bar), ahead, bar.open)}
              /\ PaperHolds(bar) = BtHolds(bar)
    <2>1. Stopped(bar) = {}
        BY <1>1, <1>11 DEF TellsApart, TouchedOnExit, Touched, Stopped, StopOrTarget
    <2>2. Unseen(bar) = {} /\ EngineSees(bar) = sim
        BY <1>1, <2>1 DEF Unseen, EngineSees, SimAfter
    <2> QED BY <1>5, <1>6, <1>7, <1>8, <1>11, <2>1, <2>2 DEF BtCloses
<1>12. ASSUME BtHolds(bar) # Flat, ~BtExitsAtOpen
       PROVE  /\ ~PaperExits(bar) /\ BtCloses(bar) = Stopped(bar)
              /\ PaperEnters(bar) => Stopped(bar) = {} /\ PaperHolds(bar) = BtHolds(bar)
    <2>1. BtAtEnd(BtHolds(bar), bar) = {}
        BY <1>12 DEF TellsApart, LeftOpen, BtAtEnd
    <2>2. BtCloses(bar) = StopOrTarget(BtHolds(bar), ahead, bar)
        BY <1>12, <2>1 DEF BtCloses
    <2> QED BY <1>4, <1>5, <1>7, <1>9, <1>10, <1>12, <2>2
<1>13. BtHolds(bar) = Flat => ~PaperExits(bar) /\ Stopped(bar) = {} /\ BtCloses(bar) = {}
    BY <1>4, <1>5, <1>6, <1>7, <1>8, FlatClosesNothing
<1> QED BY <1>3, <1>11, <1>12, <1>13

\* A fill waits to be booked: neither trades, and the engine may book it.
LEMMA AlikeWithFill ==
    ASSUME ParityInv, Together, ahead \in Times, unbooked # {},
           NEW bar \in Bars, ~TellsApart(bar)
    PROVE  /\ BtSameDay
           /\ ~BtEnters(bar) /\ ~PaperEnters(bar) /\ ~BtAsksRisk /\ ~PaperAsksRisk(bar)
           /\ BtHolds(bar) = Flat /\ BtCloses(bar) = {}
           /\ Stopped(bar) = {} /\ SimAfter(bar) = Flat /\ Unseen(bar) = unbooked
           /\ \E tr \in TradeRecord : unbooked = {tr}
<1>1. sim = Flat /\ row # Flat /\ btPos = Flat /\ \E tr \in unbooked : unbooked = {tr}
    BY DEF ParityInv, PaperInv, RowTellsPosition, Together
<1>2. unbooked \subseteq TradeRecord
    BY DEF ParityInv, PaperInv, PaperTypeOK
<1>3. BtSameDay /\ ~BtAsksRisk
    BY DEF TellsApart, BookedOvernight, BlockedByRow
<1>4. ~BtEnters(bar) /\ BtHolds(bar) = Flat /\ BtCloses(bar) = {}
    BY <1>1, <1>3, FlatClosesNothing DEF BtEnters, BtHolds
<1>5. Stopped(bar) = {} /\ SimAfter(bar) = Flat /\ Unseen(bar) = unbooked
    BY <1>1, FillTellsPosition DEF Stopped, SimAfter, Unseen
<1>6. EngineSees(bar) # Flat
    BY <1>1, WhatTheEngineSees DEF ParityInv
<1>7. ~PaperAsksRisk(bar) /\ ~PaperEnters(bar)
    BY <1>6 DEF PaperAsksRisk, PaperEnters
<1> QED BY <1>1, <1>2, <1>3, <1>4, <1>5, <1>7

\* A candle of no telling kind keeps the two together: positions and trades.
LEMMA TradesAlike ==
    ASSUME ParityInv, Together, NoCharges, ahead \in Times,
           NEW bar \in Bars, ~TellsApart(bar), NEW signal,
           BacktestCandle(bar, signal), PaperCandle(bar, signal)
    PROVE  btPos' = sim' /\ btTrades' = simTrades'
<1>1. CASE unbooked # {}
    BY <1>1, AlikeWithFill DEF BacktestCandle, PaperCandle, PaperSells
<1>2. CASE unbooked = {} /\ BtHolds(bar) = Flat
    <2>1. ~BtEnters(bar) /\ btPos = Flat /\ btPos = sim
        BY <1>2, HeldOrClosed DEF ParityInv, Together
    <2> QED BY <1>2, <2>1, AlikeWithoutFill DEF BacktestCandle, PaperCandle, PaperSells, SimAfter
<1>3. CASE unbooked = {} /\ BtHolds(bar) # Flat /\ BtExitsAtOpen
    <2>1. btPos' = Flat /\ btTrades' = {ExitLong(BtHolds(bar), ahead, bar.open)}
        BY <1>3, AlikeWithoutFill DEF BacktestCandle
    <2>2. sim' = Flat /\ simTrades' = {ExitLong(BtHolds(bar), ahead, bar.open)}
        BY <1>3, AlikeWithoutFill DEF PaperCandle, PaperSells
    <2> QED BY <2>1, <2>2
<1>4. CASE unbooked = {} /\ BtHolds(bar) # Flat /\ ~BtExitsAtOpen
    <2>1. ~PaperExits(bar) /\ BtCloses(bar) = Stopped(bar) /\ BtEnters(bar) = PaperEnters(bar)
        BY <1>4, AlikeWithoutFill
    <2>2. btTrades' = simTrades'
        BY <2>1 DEF BacktestCandle, PaperCandle, PaperSells
    <2>3. CASE PaperEnters(bar)
        <3>1. sim' = PaperHolds(bar)
            BY <2>1, <2>3 DEF PaperCandle
        <3>2. Stopped(bar) = {} /\ PaperHolds(bar) = BtHolds(bar)
            BY <1>4, <2>3, AlikeWithoutFill
        <3> QED BY <2>1, <2>2, <3>1, <3>2 DEF BacktestCandle
    <2>4. CASE ~PaperEnters(bar)
        <3>1. BtHolds(bar) = sim
            BY <2>1, <2>4 DEF Together, BtHolds
        <3>2. ~PaperExits(bar) /\ ~PaperEnters(bar)
            BY <2>1, <2>4
        <3>3. sim' = SimAfter(bar)
            BY <3>2 DEF PaperCandle
        <3> QED BY <2>1, <2>2, <3>1, <3>3 DEF BacktestCandle, SimAfter
    <2> QED BY <2>2, <2>3, <2>4
<1> QED BY <1>1, <1>2, <1>3, <1>4

\* A candle of no telling kind keeps the two together: the day's totals.
LEMMA TotalsAlike ==
    ASSUME ParityInv, Together, NoCharges, ahead \in Times,
           NEW bar \in Bars, ~TellsApart(bar), NEW signal,
           BacktestCandle(bar, signal), PaperCandle(bar, signal)
    PROVE  /\ btEntries' = paperEntries' /\ btLatch' = paperLatch'
           /\ btPnl' = paperPnl' + Realised(unbooked', 0)
<1> USE DEF BacktestCandle, PaperCandle
<1>0. paperPnl \in Int /\ PaperPnlBefore \in Int
    BY DEF ParityInv, PaperInv, PaperTypeOK, PaperPnlBefore
<1>1. CASE unbooked # {}
    <2>1. PICK tr \in TradeRecord : unbooked = {tr}
        BY <1>1, AlikeWithFill
    <2>2. BtPnlBefore = paperPnl + Gross(tr) /\ PaperPnlBefore = paperPnl /\ Gross(tr) \in Int
        BY <1>1, <2>1, AlikeWithFill, RealisedOne
        DEF Together, BtPnlBefore, PaperPnlBefore, BtSameDay, PaperSameDay
    <2>3. btPnl' = BtPnlBefore
        BY <1>0, <1>1, <2>2, AlikeWithFill, RealisedOne DEF NoCharges
    <2>4. CASE PaperExits(bar)
        <3> DEFINE late == [tr EXCEPT !.left = ahead]
        <3>1. late \in TradeRecord /\ Gross(late) = Gross(tr)
            BY <2>1, TimesAreNaturals DEF TradeRecord, Gross
        <3>2. PaperBooks(bar) = {late}
            BY <1>1, <2>1, <2>4, AlikeWithFill DEF PaperBooks, PaperSells
        <3>3. Realised(PaperBooks(bar), 0) = Gross(tr)
            BY <3>1, <3>2, RealisedOne
        <3>4. Realised(unbooked', 0) = 0
            BY <2>4, RealisedOne DEF StillUnbooked
        <3> QED BY <1>0, <2>2, <2>3, <3>3, <3>4, <1>1, AlikeWithFill
            DEF Together, BtEntriesBefore, PaperEntriesBefore, BtLatchBefore, PaperLatchBefore,
                BtSameDay, PaperSameDay
    <2>5. CASE ~PaperExits(bar)
        <3>1. unbooked' = unbooked /\ paperPnl' = paperPnl
            BY <1>0, <1>1, <2>2, <2>5, AlikeWithFill, RealisedOne DEF StillUnbooked, PaperBooks
        <3> QED BY <1>1, <2>1, <2>2, <2>3, <3>1, AlikeWithFill, RealisedOne
            DEF Together, BtEntriesBefore, PaperEntriesBefore, BtLatchBefore, PaperLatchBefore,
                BtSameDay, PaperSameDay
    <2> QED BY <2>4, <2>5
<1>2. CASE unbooked = {}
    <2>1. /\ BtPnlBefore = PaperPnlBefore /\ BtEntriesBefore = PaperEntriesBefore
          /\ BtLatchBefore = PaperLatchBefore
        <3>1. btPnl = paperPnl
            BY <1>0, <1>2, RealisedOne DEF Together
        <3> QED BY <3>1
            DEF Together, BtPnlBefore, PaperPnlBefore, BtEntriesBefore, PaperEntriesBefore,
                BtLatchBefore, PaperLatchBefore, BtSameDay, PaperSameDay
    <2>2. btEntries' = paperEntries' /\ btLatch' = paperLatch'
        BY <1>2, <2>1, AlikeWithoutFill
    <2>3. CASE PaperExits(bar)
        <3>1. BtHolds(bar) # Flat /\ BtExitsAtOpen
            BY <1>2, <2>3, AlikeWithoutFill
        <3>2. PaperBooks(bar) = BtCloses(bar) /\ unbooked' = {}
            BY <1>2, <2>3, <3>1, AlikeWithoutFill DEF PaperBooks, PaperSells, StillUnbooked
        <3>3. Realised(BtCloses(bar), 0) \in Int
            BY <3>2, BooksType DEF ParityInv
        <3> QED BY <1>0, <2>1, <2>2, <3>2, <3>3, RealisedOne DEF NoCharges
    <2>4. CASE ~PaperExits(bar)
        <3>1. BtCloses(bar) = Stopped(bar)
            BY <1>2, <2>4, AlikeWithoutFill
        <3>2. unbooked' = BtCloses(bar)
            BY <1>2, <2>4, <3>1 DEF StillUnbooked, Unseen
        <3>3. paperPnl' = PaperPnlBefore
            BY <1>0, <2>4, RealisedOne DEF PaperBooks
        <3> QED BY <1>0, <2>1, <2>2, <3>2, <3>3 DEF NoCharges
    <2> QED BY <2>3, <2>4
<1> QED BY <1>1, <1>2

\* Every candle keeps what the proof needs.
LEMMA ParityStep ==
    ASSUME NoCharges, ParityInv, [ParityNext]_parityVars PROVE ParityInv'
<1>1. CASE UNCHANGED parityVars
    BY <1>1
    DEF parityVars, btVars, paperVars, ParityInv, BtInv, BtTypeOK, PaperInv, PaperTypeOK,
        RowTellsPosition, Together
<1>2. CASE ParityNext
    <2>1. PICK bar \in Bars, signal \in Signals :
              /\ BacktestCandle(bar, signal) /\ PaperCandle(bar, signal)
              /\ apart' = (apart \/ TellsApart(bar))
        BY <1>2 DEF ParityNext
    <2>2. NextCandle
        BY <1>2 DEF ParityNext
    <2>3. BtInv' /\ PaperInv'
        BY <2>1, <2>2, BtStep, PaperStep DEF ParityInv, BacktestNext, PaperNext
    <2>4. ASSUME ~apart' PROVE Together'
        <3>1. Together /\ ~TellsApart(bar)
            BY <2>1, <2>4 DEF ParityInv
        <3>2. ahead \in Times /\ now' = ahead
            BY <2>2, TimePasses DEF ParityInv, PaperInv, PaperTypeOK
        <3>3. ASSUME ahead' \in Times, ahead' = now' + 1 PROVE btPending' = paperPending'
            <4>1. CASE ahead' = End
                <5>1. ahead' # End
                    BY <3>3, EndIsNoTime
                <5> QED BY <4>1, <5>1
            <4>2. CASE ahead' # End
                <5>1. BtQueue(signal) = signal
                    BY <3>2, <3>3, <4>2, QueuedAlike
                <5> QED BY <2>1, <5>1 DEF BacktestCandle, PaperCandle
            <4> QED BY <4>1, <4>2
        <3> QED BY <2>1, <3>1, <3>2, <3>3, TradesAlike, TotalsAlike DEF Together
    <2> QED BY <2>3, <2>4 DEF ParityInv
<1> QED BY <1>1, <1>2

\* docs/MASTER_PLAN.md:540, for every set of prices, window and limit: until a
\* candle touches a stop or target on entry or on exit, a BUY meets an unbooked
\* fill, a fill is booked overnight or the data ends under a position, a backtest
\* and a paper session hold the same position and make the same trades.
THEOREM AlikeUntilApart == ASSUME NoCharges PROVE ParitySpec => []SameUntilApart
<1>1. ParityInit => ParityInv
    <2>1. ParityInit => BtInv /\ PaperInv
        BY BtInvInit, PaperInvInit DEF ParityInit
    <2>2. ParityInit => Together
        <3>1. Realised({}, 0) = 0
            BY RealisedOne
        <3>2. ASSUME ParityInit PROVE btPnl = paperPnl + Realised(unbooked, 0)
            <4>1. btPnl = 0 /\ paperPnl = 0 /\ unbooked = {}
                BY <3>2 DEF ParityInit, BacktestInit, PaperInit
            <4> QED BY <3>1, <4>1
        <3> QED BY <3>2 DEF ParityInit, BacktestInit, PaperInit, Together
    <2> QED BY <2>1, <2>2 DEF ParityInv
<1>2. ParityInv /\ [ParityNext]_parityVars => ParityInv'
    BY ParityStep
<1>3. ParityInv => SameUntilApart
    BY DEF ParityInv, Together, SameUntilApart
<1> QED BY <1>1, <1>2, <1>3, PTL DEF ParitySpec

(***************************************************************************)
(* No sale beats the market                                                *)
(***************************************************************************)

\* A sale never gets more than the price it is filled at.
LEMMA SaleAtMost ==
    ASSUME NEW raw \in Int, NEW price \in Prices, raw <= price
    PROVE  SellPrice(raw) <= price
<1>1. price \in Nat
    BY SimulationAssumption
<1> DEFINE k == 100 - SlippagePct
<1>2. k \in 0..100
    BY SimulationAssumption
<1> HIDE DEF k
<1>3. raw * k <= price * 100
    <2>1. (price - raw) * k >= 0 /\ price * (100 - k) >= 0
        BY <1>1, <1>2
    <2>2. raw * k = price * k - (price - raw) * k /\ price * k = price * 100 - price * (100 - k)
        BY <1>1, <1>2
    <2>3. raw * k \in Int /\ price * k \in Int /\ (price - raw) * k \in Int /\ price * (100 - k) \in Int
        BY <1>1, <1>2
    <2> QED BY <1>1, <2>1, <2>2, <2>3
<1>4. raw * k \in Int
    BY <1>2
<1>5. (raw * k) \div 100 <= price
    BY <1>1, <1>3, <1>4
<1> QED BY <1>5 DEF SellPrice, k

\* What one candle's trades fetch.
LEMMA TradesWithinCandle ==
    ASSUME NEW p \in PositionRecord, NEW bar \in Bars
    PROVE  /\ \A tr \in StopOrTarget(p, ahead, bar) : tr.exit <= bar.high
           /\ ExitLong(p, ahead, bar.open).exit <= bar.high
           /\ ExitLong(p, ahead, bar.close).exit <= bar.high
<1>1. /\ bar.open \in Prices /\ bar.close \in Prices /\ bar.high \in Prices
      /\ bar.open \in Int /\ bar.close \in Int /\ bar.high \in Int
      /\ bar.open <= bar.high /\ bar.close <= bar.high
    BY BuyType DEF Bars
<1>2. SellPrice(bar.open) <= bar.high /\ SellPrice(bar.close) <= bar.high
    BY <1>1, SaleAtMost
<1>3. StopPrice(p) \in Int /\ TargetPrice(p) \in Int
    BY <1>1, PriceTypes
<1>4. SellPrice(Least(StopPrice(p), bar.open)) <= bar.high
    <2>1. Least(StopPrice(p), bar.open) \in Int /\ Least(StopPrice(p), bar.open) <= bar.high
        BY <1>1, <1>3 DEF Least
    <2> QED BY <1>1, <2>1, SaleAtMost
<1>5. ASSUME NEW tr \in StopOrTarget(p, ahead, bar) PROVE tr.exit <= bar.high
    BY <1>1, <1>3, <1>4, <1>5 DEF StopOrTarget, TargetTouched, ExitLong, Trade
<1> QED BY <1>2, <1>5 DEF ExitLong, Trade

\* backtest/broker.py:68-82, for every set of prices and slippage: neither a backtest
\* nor the paper broker ever sells above the candle, gaps through a stop included.
THEOREM NoSaleBeatsTheMarket == ParitySpec => []NeverBetterThanMarket
<1> DEFINE Inv == BtInv /\ PaperInv /\ NeverBetterThanMarket
<1>1. ParityInit => Inv
    <2>1. ParityInit => BtInv /\ PaperInv
        BY BtInvInit, PaperInvInit DEF ParityInit
    <2> QED BY <2>1 DEF ParityInit, BacktestInit, PaperInit, NeverBetterThanMarket
<1>2. Inv /\ [ParityNext]_parityVars => Inv'
    <2> SUFFICES ASSUME Inv, [ParityNext]_parityVars PROVE Inv'
        OBVIOUS
    <2>1. CASE UNCHANGED parityVars
        BY <2>1
        DEF parityVars, btVars, paperVars, BtInv, BtTypeOK, PaperInv, PaperTypeOK,
            RowTellsPosition, NeverBetterThanMarket
    <2>2. CASE ParityNext
        <3>1. PICK bar \in Bars, signal \in Signals :
                  BacktestCandle(bar, signal) /\ PaperCandle(bar, signal) /\ high' = bar.high
            BY <2>2 DEF ParityNext
        <3>2. NextCandle
            BY <2>2 DEF ParityNext
        <3>3. BtInv' /\ PaperInv'
            BY <3>1, <3>2, BtStep, PaperStep DEF BacktestNext, PaperNext
        <3>4. BtHolds(bar) \in PositionRecord /\ PaperHolds(bar) \in PositionRecord
              /\ sim \in PositionRecord
            BY CandleTypes, BooksType DEF PaperInv, PaperTypeOK
        <3>5. \A tr \in BtCloses(bar) : tr.exit <= bar.high
            <4>1. BtAtEnd(BtHolds(bar), bar) \subseteq {ExitLong(BtHolds(bar), ahead, bar.close)}
                BY DEF BtAtEnd
            <4> QED BY <3>4, <4>1, TradesWithinCandle DEF BtCloses
        <3>6. \A tr \in Stopped(bar) \cup PaperSells(bar) : tr.exit <= bar.high
            BY <3>4, TradesWithinCandle DEF Stopped, PaperSells
        <3> QED BY <3>1, <3>3, <3>5, <3>6 DEF BacktestCandle, PaperCandle, NeverBetterThanMarket
    <2> QED BY <2>1, <2>2
<1>3. Inv => NeverBetterThanMarket
    OBVIOUS
<1> QED BY <1>1, <1>2, <1>3, PTL DEF ParitySpec

==============================================================================
