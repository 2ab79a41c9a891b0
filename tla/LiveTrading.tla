---------------------------- MODULE LiveTrading -----------------------------
(***************************************************************************)
(* A live trading session: the SignalEngine thread working through closed  *)
(* candles (trading/signal_engine.py), the Reconciler it may be given      *)
(* (trading/reconciliation.py) and the UI thread pressing the emergency    *)
(* stop (trading/emergency_stop.py), over one KiteBroker, one database and *)
(* one exchange account.                                                   *)
(*                                                                         *)
(* process_candle is split where it calls the broker or the database.      *)
(* pc names the call the engine is about to make:                          *)
(*                                                                         *)
(*   idle -> (buy -> risk | sell) -> ... -> squareOff -> ... -> signal     *)
(*        -> idle                                                          *)
(*   entry: place -> poll -> placed -> readFill -> recordFill -> place     *)
(*          (stop) -> poll -> placed -> savePosition                       *)
(*   exit:  cancel -> pollCancel -> verify -> place -> poll -> placed      *)
(*          -> recordExit                                                  *)
(***************************************************************************)
EXTENDS TradingDb

CONSTANTS
    EntryWindow,     \* candles in [trading_start, trading_end]
    SquareOffAt,     \* first candle at or after square_off_time
    HasReconciler,   \* was the engine built with a Reconciler?
    UiHasBroker,     \* does get_current_engine() find the engine in the UI's process?
    Alerts,          \* which notify_* callbacks the feed may raise
    MaxStops,        \* bound: emergency stops pressed
    BuysOn, SellsOn  \* bound: candles on which the strategy may give a BUY, a SELL

AlertKinds == {"network", "stale"}

\* TradingConfig: the trading window ends before square_off_time.
ValidWindow == /\ SquareOffAt \in Nat
               /\ EntryWindow \subseteq Candles
               /\ \A c \in EntryWindow : c < SquareOffAt

ASSUME WindowAssumption == ValidWindow

ASSUME SessionAssumption == /\ {HasReconciler, UiHasBroker} \subseteq BOOLEAN
                            /\ Alerts \subseteq AlertKinds
                            /\ MaxStops \in Nat

VARIABLES
    candle,          \* the last candle handed to process_candle, 0 before the first
    pending,         \* SignalEngine._pending_signal
    seen,            \* SignalEngine._seen_signal_ids
    halted,          \* SignalEngine.halted
    networkBlocked,  \* SignalEngine._network_blocked
    feedStale,       \* SignalEngine._feed_stale
    safeMode,        \* Reconciler.safe_mode
    pc, sid, purpose, bid, pos, attempt,   \* engine: control point and locals
    uiPc, uiTodo, uiOrder, stops           \* UI thread inside activate()

engineVars == <<candle, pending, seen, halted>>
flagVars   == <<networkBlocked, feedStale, safeMode>>
callVars   == <<pc, sid, purpose, bid, pos, attempt>>
uiVars     == <<uiPc, uiTodo, uiOrder, stops>>
vars == <<exchangeVars, kiteVars, dbVars, engineVars, flagVars, callVars, uiVars>>

NoRow == [key |-> <<NoSignal, "ENTRY">>, status |-> "CREATED", bid |-> NoOrder]

Init ==
    /\ book = << >> /\ net = 0
    /\ KiteInit
    /\ DbInit
    /\ candle = 0 /\ pending = NoSignal /\ seen = {} /\ halted = FALSE
    /\ networkBlocked = FALSE /\ feedStale = FALSE /\ safeMode = FALSE
    /\ pc = "idle" /\ sid = NoSignal /\ purpose = "ENTRY"
    /\ bid = NoOrder /\ pos = NoPosition /\ attempt = 0
    /\ uiPc = "ready" /\ uiTodo = {} /\ uiOrder = NoRow /\ stops = 0

(***************************************************************************)
(* Frames.  GoTo moves inside the handler; Leave also drops the locals of  *)
(* _execute_entry or _execute_exit, which have returned.                   *)
(***************************************************************************)
GoTo(l) == pc' = l /\ UNCHANGED <<sid, purpose, bid, pos, attempt>>

Leave(l) == /\ pc' = l
            /\ sid' = NoSignal /\ purpose' = "ENTRY" /\ bid' = NoOrder
            /\ pos' = NoPosition /\ attempt' = 0

\* Where process_candle continues after _execute_exit.
AfterExit == IF sid[1] = "SQ" THEN "signal" ELSE "squareOff"

\* Wrong on purpose: the failure is logged and the engine goes on.
LogOnly == UNCHANGED engineVars

Halt == halted' = TRUE /\ UNCHANGED <<candle, pending, seen>>

\* Wrong on purpose: only the database is asked.
RecordedPositions == {dbPosition}

\* _get_open_position: the broker's position, else the database's.
OpenPositions == {IF p # NoPosition THEN p ELSE dbPosition : p \in BrokerPositions}

OrderQty == IF purpose = "ENTRY" THEN LotQty ELSE pos.qty

(***************************************************************************)
(* process_candle                                                          *)
(***************************************************************************)

\* Safe mode raises, a halted or network-blocked engine returns: either way
\* the whole candle is ignored, square-off included.
IgnoreCandle(c) ==
    /\ pc = "idle"
    /\ safeMode \/ halted \/ networkBlocked
    /\ candle' = c
    /\ UNCHANGED <<exchangeVars, kiteVars, dbVars, pending, seen, halted, flagVars, callVars, uiVars>>

\* Wrong on purpose: the pending signal is executed and kept.
KeepPending == UNCHANGED pending

TakePending == pending' = NoSignal

\* The pending signal is consumed; it executes only on the very next candle.
StartCandle(c) ==
    /\ pc = "idle"
    /\ ~safeMode /\ ~halted /\ ~networkBlocked
    /\ candle' = c
    /\ TakePending
    /\ IF pending # NoSignal /\ c = pending[2] + 1
          THEN /\ pc' = IF pending[1] = "BUY" THEN "buy" ELSE "sell"
               /\ sid' = pending
          ELSE /\ pc' = "squareOff"
               /\ UNCHANGED sid
    /\ UNCHANGED <<exchangeVars, kiteVars, dbVars, seen, halted, flagVars,
                   purpose, bid, pos, attempt, uiVars>>

\* The feed never goes back, but may deliver the last candle again.
ReceiveCandle ==
    \E c \in Candles : c >= candle /\ (IgnoreCandle(c) \/ StartCandle(c))

ExecuteBuy ==
    /\ pc = "buy"
    /\ \E p \in OpenPositions :
          IF p = NoPosition THEN GoTo("risk") ELSE Leave("squareOff")
    /\ UNCHANGED <<exchangeVars, kiteVars, dbVars, engineVars, flagVars, uiVars>>

ExecuteSell ==
    /\ pc = "sell"
    /\ \E p \in OpenPositions :
          IF p = NoPosition
             THEN Leave("squareOff")
             ELSE pc' = "cancel" /\ pos' = p /\ UNCHANGED <<sid, purpose, bid, attempt>>
    /\ UNCHANGED <<exchangeVars, kiteVars, dbVars, engineVars, flagVars, uiVars>>

\* Wrong on purpose: one trade more than the limit.
TradesLeftOffByOne == EntriesToday <= MaxTrades

TradesLeft == EntriesToday < MaxTrades

\* Wrong on purpose: the kill switch is not asked.
WindowOnly == candle \in EntryWindow

EntryPermitted == ~killSwitch /\ candle \in EntryWindow

\* Wrong on purpose: a recovery of the day's P&L lifts the halt.
LossNow(lossHit) == lossHit

LossHalt(lossHit) == lossLatch \/ lossHit

\* check_entry.  Today's P&L can be a loss beyond the limit only after a sale;
\* the latch then outlives a recovery.  A price may always size to zero.
RiskCheck ==
    /\ pc = "risk"
    /\ \E lossHit \in (IF tradedQty > 0 THEN BOOLEAN ELSE {FALSE}), sized \in BOOLEAN :
          LET allowed == EntryPermitted /\ ~LossHalt(lossHit) /\ TradesLeft /\ sized
          IN  /\ lossLatch' = (lossLatch \/ (EntryPermitted /\ lossHit))
              /\ IF allowed THEN GoTo("place") ELSE Leave("squareOff")
    /\ UNCHANGED <<exchangeVars, kiteVars, dbOrders, dbPosition, tradedQty, killSwitch,
                   engineVars, flagVars, uiVars>>

(***************************************************************************)
(* broker.place_order, for an entry, a stop or an exit                     *)
(***************************************************************************)
Place ==
    /\ pc = "place"
    /\ LET o == NewOrder(sid, purpose, OrderQty) IN
          \/ /\ PlaceAccepted(o)
             /\ bid' = Len(book') /\ pc' = "poll"
          \/ /\ PlaceRefused(o)
             /\ pc' = "refused" /\ UNCHANGED bid
          \/ /\ PlaceUnanswered(o)
             /\ pc' = "lookup" /\ UNCHANGED bid
    /\ UNCHANGED <<dbVars, engineVars, flagVars, sid, purpose, pos, attempt, uiVars>>

LookupByTag ==
    /\ pc = "lookup"
    /\ \/ \E i \in DOMAIN book : LookupFinds(sid, i) /\ bid' = i /\ pc' = "poll"
       \/ LookupFails(sid) /\ pc' = "unanswered" /\ UNCHANGED bid
    /\ UNCHANGED <<dbVars, engineVars, flagVars, sid, purpose, pos, attempt, uiVars>>

\* place_order returns the id whatever state the poll ended in.
PollPlaced ==
    /\ pc = "poll"
    /\ Poll(bid)
    /\ GoTo("placed")
    /\ UNCHANGED <<dbVars, engineVars, flagVars, uiVars>>

(***************************************************************************)
(* _execute_entry                                                          *)
(***************************************************************************)
EntryPlaced ==
    /\ pc = "placed" /\ purpose = "ENTRY"
    /\ \/ InsertOrder(<<sid, "ENTRY">>, "SUBMITTED", bid) /\ GoTo("readFill")
       \/ InsertFails(<<sid, "ENTRY">>) /\ Leave("squareOff")
    /\ UNCHANGED <<exchangeVars, kiteVars, dbPosition, tradedQty, killSwitch, lossLatch,
                   engineVars, flagVars, uiVars>>

\* An exception other than NetworkException: logged, and trading goes on.
EntryRefused ==
    /\ pc = "refused" /\ purpose = "ENTRY"
    /\ Leave("squareOff")
    /\ UNCHANGED <<exchangeVars, kiteVars, dbVars, engineVars, flagVars, uiVars>>

\* NetworkException: the order is recorded as UNKNOWN, the engine halts.
EntryUnanswered ==
    /\ pc = "unanswered" /\ purpose = "ENTRY"
    /\ \/ InsertOrder(<<sid, "ENTRY">>, "UNKNOWN", NoOrder)
       \/ InsertFails(<<sid, "ENTRY">>)
    /\ Halt
    /\ Leave("squareOff")
    /\ UNCHANGED <<exchangeVars, kiteVars, dbPosition, tradedQty, killSwitch, lossLatch,
                   flagVars, uiVars>>

\* Wrong on purpose: the quantity asked for, whatever was filled.
AskedQty(info) == LotQty

\* H3: what was filled, if it is less than what was asked for.
FilledQty(info) == IF info.filled \in 1..(LotQty - 1) THEN info.filled ELSE LotQty

\* The engine's own poll loop reads the broker's cache.  Only UNKNOWN halts:
\* what a cancelled order had already filled is left to the exchange.
ReadFill ==
    /\ pc = "readFill"
    /\ LET info == orderInfo[bid] IN
          IF info.status = "COMPLETE"
             THEN /\ pos' = [qty |-> FilledQty(info), stop |-> NoOrder]
                  /\ pc' = "recordFill"
                  /\ UNCHANGED <<sid, purpose, bid, attempt, engineVars>>
             ELSE /\ Leave("squareOff")
                  /\ IF info.status = "UNKNOWN" THEN Halt ELSE UNCHANGED engineVars
    /\ UNCHANGED <<exchangeVars, kiteVars, dbVars, flagVars, uiVars>>

\* update_order raises if the emergency stop has already written CANCELLED;
\* the exception leaves process_candle, abandoning the rest of the candle.
RecordFill ==
    /\ pc = "recordFill"
    /\ LET key == <<sid, "ENTRY">> IN
          \/ /\ UpdateOrder(key, "COMPLETE")
             /\ pc' = "place" /\ purpose' = "STOP_LOSS" /\ attempt' = 1
             /\ UNCHANGED <<sid, bid, pos>>
          \/ /\ ~UpdateAllowed(key, "COMPLETE")
             /\ Leave("idle")
             /\ UNCHANGED dbOrders
    /\ UNCHANGED <<exchangeVars, kiteVars, dbPosition, tradedQty, killSwitch, lossLatch,
                   engineVars, flagVars, uiVars>>

\* Placed means that place_order returned an id and the row was inserted.
StopPlaced ==
    /\ pc = "placed" /\ purpose = "STOP_LOSS"
    /\ InsertOrder(<<sid, "STOP_LOSS">>, "SUBMITTED", bid)
    /\ pos' = [pos EXCEPT !.stop = bid]
    /\ pc' = "savePosition"
    /\ UNCHANGED <<exchangeVars, kiteVars, dbPosition, tradedQty, killSwitch, lossLatch,
                   engineVars, flagVars, sid, purpose, bid, attempt, uiVars>>

\* Any exception counts as a failed attempt, an INSERT's too.  One retry.
StopFailed ==
    /\ purpose = "STOP_LOSS"
    /\ \/ pc \in {"refused", "unanswered"} /\ UNCHANGED dbOrders
       \/ pc = "placed" /\ InsertFails(<<sid, "STOP_LOSS">>)
    /\ IF attempt = 1
          THEN pc' = "place" /\ attempt' = 2 /\ UNCHANGED engineVars
          ELSE pc' = "savePosition" /\ UNCHANGED attempt /\ Halt
    /\ UNCHANGED <<exchangeVars, kiteVars, dbPosition, tradedQty, killSwitch, lossLatch,
                   flagVars, sid, purpose, bid, pos, uiVars>>

\* Wrong on purpose: the row is written before the stop id is known.
SaveWithoutStop ==
    /\ pc = "savePosition"
    /\ dbPosition' = [pos EXCEPT !.stop = NoOrder]
    /\ Leave("squareOff")
    /\ UNCHANGED <<exchangeVars, kiteVars, dbOrders, tradedQty, killSwitch, lossLatch,
                   engineVars, flagVars, uiVars>>

SavePosition ==
    /\ pc = "savePosition"
    /\ dbPosition' = pos
    /\ Leave("squareOff")
    /\ UNCHANGED <<exchangeVars, kiteVars, dbOrders, tradedQty, killSwitch, lossLatch,
                   engineVars, flagVars, uiVars>>

(***************************************************************************)
(* Square-off, and _execute_exit                                           *)
(***************************************************************************)

\* Step 3 of process_candle follows: it deletes the database position when
\* neither the broker nor the database has one, and so changes nothing.
SquareOff ==
    /\ pc = "squareOff"
    /\ \E p \in OpenPositions :
          IF p # NoPosition /\ candle >= SquareOffAt
             THEN /\ pc' = "cancel" /\ pos' = p /\ sid' = <<"SQ", candle>>
                  /\ UNCHANGED <<purpose, bid, attempt>>
             ELSE GoTo("signal")
    /\ UNCHANGED <<exchangeVars, kiteVars, dbVars, engineVars, flagVars, uiVars>>

\* A position the broker reported has no stop id: nothing to cancel.
CancelStop ==
    /\ pc = "cancel"
    /\ IF pos.stop = NoOrder
          THEN /\ pc' = "place" /\ purpose' = "EXIT"
               /\ UNCHANGED <<bid, exchangeVars, kiteVars>>
          ELSE /\ RequestCancel(pos.stop)
               /\ pc' = "pollCancel" /\ bid' = pos.stop
               /\ UNCHANGED purpose
    /\ UNCHANGED <<dbVars, engineVars, flagVars, sid, pos, attempt, uiVars>>

PollCancel ==
    /\ pc = "pollCancel"
    /\ Poll(bid)
    /\ GoTo("verify")
    /\ UNCHANGED <<dbVars, engineVars, flagVars, uiVars>>

\* H1: a stop that filled has closed the position.  Any other state goes on.
VerifyStop ==
    /\ pc = "verify"
    /\ IF orderInfo[bid].status = "COMPLETE"
          THEN RecordSale(pos.qty) /\ Leave(AfterExit)
          ELSE /\ pc' = "place" /\ purpose' = "EXIT"
               /\ UNCHANGED <<sid, bid, pos, attempt, tradedQty, dbPosition>>
    /\ UNCHANGED <<exchangeVars, kiteVars, dbOrders, killSwitch, lossLatch,
                   engineVars, flagVars, uiVars>>

ExitPlaced ==
    /\ pc = "placed" /\ purpose = "EXIT"
    /\ InsertOrder(<<sid, "EXIT">>, "SUBMITTED", bid)
    /\ GoTo("recordExit")
    /\ UNCHANGED <<exchangeVars, kiteVars, dbPosition, tradedQty, killSwitch, lossLatch,
                   engineVars, flagVars, uiVars>>

ExitFailed ==
    /\ purpose = "EXIT"
    /\ \/ pc \in {"refused", "unanswered"} /\ UNCHANGED dbOrders
       \/ pc = "placed" /\ InsertFails(<<sid, "EXIT">>)
    /\ Halt
    /\ Leave(AfterExit)
    /\ UNCHANGED <<exchangeVars, kiteVars, dbPosition, tradedQty, killSwitch, lossLatch,
                   flagVars, uiVars>>

\* Whatever state the exit was polled in, it is booked as done.
RecordExit ==
    /\ pc = "recordExit"
    /\ RecordSale(pos.qty)
    /\ UpdateOrder(<<sid, "EXIT">>, "COMPLETE")
    /\ Leave(AfterExit)
    /\ UNCHANGED <<exchangeVars, kiteVars, killSwitch, lossLatch, engineVars, flagVars, uiVars>>

(***************************************************************************)
(* Steps 4 and 5 of process_candle: any strategy, within its bounds;       *)
(* duplicates are dropped                                                  *)
(***************************************************************************)
SignalsGiven == {s \in {"BUY", "SELL"} : candle \in [BUY |-> BuysOn, SELL |-> SellsOn][s]}

QueueSignal ==
    /\ pc = "signal"
    /\ Leave("idle")
    /\ \/ UNCHANGED <<pending, seen>>                        \* HOLD
       \/ \E s \in SignalsGiven :
             LET id == <<s, candle>>
                 duplicate == id \in seen \/ \E k \in DOMAIN dbOrders : k[1] = id
             IN IF feedStale \/ duplicate
                   THEN UNCHANGED <<pending, seen>>
                   ELSE pending' = id /\ seen' = seen \cup {id}
    /\ UNCHANGED <<exchangeVars, kiteVars, dbVars, candle, halted, flagVars, uiVars>>

(***************************************************************************)
(* Notifications and reconciliation                                        *)
(***************************************************************************)
NotifyStaleFeed ==
    /\ "stale" \in Alerts
    /\ feedStale' \in BOOLEAN
    /\ UNCHANGED <<exchangeVars, kiteVars, dbVars, engineVars, networkBlocked, safeMode,
                   callVars, uiVars>>

NotifyNetworkFailure ==
    /\ "network" \in Alerts
    /\ networkBlocked' \in BOOLEAN
    /\ UNCHANGED <<exchangeVars, kiteVars, dbVars, engineVars, feedStale, safeMode,
                   callVars, uiVars>>

\* No reason for safe mode: the same position on both sides, protected, and
\* every order of the book known to the database.
Clean(p) ==
    /\ p.qty = dbPosition.qty
    /\ dbPosition # NoPosition => dbPosition.stop # NoOrder
    /\ DOMAIN book \subseteq {dbOrders[k].bid : k \in DOMAIN dbOrders}

\* Reconciler.reconcile; the profile ping or orders() may fail too.
Reconcile ==
    \E p \in BrokerPositions, answered \in {TRUE, "network" \notin Faults} :
        safeMode' = ~(answered /\ Clean(p))

NotifyReconnected ==
    /\ "network" \in Alerts
    /\ IF HasReconciler
          THEN Reconcile /\ networkBlocked' = (networkBlocked /\ safeMode')
          ELSE networkBlocked' = FALSE /\ UNCHANGED safeMode
    /\ UNCHANGED <<exchangeVars, kiteVars, dbVars, engineVars, feedStale, callVars, uiVars>>

(***************************************************************************)
(* The UI thread: EmergencyStop.activate, and clearing the kill switch     *)
(***************************************************************************)
PressStop ==
    /\ uiPc = "ready"
    /\ stops < MaxStops
    /\ stops' = stops + 1
    /\ killSwitch' = TRUE
    /\ uiPc' = "scan"
    /\ UNCHANGED <<exchangeVars, kiteVars, dbOrders, dbPosition, tradedQty, lossLatch,
                   engineVars, flagVars, callVars, uiTodo, uiOrder>>

ScanUnresolved ==
    /\ uiPc = "scan"
    /\ uiTodo' = {[key |-> k, status |-> dbOrders[k].status, bid |-> dbOrders[k].bid]
                     : k \in UnresolvedEntries}
    /\ uiPc' = "next"
    /\ UNCHANGED <<exchangeVars, kiteVars, dbVars, engineVars, flagVars, callVars, uiOrder, stops>>

\* Wrong on purpose: the newest row first.
NewestFirst(o) == \A q \in uiTodo : o.key[1][2] >= q.key[1][2]

\* get_unresolved_orders lists the rows by id: in the order of their signals.
OldestFirst(o) == \A q \in uiTodo : o.key[1][2] <= q.key[1][2]

\* Entry orders only.  Without an engine in the UI's process there is no broker
\* to cancel with; the AttributeError is caught like a failed cancel.
CancelNextEntry ==
    /\ uiPc = "next"
    /\ IF uiTodo = {}
          THEN uiPc' = "ready" /\ uiOrder' = NoRow
               /\ UNCHANGED <<uiTodo, exchangeVars, kiteVars>>
          ELSE \E o \in uiTodo :
                  /\ OldestFirst(o)
                  /\ uiTodo' = uiTodo \ {o}
                  /\ uiOrder' = o
                  /\ IF o.bid = NoOrder \/ ~UiHasBroker
                        THEN uiPc' = "mark" /\ UNCHANGED <<exchangeVars, kiteVars>>
                        ELSE uiPc' = "pollCancel" /\ RequestCancel(o.bid)
    /\ UNCHANGED <<dbVars, engineVars, flagVars, callVars, stops>>

PollCancelledEntry ==
    /\ uiPc = "pollCancel"
    /\ Poll(uiOrder.bid)
    /\ uiPc' = "mark"
    /\ UNCHANGED <<dbVars, engineVars, flagVars, callVars, uiTodo, uiOrder, stops>>

\* The order is marked CANCELLED without looking at what the poll found.  If
\* the engine has recorded the fill meanwhile, update_order raises and the
\* remaining entries are not reached.
MarkCancelled ==
    /\ uiPc = "mark"
    /\ IF /\ CanTransition(uiOrder.status, "CANCELLED")
          /\ UpdateAllowed(uiOrder.key, "CANCELLED")
          THEN UpdateOrder(uiOrder.key, "CANCELLED") /\ uiPc' = "next" /\ UNCHANGED <<uiTodo, uiOrder>>
          ELSE uiPc' = "ready" /\ uiTodo' = {} /\ uiOrder' = NoRow /\ UNCHANGED dbOrders
    /\ UNCHANGED <<exchangeVars, kiteVars, dbPosition, tradedQty, killSwitch, lossLatch,
                   engineVars, flagVars, callVars, stops>>

ClearKillSwitch ==
    /\ uiPc = "ready"
    /\ killSwitch
    /\ killSwitch' = FALSE
    /\ UNCHANGED <<exchangeVars, kiteVars, dbOrders, dbPosition, tradedQty, lossLatch,
                   engineVars, flagVars, callVars, uiVars>>

(***************************************************************************)
(* The system                                                              *)
(***************************************************************************)
ExchangeMoves == /\ ExchangeStep
                 /\ UNCHANGED <<kiteVars, dbVars, engineVars, flagVars, callVars, uiVars>>

EntryStep == EntryPlaced \/ EntryRefused \/ EntryUnanswered \/ ReadFill \/ RecordFill
                \/ StopPlaced \/ StopFailed \/ SavePosition

ExitStep == SquareOff \/ CancelStop \/ PollCancel \/ VerifyStop
                \/ ExitPlaced \/ ExitFailed \/ RecordExit

\* One step of a process_candle already under way.
EngineStep == ExecuteBuy \/ ExecuteSell \/ RiskCheck \/ Place \/ LookupByTag \/ PollPlaced
                \/ EntryStep \/ ExitStep \/ QueueSignal

UiStep == ScanUnresolved \/ CancelNextEntry \/ PollCancelledEntry \/ MarkCancelled

Notify == NotifyStaleFeed \/ NotifyNetworkFailure \/ NotifyReconnected

Next == \/ ReceiveCandle \/ EngineStep
        \/ PressStop \/ UiStep \/ ClearKillSwitch
        \/ Notify
        \/ ExchangeMoves

Spec == Init /\ [][Next]_vars

\* A started handler runs on; the exchange decides every market order.
\* Candles, users, alerts and prices owe nothing.
ExchangeDecides == /\ \E i \in DOMAIN book : Fill(i) \/ FillPart(i)
                   /\ UNCHANGED <<kiteVars, dbVars, engineVars, flagVars, callVars, uiVars>>

FairSpec == /\ Spec
            /\ WF_vars(EngineStep)
            /\ WF_vars(UiStep)
            /\ WF_vars(ExchangeDecides)

=============================================================================
