----------------------------- MODULE LiveSafety -----------------------------
(***************************************************************************)
(* What a live session promises: the properties of LiveTrading.            *)
(***************************************************************************)
EXTENDS LiveTrading, FiniteSetsExt

BookOrder == [ tag    : SignalIds \cup {NoSignal},
               side   : {"BUY", "SELL"},
               status : {"OPEN", "TRIGGER PENDING", "COMPLETE", "CANCELLED", "REJECTED"},
               stop   : BOOLEAN,
               qty    : Nat,
               filled : Nat ]

OrderId  == Nat
PosRow   == [qty : Nat, stop : OrderId]
OrderRow == [status : OrderStatus, bid : OrderId]
UiRow    == [key : OrderKeys \cup {NoRow.key}, status : OrderStatus, bid : OrderId]

EngineLocations ==
    {"idle", "buy", "sell", "risk", "place", "lookup", "poll", "placed", "refused",
     "unanswered", "readFill", "recordFill", "savePosition", "squareOff", "cancel",
     "pollCancel", "verify", "recordExit", "signal"}

UiLocations == {"ready", "scan", "next", "pollCancel", "mark"}

\* Module LiveRecovery adds these: a process that died, and flatten_all.
RecoveryLocations ==
    {"down", "flatCancel", "flatPollCancel", "flatInsert", "flatPlace", "flatPoll",
     "flatUpdate", "flatDelete"}

ExchangeTypeOK ==
    /\ book \in Seq(BookOrder)
    /\ net \in Int

KiteTypeOK ==
    /\ brokerHalted \in BOOLEAN
    /\ DOMAIN orderInfo \subseteq Nat
    /\ \A i \in DOMAIN orderInfo : orderInfo[i] \in [status : OrderStatus, filled : Nat]

DbTypeOK ==
    /\ DOMAIN dbOrders \subseteq OrderKeys
    /\ \A k \in DOMAIN dbOrders : dbOrders[k] \in OrderRow
    /\ dbPosition \in PosRow
    /\ tradedQty \in Nat
    /\ killSwitch \in BOOLEAN
    /\ lossLatch \in BOOLEAN

EngineTypeOK ==
    /\ candle \in 0..MaxCandle
    /\ pending \in SignalIds \cup {NoSignal}
    /\ seen \subseteq SignalIds
    /\ halted \in BOOLEAN
    /\ networkBlocked \in BOOLEAN /\ feedStale \in BOOLEAN /\ safeMode \in BOOLEAN

CallTypeOK ==
    /\ pc \in EngineLocations \cup RecoveryLocations
    /\ sid \in SignalIds \cup {NoSignal}
    /\ purpose \in OrderPurpose
    /\ bid \in OrderId
    /\ pos \in PosRow
    /\ attempt \in 0..2

UiTypeOK ==
    /\ uiPc \in UiLocations \cup RecoveryLocations
    /\ uiTodo \subseteq UiRow
    /\ uiOrder \in UiRow
    /\ stops \in 0..MaxStops

\* Every variable holds a value of its kind; in particular no quantity the
\* engine orders, holds or books is negative (kite_broker.py:259).
TypeOK == /\ ExchangeTypeOK /\ KiteTypeOK /\ DbTypeOK
          /\ EngineTypeOK /\ CallTypeOK /\ UiTypeOK

Buys     == {i \in DOMAIN book : book[i].side = "BUY"}
OpenBuys == {i \in Buys : book[i].status = "OPEN"}

(***************************************************************************)
(* The account                                                             *)
(***************************************************************************)

\* README.md:58, one position at a time: the shares held and any entry still
\* open never come to more than one lot, whatever is lost, refused or times out.
OneLot ==
    /\ net <= LotQty
    /\ \A i \in OpenBuys : net + book[i].qty <= LotQty
    /\ \A i, j \in OpenBuys : i = j

\* The session is long-only (README.md:58): it never sells what it does not hold.
NeverShort == net >= 0

\* Idempotent order tracking (README.md:72): a signal buys at most once, also
\* when the feed delivers its candle again.
OneEntryPerSignal ==
    \A i, j \in Buys : book[i].tag = book[j].tag => i = j

\* max_trades_per_day bounds the entries sent to the exchange, not only the
\* rows the risk check counts.
TradesCapped == Cardinality(Buys) <= MaxTrades

\* H3 (MASTER_PLAN.md:524): a stop sells exactly what its own entry bought.
StopsMatchFills ==
    \A i \in DOMAIN book : book[i].stop =>
        \E j \in Buys : /\ book[j].tag = book[i].tag
                        /\ book[j].status = "COMPLETE"
                        /\ book[i].qty = book[j].filled

(***************************************************************************)
(* The account and the database                                            *)
(***************************************************************************)

\* An entry row with a broker id names the buy order of its own signal, and is
\* COMPLETE only when that order is, however the id was found.
EntryRowsNameTheirOrder ==
    \A k \in EntryRows : dbOrders[k].bid # NoOrder =>
        LET i == dbOrders[k].bid IN
            /\ i \in Buys /\ book[i].tag = k[1]
            /\ dbOrders[k].status = "COMPLETE" => book[i].status = "COMPLETE"

\* models.py:193: an engine that goes on trading, and can, holds shares only
\* with a recorded position whose stop order rests on the exchange.
OpenPositionProtected ==
    (pc = "idle" /\ ~halted /\ ~brokerHalted /\ net > 0) =>
        /\ dbPosition # NoPosition
        /\ dbPosition.stop # NoOrder
        /\ book[dbPosition.stop].status = "TRIGGER PENDING"

\* MASTER_PLAN.md:679: a position recorded without a stop has halted the engine.
UnprotectedHalts ==
    dbPosition # NoPosition /\ dbPosition.stop = NoOrder => halted

Sold == MapThenSumSet(LAMBDA i : book[i].filled, DOMAIN book \ Buys)

\* A trade in the trades table is a sale the exchange has made.
BookedSalesHappened == tradedQty <= Sold

(***************************************************************************)
(* Steps                                                                   *)
(***************************************************************************)

TerminalRowsStay ==
    \A k \in DOMAIN dbOrders : dbOrders[k].status \in TerminalStatuses =>
        k \in DOMAIN dbOrders' /\ dbOrders'[k].status = dbOrders[k].status

\* db.py:223: a terminal order row never changes status again, whichever
\* thread gets to it second.
TerminalRowsFinal == [][TerminalRowsStay]_vars

NoEntryOnceHalted == halted \/ brokerHalted => Buys' = Buys

\* A halt of the engine or of the broker is final (signal_engine.py:118,
\* kite_broker.py:90): no entry reaches the exchange from then on, the rest of
\* that candle included.
HaltEndsEntries == [][NoEntryOnceHalted]_vars

NoEntryOnceLatched == lossLatch => Buys' = Buys

\* risk_manager.py:8, the daily-loss halt latches: even if the day's P&L recovers,
\* no entry reaches the exchange any more.
LossLatchFinal == [][NoEntryOnceLatched]_vars

\* H5 (emergency_stop.py:23): a resting stop is cancelled only by the exit of
\* the position it protects, never by the emergency stop.
OnlyExitsCancelStops ==
    [][\A i \in DOMAIN book :
          book[i].status = "TRIGGER PENDING" /\ book'[i].status = "CANCELLED" =>
              pc = "cancel" /\ pos.stop = i]_vars

\* emergency_stop.py:23: an exception ends the loop over the unresolved entries
\* early, but only at the last of them; no entry it found is left out.
StopLeavesNoneOut == [][uiPc = "mark" /\ uiPc' = "ready" => uiTodo = {}]_vars

(***************************************************************************)
(* Progress                                                                *)
(***************************************************************************)

\* process_candle returns: every poll ends, the stop is retried once.
CandleFinishes == pc # "idle" ~> pc = "idle"

\* README.md:70: a square-off that is started leaves no recorded position, or
\* a halted engine for the user to see.
SquareOffClears ==
    (pc = "squareOff" /\ candle >= SquareOffAt /\ dbPosition # NoPosition)
        ~> (dbPosition = NoPosition \/ halted)

EntrySignals == {<<"BUY", c>> : c \in {d \in Candles : d + 1 \in EntryWindow}}

\* The emergency stop resolves every entry it found unresolved
\* (emergency_stop.py:23), also when the engine records a fill meanwhile.
StopResolvesEntries ==
    \A k \in EntrySignals :
        (uiPc = "scan" /\ <<k, "ENTRY">> \in UnresolvedEntries)
            ~> <<k, "ENTRY">> \notin UnresolvedEntries

=============================================================================
