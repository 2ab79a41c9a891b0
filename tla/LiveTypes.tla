----------------------------- MODULE LiveTypes ------------------------------
(***************************************************************************)
(* Proof that a live session keeps TypeOK, for every value of the          *)
(* constants and whatever faults and alerts occur.                         *)
(***************************************************************************)
EXTENDS LiveSafety, TLAPS

Known == 0..Len(book)

\* A handler is on its way, and acts for a signal.
Resting == {"idle", "down"}
InCall  == pc \notin Resting \cup {"squareOff", "signal"}

(***************************************************************************)
(* TypeOK is not inductive: a poll reads book[bid], so every id the engine,*)
(* the database or the UI holds must name an order of the book; and a      *)
(* handler between two calls must have a signal to act for.                *)
(***************************************************************************)
KiteWF == /\ KiteTypeOK
          /\ DOMAIN orderInfo \subseteq DOMAIN book

DbWF == /\ DbTypeOK
        /\ dbPosition.stop \in Known
        /\ \A k \in DOMAIN dbOrders : dbOrders[k].bid \in Known

CallWF == /\ CallTypeOK
          /\ bid \in Known
          /\ pos.stop \in Known
          /\ pc \in {"poll", "placed", "pollCancel"} => bid # NoOrder
          /\ InCall => sid \in SignalIds
          /\ pc \notin Resting => candle \in Candles

UiWF == /\ UiTypeOK
        /\ uiOrder.bid \in Known
        /\ \A o \in uiTodo : o.bid \in Known
        /\ uiPc = "pollCancel" => uiOrder.bid # NoOrder

WellFormed == ExchangeTypeOK /\ KiteWF /\ DbWF /\ EngineTypeOK /\ CallWF /\ UiWF

(***************************************************************************)
(* The operators the actions are built from                                *)
(***************************************************************************)

LEMMA StatusMapType ==
    ASSUME NEW o \in BookOrder PROVE MapKiteStatus(o.status) \in OrderStatus
BY DEF BookOrder, MapKiteStatus, StatusMap, OrderStatus, TerminalStatuses, NonTerminalStatuses

LEMMA NewOrderType ==
    ASSUME NEW tag \in SignalIds \cup {NoSignal}, NEW p \in OrderPurpose, NEW q \in Nat
    PROVE  NewOrder(tag, p, q) \in BookOrder
BY DEF NewOrder, BookOrder, OrderPurpose

LEMMA AcceptType ==
    ASSUME ExchangeTypeOK, NEW o \in BookOrder, Accept(o)
    PROVE  ExchangeTypeOK' /\ Len(book') = Len(book) + 1
<1>1. PICK x \in BookOrder : book' = Append(book, x)
    <2>1. [o EXCEPT !.status = "REJECTED"] \in BookOrder
        BY DEF BookOrder
    <2> QED
        BY <2>1 DEF Accept
<1>2. net' = net
    BY DEF Accept
<1> QED
    BY <1>1, <1>2 DEF ExchangeTypeOK

LEMMA SettleType ==
    ASSUME ExchangeTypeOK, NEW i \in DOMAIN book, NEW f \in Nat,
           NEW status \in {"COMPLETE", "CANCELLED"}, Settle(i, status, f)
    PROVE  ExchangeTypeOK' /\ Len(book') = Len(book)
<1>1. [book[i] EXCEPT !.status = status, !.filled = f] \in BookOrder
    <2>1. book[i] \in BookOrder
        BY DEF ExchangeTypeOK
    <2> QED
        BY <2>1 DEF BookOrder
<1>2. book' = [book EXCEPT ![i] = [book[i] EXCEPT !.status = status, !.filled = f]]
    BY DEF Settle, ExchangeTypeOK
<1>3. book' \in Seq(BookOrder) /\ Len(book') = Len(book)
    <2>1. book \in Seq(BookOrder)
        BY DEF ExchangeTypeOK
    <2> QED
        BY <1>1, <1>2, <2>1
<1>4. net' \in Int
    <2>1. net' = net + f \/ net' = net - f
        BY DEF Settle
    <2> QED
        BY <2>1 DEF ExchangeTypeOK
<1> QED
    BY <1>3, <1>4 DEF ExchangeTypeOK

LEMMA ExchangeStepType ==
    ASSUME ExchangeTypeOK, ExchangeStep
    PROVE  ExchangeTypeOK' /\ Len(book') = Len(book)
<1>1. PICK i \in DOMAIN book : Fill(i) \/ FillPart(i) \/ Trigger(i)
    BY DEF ExchangeStep
<1>2. book[i].qty \in Nat
    <2>1. book[i] \in BookOrder
        BY DEF ExchangeTypeOK
    <2> QED
        BY <2>1 DEF BookOrder
<1>3. CASE Fill(i)
    BY <1>2, <1>3, SettleType DEF Fill
<1>4. CASE FillPart(i)
    BY <1>2, <1>4, SettleType DEF FillPart
<1>5. CASE Trigger(i)
    BY <1>2, <1>5, SettleType DEF Trigger
<1> QED
    BY <1>1, <1>3, <1>4, <1>5

LEMMA PollType ==
    ASSUME ExchangeTypeOK, KiteTypeOK, DOMAIN orderInfo \subseteq DOMAIN book,
           NEW i \in DOMAIN book, Poll(i)
    PROVE  KiteTypeOK' /\ UNCHANGED exchangeVars /\ DOMAIN orderInfo' \subseteq DOMAIN book
<1>1. book[i] \in BookOrder
    BY DEF ExchangeTypeOK
<1>2. ASSUME NEW s \in OrderStatus, NEW f \in Nat, Remember(i, s, f)
      PROVE  /\ DOMAIN orderInfo' \subseteq DOMAIN book
             /\ \A j \in DOMAIN orderInfo' : orderInfo'[j] \in [status : OrderStatus, filled : Nat]
    BY <1>2 DEF Remember, KiteTypeOK
<1>3. DOMAIN book \subseteq Nat
    BY DEF ExchangeTypeOK
<1>4. CASE PollSettles(i)
    <2>1. MapKiteStatus(book[i].status) \in OrderStatus /\ book[i].filled \in Nat
        BY <1>1, StatusMapType DEF BookOrder
    <2> QED
        BY <1>2, <1>3, <1>4, <2>1 DEF PollSettles, KiteTypeOK, exchangeVars
<1>5. CASE PollTimesOut(i)
    <2>1. "UNKNOWN" \in OrderStatus /\ 0 \in Nat
        BY DEF OrderStatus, NonTerminalStatuses
    <2> QED
        BY <1>2, <1>3, <1>5, <2>1 DEF PollTimesOut, KiteTypeOK, exchangeVars
<1> QED
    BY <1>4, <1>5 DEF Poll

LEMMA RequestCancelType ==
    ASSUME ExchangeTypeOK, NEW i \in DOMAIN book, RequestCancel(i)
    PROVE  ExchangeTypeOK' /\ Len(book') = Len(book) /\ UNCHANGED kiteVars
<1>1. CASE Settle(i, "CANCELLED", 0)
    BY <1>1, SettleType DEF RequestCancel
<1>2. CASE UNCHANGED exchangeVars
    BY <1>2 DEF ExchangeTypeOK, exchangeVars, RequestCancel
<1> QED
    BY <1>1, <1>2 DEF RequestCancel

\* A row written for an order of the book keeps the orders table well formed.
LEMMA InsertType ==
    ASSUME DbTypeOK, NEW key \in OrderKeys, NEW s \in OrderStatus, NEW i \in Known,
           \A k \in DOMAIN dbOrders : dbOrders[k].bid \in Known,
           InsertOrder(key, s, i), ExchangeTypeOK
    PROVE  /\ DOMAIN dbOrders' \subseteq OrderKeys
           /\ \A k \in DOMAIN dbOrders' : dbOrders'[k] \in OrderRow /\ dbOrders'[k].bid \in Known
<1>1. [status |-> s, bid |-> i] \in OrderRow
    BY DEF OrderRow, OrderId, Known, ExchangeTypeOK
<1> QED
    BY <1>1 DEF InsertOrder, DbTypeOK

LEMMA UpdateType ==
    ASSUME DbTypeOK, NEW key, NEW s \in OrderStatus,
           \A k \in DOMAIN dbOrders : dbOrders[k].bid \in Known,
           UpdateOrder(key, s)
    PROVE  /\ DOMAIN dbOrders' = DOMAIN dbOrders
           /\ \A k \in DOMAIN dbOrders' : dbOrders'[k] \in OrderRow /\ dbOrders'[k].bid \in Known
<1>1. \A k \in DOMAIN dbOrders : [dbOrders[k] EXCEPT !.status = s] \in OrderRow
    BY DEF DbTypeOK, OrderRow
<1>2. dbOrders' = [k \in DOMAIN dbOrders |->
                      IF k = key THEN [dbOrders[k] EXCEPT !.status = s] ELSE dbOrders[k]]
    BY DEF UpdateOrder, DbTypeOK
<1> QED
    BY <1>1, <1>2 DEF DbTypeOK, OrderRow

LEMMA OpenPositionsType ==
    ASSUME WellFormed, NEW p \in OpenPositions
    PROVE  p \in PosRow /\ p.stop \in Known
BY DEF WellFormed, DbWF, ExchangeTypeOK, DbTypeOK, OpenPositions, BrokerPositions,
       NoPosition, NoOrder, PosRow, OrderId, Known

(***************************************************************************)
(* Which action touches which part of the state                            *)
(***************************************************************************)
Touches ==
    /\ UNCHANGED exchangeVars \/ Place \/ CancelStop \/ CancelNextEntry
         \/ ExchangeMoves
    /\ UNCHANGED kiteVars \/ Place \/ LookupByTag \/ PollPlaced \/ PollCancel
         \/ PollCancelledEntry
    /\ UNCHANGED dbVars \/ RiskCheck \/ EntryPlaced \/ EntryUnanswered
         \/ RecordFill \/ StopPlaced \/ SavePosition \/ VerifyStop \/ ExitPlaced
         \/ RecordExit \/ PressStop \/ MarkCancelled \/ ClearKillSwitch
    /\ UNCHANGED engineVars \/ ReceiveCandle \/ EntryUnanswered \/ ReadFill
         \/ StopFailed \/ ExitFailed \/ QueueSignal
    /\ UNCHANGED flagVars \/ Notify
    /\ UNCHANGED callVars \/ ReceiveCandle \/ EngineStep
    /\ UNCHANGED uiVars \/ PressStop \/ UiStep

LEMMA StepTouches == ASSUME [Next]_vars PROVE Touches
<1> USE DEF Touches, exchangeVars, kiteVars, dbVars, engineVars, flagVars, callVars, uiVars
<1>1. CASE ReceiveCandle
    BY <1>1 DEF ReceiveCandle, IgnoreCandle, StartCandle
<1>2. CASE EngineStep
    <2> USE DEF EngineStep, EntryStep, ExitStep
    <2>1. CASE ExecuteBuy
        BY <2>1 DEF ExecuteBuy
    <2>2. CASE ExecuteSell
        BY <2>2 DEF ExecuteSell
    <2>3. CASE RiskCheck
        BY <2>3 DEF RiskCheck
    <2>4. CASE Place
        BY <2>4 DEF Place, PlaceAccepted, PlaceRefused, PlaceUnanswered, Accept
    <2>5. CASE LookupByTag
        BY <2>5 DEF LookupByTag, LookupFinds, LookupFails
    <2>6. CASE PollPlaced
        BY <2>6 DEF PollPlaced, Poll, PollSettles, PollTimesOut
    <2>7. CASE EntryPlaced
        BY <2>7 DEF EntryPlaced, InsertFails
    <2>8. CASE EntryRefused
        BY <2>8 DEF EntryRefused
    <2>9. CASE EntryUnanswered
        BY <2>9 DEF EntryUnanswered, InsertFails
    <2>10. CASE ReadFill
        BY <2>10 DEF ReadFill
    <2>11. CASE RecordFill
        BY <2>11 DEF RecordFill
    <2>12. CASE StopPlaced
        BY <2>12 DEF StopPlaced
    <2>13. CASE StopFailed
        BY <2>13 DEF StopFailed, InsertFails
    <2>14. CASE SavePosition
        BY <2>14 DEF SavePosition
    <2>15. CASE SquareOff
        BY <2>15 DEF SquareOff
    <2>16. CASE CancelStop
        BY <2>16 DEF CancelStop, RequestCancel
    <2>17. CASE PollCancel
        BY <2>17 DEF PollCancel, Poll, PollSettles, PollTimesOut
    <2>18. CASE VerifyStop
        BY <2>18 DEF VerifyStop, RecordSale
    <2>19. CASE ExitPlaced
        BY <2>19 DEF ExitPlaced
    <2>20. CASE ExitFailed
        BY <2>20 DEF ExitFailed, InsertFails
    <2>21. CASE RecordExit
        BY <2>21 DEF RecordExit, RecordSale
    <2>22. CASE QueueSignal
        BY <2>22 DEF QueueSignal
    <2> QED
        BY <1>2, <2>1, <2>2, <2>3, <2>4, <2>5, <2>6, <2>7, <2>8, <2>9, <2>10, <2>11, <2>12, <2>13, <2>14, <2>15, <2>16, <2>17, <2>18, <2>19, <2>20, <2>21, <2>22
<1>3. CASE PressStop
    BY <1>3 DEF PressStop
<1>4. CASE UiStep
    <2> USE DEF UiStep
    <2>1. CASE ScanUnresolved
        BY <2>1 DEF ScanUnresolved
    <2>2. CASE CancelNextEntry
        BY <2>2 DEF CancelNextEntry, RequestCancel
    <2>3. CASE PollCancelledEntry
        BY <2>3 DEF PollCancelledEntry, Poll, PollSettles, PollTimesOut
    <2>4. CASE MarkCancelled
        BY <2>4 DEF MarkCancelled
    <2> QED
        BY <1>4, <2>1, <2>2, <2>3, <2>4
<1>5. CASE ClearKillSwitch
    BY <1>5 DEF ClearKillSwitch
<1>6. CASE Notify
    BY <1>6 DEF Notify, NotifyStaleFeed, NotifyNetworkFailure, NotifyReconnected, Reconcile
<1>7. CASE ExchangeMoves
    BY <1>7 DEF ExchangeMoves
<1>8. CASE UNCHANGED vars
    BY <1>8 DEF vars
<1> QED
    BY <1>1, <1>2, <1>3, <1>4, <1>5, <1>6, <1>7, <1>8 DEF Next

(***************************************************************************)
(* Each part of the state stays well formed                                *)
(***************************************************************************)

LEMMA OrderQtyType ==
    ASSUME CallWF PROVE OrderQty \in Nat
BY SizesAssumption DEF CallWF, CallTypeOK, PosRow, OrderQty

\* Orders join the book and never leave it, so an id stays good.
LEMMA BookStep ==
    ASSUME WellFormed, [Next]_vars
    PROVE  ExchangeTypeOK' /\ Len(book) <= Len(book')
<1> USE DEF WellFormed
<1>1. CASE UNCHANGED exchangeVars
    BY <1>1 DEF ExchangeTypeOK, exchangeVars
<1>2. CASE Place
    <2>1. sid \in SignalIds /\ purpose \in OrderPurpose
        BY <1>2 DEF Place, InCall, Resting, CallWF, CallTypeOK
    <2>2. NewOrder(sid, purpose, OrderQty) \in BookOrder
        BY <2>1, NewOrderType, OrderQtyType
    <2>3. Accept(NewOrder(sid, purpose, OrderQty)) \/ UNCHANGED exchangeVars
        BY <1>2 DEF Place, PlaceAccepted, PlaceRefused, PlaceUnanswered
    <2> QED
        BY <2>2, <2>3, <1>1, AcceptType DEF ExchangeTypeOK
<1>3. CASE CancelStop
    <2>1. ASSUME pos.stop # NoOrder PROVE pos.stop \in DOMAIN book
        BY <2>1 DEF CallWF, Known, NoOrder, ExchangeTypeOK
    <2> QED
        BY <1>1, <1>3, <2>1, RequestCancelType DEF CancelStop, ExchangeTypeOK
<1>4. CASE CancelNextEntry
    <2>1. CASE UNCHANGED exchangeVars
        BY <1>1, <2>1
    <2>2. ASSUME NEW o \in uiTodo, o.bid # NoOrder, RequestCancel(o.bid)
          PROVE  ExchangeTypeOK' /\ Len(book) <= Len(book')
        <3>1. o.bid \in DOMAIN book
            BY <2>2 DEF UiWF, Known, NoOrder, ExchangeTypeOK
        <3> QED
            BY <2>2, <3>1, RequestCancelType DEF ExchangeTypeOK
    <2> QED
        BY <1>4, <2>1, <2>2 DEF CancelNextEntry, exchangeVars
<1>5. CASE ExchangeMoves
    BY <1>5, ExchangeStepType DEF ExchangeMoves, ExchangeTypeOK
<1> QED
    BY <1>1, <1>2, <1>3, <1>4, <1>5, StepTouches DEF Touches

LEMMA KnownGrows ==
    ASSUME WellFormed, [Next]_vars
    PROVE  Known \subseteq Known' /\ DOMAIN book \subseteq DOMAIN book'
BY BookStep DEF WellFormed, ExchangeTypeOK, Known

LEMMA KiteStep ==
    ASSUME WellFormed, [Next]_vars PROVE KiteWF'
<1> USE DEF WellFormed
<1>1. CASE UNCHANGED kiteVars
    BY <1>1, KnownGrows DEF kiteVars, KiteWF, KiteTypeOK
<1>2. CASE Place
    BY <1>1, <1>2, KnownGrows DEF Place, PlaceAccepted, PlaceRefused, PlaceUnanswered, kiteVars,
        KiteWF, KiteTypeOK
<1>3. CASE LookupByTag
    BY <1>3, KnownGrows DEF LookupByTag, LookupFinds, LookupFails, kiteVars, KiteWF, KiteTypeOK
<1>4. ASSUME NEW i \in DOMAIN book, Poll(i) PROVE KiteWF'
    BY <1>4, PollType DEF KiteWF, exchangeVars
<1>5. CASE PollPlaced \/ PollCancel
    <2>1. bid \in DOMAIN book
        BY <1>5 DEF PollPlaced, PollCancel, CallWF, Known, NoOrder, ExchangeTypeOK
    <2> QED
        BY <1>4, <1>5, <2>1 DEF PollPlaced, PollCancel
<1>6. CASE PollCancelledEntry
    <2>1. uiOrder.bid \in DOMAIN book
        BY <1>6 DEF PollCancelledEntry, UiWF, Known, NoOrder, ExchangeTypeOK
    <2> QED
        BY <1>4, <1>6, <2>1 DEF PollCancelledEntry
<1> QED
    BY <1>1, <1>2, <1>3, <1>5, <1>6, StepTouches DEF Touches

\* What DbWF says of the orders table, and of the rest of the database.
RowsWF == /\ DOMAIN dbOrders \subseteq OrderKeys
          /\ \A k \in DOMAIN dbOrders : dbOrders[k] \in OrderRow /\ dbOrders[k].bid \in Known

TablesWF == /\ dbPosition \in PosRow /\ dbPosition.stop \in Known
            /\ tradedQty \in Nat /\ killSwitch \in BOOLEAN /\ lossLatch \in BOOLEAN

LEMMA DbWFSplits == DbWF <=> RowsWF /\ TablesWF
BY DEF DbWF, DbTypeOK, RowsWF, TablesWF

LEMMA KeyType ==
    ASSUME CallWF, InCall, NEW p \in OrderPurpose
    PROVE  <<sid, p>> \in OrderKeys
BY DEF CallWF, OrderKeys

LEMMA RowsStep ==
    ASSUME WellFormed, [Next]_vars PROVE RowsWF'
<1> USE DEF WellFormed
<1>1. CASE UNCHANGED dbOrders
    BY <1>1, KnownGrows DEF RowsWF, DbWF, DbTypeOK
<1>2. ASSUME NEW key \in OrderKeys, NEW s \in OrderStatus, NEW i \in Known, InsertOrder(key, s, i)
      PROVE  RowsWF'
    BY <1>2, InsertType, KnownGrows DEF RowsWF, DbWF
<1>3. ASSUME NEW key, NEW s \in OrderStatus, UpdateOrder(key, s)
      PROVE  RowsWF'
    BY <1>3, UpdateType, KnownGrows DEF RowsWF, DbWF, DbTypeOK
<1>4. /\ bid \in Known
      /\ NoOrder \in Known
      /\ {"SUBMITTED", "UNKNOWN", "COMPLETE", "CANCELLED"} \subseteq OrderStatus
      /\ {"ENTRY", "EXIT", "STOP_LOSS"} \subseteq OrderPurpose
    BY DEF CallWF, Known, NoOrder, ExchangeTypeOK, OrderStatus, TerminalStatuses,
           NonTerminalStatuses, OrderPurpose
<1>5. CASE UNCHANGED dbVars
    BY <1>1, <1>5 DEF dbVars
<1>6. CASE RiskCheck \/ SavePosition \/ VerifyStop \/ PressStop \/ ClearKillSwitch
    BY <1>1, <1>6 DEF RiskCheck, SavePosition, VerifyStop, PressStop, ClearKillSwitch
<1>7. CASE EntryPlaced
    BY <1>1, <1>2, <1>4, <1>7, KeyType DEF EntryPlaced, InCall, Resting, InsertFails
<1>8. CASE EntryUnanswered
    BY <1>1, <1>2, <1>4, <1>8, KeyType DEF EntryUnanswered, InCall, Resting, InsertFails
<1>9. CASE StopPlaced
    BY <1>2, <1>4, <1>9, KeyType DEF StopPlaced, InCall, Resting
<1>10. CASE ExitPlaced
    BY <1>2, <1>4, <1>10, KeyType DEF ExitPlaced, InCall, Resting
<1>11. CASE RecordFill
    BY <1>1, <1>3, <1>4, <1>11 DEF RecordFill
<1>12. CASE RecordExit
    BY <1>3, <1>4, <1>12 DEF RecordExit
<1>13. CASE MarkCancelled
    BY <1>1, <1>3, <1>4, <1>13 DEF MarkCancelled
<1> QED
    BY <1>5, <1>6, <1>7, <1>8, <1>9, <1>10, <1>11, <1>12, <1>13, StepTouches DEF Touches

LEMMA TablesStep ==
    ASSUME WellFormed, [Next]_vars PROVE TablesWF'
<1> USE DEF WellFormed
<1>1. TablesWF
    BY DbWFSplits
<1>2. CASE UNCHANGED <<dbPosition, tradedQty, killSwitch, lossLatch>>
    BY <1>1, <1>2, KnownGrows DEF TablesWF
<1>3. CASE UNCHANGED dbVars
    BY <1>2, <1>3 DEF dbVars
<1>4. CASE RiskCheck
    BY <1>1, <1>4, KnownGrows DEF RiskCheck, TablesWF
<1>5. CASE EntryPlaced \/ EntryUnanswered \/ RecordFill \/ StopPlaced \/ ExitPlaced \/ MarkCancelled
    BY <1>2, <1>5 DEF EntryPlaced, EntryUnanswered, RecordFill, StopPlaced, ExitPlaced, MarkCancelled
<1>6. CASE SavePosition
    BY <1>1, <1>6, KnownGrows DEF SavePosition, TablesWF, CallWF, CallTypeOK
<1>7. ASSUME RecordSale(pos.qty), UNCHANGED <<killSwitch, lossLatch>>
      PROVE  TablesWF'
    <2>1. pos.qty \in Nat
        BY DEF CallWF, CallTypeOK, PosRow
    <2>2. NoPosition \in PosRow /\ NoPosition.stop \in Known'
        BY BookStep DEF NoPosition, NoOrder, PosRow, OrderId, Known, ExchangeTypeOK
    <2> QED
        BY <1>1, <1>7, <2>1, <2>2 DEF RecordSale, TablesWF
<1>8. CASE VerifyStop
    BY <1>2, <1>7, <1>8 DEF VerifyStop
<1>9. CASE RecordExit
    BY <1>7, <1>9 DEF RecordExit
<1>10. CASE PressStop \/ ClearKillSwitch
    BY <1>1, <1>10, KnownGrows DEF PressStop, ClearKillSwitch, TablesWF
<1> QED
    BY <1>3, <1>4, <1>5, <1>6, <1>8, <1>9, <1>10, StepTouches DEF Touches

LEMMA EngineTypeStep ==
    ASSUME WellFormed, [Next]_vars PROVE EngineTypeOK'
<1> USE DEF WellFormed, EngineTypeOK
<1>1. UNCHANGED <<networkBlocked, feedStale, safeMode>>
        \/ {networkBlocked', feedStale', safeMode'} \subseteq BOOLEAN
    <2>1. CASE UNCHANGED flagVars
        BY <2>1 DEF flagVars
    <2>2. CASE Notify
        BY <2>2 DEF Notify, NotifyStaleFeed, NotifyNetworkFailure, NotifyReconnected, Reconcile
    <2> QED
        BY <2>1, <2>2, StepTouches DEF Touches
<1>2. CASE UNCHANGED engineVars
    BY <1>1, <1>2 DEF engineVars
<1>3. CASE ReceiveCandle
    BY <1>1, <1>3, SizesAssumption
    DEF ReceiveCandle, IgnoreCandle, StartCandle, TakePending, Candles, NoSignal
<1>4. CASE EntryUnanswered \/ ReadFill \/ StopFailed \/ ExitFailed
    BY <1>1, <1>4 DEF EntryUnanswered, ReadFill, StopFailed, ExitFailed, Halt, engineVars
<1>5. CASE QueueSignal
    <2>1. \A s \in {"BUY", "SELL"} : <<s, candle>> \in SignalIds
        BY <1>5 DEF QueueSignal, Resting, CallWF, SignalIds
    <2> QED
        BY <1>1, <1>5, <2>1 DEF QueueSignal, SignalsGiven
<1> QED
    BY <1>2, <1>3, <1>4, <1>5, StepTouches DEF Touches

LEMMA LeaveType ==
    ASSUME WellFormed, [Next]_vars, UNCHANGED candle,
           NEW l \in {"idle", "squareOff", "signal"}, pc \notin Resting, Leave(l)
    PROVE  CallWF'
BY BookStep DEF InCall, Resting, WellFormed, CallWF, CallTypeOK, Leave, EngineLocations, NoPosition, NoOrder,
   NoSignal, PosRow, OrderId, OrderPurpose, Known, ExchangeTypeOK

LEMMA AfterExitType == AfterExit \in {"idle", "squareOff", "signal"}
BY DEF AfterExit

LEMMA CallStep ==
    ASSUME WellFormed, [Next]_vars PROVE CallWF'
<1> USE DEF WellFormed
<1> USE KnownGrows DEF InCall, Resting, CallWF, CallTypeOK, GoTo, EngineLocations, OrderPurpose, engineVars
<1>1. CASE UNCHANGED callVars
    <2>1. UNCHANGED candle \/ ReceiveCandle
        BY StepTouches DEF Touches, EntryUnanswered, ReadFill, StopFailed, ExitFailed, QueueSignal, Halt
    <2> QED
        BY <1>1, <2>1 DEF callVars, ReceiveCandle, IgnoreCandle, StartCandle
<1>2. CASE ReceiveCandle
    <2>1. PICK c \in Candles : IgnoreCandle(c) \/ StartCandle(c)
        BY <1>2 DEF ReceiveCandle
    <2>2. CASE IgnoreCandle(c)
        BY <2>2 DEF IgnoreCandle, callVars
    <2>3. CASE StartCandle(c)
        BY <2>3 DEF StartCandle, EngineTypeOK
    <2> QED
        BY <2>1, <2>2, <2>3
<1>3. CASE ExecuteBuy
    BY <1>3, LeaveType DEF ExecuteBuy
<1>4. CASE ExecuteSell
    BY <1>4, LeaveType, OpenPositionsType DEF ExecuteSell
<1>5. CASE RiskCheck
    BY <1>5, LeaveType DEF RiskCheck
<1>6. CASE Place
    <2>1. CASE pc' \in {"refused", "lookup"} /\ UNCHANGED bid
        BY <1>6, <2>1 DEF Place
    <2>2. CASE PlaceAccepted(NewOrder(sid, purpose, OrderQty)) /\ bid' = Len(book') /\ pc' = "poll"
        <3>1. NewOrder(sid, purpose, OrderQty) \in BookOrder
            BY <1>6, NewOrderType, OrderQtyType DEF Place
        <3>2. ExchangeTypeOK' /\ Len(book') = Len(book) + 1
            BY <2>2, <3>1, AcceptType DEF PlaceAccepted
        <3>3. bid' \in Known' /\ bid' \in OrderId /\ bid' # NoOrder
            BY <2>2, <3>2 DEF Known, OrderId, NoOrder, ExchangeTypeOK
        <3> QED
            BY <1>6, <2>2, <3>3 DEF Place
    <2> QED
        BY <1>6, <2>1, <2>2 DEF Place
<1>7. CASE LookupByTag
    <2>1. \A i \in DOMAIN book : i \in Known /\ i \in OrderId /\ i # NoOrder
        BY DEF ExchangeTypeOK, Known, OrderId, NoOrder
    <2> QED
        BY <1>7, <2>1 DEF LookupByTag
<1>8. CASE PollPlaced
    BY <1>8 DEF PollPlaced
<1>9. CASE EntryPlaced
    BY <1>9, LeaveType DEF EntryPlaced
<1>10. CASE EntryRefused
    BY <1>10, LeaveType DEF EntryRefused
<1>11. CASE EntryUnanswered
    BY <1>11, LeaveType DEF EntryUnanswered, Halt
<1>12. CASE ReadFill
    <2>1. CASE Leave("squareOff")
        BY <1>12, <2>1, LeaveType DEF ReadFill, Halt
    <2>2. CASE ~Leave("squareOff")
        <3>1. FilledQty(orderInfo[bid]) \in Nat
            BY SizesAssumption DEF FilledQty
        <3>2. NoOrder \in Known /\ NoOrder \in OrderId
            BY DEF Known, NoOrder, OrderId, ExchangeTypeOK
        <3>3. pos' \in PosRow /\ pos'.stop \in Known
            BY <1>12, <2>2, <3>1, <3>2 DEF ReadFill, PosRow
        <3> QED
            BY <1>12, <2>2, <3>3 DEF ReadFill
    <2> QED
        BY <2>1, <2>2
<1>13. CASE RecordFill
    BY <1>13, LeaveType DEF RecordFill
<1>14. CASE StopPlaced
    BY <1>14 DEF StopPlaced, PosRow, OrderId
<1>15. CASE StopFailed
    BY <1>15 DEF StopFailed, Halt
<1>16. CASE SavePosition
    BY <1>16, LeaveType DEF SavePosition
<1>17. CASE SquareOff
    BY <1>17, OpenPositionsType DEF SquareOff, SignalIds
<1>18. CASE CancelStop
    BY <1>18 DEF CancelStop, PosRow
<1>19. CASE PollCancel
    BY <1>19 DEF PollCancel
<1>20. CASE VerifyStop
    BY <1>20, LeaveType, AfterExitType DEF VerifyStop
<1>21. CASE ExitPlaced
    BY <1>21 DEF ExitPlaced
<1>22. CASE ExitFailed
    BY <1>22, LeaveType, AfterExitType DEF ExitFailed, Halt
<1>23. CASE RecordExit
    BY <1>23, LeaveType, AfterExitType DEF RecordExit
<1>24. CASE QueueSignal
    BY <1>24, LeaveType DEF QueueSignal
<1> QED
    BY StepTouches, <1>1, <1>2, <1>3, <1>4, <1>5, <1>6, <1>7, <1>8, <1>9, <1>10, <1>11, <1>12, <1>13, <1>14, <1>15, <1>16, <1>17, <1>18, <1>19, <1>20, <1>21, <1>22, <1>23, <1>24
    DEF Touches, EngineStep, EntryStep, ExitStep

LEMMA UiStepWF ==
    ASSUME WellFormed, [Next]_vars PROVE UiWF'
<1> USE DEF WellFormed
<1>1. CASE UNCHANGED uiVars
    BY <1>1, KnownGrows DEF uiVars, UiWF, UiTypeOK
<1>2. CASE PressStop
    BY <1>2, KnownGrows, SessionAssumption DEF PressStop, UiWF, UiTypeOK, UiLocations
<1>3. CASE ScanUnresolved
    <2>1. \A k \in UnresolvedEntries :
             /\ [key |-> k, status |-> dbOrders[k].status, bid |-> dbOrders[k].bid] \in UiRow
             /\ dbOrders[k].bid \in Known
        BY DEF UnresolvedEntries, EntryRows, DbWF, DbTypeOK, OrderRow, UiRow
    <2> QED
        BY <1>3, <2>1, KnownGrows DEF ScanUnresolved, UiWF, UiTypeOK, UiLocations
<1>4. CASE CancelNextEntry
    <2>1. NoRow \in UiRow /\ NoRow.bid \in Known
        BY DEF NoRow, NoOrder, NoSignal, UiRow, OrderId, OrderStatus, NonTerminalStatuses,
               Known, ExchangeTypeOK
    <2> QED
        BY <1>4, <2>1, KnownGrows DEF CancelNextEntry, UiWF, UiTypeOK, UiLocations
<1>5. CASE PollCancelledEntry
    BY <1>5, KnownGrows DEF PollCancelledEntry, UiWF, UiTypeOK, UiLocations
<1>6. CASE MarkCancelled
    <2>1. NoRow \in UiRow /\ NoRow.bid \in Known
        BY DEF NoRow, NoOrder, NoSignal, UiRow, OrderId, OrderStatus, NonTerminalStatuses,
               Known, ExchangeTypeOK
    <2> QED
        BY <1>6, <2>1, KnownGrows DEF MarkCancelled, UiWF, UiTypeOK, UiLocations
<1> QED
    BY <1>1, <1>2, <1>3, <1>4, <1>5, <1>6, StepTouches DEF Touches, UiStep

(***************************************************************************)
(* The theorem                                                             *)
(***************************************************************************)

LEMMA WellFormedInit == Init => WellFormed
<1> SUFFICES ASSUME Init PROVE WellFormed
    OBVIOUS
<1>1. ExchangeTypeOK /\ Known = {0}
    BY DEF Init, ExchangeTypeOK, Known
<1>0. DOMAIN << >> = {}
    OBVIOUS
<1>2. KiteWF
    <2>1. DOMAIN orderInfo = {} /\ brokerHalted = FALSE
        BY <1>0 DEF Init, KiteInit
    <2> QED
        BY <2>1 DEF KiteWF, KiteTypeOK
<1>3. DbWF
    <2>1. DOMAIN dbOrders = {}
        BY <1>0 DEF Init, DbInit
    <2>2. /\ dbPosition \in PosRow /\ dbPosition.stop \in Known
          /\ tradedQty \in Nat /\ killSwitch \in BOOLEAN /\ lossLatch \in BOOLEAN
        BY <1>1 DEF Init, DbInit, NoPosition, NoOrder, PosRow, OrderId
    <2> QED
        BY <2>1, <2>2 DEF DbWF, DbTypeOK
<1>4. EngineTypeOK
    <2>1. candle \in 0..MaxCandle
        BY SizesAssumption DEF Init
    <2> QED
        BY <2>1 DEF Init, EngineTypeOK
<1>5. CallWF
    BY <1>1 DEF Init, InCall, Resting, CallWF, CallTypeOK, EngineLocations, OrderPurpose, NoPosition, NoOrder,
                PosRow, OrderId
<1>6. UiWF
    BY <1>1, SessionAssumption DEF Init, UiWF, UiTypeOK, UiLocations, NoRow, NoOrder, UiRow, OrderId,
                OrderStatus, NonTerminalStatuses
<1> QED
    BY <1>1, <1>2, <1>3, <1>4, <1>5, <1>6 DEF WellFormed

LEMMA WellFormedStep == WellFormed /\ [Next]_vars => WellFormed'
BY BookStep, KiteStep, RowsStep, TablesStep, DbWFSplits, EngineTypeStep, CallStep, UiStepWF
DEF WellFormed, DbWF, DbTypeOK, RowsWF, TablesWF

\* The strengthened invariant, on which the other safety proofs build.
THEOREM SessionWellFormed == Spec => []WellFormed
BY WellFormedInit, WellFormedStep, PTL DEF Spec

\* Every variable of a live session keeps its type: no fault, alert or
\* interleaving makes the engine order, hold or book a negative quantity, or
\* poll an order that is not on the book.
THEOREM TypeCorrect == Spec => []TypeOK
<1>1. WellFormed => TypeOK
    BY DEF WellFormed, TypeOK, KiteWF, DbWF, CallWF, UiWF
<1> QED
    BY <1>1, SessionWellFormed, PTL

=============================================================================
